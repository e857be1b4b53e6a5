----------------------- MODULE MCPresetStateExchange -----------------------
(* Instances of PresetStateExchange for TLC: two words are enough for a *)
(* torn copy.                                                           *)
EXTENDS PresetStateExchange

CONSTANTS beats, meter

MCStateWords == {beats, meter}
============================================================================
