------------------------- MODULE MCPluginProcessor -------------------------
(* Instances of PluginProcessor for TLC. *)
EXTENDS PluginProcessor

CONSTANTS state, h1, h2, default, other, invalid

MCStateWords     == {state}
MCHostThreads    == {h1, h2}
MCDocuments      == {default, other, invalid}
MCValidDocuments == {default, other}
============================================================================
