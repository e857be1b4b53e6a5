----------------------- MODULE MCFactoryPresetGenerator -----------------------
(* An instance of FactoryPresetGenerator for TLC: two presets of the same name *)
(* in different directories, and a name that differs from it in case only.    *)
EXTENDS FactoryPresetGenerator

CONSTANTS rock, rock2, Rock, jazz

MCSources == {rock, rock2, Rock, jazz}
MCNames   == {"rock", "Rock", "jazz"}
MCNameOf  == [s \in MCSources |-> IF s = jazz THEN "jazz" ELSE IF s = Rock THEN "Rock" ELSE "rock"]
MCFiles   == {"ROCK.vstpreset", "JAZZ.vstpreset"}
MCFileOf  == [n \in MCNames |-> IF n = "jazz" THEN "JAZZ.vstpreset" ELSE "ROCK.vstpreset"]
============================================================================
