---------------------------- MODULE PresetRegister ----------------------------
(***************************************************************************)
(* What PluginPresetStateExchange promises the audio callback: a register  *)
(* holding the state published last.  Publishing replaces it in one step,  *)
(* and adopting copies it, whole, in one step.  The callback is free not   *)
(* to adopt, and to adopt again what it holds already.                     *)
(***************************************************************************)
EXTENDS Naturals

CONSTANT StateWords   \* the memory words of a RealtimePresetState

VARIABLES
    latest,    \* the number of the publication the register holds
    held       \* the words of the state the audio callback plays

vars == <<latest, held>>

Init ==
    /\ latest = 0
    /\ held = [w \in StateWords |-> 0]

PublishNext ==
    /\ latest' = latest + 1
    /\ UNCHANGED held

AdoptLatest ==
    /\ held' = [w \in StateWords |-> latest]
    /\ UNCHANGED latest

Next == PublishNext \/ AdoptLatest

Spec == Init /\ [][Next]_vars
============================================================================
