---------------------------- MODULE MCPresetFiles ----------------------------
(* An instance of PresetFiles for TLC: presets a and b, and a text file c. *)
EXTENDS PresetFiles

CONSTANTS a, b, c, top, sub, deep

MCFiles       == {a, b, c}
MCDirectories == {top, sub, deep}
MCTempoflow   == {a, b}

\* top holds a, c and sub; sub holds deep, which lies too deep below top; deep
\* holds b.
MCParent == [x \in MCFiles \union MCDirectories |->
                CASE x \in {a, c, sub}  -> top
                  [] x = deep -> sub
                  [] x = b -> deep
                  [] OTHER -> Root]
MCcomparisonPath == [f \in MCFiles |-> CASE f = a -> 1 [] f = b -> 3 [] OTHER -> 2]

MCCalls == {<<top>>, <<sub>>, <<sub, a>>, <<c, sub, top>>, <<a, c, a>>, <<deep, b>>}

Regular(size, valid) == [kind |-> "regular", size |-> size, valid |-> valid]
MCNodes == {Absent, [kind |-> "link", size |-> 1, valid |-> FALSE],
            [kind |-> "special", size |-> 0, valid |-> FALSE],
            Regular(1, FALSE), Regular(1, TRUE), Regular(2, TRUE), Regular(4, TRUE)}
============================================================================
