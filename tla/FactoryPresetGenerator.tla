------------------------ MODULE FactoryPresetGenerator ------------------------
(***************************************************************************)
(* The generator of the VST3 factory presets.  For each preset file that   *)
(* it collects it lets a component of the plug-in take the preset as its    *)
(* state, serialises the component with Steinberg's PresetFile, and checks  *)
(* the result with a second component; only then it writes, one file after  *)
(* the other, to a directory that may hold the output of earlier runs.      *)
(*                                                                         *)
(* Every call of the module, of PresetFile and of the file system may fail, *)
(* and the process may be killed.  The presets are taken in any order.      *)
(***************************************************************************)
EXTENDS Naturals, FiniteSets

CONSTANTS
    Sources,    \* preset files below the source directory
    Names,      \* of files without their extension
    Files,      \* in the output directory
    NameOf,     \* of a source
    FileOf,     \* what a name denotes in the output directory
    Garbled,    \* data that is not what was given
    Absent,     \* no such file
    MaxRuns     \* bound: of the generator

ASSUME GeneratorAssumption ==
    /\ NameOf \in [Sources -> Names] /\ FileOf \in [Names -> Files]
    /\ MaxRuns \in Nat
    /\ Garbled \notin [source : Sources, run : Nat]

VARIABLES
    run, pc, exit,
    collected,      \* collection.files
    remaining,      \* those that main's loop has not taken
    source,         \* the file of this round; its content, as it was read
    content,
    outputNames, generatedPresets,
    sessions,       \* sourceComponent and restoredComponent
    components,     \* what became of the component of each
    restoredState,  \* of the restored component
    output,         \* the stream savePreset writes to
    unwritten,      \* those that writeGeneratedPresets has not written
    outputs,        \* the files of the output directory ...
    before          \* history: ... when this run began

roundVars   == <<source, content>>
sessionVars == <<sessions, components, restoredState>>
fileVars    == <<outputs, before>>
vars == <<run, pc, exit, collected, remaining, roundVars, outputNames,
          generatedPresets, sessionVars, output, unwritten, fileVars>>

Roles == {"source", "restored"}

\* What is read of a file, in which run, and what a preset consists of.
Contents == [source : Sources, run : 1 .. MaxRuns]
Presets  == [state : Contents \union {Garbled}, metaInfo : Contents \union {Garbled}]
NoContent == Garbled
NoPreset  == [state |-> Garbled, metaInfo |-> Garbled]

GeneratedPreset == [destination : Files, data : Presets]

\* A ComponentSession.
NoSession == [component |-> FALSE, initialized |-> FALSE]

\* A component is terminated when it was initialized, and not otherwise.
Terminate(component) == IF component = "initialized" THEN "terminated" ELSE "misused"

\* ComponentSession::terminate, in the destructor.
AfterTerminate(session, component) ==
    IF session.initialized /\ session.component THEN Terminate(component) ELSE component

EndSessions ==
    /\ sessions' = [role \in Roles |-> NoSession]
    /\ components' = [role \in Roles |-> AfterTerminate(sessions[role], components[role])]
    /\ restoredState' = NoContent

Goto(next) == pc' = next /\ UNCHANGED <<run, exit, before>>

\* What main has on its stack is gone, and nothing else is done.
Return(code) ==
    /\ pc' = "ended" /\ exit' = code
    /\ EndSessions
    /\ UNCHANGED <<run, collected, remaining, roundVars, outputNames,
                   generatedPresets, output, unwritten, fileVars>>

Init ==
    /\ run = 1 /\ MaxRuns >= 1
    /\ pc = "start" /\ exit = "none"
    /\ collected = {} /\ remaining = {}
    /\ source = Absent /\ content = NoContent
    /\ outputNames = {} /\ generatedPresets = {} /\ unwritten = {}
    /\ sessions = [role \in Roles |-> NoSession]
    /\ components = [role \in Roles |-> "none"]
    /\ restoredState = NoContent /\ output = NoPreset
    /\ outputs = [file \in Files |-> Absent] /\ before = outputs

\* The generator is run again, whatever became of it.
RunAgain ==
    /\ pc = "ended" /\ run < MaxRuns
    /\ run' = run + 1
    /\ pc' = "start" /\ exit' = "none"
    /\ collected' = {} /\ remaining' = {}
    /\ source' = Absent /\ content' = NoContent
    /\ outputNames' = {} /\ generatedPresets' = {} /\ unwritten' = {}
    /\ sessions' = [role \in Roles |-> NoSession]
    /\ components' = [role \in Roles |-> "none"]
    /\ restoredState' = NoContent /\ output' = NoPreset
    /\ before' = outputs /\ UNCHANGED outputs

\* The process is killed: no destructor runs.
Kill ==
    /\ pc # "ended"
    /\ pc' = "ended" /\ exit' = "killed"
    /\ UNCHANGED <<run, collected, remaining, roundVars, outputNames,
                   generatedPresets, output, unwritten, fileVars>>
    /\ sessions' = [role \in Roles |-> NoSession]
    /\ components' = [role \in Roles |-> "none"]
    /\ restoredState' = NoContent

----------------------------------------------------------------------------
(* main, up to its loop *)

CheckArguments ==
    /\ pc = "start"
    /\ \/ Return("2") \/ Return("1")
       \/ /\ Goto("collect")
          /\ UNCHANGED <<collected, remaining, roundVars, outputNames, generatedPresets,
                         sessionVars, output, unwritten, outputs>>

\* Discovery may report errors along with files, or find none.
CollectSources ==
    /\ pc = "collect"
    /\ \/ Return("1")
       \/ /\ collected' \in (SUBSET Sources) \ {{}}
          /\ remaining' = collected'
          /\ Goto("module")
          /\ UNCHANGED <<roundVars, outputNames, generatedPresets, sessionVars, output,
                         unwritten, outputs>>

\* The module is loaded and exposes one TempoFlow component, no more and no less.
LoadModule ==
    /\ pc = "module"
    /\ \E moduleLoads \in BOOLEAN, classCount \in 0 .. 2 :
          IF ~moduleLoads \/ classCount # 1 THEN Return("1")
          ELSE /\ Goto("next")
               /\ UNCHANGED <<collected, remaining, roundVars, outputNames,
                              generatedPresets, sessionVars, output, unwritten, outputs>>

----------------------------------------------------------------------------
(* The loop of main *)

TakeSource ==
    /\ pc = "next"
    /\ \E s \in remaining : source' = s /\ remaining' = remaining \ {s}
    /\ Goto("read")
    /\ UNCHANGED <<collected, content, outputNames, generatedPresets, sessionVars,
                   output, unwritten, outputs>>

\* The file is read, and validated.
ReadSource ==
    /\ pc = "read"
    /\ \/ Return("1")
       \/ /\ content' = [source |-> source, run |-> run]
          /\ Goto("name")
          /\ UNCHANGED <<collected, remaining, source, outputNames, generatedPresets,
                         sessionVars, output, unwritten, outputs>>

NameOutput ==
    \/ pc = "name" /\ NameOf[source] \in outputNames /\ Return("1")
    \/ /\ pc = "name" /\ NameOf[source] \notin outputNames
       /\ outputNames' = outputNames \union {NameOf[source]}
       /\ Goto("create source")
       /\ UNCHANGED <<collected, remaining, roundVars, generatedPresets, sessionVars,
                      output, unwritten, outputs>>

----------------------------------------------------------------------------
(* createAndVerifyPreset *)

\* A plausible bug: the session is marked before the component is initialized.
NotInitializedButMarked(role) ==
    /\ pc' = "ended" /\ exit' = "1"
    /\ components' = [r \in Roles |->
           AfterTerminate(IF r = role THEN [component |-> TRUE, initialized |-> TRUE]
                          ELSE sessions[r],
                          IF r = role THEN "created" ELSE components[r])]
    /\ sessions' = [r \in Roles |-> NoSession] /\ restoredState' = NoContent
    /\ UNCHANGED <<run, collected, remaining, roundVars, outputNames,
                   generatedPresets, output, unwritten, fileVars>>

\* initialize() fails: the session lets go of the component, which is not
\* terminated.
NotInitialized(role) ==
    /\ pc' = "ended" /\ exit' = "1"
    /\ components' = [r \in Roles |->
           IF r = role THEN "created" ELSE AfterTerminate(sessions[r], components[r])]
    /\ sessions' = [r \in Roles |-> NoSession] /\ restoredState' = NoContent
    /\ UNCHANGED <<run, collected, remaining, roundVars, outputNames,
                   generatedPresets, output, unwritten, fileVars>>

CreateComponent(role, next) ==
    \/ Return("1")                      \* createInstance gives nothing
    \/ NotInitialized(role)
    \/ /\ sessions' = [sessions EXCEPT ![role] = [component |-> TRUE, initialized |-> TRUE]]
       /\ components' = [components EXCEPT ![role] = "initialized"]
       /\ Goto(next)
       /\ UNCHANGED <<collected, remaining, roundVars, outputNames, generatedPresets,
                      restoredState, output, unwritten, outputs>>

CreateSource == pc = "create source" /\ CreateComponent("source", "save")

\* setComponentState and savePreset; what is saved need not be what was set.
SavePreset ==
    /\ pc = "save"
    /\ \/ Return("1")
       \/ /\ output' \in [state : {content, Garbled}, metaInfo : {content, Garbled}]
          /\ Goto("metadata")
          /\ UNCHANGED <<collected, remaining, roundVars, outputNames, generatedPresets,
                         sessionVars, unwritten, outputs>>

\* A plausible bug: the size of the metadata is compared, and not the bytes.
CheckMetaInfoSize ==
    /\ pc = "metadata"
    /\ Goto("create restored")
    /\ UNCHANGED <<collected, remaining, roundVars, outputNames, generatedPresets,
                   sessionVars, output, unwritten, outputs>>

CheckMetaInfo ==
    \/ pc = "metadata" /\ Return("1")
    \/ /\ pc = "metadata" /\ output.metaInfo = content
       /\ Goto("create restored")
       /\ UNCHANGED <<collected, remaining, roundVars, outputNames, generatedPresets,
                      sessionVars, output, unwritten, outputs>>

CreateRestored == pc = "create restored" /\ CreateComponent("restored", "load")

LoadPreset ==
    /\ pc = "load"
    /\ \/ Return("1")
       \/ /\ restoredState' \in {output.state, Garbled}
          /\ Goto("compare")
          /\ UNCHANGED <<collected, remaining, roundVars, outputNames, generatedPresets,
                         sessions, components, output, unwritten, outputs>>

\* A plausible bug: the sessions let go of their components only.
CompareStateLeaking ==
    /\ pc = "compare" /\ restoredState = content
    /\ generatedPresets' = generatedPresets \union
           {[destination |-> FileOf[NameOf[source]], data |-> output]}
    /\ sessions' = [role \in Roles |-> NoSession]
    /\ Goto("next")
    /\ UNCHANGED <<collected, remaining, roundVars, outputNames, components,
                   restoredState, output, unwritten, outputs>>

\* componentStateStartsWith; the result is set, and both components are
\* terminated.
CompareState ==
    \/ pc = "compare" /\ Return("1")
    \/ /\ pc = "compare" /\ restoredState = content
       /\ generatedPresets' = generatedPresets \union
              {[destination |-> FileOf[NameOf[source]], data |-> output]}
       /\ EndSessions
       /\ Goto("next")
       /\ UNCHANGED <<collected, remaining, roundVars, outputNames, output, unwritten,
                      outputs>>

----------------------------------------------------------------------------
(* main, after its loop *)

\* A plausible bug: the presets that are ready are written while others are not.
CreateDirectoryEarly ==
    /\ pc = "next" /\ generatedPresets # {}
    /\ unwritten' = generatedPresets
    /\ Goto("write")
    /\ UNCHANGED <<collected, remaining, roundVars, outputNames, generatedPresets,
                   sessionVars, output, outputs>>

CreateDirectory ==
    /\ pc = "next" /\ remaining = {}
    /\ \/ Return("1")
       \/ /\ unwritten' = generatedPresets
          /\ Goto("write")
          /\ UNCHANGED <<collected, remaining, roundVars, outputNames, generatedPresets,
                         sessionVars, output, outputs>>

\* A plausible bug: a preset that cannot be written is passed over.
WriteIfPossible ==
    /\ pc = "write"
    /\ \E preset \in unwritten :
          /\ \/ outputs' = [outputs EXCEPT ![preset.destination] = preset.data]
             \/ UNCHANGED outputs
          /\ unwritten' = unwritten \ {preset}
    /\ Goto("write")
    /\ UNCHANGED <<collected, remaining, roundVars, outputNames, generatedPresets,
                   sessionVars, output>>

\* replaceWithData replaces a file as a whole, or leaves it as it is.
WritePreset ==
    /\ pc = "write"
    /\ \E preset \in unwritten :
          \/ Return("1")
          \/ /\ outputs' = [outputs EXCEPT ![preset.destination] = preset.data]
             /\ unwritten' = unwritten \ {preset}
             /\ Goto("write")
             /\ UNCHANGED <<collected, remaining, roundVars, outputNames,
                            generatedPresets, sessionVars, output>>

Finish == pc = "write" /\ unwritten = {} /\ Return("0")

Main ==
    \/ CheckArguments \/ CollectSources \/ LoadModule
    \/ TakeSource \/ ReadSource \/ NameOutput
    \/ CreateSource \/ SavePreset \/ CheckMetaInfo
    \/ CreateRestored \/ LoadPreset \/ CompareState
    \/ CreateDirectory \/ WritePreset \/ Finish

Next == Main \/ Kill \/ RunAgain

Spec == Init /\ [][Next]_vars
----------------------------------------------------------------------------
(* Properties *)

TypeOK ==
    /\ run \in 1 .. MaxRuns
    /\ pc \in {"start", "collect", "module", "next", "read", "name", "create source",
               "save", "metadata", "create restored", "load", "compare", "write", "ended"}
    /\ exit \in {"none", "0", "1", "2", "killed"} /\ (exit = "none" <=> pc # "ended")
    /\ collected \subseteq Sources /\ remaining \subseteq collected
    /\ source \in collected \union {Absent}
    /\ content \in Contents \union {Garbled}
    /\ outputNames \subseteq Names
    /\ generatedPresets \subseteq GeneratedPreset /\ unwritten \subseteq generatedPresets
    /\ sessions \in [Roles -> [component : BOOLEAN, initialized : BOOLEAN]]
    /\ components \in [Roles -> {"none", "created", "initialized", "terminated"}]
    /\ restoredState \in Contents \union {Garbled}
    /\ output \in Presets
    /\ {outputs, before} \subseteq [Files -> Presets \union {Absent}]

\* The output of a source of a run, verified.
VerifiedPreset(s, r) ==
    [state |-> [source |-> s, run |-> r], metaInfo |-> [source |-> s, run |-> r]]

OutputOf(s) == FileOf[NameOf[s]]

\* No file of the output directory is touched before every preset of the run
\* was generated and verified: a source that cannot be read, is not valid or
\* does not survive the round trip costs none of the presets of earlier runs.
VerifiedBeforeWritten ==
    outputs # before =>
        \A s \in collected :
            [destination |-> OutputOf(s), data |-> VerifiedPreset(s, run)]
                \in generatedPresets

\* Whatever fails, and whenever the process is killed, a file of the output
\* directory holds the whole of a preset that was restored and compared, of a
\* source with its name.
OnlyVerifiedPresets ==
    \A file \in Files :
        outputs[file] # Absent =>
            \E s \in Sources, r \in 1 .. run :
                OutputOf(s) = file /\ outputs[file] = VerifiedPreset(s, r)

\* Success means that every collected source has its output, made in this run,
\* whatever earlier runs have left; where two names denote the same file (as on
\* a file system that ignores case) one of the two.
SuccessIsComplete ==
    exit = "0" =>
        /\ \A s \in collected : \E t \in collected :
              OutputOf(t) = OutputOf(s) /\ outputs[OutputOf(s)] = VerifiedPreset(t, run)
        /\ \A s, t \in collected : NameOf[s] = NameOf[t] => s = t

\* Every component that was initialized is terminated before its preset is
\* done, also where a call fails in between, and is used in between only.
ComponentsTerminated ==
    /\ pc \notin {"save", "metadata", "create restored", "load", "compare"} =>
           \A role \in Roles : components[role] # "initialized"
    /\ pc \in {"save", "metadata", "create restored", "load", "compare"} =>
           components["source"] = "initialized"
    /\ pc \in {"load", "compare"} => components["restored"] = "initialized"

(* The inductive invariant, in named parts. *)

\* A session holds its component from its initialization to its termination.
SessionsHoldComponents ==
    \A role \in Roles :
        sessions[role] = IF components[role] = "initialized"
                         THEN [component |-> TRUE, initialized |-> TRUE] ELSE NoSession

InRound == pc \in {"read", "name", "create source", "save", "metadata",
                   "create restored", "load", "compare"}

\* The sources that are done, and those that have their names.
Done  == (collected \ remaining) \ (IF InRound THEN {source} ELSE {})
Named == (collected \ remaining) \ (IF pc \in {"read", "name"} THEN {source} ELSE {})

Generated(s) == [destination |-> OutputOf(s), data |-> VerifiedPreset(s, run)]

GeneratedAreVerified ==
    /\ \A preset \in generatedPresets : \E s \in collected : preset = Generated(s)
    /\ pc # "ended" => \A s \in Done : Generated(s) \in generatedPresets

NamesAreDistinct ==
    pc # "ended" =>
        /\ \A s \in Named : NameOf[s] \in outputNames
        /\ \A s, t \in Named : NameOf[s] = NameOf[t] => s = t

\* What this round has established so far.
RoundIsConsistent ==
    /\ pc \in {"start", "collect"} => source = Absent /\ generatedPresets = {}
    /\ InRound => source \in collected \ remaining
    /\ InRound /\ pc # "read" => content = [source |-> source, run |-> run]
    /\ pc \in {"create restored", "load", "compare"} => output.metaInfo = content
    /\ pc = "compare" => restoredState \in {output.state, Garbled}

\* Nothing is written before the last phase, and each file that was is there.
WritingIsLast ==
    /\ pc \notin {"write", "ended"} => outputs = before
    /\ pc = "write" =>
           /\ remaining = {}
           /\ \A preset \in generatedPresets \ unwritten :
                 \E last \in generatedPresets :
                     /\ last.destination = preset.destination
                     /\ outputs[preset.destination] = last.data

GeneratorInv ==
    /\ TypeOK
    /\ SessionsHoldComponents
    /\ GeneratedAreVerified
    /\ NamesAreDistinct
    /\ RoundIsConsistent
    /\ WritingIsLast
    /\ VerifiedBeforeWritten /\ OnlyVerifiedPresets /\ SuccessIsComplete
    /\ ComponentsTerminated
============================================================================
