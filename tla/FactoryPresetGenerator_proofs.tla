-------------------- MODULE FactoryPresetGenerator_proofs --------------------
(***************************************************************************)
(* The output directory of the generator, for any sources, names, files    *)
(* and numbers of runs: GeneratorInv is inductive.                         *)
(***************************************************************************)
EXTENDS FactoryPresetGenerator, TLAPS

LEMMA TerminateEnds ==
    ASSUME TypeOK, SessionsHoldComponents, EndSessions
    PROVE  /\ sessions' = [role \in Roles |-> NoSession]
           /\ components' \in [Roles -> {"none", "created", "terminated"}]
           /\ restoredState' = NoContent
<1>1. \A role \in Roles : AfterTerminate(sessions[role], components[role])
                              \in {"none", "created", "terminated"}
  <2>1. ASSUME NEW role \in Roles, components[role] = "initialized"
        PROVE  AfterTerminate(sessions[role], components[role]) = "terminated"
    BY <2>1 DEF SessionsHoldComponents, AfterTerminate, Terminate
  <2>2. ASSUME NEW role \in Roles, components[role] # "initialized"
        PROVE  AfterTerminate(sessions[role], components[role]) = components[role]
    BY <2>2 DEF SessionsHoldComponents, AfterTerminate, NoSession
  <2>3. \A role \in Roles : components[role] \in {"none", "created", "initialized", "terminated"}
    BY DEF TypeOK
  <2> QED BY <2>1, <2>2, <2>3
<1> QED BY <1>1 DEF EndSessions

\* What every end of a run but a successful one preserves, whatever becomes of
\* the components.
LEMMA EndPreservesInv ==
    ASSUME GeneratorInv, pc' = "ended", exit' \in {"1", "2", "killed"},
           sessions' = [role \in Roles |-> NoSession],
           components' \in [Roles -> {"none", "created", "terminated"}],
           restoredState' = NoContent,
           UNCHANGED <<run, collected, remaining, roundVars, outputNames,
                       generatedPresets, output, unwritten, fileVars>>
    PROVE  GeneratorInv'
<1>0. UNCHANGED <<run, collected, remaining, source, content, outputNames,
                  generatedPresets, output, unwritten, outputs, before>>
  BY DEF roundVars, fileVars
<1>1. TypeOK'
  BY <1>0 DEF GeneratorInv, TypeOK, NoSession, NoContent, Presets, GeneratedPreset, Contents
<1>2. SessionsHoldComponents'
  BY DEF SessionsHoldComponents
<1>3. GeneratedAreVerified'
  BY <1>0 DEF GeneratorInv, GeneratedAreVerified, Generated, VerifiedPreset
<1>4. NamesAreDistinct' /\ RoundIsConsistent' /\ WritingIsLast'
  BY DEF NamesAreDistinct, RoundIsConsistent, WritingIsLast, InRound
<1>5. VerifiedBeforeWritten' /\ OnlyVerifiedPresets'
  BY <1>0 DEF GeneratorInv, VerifiedBeforeWritten, OnlyVerifiedPresets, VerifiedPreset
<1>6. SuccessIsComplete'
  BY DEF SuccessIsComplete
<1>7. ComponentsTerminated'
  BY DEF ComponentsTerminated
<1> QED BY <1>1, <1>2, <1>3, <1>4, <1>5, <1>6, <1>7 DEF GeneratorInv

LEMMA ReturnPreservesInv ==
    ASSUME GeneratorInv, NEW code \in {"1", "2"}, Return(code)
    PROVE  GeneratorInv'
<1>1. EndSessions /\ pc' = "ended" /\ exit' = code
      /\ UNCHANGED <<run, collected, remaining, roundVars, outputNames,
                     generatedPresets, output, unwritten, fileVars>>
  BY DEF Return
<1> QED BY <1>1, TerminateEnds, EndPreservesInv DEF GeneratorInv

\* The steps before the writing leave the output directory alone.
LEMMA QuietStep ==
    ASSUME GeneratorInv, pc \notin {"ended", "write"}, pc' # "ended",
           pc' = "write" => remaining' = {} /\ unwritten' = generatedPresets',
           UNCHANGED <<run, exit, before, outputs>>
    PROVE  /\ WritingIsLast' /\ VerifiedBeforeWritten' /\ OnlyVerifiedPresets'
           /\ SuccessIsComplete'
<1>1. outputs = before
  BY DEF GeneratorInv, WritingIsLast
<1>2. WritingIsLast'
  BY <1>1 DEF WritingIsLast
<1>3. VerifiedBeforeWritten' /\ OnlyVerifiedPresets'
  BY <1>1 DEF GeneratorInv, VerifiedBeforeWritten, OnlyVerifiedPresets, VerifiedPreset
<1>4. SuccessIsComplete'
  BY DEF GeneratorInv, TypeOK, SuccessIsComplete
<1> QED BY <1>2, <1>3, <1>4

\* The steps that generate nothing, take no source and name none.
LEMMA SameSources ==
    ASSUME GeneratorInv, pc # "ended",
           UNCHANGED <<run, collected, remaining, source, outputNames, generatedPresets>>,
           InRound' <=> InRound, pc' \in {"read", "name"} <=> pc \in {"read", "name"}
    PROVE  GeneratedAreVerified' /\ NamesAreDistinct'
<1>1. Done' = Done /\ Named' = Named
  BY DEF Done, Named
<1>2. GeneratedAreVerified'
  BY <1>1 DEF GeneratorInv, GeneratedAreVerified, Generated, VerifiedPreset
<1>3. NamesAreDistinct'
  BY <1>1 DEF GeneratorInv, NamesAreDistinct
<1> QED BY <1>2, <1>3

LEMMA InitEstablishesInv == Init => GeneratorInv
<1> SUFFICES ASSUME Init PROVE GeneratorInv
  OBVIOUS
<1>1. TypeOK
  BY GeneratorAssumption DEF Init, TypeOK, NoSession, NoContent, NoPreset, Presets, Roles
<1>2. SessionsHoldComponents
  BY DEF Init, SessionsHoldComponents
<1>3. GeneratedAreVerified /\ NamesAreDistinct
  BY DEF Init, GeneratedAreVerified, NamesAreDistinct, Done, Named
<1>4. RoundIsConsistent /\ WritingIsLast
  BY DEF Init, RoundIsConsistent, InRound, WritingIsLast
<1>5. VerifiedBeforeWritten /\ OnlyVerifiedPresets /\ SuccessIsComplete
  BY DEF Init, VerifiedBeforeWritten, OnlyVerifiedPresets, SuccessIsComplete
<1>6. ComponentsTerminated
  BY DEF Init, ComponentsTerminated
<1> QED BY <1>1, <1>2, <1>3, <1>4, <1>5, <1>6 DEF GeneratorInv

----------------------------------------------------------------------------
(* The steps up to the loop *)

LEMMA ArgumentsPreserveInv == GeneratorInv /\ CheckArguments => GeneratorInv'
<1> SUFFICES ASSUME GeneratorInv, CheckArguments PROVE GeneratorInv'
  OBVIOUS
<1>1. CASE Return("1") \/ Return("2")
  BY <1>1, ReturnPreservesInv
<1>2. CASE pc' = "collect" /\ UNCHANGED <<run, exit, before, collected, remaining, roundVars,
             outputNames, generatedPresets, sessionVars, output, unwritten, outputs>>
  <2>0. pc = "start"
    BY DEF CheckArguments
  <2>1. TypeOK' /\ SessionsHoldComponents'
    BY <1>2, <2>0 DEF GeneratorInv, TypeOK, SessionsHoldComponents, roundVars, sessionVars
  <2>2. GeneratedAreVerified' /\ NamesAreDistinct'
    BY <1>2, <2>0, SameSources DEF InRound, roundVars
  <2>3. RoundIsConsistent' /\ ComponentsTerminated'
    BY <1>2, <2>0 DEF GeneratorInv, RoundIsConsistent, ComponentsTerminated, InRound,
                      roundVars, sessionVars
  <2>4. WritingIsLast' /\ VerifiedBeforeWritten' /\ OnlyVerifiedPresets' /\ SuccessIsComplete'
    BY <1>2, <2>0, QuietStep
  <2> QED BY <2>1, <2>2, <2>3, <2>4 DEF GeneratorInv
<1> QED BY <1>1, <1>2 DEF CheckArguments, Goto

\* No source is taken before the loop: collected and remaining are the same.
LEMMA CollectPreservesInv == GeneratorInv /\ CollectSources => GeneratorInv'
<1> SUFFICES ASSUME GeneratorInv, CollectSources PROVE GeneratorInv'
  OBVIOUS
<1>1. CASE Return("1")
  BY <1>1, ReturnPreservesInv
<1>2. CASE /\ collected' \subseteq Sources /\ remaining' = collected' /\ pc' = "module"
           /\ UNCHANGED <<run, exit, before, roundVars, outputNames, generatedPresets,
                          sessionVars, output, unwritten, outputs>>
  <2>0. pc = "collect" /\ source = Absent /\ generatedPresets = {}
    BY DEF CollectSources, GeneratorInv, RoundIsConsistent
  <2>1. TypeOK' /\ SessionsHoldComponents'
    BY <1>2, <2>0 DEF GeneratorInv, TypeOK, SessionsHoldComponents, roundVars, sessionVars
  <2>2. GeneratedAreVerified' /\ NamesAreDistinct'
    BY <1>2, <2>0 DEF GeneratedAreVerified, NamesAreDistinct, Done, Named
  <2>3. RoundIsConsistent' /\ ComponentsTerminated'
    BY <1>2, <2>0 DEF GeneratorInv, RoundIsConsistent, ComponentsTerminated, InRound,
                      sessionVars
  <2>4. WritingIsLast' /\ VerifiedBeforeWritten' /\ OnlyVerifiedPresets' /\ SuccessIsComplete'
    BY <1>2, <2>0, QuietStep
  <2> QED BY <2>1, <2>2, <2>3, <2>4 DEF GeneratorInv
<1> QED BY <1>1, <1>2 DEF CollectSources, Goto

LEMMA ModulePreservesInv == GeneratorInv /\ LoadModule => GeneratorInv'
<1> SUFFICES ASSUME GeneratorInv, LoadModule PROVE GeneratorInv'
  OBVIOUS
<1>1. CASE Return("1")
  BY <1>1, ReturnPreservesInv
<1>2. CASE pc' = "next" /\ UNCHANGED <<run, exit, before, collected, remaining, roundVars,
             outputNames, generatedPresets, sessionVars, output, unwritten, outputs>>
  <2>0. pc = "module"
    BY DEF LoadModule
  <2>1. TypeOK' /\ SessionsHoldComponents'
    BY <1>2, <2>0 DEF GeneratorInv, TypeOK, SessionsHoldComponents, roundVars, sessionVars
  <2>2. GeneratedAreVerified' /\ NamesAreDistinct'
    BY <1>2, <2>0, SameSources DEF InRound, roundVars
  <2>3. RoundIsConsistent' /\ ComponentsTerminated'
    BY <1>2, <2>0 DEF GeneratorInv, RoundIsConsistent, ComponentsTerminated, InRound, sessionVars
  <2>4. WritingIsLast' /\ VerifiedBeforeWritten' /\ OnlyVerifiedPresets' /\ SuccessIsComplete'
    BY <1>2, <2>0, QuietStep
  <2> QED BY <2>1, <2>2, <2>3, <2>4 DEF GeneratorInv
<1> QED BY <1>1, <1>2 DEF LoadModule, Goto

----------------------------------------------------------------------------
(* The steps of a round *)

LEMMA TakePreservesInv == GeneratorInv /\ TakeSource => GeneratorInv'
<1> SUFFICES ASSUME GeneratorInv, TakeSource PROVE GeneratorInv'
  OBVIOUS
<1>0. PICK s \in remaining : source' = s /\ remaining' = remaining \ {s}
  BY DEF TakeSource
<1>1. /\ pc = "next" /\ pc' = "read"
      /\ UNCHANGED <<run, exit, before, collected, content, outputNames, generatedPresets,
                     sessions, components, restoredState, output, unwritten, outputs>>
  BY DEF TakeSource, Goto, sessionVars
<1>2. TypeOK' /\ SessionsHoldComponents'
  BY <1>0, <1>1 DEF GeneratorInv, TypeOK, SessionsHoldComponents, Presets, GeneratedPreset,
                    Contents
<1>3. Done' = Done /\ Named' = Named
  BY <1>0, <1>1 DEF GeneratorInv, TypeOK, Done, Named, InRound
<1>4. GeneratedAreVerified' /\ NamesAreDistinct'
  BY <1>1, <1>3 DEF GeneratorInv, GeneratedAreVerified, NamesAreDistinct, Generated,
                    VerifiedPreset
<1>5. RoundIsConsistent' /\ ComponentsTerminated'
  BY <1>0, <1>1 DEF GeneratorInv, TypeOK, RoundIsConsistent, ComponentsTerminated, InRound
<1>6. WritingIsLast' /\ VerifiedBeforeWritten' /\ OnlyVerifiedPresets' /\ SuccessIsComplete'
  BY <1>1, QuietStep
<1> QED BY <1>2, <1>4, <1>5, <1>6 DEF GeneratorInv

LEMMA ReadPreservesInv == GeneratorInv /\ ReadSource => GeneratorInv'
<1> SUFFICES ASSUME GeneratorInv, ReadSource PROVE GeneratorInv'
  OBVIOUS
<1>1. CASE Return("1")
  BY <1>1, ReturnPreservesInv
<1>2. CASE /\ content' = [source |-> source, run |-> run] /\ pc' = "name"
           /\ UNCHANGED <<run, exit, before, collected, remaining, source, outputNames,
                          generatedPresets, sessionVars, output, unwritten, outputs>>
  <2>0. pc = "read" /\ source \in collected \ remaining
    BY DEF ReadSource, GeneratorInv, RoundIsConsistent, InRound
  <2>1. content' \in Contents
    BY <1>2, <2>0 DEF GeneratorInv, TypeOK, Contents
  <2>5. TypeOK' /\ SessionsHoldComponents'
    BY <1>2, <2>0, <2>1 DEF GeneratorInv, TypeOK, SessionsHoldComponents, sessionVars
  <2>2. GeneratedAreVerified' /\ NamesAreDistinct'
    BY <1>2, <2>0, SameSources DEF InRound
  <2>3. RoundIsConsistent' /\ ComponentsTerminated'
    BY <1>2, <2>0 DEF GeneratorInv, RoundIsConsistent, ComponentsTerminated, InRound, sessionVars
  <2>4. WritingIsLast' /\ VerifiedBeforeWritten' /\ OnlyVerifiedPresets' /\ SuccessIsComplete'
    BY <1>2, <2>0, QuietStep
  <2> QED BY <2>2, <2>3, <2>4, <2>5 DEF GeneratorInv
<1> QED BY <1>1, <1>2 DEF ReadSource, Goto

LEMMA NamePreservesInv == GeneratorInv /\ NameOutput => GeneratorInv'
<1> SUFFICES ASSUME GeneratorInv, NameOutput PROVE GeneratorInv'
  OBVIOUS
<1>1. CASE Return("1")
  BY <1>1, ReturnPreservesInv
<1>2. CASE /\ NameOf[source] \notin outputNames /\ pc' = "create source"
           /\ outputNames' = outputNames \union {NameOf[source]}
           /\ UNCHANGED <<run, exit, before, collected, remaining, roundVars,
                          generatedPresets, sessionVars, output, unwritten, outputs>>
  <2>0. pc = "name" /\ source \in collected \ remaining
    BY DEF NameOutput, GeneratorInv, RoundIsConsistent, InRound
  <2>1. TypeOK' /\ SessionsHoldComponents'
    BY <1>2, <2>0, GeneratorAssumption
       DEF GeneratorInv, TypeOK, SessionsHoldComponents, roundVars, sessionVars
  <2>2. Done' = Done /\ Named' = Named \union {source}
    BY <1>2, <2>0 DEF Done, Named, InRound, roundVars
  <2>3. GeneratedAreVerified'
    BY <1>2, <2>0, <2>2 DEF GeneratorInv, GeneratedAreVerified, Generated, VerifiedPreset
  <2>4. NamesAreDistinct'
    BY <1>2, <2>0, <2>2 DEF GeneratorInv, NamesAreDistinct
  <2>5. RoundIsConsistent' /\ ComponentsTerminated'
    BY <1>2, <2>0 DEF GeneratorInv, RoundIsConsistent, ComponentsTerminated, InRound,
                      roundVars, sessionVars
  <2>6. WritingIsLast' /\ VerifiedBeforeWritten' /\ OnlyVerifiedPresets' /\ SuccessIsComplete'
    BY <1>2, <2>0, QuietStep
  <2> QED BY <2>1, <2>3, <2>4, <2>5, <2>6 DEF GeneratorInv
<1> QED BY <1>1, <1>2 DEF NameOutput, Goto

\* The component that is not initialized is not terminated; the other one, if
\* there is one, is.
LEMMA NotInitializedPreservesInv ==
    ASSUME GeneratorInv, NEW role \in Roles, NotInitialized(role)
    PROVE  GeneratorInv'
<1>1. \A r \in Roles : AfterTerminate(sessions[r], components[r])
                           \in {"none", "created", "terminated"}
  <2>1. ASSUME NEW r \in Roles, components[r] = "initialized"
        PROVE  AfterTerminate(sessions[r], components[r]) = "terminated"
    BY <2>1 DEF GeneratorInv, SessionsHoldComponents, AfterTerminate, Terminate
  <2>2. ASSUME NEW r \in Roles, components[r] # "initialized"
        PROVE  AfterTerminate(sessions[r], components[r]) = components[r]
    BY <2>2 DEF GeneratorInv, SessionsHoldComponents, AfterTerminate, NoSession
  <2>3. \A r \in Roles : components[r] \in {"none", "created", "initialized", "terminated"}
    BY DEF GeneratorInv, TypeOK
  <2> QED BY <2>1, <2>2, <2>3
<1>2. components' \in [Roles -> {"none", "created", "terminated"}]
  BY <1>1 DEF NotInitialized
<1> QED BY <1>2, EndPreservesInv DEF NotInitialized

LEMMA CreatePreservesInv ==
    ASSUME GeneratorInv, NEW role \in Roles, NEW next,
           \/ role = "source" /\ pc = "create source" /\ next = "save"
           \/ role = "restored" /\ pc = "create restored" /\ next = "load",
           CreateComponent(role, next)
    PROVE  GeneratorInv'
<1>1. CASE Return("1")
  BY <1>1, ReturnPreservesInv
<1>2. CASE NotInitialized(role)
  BY <1>2, NotInitializedPreservesInv
<1>3. CASE /\ sessions' = [sessions EXCEPT ![role] = [component |-> TRUE, initialized |-> TRUE]]
           /\ components' = [components EXCEPT ![role] = "initialized"] /\ pc' = next
           /\ UNCHANGED <<run, exit, before, collected, remaining, roundVars, outputNames,
                          generatedPresets, restoredState, output, unwritten, outputs>>
  <2>0. next \in {"save", "load"} /\ pc # "ended"
    OBVIOUS
  <2>7. /\ sessions' \in [Roles -> [component : BOOLEAN, initialized : BOOLEAN]]
        /\ components' \in [Roles -> {"none", "created", "initialized", "terminated"}]
    BY <1>3 DEF GeneratorInv, TypeOK
  <2>8. pc' \in {"save", "load"} /\ (exit' = "none" <=> pc' # "ended")
    BY <1>3, <2>0 DEF GeneratorInv, TypeOK
  <2>1. TypeOK'
    BY <1>3, <2>7, <2>8 DEF GeneratorInv, TypeOK, roundVars
  <2>2. SessionsHoldComponents'
    BY <1>3 DEF GeneratorInv, TypeOK, SessionsHoldComponents
  <2>3. GeneratedAreVerified' /\ NamesAreDistinct'
    BY <1>3, SameSources DEF InRound, roundVars
  <2>4. RoundIsConsistent'
    BY <1>3 DEF GeneratorInv, RoundIsConsistent, InRound, roundVars
  <2>5. ComponentsTerminated'
    BY <1>3 DEF GeneratorInv, TypeOK, ComponentsTerminated, Roles
  <2>6. WritingIsLast' /\ VerifiedBeforeWritten' /\ OnlyVerifiedPresets' /\ SuccessIsComplete'
    BY <1>3, QuietStep
  <2> QED BY <2>1, <2>2, <2>3, <2>4, <2>5, <2>6 DEF GeneratorInv
<1> QED BY <1>1, <1>2, <1>3 DEF CreateComponent, Goto

LEMMA SavePreservesInv == GeneratorInv /\ SavePreset => GeneratorInv'
<1> SUFFICES ASSUME GeneratorInv, SavePreset PROVE GeneratorInv'
  OBVIOUS
<1>1. CASE Return("1")
  BY <1>1, ReturnPreservesInv
<1>2. CASE /\ output' \in [state : {content, Garbled}, metaInfo : {content, Garbled}]
           /\ pc' = "metadata"
           /\ UNCHANGED <<run, exit, before, collected, remaining, roundVars, outputNames,
                          generatedPresets, sessionVars, unwritten, outputs>>
  <2>0. pc = "save"
    BY DEF SavePreset
  <2>1. output' \in Presets
    BY <1>2 DEF GeneratorInv, TypeOK, Presets
  <2>2. TypeOK' /\ SessionsHoldComponents'
    BY <1>2, <2>0, <2>1 DEF GeneratorInv, TypeOK, SessionsHoldComponents, roundVars, sessionVars
  <2>3. GeneratedAreVerified' /\ NamesAreDistinct'
    BY <1>2, <2>0, SameSources DEF InRound, roundVars
  <2>4. RoundIsConsistent' /\ ComponentsTerminated'
    BY <1>2, <2>0 DEF GeneratorInv, RoundIsConsistent, ComponentsTerminated, InRound,
                      roundVars, sessionVars
  <2>5. WritingIsLast' /\ VerifiedBeforeWritten' /\ OnlyVerifiedPresets' /\ SuccessIsComplete'
    BY <1>2, <2>0, QuietStep
  <2> QED BY <2>2, <2>3, <2>4, <2>5 DEF GeneratorInv
<1> QED BY <1>1, <1>2 DEF SavePreset, Goto

LEMMA MetaInfoPreservesInv == GeneratorInv /\ CheckMetaInfo => GeneratorInv'
<1> SUFFICES ASSUME GeneratorInv, CheckMetaInfo PROVE GeneratorInv'
  OBVIOUS
<1>1. CASE Return("1")
  BY <1>1, ReturnPreservesInv
<1>2. CASE /\ output.metaInfo = content /\ pc' = "create restored"
           /\ UNCHANGED <<run, exit, before, collected, remaining, roundVars, outputNames,
                          generatedPresets, sessionVars, output, unwritten, outputs>>
  <2>0. pc = "metadata"
    BY DEF CheckMetaInfo
  <2>1. TypeOK' /\ SessionsHoldComponents'
    BY <1>2, <2>0 DEF GeneratorInv, TypeOK, SessionsHoldComponents, roundVars, sessionVars
  <2>2. GeneratedAreVerified' /\ NamesAreDistinct'
    BY <1>2, <2>0, SameSources DEF InRound, roundVars
  <2>3. RoundIsConsistent' /\ ComponentsTerminated'
    BY <1>2, <2>0 DEF GeneratorInv, RoundIsConsistent, ComponentsTerminated, InRound,
                      roundVars, sessionVars
  <2>4. WritingIsLast' /\ VerifiedBeforeWritten' /\ OnlyVerifiedPresets' /\ SuccessIsComplete'
    BY <1>2, <2>0, QuietStep
  <2> QED BY <2>1, <2>2, <2>3, <2>4 DEF GeneratorInv
<1> QED BY <1>1, <1>2 DEF CheckMetaInfo, Goto

LEMMA LoadPreservesInv == GeneratorInv /\ LoadPreset => GeneratorInv'
<1> SUFFICES ASSUME GeneratorInv, LoadPreset PROVE GeneratorInv'
  OBVIOUS
<1>1. CASE Return("1")
  BY <1>1, ReturnPreservesInv
<1>2. CASE /\ restoredState' \in {output.state, Garbled} /\ pc' = "compare"
           /\ UNCHANGED <<run, exit, before, collected, remaining, roundVars, outputNames,
                          generatedPresets, sessions, components, output, unwritten, outputs>>
  <2>0. pc = "load"
    BY DEF LoadPreset
  <2>1. restoredState' \in Contents \union {Garbled}
    BY <1>2 DEF GeneratorInv, TypeOK, Presets
  <2>2. TypeOK' /\ SessionsHoldComponents'
    BY <1>2, <2>0, <2>1 DEF GeneratorInv, TypeOK, SessionsHoldComponents, roundVars
  <2>3. GeneratedAreVerified' /\ NamesAreDistinct'
    BY <1>2, <2>0, SameSources DEF InRound, roundVars
  <2>4. RoundIsConsistent' /\ ComponentsTerminated'
    BY <1>2, <2>0 DEF GeneratorInv, RoundIsConsistent, ComponentsTerminated, InRound, roundVars
  <2>5. WritingIsLast' /\ VerifiedBeforeWritten' /\ OnlyVerifiedPresets' /\ SuccessIsComplete'
    BY <1>2, <2>0, QuietStep
  <2> QED BY <2>2, <2>3, <2>4, <2>5 DEF GeneratorInv
<1> QED BY <1>1, <1>2 DEF LoadPreset, Goto

\* The restored state is the content, so what was saved is that, too.
LEMMA ComparePreservesInv == GeneratorInv /\ CompareState => GeneratorInv'
<1> SUFFICES ASSUME GeneratorInv, CompareState PROVE GeneratorInv'
  OBVIOUS
<1>1. CASE Return("1")
  BY <1>1, ReturnPreservesInv
<1>2. CASE /\ restoredState = content /\ pc' = "next" /\ EndSessions
           /\ generatedPresets' = generatedPresets \union
                  {[destination |-> FileOf[NameOf[source]], data |-> output]}
           /\ UNCHANGED <<run, exit, before, collected, remaining, roundVars, outputNames,
                          output, unwritten, outputs>>
  <2>0. /\ pc = "compare" /\ source \in collected \ remaining
        /\ content = [source |-> source, run |-> run]
        /\ output.metaInfo = content /\ restoredState \in {output.state, Garbled}
    BY DEF CompareState, GeneratorInv, RoundIsConsistent, InRound
  <2>1. content # Garbled
    BY <2>0, GeneratorAssumption DEF GeneratorInv, TypeOK
  <2>2. output = VerifiedPreset(source, run)
    BY <1>2, <2>0, <2>1 DEF GeneratorInv, TypeOK, Presets, VerifiedPreset
  <2>3. generatedPresets' = generatedPresets \union {Generated(source)}
    BY <1>2, <2>2 DEF Generated, OutputOf
  <2>4. Generated(source) \in GeneratedPreset
    <3>1. source \in Sources /\ run \in 1 .. MaxRuns
      BY <2>0 DEF GeneratorInv, TypeOK
    <3>2. FileOf[NameOf[source]] \in Files
      BY <3>1, GeneratorAssumption
    <3>3. VerifiedPreset(source, run) \in Presets
      BY <3>1 DEF VerifiedPreset, Presets, Contents
    <3> QED BY <3>2, <3>3 DEF Generated, OutputOf, GeneratedPreset
  <2>5. sessions' = [role \in Roles |-> NoSession]
        /\ components' \in [Roles -> {"none", "created", "terminated"}]
        /\ restoredState' = Garbled
    BY <1>2, TerminateEnds DEF GeneratorInv, NoContent
  <2>6. TypeOK'
    BY <1>2, <2>0, <2>3, <2>4, <2>5 DEF GeneratorInv, TypeOK, NoSession, roundVars
  <2>7. SessionsHoldComponents' /\ ComponentsTerminated'
    BY <1>2, <2>5 DEF SessionsHoldComponents, ComponentsTerminated
  <2>8. Done' = Done \union {source} /\ Named' = Named
    BY <1>2, <2>0 DEF Done, Named, InRound, roundVars
  <2>9. GeneratedAreVerified'
    <3>1. \A s : Generated(s)' = Generated(s)
      BY <1>2 DEF Generated, VerifiedPreset
    <3> QED BY <1>2, <2>0, <2>3, <2>8, <3>1 DEF GeneratorInv, GeneratedAreVerified
  <2>10. NamesAreDistinct'
    BY <1>2, <2>0, <2>8 DEF GeneratorInv, NamesAreDistinct
  <2>11. RoundIsConsistent'
    BY <1>2 DEF RoundIsConsistent, InRound
  <2>12. WritingIsLast' /\ VerifiedBeforeWritten' /\ OnlyVerifiedPresets' /\ SuccessIsComplete'
    BY <1>2, <2>0, QuietStep
  <2> QED BY <2>6, <2>7, <2>9, <2>10, <2>11, <2>12 DEF GeneratorInv
<1> QED BY <1>1, <1>2 DEF CompareState, Goto

----------------------------------------------------------------------------
(* The writing *)

LEMMA DirectoryPreservesInv == GeneratorInv /\ CreateDirectory => GeneratorInv'
<1> SUFFICES ASSUME GeneratorInv, CreateDirectory PROVE GeneratorInv'
  OBVIOUS
<1>1. CASE Return("1")
  BY <1>1, ReturnPreservesInv
<1>2. CASE /\ unwritten' = generatedPresets /\ pc' = "write"
           /\ UNCHANGED <<run, exit, before, collected, remaining, roundVars, outputNames,
                          generatedPresets, sessionVars, output, outputs>>
  <2>0. pc = "next" /\ remaining = {}
    BY DEF CreateDirectory
  <2>1. TypeOK' /\ SessionsHoldComponents'
    BY <1>2, <2>0 DEF GeneratorInv, TypeOK, SessionsHoldComponents, roundVars, sessionVars
  <2>2. GeneratedAreVerified' /\ NamesAreDistinct'
    BY <1>2, <2>0, SameSources DEF InRound, roundVars
  <2>3. RoundIsConsistent' /\ ComponentsTerminated'
    BY <1>2, <2>0 DEF GeneratorInv, RoundIsConsistent, ComponentsTerminated, InRound, sessionVars
  <2>4. WritingIsLast' /\ VerifiedBeforeWritten' /\ OnlyVerifiedPresets' /\ SuccessIsComplete'
    BY <1>2, <2>0, QuietStep
  <2> QED BY <2>1, <2>2, <2>3, <2>4 DEF GeneratorInv
<1> QED BY <1>1, <1>2 DEF CreateDirectory, Goto

\* All sources are done, so every collected one has its verified preset; what
\* is written is one of them.
LEMMA WritePreservesInv == GeneratorInv /\ WritePreset => GeneratorInv'
<1> SUFFICES ASSUME GeneratorInv, WritePreset PROVE GeneratorInv'
  OBVIOUS
<1>1. CASE Return("1")
  BY <1>1, ReturnPreservesInv
<1>2. CASE \E preset \in unwritten :
              /\ outputs' = [outputs EXCEPT ![preset.destination] = preset.data]
              /\ unwritten' = unwritten \ {preset} /\ pc' = "write"
              /\ UNCHANGED <<run, exit, before, collected, remaining, roundVars, outputNames,
                             generatedPresets, sessionVars, output>>
  <2>1. PICK preset \in unwritten :
              /\ outputs' = [outputs EXCEPT ![preset.destination] = preset.data]
              /\ unwritten' = unwritten \ {preset} /\ pc' = "write"
              /\ UNCHANGED <<run, exit, before, collected, remaining, roundVars, outputNames,
                             generatedPresets, sessionVars, output>>
    BY <1>2
  <2>0. pc = "write" /\ remaining = {}
    BY DEF WritePreset, GeneratorInv, WritingIsLast
  <2>2. preset \in generatedPresets /\ preset.destination \in Files /\ preset.data \in Presets
    BY DEF GeneratorInv, TypeOK, GeneratedPreset
  <2>3. PICK s \in collected : preset = Generated(s)
    BY <2>2 DEF GeneratorInv, GeneratedAreVerified
  <2>4. outputs' \in [Files -> Presets \union {Absent}]
    BY <2>1, <2>2 DEF GeneratorInv, TypeOK
  <2>5. TypeOK' /\ SessionsHoldComponents'
    BY <2>0, <2>1, <2>4 DEF GeneratorInv, TypeOK, SessionsHoldComponents, roundVars, sessionVars
  <2>6. GeneratedAreVerified' /\ NamesAreDistinct'
    BY <2>0, <2>1, SameSources DEF InRound, roundVars
  <2>7. RoundIsConsistent' /\ ComponentsTerminated' /\ SuccessIsComplete'
    BY <2>0, <2>1 DEF GeneratorInv, TypeOK, RoundIsConsistent, ComponentsTerminated,
                      SuccessIsComplete, InRound, sessionVars
  <2>8. WritingIsLast'
    <3>1. SUFFICES ASSUME NEW p \in generatedPresets \ unwritten'
                   PROVE  \E last \in generatedPresets :
                              last.destination = p.destination
                              /\ outputs'[p.destination] = last.data
      BY <2>0, <2>1 DEF WritingIsLast
    <3>2. p.destination \in Files
      BY DEF GeneratorInv, TypeOK, GeneratedPreset
    <3>3. CASE p.destination = preset.destination
      BY <2>1, <2>2, <3>2, <3>3 DEF GeneratorInv, TypeOK
    <3>4. CASE p.destination # preset.destination
      <4>1. p # preset /\ outputs'[p.destination] = outputs[p.destination]
        BY <2>1, <3>2, <3>4 DEF GeneratorInv, TypeOK
      <4> QED BY <2>0, <2>1, <4>1 DEF GeneratorInv, WritingIsLast
    <3> QED BY <3>3, <3>4
  <2>9. VerifiedBeforeWritten'
    <3>1. \A t \in collected : Generated(t) \in generatedPresets
      BY <2>0 DEF GeneratorInv, GeneratedAreVerified, Done, InRound
    <3> QED BY <2>1, <3>1 DEF VerifiedBeforeWritten, Generated, VerifiedPreset
  <2>10. OnlyVerifiedPresets'
    <3>1. SUFFICES ASSUME NEW file \in Files, outputs'[file] # Absent
                   PROVE  \E t \in Sources, r \in 1 .. run :
                              OutputOf(t) = file /\ outputs'[file] = VerifiedPreset(t, r)
      BY <2>1 DEF OnlyVerifiedPresets, VerifiedPreset
    <3>2. CASE file = preset.destination
      <4>3. run \in 1 .. MaxRuns /\ s \in Sources
        BY DEF GeneratorInv, TypeOK
      <4>1. s \in Sources /\ run \in 1 .. run
        BY <4>3, GeneratorAssumption
      <4>2. OutputOf(s) = file /\ outputs'[file] = VerifiedPreset(s, run)
        BY <2>1, <2>3, <3>2 DEF GeneratorInv, TypeOK, Generated
      <4> QED BY <4>1, <4>2
    <3>3. CASE file # preset.destination
      <4>1. outputs'[file] = outputs[file]
        BY <2>1, <3>3 DEF GeneratorInv, TypeOK
      <4> QED BY <3>1, <4>1 DEF GeneratorInv, OnlyVerifiedPresets
    <3> QED BY <3>2, <3>3
  <2> QED BY <2>5, <2>6, <2>7, <2>8, <2>9, <2>10 DEF GeneratorInv
<1> QED BY <1>1, <1>2 DEF WritePreset, Goto

LEMMA FinishPreservesInv == GeneratorInv /\ Finish => GeneratorInv'
<1> SUFFICES ASSUME GeneratorInv, Finish PROVE GeneratorInv'
  OBVIOUS
<1>0. /\ pc = "write" /\ unwritten = {} /\ remaining = {}
      /\ EndSessions /\ pc' = "ended" /\ exit' = "0"
      /\ UNCHANGED <<run, collected, remaining, source, content, outputNames,
                     generatedPresets, output, unwritten, outputs, before>>
  BY DEF Finish, Return, roundVars, fileVars, GeneratorInv, WritingIsLast
<1>1. /\ sessions' = [role \in Roles |-> NoSession]
      /\ components' \in [Roles -> {"none", "created", "terminated"}]
      /\ restoredState' = Garbled
  BY <1>0, TerminateEnds DEF GeneratorInv, NoContent
<1>2. TypeOK'
  BY <1>0, <1>1 DEF GeneratorInv, TypeOK, NoSession
<1>3. SessionsHoldComponents' /\ ComponentsTerminated'
  BY <1>0, <1>1 DEF SessionsHoldComponents, ComponentsTerminated
<1>4. GeneratedAreVerified' /\ NamesAreDistinct' /\ RoundIsConsistent' /\ WritingIsLast'
  BY <1>0 DEF GeneratorInv, GeneratedAreVerified, Generated, VerifiedPreset, NamesAreDistinct,
              RoundIsConsistent, InRound, WritingIsLast
<1>5. VerifiedBeforeWritten' /\ OnlyVerifiedPresets'
  BY <1>0 DEF GeneratorInv, VerifiedBeforeWritten, OnlyVerifiedPresets, VerifiedPreset
<1>6. Done = collected /\ Named = collected
  BY <1>0 DEF Done, Named, InRound
<1>7. ASSUME NEW s \in collected
      PROVE  \E t \in collected :
                 OutputOf(t) = OutputOf(s) /\ outputs[OutputOf(s)] = VerifiedPreset(t, run)
  <2>1. Generated(s) \in generatedPresets
    BY <1>0, <1>6 DEF GeneratorInv, GeneratedAreVerified
  <2>2. PICK last \in generatedPresets :
            /\ last.destination = Generated(s).destination
            /\ outputs[Generated(s).destination] = last.data
    BY <1>0, <2>1 DEF GeneratorInv, WritingIsLast
  <2>3. PICK t \in collected : last = Generated(t)
    BY <2>2 DEF GeneratorInv, GeneratedAreVerified
  <2>4. OutputOf(t) = OutputOf(s) /\ outputs[OutputOf(s)] = VerifiedPreset(t, run)
    BY <2>2, <2>3 DEF Generated
  <2> QED BY <2>4
<1>8. \A s, t \in collected : NameOf[s] = NameOf[t] => s = t
  BY <1>0, <1>6 DEF GeneratorInv, NamesAreDistinct
<1>9. SuccessIsComplete'
  BY <1>0, <1>7, <1>8 DEF SuccessIsComplete, VerifiedPreset
<1> QED BY <1>2, <1>3, <1>4, <1>5, <1>9 DEF GeneratorInv

LEMMA KillPreservesInv == GeneratorInv /\ Kill => GeneratorInv'
<1> SUFFICES ASSUME GeneratorInv, Kill PROVE GeneratorInv'
  OBVIOUS
<1>1. components' \in [Roles -> {"none", "created", "terminated"}]
  BY DEF Kill
<1> QED BY <1>1, EndPreservesInv DEF Kill

LEMMA RunAgainPreservesInv == GeneratorInv /\ RunAgain => GeneratorInv'
<1> SUFFICES ASSUME GeneratorInv, RunAgain PROVE GeneratorInv'
  OBVIOUS
<1>0. run \in 1 .. MaxRuns /\ run < MaxRuns /\ MaxRuns \in Nat /\ run' = run + 1
  BY GeneratorAssumption DEF GeneratorInv, TypeOK, RunAgain
<1>1. run' \in 1 .. MaxRuns /\ 1 .. run \subseteq 1 .. run'
  BY <1>0
<1>2. TypeOK'
  <2>1. {outputs', before'} \subseteq [Files -> Presets \union {Absent}]
    BY DEF GeneratorInv, TypeOK, RunAgain
  <2>2. output' \in Presets
    BY DEF RunAgain, NoPreset, Presets
  <2> QED BY <1>1, <2>1, <2>2 DEF RunAgain, TypeOK, NoSession, NoContent
<1>3. SessionsHoldComponents' /\ ComponentsTerminated'
  BY DEF RunAgain, SessionsHoldComponents, ComponentsTerminated
<1>4. GeneratedAreVerified' /\ NamesAreDistinct'
  BY DEF RunAgain, GeneratedAreVerified, NamesAreDistinct, Done, Named, InRound
<1>5. RoundIsConsistent' /\ WritingIsLast' /\ VerifiedBeforeWritten' /\ SuccessIsComplete'
  BY DEF RunAgain, RoundIsConsistent, InRound, WritingIsLast, VerifiedBeforeWritten,
         SuccessIsComplete
<1>6. OnlyVerifiedPresets'
  BY <1>1 DEF RunAgain, GeneratorInv, OnlyVerifiedPresets, VerifiedPreset
<1> QED BY <1>2, <1>3, <1>4, <1>5, <1>6 DEF GeneratorInv

----------------------------------------------------------------------------

LEMMA NextPreservesInv == GeneratorInv /\ [Next]_vars => GeneratorInv'
<1> SUFFICES ASSUME GeneratorInv, [Next]_vars PROVE GeneratorInv'
  OBVIOUS
<1>1. CASE CheckArguments \/ CollectSources \/ LoadModule
  BY <1>1, ArgumentsPreserveInv, CollectPreservesInv, ModulePreservesInv
<1>2. CASE TakeSource \/ ReadSource \/ NameOutput
  BY <1>2, TakePreservesInv, ReadPreservesInv, NamePreservesInv
<1>3. CASE CreateSource
  BY <1>3, CreatePreservesInv DEF CreateSource, Roles
<1>4. CASE CreateRestored
  BY <1>4, CreatePreservesInv DEF CreateRestored, Roles
<1>5. CASE SavePreset \/ CheckMetaInfo \/ LoadPreset \/ CompareState
  BY <1>5, SavePreservesInv, MetaInfoPreservesInv, LoadPreservesInv, ComparePreservesInv
<1>6. CASE CreateDirectory \/ WritePreset \/ Finish
  BY <1>6, DirectoryPreservesInv, WritePreservesInv, FinishPreservesInv
<1>7. CASE Kill \/ RunAgain
  BY <1>7, KillPreservesInv, RunAgainPreservesInv
<1>8. CASE UNCHANGED vars
  <2>1. UNCHANGED <<run, pc, exit, collected, remaining, source, content, outputNames,
                    generatedPresets, sessions, components, restoredState, output,
                    unwritten, outputs, before>>
    BY <1>8 DEF vars, roundVars, sessionVars, fileVars
  <2>2. TypeOK' /\ SessionsHoldComponents'
    BY <2>1 DEF GeneratorInv, TypeOK, SessionsHoldComponents
  <2>3. GeneratedAreVerified' /\ NamesAreDistinct'
    BY <2>1 DEF GeneratorInv, GeneratedAreVerified, NamesAreDistinct, Done, Named, InRound,
                Generated, VerifiedPreset
  <2>4. RoundIsConsistent' /\ WritingIsLast' /\ ComponentsTerminated'
    BY <2>1 DEF GeneratorInv, RoundIsConsistent, WritingIsLast, ComponentsTerminated, InRound
  <2>5. VerifiedBeforeWritten' /\ OnlyVerifiedPresets' /\ SuccessIsComplete'
    BY <2>1 DEF GeneratorInv, VerifiedBeforeWritten, OnlyVerifiedPresets, SuccessIsComplete,
                VerifiedPreset
  <2> QED BY <2>2, <2>3, <2>4, <2>5 DEF GeneratorInv
<1> QED BY <1>1, <1>2, <1>3, <1>4, <1>5, <1>6, <1>7, <1>8 DEF Next, Main

\* Whatever fails and whenever the process is killed, in any number of runs:
\* all that this module's properties say of the sessions, the presets that were
\* generated and the output directory holds in every state.
THEOREM GeneratorInvariant == Spec => []GeneratorInv
<1> QED BY InitEstablishesInv, NextPreservesInv, PTL DEF Spec

\* Every variable keeps its type, and no component is misused: one that was
\* not initialized is never terminated.
THEOREM GeneratorTypeCorrect == Spec => []TypeOK
<1>1. GeneratorInv => TypeOK
  BY DEF GeneratorInv
<1> QED BY <1>1, GeneratorInvariant, PTL

\* No output file is touched before each collected source of the run has a
\* verified preset.
THEOREM VerifiedFirst == Spec => []VerifiedBeforeWritten
<1>1. GeneratorInv => VerifiedBeforeWritten
  BY DEF GeneratorInv
<1> QED BY <1>1, GeneratorInvariant, PTL

\* The output directory holds whole, verified presets of sources of that name,
\* and nothing else, in any number of interrupted runs.
THEOREM OnlyVerified == Spec => []OnlyVerifiedPresets
<1>1. GeneratorInv => OnlyVerifiedPresets
  BY DEF GeneratorInv
<1> QED BY <1>1, GeneratorInvariant, PTL

\* A run that reports success has replaced the output of every source.
THEOREM SuccessfulRunIsComplete == Spec => []SuccessIsComplete
<1>1. GeneratorInv => SuccessIsComplete
  BY DEF GeneratorInv
<1> QED BY <1>1, GeneratorInvariant, PTL

\* On every path, every component that was initialized is terminated.
THEOREM EveryComponentTerminated == Spec => []ComponentsTerminated
<1>1. GeneratorInv => ComponentsTerminated
  BY DEF GeneratorInv
<1> QED BY <1>1, GeneratorInvariant, PTL
============================================================================
