--------------------------- MODULE PluginProcessor ---------------------------
(***************************************************************************)
(* TempoFlowAudioProcessor: the host threads that load, restore and apply  *)
(* preset documents, the mutex that serialises them, and the audio         *)
(* callback that plays what they publish.  The two sides meet only in the  *)
(* triple buffer, whose steps (PresetStateExchange) are the steps of this  *)
(* module too.                                                             *)
(*                                                                         *)
(* A document is a model value; what makes one valid, and how it is        *)
(* converted, does not concern this module.  A critical section that only  *)
(* touches data of the mutex is one step, enabled when the mutex is free;  *)
(* the section that publishes spans the steps of publish().                *)
(***************************************************************************)
EXTENDS PresetStateExchange

CONSTANTS
    HostThreads,      \* threads of the host that call the processor
    NoThread,         \* the owner of a free mutex
    Documents,        \* JSON documents
    ValidDocuments,   \* those that the validator accepts
    DefaultPreset,    \* the document that the constructor applies
    Undecodable,      \* a file that cannot be read, bytes that are no UTF-8
    MaxOperations     \* bound: how many operations the host begins

ASSUME DocumentsAssumption ==
    /\ ValidDocuments \subseteq Documents
    /\ DefaultPreset \in ValidDocuments
    /\ Undecodable \notin Documents
ASSUME HostThreadsAssumption == NoThread \notin HostThreads

\* The constructor publishes once, and each operation once at most.
ASSUME BoundsAssumption == MaxOperations \in Nat /\ MaxGeneration > MaxOperations

Operations == {"apply", "restore", "load"}

\* Errors are recorded for an operation, with the path of the file or not.
Report(op, path) == [op |-> op, path |-> path]
NoErrors == Report("none", FALSE)

VARIABLES
    \* of the processor, guarded by persistentStateMutex
    persistentStateMutex,     \* the thread that holds it, or NoThread
    persistentPresetJson, lastPresetErrors,
    stateRestoreException,    \* atomic, set without the mutex
    \* of the host threads
    hostPc, hostOperation, hostDocument, operations,
    \* of the audio callback
    audioPc,
    prepared,        \* clickEngine has a sample rate
    wasPlaying,      \* beatScheduler expects a next position
    tails,           \* the generations whose clicks clickEngine still renders
    \* history: the document that each publication carries
    contents

persistentVars == <<persistentStateMutex, persistentPresetJson,
                    lastPresetErrors, stateRestoreException>>
hostVars  == <<hostPc, hostOperation, hostDocument, operations>>
audioVars == <<audioPc, prepared, wasPlaying, tails>>
processorVars == <<vars, persistentVars, hostVars, audioVars, contents>>

\* The constructor has applied the default preset: one publication is
\* complete, and nobody has consumed it.
ProcessorInit ==
    /\ slots = [s \in SlotIds |-> [f \in Fields |-> IF s = 1 THEN 1 ELSE 0]]
    /\ activeSlot = 1
    /\ readerSlot = NoSlot
    /\ publishedGeneration = 1
    /\ writerPc = "idle" /\ currentActiveSlot = 0 /\ targetSlot = 1
    /\ written = Fields
    /\ readerPc = "idle" /\ seenGeneration = 0 /\ attempt = 0
    /\ candidateSlot = 0 /\ copied = {}
    /\ realtime = [w \in StateWords |-> 0]
    /\ lastGeneration = 0
    /\ persistentStateMutex = NoThread
    /\ persistentPresetJson = DefaultPreset
    /\ lastPresetErrors = NoErrors
    /\ stateRestoreException = FALSE
    /\ hostPc = [t \in HostThreads |-> "idle"]
    /\ hostOperation = [t \in HostThreads |-> "none"]
    /\ hostDocument = [t \in HostThreads |-> DefaultPreset]
    /\ operations = 0
    /\ audioPc = "idle"
    /\ prepared = FALSE
    /\ wasPlaying = FALSE
    /\ tails = {}
    /\ contents = [g \in 1 .. MaxGeneration |-> DefaultPreset]

----------------------------------------------------------------------------
(* The host threads *)

MutexFree == persistentStateMutex = NoThread

\* A thread forgets the arguments of its operation when it needs them no more:
\* the operation once it knows how to go on, the document unless it is kept.
HostGoes(t, pc) ==
    /\ hostPc' = [hostPc EXCEPT ![t] = pc]
    /\ hostOperation' = [hostOperation EXCEPT ![t] = "none"]
    /\ hostDocument' = [hostDocument EXCEPT ![t] = IF pc = "publish" THEN @ ELSE DefaultPreset]

BeginOperation(t) ==
    /\ hostPc[t] = "idle"
    /\ operations < MaxOperations
    /\ \E op \in Operations, d \in Documents \union {Undecodable} :
          /\ op = "apply" => d # Undecodable
          /\ hostOperation' = [hostOperation EXCEPT ![t] = op]
          /\ hostDocument' = [hostDocument EXCEPT ![t] = d]
    /\ operations' = operations + 1
    /\ hostPc' = [hostPc EXCEPT ![t] = "decode"]
    /\ UNCHANGED <<vars, persistentVars, audioVars, contents>>

recordPresetErrors(report) ==
    /\ MutexFree
    /\ lastPresetErrors' = report
    /\ stateRestoreException' = FALSE
    /\ UNCHANGED <<persistentStateMutex, persistentPresetJson>>

\* The file cannot be read, or the host's bytes are refused.
RejectUndecodable(t) ==
    /\ hostPc[t] = "decode"
    /\ hostDocument[t] = Undecodable
    /\ recordPresetErrors(Report(hostOperation[t], hostOperation[t] = "load"))
    /\ HostGoes(t, "idle")
    /\ UNCHANGED <<vars, operations, audioVars, contents>>

\* applyPresetJson refuses an invalid document.
RejectInvalid(t) ==
    /\ hostPc[t] = "decode"
    /\ hostDocument[t] \in Documents \ ValidDocuments
    /\ recordPresetErrors(Report(hostOperation[t], FALSE))
    /\ HostGoes(t, IF hostOperation[t] = "load" THEN "prefix" ELSE "idle")
    /\ UNCHANGED <<vars, operations, audioVars, contents>>

\* loadPresetFile records the errors again, with the path.
RecordWithPath(t) ==
    /\ hostPc[t] = "prefix"
    /\ recordPresetErrors(Report("load", TRUE))
    /\ HostGoes(t, "idle")
    /\ UNCHANGED <<vars, operations, audioVars, contents>>

\* An allocation fails.  setStateInformation catches what was thrown, the
\* other operations let it through to their caller.
Throw(t) ==
    /\ hostPc[t] \in {"decode", "prefix"}
    /\ HostGoes(t, IF hostOperation[t] = "restore" THEN "catch" ELSE "idle")
    /\ UNCHANGED <<vars, persistentVars, operations, audioVars, contents>>

CatchRestoreException(t) ==
    /\ hostPc[t] = "catch"
    /\ stateRestoreException' = TRUE
    /\ HostGoes(t, "idle")
    /\ UNCHANGED <<vars, persistentStateMutex, persistentPresetJson,
                   lastPresetErrors, operations, audioVars, contents>>

CommitDocument(t, mutex) ==
    /\ hostPc[t] = "decode"
    /\ MutexFree
    /\ persistentStateMutex' = mutex
    /\ persistentPresetJson' = hostDocument[t]
    /\ lastPresetErrors' = NoErrors
    /\ stateRestoreException' = FALSE
    /\ HostGoes(t, "publish")
    /\ UNCHANGED <<vars, operations, audioVars, contents>>

\* A plausible bug: an unlock before the publication.
CommitAndUnlock(t) ==
    /\ hostDocument[t] \in ValidDocuments
    /\ CommitDocument(t, NoThread)

\* A plausible bug: the document is kept whatever the validation says.
CommitUnvalidated(t) ==
    /\ hostDocument[t] \in Documents
    /\ CommitDocument(t, t)

\* A plausible bug: the mutex is locked before the validation, so that
\* recordPresetErrors locks it a second time.
CommitLockingFirst(t) ==
    \/ hostDocument[t] \in ValidDocuments /\ CommitDocument(t, t)
    \/ /\ hostPc[t] = "decode"
       /\ hostDocument[t] \in Documents \ ValidDocuments
       /\ MutexFree
       /\ persistentStateMutex' = t
       /\ UNCHANGED <<vars, persistentPresetJson, lastPresetErrors,
                      stateRestoreException, hostVars, audioVars, contents>>

\* applyPresetJson locks the mutex and replaces the persistent state.
CommitPreset(t) ==
    /\ hostDocument[t] \in ValidDocuments
    /\ CommitDocument(t, t)

\* ... and publishes the realtime state before it unlocks.
BeginPublication(t) ==
    /\ hostPc[t] = "publish"
    /\ PublishBegin
    /\ contents' = [contents EXCEPT ![publishedGeneration + 1] = hostDocument[t]]
    /\ HostGoes(t, "publishing")
    /\ UNCHANGED <<persistentVars, operations, audioVars>>

ContinuePublication(t) ==
    /\ hostPc[t] = "publishing"
    /\ \/ SelectTargetSlot
       \/ \E f \in Fields : WriteField(f)
       \/ StoreActiveSlot
    /\ UNCHANGED <<persistentVars, hostVars, audioVars, contents>>

FinishPublication(t) ==
    /\ hostPc[t] = "publishing"
    /\ StorePublishedGeneration
    /\ persistentStateMutex' = NoThread
    /\ HostGoes(t, "idle")
    /\ UNCHANGED <<persistentPresetJson, lastPresetErrors,
                   stateRestoreException, operations, audioVars, contents>>

\* What getStateInformation and getLastPresetErrors return to a thread that
\* has locked the mutex.
StateInformation == persistentPresetJson
LastPresetErrors == IF stateRestoreException THEN Report("restore", FALSE)
                                             ELSE lastPresetErrors

HostStep(t) ==
    \/ RejectUndecodable(t)
    \/ RejectInvalid(t)
    \/ RecordWithPath(t)
    \/ CatchRestoreException(t)
    \/ CommitPreset(t)
    \/ BeginPublication(t)
    \/ ContinuePublication(t)
    \/ FinishPublication(t)

----------------------------------------------------------------------------
(* The audio callback.  The host does not call it concurrently with itself, *)
(* nor with prepareToPlay or releaseResources.                              *)

AudioGoes(pc) == audioPc' = pc

resetPlayback == wasPlaying' = FALSE /\ tails' = {}

prepareToPlay ==
    /\ audioPc = "idle"
    /\ prepared' = TRUE
    /\ resetPlayback
    /\ UNCHANGED <<vars, persistentVars, hostVars, audioPc, contents>>

releaseResources ==
    /\ audioPc = "idle"
    /\ resetPlayback
    /\ UNCHANGED <<vars, persistentVars, hostVars, audioPc, prepared, contents>>

\* processBlock begins with consumeIfChanged.
BeginBlock ==
    /\ audioPc = "idle"
    /\ \/ ConsumeUnchanged /\ AudioGoes("render")
       \/ ConsumeBegin     /\ AudioGoes("consume")
    /\ UNCHANGED <<persistentVars, hostVars, prepared, wasPlaying, tails,
                   contents>>

ContinueConsume ==
    /\ audioPc = "consume"
    /\ \/ LoadCandidate
       \/ Claim
       \/ ConfirmClaim
       \/ RefuteClaim
       \/ Unclaim
       \/ \E w \in StateWords : CopyWord(w)
       \/ AdoptGeneration
    /\ UNCHANGED <<persistentVars, hostVars, audioVars, contents>>

\* A plausible bug: the tails of the previous preset ring on.
AdoptWithoutReset ==
    /\ audioPc = "consume"
    /\ Release
    /\ AudioGoes("render")
    /\ UNCHANGED <<persistentVars, hostVars, prepared, wasPlaying, tails,
                   contents>>

\* consumeIfChanged returned true.
AdoptPreset ==
    /\ audioPc = "consume"
    /\ Release
    /\ resetPlayback
    /\ AudioGoes("render")
    /\ UNCHANGED <<persistentVars, hostVars, prepared, contents>>

\* consumeIfChanged returned false after its attempts.
KeepPreset ==
    /\ audioPc = "consume"
    /\ GiveUp
    /\ AudioGoes("render")
    /\ UNCHANGED <<persistentVars, hostVars, prepared, wasPlaying, tails,
                   contents>>

\* The state that was never consumed is the default-constructed one, which
\* isValid() refuses.
RealtimeStateValid == \A w \in StateWords : realtime[w] # 0

EndBlock ==
    /\ audioPc = "render"
    /\ AudioGoes("idle")
    /\ UNCHANGED <<vars, persistentVars, hostVars, prepared, contents>>

\* A block that cannot be scheduled is silent, and so is what follows: the
\* state is not valid, the host gives no position or an unusable one, it is
\* stopped, or the beats overflow their buffer.
RenderNothing ==
    /\ EndBlock
    /\ resetPlayback

\* What RenderBeats leaves in the engine, given that the block follows the one
\* before or not, and that some of its beats click or none does.
TailsAfter(hostJumped, clicks) ==
    LET kept  == IF hostJumped \/ ~wasPlaying THEN {} ELSE tails
        heard == IF clicks /\ prepared THEN {lastGeneration} ELSE {}
    IN  SUBSET (kept \union heard)

\* A plausible bug: the state is played without a look at isValid().
RenderUnvalidated ==
    /\ EndBlock
    /\ wasPlaying' = TRUE
    /\ \E hostJumped, clicks \in BOOLEAN : tails' \in TailsAfter(hostJumped, clicks)

\* The host plays.  A block that does not follow the one before resets the
\* engine; clicks are triggered (none are before prepareToPlay), and tails
\* that have faded end.
RenderBeats ==
    /\ EndBlock
    /\ RealtimeStateValid
    /\ wasPlaying' = TRUE
    /\ \E hostJumped, clicks \in BOOLEAN : tails' \in TailsAfter(hostJumped, clicks)

AudioStep ==
    \/ BeginBlock
    \/ ContinueConsume
    \/ AdoptPreset
    \/ KeepPreset
    \/ RenderNothing
    \/ RenderBeats

----------------------------------------------------------------------------
ProcessorNext ==
    \/ \E t \in HostThreads : BeginOperation(t) \/ HostStep(t) \/ Throw(t)
    \/ AudioStep
    \/ prepareToPlay
    \/ releaseResources

\* A host thread goes on with the operation that it has begun (waiting for the
\* mutex where it must), and the host keeps calling processBlock.  Nothing
\* obliges an allocation to fail.
ProcessorFairness ==
    /\ \A t \in HostThreads : WF_processorVars(HostStep(t))
    /\ WF_processorVars(AudioStep)

ProcessorSpec == ProcessorInit /\ [][ProcessorNext]_processorVars
ProcessorFairSpec == ProcessorSpec /\ ProcessorFairness
----------------------------------------------------------------------------
(* Properties *)

ProcessorTypeOK ==
    /\ TypeOK
    /\ persistentStateMutex \in HostThreads \union {NoThread}
    /\ persistentPresetJson \in Documents
    /\ lastPresetErrors \in [op : Operations \union {"none"}, path : BOOLEAN]
    /\ stateRestoreException \in BOOLEAN
    /\ hostPc \in [HostThreads -> {"idle", "decode", "prefix", "catch",
                                   "publish", "publishing"}]
    /\ hostOperation \in [HostThreads -> Operations \union {"none"}]
    /\ hostDocument \in [HostThreads -> Documents \union {Undecodable}]
    /\ operations \in 0 .. MaxOperations
    /\ audioPc \in {"idle", "consume", "render"}
    /\ prepared \in BOOLEAN /\ wasPlaying \in BOOLEAN
    /\ tails \in SUBSET (1 .. MaxGeneration)
    /\ contents \in [1 .. MaxGeneration -> Documents]

(* The inductive invariant, in named parts. *)

\* Whoever holds the mutex is about to publish or publishing, and only the
\* holder is; so publish() has one caller at a time.
MutexGuardsPublication ==
    \A t \in HostThreads :
        /\ hostPc[t] \in {"publish", "publishing"} <=> persistentStateMutex = t
        /\ hostPc[t] = "publish" => writerPc = "idle"
        /\ hostPc[t] = "publishing" => /\ writerPc # "idle"
                                      /\ publishedGeneration < MaxGeneration

\* What is published, or is about to be, is the document that is kept.
PublicationIsPersisted ==
    /\ MutexFree => /\ writerPc = "idle"
                    /\ contents[publishedGeneration] = persistentPresetJson
    /\ \A t \in HostThreads :
        /\ hostPc[t] = "publish" => hostDocument[t] = persistentPresetJson
        /\ hostPc[t] = "publishing" =>
              contents[publishedGeneration + 1] = persistentPresetJson

\* Every document that is kept or published was validated.
DocumentsValidated ==
    /\ persistentPresetJson \in ValidDocuments
    /\ contents \in [1 .. MaxGeneration -> ValidDocuments]
    /\ publishedGeneration \in 1 .. MaxGeneration

\* From the adoption of a preset to the reset that follows it, and at no other
\* time, the clicks that sound may be of the preset before.
TailsOfPlayedPreset ==
    /\ audioPc = "consume" <=> readerPc # "idle"
    /\ readerPc # "release" =>
          tails \subseteq (IF wasPlaying THEN {lastGeneration} ELSE {})

\* What every step preserves.
ProcessorInv ==
    /\ ProcessorTypeOK
    /\ ExchangeInv
    /\ MutexGuardsPublication
    /\ PublicationIsPersisted
    /\ DocumentsValidated
    /\ TailsOfPlayedPreset

\* What the host would save is what was published last: no interleaving of
\* operations leaves the project with one preset and the audio callback with
\* another.
PersistedIsPublished ==
    MutexFree => /\ activeGeneration = publishedGeneration
                 /\ contents[activeGeneration] = StateInformation

\* A failed load or restore leaves the active preset alone: the host never
\* saves, and the audio callback never plays, a document that was refused.
OnlyValidDocumentsActive ==
    /\ StateInformation \in ValidDocuments
    /\ lastGeneration # 0 => contents[lastGeneration] \in ValidDocuments

\* Between two blocks, the clicks that still sound are of the preset that is
\* played; when the scheduler was reset, none sound.
NoStaleTails ==
    audioPc = "idle" => tails \subseteq (IF wasPlaying THEN {lastGeneration} ELSE {})

\* Once the host begins no more operations, the audio callback ends up playing
\* the preset that the host would save.
PlaysPersisted ==
    <>[](\A t \in HostThreads : hostPc[t] = "idle") =>
        <>[](/\ lastGeneration # 0
             /\ contents[lastGeneration] = persistentPresetJson
             /\ \A w \in StateWords : realtime[w] = lastGeneration)

\* The mutex is never waited for by the thread that holds it, nor kept: each
\* of finitely many operations ends.
OperationsFinish ==
    \A t \in HostThreads : hostPc[t] # "idle" ~> hostPc[t] = "idle"

\* docs/plugin-state.md: "File-load diagnostics include the full source path
\* and the violated rule."  Not so for a thread that asks between the two
\* times that loadPresetFile records the errors of an invalid file.
DiagnosticsNamePath ==
    MutexFree /\ LastPresetErrors.op = "load" => LastPresetErrors.path
============================================================================
