------------------------ MODULE PluginProcessor_proofs ------------------------
(***************************************************************************)
(* Proofs about PluginProcessor, for every set of host threads, every set  *)
(* of documents and every number of operations.  What the triple buffer    *)
(* does is taken from PresetStateExchange_proofs: a step of the processor  *)
(* is a step of the triple buffer, or leaves it alone.                     *)
(***************************************************************************)
EXTENDS PluginProcessor, PresetStateExchange_proofs

USE DocumentsAssumption, HostThreadsAssumption, BoundsAssumption,
    StateWordsAssumption, MaxGenerationAssumption
    DEF DocumentsAssumption, HostThreadsAssumption, BoundsAssumption,
        StateWordsAssumption, MaxGenerationAssumption

----------------------------------------------------------------------------
LEMMA ReportType ==
    ASSUME NEW op \in Operations \union {"none"}, NEW path \in BOOLEAN
    PROVE  Report(op, path) \in [op : Operations \union {"none"}, path : BOOLEAN]
BY Zenon DEF Report

\* The state after the constructor satisfies the invariant of the exchange,
\* although it is not an initial state of it.
LEMMA ProcessorInitExchange == ProcessorInit => ExchangeInv
BY SlotIdsValue DEF ProcessorInit, ExchangeInv, TypeOK, WriterOwnsTarget, SlotsWhole,
   ActiveIsLatest, ReaderOwnsCandidate, AttemptsOvertaken, ConsistentSnapshot,
   activeGeneration, SlotCount, Fields

LEMMA ProcessorInitInv == ProcessorInit => ProcessorInv
<1>. SUFFICES ASSUME ProcessorInit PROVE ProcessorInv
  OBVIOUS
<1>1. ExchangeInv
  BY ProcessorInitExchange
<1>2. ProcessorTypeOK
  <2>1. NoErrors \in [op : Operations \union {"none"}, path : BOOLEAN]
    BY ReportType DEF NoErrors
  <2>2. hostOperation \in [HostThreads -> Operations \union {"none"}]
    BY DEF ProcessorInit
  <2>3. tails \in SUBSET (1 .. MaxGeneration) /\ contents \in [1 .. MaxGeneration -> Documents]
    BY DEF ProcessorInit
  <2>4. hostPc \in [HostThreads -> {"idle", "decode", "prefix", "catch",
                                   "publish", "publishing"}]
    BY DEF ProcessorInit
  <2>5. hostDocument \in [HostThreads -> Documents \union {Undecodable}]
    BY DEF ProcessorInit
  <2>6. operations \in 0 .. MaxOperations
    BY DEF ProcessorInit
  <2>. QED
    BY <1>1, <2>1, <2>2, <2>3, <2>4, <2>5, <2>6, Zenon
       DEF ProcessorInit, ProcessorTypeOK, ExchangeInv
<1>3. MutexGuardsPublication /\ PublicationIsPersisted
  BY DEF ProcessorInit, MutexGuardsPublication, PublicationIsPersisted, MutexFree
<1>4. DocumentsValidated /\ TailsOfPlayedPreset
  BY DEF ProcessorInit, DocumentsValidated, TailsOfPlayedPreset
<1>. QED BY <1>1, <1>2, <1>3, <1>4 DEF ProcessorInv

----------------------------------------------------------------------------
\* A step of the processor is a step of the triple buffer, or leaves it alone.
LEMMA ProcessorStepsExchange == [ProcessorNext]_processorVars => [Next]_vars
<1>. USE DEF Next, Publish, Consume
<1>1. ASSUME NEW t \in HostThreads, BeginOperation(t) \/ HostStep(t) \/ Throw(t)
      PROVE  [Next]_vars
  BY <1>1 DEF BeginOperation, HostStep, Throw, RejectUndecodable, RejectInvalid,
     RecordWithPath, CatchRestoreException, CommitPreset, CommitDocument,
     BeginPublication, ContinuePublication, FinishPublication
<1>2. AudioStep => [Next]_vars
  BY DEF AudioStep, BeginBlock, ContinueConsume, AdoptPreset, KeepPreset,
     RenderNothing, RenderBeats, EndBlock
<1>3. prepareToPlay \/ releaseResources => [Next]_vars
  BY DEF prepareToPlay, releaseResources
<1>4. UNCHANGED processorVars => [Next]_vars
  BY DEF processorVars
<1>. QED BY <1>1, <1>2, <1>3, <1>4 DEF ProcessorNext

\* The audio callback may adopt a publication only if one is there: what it
\* plays is numbered among the publications.
LEMMA AdoptedExists ==
    ASSUME ProcessorInv
    PROVE  /\ lastGeneration \in 0 .. MaxGeneration
           /\ activeGeneration \in 1 .. MaxGeneration
<1>1. writerPc = "storeGeneration" => publishedGeneration < MaxGeneration
  <2>1. CASE MutexFree
    BY <2>1 DEF ProcessorInv, PublicationIsPersisted
  <2>2. CASE ~MutexFree
    BY <2>2 DEF ProcessorInv, ProcessorTypeOK, MutexFree, MutexGuardsPublication
  <2>. QED BY <2>1, <2>2
<1>. QED
  BY <1>1 DEF ProcessorInv, DocumentsValidated, ExchangeInv, ActiveIsLatest,
     AttemptsOvertaken, TypeOK

----------------------------------------------------------------------------
(* The steps of the host threads *)

LEMMA HostStepsPreserveInv ==
    ASSUME ProcessorInv, ExchangeInv',
           NEW t \in HostThreads, BeginOperation(t) \/ HostStep(t) \/ Throw(t)
    PROVE  ProcessorInv'
<1>. USE DEF ProcessorInv, MutexFree, HostGoes
<1>1. CASE BeginOperation(t)
  <2>1. ProcessorTypeOK'
    BY <1>1 DEF BeginOperation, ProcessorTypeOK, persistentVars, audioVars, Operations, ExchangeInv
  <2>2. MutexGuardsPublication' /\ PublicationIsPersisted'
    BY <1>1 DEF BeginOperation, MutexGuardsPublication, PublicationIsPersisted, persistentVars, vars, sharedVars, writerVars, ProcessorTypeOK
  <2>3. DocumentsValidated' /\ TailsOfPlayedPreset'
    BY <1>1 DEF BeginOperation, DocumentsValidated, TailsOfPlayedPreset, persistentVars, audioVars, vars, sharedVars, readerVars
  <2>. QED BY <2>1, <2>2, <2>3
<1>2. CASE RejectUndecodable(t)
  <2>1. ProcessorTypeOK'
    BY <1>2, ReportType DEF RejectUndecodable, recordPresetErrors, ProcessorTypeOK, persistentVars, audioVars, ExchangeInv
  <2>2. MutexGuardsPublication' /\ PublicationIsPersisted'
    BY <1>2 DEF RejectUndecodable, recordPresetErrors, MutexGuardsPublication, PublicationIsPersisted, persistentVars, vars, sharedVars, writerVars, ProcessorTypeOK
  <2>3. DocumentsValidated' /\ TailsOfPlayedPreset'
    BY <1>2 DEF RejectUndecodable, recordPresetErrors, DocumentsValidated, TailsOfPlayedPreset, persistentVars, audioVars, vars, sharedVars, readerVars
  <2>. QED BY <2>1, <2>2, <2>3
<1>3. CASE RejectInvalid(t)
  <2>1. ProcessorTypeOK'
    BY <1>3, ReportType DEF RejectInvalid, recordPresetErrors, ProcessorTypeOK, persistentVars, audioVars, ExchangeInv
  <2>2. MutexGuardsPublication' /\ PublicationIsPersisted'
    BY <1>3 DEF RejectInvalid, recordPresetErrors, MutexGuardsPublication, PublicationIsPersisted, persistentVars, vars, sharedVars, writerVars, ProcessorTypeOK
  <2>3. DocumentsValidated' /\ TailsOfPlayedPreset'
    BY <1>3 DEF RejectInvalid, recordPresetErrors, DocumentsValidated, TailsOfPlayedPreset, persistentVars, audioVars, vars, sharedVars, readerVars
  <2>. QED BY <2>1, <2>2, <2>3
<1>4. CASE RecordWithPath(t)
  <2>1. ProcessorTypeOK'
    <3>1. lastPresetErrors' \in [op : Operations \union {"none"}, path : BOOLEAN]
      <4>1. "load" \in Operations
        BY DEF Operations
      <4>. QED BY <1>4, <4>1, ReportType DEF RecordWithPath, recordPresetErrors
    <3>. QED
      BY <1>4, <3>1 DEF RecordWithPath, recordPresetErrors, ProcessorTypeOK, persistentVars, audioVars, ExchangeInv
  <2>2. MutexGuardsPublication' /\ PublicationIsPersisted'
    BY <1>4 DEF RecordWithPath, recordPresetErrors, MutexGuardsPublication, PublicationIsPersisted, persistentVars, vars, sharedVars, writerVars, ProcessorTypeOK
  <2>3. DocumentsValidated' /\ TailsOfPlayedPreset'
    BY <1>4 DEF RecordWithPath, recordPresetErrors, DocumentsValidated, TailsOfPlayedPreset, persistentVars, audioVars, vars, sharedVars, readerVars
  <2>. QED BY <2>1, <2>2, <2>3
<1>5. CASE Throw(t) \/ CatchRestoreException(t)
  <2>1. ProcessorTypeOK'
    <3>1. CASE Throw(t)
      <4>1. hostPc' \in [HostThreads -> {"idle", "decode", "prefix", "catch", "publish", "publishing"}]
        BY <3>1 DEF Throw, HostGoes, ProcessorTypeOK
      <4>2. /\ hostOperation' \in [HostThreads -> Operations \union {"none"}]
            /\ hostDocument' \in [HostThreads -> Documents \union {Undecodable}]
        BY <3>1, DocumentsAssumption DEF Throw, HostGoes, ProcessorTypeOK
      <4>. QED
        BY <3>1, <4>1, <4>2 DEF Throw, ProcessorTypeOK, persistentVars, audioVars, ExchangeInv
    <3>2. CASE CatchRestoreException(t)
      <4>1. hostPc' \in [HostThreads -> {"idle", "decode", "prefix", "catch", "publish", "publishing"}]
        BY <3>2 DEF CatchRestoreException, HostGoes, ProcessorTypeOK
      <4>2. /\ hostOperation' \in [HostThreads -> Operations \union {"none"}]
            /\ hostDocument' \in [HostThreads -> Documents \union {Undecodable}]
        BY <3>2, DocumentsAssumption DEF CatchRestoreException, HostGoes, ProcessorTypeOK
      <4>. QED
        BY <3>2, <4>1, <4>2 DEF CatchRestoreException, ProcessorTypeOK, audioVars, ExchangeInv
    <3>. QED BY <1>5, <3>1, <3>2
  <2>2. MutexGuardsPublication' /\ PublicationIsPersisted'
    BY <1>5 DEF Throw, CatchRestoreException, MutexGuardsPublication, PublicationIsPersisted, persistentVars, vars, sharedVars, writerVars, ProcessorTypeOK
  <2>3. DocumentsValidated' /\ TailsOfPlayedPreset'
    BY <1>5 DEF Throw, CatchRestoreException, DocumentsValidated, TailsOfPlayedPreset, persistentVars, audioVars, vars, sharedVars, readerVars
  <2>. QED BY <2>1, <2>2, <2>3
<1>6. CASE CommitPreset(t)
  <2>1. ProcessorTypeOK'
    BY <1>6, ReportType DEF CommitPreset, CommitDocument, NoErrors, ProcessorTypeOK, persistentVars, audioVars, ExchangeInv
  <2>2. MutexGuardsPublication' /\ PublicationIsPersisted'
    BY <1>6 DEF CommitPreset, CommitDocument, MutexGuardsPublication, PublicationIsPersisted, vars, sharedVars, writerVars, ProcessorTypeOK
  <2>3. DocumentsValidated' /\ TailsOfPlayedPreset'
    BY <1>6 DEF CommitPreset, CommitDocument, DocumentsValidated, TailsOfPlayedPreset, audioVars, vars, sharedVars, readerVars
  <2>. QED BY <2>1, <2>2, <2>3
<1>7. CASE BeginPublication(t)
  <2>1. ProcessorTypeOK'
    <3>1. hostDocument[t] \in Documents
      BY <1>7 DEF BeginPublication, PublicationIsPersisted, ProcessorTypeOK
    <3>. QED
      BY <1>7, <3>1 DEF BeginPublication, ProcessorTypeOK, persistentVars, audioVars, ExchangeInv
  <2>2. MutexGuardsPublication' /\ PublicationIsPersisted'
    BY <1>7 DEF BeginPublication, PublishBegin, MutexGuardsPublication, PublicationIsPersisted, persistentVars, sharedVars, ProcessorTypeOK, DocumentsValidated
  <2>3. DocumentsValidated' /\ TailsOfPlayedPreset'
    BY <1>7 DEF BeginPublication, PublishBegin, DocumentsValidated, TailsOfPlayedPreset, PublicationIsPersisted, audioVars, persistentVars, sharedVars, readerVars
  <2>. QED BY <2>1, <2>2, <2>3
<1>8. CASE ContinuePublication(t)
  <2>1. ProcessorTypeOK'
    BY <1>8 DEF ContinuePublication, ProcessorTypeOK, persistentVars, hostVars, audioVars, ExchangeInv
  <2>2. /\ publishedGeneration' = publishedGeneration
        /\ writerPc' # "idle"
        /\ UNCHANGED readerPc /\ UNCHANGED lastGeneration
    BY <1>8 DEF ContinuePublication, SelectTargetSlot, WriteField, StoreActiveSlot, sharedVars, readerVars
  <2>3. MutexGuardsPublication' /\ PublicationIsPersisted'
    BY <1>8, <2>2 DEF ContinuePublication, MutexGuardsPublication, PublicationIsPersisted, persistentVars, hostVars, ProcessorTypeOK
  <2>4. DocumentsValidated' /\ TailsOfPlayedPreset'
    BY <1>8, <2>2 DEF ContinuePublication, DocumentsValidated, TailsOfPlayedPreset, audioVars, persistentVars
  <2>. QED BY <2>1, <2>3, <2>4
<1>9. CASE FinishPublication(t)
  <2>1. ProcessorTypeOK'
    BY <1>9 DEF FinishPublication, ProcessorTypeOK, audioVars, ExchangeInv
  <2>2. MutexGuardsPublication' /\ PublicationIsPersisted'
    BY <1>9 DEF FinishPublication, StorePublishedGeneration, MutexGuardsPublication, PublicationIsPersisted, ProcessorTypeOK, DocumentsValidated
  <2>3. DocumentsValidated' /\ TailsOfPlayedPreset'
    BY <1>9 DEF FinishPublication, StorePublishedGeneration, MutexGuardsPublication, DocumentsValidated, TailsOfPlayedPreset, audioVars, readerVars
  <2>. QED BY <2>1, <2>2, <2>3
<1>. QED
  BY <1>1, <1>2, <1>3, <1>4, <1>5, <1>6, <1>7, <1>8, <1>9 DEF HostStep

----------------------------------------------------------------------------
(* The steps of the audio callback *)

LEMMA AudioStepsPreserveInv ==
    ASSUME ProcessorInv, ExchangeInv',
           AudioStep \/ prepareToPlay \/ releaseResources
    PROVE  ProcessorInv'
<1>. USE DEF ProcessorInv, AudioGoes
\* The audio callback leaves the writer's side and the host threads alone ...
<1>1. UNCHANGED <<publishedGeneration, writerPc, persistentVars, hostVars, contents>>
  BY DEF AudioStep, BeginBlock, ContinueConsume, AdoptPreset, KeepPreset,
     RenderNothing, RenderBeats, EndBlock, prepareToPlay, releaseResources,
     ConsumeUnchanged, ConsumeBegin, LoadCandidate, Claim, ConfirmClaim,
     RefuteClaim, Unclaim, GiveUp, CopyWord, AdoptGeneration, Release,
     vars, sharedVars, writerVars
<1>2. MutexGuardsPublication' /\ PublicationIsPersisted' /\ DocumentsValidated'
  BY <1>1 DEF MutexGuardsPublication, PublicationIsPersisted, DocumentsValidated,
     MutexFree, persistentVars, hostVars
\* ... so that only its own variables remain to be looked at.
<1>3. SUFFICES /\ audioPc' \in {"idle", "consume", "render"}
               /\ prepared' \in BOOLEAN /\ wasPlaying' \in BOOLEAN
               /\ tails' \in SUBSET (1 .. MaxGeneration)
               /\ TailsOfPlayedPreset'
  BY <1>1, <1>2 DEF ProcessorTypeOK, persistentVars, hostVars, ExchangeInv
<1>. USE DEF ProcessorTypeOK, TailsOfPlayedPreset
<1>4. CASE BeginBlock
  BY <1>4 DEF BeginBlock, ConsumeUnchanged, ConsumeBegin
<1>5. CASE ContinueConsume
  BY <1>5 DEF ContinueConsume, LoadCandidate, Claim, ConfirmClaim, RefuteClaim,
     Unclaim, CopyWord, AdoptGeneration, audioVars
<1>6. CASE AdoptPreset
  BY <1>6 DEF AdoptPreset, Release, resetPlayback
<1>7. CASE KeepPreset
  BY <1>7 DEF KeepPreset, GiveUp
<1>8. CASE RenderNothing
  BY <1>8 DEF RenderNothing, EndBlock, resetPlayback, vars, readerVars
\* What sounds is of the preset that is played, and there is one: a state that
\* isValid() accepts was published.
<1>9. CASE RenderBeats
  <2>1. lastGeneration \in 1 .. MaxGeneration
    <3>1. readerPc = "idle"
      BY <1>9 DEF RenderBeats, EndBlock
    <3>2. lastGeneration # 0
      BY <1>9, <3>1 DEF RenderBeats, RealtimeStateValid, ExchangeInv, ConsistentSnapshot
    <3>. QED BY <3>2, AdoptedExists
  <2>2. UNCHANGED <<readerPc, lastGeneration>> /\ audioPc' = "idle" /\ prepared' = prepared
    BY <1>9 DEF RenderBeats, EndBlock, vars, readerVars
  <2>3. tails' \subseteq {lastGeneration}
    BY <1>9 DEF RenderBeats, EndBlock, TailsAfter
  <2>. QED BY <1>9, <2>1, <2>2, <2>3 DEF RenderBeats, EndBlock
<1>10. CASE prepareToPlay \/ releaseResources
  BY <1>10 DEF prepareToPlay, releaseResources, resetPlayback, vars, readerVars
<1>. QED
  BY <1>4, <1>5, <1>6, <1>7, <1>8, <1>9, <1>10 DEF AudioStep

----------------------------------------------------------------------------
LEMMA ProcessorStepInv == ProcessorInv /\ [ProcessorNext]_processorVars => ProcessorInv'
<1>. SUFFICES ASSUME ProcessorInv, [ProcessorNext]_processorVars
              PROVE  ProcessorInv'
  OBVIOUS
<1>1. ExchangeInv'
  BY StepPreservesInv, ProcessorStepsExchange DEF ProcessorInv
<1>2. CASE UNCHANGED processorVars
  BY <1>1, <1>2 DEF processorVars, vars, sharedVars, writerVars, readerVars,
     persistentVars, hostVars, audioVars, ProcessorInv, ProcessorTypeOK,
     ExchangeInv, MutexGuardsPublication, PublicationIsPersisted, MutexFree,
     DocumentsValidated, TailsOfPlayedPreset
<1>. QED
  BY <1>1, <1>2, HostStepsPreserveInv, AudioStepsPreserveInv DEF ProcessorNext

\* The processor's invariant holds in every behaviour, and with it the
\* invariant of the triple buffer: the mutex provides the single writer that
\* publish() relies on, the host the single reader.
THEOREM ProcessorInvariant == ProcessorSpec => []ProcessorInv
BY ProcessorInitInv, ProcessorStepInv, PTL DEF ProcessorSpec

\* Type correctness of the processor.
THEOREM ProcessorTypeCorrect == ProcessorSpec => []ProcessorTypeOK
<1>1. ProcessorInv => ProcessorTypeOK
  BY DEF ProcessorInv
<1>. QED BY <1>1, ProcessorInvariant, PTL

\* Whenever no host thread is in the middle of an operation's critical
\* section, what the host would save is what was published last.
THEOREM SavedIsPublished == ProcessorSpec => []PersistedIsPublished
<1>1. ProcessorInv => PersistedIsPublished
  BY DEF ProcessorInv, PublicationIsPersisted, PersistedIsPublished,
     StateInformation, ExchangeInv, ActiveIsLatest
<1>. QED BY <1>1, ProcessorInvariant, PTL

\* No document that the validator refuses is ever saved or played.
THEOREM OnlyValidActive == ProcessorSpec => []OnlyValidDocumentsActive
<1>1. ASSUME ProcessorInv PROVE OnlyValidDocumentsActive
  BY <1>1, AdoptedExists DEF ProcessorInv, DocumentsValidated,
     OnlyValidDocumentsActive, StateInformation
<1>. QED BY <1>1, ProcessorInvariant, PTL

\* Between two blocks no click of a preset that was replaced still sounds.
THEOREM TailsAreCurrent == ProcessorSpec => []NoStaleTails
<1>1. ProcessorInv => NoStaleTails
  BY DEF ProcessorInv, TailsOfPlayedPreset, NoStaleTails
<1>. QED BY <1>1, ProcessorInvariant, PTL
==============================================================================
