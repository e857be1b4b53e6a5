---------------------- MODULE PresetStateExchange_proofs ----------------------
(***************************************************************************)
(* Proofs about PresetStateExchange, for every set of words and every      *)
(* number of publications.                                                 *)
(***************************************************************************)
EXTENDS PresetStateExchange, TLAPS

USE StateWordsAssumption, MaxGenerationAssumption

\* The slots are three, and a slot is a number.
LEMMA SlotIdsValue == SlotIds = {0, 1, 2} /\ NoSlot \notin SlotIds
BY DEF SlotIds, SlotCount, NoSlot

\* The search loop of publish() finds a slot, the jassert holds: two of the
\* three slots at most are taken.
LEMMA FreeSlotExists ==
    ASSUME NEW active \in SlotIds, NEW reader \in SlotIds \union {NoSlot}
    PROVE  LowestOf(FreeSlots(active, reader)) \in SlotIds \ {active, reader}
<1>. DEFINE free == FreeSlots(active, reader)
<1>1. \E s \in free : \A t \in free : s <= t
  <2>1. CASE 0 \in free
    BY <2>1, SlotIdsValue DEF FreeSlots
  <2>2. CASE 0 \notin free /\ 1 \in free
    BY <2>2, SlotIdsValue DEF FreeSlots
  <2>3. CASE 0 \notin free /\ 1 \notin free
    BY <2>3, SlotIdsValue DEF FreeSlots, NoSlot
  <2>. QED BY <2>1, <2>2, <2>3
<1>2. LowestOf(free) \in free
  BY <1>1 DEF LowestOf
<1>. QED BY <1>2 DEF FreeSlots

----------------------------------------------------------------------------
LEMMA InitEstablishesInv == Init => ExchangeInv
BY SlotIdsValue DEF Init, ExchangeInv, TypeOK, WriterOwnsTarget, SlotsWhole, ActiveIsLatest,
   ReaderOwnsCandidate, AttemptsOvertaken, ConsistentSnapshot, activeGeneration,
   SlotCount, Fields
\* Every step of the writer and of the reader preserves the invariant.
LEMMA StepPreservesInv == ExchangeInv /\ [Next]_vars => ExchangeInv'
<1>. SUFFICES ASSUME ExchangeInv, [Next]_vars
              PROVE  ExchangeInv'
  OBVIOUS
<1>. USE SlotIdsValue DEF ExchangeInv, TypeOK, WriterOwnsTarget, SlotsWhole,
         ActiveIsLatest, ReaderOwnsCandidate, AttemptsOvertaken,
         ConsistentSnapshot, activeGeneration, sharedVars, writerVars,
         readerVars, SlotCount, Fields
<1>1. CASE PublishBegin
  BY <1>1 DEF PublishBegin
\* The target is neither the active slot nor the slot a confirmed reader claims.
<1>2. CASE SelectTargetSlot
  <2>1. TypeOK' /\ WriterOwnsTarget'
    BY <1>2, FreeSlotExists DEF SelectTargetSlot
  <2>2. ReaderOwnsCandidate'
    BY <1>2, FreeSlotExists DEF SelectTargetSlot
  <2>3. SlotsWhole' /\ ActiveIsLatest' /\ AttemptsOvertaken' /\ ConsistentSnapshot'
    BY <1>2, FreeSlotExists DEF SelectTargetSlot
  <2>. QED BY <2>1, <2>2, <2>3
\* Only the target changes, and the reader does not copy from it.
<1>3. ASSUME NEW f \in Fields, WriteField(f)
      PROVE  ExchangeInv'
  <2>1. TypeOK' /\ WriterOwnsTarget'
    BY <1>3 DEF WriteField
  <2>2. SlotsWhole'
    BY <1>3 DEF WriteField
  <2>3. ReaderOwnsCandidate'
    BY <1>3 DEF WriteField
  <2>4. ActiveIsLatest' /\ AttemptsOvertaken' /\ ConsistentSnapshot'
    BY <1>3 DEF WriteField
  <2>. QED BY <2>1, <2>2, <2>3, <2>4
\* The target, whole by now, becomes the active slot, one generation later.
<1>4. CASE StoreActiveSlot
  <2>1. WriterOwnsTarget' /\ SlotsWhole'
    BY <1>4 DEF StoreActiveSlot
  <2>2. ActiveIsLatest'
    BY <1>4 DEF StoreActiveSlot
  <2>3. ReaderOwnsCandidate' /\ AttemptsOvertaken'
    BY <1>4 DEF StoreActiveSlot
  <2>4. TypeOK' /\ ConsistentSnapshot'
    BY <1>4 DEF StoreActiveSlot
  <2>. QED BY <2>1, <2>2, <2>3, <2>4
<1>5. CASE StorePublishedGeneration
  BY <1>5 DEF StorePublishedGeneration
<1>6. CASE ConsumeUnchanged
  BY <1>6 DEF ConsumeUnchanged
<1>7. CASE ConsumeBegin
  BY <1>7 DEF ConsumeBegin
<1>8. CASE LoadCandidate
  BY <1>8 DEF LoadCandidate
<1>9. CASE Claim
  BY <1>9 DEF Claim
\* The candidate is still active, so it is whole, and not the target.
<1>10. CASE ConfirmClaim
  <2>1. ReaderOwnsCandidate'
    BY <1>10 DEF ConfirmClaim
  <2>2. TypeOK' /\ WriterOwnsTarget' /\ SlotsWhole' /\ ActiveIsLatest' /\ AttemptsOvertaken' /\ ConsistentSnapshot'
    BY <1>10 DEF ConfirmClaim
  <2>. QED BY <2>1, <2>2
<1>11. CASE RefuteClaim
  BY <1>11 DEF RefuteClaim
<1>12. CASE Unclaim
  BY <1>12 DEF Unclaim
<1>13. CASE GiveUp
  BY <1>13 DEF GiveUp
\* The candidate is whole: its word is of its generation.
<1>14. ASSUME NEW w \in StateWords, CopyWord(w)
      PROVE  ExchangeInv'
  <2>1. ReaderOwnsCandidate'
    BY <1>14 DEF CopyWord
  <2>2. TypeOK' /\ WriterOwnsTarget' /\ SlotsWhole' /\ ActiveIsLatest' /\ AttemptsOvertaken' /\ ConsistentSnapshot'
    BY <1>14 DEF CopyWord
  <2>. QED BY <2>1, <2>2
\* Every word was copied from the candidate.
<1>15. CASE AdoptGeneration
  <2>1. ConsistentSnapshot'
    BY <1>15 DEF AdoptGeneration
  <2>2. AttemptsOvertaken'
    BY <1>15 DEF AdoptGeneration
  <2>3. TypeOK' /\ WriterOwnsTarget' /\ SlotsWhole' /\ ActiveIsLatest' /\ ReaderOwnsCandidate'
    BY <1>15 DEF AdoptGeneration
  <2>. QED BY <2>1, <2>2, <2>3
<1>16. CASE Release
  BY <1>16 DEF Release
<1>17. CASE UNCHANGED vars
  BY <1>17 DEF vars
<1>. QED
  BY <1>1, <1>2, <1>3, <1>4, <1>5, <1>6, <1>7, <1>8, <1>9, <1>10, <1>11, <1>12, <1>13, <1>14, <1>15, <1>16, <1>17
     DEF Next, Publish, Consume

----------------------------------------------------------------------------
\* The protocol's invariant holds in every behaviour.
THEOREM ExchangeInvariant == Spec => []ExchangeInv
BY InitEstablishesInv, StepPreservesInv, PTL DEF Spec

\* Type correctness of the triple buffer.
THEOREM TypeCorrect == Spec => []TypeOK
<1>1. ExchangeInv => TypeOK
  BY DEF ExchangeInv
<1>. QED BY <1>1, ExchangeInvariant, PTL

\* No word of a slot is read by the audio callback while publish() writes it:
\* the plain memory of the slots is free of data races.
THEOREM RaceFree == Spec => []NoSlotRace
<1>1. ExchangeInv => NoSlotRace
  BY DEF ExchangeInv, ReaderOwnsCandidate, NoSlotRace
<1>. QED BY <1>1, ExchangeInvariant, PTL

\* The audio callback never plays a mixture of two publications.
THEOREM NeverTorn == Spec => []ConsistentSnapshot
<1>1. ExchangeInv => ConsistentSnapshot
  BY DEF ExchangeInv
<1>. QED BY <1>1, ExchangeInvariant, PTL

\* A state that is adopted is not older than the one it replaces, nor than
\* what was published when the call began.
THEOREM Fresh == Spec => AdoptsFresh
<1>1. ExchangeInv /\ AdoptGeneration => /\ lastGeneration' >= lastGeneration
                                        /\ lastGeneration' >= seenGeneration
  BY DEF ExchangeInv, TypeOK, ReaderOwnsCandidate, AdoptGeneration
<1>2. ExchangeInv /\ [Next]_vars
        => [AdoptGeneration => /\ lastGeneration' >= lastGeneration
                               /\ lastGeneration' >= seenGeneration]_vars
  BY <1>1
<1>. QED BY <1>2, ExchangeInvariant, PTL DEF Spec, AdoptsFresh

\* A call gives up only after the writer overtook each of its three attempts.
THEOREM GivesUpLast == Spec => GivesUpOnlyWhenOvertaken
<1>1. ASSUME ExchangeInv, Next, readerPc = "loadActive", readerPc' = "idle"
      PROVE  slots[activeSlot]["generation"] >= seenGeneration + SlotCount
  <2>1. GiveUp
    BY <1>1 DEF Next, Publish, Consume, PublishBegin, SelectTargetSlot,
       WriteField, StoreActiveSlot, StorePublishedGeneration, readerVars,
       ConsumeUnchanged, ConsumeBegin, LoadCandidate, Claim, ConfirmClaim,
       RefuteClaim, Unclaim, CopyWord, AdoptGeneration, Release
  <2>. QED
    BY <1>1, <2>1 DEF GiveUp, ExchangeInv, AttemptsOvertaken, activeGeneration
<1>2. ExchangeInv /\ [Next]_vars
        => [readerPc = "loadActive" /\ readerPc' = "idle"
              => slots[activeSlot]["generation"] >= seenGeneration + SlotCount]_vars
  BY <1>1
<1>. QED BY <1>2, ExchangeInvariant, PTL DEF Spec, GivesUpOnlyWhenOvertaken

----------------------------------------------------------------------------
(* The triple buffer implements the atomic register. *)

LEMMA InitRefines == Init => Register!Init
BY SlotIdsValue DEF Init, Register!Init, Fields

\* The store of activeSlot is the publication, the confirmed claim is the
\* adoption, and every other step leaves the register as it is.
LEMMA StepRefines ==
    ExchangeInv /\ ExchangeInv' /\ [Next]_vars => [Register!Next]_(Register!vars)
<1>. SUFFICES ASSUME ExchangeInv, ExchangeInv', [Next]_vars
              PROVE  Register!Next \/ UNCHANGED Register!vars
  OBVIOUS
<1>. DEFINE held == IF readerPc = "copy"
                    THEN [w \in StateWords |-> slots[candidateSlot]["generation"]]
                    ELSE realtime
<1>. USE SlotIdsValue DEF ExchangeInv, TypeOK, activeGeneration, SlotCount
<1>1. CASE StoreActiveSlot
  <2>1. activeGeneration' = activeGeneration + 1
    BY <1>1 DEF StoreActiveSlot, ActiveIsLatest
  <2>2. UNCHANGED held
    BY <1>1 DEF StoreActiveSlot, readerVars
  <2>. QED BY <2>1, <2>2 DEF Register!Next, Register!PublishNext
<1>2. CASE ConfirmClaim
  <2>1. UNCHANGED activeGeneration
    BY <1>2 DEF ConfirmClaim, sharedVars
  <2>2. held' = [w \in StateWords |-> activeGeneration]
    BY <1>2 DEF ConfirmClaim, sharedVars
  <2>. QED BY <2>1, <2>2 DEF Register!Next, Register!AdoptLatest
<1>3. ASSUME NEW f \in Fields, WriteField(f)
      PROVE  UNCHANGED Register!vars
  <2>1. UNCHANGED activeGeneration
    BY <1>3 DEF WriteField, WriterOwnsTarget
  <2>2. UNCHANGED held
    BY <1>3 DEF WriteField, ReaderOwnsCandidate, readerVars
  <2>. QED BY <2>1, <2>2 DEF Register!vars
<1>4. CASE AdoptGeneration
  <2>1. UNCHANGED activeGeneration
    BY <1>4 DEF AdoptGeneration, sharedVars
  <2>2. realtime = [w \in StateWords |-> slots[candidateSlot]["generation"]]
    BY <1>4 DEF AdoptGeneration, ReaderOwnsCandidate
  <2>3. UNCHANGED held
    BY <1>4, <2>2 DEF AdoptGeneration
  <2>. QED BY <2>1, <2>3 DEF Register!vars
<1>5. ASSUME NEW w \in StateWords, CopyWord(w)
      PROVE  UNCHANGED Register!vars
  BY <1>5 DEF CopyWord, sharedVars, Register!vars
<1>6. CASE \/ PublishBegin \/ SelectTargetSlot \/ StorePublishedGeneration
           \/ ConsumeUnchanged \/ ConsumeBegin \/ LoadCandidate \/ Claim
           \/ RefuteClaim \/ Unclaim \/ GiveUp \/ Release \/ UNCHANGED vars
  BY <1>6 DEF PublishBegin, SelectTargetSlot, StorePublishedGeneration,
     ConsumeUnchanged, ConsumeBegin, LoadCandidate, Claim, RefuteClaim,
     Unclaim, GiveUp, Release, vars, sharedVars, readerVars, Register!vars
<1>. QED
  BY <1>1, <1>2, <1>3, <1>4, <1>5, <1>6 DEF Next, Publish, Consume

\* The lock-free triple buffer behaves as an atomic register of preset states.
THEOREM Refinement == Spec => ImplementsRegister
<1>1. ExchangeInv /\ ExchangeInv' /\ [Next]_vars => [Register!Next]_(Register!vars)
  BY StepRefines
<1>. QED
  BY InitRefines, <1>1, ExchangeInvariant, PTL
     DEF Spec, ImplementsRegister, Register!Spec
==============================================================================
