------------------------- MODULE PresetStateExchange -------------------------
(***************************************************************************)
(* PluginPresetStateExchange: the lock-free triple buffer through which a  *)
(* host thread hands a realtime preset state to the audio callback.        *)
(*                                                                         *)
(* publish() has one caller at a time (every caller holds                  *)
(* persistentStateMutex) and consumeIfChanged() is called by the audio     *)
(* callback alone, so there is one writer process and one reader process.  *)
(* Each access to an atomic is one step.  A slot is ordinary memory: it is *)
(* written and read word by word, so that a write overlapping a read is a  *)
(* behaviour of the model.                                                 *)
(*                                                                         *)
(* What a word holds is abstracted to the number of the publication that   *)
(* wrote it; 0 is the default-constructed state.                           *)
(***************************************************************************)
EXTENDS Integers, FiniteSets

CONSTANTS
    StateWords,      \* the memory words of a RealtimePresetState
    MaxGeneration    \* bound: how many states are published

ASSUME StateWordsAssumption == StateWords # {} /\ "generation" \notin StateWords
ASSUME MaxGenerationAssumption == MaxGeneration \in Nat

SlotCount == 3
SlotIds   == 0 .. SlotCount - 1
NoSlot    == -1

Fields == StateWords \union {"generation"}

VARIABLES
    \* shared between the threads
    slots,                \* the words of each slot
    activeSlot,           \* atomic: the slot published last
    readerSlot,           \* atomic: the slot the reader claims, or NoSlot
    publishedGeneration,  \* atomic: the number of the last publication
    \* locals of publish()
    writerPc, currentActiveSlot, targetSlot, written,
    \* locals of consumeIfChanged(), and the state and generation it updates
    readerPc, seenGeneration, attempt, candidateSlot, copied,
    realtime, lastGeneration

sharedVars == <<slots, activeSlot, readerSlot, publishedGeneration>>
writerVars == <<writerPc, currentActiveSlot, targetSlot, written>>
readerVars == <<readerPc, seenGeneration, attempt, candidateSlot, copied,
                realtime, lastGeneration>>
vars == <<sharedVars, writerVars, readerVars>>

Init ==
    /\ slots = [s \in SlotIds |-> [f \in Fields |-> 0]]
    /\ activeSlot = 0
    /\ readerSlot = NoSlot
    /\ publishedGeneration = 0
    /\ writerPc = "idle"
    /\ currentActiveSlot = 0
    /\ targetSlot = NoSlot
    /\ written = {}
    /\ readerPc = "idle"
    /\ seenGeneration = 0
    /\ attempt = 0
    /\ candidateSlot = 0
    /\ copied = {}
    /\ realtime = [w \in StateWords |-> 0]
    /\ lastGeneration = 0

----------------------------------------------------------------------------
(* publish() *)

\* A plausible bug: the writer looks only at the active slot and may reuse the
\* slot that the reader is copying.
FreeSlotsIgnoringReader(active, reader) == SlotIds \ {active}

FreeSlots(active, reader) == SlotIds \ {active, reader}

LowestOf(S) == CHOOSE s \in S : \A t \in S : s <= t

PublishBegin ==
    /\ writerPc = "idle"
    /\ publishedGeneration < MaxGeneration
    /\ currentActiveSlot' = activeSlot
    /\ writerPc' = "loadReader"
    /\ UNCHANGED <<sharedVars, targetSlot, written, readerVars>>

SelectTargetSlot ==
    /\ writerPc = "loadReader"
    /\ targetSlot' = LowestOf(FreeSlots(currentActiveSlot, readerSlot))
    /\ written' = {}
    /\ writerPc' = "write"
    /\ UNCHANGED <<sharedVars, currentActiveSlot, readerVars>>

\* The compiler may order the words of the aggregate assignment as it likes.
WriteField(f) ==
    /\ writerPc = "write"
    /\ f \notin written
    /\ slots' = [slots EXCEPT ![targetSlot][f] = publishedGeneration + 1]
    /\ written' = written \union {f}
    /\ UNCHANGED <<activeSlot, readerSlot, publishedGeneration, writerPc,
                   currentActiveSlot, targetSlot, readerVars>>

StoreActiveSlot ==
    /\ writerPc = "write"
    /\ written = Fields
    /\ activeSlot' = targetSlot
    /\ writerPc' = "storeGeneration"
    /\ UNCHANGED <<slots, readerSlot, publishedGeneration, currentActiveSlot,
                   targetSlot, written, readerVars>>

StorePublishedGeneration ==
    /\ writerPc = "storeGeneration"
    /\ publishedGeneration' = publishedGeneration + 1
    /\ writerPc' = "idle"
    /\ UNCHANGED <<slots, activeSlot, readerSlot, currentActiveSlot,
                   targetSlot, written, readerVars>>

\* A plausible bug: the two stores that end publish() in the other order.
PublishGenerationFirst ==
    \/ PublishBegin
    \/ SelectTargetSlot
    \/ \E f \in Fields : WriteField(f)
    \/ /\ writerPc = "write" /\ written = Fields
       /\ publishedGeneration' = publishedGeneration + 1
       /\ writerPc' = "storeGeneration"
       /\ UNCHANGED <<slots, activeSlot, readerSlot, currentActiveSlot,
                      targetSlot, written, readerVars>>
    \/ /\ writerPc = "storeGeneration"
       /\ activeSlot' = targetSlot
       /\ writerPc' = "idle"
       /\ UNCHANGED <<slots, readerSlot, publishedGeneration,
                      currentActiveSlot, targetSlot, written, readerVars>>

Publish ==
    \/ PublishBegin
    \/ SelectTargetSlot
    \/ \E f \in Fields : WriteField(f)
    \/ StoreActiveSlot
    \/ StorePublishedGeneration

----------------------------------------------------------------------------
(* consumeIfChanged() *)

\* The early return: nothing was published since the last call.
ConsumeUnchanged ==
    /\ readerPc = "idle"
    /\ publishedGeneration = lastGeneration
    /\ seenGeneration' = publishedGeneration
    /\ UNCHANGED <<sharedVars, writerVars, readerPc, attempt, candidateSlot,
                   copied, realtime, lastGeneration>>

ConsumeBegin ==
    /\ readerPc = "idle"
    /\ publishedGeneration # lastGeneration
    /\ seenGeneration' = publishedGeneration
    /\ attempt' = 0
    /\ readerPc' = "loadActive"
    /\ UNCHANGED <<sharedVars, writerVars, candidateSlot, copied, realtime,
                   lastGeneration>>

\* A plausible bug: the loop has no bound.
LoadCandidateUnbounded ==
    /\ readerPc = "loadActive"
    /\ candidateSlot' = activeSlot
    /\ readerPc' = "claim"
    /\ UNCHANGED <<sharedVars, writerVars, seenGeneration, attempt, copied,
                   realtime, lastGeneration>>

LoadCandidate ==
    /\ readerPc = "loadActive"
    /\ attempt < SlotCount
    /\ candidateSlot' = activeSlot
    /\ readerPc' = "claim"
    /\ UNCHANGED <<sharedVars, writerVars, seenGeneration, attempt, copied,
                   realtime, lastGeneration>>

Claim ==
    /\ readerPc = "claim"
    /\ readerSlot' = candidateSlot
    /\ readerPc' = "check"
    /\ UNCHANGED <<slots, activeSlot, publishedGeneration, writerVars,
                   seenGeneration, attempt, candidateSlot, copied, realtime,
                   lastGeneration>>

\* A plausible bug: the claim is trusted without a second look at activeSlot.
ConfirmWithoutRecheck ==
    /\ readerPc = "check"
    /\ copied' = {}
    /\ readerPc' = "copy"
    /\ UNCHANGED <<sharedVars, writerVars, seenGeneration, attempt,
                   candidateSlot, realtime, lastGeneration>>

\* The second load of activeSlot confirms the claim.
ConfirmClaim ==
    /\ readerPc = "check"
    /\ activeSlot = candidateSlot
    /\ copied' = {}
    /\ readerPc' = "copy"
    /\ UNCHANGED <<sharedVars, writerVars, seenGeneration, attempt,
                   candidateSlot, realtime, lastGeneration>>

\* The second load of activeSlot finds a newer publication.
RefuteClaim ==
    /\ readerPc = "check"
    /\ activeSlot # candidateSlot
    /\ readerPc' = "unclaim"
    /\ UNCHANGED <<sharedVars, writerVars, seenGeneration, attempt,
                   candidateSlot, copied, realtime, lastGeneration>>

Unclaim ==
    /\ readerPc = "unclaim"
    /\ readerSlot' = NoSlot
    /\ attempt' = attempt + 1
    /\ readerPc' = "loadActive"
    /\ UNCHANGED <<slots, activeSlot, publishedGeneration, writerVars,
                   seenGeneration, candidateSlot, copied, realtime,
                   lastGeneration>>

\* A plausible bug: the loop leaves after its first refuted claim.
GiveUpAtOnce ==
    /\ readerPc = "loadActive"
    /\ attempt >= 1
    /\ readerSlot' = NoSlot
    /\ readerPc' = "idle"
    /\ UNCHANGED <<slots, activeSlot, publishedGeneration, writerVars,
                   seenGeneration, attempt, candidateSlot, copied, realtime,
                   lastGeneration>>

\* Three refuted claims: the state stays as it is until the next callback.
GiveUp ==
    /\ readerPc = "loadActive"
    /\ attempt = SlotCount
    /\ readerSlot' = NoSlot
    /\ readerPc' = "idle"
    /\ UNCHANGED <<slots, activeSlot, publishedGeneration, writerVars,
                   seenGeneration, attempt, candidateSlot, copied, realtime,
                   lastGeneration>>

CopyWord(w) ==
    /\ readerPc = "copy"
    /\ w \notin copied
    /\ realtime' = [realtime EXCEPT ![w] = slots[candidateSlot][w]]
    /\ copied' = copied \union {w}
    /\ UNCHANGED <<sharedVars, writerVars, readerPc, seenGeneration, attempt,
                   candidateSlot, lastGeneration>>

\* A plausible bug: the published generation is remembered instead of the
\* generation of the slot that was copied.
AdoptPublishedGeneration ==
    /\ readerPc = "copy"
    /\ copied = StateWords
    /\ lastGeneration' = publishedGeneration
    /\ readerPc' = "release"
    /\ UNCHANGED <<sharedVars, writerVars, seenGeneration, attempt,
                   candidateSlot, copied, realtime>>

AdoptGeneration ==
    /\ readerPc = "copy"
    /\ copied = StateWords
    /\ lastGeneration' = slots[candidateSlot]["generation"]
    /\ readerPc' = "release"
    /\ UNCHANGED <<sharedVars, writerVars, seenGeneration, attempt,
                   candidateSlot, copied, realtime>>

Release ==
    /\ readerPc = "release"
    /\ readerSlot' = NoSlot
    /\ readerPc' = "idle"
    /\ UNCHANGED <<slots, activeSlot, publishedGeneration, writerVars,
                   seenGeneration, attempt, candidateSlot, copied, realtime,
                   lastGeneration>>

Consume ==
    \/ ConsumeUnchanged
    \/ ConsumeBegin
    \/ LoadCandidate
    \/ Claim
    \/ ConfirmClaim
    \/ RefuteClaim
    \/ Unclaim
    \/ GiveUp
    \/ \E w \in StateWords : CopyWord(w)
    \/ AdoptGeneration
    \/ Release

----------------------------------------------------------------------------
Next == Publish \/ Consume

\* A publication that was begun is finished, and the host keeps calling the
\* audio callback.  Nothing obliges a host thread to begin a publication.
Fairness ==
    /\ WF_vars(Publish /\ writerPc # "idle")
    /\ WF_vars(Consume)

Spec == Init /\ [][Next]_vars
FairSpec == Spec /\ Fairness
----------------------------------------------------------------------------
(* Properties *)

TypeOK ==
    /\ slots \in [SlotIds -> [Fields -> Nat]]
    /\ activeSlot \in SlotIds
    /\ readerSlot \in SlotIds \union {NoSlot}
    /\ publishedGeneration \in Nat
    /\ writerPc \in {"idle", "loadReader", "write", "storeGeneration"}
    /\ currentActiveSlot \in SlotIds
    /\ targetSlot \in SlotIds \union {NoSlot}
    /\ written \in SUBSET Fields
    /\ readerPc \in {"idle", "loadActive", "claim", "check", "unclaim",
                     "copy", "release"}
    /\ seenGeneration \in Nat
    /\ attempt \in 0 .. SlotCount
    /\ candidateSlot \in SlotIds
    /\ copied \in SUBSET StateWords
    /\ realtime \in [StateWords -> Nat]
    /\ lastGeneration \in Nat

(* The inductive invariant, in named parts. *)

activeGeneration == slots[activeSlot]["generation"]

\* The writer never writes the active slot, and what it has written of its
\* target so far is the coming publication.
WriterOwnsTarget ==
    /\ writerPc = "loadReader" => currentActiveSlot = activeSlot
    /\ writerPc = "write" => /\ targetSlot \in SlotIds \ {activeSlot}
                             /\ \A f \in written :
                                   slots[targetSlot][f] = publishedGeneration + 1

\* Every slot but the one being written holds one whole publication.
SlotsWhole ==
    \A s \in SlotIds :
        \/ writerPc = "write" /\ s = targetSlot
        \/ \A f \in Fields : slots[s][f] = slots[s]["generation"]

\* The active slot holds the last publication, which publishedGeneration
\* names, or is about to.
ActiveIsLatest ==
    activeGeneration = IF writerPc = "storeGeneration"
                       THEN publishedGeneration + 1 ELSE publishedGeneration

\* A claimed slot that was confirmed is not the writer's target, and what was
\* copied of it is what it still holds.
ReaderOwnsCandidate ==
    /\ readerPc \in {"check", "copy"} => readerSlot = candidateSlot
    /\ readerPc = "copy" =>
          /\ writerPc = "write" => targetSlot # candidateSlot
          /\ slots[candidateSlot]["generation"]
                \in lastGeneration .. activeGeneration
          /\ slots[candidateSlot]["generation"] >= seenGeneration
          /\ \A w \in copied :
                realtime[w] = slots[candidateSlot]["generation"]

\* Each refuted claim of a call was overtaken by a publication of its own.
AttemptsOvertaken ==
    /\ lastGeneration <= activeGeneration
    /\ seenGeneration <= publishedGeneration
    /\ readerPc = "loadActive" => activeGeneration >= seenGeneration + attempt
    /\ readerPc \in {"claim", "check"} =>
          /\ attempt < SlotCount
          /\ activeGeneration >= seenGeneration + attempt
          /\ activeSlot # candidateSlot =>
                activeGeneration >= seenGeneration + attempt + 1
    /\ readerPc = "unclaim" =>
          /\ attempt < SlotCount
          /\ activeGeneration >= seenGeneration + attempt + 1

\* publish() always finds a free slot (the jassert), and while it writes one
\* the audio callback does not copy from it: no word of a slot is ever read
\* and written concurrently.
NoSlotRace ==
    ~ /\ writerPc = "write"
      /\ readerPc = "copy"
      /\ targetSlot = candidateSlot

\* Outside the copy, the state the audio callback plays is one publication,
\* whole, and it is the one lastGeneration names: never a mixture of two.
ConsistentSnapshot ==
    readerPc # "copy" => \A w \in StateWords : realtime[w] = lastGeneration

\* The invariant that every step preserves: the two properties above do not
\* imply themselves after a step, these parts together do.
ExchangeInv ==
    /\ TypeOK
    /\ WriterOwnsTarget
    /\ SlotsWhole
    /\ ActiveIsLatest
    /\ ReaderOwnsCandidate
    /\ AttemptsOvertaken
    /\ ConsistentSnapshot

\* A state adopted by consumeIfChanged() is never older than the state it
\* replaces, nor than what was published when the call began.
AdoptsFresh ==
    [][AdoptGeneration => /\ lastGeneration' >= lastGeneration
                          /\ lastGeneration' >= seenGeneration]_vars

\* consumeIfChanged() returns without the new state only when the writer
\* overtook every one of its three attempts.
GivesUpOnlyWhenOvertaken ==
    [][readerPc = "loadActive" /\ readerPc' = "idle"
        => slots[activeSlot]["generation"] >= seenGeneration + SlotCount]_vars

\* Once no more states are published, the audio callback ends up playing the
\* last one.  (While the host publishes without a pause the reader may be
\* overtaken for ever: three attempts a callback promise no more.)
ConvergesToLastPublished ==
    <>[](writerPc = "idle") =>
        <>[](/\ lastGeneration = publishedGeneration
             /\ \A w \in StateWords : realtime[w] = publishedGeneration)

\* The detailed protocol implements an atomic register.  A publication takes
\* effect at the store of activeSlot, an adoption at the second load of
\* activeSlot, although the words are copied after it.
Register == INSTANCE PresetRegister WITH
    latest <- slots[activeSlot]["generation"],
    held   <- IF readerPc = "copy"
              THEN [w \in StateWords |-> slots[candidateSlot]["generation"]]
              ELSE realtime

ImplementsRegister == Register!Spec

\* What a test asserts (tests/plugin_processor_tests.cpp: "A consumed
\* generation must not be consumed twice"): each call that returns true
\* delivers a generation that was not delivered before.  The code breaks it
\* when the call runs between the two stores that end publish().
NeverConsumedTwice ==
    [][AdoptGeneration => lastGeneration' > lastGeneration]_vars
============================================================================
