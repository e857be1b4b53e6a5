# TempoFlow in TLA+

TempoFlow is a headless VST3 metronome: a host (Cubase) loads a preset document
(`.tempoflow`, JSON) as project state, and the plug-in plays the preset's clicks at
the host's beats. This directory models the parts of it in which something could go
wrong that a unit test would hardly reach, checks the models with TLC on small
instances, and proves the central ones with TLAPS for every instance. Paths such as
`PluginPresetState.cpp` are relative to the repository's `src/<component>/`.

1. [The system](#1-the-system)
2. [Modules](#2-modules)
3. [Runs](#3-runs)
4. [Bounds](#4-bounds)
5. [Fairness](#5-fairness)
6. [Proofs](#6-proofs)
7. [Where the code departs from its documents](#7-where-the-code-departs-from-its-documents)
8. [What is not modelled](#8-what-is-not-modelled)
9. [Plan](#9-plan)

## 1. The system

```
 host threads                                             audio callback
 applyPresetJson / setStateInformation / loadPresetFile   processBlock
      |                                                        |
      | read file (PresetFileIO)                               | consumeIfChanged
      | validate  (PresetValidator)                            v
      | parse     (PresetRuntimeModel)          +---------------------------+
      | convert   (makeRealtimePresetState) --->| PluginPresetStateExchange |
      | persistentStateMutex: keep + publish    +---------------------------+
      v                                                        |
 persistentPresetJson, lastPresetErrors          host position |
      |                                                        v
 getStateInformation / getLastPresetErrors      BeatScheduler -> clickForBeat
                                                               -> SyntheticClickEngine
```

| Component | State | Operations | What makes it correct |
|---|---|---|---|
| Preset exchange (`PluginPresetStateExchange`) | three slots, `activeSlot`, `readerSlot`, `publishedGeneration` (atomics) | `publish` (host), `consumeIfChanged` (audio) | lock-free single-writer single-reader register: no data race on a slot, no torn state, nothing older than before, convergence |
| Processor (`TempoFlowAudioProcessor`) | mutex, persistent document, diagnostics, restore flag; realtime state, scheduler, engine | `applyPresetJson`, `loadPresetFile`, `setStateInformation`, `getStateInformation`, `getLastPresetErrors`; `prepareToPlay`, `releaseResources`, `processBlock` | what is saved is what is published; a failure changes nothing; no click of a replaced preset sounds; every operation ends |
| Beat scheduler (`BeatScheduler`) | `wasPlaying`, expected next sample and ppq position | `schedule`, `reset` | every pulse once, at its sample, numbered as the host's bars; continuous blocks recognised as such |
| Preset validator (`PresetValidator`) | none | `validatePresetJson` | accepts the presets of the format and nothing else; bounded work |
| Runtime model (`PresetRuntimeModel`) | none | `parsePresetJson`, `loadPresetFile` | beats in order whatever the document's order |
| Realtime conversion (`makeRealtimePresetState`, `clickForBeat`) | none | conversion, choice of a click | converts all that the validator accepts; accents and silence as the format says |
| Click engine (`SyntheticClickEngine`) | 64 voices, sample rate, noise seed | `prepare`, `reset`, `trigger`, `triggerTripletSubdivision`, `render` | a new click always sounds; every click ends within the announced tail |
| File access (`PresetFileIO`) | none (the file system's) | `collectPresetFiles`, `readPresetFileBounded` | limits on files, entries, depth, bytes; no link followed; file may change in between |
| JSON complexity scan (in `PresetValidator`) | a stack of open containers, counters | `validateJsonComplexity` | no text beyond the limits reaches the parser, none within them is refused; its own stack is bounded for any text |
| Validator command | none | `main` of `preset_validator` | exit code 0 only if every preset below the inputs was read and found valid |
| Factory preset generator | output directory | `main` of `vst3_preset_generator` | nothing is written before all is verified; outputs are whole; components are terminated on every path |
| Tool chain check | none | `toolchain_check` | prints versions |

How they interact: host threads meet each other at `persistentStateMutex` only, and
the audio callback at the exchange's three atomics only. The scheduler and the engine
belong to the audio callback; the host does not call `processBlock` concurrently with
itself or with `prepareToPlay`/`releaseResources`.

What is hard in it: the slot protocol (a writer choosing a slot while the reader
claims one); a publication met half done; two host threads in one operation each; a
failure or an exception halfway through a load; a state adopted while the clicks of the
one before still sound; block boundaries that fall near a pulse, with positions that
are not exact; a validator, a parser and a converter that must agree on what a preset
is, because `applyPresetJson` publishes without asking `isValid()`; a scan that counts
brackets without knowing the grammar; files that change between their discovery and
their reading; a tool that is killed, or fails, halfway through its output. `PROJECT.json`
lists these hazards at their lines with the properties that would catch them.

## 2. Modules

| Module | Models | Extends / uses |
|---|---|---|
| `PresetStateExchange` | the triple buffer, one step per atomic access, slots written and read word by word | |
| `PresetRegister` | abstract: an atomic register of preset states | refined by `PresetStateExchange` |
| `PresetStateExchange_proofs` | proofs about the triple buffer | |
| `PluginProcessor` | host threads, mutex, persistent state, diagnostics, audio callback, composed with the triple buffer | EXTENDS `PresetStateExchange` |
| `PluginProcessor_proofs` | proofs about the composition | EXTENDS both of the above and the exchange's proofs |
| `BeatScheduler` | `schedule()` and `reset()` on exact musical time | |
| `HostPlayback` | the host's transport, and `processBlock`'s use of the scheduler | EXTENDS `BeatScheduler` |
| `HostPlayback_proofs` | proofs about scheduler and host | |
| `JsonComplexity` | `validateJsonComplexity`, character by character | |
| `JsonText` | the scan beside the grammar of JSON, on the same text | EXTENDS `JsonComplexity` |
| `JsonText_proofs` | proofs about the scan, by simulation | |
| `PresetPipeline` | text to sound: scan, validation, parsing, conversion, choice of a click | EXTENDS `JsonText` |
| `PresetPipeline_proofs` | the proofs about the scan, carried to the pipeline | EXTENDS both of the above |
| `ClickSounds` | the sounds of the engine: levels, decays, tail | |
| `ClickEngine` | the voices, and `processBlock`'s loop over the pulses of a block | EXTENDS `ClickSounds` |
| `ClickMix` | abstract: the clicks that sound, without voices or blocks | refined by `ClickEngine` |
| `ClickEngine_proofs` | proofs about the engine | |
| `PresetFiles` | discovery and bounded reading of preset files, and the validator command | |
| `PresetFiles_proofs` | proofs about it | |
| `FactoryPresetGenerator` | the generator of the VST3 factory presets | |
| `FactoryPresetGenerator_proofs` | proofs about it | |
| `MC...` | instances for TLC | |

### PresetStateExchange

`writerPc` walks through `publish()` and `readerPc` through `consumeIfChanged()`;
`currentActiveSlot`, `targetSlot`, `candidateSlot`, `attempt` are the functions' locals,
`realtime` and `lastGeneration` the arguments that `consumeIfChanged()` updates. Each
load and store of an atomic is an action of its own. `slots` is plain memory: the
aggregate assignment of the writer is one `WriteField` per word and the generation, in
any order, the copy of the reader one `CopyWord` per word, so that a write that
overlaps a read is a behaviour of the model and `NoSlotRace` says that there is none.
What a word holds is abstracted to the number of the publication that wrote it; a
torn state is one whose words differ.

Atomics are modelled as sequentially consistent. The accesses to `activeSlot` and
`readerSlot` are `memory_order_seq_cst` in the code. `publishedGeneration` is released
and acquired: a stale load of it only makes a call return early (it is repeated at the
next callback), since the state itself is found through `activeSlot`.

The refinement: a publication takes effect at the store of `activeSlot`, an adoption
at the second load of `activeSlot` that confirms the claim, although the words are
copied after it; `held` is therefore mapped to the claimed slot while the copy runs.

### PluginProcessor

Each host thread runs one operation at a time (`hostPc`, `hostOperation`,
`hostDocument`): apply an in-memory document, restore the host's bytes, or load a file.
A thread forgets these arguments when no later step depends on them.
A document is a model value, valid or not, or `Undecodable` (a file that cannot be
read, bytes that are no UTF-8). A critical section that only touches data of the mutex
is one step enabled when the mutex is free; the section that publishes holds
`persistentStateMutex` over the steps of `publish()`. `Throw` is an allocation failure:
`setStateInformation` catches it and sets the atomic `stateRestoreException` without
the mutex. `loadPresetFile` records the errors of an invalid file twice, without and
with its path, as the code does.

The audio callback consumes (the steps of the exchange), resets when a state was
adopted, and renders. `tails` holds the publications whose clicks still sound,
`wasPlaying` stands for the scheduler's state. `contents` is history: the document of
each publication. The initial state is that after the constructor, which publishes the
default preset.

### BeatScheduler and HostPlayback

Musical time is counted in quanta, a fraction of a quarter note so fine that samples,
beats and subdivisions are whole numbers of it. The code's doubles are replaced by exact arithmetic and its
tolerances are kept, as constants, so the model shows what the algorithm does when
rounding stays within them. `schedule()` is the pair of the function `BeatSchedule` and
the step `Advance`. The host plays blocks of several sizes, changes its tempo, stops,
locates, and reports a position that deviates by a quantum either way. When it locates, its
sample position starts anew, or runs on as a clock does; then the new ppq position is one that
is farther from the expected one than the drift that the code tolerates (`IsElsewhere`), and it is
the ppq half of `IsContinuous` that tells of the jump. A jump of less than that, on a clock that
runs on, is for the scheduler no jump. `heard` is history: the beats of the last block, after the beat before them in the uninterrupted
run.

### JsonComplexity and JsonText

The scan sees classes of characters: quote, backslash, the four brackets, colon, comma,
white space, and everything else. `Scan(s, c)` is one turn of the loop: `containers` is
the stack of `JsonContainerState`s, `result` the error with which the function returns.
`JsonText` gives each character to the scan and to `Parse`, the grammar of RFC 8259 on
the same classes (a scalar is a run of other characters; whether it spells a number or
`true` is the parser's business). The grammar knows the members and elements that the
scan guesses from colons and commas; the properties relate the two.

### PresetPipeline

The text is scanned (`ScanText`, the steps of `JsonText`), refused or parsed; which
document it spells is left open. A document is a record of its sections as the JSON
parser returns them, `Bad` for anything absent or of the wrong type.
`validatePresetJson` collects the set of rules it finds violated, `RuntimePreset` sorts
the beats, `makeRealtimePresetState` repeats the checks and computes the group starts,
`clickForBeat` and `SoundOf` choose the sound of a pulse. Properties compare with the
Preset Format's sections 27 and 40, written on the document as it came. The sums of the
groups, before each group and in all, are recursive functions on sequences
(`TotalsOf`, `PlacementsOf`); the sort takes the beats in an order in which their positions
do not fall (`SortedBeats`). The sum of the groups is checked against the
range of the integers, which is small here, so that sums beyond it occur. A version is the sequences of its identifiers, each an element of a few
classes (a number, a number with a leading zero, a word, nothing, a character that is not
allowed); a date-time is the record of its fields, and its calendar is compared with one
that counts leap years. The name and the sound set are a text, a text of white space, nothing, or
of another type; `trim` is what the code does to them before it looks. The specification that
`AcceptsTheFormat` compares with, `ConformsButForLeapSeconds`, is written from the schema and
leaves two things open in which the code departs from the format (section 7): names of white
space, and the moment of a second 60. `FieldsAgainstTheFormat` is the specification without
them. Tags beyond the length of an array are refused by the scan of the document. Volumes
are percentages. The limit of 1 MiB on a text is that of the file (`PresetFiles`). The
actions are sequential: one thread handles one document.

### PresetFiles

A step is one iteration of a loop of `collectPresetFiles`, one call of the system in
`readPresetFileBounded`, or one change by another program: a file is written, replaced,
deleted, or becomes a link. `pendingDirectories` is the function's stack, `unlisted` what
the directory iterator has yet to return, in any order; entries that come or go while a
directory is listed may be returned or not. `steady` are the files that did not change.
The open file is either the one replaced or the one written to (`torn`). The reader is
that of POSIX: `open` with `O_NOFOLLOW`, `fstat`, `read` until the end or one byte beyond
the limit; a read interrupted by a signal is repeated, which is a stuttering step. The
Windows branch makes the same decisions with other calls. Directories do not change and
can be read: what `juce::RangedDirectoryIterator` does with one that cannot is not in
this repository.

### FactoryPresetGenerator

`main` from its arguments to its return code, for each preset read, named, taken as
state by a component of the plug-in, serialised, restored in a second component and
compared, and then the writing of all. Every call of the module, of `PresetFile` and of
the file system may fail; the process may be killed at any step, and is run again on what
the run before left. The presets are taken in any order (the code sorts them by path).
`sessions` are the two `ComponentSession`s, `components` what became of the components
they hold. `replaceWithData` is a rename: a file is there before or after it. The state is
compared for equality, where the code compares the first bytes of the restored state, as many
as the source JSON has, and would not notice bytes after them; metadata are one value.

### ClickEngine

A voice is the sound it plays, the number of samples rendered of it, and the seed it
was given. The amplitude is a function of the first two (`Level`): every sample
multiplies it by one factor, so in decibels it falls by the same amount, and a voice is
given up when it falls below `silenceThreshold`. The amplitudes and decays are those of
`parametersFor`, in 1/210 dB and milliseconds. `PlayPulse` is one iteration of the loop of
`processBlock` (render up to the pulse, trigger), `FinishBlock` the rest of the block; which
pulses a block has is any choice, as `BeatScheduler` says which, and several may share a
sample. `blockStart` is history. `ClickMix` knows each click by the sample at which it was
due: the refinement fails when a block boundary or a difference of offsets shifts it.

## 3. Runs

| Run | Question | Size |
|---|---|---|
| `exchange` | Is the triple buffer race-free, never torn, never going back, and an atomic register? (`NoSlotRace`, `ConsistentSnapshot`, `ExchangeInv`, `AdoptsFresh`, `GivesUpOnlyWhenOvertaken`, `ImplementsRegister`) Does the audio callback end up with the last publication? (`ConvergesToLastPublished`) | 64 k states |
| `exchange_consumed_twice` | Is a generation consumed once? No, see 7 | |
| `processor` | Do interleaved, failing, throwing operations leave what is saved equal to what is published, valid, and no stale click? (`PersistedIsPublished`, `OnlyValidDocumentsActive`, `NoStaleTails`, `ProcessorInv`) Does every operation end, and is what would be saved what is played in the end? (`OperationsFinish`, `PlaysPersisted`) | 0.7 M states |
| `processor_diagnostics` | Do the diagnostics of a file load name the file? Not always, see 7 | |
| `playback` | Are pulses never repeated, on time, numbered as the host's bars; are continuous blocks seen as such; which pulses can be lost? (`NeverTwice`, `OnTime`, `NumberedAsHostBars`, `NoFalseDiscontinuity`, `LostOnlyBetweenSamples`, `PlaybackInv`) | 0.12 M states |
| `playback_lost_pulse` | Does every pulse sound? One between two samples can be lost, see 7 | |
| `pipeline` | Does the scan stop every text beyond a limit and none within (`AcceptsWithinLimits`, `RefusesBeyondLimits`); does the validator tell the format from the rest but for two things, does all it accepts convert, does every pulse sound as the format says? (`AcceptsTheFormat`, `AcceptedConverts`, `PulsesFollowTheFormat`) | 0.75 M states, every text of 14 characters |
| `clicks` | Does every pulse's click sound from its sample on until it has decayed, whatever the blocks, and give way only as the quietest of a full pool? Does it end within the announced tail? (`ImplementsMix`, `TailsEnd`, `EngineInv`) | 0.5 M states |
| `files` | Does success mean that every preset was read and is valid, does a good tree succeed, are reads bounded, whatever changes meanwhile? (`EveryPresetIsValidated`, `NoFalseAlarm`, `BytesBounded`) Does the command end? (`Terminates`) | 0.58 M states |
| `generator` | Is nothing written before all is verified, are outputs whole and of their sources, is success complete, are components terminated, with failures, kills and reruns? (`VerifiedBeforeWritten`, `OnlyVerifiedPresets`, `SuccessIsComplete`, `ComponentsTerminated`) | 0.11 M states |
| `pipeline_outside` | Are beats beyond the pattern silent? No, see 7 | |
| `pipeline_fields` | Are names and timestamps judged as the format says? No, see 7 | |

Each property of a passing run has a mutant in `PROJECT.json`: a plausible bug in a
definition of the model (an operator just before it, commented "A plausible bug")
with which TLC finds the property violated. `ExchangeInv`, `ProcessorInv`, `EngineInv` and
`PlaybackInv` are the inductive invariants of the proofs, checked before they were proved;
`FilesInv`, `CalmInv`, `PipelineInv` and `GeneratorInv` were checked likewise, and are left to the proofs since they
name no question of their own.

## 4. Bounds

- **MaxGeneration** (guard of `PublishBegin`): 6 publications in `exchange`. A call of
  `consumeIfChanged()` can be overtaken three times, and the three slots are all reused
  after three publications, so six cover a whole call overtaken in every attempt on top
  of a full rotation of the slots. The proofs need no bound.
- **StateWords**: two words make a torn state possible, and more add nothing: a
  mixture shows in two words already. The processor's runs use one word, as tearing is
  the exchange's question.
- **HostThreads, MaxOperations**: two threads and three operations give every pair of
  operations in progress at once and any one that follows, a failing one and a successful
  one among them; three publications are also what it takes for a callback to be overtaken
  in all its attempts and keep its preset. Longer histories are left to the proofs: every
  invariant of the run is proved for any number of operations and threads. The threads are
  not declared symmetric, which would be unsound for the two liveness properties.
  MaxGeneration exceeds MaxOperations, as the code never runs out of generations.
- **Documents**: two valid ones, to tell which is active, and an invalid one.
- **MaxPpq, MaxSamplePosition, MaxSampleOffset, Capacity** in `playback`: a song of two
  to three bars; the sample counter ends, and the beat buffer overflows, within it.
  `playback_lost_pulse` keeps the counters large.
- **Tempos, BeatLengths**: 6 and 7 quanta a sample against beats of 12 and 24 quanta put
  pulses on samples and at every position between two, and several on one sample.
- **MaxLength** and the limits of the scan in `pipeline`: each limit is between 1 and 4,
  so that a text of 14 characters exceeds each of them, with strings and escapes in it.
- **MaxArrayElements, MaxInteger** in `pipeline`: 3 and 7 instead of 4096 and 2^63 - 1,
  with documents beyond both.
- **MaxDepth, MaxEntries, MaxFiles, MaxTotalBytes, MaxFileBytes, BufferSize** in `files`: one
  directory below the input, four entries, two files, three and two bytes, read two at a
  time. The tree has three levels, five entries and two presets, files of up to four bytes, so
  that each limit is exceeded by some of its contents. **MaxChanges**: one change; a second
  shows nothing new, since the properties speak of the files that did not change.
- **MaxRuns** in `generator`: three runs, of which the last starts from the output of one that
  started from an output. Four sources, two of one name, and names that a file system
  ignoring case does not tell apart.
- **VoiceCount, SampleRates** in `clicks`: two voices and four clicks between resets
  fill the pool and steal twice. At 100 and 200 Hz the clicks last between 2 and 12
  samples; blocks of 2 and 5 samples up to the 14th let the longest end, across three blocks
  and more. The real 64 voices and rates are left to the proofs, which need no bound.

Deadlock is checked except where the system really stops: in `pipeline` and
its two violation runs a refused document ends the pipeline, in `files` and `generator` the
program exits.

## 5. Fairness

- The host thread that has begun an operation goes on with it: weak fairness of
  `HostStep(t)`, `Publish` once begun. Operating systems schedule threads, and no step
  of `publish()` waits. `std::mutex` is not starvation-free; weak fairness suffices here
  because finitely many operations are begun, so the mutex is free for good in the end
  or the waiting thread gets it.
- The host keeps calling `processBlock`: weak fairness of `Consume` and `AudioStep`. A
  host that stops calling plays nothing.
- The validator command runs on: weak fairness of `Command`, its steps together. Other
  programs are not obliged to change a file, nor a read to fail.
- Nothing obliges a host thread to begin an operation, an allocation to fail, or the
  host to start, stop or locate.

`ConvergesToLastPublished` and `PlaysPersisted` are stated for a host that falls quiet:
while it publishes without a pause, the three attempts of `consumeIfChanged()` may all be
overtaken, call after call, and the reader keeps its state (`GivesUpOnlyWhenOvertaken`).

## 6. Proofs

TLAPS checks every step (SMT, Zenon, LS4 for temporal steps). Assumptions on the
constants, each evaluated by TLC on the instances: `StateWordsAssumption`,
`MaxGenerationAssumption`, `DocumentsAssumption`, `HostThreadsAssumption`,
`BoundsAssumption`, `VoiceCountAssumption`, `SampleRatesAssumption`,
`BlockSizesAssumption`, `EngineBoundsAssumption`, `SchedulerAssumption`,
`HostAssumption`, `DeviationAssumption`, `ComplexityAssumption`,
`PresetAssumption`, `FilesAssumption`, `LimitsAssumption`, `GeneratorAssumption`. All but one give the
constants their types. `PresetAssumption` says besides that `Bad` is no integer, that the
families of documents the host may hand over are documents (`Documents`: each section
`Bad` or of its type, of any length and with any numbers), and that an array that is
accepted is short enough for its indices to be counted (`MaxArrayElements` <= `MaxInteger`,
4096 and 2^63 - 1 in the code). `DeviationAssumption` is the one the tolerances of the scheduler are
made for: two reported positions deviate from each other, tolerances included, by less
than a sample, and by no more than `PositionTolerance` or half a sample.

**PresetStateExchange_proofs**, for any set of words and any number of publications:
`ExchangeInvariant` (Spec => []ExchangeInv), and from it `TypeCorrect`, `RaceFree`,
`NeverTorn`, `Fresh`, `GivesUpLast` and `Refinement` (the protocol implements
`PresetRegister`).

`NoSlotRace` and `ConsistentSnapshot` are not inductive. `ExchangeInv` adds what they
rest on: the writer's target is never the active slot (`WriterOwnsTarget`); every slot
but the target holds one whole publication (`SlotsWhole`); the active slot holds the
latest one (`ActiveIsLatest`); a slot whose claim was confirmed is not the target, and
what was copied of it is what it still holds (`ReaderOwnsCandidate`). The crucial step
is `SelectTargetSlot`: the writer loads `readerSlot` after it loaded `activeSlot`; a reader
that claimed before that load is avoided, and one that claims after it confirms its claim
only if the claimed slot is still active, hence not the target. That a free slot always exists
is `FreeSlotExists`. `AttemptsOvertaken` counts publications against attempts, for
`GivesUpLast`.

**PluginProcessor_proofs**, for any number of threads, documents and operations:
`ProcessorInvariant`, and from it `ProcessorTypeCorrect`, `SavedIsPublished`,
`OnlyValidActive` and `TailsAreCurrent`. A step of the processor is a step of the triple buffer or
leaves it alone (`ProcessorStepsExchange`), so `ExchangeInv` carries over with
`StepPreservesInv`; the initial state is one after a publication and is shown to satisfy
it separately. `ProcessorInv` adds that exactly the holder of the mutex publishes
(`MutexGuardsPublication`, which is the single writer that the exchange relies on), that what
is being published is what is kept (`PublicationIsPersisted`), that both were validated
(`DocumentsValidated`), and that stale clicks exist only between the adoption of a state
and the reset that follows (`TailsOfPlayedPreset`).

**ClickEngine_proofs**, for any number of voices, sample rates, block sizes and pulses:
`EngineInvariant`, and from it `EngineTypeCorrect`, `TailsBounded` and
`EngineImplementsMix`. `EngineInv` says that no two voices hold one click (`VoicesApart`: equal
seeds), without which the voices could not be counted as clicks when the pool is full
(`AllVoicesSound`), and that what a voice holds has not decayed. `TailsBounded` rests on the
table alone: each amplitude is less than ten times its fall in 10 ms
(`SoundFacts`), whence, for every rate, no sound lasts 0.1 s (`TailIsLongEnough`). The
refinement has two halves: rendering leaves exactly the clicks that have not decayed, with
the sample they were due at (`SoundingRemains`), and triggering replaces at most one
(`SoundingStruck`).

**HostPlayback_proofs**, for any tempos, meters, block sizes, locations, deviations and
tolerances within `DeviationAssumption`: `PlaybackInvariant`, and from it
`PlaybackTypeCorrect`, `HeardOnce`, `HeardOnTime`, `HeardAsNumbered`,
`ContinuousPlayback` and `NothingElseLost`. What `schedule()` returns is described first, by
lemmas on arithmetic: the ordinals of a block are an interval, every pulse from the first
ordinal on has an offset that is not negative (the tolerances together are less than a
sample), and offsets do not fall. `PlaybackInv` adds to the properties what connects two
blocks: the scheduler expects the position the host goes on from, but for a deviation, and a
host that has located is at a position it does not expect (`ExpectsTheHost`), and what was heard lies before every position that may be reported
next, by more than a pulse may come early (`HeardIsOver`). `NothingElseLost` needs
`BlockIsHeard`: every pulse up to the last sample of a block was heard.

**JsonText_proofs**, for any limits and any text: `TextInvariant`, and from it
`ScanBounded`, `NothingCostlyParsed` and `NothingSmallRefused`. The invariant `TextInv`
is a simulation: as long as the text is well formed and not refused, every container on
the scan's stack is the grammar's, of the same kind and with counts that differ by the
member whose colon, or the element whose value, is yet to come (`ContainersAgree`,
`CountsAgree`); the scan is in a string exactly when the grammar is (`StringsAgree`); and what the
grammar counted is within the limits but for that member (`LimitsKept`).

**PresetPipeline_proofs**, for any documents, limits and range of the integers:
`PipelineInvariant`, and from it `PipelineTyped`, `ValidatorAcceptsTheFormat`,
`AcceptedAlwaysConverts` and `PulsesAlwaysFollowTheFormat`. `PipelineInv` says that what each
stage has is what the stages before it make of the document (`StageInv`), that a document
is refused exactly when the validator found an error, and that a pulse is one of the state that
was published. The properties follow from what the validator and the conversion do with any
document, which is what most of the lemmas are about. Three arguments carry it.

*The sums.* `TotalsOf` and `PlacementsOf` are recursive functions. That they exist, and
that a sum is what the format's numbers say it is, is an induction on the length of a sequence,
done with the least member of a set of naturals (`WFMin`), as the induction theorems of
the library take an operator. A sum that left the range of the integers is an error at
the first group that made it, and only then.
*The pigeonhole.* The format asks for a beat at each position, the validator for as many
beats as positions, each within the pattern and none repeated. An injection of a finite set
into itself is onto (`EveryPlaceIsTaken`), and a rising function of an interval into itself is
the identity (`RisingIsIdentity`), so that the sorted beat at index `i` is the beat `i`, as
the conversion requires.
*The calendar.* The code's number of days of a month, with its rule of leap years, is the format's
for every year (`LeapYears`, `MonthsAreRight`).

`PipelineTextInvariant` carries `TextInv` through `applyPresetJson`: no stage touches what
is known of the text, but for the parsing, which forgets it.
`NothingCostlyReachesTheParser` and `NothingSmallRefusedInPipeline` state the run's two
properties for the pipeline's own specification.

**PresetFiles_proofs**, for any tree, inputs and limits and any number of changes:
`FilesInvariant`, and from it `FilesTypeCorrect`, `NothingPassedOver` and
`ReadingIsBounded`. `WalkInv` says that, as long as nothing was reported, everything in a
known directory is known, unless the directory waits on the stack or is being listed;
when both are empty, the known directories contain all directories below the inputs,
since those are the smallest set that is closed (`Below`). `ReadingInv` says what was
accepted is valid unless it changed, and that nothing is skipped. The other direction is
`OrderlyPresetsPass` (`NoFalseAlarm`). Its invariant, `CalmInv` (`CalmInvariant`), is about a
command to which nothing happens, on presets that keep the limits: then no step reports
anything, because every count of the code is the size of a set that the limit covers. The
bytes counted are those of the files collected (`CalmCollection`: `BytesOf` has a member for
every byte, so that its size is their sum, and a file that is named twice adds nothing); the
entries counted are the ones of the directories begun, less those to come (`Examined`); and
a directory on the stack was not found deeper than it lies (`Shallow`), as all inputs are
known before the walk begins. `CommandUsesUpItsSteps` bounds the loops: `StepsLeft` counts
the inputs left, the directories not known and those on the stack, the entries not yet
scanned, and at most `MaxFileBytes + 3` steps for each file not yet tried; every step of the
command lowers it and no change of a file raises it. It rests on `ListingInv`: what is
listed or on the stack is known, and nothing is on the stack twice. What it leaves to TLC is
that a step is always possible and taken.

**FactoryPresetGenerator_proofs**, for any sources and names and any number of runs:
`GeneratorInvariant`, and from it `GeneratorTypeCorrect`, `VerifiedFirst`, `OnlyVerified`,
`SuccessfulRunIsComplete` and `EveryComponentTerminated`. `GeneratorInv` adds what a round
has established (`RoundIsConsistent`), that every source done has its verified preset
(`GeneratedAreVerified`) and its own name (`NamesAreDistinct`), that sessions hold what they
have to terminate (`SessionsHoldComponents`), and that every preset written is on the disk,
or another of the same file name (`WritingIsLast`).

Every invariant and every action property of a run is proved, and both refinements. Only
model-checked: liveness (`ConvergesToLastPublished`, `PlaysPersisted`, `OperationsFinish`,
`Terminates`, but for its bound), which needs fairness and ENABLED; and what a violation run shows.

## 7. Where the code departs from its documents

- `exchange_consumed_twice`: `publish()` stores `activeSlot` before
  `publishedGeneration`; a call between the two adopts the new generation, and the next
  call, still before the second store, adopts it again and resets scheduler and click
  tails for a preset that plays already. It needs the generation before to be unconsumed.
- `playback_lost_pulse`: a pulse after the last sample of a block and before its end is
  rounded up to the next block, whose search begins at its own start: it sounds in
  neither. `LostOnlyBetweenSamples`, which is also proved (`NothingElseLost`), says that no
  other pulse is lost.
- `processor_diagnostics`: the errors of an invalid file are readable without its path
  between the two times they are recorded.
- `pipeline_outside`: a host beat beyond the pattern plays the pattern from its
  beginning; two documents and the name of a test say it is silent (the test's first beat
  is muted, so it passes). Another test asserts the wrap, for a beat that the meter does
  not have (plugin_processor_tests.cpp:475-476).
- `pipeline_fields`: two fields are not judged as the format says. A name or a sound set of
  white space is refused, since the code trims it first; the schema asks only for one
  character. A second 60 is accepted at any minute; the format asks for RFC 3339, which has one
  only where a leap second ends a month in UTC. The run's document is named with a space, dated
  12:00:60Z, and refused for the name alone. `IsLeapSecond` does not ask whether a leap second
  was inserted in that month, which RFC 3339 leaves to a published list.

## 8. What is not modelled

- Floating-point rounding and non-finite doubles in the scheduler: arithmetic is exact,
  tolerances are constants. With them go the failure of `tryCeilToInt64` and the exit at the
  largest ordinal (BeatScheduler.cpp:159-163, 198-202), which need a position near 2^63
  subdivisions.
- A change of the host's meter or of the preset's subdivisions while it plays: both are chosen
  once per behaviour (see section 9). `readHostTiming`'s checks of missing or non-finite values
  are the alternative "no usable position".
- Weak memory beyond the argument in section 2.
- Waveforms, noise, gain, denormals, and the rounding of amplitudes: signal processing on
  floats.
- Bus layouts, program names, editor: constant functions.
- The JSON parser, VST3 and JUCE: external; their results are inputs, any of them. What is
  said of texts is relative to the grammar of RFC 8259: `juce::JSON::parse` is more lenient,
  and of a text that only it accepts nothing is claimed.
- An exception in the middle of the assignment of `lastPresetErrors` (PluginProcessor.cpp:322),
  which could leave a part of the errors: `Throw` comes before it or not at all.
- The single calls by which an input is looked at (`exists`, `isSymbolicLink`, `isDirectory`,
  `getSize`, PresetFileIO.cpp:122, 148-163, 182-200) are one step; the tree may change between
  an input's steps and before the file is opened, where the answers are checked again.
- `toAudioClickType`: the click types of a document and of the engine have the same names.
- Lower-casing of paths on Windows (PresetFileIO.cpp:33): paths compare as they are.
- Directories that cannot be read, or change while they are listed: the iterator is
  JUCE's.
- The Windows branch of the bounded reader: it makes the decisions of the other one.
- The characters of names, versions and date-times: their classes only.
- `toolchain_check`: it prints the versions of its libraries.
- Scripts, build, website, tests: no state of the program.

## 9. Plan

Done: the preset exchange with its refinement and proofs; the processor with its proofs;
playback with its proofs; the click engine with its refinement and proofs; the way from
text to pulse with its proofs, the scan of the text among them; preset files and the validator command with
their proofs; the factory preset generator with its proofs.

Left:

1. `PluginProcessor` with `HostPlayback`: the pulses of a block under the state that was
   adopted at its beginning, where `subdivisions` changes between two blocks.
