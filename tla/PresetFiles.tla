------------------------------ MODULE PresetFiles ------------------------------
(***************************************************************************)
(* The validator command: collectPresetFiles looks for preset files below   *)
(* its inputs, readPresetFileBounded reads one after the other, and the     *)
(* exit code says whether all of them are valid.  Other programs write,     *)
(* replace and delete files meanwhile, so that what discovery learns of a   *)
(* file may be stale when the file is read.                                 *)
(*                                                                          *)
(* A file is what the file system knows of it: its kind, size and, for the  *)
(* validator, whether the text is a valid preset.  Directories do not       *)
(* change.  A step is what one iteration of a loop does, or one read().     *)
(* A read() that EINTR interrupts is repeated: a stuttering step.           *)
(***************************************************************************)
EXTENDS Integers, Sequences, FiniteSets

CONSTANTS
    Files, Directories,
    Parent,              \* of files and directories
    Root,                \* the parent of what no directory of the model holds
    Tempoflow,           \* the files with the extension .tempoflow
    comparisonPath,      \* a number for each file: the order of the paths
    Calls,               \* the inputs that the command is called with
    Nodes,               \* what a file can be, see Node
    NoDirectory, NoFile,
    Limit,               \* stands among the errors for a limit of discovery
    MaxDepth,            \* maximumPresetDirectoryDepth
    MaxEntries,          \* maximumScannedDirectoryEntries
    MaxFiles,            \* maximumPresetFileCount
    MaxTotalBytes,       \* maximumTotalPresetBytes
    MaxFileBytes,        \* maximumPresetFileSizeBytes
    BufferSize,          \* of the reader
    MaxChanges           \* bound: changes of files while the command runs

Node == [kind : {"absent", "link", "special", "regular"}, size : Nat, valid : BOOLEAN]

ASSUME FilesAssumption ==
    /\ Files \intersect Directories = {} /\ Root \notin Directories
    /\ NoDirectory \notin Directories /\ NoFile \notin Files
    /\ Limit \notin Files \union Directories
    /\ IsFiniteSet(Files) /\ IsFiniteSet(Directories)
    /\ Parent \in [Files \union Directories -> Directories \union {Root}]
    /\ Tempoflow \subseteq Files
    /\ comparisonPath \in [Files -> Nat]
    /\ \A f, g \in Files : comparisonPath[f] = comparisonPath[g] => f = g
    /\ Calls \subseteq Seq(Files \union Directories)
    /\ Nodes \subseteq Node

ASSUME LimitsAssumption ==
    /\ MaxDepth \in Nat /\ MaxEntries \in Nat /\ MaxFiles \in Nat
    /\ MaxTotalBytes \in Nat /\ MaxFileBytes \in Nat
    /\ BufferSize \in Nat \ {0} /\ MaxChanges \in Nat

VARIABLES
    node, steady, changes,  \* the files; those that did not change so far
    phase,                  \* where the command is
    inputs, nextInput,
    pendingDirectories,     \* a stack of records of directory and depth
    current, unlisted,      \* the one that is listed; what of it is yet to come
    knownFiles, knownDirectories, scannedEntries, reportedTotalBytes,
    resourceLimitReached,
    files, errors,          \* the PresetFileCollection: errors by their subject
    tried, file, opened, bytes,  \* the files read so far; the open one
    torn,                   \* the open file was rewritten while it was read
    totalBytesRead, allValid, accepted, exitCode,
    disturbed               \* history: a call of the system failed

fileSystem == <<node, steady, changes>>
collection == <<knownFiles, files, errors, reportedTotalBytes, resourceLimitReached>>
walk       == <<pendingDirectories, current, unlisted, knownDirectories, scannedEntries>>
reader     == <<tried, file, opened, bytes, torn>>
verdict    == <<totalBytesRead, allValid, accepted, exitCode, disturbed>>
vars == <<fileSystem, phase, inputs, nextInput, collection, walk, reader, verdict>>

Nowhere == [directory |-> NoDirectory, depth |-> 0]
Absent  == [kind |-> "absent", size |-> 0, valid |-> FALSE]
ChildrenOf(directory) ==
    {x \in Files \union Directories : Parent[x] = directory}

Init ==
    /\ node \in [Files -> Nodes] /\ steady = Files /\ changes = 0
    /\ phase = "inputs" /\ inputs \in Calls /\ nextInput = 1
    /\ pendingDirectories = <<>> /\ current = Nowhere /\ unlisted = {}
    /\ knownFiles = {} /\ knownDirectories = {}
    /\ scannedEntries = 0 /\ reportedTotalBytes = 0 /\ resourceLimitReached = FALSE
    /\ files = {} /\ errors = {}
    /\ tried = {} /\ file = NoFile /\ opened = Absent /\ bytes = 0 /\ torn = FALSE
    /\ totalBytesRead = 0 /\ allValid = TRUE /\ accepted = {} /\ exitCode = 0
    /\ disturbed = FALSE

----------------------------------------------------------------------------
(* collectPresetFiles *)

Report(subject) ==
    /\ errors' = errors \union {subject}
    /\ UNCHANGED <<knownFiles, files, reportedTotalBytes, resourceLimitReached>>

StopAtLimit ==
    /\ errors' = errors \union {Limit}
    /\ resourceLimitReached' = TRUE
    /\ UNCHANGED <<files, reportedTotalBytes>>

\* A plausible bug: the budget is compared with what was found before this file.
appendFileWithinOldBudget(f) ==
    IF resourceLimitReached \/ f \in knownFiles THEN UNCHANGED collection
    ELSE /\ knownFiles' = knownFiles \union {f}
         /\ IF Cardinality(files) >= MaxFiles \/ reportedTotalBytes > MaxTotalBytes
            THEN StopAtLimit
            ELSE /\ files' = files \union {f}
                 /\ reportedTotalBytes' = reportedTotalBytes + node[f].size
                 /\ UNCHANGED <<errors, resourceLimitReached>>

TooManyFiles     == Cardinality(files) >= MaxFiles
TooLarge(f)      == node[f].size > MaxFileBytes
TooMuchInAll(f)  == reportedTotalBytes > MaxTotalBytes - node[f].size

CollectUnlessLimited(f) ==
    /\ knownFiles' = knownFiles \union {f}
    /\ \/ /\ TooManyFiles \/ (~TooLarge(f) /\ TooMuchInAll(f))
          /\ StopAtLimit
       \/ /\ ~TooManyFiles /\ TooLarge(f)
          /\ errors' = errors \union {f}
          /\ UNCHANGED <<files, reportedTotalBytes, resourceLimitReached>>
       \/ /\ ~TooManyFiles /\ ~TooLarge(f) /\ ~TooMuchInAll(f)
          /\ files' = files \union {f}
          /\ reportedTotalBytes' = reportedTotalBytes + node[f].size
          /\ UNCHANGED <<errors, resourceLimitReached>>

\* A plausible bug: a file that is named twice is counted twice.
appendFileAgain(f) ==
    IF resourceLimitReached THEN UNCHANGED collection ELSE CollectUnlessLimited(f)

\* getSize of a file that is no longer there is 0.
appendFile(f) ==
    IF resourceLimitReached \/ f \in knownFiles THEN UNCHANGED collection
    ELSE CollectUnlessLimited(f)

appendDirectory(directory, depth) ==
    /\ knownDirectories' = knownDirectories \union {directory}
    /\ pendingDirectories' =
           IF directory \in knownDirectories THEN pendingDirectories
           ELSE Append(pendingDirectories, [directory |-> directory, depth |-> depth])

ProcessInput ==
    /\ phase = "inputs" /\ nextInput <= Len(inputs)
    /\ nextInput' = nextInput + 1
    /\ LET input == inputs[nextInput]
       IN  \/ /\ input \in Directories
              /\ appendDirectory(input, 0)
              /\ UNCHANGED collection
           \/ /\ input \in Files
              /\ IF node[input].kind \in {"absent", "link"} THEN Report(input)
                 ELSE appendFile(input)
              /\ UNCHANGED <<pendingDirectories, knownDirectories>>
    /\ UNCHANGED <<fileSystem, phase, inputs, current, unlisted, scannedEntries,
                   reader, verdict>>

\* The walk goes on with the directory that was found last.
BeginDirectory ==
    /\ phase = "inputs" /\ nextInput > Len(inputs) /\ current = Nowhere
    /\ pendingDirectories # <<>> /\ ~resourceLimitReached
    /\ LET last == Len(pendingDirectories)
       IN  /\ current' = pendingDirectories[last]
           /\ unlisted' = ChildrenOf(pendingDirectories[last].directory)
           /\ pendingDirectories' = SubSeq(pendingDirectories, 1, last - 1)
    /\ UNCHANGED <<fileSystem, phase, inputs, nextInput, collection,
                   knownDirectories, scannedEntries, reader, verdict>>

\* An entry that is there all the time is listed exactly once, one that comes
\* or goes meanwhile may be listed or not.
MayBeListed(x)  == x \in Files => x \notin steady \/ node[x].kind # "absent"
MustBeListed(x) == x \in Files => x \in steady /\ node[x].kind # "absent"

\* The entry after the last that may be examined.
ScanTooMany(x) ==
    /\ scannedEntries >= MaxEntries
    /\ StopAtLimit
    /\ UNCHANGED <<knownFiles, pendingDirectories, knownDirectories>>

\* A plausible bug: what lies too deep is left out without an error.
ScanDirectoryToDepth(directory) ==
    /\ scannedEntries < MaxEntries /\ directory \in Directories
    /\ UNCHANGED collection
    /\ IF current.depth >= MaxDepth
       THEN UNCHANGED <<pendingDirectories, knownDirectories>>
       ELSE appendDirectory(directory, current.depth + 1)

ScanDirectory(directory) ==
    /\ scannedEntries < MaxEntries /\ directory \in Directories
    /\ IF current.depth >= MaxDepth
       THEN Report(directory) /\ UNCHANGED <<pendingDirectories, knownDirectories>>
       ELSE appendDirectory(directory, current.depth + 1) /\ UNCHANGED collection

ScanFile(f) ==
    /\ scannedEntries < MaxEntries /\ f \in Files
    /\ \/ node[f].kind = "link" /\ Report(f)
       \/ node[f].kind # "link" /\ f \in Tempoflow /\ appendFile(f)
       \/ node[f].kind # "link" /\ f \notin Tempoflow /\ UNCHANGED collection
    /\ UNCHANGED <<pendingDirectories, knownDirectories>>

ScanEntry ==
    /\ current # Nowhere /\ ~resourceLimitReached
    /\ \E x \in unlisted :
          /\ MayBeListed(x)
          /\ unlisted' = unlisted \ {x}
          /\ ScanTooMany(x) \/ ScanDirectory(x) \/ ScanFile(x)
    /\ scannedEntries' = scannedEntries + 1
    /\ UNCHANGED <<fileSystem, phase, inputs, nextInput, current, reader, verdict>>

EndDirectory ==
    /\ current # Nowhere
    /\ resourceLimitReached \/ \A x \in unlisted : ~MustBeListed(x)
    /\ current' = Nowhere /\ unlisted' = {}
    /\ UNCHANGED <<fileSystem, phase, inputs, nextInput, collection,
                   pendingDirectories, knownDirectories, scannedEntries,
                   reader, verdict>>

Exit(code) == phase' = "done" /\ exitCode' = code

\* main, after the call of collectPresetFiles.
EndDiscovery ==
    /\ phase = "inputs" /\ nextInput > Len(inputs) /\ current = Nowhere
    /\ pendingDirectories = <<>> \/ resourceLimitReached
    /\ IF files = {} THEN Exit(IF errors = {} THEN 2 ELSE 1)
       ELSE phase' = "reading" /\ UNCHANGED exitCode
    /\ allValid' = (errors = {})
    /\ UNCHANGED <<fileSystem, inputs, nextInput, collection, walk, reader,
                   totalBytesRead, accepted, disturbed>>

----------------------------------------------------------------------------
(* readPresetFileBounded *)

\* The files are sorted by their paths.
IsNext(f) ==
    /\ f \in files \ tried
    /\ \A g \in files \ tried : comparisonPath[f] <= comparisonPath[g]

\* The file is refused: main goes on with the next one.
Refuse ==
    /\ phase' = "reading"
    /\ allValid' = FALSE
    /\ UNCHANGED <<totalBytesRead, accepted, exitCode>>

\* What is opened is a regular file and no link; the open may fail anyway.
OpenFile ==
    /\ phase = "reading"
    /\ \E f \in files :
          /\ IsNext(f)
          /\ tried' = tried \union {f} /\ file' = f
          /\ \/ /\ node[f].kind = "regular"
                /\ phase' = "open" /\ opened' = node[f]
                /\ UNCHANGED verdict
             \/ /\ node[f].kind # "regular"
                /\ Refuse
                /\ UNCHANGED <<opened, disturbed>>
             \/ /\ node[f].kind = "regular"
                /\ Refuse
                /\ disturbed' = TRUE
                /\ UNCHANGED opened
    /\ bytes' = 0 /\ torn' = FALSE
    /\ UNCHANGED <<fileSystem, inputs, nextInput, collection, walk>>

ReadSome ==
    /\ phase = "open" /\ bytes < MaxFileBytes + 1
    /\ \E count \in 1 .. BufferSize :
          /\ count <= MaxFileBytes + 1 - bytes
          /\ bytes + count <= opened.size
          /\ bytes' = bytes + count
    /\ UNCHANGED <<fileSystem, phase, inputs, nextInput, collection, walk,
                   tried, file, opened, torn, verdict>>

ReadFails ==
    /\ phase = "open" /\ bytes < MaxFileBytes + 1
    /\ Refuse
    /\ disturbed' = TRUE
    /\ UNCHANGED <<fileSystem, inputs, nextInput, collection, walk, reader>>

\* A plausible bug: the file is read until it has the size it had at first.
ReadToItsSize == phase = "open" /\ (bytes >= MaxFileBytes + 1 \/ bytes = opened.size)

\* The loop of the reader ends: at the end of the file, or one byte too late.
ReadEnds == phase = "open" /\ (bytes >= MaxFileBytes + 1 \/ bytes >= opened.size)

----------------------------------------------------------------------------
(* The loop of main over the files *)

RefuseLong ==
    /\ ReadEnds /\ bytes > MaxFileBytes
    /\ Refuse
    /\ UNCHANGED <<fileSystem, inputs, nextInput, collection, walk, reader, disturbed>>

\* What was discovered as small enough may have grown since.
StopAtBudget ==
    /\ ReadEnds /\ bytes <= MaxFileBytes
    /\ totalBytesRead > MaxTotalBytes - bytes
    /\ allValid' = FALSE
    /\ Exit(1)
    /\ UNCHANGED <<fileSystem, inputs, nextInput, collection, walk, reader,
                   totalBytesRead, accepted, disturbed>>

\* A plausible bug: the budget is left to discovery.
ValidateWithoutBudget ==
    /\ ReadEnds /\ bytes <= MaxFileBytes
    /\ totalBytesRead' = totalBytesRead + bytes
    /\ \E valid \in IF torn THEN BOOLEAN ELSE {opened.valid} :
          /\ accepted' = IF valid THEN accepted \union {file} ELSE accepted
          /\ allValid' = (allValid /\ valid)
    /\ phase' = "reading"
    /\ UNCHANGED <<fileSystem, inputs, nextInput, collection, walk, reader,
                   exitCode, disturbed>>

\* A text that is partly of one version and partly of another may be anything.
ValidateFile ==
    /\ ReadEnds /\ bytes <= MaxFileBytes
    /\ totalBytesRead <= MaxTotalBytes - bytes
    /\ totalBytesRead' = totalBytesRead + bytes
    /\ \E valid \in IF torn THEN BOOLEAN ELSE {opened.valid} :
          /\ accepted' = IF valid THEN accepted \union {file} ELSE accepted
          /\ allValid' = (allValid /\ valid)
    /\ phase' = "reading"
    /\ UNCHANGED <<fileSystem, inputs, nextInput, collection, walk, reader,
                   exitCode, disturbed>>

Finish ==
    /\ phase = "reading" /\ files \subseteq tried
    /\ Exit(IF allValid THEN 0 ELSE 1)
    /\ UNCHANGED <<fileSystem, inputs, nextInput, collection, walk, reader,
                   totalBytesRead, allValid, accepted, disturbed>>

----------------------------------------------------------------------------
(* Other programs: a file is written, replaced by another, or deleted.  The *)
(* open file is either the one that is written to or the one replaced.     *)

Change(f) ==
    /\ phase # "done" /\ changes < MaxChanges
    /\ changes' = changes + 1
    /\ \E n \in Nodes \ {node[f]} :
          /\ node' = [node EXCEPT ![f] = n]
          /\ \/ UNCHANGED <<opened, torn>>
             \/ /\ phase = "open" /\ file = f /\ n.kind = "regular"
                /\ opened' = n /\ torn' = TRUE
    /\ steady' = steady \ {f}
    /\ UNCHANGED <<phase, inputs, nextInput, collection, walk, tried, file,
                   bytes, verdict>>

Command ==
    \/ ProcessInput \/ BeginDirectory \/ ScanEntry \/ EndDirectory \/ EndDiscovery
    \/ OpenFile \/ ReadSome
    \/ RefuseLong \/ StopAtBudget \/ ValidateFile \/ Finish

Next == Command \/ ReadFails \/ \E f \in Files : Change(f)

Spec == Init /\ [][Next]_vars

\* The command runs on; that a read fails is never owed to it.
FairSpec == Spec /\ WF_vars(Command)
----------------------------------------------------------------------------
(* Properties *)

TypeOK ==
    /\ node \in [Files -> Nodes] /\ steady \subseteq Files /\ changes \in 0 .. MaxChanges
    /\ phase \in {"inputs", "reading", "open", "done"}
    /\ inputs \in Calls /\ nextInput \in 1 .. Len(inputs) + 1
    /\ pendingDirectories \in Seq([directory : Directories, depth : 0 .. MaxDepth])
    /\ current \in [directory : Directories \union {NoDirectory}, depth : 0 .. MaxDepth]
    /\ unlisted \subseteq Files \union Directories
    /\ knownFiles \subseteq Files /\ knownDirectories \subseteq Directories
    /\ scannedEntries \in 0 .. MaxEntries + 1
    /\ reportedTotalBytes \in 0 .. MaxTotalBytes
    /\ resourceLimitReached \in BOOLEAN
    /\ scannedEntries > MaxEntries => resourceLimitReached
    /\ files \subseteq knownFiles /\ errors \subseteq Files \union Directories \union {Limit}
    /\ tried \subseteq files /\ accepted \subseteq tried
    /\ file \in Files \union {NoFile} /\ opened \in Nodes \union {Absent}
    /\ bytes \in Nat /\ torn \in BOOLEAN
    /\ totalBytesRead \in Nat /\ allValid \in BOOLEAN
    /\ exitCode \in {0, 1, 2} /\ disturbed \in BOOLEAN

InputDirectories == {d \in Directories : \E i \in DOMAIN inputs : inputs[i] = d}
InputFiles       == {f \in Files : \E i \in DOMAIN inputs : inputs[i] = f}

\* What the walk has found, as long as it has reported nothing: everything in
\* the inputs so far and in the directories that were listed.
Seen(x) == IF x \in Directories THEN x \in knownDirectories
           ELSE x \in Tempoflow \intersect steady /\ node[x].kind # "absent"
                    => x \in knownFiles

IsPending(directory) ==
    \E i \in DOMAIN pendingDirectories : pendingDirectories[i].directory = directory

WalkInv ==
    /\ resourceLimitReached => Limit \in errors
    /\ errors = {} =>
          /\ knownFiles \subseteq files
          /\ \A i \in 1 .. nextInput - 1 :
                /\ inputs[i] \in Directories => inputs[i] \in knownDirectories
                /\ inputs[i] \in Files => inputs[i] \in knownFiles
                /\ inputs[i] \in steady => node[inputs[i]].kind # "absent"
          /\ \A d \in knownDirectories :
                \/ IsPending(d)
                \/ \A x \in ChildrenOf(d) : Seen(x) \/ (d = current.directory /\ x \in unlisted)

ReadingInv ==
    /\ phase = "inputs" => tried = {} /\ allValid
    /\ phase # "inputs" =>
          /\ nextInput > Len(inputs) /\ current = Nowhere
          /\ pendingDirectories = <<>> \/ resourceLimitReached
          /\ allValid => errors = {}
          /\ allValid => \A f \in tried : f \in accepted \/ (phase = "open" /\ f = file)
    /\ \A f \in accepted \intersect steady : node[f].kind = "regular" /\ node[f].valid
    /\ phase = "open" =>
          /\ file \in tried
          /\ file \in steady => opened = node[file] /\ opened.kind = "regular" /\ ~torn
    /\ phase = "done" => \/ exitCode = 1
                         \/ exitCode = 0 /\ allValid /\ files \subseteq tried
                         \/ exitCode = 2 /\ files = {} /\ errors = {}

\* The inductive invariant from which EveryPresetIsValidated follows.
FilesInv == WalkInv /\ ReadingInv

\* The directories below the inputs: the smallest set with the inputs and the
\* directories in its directories.
Below ==
    {d \in Directories :
        \A S \in SUBSET Directories :
            InputDirectories \subseteq S
            /\ (\A x \in Directories : Parent[x] \in S => x \in S) => d \in S}

Candidates == InputFiles \union {f \in Tempoflow : Parent[f] \in Below}

\* No preset is passed over in silence: when the command succeeds (or says that
\* it found nothing), every preset below its inputs that was there all the time
\* was read and found valid, and every input that is a file was there.
EveryPresetIsValidated ==
    phase = "done" /\ exitCode # 1 =>
        /\ \A f \in Candidates \intersect steady :
              node[f].kind # "absent" =>
                  f \in accepted /\ node[f].kind = "regular" /\ node[f].valid
        /\ \A f \in InputFiles \intersect steady : node[f].kind # "absent"

\* The documented limits, on the files that are there (Preset Format, section
\* 27), and every file as it should be.
Presets == {f \in Candidates : node[f].kind # "absent"}

\* The directory is n levels below one of the inputs.
IsAtDepth(directory, n) ==
    \E path \in [0 .. n -> Directories] :
        /\ path[0] \in InputDirectories /\ path[n] = directory
        /\ \A i \in 1 .. n : Parent[path[i]] = path[i - 1]

Entries == {x \in Files \union Directories :
               Parent[x] \in Below /\ (x \in Files => node[x].kind # "absent")}

\* Their number is the sum of the sizes.
BytesOf(S) == UNION {{f} \X (1 .. node[f].size) : f \in S}

AllAsItShouldBe ==
    /\ \A f \in InputFiles : node[f].kind # "absent"
    /\ \A f \in Presets : node[f].kind = "regular" /\ node[f].valid
                          /\ node[f].size <= MaxFileBytes
    /\ \A x \in Entries \intersect Files : node[x].kind # "link"
    /\ \A d \in Directories :
          Parent[d] \in Below => \E n \in 0 .. MaxDepth - 1 : IsAtDepth(Parent[d], n)
    /\ Cardinality(Entries) <= MaxEntries
    /\ Cardinality(Presets) <= MaxFiles
    /\ Cardinality(BytesOf(Presets)) <= MaxTotalBytes

\* No false alarm: when no file changes, no call of the system fails, every
\* preset is valid and the documented limits are kept, the command succeeds,
\* in whatever order the directories list their entries and whatever is named
\* twice among the inputs.
NoFalseAlarm ==
    phase = "done" /\ ~disturbed /\ steady = Files /\ AllAsItShouldBe =>
        exitCode = IF Presets = {} THEN 2 ELSE 0

\* A file that grows after its size was checked is read up to one byte beyond
\* the limit, and what is passed to the validator stays within the budget of
\* all files together.
BytesBounded ==
    /\ bytes <= MaxFileBytes + 1
    /\ totalBytesRead <= MaxTotalBytes

\* The command ends, whatever other programs do to the files.
Terminates == <>(phase = "done")
============================================================================
