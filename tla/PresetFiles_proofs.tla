-------------------------- MODULE PresetFiles_proofs --------------------------
(***************************************************************************)
(* Proofs about PresetFiles, for every tree of directories, every set of   *)
(* files and states of files, every call and all limits.                   *)
(***************************************************************************)
EXTENDS PresetFiles, FiniteSetTheorems, SequenceTheorems, TLAPS

USE FilesAssumption, LimitsAssumption DEF FilesAssumption, LimitsAssumption

Pending == [directory : Directories, depth : 0 .. MaxDepth]

LEMMA ChildrenType ==
    ASSUME NEW d PROVE ChildrenOf(d) \subseteq Files \union Directories
BY DEF ChildrenOf

LEMMA NodeType == TypeOK => \A f \in Files : node[f] \in Node
BY DEF TypeOK

\* appendFile changes the collection within its type, and drops no file.
LEMMA AppendFileType ==
    ASSUME TypeOK, NEW f \in Files, appendFile(f)
    PROVE  /\ knownFiles' \subseteq Files /\ files' \subseteq knownFiles'
           /\ files \subseteq files'
           /\ reportedTotalBytes' \in 0 .. MaxTotalBytes
           /\ resourceLimitReached' \in BOOLEAN
           /\ resourceLimitReached => resourceLimitReached'
           /\ errors' \subseteq Files \union Directories \union {Limit}
<1>1. node[f].size \in Nat
  BY NodeType DEF Node
<1>2. CASE resourceLimitReached \/ f \in knownFiles
  BY <1>2 DEF appendFile, collection, TypeOK
<1>3. CASE ~resourceLimitReached /\ f \notin knownFiles
  <2>. /\ knownFiles' = knownFiles \union {f}
       /\ knownFiles \subseteq Files /\ files \subseteq knownFiles
       /\ resourceLimitReached \in BOOLEAN
       /\ reportedTotalBytes \in 0 .. MaxTotalBytes
       /\ errors \subseteq Files \union Directories \union {Limit}
    BY <1>3 DEF appendFile, CollectUnlessLimited, TypeOK
  <2>1. CASE StopAtLimit
    BY <1>3, <2>1 DEF StopAtLimit
  <2>2. CASE errors' = errors \union {f} /\ UNCHANGED <<files, reportedTotalBytes, resourceLimitReached>>
    BY <1>3, <2>2
  <2>3. CASE /\ ~TooMuchInAll(f)
             /\ files' = files \union {f}
             /\ reportedTotalBytes' = reportedTotalBytes + node[f].size
             /\ UNCHANGED <<errors, resourceLimitReached>>
    BY <1>1, <1>3, <2>3 DEF TooMuchInAll
  <2>. QED
    BY <1>3, <2>1, <2>2, <2>3 DEF appendFile, CollectUnlessLimited
<1>. QED BY <1>2, <1>3

LEMMA AppendDirectoryType ==
    ASSUME TypeOK, NEW d \in Directories, NEW depth \in 0 .. MaxDepth,
           appendDirectory(d, depth)
    PROVE  knownDirectories' \subseteq Directories /\ pendingDirectories' \in Seq(Pending)
<1>1. [directory |-> d, depth |-> depth] \in Pending
  BY DEF Pending
<1>2. pendingDirectories \in Seq(Pending) /\ knownDirectories \subseteq Directories
  BY DEF TypeOK, Pending
<1>. QED BY <1>1, <1>2 DEF appendDirectory

\* The type invariant, apart from what the walk and the reader have in common.
LEMMA InitType == Init => TypeOK
<1>. SUFFICES ASSUME Init PROVE TypeOK
  OBVIOUS
<1>1. inputs \in Seq(Files \union Directories)
  BY DEF Init
<1>2. 1 \in 1 .. Len(inputs) + 1
  BY <1>1, LenProperties
<1>3. pendingDirectories \in Seq(Pending)
  BY DEF Init
<1>4. current \in [directory : Directories \union {NoDirectory}, depth : 0 .. MaxDepth]
  BY DEF Init, Nowhere
<1>5. /\ node \in [Files -> Nodes] /\ steady \subseteq Files /\ changes \in 0 .. MaxChanges
      /\ phase \in {"inputs", "reading", "open", "done"}
      /\ inputs \in Calls /\ nextInput \in 1 .. Len(inputs) + 1
  BY <1>2 DEF Init
<1>6. /\ unlisted \subseteq Files \union Directories
      /\ knownFiles \subseteq Files /\ knownDirectories \subseteq Directories
      /\ scannedEntries \in 0 .. MaxEntries + 1
      /\ reportedTotalBytes \in 0 .. MaxTotalBytes
      /\ files \subseteq knownFiles /\ errors \subseteq Files \union Directories \union {Limit}
  BY DEF Init
<1>8. resourceLimitReached \in BOOLEAN
  BY Zenon DEF Init
<1>9. ~(scannedEntries > MaxEntries)
  BY DEF Init
<1>7. /\ tried \subseteq files /\ accepted \subseteq tried
      /\ file \in Files \union {NoFile} /\ opened \in Nodes \union {Absent}
      /\ bytes \in Nat /\ torn \in BOOLEAN
      /\ totalBytesRead \in Nat /\ allValid \in BOOLEAN
      /\ exitCode \in {0, 1, 2} /\ disturbed \in BOOLEAN
  BY DEF Init
<1>. QED
  BY <1>3, <1>4, <1>5, <1>6, <1>7, <1>8, <1>9 DEF TypeOK, Pending

\* Actions of the walk leave the reader and the verdict alone.
LEMMA WalkType ==
    TypeOK /\ (ProcessInput \/ BeginDirectory \/ ScanEntry \/ EndDirectory) => TypeOK'
<1>. USE DEF Pending
<1>1. ASSUME TypeOK, ProcessInput PROVE TypeOK'
  <2>1. inputs[nextInput] \in Files \union Directories /\ nextInput \in 1 .. Len(inputs)
    BY <1>1, LenProperties, ElementOfSeq DEF ProcessInput, TypeOK
  <2>2. nextInput' \in 1 .. Len(inputs') + 1
    BY <1>1, <2>1, LenProperties DEF ProcessInput, TypeOK
  <2>3. /\ knownFiles' \subseteq Files /\ files' \subseteq knownFiles' /\ files \subseteq files'
        /\ reportedTotalBytes' \in 0 .. MaxTotalBytes
        /\ resourceLimitReached' \in BOOLEAN
        /\ resourceLimitReached => resourceLimitReached'
        /\ errors' \subseteq Files \union Directories \union {Limit}
        /\ knownDirectories' \subseteq Directories
        /\ pendingDirectories' \in Seq(Pending)
    <3>1. CASE inputs[nextInput] \in Directories
      <4>1. appendDirectory(inputs[nextInput], 0) /\ UNCHANGED collection
        BY <1>1, <3>1 DEF ProcessInput
      <4>2. 0 \in 0 .. MaxDepth
        OBVIOUS
      <4>. QED BY <1>1, <3>1, <4>1, <4>2, AppendDirectoryType DEF TypeOK, collection
    <3>2. CASE inputs[nextInput] \in Files /\ Report(inputs[nextInput])
      BY <1>1, <3>2 DEF ProcessInput, TypeOK, Report
    <3>3. CASE inputs[nextInput] \in Files /\ appendFile(inputs[nextInput])
      BY <1>1, <3>3, AppendFileType DEF ProcessInput, TypeOK
    <3>. QED BY <1>1, <2>1, <3>1, <3>2, <3>3 DEF ProcessInput
  <2>. QED
    BY <1>1, <2>2, <2>3
    DEF ProcessInput, TypeOK, fileSystem, reader, verdict
<1>2. ASSUME TypeOK, BeginDirectory PROVE TypeOK'
  <2>1. /\ pendingDirectories' \in Seq(Pending)
        /\ current' \in [directory : Directories \union {NoDirectory}, depth : 0 .. MaxDepth]
    <3>. DEFINE last == Len(pendingDirectories)
    <3>1. pendingDirectories \in Seq(Pending) /\ pendingDirectories # <<>>
      BY <1>2 DEF BeginDirectory, TypeOK
    <3>2. last \in 1 .. Len(pendingDirectories)
      BY <3>1, EmptySeq, LenProperties
    <3>3. pendingDirectories[last] \in Pending
      BY <3>1, <3>2, ElementOfSeq
    <3>4. SubSeq(pendingDirectories, 1, last - 1) \in Seq(Pending)
      <4>1. ASSUME NEW i \in 1 .. last - 1 PROVE pendingDirectories[i] \in Pending
        <5>1. i \in 1 .. Len(pendingDirectories)
          BY <3>2
        <5>. QED BY <3>1, <5>1, ElementOfSeq
      <4>. QED BY <3>2, <4>1, SubSeqProperties
    <3>. QED BY <1>2, <3>3, <3>4 DEF BeginDirectory
  <2>2. unlisted' \subseteq Files \union Directories
    BY <1>2, ChildrenType DEF BeginDirectory
  <2>. QED
    BY <1>2, <2>1, <2>2
    DEF BeginDirectory, TypeOK, fileSystem, collection, reader, verdict
<1>3. ASSUME TypeOK, ScanEntry PROVE TypeOK'
  <2>. PICK x \in unlisted : /\ unlisted' = unlisted \ {x}
                             /\ ScanTooMany(x) \/ ScanDirectory(x) \/ ScanFile(x)
    BY <1>3 DEF ScanEntry
  <2>1. /\ knownFiles' \subseteq Files /\ files' \subseteq knownFiles' /\ files \subseteq files'
        /\ reportedTotalBytes' \in 0 .. MaxTotalBytes
        /\ resourceLimitReached' \in BOOLEAN
        /\ scannedEntries >= MaxEntries => resourceLimitReached'
        /\ errors' \subseteq Files \union Directories \union {Limit}
        /\ knownDirectories' \subseteq Directories
        /\ pendingDirectories' \in Seq(Pending)
    <3>1. CASE ScanTooMany(x)
      BY <1>3, <3>1 DEF ScanTooMany, StopAtLimit, TypeOK
    <3>2. CASE ScanDirectory(x)
      <4>1. current.depth < MaxDepth => current.depth + 1 \in 0 .. MaxDepth
        BY <1>3 DEF TypeOK
      <4>2. current.depth \in Nat
        BY <1>3 DEF TypeOK
      <4>3. ~(scannedEntries >= MaxEntries)
        BY <1>3, <3>2 DEF ScanDirectory, TypeOK
      <4>4. CASE Report(x) /\ UNCHANGED <<pendingDirectories, knownDirectories>>
        BY <1>3, <4>3, <4>4, <3>2 DEF Report, TypeOK, ScanDirectory
      <4>5. CASE /\ current.depth < MaxDepth
                 /\ appendDirectory(x, current.depth + 1) /\ UNCHANGED collection
        BY <1>3, <4>1, <4>3, <4>5, <3>2, AppendDirectoryType
        DEF TypeOK, ScanDirectory, collection
      <4>. QED BY <3>2, <4>2, <4>4, <4>5 DEF ScanDirectory
    <3>3. CASE ScanFile(x)
      <4>1. ~(scannedEntries >= MaxEntries)
        BY <1>3, <3>3 DEF ScanFile, TypeOK
      <4>2. CASE Report(x)
        BY <1>3, <3>3, <4>1, <4>2 DEF ScanFile, Report, TypeOK
      <4>3. CASE appendFile(x)
        BY <1>3, <3>3, <4>1, <4>3, AppendFileType DEF ScanFile, TypeOK
      <4>4. CASE UNCHANGED collection
        BY <1>3, <3>3, <4>1, <4>4 DEF ScanFile, collection, TypeOK
      <4>. QED BY <3>3, <4>2, <4>3, <4>4 DEF ScanFile
    <3>. QED BY <3>1, <3>2, <3>3
  <2>2. /\ scannedEntries' \in 0 .. MaxEntries + 1
        /\ scannedEntries' > MaxEntries => resourceLimitReached'
    BY <1>3, <2>1 DEF ScanEntry, TypeOK
  <2>. QED
    BY <1>3, <2>1, <2>2 DEF ScanEntry, TypeOK, fileSystem, reader, verdict
<1>4. ASSUME TypeOK, EndDirectory PROVE TypeOK'
  BY <1>4 DEF EndDirectory, TypeOK, Nowhere, fileSystem, collection, reader, verdict
<1>. QED BY <1>1, <1>2, <1>3, <1>4

\* Actions of the loop over the files leave what discovery found alone.
LEMMA ReaderType ==
    TypeOK /\ ReadingInv /\ (\/ EndDiscovery \/ OpenFile \/ ReadSome \/ ReadFails
               \/ RefuseLong \/ StopAtBudget \/ ValidateFile \/ Finish) => TypeOK'
<1>. USE DEF TypeOK, fileSystem, collection, walk, reader, verdict, Refuse, Exit
<1>1. ASSUME TypeOK, EndDiscovery PROVE TypeOK'
  BY <1>1 DEF EndDiscovery
<1>2. ASSUME TypeOK, OpenFile PROVE TypeOK'
  <2>. PICK f \in files :
          /\ tried' = tried \union {f} /\ file' = f
          /\ \/ phase' = "open" /\ opened' = node[f] /\ UNCHANGED verdict
             \/ Refuse /\ opened' = opened /\ disturbed' \in {disturbed, TRUE}
    BY <1>2 DEF OpenFile
  <2>1. bytes' = 0 /\ torn' = FALSE
        /\ UNCHANGED <<fileSystem, inputs, nextInput, collection, walk>>
    BY <1>2 DEF OpenFile
  <2>2. opened' \in Nodes \union {Absent} /\ phase' \in {"reading", "open"}
    <3>1. f \in Files
      BY <1>2
    <3>2. node[f] \in Nodes /\ opened \in Nodes \union {Absent}
      BY <1>2, <3>1
    <3>3. opened' \in Nodes \union {Absent}
      <4>1. opened' = node[f] \/ opened' = opened
        BY Zenon
      <4>. QED BY ONLY <3>2, <4>1
    <3>4. phase' \in {"reading", "open"}
      BY Zenon DEF Refuse
    <3>. QED BY <3>3, <3>4
  <2>3. /\ totalBytesRead' = totalBytesRead /\ allValid' \in BOOLEAN /\ accepted' = accepted
        /\ exitCode' = exitCode /\ disturbed' \in BOOLEAN
    BY <1>2
  <2>4. tried' \subseteq files' /\ accepted' \subseteq tried' /\ file' \in Files \union {NoFile}
    BY <1>2, <2>1, <2>3
  <2>. QED
    BY <1>2, <2>1, <2>2, <2>3, <2>4
<1>3. ASSUME TypeOK, ReadSome PROVE TypeOK'
  BY <1>3 DEF ReadSome
<1>4. ASSUME TypeOK, ReadFails PROVE TypeOK'
  BY <1>4 DEF ReadFails
<1>5. ASSUME TypeOK, RefuseLong PROVE TypeOK'
  BY <1>5 DEF RefuseLong
<1>6. ASSUME TypeOK, StopAtBudget PROVE TypeOK'
  BY <1>6 DEF StopAtBudget
<1>7. ASSUME TypeOK, ReadingInv, ValidateFile PROVE TypeOK'
  BY <1>7 DEF ValidateFile, ReadEnds, ReadingInv
<1>8. ASSUME TypeOK, Finish PROVE TypeOK'
  BY <1>8 DEF Finish
<1>. QED BY <1>1, <1>2, <1>3, <1>4, <1>5, <1>6, <1>7, <1>8

LEMMA ChangeType ==
    ASSUME TypeOK, NEW f \in Files, Change(f) PROVE TypeOK'
<1>1. node' \in [Files -> Nodes] /\ steady' \subseteq Files /\ changes' \in 0 .. MaxChanges
  BY DEF Change, TypeOK
<1>2. opened' \in Nodes \union {Absent} /\ torn' \in BOOLEAN
  BY DEF Change, TypeOK
<1>. QED
  BY <1>1, <1>2 DEF Change, TypeOK, collection, walk, verdict

LEMMA NextType == TypeOK /\ ReadingInv /\ [Next]_vars => TypeOK'
<1>1. TypeOK /\ UNCHANGED vars => TypeOK'
  BY DEF TypeOK, vars, fileSystem, collection, walk, reader, verdict
<1>. QED BY <1>1, WalkType, ReaderType, ChangeType DEF Next, Command

----------------------------------------------------------------------------
(* WalkInv *)

\* What is seen stays seen: files only change, and what is known stays known.
LEMMA SeenStaysSeen ==
    ASSUME TypeOK, NEW x \in Files \union Directories, Seen(x),
           knownFiles \subseteq knownFiles', knownDirectories \subseteq knownDirectories',
           steady' \subseteq steady, \A f \in steady' : node'[f] = node[f]
    PROVE  Seen(x)'
BY DEF Seen, TypeOK

LEMMA AppendFileFound ==
    ASSUME TypeOK, WalkInv, NEW f \in Files, appendFile(f)
    PROVE  /\ resourceLimitReached' => Limit \in errors'
           /\ errors \subseteq errors'
           /\ errors' = {} =>
                 f \in knownFiles' /\ knownFiles \subseteq knownFiles' /\ knownFiles' \subseteq files'
<1>1. CASE resourceLimitReached \/ f \in knownFiles
  BY <1>1 DEF appendFile, collection, WalkInv
<1>2. CASE ~(resourceLimitReached \/ f \in knownFiles)
  <2>. /\ CollectUnlessLimited(f)
       /\ errors = {} => knownFiles \subseteq files
    BY <1>2 DEF appendFile, WalkInv
  <2>1. CASE StopAtLimit
    BY <2>1 DEF StopAtLimit, CollectUnlessLimited
  <2>2. CASE errors' = errors \union {f} /\ UNCHANGED resourceLimitReached
    BY <2>2, <1>2
  <2>3. CASE files' = files \union {f} /\ UNCHANGED <<errors, resourceLimitReached>>
    BY <2>3, <1>2 DEF CollectUnlessLimited
  <2>. QED BY <2>1, <2>2, <2>3 DEF CollectUnlessLimited
<1>. QED BY <1>1, <1>2

LEMMA PendingStaysPending ==
    ASSUME TypeOK, NEW d \in Directories, NEW depth \in 0 .. MaxDepth,
           appendDirectory(d, depth)
    PROVE  /\ \A e \in Directories : IsPending(e) => IsPending(e)'
           /\ d \in knownDirectories \/ IsPending(d)'
           /\ knownDirectories' = knownDirectories \union {d}
<1>. DEFINE new == [directory |-> d, depth |-> depth]
<1>1. pendingDirectories \in Seq(Pending) /\ new \in Pending
  BY DEF TypeOK, Pending
<1>2. CASE d \in knownDirectories
  BY <1>2 DEF appendDirectory, IsPending
<1>3. CASE d \notin knownDirectories
  <2>1. pendingDirectories' = Append(pendingDirectories, new)
    BY <1>3 DEF appendDirectory
  <2>2. /\ DOMAIN pendingDirectories' = 1 .. Len(pendingDirectories) + 1
        /\ \A i \in DOMAIN pendingDirectories :
              i \in DOMAIN pendingDirectories' /\ pendingDirectories'[i] = pendingDirectories[i]
        /\ Len(pendingDirectories) + 1 \in DOMAIN pendingDirectories'
        /\ pendingDirectories'[Len(pendingDirectories) + 1] = new
    BY <1>1, <2>1, AppendProperties, LenProperties
  <2>3. IsPending(d)'
    BY <2>2 DEF IsPending
  <2>4. \A e \in Directories : IsPending(e) => IsPending(e)'
    BY <2>2 DEF IsPending
  <2>. QED BY <2>3, <2>4 DEF appendDirectory
<1>. QED BY <1>2, <1>3

\* A step that leaves the walk alone, whatever it does to the files.
LEMMA WalkFrame ==
    ASSUME TypeOK, WalkInv, UNCHANGED <<inputs, nextInput, collection, walk>>,
           steady' \subseteq steady, \A f \in steady' : node'[f] = node[f]
    PROVE  WalkInv'
<1>1. UNCHANGED <<knownFiles, files, errors, resourceLimitReached, pendingDirectories,
                  current, unlisted, knownDirectories, inputs, nextInput>>
  BY DEF collection, walk
<1>. SUFFICES ASSUME errors = {} PROVE WalkInv'
  BY <1>1 DEF WalkInv
<1>2. ASSUME NEW d \in knownDirectories
      PROVE  \/ IsPending(d)
             \/ \A x \in ChildrenOf(d) : Seen(x)' \/ (d = current.directory /\ x \in unlisted)
  BY <1>1, SeenStaysSeen, ChildrenType DEF WalkInv
<1>3. \A d : IsPending(d)' <=> IsPending(d)
  BY <1>1 DEF IsPending
<1>4. \A i \in 1 .. nextInput - 1 :
         /\ inputs[i] \in Directories => inputs[i] \in knownDirectories
         /\ inputs[i] \in Files => inputs[i] \in knownFiles
         /\ inputs[i] \in steady' => node'[inputs[i]].kind # "absent"
  BY DEF WalkInv
<1>. QED BY <1>1, <1>2, <1>3, <1>4 DEF WalkInv, ChildrenOf

\* What a step of the walk has to show about the inputs.
InputsFound(last) ==
    \A i \in 1 .. last :
       /\ inputs[i] \in Directories => inputs[i] \in knownDirectories
       /\ inputs[i] \in Files => inputs[i] \in knownFiles
       /\ inputs[i] \in steady => node[inputs[i]].kind # "absent"

DirectoryFound(d) ==
    \/ IsPending(d)
    \/ \A x \in ChildrenOf(d) : Seen(x) \/ (d = current.directory /\ x \in unlisted)

LEMMA ProcessInputWalk ==
    ASSUME TypeOK, WalkInv, ProcessInput PROVE WalkInv'
<1>. PICK input : input = inputs[nextInput]
  OBVIOUS
<1>1. /\ input \in Files \union Directories /\ nextInput \in 1 .. Len(inputs)
      /\ nextInput' = nextInput + 1 /\ inputs' = inputs
      /\ UNCHANGED <<node, steady, current, unlisted>>
  BY LenProperties, ElementOfSeq DEF ProcessInput, TypeOK, fileSystem
<1>2. CASE input \in Directories
  <2>. /\ appendDirectory(input, 0) /\ UNCHANGED collection /\ 0 \in 0 .. MaxDepth
    BY <1>2 DEF ProcessInput
  <2>1. /\ \A e \in Directories : IsPending(e) => IsPending(e)'
        /\ input \in knownDirectories \/ IsPending(input)'
        /\ knownDirectories' = knownDirectories \union {input}
    BY <1>2, PendingStaysPending
  <2>. SUFFICES ASSUME errors = {} PROVE WalkInv'
    BY DEF WalkInv, collection
  <2>2. InputsFound(nextInput - 1)'
    BY <1>1, <1>2, <2>1 DEF InputsFound, WalkInv, collection, TypeOK
  <2>3. ASSUME NEW d \in knownDirectories, ~IsPending(d),
               NEW x \in ChildrenOf(d), ~(d = current.directory /\ x \in unlisted)
        PROVE  Seen(x)'
    <3>1. Seen(x)
      BY <2>3 DEF WalkInv
    <3>. QED BY <1>1, <2>1, <3>1, SeenStaysSeen, ChildrenType DEF collection
  <2>4. \A d \in knownDirectories' : DirectoryFound(d)'
    <3>1. ASSUME NEW d \in knownDirectories', ~IsPending(d)' PROVE DirectoryFound(d)'
      <4>1. d \in knownDirectories /\ ~IsPending(d)
        BY <2>1, <3>1 DEF TypeOK
      <4>. QED BY <1>1, <2>3, <4>1 DEF DirectoryFound, ChildrenOf
    <3>. QED BY <3>1 DEF DirectoryFound
  <2>. QED BY <1>1, <2>2, <2>4 DEF WalkInv, collection, InputsFound, DirectoryFound, TypeOK
<1>3. CASE input \in Files /\ Report(input)
  BY <1>3 DEF WalkInv, Report
<1>4. CASE /\ input \in Files /\ appendFile(input) /\ node[input].kind # "absent"
           /\ UNCHANGED <<pendingDirectories, knownDirectories>>
  <2>1. /\ resourceLimitReached' => Limit \in errors'
        /\ errors \subseteq errors'
        /\ errors' = {} =>
              input \in knownFiles' /\ knownFiles \subseteq knownFiles' /\ knownFiles' \subseteq files'
    BY <1>4, AppendFileFound
  <2>. SUFFICES ASSUME errors' = {} PROVE WalkInv'
    BY <2>1 DEF WalkInv
  <2>2. InputsFound(nextInput - 1)'
    BY <1>1, <1>4, <2>1 DEF InputsFound, WalkInv, TypeOK
  <2>3. ASSUME NEW d \in knownDirectories, ~IsPending(d),
               NEW x \in ChildrenOf(d), ~(d = current.directory /\ x \in unlisted)
        PROVE  Seen(x)'
    <3>1. Seen(x)
      BY <2>1, <2>3 DEF WalkInv
    <3>. QED BY <1>1, <1>4, <2>1, <3>1, SeenStaysSeen, ChildrenType
  <2>4. \A d \in knownDirectories' : DirectoryFound(d)'
    BY <1>1, <1>4, <2>3 DEF DirectoryFound, ChildrenOf, IsPending
  <2>. QED BY <1>1, <2>1, <2>2, <2>4 DEF WalkInv, InputsFound, DirectoryFound, TypeOK
<1>. QED BY <1>1, <1>2, <1>3, <1>4 DEF ProcessInput

LEMMA BeginDirectoryWalk ==
    ASSUME TypeOK, WalkInv, BeginDirectory PROVE WalkInv'
<1>. DEFINE last == Len(pendingDirectories)
<1>1. pendingDirectories \in Seq(Pending) /\ last \in Nat \ {0}
  BY EmptySeq, LenProperties DEF BeginDirectory, TypeOK, Pending
<1>2. /\ UNCHANGED <<inputs, nextInput, collection, knownDirectories, node, steady>>
      /\ current = Nowhere
      /\ current' = pendingDirectories[last]
      /\ unlisted' = ChildrenOf(pendingDirectories[last].directory)
      /\ pendingDirectories' = SubSeq(pendingDirectories, 1, last - 1)
  BY DEF BeginDirectory, fileSystem
<1>3. \A i \in 1 .. last - 1 :
         i \in DOMAIN pendingDirectories' /\ pendingDirectories'[i] = pendingDirectories[i]
  BY <1>1, <1>2, LenProperties
<1>4. ASSUME NEW d \in knownDirectories, IsPending(d), d # current'.directory
      PROVE  IsPending(d)'
  <2>1. PICK i \in 1 .. last : pendingDirectories[i].directory = d
    BY <1>1, <1>4, LenProperties DEF IsPending
  <2>2. i \in 1 .. last - 1
    BY <1>1, <1>2, <1>4, <2>1
  <2>. QED BY <1>3, <2>1, <2>2 DEF IsPending
<1>. SUFFICES ASSUME errors = {} PROVE WalkInv'
  BY <1>2 DEF WalkInv, collection
<1>5. ASSUME NEW d \in knownDirectories, ~IsPending(d), NEW x \in ChildrenOf(d)
      PROVE  Seen(x)'
  <2>1. Seen(x)
    BY <1>2, <1>5 DEF WalkInv, TypeOK, Nowhere
  <2>. QED BY <1>2, <2>1, SeenStaysSeen, ChildrenType DEF collection
<1>6. \A d \in knownDirectories' : DirectoryFound(d)'
  BY <1>2, <1>4, <1>5 DEF DirectoryFound, ChildrenOf
<1>. QED BY <1>2, <1>6 DEF WalkInv, DirectoryFound, collection

LEMMA ScanEntryWalk ==
    ASSUME TypeOK, WalkInv, ScanEntry PROVE WalkInv'
<1>1. PICK x \in unlisted : /\ unlisted' = unlisted \ {x}
                            /\ ScanTooMany(x) \/ ScanDirectory(x) \/ ScanFile(x)
  BY DEF ScanEntry
<1>2. UNCHANGED <<inputs, nextInput, current, node, steady>> /\ ~resourceLimitReached
  BY DEF ScanEntry, fileSystem
<1>3. x \in Files \union Directories
  BY DEF TypeOK
\* An entry that is not reported has been seen, and the rest stays as it was.
<1>4. /\ resourceLimitReached' => Limit \in errors'
      /\ errors \subseteq errors'
      /\ errors' = {} =>
            /\ knownFiles \subseteq knownFiles' /\ knownFiles' \subseteq files'
            /\ knownDirectories \subseteq knownDirectories'
            /\ Seen(x)'
            /\ \A d \in Directories : IsPending(d) => IsPending(d)'
            /\ \A d \in knownDirectories' : d \in knownDirectories \/ IsPending(d)'
  <2>0. errors = {} => knownFiles \subseteq files
    BY DEF WalkInv
  <2>1. CASE ScanTooMany(x)
    BY <2>1 DEF ScanTooMany, StopAtLimit
  <2>2. CASE ScanDirectory(x)
    <3>1. CASE Report(x)
      BY <1>2, <3>1 DEF Report
    <3>2. CASE current.depth < MaxDepth /\ appendDirectory(x, current.depth + 1) /\ UNCHANGED collection
      <4>1. x \in Directories /\ current.depth + 1 \in 0 .. MaxDepth
        BY <2>2, <3>2 DEF ScanDirectory, TypeOK
      <4>2. /\ \A e \in Directories : IsPending(e) => IsPending(e)'
            /\ x \in knownDirectories \/ IsPending(x)'
            /\ knownDirectories' = knownDirectories \union {x}
        BY <3>2, <4>1, PendingStaysPending
      <4>. QED BY <1>2, <2>0, <3>2, <4>1, <4>2 DEF collection, Seen
    <3>3. current.depth \in Nat
      BY DEF TypeOK
    <3>. QED BY <2>2, <3>1, <3>2, <3>3 DEF ScanDirectory
  <2>3. CASE ScanFile(x)
    <3>1. x \in Files /\ UNCHANGED <<pendingDirectories, knownDirectories>>
      BY <2>3 DEF ScanFile
    <3>2. CASE Report(x)
      BY <1>2, <3>2 DEF Report
    <3>3. CASE appendFile(x)
      BY <3>1, <3>3, AppendFileFound DEF Seen, IsPending
    <3>4. CASE x \notin Tempoflow /\ UNCHANGED collection
      BY <1>2, <2>0, <3>1, <3>4 DEF collection, Seen, IsPending
    <3>. QED BY <2>3, <3>2, <3>3, <3>4 DEF ScanFile
  <2>. QED BY <1>1, <2>1, <2>2, <2>3
<1>. SUFFICES ASSUME errors' = {} PROVE WalkInv'
  BY <1>4 DEF WalkInv
<1>5. ASSUME NEW d \in knownDirectories, ~IsPending(d), NEW y \in ChildrenOf(d),
             ~(d = current.directory /\ y \in unlisted')
      PROVE  Seen(y)'
  <2>1. CASE y = x
    BY <1>4, <2>1
  <2>2. CASE y # x
    <3>1. Seen(y)
      BY <1>1, <1>4, <1>5, <2>2 DEF WalkInv
    <3>. QED BY <1>2, <1>4, <3>1, SeenStaysSeen, ChildrenType
  <2>. QED BY <2>1, <2>2
<1>6. \A d \in knownDirectories' : DirectoryFound(d)'
  BY <1>2, <1>4, <1>5 DEF DirectoryFound, ChildrenOf, TypeOK
<1>7. InputsFound(nextInput - 1)'
  BY <1>2, <1>4 DEF InputsFound, WalkInv
<1>. QED BY <1>2, <1>4, <1>6, <1>7 DEF WalkInv, DirectoryFound, InputsFound

LEMMA EndDirectoryWalk ==
    ASSUME TypeOK, WalkInv, EndDirectory PROVE WalkInv'
<1>1. /\ UNCHANGED <<inputs, nextInput, collection, pendingDirectories, knownDirectories,
                    node, steady>>
      /\ resourceLimitReached \/ \A x \in unlisted : ~MustBeListed(x)
      /\ current' = Nowhere
  BY DEF EndDirectory, fileSystem
<1>. SUFFICES ASSUME errors = {} PROVE WalkInv'
  BY <1>1 DEF WalkInv, collection
<1>2. \A x \in unlisted : Seen(x)
  BY <1>1 DEF WalkInv, MustBeListed, Seen, TypeOK
<1>3. ASSUME NEW d \in knownDirectories, ~IsPending(d), NEW x \in ChildrenOf(d)
      PROVE  Seen(x)'
  <2>1. Seen(x)
    BY <1>2, <1>3 DEF WalkInv
  <2>. QED BY <1>1, <2>1, SeenStaysSeen, ChildrenType DEF collection
<1>4. \A d \in knownDirectories' : DirectoryFound(d)'
  BY <1>1, <1>3 DEF DirectoryFound, ChildrenOf, IsPending
<1>. QED BY <1>1, <1>4 DEF WalkInv, DirectoryFound, collection

LEMMA NextWalk == TypeOK /\ WalkInv /\ [Next]_vars => WalkInv'
<1>1. ASSUME TypeOK, WalkInv,
             \/ EndDiscovery \/ OpenFile \/ ReadSome \/ ReadFails \/ RefuseLong
             \/ StopAtBudget \/ ValidateFile \/ Finish \/ UNCHANGED vars
      PROVE  WalkInv'
  <2>1. UNCHANGED <<inputs, nextInput, collection, walk>> /\ UNCHANGED <<node, steady>>
    BY <1>1 DEF EndDiscovery, OpenFile, ReadSome, ReadFails, RefuseLong, StopAtBudget,
                ValidateFile, Finish, vars, fileSystem
  <2>. QED BY <1>1, <2>1, WalkFrame
<1>2. ASSUME TypeOK, WalkInv, NEW f \in Files, Change(f) PROVE WalkInv'
  <2>1. /\ UNCHANGED <<inputs, nextInput, collection, walk>>
        /\ steady' \subseteq steady /\ \A g \in steady' : node'[g] = node[g]
    BY <1>2 DEF Change, TypeOK
  <2>. QED BY <1>2, <2>1, WalkFrame
<1>. QED
  BY <1>1, <1>2, ProcessInputWalk, BeginDirectoryWalk, ScanEntryWalk, EndDirectoryWalk
  DEF Next, Command

----------------------------------------------------------------------------
(* ReadingInv *)

\* The part of the invariant about files that changed or not, in one place.
AcceptedWasValid ==
    /\ \A f \in accepted \intersect steady : node[f].kind = "regular" /\ node[f].valid
    /\ phase = "open" =>
          /\ file \in tried
          /\ file \in steady => opened = node[file] /\ opened.kind = "regular" /\ ~torn

LEMMA ReadingWalk ==
    ASSUME TypeOK, ReadingInv, ProcessInput \/ BeginDirectory \/ ScanEntry \/ EndDirectory
    PROVE  ReadingInv'
<1>1. UNCHANGED <<reader, verdict, phase, node, steady>>
  BY DEF ProcessInput, BeginDirectory, ScanEntry, EndDirectory, fileSystem
<1>2. phase = "inputs"
  BY EmptySeq, LenProperties
  DEF ProcessInput, BeginDirectory, ScanEntry, EndDirectory, ReadingInv
<1>. QED BY <1>1, <1>2 DEF ReadingInv, reader, verdict

LEMMA ReadingEndDiscovery ==
    ASSUME TypeOK, ReadingInv, EndDiscovery PROVE ReadingInv'
<1>1. tried = {} /\ accepted = {} /\ phase' \in {"reading", "done"}
  BY DEF EndDiscovery, ReadingInv, TypeOK, Exit
<1>2. UNCHANGED <<tried, accepted, nextInput, inputs, current, pendingDirectories,
                  resourceLimitReached, files, errors>>
  BY DEF EndDiscovery, reader, walk, collection
<1>3. allValid' => errors = {}
  BY DEF EndDiscovery
<1>4. phase' = "done" => \/ exitCode' = 1
                         \/ exitCode' = 2 /\ files = {} /\ errors = {}
  BY DEF EndDiscovery, Exit
<1>. QED BY <1>1, <1>2, <1>3, <1>4 DEF EndDiscovery, ReadingInv

LEMMA ReadingFiles ==
    ASSUME TypeOK, ReadingInv,
           \/ OpenFile \/ ReadSome \/ ReadFails \/ RefuseLong
           \/ StopAtBudget \/ ValidateFile \/ Finish
    PROVE  ReadingInv'
<1>1. /\ UNCHANGED <<nextInput, inputs, current, pendingDirectories,
                     resourceLimitReached, files, errors, node, steady>>
      /\ phase # "inputs" /\ phase' # "inputs"
  BY DEF OpenFile, ReadSome, ReadFails, RefuseLong, StopAtBudget, ValidateFile, Finish,
         fileSystem, walk, collection, Refuse, Exit, ReadEnds
<1>2. /\ allValid' => allValid
      /\ allValid' => \A f \in tried' : f \in accepted' \/ (phase' = "open" /\ f = file')
  BY DEF OpenFile, ReadSome, ReadFails, RefuseLong, StopAtBudget, ValidateFile, Finish,
         Refuse, Exit, ReadEnds, ReadingInv, TypeOK, reader, verdict
<1>3. AcceptedWasValid'
  <2>1. CASE OpenFile
    BY <2>1 DEF OpenFile, Refuse, AcceptedWasValid, ReadingInv, fileSystem, verdict
  <2>2. CASE ReadSome \/ ReadFails \/ RefuseLong \/ StopAtBudget \/ Finish
    BY <2>2 DEF ReadSome, ReadFails, RefuseLong, StopAtBudget, Finish, Refuse, Exit,
                AcceptedWasValid, ReadingInv, fileSystem, reader, verdict
  <2>3. CASE ValidateFile
    BY <2>3 DEF ValidateFile, ReadEnds, AcceptedWasValid, ReadingInv, fileSystem, reader
  <2>. QED BY <2>1, <2>2, <2>3
<1>4. phase' = "done" => \/ exitCode' = 1
                         \/ exitCode' = 0 /\ allValid' /\ files' \subseteq tried'
  BY DEF OpenFile, ReadSome, ReadFails, RefuseLong, StopAtBudget, ValidateFile, Finish,
         Refuse, Exit, ReadEnds, reader, collection
<1>. QED BY <1>1, <1>2, <1>3, <1>4 DEF ReadingInv, AcceptedWasValid

LEMMA ReadingChange ==
    ASSUME TypeOK, ReadingInv, NEW g \in Files, Change(g) PROVE ReadingInv'
<1>1. /\ UNCHANGED <<phase, inputs, nextInput, collection, walk, tried, file, verdict>>
      /\ \A f \in steady' : f \in steady /\ node'[f] = node[f]
      /\ phase = "open" /\ file \in steady' => UNCHANGED <<opened, torn>>
  BY DEF Change, TypeOK
<1>2. AcceptedWasValid'
  BY <1>1 DEF AcceptedWasValid, ReadingInv, verdict
<1>. QED BY <1>1, <1>2 DEF ReadingInv, AcceptedWasValid, verdict, walk, collection

LEMMA NextReading == TypeOK /\ ReadingInv /\ [Next]_vars => ReadingInv'
<1>1. ReadingInv /\ UNCHANGED vars => ReadingInv'
  BY DEF ReadingInv, vars, fileSystem, reader, verdict, walk, collection
<1>. QED BY <1>1, ReadingWalk, ReadingEndDiscovery, ReadingFiles, ReadingChange DEF Next, Command

LEMMA InitInv == Init => FilesInv
BY DEF Init, FilesInv, WalkInv, ReadingInv

----------------------------------------------------------------------------
(* The theorems *)

\* The type invariant and the inductive invariant hold in every reachable
\* state: of the walk of collectPresetFiles and the loop of main.
THEOREM FilesInvariant == Spec => [](TypeOK /\ FilesInv)
<1>1. TypeOK /\ FilesInv /\ [Next]_vars => (TypeOK /\ FilesInv)'
  BY NextType, NextWalk, NextReading DEF FilesInv
<1>. QED BY <1>1, InitType, InitInv, PTL DEF Spec

THEOREM FilesTypeCorrect == Spec => []TypeOK
BY FilesInvariant, PTL

\* When nothing was reported, the walk has found every directory below the
\* inputs: the directories it knows contain the inputs and are closed.
LEMMA WalkIsComplete ==
    ASSUME TypeOK, FilesInv, phase # "inputs", errors = {}
    PROVE  Candidates \intersect {f \in steady : node[f].kind # "absent"} \subseteq files
<1>1. /\ nextInput - 1 >= Len(inputs) /\ current = Nowhere /\ pendingDirectories = <<>>
      /\ inputs \in Seq(Files \union Directories)
  BY LenProperties DEF FilesInv, WalkInv, ReadingInv, TypeOK
<1>2. InputsFound(nextInput - 1)
  BY DEF FilesInv, WalkInv, InputsFound
<1>3. InputDirectories \subseteq knownDirectories
  BY <1>1, <1>2, LenProperties DEF InputDirectories, InputsFound, TypeOK
<1>4. \A d \in knownDirectories : \A x \in ChildrenOf(d) : Seen(x)
  BY <1>1, EmptySeq DEF FilesInv, WalkInv, TypeOK, Nowhere, IsPending
<1>5. \A x \in Directories : Parent[x] \in knownDirectories => x \in knownDirectories
  BY <1>4 DEF ChildrenOf, Seen
<1>6. Below \subseteq knownDirectories
  BY <1>3, <1>5 DEF Below, TypeOK
<1>7. ASSUME NEW f \in Candidates, f \in steady, node[f].kind # "absent"
      PROVE  f \in knownFiles
  <2>1. CASE f \in InputFiles
    BY <1>1, <1>2, <2>1, LenProperties DEF InputFiles, InputsFound, TypeOK
  <2>2. CASE f \in Tempoflow /\ Parent[f] \in Below
    BY <1>4, <1>6, <1>7, <2>2 DEF ChildrenOf, Seen
  <2>. QED BY <1>7, <2>1, <2>2 DEF Candidates
<1>. QED BY <1>7 DEF FilesInv, WalkInv

\* No preset is passed over in silence: a success of the command means that
\* every preset below its inputs that was there all the time was validated.
THEOREM NothingPassedOver == Spec => []EveryPresetIsValidated
<1>1. ASSUME TypeOK, FilesInv, phase = "done", exitCode # 1
      PROVE  /\ \A f \in Candidates \intersect steady :
                   node[f].kind # "absent" =>
                       f \in accepted /\ node[f].kind = "regular" /\ node[f].valid
             /\ \A f \in InputFiles \intersect steady : node[f].kind # "absent"
  <2>1. errors = {} /\ (files = {} \/ (allValid /\ files \subseteq tried))
    BY <1>1 DEF FilesInv, ReadingInv
  <2>2. files \subseteq accepted
    BY <1>1, <2>1 DEF FilesInv, ReadingInv
  <2>3. Candidates \intersect {f \in steady : node[f].kind # "absent"} \subseteq files
    BY <1>1, <2>1, WalkIsComplete
  <2>4. \A f \in InputFiles \intersect steady : node[f].kind # "absent"
    <3>1. InputsFound(nextInput - 1)
      BY <1>1, <2>1 DEF FilesInv, WalkInv, InputsFound
    <3>2. DOMAIN inputs \subseteq 1 .. nextInput - 1
      BY <1>1, LenProperties DEF FilesInv, ReadingInv, TypeOK
    <3>. QED BY <3>1, <3>2 DEF InputsFound, InputFiles
  <2>. QED BY <1>1, <2>2, <2>3, <2>4 DEF FilesInv, ReadingInv
<1>2. TypeOK /\ FilesInv => EveryPresetIsValidated
  BY <1>1 DEF EveryPresetIsValidated
<1>. QED BY <1>2, FilesInvariant, PTL

\* What is read of one file and validated of all of them stays within the
\* limits, although the files may grow after their discovery.
THEOREM ReadingIsBounded == Spec => []BytesBounded
<1>1. Init => BytesBounded
  BY DEF Init, BytesBounded
<1>2. TypeOK /\ BytesBounded /\ [Next]_vars => BytesBounded'
  <2>. SUFFICES ASSUME TypeOK, BytesBounded, [Next]_vars PROVE BytesBounded'
    OBVIOUS
  <2>. USE DEF BytesBounded, TypeOK
  <2>1. CASE ProcessInput \/ BeginDirectory \/ ScanEntry \/ EndDirectory \/ EndDiscovery
    BY <2>1 DEF ProcessInput, BeginDirectory, ScanEntry, EndDirectory, EndDiscovery,
                reader, verdict
  <2>2. CASE OpenFile
    BY <2>2 DEF OpenFile, Refuse, verdict
  <2>3. CASE ReadSome
    BY <2>3 DEF ReadSome, verdict
  <2>4. CASE ReadFails \/ RefuseLong \/ StopAtBudget \/ Finish
    BY <2>4 DEF ReadFails, RefuseLong, StopAtBudget, Finish, Refuse, reader
  <2>5. CASE ValidateFile
    BY <2>5 DEF ValidateFile, reader
  <2>6. CASE \E f \in Files : Change(f)
    BY <2>6 DEF Change, verdict
  <2>7. CASE UNCHANGED vars
    BY <2>7 DEF vars, reader, verdict
  <2>. QED BY <2>1, <2>2, <2>3, <2>4, <2>5, <2>6, <2>7 DEF Next, Command
<1>. QED BY <1>1, <1>2, FilesTypeCorrect, PTL DEF Spec

----------------------------------------------------------------------------
(* Sums of sizes, and directories at a depth *)

\* BytesOf has as many members as the files of S have bytes.
LEMMA BytesOfOne ==
    ASSUME TypeOK, NEW f \in Files
    PROVE  /\ IsFiniteSet({f} \X (1 .. node[f].size))
           /\ Cardinality({f} \X (1 .. node[f].size)) = node[f].size
<1>1. node[f].size \in Nat
  BY NodeType DEF Node
<1>. DEFINE size == node[f].size
<1>. HIDE DEF size
<1>2. size \in Nat
  BY <1>1 DEF size
<1>3. IsFiniteSet(1 .. size) /\ Cardinality(1 .. size) = size
  <2>1. 1 \in Int /\ size \in Int
    BY <1>2
  <2>2. IsFiniteSet(1 .. size) /\ Cardinality(1 .. size) = IF 1 > size THEN 0 ELSE size - 1 + 1
    BY <2>1, FS_Interval
  <2>. QED BY <1>2, <2>2
<1>4. IsFiniteSet({f}) /\ Cardinality({f}) = 1
  BY FS_Singleton
<1>5. /\ IsFiniteSet({f} \X (1 .. size))
      /\ Cardinality({f} \X (1 .. size)) = Cardinality({f}) * Cardinality(1 .. size)
  BY <1>3, <1>4, FS_Product
<1>6. Cardinality({f} \X (1 .. size)) = size
  BY <1>2, <1>3, <1>4, <1>5
<1>. QED BY <1>5, <1>6 DEF size

\* The bytes of finitely many files are finitely many.
LEMMA BytesOfFinite ==
    ASSUME TypeOK, NEW S \in SUBSET Files
    PROVE  IsFiniteSet(BytesOf(S))
<1>. DEFINE Of   == [f \in S |-> {f} \X (1 .. node[f].size)]
            Sets == {{f} \X (1 .. node[f].size) : f \in S}
<1>1. IsFiniteSet(S)
  BY FS_Subset
<1>2. Of \in Surjection(S, Sets)
  <2>1. Of \in [S -> Sets]
    OBVIOUS
  <2>2. \A T \in Sets : \E f \in S : Of[f] = T
    OBVIOUS
  <2>. QED BY <2>1, <2>2 DEF Surjection
<1>3. \A T \in Sets : IsFiniteSet(T)
  BY BytesOfOne
<1>4. IsFiniteSet(Sets)
  <2>. HIDE DEF Of, Sets
  <2>. QED BY <1>1, <1>2, FS_Surjection
<1>5. IsFiniteSet(UNION Sets)
  <2>. HIDE DEF Sets
  <2>. QED BY <1>3, <1>4, FS_UNION
<1>. QED BY <1>5 DEF BytesOf

\* One more file adds its size.
LEMMA BytesOfMore ==
    ASSUME TypeOK, NEW S \in SUBSET Files, NEW f \in Files, f \notin S
    PROVE  Cardinality(BytesOf(S \union {f})) = Cardinality(BytesOf(S)) + node[f].size
<1>. DEFINE A == BytesOf(S)
            B == {f} \X (1 .. node[f].size)
<1>1. BytesOf(S \union {f}) = A \union B
  BY DEF BytesOf
<1>2. A \intersect B = {}
  <2>1. \A x \in A : \E g \in S : x \in {g} \X (1 .. node[g].size)
    BY DEF BytesOf
  <2>2. \A x \in A : x[1] \in S
    BY <2>1
  <2>3. \A x \in B : x[1] = f
    OBVIOUS
  <2>. QED BY <2>2, <2>3
<1>3. IsFiniteSet(A) /\ IsFiniteSet(B) /\ Cardinality(B) = node[f].size
  BY BytesOfOne, BytesOfFinite
<1>4. node[f].size \in Nat
  BY NodeType DEF Node
<1>. HIDE DEF A, B
<1>5. Cardinality(A \union B) = Cardinality(A) + Cardinality(B) - Cardinality(A \intersect B)
  BY <1>3, FS_Union
<1>6. Cardinality(A \intersect B) = 0
  BY <1>2, FS_EmptySet
<1>7. Cardinality(A) \in Nat
  BY <1>3, FS_CardinalityType
<1>8. Cardinality(A \union B) = Cardinality(A) + node[f].size
  BY <1>3, <1>4, <1>5, <1>6, <1>7
<1>. QED BY <1>1, <1>8 DEF A

\* Fewer files have no more bytes.
LEMMA BytesOfLess ==
    ASSUME TypeOK, NEW T \in SUBSET Files, NEW S \in SUBSET T
    PROVE  Cardinality(BytesOf(S)) <= Cardinality(BytesOf(T))
<1>1. BytesOf(S) \subseteq BytesOf(T)
  BY DEF BytesOf
<1>2. IsFiniteSet(BytesOf(T))
  BY BytesOfFinite
<1>. QED BY <1>1, <1>2, FS_Subset

LEMMA BytesOfNone == BytesOf({}) = {}
BY DEF BytesOf

\* Below holds the inputs and is closed.
LEMMA BelowInputs ==
    /\ InputDirectories \subseteq Below
    /\ \A x \in Directories : Parent[x] \in Below => x \in Below
BY DEF Below, InputDirectories

\* A directory that is no input is one level deeper than its parent.
LEMMA DepthOfChild ==
    ASSUME NEW x \in Directories, x \notin InputDirectories, NEW n \in Nat, IsAtDepth(x, n)
    PROVE  n >= 1 /\ IsAtDepth(Parent[x], n - 1)
<1>1. PICK path \in [0 .. n -> Directories] :
         /\ path[0] \in InputDirectories /\ path[n] = x
         /\ \A i \in 1 .. n : Parent[path[i]] = path[i - 1]
  BY DEF IsAtDepth
<1>2. n >= 1
  BY <1>1
<1>. DEFINE above == [i \in 0 .. n - 1 |-> path[i]]
<1>3. above \in [0 .. n - 1 -> Directories]
  OBVIOUS
<1>4. above[0] = path[0] /\ above[n - 1] = path[n - 1]
  BY <1>2
<1>5. path[n - 1] = Parent[x]
  BY <1>1, <1>2
<1>6. \A i \in 1 .. n - 1 : above[i] = path[i] /\ above[i - 1] = path[i - 1]
  OBVIOUS
<1>7. \A i \in 1 .. n - 1 : Parent[above[i]] = above[i - 1]
  BY <1>1, <1>6
<1>. HIDE DEF above
<1>. QED BY <1>1, <1>2, <1>3, <1>4, <1>5, <1>7 DEF IsAtDepth

----------------------------------------------------------------------------
(* No false alarm: as long as all is calm, the walk and the reading have    *)
(* reported nothing and stay within every limit.                            *)

\* What NoFalseAlarm asks for: nothing changed so far, no call of the system
\* failed, and every file is as it should be.
Calm == ~disturbed /\ steady = Files /\ AllAsItShouldBe

\* The directory was not found deeper than it lies: the inputs are known before
\* the walk begins, so that none of them is found first inside another one.
Shallow(entry) ==
    \A n \in 0 .. MaxDepth : IsAtDepth(entry.directory, n) => entry.depth <= n

\* The entries of the directories that were begun, without the ones to come.
Examined ==
    {x \in Entries : Parent[x] \in knownDirectories /\ ~IsPending(Parent[x])
                     /\ x \notin unlisted}

\* Only presets were collected, and the budget counts each of them once.
CalmCollection ==
    /\ errors = {} /\ ~resourceLimitReached /\ files \subseteq Presets
    /\ reportedTotalBytes = Cardinality(BytesOf(files))

\* No directory waits twice.
CalmStack ==
    /\ knownDirectories \subseteq Below
    /\ \A i \in DOMAIN pendingDirectories :
          /\ pendingDirectories[i].directory \in knownDirectories
          /\ Shallow(pendingDirectories[i])
    /\ \A i, j \in DOMAIN pendingDirectories :
          pendingDirectories[i].directory = pendingDirectories[j].directory => i = j

CalmListing ==
    IF current = Nowhere THEN unlisted = {}
    ELSE /\ nextInput > Len(inputs)
         /\ current.directory \in knownDirectories /\ ~IsPending(current.directory)
         /\ Shallow(current)
         /\ unlisted \subseteq ChildrenOf(current.directory)

CalmWalk ==
    CalmCollection /\ CalmStack /\ CalmListing /\ scannedEntries <= Cardinality(Examined)

\* The files whose bytes are in totalBytesRead.
Counted == IF phase = "open" THEN tried \ {file} ELSE tried

CalmReading ==
    /\ allValid
    /\ phase \in {"reading", "open"} => files # {}
    /\ phase = "done" => exitCode = IF files = {} THEN 2 ELSE 0
    /\ phase = "open" => bytes <= opened.size
    /\ totalBytesRead <= Cardinality(BytesOf(Counted))

\* The inductive invariant from which NoFalseAlarm follows.
CalmInv == Calm => CalmWalk /\ CalmReading

\* What a step that changes no file and no input leaves as it was.
LEMMA SameFiles ==
    ASSUME UNCHANGED <<node, inputs>>
    PROVE  /\ Presets' = Presets /\ Below' = Below /\ Entries' = Entries
           /\ AllAsItShouldBe' = AllAsItShouldBe
<1>. USE DEF InputDirectories, InputFiles
<1>1. Below' = Below
  BY DEF Below
<1>2. Presets' = Presets
  BY <1>1 DEF Presets, Candidates
<1>3. Entries' = Entries
  BY <1>1 DEF Entries
<1>4. BytesOf(Presets)' = BytesOf(Presets)
  BY <1>2 DEF BytesOf
<1>5. \A d, n : IsAtDepth(d, n)' = IsAtDepth(d, n)
  BY DEF IsAtDepth
<1>6. AllAsItShouldBe' = AllAsItShouldBe
  <2>. SUFFICES AllAsItShouldBe' <=> AllAsItShouldBe
    BY DEF AllAsItShouldBe
  <2>1. (\A d \in Directories :
          Parent[d] \in Below => \E n \in 0 .. MaxDepth - 1 : IsAtDepth(Parent[d], n))'
     <=> \A d \in Directories :
          Parent[d] \in Below => \E n \in 0 .. MaxDepth - 1 : IsAtDepth(Parent[d], n)
    BY <1>1, <1>5
  <2>. QED BY <1>1, <1>2, <1>3, <1>4, <2>1 DEF AllAsItShouldBe
<1>. QED BY <1>1, <1>2, <1>3, <1>6

\* Where all is calm after a step it was so before, and no file changed.
LEMMA CalmBefore ==
    ASSUME TypeOK, [Next]_vars, Calm'
    PROVE  Calm /\ UNCHANGED <<node, inputs, steady>> /\ disturbed' = disturbed
<1>1. UNCHANGED <<node, inputs, steady>> /\ disturbed' = disturbed
  <2>1. ASSUME NEW f \in Files, Change(f) PROVE FALSE
    BY <2>1 DEF Change, Calm
  <2>2. CASE ProcessInput \/ BeginDirectory \/ ScanEntry \/ EndDirectory \/ EndDiscovery
    BY <2>2 DEF ProcessInput, BeginDirectory, ScanEntry, EndDirectory, EndDiscovery,
                fileSystem, verdict
  <2>3. CASE OpenFile \/ ReadSome \/ ReadFails \/ RefuseLong \/ StopAtBudget
             \/ ValidateFile \/ Finish
    BY <2>3 DEF OpenFile, ReadSome, ReadFails, RefuseLong, StopAtBudget, ValidateFile,
                Finish, fileSystem, verdict, Calm
  <2>4. CASE UNCHANGED vars
    BY <2>4 DEF vars, fileSystem, verdict
  <2>. QED BY <2>1, <2>2, <2>3, <2>4 DEF Next, Command
<1>2. AllAsItShouldBe
  BY <1>1, SameFiles DEF Calm
<1>. QED BY <1>1, <1>2 DEF Calm

\* A preset that is collected exceeds no limit: it is one of all presets, and it
\* was not counted before.
LEMMA AppendFileCalm ==
    ASSUME TypeOK, WalkInv, AllAsItShouldBe, CalmCollection,
           NEW f \in Presets, appendFile(f), UNCHANGED <<node, inputs>>
    PROVE  CalmCollection'
<1>0. f \in Files /\ Presets \subseteq Files
  BY DEF Presets, Candidates, InputFiles
<1>1. CASE f \in knownFiles
  <2>1. UNCHANGED <<errors, files, resourceLimitReached, reportedTotalBytes>>
    BY <1>1 DEF appendFile, collection
  <2>2. BytesOf(files)' = BytesOf(files)
    BY <2>1 DEF BytesOf
  <2>. QED BY <2>1, <2>2, SameFiles DEF CalmCollection
<1>2. CASE f \notin knownFiles
  <2>0. files \union {f} \subseteq Presets /\ f \notin files /\ files \in SUBSET Files
    BY <1>0, <1>2 DEF CalmCollection, TypeOK
  <2>1. Cardinality(BytesOf(files \union {f})) = Cardinality(BytesOf(files)) + node[f].size
    BY <1>0, <2>0, BytesOfMore
  <2>2. Cardinality(BytesOf(files \union {f})) <= Cardinality(BytesOf(Presets))
    BY <1>0, <2>0, BytesOfLess
  <2>3. Cardinality(BytesOf(Presets)) <= MaxTotalBytes /\ Cardinality(Presets) <= MaxFiles
    BY DEF AllAsItShouldBe
  <2>4. node[f].size \in Nat /\ reportedTotalBytes \in Nat
    BY <1>0, NodeType DEF Node, TypeOK
  <2>5. /\ Cardinality(BytesOf(files \union {f})) \in Nat
        /\ Cardinality(BytesOf(Presets)) \in Nat
    BY <1>0, <2>0, BytesOfFinite, FS_CardinalityType
  <2>6. ~TooMuchInAll(f)
    BY <2>1, <2>2, <2>3, <2>4, <2>5 DEF TooMuchInAll, CalmCollection
  <2>7. ~TooLarge(f)
    BY <2>4 DEF TooLarge, AllAsItShouldBe
  <2>8. ~TooManyFiles
    <3>1. IsFiniteSet(Presets) /\ IsFiniteSet(files)
      BY <1>0, <2>0, FS_Subset
    <3>2. Cardinality(files \union {f}) = Cardinality(files) + 1
      BY <2>0, <3>1, FS_AddElement
    <3>3. Cardinality(files \union {f}) <= Cardinality(Presets)
      BY <2>0, <3>1, FS_Subset
    <3>4. Cardinality(files) \in Nat /\ Cardinality(Presets) \in Nat
      BY <3>1, FS_CardinalityType
    <3>. QED BY <2>3, <3>2, <3>3, <3>4 DEF TooManyFiles
  <2>9. /\ files' = files \union {f}
        /\ reportedTotalBytes' = reportedTotalBytes + node[f].size
        /\ UNCHANGED <<errors, resourceLimitReached>>
    BY <1>2, <2>6, <2>7, <2>8 DEF appendFile, CollectUnlessLimited, CalmCollection
  <2>10. BytesOf(files)' = BytesOf(files \union {f})
    BY <2>9 DEF BytesOf
  <2>. QED BY <2>0, <2>1, <2>9, <2>10, SameFiles DEF CalmCollection
<1>. QED BY <1>1, <1>2

\* The depths of the directories depend on the inputs alone.
LEMMA SameShallow ==
    ASSUME UNCHANGED inputs
    PROVE  /\ \A entry : Shallow(entry)' <=> Shallow(entry)
           /\ Shallow(current)' <=> Shallow(current')
           /\ \A i : Shallow(pendingDirectories[i])' <=> Shallow(pendingDirectories'[i])
BY DEF Shallow, IsAtDepth, InputDirectories

\* A directory below the inputs that is found no deeper than it lies is pushed
\* once.
LEMMA AppendDirectoryCalm ==
    ASSUME TypeOK, CalmStack, UNCHANGED <<node, inputs>>,
           NEW d \in Directories, NEW depth \in 0 .. MaxDepth, appendDirectory(d, depth),
           d \in Below, Shallow([directory |-> d, depth |-> depth])
    PROVE  /\ CalmStack'
           /\ \A e : IsPending(e)' => IsPending(e) \/ (e = d /\ d \notin knownDirectories)
<1>. DEFINE new == [directory |-> d, depth |-> depth]
<1>1. pendingDirectories \in Seq(Pending) /\ new \in Pending /\ new.directory = d
  BY DEF TypeOK, Pending
<1>2. /\ knownDirectories' = knownDirectories \union {d} /\ Below' = Below
      /\ knownDirectories' \subseteq Below
  BY SameFiles DEF appendDirectory, CalmStack
<1>3. CASE d \in knownDirectories
  <2>1. pendingDirectories' = pendingDirectories
    BY <1>3 DEF appendDirectory
  <2>2. \A i \in DOMAIN pendingDirectories : Shallow(pendingDirectories[i])'
    BY <2>1, SameShallow DEF CalmStack
  <2>3. CalmStack'
    BY <1>2, <2>1, <2>2 DEF CalmStack
  <2>. QED BY <2>1, <2>3 DEF IsPending
<1>4. CASE d \notin knownDirectories
  <2>1. pendingDirectories' = Append(pendingDirectories, new)
    BY <1>4 DEF appendDirectory
  <2>. DEFINE top == Len(pendingDirectories) + 1
  <2>2. /\ DOMAIN pendingDirectories' = DOMAIN pendingDirectories \union {top}
        /\ \A i \in DOMAIN pendingDirectories : pendingDirectories'[i] = pendingDirectories[i]
        /\ pendingDirectories'[top] = new
    <3>1. /\ DOMAIN pendingDirectories' = 1 .. Len(pendingDirectories) + 1
          /\ DOMAIN pendingDirectories = 1 .. Len(pendingDirectories)
          /\ Len(pendingDirectories) \in Nat
          /\ \A i \in DOMAIN pendingDirectories : pendingDirectories'[i] = pendingDirectories[i]
          /\ pendingDirectories'[Len(pendingDirectories) + 1] = new
      BY <1>1, <2>1, AppendProperties, LenProperties
    <3>. QED BY <3>1
  <2>. HIDE DEF top, new
  <2>3. \A i \in DOMAIN pendingDirectories' :
           pendingDirectories'[i].directory \in knownDirectories'
    BY <1>1, <1>2, <2>2 DEF CalmStack
  <2>4. \A i \in DOMAIN pendingDirectories' : Shallow(pendingDirectories'[i])
    <3>1. Shallow(new)
      BY DEF new
    <3>. QED BY <2>2, <3>1 DEF CalmStack
  <2>5. \A i \in DOMAIN pendingDirectories' : Shallow(pendingDirectories[i])'
    BY <2>4, SameShallow
  <2>6. \A i, j \in DOMAIN pendingDirectories' :
           pendingDirectories'[i].directory = pendingDirectories'[j].directory => i = j
    BY <1>1, <1>4, <2>2 DEF CalmStack
  <2>7. CalmStack'
    BY <1>2, <2>3, <2>5, <2>6 DEF CalmStack
  <2>8. \A e : IsPending(e)' => IsPending(e) \/ (e = d /\ d \notin knownDirectories)
    BY <1>1, <1>4, <2>2 DEF IsPending
  <2>. QED BY <2>7, <2>8
<1>. QED BY <1>3, <1>4

\* There are finitely many entries.
LEMMA ExaminedFinite == Examined \subseteq Entries /\ IsFiniteSet(Entries)
<1>1. Entries \subseteq Files \union Directories /\ IsFiniteSet(Files \union Directories)
  BY FS_Union DEF Entries
<1>. QED BY <1>1, FS_Subset DEF Examined

\* What was examined stays examined.
LEMMA ExaminedStays ==
    ASSUME UNCHANGED <<node, inputs>>,
           knownDirectories \subseteq knownDirectories',
           \A e \in knownDirectories : IsPending(e)' => IsPending(e),
           unlisted' \subseteq unlisted
    PROVE  Examined \subseteq Examined'
BY SameFiles DEF Examined

\* The count of the entries stays below their number.
LEMMA CountStays ==
    ASSUME Examined \subseteq Examined', UNCHANGED <<node, inputs, scannedEntries>>,
           scannedEntries \in Nat,
           scannedEntries <= Cardinality(Examined)
    PROVE  scannedEntries' <= Cardinality(Examined')
<1>1. Examined' \subseteq Entries /\ IsFiniteSet(Entries)
  BY ExaminedFinite, SameFiles DEF Examined
<1>2. IsFiniteSet(Examined') /\ IsFiniteSet(Examined)
  BY <1>1, ExaminedFinite, FS_Subset
<1>3. Cardinality(Examined) <= Cardinality(Examined')
  BY <1>2, FS_Subset
<1>4. Cardinality(Examined) \in Nat /\ Cardinality(Examined') \in Nat
  BY <1>2, FS_CardinalityType
<1>. QED BY <1>3, <1>4

\* What was found before the step is not touched by it.
LEMMA SameCollection ==
    ASSUME CalmCollection, UNCHANGED <<node, inputs, collection>>
    PROVE  CalmCollection'
<1>1. UNCHANGED <<errors, files, resourceLimitReached, reportedTotalBytes>>
  BY DEF collection
<1>2. BytesOf(files)' = BytesOf(files)
  BY <1>1 DEF BytesOf
<1>. QED BY <1>1, <1>2, SameFiles DEF CalmCollection

LEMMA SameStack ==
    ASSUME CalmStack, UNCHANGED <<node, inputs, pendingDirectories, knownDirectories>>
    PROVE  CalmStack'
<1>1. \A i \in DOMAIN pendingDirectories : Shallow(pendingDirectories[i])'
  BY SameShallow DEF CalmStack
<1>. QED BY <1>1, SameFiles DEF CalmStack

LEMMA CurrentIsNotPending ==
    ASSUME NEW d, current'.directory = d, ~IsPending(d)'
    PROVE  ~IsPending(current.directory)'
BY DEF IsPending

\* An input of a calm command is a directory, or a preset that is there.
LEMMA ProcessInputCalm ==
    ASSUME TypeOK, FilesInv, Calm, CalmWalk, ProcessInput, UNCHANGED <<node, inputs>>
    PROVE  CalmWalk'
<1>. DEFINE input == inputs[nextInput]
<1>1. /\ input \in Files \union Directories /\ nextInput \in 1 .. Len(inputs)
      /\ UNCHANGED <<current, unlisted, scannedEntries>>
  BY LenProperties, ElementOfSeq DEF ProcessInput, TypeOK
<1>2. \E i \in DOMAIN inputs : inputs[i] = input
  BY <1>1, LenProperties DEF TypeOK
<1>3. current = Nowhere /\ unlisted = {}
  BY <1>1 DEF CalmWalk, CalmListing, TypeOK
<1>4. CalmListing'
  BY <1>1, <1>3 DEF CalmListing
<1>5. CASE input \in Directories
  <2>1. appendDirectory(input, 0) /\ UNCHANGED collection
    BY <1>5 DEF ProcessInput
  <2>2. input \in Below
    BY <1>2, <1>5, BelowInputs DEF InputDirectories
  <2>3. Shallow([directory |-> input, depth |-> 0]) /\ 0 \in 0 .. MaxDepth
    BY DEF Shallow
  <2>. HIDE DEF input
  <2>4. /\ CalmStack'
        /\ \A e : IsPending(e)' => IsPending(e) \/ (e = input /\ input \notin knownDirectories)
    BY <1>5, <2>1, <2>2, <2>3, AppendDirectoryCalm DEF CalmWalk
  <2>5. knownDirectories \subseteq knownDirectories'
    BY <2>1 DEF appendDirectory
  <2>6. Examined \subseteq Examined'
    BY <1>1, <2>4, <2>5, ExaminedStays
  <2>7. scannedEntries' <= Cardinality(Examined')
    BY <1>1, <2>6, CountStays DEF CalmWalk, TypeOK
  <2>. QED BY <1>4, <2>1, <2>4, <2>7, SameCollection DEF CalmWalk
<1>6. CASE input \in Files
  <2>1. input \in Presets
    BY <1>2, <1>6 DEF Calm, AllAsItShouldBe, Presets, Candidates, InputFiles
  <2>2. node[input].kind = "regular"
    BY <2>1 DEF Calm, AllAsItShouldBe
  <2>3. appendFile(input) /\ UNCHANGED <<pendingDirectories, knownDirectories>>
    BY <1>6, <2>2 DEF ProcessInput
  <2>. HIDE DEF input
  <2>4. CalmCollection'
    BY <2>1, <2>3, AppendFileCalm DEF FilesInv, Calm, CalmWalk
  <2>5. Examined \subseteq Examined'
    BY <1>1, <2>3, ExaminedStays DEF IsPending
  <2>6. scannedEntries' <= Cardinality(Examined')
    BY <1>1, <2>5, CountStays DEF CalmWalk, TypeOK
  <2>. QED BY <1>4, <2>3, <2>4, <2>6, SameStack DEF CalmWalk
<1>. QED BY <1>1, <1>5, <1>6

\* The entries of the directory that is begun are yet to come.
LEMMA BeginDirectoryCalm ==
    ASSUME TypeOK, FilesInv, Calm, CalmWalk, BeginDirectory, UNCHANGED <<node, inputs>>
    PROVE  CalmWalk'
<1>. DEFINE last == Len(pendingDirectories)
            entry == pendingDirectories[last]
<1>1. pendingDirectories \in Seq(Pending) /\ last \in Nat \ {0}
  BY EmptySeq, LenProperties DEF BeginDirectory, TypeOK, Pending
<1>2. /\ UNCHANGED <<collection, nextInput, knownDirectories, scannedEntries>>
      /\ current = Nowhere /\ unlisted = {} /\ nextInput > Len(inputs)
      /\ current' = entry /\ unlisted' = ChildrenOf(entry.directory)
      /\ pendingDirectories' = SubSeq(pendingDirectories, 1, last - 1)
  BY DEF BeginDirectory, CalmWalk, CalmListing
<1>3. /\ DOMAIN pendingDirectories = 1 .. last
      /\ DOMAIN pendingDirectories' = 1 .. last - 1
      /\ \A i \in 1 .. last - 1 : pendingDirectories'[i] = pendingDirectories[i]
  BY <1>1, <1>2, LenProperties
<1>4. /\ entry \in Pending /\ entry.directory \in knownDirectories /\ Shallow(entry)
      /\ last \in DOMAIN pendingDirectories
  BY <1>1, <1>3, ElementOfSeq DEF CalmWalk, CalmStack
<1>. HIDE DEF entry
<1>5. CalmStack'
  <2>1. \A i \in 1 .. last - 1 : Shallow(pendingDirectories'[i])
    BY <1>3 DEF CalmWalk, CalmStack
  <2>2. \A i \in DOMAIN pendingDirectories' : Shallow(pendingDirectories[i])'
    BY <1>3, <2>1, SameShallow
  <2>. QED BY <1>2, <1>3, <2>2, SameFiles DEF CalmWalk, CalmStack
<1>6. /\ \A e : IsPending(e)' => IsPending(e)
      /\ \A e : e = entry.directory => ~IsPending(e)' /\ IsPending(e)
  <2>1. \A i \in 1 .. last - 1 : pendingDirectories[i].directory # entry.directory
    BY <1>1, <1>3, <1>4 DEF CalmWalk, CalmStack, entry
  <2>2. last \in 1 .. last /\ \A i \in 1 .. last - 1 : i \in 1 .. last
    BY <1>1
  <2>3. \A e : IsPending(e)' => IsPending(e)
    BY <1>3, <2>2 DEF IsPending
  <2>4. \A e : e = entry.directory => ~IsPending(e)'
    BY <1>3, <2>1 DEF IsPending
  <2>5. \A e : e = entry.directory => IsPending(e)
    BY <1>3, <2>2 DEF IsPending, entry
  <2>. QED BY <2>3, <2>4, <2>5
<1>7. CalmListing'
  <2>1. Shallow(current)'
    BY <1>2, <1>4, SameShallow
  <2>2. current'.directory \in knownDirectories' /\ ~IsPending(current.directory)'
    BY <1>2, <1>4, <1>6, CurrentIsNotPending
  <2>3. nextInput' > Len(inputs') /\ unlisted' \subseteq ChildrenOf(current'.directory)
    BY <1>2
  <2>4. current' # Nowhere
    BY <1>2, <1>4 DEF Nowhere, Pending
  <2>. QED BY <1>2, <2>1, <2>2, <2>3, <2>4 DEF CalmListing, ChildrenOf
<1>8. Examined \subseteq Examined'
  BY <1>2, <1>6, SameFiles DEF Examined, ChildrenOf
<1>9. scannedEntries' <= Cardinality(Examined')
  BY <1>2, <1>8, CountStays DEF CalmWalk, TypeOK
<1>. QED BY <1>2, <1>5, <1>7, <1>9, SameCollection DEF CalmWalk

\* At the end of a directory no more entry is waiting for examination.
LEMMA EndDirectoryCalm ==
    ASSUME TypeOK, FilesInv, Calm, CalmWalk, EndDirectory, UNCHANGED <<node, inputs>>
    PROVE  CalmWalk'
<1>1. /\ UNCHANGED <<collection, pendingDirectories, knownDirectories, scannedEntries>>
      /\ current' = Nowhere /\ unlisted' = {}
  BY DEF EndDirectory
<1>2. Examined \subseteq Examined'
  BY <1>1, ExaminedStays DEF IsPending
<1>3. scannedEntries' <= Cardinality(Examined')
  BY <1>1, <1>2, CountStays DEF CalmWalk, TypeOK
<1>. QED BY <1>1, <1>3, SameCollection, SameStack DEF CalmWalk, CalmListing

\* An entry that is listed is counted for the first time, so the limit on
\* entries is not reached; a directory lies above the limit on depth.
LEMMA ScanEntryCalm ==
    ASSUME TypeOK, FilesInv, Calm, CalmWalk, ScanEntry, UNCHANGED <<node, inputs, steady>>
    PROVE  CalmWalk'
<1>1. PICK x \in unlisted : /\ MayBeListed(x) /\ unlisted' = unlisted \ {x}
                            /\ ScanTooMany(x) \/ ScanDirectory(x) \/ ScanFile(x)
  BY DEF ScanEntry
<1>2. /\ UNCHANGED <<nextInput, current>> /\ current # Nowhere
      /\ scannedEntries' = scannedEntries + 1 /\ scannedEntries \in Nat
  BY DEF ScanEntry, TypeOK
<1>3. /\ nextInput > Len(inputs) /\ Shallow(current)
      /\ current.directory \in knownDirectories /\ ~IsPending(current.directory)
      /\ unlisted \subseteq ChildrenOf(current.directory)
      /\ knownDirectories \subseteq Below
      /\ current.depth \in 0 .. MaxDepth
  BY <1>2 DEF CalmWalk, CalmListing, CalmStack, TypeOK
<1>4. x \in Files \union Directories /\ Parent[x] = current.directory /\ Parent[x] \in Below
  BY <1>1, <1>3 DEF ChildrenOf
<1>5. x \in Entries
  BY <1>1, <1>4 DEF Entries, MayBeListed, Calm
<1>6. IsFiniteSet(Examined) /\ IsFiniteSet(Entries) /\ x \notin Examined /\ Examined \subseteq Entries
  BY <1>1, ExaminedFinite, FS_Subset DEF Examined
<1>7. /\ Cardinality(Examined \union {x}) = Cardinality(Examined) + 1
      /\ Cardinality(Examined) \in Nat
  BY <1>6, FS_AddElement, FS_CardinalityType
<1>8. scannedEntries < MaxEntries
  <2>1. Cardinality(Examined \union {x}) <= Cardinality(Entries) /\ Cardinality(Entries) \in Nat
    BY <1>5, <1>6, FS_Subset, FS_CardinalityType
  <2>2. Cardinality(Entries) <= MaxEntries /\ scannedEntries <= Cardinality(Examined)
    BY DEF Calm, AllAsItShouldBe, CalmWalk
  <2>. QED BY <1>2, <1>7, <2>1, <2>2
\* The entry counts as examined now, and nothing else was forgotten.
<1>9. ASSUME knownDirectories \subseteq knownDirectories',
             \A e \in knownDirectories : IsPending(e)' => IsPending(e)
      PROVE  scannedEntries' <= Cardinality(Examined')
  <2>1. Examined \union {x} \subseteq Examined'
    BY <1>1, <1>3, <1>4, <1>5, <1>9, SameFiles DEF Examined
  <2>2. IsFiniteSet(Examined')
    BY <1>6, SameFiles, FS_Subset DEF Examined
  <2>3. Cardinality(Examined \union {x}) <= Cardinality(Examined')
    BY <2>1, <2>2, FS_Subset
  <2>4. Cardinality(Examined') \in Nat
    BY <2>2, FS_CardinalityType
  <2>. QED BY <1>2, <1>7, <2>3, <2>4 DEF CalmWalk
<1>10. ASSUME knownDirectories \subseteq knownDirectories',
              \A e \in knownDirectories : IsPending(e)' => IsPending(e)
       PROVE  CalmListing'
  <2>1. Shallow(current)'
    BY <1>2, <1>3, SameShallow
  <2>2. ~IsPending(current.directory)'
    BY <1>2, <1>3, <1>10, CurrentIsNotPending
  <2>. QED BY <1>1, <1>2, <1>3, <1>10, <2>1, <2>2 DEF CalmListing, ChildrenOf
<1>11. CASE ScanTooMany(x)
  BY <1>2, <1>8, <1>11 DEF ScanTooMany
<1>12. CASE ScanDirectory(x)
  <2>1. x \in Directories
    BY <1>12 DEF ScanDirectory
  <2>2. PICK n \in 0 .. MaxDepth - 1 : IsAtDepth(current.directory, n)
    BY <1>4, <2>1 DEF Calm, AllAsItShouldBe
  <2>3. current.depth < MaxDepth
    BY <1>3, <2>2 DEF Shallow
  <2>4. appendDirectory(x, current.depth + 1) /\ UNCHANGED collection
    BY <1>3, <1>12, <2>3 DEF ScanDirectory
  <2>5. x \in Below
    BY <1>4, <2>1, BelowInputs
  <2>. DEFINE new == [directory |-> x, depth |-> current.depth + 1]
  <2>6. CASE x \in knownDirectories
    <3>1. UNCHANGED <<knownDirectories, pendingDirectories>>
      BY <2>4, <2>6 DEF appendDirectory
    <3>2. \A e : IsPending(e)' => IsPending(e)
      BY <3>1 DEF IsPending
    <3>. QED BY <1>3, <1>9, <1>10, <2>4, <3>1, <3>2, SameCollection, SameStack DEF CalmWalk
  <2>7. CASE x \notin knownDirectories
    <3>1. x \notin InputDirectories
      <4>1. \A i \in 1 .. nextInput - 1 : inputs[i] \in Directories => inputs[i] \in knownDirectories
        BY DEF FilesInv, WalkInv, CalmWalk, CalmCollection
      <4>2. DOMAIN inputs \subseteq 1 .. nextInput - 1
        BY <1>3, LenProperties DEF TypeOK
      <4>. QED BY <2>1, <2>7, <4>1, <4>2 DEF InputDirectories
    <3>2. Shallow(new)
      <4>1. ASSUME NEW m \in 0 .. MaxDepth, IsAtDepth(x, m) PROVE current.depth + 1 <= m
        <5>1. m >= 1 /\ IsAtDepth(current.directory, m - 1)
          BY <1>4, <2>1, <3>1, <4>1, DepthOfChild
        <5>2. m - 1 \in 0 .. MaxDepth
          BY <5>1
        <5>. QED BY <1>3, <5>1, <5>2 DEF Shallow
      <4>. QED BY <4>1 DEF Shallow
    <3>3. current.depth + 1 \in 0 .. MaxDepth
      BY <1>3, <2>3
    <3>4. /\ CalmStack'
          /\ \A e : IsPending(e)' => IsPending(e) \/ (e = x /\ x \notin knownDirectories)
      BY <2>1, <2>4, <2>5, <3>2, <3>3, AppendDirectoryCalm DEF CalmWalk
    <3>5. knownDirectories \subseteq knownDirectories'
      BY <2>4 DEF appendDirectory
    <3>6. \A e \in knownDirectories : IsPending(e)' => IsPending(e)
      BY <2>7, <3>4
    <3>7. CalmListing' /\ scannedEntries' <= Cardinality(Examined')
      BY <1>3, <1>9, <1>10, <3>5, <3>6
    <3>. QED BY <2>4, <3>4, <3>7, SameCollection DEF CalmWalk
  <2>. QED BY <2>6, <2>7
<1>13. CASE ScanFile(x)
  <2>1. x \in Files /\ UNCHANGED <<pendingDirectories, knownDirectories>> /\ node[x].kind # "absent"
    BY <1>1, <1>13 DEF ScanFile, MayBeListed, Calm
  <2>2. node[x].kind # "link"
    BY <1>5, <2>1 DEF Calm, AllAsItShouldBe
  <2>3. CalmCollection'
    <3>1. CASE x \in Tempoflow
      <4>1. x \in Presets
        BY <1>4, <2>1, <3>1 DEF Presets, Candidates
      <4>2. appendFile(x)
        BY <1>13, <2>2, <3>1 DEF ScanFile
      <4>. QED BY <4>1, <4>2, AppendFileCalm DEF FilesInv, Calm, CalmWalk
    <3>2. CASE x \notin Tempoflow
      BY <1>13, <2>2, <3>2, SameCollection DEF ScanFile, CalmWalk
    <3>. QED BY <3>1, <3>2
  <2>4. \A e : IsPending(e)' => IsPending(e)
    BY <2>1 DEF IsPending
  <2>5. CalmListing' /\ scannedEntries' <= Cardinality(Examined')
    BY <1>3, <1>9, <1>10, <2>1, <2>4
  <2>. QED BY <2>1, <2>3, <2>5, SameStack DEF CalmWalk
<1>. QED BY <1>1, <1>11, <1>12, <1>13

LEMMA SameListing ==
    ASSUME CalmListing, UNCHANGED <<inputs, nextInput, walk>>
    PROVE  CalmListing'
<1>1. UNCHANGED <<pendingDirectories, current, unlisted, knownDirectories>>
  BY DEF walk
<1>2. IsPending(current.directory)' <=> IsPending(current.directory)
  BY <1>1 DEF IsPending
<1>3. Shallow(current)' <=> Shallow(current)
  BY <1>1, SameShallow
<1>. QED BY <1>1, <1>2, <1>3 DEF CalmListing, ChildrenOf

\* The reader keeps within the bytes of the files it has counted.
LEMMA SameBytesRead ==
    ASSUME UNCHANGED node, totalBytesRead' = totalBytesRead, Counted' = Counted,
           totalBytesRead <= Cardinality(BytesOf(Counted))
    PROVE  totalBytesRead' <= Cardinality(BytesOf(Counted))'
<1>1. BytesOf(Counted)' = BytesOf(Counted)
  BY DEF BytesOf
<1>. QED BY <1>1

\* The walk reads nothing.
LEMMA WalkCalmReading ==
    ASSUME TypeOK, FilesInv, CalmReading, UNCHANGED node,
           ProcessInput \/ BeginDirectory \/ ScanEntry \/ EndDirectory
    PROVE  CalmReading'
<1>1. UNCHANGED <<reader, verdict, phase>>
  BY DEF ProcessInput, BeginDirectory, ScanEntry, EndDirectory
<1>2. phase = "inputs"
  BY EmptySeq, LenProperties
  DEF ProcessInput, BeginDirectory, ScanEntry, EndDirectory, FilesInv, ReadingInv, TypeOK, Nowhere
<1>3. Counted' = Counted
  BY <1>1 DEF Counted, reader
<1>4. totalBytesRead' <= Cardinality(BytesOf(Counted))'
  BY <1>1, <1>3, SameBytesRead DEF CalmReading, Counted, verdict
<1>. QED BY <1>1, <1>2, <1>4 DEF CalmReading, Counted, reader, verdict

\* Discovery ends without an error, and with the exit code 2 without a file.
LEMMA EndDiscoveryCalm ==
    ASSUME TypeOK, FilesInv, CalmCollection, CalmReading, UNCHANGED node, EndDiscovery
    PROVE  CalmReading'
<1>1. /\ phase = "inputs" /\ phase' \in {"reading", "done"}
      /\ UNCHANGED <<files, tried, file, totalBytesRead>> /\ allValid'
  BY DEF EndDiscovery, Exit, reader, collection, CalmCollection
<1>2. Counted' = Counted
  BY <1>1 DEF Counted
<1>3. totalBytesRead' <= Cardinality(BytesOf(Counted))'
  BY <1>1, <1>2, SameBytesRead DEF CalmReading, Counted
<1>4. /\ phase' = "reading" => files # {}
      /\ phase' = "done" => exitCode' = IF files = {} THEN 2 ELSE 0
  BY DEF EndDiscovery, Exit, CalmCollection
<1>. QED BY <1>1, <1>3, <1>4 DEF CalmReading, Counted

\* What is opened is a regular file, and the open succeeds.
LEMMA OpenFileCalm ==
    ASSUME TypeOK, FilesInv, Calm, Calm', CalmCollection, CalmReading, UNCHANGED node, OpenFile
    PROVE  CalmReading'
<1>1. PICK f \in files :
         /\ IsNext(f)
         /\ tried' = tried \union {f} /\ file' = f
         /\ \/ phase' = "open" /\ opened' = node[f] /\ UNCHANGED verdict
            \/ node[f].kind # "regular"
            \/ disturbed' = TRUE
  BY DEF OpenFile
<1>2. node[f].kind = "regular" /\ node[f].size \in Nat
  BY NodeType DEF Calm, AllAsItShouldBe, CalmCollection, TypeOK, Node
<1>3. phase' = "open" /\ opened' = node[f] /\ UNCHANGED verdict
  BY <1>1, <1>2 DEF Calm
<1>4. phase = "reading" /\ bytes' = 0 /\ UNCHANGED files
  BY DEF OpenFile, collection
<1>5. f \notin tried
  BY <1>1 DEF IsNext
<1>6. Counted' = Counted
  BY <1>1, <1>3, <1>4, <1>5 DEF Counted
<1>7. totalBytesRead' <= Cardinality(BytesOf(Counted))'
  BY <1>3, <1>6, SameBytesRead DEF CalmReading, Counted, verdict
<1>. QED BY <1>2, <1>3, <1>4, <1>7 DEF CalmReading, Counted, verdict

\* The reader stops at the end of the file.
LEMMA ReadSomeCalm ==
    ASSUME TypeOK, CalmReading, UNCHANGED node, ReadSome
    PROVE  CalmReading'
<1>1. /\ phase = "open" /\ phase' = "open"
      /\ UNCHANGED <<files, tried, file, opened, verdict>>
      /\ bytes' <= opened.size
  BY DEF ReadSome, collection
<1>2. Counted' = Counted
  BY <1>1 DEF Counted
<1>3. totalBytesRead' <= Cardinality(BytesOf(Counted))'
  BY <1>1, <1>2, SameBytesRead DEF CalmReading, Counted, verdict
<1>. QED BY <1>1, <1>3 DEF CalmReading, Counted, verdict

\* When the open file is read to its end it is small enough, and its bytes
\* fit into the budget.
LEMMA OpenFileFits ==
    ASSUME TypeOK, FilesInv, Calm, CalmCollection, CalmReading, phase = "open"
    PROVE  /\ file \in tried /\ ~torn /\ opened.valid /\ bytes <= node[file].size
           /\ bytes <= MaxFileBytes
           /\ totalBytesRead + bytes <= Cardinality(BytesOf(tried))
           /\ totalBytesRead + bytes <= MaxTotalBytes
<1>1. file \in tried /\ file \in Files /\ file \in Presets
  BY DEF FilesInv, ReadingInv, CalmCollection, TypeOK
<1>2. opened = node[file] /\ ~torn
  BY <1>1 DEF FilesInv, ReadingInv, Calm
<1>3. node[file].size \in Nat
  BY <1>1, NodeType DEF Node
<1>4. opened.valid /\ bytes <= node[file].size /\ node[file].size <= MaxFileBytes /\ bytes \in Nat
  BY <1>1, <1>2 DEF Calm, AllAsItShouldBe, CalmReading, TypeOK
<1>5. tried \subseteq Presets /\ Presets \subseteq Files /\ tried \in SUBSET Files
  BY DEF CalmCollection, TypeOK, Presets, Candidates, InputFiles
<1>. DEFINE rest == tried \ {file}
<1>6. Cardinality(BytesOf(rest \union {file})) = Cardinality(BytesOf(rest)) + node[file].size
  <2>1. rest \in SUBSET Files /\ file \notin rest
    BY <1>5
  <2>. HIDE DEF rest
  <2>. QED BY <1>1, <2>1, BytesOfMore
<1>7. rest \union {file} = tried
  BY <1>1
<1>8. totalBytesRead <= Cardinality(BytesOf(rest))
  BY DEF CalmReading, Counted
<1>9. Cardinality(BytesOf(rest)) \in Nat /\ totalBytesRead \in Nat
  <2>1. rest \in SUBSET Files
    BY <1>5
  <2>. HIDE DEF rest
  <2>. QED BY <2>1, BytesOfFinite, FS_CardinalityType DEF TypeOK
<1>10. Cardinality(BytesOf(tried)) <= Cardinality(BytesOf(Presets))
  BY <1>5, BytesOfLess
<1>11. Cardinality(BytesOf(tried)) \in Nat /\ Cardinality(BytesOf(Presets)) \in Nat
  BY <1>5, BytesOfFinite, FS_CardinalityType
<1>12. Cardinality(BytesOf(Presets)) <= MaxTotalBytes
  BY DEF Calm, AllAsItShouldBe
<1>13. Cardinality(BytesOf(tried)) = Cardinality(BytesOf(rest)) + node[file].size
  BY <1>6, <1>7
<1>. HIDE DEF rest
<1>14. totalBytesRead + bytes <= Cardinality(BytesOf(tried))
  BY <1>3, <1>4, <1>8, <1>9, <1>11, <1>13
<1>15. bytes <= MaxFileBytes
  BY <1>3, <1>4
<1>16. totalBytesRead + bytes <= MaxTotalBytes
  BY <1>4, <1>9, <1>10, <1>11, <1>12, <1>14
<1>. QED BY <1>1, <1>2, <1>4, <1>14, <1>15, <1>16

\* A file that was not torn is the valid preset it was at discovery.
LEMMA ValidateFileCalm ==
    ASSUME TypeOK, FilesInv, Calm, CalmCollection, CalmReading, UNCHANGED node, ValidateFile
    PROVE  CalmReading'
<1>1. /\ phase = "open" /\ phase' = "reading"
      /\ UNCHANGED <<files, tried>> /\ totalBytesRead' = totalBytesRead + bytes
  BY DEF ValidateFile, ReadEnds, collection, reader
<1>2. /\ file \in tried /\ ~torn /\ opened.valid
      /\ totalBytesRead + bytes <= Cardinality(BytesOf(tried))
  BY <1>1, OpenFileFits
<1>3. allValid'
  BY <1>2 DEF ValidateFile, CalmReading
<1>4. files # {}
  BY <1>2 DEF TypeOK
<1>5. BytesOf(Counted)' = BytesOf(tried)
  BY <1>1 DEF BytesOf, Counted
<1>6. totalBytesRead' <= Cardinality(BytesOf(Counted))'
  BY <1>1, <1>2, <1>5
<1>. QED BY <1>1, <1>3, <1>4, <1>6 DEF CalmReading, Counted

\* The command succeeds.
LEMMA FinishCalm ==
    ASSUME TypeOK, CalmReading, UNCHANGED node, Finish
    PROVE  CalmReading'
<1>1. /\ phase = "reading" /\ phase' = "done" /\ files # {} /\ allValid /\ allValid'
      /\ exitCode' = 0 /\ UNCHANGED <<files, tried, totalBytesRead>>
  BY DEF Finish, Exit, CalmReading, collection, reader
<1>2. Counted' = Counted
  BY <1>1 DEF Counted
<1>3. totalBytesRead' <= Cardinality(BytesOf(Counted))'
  BY <1>1, <1>2, SameBytesRead DEF CalmReading
<1>. QED BY <1>1, <1>3 DEF CalmReading

\* No file is refused for its length, and the budget is not exceeded.
LEMMA FileSteps ==
    ASSUME TypeOK, FilesInv, Calm, CalmCollection, CalmReading
    PROVE  ~RefuseLong /\ ~StopAtBudget
<1>1. ASSUME ReadEnds, bytes > MaxFileBytes PROVE FALSE
  BY <1>1, OpenFileFits DEF ReadEnds, TypeOK
<1>2. ASSUME ReadEnds, totalBytesRead > MaxTotalBytes - bytes PROVE FALSE
  BY <1>2, OpenFileFits DEF ReadEnds, TypeOK
<1>. QED BY <1>1, <1>2 DEF RefuseLong, StopAtBudget

LEMMA InitCalm == Init => CalmInv
<1>. SUFFICES ASSUME Init PROVE CalmWalk /\ CalmReading
  BY DEF CalmInv
<1>1. Cardinality(BytesOf({})) = 0
  BY BytesOfNone, FS_EmptySet
<1>2. Examined = {}
  BY DEF Init, Examined
<1>3. Cardinality(Examined) = 0
  BY <1>2, FS_EmptySet
<1>4. CalmCollection
  BY <1>1 DEF Init, CalmCollection
<1>5. CalmStack /\ CalmListing
  BY DEF Init, CalmStack, CalmListing
<1>6. CalmReading
  BY <1>1 DEF Init, CalmReading, Counted
<1>. QED BY <1>3, <1>4, <1>5, <1>6 DEF Init, CalmWalk

LEMMA NextCalm == TypeOK /\ FilesInv /\ CalmInv /\ [Next]_vars => CalmInv'
<1>. SUFFICES ASSUME TypeOK, FilesInv, CalmInv, [Next]_vars, Calm'
              PROVE  CalmWalk' /\ CalmReading'
  BY DEF CalmInv
<1>1. /\ Calm /\ UNCHANGED <<node, inputs, steady>> /\ disturbed' = disturbed
      /\ CalmWalk /\ CalmReading /\ CalmCollection
  BY CalmBefore DEF CalmInv, CalmWalk
<1>2. CASE ProcessInput \/ BeginDirectory \/ ScanEntry \/ EndDirectory
  BY <1>1, <1>2, ProcessInputCalm, BeginDirectoryCalm, ScanEntryCalm, EndDirectoryCalm,
     WalkCalmReading
<1>3. CASE EndDiscovery \/ OpenFile \/ ReadSome \/ ValidateFile \/ Finish
  <2>1. UNCHANGED <<collection, walk, nextInput>>
    BY <1>3 DEF EndDiscovery, OpenFile, ReadSome, ValidateFile, Finish
  <2>2. Examined' = Examined
    BY <1>1, <2>1, SameFiles DEF Examined, IsPending, walk
  <2>3. CalmListing'
    BY <1>1, <2>1, SameListing DEF CalmWalk
  <2>4. CalmWalk'
    BY <1>1, <2>1, <2>2, <2>3, SameCollection, SameStack DEF CalmWalk, walk
  <2>. QED BY <1>1, <1>3, <2>4, EndDiscoveryCalm, OpenFileCalm, ReadSomeCalm,
              ValidateFileCalm, FinishCalm
<1>4. CASE RefuseLong \/ StopAtBudget
  BY <1>1, <1>4, FileSteps
<1>5. CASE ReadFails
  BY <1>1, <1>5 DEF ReadFails, Calm
<1>6. CASE \E f \in Files : Change(f)
  BY <1>1, <1>6 DEF Change, Calm
<1>7. CASE UNCHANGED vars
  <2>1. UNCHANGED <<collection, walk, nextInput, reader, verdict, phase>>
    BY <1>7 DEF vars
  <2>2. Examined' = Examined
    BY <1>1, <2>1, SameFiles DEF Examined, IsPending, walk
  <2>3. CalmListing'
    BY <1>1, <2>1, SameListing DEF CalmWalk
  <2>4. CalmWalk'
    BY <1>1, <2>1, <2>2, <2>3, SameCollection, SameStack DEF CalmWalk, walk
  <2>5. Counted' = Counted /\ totalBytesRead' = totalBytesRead
    BY <2>1 DEF Counted, reader, verdict
  <2>6. totalBytesRead' <= Cardinality(BytesOf(Counted))'
    BY <1>1, <2>5, SameBytesRead DEF CalmReading, Counted
  <2>. QED BY <1>1, <2>1, <2>4, <2>6 DEF CalmReading, Counted, reader, verdict, collection
<1>. QED BY <1>2, <1>3, <1>4, <1>5, <1>6, <1>7 DEF Next, Command

\* As long as all is calm, discovery and reading of the validator command have
\* reported nothing and stay within every limit.
THEOREM CalmInvariant == Spec => []CalmInv
<1>1. TypeOK /\ FilesInv /\ CalmInv /\ [Next]_vars => CalmInv'
  BY NextCalm
<1>. QED BY <1>1, InitCalm, FilesInvariant, PTL DEF Spec

\* No false alarm: the command succeeds on valid presets within the documented
\* limits, in whatever order directories list them and whatever is named twice.
THEOREM OrderlyPresetsPass == Spec => []NoFalseAlarm
<1>1. ASSUME TypeOK, FilesInv, CalmInv, phase = "done", Calm
      PROVE  exitCode = IF Presets = {} THEN 2 ELSE 0
  <2>1. files \subseteq Presets /\ errors = {} /\ exitCode = IF files = {} THEN 2 ELSE 0
    BY <1>1 DEF CalmInv, CalmWalk, CalmCollection, CalmReading
  <2>2. Candidates \intersect {f \in steady : node[f].kind # "absent"} \subseteq files
    BY <1>1, <2>1, WalkIsComplete
  <2>3. Presets \subseteq files
    BY <1>1, <2>2 DEF Presets, Calm, Candidates, InputFiles
  <2>. QED BY <2>1, <2>3
<1>2. TypeOK /\ FilesInv /\ CalmInv => NoFalseAlarm
  BY <1>1 DEF NoFalseAlarm, Calm
<1>. QED BY <1>2, FilesInvariant, CalmInvariant, PTL

----------------------------------------------------------------------------
(* The command ends: what its steps use up *)

\* What is listed is in a directory that is known and waits no longer.
ListingInv ==
    /\ \A i \in DOMAIN pendingDirectories :
          pendingDirectories[i].directory \in knownDirectories
    /\ \A i, j \in DOMAIN pendingDirectories :
          pendingDirectories[i].directory = pendingDirectories[j].directory => i = j
    /\ \A x \in unlisted : Parent[x] \in knownDirectories /\ ~IsPending(Parent[x])

\* The entries that the walk may still come upon.
Ahead ==
    {x \in Files \union Directories :
        \/ Parent[x] \notin knownDirectories \/ IsPending(Parent[x]) \/ x \in unlisted}

Flag(condition) == IF condition THEN 1 ELSE 0

WalkLeft ==
    (Len(inputs) + 1 - nextInput)
    + 3 * Cardinality(Directories \ knownDirectories) + 2 * Len(pendingDirectories)
    + Flag(current # Nowhere) + Cardinality(Ahead)

ReadingLeft ==
    (MaxFileBytes + 3) * Cardinality(Files \ tried)
    + (IF phase = "open" THEN MaxFileBytes + 2 - bytes ELSE 0)
    + (IF phase = "done" THEN 0 ELSE IF phase = "inputs" THEN 2 ELSE 1)

\* The steps the command may take at most.
StepsLeft == WalkLeft + ReadingLeft

LEMMA InitListing == Init => ListingInv
BY DEF Init, ListingInv

\* A directory that is new is pushed, and becomes known.
LEMMA AppendDirectoryListing ==
    ASSUME TypeOK, ListingInv,
           NEW d \in Directories, NEW depth \in 0 .. MaxDepth, appendDirectory(d, depth)
    PROVE  /\ \A i \in DOMAIN pendingDirectories' :
                 pendingDirectories'[i].directory \in knownDirectories'
           /\ \A i, j \in DOMAIN pendingDirectories' :
                 pendingDirectories'[i].directory = pendingDirectories'[j].directory => i = j
           /\ \A e : IsPending(e)' => IsPending(e) \/ (e = d /\ d \notin knownDirectories)
           /\ knownDirectories' = knownDirectories \union {d}
           /\ Len(pendingDirectories') = IF d \in knownDirectories THEN Len(pendingDirectories)
                                         ELSE Len(pendingDirectories) + 1
<1>. DEFINE new == [directory |-> d, depth |-> depth]
<1>1. pendingDirectories \in Seq(Pending) /\ new \in Pending /\ new.directory = d
  BY DEF TypeOK, Pending
<1>2. knownDirectories' = knownDirectories \union {d}
  BY DEF appendDirectory
<1>3. CASE d \in knownDirectories
  <2>1. pendingDirectories' = pendingDirectories
    BY <1>3 DEF appendDirectory
  <2>. QED BY <1>2, <1>3, <2>1 DEF ListingInv, IsPending
<1>4. CASE d \notin knownDirectories
  <2>1. pendingDirectories' = Append(pendingDirectories, new)
    BY <1>4 DEF appendDirectory
  <2>. DEFINE top == Len(pendingDirectories) + 1
  <2>2. /\ DOMAIN pendingDirectories' = DOMAIN pendingDirectories \union {top}
        /\ Len(pendingDirectories') = top
        /\ \A i \in DOMAIN pendingDirectories : pendingDirectories'[i] = pendingDirectories[i]
        /\ pendingDirectories'[top] = new
    <3>1. /\ DOMAIN pendingDirectories' = 1 .. Len(pendingDirectories) + 1
          /\ DOMAIN pendingDirectories = 1 .. Len(pendingDirectories)
          /\ Len(pendingDirectories) \in Nat
          /\ Len(pendingDirectories') = Len(pendingDirectories) + 1
          /\ \A i \in DOMAIN pendingDirectories : pendingDirectories'[i] = pendingDirectories[i]
          /\ pendingDirectories'[Len(pendingDirectories) + 1] = new
      BY <1>1, <2>1, AppendProperties, LenProperties
    <3>. QED BY <3>1
  <2>0. Len(pendingDirectories') = Len(pendingDirectories) + 1
    BY <2>2
  <2>. HIDE DEF top, new
  <2>3. \A i \in DOMAIN pendingDirectories' :
           pendingDirectories'[i].directory \in knownDirectories'
    BY <1>1, <1>2, <2>2 DEF ListingInv
  <2>4. \A i, j \in DOMAIN pendingDirectories' :
           pendingDirectories'[i].directory = pendingDirectories'[j].directory => i = j
    BY <1>1, <1>4, <2>2 DEF ListingInv
  <2>5. \A e : IsPending(e)' => IsPending(e) \/ (e = d /\ d \notin knownDirectories)
    BY <1>1, <1>4, <2>2 DEF IsPending
  <2>. QED BY <1>2, <1>4, <2>0, <2>3, <2>4, <2>5
<1>. QED BY <1>3, <1>4

\* The directory that is begun leaves the stack.
LEMMA BeginDirectoryStack ==
    ASSUME TypeOK, ListingInv, BeginDirectory
    PROVE  LET entry == pendingDirectories[Len(pendingDirectories)]
           IN  /\ Len(pendingDirectories') = Len(pendingDirectories) - 1
               /\ DOMAIN pendingDirectories' \subseteq DOMAIN pendingDirectories
               /\ \A i \in DOMAIN pendingDirectories' :
                     pendingDirectories'[i] = pendingDirectories[i]
               /\ \A e : IsPending(e)' => IsPending(e)
               /\ \A e : e = entry.directory => ~IsPending(e)' /\ IsPending(e)
               /\ entry.directory \in knownDirectories
               /\ entry \in Pending
<1>. DEFINE last == Len(pendingDirectories)
            entry == pendingDirectories[last]
<1>1. pendingDirectories \in Seq(Pending) /\ last \in Nat \ {0}
  BY EmptySeq, LenProperties DEF BeginDirectory, TypeOK, Pending
<1>2. pendingDirectories' = SubSeq(pendingDirectories, 1, last - 1)
  BY DEF BeginDirectory
<1>3. /\ DOMAIN pendingDirectories = 1 .. last
      /\ DOMAIN pendingDirectories' = 1 .. last - 1
      /\ \A i \in 1 .. last - 1 : pendingDirectories'[i] = pendingDirectories[i]
  BY <1>1, <1>2, LenProperties
<1>10. Len(pendingDirectories') = last - 1
  <2>. HIDE DEF last
  <2>. QED BY <1>1, <1>2
<1>4. /\ entry \in Pending /\ entry.directory \in knownDirectories
      /\ last \in DOMAIN pendingDirectories
  BY <1>1, <1>3, ElementOfSeq DEF ListingInv
<1>5. \A i \in 1 .. last - 1 : pendingDirectories[i].directory # entry.directory
  BY <1>1, <1>3, <1>4 DEF ListingInv
<1>. HIDE DEF entry
<1>6. last \in 1 .. last /\ \A i \in 1 .. last - 1 : i \in 1 .. last
  BY <1>1
<1>7. \A e : IsPending(e)' => IsPending(e)
  BY <1>3, <1>6 DEF IsPending
<1>8. \A e : e = entry.directory => ~IsPending(e)'
  BY <1>3, <1>5 DEF IsPending
<1>9. \A e : e = entry.directory => IsPending(e)
  BY <1>3, <1>6 DEF IsPending, entry
<1>. QED BY <1>3, <1>4, <1>6, <1>7, <1>8, <1>9, <1>10 DEF entry

LEMMA NextListing == TypeOK /\ ListingInv /\ [Next]_vars => ListingInv'
<1>. SUFFICES ASSUME TypeOK, ListingInv, [Next]_vars PROVE ListingInv'
  OBVIOUS
<1>1. ASSUME UNCHANGED <<pendingDirectories, knownDirectories>>, unlisted' \subseteq unlisted
      PROVE  ListingInv'
  <2>1. \A e : IsPending(e)' <=> IsPending(e)
    BY <1>1 DEF IsPending
  <2>. QED BY <1>1, <2>1 DEF ListingInv
<1>2. ASSUME NEW d \in Directories, NEW depth \in 0 .. MaxDepth, appendDirectory(d, depth),
             unlisted' \subseteq unlisted
      PROVE  ListingInv'
  <2>1. /\ \A i \in DOMAIN pendingDirectories' :
              pendingDirectories'[i].directory \in knownDirectories'
        /\ \A i, j \in DOMAIN pendingDirectories' :
              pendingDirectories'[i].directory = pendingDirectories'[j].directory => i = j
        /\ \A e : IsPending(e)' => IsPending(e) \/ (e = d /\ d \notin knownDirectories)
        /\ knownDirectories' = knownDirectories \union {d}
    BY <1>2, AppendDirectoryListing
  <2>2. \A x \in unlisted' : Parent[x] \in knownDirectories' /\ ~IsPending(Parent[x])'
    BY <1>2, <2>1 DEF ListingInv
  <2>. QED BY <2>1, <2>2 DEF ListingInv
<1>3. CASE ProcessInput
  <2>1. /\ unlisted' = unlisted
        /\ \/ UNCHANGED <<pendingDirectories, knownDirectories>>
           \/ inputs[nextInput] \in Directories /\ appendDirectory(inputs[nextInput], 0)
    BY <1>3 DEF ProcessInput
  <2>2. 0 \in 0 .. MaxDepth
    OBVIOUS
  <2>. QED BY <1>1, <1>2, <2>1, <2>2
<1>4. CASE BeginDirectory
  <2>. DEFINE entry == pendingDirectories[Len(pendingDirectories)]
  <2>1. /\ DOMAIN pendingDirectories' \subseteq DOMAIN pendingDirectories
        /\ \A i \in DOMAIN pendingDirectories' :
              pendingDirectories'[i] = pendingDirectories[i]
        /\ \A e : IsPending(e)' => IsPending(e)
        /\ \A e : e = entry.directory => ~IsPending(e)' /\ IsPending(e)
        /\ entry.directory \in knownDirectories
    BY <1>4, BeginDirectoryStack
  <2>2. knownDirectories' = knownDirectories /\ unlisted' = ChildrenOf(entry.directory)
    BY <1>4 DEF BeginDirectory
  <2>. HIDE DEF entry
  <2>3. \A x \in unlisted' : Parent[x] \in knownDirectories' /\ ~IsPending(Parent[x])'
    BY <2>1, <2>2 DEF ChildrenOf
  <2>4. /\ \A i \in DOMAIN pendingDirectories' :
              pendingDirectories'[i].directory \in knownDirectories'
        /\ \A i, j \in DOMAIN pendingDirectories' :
              pendingDirectories'[i].directory = pendingDirectories'[j].directory => i = j
    BY <2>1, <2>2 DEF ListingInv
  <2>. QED BY <2>3, <2>4 DEF ListingInv
<1>5. CASE ScanEntry
  <2>1. PICK x \in unlisted : /\ unlisted' = unlisted \ {x}
                              /\ ScanTooMany(x) \/ ScanDirectory(x) \/ ScanFile(x)
    BY <1>5 DEF ScanEntry
  <2>2. \/ UNCHANGED <<pendingDirectories, knownDirectories>>
        \/ x \in Directories /\ current.depth < MaxDepth /\ appendDirectory(x, current.depth + 1)
    BY <2>1 DEF ScanTooMany, ScanDirectory, ScanFile, TypeOK
  <2>3. current.depth < MaxDepth => current.depth + 1 \in 0 .. MaxDepth
    BY DEF TypeOK
  <2>. QED BY <1>1, <1>2, <2>1, <2>2, <2>3
<1>6. CASE EndDirectory
  BY <1>1, <1>6 DEF EndDirectory
<1>7. CASE \/ EndDiscovery \/ OpenFile \/ ReadSome \/ ReadFails \/ RefuseLong
           \/ StopAtBudget \/ ValidateFile \/ Finish
  BY <1>1, <1>7 DEF EndDiscovery, OpenFile, ReadSome, ReadFails, RefuseLong, StopAtBudget,
                    ValidateFile, Finish, walk
<1>8. CASE \E f \in Files : Change(f)
  BY <1>1, <1>8 DEF Change, walk
<1>9. CASE UNCHANGED vars
  BY <1>1, <1>9 DEF vars, walk
<1>. QED BY <1>3, <1>4, <1>5, <1>6, <1>7, <1>8, <1>9 DEF Next, Command

WalkTyped ==
    /\ Len(inputs) + 1 - nextInput \in Nat /\ Len(inputs) \in Nat /\ nextInput \in Nat
    /\ IsFiniteSet(Directories \ knownDirectories)
    /\ Cardinality(Directories \ knownDirectories) \in Nat
    /\ Len(pendingDirectories) \in Nat
    /\ IsFiniteSet(Ahead) /\ Cardinality(Ahead) \in Nat
    /\ Flag(current # Nowhere) \in {0, 1}
    /\ WalkLeft \in Nat

ReadingTyped ==
    /\ IsFiniteSet(Files \ tried) /\ Cardinality(Files \ tried) \in Nat
    /\ (MaxFileBytes + 3) * Cardinality(Files \ tried) \in Nat
    /\ (IF phase = "open" THEN MaxFileBytes + 2 - bytes ELSE 0) \in Nat
    /\ ReadingLeft \in Nat

\* The parts of WalkLeft are natural numbers.
LEMMA WalkLeftType == TypeOK => WalkTyped
<1>. SUFFICES ASSUME TypeOK PROVE WalkTyped
  OBVIOUS
<1>1. Len(inputs) \in Nat /\ nextInput \in 1 .. Len(inputs) + 1
  BY LenProperties DEF TypeOK
<1>2. IsFiniteSet(Directories \ knownDirectories) /\ IsFiniteSet(Files \union Directories)
  BY FS_Subset, FS_Union
<1>3. IsFiniteSet(Ahead)
  BY <1>2, FS_Subset DEF Ahead
<1>4. Len(pendingDirectories) \in Nat
  BY LenProperties DEF TypeOK
<1>5. Flag(current # Nowhere) \in {0, 1}
  BY DEF Flag
<1>6. Cardinality(Directories \ knownDirectories) \in Nat /\ Cardinality(Ahead) \in Nat
  BY <1>2, <1>3, FS_CardinalityType
<1>. QED BY <1>1, <1>2, <1>3, <1>4, <1>5, <1>6 DEF WalkLeft, WalkTyped

\* So are those of ReadingLeft.
LEMMA ReadingLeftType == TypeOK /\ BytesBounded => ReadingTyped
<1>. SUFFICES ASSUME TypeOK, BytesBounded PROVE ReadingTyped
  OBVIOUS
<1>1. IsFiniteSet(Files \ tried)
  BY FS_Subset
<1>2. Cardinality(Files \ tried) \in Nat
  BY <1>1, FS_CardinalityType
<1>. DEFINE n == Cardinality(Files \ tried)
            K == MaxFileBytes + 3
<1>3. K \in Nat
  OBVIOUS
<1>4. K * n \in Nat
  <2>. HIDE DEF n, K
  <2>1. n \in Nat
    BY <1>2 DEF n
  <2>. QED BY <1>3, <2>1
<1>5. (IF phase = "open" THEN MaxFileBytes + 2 - bytes ELSE 0) \in Nat
  BY DEF TypeOK, BytesBounded
<1>6. (IF phase = "done" THEN 0 ELSE IF phase = "inputs" THEN 2 ELSE 1) \in Nat
  OBVIOUS
<1>7. ReadingLeft \in Nat
  <2>. HIDE DEF n, K
  <2>1. ReadingLeft = K * n + (IF phase = "open" THEN MaxFileBytes + 2 - bytes ELSE 0)
          + (IF phase = "done" THEN 0 ELSE IF phase = "inputs" THEN 2 ELSE 1)
    BY DEF ReadingLeft, K, n
  <2>. DEFINE o == IF phase = "open" THEN MaxFileBytes + 2 - bytes ELSE 0
              r == IF phase = "done" THEN 0 ELSE IF phase = "inputs" THEN 2 ELSE 1
              k == K * n
  <2>2. ReadingLeft = k + o + r /\ k \in Nat /\ o \in Nat /\ r \in Nat
    BY <1>4, <1>5, <1>6, <2>1
  <2>. HIDE DEF o, r, k
  <2>. QED BY <2>2
<1>. QED BY <1>1, <1>2, <1>4, <1>5, <1>7 DEF n, K, ReadingTyped

\* Both after a step.
LEMMA WalkLeftTypeNext == TypeOK' => WalkTyped'
BY WalkLeftType, PTL

LEMMA ReadingLeftTypeNext == TypeOK' /\ BytesBounded' => ReadingTyped'
BY ReadingLeftType, PTL

\* Fewer entries are ahead, or the same.
LEMMA AheadShrinks ==
    ASSUME TypeOK, Ahead' \subseteq Ahead PROVE Cardinality(Ahead') <= Cardinality(Ahead)
BY WalkLeftType, FS_Subset DEF WalkTyped

\* The walk has used up nothing when it stood still.
LEMMA SameWalkLeft ==
    ASSUME UNCHANGED <<inputs, nextInput, walk>> PROVE WalkLeft' = WalkLeft
<1>1. UNCHANGED <<pendingDirectories, current, knownDirectories, unlisted>>
  BY DEF walk
<1>2. Ahead' = Ahead
  BY <1>1 DEF Ahead, IsPending
<1>. QED BY <1>1, <1>2 DEF WalkLeft, Flag

\* A new directory has two steps on the stack for the three it had unknown.
LEMMA AppendDirectoryLeft ==
    ASSUME TypeOK, TypeOK', ListingInv, NEW d \in Directories, NEW depth \in 0 .. MaxDepth,
           appendDirectory(d, depth), unlisted' \subseteq unlisted
    PROVE  /\ Ahead' \subseteq Ahead
           /\ \A x \in unlisted : x \notin unlisted' => x \notin Ahead'
           /\ 3 * Cardinality(Directories \ knownDirectories') + 2 * Len(pendingDirectories')
                 <= 3 * Cardinality(Directories \ knownDirectories) + 2 * Len(pendingDirectories)
<1>1. /\ \A e : IsPending(e)' => IsPending(e) \/ (e = d /\ d \notin knownDirectories)
      /\ knownDirectories' = knownDirectories \union {d}
      /\ Len(pendingDirectories') = IF d \in knownDirectories THEN Len(pendingDirectories)
                                    ELSE Len(pendingDirectories) + 1
  BY AppendDirectoryListing
<1>2. Ahead' \subseteq Ahead
  BY <1>1 DEF Ahead
<1>3. \A x \in unlisted : x \notin unlisted' => x \notin Ahead'
  BY <1>1 DEF Ahead, ListingInv
<1>4. Cardinality(Directories \ knownDirectories') =
         IF d \in knownDirectories THEN Cardinality(Directories \ knownDirectories)
         ELSE Cardinality(Directories \ knownDirectories) - 1
  <2>1. CASE d \in knownDirectories
    <3>1. knownDirectories' = knownDirectories
      BY <1>1, <2>1
    <3>. QED BY <2>1, <3>1
  <2>2. CASE d \notin knownDirectories
    <3>1. Directories \ knownDirectories' = (Directories \ knownDirectories) \ {d}
      BY <1>1
    <3>2. d \in Directories \ knownDirectories /\ IsFiniteSet(Directories \ knownDirectories)
      BY <2>2, WalkLeftType DEF WalkTyped
    <3>. DEFINE rest == Directories \ knownDirectories
    <3>3. Cardinality(rest \ {d}) = Cardinality(rest) - 1
      <4>1. d \in rest /\ IsFiniteSet(rest)
        BY <3>2
      <4>. HIDE DEF rest
      <4>2. Cardinality(rest \ {d}) = IF d \in rest THEN Cardinality(rest) - 1 ELSE Cardinality(rest)
        BY <4>1, FS_RemoveElement
      <4>. QED BY <4>1, <4>2
    <3>. QED BY <2>2, <3>1, <3>3
  <2>. QED BY <2>1, <2>2
<1>5. /\ Cardinality(Directories \ knownDirectories) \in Nat
      /\ Len(pendingDirectories) \in Nat
  BY WalkLeftType DEF WalkTyped
<1>. QED BY <1>1, <1>2, <1>3, <1>4, <1>5

\* Every step of the walk uses up a step: an input, a directory that was unknown
\* or waited, the end of one, or an entry ahead.
LEMMA WalkUsesUp ==
    ASSUME TypeOK, TypeOK', ListingInv,
           ProcessInput \/ BeginDirectory \/ ScanEntry \/ EndDirectory
    PROVE  WalkLeft' < WalkLeft
<1>. DEFINE I  == Len(inputs) + 1 - nextInput
            D  == Cardinality(Directories \ knownDirectories)
            P  == Len(pendingDirectories)
            C  == Flag(current # Nowhere)
            A  == Cardinality(Ahead)
            I1 == Len(inputs') + 1 - nextInput'
            D1 == Cardinality(Directories \ knownDirectories')
            P1 == Len(pendingDirectories')
            C1 == Flag(current # Nowhere)'
            A1 == Cardinality(Ahead')
<1>1. I \in Nat /\ D \in Nat /\ P \in Nat /\ C \in {0, 1} /\ A \in Nat
  BY WalkLeftType DEF WalkTyped
<1>2. I1 \in Nat /\ D1 \in Nat /\ P1 \in Nat /\ C1 \in {0, 1} /\ A1 \in Nat
  BY WalkLeftTypeNext DEF WalkTyped
<1>3. WalkLeft = I + 3 * D + 2 * P + C + A /\ WalkLeft' = I1 + 3 * D1 + 2 * P1 + C1 + A1
  BY DEF WalkLeft
<1>4. CASE ProcessInput
  <2>1. /\ inputs' = inputs /\ nextInput' = nextInput + 1
        /\ UNCHANGED <<current, unlisted>>
        /\ \/ UNCHANGED <<pendingDirectories, knownDirectories>>
           \/ inputs[nextInput] \in Directories /\ appendDirectory(inputs[nextInput], 0)
    BY <1>4 DEF ProcessInput
  <2>2. I1 = I - 1
    BY <2>1, WalkLeftType DEF WalkTyped
  <2>3. C1 = C
    BY <2>1 DEF Flag
  <2>4. 3 * D1 + 2 * P1 <= 3 * D + 2 * P /\ Ahead' \subseteq Ahead
    <3>1. CASE UNCHANGED <<pendingDirectories, knownDirectories>>
      <4>1. Ahead' = Ahead
        BY <2>1, <3>1 DEF Ahead, IsPending
      <4>. QED BY <1>1, <3>1, <4>1
    <3>2. CASE inputs[nextInput] \in Directories /\ appendDirectory(inputs[nextInput], 0)
      <4>1. 0 \in 0 .. MaxDepth
        OBVIOUS
      <4>. QED BY <2>1, <3>2, <4>1, AppendDirectoryLeft
    <3>. QED BY <2>1, <3>1, <3>2
  <2>5. A1 <= A
    BY <2>4, AheadShrinks
  <2>. HIDE DEF I, D, P, C, A, I1, D1, P1, C1, A1
  <2>. QED BY <1>1, <1>2, <1>3, <2>2, <2>3, <2>4, <2>5
<1>5. CASE BeginDirectory
  <2>. DEFINE entry == pendingDirectories[Len(pendingDirectories)]
  <2>1. /\ Len(pendingDirectories') = Len(pendingDirectories) - 1
        /\ \A e : IsPending(e)' => IsPending(e)
        /\ \A e : e = entry.directory => ~IsPending(e)' /\ IsPending(e)
    BY <1>5, BeginDirectoryStack
  <2>2. /\ UNCHANGED <<inputs, nextInput, knownDirectories>> /\ current = Nowhere
        /\ unlisted' = ChildrenOf(entry.directory)
    BY <1>5 DEF BeginDirectory
  <2>. HIDE DEF entry
  <2>3. Ahead' \subseteq Ahead
    BY <2>1, <2>2 DEF Ahead, ChildrenOf
  <2>4. A1 <= A
    BY <2>3, AheadShrinks
  <2>5. I1 = I /\ D1 = D /\ P1 = P - 1 /\ C = 0
    BY <2>1, <2>2 DEF Flag
  <2>. HIDE DEF I, D, P, C, A, I1, D1, P1, C1, A1
  <2>. QED BY <1>1, <1>2, <1>3, <2>4, <2>5
<1>6. CASE ScanEntry
  <2>1. PICK x \in unlisted : /\ unlisted' = unlisted \ {x}
                              /\ ScanTooMany(x) \/ ScanDirectory(x) \/ ScanFile(x)
    BY <1>6 DEF ScanEntry
  <2>2. UNCHANGED <<inputs, nextInput, current>>
    BY <1>6 DEF ScanEntry
  <2>3. \/ UNCHANGED <<pendingDirectories, knownDirectories>>
        \/ x \in Directories /\ current.depth < MaxDepth /\ appendDirectory(x, current.depth + 1)
    BY <2>1 DEF ScanTooMany, ScanDirectory, ScanFile, TypeOK
  <2>4. /\ 3 * D1 + 2 * P1 <= 3 * D + 2 * P
        /\ Ahead' \subseteq Ahead /\ x \notin Ahead'
    <3>1. CASE UNCHANGED <<pendingDirectories, knownDirectories>>
      <4>1. \A e : IsPending(e)' <=> IsPending(e)
        BY <3>1 DEF IsPending
      <4>2. Ahead' \subseteq Ahead /\ x \notin Ahead'
        BY <2>1, <3>1, <4>1 DEF Ahead, ListingInv
      <4>. QED BY <1>1, <3>1, <4>2
    <3>2. CASE x \in Directories /\ current.depth < MaxDepth /\ appendDirectory(x, current.depth + 1)
      <4>1. current.depth + 1 \in 0 .. MaxDepth
        BY <3>2 DEF TypeOK
      <4>2. unlisted' \subseteq unlisted /\ x \notin unlisted'
        BY <2>1
      <4>. QED BY <3>2, <4>1, <4>2, AppendDirectoryLeft
    <3>. QED BY <2>3, <3>1, <3>2
  <2>5. A1 <= A - 1
    <3>1. x \in Ahead /\ IsFiniteSet(Ahead)
      BY WalkLeftType DEF Ahead, TypeOK, WalkTyped
    <3>2. Cardinality(Ahead \ {x}) = Cardinality(Ahead) - 1 /\ IsFiniteSet(Ahead \ {x})
      BY <3>1, FS_RemoveElement
    <3>3. Ahead' \subseteq Ahead \ {x}
      BY <2>4
    <3>4. Cardinality(Ahead') <= Cardinality(Ahead \ {x})
      BY <3>2, <3>3, FS_Subset
    <3>. QED BY <3>2, <3>4
  <2>6. I1 = I /\ C1 = C
    BY <2>2 DEF Flag
  <2>. HIDE DEF I, D, P, C, A, I1, D1, P1, C1, A1
  <2>. QED BY <1>1, <1>2, <1>3, <2>4, <2>5, <2>6
<1>7. CASE EndDirectory
  <2>1. /\ UNCHANGED <<inputs, nextInput, pendingDirectories, knownDirectories>>
        /\ current # Nowhere /\ current' = Nowhere /\ unlisted' = {}
    BY <1>7 DEF EndDirectory
  <2>2. Ahead' \subseteq Ahead
    BY <2>1 DEF Ahead, IsPending
  <2>3. A1 <= A
    BY <2>2, AheadShrinks
  <2>4. I1 = I /\ D1 = D /\ P1 = P /\ C = 1 /\ C1 = 0
    BY <2>1 DEF Flag
  <2>. HIDE DEF I, D, P, C, A, I1, D1, P1, C1, A1
  <2>. QED BY <1>1, <1>2, <1>3, <2>3, <2>4
<1>. QED BY <1>4, <1>5, <1>6, <1>7

\* Nor has the reading.
LEMMA SameReadingLeft ==
    ASSUME UNCHANGED <<phase, tried, bytes>> PROVE ReadingLeft' = ReadingLeft
BY DEF ReadingLeft

\* Every step of the reading uses up a step: a file, a byte of the open one, or a
\* phase of the command.
LEMMA ReadingUsesUp ==
    ASSUME TypeOK, TypeOK', BytesBounded, BytesBounded',
           \/ EndDiscovery \/ OpenFile \/ ReadSome \/ ReadFails \/ RefuseLong
           \/ StopAtBudget \/ ValidateFile \/ Finish
    PROVE  ReadingLeft' < ReadingLeft
<1>. DEFINE F  == (MaxFileBytes + 3) * Cardinality(Files \ tried)
            O  == IF phase = "open" THEN MaxFileBytes + 2 - bytes ELSE 0
            R  == IF phase = "done" THEN 0 ELSE IF phase = "inputs" THEN 2 ELSE 1
            F1 == (MaxFileBytes + 3) * Cardinality(Files \ tried')
            O1 == IF phase' = "open" THEN MaxFileBytes + 2 - bytes' ELSE 0
            R1 == IF phase' = "done" THEN 0 ELSE IF phase' = "inputs" THEN 2 ELSE 1
<1>1. ReadingLeft = F + O + R /\ ReadingLeft' = F1 + O1 + R1
  BY DEF ReadingLeft
<1>2. F \in Nat /\ O \in Nat /\ R \in {0, 1, 2} /\ (phase = "open" => O >= 1)
  <2>1. F \in Nat /\ O \in Nat
    BY ReadingLeftType DEF ReadingTyped
  <2>2. phase = "open" => O >= 1
    BY DEF TypeOK, BytesBounded
  <2>3. R \in {0, 1, 2}
    OBVIOUS
  <2>. QED BY <2>1, <2>2, <2>3
<1>3. F1 \in Nat /\ O1 \in Nat /\ R1 \in {0, 1, 2}
  <2>1. F1 \in Nat /\ O1 \in Nat
    BY ReadingLeftTypeNext DEF ReadingTyped
  <2>3. R1 \in {0, 1, 2}
    OBVIOUS
  <2>. QED BY <2>1, <2>3
<1>4. CASE EndDiscovery
  <2>1. phase = "inputs" /\ phase' \in {"reading", "done"} /\ tried' = tried
    BY <1>4 DEF EndDiscovery, Exit, reader
  <2>2. F1 = F /\ O1 = 0 /\ R = 2 /\ R1 <= 1
    BY <2>1
  <2>. HIDE DEF F, O, R, F1, O1, R1
  <2>. QED BY <1>1, <1>2, <1>3, <2>2
<1>5. CASE OpenFile
  <2>1. PICK f \in files : /\ f \notin tried /\ tried' = tried \union {f}
                           /\ phase' \in {"open", "reading"}
    BY <1>5 DEF OpenFile, IsNext, Refuse
  <2>2. phase = "reading" /\ bytes' = 0
    BY <1>5 DEF OpenFile
  <2>. DEFINE n  == Cardinality(Files \ tried)
              n1 == Cardinality(Files \ tried')
              K  == MaxFileBytes + 3
  <2>3. n \in Nat /\ n1 = n - 1
    <3>1. f \in Files \ tried /\ IsFiniteSet(Files \ tried)
      BY <2>1, ReadingLeftType DEF TypeOK, ReadingTyped
    <3>2. Files \ tried' = (Files \ tried) \ {f}
      BY <2>1
    <3>3. Cardinality(Files \ tried) \in Nat
      BY ReadingLeftType DEF ReadingTyped
    <3>. DEFINE rest == Files \ tried
    <3>4. Cardinality(rest \ {f}) = Cardinality(rest) - 1
      <4>1. f \in rest /\ IsFiniteSet(rest)
        BY <3>1
      <4>. HIDE DEF rest
      <4>2. Cardinality(rest \ {f}) = IF f \in rest THEN Cardinality(rest) - 1 ELSE Cardinality(rest)
        BY <4>1, FS_RemoveElement
      <4>. QED BY <4>1, <4>2
    <3>. QED BY <3>2, <3>3, <3>4
  <2>4. K \in Nat /\ F = K * n /\ F1 = K * n1
    OBVIOUS
  <2>5. O = 0 /\ O1 <= K - 1 /\ R = 1 /\ R1 = 1
    BY <2>1, <2>2
  <2>. HIDE DEF F, O, R, F1, O1, R1, n, n1, K
  <2>6. K * (n - 1) = K * n - K
    BY <2>3, <2>4
  <2>. QED BY <1>1, <1>2, <1>3, <2>3, <2>4, <2>5, <2>6
<1>6. CASE ReadSome
  <2>1. phase = "open" /\ phase' = "open" /\ tried' = tried /\ bytes' > bytes
    BY <1>6 DEF ReadSome, TypeOK
  <2>3. O1 < O
    <3>. DEFINE b == bytes
                b1 == bytes'
    <3>1. b \in Nat /\ b1 \in Nat /\ b1 > b
      BY <2>1 DEF TypeOK
    <3>2. O = MaxFileBytes + 2 - b /\ O1 = MaxFileBytes + 2 - b1
      BY <2>1
    <3>. HIDE DEF b, b1, O, O1
    <3>. QED BY <3>1, <3>2
  <2>2. F1 = F /\ O1 < O /\ R1 = R
    BY <2>1, <2>3
  <2>. HIDE DEF F, O, R, F1, O1, R1
  <2>. QED BY <1>1, <1>2, <1>3, <2>2
<1>7. CASE ReadFails \/ RefuseLong \/ StopAtBudget \/ ValidateFile
  <2>1. phase = "open" /\ phase' \in {"reading", "done"} /\ tried' = tried
    BY <1>7 DEF ReadFails, RefuseLong, StopAtBudget, ValidateFile, ReadEnds, Refuse, Exit, reader
  <2>2. F1 = F /\ O1 = 0 /\ R = 1 /\ R1 <= 1
    BY <2>1
  <2>. HIDE DEF F, O, R, F1, O1, R1
  <2>. QED BY <1>1, <1>2, <1>3, <2>1, <2>2
<1>8. CASE Finish
  <2>1. phase = "reading" /\ phase' = "done" /\ tried' = tried
    BY <1>8 DEF Finish, Exit, reader
  <2>2. F1 = F /\ O1 = 0 /\ O = 0 /\ R = 1 /\ R1 = 0
    BY <2>1
  <2>. HIDE DEF F, O, R, F1, O1, R1
  <2>. QED BY <1>1, <1>2, <1>3, <2>2
<1>. QED BY <1>4, <1>5, <1>6, <1>7, <1>8

\* ListingInv holds in every reachable state.
LEMMA ListingInvariant == Spec => []ListingInv
BY InitListing, NextListing, FilesTypeCorrect, PTL DEF Spec

\* The loops of collectPresetFiles, readPresetFileBounded and main are bounded:
\* every step of the command uses up a step that was left, and no change of a
\* file gives one back, so that it takes no more than StepsLeft has at its call.
\* That a step is possible until the command is done is left to TLC.
THEOREM CommandUsesUpItsSteps ==
    Spec => [][/\ StepsLeft \in Nat /\ StepsLeft' \in Nat
               /\ StepsLeft' <= StepsLeft
               /\ Command => StepsLeft' < StepsLeft]_vars
<1>1. ASSUME TypeOK, TypeOK', ListingInv, BytesBounded, BytesBounded', [Next]_vars
      PROVE  /\ StepsLeft \in Nat /\ StepsLeft' \in Nat
             /\ StepsLeft' <= StepsLeft
             /\ Command => StepsLeft' < StepsLeft
  <2>1. /\ WalkLeft \in Nat /\ ReadingLeft \in Nat /\ WalkLeft' \in Nat /\ ReadingLeft' \in Nat
        /\ StepsLeft = WalkLeft + ReadingLeft /\ StepsLeft' = WalkLeft' + ReadingLeft'
    BY <1>1, WalkLeftType, ReadingLeftType, WalkLeftTypeNext, ReadingLeftTypeNext
    DEF StepsLeft, WalkTyped, ReadingTyped
  <2>. DEFINE W == WalkLeft
              R == ReadingLeft
              W1 == WalkLeft'
              R1 == ReadingLeft'
              S == StepsLeft
              S1 == StepsLeft'
  <2>10. /\ W \in Nat /\ R \in Nat /\ W1 \in Nat /\ R1 \in Nat
         /\ S = W + R /\ S1 = W1 + R1
    BY <2>1
  <2>2. CASE ProcessInput \/ BeginDirectory \/ ScanEntry \/ EndDirectory
    <3>1. WalkLeft' < WalkLeft
      BY <1>1, <2>2, WalkUsesUp
    <3>2. UNCHANGED <<phase, tried, bytes>>
      BY <2>2 DEF ProcessInput, BeginDirectory, ScanEntry, EndDirectory, reader
    <3>3. ReadingLeft' = ReadingLeft
      BY <3>2, SameReadingLeft
    <3>4. S \in Nat /\ S1 \in Nat /\ S1 < S /\ S1 <= S
      <4>1. (W1 < W /\ R1 = R) \/ (R1 < R /\ W1 = W)
        BY <3>1, <3>3
      <4>. HIDE DEF W, R, W1, R1, S, S1
      <4>. QED BY <2>10, <4>1
    <3>. QED BY <3>4
  <2>3. CASE \/ EndDiscovery \/ OpenFile \/ ReadSome \/ ReadFails \/ RefuseLong
             \/ StopAtBudget \/ ValidateFile \/ Finish
    <3>1. ReadingLeft' < ReadingLeft
      BY <1>1, <2>3, ReadingUsesUp
    <3>2. UNCHANGED <<inputs, nextInput, walk>>
      BY <2>3 DEF EndDiscovery, OpenFile, ReadSome, ReadFails, RefuseLong, StopAtBudget,
                  ValidateFile, Finish
    <3>3. WalkLeft' = WalkLeft
      BY <3>2, SameWalkLeft
    <3>4. S \in Nat /\ S1 \in Nat /\ S1 < S /\ S1 <= S
      <4>1. (W1 < W /\ R1 = R) \/ (R1 < R /\ W1 = W)
        BY <3>1, <3>3
      <4>. HIDE DEF W, R, W1, R1, S, S1
      <4>. QED BY <2>10, <4>1
    <3>. QED BY <3>4
  <2>4. ASSUME UNCHANGED <<inputs, nextInput, walk, phase, tried, bytes>>
        PROVE  StepsLeft' = StepsLeft
    BY <2>1, <2>4, SameWalkLeft, SameReadingLeft
  <2>5. CASE (\E f \in Files : Change(f)) \/ UNCHANGED vars
    <3>1. UNCHANGED <<inputs, nextInput, walk, phase, tried, bytes>>
      BY <2>5 DEF Change, vars, reader
    <3>2. StepsLeft' = StepsLeft
      BY <2>4, <3>1
    <3>3. ~Command
      <4>1. Command => \/ ProcessInput \/ BeginDirectory \/ ScanEntry \/ EndDirectory
                       \/ EndDiscovery \/ OpenFile \/ ReadSome \/ RefuseLong
                       \/ StopAtBudget \/ ValidateFile \/ Finish
        BY DEF Command
      <4>0. W1 = W /\ R1 = R /\ ~(W1 < W) /\ ~(R1 < R)
        <5>1. W1 = W /\ R1 = R
          BY <3>1, SameWalkLeft, SameReadingLeft
        <5>. HIDE DEF W, R, W1, R1, S, S1
        <5>. QED BY <2>10, <5>1
      <4>2. ~(ProcessInput \/ BeginDirectory \/ ScanEntry \/ EndDirectory)
        BY <1>1, <4>0, WalkUsesUp
      <4>3. ~(\/ EndDiscovery \/ OpenFile \/ ReadSome \/ RefuseLong
              \/ StopAtBudget \/ ValidateFile \/ Finish)
        BY <1>1, <4>0, ReadingUsesUp
      <4>. QED BY <4>1, <4>2, <4>3
    <3>4. S \in Nat /\ S1 \in Nat /\ S1 <= S
      <4>1. S1 = S
        BY <3>2
      <4>. HIDE DEF W, R, W1, R1, S, S1
      <4>. QED BY <2>10, <4>1
    <3>. QED BY <3>3, <3>4
  <2>. QED BY <1>1, <2>1, <2>2, <2>3, <2>5 DEF Next, Command
<1>. QED
  BY <1>1, FilesTypeCorrect, ListingInvariant, ReadingIsBounded, PTL DEF Spec
============================================================================
