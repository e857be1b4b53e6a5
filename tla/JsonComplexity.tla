---------------------------- MODULE JsonComplexity ----------------------------
(***************************************************************************)
(* validateJsonComplexity: one pass over the characters of a text, before   *)
(* it is parsed, which refuses what would cost the parser too much.  It     *)
(* keeps a stack of the open containers and counts, without a grammar.      *)
(* Characters are reduced to the classes that the scan tells apart.         *)
(***************************************************************************)
EXTENDS Integers, Sequences

CONSTANTS
    MaxContainers,           \* maximumJsonContainerCount
    MaxNesting,              \* maximumJsonNestingDepth
    MaxPropertiesPerObject,  \* maximumJsonPropertiesPerObject
    MaxTotalProperties,      \* maximumJsonTotalProperties
    MaxArrayElements,        \* maximumJsonArrayElements
    MaxTotalElements,        \* maximumJsonTotalArrayElements
    MaxLength                \* bound: of the text

ASSUME ComplexityAssumption ==
    /\ MaxContainers \in Nat /\ MaxNesting \in Nat
    /\ MaxPropertiesPerObject \in Nat /\ MaxTotalProperties \in Nat
    /\ MaxArrayElements \in Nat /\ MaxTotalElements \in Nat
    /\ MaxLength \in Nat

Openers    == {"openBrace", "openBracket"}
Closers    == {"closeBrace", "closeBracket"}
Characters == Openers \union Closers
                \union {"quote", "backslash", "colon", "comma", "space", "other"}

OpenerOf(closer) == IF closer = "closeBrace" THEN "openBrace" ELSE "openBracket"

\* A JsonContainerState.
NewContainer(character) ==
    [openingCharacter |-> character, propertyCount |-> 0, commaCount |-> 0,
     hasContent |-> FALSE]

\* The variables of the scan; result is the limit that is exceeded, if any.
StartOfScan ==
    [containers |-> <<>>, containerCount |-> 0, totalPropertyCount |-> 0,
     totalArrayElementCount |-> 0, insideString |-> FALSE, escaped |-> FALSE,
     result |-> "none"]

back(s) == s.containers[Len(s.containers)]
InObject(s) == s.containers # <<>> /\ back(s).openingCharacter = "openBrace"
InArray(s)  == s.containers # <<>> /\ back(s).openingCharacter = "openBracket"

WithContent(s) ==
    IF s.containers = <<>> THEN s
    ELSE [s EXCEPT !.containers[Len(s.containers)].hasContent = TRUE]

\* A plausible bug: an escaped quote ends the string.
ScanStringWithoutEscapes(s, c) ==
    IF c = "quote" THEN [s EXCEPT !.insideString = FALSE] ELSE s

ScanString(s, c) ==
    IF s.escaped THEN [s EXCEPT !.escaped = FALSE]
    ELSE IF c = "backslash" THEN [s EXCEPT !.escaped = TRUE]
    ELSE IF c = "quote" THEN [s EXCEPT !.insideString = FALSE]
    ELSE s

Open(s, c) ==
    LET parent == WithContent(s)
    IN  IF s.containerCount + 1 > MaxContainers
        THEN [parent EXCEPT !.containerCount = @ + 1, !.result = "containers"]
        ELSE [parent EXCEPT !.containers = Append(@, NewContainer(c)),
                            !.containerCount = @ + 1,
                            !.result = IF Len(s.containers) + 1 > MaxNesting
                                       THEN "nesting" ELSE @]

CountProperty(s) ==
    [s EXCEPT !.containers[Len(s.containers)].propertyCount = @ + 1,
              !.totalPropertyCount = @ + 1,
              !.result = IF back(s).propertyCount + 1 > MaxPropertiesPerObject
                         THEN "objectProperties"
                         ELSE IF s.totalPropertyCount + 1 > MaxTotalProperties
                         THEN "properties" ELSE @]

CountComma(s) == [s EXCEPT !.containers[Len(s.containers)].commaCount = @ + 1]

\* A plausible bug: an array with one element has no comma, and is not counted.
CloseByCommas(s) ==
    LET closed   == [s EXCEPT !.containers = SubSeq(@, 1, Len(@) - 1)]
        elements == back(s).commaCount + 1
    IN  IF back(s).openingCharacter = "openBrace" \/ elements = 1 THEN closed
        ELSE IF elements > MaxArrayElements
        THEN [closed EXCEPT !.result = "arrayElements"]
        ELSE IF s.totalArrayElementCount > MaxTotalElements - elements
        THEN [closed EXCEPT !.result = "elements"]
        ELSE [closed EXCEPT !.totalArrayElementCount = @ + elements]

\* The elements of an array are counted when it ends: the commas, and one.
Close(s) ==
    LET closed   == [s EXCEPT !.containers = SubSeq(@, 1, Len(@) - 1)]
        elements == back(s).commaCount + 1
    IN  IF back(s).openingCharacter = "openBrace" \/ ~back(s).hasContent THEN closed
        ELSE IF elements > MaxArrayElements
        THEN [closed EXCEPT !.result = "arrayElements"]
        ELSE IF s.totalArrayElementCount > MaxTotalElements - elements
        THEN [closed EXCEPT !.result = "elements"]
        ELSE [closed EXCEPT !.totalArrayElementCount = @ + elements]

\* A bracket that does not match is passed over, as are colons and commas
\* where they have no meaning.
Scan(s, c) ==
    CASE s.insideString              -> ScanString(s, c)
      [] ~s.insideString /\ c = "quote" -> [WithContent(s) EXCEPT !.insideString = TRUE]
      [] ~s.insideString /\ c \in Openers -> Open(s, c)
      [] ~s.insideString /\ c = "colon" -> IF InObject(s) THEN CountProperty(s) ELSE s
      [] ~s.insideString /\ c = "comma" -> IF InArray(s) THEN CountComma(s) ELSE s
      [] ~s.insideString /\ c \in Closers ->
             IF s.containers # <<>> /\ back(s).openingCharacter = OpenerOf(c)
             THEN Close(s) ELSE s
      [] ~s.insideString /\ c \in {"backslash", "other"} -> WithContent(s)
      [] OTHER -> s
============================================================================
