-------------------------------- MODULE JsonText --------------------------------
(***************************************************************************)
(* The scan of validateJsonComplexity beside the grammar of JSON (RFC 8259):*)
(* both are given the same text, one character after the other.  The        *)
(* grammar knows what the text consists of, the scan only counts brackets,  *)
(* colons and commas; what the scan decides must be right nevertheless.     *)
(***************************************************************************)
EXTENDS JsonComplexity

VARIABLES
    scan,       \* what validateJsonComplexity knows
    grammar,    \* what a parser knows
    length,
    outcome     \* of validateJsonComplexity

textVars == <<scan, grammar, length, outcome>>

\* The position in the grammar, what the text began with, the open containers
\* with the number of their members or elements so far, and the largest of
\* everything.
StartOfText ==
    [at |-> "value", escape |-> FALSE, root |-> "none", open |-> <<>>,
     containers |-> 0, depth |-> 0, members |-> 0, largestObject |-> 0,
     elements |-> 0, largestArray |-> 0]

Larger(m, n) == IF m > n THEN m ELSE n
top(g)     == g.open[Len(g.open)]
Within(g, kind) == g.open # <<>> /\ top(g).kind = kind
Counted(g) == [g EXCEPT !.open[Len(g.open)].count = @ + 1]

\* A value is the root of the text, an element of an array, or of a member.
InParent(g, c) ==
    IF g.open = <<>> THEN [g EXCEPT !.root = c]
    ELSE IF Within(g, "openBracket") THEN Counted(g) ELSE g

BeginValue(g, c) ==
    LET parent == InParent(g, c)
    IN  CASE c = "quote" -> [parent EXCEPT !.at = "string"]
          [] c = "other" -> [parent EXCEPT !.at = "scalar"]
          [] c \in Openers ->
                 [parent EXCEPT !.at = IF c = "openBrace" THEN "firstKey" ELSE "firstElement",
                                !.open = Append(@, [kind |-> c, count |-> 0]),
                                !.containers = @ + 1,
                                !.depth = Larger(@, Len(g.open) + 1)]

BeginKey(g) == [Counted(g) EXCEPT !.at = "key", !.members = @ + 1,
                                  !.largestObject = Larger(@, top(g).count + 1)]

EndContainer(g) ==
    LET after == [g EXCEPT !.at = "after", !.open = SubSeq(@, 1, Len(@) - 1)]
    IN  IF top(g).kind = "openBrace" THEN after
        ELSE [after EXCEPT !.elements = @ + top(g).count,
                           !.largestArray = Larger(@, top(g).count)]

StringCharacter(g, c) ==
    IF g.escape THEN [g EXCEPT !.escape = FALSE]
    ELSE IF c = "backslash" THEN [g EXCEPT !.escape = TRUE]
    ELSE IF c = "quote" THEN [g EXCEPT !.at = IF g.at = "key" THEN "afterKey" ELSE "after"]
    ELSE g

Malformed(g) == [g EXCEPT !.at = "malformed"]

Parse(g, c) ==
    CASE g.at \in {"key", "string"} -> StringCharacter(g, c)
      [] g.at \in {"value", "firstElement"} /\ c \in Openers \union {"quote", "other"} ->
             BeginValue(g, c)
      [] g.at \in {"firstKey", "nextKey"} /\ c = "quote" -> BeginKey(g)
      [] g.at = "afterKey" /\ c = "colon" -> [g EXCEPT !.at = "value"]
      [] g.at \in {"after", "scalar"} /\ c = "comma" /\ g.open # <<>> ->
             [g EXCEPT !.at = IF Within(g, "openBrace") THEN "nextKey" ELSE "value"]
      [] /\ c \in Closers /\ Within(g, OpenerOf(c))
         /\ g.at \in {"after", "scalar", IF c = "closeBrace" THEN "firstKey" ELSE "firstElement"} ->
             EndContainer(g)
      [] g.at = "scalar" /\ c = "other" -> g
      [] c = "space" /\ g.at \notin {"key", "string"} ->
             [g EXCEPT !.at = IF @ = "scalar" THEN "after" ELSE @]
      [] OTHER -> Malformed(g)

WellFormed == grammar.at # "malformed"
Complete   == grammar.open = <<>> /\ grammar.at \in {"after", "scalar"}
IsObject   == grammar.root = "openBrace"

TextInit ==
    /\ scan = StartOfScan /\ grammar = StartOfText
    /\ length = 0 /\ outcome = "none"

\* The scan goes on to the end of the text, or to the first limit.
Character(c) ==
    /\ outcome = "none" /\ length < MaxLength
    /\ length' = length + 1
    /\ scan' = Scan(scan, c)
    /\ grammar' = Parse(grammar, c)
    /\ outcome' = IF scan'.result = "none" THEN "none" ELSE "refused"

EndOfText ==
    /\ outcome = "none"
    /\ outcome' = "accepted"
    /\ UNCHANGED <<scan, grammar, length>>

TextNext == EndOfText \/ \E c \in Characters : Character(c)

TextSpec == TextInit /\ [][TextNext]_textVars
----------------------------------------------------------------------------
(* Properties *)

\* For any text, JSON or not, the scan needs no more than the limits allow.
TextTypeOK ==
    /\ outcome \in {"none", "refused", "accepted"} /\ length \in 0 .. MaxLength
    /\ Len(scan.containers) <= MaxNesting + 1
    /\ \A i \in 1 .. Len(scan.containers) :
          /\ scan.containers[i].openingCharacter \in Openers
          /\ scan.containers[i].propertyCount \in 0 .. MaxPropertiesPerObject + 1
          /\ scan.containers[i].commaCount \in 0 .. MaxLength
          /\ scan.containers[i].hasContent \in BOOLEAN
    /\ scan.containerCount \in 0 .. MaxContainers + 1
    /\ scan.totalPropertyCount \in 0 .. MaxTotalProperties + 1
    /\ scan.totalArrayElementCount \in 0 .. MaxTotalElements
    /\ {scan.insideString, scan.escaped} \subseteq BOOLEAN

\* The limits of the Preset Format, section 27, on what the text consists of.
Limits == {"nesting", "containers", "objectProperties", "properties",
           "arrayElements", "elements"}

Exceeded ==
    {limit \in Limits :
        CASE limit = "nesting"                 -> grammar.depth > MaxNesting
          [] limit = "containers"              -> grammar.containers > MaxContainers
          [] limit = "objectProperties" -> grammar.largestObject > MaxPropertiesPerObject
          [] limit = "properties"              -> grammar.members > MaxTotalProperties
          [] limit = "arrayElements"    -> grammar.largestArray > MaxArrayElements
          [] limit = "elements"                -> grammar.elements > MaxTotalElements}

\* No text that a parser could parse gets past the scan when it exceeds a
\* limit, whatever strings, escapes and white space it contains.
AcceptsWithinLimits == outcome = "accepted" /\ Complete => Exceeded = {}

\* A text is refused for a limit only when what there is of it exceeds that
\* limit: no preset within the limits is lost.
RefusesBeyondLimits == outcome = "refused" /\ WellFormed => scan.result \in Exceeded

(* The inductive invariant, in named parts: the scan simulates the grammar. *)

Places == {"value", "firstElement", "firstKey", "nextKey", "key", "afterKey",
           "string", "scalar", "after", "malformed"}

ScanState ==
    [containers : Seq([openingCharacter : Openers, propertyCount : Nat,
                       commaCount : Nat, hasContent : BOOLEAN]),
     containerCount : Nat, totalPropertyCount : Nat, totalArrayElementCount : Nat,
     insideString : BOOLEAN, escaped : BOOLEAN, result : Limits \union {"none"}]

GrammarState ==
    [at : Places, escape : BOOLEAN, root : Characters \union {"none"},
     open : Seq([kind : Openers, count : Nat]),
     containers : Nat, depth : Nat, members : Nat, largestObject : Nat,
     elements : Nat, largestArray : Nat]

\* What the scan keeps within its limits as long as it goes on.
ScanGoesOn(s) ==
    s.result = "none" =>
        /\ Len(s.containers) <= MaxNesting
        /\ \A i \in 1 .. Len(s.containers) :
              s.containers[i].propertyCount <= MaxPropertiesPerObject
        /\ s.containerCount <= MaxContainers
        /\ s.totalPropertyCount <= MaxTotalProperties

\* Members whose colon is yet to come are counted by the grammar only, and so
\* are elements whose comma is.
Awaited(at) == IF at \in {"key", "afterKey"} THEN 1 ELSE 0

ContainerAgrees(container, open, at) ==
    /\ container.openingCharacter = open.kind
    /\ open.kind = "openBrace" => container.propertyCount + Awaited(at) = open.count
    /\ open.kind = "openBracket" =>
          /\ container.hasContent <=> at # "firstElement"
          /\ at = "firstElement" => open.count = 0
          /\ container.commaCount
               + (IF at \in {"value", "firstElement"} THEN 0 ELSE 1) = open.count

\* A container around the innermost one has just got a value.
PlaceIn(g, i) == IF i = Len(g.open) THEN g.at ELSE "after"

ContainersAgree(s, g) ==
    /\ Len(s.containers) = Len(g.open)
    /\ \A i \in 1 .. Len(g.open) :
          ContainerAgrees(s.containers[i], g.open[i], PlaceIn(g, i))
    /\ g.at \in {"firstKey", "nextKey", "key", "afterKey"} => Within(g, "openBrace")
    /\ g.at = "firstElement" => Within(g, "openBracket")

StringsAgree(s, g) ==
    /\ s.insideString <=> g.at \in {"key", "string"}
    /\ s.escaped = g.escape

CountsAgree(s, g) ==
    /\ g.containers = s.containerCount
    /\ g.members = s.totalPropertyCount + Awaited(g.at)
    /\ g.elements = s.totalArrayElementCount

LimitsKept(g) ==
    /\ g.depth <= MaxNesting
    /\ g.largestArray <= MaxArrayElements
    /\ \/ g.largestObject <= MaxPropertiesPerObject
       \/ Awaited(g.at) = 1 /\ g.largestObject = top(g).count
    /\ Awaited(g.at) = 1 => top(g).count <= g.largestObject

Agree(s, g) ==
    ContainersAgree(s, g) /\ StringsAgree(s, g) /\ CountsAgree(s, g) /\ LimitsKept(g)

TextInv ==
    /\ TextTypeOK /\ RefusesBeyondLimits
    /\ scan \in ScanState /\ grammar \in GrammarState
    /\ \A i \in 1 .. Len(scan.containers) : scan.containers[i].commaCount <= length
    /\ outcome = "refused" <=> scan.result # "none"
    /\ ScanGoesOn(scan)
    /\ outcome # "refused" /\ WellFormed => Agree(scan, grammar)
============================================================================
