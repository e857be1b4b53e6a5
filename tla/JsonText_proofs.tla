---------------------------- MODULE JsonText_proofs ----------------------------
(***************************************************************************)
(* The scan of validateJsonComplexity keeps to its limits for any text, and *)
(* decides rightly for any text that a parser could parse: the scan         *)
(* simulates the grammar, as TextInv of JsonText says.                      *)
(***************************************************************************)
EXTENDS JsonText, SequenceTheorems, TLAPS

(* Stacks. *)

LEMMA TopReplaced ==
    ASSUME NEW S, NEW stack \in Seq(S), NEW e \in S, stack # <<>>
    PROVE  /\ [stack EXCEPT ![Len(stack)] = e] \in Seq(S)
           /\ Len([stack EXCEPT ![Len(stack)] = e]) = Len(stack)
           /\ Len(stack) \in Nat \ {0} /\ stack[Len(stack)] \in S
           /\ \A i \in 1 .. Len(stack) :
                 [stack EXCEPT ![Len(stack)] = e][i]
                     = IF i = Len(stack) THEN e ELSE stack[i]
  OBVIOUS

LEMMA Pushed ==
    ASSUME NEW S, NEW stack \in Seq(S), NEW e \in S
    PROVE  /\ Append(stack, e) \in Seq(S)
           /\ Len(Append(stack, e)) = Len(stack) + 1
           /\ \A i \in 1 .. Len(stack) : Append(stack, e)[i] = stack[i]
           /\ Append(stack, e)[Len(stack) + 1] = e
           /\ Append(stack, e) # <<>>
  OBVIOUS

LEMMA Popped ==
    ASSUME NEW S, NEW stack \in Seq(S), stack # <<>>
    PROVE  /\ SubSeq(stack, 1, Len(stack) - 1) \in Seq(S)
           /\ Len(SubSeq(stack, 1, Len(stack) - 1)) = Len(stack) - 1
           /\ \A i \in 1 .. Len(stack) - 1 :
                 SubSeq(stack, 1, Len(stack) - 1)[i] = stack[i]
           /\ Len(stack) \in Nat \ {0} /\ stack[Len(stack)] \in S
  <1>1. Len(stack) \in Nat \ {0} /\ \A i \in 1 .. Len(stack) : stack[i] \in S
    OBVIOUS
  <1>2. Len(stack) - 1 \in Int /\ \A i \in 1 .. Len(stack) - 1 : stack[i] \in S
    BY <1>1
  <1>3. /\ SubSeq(stack, 1, Len(stack) - 1) \in Seq(S)
        /\ Len(SubSeq(stack, 1, Len(stack) - 1))
             = IF 1 <= Len(stack) - 1 THEN Len(stack) - 1 - 1 + 1 ELSE 0
        /\ \A i \in 1 .. Len(stack) - 1 - 1 + 1 :
              SubSeq(stack, 1, Len(stack) - 1)[i] = stack[1 + i - 1]
    BY <1>2, SubSeqProperties
  <1>4. Len(SubSeq(stack, 1, Len(stack) - 1)) = Len(stack) - 1
    <2> DEFINE n == Len(stack)
               m == Len(SubSeq(stack, 1, Len(stack) - 1))
    <2>1. n \in Nat \ {0} /\ m = IF 1 <= n - 1 THEN n - 1 - 1 + 1 ELSE 0  BY <1>1, <1>3
    <2> HIDE DEF n, m
    <2>2. m = n - 1  BY <2>1
    <2> QED  BY <2>2 DEF n, m
  <1>5. \A i \in 1 .. Len(stack) - 1 : SubSeq(stack, 1, Len(stack) - 1)[i] = stack[i]
    <2> TAKE i \in 1 .. Len(stack) - 1
    <2>1. i \in 1 .. Len(stack) - 1 - 1 + 1 /\ 1 + i - 1 = i  BY <1>1
    <2>2. SubSeq(stack, 1, Len(stack) - 1)[i] = stack[1 + i - 1]  BY <1>3, <2>1
    <2> QED  BY <2>1, <2>2
  <1> QED  BY <1>1, <1>3, <1>4, <1>5
----------------------------------------------------------------------------
(* The operations of the scan. *)

Container == [openingCharacter : Openers, propertyCount : Nat,
              commaCount : Nat, hasContent : BOOLEAN]

SameString(s, t) == t.insideString = s.insideString /\ t.escaped = s.escaped

SameTotals(s, t) ==
    /\ t.containerCount = s.containerCount /\ t.result = s.result
    /\ t.totalPropertyCount = s.totalPropertyCount
    /\ t.totalArrayElementCount = s.totalArrayElementCount

LEMMA WithContentFacts ==
    ASSUME NEW s \in ScanState
    PROVE  /\ WithContent(s) \in ScanState
           /\ Len(WithContent(s).containers) = Len(s.containers)
           /\ \A i \in 1 .. Len(s.containers) :
                 WithContent(s).containers[i] =
                     IF i = Len(s.containers)
                     THEN [s.containers[i] EXCEPT !.hasContent = TRUE] ELSE s.containers[i]
           /\ SameTotals(s, WithContent(s)) /\ SameString(s, WithContent(s))
  <1>1. CASE s.containers = <<>>
    BY <1>1 DEF WithContent, ScanState, SameTotals, SameString
  <1>2. CASE s.containers # <<>>
    <2> DEFINE stack == s.containers
               e == [stack[Len(stack)] EXCEPT !.hasContent = TRUE]
    <2>1. stack \in Seq(Container) /\ stack # <<>>  BY <1>2 DEF ScanState, Container
    <2>2. Len(stack) \in Nat \ {0} /\ stack[Len(stack)] \in Container  BY <2>1
    <2>3. e \in Container  BY <2>2 DEF Container
    <2>4. WithContent(s) = [s EXCEPT !.containers = [stack EXCEPT ![Len(stack)] = e]]
      BY <1>2 DEF WithContent
    <2>5. /\ [stack EXCEPT ![Len(stack)] = e] \in Seq(Container)
          /\ Len([stack EXCEPT ![Len(stack)] = e]) = Len(stack)
          /\ \A i \in 1 .. Len(stack) :
                 [stack EXCEPT ![Len(stack)] = e][i]
                     = IF i = Len(stack) THEN e ELSE stack[i]
      BY <2>1, <2>3, TopReplaced
    <2>6. WithContent(s).containers = [stack EXCEPT ![Len(stack)] = e]
      BY <2>4 DEF ScanState
    <2>7. WithContent(s) \in ScanState  BY <2>4, <2>5 DEF ScanState, Container
    <2>8. SameTotals(s, WithContent(s)) /\ SameString(s, WithContent(s))
      BY <2>4 DEF ScanState, SameTotals, SameString
    <2> QED  BY <2>5, <2>6, <2>7, <2>8
  <1> QED  BY <1>1, <1>2

LEMMA OpenFacts ==
    ASSUME NEW s \in ScanState, s.result = "none", NEW c \in Openers
    PROVE  /\ Open(s, c) \in ScanState
           /\ Open(s, c).containerCount = s.containerCount + 1
           /\ Open(s, c).totalPropertyCount = s.totalPropertyCount
           /\ Open(s, c).totalArrayElementCount = s.totalArrayElementCount
           /\ SameString(s, Open(s, c))
           /\ s.containerCount + 1 > MaxContainers =>
                 /\ Open(s, c).result = "containers"
                 /\ Open(s, c).containers = WithContent(s).containers
           /\ s.containerCount + 1 <= MaxContainers =>
                 /\ Open(s, c).containers = Append(WithContent(s).containers, NewContainer(c))
                 /\ Open(s, c).result = IF Len(s.containers) + 1 > MaxNesting
                                        THEN "nesting" ELSE "none"
  <1> DEFINE w == WithContent(s)
  <1>1. /\ w \in ScanState /\ Len(w.containers) = Len(s.containers)
        /\ SameTotals(s, w) /\ SameString(s, w)
    BY WithContentFacts
  <1>2. /\ w.containerCount = s.containerCount /\ w.result = s.result
        /\ w.totalPropertyCount = s.totalPropertyCount
        /\ w.totalArrayElementCount = s.totalArrayElementCount
    BY <1>1 DEF SameTotals
  <1>3. s.containerCount \in Nat /\ MaxContainers \in Nat
    BY ComplexityAssumption DEF ScanState
  <1> DEFINE n == s.containerCount + 1
  <1>n. n \in Nat  BY <1>3
  <1> HIDE DEF w, n
  <1>4. CASE s.containerCount + 1 > MaxContainers
    <2>1. Open(s, c) = [w EXCEPT !.containerCount = n, !.result = "containers"]
      BY <1>2, <1>4 DEF Open, w, n
    <2>2. Open(s, c) \in ScanState  BY <2>1, <1>1, <1>n DEF ScanState, Limits
    <2>3. /\ Open(s, c).containers = w.containers /\ Open(s, c).result = "containers"
          /\ Open(s, c).containerCount = n
          /\ Open(s, c).totalPropertyCount = w.totalPropertyCount
          /\ Open(s, c).totalArrayElementCount = w.totalArrayElementCount
          /\ SameString(w, Open(s, c))
      BY <2>1, <1>1 DEF ScanState, SameString
    <2>4. SameString(s, Open(s, c))  BY <1>1, <2>3 DEF SameString
    <2> QED  BY <1>2, <1>3, <1>4, <2>2, <2>3, <2>4 DEF w, n
  <1>5. CASE s.containerCount + 1 <= MaxContainers
    <2> DEFINE r == IF Len(s.containers) + 1 > MaxNesting THEN "nesting" ELSE "none"
               stack == Append(w.containers, NewContainer(c))
    <2>1. Open(s, c) = [w EXCEPT !.containers = stack, !.containerCount = n, !.result = r]
      BY <1>2, <1>3, <1>5 DEF Open, w, n
    <2>2. NewContainer(c) \in Container  BY DEF NewContainer, Container
    <2>3. w.containers \in Seq(Container)  BY <1>1 DEF ScanState, Container
    <2>4. stack \in Seq(Container)  BY <2>2, <2>3, Pushed
    <2>5. r \in Limits \union {"none"}  BY DEF Limits
    <2> HIDE DEF stack, r
    <2>6. Open(s, c) \in ScanState
      BY <2>1, <2>4, <2>5, <1>1, <1>n DEF ScanState, Container
    <2>7. /\ Open(s, c).containers = stack /\ Open(s, c).result = r
          /\ Open(s, c).containerCount = n
          /\ Open(s, c).totalPropertyCount = w.totalPropertyCount
          /\ Open(s, c).totalArrayElementCount = w.totalArrayElementCount
          /\ SameString(w, Open(s, c))
      BY <2>1, <1>1 DEF ScanState, SameString
    <2>8. SameString(s, Open(s, c))  BY <1>1, <2>7 DEF SameString
    <2> QED  BY <1>2, <1>3, <1>5, <2>6, <2>7, <2>8 DEF stack, r, w, n
  <1> QED  BY <1>3, <1>4, <1>5

LEMMA CountPropertyFacts ==
    ASSUME NEW s \in ScanState, s.result = "none", s.containers # <<>>
    PROVE  /\ CountProperty(s) \in ScanState
           /\ Len(CountProperty(s).containers) = Len(s.containers)
           /\ \A i \in 1 .. Len(s.containers) :
                 CountProperty(s).containers[i] =
                     IF i = Len(s.containers)
                     THEN [s.containers[i] EXCEPT !.propertyCount = @ + 1]
                     ELSE s.containers[i]
           /\ CountProperty(s).result =
                 IF back(s).propertyCount + 1 > MaxPropertiesPerObject
                 THEN "objectProperties"
                 ELSE IF s.totalPropertyCount + 1 > MaxTotalProperties
                 THEN "properties" ELSE "none"
           /\ CountProperty(s).containerCount = s.containerCount
           /\ CountProperty(s).totalPropertyCount = s.totalPropertyCount + 1
           /\ CountProperty(s).totalArrayElementCount = s.totalArrayElementCount
           /\ SameString(s, CountProperty(s))
  <1> DEFINE stack == s.containers
             e == [stack[Len(stack)] EXCEPT !.propertyCount = @ + 1]
             changed == [stack EXCEPT ![Len(stack)] = e]
             r == IF back(s).propertyCount + 1 > MaxPropertiesPerObject
                  THEN "objectProperties"
                  ELSE IF s.totalPropertyCount + 1 > MaxTotalProperties
                  THEN "properties" ELSE "none"
  <1>1. stack \in Seq(Container) /\ stack # <<>>  BY DEF ScanState, Container
  <1>2. Len(stack) \in Nat \ {0} /\ stack[Len(stack)] \in Container  BY <1>1
  <1>3. e \in Container  BY <1>2 DEF Container
  <1>4. CountProperty(s) = [s EXCEPT !.containers = changed, !.totalPropertyCount = @ + 1,
                                    !.result = r]
    BY DEF CountProperty
  <1>5. /\ changed \in Seq(Container) /\ Len(changed) = Len(stack)
        /\ \A i \in 1 .. Len(stack) : changed[i] = IF i = Len(stack) THEN e ELSE stack[i]
    BY <1>1, <1>3, TopReplaced
  <1>6. r \in Limits \union {"none"}  BY DEF Limits
  <1> DEFINE n == s.totalPropertyCount + 1
  <1>n. n \in Nat  BY DEF ScanState
  <1>m. CountProperty(s) = [s EXCEPT !.containers = changed, !.totalPropertyCount = n,
                                    !.result = r]
    BY <1>4
  <1> HIDE DEF changed, r, n
  <1>7. CountProperty(s).containers = changed  BY <1>m DEF ScanState
  <1>8. CountProperty(s) \in ScanState
    BY <1>m, <1>n, <1>5, <1>6 DEF ScanState, Container
  <1>9. /\ CountProperty(s).result = r /\ CountProperty(s).totalPropertyCount = n
        /\ CountProperty(s).containerCount = s.containerCount
        /\ CountProperty(s).totalArrayElementCount = s.totalArrayElementCount
        /\ SameString(s, CountProperty(s))
    BY <1>m DEF ScanState, SameString
  <1> QED  BY <1>5, <1>7, <1>8, <1>9 DEF r, n

LEMMA CountCommaFacts ==
    ASSUME NEW s \in ScanState, s.containers # <<>>
    PROVE  /\ CountComma(s) \in ScanState
           /\ Len(CountComma(s).containers) = Len(s.containers)
           /\ \A i \in 1 .. Len(s.containers) :
                 CountComma(s).containers[i] =
                     IF i = Len(s.containers)
                     THEN [s.containers[i] EXCEPT !.commaCount = @ + 1]
                     ELSE s.containers[i]
           /\ SameTotals(s, CountComma(s)) /\ SameString(s, CountComma(s))
  <1> DEFINE stack == s.containers
             e == [stack[Len(stack)] EXCEPT !.commaCount = @ + 1]
             changed == [stack EXCEPT ![Len(stack)] = e]
  <1>1. stack \in Seq(Container) /\ stack # <<>>  BY DEF ScanState, Container
  <1>2. Len(stack) \in Nat \ {0} /\ stack[Len(stack)] \in Container  BY <1>1
  <1>3. e \in Container  BY <1>2 DEF Container
  <1>4. CountComma(s) = [s EXCEPT !.containers = changed]  BY DEF CountComma
  <1>5. /\ changed \in Seq(Container) /\ Len(changed) = Len(stack)
        /\ \A i \in 1 .. Len(stack) : changed[i] = IF i = Len(stack) THEN e ELSE stack[i]
    BY <1>1, <1>3, TopReplaced
  <1> HIDE DEF changed
  <1>6. CountComma(s).containers = changed  BY <1>4 DEF ScanState
  <1>7. CountComma(s) \in ScanState  BY <1>4, <1>5 DEF ScanState, Container
  <1> QED  BY <1>4, <1>5, <1>6, <1>7 DEF SameTotals, SameString, ScanState

\* The elements of the array that ends; none when an object ends.
Elements(s) ==
    IF back(s).openingCharacter = "openBrace" \/ ~back(s).hasContent
    THEN 0 ELSE back(s).commaCount + 1

LEMMA CloseFacts ==
    ASSUME NEW s \in ScanState, s.result = "none", s.containers # <<>>,
           s.totalArrayElementCount <= MaxTotalElements
    PROVE  /\ Close(s) \in ScanState /\ Elements(s) \in Nat
           /\ Len(Close(s).containers) = Len(s.containers) - 1
           /\ \A i \in 1 .. Len(s.containers) - 1 :
                 Close(s).containers[i] = s.containers[i]
           /\ Close(s).containerCount = s.containerCount
           /\ Close(s).totalPropertyCount = s.totalPropertyCount
           /\ SameString(s, Close(s))
           /\ \/ /\ Elements(s) > MaxArrayElements
                 /\ Close(s).result = "arrayElements"
                 /\ Close(s).totalArrayElementCount = s.totalArrayElementCount
              \/ /\ s.totalArrayElementCount + Elements(s) > MaxTotalElements
                 /\ Close(s).result = "elements"
                 /\ Close(s).totalArrayElementCount = s.totalArrayElementCount
              \/ /\ Elements(s) <= MaxArrayElements
                 /\ s.totalArrayElementCount + Elements(s) <= MaxTotalElements
                 /\ Close(s).result = "none"
                 /\ Close(s).totalArrayElementCount = s.totalArrayElementCount + Elements(s)
  <1> DEFINE stack == s.containers
             below == SubSeq(stack, 1, Len(stack) - 1)
             closed == [s EXCEPT !.containers = below]
             n == back(s).commaCount + 1
  <1>1. stack \in Seq(Container) /\ stack # <<>>  BY DEF ScanState, Container
  <1>2. /\ below \in Seq(Container) /\ Len(below) = Len(stack) - 1
        /\ \A i \in 1 .. Len(stack) - 1 : below[i] = stack[i]
        /\ Len(stack) \in Nat \ {0} /\ stack[Len(stack)] \in Container
    BY <1>1, Popped
  <1>b. back(s) \in Container /\ back(s).commaCount \in Nat
    BY <1>2 DEF back, Container
  <1>n. n \in Nat \ {0}  BY <1>b
  <1>e. Elements(s) \in Nat  BY <1>n DEF Elements
  <1>3. /\ MaxArrayElements \in Nat /\ MaxTotalElements \in Nat
        /\ s.totalArrayElementCount \in Nat
    BY ComplexityAssumption DEF ScanState
  <1> DEFINE total == s.totalArrayElementCount
             Result(c, r, t) == c = [s EXCEPT !.containers = below,
                                              !.totalArrayElementCount = t, !.result = r]
             Ended(c, r, t) == /\ c \in ScanState /\ c.containers = below /\ c.result = r
                               /\ c.totalArrayElementCount = t
                               /\ c.containerCount = s.containerCount
                               /\ c.totalPropertyCount = s.totalPropertyCount
                               /\ SameString(s, c)
  <1>s. ASSUME NEW r \in Limits \union {"none"}, NEW t \in Nat, NEW c, Result(c, r, t)
        PROVE  Ended(c, r, t)
    <2> HIDE DEF below
    <2>1. c \in ScanState  BY <1>s, <1>2 DEF ScanState, Container
    <2> QED  BY <1>s, <2>1 DEF ScanState, SameString
  <1> HIDE DEF below, n, total, stack, Result
  <1>t. total \in Nat  BY <1>3 DEF total
  <1>4. s = [s EXCEPT !.totalArrayElementCount = total, !.result = "none"]
    BY DEF ScanState, total
  <1>5. CASE back(s).openingCharacter = "openBrace" \/ ~back(s).hasContent
    <2>1. Result(Close(s), "none", total)
      BY <1>5, <1>4 DEF Close, below, stack, ScanState, total, Result
    <2>2. Elements(s) = 0  BY <1>5 DEF Elements
    <2>3. Ended(Close(s), "none", total)  BY <1>s, <1>t, <2>1
    <2> QED  BY <1>2, <1>3, <1>e, <2>2, <2>3 DEF total, stack
  <1>6. CASE ~(back(s).openingCharacter = "openBrace" \/ ~back(s).hasContent)
    <2>1. Elements(s) = n  BY <1>6 DEF Elements, n
    <2>2. CASE n > MaxArrayElements
      <3>1. Result(Close(s), "arrayElements", total)
        BY <1>6, <2>2 DEF Close, below, stack, ScanState, total, n, Result
      <3>2. Ended(Close(s), "arrayElements", total)
        BY <1>s, <1>t, <3>1 DEF Limits
      <3> QED  BY <1>2, <1>3, <1>e, <2>1, <2>2, <3>2 DEF total, stack
    <2>3. CASE n <= MaxArrayElements /\ total > MaxTotalElements - n
      <3>1. ~(n > MaxArrayElements)  BY <1>n, <1>3, <2>3
      <3>2. Result(Close(s), "elements", total)
        BY <1>6, <2>3, <3>1 DEF Close, below, stack, ScanState, total, n, Result
      <3>3. total + n > MaxTotalElements  BY <1>n, <1>3, <2>3 DEF total
      <3>4. Ended(Close(s), "elements", total)  BY <1>s, <1>t, <3>2 DEF Limits
      <3> QED  BY <1>2, <1>3, <1>e, <2>1, <3>3, <3>4 DEF total, stack
    <2>4. CASE n <= MaxArrayElements /\ ~(total > MaxTotalElements - n)
      <3>1. ~(n > MaxArrayElements)  BY <1>n, <1>3, <2>4
      <3>2. Result(Close(s), "none", total + n)
        BY <1>6, <2>4, <3>1 DEF Close, below, stack, ScanState, total, n, Result
      <3>3. total + n <= MaxTotalElements /\ total + n \in Nat
        BY <1>n, <1>3, <2>4 DEF total
      <3>4. Ended(Close(s), "none", total + n)  BY <1>s, <3>2, <3>3
      <3> QED  BY <1>2, <1>3, <1>e, <2>1, <2>4, <3>3, <3>4 DEF total, stack
    <2>5. \/ n > MaxArrayElements
          \/ n <= MaxArrayElements /\ total > MaxTotalElements - n
          \/ n <= MaxArrayElements /\ ~(total > MaxTotalElements - n)
      BY <1>n, <1>3
    <2> QED  BY <2>2, <2>3, <2>4, <2>5
  <1> QED  BY <1>5, <1>6
----------------------------------------------------------------------------
(* Whatever the text, the scan stays within its limits. *)

LEMMA CharacterClasses ==
    \A c \in Characters :
        \/ c \in Openers \/ c \in Closers
        \/ c = "quote" \/ c = "backslash" \/ c = "colon"
        \/ c = "comma" \/ c = "space" \/ c = "other"
  BY DEF Characters, Openers, Closers

LEMMA ScanCases ==
    ASSUME NEW s \in ScanState, NEW c \in Characters
    PROVE  /\ s.insideString => Scan(s, c) = ScanString(s, c)
           /\ ~s.insideString =>
                /\ c = "quote" => Scan(s, c) = [WithContent(s) EXCEPT !.insideString = TRUE]
                /\ c \in Openers => Scan(s, c) = Open(s, c)
                /\ c = "colon" => Scan(s, c) = IF InObject(s) THEN CountProperty(s) ELSE s
                /\ c = "comma" => Scan(s, c) = IF InArray(s) THEN CountComma(s) ELSE s
                /\ c \in Closers =>
                      Scan(s, c) = IF /\ s.containers # <<>>
                                      /\ back(s).openingCharacter = OpenerOf(c)
                                   THEN Close(s) ELSE s
                /\ c \in {"backslash", "other"} => Scan(s, c) = WithContent(s)
                /\ c = "space" => Scan(s, c) = s
  <1>1. s.insideString \in BOOLEAN  BY DEF ScanState
  <1>2. CASE s.insideString  BY <1>2 DEF Scan
  <1>3. CASE ~s.insideString  BY <1>3 DEF Scan, Openers, Closers
  <1> QED  BY <1>1, <1>2, <1>3

LEMMA ScanStringFacts ==
    ASSUME NEW s \in ScanState, NEW c \in Characters
    PROVE  /\ ScanString(s, c) \in ScanState
           /\ ScanString(s, c).containers = s.containers
           /\ SameTotals(s, ScanString(s, c))
           /\ ScanString(s, c).escaped = (~s.escaped /\ c = "backslash")
           /\ ScanString(s, c).insideString
                 = (s.insideString /\ (s.escaped \/ c # "quote"))
  <1>1. CASE s.escaped
    BY <1>1 DEF ScanString, ScanState, SameTotals
  <1>2. CASE ~s.escaped /\ c = "backslash"
    BY <1>2 DEF ScanString, ScanState, SameTotals
  <1>3. CASE ~s.escaped /\ c = "quote"
    BY <1>3 DEF ScanString, ScanState, SameTotals
  <1>4. CASE ~s.escaped /\ c # "backslash" /\ c # "quote"
    BY <1>4 DEF ScanString, ScanState, SameTotals
  <1> QED  BY <1>1, <1>2, <1>3, <1>4

LEMMA StringBegins ==
    ASSUME NEW s \in ScanState, NEW t, t = [WithContent(s) EXCEPT !.insideString = TRUE]
    PROVE  /\ t \in ScanState /\ t.containers = WithContent(s).containers
           /\ SameTotals(s, t) /\ t.escaped = s.escaped /\ t.insideString
  <1>1. /\ WithContent(s) \in ScanState
        /\ SameTotals(s, WithContent(s)) /\ SameString(s, WithContent(s))
    BY WithContentFacts
  <1>2. /\ t \in ScanState /\ t.containers = WithContent(s).containers
        /\ SameTotals(WithContent(s), t)
        /\ t.escaped = WithContent(s).escaped /\ t.insideString
    BY <1>1 DEF ScanState, SameTotals
  <1> QED  BY <1>1, <1>2 DEF SameTotals, SameString

Bounded(s, n) ==
    /\ s \in ScanState
    /\ ScanGoesOn(s)
    /\ Len(s.containers) <= MaxNesting + 1
    /\ \A i \in 1 .. Len(s.containers) :
          /\ s.containers[i].propertyCount <= MaxPropertiesPerObject + 1
          /\ s.containers[i].commaCount <= n
    /\ s.containerCount <= MaxContainers + 1
    /\ s.totalPropertyCount <= MaxTotalProperties + 1
    /\ s.totalArrayElementCount <= MaxTotalElements

LEMMA ContainersTyped ==
    ASSUME NEW s \in ScanState
    PROVE  /\ s.containers \in Seq(Container) /\ Len(s.containers) \in Nat
           /\ \A i \in 1 .. Len(s.containers) :
                 /\ s.containers[i] \in Container
                 /\ s.containers[i].propertyCount \in Nat
                 /\ s.containers[i].commaCount \in Nat
           /\ s.containerCount \in Nat /\ s.totalPropertyCount \in Nat
           /\ s.totalArrayElementCount \in Nat
           /\ s.insideString \in BOOLEAN /\ s.escaped \in BOOLEAN
  <1>1. s.containers \in Seq(Container)  BY DEF ScanState, Container
  <1>2. \A i \in 1 .. Len(s.containers) : s.containers[i] \in Container  BY <1>1
  <1> QED  BY <1>1, <1>2 DEF ScanState, Container

\* A scan that only marks what has content, or goes on in a string.
LEMMA MarkedIsBounded ==
    ASSUME NEW n \in Nat, NEW s, Bounded(s, n), NEW t \in ScanState, SameTotals(s, t),
           Len(t.containers) = Len(s.containers),
           \A i \in 1 .. Len(s.containers) :
               \/ t.containers[i] = s.containers[i]
               \/ t.containers[i] = [s.containers[i] EXCEPT !.hasContent = TRUE]
    PROVE  Bounded(t, n + 1)
  <1>1. s \in ScanState  BY DEF Bounded
  <1>2. ASSUME NEW i \in 1 .. Len(s.containers)
        PROVE  /\ t.containers[i].propertyCount = s.containers[i].propertyCount
               /\ t.containers[i].commaCount = s.containers[i].commaCount
               /\ s.containers[i].commaCount \in Nat
    BY <1>1, ContainersTyped DEF Container
  <1>3. ASSUME NEW i \in 1 .. Len(t.containers)
        PROVE  /\ t.containers[i].propertyCount <= MaxPropertiesPerObject + 1
               /\ t.containers[i].commaCount <= n + 1
    BY <1>2 DEF Bounded
  <1>4. ScanGoesOn(t)
    BY <1>2 DEF Bounded, ScanGoesOn, SameTotals
  <1> QED  BY <1>3, <1>4 DEF Bounded, SameTotals

LEMMA OpenIsBounded ==
    ASSUME NEW n \in Nat, NEW s, Bounded(s, n), s.result = "none", NEW c \in Openers
    PROVE  Bounded(Open(s, c), n + 1)
  <1> DEFINE w == WithContent(s)
             t == Open(s, c)
             k == Len(s.containers)
  <1>1. s \in ScanState  BY DEF Bounded
  <1>2. /\ w \in ScanState /\ Len(w.containers) = k /\ SameTotals(s, w)
        /\ \A i \in 1 .. k :
              w.containers[i] = IF i = k THEN [s.containers[i] EXCEPT !.hasContent = TRUE]
                                ELSE s.containers[i]
    BY <1>1, WithContentFacts
  <1>3. /\ t \in ScanState /\ t.containerCount = s.containerCount + 1
        /\ t.totalPropertyCount = s.totalPropertyCount
        /\ t.totalArrayElementCount = s.totalArrayElementCount
        /\ s.containerCount + 1 > MaxContainers =>
              t.result = "containers" /\ t.containers = w.containers
        /\ s.containerCount + 1 <= MaxContainers =>
              /\ t.containers = Append(w.containers, NewContainer(c))
              /\ t.result = IF k + 1 > MaxNesting THEN "nesting" ELSE "none"
    BY <1>1, OpenFacts
  <1>4. k \in Nat /\ s.containerCount \in Nat /\ w.containers \in Seq(Container)
    BY <1>1, <1>2, ContainersTyped
  <1> HIDE DEF w, t, k
  <1>5. Bounded(w, n + 1)  BY <1>2, MarkedIsBounded DEF k
  <1>6. /\ k <= MaxNesting /\ s.containerCount <= MaxContainers
        /\ s.totalPropertyCount <= MaxTotalProperties
        /\ s.totalArrayElementCount <= MaxTotalElements
    BY DEF Bounded, ScanGoesOn, k
  <1>7. /\ MaxContainers \in Nat /\ MaxNesting \in Nat /\ MaxPropertiesPerObject \in Nat
        /\ MaxTotalProperties \in Nat
    BY ComplexityAssumption
  <1>8. s.totalPropertyCount \in Nat  BY <1>1, ContainersTyped
  <1>9. w.result = "none"  BY <1>2 DEF SameTotals
  <1>10. /\ Len(w.containers) <= MaxNesting
         /\ \A i \in 1 .. k : /\ w.containers[i].propertyCount <= MaxPropertiesPerObject
                               /\ w.containers[i].propertyCount \in Nat
                               /\ w.containers[i].commaCount <= n + 1
    BY <1>2, <1>5, <1>9, ContainersTyped DEF Bounded, ScanGoesOn
  <1>11. CASE s.containerCount + 1 > MaxContainers
    <2>1. t.result = "containers" /\ t.containers = w.containers  BY <1>3, <1>11
    <2>2. ScanGoesOn(t)  BY <2>1 DEF ScanGoesOn
    <2>3. ASSUME NEW i \in 1 .. Len(t.containers)
          PROVE  /\ t.containers[i].propertyCount <= MaxPropertiesPerObject + 1
                 /\ t.containers[i].commaCount <= n + 1
      BY <1>2, <1>7, <1>10, <2>1
    <2>4. /\ t.containerCount <= MaxContainers + 1
          /\ t.totalPropertyCount <= MaxTotalProperties + 1
          /\ Len(t.containers) <= MaxNesting + 1
      BY <1>2, <1>3, <1>4, <1>6, <1>7, <1>8, <2>1
    <2>5. t \in ScanState /\ t.totalArrayElementCount <= MaxTotalElements  BY <1>3, <1>6
    <2>6. Bounded(t, n + 1)  BY <2>2, <2>3, <2>4, <2>5 DEF Bounded
    <2> QED  BY <2>6 DEF t
  <1>12. CASE s.containerCount + 1 <= MaxContainers
    <2>1. /\ t.containers = Append(w.containers, NewContainer(c))
          /\ t.result = IF k + 1 > MaxNesting THEN "nesting" ELSE "none"
      BY <1>3, <1>12
    <2>2. NewContainer(c) \in Container  BY DEF NewContainer, Container
    <2>3. /\ Len(t.containers) = k + 1
          /\ \A i \in 1 .. k : t.containers[i] = w.containers[i]
          /\ t.containers[k + 1] = NewContainer(c)
      BY <1>2, <1>4, <2>1, <2>2, Pushed
    <2>4. ASSUME NEW i \in 1 .. Len(t.containers)
          PROVE  /\ t.containers[i].propertyCount <= MaxPropertiesPerObject
                 /\ t.containers[i].propertyCount \in Nat
                 /\ t.containers[i].commaCount <= n + 1
      <3>1. CASE i \in 1 .. k  BY <1>10, <2>3, <3>1
      <3>2. CASE i = k + 1
        <4>1. t.containers[i].propertyCount = 0 /\ t.containers[i].commaCount = 0
          BY <2>3, <3>2 DEF NewContainer
        <4> QED  BY <4>1, <1>7
      <3> QED  BY <1>4, <2>3, <3>1, <3>2
    <2>5. ScanGoesOn(t)
      <3>1. CASE k + 1 > MaxNesting
        <4>1. t.result = "nesting"  BY <2>1, <3>1
        <4> QED  BY <4>1 DEF ScanGoesOn
      <3>2. CASE k + 1 <= MaxNesting
        BY <1>3, <1>6, <1>12, <2>3, <2>4, <3>2 DEF ScanGoesOn
      <3> QED  BY <1>4, <1>7, <3>1, <3>2
    <2>6. /\ t.containerCount <= MaxContainers + 1
          /\ t.totalPropertyCount <= MaxTotalProperties + 1
          /\ Len(t.containers) <= MaxNesting + 1
      BY <1>3, <1>4, <1>6, <1>7, <1>8, <2>3
    <2>7. \A i \in 1 .. Len(t.containers) :
              /\ t.containers[i].propertyCount <= MaxPropertiesPerObject + 1
              /\ t.containers[i].commaCount <= n + 1
      BY <2>4, <1>7
    <2>8. t \in ScanState /\ t.totalArrayElementCount <= MaxTotalElements  BY <1>3, <1>6
    <2>9. Bounded(t, n + 1)  BY <2>5, <2>6, <2>7, <2>8 DEF Bounded
    <2> QED  BY <2>9 DEF t
  <1> QED  BY <1>4, <1>7, <1>11, <1>12 DEF t

LEMMA PropertyIsBounded ==
    ASSUME NEW n \in Nat, NEW s, Bounded(s, n), s.result = "none", s.containers # <<>>
    PROVE  Bounded(CountProperty(s), n + 1)
  <1> DEFINE t == CountProperty(s)
             k == Len(s.containers)
  <1>1. s \in ScanState  BY DEF Bounded
  <1>2. /\ t \in ScanState /\ Len(t.containers) = k
        /\ \A i \in 1 .. k :
              t.containers[i] = IF i = k THEN [s.containers[i] EXCEPT !.propertyCount = @ + 1]
                                ELSE s.containers[i]
        /\ t.result = IF back(s).propertyCount + 1 > MaxPropertiesPerObject
                      THEN "objectProperties"
                      ELSE IF s.totalPropertyCount + 1 > MaxTotalProperties
                      THEN "properties" ELSE "none"
        /\ t.containerCount = s.containerCount
        /\ t.totalPropertyCount = s.totalPropertyCount + 1
        /\ t.totalArrayElementCount = s.totalArrayElementCount
    BY <1>1, CountPropertyFacts
  <1>3. /\ k \in Nat /\ s.containerCount \in Nat /\ s.totalPropertyCount \in Nat
        /\ \A i \in 1 .. k : /\ s.containers[i] \in Container
                              /\ s.containers[i].propertyCount \in Nat
                              /\ s.containers[i].commaCount \in Nat
    BY <1>1, ContainersTyped
  <1>4. /\ MaxContainers \in Nat /\ MaxNesting \in Nat /\ MaxPropertiesPerObject \in Nat
        /\ MaxTotalProperties \in Nat
    BY ComplexityAssumption
  <1>5. /\ k <= MaxNesting /\ s.containerCount <= MaxContainers
        /\ s.totalPropertyCount <= MaxTotalProperties
        /\ s.totalArrayElementCount <= MaxTotalElements
        /\ \A i \in 1 .. k : /\ s.containers[i].propertyCount <= MaxPropertiesPerObject
                              /\ s.containers[i].commaCount <= n
    BY DEF Bounded, ScanGoesOn
  <1>b. back(s) = s.containers[k]  BY DEF back
  <1> HIDE DEF t, k
  <1>6. ASSUME NEW i \in 1 .. k
        PROVE  /\ t.containers[i].commaCount = s.containers[i].commaCount
               /\ t.containers[i].propertyCount
                    = IF i = k THEN s.containers[i].propertyCount + 1
                      ELSE s.containers[i].propertyCount
    BY <1>2, <1>3 DEF Container
  <1>7. \A i \in 1 .. Len(t.containers) :
            /\ t.containers[i].propertyCount <= MaxPropertiesPerObject + 1
            /\ t.containers[i].commaCount <= n + 1
    <2> SUFFICES ASSUME NEW i \in 1 .. Len(t.containers)
                 PROVE  /\ t.containers[i].propertyCount <= MaxPropertiesPerObject + 1
                        /\ t.containers[i].commaCount <= n + 1
      OBVIOUS
    <2>1. i \in 1 .. k  BY <1>2
    <2>2. /\ s.containers[i].propertyCount <= MaxPropertiesPerObject
          /\ s.containers[i].commaCount <= n
          /\ s.containers[i].propertyCount \in Nat /\ s.containers[i].commaCount \in Nat
      BY <1>3, <1>5, <2>1
    <2>3. /\ t.containers[i].commaCount = s.containers[i].commaCount
          /\ t.containers[i].propertyCount \in {s.containers[i].propertyCount,
                                                s.containers[i].propertyCount + 1}
      BY <1>6, <2>1
    <2>4. t.containers[i].commaCount <= n + 1  BY <2>2, <2>3
    <2>5. CASE t.containers[i].propertyCount = s.containers[i].propertyCount
      BY <1>4, <2>2, <2>4, <2>5
    <2>6. CASE t.containers[i].propertyCount = s.containers[i].propertyCount + 1
      BY <1>4, <2>2, <2>4, <2>6
    <2> QED  BY <2>3, <2>5, <2>6
  <1>8. ScanGoesOn(t)
    <2> SUFFICES ASSUME t.result = "none" PROVE ScanGoesOn(t)  BY DEF ScanGoesOn
    <2>1. /\ ~(back(s).propertyCount + 1 > MaxPropertiesPerObject)
          /\ ~(s.totalPropertyCount + 1 > MaxTotalProperties)
      BY <1>2
    <2>2. \A i \in 1 .. k : t.containers[i].propertyCount <= MaxPropertiesPerObject
      <3> SUFFICES ASSUME NEW i \in 1 .. k
                   PROVE  t.containers[i].propertyCount <= MaxPropertiesPerObject
        OBVIOUS
      <3>1. CASE i = k
        <4>1. t.containers[i].propertyCount = back(s).propertyCount + 1  BY <1>6, <1>b, <3>1
        <4>2. back(s).propertyCount \in Nat  BY <1>3, <1>b, <3>1
        <4> QED  BY <1>4, <2>1, <4>1, <4>2
      <3>2. CASE i # k
        BY <1>5, <1>6, <3>2
      <3> QED  BY <3>1, <3>2
    <2>3. s.totalPropertyCount + 1 <= MaxTotalProperties  BY <1>3, <1>4, <2>1
    <2> QED  BY <1>2, <1>5, <2>2, <2>3 DEF ScanGoesOn
  <1>9. /\ t.containerCount <= MaxContainers + 1
        /\ t.totalPropertyCount <= MaxTotalProperties + 1
        /\ Len(t.containers) <= MaxNesting + 1
    <2>1. /\ t.containerCount = s.containerCount /\ Len(t.containers) = k
          /\ t.totalPropertyCount = s.totalPropertyCount + 1
      BY <1>2
    <2>2. /\ k <= MaxNesting /\ s.containerCount <= MaxContainers
          /\ s.totalPropertyCount <= MaxTotalProperties
      BY <1>5
    <2>3. k \in Nat /\ s.containerCount \in Nat /\ s.totalPropertyCount \in Nat  BY <1>3
    <2> QED  BY <1>4, <2>1, <2>2, <2>3
  <1>10. Bounded(t, n + 1)  BY <1>2, <1>5, <1>7, <1>8, <1>9 DEF Bounded
  <1> QED  BY <1>10 DEF t

LEMMA CommaIsBounded ==
    ASSUME NEW n \in Nat, NEW s, Bounded(s, n), s.result = "none", s.containers # <<>>
    PROVE  Bounded(CountComma(s), n + 1)
  <1> DEFINE t == CountComma(s)
             k == Len(s.containers)
  <1>1. s \in ScanState  BY DEF Bounded
  <1>2. /\ t \in ScanState /\ Len(t.containers) = k
        /\ \A i \in 1 .. k :
              t.containers[i] = IF i = k THEN [s.containers[i] EXCEPT !.commaCount = @ + 1]
                                ELSE s.containers[i]
        /\ SameTotals(s, t)
    BY <1>1, CountCommaFacts
  <1>3. /\ k \in Nat
        /\ \A i \in 1 .. k : /\ s.containers[i] \in Container
                              /\ s.containers[i].commaCount \in Nat
                              /\ s.containers[i].commaCount <= n
                              /\ s.containers[i].propertyCount <= MaxPropertiesPerObject + 1
    BY <1>1, ContainersTyped DEF Bounded
  <1> HIDE DEF t, k
  <1>4. ASSUME NEW i \in 1 .. k
        PROVE  /\ t.containers[i].propertyCount = s.containers[i].propertyCount
               /\ t.containers[i].commaCount \in {s.containers[i].commaCount,
                                                  s.containers[i].commaCount + 1}
    BY <1>2, <1>3 DEF Container
  <1>5. \A i \in 1 .. Len(t.containers) :
            /\ t.containers[i].propertyCount <= MaxPropertiesPerObject + 1
            /\ t.containers[i].commaCount <= n + 1
    BY <1>2, <1>3, <1>4
  <1>6. ScanGoesOn(t)  BY <1>2, <1>4 DEF Bounded, ScanGoesOn, SameTotals, k
  <1>7. Bounded(t, n + 1)  BY <1>2, <1>5, <1>6 DEF Bounded, SameTotals, k
  <1> QED  BY <1>7 DEF t

LEMMA CloseIsBounded ==
    ASSUME NEW n \in Nat, NEW s, Bounded(s, n), s.result = "none", s.containers # <<>>
    PROVE  Bounded(Close(s), n + 1)
  <1> DEFINE t == Close(s)
             k == Len(s.containers)
  <1>1. s \in ScanState /\ s.totalArrayElementCount <= MaxTotalElements  BY DEF Bounded
  <1>2. /\ t \in ScanState /\ Len(t.containers) = k - 1
        /\ \A i \in 1 .. k - 1 : t.containers[i] = s.containers[i]
        /\ t.containerCount = s.containerCount
        /\ t.totalPropertyCount = s.totalPropertyCount
        /\ \/ t.totalArrayElementCount = s.totalArrayElementCount
           \/ /\ t.totalArrayElementCount = s.totalArrayElementCount + Elements(s)
              /\ s.totalArrayElementCount + Elements(s) <= MaxTotalElements
    BY <1>1, CloseFacts
  <1>3. /\ k \in Nat /\ s.containerCount \in Nat /\ s.totalPropertyCount \in Nat
        /\ \A i \in 1 .. k : /\ s.containers[i].commaCount \in Nat
                              /\ s.containers[i].commaCount <= n
                              /\ s.containers[i].propertyCount <= MaxPropertiesPerObject
        /\ k <= MaxNesting /\ s.containerCount <= MaxContainers
        /\ s.totalPropertyCount <= MaxTotalProperties
    BY <1>1, ContainersTyped DEF Bounded, ScanGoesOn
  <1>4. /\ MaxContainers \in Nat /\ MaxNesting \in Nat /\ MaxPropertiesPerObject \in Nat
        /\ MaxTotalProperties \in Nat
    BY ComplexityAssumption
  <1>p. \A i \in 1 .. k : s.containers[i].propertyCount \in Nat  BY <1>1, ContainersTyped
  <1> HIDE DEF t, k
  <1>5. \A i \in 1 .. Len(t.containers) :
            /\ t.containers[i] = s.containers[i] /\ i \in 1 .. k
    BY <1>2, <1>3
  <1>6. \A i \in 1 .. Len(t.containers) :
            /\ t.containers[i].propertyCount <= MaxPropertiesPerObject
            /\ t.containers[i].propertyCount <= MaxPropertiesPerObject + 1
            /\ t.containers[i].commaCount <= n + 1
    BY <1>3, <1>4, <1>5, <1>p
  <1>7. /\ t.containerCount <= MaxContainers /\ t.containerCount <= MaxContainers + 1
        /\ t.totalPropertyCount <= MaxTotalProperties
        /\ t.totalPropertyCount <= MaxTotalProperties + 1
        /\ Len(t.containers) <= MaxNesting /\ Len(t.containers) <= MaxNesting + 1
    BY <1>2, <1>3, <1>4
  <1>8. ScanGoesOn(t)  BY <1>6, <1>7 DEF ScanGoesOn
  <1>9. t.totalArrayElementCount <= MaxTotalElements  BY <1>1, <1>2
  <1>10. Bounded(t, n + 1)  BY <1>2, <1>6, <1>7, <1>8, <1>9 DEF Bounded
  <1> QED  BY <1>10 DEF t

\* One character of any text.
LEMMA ScanStaysBounded ==
    ASSUME NEW n \in Nat, NEW s, Bounded(s, n), s.result = "none", NEW c \in Characters
    PROVE  Bounded(Scan(s, c), n + 1)
  <1>1. s \in ScanState /\ s.insideString \in BOOLEAN
    BY ContainersTyped DEF Bounded
  <1>u. Bounded(s, n + 1)
    <2>1. SameTotals(s, s)  BY DEF SameTotals
    <2> QED  BY <1>1, <2>1, MarkedIsBounded
  <1>w. Bounded(WithContent(s), n + 1)
    <2>1. /\ WithContent(s) \in ScanState /\ SameTotals(s, WithContent(s))
          /\ Len(WithContent(s).containers) = Len(s.containers)
          /\ \A i \in 1 .. Len(s.containers) :
                 \/ WithContent(s).containers[i] = s.containers[i]
                 \/ WithContent(s).containers[i] = [s.containers[i] EXCEPT !.hasContent = TRUE]
      BY <1>1, WithContentFacts
    <2> QED  BY <2>1, MarkedIsBounded
  <1>2. CASE s.insideString
    <2>1. /\ Scan(s, c) \in ScanState /\ SameTotals(s, Scan(s, c))
          /\ Scan(s, c).containers = s.containers
      <3>1. Scan(s, c) = ScanString(s, c)  BY <1>1, <1>2, ScanCases
      <3> QED  BY <1>1, <3>1, ScanStringFacts
    <2> QED  BY <2>1, MarkedIsBounded
  <1>3. CASE ~s.insideString /\ c = "quote"
    <2> DEFINE t == [WithContent(s) EXCEPT !.insideString = TRUE]
    <2>1. /\ t \in ScanState /\ t.containers = WithContent(s).containers /\ SameTotals(s, t)
      BY <1>1, StringBegins
    <2>2. Scan(s, c) = t  BY <1>1, <1>3, ScanCases
    <2> HIDE DEF t
    <2>3. /\ Len(t.containers) = Len(s.containers)
          /\ \A i \in 1 .. Len(s.containers) :
                 \/ t.containers[i] = s.containers[i]
                 \/ t.containers[i] = [s.containers[i] EXCEPT !.hasContent = TRUE]
      BY <1>1, <2>1, WithContentFacts
    <2>4. Bounded(t, n + 1)  BY <2>1, <2>3, MarkedIsBounded
    <2> QED  BY <2>2, <2>4
  <1>4. CASE ~s.insideString /\ c \in Openers
    <2>1. Scan(s, c) = Open(s, c)  BY <1>1, <1>4, ScanCases
    <2> QED  BY <1>4, <2>1, OpenIsBounded
  <1>5. CASE ~s.insideString /\ c = "colon"
    <2>1. Scan(s, c) = IF InObject(s) THEN CountProperty(s) ELSE s
      BY <1>1, <1>5, ScanCases
    <2>2. InObject(s) => Bounded(CountProperty(s), n + 1)
      BY PropertyIsBounded DEF InObject
    <2> QED  BY <1>u, <2>1, <2>2
  <1>6. CASE ~s.insideString /\ c = "comma"
    <2>1. Scan(s, c) = IF InArray(s) THEN CountComma(s) ELSE s
      BY <1>1, <1>6, ScanCases
    <2>2. InArray(s) => Bounded(CountComma(s), n + 1)
      BY CommaIsBounded DEF InArray
    <2> QED  BY <1>u, <2>1, <2>2
  <1>7. CASE ~s.insideString /\ c \in Closers
    <2>1. Scan(s, c) = IF s.containers # <<>> /\ back(s).openingCharacter = OpenerOf(c)
                       THEN Close(s) ELSE s
      BY <1>1, <1>7, ScanCases
    <2>2. s.containers # <<>> => Bounded(Close(s), n + 1)  BY CloseIsBounded
    <2> QED  BY <1>u, <2>1, <2>2
  <1>8. CASE ~s.insideString /\ c \in {"backslash", "other"}
    BY <1>1, <1>8, <1>w, ScanCases
  <1>9. CASE ~s.insideString /\ c = "space"
    BY <1>1, <1>9, <1>u, ScanCases
  <1> QED  BY <1>1, <1>2, <1>3, <1>4, <1>5, <1>6, <1>7, <1>8, <1>9, CharacterClasses
----------------------------------------------------------------------------
(* The operations of the grammar. *)

OpenContainer == [kind : Openers, count : Nat]

SameCounts(g, h) ==
    /\ h.containers = g.containers /\ h.depth = g.depth /\ h.members = g.members
    /\ h.largestObject = g.largestObject
    /\ h.elements = g.elements /\ h.largestArray = g.largestArray

LEMMA GrammarTyped ==
    ASSUME NEW g \in GrammarState
    PROVE  /\ g.open \in Seq(OpenContainer) /\ Len(g.open) \in Nat
           /\ \A i \in 1 .. Len(g.open) : /\ g.open[i] \in OpenContainer
                                         /\ g.open[i].kind \in Openers
                                         /\ g.open[i].count \in Nat
           /\ g.open # <<>> => Len(g.open) \in Nat \ {0} /\ top(g) = g.open[Len(g.open)]
           /\ g.at \in Places /\ g.escape \in BOOLEAN
           /\ g.containers \in Nat /\ g.depth \in Nat /\ g.members \in Nat
           /\ g.largestObject \in Nat /\ g.elements \in Nat /\ g.largestArray \in Nat
  <1>1. g.open \in Seq(OpenContainer)  BY DEF GrammarState, OpenContainer
  <1>2. \A i \in 1 .. Len(g.open) : g.open[i] \in OpenContainer  BY <1>1
  <1>3. g.open # <<>> => Len(g.open) \in Nat \ {0}  BY <1>1
  <1> QED  BY <1>1, <1>2, <1>3 DEF GrammarState, OpenContainer, top

LEMMA LargerFacts ==
    ASSUME NEW m \in Nat, NEW n \in Nat
    PROVE  Larger(m, n) \in {m, n} /\ Larger(m, n) >= m /\ Larger(m, n) >= n
  BY DEF Larger

LEMMA CountedFacts ==
    ASSUME NEW g \in GrammarState, g.open # <<>>
    PROVE  /\ Counted(g) \in GrammarState
           /\ Len(Counted(g).open) = Len(g.open)
           /\ \A i \in 1 .. Len(g.open) :
                 Counted(g).open[i] = IF i = Len(g.open)
                                      THEN [g.open[i] EXCEPT !.count = @ + 1] ELSE g.open[i]
           /\ SameCounts(g, Counted(g))
           /\ Counted(g).at = g.at /\ Counted(g).escape = g.escape
  <1> DEFINE stack == g.open
             e == [stack[Len(stack)] EXCEPT !.count = @ + 1]
             changed == [stack EXCEPT ![Len(stack)] = e]
  <1>1. stack \in Seq(OpenContainer) /\ stack # <<>>  BY DEF GrammarState, OpenContainer
  <1>2. Len(stack) \in Nat \ {0} /\ stack[Len(stack)] \in OpenContainer  BY <1>1
  <1>3. e \in OpenContainer  BY <1>2 DEF OpenContainer
  <1>4. Counted(g) = [g EXCEPT !.open = changed]  BY DEF Counted
  <1>5. /\ changed \in Seq(OpenContainer) /\ Len(changed) = Len(stack)
        /\ \A i \in 1 .. Len(stack) : changed[i] = IF i = Len(stack) THEN e ELSE stack[i]
    BY <1>1, <1>3, TopReplaced
  <1> HIDE DEF changed
  <1>6. Counted(g).open = changed  BY <1>4 DEF GrammarState
  <1>7. Counted(g) \in GrammarState  BY <1>4, <1>5 DEF GrammarState, OpenContainer
  <1>8. /\ SameCounts(g, Counted(g))
        /\ Counted(g).at = g.at /\ Counted(g).escape = g.escape
    BY <1>4 DEF GrammarState, SameCounts
  <1> QED  BY <1>5, <1>6, <1>7, <1>8

LEMMA InParentFacts ==
    ASSUME NEW g \in GrammarState, NEW c \in Characters
    PROVE  /\ InParent(g, c) \in GrammarState
           /\ Len(InParent(g, c).open) = Len(g.open)
           /\ \A i \in 1 .. Len(g.open) :
                 InParent(g, c).open[i] =
                     IF i = Len(g.open) /\ g.open[i].kind = "openBracket"
                     THEN [g.open[i] EXCEPT !.count = @ + 1] ELSE g.open[i]
           /\ SameCounts(g, InParent(g, c))
           /\ InParent(g, c).escape = g.escape
  <1>1. CASE g.open = <<>>
    <2>1. InParent(g, c) = [g EXCEPT !.root = c]  BY <1>1 DEF InParent
    <2>2. Len(g.open) = 0  BY <1>1
    <2> QED  BY <2>1, <2>2 DEF GrammarState, SameCounts
  <1>2. CASE g.open # <<>> /\ Within(g, "openBracket")
    <2>1. InParent(g, c) = Counted(g)  BY <1>2 DEF InParent
    <2>2. g.open[Len(g.open)].kind = "openBracket"  BY <1>2 DEF Within, top
    <2> QED  BY <1>2, <2>1, <2>2, CountedFacts
  <1>3. CASE g.open # <<>> /\ ~Within(g, "openBracket")
    <2>1. InParent(g, c) = g  BY <1>3 DEF InParent
    <2>2. g.open[Len(g.open)].kind # "openBracket"  BY <1>3 DEF Within, top
    <2> QED  BY <2>1, <2>2 DEF SameCounts
  <1> QED  BY <1>1, <1>2, <1>3

\* The grammar has moved on to another place, and nothing else has changed.
Moved(g, h, at) ==
    /\ h \in GrammarState /\ h.open = g.open /\ SameCounts(g, h)
    /\ h.escape = g.escape /\ h.at = at

LEMMA PlaceChanged ==
    ASSUME NEW g \in GrammarState, NEW at \in Places, NEW h, h = [g EXCEPT !.at = at]
    PROVE  Moved(g, h, at)
  BY DEF GrammarState, SameCounts, Moved

LEMMA BeginScalarOrString ==
    ASSUME NEW g \in GrammarState, NEW c \in {"quote", "other"}
    PROVE  Moved(InParent(g, c), BeginValue(g, c), IF c = "quote" THEN "string" ELSE "scalar")
  <1>1. c \in Characters  BY DEF Characters
  <1>2. InParent(g, c) \in GrammarState  BY <1>1, InParentFacts
  <1>3. CASE c = "quote"
    <2>1. BeginValue(g, c) = [InParent(g, c) EXCEPT !.at = "string"]
      BY <1>3 DEF BeginValue, Openers
    <2> QED  BY <1>2, <1>3, <2>1, PlaceChanged DEF Places
  <1>4. CASE c = "other"
    <2>1. BeginValue(g, c) = [InParent(g, c) EXCEPT !.at = "scalar"]
      BY <1>4 DEF BeginValue, Openers
    <2> QED  BY <1>2, <1>4, <2>1, PlaceChanged DEF Places
  <1> QED  BY <1>3, <1>4

LEMMA BeginContainerFacts ==
    ASSUME NEW g \in GrammarState, NEW c \in Openers
    PROVE  /\ BeginValue(g, c) \in GrammarState
           /\ BeginValue(g, c).at = IF c = "openBrace" THEN "firstKey" ELSE "firstElement"
           /\ BeginValue(g, c).open = Append(InParent(g, c).open, [kind |-> c, count |-> 0])
           /\ BeginValue(g, c).containers = g.containers + 1
           /\ BeginValue(g, c).depth \in {g.depth, Len(g.open) + 1}
           /\ BeginValue(g, c).depth >= Len(g.open) + 1
           /\ BeginValue(g, c).members = g.members
           /\ BeginValue(g, c).largestObject = g.largestObject
           /\ BeginValue(g, c).elements = g.elements
           /\ BeginValue(g, c).largestArray = g.largestArray
           /\ BeginValue(g, c).escape = g.escape
  <1> DEFINE p == InParent(g, c)
             at == IF c = "openBrace" THEN "firstKey" ELSE "firstElement"
             stack == Append(p.open, [kind |-> c, count |-> 0])
             m == g.containers + 1
             d == Larger(g.depth, Len(g.open) + 1)
             h == BeginValue(g, c)
  <1>1. c \in Characters  BY DEF Characters
  <1>2. /\ p \in GrammarState /\ SameCounts(g, p) /\ p.escape = g.escape
    BY <1>1, InParentFacts
  <1>3. p.open \in Seq(OpenContainer)  BY <1>2, GrammarTyped
  <1>4. [kind |-> c, count |-> 0] \in OpenContainer  BY DEF OpenContainer
  <1>5. stack \in Seq(OpenContainer)  BY <1>3, <1>4, Pushed
  <1>6. /\ m \in Nat /\ d \in Nat
        /\ d \in {g.depth, Len(g.open) + 1} /\ d >= Len(g.open) + 1
    BY GrammarTyped, LargerFacts
  <1>7. at \in Places  BY DEF Places
  <1>8. h = [p EXCEPT !.at = at, !.open = stack, !.containers = m, !.depth = d]
    <2>1. p.containers = g.containers /\ p.depth = g.depth  BY <1>2 DEF SameCounts
    <2> QED  BY <2>1 DEF BeginValue, Openers
  <1> HIDE DEF p, at, stack, m, d, h
  <1>9. h \in GrammarState  BY <1>2, <1>5, <1>6, <1>7, <1>8 DEF GrammarState, OpenContainer
  <1>10. /\ h.at = at /\ h.open = stack /\ h.containers = m /\ h.depth = d
         /\ h.members = p.members /\ h.largestObject = p.largestObject
         /\ h.elements = p.elements /\ h.largestArray = p.largestArray /\ h.escape = p.escape
    BY <1>2, <1>8 DEF GrammarState
  <1>11. /\ h.members = g.members /\ h.largestObject = g.largestObject
         /\ h.elements = g.elements /\ h.largestArray = g.largestArray /\ h.escape = g.escape
    BY <1>2, <1>10 DEF SameCounts
  <1> QED  BY <1>6, <1>9, <1>10, <1>11 DEF h, at, stack, m, d, p

LEMMA BeginKeyFacts ==
    ASSUME NEW g \in GrammarState, g.open # <<>>
    PROVE  /\ BeginKey(g) \in GrammarState /\ BeginKey(g).at = "key"
           /\ BeginKey(g).open = Counted(g).open
           /\ BeginKey(g).members = g.members + 1
           /\ BeginKey(g).largestObject \in {g.largestObject, top(g).count + 1}
           /\ BeginKey(g).largestObject >= top(g).count + 1
           /\ BeginKey(g).containers = g.containers /\ BeginKey(g).depth = g.depth
           /\ BeginKey(g).elements = g.elements
           /\ BeginKey(g).largestArray = g.largestArray
           /\ BeginKey(g).escape = g.escape
  <1> DEFINE p == Counted(g)
             m == g.members + 1
             l == Larger(g.largestObject, top(g).count + 1)
             h == BeginKey(g)
  <1>1. p \in GrammarState /\ SameCounts(g, p) /\ p.escape = g.escape  BY CountedFacts
  <1>2. top(g).count + 1 \in Nat /\ g.largestObject \in Nat /\ m \in Nat
    BY GrammarTyped
  <1>3. l \in Nat /\ l \in {g.largestObject, top(g).count + 1} /\ l >= top(g).count + 1
    BY <1>2, LargerFacts
  <1>4. h = [p EXCEPT !.at = "key", !.members = m, !.largestObject = l]
    BY <1>1 DEF BeginKey, SameCounts
  <1> HIDE DEF p, m, l, h
  <1>5. h \in GrammarState  BY <1>1, <1>2, <1>3, <1>4 DEF GrammarState, Places
  <1>6. /\ h.at = "key" /\ h.open = p.open /\ h.members = m /\ h.largestObject = l
        /\ h.containers = p.containers /\ h.depth = p.depth /\ h.elements = p.elements
        /\ h.largestArray = p.largestArray /\ h.escape = p.escape
    BY <1>1, <1>4 DEF GrammarState
  <1>7. /\ h.containers = g.containers /\ h.depth = g.depth /\ h.elements = g.elements
        /\ h.largestArray = g.largestArray /\ h.escape = g.escape
    BY <1>1, <1>6 DEF SameCounts
  <1> QED  BY <1>3, <1>5, <1>6, <1>7 DEF h, p, m, l

\* The elements of the array that ends, for the grammar.
EndedElements(g) == IF top(g).kind = "openBrace" THEN 0 ELSE top(g).count

LEMMA EndContainerFacts ==
    ASSUME NEW g \in GrammarState, g.open # <<>>
    PROVE  /\ EndContainer(g) \in GrammarState /\ EndContainer(g).at = "after"
           /\ Len(EndContainer(g).open) = Len(g.open) - 1
           /\ \A i \in 1 .. Len(g.open) - 1 : EndContainer(g).open[i] = g.open[i]
           /\ EndContainer(g).elements = g.elements + EndedElements(g)
           /\ EndContainer(g).largestArray \in {g.largestArray, EndedElements(g)}
           /\ EndContainer(g).largestArray >= EndedElements(g)
           /\ EndContainer(g).containers = g.containers /\ EndContainer(g).depth = g.depth
           /\ EndContainer(g).members = g.members
           /\ EndContainer(g).largestObject = g.largestObject
           /\ EndContainer(g).escape = g.escape
  <1> DEFINE below == SubSeq(g.open, 1, Len(g.open) - 1)
             after == [g EXCEPT !.at = "after", !.open = below]
             n == top(g).count
             h == EndContainer(g)
  <1>1. /\ below \in Seq(OpenContainer) /\ Len(below) = Len(g.open) - 1
        /\ \A i \in 1 .. Len(g.open) - 1 : below[i] = g.open[i]
    BY GrammarTyped, Popped
  <1>2. n \in Nat /\ g.elements \in Nat /\ g.largestArray \in Nat  BY GrammarTyped
  <1> HIDE DEF below, n
  <1>3. CASE top(g).kind = "openBrace"
    <2>1. h = after  BY <1>3 DEF EndContainer, below
    <2>2. after \in GrammarState  BY <1>1 DEF GrammarState, OpenContainer, Places
    <2>3. EndedElements(g) = 0  BY <1>3 DEF EndedElements
    <2>4. /\ h \in GrammarState /\ h.at = "after" /\ h.open = below
          /\ h.elements = g.elements /\ h.largestArray = g.largestArray
          /\ h.containers = g.containers /\ h.depth = g.depth /\ h.members = g.members
          /\ h.largestObject = g.largestObject /\ h.escape = g.escape
      BY <2>1, <2>2 DEF GrammarState
    <2> QED  BY <1>1, <1>2, <2>3, <2>4
  <1>4. CASE top(g).kind # "openBrace"
    <2> DEFINE m == g.elements + n
               l == Larger(g.largestArray, n)
    <2>1. m \in Nat /\ l \in Nat /\ l \in {g.largestArray, n} /\ l >= n
      BY <1>2, LargerFacts
    <2>2. h = [g EXCEPT !.at = "after", !.open = below, !.elements = m, !.largestArray = l]
      BY <1>4 DEF EndContainer, below, n, GrammarState
    <2> HIDE DEF m, l
    <2>3. h \in GrammarState
      BY <1>1, <2>1, <2>2 DEF GrammarState, OpenContainer, Places
    <2>4. /\ h.at = "after" /\ h.open = below /\ h.elements = m /\ h.largestArray = l
          /\ h.containers = g.containers /\ h.depth = g.depth /\ h.members = g.members
          /\ h.largestObject = g.largestObject /\ h.escape = g.escape
      BY <2>2 DEF GrammarState
    <2>5. EndedElements(g) = n  BY <1>4 DEF EndedElements, n
    <2> QED  BY <1>1, <2>1, <2>3, <2>4, <2>5 DEF m
  <1> QED  BY <1>3, <1>4

LEMMA StringCharacterFacts ==
    ASSUME NEW g \in GrammarState, g.at \in {"key", "string"}, NEW c \in Characters
    PROVE  /\ StringCharacter(g, c) \in GrammarState
           /\ StringCharacter(g, c).open = g.open
           /\ SameCounts(g, StringCharacter(g, c))
           /\ StringCharacter(g, c).escape = (~g.escape /\ c = "backslash")
           /\ StringCharacter(g, c).at =
                 IF g.escape \/ c # "quote" THEN g.at
                 ELSE IF g.at = "key" THEN "afterKey" ELSE "after"
  <1>0. g.escape \in BOOLEAN  BY DEF GrammarState
  <1>1. CASE g.escape
    BY <1>1 DEF StringCharacter, GrammarState, SameCounts
  <1>2. CASE ~g.escape /\ c = "backslash"
    BY <1>2 DEF StringCharacter, GrammarState, SameCounts
  <1>3. CASE ~g.escape /\ c = "quote"
    <2> DEFINE at == IF g.at = "key" THEN "afterKey" ELSE "after"
    <2>1. StringCharacter(g, c) = [g EXCEPT !.at = at]  BY <1>3 DEF StringCharacter
    <2>2. at \in Places  BY DEF Places
    <2> HIDE DEF at
    <2>3. Moved(g, StringCharacter(g, c), at)  BY <2>1, <2>2, PlaceChanged
    <2>4. StringCharacter(g, c).escape = g.escape  BY <2>3 DEF Moved
    <2>5. StringCharacter(g, c).escape = (~g.escape /\ c = "backslash")
      BY <1>0, <1>3, <2>4
    <2> QED  BY <1>3, <2>3, <2>5 DEF Moved, at
  <1>4. CASE ~g.escape /\ c # "backslash" /\ c # "quote"
    BY <1>4 DEF StringCharacter, GrammarState, SameCounts
  <1> QED  BY <1>0, <1>1, <1>2, <1>3, <1>4

\* What the grammar does with a character, by the place where it is.
LEMMA ParseCases ==
    ASSUME NEW g \in GrammarState, NEW c \in Characters
    PROVE  \/ g.at \in {"key", "string"} /\ Parse(g, c) = StringCharacter(g, c)
           \/ /\ g.at \in {"value", "firstElement"}
              /\ c \in Openers \union {"quote", "other"} /\ Parse(g, c) = BeginValue(g, c)
           \/ /\ g.at \in {"firstKey", "nextKey"} /\ c = "quote"
              /\ Parse(g, c) = BeginKey(g)
           \/ /\ g.at = "afterKey" /\ c = "colon"
              /\ Parse(g, c) = [g EXCEPT !.at = "value"]
           \/ /\ g.at \in {"after", "scalar"} /\ c = "comma" /\ g.open # <<>>
              /\ Parse(g, c)
                   = [g EXCEPT !.at = IF Within(g, "openBrace") THEN "nextKey" ELSE "value"]
           \/ /\ c \in Closers /\ Within(g, OpenerOf(c))
              /\ g.at \in {"after", "scalar",
                           IF c = "closeBrace" THEN "firstKey" ELSE "firstElement"}
              /\ Parse(g, c) = EndContainer(g)
           \/ g.at = "scalar" /\ c = "other" /\ Parse(g, c) = g
           \/ /\ c = "space" /\ g.at \notin {"key", "string"}
              /\ Parse(g, c) = [g EXCEPT !.at = IF @ = "scalar" THEN "after" ELSE @]
           \/ Parse(g, c) = Malformed(g)
  <1>1. CASE g.at \in {"key", "string"}
    BY <1>1 DEF Parse
  <1>2. CASE /\ g.at \in {"value", "firstElement"}
             /\ c \in Openers \union {"quote", "other"}
    <2>1. g.at \notin {"key", "string", "firstKey", "nextKey", "afterKey", "after", "scalar"}
      BY <1>2
    <2>2. c \notin Closers /\ c # "space"  BY <1>2 DEF Openers, Closers
    <2>3. Parse(g, c) = BeginValue(g, c)
      <3> DEFINE value == /\ g.at \in {"value", "firstElement"}
                          /\ c \in Openers \union {"quote", "other"}
      <3>1. value  BY <1>2
      <3> QED  BY <1>2, <2>1, <2>2, <3>1 DEF Parse
    <2> QED  BY <1>2, <2>3
  <1>3. CASE g.at \in {"firstKey", "nextKey"} /\ c = "quote"
    BY <1>3 DEF Parse
  <1>4. CASE g.at = "afterKey" /\ c = "colon"
    BY <1>4 DEF Parse
  <1>5. CASE g.at \in {"after", "scalar"} /\ c = "comma" /\ g.open # <<>>
    <2> DEFINE at == IF Within(g, "openBrace") THEN "nextKey" ELSE "value"
    <2>1. c \notin Closers  BY <1>5 DEF Closers
    <2>2. Parse(g, c) = [g EXCEPT !.at = at]  BY <1>5, <2>1 DEF Parse
    <2> QED  BY <1>5, <2>2
  <1>6. CASE /\ c \in Closers /\ Within(g, OpenerOf(c))
             /\ g.at \in {"after", "scalar",
                          IF c = "closeBrace" THEN "firstKey" ELSE "firstElement"}
    BY <1>6 DEF Parse, Openers, Closers
  <1>7. CASE g.at = "scalar" /\ c = "other"
    BY <1>7 DEF Parse, Openers, Closers
  <1>8. CASE c = "space" /\ g.at \notin {"key", "string"}
    BY <1>8 DEF Parse, Openers, Closers
  <1>9. CASE /\ g.at \notin {"key", "string"}
             /\ ~(g.at \in {"value", "firstElement"} /\ c \in Openers \union {"quote", "other"})
             /\ ~(g.at \in {"firstKey", "nextKey"} /\ c = "quote")
             /\ ~(g.at = "afterKey" /\ c = "colon")
             /\ ~(g.at \in {"after", "scalar"} /\ c = "comma" /\ g.open # <<>>)
             /\ ~(/\ c \in Closers /\ Within(g, OpenerOf(c))
                  /\ g.at \in {"after", "scalar",
                               IF c = "closeBrace" THEN "firstKey" ELSE "firstElement"})
             /\ ~(g.at = "scalar" /\ c = "other")
             /\ ~(c = "space")
    <2>1. Parse(g, c) = Malformed(g)  BY <1>9 DEF Parse
    <2> QED  BY <2>1
  <1> QED  BY <1>1, <1>2, <1>3, <1>4, <1>5, <1>6, <1>7, <1>8, <1>9
----------------------------------------------------------------------------
(* The scan simulates the grammar. *)

Simulates(s, g, n) ==
    /\ Bounded(s, n) /\ s.result = "none"
    /\ g \in GrammarState /\ g.at # "malformed" /\ Agree(s, g)

\* What the grammar has counted exceeds the limit for which the scan refuses.
Beyond(r, g) ==
    \/ r = "nesting" /\ g.depth > MaxNesting
    \/ r = "containers" /\ g.containers > MaxContainers
    \/ r = "objectProperties" /\ g.largestObject > MaxPropertiesPerObject
    \/ r = "properties" /\ g.members > MaxTotalProperties
    \/ r = "arrayElements" /\ g.largestArray > MaxArrayElements
    \/ r = "elements" /\ g.elements > MaxTotalElements

Follows(s, g) ==
    /\ g \in GrammarState
    /\ g.at # "malformed" => IF s.result = "none" THEN Agree(s, g) ELSE Beyond(s.result, g)

\* What agreement says of the innermost container.
Corresponds(s, g) ==
    /\ s \in ScanState /\ g \in GrammarState
    /\ Len(s.containers) = Len(g.open) /\ Len(g.open) \in Nat
    /\ (s.containers = <<>>) = (g.open = <<>>)
    /\ s.insideString <=> g.at \in {"key", "string"}
    /\ s.escaped = g.escape
    /\ g.open # <<>> => /\ top(g) = g.open[Len(g.open)] /\ back(s) = s.containers[Len(g.open)]
                        /\ Len(g.open) \in 1 .. Len(g.open)
                        /\ back(s).openingCharacter = top(g).kind
                        /\ ContainerAgrees(back(s), top(g), g.at)
                        /\ back(s) \in Container /\ top(g) \in OpenContainer

LEMMA AgreeFacts ==
    ASSUME NEW n, NEW s, NEW g, Simulates(s, g, n)
    PROVE  /\ Corresponds(s, g)
           /\ \A i \in 1 .. Len(g.open) :
                 ContainerAgrees(s.containers[i], g.open[i], PlaceIn(g, i))
  <1>1. s \in ScanState /\ g \in GrammarState /\ ContainersAgree(s, g) /\ StringsAgree(s, g)
    BY DEF Simulates, Bounded, Agree
  <1>2. Len(s.containers) = Len(g.open) /\ Len(g.open) \in Nat
    BY <1>1, GrammarTyped DEF ContainersAgree
  <1>3. (s.containers = <<>>) = (g.open = <<>>)
    <2>1. s.containers \in Seq(Container) /\ g.open \in Seq(OpenContainer)
      BY <1>1, GrammarTyped, ContainersTyped
    <2> QED  BY <1>2, <2>1
  <1>4. \A i \in 1 .. Len(g.open) :
            ContainerAgrees(s.containers[i], g.open[i], PlaceIn(g, i))
    BY <1>1 DEF ContainersAgree
  <1>5. s.insideString <=> g.at \in {"key", "string"}  BY <1>1 DEF StringsAgree
  <1>6. s.escaped = g.escape  BY <1>1 DEF StringsAgree
  <1>7. ASSUME g.open # <<>>
        PROVE  /\ top(g) = g.open[Len(g.open)] /\ back(s) = s.containers[Len(g.open)]
               /\ Len(g.open) \in 1 .. Len(g.open)
               /\ back(s).openingCharacter = top(g).kind
               /\ ContainerAgrees(back(s), top(g), g.at)
               /\ back(s) \in Container /\ top(g) \in OpenContainer
    <2>1. Len(g.open) \in 1 .. Len(g.open)  BY <1>1, <1>7, GrammarTyped
    <2>2. top(g) = g.open[Len(g.open)] /\ back(s) = s.containers[Len(g.open)]
      BY <1>2 DEF top, back
    <2>3. PlaceIn(g, Len(g.open)) = g.at  BY DEF PlaceIn
    <2>4. back(s) \in Container /\ top(g) \in OpenContainer
      BY <1>1, <1>2, <2>1, <2>2, GrammarTyped, ContainersTyped
    <2>5. ContainerAgrees(back(s), top(g), g.at)  BY <1>4, <2>1, <2>2, <2>3
    <2>6. back(s).openingCharacter = top(g).kind  BY <2>5 DEF ContainerAgrees
    <2> QED  BY <2>1, <2>2, <2>4, <2>5, <2>6
  <1>8. Corresponds(s, g)  BY <1>1, <1>2, <1>3, <1>5, <1>6, <1>7 DEF Corresponds
  <1> QED  BY <1>4, <1>8

LEMMA LimitFacts ==
    ASSUME NEW n, NEW s, NEW g, Simulates(s, g, n)
    PROVE  CountsAgree(s, g) /\ LimitsKept(g)
  BY DEF Simulates, Agree

LEMMA Awaiting ==
    ASSUME NEW at
    PROVE  /\ at \in {"key", "afterKey"} => Awaited(at) = 1
           /\ at \notin {"key", "afterKey"} => Awaited(at) = 0
           /\ Awaited(at) \in Nat
  BY DEF Awaited

\* In these places a container has got all that was begun in it, or awaits the
\* same colon.
LEMMA SamePlace ==
    ASSUME NEW x, NEW y, NEW at1, NEW at2, ContainerAgrees(x, y, at1),
           \/ at1 = at2
           \/ {at1, at2} \subseteq {"string", "scalar", "after"}
           \/ {at1, at2} \subseteq {"key", "afterKey"}
    PROVE  ContainerAgrees(x, y, at2)
  <1>1. CASE at1 = at2  BY <1>1
  <1>2. CASE {at1, at2} \subseteq {"string", "scalar", "after"}
    <2>1. Awaited(at1) = Awaited(at2)  BY <1>2 DEF Awaited
    <2>2. /\ at1 \notin {"value", "firstElement"} /\ at2 \notin {"value", "firstElement"}
          /\ at1 # "firstElement" /\ at2 # "firstElement"
      BY <1>2
    <2> QED  BY <2>1, <2>2 DEF ContainerAgrees
  <1>3. CASE {at1, at2} \subseteq {"key", "afterKey"}
    <2>1. Awaited(at1) = Awaited(at2)  BY <1>3 DEF Awaited
    <2>2. /\ at1 \notin {"value", "firstElement"} /\ at2 \notin {"value", "firstElement"}
          /\ at1 # "firstElement" /\ at2 # "firstElement"
      BY <1>3
    <2> QED  BY <2>1, <2>2 DEF ContainerAgrees
  <1> QED  BY <1>1, <1>2, <1>3

\* The grammar moves within the innermost container and the scan sees nothing.
LEMMA MoveSimulated ==
    ASSUME NEW n, NEW s, NEW g, Simulates(s, g, n),
           NEW t \in ScanState, t.containers = s.containers, SameTotals(s, t),
           NEW h \in GrammarState, h.open = g.open, SameCounts(g, h),
           \/ h.at = g.at
           \/ {g.at, h.at} \subseteq {"string", "scalar", "after"}
           \/ {g.at, h.at} \subseteq {"key", "afterKey"},
           t.insideString <=> h.at \in {"key", "string"},
           t.escaped = h.escape
    PROVE  Follows(t, h)
  <1>1. /\ Len(s.containers) = Len(g.open)
        /\ \A i \in 1 .. Len(g.open) :
              ContainerAgrees(s.containers[i], g.open[i], PlaceIn(g, i))
    BY AgreeFacts DEF Corresponds
  <1>2. ASSUME NEW i \in 1 .. Len(h.open)
        PROVE  ContainerAgrees(t.containers[i], h.open[i], PlaceIn(h, i))
    <2>1. ContainerAgrees(t.containers[i], h.open[i], PlaceIn(g, i))  BY <1>1
    <2>2. \/ PlaceIn(g, i) = PlaceIn(h, i)
          \/ {PlaceIn(g, i), PlaceIn(h, i)} \subseteq {"string", "scalar", "after"}
          \/ {PlaceIn(g, i), PlaceIn(h, i)} \subseteq {"key", "afterKey"}
      BY DEF PlaceIn
    <2> QED  BY <2>1, <2>2, SamePlace
  <1>3. ContainersAgree(s, g)  BY DEF Simulates, Agree
  <1>4. top(h) = top(g) /\ \A kind : Within(h, kind) = Within(g, kind)  BY DEF top, Within
  <1>5. ContainersAgree(t, h)
    <2>1. h.at \in {"firstKey", "nextKey", "key", "afterKey"} => Within(h, "openBrace")
      BY <1>3, <1>4 DEF ContainersAgree
    <2>2. h.at = "firstElement" => Within(h, "openBracket")
      BY <1>3, <1>4 DEF ContainersAgree
    <2> QED  BY <1>1, <1>2, <2>1, <2>2 DEF ContainersAgree
  <1>6. Awaited(h.at) = Awaited(g.at)  BY DEF Awaited
  <1>7. CountsAgree(t, h) /\ LimitsKept(h)
    BY <1>4, <1>6, LimitFacts DEF CountsAgree, LimitsKept, SameTotals, SameCounts
  <1>8. StringsAgree(t, h)  BY DEF StringsAgree
  <1>9. t.result = "none"  BY DEF Simulates, SameTotals
  <1> QED  BY <1>5, <1>7, <1>8, <1>9 DEF Follows, Agree

\* The innermost container has changed, those around it have not.
LEMMA TopChanged ==
    ASSUME NEW n, NEW s, NEW g, Simulates(s, g, n),
           NEW t \in ScanState, Len(t.containers) = Len(g.open),
           NEW h \in GrammarState, Len(h.open) = Len(g.open),
           \A i \in 1 .. Len(g.open) :
               i # Len(g.open) =>
                   t.containers[i] = s.containers[i] /\ h.open[i] = g.open[i],
           g.open # <<>> =>
               ContainerAgrees(t.containers[Len(g.open)], h.open[Len(g.open)], h.at),
           h.at \in {"firstKey", "nextKey", "key", "afterKey"} => Within(h, "openBrace"),
           h.at = "firstElement" => Within(h, "openBracket")
    PROVE  ContainersAgree(t, h)
  <1>1. /\ Len(g.open) \in Nat
        /\ \A i \in 1 .. Len(g.open) :
              ContainerAgrees(s.containers[i], g.open[i], PlaceIn(g, i))
    BY AgreeFacts DEF Corresponds
  <1>2. ASSUME NEW i \in 1 .. Len(h.open)
        PROVE  ContainerAgrees(t.containers[i], h.open[i], PlaceIn(h, i))
    <2>1. CASE i = Len(g.open)
      <3>1. g.open # <<>>
        <4> SUFFICES ASSUME g.open = <<>> PROVE FALSE  OBVIOUS
        <4>1. Len(g.open) = 0  OBVIOUS
        <4>2. i \in 1 .. Len(g.open)  OBVIOUS
        <4>3. 1 <= i  BY <1>1, <4>2
        <4> QED  BY <2>1, <4>1, <4>3
      <3>2. PlaceIn(h, i) = h.at  BY <2>1 DEF PlaceIn
      <3> QED  BY <2>1, <3>1, <3>2
    <2>2. CASE i # Len(g.open)
      <3>1. PlaceIn(h, i) = "after" /\ PlaceIn(g, i) = "after"  BY <2>2 DEF PlaceIn
      <3>2. t.containers[i] = s.containers[i] /\ h.open[i] = g.open[i]  BY <2>2
      <3>3. ContainerAgrees(s.containers[i], g.open[i], PlaceIn(g, i))  BY <1>1
      <3> QED  BY <3>1, <3>2, <3>3
    <2> QED  BY <2>1, <2>2
  <1> QED  BY <1>2 DEF ContainersAgree

\* A container before and after: it gets content, a property, a comma; one more
\* member or element.
GetsContent(x, v) ==
    /\ v.openingCharacter = x.openingCharacter /\ v.propertyCount = x.propertyCount
    /\ v.commaCount = x.commaCount /\ v.hasContent
GetsProperty(x, v) ==
    /\ v.openingCharacter = x.openingCharacter /\ v.propertyCount = x.propertyCount + 1
    /\ v.commaCount = x.commaCount /\ v.hasContent = x.hasContent
GetsComma(x, v) ==
    /\ v.openingCharacter = x.openingCharacter /\ v.propertyCount = x.propertyCount
    /\ v.commaCount = x.commaCount + 1 /\ v.hasContent = x.hasContent
OneMore(y, z) == z.kind = y.kind /\ z.count = y.count + 1

LEMMA GetsFacts ==
    ASSUME NEW x \in Container, NEW y \in OpenContainer
    PROVE  /\ GetsContent(x, [x EXCEPT !.hasContent = TRUE])
           /\ GetsProperty(x, [x EXCEPT !.propertyCount = @ + 1])
           /\ GetsComma(x, [x EXCEPT !.commaCount = @ + 1])
           /\ OneMore(y, [y EXCEPT !.count = @ + 1])
  <1>1. GetsContent(x, [x EXCEPT !.hasContent = TRUE])  BY DEF Container, GetsContent
  <1>2. GetsProperty(x, [x EXCEPT !.propertyCount = @ + 1])
    BY DEF Container, GetsProperty
  <1>3. GetsComma(x, [x EXCEPT !.commaCount = @ + 1])  BY DEF Container, GetsComma
  <1>4. OneMore(y, [y EXCEPT !.count = @ + 1])  BY DEF OpenContainer, OneMore
  <1> QED  BY <1>1, <1>2, <1>3, <1>4

LEMMA NothingAdded ==
    ASSUME NEW x \in Nat, NEW y
    PROVE  x + 0 = y <=> x = y
  OBVIOUS

\* The element or the value of a member begins.
LEMMA ValueAgrees ==
    ASSUME NEW x \in Container, NEW y \in OpenContainer, NEW v, NEW z, NEW at, NEW to,
           ContainerAgrees(x, y, at), GetsContent(x, v),
           y.kind = "openBracket" => OneMore(y, z), y.kind # "openBracket" => z = y,
           at \in {"value", "firstElement"}, to \in {"string", "scalar", "after"}
    PROVE  ContainerAgrees(v, z, to)
  <1>1. Awaited(at) = 0 /\ Awaited(to) = 0  BY Awaiting
  <1>2. /\ x.openingCharacter = y.kind /\ x.commaCount \in Nat /\ x.propertyCount \in Nat
        /\ y.count \in Nat /\ y.kind \in Openers
    BY DEF ContainerAgrees, Container, OpenContainer
  <1>3. v.openingCharacter = y.kind /\ z.kind = y.kind
    BY <1>2 DEF GetsContent, OneMore
  <1>4. CASE y.kind = "openBracket"
    <2>1. x.commaCount + (IF at \in {"value", "firstElement"} THEN 0 ELSE 1) = y.count
      BY <1>4 DEF ContainerAgrees
    <2>2. x.commaCount = y.count
      <3>1. x.commaCount + 0 = y.count  BY <2>1
      <3> QED  BY <1>2, <3>1, NothingAdded
    <2>3. v.commaCount + 1 = z.count
      <3>1. v.commaCount = y.count  BY <2>2 DEF GetsContent
      <3>2. z.count = y.count + 1  BY <1>4 DEF OneMore
      <3> QED  BY <3>1, <3>2
    <2>4. v.hasContent  BY DEF GetsContent
    <2>5. to # "firstElement" /\ to \notin {"value", "firstElement"}  OBVIOUS
    <2> QED  BY <1>3, <1>4, <2>3, <2>4, <2>5 DEF ContainerAgrees
  <1>5. CASE y.kind # "openBracket"
    <2>1. y.kind = "openBrace" /\ z = y  BY <1>2, <1>5 DEF Openers
    <2>2. x.propertyCount + Awaited(at) = y.count  BY <2>1 DEF ContainerAgrees
    <2>3. v.propertyCount + Awaited(to) = z.count
      BY <1>1, <2>1, <2>2 DEF GetsContent
    <2> QED  BY <1>3, <2>1, <2>3 DEF ContainerAgrees
  <1> QED  BY <1>4, <1>5

\* The key of a member begins.
LEMMA KeyAgrees ==
    ASSUME NEW x \in Container, NEW y \in OpenContainer, NEW v, NEW z, NEW at,
           ContainerAgrees(x, y, at), GetsContent(x, v), y.kind = "openBrace", OneMore(y, z),
           at \in {"firstKey", "nextKey"}
    PROVE  ContainerAgrees(v, z, "key")
  <1>1. Awaited(at) = 0 /\ Awaited("key") = 1  BY Awaiting
  <1>2. x.propertyCount \in Nat  BY DEF Container
  <1>3. x.openingCharacter = y.kind /\ x.propertyCount + Awaited(at) = y.count
    BY DEF ContainerAgrees
  <1>4. x.propertyCount = y.count  BY <1>1, <1>2, <1>3, NothingAdded
  <1>5. v.openingCharacter = z.kind /\ z.kind = "openBrace"
    BY <1>3 DEF GetsContent, OneMore
  <1>6. v.propertyCount + 1 = z.count
    BY <1>4 DEF GetsContent, OneMore
  <1> QED  BY <1>1, <1>5, <1>6 DEF ContainerAgrees

\* The colon of a member.
LEMMA ColonAgrees ==
    ASSUME NEW x \in Container, NEW y \in OpenContainer, NEW v,
           ContainerAgrees(x, y, "afterKey"), GetsProperty(x, v), y.kind = "openBrace"
    PROVE  /\ ContainerAgrees(v, y, "value")
           /\ v.propertyCount = y.count /\ x.propertyCount + 1 = y.count
  <1>1. Awaited("afterKey") = 1 /\ Awaited("value") = 0  BY DEF Awaited
  <1>2. x.propertyCount \in Nat  BY DEF Container
  <1>3. x.openingCharacter = y.kind /\ x.propertyCount + Awaited("afterKey") = y.count
    BY DEF ContainerAgrees
  <1>4. x.propertyCount + 1 = y.count  BY <1>1, <1>3
  <1>5. v.openingCharacter = y.kind /\ v.propertyCount = y.count
    BY <1>3, <1>4 DEF GetsProperty
  <1>6. v.propertyCount + Awaited("value") = y.count
    <2>1. v.propertyCount \in Nat  BY <1>2 DEF GetsProperty
    <2>2. v.propertyCount + 0 = y.count  BY <1>5, <2>1, NothingAdded
    <2> QED  BY <1>1, <2>2
  <1> QED  BY <1>4, <1>5, <1>6 DEF ContainerAgrees

\* The comma after an element.
LEMMA CommaAgrees ==
    ASSUME NEW x \in Container, NEW y \in OpenContainer, NEW v, NEW at,
           ContainerAgrees(x, y, at), GetsComma(x, v), y.kind = "openBracket",
           at \in {"after", "scalar"}
    PROVE  ContainerAgrees(v, y, "value")
  <1>1. x.commaCount \in Nat  BY DEF Container
  <1>2. /\ x.openingCharacter = y.kind /\ x.hasContent <=> at # "firstElement"
        /\ x.commaCount + (IF at \in {"value", "firstElement"} THEN 0 ELSE 1) = y.count
    BY DEF ContainerAgrees
  <1>3. x.commaCount + 1 = y.count  BY <1>2
  <1>4. v.openingCharacter = y.kind /\ v.commaCount = y.count
    BY <1>2, <1>3 DEF GetsComma
  <1>5. v.commaCount + 0 = y.count  BY <1>1, <1>3, <1>4
  <1>6. v.hasContent  BY <1>2 DEF GetsComma
  <1> QED  BY <1>4, <1>5, <1>6 DEF ContainerAgrees

\* The comma after a member.
LEMMA MemberAgrees ==
    ASSUME NEW x \in Container, NEW y \in OpenContainer, NEW at,
           ContainerAgrees(x, y, at), y.kind = "openBrace", at \in {"after", "scalar"}
    PROVE  ContainerAgrees(x, y, "nextKey")
  <1>1. Awaited(at) = 0 /\ Awaited("nextKey") = 0  BY Awaiting
  <1> QED  BY <1>1 DEF ContainerAgrees

LEMMA MalformedFollows ==
    ASSUME NEW t, NEW g \in GrammarState
    PROVE  Follows(t, Malformed(g))
  <1>1. Moved(g, Malformed(g), "malformed")  BY PlaceChanged DEF Malformed, Places
  <1> QED  BY <1>1 DEF Moved, Follows

(* One lemma for each alternative of the grammar. *)

LEMMA InStringFollows ==
    ASSUME NEW n, NEW s, NEW g, Simulates(s, g, n), NEW c \in Characters,
           g.at \in {"key", "string"}
    PROVE  Follows(Scan(s, c), StringCharacter(g, c))
  <1> DEFINE t == Scan(s, c)
             h == StringCharacter(g, c)
  <1>1. /\ s \in ScanState /\ g \in GrammarState /\ s.insideString
        /\ s.escaped = g.escape
    BY AgreeFacts DEF Corresponds
  <1>2. t = ScanString(s, c)  BY <1>1, ScanCases
  <1>3. /\ t \in ScanState /\ t.containers = s.containers /\ SameTotals(s, t)
        /\ t.escaped = (~s.escaped /\ c = "backslash")
        /\ t.insideString = (s.insideString /\ (s.escaped \/ c # "quote"))
    BY <1>1, <1>2, ScanStringFacts
  <1>4. /\ h \in GrammarState /\ h.open = g.open /\ SameCounts(g, h)
        /\ h.escape = (~g.escape /\ c = "backslash")
        /\ h.at = IF g.escape \/ c # "quote" THEN g.at
                  ELSE IF g.at = "key" THEN "afterKey" ELSE "after"
    BY <1>1, StringCharacterFacts
  <1> HIDE DEF t, h
  <1>5. t.escaped = h.escape  BY <1>1, <1>3, <1>4
  <1>6. t.insideString <=> h.at \in {"key", "string"}  BY <1>1, <1>3, <1>4
  <1>7. \/ h.at = g.at
        \/ {g.at, h.at} \subseteq {"string", "scalar", "after"}
        \/ {g.at, h.at} \subseteq {"key", "afterKey"}
    BY <1>4
  <1>8. Follows(t, h)  BY <1>3, <1>4, <1>5, <1>6, <1>7, MoveSimulated
  <1> QED  BY <1>8 DEF t, h

\* Between the members, all limits are kept.
LEMMA LargestKept ==
    ASSUME NEW g, LimitsKept(g), Awaited(g.at) = 0
    PROVE  /\ g.depth <= MaxNesting /\ g.largestArray <= MaxArrayElements
           /\ g.largestObject <= MaxPropertiesPerObject
  <1>1. Awaited(g.at) # 1  OBVIOUS
  <1>2. \/ g.largestObject <= MaxPropertiesPerObject
        \/ Awaited(g.at) = 1 /\ g.largestObject = top(g).count
    BY DEF LimitsKept
  <1>3. g.largestObject <= MaxPropertiesPerObject  BY <1>1, <1>2
  <1>4. g.depth <= MaxNesting /\ g.largestArray <= MaxArrayElements  BY DEF LimitsKept
  <1> QED  BY <1>3, <1>4

LEMMA LimitsStillKept ==
    ASSUME NEW h, Awaited(h.at) = 0,
           h.depth <= MaxNesting, h.largestArray <= MaxArrayElements,
           h.largestObject <= MaxPropertiesPerObject
    PROVE  LimitsKept(h)
  <1>1. Awaited(h.at) # 1  OBVIOUS
  <1> QED  BY <1>1 DEF LimitsKept

(* What the scan and the grammar do with the container around a value. *)

Around(s, g, t, h, at) ==
    /\ Len(t.containers) = Len(g.open) /\ Len(h.open) = Len(g.open)
    /\ \A i \in 1 .. Len(g.open) :
          i # Len(g.open) => t.containers[i] = s.containers[i] /\ h.open[i] = g.open[i]
    /\ g.open # <<>> => ContainerAgrees(t.containers[Len(g.open)], h.open[Len(g.open)], at)

LEMMA ValueInParent ==
    ASSUME NEW s, NEW g, Corresponds(s, g), g.at \in {"value", "firstElement"},
           NEW c \in Characters, NEW to \in {"string", "scalar", "after"}
    PROVE  Around(s, g, WithContent(s), InParent(g, c), to)
  <1> DEFINE t == WithContent(s)
             h == InParent(g, c)
  <1>1. /\ s \in ScanState /\ g \in GrammarState
        /\ Len(s.containers) = Len(g.open) /\ Len(g.open) \in Nat
    BY DEF Corresponds
  <1>2. /\ Len(t.containers) = Len(s.containers)
        /\ \A i \in 1 .. Len(s.containers) :
              t.containers[i] = IF i = Len(s.containers)
                                THEN [s.containers[i] EXCEPT !.hasContent = TRUE]
                                ELSE s.containers[i]
    BY <1>1, WithContentFacts
  <1>3. /\ Len(h.open) = Len(g.open)
        /\ \A i \in 1 .. Len(g.open) :
              h.open[i] = IF i = Len(g.open) /\ g.open[i].kind = "openBracket"
                          THEN [g.open[i] EXCEPT !.count = @ + 1] ELSE g.open[i]
    BY <1>1, InParentFacts
  <1> HIDE DEF t, h
  <1>4. \A i \in 1 .. Len(g.open) :
            i # Len(g.open) => t.containers[i] = s.containers[i] /\ h.open[i] = g.open[i]
    BY <1>1, <1>2, <1>3
  <1>5. ASSUME g.open # <<>>
        PROVE  ContainerAgrees(t.containers[Len(g.open)], h.open[Len(g.open)], to)
    <2> DEFINE x == back(s)
               y == top(g)
               v == t.containers[Len(g.open)]
               z == h.open[Len(g.open)]
    <2>1. /\ y = g.open[Len(g.open)] /\ x = s.containers[Len(g.open)]
          /\ Len(g.open) \in 1 .. Len(g.open)
          /\ ContainerAgrees(x, y, g.at) /\ x \in Container /\ y \in OpenContainer
      BY <1>5 DEF Corresponds
    <2>2. v = [x EXCEPT !.hasContent = TRUE]  BY <1>1, <1>2, <2>1
    <2>3. z = IF y.kind = "openBracket" THEN [y EXCEPT !.count = @ + 1] ELSE y  BY <1>3, <2>1
    <2> HIDE DEF x, y, v, z
    <2>4. GetsContent(x, v)  BY <2>1, <2>2, GetsFacts
    <2>5. y.kind = "openBracket" => OneMore(y, z)
      <3>1. OneMore(y, [y EXCEPT !.count = @ + 1])  BY <2>1, GetsFacts
      <3> QED  BY <2>3, <3>1
    <2>6. y.kind # "openBracket" => z = y  BY <2>3
    <2>7. ContainerAgrees(v, z, to)  BY <2>1, <2>4, <2>5, <2>6, ValueAgrees
    <2> QED  BY <2>7 DEF v, z
  <1>6. Around(s, g, t, h, to)  BY <1>1, <1>2, <1>3, <1>4, <1>5 DEF Around
  <1> QED  BY <1>6 DEF t, h

LEMMA AroundAgrees ==
    ASSUME NEW n, NEW s, NEW g, Simulates(s, g, n),
           NEW t \in ScanState, NEW h \in GrammarState, Around(s, g, t, h, h.at),
           h.at \in {"firstKey", "nextKey", "key", "afterKey"} => Within(h, "openBrace"),
           h.at # "firstElement"
    PROVE  ContainersAgree(t, h)
  <1>1. /\ Len(t.containers) = Len(g.open) /\ Len(h.open) = Len(g.open)
        /\ \A i \in 1 .. Len(g.open) :
              i # Len(g.open) => t.containers[i] = s.containers[i] /\ h.open[i] = g.open[i]
        /\ g.open # <<>> =>
              ContainerAgrees(t.containers[Len(g.open)], h.open[Len(g.open)], h.at)
    BY DEF Around
  <1>2. h.at = "firstElement" => Within(h, "openBracket")  OBVIOUS
  <1> QED  BY <1>1, <1>2, TopChanged

LEMMA ValueFollows ==
    ASSUME NEW n, NEW s, NEW g, Simulates(s, g, n), NEW c \in {"quote", "other"},
           g.at \in {"value", "firstElement"}
    PROVE  Follows(Scan(s, c), BeginValue(g, c))
  <1> DEFINE t == Scan(s, c)
             p == InParent(g, c)
             h == BeginValue(g, c)
             k == Len(g.open)
  <1>0. c \in Characters  BY DEF Characters
  <1>1. Corresponds(s, g) /\ CountsAgree(s, g) /\ LimitsKept(g)
    BY AgreeFacts, LimitFacts
  <1>2. /\ s \in ScanState /\ g \in GrammarState /\ ~s.insideString
        /\ s.escaped = g.escape /\ Len(s.containers) = k /\ k \in Nat
    BY <1>1 DEF Corresponds
  <1>3. /\ t \in ScanState /\ t.containers = WithContent(s).containers
        /\ SameTotals(s, t) /\ t.escaped = s.escaped
        /\ t.insideString <=> c = "quote"
    <2>1. CASE c = "quote"
      <3>1. t = [WithContent(s) EXCEPT !.insideString = TRUE]
        BY <1>0, <1>2, <2>1, ScanCases
      <3> HIDE DEF t
      <3> QED  BY <1>2, <2>1, <3>1, StringBegins
    <2>2. CASE c = "other"
      <3>1. t = WithContent(s)  BY <1>0, <1>2, <2>2, ScanCases
      <3> HIDE DEF t
      <3> QED  BY <1>2, <2>2, <3>1, WithContentFacts DEF SameString
    <2> QED  BY <2>1, <2>2
  <1>4. Moved(p, h, IF c = "quote" THEN "string" ELSE "scalar")
    BY <1>2, BeginScalarOrString
  <1> HIDE DEF t, h, p
  <1>6. SameCounts(g, p) /\ p.escape = g.escape
    BY <1>0, <1>2, InParentFacts DEF p
  <1>7. /\ h \in GrammarState /\ h.open = p.open /\ SameCounts(p, h) /\ h.escape = g.escape
        /\ h.at \in {"string", "scalar"} /\ (h.at = "string") = (c = "quote")
    BY <1>4, <1>6 DEF Moved
  <1>8. ContainersAgree(t, h)
    <2>1. h.at \in {"string", "scalar", "after"}  BY <1>7
    <2>2. Around(s, g, WithContent(s), p, h.at)
      BY <1>0, <1>1, <2>1, ValueInParent DEF p
    <2>3. Around(s, g, t, h, h.at)  BY <1>3, <1>7, <2>2 DEF Around
    <2>4. /\ h.at \in {"firstKey", "nextKey", "key", "afterKey"} => Within(h, "openBrace")
          /\ h.at # "firstElement"
      BY <1>7
    <2>5. t \in ScanState /\ h \in GrammarState  BY <1>3, <1>7
    <2> QED  BY <2>3, <2>4, <2>5, AroundAgrees
  <1>9. Awaited(g.at) = 0 /\ Awaited(h.at) = 0  BY <1>7, Awaiting
  <1>10. SameCounts(g, h)  BY <1>6, <1>7 DEF SameCounts
  <1>11. CountsAgree(t, h)
    BY <1>1, <1>3, <1>9, <1>10 DEF CountsAgree, SameTotals, SameCounts
  <1>12. LimitsKept(h)
    <2>1. /\ g.depth <= MaxNesting /\ g.largestArray <= MaxArrayElements
          /\ g.largestObject <= MaxPropertiesPerObject
      BY <1>1, <1>9, <1>2, LargestKept
    <2>2. /\ h.depth = g.depth /\ h.largestArray = g.largestArray
          /\ h.largestObject = g.largestObject
      BY <1>10 DEF SameCounts
    <2> QED  BY <1>9, <2>1, <2>2, LimitsStillKept
  <1>13. StringsAgree(t, h)  BY <1>2, <1>3, <1>7 DEF StringsAgree
  <1>14. t.result = "none"  BY <1>3 DEF Simulates, SameTotals
  <1>15. Follows(t, h)  BY <1>7, <1>8, <1>11, <1>12, <1>13, <1>14 DEF Follows, Agree
  <1> QED  BY <1>15 DEF t, h

\* A container begins, as a value of the one around it.
LEMMA OpenerFollows ==
    ASSUME NEW n, NEW s, NEW g, Simulates(s, g, n), NEW c \in Openers,
           g.at \in {"value", "firstElement"}
    PROVE  Follows(Scan(s, c), BeginValue(g, c))
  <1> DEFINE t == Scan(s, c)
             w == WithContent(s)
             p == InParent(g, c)
             h == BeginValue(g, c)
             e == NewContainer(c)
             o == [kind |-> c, count |-> 0]
  <1>0. c \in Characters  BY DEF Characters
  <1>1. Corresponds(s, g) /\ CountsAgree(s, g) /\ LimitsKept(g) /\ s.result = "none"
    BY AgreeFacts, LimitFacts DEF Simulates
  <1>2. /\ s \in ScanState /\ g \in GrammarState /\ ~s.insideString
        /\ s.escaped = g.escape /\ Len(s.containers) = Len(g.open) /\ Len(g.open) \in Nat
    BY <1>1 DEF Corresponds
  <1>3. t = Open(s, c)  BY <1>0, <1>2, ScanCases
  <1>4. /\ t \in ScanState
        /\ t.containerCount = s.containerCount + 1
        /\ t.totalPropertyCount = s.totalPropertyCount
        /\ t.totalArrayElementCount = s.totalArrayElementCount
        /\ SameString(s, t)
        /\ s.containerCount + 1 > MaxContainers => t.result = "containers"
        /\ s.containerCount + 1 <= MaxContainers =>
              /\ t.containers = Append(w.containers, e)
              /\ t.result = IF Len(s.containers) + 1 > MaxNesting THEN "nesting" ELSE "none"
    BY <1>1, <1>2, <1>3, OpenFacts
  <1>5. /\ h \in GrammarState
        /\ h.at = IF c = "openBrace" THEN "firstKey" ELSE "firstElement"
        /\ h.open = Append(p.open, o)
        /\ h.containers = g.containers + 1
        /\ h.depth \in {g.depth, Len(g.open) + 1} /\ h.depth >= Len(g.open) + 1
        /\ h.members = g.members /\ h.largestObject = g.largestObject
        /\ h.elements = g.elements /\ h.largestArray = g.largestArray
        /\ h.escape = g.escape
    BY <1>2, BeginContainerFacts
  <1>6. Around(s, g, w, p, "after")  BY <1>0, <1>1, ValueInParent
  <1>7. /\ w \in ScanState /\ w.containers \in Seq(Container) /\ Len(w.containers) = Len(g.open)
        /\ p \in GrammarState /\ p.open \in Seq(OpenContainer) /\ Len(p.open) = Len(g.open)
    <2>1. w \in ScanState /\ Len(w.containers) = Len(s.containers)  BY <1>2, WithContentFacts
    <2>2. p \in GrammarState /\ Len(p.open) = Len(g.open)  BY <1>0, <1>2, InParentFacts
    <2> QED  BY <1>2, <2>1, <2>2, ContainersTyped, GrammarTyped
  <1>8. /\ e \in Container /\ e.openingCharacter = c /\ e.propertyCount = 0
        /\ e.commaCount = 0 /\ ~e.hasContent
        /\ o \in OpenContainer /\ o.kind = c /\ o.count = 0
    BY DEF NewContainer, Container, OpenContainer
  <1> HIDE DEF t, w, p, h, e, o
  <1>9. Awaited(g.at) = 0 /\ Awaited(h.at) = 0  BY <1>5 DEF Awaited
  <1>10. /\ g.depth <= MaxNesting /\ g.largestArray <= MaxArrayElements
         /\ g.largestObject <= MaxPropertiesPerObject
    BY <1>1, <1>9, LargestKept
  <1>11. /\ s.containerCount \in Nat /\ s.totalPropertyCount \in Nat
         /\ g.containers = s.containerCount /\ g.elements = s.totalArrayElementCount
         /\ g.members = s.totalPropertyCount
    <2>1. s.containerCount \in Nat /\ s.totalPropertyCount \in Nat
      BY <1>2, ContainersTyped
    <2>2. g.members = s.totalPropertyCount + 0  BY <1>1, <1>9 DEF CountsAgree
    <2>3. g.members = s.totalPropertyCount  BY <2>1, <2>2
    <2> QED  BY <1>1, <2>1, <2>3 DEF CountsAgree
  <1>12. MaxContainers \in Nat /\ MaxNesting \in Nat  BY ComplexityAssumption
  <1>13. CASE s.containerCount + 1 > MaxContainers
    <2>1. t.result = "containers" /\ h.containers > MaxContainers
      BY <1>4, <1>5, <1>11, <1>13
    <2> QED  BY <1>5, <2>1 DEF Follows, Beyond, t, h
  <1>14. CASE s.containerCount + 1 <= MaxContainers /\ Len(s.containers) + 1 > MaxNesting
    <2>1. t.result = "nesting"  BY <1>4, <1>14
    <2>2. h.depth \in Nat  BY <1>5, GrammarTyped
    <2>3. h.depth > MaxNesting  BY <1>2, <1>5, <1>12, <1>14, <2>2
    <2> QED  BY <1>5, <2>1, <2>3 DEF Follows, Beyond, t, h
  <1>15. CASE s.containerCount + 1 <= MaxContainers /\ Len(s.containers) + 1 <= MaxNesting
    <2>1. t.containers = Append(w.containers, e)  BY <1>4, <1>15
    <2>2. t.result = "none"  BY <1>2, <1>4, <1>12, <1>15
    <2>3. /\ Len(t.containers) = Len(g.open) + 1 /\ Len(h.open) = Len(g.open) + 1
          /\ h.open # <<>>
          /\ \A i \in 1 .. Len(g.open) : /\ t.containers[i] = w.containers[i]
                                         /\ h.open[i] = p.open[i]
          /\ t.containers[Len(g.open) + 1] = e /\ h.open[Len(g.open) + 1] = o
      BY <1>5, <1>7, <1>8, <2>1, Pushed
    <2>4. ASSUME NEW i \in 1 .. Len(h.open)
          PROVE  ContainerAgrees(t.containers[i], h.open[i], PlaceIn(h, i))
      <3>1. CASE i = Len(g.open) + 1
        <4>1. PlaceIn(h, i) = h.at  BY <2>3, <3>1 DEF PlaceIn
        <4>2. t.containers[i] = e /\ h.open[i] = o  BY <2>3, <3>1
        <4>3. ContainerAgrees(e, o, h.at)
          <5>1. CASE c = "openBrace"
            <6>1. h.at = "firstKey" /\ e.propertyCount + Awaited(h.at) = o.count
              BY <1>5, <1>8, <1>9, <5>1
            <6> QED  BY <1>8, <5>1, <6>1 DEF ContainerAgrees
          <5>2. CASE c = "openBracket"
            <6>1. h.at = "firstElement" /\ e.commaCount + 0 = o.count
              BY <1>5, <1>8, <5>2
            <6> QED  BY <1>8, <5>2, <6>1 DEF ContainerAgrees
          <5> QED  BY <5>1, <5>2 DEF Openers
        <4> QED  BY <4>1, <4>2, <4>3
      <3>2. CASE i # Len(g.open) + 1
        <4>1. i \in 1 .. Len(g.open)  BY <1>2, <2>3, <3>2
        <4>2. PlaceIn(h, i) = "after"  BY <2>3, <3>2 DEF PlaceIn
        <4>3. t.containers[i] = w.containers[i] /\ h.open[i] = p.open[i]  BY <2>3, <4>1
        <4>4. ContainerAgrees(w.containers[i], p.open[i], "after")
          <5>1. CASE i = Len(g.open)
            <6>1. g.open # <<>>
              <7> SUFFICES ASSUME g.open = <<>> PROVE FALSE  OBVIOUS
              <7>1. Len(g.open) = 0  OBVIOUS
              <7> QED  BY <4>1, <7>1
            <6> QED  BY <1>6, <5>1, <6>1 DEF Around
          <5>2. CASE i # Len(g.open)
            <6>1. w.containers[i] = s.containers[i] /\ p.open[i] = g.open[i]
              BY <1>6, <4>1, <5>2 DEF Around
            <6>2. ContainerAgrees(s.containers[i], g.open[i], PlaceIn(g, i))
              BY <4>1, AgreeFacts
            <6>3. PlaceIn(g, i) = "after"  BY <5>2 DEF PlaceIn
            <6> QED  BY <6>1, <6>2, <6>3
          <5> QED  BY <5>1, <5>2
        <4> QED  BY <4>2, <4>3, <4>4
      <3> QED  BY <3>1, <3>2
    <2>5. Within(h, c)
      <3>1. top(h) = o  BY <2>3 DEF top
      <3> QED  BY <1>8, <2>3, <3>1 DEF Within
    <2>6. /\ h.at \in {"firstKey", "nextKey", "key", "afterKey"} => Within(h, "openBrace")
          /\ h.at = "firstElement" => Within(h, "openBracket")
      <3>1. c = "openBrace" \/ c = "openBracket"  BY DEF Openers
      <3> QED  BY <1>5, <2>5, <3>1
    <2>7. ContainersAgree(t, h)  BY <2>3, <2>4, <2>6 DEF ContainersAgree
    <2>8. CountsAgree(t, h)
      <3>1. h.members = t.totalPropertyCount + Awaited(h.at)  BY <1>4, <1>5, <1>9, <1>11
      <3>2. h.containers = t.containerCount  BY <1>4, <1>5, <1>11
      <3>3. h.elements = t.totalArrayElementCount  BY <1>4, <1>5, <1>11
      <3> QED  BY <3>1, <3>2, <3>3 DEF CountsAgree
    <2>9. LimitsKept(h)
      <3>1. h.depth <= MaxNesting  BY <1>2, <1>5, <1>10, <1>15
      <3> QED  BY <1>5, <1>9, <1>10, <3>1, LimitsStillKept
    <2>10. StringsAgree(t, h)  BY <1>2, <1>4, <1>5 DEF StringsAgree, SameString
    <2> QED  BY <1>5, <2>2, <2>7, <2>8, <2>9, <2>10 DEF Follows, Agree, t, h
  <1>16. \/ s.containerCount + 1 > MaxContainers
         \/ s.containerCount + 1 <= MaxContainers /\ Len(s.containers) + 1 > MaxNesting
         \/ s.containerCount + 1 <= MaxContainers /\ Len(s.containers) + 1 <= MaxNesting
    BY <1>2, <1>11, <1>12
  <1> QED  BY <1>13, <1>14, <1>15, <1>16

LEMMA KeyFollows ==
    ASSUME NEW n, NEW s, NEW g, Simulates(s, g, n), NEW c \in Characters, c = "quote",
           g.at \in {"firstKey", "nextKey"}
    PROVE  Follows(Scan(s, c), BeginKey(g))
  <1> DEFINE t == Scan(s, c)
             p == Counted(g)
             h == BeginKey(g)
  <1>1. Corresponds(s, g) /\ CountsAgree(s, g) /\ LimitsKept(g) /\ s.result = "none"
    BY AgreeFacts, LimitFacts DEF Simulates
  <1>2. /\ s \in ScanState /\ g \in GrammarState /\ ~s.insideString
        /\ s.escaped = g.escape /\ Len(s.containers) = Len(g.open) /\ Len(g.open) \in Nat
    BY <1>1 DEF Corresponds
  <1>3. Within(g, "openBrace")
    <2>1. ContainersAgree(s, g)  BY DEF Simulates, Agree
    <2> QED  BY <2>1 DEF ContainersAgree
  <1>4. /\ g.open # <<>> /\ top(g).kind = "openBrace"
        /\ top(g) = g.open[Len(g.open)] /\ back(s) = s.containers[Len(g.open)]
        /\ Len(g.open) \in 1 .. Len(g.open)
        /\ ContainerAgrees(back(s), top(g), g.at)
        /\ back(s) \in Container /\ top(g) \in OpenContainer
    BY <1>1, <1>3 DEF Corresponds, Within
  <1>5. /\ t \in ScanState /\ t.containers = WithContent(s).containers
        /\ SameTotals(s, t) /\ t.escaped = s.escaped /\ t.insideString
    <2>1. t = [WithContent(s) EXCEPT !.insideString = TRUE]  BY <1>2, ScanCases
    <2> HIDE DEF t
    <2> QED  BY <1>2, <2>1, StringBegins
  <1>6. /\ Len(t.containers) = Len(s.containers)
        /\ \A i \in 1 .. Len(s.containers) :
              t.containers[i] = IF i = Len(s.containers)
                                THEN [s.containers[i] EXCEPT !.hasContent = TRUE]
                                ELSE s.containers[i]
    BY <1>2, <1>5, WithContentFacts
  <1>7. /\ p \in GrammarState /\ Len(p.open) = Len(g.open)
        /\ \A i \in 1 .. Len(g.open) :
              p.open[i] = IF i = Len(g.open)
                          THEN [g.open[i] EXCEPT !.count = @ + 1] ELSE g.open[i]
    BY <1>2, <1>4, CountedFacts
  <1>8. /\ h \in GrammarState /\ h.at = "key" /\ h.open = p.open
        /\ h.members = g.members + 1
        /\ h.largestObject \in {g.largestObject, top(g).count + 1}
        /\ h.largestObject >= top(g).count + 1
        /\ h.containers = g.containers /\ h.depth = g.depth
        /\ h.elements = g.elements /\ h.largestArray = g.largestArray
        /\ h.escape = g.escape
    BY <1>2, <1>4, BeginKeyFacts
  <1> HIDE DEF t, p, h
  <1>9. OneMore(top(g), top(h)) /\ top(h) = h.open[Len(g.open)]
    <2>1. top(h) = h.open[Len(g.open)]  BY <1>7, <1>8 DEF top
    <2>2. top(h) = [top(g) EXCEPT !.count = @ + 1]  BY <1>4, <1>7, <1>8, <2>1
    <2> QED  BY <1>4, <2>1, <2>2, GetsFacts
  <1>10. GetsContent(back(s), t.containers[Len(g.open)])
    <2>1. t.containers[Len(g.open)] = [back(s) EXCEPT !.hasContent = TRUE]
      BY <1>2, <1>4, <1>6
    <2> QED  BY <1>4, <2>1, GetsFacts
  <1>11. Around(s, g, t, h, h.at)
    <2>1. ContainerAgrees(t.containers[Len(g.open)], h.open[Len(g.open)], "key")
      BY <1>4, <1>9, <1>10, KeyAgrees
    <2>2. \A i \in 1 .. Len(g.open) :
              i # Len(g.open) => t.containers[i] = s.containers[i] /\ h.open[i] = g.open[i]
      BY <1>2, <1>6, <1>7, <1>8
    <2> QED  BY <1>2, <1>6, <1>7, <1>8, <2>1, <2>2 DEF Around
  <1>12. Within(h, "openBrace")
    <2>1. h.open # <<>>
      <3> SUFFICES ASSUME h.open = <<>> PROVE FALSE  OBVIOUS
      <3>1. Len(h.open) = 0  OBVIOUS
      <3> QED  BY <1>4, <1>7, <1>8, <3>1
    <2>2. top(h).kind = "openBrace"  BY <1>4, <1>9 DEF OneMore
    <2> QED  BY <2>1, <2>2 DEF Within
  <1>13. ContainersAgree(t, h)  BY <1>5, <1>8, <1>11, <1>12, AroundAgrees
  <1>14. Awaited(g.at) = 0 /\ Awaited(h.at) = 1  BY <1>8 DEF Awaited
  <1>15. CountsAgree(t, h)
    <2>1. s.totalPropertyCount \in Nat  BY <1>2, ContainersTyped
    <2>2. g.members = s.totalPropertyCount + 0  BY <1>1, <1>14 DEF CountsAgree
    <2>3. h.members = s.totalPropertyCount + 1  BY <1>8, <2>1, <2>2
    <2>4. h.members = t.totalPropertyCount + Awaited(h.at)
      BY <1>5, <1>14, <2>3 DEF SameTotals
    <2> QED  BY <1>1, <1>5, <1>8, <2>4 DEF CountsAgree, SameTotals
  <1>16. LimitsKept(h)
    <2>1. /\ g.depth <= MaxNesting /\ g.largestArray <= MaxArrayElements
          /\ g.largestObject <= MaxPropertiesPerObject
      BY <1>1, <1>14, LargestKept
    <2>2. top(h).count = top(g).count + 1  BY <1>9 DEF OneMore
    <2>3. top(h).count <= h.largestObject
      <3>1. h.largestObject \in Nat /\ top(g).count \in Nat
        BY <1>4, <1>8, GrammarTyped DEF OpenContainer
      <3> QED  BY <1>8, <2>2, <3>1
    <2>4. \/ h.largestObject <= MaxPropertiesPerObject
          \/ Awaited(h.at) = 1 /\ h.largestObject = top(h).count
      BY <1>8, <1>14, <2>1, <2>2
    <2> QED  BY <1>8, <2>1, <2>3, <2>4 DEF LimitsKept
  <1>17. StringsAgree(t, h)  BY <1>2, <1>5, <1>8 DEF StringsAgree
  <1>18. t.result = "none"  BY <1>1, <1>5 DEF SameTotals
  <1> QED  BY <1>8, <1>13, <1>15, <1>16, <1>17, <1>18 DEF Follows, Agree, t, h

LEMMA ColonFollows ==
    ASSUME NEW n, NEW s, NEW g, Simulates(s, g, n), NEW c \in Characters, c = "colon",
           g.at = "afterKey", NEW h, h = [g EXCEPT !.at = "value"]
    PROVE  Follows(Scan(s, c), h)
  <1> DEFINE t == Scan(s, c)
  <1>1. Corresponds(s, g) /\ CountsAgree(s, g) /\ LimitsKept(g) /\ s.result = "none"
    BY AgreeFacts, LimitFacts DEF Simulates
  <1>2. /\ s \in ScanState /\ g \in GrammarState /\ ~s.insideString
        /\ s.escaped = g.escape /\ Len(s.containers) = Len(g.open) /\ Len(g.open) \in Nat
        /\ (s.containers = <<>>) = (g.open = <<>>)
    BY <1>1 DEF Corresponds
  <1>3. Within(g, "openBrace")
    <2>1. ContainersAgree(s, g)  BY DEF Simulates, Agree
    <2> QED  BY <2>1 DEF ContainersAgree
  <1>4. /\ g.open # <<>> /\ top(g).kind = "openBrace"
        /\ top(g) = g.open[Len(g.open)] /\ back(s) = s.containers[Len(g.open)]
        /\ Len(g.open) \in 1 .. Len(g.open)
        /\ back(s).openingCharacter = top(g).kind
        /\ ContainerAgrees(back(s), top(g), g.at)
        /\ back(s) \in Container /\ top(g) \in OpenContainer
    BY <1>1, <1>3 DEF Corresponds, Within
  <1>5. t = CountProperty(s)
    <2>1. InObject(s)  BY <1>2, <1>4 DEF InObject
    <2> QED  BY <1>2, <2>1, ScanCases
  <1>6. Moved(g, h, "value")  BY <1>2, PlaceChanged DEF Places
  <1>7. /\ h \in GrammarState /\ h.open = g.open /\ SameCounts(g, h)
        /\ h.escape = g.escape /\ h.at = "value"
    BY <1>6 DEF Moved
  <1>8. /\ t \in ScanState /\ Len(t.containers) = Len(s.containers)
        /\ \A i \in 1 .. Len(s.containers) :
              t.containers[i] = IF i = Len(s.containers)
                                THEN [s.containers[i] EXCEPT !.propertyCount = @ + 1]
                                ELSE s.containers[i]
        /\ t.result = IF back(s).propertyCount + 1 > MaxPropertiesPerObject
                      THEN "objectProperties"
                      ELSE IF s.totalPropertyCount + 1 > MaxTotalProperties
                      THEN "properties" ELSE "none"
        /\ t.containerCount = s.containerCount
        /\ t.totalPropertyCount = s.totalPropertyCount + 1
        /\ t.totalArrayElementCount = s.totalArrayElementCount
        /\ SameString(s, t)
    BY <1>1, <1>2, <1>4, <1>5, CountPropertyFacts
  <1> HIDE DEF t
  <1>9. Awaited(g.at) = 1 /\ Awaited(h.at) = 0  BY <1>7 DEF Awaited
  <1>10. GetsProperty(back(s), t.containers[Len(g.open)])
    <2>1. t.containers[Len(g.open)] = [back(s) EXCEPT !.propertyCount = @ + 1]
      BY <1>2, <1>4, <1>8
    <2> QED  BY <1>4, <2>1, GetsFacts
  <1>11. /\ ContainerAgrees(t.containers[Len(g.open)], top(g), "value")
         /\ back(s).propertyCount + 1 = top(g).count
    BY <1>4, <1>10, ColonAgrees
  <1>12. /\ s.totalPropertyCount + 1 = g.members
         /\ top(g).count <= g.largestObject
         /\ \/ g.largestObject <= MaxPropertiesPerObject
            \/ g.largestObject = top(g).count
    BY <1>1, <1>9 DEF CountsAgree, LimitsKept
  <1>13. /\ back(s).propertyCount \in Nat /\ top(g).count \in Nat /\ g.largestObject \in Nat
         /\ MaxPropertiesPerObject \in Nat
    BY <1>2, <1>4, GrammarTyped, ComplexityAssumption DEF Container, OpenContainer
  <1>14. CASE back(s).propertyCount + 1 > MaxPropertiesPerObject
    <2>1. t.result = "objectProperties"  BY <1>8, <1>14
    <2>2. h.largestObject > MaxPropertiesPerObject
      BY <1>7, <1>11, <1>12, <1>13, <1>14 DEF SameCounts
    <2> QED  BY <1>7, <2>1, <2>2 DEF Follows, Beyond, t
  <1>15. CASE /\ ~(back(s).propertyCount + 1 > MaxPropertiesPerObject)
              /\ s.totalPropertyCount + 1 > MaxTotalProperties
    <2>1. t.result = "properties"  BY <1>8, <1>15
    <2>2. h.members > MaxTotalProperties  BY <1>7, <1>12, <1>15 DEF SameCounts
    <2> QED  BY <1>7, <2>1, <2>2 DEF Follows, Beyond, t
  <1>16. CASE /\ ~(back(s).propertyCount + 1 > MaxPropertiesPerObject)
              /\ ~(s.totalPropertyCount + 1 > MaxTotalProperties)
    <2>1. t.result = "none"  BY <1>8, <1>16
    <2>2. Around(s, g, t, h, h.at)
      <3>1. \A i \in 1 .. Len(g.open) : i # Len(g.open) => t.containers[i] = s.containers[i]
        BY <1>2, <1>8
      <3>2. ContainerAgrees(t.containers[Len(g.open)], h.open[Len(g.open)], h.at)
        BY <1>4, <1>7, <1>11
      <3> QED  BY <1>2, <1>7, <1>8, <3>1, <3>2 DEF Around
    <2>3. ContainersAgree(t, h)
      <3>1. h.at \notin {"firstKey", "nextKey", "key", "afterKey"} /\ h.at # "firstElement"
        BY <1>7
      <3> QED  BY <1>7, <1>8, <2>2, <3>1, AroundAgrees
    <2>4. CountsAgree(t, h)
      <3>1. t.totalPropertyCount \in Nat  BY <1>8, ContainersTyped
      <3>2. h.members = t.totalPropertyCount  BY <1>7, <1>8, <1>12 DEF SameCounts
      <3>3. h.members = t.totalPropertyCount + Awaited(h.at)  BY <1>9, <3>1, <3>2
      <3>4. h.containers = t.containerCount /\ h.elements = t.totalArrayElementCount
        BY <1>1, <1>7, <1>8 DEF CountsAgree, SameCounts
      <3> QED  BY <3>3, <3>4 DEF CountsAgree
    <2>5. LimitsKept(h)
      <3>1. g.largestObject <= MaxPropertiesPerObject  BY <1>11, <1>12, <1>13, <1>16
      <3>2. /\ h.depth <= MaxNesting /\ h.largestArray <= MaxArrayElements
            /\ h.largestObject <= MaxPropertiesPerObject
        BY <1>1, <1>7, <3>1 DEF LimitsKept, SameCounts
      <3> QED  BY <1>9, <3>2, LimitsStillKept
    <2>6. StringsAgree(t, h)  BY <1>2, <1>7, <1>8 DEF StringsAgree, SameString
    <2> QED  BY <1>7, <2>1, <2>3, <2>4, <2>5, <2>6 DEF Follows, Agree, t
  <1> QED  BY <1>14, <1>15, <1>16

LEMMA CommaFollows ==
    ASSUME NEW n, NEW s, NEW g, Simulates(s, g, n), NEW c \in Characters, c = "comma",
           g.at \in {"after", "scalar"}, g.open # <<>>,
           NEW to, to = IF Within(g, "openBrace") THEN "nextKey" ELSE "value",
           NEW h, h = [g EXCEPT !.at = to]
    PROVE  Follows(Scan(s, c), h)
  <1> DEFINE t == Scan(s, c)
  <1>1. Corresponds(s, g) /\ CountsAgree(s, g) /\ LimitsKept(g) /\ s.result = "none"
    BY AgreeFacts, LimitFacts DEF Simulates
  <1>2. /\ s \in ScanState /\ g \in GrammarState /\ ~s.insideString
        /\ s.escaped = g.escape /\ Len(s.containers) = Len(g.open) /\ Len(g.open) \in Nat
        /\ (s.containers = <<>>) = (g.open = <<>>)
    BY <1>1 DEF Corresponds
  <1>3. /\ top(g) = g.open[Len(g.open)] /\ back(s) = s.containers[Len(g.open)]
        /\ Len(g.open) \in 1 .. Len(g.open)
        /\ back(s).openingCharacter = top(g).kind
        /\ ContainerAgrees(back(s), top(g), g.at)
        /\ back(s) \in Container /\ top(g) \in OpenContainer
    BY <1>1 DEF Corresponds
  <1>4. to \in Places /\ to \in {"nextKey", "value"}  BY DEF Places
  <1>5. Moved(g, h, to)  BY <1>2, <1>4, PlaceChanged
  <1>6. /\ h \in GrammarState /\ h.open = g.open /\ SameCounts(g, h)
        /\ h.escape = g.escape /\ h.at = to
    BY <1>5 DEF Moved
  <1>7. top(h) = top(g) /\ Within(h, "openBrace") = Within(g, "openBrace")
    BY <1>6 DEF top, Within
  <1>8. t = IF InArray(s) THEN CountComma(s) ELSE s  BY <1>2, ScanCases
  <1>9. InArray(s) = (top(g).kind = "openBracket")  BY <1>2, <1>3 DEF InArray
  <1>10. Within(g, "openBrace") = (top(g).kind = "openBrace")  BY DEF Within
  <1>11. top(g).kind \in Openers  BY <1>3 DEF OpenContainer
  <1>12. /\ t \in ScanState /\ SameTotals(s, t) /\ SameString(s, t)
         /\ Around(s, g, t, h, h.at)
    <2>1. CASE top(g).kind = "openBracket"
      <3>1. t = CountComma(s)  BY <1>8, <1>9, <2>1
      <3> HIDE DEF t
      <3>2. /\ t \in ScanState /\ Len(t.containers) = Len(s.containers)
            /\ \A i \in 1 .. Len(s.containers) :
                  t.containers[i] = IF i = Len(s.containers)
                                    THEN [s.containers[i] EXCEPT !.commaCount = @ + 1]
                                    ELSE s.containers[i]
            /\ SameTotals(s, t) /\ SameString(s, t)
        BY <1>2, <3>1, CountCommaFacts
      <3>3. to = "value"  BY <1>10, <2>1
      <3>4. GetsComma(back(s), t.containers[Len(g.open)])
        <4>1. t.containers[Len(g.open)] = [back(s) EXCEPT !.commaCount = @ + 1]
          BY <1>2, <1>3, <3>2
        <4> QED  BY <1>3, <4>1, GetsFacts
      <3>5. ContainerAgrees(t.containers[Len(g.open)], top(g), "value")
        BY <1>3, <2>1, <3>4, CommaAgrees
      <3>6. \A i \in 1 .. Len(g.open) : i # Len(g.open) => t.containers[i] = s.containers[i]
        BY <1>2, <3>2
      <3>7. Around(s, g, t, h, h.at)
        BY <1>2, <1>3, <1>6, <3>2, <3>3, <3>5, <3>6 DEF Around
      <3> QED  BY <3>2, <3>7
    <2>2. CASE top(g).kind = "openBrace"
      <3>1. t = s  BY <1>8, <1>9, <2>2
      <3>2. to = "nextKey"  BY <1>10, <2>2
      <3>3. ContainerAgrees(back(s), top(g), "nextKey")  BY <1>3, <2>2, MemberAgrees
      <3>4. Around(s, g, s, h, h.at)  BY <1>2, <1>3, <1>6, <3>2, <3>3 DEF Around
      <3> QED  BY <1>2, <3>1, <3>4 DEF SameTotals, SameString
    <2> QED  BY <1>11, <2>1, <2>2 DEF Openers
  <1> HIDE DEF t
  <1>13. ContainersAgree(t, h)
    <2>1. h.at \in {"firstKey", "nextKey", "key", "afterKey"} => Within(h, "openBrace")
      BY <1>6, <1>7
    <2>2. h.at # "firstElement"  BY <1>4, <1>6
    <2> QED  BY <1>6, <1>12, <2>1, <2>2, AroundAgrees
  <1>14. Awaited(g.at) = 0 /\ Awaited(h.at) = 0  BY <1>4, <1>6 DEF Awaited
  <1>15. CountsAgree(t, h)
    BY <1>1, <1>6, <1>12, <1>14 DEF CountsAgree, SameTotals, SameCounts
  <1>16. LimitsKept(h)
    <2>1. /\ g.depth <= MaxNesting /\ g.largestArray <= MaxArrayElements
          /\ g.largestObject <= MaxPropertiesPerObject
      BY <1>1, <1>14, LargestKept
    <2>2. /\ h.depth <= MaxNesting /\ h.largestArray <= MaxArrayElements
          /\ h.largestObject <= MaxPropertiesPerObject
      BY <1>6, <2>1 DEF SameCounts
    <2> QED  BY <1>14, <2>2, LimitsStillKept
  <1>17. StringsAgree(t, h)  BY <1>2, <1>4, <1>6, <1>12 DEF StringsAgree, SameString
  <1>18. t.result = "none"  BY <1>1, <1>12 DEF SameTotals
  <1> QED  BY <1>6, <1>13, <1>15, <1>16, <1>17, <1>18 DEF Follows, Agree, t

\* What both count when an array ends.
LEMMA ElementsAgree ==
    ASSUME NEW s, NEW g, Corresponds(s, g), g.open # <<>>,
           g.at \in {"after", "scalar", "firstKey", "firstElement"},
           g.at = "firstKey" => top(g).kind = "openBrace"
    PROVE  Elements(s) = EndedElements(g)
  <1>1. /\ back(s).openingCharacter = top(g).kind
        /\ ContainerAgrees(back(s), top(g), g.at)
        /\ back(s) \in Container /\ top(g) \in OpenContainer
    BY DEF Corresponds
  <1>2. top(g).kind \in Openers  BY <1>1 DEF OpenContainer
  <1>3. CASE top(g).kind = "openBrace"
    BY <1>1, <1>3 DEF Elements, EndedElements
  <1>4. CASE top(g).kind = "openBracket"
    <2>1. EndedElements(g) = top(g).count  BY <1>4 DEF EndedElements
    <2>2. /\ back(s).hasContent <=> g.at # "firstElement"
          /\ g.at = "firstElement" => top(g).count = 0
          /\ back(s).commaCount
               + (IF g.at \in {"value", "firstElement"} THEN 0 ELSE 1) = top(g).count
      BY <1>1, <1>4 DEF ContainerAgrees
    <2>3. CASE g.at = "firstElement"
      BY <1>1, <1>4, <2>1, <2>2, <2>3 DEF Elements
    <2>4. CASE g.at # "firstElement"
      <3>1. back(s).commaCount + 1 = top(g).count  BY <2>2, <2>4
      <3> QED  BY <1>1, <1>4, <2>1, <2>2, <2>4, <3>1 DEF Elements
    <2> QED  BY <2>3, <2>4
  <1> QED  BY <1>2, <1>3, <1>4 DEF Openers

LEMMA CloserFollows ==
    ASSUME NEW n, NEW s, NEW g, Simulates(s, g, n), NEW c \in Closers,
           Within(g, OpenerOf(c)),
           g.at \in {"after", "scalar",
                     IF c = "closeBrace" THEN "firstKey" ELSE "firstElement"}
    PROVE  Follows(Scan(s, c), EndContainer(g))
  <1> DEFINE t == Scan(s, c)
             h == EndContainer(g)
             m == Elements(s)
  <1>0. c \in Characters  BY DEF Characters
  <1>1. Corresponds(s, g) /\ CountsAgree(s, g) /\ LimitsKept(g) /\ s.result = "none"
    BY AgreeFacts, LimitFacts DEF Simulates
  <1>2. /\ s \in ScanState /\ g \in GrammarState /\ ~s.insideString
        /\ s.escaped = g.escape /\ Len(s.containers) = Len(g.open) /\ Len(g.open) \in Nat
        /\ (s.containers = <<>>) = (g.open = <<>>)
    BY <1>1 DEF Corresponds
  <1>3. g.open # <<>> /\ top(g).kind = OpenerOf(c)  BY DEF Within
  <1>4. back(s).openingCharacter = top(g).kind  BY <1>1, <1>3 DEF Corresponds
  <1>5. t = Close(s)
    <2>1. t = IF s.containers # <<>> /\ back(s).openingCharacter = OpenerOf(c)
              THEN Close(s) ELSE s
      BY <1>0, <1>2, ScanCases
    <2> QED  BY <1>2, <1>3, <1>4, <2>1
  <1>6. s.totalArrayElementCount <= MaxTotalElements  BY DEF Simulates, Bounded
  <1>7. /\ t \in ScanState /\ m \in Nat
        /\ Len(t.containers) = Len(s.containers) - 1
        /\ \A i \in 1 .. Len(s.containers) - 1 : t.containers[i] = s.containers[i]
        /\ t.containerCount = s.containerCount
        /\ t.totalPropertyCount = s.totalPropertyCount
        /\ SameString(s, t)
        /\ \/ m > MaxArrayElements /\ t.result = "arrayElements"
           \/ s.totalArrayElementCount + m > MaxTotalElements /\ t.result = "elements"
           \/ /\ m <= MaxArrayElements /\ t.result = "none"
              /\ t.totalArrayElementCount = s.totalArrayElementCount + m
    BY <1>1, <1>2, <1>3, <1>5, <1>6, CloseFacts
  <1>8. /\ h \in GrammarState /\ h.at = "after" /\ Len(h.open) = Len(g.open) - 1
        /\ \A i \in 1 .. Len(g.open) - 1 : h.open[i] = g.open[i]
        /\ h.elements = g.elements + EndedElements(g)
        /\ h.largestArray \in {g.largestArray, EndedElements(g)}
        /\ h.largestArray >= EndedElements(g)
        /\ h.containers = g.containers /\ h.depth = g.depth /\ h.members = g.members
        /\ h.largestObject = g.largestObject /\ h.escape = g.escape
    BY <1>2, <1>3, EndContainerFacts
  <1>9. EndedElements(g) = m
    <2>1. g.at \in {"after", "scalar", "firstKey", "firstElement"}  OBVIOUS
    <2>2. g.at = "firstKey" => top(g).kind = "openBrace"  BY <1>3 DEF OpenerOf
    <2> QED  BY <1>1, <1>3, <2>1, <2>2, ElementsAgree
  <1> HIDE DEF t, h, m
  <1>10. Awaited(g.at) = 0 /\ Awaited(h.at) = 0
    <2>1. g.at \notin {"key", "afterKey"} /\ h.at \notin {"key", "afterKey"}  BY <1>8
    <2> QED  BY <2>1 DEF Awaited
  <1>11. /\ g.depth <= MaxNesting /\ g.largestArray <= MaxArrayElements
         /\ g.largestObject <= MaxPropertiesPerObject
    BY <1>1, <1>10, LargestKept
  <1>12. g.elements = s.totalArrayElementCount /\ g.containers = s.containerCount
    BY <1>1 DEF CountsAgree
  <1>13. CASE m > MaxArrayElements /\ t.result = "arrayElements"
    <2>1. h.largestArray \in Nat /\ MaxArrayElements \in Nat
      BY <1>8, GrammarTyped, ComplexityAssumption
    <2>2. h.largestArray > MaxArrayElements  BY <1>7, <1>8, <1>9, <1>13, <2>1
    <2> QED  BY <1>8, <1>13, <2>2 DEF Follows, Beyond, t, h
  <1>14. CASE s.totalArrayElementCount + m > MaxTotalElements /\ t.result = "elements"
    <2>1. h.elements > MaxTotalElements  BY <1>8, <1>9, <1>12, <1>14
    <2> QED  BY <1>8, <1>14, <2>1 DEF Follows, Beyond, t, h
  <1>15. CASE /\ m <= MaxArrayElements /\ t.result = "none"
              /\ t.totalArrayElementCount = s.totalArrayElementCount + m
    <2>1. ASSUME NEW i \in 1 .. Len(h.open)
          PROVE  ContainerAgrees(t.containers[i], h.open[i], PlaceIn(h, i))
      <3>1. i \in 1 .. Len(g.open) - 1 /\ i \in 1 .. Len(g.open) /\ i # Len(g.open)
        BY <1>2, <1>8
      <3>2. ContainerAgrees(s.containers[i], g.open[i], PlaceIn(g, i))  BY <3>1, AgreeFacts
      <3>3. PlaceIn(g, i) = "after" /\ PlaceIn(h, i) = "after"  BY <1>8, <3>1 DEF PlaceIn
      <3>4. t.containers[i] = s.containers[i] /\ h.open[i] = g.open[i]
        BY <1>2, <1>7, <1>8, <3>1
      <3> QED  BY <3>2, <3>3, <3>4
    <2>2. ContainersAgree(t, h)
      <3>1. Len(t.containers) = Len(h.open)  BY <1>2, <1>7, <1>8
      <3>2. h.at \notin {"firstKey", "nextKey", "key", "afterKey", "firstElement"}  BY <1>8
      <3> QED  BY <2>1, <3>1, <3>2 DEF ContainersAgree
    <2>3. CountsAgree(t, h)
      <3>1. h.elements = t.totalArrayElementCount  BY <1>8, <1>9, <1>12, <1>15
      <3>2. h.members = t.totalPropertyCount + Awaited(h.at)
        BY <1>1, <1>7, <1>8, <1>10 DEF CountsAgree
      <3> QED  BY <1>7, <1>8, <1>12, <3>1, <3>2 DEF CountsAgree
    <2>4. LimitsKept(h)
      <3>1. h.largestArray <= MaxArrayElements  BY <1>8, <1>9, <1>11, <1>15
      <3> QED  BY <1>8, <1>10, <1>11, <3>1, LimitsStillKept
    <2>5. StringsAgree(t, h)  BY <1>2, <1>7, <1>8 DEF StringsAgree, SameString
    <2> QED  BY <1>8, <1>15, <2>2, <2>3, <2>4, <2>5 DEF Follows, Agree, t, h
  <1> QED  BY <1>7, <1>13, <1>14, <1>15

\* A scalar goes on, and white space ends it.
LEMMA ScalarOrSpaceFollows ==
    ASSUME NEW n, NEW s, NEW g, Simulates(s, g, n), NEW c \in Characters,
           g.at \notin {"key", "string"},
           NEW h \in GrammarState, Moved(g, h, h.at),
           \/ c = "space" /\ h.at = IF g.at = "scalar" THEN "after" ELSE g.at
           \/ c = "other" /\ g.at = "scalar" /\ h.at = "scalar"
    PROVE  Follows(Scan(s, c), h)
  <1> DEFINE t == Scan(s, c)
  <1>1. Corresponds(s, g)  BY AgreeFacts
  <1>2. /\ s \in ScanState /\ g \in GrammarState /\ ~s.insideString /\ s.escaped = g.escape
        /\ Len(s.containers) = Len(g.open) /\ Len(g.open) \in Nat
        /\ (s.containers = <<>>) = (g.open = <<>>)
    BY <1>1 DEF Corresponds
  <1>3. h.open = g.open /\ SameCounts(g, h) /\ h.escape = g.escape  BY DEF Moved
  <1>4. CASE c = "space"
    <2>1. t = s  BY <1>2, <1>4, ScanCases
    <2>2. /\ h.at = g.at \/ {g.at, h.at} \subseteq {"string", "scalar", "after"}
          /\ h.at \notin {"key", "string"}
      BY <1>4
    <2>3. SameTotals(s, s)  BY DEF SameTotals
    <2>4. s.insideString <=> h.at \in {"key", "string"}  BY <1>2, <2>2
    <2>5. s.escaped = h.escape  BY <1>2, <1>3
    <2>6. Follows(s, h)  BY <1>2, <1>3, <2>2, <2>3, <2>4, <2>5, MoveSimulated
    <2> QED  BY <2>1, <2>6
  <1>5. CASE c = "other"
    <2> DEFINE k == Len(g.open)
    <2>1. t = WithContent(s)  BY <1>2, <1>5, ScanCases
    <2> HIDE DEF t
    <2>2. /\ t \in ScanState /\ Len(t.containers) = Len(s.containers)
          /\ \A i \in 1 .. Len(s.containers) :
                t.containers[i] = IF i = Len(s.containers)
                                  THEN [s.containers[i] EXCEPT !.hasContent = TRUE]
                                  ELSE s.containers[i]
          /\ SameTotals(s, t) /\ SameString(s, t)
      BY <1>2, <2>1, WithContentFacts
    <2>3. h.at = "scalar" /\ g.at = "scalar"  BY <1>5
    <2>4. ASSUME g.open # <<>> PROVE ContainerAgrees(t.containers[k], h.open[k], h.at)
      <3>1. /\ back(s) = s.containers[k] /\ top(g) = g.open[k] /\ k \in 1 .. k
            /\ ContainerAgrees(back(s), top(g), g.at)
            /\ back(s) \in Container /\ top(g) \in OpenContainer
        BY <1>1, <2>4 DEF Corresponds
      <3>2. GetsContent(back(s), t.containers[k])
        <4>1. t.containers[k] = [back(s) EXCEPT !.hasContent = TRUE]  BY <1>2, <2>2, <3>1
        <4> QED  BY <3>1, <4>1, GetsFacts
      <3>3. g.at # "firstElement"  BY <2>3
      <3>4. ContainerAgrees(t.containers[k], top(g), g.at)
        BY <3>1, <3>2, <3>3 DEF ContainerAgrees, GetsContent
      <3> QED  BY <1>3, <2>3, <3>1, <3>4
    <2>5. \A i \in 1 .. k : i # k => t.containers[i] = s.containers[i]  BY <1>2, <2>2
    <2>6. Around(s, g, t, h, h.at)  BY <1>2, <1>3, <2>2, <2>4, <2>5 DEF Around
    <2>7. ContainersAgree(t, h)
      <3>1. h.at \notin {"firstKey", "nextKey", "key", "afterKey"} /\ h.at # "firstElement"
        BY <2>3
      <3> QED  BY <2>2, <2>6, <3>1, AroundAgrees
    <2>8. CountsAgree(s, g) /\ LimitsKept(g) /\ s.result = "none"
      BY LimitFacts DEF Simulates
    <2>9. Awaited(g.at) = 0 /\ Awaited(h.at) = 0  BY <2>3 DEF Awaited
    <2>10. CountsAgree(t, h)
      BY <1>3, <2>2, <2>8, <2>9 DEF CountsAgree, SameTotals, SameCounts
    <2>11. LimitsKept(h)
      <3>1. /\ g.depth <= MaxNesting /\ g.largestArray <= MaxArrayElements
            /\ g.largestObject <= MaxPropertiesPerObject
        BY <2>8, <2>9, LargestKept
      <3>2. /\ h.depth <= MaxNesting /\ h.largestArray <= MaxArrayElements
            /\ h.largestObject <= MaxPropertiesPerObject
        BY <1>3, <3>1 DEF SameCounts
      <3> QED  BY <2>9, <3>2, LimitsStillKept
    <2>12. StringsAgree(t, h)  BY <1>2, <1>3, <2>2, <2>3 DEF StringsAgree, SameString
    <2>13. t.result = "none"  BY <2>2, <2>8 DEF SameTotals
    <2> QED  BY <2>7, <2>10, <2>11, <2>12, <2>13 DEF Follows, Agree, t
  <1> QED  BY <1>4, <1>5

\* The scan simulates the grammar, whatever the character is.
LEMMA ScanFollows ==
    ASSUME NEW n, NEW s, NEW g, Simulates(s, g, n), NEW c \in Characters
    PROVE  Follows(Scan(s, c), Parse(g, c))
  <1>1. g \in GrammarState  BY DEF Simulates
  <1> DEFINE h == Parse(g, c)
  <1>2. CASE g.at \in {"key", "string"} /\ h = StringCharacter(g, c)
    BY <1>2, InStringFollows
  <1>3. CASE /\ g.at \in {"value", "firstElement"}
             /\ c \in Openers \union {"quote", "other"} /\ h = BeginValue(g, c)
    BY <1>3, ValueFollows, OpenerFollows
  <1>4. CASE g.at \in {"firstKey", "nextKey"} /\ c = "quote" /\ h = BeginKey(g)
    BY <1>4, KeyFollows
  <1>5. CASE g.at = "afterKey" /\ c = "colon" /\ h = [g EXCEPT !.at = "value"]
    <2> HIDE DEF h
    <2>1. Follows(Scan(s, c), h)  BY <1>5, ColonFollows
    <2> QED  BY <2>1 DEF h
  <1>6. CASE /\ g.at \in {"after", "scalar"} /\ c = "comma" /\ g.open # <<>>
             /\ h = [g EXCEPT !.at = IF Within(g, "openBrace") THEN "nextKey" ELSE "value"]
    <2> DEFINE to == IF Within(g, "openBrace") THEN "nextKey" ELSE "value"
    <2>1. h = [g EXCEPT !.at = to]  BY <1>6
    <2>2. to = IF Within(g, "openBrace") THEN "nextKey" ELSE "value"  OBVIOUS
    <2> HIDE DEF h, to
    <2>3. Follows(Scan(s, c), h)  BY <1>6, <2>1, <2>2, CommaFollows
    <2> QED  BY <2>3 DEF h
  <1>7. CASE /\ c \in Closers /\ Within(g, OpenerOf(c))
             /\ g.at \in {"after", "scalar",
                          IF c = "closeBrace" THEN "firstKey" ELSE "firstElement"}
             /\ h = EndContainer(g)
    BY <1>7, CloserFollows
  <1>8. CASE g.at = "scalar" /\ c = "other" /\ h = g
    <2>1. Moved(g, g, g.at)  BY <1>1 DEF Moved, SameCounts
    <2>2. Follows(Scan(s, c), g)  BY <1>1, <1>8, <2>1, ScalarOrSpaceFollows
    <2> QED  BY <1>8, <2>2
  <1>9. CASE /\ c = "space" /\ g.at \notin {"key", "string"}
             /\ h = [g EXCEPT !.at = IF @ = "scalar" THEN "after" ELSE @]
    <2> DEFINE to == IF g.at = "scalar" THEN "after" ELSE g.at
    <2>1. to \in Places  BY <1>1, GrammarTyped DEF Places
    <2>2. h = [g EXCEPT !.at = to]  BY <1>1, <1>9
    <2>3. to = IF g.at = "scalar" THEN "after" ELSE g.at  OBVIOUS
    <2> HIDE DEF h, to
    <2>4. Moved(g, h, to)  BY <1>1, <2>1, <2>2, PlaceChanged
    <2>5. h \in GrammarState /\ h.at = to /\ Moved(g, h, h.at)  BY <2>4 DEF Moved
    <2>6. Follows(Scan(s, c), h)  BY <1>9, <2>3, <2>5, ScalarOrSpaceFollows
    <2> QED  BY <2>6 DEF h
  <1>10. CASE h = Malformed(g)
    BY <1>1, <1>10, MalformedFollows
  <1> HIDE DEF h
  <1>11. Follows(Scan(s, c), h)
    <2>1. \/ g.at \in {"key", "string"} /\ h = StringCharacter(g, c)
          \/ /\ g.at \in {"value", "firstElement"}
             /\ c \in Openers \union {"quote", "other"} /\ h = BeginValue(g, c)
          \/ g.at \in {"firstKey", "nextKey"} /\ c = "quote" /\ h = BeginKey(g)
          \/ g.at = "afterKey" /\ c = "colon" /\ h = [g EXCEPT !.at = "value"]
          \/ /\ g.at \in {"after", "scalar"} /\ c = "comma" /\ g.open # <<>>
             /\ h = [g EXCEPT !.at = IF Within(g, "openBrace") THEN "nextKey" ELSE "value"]
          \/ /\ c \in Closers /\ Within(g, OpenerOf(c))
             /\ g.at \in {"after", "scalar",
                          IF c = "closeBrace" THEN "firstKey" ELSE "firstElement"}
             /\ h = EndContainer(g)
          \/ g.at = "scalar" /\ c = "other" /\ h = g
          \/ /\ c = "space" /\ g.at \notin {"key", "string"}
             /\ h = [g EXCEPT !.at = IF @ = "scalar" THEN "after" ELSE @]
          \/ h = Malformed(g)
      BY <1>1, ParseCases DEF h
    <2> QED  BY <1>2, <1>3, <1>4, <1>5, <1>6, <1>7, <1>8, <1>9, <1>10, <2>1 DEF h
  <1> QED  BY <1>11 DEF h

\* What is not JSON does not become it.
LEMMA StaysMalformed ==
    ASSUME NEW g \in GrammarState, g.at = "malformed", NEW c \in Characters
    PROVE  Parse(g, c) \in GrammarState /\ Parse(g, c).at = "malformed"
  <1> DEFINE h == Parse(g, c)
             to == IF g.at = "scalar" THEN "after" ELSE g.at
  <1>1. \/ h = [g EXCEPT !.at = to]
        \/ h = Malformed(g)
    BY ParseCases
  <1>2. to = "malformed" /\ to \in Places  BY DEF Places
  <1> HIDE DEF h, to
  <1>3. \/ h = [g EXCEPT !.at = to]
        \/ h = [g EXCEPT !.at = "malformed"]
    BY <1>1 DEF Malformed
  <1>4. Moved(g, h, "malformed")  BY <1>2, <1>3, PlaceChanged
  <1> QED  BY <1>4 DEF Moved, h
----------------------------------------------------------------------------
(* The invariant. *)

LEMMA BeyondIsExceeded ==
    ASSUME Beyond(scan'.result, grammar')
    PROVE  scan'.result \in Exceeded'
  <1>1. scan'.result \in Limits  BY DEF Beyond, Limits
  <1>2. CASE scan'.result = "nesting"  BY <1>1, <1>2 DEF Beyond, Exceeded
  <1>3. CASE scan'.result = "containers"  BY <1>1, <1>3 DEF Beyond, Exceeded
  <1>4. CASE scan'.result = "objectProperties"  BY <1>1, <1>4 DEF Beyond, Exceeded
  <1>5. CASE scan'.result = "properties"  BY <1>1, <1>5 DEF Beyond, Exceeded
  <1>6. CASE scan'.result = "arrayElements"  BY <1>1, <1>6 DEF Beyond, Exceeded
  <1>7. CASE scan'.result = "elements"  BY <1>1, <1>7 DEF Beyond, Exceeded
  <1> QED  BY <1>1, <1>2, <1>3, <1>4, <1>5, <1>6, <1>7 DEF Limits

\* The part of TextTypeOK that is about the scan.
Typed(s) ==
    /\ Len(s.containers) <= MaxNesting + 1
    /\ \A i \in 1 .. Len(s.containers) :
          /\ s.containers[i].openingCharacter \in Openers
          /\ s.containers[i].propertyCount \in 0 .. MaxPropertiesPerObject + 1
          /\ s.containers[i].commaCount \in 0 .. MaxLength
          /\ s.containers[i].hasContent \in BOOLEAN
    /\ s.containerCount \in 0 .. MaxContainers + 1
    /\ s.totalPropertyCount \in 0 .. MaxTotalProperties + 1
    /\ s.totalArrayElementCount \in 0 .. MaxTotalElements
    /\ {s.insideString, s.escaped} \subseteq BOOLEAN

LEMMA BoundedIsTyped ==
    ASSUME NEW s, NEW n \in 0 .. MaxLength, Bounded(s, n)
    PROVE  /\ Typed(s) /\ s \in ScanState /\ ScanGoesOn(s)
           /\ \A i \in 1 .. Len(s.containers) : s.containers[i].commaCount <= n
  <1>1. /\ MaxPropertiesPerObject \in Nat /\ MaxLength \in Nat /\ MaxContainers \in Nat
        /\ MaxTotalProperties \in Nat /\ MaxTotalElements \in Nat
    BY ComplexityAssumption
  <1>2. s \in ScanState  BY DEF Bounded
  <1>3. \A i \in 1 .. Len(s.containers) :
            /\ s.containers[i].openingCharacter \in Openers
            /\ s.containers[i].propertyCount \in 0 .. MaxPropertiesPerObject + 1
            /\ s.containers[i].commaCount \in 0 .. MaxLength
            /\ s.containers[i].hasContent \in BOOLEAN
    <2> TAKE i \in 1 .. Len(s.containers)
    <2>1. /\ s.containers[i] \in Container /\ s.containers[i].propertyCount \in Nat
          /\ s.containers[i].commaCount \in Nat
      BY <1>2, ContainersTyped
    <2>2. /\ s.containers[i].propertyCount <= MaxPropertiesPerObject + 1
          /\ s.containers[i].commaCount <= n
      BY DEF Bounded
    <2>3. s.containers[i].openingCharacter \in Openers /\ s.containers[i].hasContent \in BOOLEAN
      BY <2>1 DEF Container
    <2> QED  BY <1>1, <2>1, <2>2, <2>3
  <1>4. /\ s.containerCount \in 0 .. MaxContainers + 1
        /\ s.totalPropertyCount \in 0 .. MaxTotalProperties + 1
        /\ s.totalArrayElementCount \in 0 .. MaxTotalElements
    <2>1. /\ s.containerCount \in Nat /\ s.totalPropertyCount \in Nat
          /\ s.totalArrayElementCount \in Nat
      BY <1>2, ContainersTyped
    <2>2. /\ s.containerCount <= MaxContainers + 1
          /\ s.totalPropertyCount <= MaxTotalProperties + 1
          /\ s.totalArrayElementCount <= MaxTotalElements
      BY DEF Bounded
    <2> QED  BY <1>1, <2>1, <2>2
  <1>5. {s.insideString, s.escaped} \subseteq BOOLEAN  BY <1>2, ContainersTyped
  <1>6. Typed(s)  BY <1>3, <1>4, <1>5 DEF Typed, Bounded
  <1> QED  BY <1>2, <1>6 DEF Bounded

LEMMA TypedIsBounded ==
    ASSUME TextInv
    PROVE  Bounded(scan, length)
  <1>1. \A i \in 1 .. Len(scan.containers) :
            /\ scan.containers[i].propertyCount <= MaxPropertiesPerObject + 1
            /\ scan.containers[i].commaCount <= length
    BY DEF TextInv, TextTypeOK
  <1>2. /\ scan.containerCount <= MaxContainers + 1
        /\ scan.totalPropertyCount <= MaxTotalProperties + 1
        /\ scan.totalArrayElementCount <= MaxTotalElements
        /\ Len(scan.containers) <= MaxNesting + 1
    BY DEF TextInv, TextTypeOK
  <1> QED  BY <1>1, <1>2 DEF TextInv, Bounded

LEMMA InitText == TextInit => TextInv
  <1> SUFFICES ASSUME TextInit PROVE TextInv  OBVIOUS
  <1> DEFINE s == StartOfScan
             g == StartOfText
  <1>1. scan = s /\ grammar = g /\ length = 0 /\ outcome = "none"  BY DEF TextInit
  <1>2. /\ s.containers = <<>> /\ s.containerCount = 0 /\ s.totalPropertyCount = 0
        /\ s.totalArrayElementCount = 0 /\ ~s.insideString /\ ~s.escaped
        /\ s.insideString \in BOOLEAN /\ s.escaped = FALSE /\ s.result = "none"
    BY DEF StartOfScan
  <1>3. /\ g.at = "value" /\ g.escape = FALSE /\ g.open = <<>> /\ g.containers = 0
        /\ g.depth = 0 /\ g.members = 0 /\ g.largestObject = 0 /\ g.elements = 0
        /\ g.largestArray = 0
    BY DEF StartOfText
  <1>4. s \in ScanState
    <2>1. <<>> \in Seq(Container)  OBVIOUS
    <2> QED  BY <2>1 DEF StartOfScan, ScanState, Container
  <1>5. g \in GrammarState
    <2>1. <<>> \in Seq(OpenContainer)  OBVIOUS
    <2> QED  BY <2>1 DEF StartOfText, GrammarState, OpenContainer, Places
  <1> HIDE DEF s, g
  <1>6. Len(s.containers) = 0 /\ Len(g.open) = 0 /\ 1 .. 0 = {}  BY <1>2, <1>3
  <1>7. /\ MaxPropertiesPerObject \in Nat /\ MaxLength \in Nat /\ MaxContainers \in Nat
        /\ MaxTotalProperties \in Nat /\ MaxTotalElements \in Nat /\ MaxNesting \in Nat
        /\ MaxArrayElements \in Nat
    BY ComplexityAssumption
  <1>8. Bounded(s, 0)
    <2>1. ScanGoesOn(s)  BY <1>2, <1>6, <1>7 DEF ScanGoesOn
    <2> QED  BY <1>2, <1>4, <1>6, <1>7, <2>1 DEF Bounded
  <1>9. 0 \in 0 .. MaxLength  BY <1>7
  <1>10. /\ Typed(s) /\ ScanGoesOn(s)
         /\ \A i \in 1 .. Len(s.containers) : s.containers[i].commaCount <= 0
    BY <1>8, <1>9, BoundedIsTyped
  <1>11. TextTypeOK  BY <1>1, <1>9, <1>10 DEF TextTypeOK, Typed
  <1>12. RefusesBeyondLimits  BY <1>1 DEF RefusesBeyondLimits
  <1>13. Agree(s, g)
    <2>1. ContainersAgree(s, g)  BY <1>3, <1>6 DEF ContainersAgree
    <2>2. StringsAgree(s, g)  BY <1>2, <1>3 DEF StringsAgree
    <2>3. Awaited(g.at) = 0  BY <1>3 DEF Awaited
    <2>4. CountsAgree(s, g)  BY <1>2, <1>3, <2>3 DEF CountsAgree
    <2>5. LimitsKept(g)
      <3>1. /\ g.depth <= MaxNesting /\ g.largestArray <= MaxArrayElements
            /\ g.largestObject <= MaxPropertiesPerObject
        BY <1>3, <1>7
      <3> QED  BY <2>3, <3>1, LimitsStillKept
    <2> QED  BY <2>1, <2>2, <2>4, <2>5 DEF Agree
  <1> QED  BY <1>1, <1>2, <1>4, <1>5, <1>10, <1>11, <1>12, <1>13 DEF TextInv

LEMMA CharacterKeepsText ==
    ASSUME TextInv, NEW c \in Characters, Character(c)
    PROVE  TextInv'
  <1>1. /\ outcome = "none" /\ length < MaxLength /\ length' = length + 1
        /\ scan' = Scan(scan, c) /\ grammar' = Parse(grammar, c)
        /\ outcome' = IF scan'.result = "none" THEN "none" ELSE "refused"
    BY DEF Character
  <1>2. /\ length \in 0 .. MaxLength /\ grammar \in GrammarState
        /\ outcome = "refused" <=> scan.result # "none"
        /\ outcome # "refused" /\ WellFormed => Agree(scan, grammar)
    BY DEF TextInv, TextTypeOK
  <1>3. scan.result = "none"  BY <1>1, <1>2
  <1>4. Bounded(scan, length)  BY TypedIsBounded
  <1>5. length \in Nat /\ length' \in 0 .. MaxLength
    BY <1>1, <1>2, ComplexityAssumption
  <1>6. Bounded(scan', length')
    <2>1. Bounded(Scan(scan, c), length + 1)  BY <1>3, <1>4, <1>5, ScanStaysBounded
    <2> QED  BY <1>1, <2>1
  <1>7. /\ Typed(scan') /\ scan' \in ScanState /\ ScanGoesOn(scan')
        /\ \A i \in 1 .. Len(scan'.containers) : scan'.containers[i].commaCount <= length'
    BY <1>5, <1>6, BoundedIsTyped
  <1>8. outcome' \in {"none", "refused"} /\ (outcome' = "refused" <=> scan'.result # "none")
    BY <1>1
  <1>9. TextTypeOK'  BY <1>5, <1>7, <1>8 DEF TextTypeOK, Typed
  <1>10. Follows(scan', grammar')
    <2>1. CASE WellFormed
      <3>1. Agree(scan, grammar)  BY <1>1, <1>2, <2>1
      <3>2. Simulates(scan, grammar, length)
        BY <1>2, <1>3, <1>4, <2>1, <3>1 DEF Simulates, WellFormed
      <3> QED  BY <1>1, <3>2, ScanFollows
    <2>2. CASE ~WellFormed
      <3>1. grammar' \in GrammarState /\ grammar'.at = "malformed"
        BY <1>1, <1>2, <2>2, StaysMalformed DEF WellFormed
      <3> QED  BY <3>1 DEF Follows
    <2> QED  BY <2>1, <2>2
  <1>11. grammar' \in GrammarState  BY <1>10 DEF Follows
  <1>12. RefusesBeyondLimits'
    <2> SUFFICES ASSUME outcome' = "refused", WellFormed' PROVE scan'.result \in Exceeded'
      BY DEF RefusesBeyondLimits
    <2>1. Beyond(scan'.result, grammar')  BY <1>8, <1>10 DEF Follows, WellFormed
    <2> QED  BY <2>1, BeyondIsExceeded
  <1>13. (outcome # "refused" /\ WellFormed => Agree(scan, grammar))'
    BY <1>8, <1>10 DEF Follows, WellFormed
  <1> QED  BY <1>7, <1>8, <1>9, <1>11, <1>12, <1>13 DEF TextInv

LEMMA EndKeepsText ==
    ASSUME TextInv, EndOfText
    PROVE  TextInv'
  <1>1. /\ outcome = "none" /\ outcome' = "accepted"
        /\ scan' = scan /\ grammar' = grammar /\ length' = length
    BY DEF EndOfText
  <1>2. TextTypeOK' /\ RefusesBeyondLimits'
    BY <1>1 DEF TextInv, TextTypeOK, RefusesBeyondLimits
  <1> QED  BY <1>1, <1>2 DEF TextInv, WellFormed

LEMMA NextText == TextInv /\ [TextNext]_textVars => TextInv'
  <1> SUFFICES ASSUME TextInv, [TextNext]_textVars PROVE TextInv'  OBVIOUS
  <1>1. CASE EndOfText  BY <1>1, EndKeepsText
  <1>2. ASSUME NEW c \in Characters, Character(c) PROVE TextInv'
    BY <1>2, CharacterKeepsText
  <1>3. CASE UNCHANGED textVars
    <2>1. scan' = scan /\ grammar' = grammar /\ length' = length /\ outcome' = outcome
      BY <1>3 DEF textVars
    <2>2. TextTypeOK' /\ RefusesBeyondLimits'
      BY <2>1 DEF TextInv, TextTypeOK, RefusesBeyondLimits, WellFormed, Exceeded
    <2> QED  BY <2>1, <2>2 DEF TextInv, WellFormed
  <1> QED  BY <1>1, <1>2, <1>3 DEF TextNext
----------------------------------------------------------------------------
\* At every character of every text, the scan knows what the grammar counts.
THEOREM TextInvariant == TextSpec => []TextInv
  <1> QED  BY InitText, NextText, PTL DEF TextSpec

\* The stack and the counters of the scan are bounded by the limits for any
\* text, whether it is JSON or not.
THEOREM ScanBounded == TextSpec => []TextTypeOK
  <1>1. TextInv => TextTypeOK  BY DEF TextInv
  <1> QED  BY <1>1, TextInvariant, PTL

\* The simulation makes the counts of the grammar, once complete, those of the scan.
LEMMA TextInvWithinLimits == TextInv => AcceptsWithinLimits
  <1> SUFFICES ASSUME TextInv, outcome = "accepted", Complete PROVE Exceeded = {}
    BY DEF AcceptsWithinLimits
  <1>1. grammar.at \in {"after", "scalar"}  BY DEF Complete
  <1>2. Agree(scan, grammar)  BY <1>1 DEF TextInv, WellFormed
  <1>3. scan.result = "none" /\ scan \in ScanState /\ grammar \in GrammarState
    BY DEF TextInv
  <1>4. CountsAgree(scan, grammar) /\ LimitsKept(grammar)  BY <1>2 DEF Agree
  <1>5. Awaited(grammar.at) = 0  BY <1>1 DEF Awaited
  <1>6. /\ grammar.depth <= MaxNesting /\ grammar.largestArray <= MaxArrayElements
        /\ grammar.largestObject <= MaxPropertiesPerObject
    BY <1>4, <1>5, LargestKept
  <1>7. /\ grammar.containers <= MaxContainers
        /\ grammar.members <= MaxTotalProperties
        /\ grammar.elements <= MaxTotalElements
    <2>1. Bounded(scan, length)  BY TypedIsBounded
    <2>2. /\ scan.containerCount <= MaxContainers
          /\ scan.totalPropertyCount <= MaxTotalProperties
          /\ scan.totalArrayElementCount <= MaxTotalElements
      BY <1>3, <2>1 DEF Bounded, ScanGoesOn
    <2>3. grammar.members = scan.totalPropertyCount
      <3>1. scan.totalPropertyCount \in Nat  BY <1>3, ContainersTyped
      <3>2. grammar.members = scan.totalPropertyCount + 0
        BY <1>4, <1>5 DEF CountsAgree
      <3> QED  BY <3>1, <3>2
    <2> QED  BY <1>4, <2>2, <2>3 DEF CountsAgree
  <1>8. /\ grammar.depth \in Nat /\ grammar.largestArray \in Nat
        /\ grammar.largestObject \in Nat /\ grammar.containers \in Nat
        /\ grammar.members \in Nat /\ grammar.elements \in Nat
    BY <1>3, GrammarTyped
  <1>9. /\ ~(grammar.depth > MaxNesting) /\ ~(grammar.largestArray > MaxArrayElements)
        /\ ~(grammar.largestObject > MaxPropertiesPerObject)
        /\ ~(grammar.containers > MaxContainers)
        /\ ~(grammar.members > MaxTotalProperties)
        /\ ~(grammar.elements > MaxTotalElements)
    BY <1>6, <1>7, <1>8, ComplexityAssumption
  <1>10. ASSUME NEW limit \in Exceeded PROVE FALSE
    <2>1. limit \in Limits
          /\ CASE limit = "nesting"          -> grammar.depth > MaxNesting
               [] limit = "containers"       -> grammar.containers > MaxContainers
               [] limit = "objectProperties" -> grammar.largestObject
                                                  > MaxPropertiesPerObject
               [] limit = "properties"       -> grammar.members > MaxTotalProperties
               [] limit = "arrayElements"    -> grammar.largestArray > MaxArrayElements
               [] limit = "elements"         -> grammar.elements > MaxTotalElements
      BY <1>10 DEF Exceeded
    <2> QED  BY <1>9, <2>1 DEF Limits
  <1> QED  BY <1>10

\* What the scan accepts and the parser can parse is within all six limits:
\* nothing hides a container, a member or an element from the scan.
THEOREM NothingCostlyParsed == TextSpec => []AcceptsWithinLimits
  <1> QED  BY TextInvWithinLimits, TextInvariant, PTL

\* A text is refused only for a limit that it exceeds, as far as it goes.
THEOREM NothingSmallRefused == TextSpec => []RefusesBeyondLimits
  <1>1. TextInv => RefusesBeyondLimits  BY DEF TextInv
  <1> QED  BY <1>1, TextInvariant, PTL
============================================================================
