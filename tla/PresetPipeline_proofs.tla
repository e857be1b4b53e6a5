------------------------- MODULE PresetPipeline_proofs -------------------------
(***************************************************************************)
(* The stages of applyPresetJson agree on what a preset is: proofs for       *)
(* every document, every limit and every host.  The way is that of the       *)
(* pipeline.  The validator's sums, dates, versions and positions are those  *)
(* of the Preset Format, section by section; what it accepts comes through   *)
(* the sort and the conversion as it was written; the pulses sound so.       *)
(* The sums and the placement of the groups are recursive functions over the *)
(* grouping: that they exist, and what they compute, is shown by induction   *)
(* in the form that every set of natural numbers has a least member.         *)
(***************************************************************************)
EXTENDS PresetPipeline, FiniteSetTheorems, JsonText_proofs

(* Least members, and functions that are defined by recursion. *)

\* A set of natural numbers that is not empty has a least member: from this,
\* every induction of this module follows.
LEMMA LeastMember ==
    ASSUME NEW T \in SUBSET Nat, T # {}
    PROVE  \E n \in T : \A m \in T : n <= m
  <1> DEFINE R == OpToRel(<, Nat)
  <1>1. IsWellFoundedOn(R, Nat)  BY NatLessThanWellFounded
  <1>2. \A m, n \in Nat : m < n => <<m, n>> \in R  BY DEF OpToRel
  <1> HIDE DEF R
  <1>3. \E x \in T : \A y \in T : ~ (<<y, x>> \in R)  BY <1>1, WFMin
  <1>4. PICK x \in T : \A y \in T : ~ (<<y, x>> \in R)  BY <1>3
  <1>5. ASSUME NEW y \in T PROVE x <= y
    <2>1. x \in Nat /\ y \in Nat /\ <<y, x>> \notin R  BY <1>4
    <2>2. ~(y < x)  BY <1>2, <2>1
    <2> QED  BY <2>1, <2>2
  <1> QED  BY <1>5

\* Induction up to N: a set that has 0 and, with a number below N, the next one,
\* has all the numbers up to N.
LEMMA UpTo ==
    ASSUME NEW N \in Nat, NEW T, 0 \in T,
           \A n \in 0 .. N - 1 : n \in T => n + 1 \in T
    PROVE  0 .. N \subseteq T
  <1> SUFFICES ASSUME (0 .. N) \ T # {} PROVE FALSE  OBVIOUS
  <1>1. (0 .. N) \ T \in SUBSET Nat  OBVIOUS
  <1>2. PICK n \in (0 .. N) \ T : \A m \in (0 .. N) \ T : n <= m
    BY <1>1, LeastMember
  <1>3. n - 1 \in 0 .. N - 1 /\ n - 1 \in T /\ (n - 1) + 1 = n  BY <1>2
  <1> QED  BY <1>2, <1>3

Iterates(S, start, step, N) ==
    {f \in [0 .. N -> S] :
        f[0] = start /\ \A n \in 1 .. N : f[n] = step[<<f[n - 1], n>>]}

\* A function that is defined by recursion over an interval exists, and takes
\* its values where its steps do.
LEMMA RecursionExists ==
    ASSUME NEW S, NEW start \in S, NEW N \in Nat,
           NEW step \in [S \X (1 .. N) -> S]
    PROVE  Iterates(S, start, step, N) # {}
  <1> DEFINE Follows0(f, n) == /\ f \in [0 .. n -> S] /\ f[0] = start
                               /\ \A i \in 1 .. n : f[i] = step[<<f[i - 1], i>>]
             T == {n \in 0 .. N : \E f : Follows0(f, n)}
  <1>1. 0 \in T
    <2>1. Follows0([i \in 0 .. 0 |-> start], 0)  OBVIOUS
    <2> HIDE DEF Follows0
    <2>2. 0 \in 0 .. N /\ \E f : Follows0(f, 0)  BY <2>1
    <2> QED  BY <2>2
  <1>2. ASSUME NEW n \in 0 .. N - 1, n \in T PROVE n + 1 \in T
    <2>1. PICK f : Follows0(f, n)  BY <1>2
    <2> DEFINE g == [i \in 0 .. n + 1 |-> IF i = n + 1 THEN step[<<f[n], n + 1>>] ELSE f[i]]
    <2>2. n \in Nat /\ n + 1 \in 0 .. N /\ n + 1 \in 1 .. N /\ n \in 0 .. n  OBVIOUS
    <2>3. f[n] \in S /\ step[<<f[n], n + 1>>] \in S  BY <2>1, <2>2
    <2>4. g \in [0 .. n + 1 -> S] /\ g[0] = start  BY <2>1, <2>2, <2>3
    <2>5. ASSUME NEW i \in 1 .. n + 1 PROVE g[i] = step[<<g[i - 1], i>>]
      <3>1. i - 1 \in 0 .. n /\ g[i - 1] = f[i - 1]  BY <2>2
      <3>2. CASE i = n + 1  BY <2>2, <3>1, <3>2
      <3>3. CASE i # n + 1
        <4>1. i \in 1 .. n /\ g[i] = f[i]  BY <2>2, <3>3
        <4> QED  BY <2>1, <3>1, <4>1
      <3> QED  BY <3>2, <3>3
    <2>6. Follows0(g, n + 1)  BY <2>4, <2>5
    <2> QED  BY <2>2, <2>6
  <1>3. N \in T
    <2> HIDE DEF T
    <2> QED  BY <1>1, <1>2, UpTo
  <1>4. PICK f : Follows0(f, N)  BY <1>3
  <1>5. f \in Iterates(S, start, step, N)  BY <1>4 DEF Iterates
  <1> QED  BY <1>5

\* SumsOf is the function its recursion describes.
LEMMA SumsFacts ==
    ASSUME NEW g \in Seq(Int)
    PROVE  /\ SumsOf(g) \in [0 .. Len(g) -> Int]
           /\ SumsOf(g)[0] = 0
           /\ \A n \in 1 .. Len(g) : SumsOf(g)[n] = SumsOf(g)[n - 1] + g[n]
  <1> DEFINE N == Len(g)
             F(f) == [n \in 0 .. N |-> IF n = 0 THEN 0 ELSE f[n - 1] + g[n]]
             step == [p \in Int \X (1 .. N) |-> p[1] + g[p[2]]]
  <1>1. N \in Nat /\ \A n \in 1 .. N : g[n] \in Int  OBVIOUS
  <1>2. step \in [Int \X (1 .. N) -> Int]  BY <1>1
  <1>3. PICK f \in [0 .. N -> Int] :
            f[0] = 0 /\ \A n \in 1 .. N : f[n] = step[<<f[n - 1], n>>]
    <2>1. N \in Nat /\ 0 \in Int  OBVIOUS
    <2> HIDE DEF step, N
    <2>2. Iterates(Int, 0, step, N) # {}  BY <1>2, <2>1, RecursionExists
    <2> QED  BY <2>2 DEF Iterates
  <1>4. f = F(f)
    <2>1. ASSUME NEW n \in 1 .. N PROVE step[<<f[n - 1], n>>] = f[n - 1] + g[n]
      <3>1. n - 1 \in 0 .. N  BY <1>1
      <3>2. f[n - 1] \in Int  BY <3>1
      <3> QED  BY <3>2
    <2>2. ASSUME NEW n \in 0 .. N PROVE f[n] = F(f)[n]
      <3>1. CASE n = 0  BY <1>1, <1>3, <3>1
      <3>2. CASE n # 0
        <4>1. n \in 1 .. N  BY <1>1, <3>2
        <4>2. f[n] = step[<<f[n - 1], n>>]
          <5> HIDE DEF step
          <5> QED  BY <1>3, <4>1
        <4> QED  BY <2>1, <3>2, <4>1, <4>2
      <3> QED  BY <3>1, <3>2
    <2> QED  BY <2>2
  <1>5. SumsOf(g) = CHOOSE f_1 : f_1 = F(f_1)  BY DEF SumsOf
  <1>6. SumsOf(g) = F(SumsOf(g))
    <2> HIDE DEF F
    <2> QED  BY <1>4, <1>5
  <1> DEFINE s == SumsOf(g)
  <1>7. /\ s = [n \in 0 .. N |-> s[n]] /\ s[0] = 0
        /\ \A n \in 1 .. N : s[n] = s[n - 1] + g[n]
    BY <1>1, <1>6
  <1>8. \A n \in 0 .. N : s[n] \in Int
    <2> DEFINE T == {n \in 0 .. N : s[n] \in Int}
    <2>1. 0 \in T  BY <1>1, <1>7
    <2>2. ASSUME NEW n \in 0 .. N - 1, n \in T PROVE n + 1 \in T
      <3>1. n + 1 \in 1 .. N /\ (n + 1) - 1 = n  BY <1>1
      <3>2. s[n + 1] = s[n] + g[n + 1] /\ g[n + 1] \in Int  BY <1>1, <1>7, <3>1
      <3> QED  BY <2>2, <3>1, <3>2
    <2> HIDE DEF T
    <2>3. 0 .. N \subseteq T  BY <1>1, <2>1, <2>2, UpTo
    <2> QED  BY <2>3 DEF T
  <1> QED  BY <1>7, <1>8

Groups == Nat \ {0}

\* The sums of positive groups rise.
LEMMA SumsRise ==
    ASSUME NEW g \in Seq(Groups)
    PROVE  /\ SumsOf(g) \in [0 .. Len(g) -> Nat]
           /\ \A n \in 1 .. Len(g) : SumsOf(g)[n] = SumsOf(g)[n - 1] + g[n]
           /\ \A m, n \in 0 .. Len(g) : m < n => SumsOf(g)[m] < SumsOf(g)[n]
  <1> DEFINE N == Len(g)
             s == SumsOf(g)
             T == {n \in 0 .. N : s[n] \in Nat /\ \A m \in 0 .. n - 1 : s[m] < s[n]}
  <1>1. N \in Nat /\ \A n \in 1 .. N : g[n] \in Nat \ {0}  BY DEF Groups
  <1>2. g \in Seq(Int)  BY DEF Groups
  <1>3. /\ s \in [0 .. N -> Int] /\ s[0] = 0
        /\ \A n \in 1 .. N : s[n] = s[n - 1] + g[n]
    BY <1>2, SumsFacts
  <1>4. 0 \in T  BY <1>1, <1>3
  <1>5. ASSUME NEW n \in 0 .. N - 1, n \in T PROVE n + 1 \in T
    <2>1. n + 1 \in 1 .. N /\ (n + 1) - 1 = n /\ n \in Nat  BY <1>1
    <2>2. s[n + 1] = s[n] + g[n + 1] /\ g[n + 1] \in Nat \ {0}
      BY <1>1, <1>3, <2>1
    <2>3. s[n] \in Nat /\ \A m \in 0 .. n - 1 : s[m] < s[n]  BY <1>5
    <2>4. s[n + 1] \in Nat /\ s[n] < s[n + 1]  BY <2>2, <2>3
    <2>5. ASSUME NEW m \in 0 .. (n + 1) - 1 PROVE s[m] < s[n + 1]
      <3>1. m = n \/ m \in 0 .. n - 1  BY <2>1
      <3>2. s[m] \in Int  BY <1>1, <1>3, <2>1
      <3> QED  BY <2>3, <2>4, <3>1, <3>2
    <2> QED  BY <2>1, <2>4, <2>5
  <1> HIDE DEF T
  <1>6. 0 .. N \subseteq T  BY <1>1, <1>4, <1>5, UpTo
  <1>7. ASSUME NEW n \in 0 .. N PROVE s[n] \in Nat /\ \A m \in 0 .. n - 1 : s[m] < s[n]
    BY <1>6 DEF T
  <1>8. ASSUME NEW m \in 0 .. N, NEW n \in 0 .. N, m < n PROVE s[m] < s[n]
    <2>1. m \in 0 .. n - 1  BY <1>1, <1>8
    <2> QED  BY <1>7, <2>1
  <1>9. s \in [0 .. N -> Nat]  BY <1>3, <1>7
  <1> QED  BY <1>3, <1>8, <1>9

----------------------------------------------------------------------------
(* The sums of the groups, in the format and in the validator. *)

Total == [sum : Int, errors : SUBSET {"groupingValues", "groupingRange"}]

\* One step of the validator's sum: an error is never taken back, and a group
\* that causes none is positive and added.
LEMMA AddGroupTyped ==
    ASSUME NEW total \in Total, NEW group \in Number
    PROVE  /\ AddGroup(total, group) \in Total
           /\ total.errors \subseteq AddGroup(total, group).errors
           /\ AddGroup(total, group).errors = {} =>
                 /\ group \in Groups
                 /\ AddGroup(total, group).sum = total.sum + group
           /\ (group \in Groups /\ group # Bad /\ total.sum <= MaxInteger - group) =>
                 /\ AddGroup(total, group).sum = total.sum + group
                 /\ AddGroup(total, group).errors = total.errors
  <1>1. CASE group = Bad  BY <1>1 DEF AddGroup, Total
  <1>2. CASE group # Bad
    <2>1. group \in Int /\ MaxInteger \in Int /\ total.sum \in Int
      BY <1>2, PresetAssumption DEF Number, Total
    <2>2. CASE group < 1  BY <1>2, <2>1, <2>2 DEF AddGroup, Total, Groups
    <2>3. CASE ~(group < 1) /\ total.sum > MaxInteger - group
      BY <1>2, <2>1, <2>3 DEF AddGroup, Total, Groups
    <2>4. CASE ~(group < 1) /\ ~(total.sum > MaxInteger - group)
      <3>1. AddGroup(total, group) = [total EXCEPT !.sum = @ + group]
        BY <1>2, <2>1, <2>4 DEF AddGroup
      <3> QED  BY <2>1, <2>4, <3>1 DEF Total, Groups
    <2> QED  BY <2>2, <2>3, <2>4
  <1> QED  BY <1>1, <1>2

\* TotalsOf is the function its recursion describes.
LEMMA TotalsFacts ==
    ASSUME NEW g \in Seq(Number)
    PROVE  /\ TotalsOf(g) \in [0 .. Len(g) -> Total]
           /\ TotalsOf(g)[0] = NoGroups
           /\ \A n \in 1 .. Len(g) : TotalsOf(g)[n] = AddGroup(TotalsOf(g)[n - 1], g[n])
  <1> DEFINE N == Len(g)
             F(f) == [n \in 0 .. N |-> IF n = 0 THEN NoGroups ELSE AddGroup(f[n - 1], g[n])]
             step == [p \in Total \X (1 .. N) |-> AddGroup(p[1], g[p[2]])]
  <1>1. N \in Nat /\ \A n \in 1 .. N : g[n] \in Number  OBVIOUS
  <1>2. step \in [Total \X (1 .. N) -> Total]  BY <1>1, AddGroupTyped
  <1>3. PICK f \in [0 .. N -> Total] :
            f[0] = NoGroups /\ \A n \in 1 .. N : f[n] = step[<<f[n - 1], n>>]
    <2>1. N \in Nat /\ NoGroups \in Total  BY DEF NoGroups, Total
    <2> HIDE DEF step, N
    <2>2. Iterates(Total, NoGroups, step, N) # {}  BY <1>2, <2>1, RecursionExists
    <2> QED  BY <2>2 DEF Iterates
  <1>4. f = F(f)
    <2>1. ASSUME NEW n \in 1 .. N PROVE f[n] = AddGroup(f[n - 1], g[n])
      <3>1. n - 1 \in 0 .. N  BY <1>1
      <3>2. f[n - 1] \in Total  BY <3>1
      <3> QED  BY <1>3, <3>2
    <2>2. ASSUME NEW n \in 0 .. N PROVE f[n] = F(f)[n]
      <3>1. CASE n = 0  BY <1>1, <1>3, <3>1
      <3>2. CASE n # 0
        <4>1. n \in 1 .. N  BY <1>1, <3>2
        <4> QED  BY <2>1, <3>2, <4>1
      <3> QED  BY <3>1, <3>2
    <2> QED  BY <2>2
  <1>5. TotalsOf(g) = CHOOSE h : h = F(h)  BY DEF TotalsOf
  <1>6. TotalsOf(g) = F(TotalsOf(g))
    <2> HIDE DEF F
    <2> QED  BY <1>4, <1>5
  <1> DEFINE t == TotalsOf(g)
  <1>7. /\ t = [n \in 0 .. N |-> t[n]] /\ t[0] = NoGroups
        /\ \A n \in 1 .. N : t[n] = AddGroup(t[n - 1], g[n])
    BY <1>1, <1>6
  <1>8. \A n \in 0 .. N : t[n] \in Total
    <2> DEFINE T == {n \in 0 .. N : t[n] \in Total}
    <2>1. 0 \in T  BY <1>1, <1>7 DEF NoGroups, Total
    <2>2. ASSUME NEW n \in 0 .. N - 1, n \in T PROVE n + 1 \in T
      <3>1. n + 1 \in 1 .. N /\ (n + 1) - 1 = n  BY <1>1
      <3>2. t[n + 1] = AddGroup(t[n], g[n + 1]) /\ g[n + 1] \in Number
        BY <1>1, <1>7, <3>1
      <3> QED  BY <2>2, <3>1, <3>2, AddGroupTyped
    <2> HIDE DEF T
    <2>3. 0 .. N \subseteq T  BY <1>1, <2>1, <2>2, UpTo
    <2> QED  BY <2>3 DEF T
  <1> QED  BY <1>7, <1>8

\* The validator's sum is right, and no error is found, when the groups are
\* positive and their sum is in the range.
LEMMA TotalsOfGroups ==
    ASSUME NEW g \in Seq(Groups), Bad \notin ToSet(g), SumOf(g) <= MaxInteger
    PROVE  TotalsOf(g)[Len(g)].sum = SumOf(g) /\ TotalsOf(g)[Len(g)].errors = {}
  <1> DEFINE N == Len(g)
             s == SumsOf(g)
             t == TotalsOf(g)
             T == {n \in 0 .. N : t[n].sum = s[n] /\ t[n].errors = {}}
  <1>1. N \in Nat /\ \A n \in 1 .. N : g[n] \in Groups /\ g[n] # Bad
    BY DEF ToSet, Groups
  <1>2. g \in Seq(Number) /\ g \in Seq(Int)  BY DEF Groups, Number
  <1>3. /\ t \in [0 .. N -> Total] /\ t[0] = NoGroups
        /\ \A n \in 1 .. N : t[n] = AddGroup(t[n - 1], g[n])
    BY <1>2, TotalsFacts
  <1>4. /\ s \in [0 .. N -> Nat] /\ s[0] = 0
        /\ \A n \in 1 .. N : s[n] = s[n - 1] + g[n]
        /\ \A m, n \in 0 .. N : m < n => s[m] < s[n]
    BY <1>2, SumsFacts, SumsRise
  <1>5. 0 \in T  BY <1>1, <1>3, <1>4 DEF NoGroups
  <1>6. ASSUME NEW n \in 0 .. N - 1, n \in T PROVE n + 1 \in T
    <2>1. n + 1 \in 1 .. N /\ (n + 1) - 1 = n /\ n + 1 \in 0 .. N /\ n \in 0 .. N
      BY <1>1
    <2>2. t[n + 1] = AddGroup(t[n], g[n + 1])  BY <1>3, <2>1
    <2>3. s[n + 1] = s[n] + g[n + 1]  BY <1>4, <2>1
    <2>4. s[n] \in Nat /\ s[n + 1] \in Nat /\ g[n + 1] \in Groups /\ g[n + 1] # Bad
      BY <1>1, <1>4, <2>1
    <2>5. s[n + 1] <= SumOf(g)
      <3>1. n + 1 = N \/ n + 1 < N  BY <1>1, <2>1
      <3>2. N \in 0 .. N /\ s[N] \in Nat  BY <1>1, <1>4
      <3> QED  BY <1>4, <2>1, <2>4, <3>1, <3>2 DEF SumOf
    <2>6. SumOf(g) \in Nat /\ MaxInteger \in Nat
      <3>1. N \in 0 .. N  BY <1>1
      <3> QED  BY <1>4, <3>1, PresetAssumption DEF SumOf
    <2>7. s[n] <= MaxInteger - g[n + 1]  BY <2>3, <2>4, <2>5, <2>6 DEF Groups
    <2>8. t[n].sum = s[n] /\ t[n].errors = {}  BY <1>6
    <2>9. t[n] \in Total  BY <1>3, <2>1
    <2>10. t[n + 1].sum = t[n].sum + g[n + 1] /\ t[n + 1].errors = t[n].errors
      <3>1. g[n + 1] \in Number  BY <2>4 DEF Groups, Number
      <3>2. t[n].sum <= MaxInteger - g[n + 1]  BY <2>7, <2>8
      <3> QED  BY <2>2, <2>4, <2>9, <3>1, <3>2, AddGroupTyped
    <2>11. t[n + 1].sum = s[n + 1] /\ t[n + 1].errors = {}  BY <2>3, <2>8, <2>10
    <2> QED  BY <2>1, <2>11
  <1> HIDE DEF T
  <1>7. 0 .. N \subseteq T  BY <1>1, <1>5, <1>6, UpTo
  <1>8. N \in T  BY <1>1, <1>7
  <1> QED  BY <1>8 DEF T, SumOf

\* Where the validator finds no error, the groups are positive and its sum is
\* theirs.
LEMMA GroupsOfTotals ==
    ASSUME NEW g \in Seq(Number), TotalsOf(g)[Len(g)].errors = {}
    PROVE  /\ g \in Seq(Groups) /\ Bad \notin ToSet(g)
           /\ TotalsOf(g)[Len(g)].sum = SumOf(g)
  <1> DEFINE N == Len(g)
             t == TotalsOf(g)
  <1>1. N \in Nat /\ \A n \in 1 .. N : g[n] \in Number  OBVIOUS
  <1>2. /\ t \in [0 .. N -> Total] /\ t[0] = NoGroups
        /\ \A n \in 1 .. N : t[n] = AddGroup(t[n - 1], g[n])
    BY TotalsFacts
  <1>3. \A n \in 0 .. N : t[N - n].errors = {}
    <2> DEFINE T == {n \in 0 .. N : t[N - n].errors = {}}
    <2>1. 0 \in T  BY <1>1
    <2>2. ASSUME NEW n \in 0 .. N - 1, n \in T PROVE n + 1 \in T
      <3>1. N - n \in 1 .. N /\ N - (n + 1) = (N - n) - 1 /\ N - (n + 1) \in 0 .. N
        BY <1>1
      <3>2. t[N - n] = AddGroup(t[N - (n + 1)], g[N - n])  BY <1>2, <3>1
      <3>3. t[N - (n + 1)] \in Total /\ g[N - n] \in Number  BY <1>1, <1>2, <3>1
      <3>4. t[N - (n + 1)].errors \subseteq t[N - n].errors
        BY <3>2, <3>3, AddGroupTyped
      <3> QED  BY <2>2, <3>4
    <2> HIDE DEF T
    <2>3. 0 .. N \subseteq T  BY <1>1, <2>1, <2>2, UpTo
    <2> QED  BY <2>3 DEF T
  <1>4. ASSUME NEW n \in 1 .. N
        PROVE  g[n] \in Groups /\ g[n] # Bad /\ t[n].sum = t[n - 1].sum + g[n]
    <2>1. n - 1 \in 0 .. N /\ N - n \in 0 .. N /\ N - (N - n) = n  BY <1>1
    <2>2. t[n].errors = {}  BY <1>3, <2>1
    <2>3. t[n] = AddGroup(t[n - 1], g[n]) /\ t[n - 1] \in Total /\ g[n] \in Number
      BY <1>1, <1>2, <2>1
    <2>4. g[n] # Bad
      <3> SUFFICES ASSUME g[n] = Bad PROVE FALSE  OBVIOUS
      <3>1. t[n].errors = t[n - 1].errors \union {"groupingValues"}
        BY <2>3 DEF AddGroup, Total
      <3> QED  BY <2>2, <3>1
    <2> QED  BY <2>2, <2>3, <2>4, AddGroupTyped
  <1>5. g \in Seq(Groups) /\ Bad \notin ToSet(g)
    <2>1. DOMAIN g = 1 .. N  OBVIOUS
    <2>2. Bad \notin ToSet(g)  BY <1>4, <2>1 DEF ToSet
    <2>3. \A n \in 1 .. Len(g) : g[n] \in Groups  BY <1>4
    <2> QED  BY <2>2, <2>3
  <1>6. /\ SumsOf(g)[0] = 0
        /\ \A n \in 1 .. N : SumsOf(g)[n] = SumsOf(g)[n - 1] + g[n]
    <2>1. g \in Seq(Int)  BY <1>5 DEF Groups
    <2> QED  BY <2>1, SumsFacts
  <1> DEFINE T == {n \in 0 .. N : t[n].sum = SumsOf(g)[n]}
  <1>7. 0 \in T  BY <1>1, <1>2, <1>6 DEF NoGroups
  <1>8. ASSUME NEW n \in 0 .. N - 1, n \in T PROVE n + 1 \in T
    <2>1. n + 1 \in 1 .. N /\ (n + 1) - 1 = n  BY <1>1
    <2> QED  BY <1>4, <1>6, <1>8, <2>1
  <1> HIDE DEF T
  <1>9. 0 .. N \subseteq T  BY <1>1, <1>7, <1>8, UpTo
  <1>10. N \in T  BY <1>1, <1>9
  <1> QED  BY <1>5, <1>10 DEF T, SumOf

----------------------------------------------------------------------------
(* The group starts, in the conversion. *)

Placement == [fits : BOOLEAN, consumed : Int, starts : SUBSET Int]

\* One step of the conversion's walk over the groups stays in its type.
LEMMA PlaceGroupTyped ==
    ASSUME NEW beatCount \in Int, NEW allSingleton \in BOOLEAN,
           NEW placed \in Placement, NEW group \in Int
    PROVE  PlaceGroup(beatCount, allSingleton, placed, group) \in Placement
  <1>1. CASE group <= 0 \/ group > beatCount - placed.consumed
    <2>1. PlaceGroup(beatCount, allSingleton, placed, group) = [placed EXCEPT !.fits = FALSE]
      BY <1>1 DEF PlaceGroup
    <2> QED  BY <2>1 DEF Placement
  <1>2. CASE ~(group <= 0 \/ group > beatCount - placed.consumed)
    <2> DEFINE consumed == placed.consumed + group
    <2>1. consumed \in Int  BY DEF Placement
    <2>2. PlaceGroup(beatCount, allSingleton, placed, group) =
            [fits |-> placed.fits, consumed |-> consumed,
             starts |-> IF allSingleton \/ consumed = beatCount THEN placed.starts
                        ELSE placed.starts \union {consumed + 1}]
      BY <1>2 DEF PlaceGroup
    <2> HIDE DEF consumed
    <2>3. consumed + 1 \in Int  BY <2>1
    <2> QED  BY <2>1, <2>2, <2>3 DEF Placement
  <1> QED  BY <1>1, <1>2

\* PlacementsOf is the function its recursion describes.
LEMMA PlacementsFacts ==
    ASSUME NEW beatCount \in Int, NEW g \in Seq(Int)
    PROVE  LET placed == PlacementsOf(beatCount, g)
           IN  /\ placed \in [0 .. Len(g) -> Placement]
               /\ placed[0] = [fits |-> TRUE, consumed |-> 0, starts |-> {1}]
               /\ \A n \in 1 .. Len(g) :
                     placed[n] = PlaceGroup(beatCount, AllSingleton(g), placed[n - 1], g[n])
  <1> DEFINE N == Len(g)
             all == AllSingleton(g)
             first == [fits |-> TRUE, consumed |-> 0, starts |-> {1}]
             F(f) == [n \in 0 .. N |-> IF n = 0 THEN first
                                       ELSE PlaceGroup(beatCount, all, f[n - 1], g[n])]
             step == [p \in Placement \X (1 .. N) |->
                         PlaceGroup(beatCount, all, p[1], g[p[2]])]
  <1>1. N \in Nat /\ \A n \in 1 .. N : g[n] \in Int  OBVIOUS
  <1>2. all \in BOOLEAN  BY DEF AllSingleton
  <1>3. PlacementsOf(beatCount, g) = CHOOSE h : h = F(h)  BY DEF PlacementsOf
  <1> HIDE DEF all
  <1>4. step \in [Placement \X (1 .. N) -> Placement]  BY <1>1, <1>2, PlaceGroupTyped
  <1>5. first \in Placement  BY DEF Placement
  <1> HIDE DEF first
  <1>6. PICK f \in [0 .. N -> Placement] :
            f[0] = first /\ \A n \in 1 .. N : f[n] = step[<<f[n - 1], n>>]
    <2> HIDE DEF step, N
    <2>1. Iterates(Placement, first, step, N) # {}
      BY <1>1, <1>4, <1>5, RecursionExists
    <2> QED  BY <2>1 DEF Iterates
  <1>7. f = F(f)
    <2>1. ASSUME NEW n \in 1 .. N PROVE f[n] = PlaceGroup(beatCount, all, f[n - 1], g[n])
      <3>1. n - 1 \in 0 .. N  BY <1>1
      <3>2. f[n - 1] \in Placement  BY <3>1
      <3> QED  BY <1>6, <3>2
    <2>2. ASSUME NEW n \in 0 .. N PROVE f[n] = F(f)[n]
      <3>1. CASE n = 0  BY <1>1, <1>6, <3>1
      <3>2. CASE n # 0
        <4>1. n \in 1 .. N  BY <1>1, <3>2
        <4> QED  BY <2>1, <3>2, <4>1
      <3> QED  BY <3>1, <3>2
    <2> QED  BY <2>2
  <1>8. PlacementsOf(beatCount, g) = F(PlacementsOf(beatCount, g))
    <2> HIDE DEF F
    <2> QED  BY <1>3, <1>7
  <1> DEFINE t == PlacementsOf(beatCount, g)
  <1>9. /\ t = [n \in 0 .. N |-> t[n]] /\ t[0] = first
        /\ \A n \in 1 .. N : t[n] = PlaceGroup(beatCount, all, t[n - 1], g[n])
    BY <1>1, <1>8
  <1>10. \A n \in 0 .. N : t[n] \in Placement
    <2> DEFINE T == {n \in 0 .. N : t[n] \in Placement}
    <2>1. 0 \in T  BY <1>1, <1>5, <1>9
    <2>2. ASSUME NEW n \in 0 .. N - 1, n \in T PROVE n + 1 \in T
      <3>1. n + 1 \in 1 .. N /\ (n + 1) - 1 = n  BY <1>1
      <3>2. t[n + 1] = PlaceGroup(beatCount, all, t[n], g[n + 1]) /\ g[n + 1] \in Int
        BY <1>1, <1>9, <3>1
      <3>3. t[n] \in Placement  BY <2>2
      <3>4. t[n + 1] \in Placement  BY <1>2, <3>2, <3>3, PlaceGroupTyped
      <3> QED  BY <3>1, <3>4
    <2> HIDE DEF T
    <2>3. 0 .. N \subseteq T  BY <1>1, <2>1, <2>2, UpTo
    <2> QED  BY <2>3 DEF T
  <1>11. t \in [0 .. N -> Placement]  BY <1>9, <1>10
  <1> QED  BY <1>9, <1>11 DEF first, all

\* The beats that follow the first n groups of a grouping, where the groups are
\* not all of one beat and a beat is left.
StartsAfter(g, n) == {b \in Int : /\ ~AllSingleton(g)
                                  /\ \E k \in 1 .. n : /\ SumsOf(g)[k] # SumOf(g)
                                                       /\ b = SumsOf(g)[k] + 1}

\* A grouping fits as many beats as its groups have together, and the group
\* starts are the beats after its groups.
LEMMA PlacementsOfGroups ==
    ASSUME NEW g \in Seq(Groups)
    PROVE  LET placed == PlacementsOf(SumOf(g), g)[Len(g)]
           IN  /\ placed.fits /\ placed.consumed = SumOf(g)
               /\ placed.starts = {1} \union StartsAfter(g, Len(g))
  <1> DEFINE N == Len(g)
             c == SumOf(g)
             s == SumsOf(g)
             all == AllSingleton(g)
             t == PlacementsOf(c, g)
             T == {n \in 0 .. N : /\ t[n].fits /\ t[n].consumed = s[n]
                                  /\ t[n].starts = {1} \union StartsAfter(g, n)}
  <1>1. N \in Nat /\ N \in 0 .. N /\ \A n \in 1 .. N : g[n] \in Groups /\ g[n] \in Int
    BY DEF Groups
  <1>2. g \in Seq(Int)  BY DEF Groups
  <1>3. /\ s \in [0 .. N -> Nat] /\ s[0] = 0
        /\ \A n \in 1 .. N : s[n] = s[n - 1] + g[n]
        /\ \A m, n \in 0 .. N : m < n => s[m] < s[n]
    BY <1>2, SumsFacts, SumsRise
  <1>4. c \in Nat /\ c = s[N]  BY <1>1, <1>3 DEF SumOf
  <1>5. all \in BOOLEAN  BY DEF AllSingleton
  <1>6. /\ t \in [0 .. N -> Placement]
        /\ t[0] = [fits |-> TRUE, consumed |-> 0, starts |-> {1}]
        /\ \A n \in 1 .. N : t[n] = PlaceGroup(c, all, t[n - 1], g[n])
    BY <1>2, <1>4, PlacementsFacts
  <1> HIDE DEF all, t, s, c
  <1>7. 0 \in T
    <2>1. StartsAfter(g, 0) = {}  BY DEF StartsAfter
    <2> QED  BY <1>1, <1>3, <1>6, <2>1
  <1>8. ASSUME NEW n \in 0 .. N - 1, n \in T PROVE n + 1 \in T
    <2>1. n + 1 \in 1 .. N /\ (n + 1) - 1 = n /\ n + 1 \in 0 .. N /\ n \in 0 .. N
      BY <1>1
    <2>2. t[n + 1] = PlaceGroup(c, all, t[n], g[n + 1]) /\ t[n] \in Placement
      BY <1>6, <2>1
    <2>3. s[n + 1] = s[n] + g[n + 1]  BY <1>3, <2>1
    <2>4. s[n] \in Nat /\ s[n + 1] \in Nat /\ g[n + 1] \in Groups /\ g[n + 1] \in Int
      BY <1>1, <1>3, <2>1
    <2>5. s[n + 1] <= c
      <3>1. n + 1 = N \/ n + 1 < N  BY <1>1, <2>1
      <3> QED  BY <1>1, <1>3, <1>4, <2>1, <2>4, <3>1
    <2>6. t[n].fits /\ t[n].consumed = s[n] /\ t[n].starts = {1} \union StartsAfter(g, n)
      BY <1>8
    <2>7. g[n + 1] <= c - t[n].consumed  BY <1>4, <2>3, <2>4, <2>5, <2>6
    <2>8. /\ t[n + 1].fits = t[n].fits
          /\ t[n + 1].consumed = t[n].consumed + g[n + 1]
          /\ t[n + 1].starts = IF all \/ t[n].consumed + g[n + 1] = c THEN t[n].starts
                               ELSE t[n].starts \union {t[n].consumed + g[n + 1] + 1}
      <3>1. c \in Int  BY <1>4
      <3> DEFINE placed == t[n]
                 group == g[n + 1]
      <3>2. placed \in Placement /\ group \in Groups /\ group <= c - placed.consumed
        BY <2>2, <2>4, <2>7
      <3>3. t[n + 1] = PlaceGroup(c, all, placed, group)  BY <2>2
      <3> HIDE DEF placed, group
      <3> DEFINE next == PlaceGroup(c, all, placed, group)
      <3>4. /\ next.fits = placed.fits
            /\ next.consumed = placed.consumed + group
            /\ next.starts = IF all \/ placed.consumed + group = c THEN placed.starts
                             ELSE placed.starts \union {placed.consumed + group + 1}
        <4>1. ~(group <= 0 \/ group > c - placed.consumed)
          BY <3>1, <3>2 DEF Placement, Groups
        <4> QED  BY <4>1 DEF PlaceGroup
      <3>5. t[n + 1] = next  BY <3>3
      <3> HIDE DEF next
      <3>6. /\ t[n + 1].fits = placed.fits
            /\ t[n + 1].consumed = placed.consumed + group
            /\ t[n + 1].starts = IF all \/ placed.consumed + group = c THEN placed.starts
                                 ELSE placed.starts \union {placed.consumed + group + 1}
        BY <3>4, <3>5
      <3> QED  BY <3>6 DEF placed, group
    <2>9. StartsAfter(g, n + 1) = IF all \/ s[n + 1] = c THEN StartsAfter(g, n)
                                  ELSE StartsAfter(g, n) \union {s[n + 1] + 1}
      <3>1. ASSUME NEW b
            PROVE  b \in StartsAfter(g, n + 1) <=>
                      \/ b \in StartsAfter(g, n)
                      \/ ~all /\ s[n + 1] # c /\ b = s[n + 1] + 1
        <4>1. \A k : k \in 1 .. n + 1 <=> k \in 1 .. n \/ k = n + 1  BY <2>1
        <4>2. s[n + 1] + 1 \in Int  BY <2>4
        <4> QED  BY <4>1, <4>2 DEF StartsAfter, all, s, c
      <3> QED  BY <3>1
    <2>10. t[n + 1].fits /\ t[n + 1].consumed = s[n + 1]  BY <2>3, <2>6, <2>8
    <2>11. t[n + 1].starts = {1} \union StartsAfter(g, n + 1)
      <3>1. t[n + 1].starts = IF all \/ s[n + 1] = c THEN t[n].starts
                              ELSE t[n].starts \union {s[n + 1] + 1}
        BY <2>3, <2>6, <2>8
      <3> QED  BY <2>6, <2>9, <3>1
    <2> QED  BY <2>1, <2>10, <2>11
  <1> HIDE DEF T
  <1>9. 0 .. N \subseteq T  BY <1>1, <1>7, <1>8, UpTo
  <1>10. N \in T  BY <1>1, <1>9
  <1> QED  BY <1>4, <1>10 DEF T, t, c

----------------------------------------------------------------------------
(* The order of the beats. *)

\* The pigeonhole principle, for a function of an interval into itself.
LEMMA EveryPlaceIsTaken ==
    ASSUME NEW N \in Nat, NEW p \in Injection(1 .. N, 1 .. N)
    PROVE  p \in Surjection(1 .. N, 1 .. N)
  <1>1. IsFiniteSet(1 .. N)  BY FS_Interval
  <1> QED  BY <1>1, FS_Injection

\* A rising function of an interval into itself is the identity.
LEMMA RisingIsIdentity ==
    ASSUME NEW N \in Nat, NEW r \in [1 .. N -> 1 .. N],
           \A i, j \in 1 .. N : i < j => r[i] < r[j],
           NEW i \in 1 .. N
    PROVE  r[i] = i
  <1>1. \A n \in 1 .. N : r[n] >= n
    <2> DEFINE T == {n \in 0 .. N : n = 0 \/ r[n] >= n}
    <2>1. 0 \in T  OBVIOUS
    <2>2. ASSUME NEW n \in 0 .. N - 1, n \in T PROVE n + 1 \in T
      <3>1. n + 1 \in 1 .. N /\ r[n + 1] \in 1 .. N  OBVIOUS
      <3>2. CASE n = 0  BY <3>1, <3>2
      <3>3. CASE n # 0
        <4>1. n \in 1 .. N /\ r[n] \in 1 .. N  BY <3>3
        <4>2. r[n] < r[n + 1]  BY <3>1, <4>1
        <4>3. r[n] >= n  BY <2>2, <3>3
        <4> QED  BY <3>1, <4>1, <4>2, <4>3
      <3> QED  BY <3>2, <3>3
    <2> HIDE DEF T
    <2>3. 0 .. N \subseteq T  BY <2>1, <2>2, UpTo
    <2>4. ASSUME NEW n \in 1 .. N PROVE r[n] >= n
      <3>1. n \in 0 .. N /\ n # 0  OBVIOUS
      <3>2. n \in T  BY <2>3, <3>1
      <3> QED  BY <3>1, <3>2 DEF T
    <2> QED  BY <2>4
  <1>2. \A n \in 0 .. N - 1 : r[N - n] <= N - n
    <2> DEFINE T == {n \in 0 .. N : n = N \/ r[N - n] <= N - n}
    <2>1. 0 \in T  OBVIOUS
    <2>2. ASSUME NEW n \in 0 .. N - 1, n \in T PROVE n + 1 \in T
      <3>1. CASE n + 1 = N  BY <3>1
      <3>2. CASE n + 1 # N
        <4>1. N - n \in 1 .. N /\ N - (n + 1) \in 1 .. N /\ N - (n + 1) < N - n  BY <3>2
        <4>2. r[N - (n + 1)] < r[N - n]  BY <4>1
        <4>3. r[N - (n + 1)] \in 1 .. N /\ r[N - n] \in 1 .. N  BY <4>1
        <4>4. r[N - n] <= N - n  BY <2>2
        <4> QED  BY <4>2, <4>3, <4>4
      <3> QED  BY <3>1, <3>2
    <2> HIDE DEF T
    <2>3. 0 .. N \subseteq T  BY <2>1, <2>2, UpTo
    <2>4. ASSUME NEW n \in 0 .. N - 1 PROVE r[N - n] <= N - n
      <3>1. n \in 0 .. N /\ n # N  OBVIOUS
      <3>2. n \in T  BY <2>3, <3>1
      <3> QED  BY <3>1, <3>2 DEF T
    <2> QED  BY <2>4
  <1>3. N - i \in 0 .. N - 1 /\ N - (N - i) = i  OBVIOUS
  <1>4. r[i] <= i  BY <1>2, <1>3
  <1> QED  BY <1>1, <1>4

\* Beats that take every position once are sorted into their positions.
LEMMA SortedByPosition ==
    ASSUME NEW N \in Nat, NEW beats, DOMAIN beats = 1 .. N,
           \A i \in 1 .. N : beats[i].beat \in 1 .. N,
           \A i, j \in 1 .. N : beats[i].beat = beats[j].beat => i = j
    PROVE  /\ SortedBeats(beats) \in [1 .. N -> {beats[i] : i \in 1 .. N}]
           /\ \A i \in 1 .. N : SortedBeats(beats)[i].beat = i
  <1> DEFINE D == 1 .. N
             q == [i \in D |-> beats[i].beat]
             Sorts(p) == \A i, j \in D : i < j => beats[p[i]].beat <= beats[p[j]].beat
             order == CHOOSE p \in Injection(D, D) : Sorts(p)
  <1>1. q \in [D -> D] /\ \A i, j \in D : q[i] = q[j] => i = j  OBVIOUS
  <1>2. \E p \in Injection(D, D) : Sorts(p)
    <2> DEFINE p == [n \in D |-> CHOOSE i \in D : q[i] = n]
    <2>1. ASSUME NEW n \in D PROVE p[n] \in D /\ q[p[n]] = n
      <3> HIDE DEF q
      <3>1. q \in Injection(D, D)  BY <1>1 DEF Injection, IsInjective
      <3>2. q \in Surjection(D, D)  BY <3>1, EveryPlaceIsTaken
      <3>3. \E i \in D : q[i] = n  BY <3>2 DEF Surjection
      <3> QED  BY <3>3
    <2> HIDE DEF p
    <2>2. p \in [D -> D]
      <3>1. p = [n \in D |-> p[n]]  BY DEF p
      <3> QED  BY <2>1, <3>1
    <2>3. \A i, j \in D : p[i] = p[j] => i = j
      <3> HIDE DEF q
      <3> QED  BY <2>1
    <2>4. p \in Injection(D, D)  BY <2>2, <2>3 DEF Injection, IsInjective
    <2>5. ASSUME NEW i \in D, NEW j \in D, i < j
          PROVE  beats[p[i]].beat <= beats[p[j]].beat
      <3>1. q[p[i]] = i /\ q[p[j]] = j /\ p[i] \in D /\ p[j] \in D  BY <2>1
      <3>2. beats[p[i]].beat = i /\ beats[p[j]].beat = j  BY <3>1
      <3> QED  BY <2>5, <3>2
    <2> QED  BY <2>4, <2>5
  <1>3. order \in Injection(D, D) /\ Sorts(order)
    <2> HIDE DEF Sorts
    <2> QED  BY <1>2
  <1>4. SortedBeats(beats) = [i \in D |-> beats[order[i]]]  BY DEF SortedBeats
  <1> HIDE DEF order
  <1>5. order \in [D -> D] /\ \A i, j \in D : order[i] = order[j] => i = j
    BY <1>3 DEF Injection, IsInjective
  <1> DEFINE r == [i \in D |-> q[order[i]]]
  <1>6. r \in [D -> D]  BY <1>1, <1>5
  <1>7. ASSUME NEW i \in D, NEW j \in D, i < j PROVE r[i] < r[j]
    <2>1. r[i] <= r[j]  BY <1>3, <1>5, <1>7
    <2>2. r[i] # r[j]
      <3> HIDE DEF q
      <3>1. order[i] \in D /\ order[j] \in D /\ order[i] # order[j]  BY <1>5, <1>7
      <3>2. r[i] = q[order[i]] /\ r[j] = q[order[j]]  OBVIOUS
      <3> QED  BY <1>1, <3>1, <3>2
    <2>3. r[i] \in D /\ r[j] \in D
      <3> HIDE DEF r
      <3> QED  BY <1>6
    <2> HIDE DEF r
    <2> QED  BY <2>1, <2>2, <2>3
  <1>8. ASSUME NEW i \in D PROVE beats[order[i]].beat = i
    <2>1. r[i] = i
      <3> HIDE DEF r
      <3> QED  BY <1>6, <1>7, RisingIsIdentity
    <2> QED  BY <1>5, <2>1
  <1>9. ASSUME NEW i \in D
        PROVE  /\ SortedBeats(beats)[i] \in {beats[j] : j \in 1 .. N}
               /\ SortedBeats(beats)[i].beat = i
    <2>1. SortedBeats(beats)[i] = beats[order[i]] /\ order[i] \in 1 .. N  BY <1>4, <1>5
    <2> QED  BY <1>8, <2>1
  <1>10. SortedBeats(beats) = [i \in 1 .. N |-> SortedBeats(beats)[i]]  BY <1>4
  <1> QED  BY <1>9, <1>10

----------------------------------------------------------------------------
(* The metadata and the version, in the format and in the validator. *)

\* The rule of the leap years agrees with the count of them.
LEMMA LeapYears ==
    ASSUME NEW year \in Nat
    PROVE  LeapYearsThrough(year) - LeapYearsThrough(year - 1)
              = IF isLeapYear(year) THEN 1 ELSE 0
  <1>1. year \div 4 - (year - 1) \div 4 = IF year % 4 = 0 THEN 1 ELSE 0  OBVIOUS
  <1>2. year \div 100 - (year - 1) \div 100 = IF year % 100 = 0 THEN 1 ELSE 0  OBVIOUS
  <1>3. year \div 400 - (year - 1) \div 400 = IF year % 400 = 0 THEN 1 ELSE 0  OBVIOUS
  <1>4. /\ year % 100 = 0 => year % 4 = 0
        /\ year % 400 = 0 => year % 100 = 0
    OBVIOUS
  <1>5. /\ year \div 4 \in Int /\ (year - 1) \div 4 \in Int
        /\ year \div 100 \in Int /\ (year - 1) \div 100 \in Int
        /\ year \div 400 \in Int /\ (year - 1) \div 400 \in Int
    OBVIOUS
  <1> DEFINE a == year \div 4
             b == (year - 1) \div 4
             c == year \div 100
             e == (year - 1) \div 100
             f == year \div 400
             h == (year - 1) \div 400
  <1>6. /\ a - b = IF year % 4 = 0 THEN 1 ELSE 0
        /\ c - e = IF year % 100 = 0 THEN 1 ELSE 0
        /\ f - h = IF year % 400 = 0 THEN 1 ELSE 0
    BY <1>1, <1>2, <1>3
  <1>7. a \in Int /\ b \in Int /\ c \in Int /\ e \in Int /\ f \in Int /\ h \in Int
    BY <1>5
  <1>8. LeapYearsThrough(year) = a - c + f /\ LeapYearsThrough(year - 1) = b - e + h
    BY DEF LeapYearsThrough
  <1> HIDE DEF a, b, c, e, f, h
  <1> QED  BY <1>4, <1>6, <1>7, <1>8 DEF isLeapYear

\* The table of the days agrees with the calendar.
LEMMA MonthsAreRight ==
    ASSUME NEW year \in Nat, NEW month \in 1 .. 12
    PROVE  DaysIn(year, month) = maximumDay(year, month) /\ maximumDay(year, month) \in Nat
  <1>1. CASE month = 2
    <2>1. LeapYearsThrough(year) \in Int /\ LeapYearsThrough(year - 1) \in Int
      BY DEF LeapYearsThrough
    <2>2. DaysIn(year, 2) = 28 + LeapYearsThrough(year) - LeapYearsThrough(year - 1)
      BY DEF DaysIn
    <2>3. DaysIn(year, 2) = 28 + (IF isLeapYear(year) THEN 1 ELSE 0)
      BY <2>1, <2>2, LeapYears
    <2>4. daysPerMonth[2] = 28  BY DEF daysPerMonth
    <2> QED  BY <1>1, <2>3, <2>4 DEF maximumDay
  <1>2. CASE month # 2
    <2>1. maximumDay(year, month) = daysPerMonth[month]  BY <1>2 DEF maximumDay
    <2>2. DaysIn(year, month) = 30 + ((month + (month \div 8)) % 2)  BY <1>2 DEF DaysIn
    <2>3. month \in {1, 3, 4, 5, 6, 7, 8, 9, 10, 11, 12}  BY <1>2
    <2>4. 30 + ((month + (month \div 8)) % 2) = daysPerMonth[month]
      BY <2>3 DEF daysPerMonth
    <2>5. daysPerMonth[month] \in Nat  BY <2>3 DEF daysPerMonth
    <2> QED  BY <2>1, <2>2, <2>4, <2>5
  <1> QED  BY <1>1, <1>2

\* The validator accepts the date-times there are, and no other text.
LEMMA DateTimesAreRight ==
    ASSUME NEW t \in Timestamps
    PROVE  isValidDateTime(t) <=> IsDateTime(t)
  <1>1. /\ t.year \in Nat \union {Bad} /\ t.month \in Nat \union {Bad}
        /\ t.day \in Nat \union {Bad} /\ t.hour \in Nat \union {Bad}
        /\ t.minute \in Nat \union {Bad} /\ t.second \in Nat \union {Bad}
        /\ t.offsetHour \in Nat \union {Bad} /\ t.offsetMinute \in Nat \union {Bad}
    BY DEF Timestamps, Digits
  <1>2. Bad \notin Int  BY PresetAssumption
  <1>3. ASSUME t.year # Bad, t.month # Bad, t.day # Bad
        PROVE  (/\ 1 <= t.month /\ t.month <= 12
                /\ 1 <= t.day /\ t.day <= maximumDay(t.year, t.month))
               <=> \E month \in 1 .. 12 :
                      t.month = month /\ \E day \in 1 .. DaysIn(t.year, month) : t.day = day
    <2>1. t.year \in Nat /\ t.month \in Nat /\ t.day \in Nat  BY <1>1, <1>3
    <2>2. CASE t.month \in 1 .. 12
      <3>1. DaysIn(t.year, t.month) = maximumDay(t.year, t.month)
            /\ maximumDay(t.year, t.month) \in Nat
        BY <2>1, <2>2, MonthsAreRight
      <3> QED  BY <2>1, <2>2, <3>1
    <2>3. CASE t.month \notin 1 .. 12  BY <2>1, <2>3
    <2> QED  BY <2>2, <2>3
  <1>4. (/\ t.hour # Bad /\ t.minute # Bad /\ t.second # Bad
         /\ t.hour <= 23 /\ t.minute <= 59 /\ t.second <= 60)
        <=> \E hour \in 0 .. 23, minute \in 0 .. 59, second \in 0 .. 60 :
                <<t.hour, t.minute, t.second>> = <<hour, minute, second>>
    <2>1. (/\ t.hour # Bad /\ t.minute # Bad /\ t.second # Bad
           /\ t.hour <= 23 /\ t.minute <= 59 /\ t.second <= 60)
          <=> t.hour \in 0 .. 23 /\ t.minute \in 0 .. 59 /\ t.second \in 0 .. 60
      BY <1>1, <1>2
    <2> QED  BY <2>1
  <1>5. (/\ t.offsetHour # Bad /\ t.offsetMinute # Bad
         /\ t.offsetHour <= 23 /\ t.offsetMinute <= 59)
        <=> \E hour \in 0 .. 23, minute \in 0 .. 59 :
                <<t.offsetHour, t.offsetMinute>> = <<hour, minute>>
    BY <1>1, <1>2
  <1> QED  BY <1>3, <1>4, <1>5 DEF isValidDateTime, IsDateTime

\* The members of a concatenation are those of its parts.
LEMMA ToSetOfConcatenation ==
    ASSUME NEW S, NEW a \in Seq(S), NEW b \in Seq(S)
    PROVE  ToSet(a \o b) = ToSet(a) \union ToSet(b)
  <1>1. Len(a) \in Nat /\ Len(b) \in Nat /\ DOMAIN a = 1 .. Len(a) /\ DOMAIN b = 1 .. Len(b)
        /\ DOMAIN (a \o b) = 1 .. Len(a) + Len(b)
    OBVIOUS
  <1>2. \A i \in 1 .. Len(a) : (a \o b)[i] = a[i] /\ i \in 1 .. Len(a) + Len(b)
    BY <1>1
  <1>3. \A i \in 1 .. Len(b) : /\ (a \o b)[Len(a) + i] = b[i]
                               /\ Len(a) + i \in 1 .. Len(a) + Len(b)
    BY <1>1
  <1>4. \A i \in 1 .. Len(a) + Len(b) :
            i \in 1 .. Len(a) \/ (i - Len(a) \in 1 .. Len(b) /\ Len(a) + (i - Len(a)) = i)
    BY <1>1
  <1>5. ASSUME NEW x \in ToSet(a \o b) PROVE x \in ToSet(a) \union ToSet(b)
    <2>1. PICK i \in 1 .. Len(a) + Len(b) : x = (a \o b)[i]  BY <1>1 DEF ToSet
    <2>2. CASE i \in 1 .. Len(a)  BY <1>1, <1>2, <2>1, <2>2 DEF ToSet
    <2>3. CASE i \notin 1 .. Len(a)
      <3>1. i - Len(a) \in 1 .. Len(b) /\ Len(a) + (i - Len(a)) = i  BY <1>4, <2>3
      <3>2. x = b[i - Len(a)]  BY <1>3, <2>1, <3>1
      <3> QED  BY <1>1, <3>1, <3>2 DEF ToSet
    <2> QED  BY <2>2, <2>3
  <1>6. ASSUME NEW x \in ToSet(a) PROVE x \in ToSet(a \o b)
    BY <1>1, <1>2, <1>6 DEF ToSet
  <1>7. ASSUME NEW x \in ToSet(b) PROVE x \in ToSet(a \o b)
    <2>1. PICK i \in 1 .. Len(b) : x = b[i]  BY <1>1 DEF ToSet
    <2>2. x = (a \o b)[Len(a) + i] /\ Len(a) + i \in DOMAIN (a \o b)  BY <1>1, <1>3, <2>1
    <2> QED  BY <2>2 DEF ToSet
  <1> QED  BY <1>5, <1>6, <1>7

\* The validator accepts the versions 1.x.y with well-formed identifiers.
LEMMA VersionsAreRight ==
    ASSUME NEW v \in Versions
    PROVE  isSupportedSchemaVersion(v) <=>
              /\ v.core \in {<<"1", minor, patch>> : minor, patch \in Numbers}
              /\ {"empty", "foreign"} \intersect ToSet(v.prerelease \o v.build) = {}
              /\ "01" \notin ToSet(v.prerelease)
  <1>1. v.core \in Seq(Identifiers) /\ v.prerelease \in Seq(Identifiers)
        /\ v.build \in Seq(Identifiers)
    BY DEF Versions
  <1>2. (Len(v.core) = 3 /\ v.core[1] = "1" /\ ToSet(v.core) \subseteq Numbers)
        <=> v.core \in {<<"1", minor, patch>> : minor, patch \in Numbers}
    <2>1. ASSUME Len(v.core) = 3, v.core[1] = "1", ToSet(v.core) \subseteq Numbers
          PROVE  v.core \in {<<"1", minor, patch>> : minor, patch \in Numbers}
      <3>1. v.core = <<v.core[1], v.core[2], v.core[3]>>  BY <1>1, <2>1
      <3>2. DOMAIN v.core = 1 .. 3  BY <1>1, <2>1
      <3>3. v.core[2] \in Numbers /\ v.core[3] \in Numbers  BY <2>1, <3>2 DEF ToSet
      <3> QED  BY <2>1, <3>1, <3>3
    <2>2. ASSUME NEW minor \in Numbers, NEW patch \in Numbers, v.core = <<"1", minor, patch>>
          PROVE  Len(v.core) = 3 /\ v.core[1] = "1" /\ ToSet(v.core) \subseteq Numbers
      <3>1. DOMAIN v.core = 1 .. 3 /\ v.core[1] = "1" /\ v.core[2] = minor /\ v.core[3] = patch
            /\ Len(v.core) = 3
        BY <2>2
      <3>2. "1" \in Numbers  BY DEF Numbers
      <3>3. ASSUME NEW x \in ToSet(v.core) PROVE x \in Numbers
        <4>1. PICK i \in 1 .. 3 : x = v.core[i]  BY <3>1 DEF ToSet
        <4>2. i = 1 \/ i = 2 \/ i = 3  OBVIOUS
        <4> QED  BY <3>1, <3>2, <4>1, <4>2
      <3> QED  BY <3>1, <3>3
    <2> QED  BY <2>1, <2>2
  <1>3. ToSet(v.prerelease) \subseteq Identifiers /\ ToSet(v.build) \subseteq Identifiers
    BY <1>1 DEF ToSet
  <1>4. ToSet(v.prerelease \o v.build) = ToSet(v.prerelease) \union ToSet(v.build)
    BY <1>1, ToSetOfConcatenation
  <1>5. (/\ ToSet(v.prerelease) \subseteq Numbers \union Words
         /\ ToSet(v.build) \subseteq Numbers \union Words \union {"01"})
        <=> (/\ {"empty", "foreign"} \intersect (ToSet(v.prerelease) \union ToSet(v.build)) = {}
             /\ "01" \notin ToSet(v.prerelease))
    <2>1. /\ Identifiers = Numbers \union Words \union {"01", "empty", "foreign"}
          /\ "01" \notin Numbers \union Words
          /\ "empty" \notin Numbers \union Words \union {"01"}
          /\ "foreign" \notin Numbers \union Words \union {"01"}
      BY DEF Identifiers, Numbers, Words
    <2> QED  BY <1>3, <2>1
  <1> QED  BY <1>2, <1>4, <1>5 DEF isSupportedSchemaVersion

----------------------------------------------------------------------------
(* The meter and the pattern, in the format and in the validator. *)

Meters == [numerator : Number, denominator : Number, grouping : Seq(Number) \union {Bad}]

\* Every group has a beat.
LEMMA GroupsAreFew ==
    ASSUME NEW g \in Seq(Groups)
    PROVE  Len(g) <= SumOf(g) /\ SumOf(g) \in Nat
  <1> DEFINE N == Len(g)
             s == SumsOf(g)
             T == {n \in 0 .. N : n <= s[n]}
  <1>1. N \in Nat  OBVIOUS
  <1>2. /\ s \in [0 .. N -> Nat]
        /\ \A m, n \in 0 .. N : m < n => s[m] < s[n]
    BY SumsRise
  <1> HIDE DEF s
  <1>3. 0 \in T  BY <1>1, <1>2
  <1>4. ASSUME NEW n \in 0 .. N - 1, n \in T PROVE n + 1 \in T
    <2>1. n \in 0 .. N /\ n + 1 \in 0 .. N /\ n < n + 1  BY <1>1
    <2>2. s[n] < s[n + 1] /\ s[n] \in Nat /\ s[n + 1] \in Nat  BY <1>2, <2>1
    <2> QED  BY <1>4, <2>1, <2>2
  <1> HIDE DEF T
  <1>5. 0 .. N \subseteq T  BY <1>1, <1>3, <1>4, UpTo
  <1>6. N \in 0 .. N  BY <1>1
  <1>7. N \in T /\ s[N] \in Nat  BY <1>2, <1>5, <1>6
  <1> QED  BY <1>7 DEF T, s, SumOf

MeterConforms(meter) ==
    /\ meter.numerator # Bad /\ meter.denominator # Bad
    /\ meter.denominator \in Denominators
    /\ meter.grouping # Bad /\ Bad \notin ToSet(meter.grouping)
    /\ \A g \in ToSet(meter.grouping) : g > 0
    /\ meter.numerator > 0
    /\ meter.numerator = SumOf(meter.grouping)

\* What the format asks of each group, as a type.
LEMMA GroupingOfTheFormat ==
    ASSUME NEW g \in Seq(Number), Bad \notin ToSet(g)
    PROVE  (\A x \in ToSet(g) : x > 0) <=> g \in Seq(Groups)
  <1>1. DOMAIN g = 1 .. Len(g) /\ Len(g) \in Nat  OBVIOUS
  <1>2. \A i \in 1 .. Len(g) : g[i] \in Int  BY <1>1 DEF ToSet, Number
  <1>3. ASSUME \A x \in ToSet(g) : x > 0 PROVE g \in Seq(Groups)
    <2>1. ASSUME NEW i \in 1 .. Len(g) PROVE g[i] \in Groups
      <3>1. g[i] > 0  BY <1>1, <1>3 DEF ToSet
      <3> QED  BY <1>2, <3>1 DEF Groups
    <2> QED  BY <2>1
  <1>4. ASSUME g \in Seq(Groups), NEW x \in ToSet(g) PROVE x > 0
    <2>1. PICK i \in 1 .. Len(g) : x = g[i]  BY <1>1 DEF ToSet
    <2>2. g[i] \in Groups  BY <1>4
    <2> QED  BY <2>1, <2>2 DEF Groups
  <1> QED  BY <1>3, <1>4

\* A meter of the format has groups, and no more of them than beats.
LEMMA MetersThatConform ==
    ASSUME NEW meter \in Meters, MeterConforms(meter)
    PROVE  /\ meter.grouping \in Seq(Groups) /\ meter.grouping # <<>>
           /\ Len(meter.grouping) <= meter.numerator
           /\ meter.numerator \in Nat \ {0}
  <1>1. meter.grouping \in Seq(Number) /\ Bad \notin ToSet(meter.grouping)
        /\ (\A x \in ToSet(meter.grouping) : x > 0)
        /\ meter.numerator = SumOf(meter.grouping) /\ meter.numerator > 0
    BY DEF Meters, MeterConforms
  <1>2. meter.grouping \in Seq(Groups)  BY <1>1, GroupingOfTheFormat
  <1>3. Len(meter.grouping) <= SumOf(meter.grouping) /\ SumOf(meter.grouping) \in Nat
    BY <1>2, GroupsAreFew
  <1>4. meter.grouping # <<>>
    <2> SUFFICES ASSUME meter.grouping = <<>> PROVE FALSE  OBVIOUS
    <2>1. <<>> \in Seq(Int) /\ Len(<<>>) = 0  OBVIOUS
    <2>2. SumsOf(<<>>)[0] = 0  BY <2>1, SumsFacts
    <2>3. SumOf(<<>>) = 0  BY <2>1, <2>2 DEF SumOf
    <2> QED  BY <1>1, <2>3
  <1> QED  BY <1>1, <1>2, <1>3, <1>4

\* The validator accepts the meters of the format, if the numerator is in the
\* range of an integer.
LEMMA MetersAreRight ==
    ASSUME NEW meter \in Meters
    PROVE  /\ validateMeter(meter) = {} => MeterConforms(meter)
           /\ MeterConforms(meter) /\ meter.numerator <= MaxInteger
                 => validateMeter(meter) = {}
  <1> DEFINE grouping == meter.grouping
             total == TotalsOf(grouping)[Len(grouping)]
  <1>1. validateMeter(meter) = {} <=>
            /\ IntegerOf(meter.numerator) >= 1
            /\ meter.denominator # Bad /\ meter.denominator \in Denominators
            /\ grouping # Bad /\ grouping # <<>>
            /\ total.errors = {}
            /\ total.sum = IntegerOf(meter.numerator)
    BY DEF validateMeter, require
  <1>2. meter.numerator \in Number /\ grouping \in Seq(Number) \union {Bad}
    BY DEF Meters
  <1>3. ASSUME validateMeter(meter) = {} PROVE MeterConforms(meter)
    <2>1. grouping \in Seq(Number) /\ total.errors = {}  BY <1>1, <1>2, <1>3
    <2>2. /\ grouping \in Seq(Groups) /\ Bad \notin ToSet(grouping)
          /\ total.sum = SumOf(grouping)
      BY <2>1, GroupsOfTotals
    <2>3. \A x \in ToSet(grouping) : x > 0
      <3> HIDE DEF grouping
      <3> QED  BY <2>1, <2>2, GroupingOfTheFormat
    <2>4. meter.numerator # Bad /\ meter.numerator > 0
          /\ meter.numerator = IntegerOf(meter.numerator)
      BY <1>1, <1>2, <1>3 DEF IntegerOf, Number
    <2> QED  BY <1>1, <1>3, <2>2, <2>3, <2>4 DEF MeterConforms
  <1>4. ASSUME MeterConforms(meter), meter.numerator <= MaxInteger
        PROVE  validateMeter(meter) = {}
    <2>1. /\ grouping \in Seq(Groups) /\ grouping # <<>> /\ meter.numerator \in Nat \ {0}
      BY <1>4, MetersThatConform
    <2>2. Bad \notin ToSet(grouping) /\ meter.numerator = SumOf(grouping)
          /\ meter.numerator # Bad
      BY <1>4 DEF MeterConforms
    <2>3. SumOf(grouping) <= MaxInteger  BY <1>4, <2>2
    <2>4. total.sum = SumOf(grouping) /\ total.errors = {}
      <3> HIDE DEF grouping
      <3> QED  BY <2>1, <2>2, <2>3, TotalsOfGroups
    <2>5. IntegerOf(meter.numerator) = meter.numerator  BY <2>2 DEF IntegerOf
    <2>6. meter.numerator >= 1  BY <2>1
    <2>7. meter.denominator # Bad /\ meter.denominator \in Denominators /\ grouping # Bad
      BY <1>4 DEF MeterConforms
    <2> HIDE DEF grouping
    <2> QED  BY <1>1, <2>1, <2>2, <2>4, <2>5, <2>6, <2>7
  <1> QED  BY <1>3, <1>4

Patterns == Seq(Beats \union {Bad})

PatternConforms(beats, numerator) ==
    /\ Len(beats) = numerator
    /\ \A n \in 1 .. numerator :
          \E b \in ToSet(beats) \ {Bad} :
              b.beat # Bad /\ b.beat = n /\ b.click \in ClickTypes

IsPlacement(beats, numerator) ==
    /\ Len(beats) = numerator
    /\ \A i \in 1 .. numerator : /\ beats[i] # Bad /\ beats[i].beat # Bad
                                 /\ beats[i].beat \in 1 .. numerator
                                 /\ beats[i].click \in ClickTypes
    /\ \A i, j \in 1 .. numerator : beats[i].beat = beats[j].beat => i = j

\* A pattern with a beat for each position has each of its beats in a position of
\* its own: the pigeonhole principle, which the format leaves to the reader.
LEMMA PatternsThatConform ==
    ASSUME NEW N \in Nat, NEW beats \in Patterns
    PROVE  PatternConforms(beats, N) <=> IsPlacement(beats, N)
  <1>1. DOMAIN beats = 1 .. Len(beats)  BY DEF Patterns
  <1>2. ASSUME PatternConforms(beats, N) PROVE IsPlacement(beats, N)
    <2> DEFINE Fits(i, n) == /\ beats[i] # Bad /\ beats[i].beat # Bad
                             /\ beats[i].beat = n /\ beats[i].click \in ClickTypes
               h == [n \in 1 .. N |-> CHOOSE i \in 1 .. N : Fits(i, n)]
    <2>1. Len(beats) = N  BY <1>2 DEF PatternConforms
    <2>2. ASSUME NEW n \in 1 .. N PROVE h[n] \in 1 .. N /\ Fits(h[n], n)
      <3>1. \E i \in 1 .. N : Fits(i, n)
        <4>1. PICK b \in ToSet(beats) \ {Bad} :
                  b.beat # Bad /\ b.beat = n /\ b.click \in ClickTypes
          BY <1>2 DEF PatternConforms
        <4>2. PICK i \in 1 .. N : b = beats[i]  BY <1>1, <2>1, <4>1 DEF ToSet
        <4> QED  BY <4>1, <4>2
      <3> HIDE DEF Fits
      <3> QED  BY <3>1
    <2>3. h \in Injection(1 .. N, 1 .. N)
      <3>1. h = [n \in 1 .. N |-> h[n]]  OBVIOUS
      <3>2. ASSUME NEW m \in 1 .. N, NEW n \in 1 .. N, h[m] = h[n] PROVE m = n
        <4> HIDE DEF h
        <4> QED  BY <2>2, <3>2
      <3> HIDE DEF h
      <3>3. h \in [1 .. N -> 1 .. N]  BY <2>2, <3>1
      <3> QED  BY <3>2, <3>3 DEF Injection, IsInjective
    <2> HIDE DEF h
    <2>4. h \in Surjection(1 .. N, 1 .. N)  BY <2>3, EveryPlaceIsTaken
    <2>5. ASSUME NEW i \in 1 .. N PROVE \E n \in 1 .. N : h[n] = i
      BY <2>4 DEF Surjection
    <2>6. ASSUME NEW i \in 1 .. N
          PROVE  /\ beats[i] # Bad /\ beats[i].beat # Bad
                 /\ beats[i].beat \in 1 .. N /\ beats[i].click \in ClickTypes
      <3>1. PICK n \in 1 .. N : h[n] = i  BY <2>5
      <3>2. Fits(i, n)  BY <2>2, <3>1
      <3> QED  BY <3>2
    <2>7. ASSUME NEW i \in 1 .. N, NEW j \in 1 .. N, beats[i].beat = beats[j].beat
          PROVE  i = j
      <3>1. PICK m \in 1 .. N : h[m] = i  BY <2>5
      <3>2. PICK n \in 1 .. N : h[n] = j  BY <2>5
      <3>3. beats[i].beat = m /\ beats[j].beat = n  BY <2>2, <3>1, <3>2
      <3> QED  BY <2>7, <3>1, <3>2, <3>3
    <2> QED  BY <2>1, <2>6, <2>7 DEF IsPlacement
  <1>3. ASSUME IsPlacement(beats, N) PROVE PatternConforms(beats, N)
    <2> DEFINE q == [i \in 1 .. N |-> beats[i].beat]
    <2>1. q \in [1 .. N -> 1 .. N] /\ \A i, j \in 1 .. N : q[i] = q[j] => i = j
      BY <1>3 DEF IsPlacement
    <2>2. ASSUME NEW n \in 1 .. N PROVE \E i \in 1 .. N : q[i] = n
      <3> HIDE DEF q
      <3>1. q \in Injection(1 .. N, 1 .. N)  BY <2>1 DEF Injection, IsInjective
      <3>2. q \in Surjection(1 .. N, 1 .. N)  BY <3>1, EveryPlaceIsTaken
      <3> QED  BY <3>2 DEF Surjection
    <2>3. ASSUME NEW n \in 1 .. N
          PROVE  \E b \in ToSet(beats) \ {Bad} :
                    b.beat # Bad /\ b.beat = n /\ b.click \in ClickTypes
      <3>1. PICK i \in 1 .. N : q[i] = n  BY <2>2
      <3>2. beats[i].beat = n /\ beats[i] # Bad /\ beats[i].beat # Bad
            /\ beats[i].click \in ClickTypes
        BY <1>3, <3>1 DEF IsPlacement
      <3>3. beats[i] \in ToSet(beats)  BY <1>1, <1>3 DEF IsPlacement, ToSet
      <3> QED  BY <3>2, <3>3
    <2> QED  BY <1>3, <2>3 DEF IsPlacement, PatternConforms
  <1> QED  BY <1>2, <1>3

\* The validator finds no error in such patterns, and in no others.
LEMMA PatternsAreRight ==
    ASSUME NEW N \in Nat, NEW beats \in Patterns
    PROVE  validatePattern(beats, N) = {} <=> IsPlacement(beats, N)
  <1> DEFINE positions == {beats[i].beat : i \in PlacedIn(beats)}
             Checked == /\ Len(beats) = N
                        /\ ObjectsIn(beats) = DOMAIN beats
                        /\ PlacedIn(beats) = ObjectsIn(beats)
                        /\ positions \subseteq 1 .. N
                        /\ \A i, j \in PlacedIn(beats) :
                              beats[i].beat = beats[j].beat => i = j
                        /\ Cardinality(positions) = N
                        /\ \A i \in ObjectsIn(beats) : beats[i].click \in ClickTypes
  <1>1. validatePattern(beats, N) = {} <=> Checked
    BY DEF validatePattern, require
  <1>2. DOMAIN beats = 1 .. Len(beats)  BY DEF Patterns
  <1>3. ASSUME Checked PROVE IsPlacement(beats, N)
    <2>1. PlacedIn(beats) = 1 .. N /\ ObjectsIn(beats) = 1 .. N  BY <1>2, <1>3
    <2>2. \A i \in 1 .. N : beats[i].beat \in 1 .. N  BY <1>3, <2>1
    <2>3. \A i \in 1 .. N : beats[i] # Bad /\ beats[i].beat # Bad
      BY <2>1 DEF PlacedIn, ObjectsIn
    <2> QED  BY <1>3, <2>1, <2>2, <2>3 DEF IsPlacement
  <1>4. ASSUME IsPlacement(beats, N) PROVE Checked
    <2>1. ObjectsIn(beats) = 1 .. N  BY <1>2, <1>4 DEF IsPlacement, ObjectsIn
    <2>2. PlacedIn(beats) = 1 .. N  BY <1>4, <2>1 DEF IsPlacement, PlacedIn
    <2>3. positions = 1 .. N
      <3> DEFINE q == [i \in 1 .. N |-> beats[i].beat]
      <3>1. q \in [1 .. N -> 1 .. N] /\ \A i, j \in 1 .. N : q[i] = q[j] => i = j
        BY <1>4 DEF IsPlacement
      <3>2. ASSUME NEW n \in 1 .. N PROVE \E i \in 1 .. N : q[i] = n
        <4> HIDE DEF q
        <4>1. q \in Injection(1 .. N, 1 .. N)  BY <3>1 DEF Injection, IsInjective
        <4>2. q \in Surjection(1 .. N, 1 .. N)  BY <4>1, EveryPlaceIsTaken
        <4> QED  BY <4>2 DEF Surjection
      <3>3. \A n \in 1 .. N : \E i \in 1 .. N : beats[i].beat = n  BY <3>2
      <3>4. \A i \in 1 .. N : beats[i].beat \in 1 .. N  BY <1>4 DEF IsPlacement
      <3> QED  BY <2>2, <3>3, <3>4
    <2>4. Cardinality(1 .. N) = N  BY FS_Interval
    <2>5. /\ Len(beats) = N /\ DOMAIN beats = 1 .. N
          /\ \A i, j \in 1 .. N : beats[i].beat = beats[j].beat => i = j
          /\ \A i \in 1 .. N : beats[i].click \in ClickTypes
      BY <1>2, <1>4 DEF IsPlacement
    <2> HIDE DEF positions
    <2> QED  BY <2>1, <2>2, <2>3, <2>4, <2>5
  <1> QED  BY <1>1, <1>3, <1>4

----------------------------------------------------------------------------
(* The validator accepts the format. *)

MetadataConforms(metadata) ==
    /\ HasText(metadata.name)
    /\ Bad \notin {metadata.description, metadata.category, metadata.author}
    /\ \A t \in {metadata.createdAt, metadata.updatedAt} :
          t # Bad /\ (t \in {Absent, Empty} \/ IsDateTime(t))
    /\ metadata.tags # Bad
    /\ metadata.tags = Absent \/ Bad \notin ToSet(metadata.tags)

\* The same for a time stamp, which is optional.
LEMMA TimestampsAreRight ==
    ASSUME NEW t \in Times, NEW name
    PROVE  validateOptionalTimestamp(t, name) = {} <=>
              t # Bad /\ (t \in {Absent, Empty} \/ IsDateTime(t))
  <1>1. validateOptionalTimestamp(t, name) = {} <=>
            t # Bad /\ (t \in {Absent, Empty} \/ isValidDateTime(t))
    BY DEF validateOptionalTimestamp, require
  <1>2. ASSUME t # Bad, t \notin {Absent, Empty} PROVE isValidDateTime(t) <=> IsDateTime(t)
    <2>1. t \in Timestamps  BY <1>2 DEF Times
    <2> QED  BY <2>1, DateTimesAreRight
  <1> QED  BY <1>1, <1>2

\* What is not empty is refused where it is white space.
LEMMA Trimmed ==
    ASSUME NEW text
    PROVE  trim(text) \notin {Empty, Bad} <=> HasText(text) /\ text # "whiteSpace"
  <1>1. CASE text = "whiteSpace"
    <2>1. trim(text) = Empty  BY <1>1 DEF trim
    <2> QED  BY <1>1, <2>1
  <1>2. CASE text # "whiteSpace"
    <2>1. trim(text) = text  BY <1>2 DEF trim
    <2> QED  BY <1>2, <2>1 DEF HasText
  <1> QED  BY <1>1, <1>2

\* The same for the metadata.
LEMMA MetadataIsRight ==
    ASSUME NEW metadata, metadata.createdAt \in Times, metadata.updatedAt \in Times
    PROVE  validateMetadata(metadata) = {} <=>
              MetadataConforms(metadata) /\ metadata.name # "whiteSpace"
  <1>1. validateMetadata(metadata) = {} <=>
            /\ trim(metadata.name) \notin {Empty, Bad}
            /\ metadata.description # Bad /\ metadata.category # Bad /\ metadata.author # Bad
            /\ validateOptionalTimestamp(metadata.createdAt, "metadataCreatedAt") = {}
            /\ validateOptionalTimestamp(metadata.updatedAt, "metadataUpdatedAt") = {}
            /\ metadata.tags # Bad
            /\ metadata.tags \notin {Absent, Bad} => Bad \notin ToSet(metadata.tags)
    BY DEF validateMetadata, validateOptionalString, require
  <1>2. validateOptionalTimestamp(metadata.createdAt, "metadataCreatedAt") = {} <=>
            /\ metadata.createdAt # Bad
            /\ metadata.createdAt \in {Absent, Empty} \/ IsDateTime(metadata.createdAt)
    BY TimestampsAreRight
  <1>3. validateOptionalTimestamp(metadata.updatedAt, "metadataUpdatedAt") = {} <=>
            /\ metadata.updatedAt # Bad
            /\ metadata.updatedAt \in {Absent, Empty} \/ IsDateTime(metadata.updatedAt)
    BY TimestampsAreRight
  <1>4. trim(metadata.name) \notin {Empty, Bad} <=>
            HasText(metadata.name) /\ metadata.name # "whiteSpace"
    BY Trimmed
  <1> QED  BY <1>1, <1>2, <1>3, <1>4 DEF MetadataConforms

\* The validator finds no error in the sections where each of them is there and
\* has none.
LEMMA NoErrorsInSections ==
    ASSUME NEW d
    PROVE  validateSections(d) = {} <=>
              /\ d.schema = "tempoflow-preset"
              /\ d.schemaVersion # Bad /\ isSupportedSchemaVersion(d.schemaVersion)
              /\ d.metadata # Bad /\ validateMetadata(d.metadata) = {}
              /\ d.tempo # Bad /\ validateTempo(d.tempo) = {}
              /\ d.meter # Bad /\ validateMeter(d.meter) = {}
              /\ d.subdivision # Bad /\ validateSubdivision(d.subdivision) = {}
              /\ d.pattern # Bad
              /\ d.meter # Bad =>
                    validatePattern(d.pattern, IntegerOf(d.meter.numerator)) = {}
              /\ d.sound # Bad /\ validateSound(d.sound) = {}
              /\ d.playback # Bad /\ validatePlayback(d.playback) = {}
  BY DEF validateSections, Section, require

\* The types of the sections of a document.
LEMMA FieldsOfDocuments ==
    ASSUME NEW d \in Documents
    PROVE  /\ d.schemaVersion # Bad => d.schemaVersion \in Versions
           /\ d.metadata # Bad => /\ d.metadata.createdAt \in Times
                                  /\ d.metadata.updatedAt \in Times
           /\ d.tempo \in Number
           /\ d.meter # Bad => d.meter \in Meters
           /\ d.subdivision # Bad => d.subdivision \in [mode : Text, partsPerBeat : Number]
           /\ d.pattern # Bad => d.pattern \in Patterns
           /\ d.sound # Bad => d.sound \in [soundSet : Names, volume : Number]
           /\ d.playback \in Text
  BY DEF Documents, Meters, Patterns

SoundConforms(sound) ==
    HasText(sound.soundSet) /\ sound.volume # Bad /\ sound.volume \in 0 .. 100

SubdivisionConforms(subdivision) ==
    /\ subdivision.partsPerBeat # Bad
    /\ <<subdivision.mode, subdivision.partsPerBeat>> \in SubdivisionsPerBeat

TagsFit(metadata) ==
    metadata.tags \notin {Absent, Bad} => Len(metadata.tags) <= MaxArrayElements

\* The Preset Format, section by section.
LEMMA FormatBySection ==
    ASSUME NEW d \in Documents
    PROVE  ConformsButForLeapSeconds(d) <=>
              /\ d.schema = "tempoflow-preset"
              /\ d.schemaVersion # Bad
              /\ (/\ d.schemaVersion.core \in {<<"1", minor, patch>> : minor, patch \in Numbers}
                  /\ {"empty", "foreign"}
                        \intersect ToSet(d.schemaVersion.prerelease \o d.schemaVersion.build) = {}
                  /\ "01" \notin ToSet(d.schemaVersion.prerelease))
              /\ d.metadata # Bad /\ MetadataConforms(d.metadata) /\ TagsFit(d.metadata)
              /\ d.tempo # Bad /\ d.tempo \in 20 .. 300
              /\ d.playback # Bad /\ d.playback \in {"internal", "host"}
              /\ d.sound # Bad /\ SoundConforms(d.sound)
              /\ d.subdivision # Bad /\ SubdivisionConforms(d.subdivision)
              /\ d.meter # Bad /\ d.pattern # Bad
              /\ MeterConforms(d.meter)
              /\ PatternConforms(d.pattern, d.meter.numerator)
              /\ Len(d.pattern) <= MaxArrayElements
  BY DEF ConformsButForLeapSeconds, MetadataConforms, TagsFit, SoundConforms, SubdivisionConforms,
         MeterConforms, PatternConforms

\* A document without errors is one of the format that has names, and the other
\* way round.
LEMMA ValidatorIsRight ==
    ASSUME NEW d \in Documents
    PROVE  validatePresetJson(d) = {} <=> ConformsButForLeapSeconds(d) /\ ~IsUnnamed(d)
  <1>1. validatePresetJson(d) = {} <=>
            /\ d.meter # Bad /\ d.meter.grouping # Bad => Len(d.meter.grouping) <= MaxArrayElements
            /\ d.pattern # Bad => Len(d.pattern) <= MaxArrayElements
            /\ d.metadata # Bad => TagsFit(d.metadata)
            /\ validateSections(d) = {}
    BY DEF validatePresetJson, validateJsonComplexity, TagsFit, require
  <1>2. d.schemaVersion # Bad =>
            (isSupportedSchemaVersion(d.schemaVersion) <=>
                /\ d.schemaVersion.core \in {<<"1", minor, patch>> : minor, patch \in Numbers}
                /\ {"empty", "foreign"}
                      \intersect ToSet(d.schemaVersion.prerelease \o d.schemaVersion.build) = {}
                /\ "01" \notin ToSet(d.schemaVersion.prerelease))
    <2> SUFFICES ASSUME d.schemaVersion # Bad
                 PROVE  isSupportedSchemaVersion(d.schemaVersion) <=>
                /\ d.schemaVersion.core \in {<<"1", minor, patch>> : minor, patch \in Numbers}
                /\ {"empty", "foreign"}
                      \intersect ToSet(d.schemaVersion.prerelease \o d.schemaVersion.build) = {}
                /\ "01" \notin ToSet(d.schemaVersion.prerelease)
      OBVIOUS
    <2>1. d.schemaVersion \in Versions  BY FieldsOfDocuments
    <2> QED  BY <2>1, VersionsAreRight
  <1>3. d.metadata # Bad =>
            (validateMetadata(d.metadata) = {} <=>
                MetadataConforms(d.metadata) /\ d.metadata.name # "whiteSpace")
    BY FieldsOfDocuments, MetadataIsRight
  <1>4. /\ validateTempo(d.tempo) = {} <=> d.tempo # Bad /\ d.tempo \in 20 .. 300
        /\ validatePlayback(d.playback) = {} <=> d.playback \in {"internal", "host"}
    BY DEF validateTempo, validatePlayback, require
  <1>5. d.sound # Bad =>
            (validateSound(d.sound) = {} <=>
                SoundConforms(d.sound) /\ d.sound.soundSet # "whiteSpace")
    <2> SUFFICES ASSUME d.sound # Bad
                 PROVE  validateSound(d.sound) = {} <=>
                           SoundConforms(d.sound) /\ d.sound.soundSet # "whiteSpace"
      OBVIOUS
    <2>1. d.sound.volume \in Int \union {Bad}  BY FieldsOfDocuments DEF Number
    <2>2. validateSound(d.sound) = {} <=>
            /\ trim(d.sound.soundSet) \notin {Empty, Bad}
            /\ d.sound.volume # Bad /\ 0 <= d.sound.volume /\ d.sound.volume <= 100
      BY DEF validateSound, require
    <2>3. trim(d.sound.soundSet) \notin {Empty, Bad} <=>
            HasText(d.sound.soundSet) /\ d.sound.soundSet # "whiteSpace"
      BY Trimmed
    <2> QED  BY <2>1, <2>2, <2>3 DEF SoundConforms
  <1>6. validateSubdivision(d.subdivision) = {} <=> SubdivisionConforms(d.subdivision)
    BY DEF validateSubdivision, SubdivisionConforms, SubdivisionsPerBeat, require
  <1>7. ASSUME validatePresetJson(d) = {}
        PROVE  ConformsButForLeapSeconds(d) /\ ~IsUnnamed(d)
    <2>1. validateSections(d) = {} /\ d.meter # Bad /\ d.pattern # Bad
          /\ validateMeter(d.meter) = {}
          /\ validatePattern(d.pattern, IntegerOf(d.meter.numerator)) = {}
          /\ Len(d.pattern) <= MaxArrayElements
      BY <1>1, <1>7, NoErrorsInSections
    <2>2. d.meter \in Meters /\ d.pattern \in Patterns  BY <2>1, FieldsOfDocuments
    <2>3. MeterConforms(d.meter)  BY <2>1, <2>2, MetersAreRight
    <2>4. d.meter.numerator \in Nat /\ IntegerOf(d.meter.numerator) = d.meter.numerator
      <3>1. d.meter.numerator \in Nat  BY <2>2, <2>3, MetersThatConform
      <3> QED  BY <2>3, <3>1 DEF MeterConforms, IntegerOf
    <2>5. PatternConforms(d.pattern, d.meter.numerator)
      BY <2>1, <2>2, <2>4, PatternsAreRight, PatternsThatConform
    <2>6. /\ d.schema = "tempoflow-preset"
          /\ d.schemaVersion # Bad /\ isSupportedSchemaVersion(d.schemaVersion)
          /\ d.metadata # Bad /\ MetadataConforms(d.metadata)
          /\ d.metadata.name # "whiteSpace"
          /\ d.tempo # Bad /\ d.tempo \in 20 .. 300
          /\ d.playback # Bad /\ d.playback \in {"internal", "host"}
          /\ d.sound # Bad /\ SoundConforms(d.sound) /\ d.sound.soundSet # "whiteSpace"
          /\ d.subdivision # Bad /\ SubdivisionConforms(d.subdivision)
      BY <1>3, <1>4, <1>5, <1>6, <2>1, NoErrorsInSections
    <2>7. TagsFit(d.metadata)  BY <1>1, <1>7, <2>6
    <2>8. ConformsButForLeapSeconds(d)
      BY <1>2, <2>1, <2>3, <2>5, <2>6, <2>7, FormatBySection
    <2> QED  BY <2>6, <2>8 DEF IsUnnamed
  <1>8. ASSUME ConformsButForLeapSeconds(d), ~IsUnnamed(d)
        PROVE  validatePresetJson(d) = {}
    <2>1. /\ d.meter # Bad /\ d.pattern # Bad /\ MeterConforms(d.meter)
          /\ PatternConforms(d.pattern, d.meter.numerator)
          /\ Len(d.pattern) <= MaxArrayElements
      BY <1>8, FormatBySection
    <2>2. d.meter \in Meters /\ d.pattern \in Patterns  BY <2>1, FieldsOfDocuments
    <2>3. d.meter.numerator \in Nat /\ Len(d.meter.grouping) <= d.meter.numerator
          /\ d.meter.grouping \in Seq(Groups)
      BY <2>1, <2>2, MetersThatConform
    <2>4. IntegerOf(d.meter.numerator) = d.meter.numerator
      BY <2>1 DEF MeterConforms, IntegerOf
    <2>5. d.meter.numerator = Len(d.pattern)  BY <2>1 DEF PatternConforms
    <2>6. d.meter.numerator <= MaxInteger /\ Len(d.meter.grouping) <= MaxArrayElements
      <3>1. MaxArrayElements \in Nat /\ MaxInteger \in Nat /\ MaxArrayElements <= MaxInteger
        BY PresetAssumption, ComplexityAssumption
      <3>2. Len(d.meter.grouping) \in Nat  BY <2>3
      <3> QED  BY <2>1, <2>3, <2>5, <3>1, <3>2
    <2>7. validateMeter(d.meter) = {}  BY <2>1, <2>2, <2>6, MetersAreRight
    <2>8. validatePattern(d.pattern, IntegerOf(d.meter.numerator)) = {}
      BY <2>1, <2>2, <2>3, <2>4, PatternsAreRight, PatternsThatConform
    <2>9. /\ d.schema = "tempoflow-preset"
          /\ d.schemaVersion # Bad /\ isSupportedSchemaVersion(d.schemaVersion)
          /\ d.metadata # Bad /\ validateMetadata(d.metadata) = {}
          /\ d.tempo # Bad /\ validateTempo(d.tempo) = {}
          /\ d.playback # Bad /\ validatePlayback(d.playback) = {}
          /\ d.sound # Bad /\ validateSound(d.sound) = {}
          /\ d.subdivision # Bad /\ validateSubdivision(d.subdivision) = {}
      <3>1. /\ d.schema = "tempoflow-preset" /\ d.schemaVersion # Bad
            /\ d.metadata # Bad /\ MetadataConforms(d.metadata)
            /\ d.metadata.name # "whiteSpace" /\ d.sound.soundSet # "whiteSpace"
            /\ d.tempo # Bad /\ d.tempo \in 20 .. 300
            /\ d.playback # Bad /\ d.playback \in {"internal", "host"}
            /\ d.sound # Bad /\ SoundConforms(d.sound)
            /\ d.subdivision # Bad /\ SubdivisionConforms(d.subdivision)
        BY <1>8, FormatBySection DEF IsUnnamed
      <3>2. isSupportedSchemaVersion(d.schemaVersion)
        BY <1>2, <1>8, FormatBySection
      <3> QED  BY <1>3, <1>4, <1>5, <1>6, <3>1, <3>2
    <2>10. validateSections(d) = {}  BY <2>1, <2>7, <2>8, <2>9, NoErrorsInSections
    <2>11. TagsFit(d.metadata)  BY <1>8, FormatBySection
    <2> QED  BY <1>1, <2>1, <2>6, <2>10, <2>11
  <1> QED  BY <1>7, <1>8

----------------------------------------------------------------------------
(* The runtime model of an accepted document. *)

\* What the sections of a document without errors have.
LEMMA AcceptedDocuments ==
    ASSUME NEW d \in Documents, validatePresetJson(d) = {}
    PROVE  /\ d.meter \in Meters /\ MeterConforms(d.meter)
           /\ d.meter.numerator \in Nat \ {0} /\ d.meter.numerator <= MaxArrayElements
           /\ d.meter.grouping \in Seq(Groups) /\ d.meter.grouping # <<>>
           /\ d.pattern \in Patterns /\ IsPlacement(d.pattern, d.meter.numerator)
           /\ d.sound.volume \in 0 .. 100
           /\ d.subdivision \in [mode : Text, partsPerBeat : Number]
           /\ SubdivisionConforms(d.subdivision)
  <1>1. ConformsButForLeapSeconds(d)  BY ValidatorIsRight
  <1>2. /\ d.meter # Bad /\ d.pattern # Bad /\ d.subdivision # Bad
        /\ MeterConforms(d.meter)
        /\ PatternConforms(d.pattern, d.meter.numerator)
        /\ Len(d.pattern) <= MaxArrayElements
        /\ SoundConforms(d.sound) /\ SubdivisionConforms(d.subdivision)
    BY <1>1, FormatBySection
  <1>3. d.meter \in Meters /\ d.pattern \in Patterns
        /\ d.subdivision \in [mode : Text, partsPerBeat : Number]
    BY <1>2, FieldsOfDocuments
  <1>4. d.meter.grouping \in Seq(Groups) /\ d.meter.grouping # <<>>
        /\ d.meter.numerator \in Nat \ {0}
    BY <1>2, <1>3, MetersThatConform
  <1>5. IsPlacement(d.pattern, d.meter.numerator)  BY <1>2, <1>3, <1>4, PatternsThatConform
  <1>6. d.meter.numerator <= MaxArrayElements  BY <1>2 DEF PatternConforms
  <1>7. d.sound.volume \in 0 .. 100  BY <1>2 DEF SoundConforms
  <1> QED  BY <1>2, <1>3, <1>4, <1>5, <1>6, <1>7

\* parseEnum changes nothing in a document without errors.
LEMMA ParsedBeats ==
    ASSUME NEW b \in Beats, b.click \in ClickTypes
    PROVE  [b EXCEPT !.click = parseEnum(@, ClickTypes, "mute")] = b
  <1>1. parseEnum(b.click, ClickTypes, "mute") = b.click  BY DEF parseEnum
  <1>2. b = [beat |-> b.beat, click |-> b.click]  BY DEF Beats
  <1> QED  BY <1>1, <1>2

\* Nor in the subdivision.
LEMMA ParsedSubdivision ==
    ASSUME NEW s \in [mode : Text, partsPerBeat : Number], SubdivisionConforms(s)
    PROVE  [s EXCEPT !.mode = parseEnum(@, {"none", "triplet"}, "none")] = s
  <1>1. s.mode \in {"none", "triplet"}  BY DEF SubdivisionConforms, SubdivisionsPerBeat
  <1>2. parseEnum(s.mode, {"none", "triplet"}, "none") = s.mode  BY <1>1 DEF parseEnum
  <1>3. s = [mode |-> s.mode, partsPerBeat |-> s.partsPerBeat]  OBVIOUS
  <1> QED  BY <1>2, <1>3

\* The runtime model of a document without errors is the document with its beats
\* sorted.
LEMMA ParsedDocuments ==
    ASSUME NEW d \in Documents, validatePresetJson(d) = {}
    PROVE  /\ RuntimePreset(d).meter = d.meter
           /\ RuntimePreset(d).sound = d.sound
           /\ RuntimePreset(d).subdivision = d.subdivision
           /\ RuntimePreset(d).beats = SortedBeats(d.pattern)
  <1> DEFINE N == d.meter.numerator
             written == [i \in DOMAIN d.pattern |->
                            [d.pattern[i] EXCEPT !.click = parseEnum(@, ClickTypes, "mute")]]
  <1>1. d.pattern \in Patterns /\ IsPlacement(d.pattern, N)  BY AcceptedDocuments
  <1>2. DOMAIN d.pattern = 1 .. N /\ d.pattern \in [1 .. N -> Beats \union {Bad}]
    <2> DEFINE beats == d.pattern
    <2>1. beats \in Seq(Beats \union {Bad}) /\ Len(beats) = N
      BY <1>1 DEF Patterns, IsPlacement
    <2> HIDE DEF beats
    <2>2. DOMAIN beats = 1 .. N /\ beats \in [1 .. N -> Beats \union {Bad}]  BY <2>1
    <2> QED  BY <2>2 DEF beats
  <1>3. ASSUME NEW i \in 1 .. N PROVE written[i] = d.pattern[i]
    <2>1. d.pattern[i] \in Beats \union {Bad}  BY <1>2
    <2>2. d.pattern[i] \in Beats /\ d.pattern[i].click \in ClickTypes
      BY <1>1, <2>1 DEF IsPlacement
    <2>3. [d.pattern[i] EXCEPT !.click = parseEnum(@, ClickTypes, "mute")] = d.pattern[i]
      BY <2>2, ParsedBeats
    <2>4. written[i] = [d.pattern[i] EXCEPT !.click = parseEnum(@, ClickTypes, "mute")]
      BY <1>2
    <2> QED  BY <2>3, <2>4
  <1>4. written = d.pattern
    <2>1. written = [i \in 1 .. N |-> written[i]]  BY <1>2
    <2>2. d.pattern = [i \in 1 .. N |-> d.pattern[i]]  BY <1>2
    <2> HIDE DEF written
    <2> QED  BY <1>3, <2>1, <2>2
  <1>5. RuntimePreset(d).beats = SortedBeats(written)  BY DEF RuntimePreset
  <1>6. [d.subdivision EXCEPT !.mode = parseEnum(@, {"none", "triplet"}, "none")]
            = d.subdivision
    BY AcceptedDocuments, ParsedSubdivision
  <1> HIDE DEF written
  <1>7. RuntimePreset(d).meter = d.meter /\ RuntimePreset(d).sound = d.sound
        /\ RuntimePreset(d).subdivision
             = [d.subdivision EXCEPT !.mode = parseEnum(@, {"none", "triplet"}, "none")]
    BY DEF RuntimePreset
  <1> QED  BY <1>4, <1>5, <1>6, <1>7

----------------------------------------------------------------------------
(* The realtime state of an accepted document. *)

\* What the conversion makes of a document without errors.
Converted(d, s) ==
    LET N == d.meter.numerator
    IN  /\ s.ready
        /\ N \in 1 .. MaxArrayElements /\ Len(s.clicks) = N
        /\ \A n \in 1 .. N :
              /\ s.clicks[n] \in ClickTypes
              /\ \E i \in 1 .. N : /\ d.pattern[i].beat = n
                                   /\ s.clicks[n] = d.pattern[i].click
        /\ s.groupStarts = {1} \union StartsAfter(d.meter.grouping, Len(d.meter.grouping))
        /\ s.meterNumerator = N /\ s.meterDenominator = d.meter.denominator
        /\ s.meterDenominator \in Denominators
        /\ s.subdivisionsPerBeat \in {1, 3}
        /\ 0 <= s.volume /\ s.volume <= 100

\* The conversion accepts the runtime model of every document without errors.
LEMMA AcceptedIsConverted ==
    ASSUME NEW d \in Documents, validatePresetJson(d) = {}
    PROVE  Converted(d, makeRealtimePresetState(RuntimePreset(d)))
  <1> DEFINE p == RuntimePreset(d)
             N == d.meter.numerator
             g == d.meter.grouping
             beats == d.pattern
             sorted == SortedBeats(beats)
             groups == PlacementsOf(N, g)[Len(g)]
  <1>1. p.meter = d.meter /\ p.sound = d.sound /\ p.subdivision = d.subdivision
        /\ p.beats = sorted
    BY ParsedDocuments
  <1>2. /\ N \in Nat \ {0} /\ N <= MaxArrayElements
        /\ g \in Seq(Groups) /\ g # <<>>
        /\ beats \in Patterns /\ IsPlacement(beats, N)
        /\ d.sound.volume \in 0 .. 100
        /\ SubdivisionConforms(d.subdivision)
        /\ MeterConforms(d.meter)
    BY AcceptedDocuments
  <1>3. d.meter.denominator \in Denominators /\ N = SumOf(g)
    BY <1>2 DEF MeterConforms
  <1>4. groups.fits /\ groups.consumed = N
        /\ groups.starts = {1} \union StartsAfter(g, Len(g))
    <2>1. /\ PlacementsOf(SumOf(g), g)[Len(g)].fits
          /\ PlacementsOf(SumOf(g), g)[Len(g)].consumed = SumOf(g)
          /\ PlacementsOf(SumOf(g), g)[Len(g)].starts = {1} \union StartsAfter(g, Len(g))
      <3> HIDE DEF g
      <3> QED  BY <1>2, PlacementsOfGroups
    <2> HIDE DEF g, N
    <2> QED  BY <1>3, <2>1
  <1>5. DOMAIN beats = 1 .. N
    <2> HIDE DEF beats
    <2>1. beats \in Seq(Beats \union {Bad}) /\ Len(beats) = N
      BY <1>2 DEF Patterns, IsPlacement
    <2> QED  BY <2>1
  <1>6. /\ sorted \in [1 .. N -> {beats[i] : i \in 1 .. N}]
        /\ \A i \in 1 .. N : sorted[i].beat = i
    <2>1. /\ \A i \in 1 .. N : beats[i].beat \in 1 .. N
          /\ \A i, j \in 1 .. N : beats[i].beat = beats[j].beat => i = j
      BY <1>2 DEF IsPlacement
    <2>2. N \in Nat  BY <1>2
    <2> HIDE DEF beats, N
    <2> QED  BY <1>5, <2>1, <2>2, SortedByPosition
  <1>7. Len(sorted) = N
    <2>1. N \in Nat  BY <1>2
    <2> HIDE DEF sorted, N
    <2> QED  BY <1>6, <2>1
  <1>8. ASSUME NEW n \in 1 .. N
        PROVE  /\ sorted[n].click \in ClickTypes
               /\ \E i \in 1 .. N : beats[i].beat = n /\ sorted[n].click = beats[i].click
    <2>1. PICK i \in 1 .. N : sorted[n] = beats[i]
      <3> HIDE DEF N, beats, sorted
      <3> QED  BY <1>6
    <2>2. beats[i].beat = n  BY <1>6, <2>1
    <2>3. beats[i].click \in ClickTypes  BY <1>2 DEF IsPlacement
    <2> QED  BY <2>1, <2>2, <2>3
  <1>9. /\ d.subdivision.partsPerBeat \in {1, 3}
        /\ <<d.subdivision.mode, d.subdivision.partsPerBeat>> \in SubdivisionsPerBeat
    BY <1>2 DEF SubdivisionConforms, SubdivisionsPerBeat
  <1>10. N \in 1 .. MaxArrayElements
    BY <1>2, ComplexityAssumption
  <1>11. 0 <= d.sound.volume /\ d.sound.volume <= 100
    <2>1. d.sound.volume \in 0 .. 100  BY AcceptedDocuments
    <2> QED  BY <2>1
  <1>12. makeRealtimePresetState(p) =
            [ready               |-> TRUE,
             clicks              |-> [i \in 1 .. N |-> sorted[i].click],
             groupStarts         |-> groups.starts,
             meterNumerator      |-> N,
             meterDenominator    |-> d.meter.denominator,
             subdivisionsPerBeat |-> d.subdivision.partsPerBeat,
             volume              |-> d.sound.volume]
    <2>1. /\ Len(p.beats) = N /\ p.meter.numerator = N /\ p.meter.grouping = g
          /\ p.meter.denominator = d.meter.denominator
          /\ p.sound.volume = d.sound.volume
          /\ p.subdivision.mode = d.subdivision.mode
          /\ p.subdivision.partsPerBeat = d.subdivision.partsPerBeat
          /\ p.beats = sorted
      <3> HIDE DEF p, sorted
      <3> QED  BY <1>1, <1>7
    <2>2. PlacementsOf(Len(p.beats), g)[Len(g)] = groups  BY <2>1
    <2>3. /\ N \in 1 .. MaxArrayElements /\ d.meter.denominator \in Denominators
          /\ 0 <= d.sound.volume /\ d.sound.volume <= 100
          /\ <<d.subdivision.mode, d.subdivision.partsPerBeat>> \in SubdivisionsPerBeat
          /\ \A i \in 1 .. N : sorted[i].beat = i
          /\ g # <<>> /\ groups.fits /\ groups.consumed = N
      <3> HIDE DEF N, sorted, groups, g
      <3> QED  BY <1>2, <1>3, <1>4, <1>6, <1>9, <1>10, <1>11
    <2> HIDE DEF p, sorted, groups, N, g
    <2> QED  BY <2>1, <2>2, <2>3 DEF makeRealtimePresetState
  <1> DEFINE s == makeRealtimePresetState(p)
  <1>13. /\ s.ready /\ s.clicks = [i \in 1 .. N |-> sorted[i].click]
         /\ s.groupStarts = groups.starts
         /\ s.meterNumerator = N /\ s.meterDenominator = d.meter.denominator
         /\ s.subdivisionsPerBeat = d.subdivision.partsPerBeat
         /\ s.volume = d.sound.volume
    <2> HIDE DEF sorted, groups, p
    <2> QED  BY <1>12
  <1>14. /\ Len(s.clicks) = N
         /\ \A n \in 1 .. N :
              /\ s.clicks[n] \in ClickTypes
              /\ \E i \in 1 .. N : beats[i].beat = n /\ s.clicks[n] = beats[i].click
    <2>1. N \in Nat  BY <1>2
    <2> HIDE DEF s, sorted, N, beats
    <2>2. Len(s.clicks) = N  BY <1>13, <2>1
    <2>3. \A n \in 1 .. N : s.clicks[n] = sorted[n].click  BY <1>13
    <2>4. ASSUME NEW n \in 1 .. N
          PROVE  /\ s.clicks[n] \in ClickTypes
                 /\ \E i \in 1 .. N : beats[i].beat = n /\ s.clicks[n] = beats[i].click
      <3>1. s.clicks[n] = sorted[n].click  BY <2>3
      <3> QED  BY <1>8, <3>1
    <2> QED  BY <2>2, <2>4
  <1> HIDE DEF s, groups
  <1> QED  BY <1>3, <1>4, <1>9, <1>10, <1>11, <1>13, <1>14 DEF Converted, s

\* What it makes of it is valid.
LEMMA ConvertedIsValid ==
    ASSUME NEW d, NEW s, Converted(d, s)
    PROVE  isValid(s)
  BY DEF Converted, isValid, beatCountOf

\* The sound of a pulse is one of the sounds there are.
LEMMA SoundsOfPulses ==
    ASSUME NEW d, NEW s, Converted(d, s), NEW beatNumber \in Int, NEW subdivisionIndex,
           NEW hostNumerator, NEW hostDenominator
    PROVE  SoundOf(clickForBeat(s, beatNumber, hostNumerator, hostDenominator),
                   subdivisionIndex) \in ClickTypes \union {"subdivision"}
  <1> DEFINE N == d.meter.numerator
             beat == ((beatNumber - 1) % N) + 1
  <1>1. N \in 1 .. MaxArrayElements /\ Len(s.clicks) = N
        /\ \A n \in 1 .. N : s.clicks[n] \in ClickTypes
    BY DEF Converted
  <1>2. N \in Nat \ {0}  BY <1>1
  <1>3. (beatNumber - 1) % N \in 0 .. N - 1
    <2> HIDE DEF N
    <2> QED  BY <1>2
  <1>4. beat \in 1 .. N
    <2> DEFINE r == (beatNumber - 1) % N
    <2> HIDE DEF r, N
    <2>1. r + 1 \in 1 .. N  BY <1>2, <1>3 DEF r
    <2> QED  BY <2>1 DEF r
  <1>5. s.clicks[beat] \in ClickTypes  BY <1>1, <1>4
  <1>6. clickForBeat(s, beatNumber, hostNumerator, hostDenominator) \in ClickTypes
    <2>1. beatCountOf(s) = N  BY <1>1 DEF beatCountOf
    <2>2. "accent" \in ClickTypes  BY DEF ClickTypes
    <2> HIDE DEF N
    <2> QED  BY <1>5, <2>1, <2>2 DEF clickForBeat
  <1> QED  BY <1>6 DEF SoundOf

----------------------------------------------------------------------------
(* The sounds of an accepted document. *)

\* The converted roles are those of the document.
LEMMA ConvertedRoles ==
    ASSUME document \in Documents, validatePresetJson(document) = {},
           NEW s, Converted(document, s),
           NEW n \in 1 .. document.meter.numerator
    PROVE  s.clicks[n] = RoleOf(n)
  <1> DEFINE N == document.meter.numerator
             beats == document.pattern
  <1>1. IsPlacement(beats, N) /\ beats \in Patterns  BY AcceptedDocuments
  <1>2. PICK i \in 1 .. N : beats[i].beat = n /\ s.clicks[n] = beats[i].click
    BY DEF Converted
  <1>3. DOMAIN beats = 1 .. N
    <2> HIDE DEF beats, N
    <2>1. beats \in Seq(Beats \union {Bad}) /\ Len(beats) = N
      BY <1>1 DEF Patterns, IsPlacement
    <2> QED  BY <2>1
  <1>4. \A j \in 1 .. N : beats[j].beat = n => j = i
    <2> HIDE DEF beats, N
    <2> QED  BY <1>1, <1>2 DEF IsPlacement
  <1> HIDE DEF beats, N
  <1>5. beats[i] \in ToSet(beats)  BY <1>3 DEF ToSet
  <1>6. ASSUME NEW b \in ToSet(beats), b.beat = n PROVE b = beats[i]
    <2>1. PICK j \in 1 .. N : b = beats[j]  BY <1>3 DEF ToSet
    <2> QED  BY <1>4, <1>6, <2>1
  <1>7. (CHOOSE b \in ToSet(beats) : b.beat = n) = beats[i]
    BY <1>2, <1>5, <1>6
  <1> QED  BY <1>2, <1>7 DEF RoleOf, beats

\* The converted group starts are those of the document.
LEMMA ConvertedStarts ==
    ASSUME document \in Documents, validatePresetJson(document) = {},
           NEW s, Converted(document, s), NEW n \in Int
    PROVE  n \in s.groupStarts <=> StartsGroup(n)
  <1> DEFINE g == document.meter.grouping
             L == Len(g)
  <1>1. g \in Seq(Groups)  BY AcceptedDocuments
  <1>2. s.groupStarts = {1} \union StartsAfter(g, L)  BY DEF Converted
  <1> HIDE DEF g
  <1>3. /\ SumsOf(g) \in [0 .. L -> Nat]
        /\ \A j, k \in 0 .. L : j < k => SumsOf(g)[j] < SumsOf(g)[k]
    BY <1>1, SumsRise
  <1>4. L \in Nat /\ DOMAIN g = 1 .. L  BY <1>1
  <1>5. \A k \in 1 .. L : SumsOf(g)[k] # SumOf(g) <=> k \in 1 .. L - 1
    <2> HIDE DEF L
    <2>1. SumOf(g) = SumsOf(g)[L]  BY DEF SumOf, L
    <2>2. ASSUME NEW k \in 1 .. L PROVE SumsOf(g)[k] # SumsOf(g)[L] <=> k # L
      <3>1. k \in 0 .. L /\ L \in 0 .. L /\ (k # L => k < L)  BY <1>4
      <3>2. SumsOf(g)[k] \in Nat /\ SumsOf(g)[L] \in Nat  BY <1>3, <3>1
      <3> QED  BY <1>3, <3>1, <3>2
    <2>3. \A k \in 1 .. L : k # L <=> k \in 1 .. L - 1  BY <1>4
    <2> QED  BY <2>1, <2>2, <2>3
  <1>6. ~AllSingleton(g) <=> \E x \in ToSet(g) : x # 1  BY DEF AllSingleton, ToSet
  <1>7. n \in StartsAfter(g, L) <=>
            /\ \E x \in ToSet(g) : x # 1
            /\ \E k \in 1 .. L - 1 : n = SumsOf(g)[k] + 1
    <2>1. n \in StartsAfter(g, L) <=>
              /\ ~AllSingleton(g)
              /\ \E k \in 1 .. L : SumsOf(g)[k] # SumOf(g) /\ n = SumsOf(g)[k] + 1
      BY DEF StartsAfter
    <2>2. \A k \in 1 .. L - 1 : k \in 1 .. L  BY <1>4
    <2> HIDE DEF L
    <2> QED  BY <1>5, <1>6, <2>1, <2>2
  <1>8. StartsGroup(n) <=> n = 1 \/ (/\ \E x \in ToSet(g) : x # 1
                                     /\ \E k \in 1 .. L - 1 : n = SumsOf(g)[k] + 1)
    BY DEF StartsGroup, g
  <1> QED  BY <1>2, <1>7, <1>8

\* A pulse of a beat of the pattern sounds as the format says.
LEMMA ConvertedSounds ==
    ASSUME document \in Documents, validatePresetJson(document) = {},
           NEW s, Converted(document, s),
           NEW n \in 1 .. document.meter.numerator,
           NEW hostNumerator, NEW hostDenominator
    PROVE  clickForBeat(s, n, hostNumerator, hostDenominator)
              = EffectiveRole(n, hostNumerator, hostDenominator)
  <1> DEFINE N == document.meter.numerator
  <1>1. N \in Nat \ {0}  BY AcceptedDocuments
  <1>2. ((n - 1) % N) + 1 = n
    <2> HIDE DEF N
    <2>1. n \in 1 .. N  BY DEF N
    <2>2. (n - 1) % N = n - 1  BY <1>1, <2>1
    <2> QED  BY <2>1, <2>2
  <1>3. beatCountOf(s) = N /\ s.meterNumerator = N
        /\ s.meterDenominator = document.meter.denominator
    BY DEF Converted, beatCountOf
  <1>4. s.clicks[n] = RoleOf(n)  BY ConvertedRoles
  <1>5. n \in s.groupStarts <=> StartsGroup(n)  BY ConvertedStarts
  <1>6. EffectiveRole(n, hostNumerator, hostDenominator) =
            IF /\ RoleOf(n) = "normal" /\ StartsGroup(n)
               /\ hostNumerator = N /\ hostDenominator = document.meter.denominator
            THEN "accent" ELSE RoleOf(n)
    BY DEF EffectiveRole
  <1> HIDE DEF N
  <1> QED  BY <1>2, <1>3, <1>4, <1>5, <1>6 DEF clickForBeat

----------------------------------------------------------------------------
(* The invariant of the pipeline. *)

\* The pipeline begins with the text.
LEMMA InitPipeline == Init => PipelineInv
  BY InitText DEF Init, PipelineInv, StageInv, Accepted

\* A new text begins in the state of any first text.
LEMMA ParseTextForgets == TextInit' => TextInv'
  BY InitText, PTL

\* Only ScanText and ParseText concern the text.
LEMMA NextTextInv == TextInv /\ [Next]_vars => TextInv'
  <1> SUFFICES ASSUME TextInv, [Next]_vars PROVE TextInv'
    OBVIOUS
  <1>1. CASE ScanText  BY <1>1, NextText DEF ScanText
  <1>2. CASE ParseText
    <2>1. TextInit'  BY <1>2 DEF ParseText, TextInit
    <2> QED  BY <2>1, ParseTextForgets
  <1>3. CASE UNCHANGED textVars  BY <1>3, NextText
  <1>4. CASE UNCHANGED vars  BY <1>3, <1>4 DEF vars
  <1> QED
    BY <1>1, <1>2, <1>3, <1>4
       DEF Next, RefuseText, ValidatePreset, ParsePreset, PublishPreset, PlayPulse

\* What an accepted document becomes, in the states of the invariant.
LEMMA PublishedIsConverted ==
    ASSUME StageInv, stage = "published"
    PROVE  /\ document \in Documents /\ validatePresetJson(document) = {}
           /\ Converted(document, state) /\ isValid(state)
  <1>1. /\ document \in Documents /\ validatePresetJson(document) = {}
        /\ state = makeRealtimePresetState(RuntimePreset(document))
    BY DEF StageInv, Accepted
  <1>2. Converted(document, state)  BY <1>1, AcceptedIsConverted
  <1> QED  BY <1>1, <1>2, ConvertedIsValid

\* Every stage keeps what it was handed, and adds what it makes of it.
LEMMA NextPipeline == PipelineInv /\ [Next]_vars => PipelineInv'
  <1> SUFFICES ASSUME PipelineInv, [Next]_vars PROVE PipelineInv'
    OBVIOUS
  <1> USE DEF PipelineInv
  <1>1. TextInv'  BY NextTextInv
  <1>2. CASE ScanText
    BY <1>1, <1>2 DEF ScanText, StageInv, Accepted, IsPulse
  <1>3. CASE RefuseText
    BY <1>1, <1>3 DEF RefuseText, StageInv, Accepted
  <1>4. CASE ParseText
    BY <1>1, <1>4 DEF ParseText, StageInv, Accepted
  <1>5. CASE ValidatePreset
    <2>1. document' \in Documents
      BY <1>5, PresetAssumption DEF ValidatePreset
    <2>2. /\ stage = "received" /\ errors' = validatePresetJson(document')
          /\ stage' = IF errors' = {} THEN "validated" ELSE "refused"
          /\ UNCHANGED <<preset, state, pulse>>
      BY <1>5 DEF ValidatePreset
    <2>3. StageInv'  BY <2>1, <2>2 DEF StageInv, Accepted
    <2>4. pulse = None  BY <2>2
    <2> QED  BY <1>1, <2>2, <2>3, <2>4
  <1>6. CASE ParsePreset
    BY <1>1, <1>6 DEF ParsePreset, StageInv, Accepted
  <1>7. CASE PublishPreset
    BY <1>1, <1>7 DEF PublishPreset, StageInv, Accepted
  <1>8. CASE PlayPulse
    <2>1. /\ stage = "published" /\ isValid(state)
          /\ UNCHANGED <<stage, document, errors, preset, state>>
      BY <1>8 DEF PlayPulse
    <2>2. StageInv'  BY <2>1 DEF StageInv, Accepted
    <2>3. IsPulse(pulse)'  BY <1>8, <2>1 DEF PlayPulse, IsPulse
    <2>4. isValid(state)'  BY <2>1
    <2> QED  BY <1>1, <2>1, <2>2, <2>3, <2>4
  <1>9. CASE UNCHANGED vars
    <2>1. StageInv'  BY <1>9 DEF vars, StageInv, Accepted
    <2>2. pulse' # None => IsPulse(pulse)'  BY <1>9 DEF vars, IsPulse
    <2> QED  BY <1>1, <1>9, <2>1, <2>2 DEF vars
  <1> QED
    BY <1>2, <1>3, <1>4, <1>5, <1>6, <1>7, <1>8, <1>9 DEF Next

\* The three promises of the pipeline follow from its invariant.
LEMMA InvAcceptsTheFormat == PipelineInv => AcceptsTheFormat
  BY ValidatorIsRight DEF PipelineInv, StageInv, AcceptsTheFormat

\* Second, that an accepted document converts.
LEMMA InvAcceptedConverts == PipelineInv => AcceptedConverts
  BY PublishedIsConverted DEF PipelineInv, AcceptedConverts

\* A pulse, taken apart.
LEMMA Pulses ==
    ASSUME PipelineInv, pulse # None
    PROVE  /\ document \in Documents /\ validatePresetJson(document) = {}
           /\ Converted(document, state)
           /\ pulse.numerator \in Int /\ pulse.beat \in 1 .. pulse.numerator
           /\ pulse.subdivision \in 0 .. 2
           /\ pulse.sound = SoundOf(clickForBeat(state, pulse.beat, pulse.numerator,
                                                 pulse.denominator),
                                    pulse.subdivision)
  <1>1. /\ document \in Documents /\ validatePresetJson(document) = {}
        /\ Converted(document, state)
    BY PublishedIsConverted DEF PipelineInv
  <1>2. PICK hostNumerator \in HostNumerators, hostDenominator \in HostDenominators :
        \E beatNumber \in 1 .. hostNumerator,
           subdivisionIndex \in SubdivisionIndices(state.subdivisionsPerBeat) :
            pulse = [kind |-> "pulse", numerator |-> hostNumerator,
                     denominator |-> hostDenominator, beat |-> beatNumber,
                     subdivision |-> subdivisionIndex,
                     sound |-> SoundOf(clickForBeat(state, beatNumber, hostNumerator,
                                                    hostDenominator),
                                       subdivisionIndex)]
    BY DEF PipelineInv, IsPulse
  <1>3. PICK beatNumber \in 1 .. hostNumerator,
             subdivisionIndex \in SubdivisionIndices(state.subdivisionsPerBeat) :
            pulse = [kind |-> "pulse", numerator |-> hostNumerator,
                     denominator |-> hostDenominator, beat |-> beatNumber,
                     subdivision |-> subdivisionIndex,
                     sound |-> SoundOf(clickForBeat(state, beatNumber, hostNumerator,
                                                    hostDenominator),
                                       subdivisionIndex)]
    BY <1>2
  <1>4. /\ pulse.numerator = hostNumerator /\ pulse.denominator = hostDenominator
        /\ pulse.beat = beatNumber /\ pulse.subdivision = subdivisionIndex
        /\ pulse.sound = SoundOf(clickForBeat(state, beatNumber, hostNumerator,
                                              hostDenominator), subdivisionIndex)
    BY <1>3
  <1>5. hostNumerator \in Int  BY PresetAssumption
  <1>6. subdivisionIndex \in 0 .. 2
    <2>1. state.subdivisionsPerBeat \in {1, 3}  BY <1>1 DEF Converted
    <2> QED  BY <2>1 DEF SubdivisionIndices
  <1> QED  BY <1>1, <1>4, <1>5, <1>6

\* The types follow too.
LEMMA InvTypeOK == PipelineInv => TypeOK
  <1> SUFFICES ASSUME PipelineInv PROVE TypeOK  OBVIOUS
  <1>1. TextTypeOK  BY DEF PipelineInv, TextInv
  <1>2. stage = "published" => isValid(state)  BY InvAcceptedConverts DEF AcceptedConverts
  <1>3. ASSUME pulse # None
        PROVE  /\ pulse.beat \in 1 .. pulse.numerator
               /\ pulse.subdivision \in 0 .. 2
               /\ pulse.sound \in ClickTypes \union {"subdivision"}
    <2>1. pulse.beat \in 1 .. pulse.numerator /\ pulse.numerator \in Int
          /\ pulse.subdivision \in 0 .. 2
      BY <1>3, Pulses
    <2>2. pulse.beat \in Int  BY <2>1
    <2>3. /\ Converted(document, state)
          /\ pulse.sound = SoundOf(clickForBeat(state, pulse.beat, pulse.numerator,
                                                pulse.denominator), pulse.subdivision)
      BY <1>3, Pulses
    <2> QED  BY <2>1, <2>2, <2>3, SoundsOfPulses
  <1> QED  BY <1>1, <1>2, <1>3 DEF TypeOK, PipelineInv

\* Third, that the pulses sound as the format says.
LEMMA InvPulsesFollowTheFormat == PipelineInv => PulsesFollowTheFormat
  <1> SUFFICES ASSUME PipelineInv, pulse # None, pulse.beat <= document.meter.numerator
               PROVE  LET role == EffectiveRole(pulse.beat, pulse.numerator, pulse.denominator)
                      IN  pulse.sound = IF role # "mute" /\ pulse.subdivision > 0
                                        THEN "subdivision" ELSE role
    BY DEF PulsesFollowTheFormat
  <1>1. /\ document \in Documents /\ validatePresetJson(document) = {}
        /\ Converted(document, state)
        /\ pulse.numerator \in Int /\ pulse.beat \in 1 .. pulse.numerator
        /\ pulse.sound = SoundOf(clickForBeat(state, pulse.beat, pulse.numerator,
                                              pulse.denominator), pulse.subdivision)
    BY Pulses
  <1>2. document.meter.numerator \in Nat  BY <1>1, AcceptedDocuments
  <1>3. pulse.beat \in 1 .. document.meter.numerator  BY <1>1, <1>2
  <1>4. clickForBeat(state, pulse.beat, pulse.numerator, pulse.denominator)
            = EffectiveRole(pulse.beat, pulse.numerator, pulse.denominator)
    BY <1>1, <1>3, ConvertedSounds
  <1> QED  BY <1>1, <1>4 DEF SoundOf

----------------------------------------------------------------------------
(* Theorems. *)

\* What each stage of applyPresetJson has is what the stages before it make of
\* the document that was received, whatever the document.
THEOREM PipelineInvariant == Spec => []PipelineInv
  <1> QED  BY InitPipeline, NextPipeline, PTL DEF Spec

\* Type correctness, with errors found exactly in what is refused.
THEOREM PipelineTyped == Spec => []TypeOK
  <1> QED  BY PipelineInvariant, InvTypeOK, PTL

\* validatePresetJson tells the documents of the Preset Format from others, but for
\* what AcceptsTheFormat leaves open, for every document there is and every limit.
THEOREM ValidatorAcceptsTheFormat == Spec => []AcceptsTheFormat
  <1> QED  BY PipelineInvariant, InvAcceptsTheFormat, PTL

\* applyPresetJson never publishes a state that is not valid: no document passes
\* the validator and is then refused by makeRealtimePresetState.
THEOREM AcceptedAlwaysConverts == Spec => []AcceptedConverts
  <1> QED  BY PipelineInvariant, InvAcceptedConverts, PTL

\* Every pulse of a beat of the pattern sounds as the Preset Format says of the
\* document as it was written, for every document, meter and host.
THEOREM PulsesAlwaysFollowTheFormat == Spec => []PulsesFollowTheFormat
  <1> QED  BY PipelineInvariant, InvPulsesFollowTheFormat, PTL

\* The two promises of the scan, in applyPresetJson: what is parsed there is
\* within all limits, and what is refused for a limit exceeds it.
THEOREM PipelineTextInvariant == Spec => []TextInv
  <1>1. PipelineInv => TextInv  BY DEF PipelineInv
  <1> QED  BY <1>1, PipelineInvariant, PTL

\* No document whose text exceeds a limit is handed to the parser by
\* applyPresetJson: parsed texts are complete, accepted, and within limits.
THEOREM NothingCostlyReachesTheParser == Spec => []AcceptsWithinLimits
  <1>1. TextInv => AcceptsWithinLimits  BY TextInvWithinLimits
  <1> QED  BY <1>1, PipelineTextInvariant, PTL

\* No preset within the limits is refused by applyPresetJson for a limit.
THEOREM NothingSmallRefusedInPipeline == Spec => []RefusesBeyondLimits
  <1>1. TextInv => RefusesBeyondLimits  BY DEF TextInv
  <1> QED  BY <1>1, PipelineTextInvariant, PTL
================================================================================
