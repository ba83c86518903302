------------------------- MODULE Selections_proofs -------------------------
(***************************************************************************)
(* What a loop that appends keeps, and the induction that shows it.        *)
(***************************************************************************)
EXTENDS Selections, FiniteSetTheorems, TLAPS

(***************************************************************************)
(* Induction over the natural numbers, as a fact about sets.               *)
(***************************************************************************)
LEMMA Least ==
    ASSUME NEW T \in SUBSET Nat, T # {}
    PROVE  \E m \in T : \A k \in T : m <= k
<1> DEFINE R == StrictSubsetOrdering(Nat)
           D == {1 .. n : n \in T}
<1>1. IsWellFoundedOn(R, FiniteSubsetsOf(Nat))
  BY FS_StrictSubsetOrderingWellFounded
<1>2. D \subseteq FiniteSubsetsOf(Nat) /\ D # {}
  <2>1. ASSUME NEW n \in T PROVE 1 .. n \in FiniteSubsetsOf(Nat)
    <3>1. n \in Nat /\ 1 \in Int /\ n \in Int
      BY <2>1
    <3>2. IsFiniteSet(1 .. n) /\ 1 .. n \subseteq Nat
      BY <3>1, FS_Interval
    <3> QED
      BY <3>2 DEF FiniteSubsetsOf
  <2> QED
    BY <2>1
<1>3. \E x \in D : \A y \in D : ~(<<y, x>> \in R)
  <2> HIDE DEF R, D
  <2> QED
    BY <1>1, <1>2, WFMin
<1>4. PICK m \in T : \A y \in D : ~(<<y, 1 .. m>> \in R)
  BY <1>3
<1>5. ASSUME NEW k \in T, k < m PROVE FALSE
  <2>1. 1 .. k \in D /\ 1 .. k \subseteq 1 .. m /\ 1 .. k # 1 .. m /\ 1 .. m \subseteq Nat
    BY <1>5
  <2>2. <<1 .. k, 1 .. m>> \in R
    BY <2>1, <1>2 DEF StrictSubsetOrdering
  <2> QED
    BY <2>1, <2>2, <1>4
<1> QED
  BY <1>5

LEMMA Induction ==
    ASSUME NEW T, 0 \in T, \A n \in Nat : n \in T => n + 1 \in T
    PROVE  \A n \in Nat : n \in T
<1> SUFFICES ASSUME Nat \ T # {} PROVE FALSE
  OBVIOUS
<1>1. PICK m \in Nat \ T : \A k \in Nat \ T : m <= k
  BY Least
<1>2. m # 0 /\ m - 1 \in Nat
  BY <1>1
<1>3. m - 1 \in T
  BY <1>1, <1>2
<1> QED
  BY <1>1, <1>2, <1>3

(***************************************************************************)
(* Quotients and remainders                                                *)
(***************************************************************************)
LEMMA Division ==
    ASSUME NEW m \in Nat, NEW n \in Nat \ {0}
    PROVE  m \div n \in Nat /\ m % n \in 0 .. n - 1 /\ m = n * (m \div n) + (m % n)
OBVIOUS

LEMMA DivisionUnique ==
    ASSUME NEW n \in Nat \ {0}, NEW q \in Nat, NEW r \in 0 .. n - 1
    PROVE  (n * q + r) \div n = q /\ (n * q + r) % n = r
OBVIOUS

(***************************************************************************)
(* Selection                                                               *)
(***************************************************************************)
\* The function that the definition is about.
Gathers(kept, s, S, n) ==
    kept = [i \in 0 .. n |-> IF i = 0 THEN <<>> ELSE IF s[i] \in S THEN Append(kept[i - 1], s[i]) ELSE kept[i - 1]]

LEMMA SelectionExists ==
    ASSUME NEW s, NEW S, NEW n \in Nat
    PROVE  \E kept : Gathers(kept, s, S, n)
<1> DEFINE Step(f, i) == IF i = 0 THEN <<>> ELSE IF s[i] \in S THEN Append(f[i - 1], s[i]) ELSE f[i - 1]
           T == {m \in Nat : \E f : f = [i \in 0 .. m |-> Step(f, i)]}
<1>1. 0 \in T
  <2>1. [i \in 0 .. 0 |-> <<>>] = [i \in 0 .. 0 |-> Step([j \in 0 .. 0 |-> <<>>], i)]
    OBVIOUS
  <2> QED
    BY <2>1
<1>2. ASSUME NEW m \in Nat, m \in T PROVE m + 1 \in T
  <2>1. PICK f : f = [i \in 0 .. m |-> Step(f, i)]
    BY <1>2
  <2> DEFINE g == [i \in 0 .. m + 1 |-> IF i = m + 1 THEN Step(f, m + 1) ELSE f[i]]
  <2>2. ASSUME NEW i \in 0 .. m + 1 PROVE g[i] = Step(g, i)
    <3>1. CASE i = m + 1
      <4>1. g[i] = Step(f, m + 1) /\ i # 0 /\ i - 1 = m /\ g[m] = f[m]
        BY <3>1
      <4> QED
        BY <3>1, <4>1
    <3>2. CASE i # m + 1
      <4>1. i \in 0 .. m /\ g[i] = f[i]
        BY <3>2
      <4>2. i # 0 => i - 1 \in 0 .. m + 1 /\ i - 1 # m + 1
        BY <3>2
      <4>3. i # 0 => g[i - 1] = f[i - 1]
        BY <4>2
      <4>4. f[i] = Step(f, i)
        <5> HIDE DEF Step
        <5> QED
          BY <2>1, <4>1
      <4> QED
        BY <4>1, <4>3, <4>4
    <3> QED
      BY <3>1, <3>2
  <2>3. g = [i \in 0 .. m + 1 |-> Step(g, i)]
    <3>1. g = [i \in 0 .. m + 1 |-> g[i]]
      OBVIOUS
    <3> HIDE DEF g, Step
    <3> QED
      BY <2>2, <3>1
  <2> HIDE DEF g, Step
  <2> QED
    BY <2>3
<1> HIDE DEF T
<1>3. n \in T
  BY <1>1, <1>2, Induction
<1> QED
  BY <1>3 DEF T, Gathers

\* What is kept of the first n elements follows from what is kept of those before.
LEMMA SelectionKept ==
    ASSUME NEW s, NEW S, Len(s) \in Nat
    PROVE  \E kept : /\ Selection(s, S) = kept[Len(s)] /\ kept[0] = <<>>
                     /\ \A n \in 1 .. Len(s) : kept[n] = IF s[n] \in S THEN Append(kept[n - 1], s[n]) ELSE kept[n - 1]
<1> DEFINE Step(f, i) == IF i = 0 THEN <<>> ELSE IF s[i] \in S THEN Append(f[i - 1], s[i]) ELSE f[i - 1]
           Kept(f) == f = [i \in 0 .. Len(s) |-> Step(f, i)]
           kept == CHOOSE f : Kept(f)
<1>1. Selection(s, S) = kept[Len(s)]
  BY DEF Selection
<1>2. \E f : Gathers(f, s, S, Len(s))
  BY SelectionExists
<1>3. Kept(kept)
  <2>1. \E f : Kept(f)
    BY <1>2 DEF Gathers
  <2> HIDE DEF Kept
  <2> QED
    BY <2>1
<1> HIDE DEF kept
<1>4. \A i \in 0 .. Len(s) : kept[i] = Step(kept, i)
  <2> HIDE DEF Step
  <2> QED
    BY <1>3
<1>5. kept[0] = <<>> /\ \A n \in 1 .. Len(s) : kept[n] = IF s[n] \in S THEN Append(kept[n - 1], s[n]) ELSE kept[n - 1]
  BY <1>4
<1> QED
  BY <1>1, <1>5

\* The places of the elements that are kept: all those whose element is in S, in order.
Places(s, S, at) ==
    /\ at \in Seq(1 .. Len(s))
    /\ \A k \in 1 .. Len(at) : s[at[k]] \in S
    /\ \A j, k \in 1 .. Len(at) : j < k => at[j] < at[k]
    /\ \A i \in 1 .. Len(s) : s[i] \in S => \E k \in 1 .. Len(at) : at[k] = i

LEMMA SelectionPlaces ==
    ASSUME NEW A, NEW s \in Seq(A), NEW S
    PROVE  /\ Selection(s, S) \in Seq(A)
           /\ \E at : /\ Places(s, S, at) /\ Len(Selection(s, S)) = Len(at)
                      /\ \A k \in 1 .. Len(at) : Selection(s, S)[k] = s[at[k]]
<1> DEFINE len == Len(s)
<1>1. len \in Nat /\ s \in [1 .. len -> A]
  OBVIOUS
<1>2. PICK kept : /\ Selection(s, S) = kept[len] /\ kept[0] = <<>>
                  /\ \A n \in 1 .. len : kept[n] = IF s[n] \in S THEN Append(kept[n - 1], s[n]) ELSE kept[n - 1]
  BY <1>1, SelectionKept
<1> DEFINE Of(n, at) ==
               /\ kept[n] \in Seq(A) /\ at \in Seq(1 .. n) /\ Len(kept[n]) = Len(at)
               /\ \A k \in 1 .. Len(at) : s[at[k]] \in S /\ kept[n][k] = s[at[k]]
               /\ \A j, k \in 1 .. Len(at) : j < k => at[j] < at[k]
               /\ \A i \in 1 .. n : s[i] \in S => \E k \in 1 .. Len(at) : at[k] = i
           T == {n \in Nat : n <= len => \E at : Of(n, at)}
<1>3. 0 \in T
  <2>1. Of(0, <<>>)
    BY <1>2
  <2> QED
    BY <2>1
<1>4. ASSUME NEW n \in Nat, n \in T PROVE n + 1 \in T
  <2> SUFFICES ASSUME n + 1 <= len PROVE \E at : Of(n + 1, at)
    <3>1. n + 1 \in Nat
      OBVIOUS
    <3> HIDE DEF Of
    <3> QED
      BY <3>1
  <2>1. n <= len /\ n + 1 \in 1 .. len /\ (n + 1) - 1 = n /\ s[n + 1] \in A
    BY <1>1
  <2>2. PICK at : Of(n, at)
    BY <1>4, <2>1
  <2>3. kept[n + 1] = IF s[n + 1] \in S THEN Append(kept[n], s[n + 1]) ELSE kept[n]
    BY <1>2, <2>1
  <2>4. at \in Seq(1 .. n + 1) /\ Len(at) \in Nat /\ \A k \in 1 .. Len(at) : at[k] \in 1 .. n
    BY <2>2
  <2>5. CASE s[n + 1] \notin S
    <3>1. \A i \in 1 .. n + 1 : s[i] \in S => i \in 1 .. n
      BY <2>5
    <3>2. Of(n + 1, at)
      BY <2>2, <2>3, <2>4, <2>5, <3>1
    <3> QED
      BY <3>2
  <2>6. CASE s[n + 1] \in S
    <3> DEFINE to == Append(at, n + 1)
               m  == Len(at)
    <3>1. /\ to \in Seq(1 .. n + 1) /\ Len(to) = m + 1 /\ to[m + 1] = n + 1
          /\ \A k \in 1 .. m : to[k] = at[k]
      BY <2>4
    <3>2. /\ kept[n + 1] \in Seq(A) /\ Len(kept[n + 1]) = m + 1 /\ kept[n + 1][m + 1] = s[n + 1]
          /\ \A k \in 1 .. m : kept[n + 1][k] = kept[n][k]
      BY <2>1, <2>2, <2>3, <2>6
    <3> HIDE DEF to
    <3>3. \A k \in 1 .. m + 1 : k \in 1 .. m \/ k = m + 1
      BY <2>4
    <3>4. ASSUME NEW k \in 1 .. m + 1 PROVE s[to[k]] \in S /\ kept[n + 1][k] = s[to[k]]
      BY <2>2, <2>6, <3>1, <3>2, <3>3
    <3>5. ASSUME NEW j \in 1 .. m + 1, NEW k \in 1 .. m + 1, j < k PROVE to[j] < to[k]
      <4>1. j \in 1 .. m
        BY <2>4, <3>5
      <4>2. to[j] = at[j] /\ at[j] \in 1 .. n
        BY <2>4, <3>1, <4>1
      <4>3. CASE k = m + 1
        BY <3>1, <4>2, <4>3
      <4>4. CASE k \in 1 .. m
        BY <2>2, <3>1, <3>5, <4>1, <4>2, <4>4
      <4> QED
        BY <3>3, <4>3, <4>4
    <3>6. ASSUME NEW i \in 1 .. n + 1, s[i] \in S PROVE \E k \in 1 .. m + 1 : to[k] = i
      <4>1. CASE i = n + 1
        BY <2>4, <3>1, <4>1
      <4>2. CASE i \in 1 .. n
        <5>1. PICK k \in 1 .. m : at[k] = i
          BY <2>2, <3>6, <4>2
        <5> QED
          BY <2>4, <3>1, <5>1
      <4> QED
        BY <4>1, <4>2
    <3>7. Of(n + 1, to)
      BY <3>1, <3>2, <3>4, <3>5, <3>6
    <3> QED
      BY <3>7
  <2> QED
    BY <2>5, <2>6
<1>5. PICK at : Of(len, at)
  <2> HIDE DEF T
  <2>1. len \in T
    BY <1>1, <1>3, <1>4, Induction
  <2> QED
    BY <1>1, <2>1 DEF T
<1>6. Places(s, S, at)
  BY <1>5 DEF Places
<1> QED
  BY <1>2, <1>5, <1>6

\* What is kept is just what is in S.
LEMMA SelectionRange ==
    ASSUME NEW A, NEW s \in Seq(A), NEW S
    PROVE  /\ Selection(s, S) \in Seq(A)
           /\ \A k \in DOMAIN Selection(s, S) : Selection(s, S)[k] \in S /\ \E i \in DOMAIN s : Selection(s, S)[k] = s[i]
           /\ \A i \in DOMAIN s : s[i] \in S => \E k \in DOMAIN Selection(s, S) : Selection(s, S)[k] = s[i]
<1> DEFINE new == Selection(s, S)
<1>1. PICK at : /\ new \in Seq(A) /\ Places(s, S, at) /\ Len(new) = Len(at)
                /\ \A k \in 1 .. Len(at) : new[k] = s[at[k]]
  BY SelectionPlaces
<1> HIDE DEF new
<1>2. DOMAIN new = 1 .. Len(at) /\ DOMAIN s = 1 .. Len(s) /\ \A k \in 1 .. Len(at) : at[k] \in DOMAIN s
  BY <1>1 DEF Places
<1>3. \A k \in DOMAIN new : new[k] \in S /\ \E i \in DOMAIN s : new[k] = s[i]
  BY <1>1, <1>2 DEF Places
<1>4. ASSUME NEW i \in DOMAIN s, s[i] \in S PROVE \E k \in DOMAIN new : new[k] = s[i]
  <2>1. PICK k \in 1 .. Len(at) : at[k] = i
    BY <1>1, <1>2, <1>4 DEF Places
  <2>2. new[k] = s[i]
    BY <1>1, <2>1
  <2> QED
    BY <1>2, <2>1, <2>2
<1> QED
  BY <1>1, <1>3, <1>4 DEF new
=============================================================================
