-------------------------------- MODULE Loops --------------------------------
(***************************************************************************)
(* The loops of the code are recursive functions over their turns.  Here   *)
(* is what stands in for induction over the turns: least counterexamples.  *)
(***************************************************************************)
EXTENDS Integers, TLAPS, WellFoundedInduction

\* A nonempty set of numbers has a least element.
LEMMA Minimum ==
    ASSUME NEW S \in SUBSET Nat, S # {}
    PROVE  \E x \in S : \A y \in S : x <= y
<1>1. PICK x \in S : \A y \in S : <<y, x>> \notin OpToRel(<, Nat)
  BY WFMin, NatLessThanWellFounded, Zenon
<1>2. \A y \in S : ~(y < x)
  BY <1>1, Zenon DEF OpToRel
<1> QED
  BY <1>2

\* A set of numbers up to n that holds 0 and goes on to the next holds n.
LEMMA UpTo ==
    ASSUME NEW n \in Nat, NEW S, 0 \in S,
           \A k \in 0 .. n : k \in S /\ k < n => k + 1 \in S
    PROVE  \A k \in 0 .. n : k \in S
<1> SUFFICES ASSUME {k \in 0 .. n : k \notin S} # {} PROVE FALSE
  OBVIOUS
<1>1. PICK x \in 0 .. n : x \notin S /\ \A y \in 0 .. n : y \notin S => x <= y
  <2>1. {k \in 0 .. n : k \notin S} \in SUBSET Nat
    OBVIOUS
  <2> QED
    BY <2>1, Minimum
<1>2. x # 0 /\ x - 1 \in 0 .. n
  BY <1>1
<1>3. x - 1 \in S
  BY <1>1, <1>2
<1> QED
  BY <1>1, <1>2, <1>3

\* f holds what a loop has after each of m turns.
Follows(f, m, S, step, s) ==
    /\ f \in [0 .. m -> S]
    /\ f[0] = s
    /\ \A k \in 1 .. m : f[k] = step[<<k, f[k - 1]>>]

\* A loop that starts in s and whose turn k leads from x to step[<<k, x>>] has
\* its states after each of n turns.
LEMMA Iterates ==
    ASSUME NEW S, NEW n \in Nat, NEW step \in [(1 .. n) \X S -> S], NEW s \in S
    PROVE  \E f : Follows(f, n, S, step, s)
<1> DEFINE M == {m \in 0 .. n : \E f : Follows(f, m, S, step, s)}
<1>1. 0 \in M
  <2>1. Follows([k \in 0 .. 0 |-> s], 0, S, step, s)
    BY DEF Follows
  <2> QED
    BY <2>1
<1>2. ASSUME NEW m \in 0 .. n, m \in M, m < n PROVE m + 1 \in M
  <2>1. PICK f : Follows(f, m, S, step, s)
    BY <1>2
  <2> DEFINE g == [k \in 0 .. m + 1 |-> IF k <= m THEN f[k] ELSE step[<<k, f[m]>>]]
  <2>2. f[m] \in S /\ <<m + 1, f[m]>> \in (1 .. n) \X S
    BY <1>2, <2>1 DEF Follows
  <2>3. step[<<m + 1, f[m]>>] \in S
    BY <2>2
  <2>4. g \in [0 .. m + 1 -> S] /\ g[0] = s
    BY <1>2, <2>1, <2>3 DEF Follows
  <2>5. ASSUME NEW k \in 1 .. m + 1 PROVE g[k] = step[<<k, g[k - 1]>>]
    <3>1. CASE k <= m
      <4>1. k \in 1 .. m /\ k - 1 \in 0 .. m + 1 /\ k - 1 <= m /\ k \in 0 .. m + 1
        BY <1>2, <3>1
      <4>2. g[k] = f[k] /\ g[k - 1] = f[k - 1]
        BY <4>1, <3>1
      <4> QED
        BY <2>1, <4>1, <4>2 DEF Follows
    <3>2. CASE k = m + 1
      <4>1. k - 1 = m /\ ~(k <= m) /\ m \in 0 .. m + 1 /\ m <= m
        BY <1>2, <3>2
      <4>2. g[k] = step[<<k, f[m]>>] /\ g[m] = f[m]
        BY <4>1
      <4> QED
        BY <4>1, <4>2
    <3> QED
      BY <1>2, <3>1, <3>2
  <2> HIDE DEF g
  <2>6. Follows(g, m + 1, S, step, s) /\ m + 1 \in 0 .. n
    BY <1>2, <2>4, <2>5 DEF Follows
  <2> QED
    BY <2>6
<1> HIDE DEF M
<1>3. \A k \in 0 .. n : k \in M
  BY <1>1, <1>2, UpTo
<1>4. n \in M
  BY <1>3
<1> QED
  BY <1>4 DEF M
=============================================================================
