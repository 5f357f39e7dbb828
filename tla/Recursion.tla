----------------------------- MODULE Recursion -----------------------------
(***************************************************************************)
(* Induction over the naturals, and functions defined by recursion: that   *)
(* there is such a function, what set its values stay in, and that there   *)
(* is only one.                                                            *)
(***************************************************************************)
EXTENDS Integers, WellFoundedInduction, TLAPS

\* A set of naturals has a least member.
LEMMA Least ==
  ASSUME NEW U, U \subseteq Nat, U # {}
  PROVE  \E x \in U : \A y \in U : x <= y
<1> DEFINE R == OpToRel(<, Nat)
<1>1. IsWellFoundedOn(R, Nat)
  BY NatLessThanWellFounded, Zenon
<1>2. \A x, y \in Nat : x < y => <<x, y>> \in R
  BY DEF OpToRel
<1> HIDE DEF R
<1>3. PICK x \in U : \A y \in U : ~(<<y, x>> \in R)
  BY <1>1, WFMin, Zenon
<1>4. ASSUME NEW y \in U PROVE x <= y
  <2>1. x \in Nat /\ y \in Nat
    OBVIOUS
  <2>2. ~(y < x)
    BY <1>2, <1>3, <2>1
  <2> QED
    BY <2>1, <2>2
<1> QED
  BY <1>4

\* A set of naturals that has 0 and the successor of what it has is all of Nat.
LEMMA Induct ==
  ASSUME NEW T, T \subseteq Nat, 0 \in T, \A n \in T : n + 1 \in T
  PROVE  T = Nat
<1> SUFFICES ASSUME NEW m \in Nat, m \notin T PROVE FALSE
  OBVIOUS
<1> DEFINE U == {k \in Nat : k \notin T}
<1>1. U \subseteq Nat /\ U # {}
  OBVIOUS
<1> HIDE DEF U
<1>2. PICK x \in U : \A y \in U : x <= y
  BY <1>1, Least
<1>3. x # 0 /\ x \in Nat
  BY <1>2 DEF U
<1>4. x - 1 \in Nat /\ x - 1 < x
  BY <1>3
<1>5. x - 1 \in T
  BY <1>2, <1>4 DEF U
<1>6. x - 1 + 1 \in T
  BY <1>5
<1> QED
  BY <1>2, <1>3, <1>6 DEF U

\* A function step of the number of a step and of what was reached before it,
\* and what f reaches in n steps
Steps(step, V) == step \in [Nat -> [V -> V]]

Reaches(f, V, first, step, n) ==
  f \in [0 .. n -> V] /\ f[0] = first /\ \A k \in 1 .. n : f[k] = step[k][f[k - 1]]

\* A start and a step within V make a function into V.
LEMMA Iterates ==
  ASSUME NEW V, NEW first \in V, NEW step, Steps(step, V), NEW n \in Nat
  PROVE  \E f : Reaches(f, V, first, step, n)
<1>0. step \in [Nat -> [V -> V]]
  BY DEF Steps
<1> DEFINE Upto(m) == \E f \in [0 .. m -> V] :
                        f[0] = first /\ \A k \in 1 .. m : f[k] = step[k][f[k - 1]]
           T == {m \in Nat : Upto(m)}
<1>1. 0 \in T
  <2>1. [k \in 0 .. 0 |-> first] \in [0 .. 0 -> V] /\ [k \in 0 .. 0 |-> first][0] = first
    OBVIOUS
  <2>2. \A k \in 1 .. 0 : FALSE
    OBVIOUS
  <2> DEFINE g == [k \in 0 .. 0 |-> first]
  <2>3. g \in [0 .. 0 -> V] /\ g[0] = first /\ \A k \in 1 .. 0 : g[k] = step[k][g[k - 1]]
    BY <2>1, <2>2
  <2>4. Upto(0)
    BY <2>3
  <2> HIDE DEF Upto
  <2> QED
    BY <2>4
<1>2. ASSUME NEW m \in T PROVE m + 1 \in T
  <2>1. m \in Nat /\ m + 1 \in Nat
    OBVIOUS
  <2>2. PICK f \in [0 .. m -> V] : f[0] = first /\ \A k \in 1 .. m : f[k] = step[k][f[k - 1]]
    BY <1>2
  <2> DEFINE g == [k \in 0 .. m + 1 |-> IF k = m + 1 THEN step[m + 1][f[m]] ELSE f[k]]
  <2>3. step[m + 1][f[m]] \in V
    BY <1>0, <2>1, <2>2
  <2>4. g \in [0 .. m + 1 -> V]
    BY <2>1, <2>2, <2>3
  <2>5. g[0] = first
    BY <2>1, <2>2
  <2>6. ASSUME NEW k \in 1 .. m + 1 PROVE g[k] = step[k][g[k - 1]]
    <3>1. CASE k = m + 1
      BY <2>1, <3>1
    <3>2. CASE k # m + 1
      BY <2>1, <2>2, <3>2
    <3> QED
      BY <3>1, <3>2
  <2> HIDE DEF g
  <2> QED
    BY <2>1, <2>4, <2>5, <2>6
<1> HIDE DEF Upto
<1>3. T = Nat
  BY <1>1, <1>2, Induct
<1>4. Upto(n)
  BY <1>3
<1> QED
  BY <1>4 DEF Upto, Reaches

\* And only one function does what they say.
LEMMA OnlyOne ==
  ASSUME NEW V, NEW first, NEW step, NEW n \in Nat,
         NEW f, Reaches(f, V, first, step, n), NEW g, Reaches(g, V, first, step, n)
  PROVE  f = g
<1> DEFINE T == {m \in Nat : m <= n => f[m] = g[m]}
<1>1. 0 \in T
  BY DEF Reaches
<1>2. ASSUME NEW m \in T PROVE m + 1 \in T
  <2>1. CASE m + 1 <= n
    <3> DEFINE k == m + 1
    <3>1. k \in 1 .. n /\ k \in Nat /\ k - 1 = m /\ f[m] = g[m]
      BY <2>1
    <3> HIDE DEF k
    <3>2. f[k] = step[k][f[k - 1]] /\ g[k] = step[k][g[k - 1]]
      BY <3>1 DEF Reaches
    <3>3. k \in T
      BY <3>1, <3>2
    <3> QED
      BY <3>3 DEF k
  <2>2. CASE ~(m + 1 <= n)
    BY <2>2
  <2> QED
    BY <2>1, <2>2
<1>3. T = Nat
  <2> HIDE DEF T
  <2>1. T \subseteq Nat
    BY DEF T
  <2> QED
    BY <1>1, <1>2, <2>1, Induct
<1>4. \A m \in 0 .. n : f[m] = g[m]
  BY <1>3
<1> QED
  BY <1>4 DEF Reaches

=============================================================================
