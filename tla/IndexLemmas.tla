---------------------------- MODULE IndexLemmas ----------------------------
(***************************************************************************)
(* Facts about an index that goes around an array of n cells, as the head  *)
(* and tail of a ring buffer and the search of thread_scheduler do; and    *)
(* about least and greatest members of sets of numbers, from which         *)
(* induction follows with a set in the place of the predicate.             *)
(***************************************************************************)
EXTENDS Integers, WellFoundedInduction, TLAPS

\* The natural numbers are well-ordered.
LEMMA Least ==
    ASSUME NEW T, T \subseteq Nat, T # {}
    PROVE  \E m \in T : \A n \in T : m <= n
  <1> DEFINE R == OpToRel(<, Nat)
  <1>1. IsWellFoundedOn(R, Nat)
    BY NatLessThanWellFounded
  <1>2. \E m \in T : \A n \in T : ~ (<<n, m>> \in R)
    <2> HIDE DEF R
    <2> QED BY <1>1, WFMin
  <1>3. PICK m \in T : \A n \in T : ~ (n < m)
    BY <1>2 DEF OpToRel
  <1> HIDE DEF R
  <1> QED BY <1>3

\* Turned round, for sets with an upper bound.
LEMMA Greatest ==
    ASSUME NEW T, NEW u \in Nat, T \subseteq 0..u, T # {}
    PROVE  \E m \in T : \A n \in T : n <= m
  <1> DEFINE D == {u - n : n \in T}
  <1>1. D \subseteq Nat /\ D # {}
    <2>1. \A n \in T : u - n \in Nat
      OBVIOUS
    <2>2. PICK n \in T : TRUE
      OBVIOUS
    <2>3. u - n \in D
      OBVIOUS
    <2> QED BY <2>1, <2>3
  <1>2. PICK d \in D : \A e \in D : d <= e
    BY <1>1, Least
  <1>3. PICK m \in T : d = u - m
    BY <1>2
  <1>4. \A n \in T : u - m <= u - n
    BY <1>2, <1>3
  <1>5. \A n \in T : n <= m
    BY <1>4
  <1> QED BY <1>5

\* Induction: a set that holds 0 and, with a number, its successor.
LEMMA SetInduction ==
    ASSUME NEW T, 0 \in T, \A n \in Nat : n \in T => n + 1 \in T
    PROVE  Nat \subseteq T
  <1> SUFFICES ASSUME Nat \ T # {} PROVE FALSE
    OBVIOUS
  <1>1. PICK m \in Nat \ T : \A n \in Nat \ T : m <= n
    BY Least
  <1>2. m - 1 \in Nat /\ m - 1 \in T
    BY <1>1
  <1> QED BY <1>1, <1>2

\* One turn around the ring: none of these indices goes past twice the size.
LEMMA ModOnce ==
    ASSUME NEW n \in Nat \ {0}, NEW x \in Nat, x < 2 * n
    PROVE  x % n = IF x < n THEN x ELSE x - n
  <1>1. CASE x < n
    BY <1>1, Z3
  <1>2. CASE ~(x < n)
    BY <1>2, Z3
  <1> QED BY <1>1, <1>2


LEMMA CellOf ==
    ASSUME NEW n \in Nat \ {0}, NEW h \in 0..(n - 1), NEW i \in 0..(n - 1)
    PROVE  (h + i) % n = IF h + i < n THEN h + i ELSE h + i - n
  <1>1. CASE h + i < n
    BY <1>1, Z3
  <1>2. CASE ~(h + i < n)
    BY <1>2, Z3
  <1> QED BY <1>1, <1>2

\* Different entries of a queue that is not over-full lie in different cells.
LEMMA CellsDiffer ==
    ASSUME NEW n \in Nat \ {0}, NEW h \in 0..(n - 1),
           NEW i \in 0..(n - 1), NEW j \in 0..(n - 1), i # j
    PROVE  (h + i) % n # (h + j) % n
  <1>1. (h + i) % n = IF h + i < n THEN h + i ELSE h + i - n
    BY CellOf
  <1>2. (h + j) % n = IF h + j < n THEN h + j ELSE h + j - n
    BY CellOf
  <1> QED BY <1>1, <1>2

LEMMA CellInRange ==
    ASSUME NEW n \in Nat \ {0}, NEW h \in 0..(n - 1), NEW i \in 0..(n - 1)
    PROVE  (h + i) % n \in 0..(n - 1)
  BY ModOnce

\* Advancing the head by one and counting from there is counting one further.
LEMMA AdvanceHead ==
    ASSUME NEW n \in Nat \ {0}, NEW h \in 0..(n - 1), NEW i \in 0..(n - 1)
    PROVE  (((h + 1) % n) + i) % n = (h + (i + 1)) % n
  <1>1. (h + 1) % n = IF h + 1 < n THEN h + 1 ELSE 0
    BY ModOnce
  <1>2. CASE h + 1 < n
    BY <1>1, <1>2
  <1>3. CASE ~(h + 1 < n)
    <2>1. h = n - 1 /\ (h + 1) % n = 0
      BY <1>1, <1>3
    <2>2. (0 + i) % n = i
      BY ModOnce
    <2>3. (h + (i + 1)) % n = i
      <3>1. h + (i + 1) = n + i
        BY <2>1
      <3> QED BY <3>1, ModOnce
    <2> QED BY <2>1, <2>2, <2>3
  <1> QED BY <1>2, <1>3

\* A whole turn leads back to the start, and no shorter way does.
LEMMA WholeTurn ==
    ASSUME NEW n \in Nat \ {0}, NEW c \in 0..(n - 1), NEW i \in 1..n
    PROVE  /\ (c + i) % n \in 0..(n - 1)
           /\ (c + i) % n = c <=> i = n
  <1>1. CASE i = n
    <2>1. (c + n) % n = c
      BY ModOnce
    <2> QED BY <1>1, <2>1
  <1>2. CASE i # n
    <2>1. i \in 0..(n - 1)
      BY <1>2
    <2>2. (c + i) % n = IF c + i < n THEN c + i ELSE c + i - n
      BY <2>1, CellOf
    <2> QED BY <1>2, <2>2
  <1> QED BY <1>1, <1>2

\* Every other cell is met before the turn is complete.
LEMMA EveryCellMet ==
    ASSUME NEW n \in Nat \ {0}, NEW c \in 0..(n - 1), NEW j \in 0..(n - 1), j # c
    PROVE  \E i \in 1..(n - 1) : (c + i) % n = j
  <1>1. CASE j > c
    <2>1. j - c \in 1..(n - 1) /\ j - c \in 0..(n - 1) /\ c + (j - c) = j
      BY <1>1
    <2>2. (c + (j - c)) % n = j
      BY <2>1, CellOf
    <2> QED BY <2>1, <2>2
  <1>2. CASE j < c
    <2> DEFINE i == j - c + n
    <2>1. i \in 1..(n - 1) /\ i \in 0..(n - 1) /\ c + i = j + n
      BY <1>2
    <2> HIDE DEF i
    <2>2. (c + i) % n = IF c + i < n THEN c + i ELSE c + i - n
      BY <2>1, CellOf
    <2>3. (c + i) % n = j
      BY <2>1, <2>2
    <2> QED BY <2>1, <2>3
  <1> QED BY <1>1, <1>2, j # c
=============================================================================
