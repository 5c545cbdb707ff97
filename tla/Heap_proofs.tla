---------------------------- MODULE Heap_proofs ----------------------------
(***************************************************************************)
(* For every size of the heap and every set of requests: however kmalloc   *)
(* and kfree follow one another, every unit of the heap is in one block,   *)
(* the free list is a circle in the order of the addresses without two     *)
(* blocks that touch, and no caller can tell the heap from an ideal        *)
(* allocator.                                                              *)
(***************************************************************************)
EXTENDS Heap, IndexLemmas, FiniteSetTheorems

-----------------------------------------------------------------------------
(* The walk along the free list *)

\* F stands for the headers in the free list but base.
Circle(F) == F \cup {base}

\* The list goes up through F, and from its last block to base.
Linked(F) ==
    \A b \in Circle(F) :
        \/ next[b] \in F /\ b < next[b] /\ \A c \in F : b < c => next[b] <= c
        \/ next[b] = base /\ \A c \in F : c <= b

\* A list of the blocks in F that begins at freep.
FreeListOf(F) == F \subseteq 1..HeapSize /\ freep \in Circle(F) /\ Linked(F)

\* The defining equation of After; the function of up to n steps is extended by
\* one step more.
LEMMA AfterDef ==
    After = [k \in 0..(HeapSize + 2) |-> IF k = 0 THEN freep ELSE next[After[k - 1]]]
  <1> DEFINE walk(f, n) == f = [k \in 0..n |-> IF k = 0 THEN freep ELSE next[f[k - 1]]]
             T == {n \in Nat : \E f : walk(f, n)}
  <1>1. 0 \in T
    <2> DEFINE f == [k \in 0..0 |-> freep]
    <2>1. walk(f, 0)
      OBVIOUS
    <2> QED BY <2>1
  <1>2. ASSUME NEW n \in Nat, n \in T PROVE n + 1 \in T
    <2>1. PICK f : walk(f, n)
      BY <1>2
    <2> DEFINE g == [k \in 0..(n + 1) |-> IF k <= n THEN f[k] ELSE next[f[n]]]
    <2>2. \A k \in 0..(n + 1) : g[k] = IF k = 0 THEN freep ELSE next[g[k - 1]]
      <3> TAKE k \in 0..(n + 1)
      <3>1. CASE k = 0
        BY <2>1, <3>1
      <3>2. CASE k \in 1..n
        BY <2>1, <3>2
      <3>3. CASE k = n + 1
        BY <3>3
      <3> QED BY <3>1, <3>2, <3>3
    <2>3. walk(g, n + 1)
      BY <2>2
    <2>4. \E h : walk(h, n + 1)
      BY <2>3
    <2> QED BY <2>4
  <1>3. HeapSize + 2 \in T
    <2> HIDE DEF T
    <2> QED BY <1>1, <1>2, SetInduction, HeapSizeAssumption
  <1>4. \E f : f = [k \in 0..(HeapSize + 2) |-> IF k = 0 THEN freep ELSE next[f[k - 1]]]
    BY <1>3
  <1> QED BY <1>4 DEF After

\* The walk stays in the list, one block at a time.
LEMMA WalkInCircle ==
    ASSUME NEW F, FreeListOf(F)
    PROVE  /\ After[0] = freep
           /\ \A k \in 0..(HeapSize + 1) : After[k + 1] = next[After[k]]
           /\ \A k \in 0..(HeapSize + 2) : After[k] \in Circle(F)
  <1>1. After[0] = freep
    BY AfterDef, HeapSizeAssumption
  <1>2. \A k \in 0..(HeapSize + 1) : After[k + 1] = next[After[k]]
    <2> TAKE k \in 0..(HeapSize + 1)
    <2>1. k + 1 \in 0..(HeapSize + 2) /\ k + 1 # 0 /\ (k + 1) - 1 = k
      BY HeapSizeAssumption
    <2> QED BY <2>1, AfterDef
  <1>3. \A b \in Circle(F) : next[b] \in Circle(F)
    BY DEF FreeListOf, Linked, Circle
  <1> DEFINE T == {k \in Nat : k <= HeapSize + 2 => After[k] \in Circle(F)}
  <1>4. 0 \in T
    BY <1>1 DEF FreeListOf
  <1>5. ASSUME NEW n \in Nat, n \in T PROVE n + 1 \in T
    BY <1>2, <1>3, <1>5, HeapSizeAssumption
  <1>6. Nat \subseteq T
    <2> HIDE DEF T
    <2> QED BY <1>4, <1>5, SetInduction
  <1> QED BY <1>1, <1>2, <1>6, HeapSizeAssumption

\* A part of the list that next does not lead out of is the whole list: from
\* the highest of its blocks next leads to base, and up from there it misses
\* none.
LEMMA ClosedIsAll ==
    ASSUME NEW F, FreeListOf(F), NEW S, S \subseteq Circle(F), S # {},
           \A b \in S : next[b] \in S
    PROVE  S = Circle(F)
  <1>1. Circle(F) \subseteq 0..HeapSize /\ HeapSize \in Nat
    BY HeapSizeAssumption DEF FreeListOf, Circle, base
  <1>2. PICK h \in S : \A b \in S : b <= h
    BY <1>1, Greatest
  <1>3. base \in S
    <2>1. h \in Circle(F) /\ next[h] \in S /\ next[h] <= h
      BY <1>2
    <2>2. ~(h < next[h])
      BY <1>1, <2>1
    <2> QED BY <2>1, <2>2 DEF FreeListOf, Linked
  <1> SUFFICES ASSUME Circle(F) \ S # {} PROVE FALSE
    OBVIOUS
  <1>4. PICK m \in Circle(F) \ S : \A c \in Circle(F) \ S : m <= c
    <2> DEFINE D == Circle(F) \ S
    <2>1. D \subseteq Nat /\ D # {}
      BY <1>1
    <2> HIDE DEF D
    <2>2. \E m \in D : \A c \in D : m <= c
      BY <2>1, Least
    <2> QED BY <2>2 DEF D
  <1>5. m \in F /\ base < m
    BY <1>1, <1>3, <1>4 DEF Circle, base
  <1> DEFINE L == {c \in Circle(F) : c < m}
  <1>6. L \subseteq 0..HeapSize /\ base \in L
    BY <1>1, <1>5 DEF Circle
  <1>7. PICK b \in L : \A c \in L : c <= b
    BY <1>1, <1>6, Greatest
  <1>8. b \in Circle(F) /\ b < m /\ b \in S
    BY <1>1, <1>4, <1>7
  <1>9. next[b] = m
    <2>1. next[b] \in F /\ b < next[b] /\ next[b] <= m
      BY <1>1, <1>5, <1>8 DEF FreeListOf, Linked, Circle
    <2>2. ~(next[b] < m)
      BY <1>1, <1>7, <2>1 DEF Circle
    <2> QED BY <1>1, <1>5, <2>1, <2>2 DEF Circle
  <1> QED BY <1>4, <1>8, <1>9

\* Within HeapSize + 1 steps the walk has been at every block of the list.
LEMMA WalkTurns ==
    ASSUME NEW F, FreeListOf(F)
    PROVE  \E j \in 1..(HeapSize + 1) : Circle(F) = {After[k] : k \in 1..j}
  <1> DEFINE I == 0..(HeapSize + 1)
             P == 0..HeapSize
             f == [k \in I |-> After[k]]
  <1>1. Circle(F) \subseteq P
    BY HeapSizeAssumption DEF FreeListOf, Circle, base
  <1>2. f \in [I -> P]
    BY <1>1, WalkInCircle, HeapSizeAssumption
  <1>3. IsFiniteSet(I) /\ IsFiniteSet(P) /\ Cardinality(P) < Cardinality(I)
    <2>1. Cardinality(P) = HeapSize + 1 /\ Cardinality(I) = HeapSize + 2
      BY FS_Interval, HeapSizeAssumption
    <2> QED BY <2>1, FS_Interval, HeapSizeAssumption
  <1>4. \E x, y \in I : x # y /\ f[x] = f[y]
    <2> HIDE DEF I, P, f
    <2> QED BY <1>2, <1>3, FS_PigeonHole
  <1>5. PICK i \in I, j \in I : i < j /\ After[i] = After[j]
    <2>1. PICK x \in I, y \in I : x # y /\ After[x] = After[y]
      BY <1>4
    <2> QED BY <2>1, HeapSizeAssumption
  <1> DEFINE S == {After[k] : k \in (i + 1)..j}
  <1>6. i + 1 \in (i + 1)..j /\ j \in (i + 1)..j
    BY <1>5, HeapSizeAssumption
  <1>7. S \subseteq Circle(F) /\ S # {}
    BY <1>5, <1>6, WalkInCircle, HeapSizeAssumption
  <1>8. \A b \in S : next[b] \in S
    <2> SUFFICES ASSUME NEW k \in (i + 1)..j PROVE next[After[k]] \in S
      OBVIOUS
    <2>1. CASE k = j
      BY <1>5, <1>6, <2>1, WalkInCircle, HeapSizeAssumption
    <2>2. CASE k # j
      <3>1. k + 1 \in (i + 1)..j /\ k \in I
        BY <2>2, HeapSizeAssumption
      <3> QED BY <3>1, WalkInCircle
    <2> QED BY <2>1, <2>2
  <1>9. S = Circle(F)
    <2> HIDE DEF S
    <2> QED BY <1>7, <1>8, ClosedIsAll
  <1>10. {After[k] : k \in 1..j} \subseteq Circle(F)
    BY <1>5, WalkInCircle, HeapSizeAssumption
  <1>11. S \subseteq {After[k] : k \in 1..j}
    BY <1>5, HeapSizeAssumption
  <1>12. j \in 1..(HeapSize + 1)
    BY <1>5, HeapSizeAssumption
  <1> QED BY <1>9, <1>10, <1>11, <1>12

\* A walk that has come back to freep has been everywhere.
LEMMA WalkReturns ==
    ASSUME NEW F, FreeListOf(F), NEW k \in 1..(HeapSize + 2), After[k] = freep
    PROVE  Circle(F) = {After[j] : j \in 1..k}
  <1> DEFINE S == {After[j] : j \in 1..k}
  <1>1. S \subseteq Circle(F) /\ S # {}
    <2>1. k \in 1..k /\ \A j \in 1..k : j \in 0..(HeapSize + 2)
      BY HeapSizeAssumption
    <2> QED BY <2>1, WalkInCircle
  <1>2. \A b \in S : next[b] \in S
    <2> SUFFICES ASSUME NEW j \in 1..k PROVE next[After[j]] \in S
      OBVIOUS
    <2>1. CASE j = k
      <3>1. next[After[j]] = After[0 + 1] /\ 1 \in 1..k
        BY <2>1, WalkInCircle, HeapSizeAssumption
      <3> QED BY <3>1
    <2>2. CASE j # k
      <3>1. j + 1 \in 1..k /\ j \in 0..(HeapSize + 1)
        BY <2>2, HeapSizeAssumption
      <3> QED BY <3>1, WalkInCircle
    <2> QED BY <2>1, <2>2
  <1> HIDE DEF S
  <1>3. S = Circle(F)
    BY <1>1, <1>2, ClosedIsAll
  <1> QED BY <1>3 DEF S

-----------------------------------------------------------------------------
(* The invariant *)

\* The blocks, free in F or handed out, tile the heap.
Tiled(F) ==
    /\ \A b \in F \cup blocks : b \in 1..HeapSize /\ size[b] > 0 /\ b + size[b] <= HeapSize + 1
    /\ \A b, c \in F \cup blocks : b < c => b + size[b] <= c
    /\ \A u \in 1..HeapSize : \E b \in F \cup blocks : b <= u /\ u < b + size[b]
    /\ F \cap blocks = {}

\* No two free blocks touch.
Merged(F) == \A b, c \in F : b < c => b + size[b] < c

Whole(F) == FreeListOf(F) /\ Tiled(F) /\ Merged(F)

HeapTypes ==
    /\ next \in [Memory -> Memory] /\ size \in [Memory -> Nat]
    /\ size[base] = 0

HeapInv == HeapTypes /\ \E F \in SUBSET (1..HeapSize) : Whole(F)

\* The heap lies in memory, and so does base.
LEMMA HeapInMemory ==
    /\ HeapSize \in Nat /\ HeapSize > 0
    /\ base \in Memory /\ base = 0
    /\ \A a \in 1..(HeapSize + 1) : a \in Memory /\ a \in Nat /\ a > 0
  BY HeapSizeAssumption DEF Memory, base

\* init_kheap leaves one free block.
LEMMA HeapInit == Init => HeapInv
  <1> SUFFICES ASSUME Init PROVE HeapInv
    OBVIOUS
  <1>1. HeapTypes
    BY HeapInMemory DEF Init, HeapTypes, kheap, Memory
  <1>2. next[base] = 1 /\ next[1] = base /\ size[1] = HeapSize /\ freep = base /\ blocks = {}
    BY HeapInMemory DEF Init, kheap
  <1>3. FreeListOf({1})
    BY <1>2, HeapInMemory DEF FreeListOf, Linked, Circle
  <1>4. Tiled({1})
    <2>1. {1} \cup blocks = {1}
      BY <1>2
    <2>2. \A b \in {1} : b \in 1..HeapSize /\ size[b] > 0 /\ b + size[b] <= HeapSize + 1
      BY <1>2, HeapInMemory
    <2>3. \A u \in 1..HeapSize : 1 <= u /\ u < 1 + size[1]
      BY <1>2, HeapInMemory
    <2>4. \A b, c \in {1} : b < c => b + size[b] <= c
      OBVIOUS
    <2>5. {1} \cap blocks = {}
      BY <1>2
    <2> QED BY ONLY <2>1, <2>2, <2>3, <2>4, <2>5 DEF Tiled
  <1>5. Merged({1})
    BY DEF Merged
  <1>6. {1} \in SUBSET (1..HeapSize)
    BY HeapInMemory
  <1> QED BY <1>1, <1>3, <1>4, <1>5, <1>6 DEF HeapInv, Whole

\* What kmalloc finds: a free block p that is large enough, and q before it.
LEMMA FirstFitIsFree ==
    ASSUME NEW F, HeapTypes, Whole(F), NEW n \in Requests, NEW k \in 1..(HeapSize + 2),
           FirstFit(n, k)
    PROVE  /\ After[k] \in F /\ size[After[k]] >= n
           /\ After[k - 1] \in Circle(F) /\ next[After[k - 1]] = After[k]
           /\ n \in Nat /\ n > 0
  <1>1. After[k] \in Circle(F) /\ After[k - 1] \in Circle(F)
    BY WalkInCircle, HeapInMemory DEF Whole
  <1>2. next[After[k - 1]] = After[k]
    <2>1. k - 1 \in 0..(HeapSize + 1) /\ (k - 1) + 1 = k
      BY HeapInMemory
    <2> QED BY <2>1, WalkInCircle DEF Whole
  <1>3. n \in Nat /\ n > 0 /\ size[After[k]] >= n
    BY RequestsAssumption DEF FirstFit
  <1>4. After[k] # base
    BY <1>3 DEF HeapTypes
  <1> QED BY <1>1, <1>2, <1>3, <1>4 DEF Circle

\* A block of the right size leaves the list.
LEMMA ExactStep ==
    ASSUME NEW F, HeapTypes, Whole(F), NEW n \in Requests, kmalloc_exact(n)
    PROVE  \E p \in F : /\ HeapTypes' /\ Whole(F \ {p})'
                        /\ size[p] = n /\ got' = p /\ blocks' = blocks \cup {p} /\ size' = size
  <1>1. PICK p \in F, q \in Circle(F) :
            /\ next[q] = p /\ size[p] = n
            /\ next' = [next EXCEPT ![q] = next[p]] /\ freep' = q
            /\ blocks' = blocks \cup {p} /\ got' = p /\ size' = size
    <2>1. PICK k \in 1..(HeapSize + 2) :
              /\ FirstFit(n, k)
              /\ size[After[k]] = n
              /\ next' = [next EXCEPT ![After[k - 1]] = next[After[k]]]
              /\ freep' = After[k - 1]
              /\ blocks' = blocks \cup {After[k]}
              /\ got' = After[k]
              /\ UNCHANGED size
      BY DEF kmalloc_exact
    <2>2. After[k] \in F /\ After[k - 1] \in Circle(F) /\ next[After[k - 1]] = After[k]
      BY <2>1, FirstFitIsFree
    <2> QED BY <2>1, <2>2
  <1>2. PICK G : G = F \ {p}
    OBVIOUS
  <1>3. /\ F \subseteq 1..HeapSize /\ Circle(F) \subseteq Memory /\ Circle(F) \subseteq Nat
        /\ \A b \in F : b > 0
        /\ base \notin F /\ F \subseteq Circle(F)
    BY HeapInMemory DEF Whole, FreeListOf, Circle
  <1>4. \A b \in Circle(F) :
            \/ next[b] \in F /\ b < next[b] /\ \A c \in F : b < c => next[b] <= c
            \/ next[b] = base /\ \A c \in F : c <= b
    BY DEF Whole, FreeListOf, Linked
  <1>5. q < p /\ \A c \in F : q < c => p <= c
    BY <1>1, <1>3, <1>4
  <1>6. \A b \in Circle(F) : next'[b] = IF b = q THEN next[p] ELSE next[b]
    BY <1>1, <1>3 DEF HeapTypes
  <1>7. HeapTypes'
    <2>1. next[p] \in Memory /\ q \in Memory
      BY <1>1, <1>3 DEF HeapTypes
    <2> QED BY <1>1, <2>1 DEF HeapTypes
  <1>8. FreeListOf(G)'
    <2>1. G \subseteq 1..HeapSize /\ q \in Circle(G)
      BY <1>1, <1>2, <1>3, <1>5 DEF Circle
    <2>2. ASSUME NEW b \in Circle(G)
          PROVE  \/ next'[b] \in G /\ b < next'[b] /\ \A c \in G : b < c => next'[b] <= c
                 \/ next'[b] = base /\ \A c \in G : c <= b
      <3>1. b \in Circle(F) /\ b # p /\ b \in Nat /\ p \in Nat /\ q \in Nat /\ F \subseteq Nat
        BY <1>1, <1>2, <1>3 DEF Circle
      <3>2. CASE b = q
        <4>1. next'[b] = next[p] /\ p \in Circle(F)
          BY <1>3, <1>6, <3>1, <3>2
        <4>2. CASE next[p] \in F /\ p < next[p] /\ \A c \in F : p < c => next[p] <= c
          <5>1. next[p] \in Nat /\ next[p] # p
            <6>1. next[p] \in Nat /\ p < next[p]
              BY <1>3, <4>2
            <6> QED BY ONLY <3>1, <6>1
          <5>2. \A c \in G : b < c => p < c
            BY <1>2, <1>5, <3>1, <3>2
          <5> QED BY <1>2, <1>5, <3>1, <3>2, <4>1, <4>2, <5>1, <5>2
        <4>3. CASE next[p] = base /\ \A c \in F : c <= p
          <5>1. \A c \in G : c <= b
            BY <1>2, <1>5, <3>1, <3>2, <4>3
          <5> QED BY <4>1, <4>3, <5>1
        <4> QED BY <1>4, <4>1, <4>2, <4>3
      <3>3. CASE b # q
        <4>1. next'[b] = next[b]
          BY <1>6, <3>1, <3>3
        <4>2. next[b] # p
          <5> SUFFICES ASSUME next[b] = p PROVE FALSE
            OBVIOUS
          <5>1. b < p /\ \A c \in F : b < c => p <= c
            BY <1>3, <1>4, <3>1
          <5>2. b < q => FALSE
            BY <1>1, <1>5, <3>1, <5>1, HeapInMemory DEF Circle
          <5>3. q < b => FALSE
            BY <1>1, <1>5, <3>1, <5>1, HeapInMemory DEF Circle
          <5> QED BY <3>1, <3>3, <5>2, <5>3
        <4> QED BY <1>2, <1>4, <3>1, <4>1, <4>2
      <3> QED BY <3>2, <3>3
    <2> QED BY <1>1, <2>1, <2>2 DEF FreeListOf, Linked, Circle
  <1>9. Tiled(G)'
    <2>1. G \cup blocks' = F \cup blocks
      BY <1>1, <1>2
    <2>2. G \cap blocks' = {}
      BY <1>1, <1>2 DEF Whole, Tiled
    <2> QED BY <1>1, <2>1, <2>2 DEF Whole, Tiled
  <1>10. Merged(G)'
    BY <1>1, <1>2 DEF Whole, Merged
  <1>11. Whole(F \ {p})'
    BY <1>2, <1>8, <1>9, <1>10 DEF Whole
  <1> QED BY <1>1, <1>7, <1>11

\* A larger one keeps its place and gives up its end.
LEMMA SplitStep ==
    ASSUME NEW F, HeapTypes, Whole(F), NEW n \in Requests, kmalloc_split(n)
    PROVE  \E p \in F, new \in 1..HeapSize :
               /\ HeapTypes' /\ Whole(F)'
               /\ n < size[p] /\ new + n = p + size[p] /\ new \notin F \cup blocks
               /\ got' = new /\ blocks' = blocks \cup {new}
               /\ \A b \in F \cup blocks : size'[b] = IF b = p THEN size[p] - n ELSE size[b]
               /\ size'[new] = n
  <1>1. PICK p \in F, q \in Circle(F), new \in Int :
            /\ new = p + size[p] - n /\ n < size[p]
            /\ size' = [size EXCEPT ![p] = @ - n, ![new] = n] /\ freep' = q
            /\ blocks' = blocks \cup {new} /\ got' = new /\ next' = next
    <2>1. PICK k \in 1..(HeapSize + 2) :
              /\ FirstFit(n, k)
              /\ size[After[k]] > n
              /\ size' = [size EXCEPT ![After[k]] = @ - n,
                                      ![After[k] + size[After[k]] - n] = n]
              /\ freep' = After[k - 1]
              /\ blocks' = blocks \cup {After[k] + size[After[k]] - n}
              /\ got' = After[k] + size[After[k]] - n
              /\ UNCHANGED next
      BY DEF kmalloc_split
    <2>2. After[k] \in F /\ After[k - 1] \in Circle(F)
      BY <2>1, FirstFitIsFree
    <2>3. n < size[After[k]]
      <3>1. size[After[k]] \in Nat /\ n \in Nat
        <4>1. After[k] \in Memory
          <5>1. After[k] \in 1..HeapSize
            BY <2>2 DEF Whole, FreeListOf
          <5>2. 1..HeapSize \subseteq Memory
            BY HeapInMemory
          <5> QED BY <5>1, <5>2
        <4> QED BY <4>1, RequestsAssumption DEF HeapTypes
      <3> QED BY <2>1, <3>1
    <2>4. After[k] + size[After[k]] - n \in Int
      <3>1. After[k] \in 1..HeapSize /\ n \in Nat
        BY <2>2, RequestsAssumption DEF Whole, FreeListOf
      <3>2. size[After[k]] \in Nat
        BY <3>1, HeapInMemory DEF HeapTypes
      <3> QED BY <3>1, <3>2
    <2> QED BY <2>1, <2>2, <2>3, <2>4
  <1>2. n \in Nat /\ n > 0
    BY RequestsAssumption
  <1>3. /\ \A b \in F \cup blocks : /\ b \in 1..HeapSize /\ b \in Memory /\ size[b] \in Nat
                                    /\ size[b] > 0 /\ b + size[b] <= HeapSize + 1
        /\ \A b, c \in F \cup blocks : b < c => b + size[b] <= c
    BY HeapInMemory DEF Whole, Tiled, HeapTypes
  <1>4. /\ new \in 1..HeapSize /\ new \in Memory /\ p < new /\ new + n = p + size[p]
        /\ new \notin F \cup blocks
    <2>1. new \in 1..HeapSize /\ p < new /\ new + n = p + size[p] /\ new < p + size[p]
      BY <1>1, <1>2, <1>3, HeapInMemory
    <2>2. new \notin F \cup blocks
      BY <1>3, <2>1
    <2> QED BY <2>1, <2>2, HeapInMemory
  <1>5. /\ \A b \in F \cup blocks : size'[b] = IF b = p THEN size[p] - n ELSE size[b]
        /\ size'[new] = n /\ size'[base] = 0
        /\ \A b \in F \cup blocks : size'[b] \in Nat /\ 0 < size'[b] /\ size'[b] <= size[b]
    <2>1. /\ \A b \in F \cup blocks : size'[b] = IF b = p THEN size[p] - n ELSE size[b]
          /\ size'[new] = n /\ size'[base] = 0
      BY <1>1, <1>3, <1>4, HeapInMemory DEF HeapTypes
    <2>2. ASSUME NEW b \in F \cup blocks
          PROVE  size'[b] \in Nat /\ 0 < size'[b] /\ size'[b] <= size[b]
      <3>1. size[b] \in Nat /\ size[b] > 0 /\ (b = p => n < size[b])
        BY <1>1, <1>3
      <3>2. size'[b] = IF b = p THEN size[b] - n ELSE size[b]
        BY <2>1
      <3> QED BY ONLY <1>2, <3>1, <3>2
    <2> QED BY <2>1, <2>2
  <1>6. HeapTypes'
    <2>1. size[p] - n \in Nat
      BY <1>1, <1>2, <1>3
    <2>2. size' \in [Memory -> Nat]
      BY <1>1, <1>2, <2>1 DEF HeapTypes
    <2> QED BY <1>1, <1>5, <2>2 DEF HeapTypes
  <1>7. FreeListOf(F)'
    BY <1>1 DEF Whole, FreeListOf, Linked, Circle
  <1>8. Tiled(F)'
    <2>1. ASSUME NEW b \in F \cup blocks'
          PROVE  b \in 1..HeapSize /\ size'[b] > 0 /\ b + size'[b] <= HeapSize + 1
      <3>1. CASE b = new
        BY <1>1, <1>2, <1>3, <1>4, <1>5, <3>1
      <3>2. CASE b # new
        <4>1. b \in F \cup blocks
          BY <1>1, <3>2
        <4>2. b \in 1..HeapSize /\ size[b] \in Nat /\ b + size[b] <= HeapSize + 1
          BY <1>3, <4>1
        <4>3. size'[b] \in Nat /\ 0 < size'[b] /\ size'[b] <= size[b]
          BY <1>5, <4>1
        <4> QED BY ONLY <4>2, <4>3, HeapSizeAssumption
      <3> QED BY <3>1, <3>2
    <2>2. ASSUME NEW b \in F \cup blocks', NEW c \in F \cup blocks', b < c
          PROVE  b + size'[b] <= c
      <3>1. CASE b # new /\ c # new
        <4>1. b \in F \cup blocks /\ c \in F \cup blocks
          BY <1>1, <3>1
        <4>2. b \in Nat /\ c \in Nat /\ size[b] \in Nat /\ b + size[b] <= c
          BY <1>3, <2>2, <4>1
        <4>3. size'[b] \in Nat /\ size'[b] <= size[b]
          BY <1>5, <4>1
        <4> QED BY ONLY <4>2, <4>3
      <3>2. CASE b = new
        <4>1. c \in F \cup blocks /\ p < c
          BY <1>1, <1>3, <1>4, <2>2, <3>2
        <4>2. p + size[p] <= c
          BY <1>3, <4>1
        <4> QED BY <1>4, <1>5, <3>2, <4>2
      <3>3. CASE b # new /\ c = new
        <4>1. b \in F \cup blocks
          BY <1>1, <3>3
        <4>2. CASE b = p
          <5>1. size'[p] = size[p] - n /\ size[p] \in Nat /\ p \in Nat
            BY <1>3, <1>5
          <5> QED BY ONLY <1>1, <1>2, <3>3, <4>2, <5>1
        <4>3. CASE b # p
          <5>1. b + size[b] <= p
            <6>1. p < b => p + size[p] <= b
              BY <1>3, <4>1
            <6> QED BY <1>1, <1>2, <1>3, <1>4, <2>2, <3>3, <4>1, <4>3, <6>1
          <5> QED BY <1>3, <1>4, <1>5, <3>3, <4>1, <4>3, <5>1
        <4> QED BY <4>2, <4>3
      <3> QED BY <3>1, <3>2, <3>3
    <2>3. ASSUME NEW u \in 1..HeapSize
          PROVE  \E b \in F \cup blocks' : b <= u /\ u < b + size'[b]
      <3>1. PICK b \in F \cup blocks : b <= u /\ u < b + size[b]
        BY DEF Whole, Tiled
      <3>2. CASE b = p /\ new <= u
        <4>1. new <= u /\ u < new + size'[new] /\ new \in F \cup blocks'
          BY <1>1, <1>4, <1>5, <3>1, <3>2
        <4> QED BY <4>1
      <3>3. CASE b = p /\ u < new
        <4>1. b <= u /\ u < b + size'[b] /\ b \in F \cup blocks'
          BY <1>1, <1>2, <1>3, <1>4, <1>5, <3>1, <3>3
        <4> QED BY <4>1
      <3>4. CASE b # p
        <4>1. b <= u /\ u < b + size'[b] /\ b \in F \cup blocks'
          BY <1>1, <1>5, <3>1, <3>4
        <4> QED BY <4>1
      <3> QED BY <1>4, <3>2, <3>3, <3>4
    <2>4. F \cap blocks' = {}
      BY <1>1, <1>4 DEF Whole, Tiled
    <2> QED BY <2>1, <2>2, <2>3, <2>4 DEF Tiled
  <1>9. Merged(F)'
    <2>1. ASSUME NEW b \in F, NEW c \in F, b < c PROVE b + size'[b] < c
      <3>1. b + size[b] < c
        BY <2>1 DEF Whole, Merged
      <3>2. size[b] \in Nat /\ size'[b] \in Nat /\ size'[b] <= size[b] /\ b \in Nat /\ c \in Nat
        BY <1>3, <1>5
      <3> QED BY ONLY <3>1, <3>2
    <2> QED BY <2>1 DEF Merged
  <1> QED BY <1>1, <1>4, <1>5, <1>6, <1>7, <1>8, <1>9 DEF Whole

\* Null is returned only when no free block is large enough: the search has been
\* at all of them.
LEMMA FailsStep ==
    ASSUME NEW F, HeapTypes, Whole(F), NEW n \in Requests, NoFit(n)
    PROVE  \A b \in F : size[b] < n
  <1>1. PICK k \in 1..(HeapSize + 2) : After[k] = freep /\ \A j \in 1..k : size[After[j]] < n
    BY DEF NoFit
  <1>2. Circle(F) = {After[j] : j \in 1..k}
    BY <1>1, WalkReturns DEF Whole
  <1> QED BY <1>1, <1>2 DEF Circle

\* Where kfree puts p back: q is the free block below it, rest the one above,
\* the block that p touches there merged with it; e is where the new free block
\* ends, and F1 the other free ones, q among them, or base.
Placed(p, F1, q, rest, e) ==
    /\ q < p /\ p < e /\ e <= HeapSize + 1
    /\ \/ rest \in F1 /\ e < rest /\ \A c \in F1 : c <= q \/ rest <= c
       \/ rest = base /\ \A c \in F1 : c <= q
    /\ \A c \in Circle(F1) \ {q} :
           \/ next[c] \in F1 /\ c < next[c] /\ \A d \in F1 : c < d => next[c] <= d
           \/ next[c] = base /\ \A d \in F1 : d <= c
    /\ \A b \in F1 \cup (blocks \ {p}) : b + size[b] <= p \/ e <= b
    /\ \A u \in 1..HeapSize :
           \/ p <= u /\ u < e
           \/ \E b \in F1 \cup (blocks \ {p}) : b <= u /\ u < b + size[b]
    /\ freep' = q /\ blocks' = blocks \ {p} /\ got' = got
    /\ \/ /\ q \in F1 /\ q + size[q] = p
          /\ size' = [size EXCEPT ![p] = e - p, ![q] = e - q]
          /\ next' = [next EXCEPT ![p] = rest, ![q] = rest]
       \/ /\ q = base \/ q + size[q] < p
          /\ size' = [size EXCEPT ![p] = e - p]
          /\ next' = [next EXCEPT ![p] = rest, ![q] = p]

LEMMA FreePlace ==
    ASSUME NEW F, HeapTypes, Whole(F), NEW p \in blocks, kfree(p)
    PROVE  \E F1 \in SUBSET F : \E q \in Circle(F1), rest \in Circle(F1), e \in Nat :
               Placed(p, F1, q, rest, e)
  <1>1. PICK q \in Circle(F), r \in Circle(F), merged \in Nat, rest \in Circle(F) :
            /\ r = next[q] /\ Below(q, p)
            /\ merged = size[p] + (IF p + size[p] = r THEN size[r] ELSE 0)
            /\ rest = IF p + size[p] = r THEN next[r] ELSE r
            /\ IF q + size[q] = p
               THEN /\ size' = [size EXCEPT ![p] = merged, ![q] = @ + merged]
                    /\ next' = [next EXCEPT ![p] = rest, ![q] = rest]
               ELSE /\ size' = [size EXCEPT ![p] = merged]
                    /\ next' = [next EXCEPT ![p] = rest, ![q] = p]
            /\ freep' = q /\ blocks' = blocks \ {p} /\ got' = got
    <2>1. PICK k \in 0..(HeapSize + 1) :
              LET q == After[k]
                  r == next[q]
                  back == p + size[p] = r
                  front == q + size[q] = p
                  merged == size[p] + (IF back THEN size[r] ELSE 0)
                  rest == IF back THEN next[r] ELSE r
              IN  /\ Below(q, p)
                  /\ IF front
                     THEN /\ size' = [size EXCEPT ![p] = merged, ![q] = @ + merged]
                          /\ next' = [next EXCEPT ![p] = rest, ![q] = rest]
                     ELSE /\ size' = [size EXCEPT ![p] = merged]
                          /\ next' = [next EXCEPT ![p] = rest, ![q] = p]
                  /\ freep' = q
                  /\ blocks' = blocks \ {p}
                  /\ UNCHANGED got
      BY DEF kfree
    <2>2. After[k] \in Circle(F)
      BY WalkInCircle, HeapInMemory DEF Whole
    <2>3. \A b \in Circle(F) : next[b] \in Circle(F) /\ size[b] \in Nat
      <3>1. \A b \in Circle(F) : next[b] \in Circle(F)
        BY DEF Whole, FreeListOf, Linked, Circle
      <3>2. \A b \in Circle(F) : b \in Memory
        BY HeapInMemory DEF Whole, FreeListOf, Circle
      <3> QED BY <3>1, <3>2 DEF HeapTypes
    <2>4. size[p] \in Nat
      BY HeapInMemory DEF Whole, Tiled, HeapTypes
    <2> DEFINE q == After[k]
               r == next[q]
               merged == size[p] + (IF p + size[p] = r THEN size[r] ELSE 0)
               rest == IF p + size[p] = r THEN next[r] ELSE r
    <2>5. q \in Circle(F) /\ r \in Circle(F) /\ merged \in Nat /\ rest \in Circle(F)
      BY <2>2, <2>3, <2>4
    <2> QED BY <2>1, <2>5
  <1>2. PICK F1 : F1 = IF p + size[p] = r THEN F \ {r} ELSE F
    OBVIOUS
  <1>3. PICK e : e = p + merged
    OBVIOUS
  <1>4. /\ \A b \in F \cup blocks : /\ b \in 1..HeapSize /\ b \in Nat /\ b > 0 /\ b \in Memory
                                    /\ size[b] \in Nat /\ size[b] > 0 /\ b + size[b] <= HeapSize + 1
        /\ \A b, c \in F \cup blocks : b < c => b + size[b] <= c
        /\ base \notin F /\ base = 0 /\ F \subseteq Circle(F) /\ p \notin F
        /\ \A b \in Circle(F) : b \in Nat
    BY HeapInMemory DEF Whole, Tiled, HeapTypes, Circle
  <1>5. \A b \in Circle(F) :
            \/ next[b] \in F /\ b < next[b] /\ \A c \in F : b < c => next[b] <= c
            \/ next[b] = base /\ \A c \in F : c <= b
    BY DEF Whole, FreeListOf, Linked
  <1>6. /\ q < p
        /\ \/ r \in F /\ p < r /\ \A c \in F : c <= q \/ r <= c
           \/ r = base /\ \A c \in F : c <= q
    <2>1. CASE r \in F /\ q < r /\ \A c \in F : q < c => r <= c
      <3>1. q \in Nat /\ r \in Nat /\ p \in Nat /\ \A c \in F : c \in Nat
        BY <1>4, <2>1
      <3>2. q < p /\ p < r
        BY <1>1, <2>1, <3>1 DEF Below
      <3> QED BY <2>1, <3>1, <3>2
    <2>2. CASE r = base /\ \A c \in F : c <= q
      <3>1. q \in Nat /\ p \in Nat /\ p > 0
        BY <1>4
      <3> QED BY <1>1, <1>4, <2>2, <3>1 DEF Below
    <2> QED BY <1>1, <1>5, <2>1, <2>2
  <1>7. \A c \in Circle(F) : next[c] = r /\ r \in F => c = q
    <2> SUFFICES ASSUME NEW c \in Circle(F), next[c] = r, r \in F, c # q PROVE FALSE
      OBVIOUS
    <2>1. q < r /\ \A d \in F : q < d => r <= d
      BY <1>1, <1>4, <1>5
    <2>2. c < r /\ \A d \in F : c < d => r <= d
      BY <1>4, <1>5
    <2>3. q \in Nat /\ c \in Nat /\ r \in Nat
      BY <1>4
    <2>4. c < q => FALSE
      BY <1>4, <2>1, <2>2, <2>3 DEF Circle
    <2>5. q < c => FALSE
      BY <1>4, <2>1, <2>2, <2>3 DEF Circle
    <2> QED BY <2>3, <2>4, <2>5
  <1>8. /\ F1 \subseteq F /\ q \in Circle(F1) /\ rest \in Circle(F1)
        /\ e \in Nat /\ p < e /\ e <= HeapSize + 1
        /\ \/ rest \in F1 /\ e < rest /\ \A c \in F1 : c <= q \/ rest <= c
           \/ rest = base /\ \A c \in F1 : c <= q
    <2>1. CASE p + size[p] # r
      <3>1. F1 = F /\ rest = r /\ e = p + size[p] /\ p \in Nat /\ size[p] \in Nat /\ size[p] > 0
        BY <1>1, <1>2, <1>3, <1>4, <2>1
      <3>2. e \in Nat /\ p < e /\ e <= HeapSize + 1
        BY <1>4, <3>1
      <3>3. r \in F /\ p < r => e < r
        <4> SUFFICES ASSUME r \in F, p < r PROVE e < r
          OBVIOUS
        <4>1. p + size[p] <= r /\ r \in Nat
          BY <1>4
        <4> QED BY <2>1, <3>1, <4>1
      <3> QED BY <1>6, <3>1, <3>2, <3>3 DEF Circle
    <2>2. CASE p + size[p] = r
      <3>1. F1 = F \ {r} /\ rest = next[r] /\ merged = size[p] + size[r]
        BY <1>1, <1>2, <2>2
      <3>2. p \in Nat /\ size[p] \in Nat /\ size[p] > 0 /\ r # base
        BY <1>4, <2>2
      <3>3. r \in F /\ p < r /\ \A c \in F : c <= q \/ r <= c
        BY <1>6, <3>2
      <3>4. r \in Nat /\ size[r] \in Nat /\ size[r] > 0 /\ r + size[r] <= HeapSize + 1
        BY <1>4, <3>3
      <3>5. e = r + size[r] /\ e \in Nat /\ p < e /\ e <= HeapSize + 1
        BY <1>3, <2>2, <3>1, <3>2, <3>3, <3>4
      <3>6. q \in Nat /\ q # r
        BY <1>4, <1>6, <3>2, <3>3, <3>4
      <3>7. CASE rest \in F /\ r < rest /\ \A c \in F : r < c => rest <= c
        <4>1. e < rest
          BY <3>3, <3>5, <3>7 DEF Whole, Merged
        <4>2. rest # r
          BY <3>4, <3>7
        <4>3. \A c \in F1 : c <= q \/ rest <= c
          BY <1>4, <3>1, <3>3, <3>4, <3>7
        <4> QED BY <3>1, <3>5, <3>6, <3>7, <4>1, <4>2, <4>3 DEF Circle
      <3>8. CASE rest = base /\ \A c \in F : c <= r
        <4>1. \A c \in F1 : c <= q
          BY <1>4, <3>1, <3>3, <3>4, <3>8
        <4> QED BY <3>1, <3>5, <3>6, <3>8, <4>1 DEF Circle
      <3> QED BY <1>4, <1>5, <3>1, <3>3, <3>7, <3>8
    <2> QED BY <2>1, <2>2
  <1>9. ASSUME NEW c \in Circle(F1) \ {q}
        PROVE  \/ next[c] \in F1 /\ c < next[c] /\ \A d \in F1 : c < d => next[c] <= d
               \/ next[c] = base /\ \A d \in F1 : d <= c
    <2>1. c \in Circle(F) /\ F1 \subseteq F
      BY <1>8 DEF Circle
    <2>2. next[c] \in F => next[c] \in F1
      BY <1>2, <1>7, <2>1
    <2> QED BY <1>5, <2>1, <2>2
  <1>10. ASSUME NEW b \in F1 \cup (blocks \ {p}) PROVE b + size[b] <= p \/ e <= b
    <2>1. b \in F \cup blocks /\ b # p /\ b \in Nat /\ p \in Nat
      BY <1>4, <1>8
    <2>2. b + size[b] <= p \/ p + size[p] <= b
      BY <1>4, <2>1
    <2>3. CASE p + size[p] # r
      <3>1. size[p] \in Nat /\ p \in Nat
        BY <1>4
      <3> QED BY <1>1, <1>3, <2>2, <2>3, <3>1
    <2>4. CASE p + size[p] = r
      <3>1. r \in F
        BY <1>4, <1>6, <2>4
      <3>2. b # r
        BY <1>2, <2>4, <3>1 DEF Whole, Tiled
      <3>3. r \in Nat /\ r + size[r] = e
        <4>1. r \in Nat /\ size[r] \in Nat /\ p \in Nat /\ size[p] \in Nat
          BY <1>4, <3>1
        <4> QED BY <1>1, <1>3, <2>4, <4>1
      <3>4. r < b => r + size[r] <= b
        BY <1>4, <2>1, <3>1
      <3> QED BY <2>1, <2>2, <2>4, <3>2, <3>3, <3>4
    <2> QED BY <2>3, <2>4
  <1>11. ASSUME NEW u \in 1..HeapSize
         PROVE  \/ p <= u /\ u < e
                \/ \E b \in F1 \cup (blocks \ {p}) : b <= u /\ u < b + size[b]
    <2>1. PICK b \in F \cup blocks : b <= u /\ u < b + size[b]
      BY DEF Whole, Tiled
    <2>2. CASE b \in F1 \cup (blocks \ {p})
      BY <2>1, <2>2
    <2>3. CASE b = p
      <3>1. p + size[p] <= e
        <4>1. p \in Nat /\ size[p] \in Nat /\ (r \in F => size[r] \in Nat)
          BY <1>4
        <4>2. CASE p + size[p] = r
          <5>1. r \in F
            BY <1>4, <1>6, <4>2
          <5> QED BY <1>1, <1>3, <4>1, <4>2, <5>1
        <4>3. CASE p + size[p] # r
          BY <1>1, <1>3, <4>1, <4>3
        <4> QED BY <4>2, <4>3
      <3>2. p \in Nat /\ size[p] \in Nat
        BY <1>4
      <3> QED BY <1>8, <2>1, <2>3, <3>1, <3>2
    <2>4. CASE b = r /\ p + size[p] = r
      <3>1. r \in F
        BY <1>4, <1>6, <2>4
      <3>2. r \in Nat /\ size[r] \in Nat /\ p \in Nat /\ size[p] \in Nat
        BY <1>4, <3>1
      <3> QED BY <1>1, <1>3, <2>1, <2>4, <3>2
    <2> QED BY <1>2, <2>2, <2>3, <2>4
  <1>12. \/ /\ q \in F1 /\ q + size[q] = p
            /\ size' = [size EXCEPT ![p] = e - p, ![q] = e - q]
            /\ next' = [next EXCEPT ![p] = rest, ![q] = rest]
         \/ /\ q = base \/ q + size[q] < p
            /\ size' = [size EXCEPT ![p] = e - p]
            /\ next' = [next EXCEPT ![p] = rest, ![q] = p]
    <2>1. p \in Nat /\ q \in Nat /\ q # p /\ merged \in Nat /\ merged = e - p
      <3>1. p \in Nat /\ q \in Nat /\ size[p] \in Nat
        BY <1>4
      <3>2. p + size[p] = r => size[r] \in Nat
        BY <1>4, <1>6
      <3>3. merged \in Nat
        BY <1>1, <3>1, <3>2
      <3> QED BY <1>3, <1>6, <3>1, <3>3
    <2>2. size \in [Memory -> Nat] /\ q \in Memory /\ size[q] \in Nat
      BY <1>4, HeapInMemory DEF Circle, HeapTypes
    <2>3. CASE q + size[q] = p
      <3>1. q # base
        BY <1>6, <2>1, <2>3 DEF HeapTypes
      <3>2. size[q] + merged = e - q
        BY <1>3, <2>1, <2>2, <2>3
      <3>3. [size EXCEPT ![p] = merged, ![q] = @ + merged] = [size EXCEPT ![p] = e - p, ![q] = e - q]
        BY <2>1, <2>2, <3>2
      <3> QED BY <1>1, <1>8, <2>3, <3>1, <3>3 DEF Circle
    <2>4. CASE q + size[q] # p
      <3>1. q = base \/ q + size[q] < p
        BY <1>4, <1>6, <2>1, <2>2, <2>4 DEF Circle
      <3> QED BY <1>1, <2>1, <2>4, <3>1
    <2> QED BY <2>3, <2>4
  <1>13. F1 \in SUBSET F /\ rest \in Circle(F1)
    BY <1>8
  <1>14. Placed(p, F1, q, rest, e)
    BY <1>1, <1>6, <1>8, <1>9, <1>10, <1>11, <1>12 DEF Placed
  <1> QED BY <1>8, <1>13, <1>14

\* A block that is freed joins the list where the addresses put it, and the
\* blocks it touches.
LEMMA FreeStep ==
    ASSUME NEW F, HeapTypes, Whole(F), NEW p \in blocks, kfree(p)
    PROVE  /\ HeapTypes' /\ \E G \in SUBSET (1..HeapSize) : Whole(G)'
           /\ blocks' = blocks \ {p} /\ got' = got
           /\ \A b \in blocks \ {p} : size'[b] = size[b]
  <1>0. PICK F1 \in SUBSET F : \E q \in Circle(F1), rest \in Circle(F1), e \in Nat :
                                   Placed(p, F1, q, rest, e)
    BY FreePlace
  <1>1. PICK q \in Circle(F1), rest \in Circle(F1), e \in Nat : Placed(p, F1, q, rest, e)
    BY <1>0
  <1> USE DEF Placed
  <1>2. PICK B : B = F1 \cup (blocks \ {p})
    OBVIOUS
  <1>3. /\ \A b \in F \cup blocks : /\ b \in 1..HeapSize /\ b \in Nat /\ b > 0 /\ b \in Memory
                                    /\ size[b] \in Nat /\ size[b] > 0 /\ b + size[b] <= HeapSize + 1
        /\ \A b, c \in F \cup blocks : b < c => b + size[b] <= c
        /\ base \notin F /\ base = 0 /\ p \notin F /\ base \notin blocks /\ F \cap blocks = {}
        /\ \A b \in Circle(F1) : b \in Nat /\ b \in Memory
    BY <1>1, HeapInMemory DEF Whole, Tiled, HeapTypes, Circle
  <1>4. /\ B \subseteq F \cup blocks /\ p \notin B /\ p \notin Circle(F1) /\ F1 \subseteq B
        /\ F1 \subseteq F /\ F1 \subseteq 1..HeapSize /\ F1 \subseteq Circle(F1)
        /\ p \in 1..HeapSize /\ e \in Nat /\ q \in Nat /\ p \in Nat /\ p > 0
    BY <1>1, <1>2, <1>3 DEF Circle
  <1>5. ASSUME NEW b \in F1, NEW c \in F1, b < c PROVE b + size[b] < c
    BY <1>4, <1>5 DEF Whole, Merged
  <1>6. CASE /\ q \in F1 /\ q + size[q] = p
             /\ size' = [size EXCEPT ![p] = e - p, ![q] = e - q]
             /\ next' = [next EXCEPT ![p] = rest, ![q] = rest]
    <2>1. /\ \A b \in B \ {q} : size'[b] = size[b]
          /\ size'[q] = e - q /\ size'[base] = 0
          /\ \A b \in Circle(F1) : next'[b] = IF b = q THEN rest ELSE next[b]
      <3>1. size \in [Memory -> Nat] /\ next \in [Memory -> Memory] /\ size[base] = 0
        BY DEF HeapTypes
      <3>2. B \subseteq Memory /\ Circle(F1) \subseteq Memory /\ base \in Memory /\ q \in Memory
        BY <1>3, <1>4, HeapInMemory
      <3>3. base # p /\ base # q
        BY <1>3, <1>4, <1>6
      <3> QED BY <1>4, <1>6, <3>1, <3>2, <3>3
    <2>2. HeapTypes'
      <3>1. e - p \in Nat /\ e - q \in Nat
        BY <1>1, <1>4
      <3>2. size' \in [Memory -> Nat]
        BY <1>6, <3>1 DEF HeapTypes
      <3>3. next' \in [Memory -> Memory]
        BY <1>1, <1>3, <1>6 DEF HeapTypes
      <3> QED BY <2>1, <3>2, <3>3 DEF HeapTypes
    <2>3. FreeListOf(F1)'
      <3>1. ASSUME NEW c \in Circle(F1)
            PROVE  \/ next'[c] \in F1 /\ c < next'[c] /\ \A d \in F1 : c < d => next'[c] <= d
                   \/ next'[c] = base /\ \A d \in F1 : d <= c
        <4>1. CASE c = q
          <5>1. next'[c] = rest
            BY <2>1, <4>1
          <5>2. CASE rest = base /\ \A d \in F1 : d <= q
            BY <4>1, <5>1, <5>2
          <5>3. CASE rest \in F1 /\ e < rest /\ \A d \in F1 : d <= q \/ rest <= d
            <6>1. rest \in Nat /\ q < rest
              BY <1>1, <1>3, <1>4, <5>3
            <6>2. \A d \in F1 : q < d => rest <= d
              BY <1>3, <1>4, <5>3
            <6> QED BY <4>1, <5>1, <5>3, <6>1, <6>2
          <5> QED BY <1>1, <5>2, <5>3
        <4>2. CASE c # q
          <5>1. next'[c] = next[c]
            BY <2>1, <4>2
          <5> QED BY <1>1, <4>2, <5>1
        <4> QED BY <4>1, <4>2
      <3>2. freep' \in Circle(F1)
        BY <1>1
      <3> QED BY <1>4, <3>1, <3>2 DEF FreeListOf, Linked, Circle
    <2>4. q + size'[q] = e /\ size'[q] \in Nat /\ size'[q] > 0
      BY <1>1, <1>4, <2>1
    <2>5. Tiled(F1)'
      <3>1. ASSUME NEW b \in B
            PROVE  b \in 1..HeapSize /\ size'[b] > 0 /\ b + size'[b] <= HeapSize + 1
        BY <1>1, <1>3, <1>4, <2>1, <2>4
      <3>2. ASSUME NEW b \in B, NEW c \in B, b < c PROVE b + size'[b] <= c
        <4>1. b + size[b] <= c /\ b \in Nat /\ c \in Nat
          BY <1>3, <1>4, <3>2
        <4>2. CASE b = q
          <5>1. c + size[c] <= p \/ e <= c
            BY <1>1, <1>2
          <5>2. size[c] \in Nat /\ size[c] > 0
            BY <1>3, <1>4
          <5> QED BY <1>4, <1>6, <2>4, <4>1, <4>2, <5>1, <5>2
        <4>3. CASE b # q
          BY <2>1, <4>1, <4>3
        <4> QED BY <4>2, <4>3
      <3>3. ASSUME NEW u \in 1..HeapSize PROVE \E b \in B : b <= u /\ u < b + size'[b]
        <4>1. CASE p <= u /\ u < e
          BY <1>1, <1>4, <1>6, <2>4, <4>1
        <4>2. CASE \E b \in B : b <= u /\ u < b + size[b]
          <5>1. PICK b \in B : b <= u /\ u < b + size[b]
            BY <4>2
          <5>2. b = q => u < e
            BY <1>1, <1>4, <1>6, <5>1
          <5> QED BY <2>1, <2>4, <5>1, <5>2
        <4> QED BY <1>1, <1>2, <4>1, <4>2
      <3>4. F1 \cup blocks' = B /\ F1 \cap blocks' = {}
        BY <1>1, <1>2, <1>3
      <3> QED BY <3>1, <3>2, <3>3, <3>4 DEF Tiled
    <2>6. Merged(F1)'
      <3>1. ASSUME NEW b \in F1, NEW c \in F1, b < c PROVE b + size'[b] < c
        <4>1. CASE b = q
          <5>1. rest \in F1 /\ e < rest /\ rest <= c
            BY <1>1, <1>3, <1>4, <3>1, <4>1
          <5> QED BY <1>3, <1>4, <2>4, <4>1, <5>1
        <4>2. CASE b # q
          BY <1>4, <1>5, <2>1, <3>1, <4>2
        <4> QED BY <4>1, <4>2
      <3> QED BY <3>1 DEF Merged
    <2>7. ASSUME NEW b \in blocks \ {p} PROVE size'[b] = size[b]
      <3>1. b \in B /\ b # q
        BY <1>2, <1>3, <1>4, <1>6
      <3> QED BY <2>1, <3>1
    <2>8. F1 \in SUBSET (1..HeapSize) /\ Whole(F1)'
      BY <1>4, <2>3, <2>5, <2>6 DEF Whole
    <2> QED BY <1>1, <2>2, <2>7, <2>8
  <1>7. CASE /\ q = base \/ q + size[q] < p
             /\ size' = [size EXCEPT ![p] = e - p]
             /\ next' = [next EXCEPT ![p] = rest, ![q] = p]
    <2>1. PICK G : G = F1 \cup {p}
      OBVIOUS
    <2>2. /\ \A b \in B : size'[b] = size[b]
          /\ size'[p] = e - p /\ size'[base] = 0
          /\ next'[p] = rest /\ next'[q] = p
          /\ \A b \in Circle(F1) \ {q} : next'[b] = next[b]
      <3>1. size \in [Memory -> Nat] /\ next \in [Memory -> Memory] /\ size[base] = 0
        BY DEF HeapTypes
      <3>2. /\ B \subseteq Memory /\ Circle(F1) \subseteq Memory /\ base \in Memory
            /\ q \in Memory /\ p \in Memory
        BY <1>3, <1>4, HeapInMemory
      <3>3. base # p /\ q # p
        BY <1>3, <1>4
      <3> QED BY <1>4, <1>7, <3>1, <3>2, <3>3
    <2>3. HeapTypes'
      <3>1. e - p \in Nat
        BY <1>1, <1>4
      <3>2. size' \in [Memory -> Nat]
        BY <1>7, <3>1 DEF HeapTypes
      <3>3. next' \in [Memory -> Memory]
        BY <1>1, <1>3, <1>7 DEF HeapTypes
      <3> QED BY <2>2, <3>2, <3>3 DEF HeapTypes
    <2>4. \A c \in F1 : c \in Nat /\ c > 0 /\ (c <= q \/ e < c)
      <3> SUFFICES ASSUME NEW c \in F1 PROVE c \in Nat /\ c > 0 /\ (c <= q \/ e < c)
        OBVIOUS
      <3>1. c \in Nat /\ c > 0
        BY <1>3, <1>4
      <3>2. CASE rest = base /\ \A d \in F1 : d <= q
        BY <3>1, <3>2
      <3>3. CASE rest \in F1 /\ e < rest /\ \A d \in F1 : d <= q \/ rest <= d
        BY <1>3, <1>4, <3>1, <3>3
      <3> QED BY <1>1, <3>1, <3>2, <3>3
    <2>5. FreeListOf(G)'
      <3>1. ASSUME NEW c \in Circle(G)
            PROVE  \/ next'[c] \in G /\ c < next'[c] /\ \A d \in G : c < d => next'[c] <= d
                   \/ next'[c] = base /\ \A d \in G : d <= c
        <4>1. CASE c = q
          <5>1. \A d \in G : q < d => p <= d
            BY <1>1, <1>4, <2>1, <2>4
          <5> QED BY <1>1, <2>1, <2>2, <4>1, <5>1
        <4>2. CASE c = p
          <5>1. CASE rest = base /\ \A d \in F1 : d <= q
            <6>1. \A d \in G : d <= p
              BY <1>1, <1>4, <2>1, <2>4, <5>1
            <6> QED BY <2>2, <4>2, <5>1, <6>1
          <5>2. CASE rest \in F1 /\ e < rest /\ \A d \in F1 : d <= q \/ rest <= d
            <6>1. \A d \in G : p < d => rest <= d
              BY <1>1, <1>4, <2>1, <2>4, <5>2
            <6>2. p < rest
              BY <1>1, <1>4, <2>4, <5>2
            <6> QED BY <2>1, <2>2, <4>2, <5>2, <6>1, <6>2
          <5> QED BY <1>1, <5>1, <5>2
        <4>3. CASE c # q /\ c # p
          <5>1. c \in Circle(F1) \ {q} /\ next'[c] = next[c] /\ c \in Nat
            BY <1>3, <2>1, <2>2, <4>3 DEF Circle
          <5>2. c < q \/ p < c
            BY <1>1, <1>3, <1>4, <2>4, <5>1 DEF Circle
          <5>3. c < q => q \in F1
            BY <1>3, <5>1 DEF Circle
          <5>4. CASE next[c] \in F1 /\ c < next[c] /\ \A d \in F1 : c < d => next[c] <= d
            <6>1. c < p => next[c] <= p
              <7> SUFFICES ASSUME c < p PROVE next[c] <= p
                OBVIOUS
              <7>1. c < q
                BY <1>4, <5>1, <5>2
              <7>2. next[c] <= q /\ next[c] \in Nat
                BY <2>4, <5>3, <5>4, <7>1
              <7> QED BY <1>1, <1>4, <7>2
            <6> QED BY <2>1, <5>1, <5>4, <6>1
          <5>5. CASE next[c] = base /\ \A d \in F1 : d <= c
            <6>1. p <= c
              BY <1>4, <5>1, <5>2, <5>3, <5>5
            <6> QED BY <2>1, <5>1, <5>5, <6>1
          <5> QED BY <1>1, <5>1, <5>4, <5>5
        <4> QED BY <4>1, <4>2, <4>3
      <3>2. freep' \in Circle(G) /\ G \subseteq 1..HeapSize
        BY <1>1, <1>4, <2>1 DEF Circle
      <3> QED BY <3>1, <3>2 DEF FreeListOf, Linked, Circle
    <2>6. p + size'[p] = e /\ size'[p] \in Nat /\ size'[p] > 0
      BY <1>1, <1>4, <2>2
    <2>7. Tiled(G)'
      <3>1. ASSUME NEW b \in B \cup {p}
            PROVE  b \in 1..HeapSize /\ size'[b] > 0 /\ b + size'[b] <= HeapSize + 1
        <4>1. CASE b = p
          BY <1>1, <1>4, <2>6, <4>1
        <4>2. CASE b \in B
          BY <1>3, <1>4, <2>2, <4>2
        <4> QED BY <4>1, <4>2
      <3>2. ASSUME NEW b \in B \cup {p}, NEW c \in B \cup {p}, b < c PROVE b + size'[b] <= c
        <4>1. CASE b \in B /\ c \in B
          BY <1>3, <1>4, <2>2, <3>2, <4>1
        <4>2. CASE b = p
          <5>1. c \in B /\ c \in Nat /\ size[c] \in Nat /\ size[c] > 0
            BY <1>3, <1>4, <3>2, <4>2
          <5>2. c + size[c] <= p \/ e <= c
            BY <1>1, <1>2, <5>1
          <5> QED BY <1>4, <2>6, <3>2, <4>2, <5>1, <5>2
        <4>3. CASE b \in B /\ c = p
          <5>1. b + size[b] <= p \/ e <= b
            BY <1>1, <1>2, <4>3
          <5>2. b \in Nat /\ size'[b] = size[b]
            BY <1>3, <1>4, <2>2, <4>3
          <5> QED BY <1>1, <1>4, <3>2, <4>3, <5>1, <5>2
        <4> QED BY <3>2, <4>1, <4>2, <4>3
      <3>3. ASSUME NEW u \in 1..HeapSize PROVE \E b \in B \cup {p} : b <= u /\ u < b + size'[b]
        <4>1. CASE p <= u /\ u < e
          BY <2>6, <4>1
        <4>2. CASE \E b \in B : b <= u /\ u < b + size[b]
          BY <2>2, <4>2
        <4> QED BY <1>1, <1>2, <4>1, <4>2
      <3>4. G \cup blocks' = B \cup {p} /\ G \cap blocks' = {}
        BY <1>1, <1>2, <1>3, <2>1
      <3> QED BY <3>1, <3>2, <3>3, <3>4 DEF Tiled
    <2>8. Merged(G)'
      <3>1. ASSUME NEW b \in G, NEW c \in G, b < c PROVE b + size'[b] < c
        <4>1. CASE b \in F1 /\ c \in F1
          BY <1>4, <1>5, <2>2, <3>1, <4>1
        <4>2. CASE b = p
          BY <1>1, <1>4, <2>1, <2>4, <2>6, <3>1, <4>2
        <4>3. CASE b \in F1 /\ c = p
          <5>1. b <= q /\ q # base /\ q \in F1 /\ b \in Nat
            <6>1. b <= q /\ b \in Nat /\ b > 0
              BY <1>1, <1>4, <2>4, <3>1, <4>3
            <6> QED BY <1>3, <1>4, <6>1 DEF Circle
          <5>2. q + size[q] < p /\ size[q] \in Nat
            BY <1>3, <1>4, <1>7, <5>1
          <5>3. size'[b] = size[b] /\ size[b] \in Nat
            BY <1>3, <1>4, <2>2, <4>3
          <5>4. b < q => b + size[b] < q
            BY <1>5, <4>3, <5>1
          <5> QED BY <1>4, <4>3, <5>1, <5>2, <5>3, <5>4
        <4> QED BY <2>1, <3>1, <4>1, <4>2, <4>3
      <3> QED BY <3>1 DEF Merged
    <2>9. \A b \in blocks \ {p} : size'[b] = size[b]
      BY <1>2, <2>2
    <2>10. G \in SUBSET (1..HeapSize) /\ Whole(G)'
      BY <1>4, <2>1, <2>5, <2>7, <2>8 DEF Whole
    <2> QED BY <1>1, <2>3, <2>9, <2>10
  <1> QED BY <1>1, <1>6, <1>7
LEMMA HeapStep == HeapInv /\ [Next]_heapVars => HeapInv'
  <1> SUFFICES ASSUME HeapInv, [Next]_heapVars PROVE HeapInv'
    OBVIOUS
  <1>1. PICK F \in SUBSET (1..HeapSize) : HeapTypes /\ Whole(F)
    BY DEF HeapInv
  <1>2. CASE \E n \in Requests : kmalloc_exact(n)
    <2>1. PICK p \in F : HeapTypes' /\ Whole(F \ {p})'
      BY <1>1, <1>2, ExactStep
    <2>2. F \ {p} \in SUBSET (1..HeapSize)
      OBVIOUS
    <2> QED BY <2>1, <2>2 DEF HeapInv
  <1>3. CASE \E n \in Requests : kmalloc_split(n)
    <2>1. HeapTypes' /\ Whole(F)'
      BY <1>1, <1>3, SplitStep
    <2> QED BY <2>1 DEF HeapInv
  <1>4. CASE \E p \in blocks : kfree(p)
    <2>1. HeapTypes' /\ \E G \in SUBSET (1..HeapSize) : Whole(G)'
      BY <1>1, <1>4, FreeStep
    <2> QED BY <2>1 DEF HeapInv
  <1>5. CASE (\E n \in Requests : kmalloc_fails(n)) \/ UNCHANGED heapVars
    <2>1. UNCHANGED <<next, size, freep, blocks>>
      BY <1>5 DEF kmalloc_fails, heapVars
    <2>2. HeapTypes' /\ Whole(F)'
      BY <1>1, <2>1 DEF HeapTypes, Whole, FreeListOf, Linked, Circle, Tiled, Merged
    <2> QED BY <2>2 DEF HeapInv
  <1> QED BY <1>2, <1>3, <1>4, <1>5 DEF Next

\* Whatever is asked of kmalloc and kfree, and in whatever order, the heap is
\* tiled by its blocks and the free list goes through the free ones in order
\* (init_kheap, kmalloc, kfree).
THEOREM HeapIsTiled == Spec => []HeapInv
  BY HeapInit, HeapStep, PTL DEF Spec

-----------------------------------------------------------------------------
(* What it says of the list as kfree and kmalloc walk it *)

LEMMA WalkIsList ==
    ASSUME NEW F, Whole(F)
    PROVE  /\ FreeList = Circle(F) /\ FreeBlocks = F
           /\ \E k \in 1..(HeapSize + 2) : After[k] = freep
  <1>1. PICK j \in 1..(HeapSize + 1) : Circle(F) = {After[k] : k \in 1..j}
    BY WalkTurns DEF Whole
  <1>2. FreeList = Circle(F)
    <2>1. FreeList \subseteq Circle(F)
      BY WalkInCircle, HeapSizeAssumption DEF FreeList, Whole
    <2>2. {After[k] : k \in 1..j} \subseteq FreeList
      <3>1. \A k \in 1..j : k \in 0..(HeapSize + 1)
        BY HeapSizeAssumption
      <3> QED BY <3>1 DEF FreeList
    <2> QED BY <1>1, <2>1, <2>2
  <1>3. FreeBlocks = F
    <2>1. base \notin F
      BY HeapInMemory DEF Whole, FreeListOf
    <2> QED BY <1>2, <2>1 DEF FreeBlocks, Circle
  <1>4. \E k \in 1..(HeapSize + 2) : After[k] = freep
    <2>1. freep \in Circle(F)
      BY DEF Whole, FreeListOf
    <2>2. PICK k \in 1..j : After[k] = freep
      BY <1>1, <2>1
    <2> QED BY <2>2, HeapSizeAssumption
  <1> QED BY <1>2, <1>3, <1>4

LEMMA TiledMeansOneBlock == HeapInv => EveryUnitInOneBlock
  <1> SUFFICES ASSUME HeapInv PROVE EveryUnitInOneBlock
    OBVIOUS
  <1>1. PICK F \in SUBSET (1..HeapSize) : HeapTypes /\ Whole(F)
    BY DEF HeapInv
  <1>2. FreeBlocks = F
    BY <1>1, WalkIsList
  <1>3. /\ \A b \in F \cup blocks : /\ b \in 1..HeapSize /\ b \in Nat /\ b > 0
                                    /\ size[b] \in Nat /\ size[b] > 0 /\ b + size[b] <= HeapSize + 1
        /\ \A b, c \in F \cup blocks : b < c => b + size[b] <= c
    BY <1>1, HeapInMemory DEF Whole, Tiled, HeapTypes
  <1>4. \A b \in F \cup blocks : b > base /\ Units(b) \subseteq 1..HeapSize
    BY <1>3, HeapInMemory DEF Units
  <1>5. \A u \in 1..HeapSize : \E b \in F \cup blocks : u \in Units(b)
    <2> SUFFICES ASSUME NEW u \in 1..HeapSize PROVE \E b \in F \cup blocks : u \in Units(b)
      OBVIOUS
    <2>1. PICK b \in F \cup blocks : b <= u /\ u < b + size[b]
      BY <1>1 DEF Whole, Tiled
    <2>2. u \in Units(b)
      BY <1>3, <2>1, HeapInMemory DEF Units
    <2> QED BY <2>2
  <1>6. ASSUME NEW b \in F \cup blocks, NEW c \in F \cup blocks, b # c
        PROVE  Units(b) \cap Units(c) = {}
    <2>1. b + size[b] <= c \/ c + size[c] <= b
      BY <1>3, <1>6
    <2> QED BY <1>3, <2>1 DEF Units
  <1>7. F \cap blocks = {}
    BY <1>1 DEF Whole, Tiled
  <1> QED BY <1>2, <1>4, <1>5, <1>6, <1>7 DEF EveryUnitInOneBlock

LEMMA LinkedMeansOrdered == HeapInv => OrderedAndMerged
  <1> SUFFICES ASSUME HeapInv PROVE OrderedAndMerged
    OBVIOUS
  <1>1. PICK F \in SUBSET (1..HeapSize) : HeapTypes /\ Whole(F)
    BY DEF HeapInv
  <1>2. FreeBlocks = F /\ FreeList = Circle(F) /\ \E k \in 1..(HeapSize + 2) : After[k] = freep
    BY <1>1, WalkIsList
  <1>3. \A b \in F : next[b] = base \/ b + size[b] < next[b]
    BY <1>1 DEF Whole, Merged, FreeListOf, Linked, Circle
  <1> QED BY <1>2, <1>3 DEF OrderedAndMerged, Circle

\* No unit of the heap is lost or in two blocks, whatever is asked of the heap
\* (kmalloc, kfree).
THEOREM NoUnitIsLost == Spec => []EveryUnitInOneBlock
  BY HeapIsTiled, TiledMeansOneBlock, PTL

\* The free list stays what kfree's search for the place of a block relies on:
\* a circle through base in the order of the addresses, its neighbours merged
\* (kfree).
THEOREM FreeListIsOrdered == Spec => []OrderedAndMerged
  BY HeapIsTiled, LinkedMeansOrdered, PTL
-----------------------------------------------------------------------------
(* The ideal allocator *)

\* The abstract free units are those of the free blocks.
LEMMA FreeUnits ==
    ASSUME NEW F, HeapTypes, Whole(F), NEW u \in 1..HeapSize
    PROVE  u \in Ideal!Free <=> \E b \in F : b <= u /\ u < b + size[b]
  <1>1. /\ \A b \in F \cup blocks : b \in 1..HeapSize /\ b \in Nat /\ size[b] \in Nat /\ size[b] > 0
        /\ \A b, c \in F \cup blocks : b < c => b + size[b] <= c
        /\ F \cap blocks = {}
    BY HeapInMemory DEF Whole, Tiled, HeapTypes
  <1>2. u \in Nat
    OBVIOUS
  <1>3. u \in Ideal!Free <=> \A b \in blocks : ~(b <= u /\ u < b + size[b])
    <2>1. \A b \in blocks : u \in Ideal!Units([start |-> b, size |-> size[b]])
                                <=> b <= u /\ u < b + size[b]
      BY <1>1, <1>2 DEF Ideal!Units
    <2>2. u \in Ideal!Free
             <=> \A b \in blocks : u \notin Ideal!Units([start |-> b, size |-> size[b]])
      BY DEF Ideal!Free
    <2> QED BY <2>1, <2>2
  <1>4. PICK c \in F \cup blocks : c <= u /\ u < c + size[c]
    BY DEF Whole, Tiled
  <1>5. ASSUME NEW b \in F \cup blocks, b <= u, u < b + size[b] PROVE b = c
    <2>1. b + size[b] <= c \/ c + size[c] <= b \/ b = c
      BY <1>1, <1>4
    <2> QED BY <1>1, <1>2, <1>4, <1>5, <2>1
  <1> QED BY <1>1, <1>3, <1>4, <1>5

\* A block from among the units of a free one is one the ideal allocator may
\* grant.
LEMMA Granted ==
    ASSUME NEW F, HeapTypes, Whole(F), NEW n \in Requests, NEW p \in F, NEW start \in 1..HeapSize,
           p <= start, start + n <= p + size[p],
           blocks' = blocks \cup {start}, got' = start, size'[start] = n,
           \A b \in blocks : size'[b] = size[b]
    PROVE  Ideal!Next
  <1>1. n \in Nat /\ n > 0 /\ p \in 1..HeapSize /\ size[p] \in Nat /\ p + size[p] <= HeapSize + 1
    <2>1. p \in 1..HeapSize /\ p + size[p] <= HeapSize + 1
      BY DEF Whole, Tiled
    <2>2. p \in Memory
      BY <2>1, HeapInMemory
    <2> QED BY <2>1, <2>2, RequestsAssumption DEF HeapTypes
  <1>2. Ideal!Fits([start |-> start, size |-> n])
    <2>1. ASSUME NEW u \in start..(start + n - 1) PROVE u \in Ideal!Free
      <3>1. u \in 1..HeapSize /\ p <= u /\ u < p + size[p]
        BY <1>1, HeapSizeAssumption
      <3> QED BY <3>1, FreeUnits
    <2> QED BY <2>1 DEF Ideal!Fits, Ideal!Units
  <1>3. {[start |-> b, size |-> size'[b]] : b \in blocks'}
            = {[start |-> b, size |-> size[b]] : b \in blocks} \cup {[start |-> start, size |-> n]}
    OBVIOUS
  <1>4. Ideal!Grant(n)
    BY <1>2, <1>3 DEF Ideal!Grant
  <1> QED BY <1>4 DEF Ideal!Next

\* When no free block is large enough, no run of free units is: two free blocks
\* that touched would have been merged.
LEMMA Refused ==
    ASSUME NEW F, HeapTypes, Whole(F), NEW n \in Requests, \A b \in F : size[b] < n,
           got' = 0, UNCHANGED <<size, blocks>>
    PROVE  Ideal!Next
  <1>1. /\ \A b \in F : b \in 1..HeapSize /\ b \in Nat /\ size[b] \in Nat /\ size[b] > 0
        /\ \A b, c \in F : b < c => b + size[b] < c
        /\ n \in Nat /\ n > 0
    BY RequestsAssumption, HeapInMemory DEF Whole, Tiled, Merged, HeapTypes
  <1>2. ASSUME NEW start \in 1..HeapSize, Ideal!Fits([start |-> start, size |-> n])
        PROVE  FALSE
    <2>1. \A u \in start..(start + n - 1) : u \in 1..HeapSize /\ u \in Ideal!Free
      BY <1>2 DEF Ideal!Fits, Ideal!Units, Ideal!Free
    <2>2. \A u \in start..(start + n - 1) : \E b \in F : b <= u /\ u < b + size[b]
      BY <2>1, FreeUnits
    <2>3. start \in start..(start + n - 1)
      BY <1>1
    <2>4. PICK b \in F : b <= start /\ start < b + size[b]
      BY <2>2, <2>3
    <2>5. b \in Nat /\ size[b] \in Nat /\ size[b] < n
      BY <1>1
    <2>6. b + size[b] \in start..(start + n - 1)
      BY <1>1, <2>4, <2>5
    <2>7. PICK c \in F : c <= b + size[b] /\ b + size[b] < c + size[c]
      BY <2>2, <2>6
    <2>8. c \in Nat /\ size[c] \in Nat /\ (b < c => b + size[b] < c) /\ (c < b => c + size[c] < b)
      BY <1>1
    <2> QED BY <2>5, <2>7, <2>8
  <1>3. Ideal!Refuse(n)
    BY <1>2 DEF Ideal!Refuse
  <1> QED BY <1>3 DEF Ideal!Next

LEMMA IdealInit == Init => Ideal!Init
  BY DEF Init, Ideal!Init

LEMMA IdealStep == HeapInv /\ [Next]_heapVars => [Ideal!Next]_(Ideal!allocatorVars)
  <1> SUFFICES ASSUME HeapInv, [Next]_heapVars PROVE [Ideal!Next]_(Ideal!allocatorVars)
    OBVIOUS
  <1>1. PICK F \in SUBSET (1..HeapSize) : HeapTypes /\ Whole(F)
    BY DEF HeapInv
  <1>2. ASSUME NEW n \in Requests, kmalloc_exact(n) PROVE Ideal!Next
    <2>1. PICK p \in F : size[p] = n /\ got' = p /\ blocks' = blocks \cup {p} /\ size' = size
      BY <1>1, <1>2, ExactStep
    <2>2. p \in 1..HeapSize /\ p <= p /\ p + n <= p + size[p]
      BY <1>1, <2>1, RequestsAssumption, HeapInMemory
    <2> QED BY <1>1, <2>1, <2>2, Granted
  <1>3. ASSUME NEW n \in Requests, kmalloc_split(n) PROVE Ideal!Next
    <2>1. PICK p \in F, new \in 1..HeapSize :
              /\ HeapTypes' /\ Whole(F)'
              /\ n < size[p] /\ new + n = p + size[p] /\ new \notin F \cup blocks
              /\ got' = new /\ blocks' = blocks \cup {new}
              /\ \A b \in F \cup blocks : size'[b] = IF b = p THEN size[p] - n ELSE size[b]
              /\ size'[new] = n
      BY <1>1, <1>3, SplitStep
    <2>2. p <= new
      <3>1. n \in Nat /\ p \in Nat /\ size[p] \in Nat /\ new \in Nat
        BY <1>1, RequestsAssumption, HeapInMemory DEF HeapTypes
      <3> QED BY <2>1, <3>1
    <2>3. new + n <= p + size[p]
      <3>1. new + n \in Nat
        BY RequestsAssumption
      <3> QED BY <2>1, <3>1
    <2>4. \A b \in blocks : size'[b] = size[b]
      BY <1>1, <2>1 DEF Whole, Tiled
    <2> QED BY <1>1, <2>1, <2>2, <2>3, <2>4, Granted
  <1>4. ASSUME NEW n \in Requests, kmalloc_fails(n) PROVE Ideal!Next
    <2>1. \A b \in F : size[b] < n
      BY <1>1, <1>4, FailsStep DEF kmalloc_fails
    <2> QED BY <1>1, <1>4, <2>1, Refused DEF kmalloc_fails
  <1>5. ASSUME NEW p \in blocks, kfree(p) PROVE Ideal!Next
    <2>1. blocks' = blocks \ {p} /\ got' = got /\ \A b \in blocks \ {p} : size'[b] = size[b]
      BY <1>1, <1>5, FreeStep
    <2>2. {[start |-> b, size |-> size'[b]] : b \in blocks'}
              = {[start |-> b, size |-> size[b]] : b \in blocks} \ {[start |-> p, size |-> size[p]]}
      BY <2>1
    <2>3. [start |-> p, size |-> size[p]] \in {[start |-> b, size |-> size[b]] : b \in blocks}
      OBVIOUS
    <2> QED BY <2>1, <2>2, <2>3 DEF Ideal!Next, Ideal!GiveBack
  <1>6. CASE UNCHANGED heapVars
    <2>1. UNCHANGED Ideal!allocatorVars
      BY <1>6 DEF heapVars, Ideal!allocatorVars
    <2> QED BY <2>1
  <1> QED BY <1>2, <1>3, <1>4, <1>5, <1>6 DEF Next

\* No caller can tell kmalloc and kfree from an ideal allocator: every block
\* comes from units that are free, and a null pointer means that nowhere as many
\* units in a row are (kmalloc, kfree).
THEOREM HeapIsAnAllocator == Spec => ImplementsAllocator
  BY HeapIsTiled, IdealInit, IdealStep, PTL DEF Spec, ImplementsAllocator, Ideal!Spec
=============================================================================
