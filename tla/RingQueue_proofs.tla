-------------------------- MODULE RingQueue_proofs --------------------------
(***************************************************************************)
(* For every capacity: the invariant of the ring buffer, that it           *)
(* implements the bounded first-in first-out buffer, for strings too, and  *)
(* that strings come out whole and in order.                               *)
(***************************************************************************)
EXTENDS StringQueue, IndexLemmas, SequenceTheorems, TLAPS

-----------------------------------------------------------------------------
\* No call breaks the ring.
LEMMA RingStep == RingInv /\ [Next]_ringVars => RingInv'
  <1> SUFFICES ASSUME RingInv, [Next]_ringVars PROVE RingInv'
    OBVIOUS
  <1> USE SizeAssumption DEF RingInv, Cells
  <1>1. ASSUME NEW v \in Values, enqueue_sem(v) PROVE RingInv'
    <2>1. CASE num < Size
      <3>1. (head + num) % Size \in Cells
        BY <2>1, CellInRange
      <3>2. \A i \in 1..num' : que'[(head' + i - 1) % Size] \in Values
        <4> SUFFICES ASSUME NEW i \in 1..(num + 1)
                     PROVE  que'[(head + i - 1) % Size] \in Values
          BY <1>1, <2>1 DEF enqueue_sem
        <4>1. i - 1 \in 0..(Size - 1) /\ head + i - 1 = head + (i - 1)
          BY <2>1
        <4>2. CASE i = num + 1
          BY <4>1, <4>2, <3>1, <2>1, <1>1 DEF enqueue_sem
        <4>3. CASE i # num + 1
          <5> DEFINE k == i - 1
          <5>1. /\ k \in 0..(Size - 1) /\ num \in 0..(Size - 1) /\ k # num
                /\ head + i - 1 = head + k /\ i \in 1..num
            BY <4>1, <4>3, <2>1
          <5> HIDE DEF k
          <5>2. (head + k) % Size # (head + num) % Size
            BY <5>1, CellsDiffer
          <5>3. (head + k) % Size \in Cells
            BY <5>1, CellInRange
          <5>4. que[(head + k) % Size] \in Values
            BY <5>1
          <5>5. que'[(head + k) % Size] = que[(head + k) % Size]
            BY <5>2, <5>3, <3>1, <2>1, <1>1 DEF enqueue_sem
          <5> QED BY <5>1, <5>4, <5>5
        <4> QED BY <4>2, <4>3
      <3> QED BY <3>1, <3>2, <2>1, <1>1 DEF enqueue_sem
    <2>2. CASE ~(num < Size)
      BY <2>2, <1>1 DEF enqueue_sem
    <2> QED BY <2>1, <2>2
  <1>2. CASE dequeue_sem
    <2>1. CASE num > 0
      <3>1. (head + 1) % Size \in Cells
        BY ModOnce
      <3>2. \A i \in 1..num' : que'[(head' + i - 1) % Size] \in Values
        <4> SUFFICES ASSUME NEW i \in 1..(num - 1)
                     PROVE  que[(((head + 1) % Size) + i - 1) % Size] \in Values
          BY <1>2, <2>1 DEF dequeue_sem
        <4>1. i - 1 \in 0..(Size - 1)
          OBVIOUS
        <4>2. (((head + 1) % Size) + (i - 1)) % Size = (head + ((i - 1) + 1)) % Size
          BY <4>1, AdvanceHead
        <4>3. /\ (head + 1) % Size \in Int
              /\ ((head + 1) % Size) + i - 1 = ((head + 1) % Size) + (i - 1)
              /\ head + ((i - 1) + 1) = head + (i + 1) - 1
          BY <3>1
        <4>4. i + 1 \in 1..num
          BY <2>1
        <4> QED BY <4>2, <4>3, <4>4
      <3>3. que[head] \in Values \cup {Empty}
        OBVIOUS
      <3> QED BY <3>1, <3>2, <3>3, <2>1, <1>2 DEF dequeue_sem
    <2>2. CASE ~(num > 0)
      BY <2>2, <1>2 DEF dequeue_sem
    <2> QED BY <2>1, <2>2
  <1>3. CASE flush_queue_sem
    BY <1>3 DEF flush_queue_sem
  <1>4. CASE UNCHANGED ringVars
    BY <1>4 DEF ringVars
  <1> QED BY <1>1, <1>2, <1>3, <1>4 DEF Next

\* The invariant of the ring buffer holds for every capacity and every set of
\* values (enqueue_sem, dequeue_sem, flush_queue_sem).
THEOREM RingInvariant == Spec => []RingInv
  <1>1. Init => RingInv
    BY SizeAssumption DEF Init, RingInv, Cells
  <1> QED BY <1>1, RingStep, PTL DEF Spec

-----------------------------------------------------------------------------
\* The entries of the ring, read from the head, form a sequence of num values.
LEMMA ContentsSeq ==
    ASSUME RingInv
    PROVE  /\ Contents \in Seq(Values)
           /\ Len(Contents) = num
           /\ DOMAIN Contents = 1..num
           /\ \A i \in 1..num : Contents[i] = que[(head + i - 1) % Size]
  <1>1. num \in Nat /\ Contents \in [1..num -> Values]
    BY DEF RingInv, Contents
  <1> QED BY <1>1 DEF Contents

\* An accepted enqueue_sem appends to the contents.
LEMMA EnqueueAppends ==
    ASSUME RingInv, RingInv', NEW v \in Values, enqueue_sem(v), num < Size
    PROVE  Contents' = Append(Contents, v)
  <1>1. /\ num \in Nat /\ num' = num + 1 /\ head' = head /\ head \in 0..(Size - 1)
        /\ que' = [que EXCEPT ![(head + num) % Size] = v]
        /\ que \in [0..(Size - 1) -> Values \cup {Empty}]
    BY DEF enqueue_sem, RingInv, Cells
  <1>2. (head + num) % Size \in 0..(Size - 1)
    BY <1>1, CellInRange, SizeAssumption
  <1>3. /\ Contents \in Seq(Values) /\ Len(Contents) = num
        /\ \A i \in 1..num : Contents[i] = que[(head + i - 1) % Size]
    BY ContentsSeq
  <1>4. Contents' \in Seq(Values) /\ Len(Contents') = num + 1
    <2>1. num' \in Nat /\ Contents' \in [1..num' -> Values]
      BY DEF RingInv, Contents
    <2> QED BY <2>1, <1>1
  <1>5. \A i \in 1..(num + 1) : Contents'[i] = Append(Contents, v)[i]
    <2> SUFFICES ASSUME NEW i \in 1..(num + 1)
                 PROVE  Contents'[i] = Append(Contents, v)[i]
      OBVIOUS
    <2>1. Contents'[i] = que'[(head + i - 1) % Size]
      BY <1>1 DEF Contents
    <2>2. i - 1 \in 0..(Size - 1) /\ head + i - 1 = head + (i - 1)
      BY <1>1, SizeAssumption
    <2>3. (head + (i - 1)) % Size \in 0..(Size - 1)
      BY <2>2, <1>1, CellInRange, SizeAssumption
    <2>4. CASE i = num + 1
      BY <2>1, <2>2, <2>4, <1>1, <1>2, <1>3
    <2>5. CASE i # num + 1
      <3> DEFINE k == i - 1
      <3>1. /\ k \in 0..(Size - 1) /\ num \in 0..(Size - 1) /\ k # num
            /\ head + i - 1 = head + k /\ i \in 1..num
        BY <2>2, <2>5, <1>1, SizeAssumption
      <3>2. (head + k) % Size \in 0..(Size - 1)
        BY <2>3
      <3> HIDE DEF k
      <3>3. (head + k) % Size # (head + num) % Size
        BY <3>1, <1>1, CellsDiffer, SizeAssumption
      <3>4. que'[(head + k) % Size] = que[(head + k) % Size]
        BY <3>2, <3>3, <1>1
      <3>5. Contents'[i] = que[(head + i - 1) % Size]
        BY <2>1, <3>1, <3>4
      <3> QED BY <3>1, <3>5, <1>1, <1>3
    <2> QED BY <2>4, <2>5
  <1>6. Append(Contents, v) \in Seq(Values) /\ Len(Append(Contents, v)) = num + 1
    BY <1>3
  <1> QED BY <1>1, <1>4, <1>5, <1>6

\* A successful dequeue_sem removes the oldest entry and delivers it.
LEMMA DequeueTakesHead ==
    ASSUME RingInv, RingInv', dequeue_sem, num > 0
    PROVE  /\ Contents # <<>>
           /\ Contents' = Tail(Contents)
           /\ got' = Head(Contents)
  <1>1. /\ num \in Nat /\ num' = num - 1 /\ head' = (head + 1) % Size
        /\ head \in 0..(Size - 1) /\ que' = que /\ got' = que[head]
        /\ num <= Size
    BY DEF dequeue_sem, RingInv, Cells
  <1>2. /\ Contents \in Seq(Values) /\ Len(Contents) = num
        /\ \A i \in 1..num : Contents[i] = que[(head + i - 1) % Size]
    BY ContentsSeq
  <1>3. Contents # <<>>
    BY <1>2
  <1>4. got' = Head(Contents)
    <2>1. Head(Contents) = que[(head + 1 - 1) % Size]
      BY <1>2, <1>3
    <2>2. head + 1 - 1 = head /\ head % Size = head
      BY <1>1, ModOnce, SizeAssumption
    <2> QED BY <2>1, <2>2, <1>1
  <1>5. Contents' \in Seq(Values) /\ Len(Contents') = num - 1
    <2>1. num' \in Nat /\ Contents' \in [1..num' -> Values]
      BY DEF RingInv, Contents
    <2> QED BY <2>1, <1>1
  <1>6. /\ Tail(Contents) \in Seq(Values)
        /\ Len(Tail(Contents)) = num - 1
        /\ \A i \in 1..(num - 1) : Tail(Contents)[i] = Contents[i + 1]
    BY <1>2, <1>3
  <1>7. \A i \in 1..(num - 1) : Contents'[i] = Contents[i + 1]
    <2> SUFFICES ASSUME NEW i \in 1..(num - 1) PROVE Contents'[i] = Contents[i + 1]
      OBVIOUS
    <2>1. Contents'[i] = que[(((head + 1) % Size) + i - 1) % Size]
      BY <1>1 DEF Contents
    <2>2. i - 1 \in 0..(Size - 1)
      BY <1>1, SizeAssumption
    <2>3. (((head + 1) % Size) + (i - 1)) % Size = (head + ((i - 1) + 1)) % Size
      BY <2>2, <1>1, AdvanceHead, SizeAssumption
    <2>4. (head + 1) % Size \in Int
      BY <1>1, SizeAssumption
    <2>5. /\ ((head + 1) % Size) + i - 1 = ((head + 1) % Size) + (i - 1)
          /\ head + ((i - 1) + 1) = head + (i + 1) - 1
          /\ i + 1 \in 1..num
      BY <2>4, <1>1
    <2> QED BY <2>1, <2>3, <2>5, <1>2
  <1> QED BY <1>1, <1>3, <1>4, <1>5, <1>6, <1>7

\* For every capacity the ring buffer implements the bounded first-in
\* first-out buffer, the order of the threads waiting on a semaphore included
\* (enqueue_sem, dequeue_sem).
THEOREM RingImplementsFifo == Spec => ImplementsFifo
  <1>1. Init => Fifo!Init
    <2>1. SUFFICES ASSUME Init PROVE Contents = <<>>
      BY DEF Init, Fifo!Init
    <2>2. Contents \in Seq(Values \cup {Empty}) /\ Len(Contents) = 0
      BY <2>1 DEF Init, Contents
    <2> QED BY <2>2
  <1>2. RingInv /\ RingInv' /\ [Next]_ringVars => [Fifo!Next]_(Fifo!fifoVars)
    <2> SUFFICES ASSUME RingInv, RingInv', [Next]_ringVars
                 PROVE  Fifo!Next \/ UNCHANGED Fifo!fifoVars
      OBVIOUS
    <2>0. Contents \in Seq(Values) /\ Len(Contents) = num /\ num \in 0..Size
      BY ContentsSeq DEF RingInv
    <2>1. ASSUME NEW v \in Values, enqueue_sem(v) PROVE Fifo!Put(v)
      <3>1. CASE num < Size
        <4>1. Contents' = Append(Contents, v)
          BY <2>1, <3>1, EnqueueAppends
        <4> QED BY <4>1, <3>1, <2>0, <2>1 DEF enqueue_sem, Fifo!Put
      <3>2. CASE ~(num < Size)
        <4>1. Contents' = Contents
          BY <3>2, <2>1 DEF enqueue_sem, Contents
        <4> QED BY <4>1, <3>2, <2>0, <2>1 DEF enqueue_sem, Fifo!Put
      <3> QED BY <3>1, <3>2
    <2>2. CASE dequeue_sem
      <3>1. CASE num > 0
        <4>1. Contents # <<>> /\ Contents' = Tail(Contents) /\ got' = Head(Contents)
          BY <2>2, <3>1, DequeueTakesHead
        <4> QED BY <4>1, <3>1, <2>2 DEF dequeue_sem, Fifo!Take, Fifo!Next
      <3>2. CASE ~(num > 0)
        <4>1. Contents' = Contents
          BY <3>2, <2>2 DEF dequeue_sem, Contents
        <4>2. Contents = <<>>
          BY <3>2, <2>0
        <4> QED BY <4>1, <4>2, <3>2, <2>2 DEF dequeue_sem, Fifo!Take, Fifo!Next
      <3> QED BY <3>1, <3>2
    <2>3. CASE flush_queue_sem
      <3>1. Contents' \in Seq(Values) /\ Len(Contents') = 0
        <4>1. num' = 0 /\ Contents' \in [1..num' -> Values]
          BY <2>3 DEF RingInv, Contents, flush_queue_sem
        <4> QED BY <4>1
      <3>2. Contents' = <<>>
        BY <3>1
      <3> QED BY <3>2, <2>3 DEF flush_queue_sem, Fifo!Clear, Fifo!Next
    <2>4. CASE UNCHANGED ringVars
      BY <2>4 DEF ringVars, Contents, Fifo!fifoVars
    <2> QED BY <2>1, <2>2, <2>3, <2>4 DEF Next, Fifo!Next
  <1> QED BY <1>1, <1>2, RingInvariant, PTL DEF Spec, ImplementsFifo, Fifo!Spec

-----------------------------------------------------------------------------
(* The string calls *)

\* What enqueue_str has still to put in, while it is under way.
LeftInv == left \in Seq(Values) /\ (op = "enqueue" => left # <<>>)

LEMMA CharacterStep == LeftInv /\ [StringNext]_stringVars => LeftInv' /\ [Next]_ringVars
  <1> SUFFICES ASSUME LeftInv, [StringNext]_stringVars PROVE LeftInv' /\ [Next]_ringVars
    OBVIOUS
  <1>1. CASE Characters
    BY <1>1 DEF Characters, callVars, LeftInv, Next
  <1>2. ASSUME NEW s \in Strings, enqueue_str(s) PROVE LeftInv' /\ UNCHANGED ringVars
    <2>1. s \in Seq(Values) /\ Nul \in Values
      <3>1. s \in Seq(Values \ {Nul}) /\ Nul \in Values
        BY StringsAssumption, NulAssumption
      <3> QED BY <3>1
    <2>2. Append(s, Nul) \in Seq(Values) /\ Append(s, Nul) # <<>>
      <3>1. Append(s, Nul) \in Seq(Values) /\ Len(Append(s, Nul)) = Len(s) + 1 /\ Len(s) \in Nat
        BY <2>1
      <3> QED BY <3>1
    <2> QED BY <1>2, <2>2 DEF enqueue_str, LeftInv
  <1>3. CASE puts_char
    <2>1. left # <<>> /\ Head(left) \in Values /\ Tail(left) \in Seq(Values)
      BY <1>3 DEF puts_char, LeftInv
    <2>2. left' = Tail(left) /\ (op' = "enqueue" => left' # <<>>)
      BY <1>3 DEF puts_char
    <2>3. enqueue_sem(Head(left))
      BY <1>3 DEF puts_char
    <2> QED BY <2>1, <2>2, <2>3 DEF LeftInv, Next
  <1>4. CASE dequeue_str
    BY <1>4 DEF dequeue_str, LeftInv
  <1>5. CASE skips_zero \/ reads_char
    BY <1>5 DEF skips_zero, reads_char, callVars, LeftInv, Next
  <1>6. CASE finds_text
    BY <1>6 DEF finds_text, LeftInv
  <1>7. CASE UNCHANGED stringVars
    BY <1>7 DEF stringVars, callVars, LeftInv
  <1> QED BY <1>1, <1>2, <1>3, <1>4, <1>5, <1>6, <1>7 DEF StringNext, StringCall

\* enqueue_str and dequeue_str, interrupted wherever they may be and mixed with
\* calls for single characters, do nothing to the ring that calls for single
\* characters do not: what is proved of those holds of strings too (enqueue_str,
\* dequeue_str).
THEOREM StringsAreCharacters == StringSpec => Spec
  <1>1. StringInit => Init /\ LeftInv
    BY DEF StringInit, LeftInv
  <1> QED BY <1>1, CharacterStep, PTL DEF StringSpec, Spec
-----------------------------------------------------------------------------
(* Whole strings *)

\* How much of str is in the queue.
Held == IF op = "enqueue" THEN Len(str) + 1 - Len(left) ELSE 0

\* The string due[j] begins at pos[j], counted from the head, and there lies its
\* terminator.
Ends(pos, j) == pos[j] + Len(due[j])

\* pos is where the strings that are due lie in the queue: one behind the other,
\* each with its terminator and nothing but terminators between them.  The first
\* begins before the head when a part of it has been read.
Laid(pos) ==
    /\ \A j \in 1..Len(due) :
          /\ Ends(pos, j) \in 1..(num - Held) /\ Contents[Ends(pos, j)] = Nul
          /\ \A k \in 1..Len(due[j]) : pos[j] + k - 1 >= 1 => Contents[pos[j] + k - 1] = due[j][k]
          /\ op # "read" => pos[j] >= 1
    /\ \A i, j \in 1..Len(due) : i < j => Ends(pos, i) < pos[j]
    /\ \A i \in 1..(num - Held) :
          Contents[i] = Nul \/ \E j \in 1..Len(due) : pos[j] <= i /\ i < Ends(pos, j)

\* buf is what has been read of the first string, or there is none to read.
Reading(pos) ==
    \/ due = <<>> /\ buf = <<>> /\ num = 0
    \/ /\ due # <<>> /\ pos[1] = 1 - Len(buf) /\ Len(buf) <= Len(due[1])
       /\ \A k \in 1..Len(buf) : buf[k] = due[1][k]

\* The queue ends with what enqueue_str has put in.
Putting ==
    /\ Held \in 0..Len(str) /\ Held <= num
    /\ \A k \in 1..Len(left) : left[k] = IF Held + k <= Len(str) THEN str[Held + k] ELSE Nul
    /\ \A k \in 1..Held : Contents[num - Held + k] = str[k]

CallTypes ==
    /\ op \in {"none", "enqueue", "skip", "read"}
    /\ str \in Seq(Values \ {Nul}) /\ left \in Seq(Values) /\ buf \in Seq(Values)
    /\ due \in Seq(Seq(Values \ {Nul}) \ {<<>>})
    /\ cut \in BOOLEAN
    /\ op = "enqueue" => left # <<>>
    /\ op = "skip" => buf = <<>>

Whole(pos) ==
    /\ Laid(pos)
    /\ op = "read" => Reading(pos)
    /\ op = "enqueue" => Putting

StringInv == RingInv /\ CallTypes /\ (~cut => \E pos \in [1..Len(due) -> Int] : Whole(pos))

LEMMA HeldIsNumber == CallTypes => Held \in Int
  BY DEF CallTypes, Held

LEMMA DueLengths ==
    CallTypes => /\ Len(due) \in Nat
                 /\ \A j \in 1..Len(due) : Len(due[j]) \in Nat /\ Len(due[j]) > 0
  <1> SUFFICES ASSUME CallTypes
               PROVE  /\ Len(due) \in Nat
                      /\ \A j \in 1..Len(due) : Len(due[j]) \in Nat /\ Len(due[j]) > 0
    OBVIOUS
  <1>1. due \in Seq(Seq(Values \ {Nul}) \ {<<>>})
    BY DEF CallTypes
  <1>2. Len(due) \in Nat /\ \A j \in 1..Len(due) : due[j] \in Seq(Values \ {Nul}) /\ due[j] # <<>>
    BY <1>1
  <1> QED BY <1>2

\* A character that enqueue_sem takes comes behind the others.
LEMMA CharacterIn ==
    ASSUME RingInv, RingInv', NEW v \in Values, enqueue_sem(v), num < Size
    PROVE  /\ num' = num + 1 /\ num \in Nat
           /\ \A i \in 1..num : Contents'[i] = Contents[i]
           /\ Contents'[num + 1] = v
  <1>1. Contents' = Append(Contents, v) /\ Contents \in Seq(Values) /\ Len(Contents) = num
    BY EnqueueAppends, ContentsSeq
  <1>2. num' = num + 1 /\ num \in Nat
    BY DEF enqueue_sem, RingInv
  <1> QED BY <1>1, <1>2

\* The character that dequeue_sem delivers is the first, and the others move up.
LEMMA CharacterOut ==
    ASSUME RingInv, RingInv', dequeue_sem, num > 0
    PROVE  /\ num' = num - 1 /\ num \in Nat
           /\ got' = Contents[1] /\ got' \in Values
           /\ \A i \in 1..(num - 1) : Contents'[i] = Contents[i + 1]
  <1>1. /\ Contents # <<>> /\ Contents' = Tail(Contents) /\ got' = Head(Contents)
        /\ Contents \in Seq(Values) /\ Len(Contents) = num
    BY DequeueTakesHead, ContentsSeq
  <1>2. num' = num - 1 /\ num \in Nat
    BY DEF dequeue_sem, RingInv
  <1> QED BY <1>1, <1>2

\* The cell at the head is the first character.
LEMMA HeadIsFirst ==
    ASSUME RingInv, num > 0
    PROVE  queue_char_head = Contents[1] /\ queue_char_head \in Values
  <1>1. num \in Nat /\ head \in 0..(Size - 1) /\ 1 \in 1..num /\ head + 1 - 1 = head
    BY DEF RingInv, Cells
  <1>2. Contents[1] = que[(head + 1 - 1) % Size] /\ que[(head + 1 - 1) % Size] \in Values
    BY <1>1, ContentsSeq DEF RingInv
  <1>3. head % Size = head
    BY <1>1, ModOnce, SizeAssumption
  <1> QED BY <1>1, <1>2, <1>3 DEF queue_char_head

\* Where the strings lie does not change as long as what is in front of the
\* string under way does not, or gets one more terminator.
LEMMA LaidKept ==
    ASSUME NEW pos, Laid(pos), due' = due,
           \/ num' - Held' = num - Held
           \/ num' - Held' = num - Held + 1 /\ Contents'[num - Held + 1] = Nul,
           \A i \in 1..(num - Held) : Contents'[i] = Contents[i],
           op' # "read" => op # "read",
           CallTypes, num \in Nat, pos \in [1..Len(due) -> Int]
    PROVE  Laid(pos)'
  <1>1. PICK m \in Int : m = num - Held
    BY HeldIsNumber
  <1>2. \A i \in 1..m : Contents'[i] = Contents[i]
    BY <1>1
  <1>3. due \in Seq(Seq(Values \ {Nul}) \ {<<>>})
    BY DEF CallTypes
  <1>4. \A j \in 1..Len(due) : Len(due[j]) \in Nat /\ pos[j] \in Int
    BY <1>3
  <1>5. ASSUME NEW j \in 1..Len(due)
        PROVE  /\ Ends(pos, j)' = Ends(pos, j)
               /\ Ends(pos, j)' \in 1..m /\ Contents'[Ends(pos, j)'] = Nul
               /\ \A k \in 1..Len(due[j]) : pos[j] + k - 1 >= 1 => Contents'[pos[j] + k - 1] = due[j][k]
               /\ op' # "read" => pos[j] >= 1
    <2>1. /\ Ends(pos, j) \in 1..m /\ Contents[Ends(pos, j)] = Nul
          /\ \A k \in 1..Len(due[j]) : pos[j] + k - 1 >= 1 => Contents[pos[j] + k - 1] = due[j][k]
          /\ op # "read" => pos[j] >= 1
      BY <1>1 DEF Laid
    <2>2. Ends(pos, j)' = Ends(pos, j)
      BY DEF Ends
    <2>3. \A k \in 1..Len(due[j]) : pos[j] + k - 1 >= 1 => pos[j] + k - 1 \in 1..m
      BY <1>1, <1>4, <2>1 DEF Ends
    <2> QED BY <1>2, <2>1, <2>2, <2>3
  <1>6. \A i, j \in 1..Len(due) : i < j => Ends(pos, i) < pos[j]
    BY DEF Laid
  <1>7. \A i \in 1..m :
            Contents[i] = Nul \/ \E j \in 1..Len(due) : pos[j] <= i /\ i < Ends(pos, j)
    BY <1>1 DEF Laid
  <1>8. PICK w \in Int : w = num' - Held' /\ (w = m \/ (w = m + 1 /\ Contents'[w] = Nul))
    BY <1>1
  <1>9. ASSUME NEW j \in 1..Len(due) PROVE Ends(pos, j)' \in 1..w
    BY <1>5, <1>8
  <1>10. ASSUME NEW i \in 1..w
         PROVE  Contents'[i] = Nul \/ \E j \in 1..Len(due) : pos[j] <= i /\ i < Ends(pos, j)'
    <2>1. CASE i \in 1..m
      BY <1>2, <1>5, <1>7, <2>1
    <2>2. CASE i \notin 1..m
      BY <1>8, <2>2
    <2> QED BY <2>1, <2>2
  <1> QED BY <1>5, <1>6, <1>8, <1>9, <1>10 DEF Laid

\* When the first character is taken that is no terminator of a string, the
\* strings move up.
LEMMA LaidShift ==
    ASSUME NEW pos \in [1..Len(due) -> Int], Laid(pos), CallTypes, RingInv, num > 0,
           due' = due, Held = 0, Held' = 0, num' = num - 1,
           \A i \in 1..(num - 1) : Contents'[i] = Contents[i + 1],
           \A j \in 1..Len(due) : Ends(pos, j) # 1 /\ (op' # "read" => pos[j] > 1)
    PROVE  \E new \in [1..Len(due) -> Int] :
               Laid(new)' /\ \A j \in 1..Len(due) : new[j] = pos[j] - 1
  <1>1. PICK new \in [1..Len(due) -> Int] : \A j \in 1..Len(due) : new[j] = pos[j] - 1
    <2>1. [j \in 1..Len(due) |-> pos[j] - 1] \in [1..Len(due) -> Int]
      OBVIOUS
    <2> QED BY <2>1
  <1>2. num \in Nat /\ num' = num - 1 /\ num > 0
    BY DEF RingInv
  <1>3. \A j \in 1..Len(due) : /\ Len(due[j]) \in Nat /\ pos[j] \in Int /\ new[j] = pos[j] - 1
                               /\ Ends(new, j)' = new[j] + Len(due[j])
                               /\ Ends(pos, j) = pos[j] + Len(due[j])
                               /\ Ends(pos, j) \in Int /\ new[j] \in Int
    BY <1>1, DueLengths DEF Ends
  <1>4. ASSUME NEW j \in 1..Len(due)
        PROVE  /\ Ends(new, j)' \in 1..(num' - Held') /\ Contents'[Ends(new, j)'] = Nul
               /\ \A k \in 1..Len(due[j]) : new[j] + k - 1 >= 1 => Contents'[new[j] + k - 1] = due[j][k]
               /\ op' # "read" => new[j] >= 1
    <2>1. /\ Ends(pos, j) \in 1..num /\ Contents[Ends(pos, j)] = Nul
          /\ \A k \in 1..Len(due[j]) : pos[j] + k - 1 >= 1 => Contents[pos[j] + k - 1] = due[j][k]
      BY <1>2 DEF Laid
    <2>0. /\ Len(due[j]) \in Nat /\ pos[j] \in Int /\ new[j] = pos[j] - 1
          /\ Ends(new, j)' = new[j] + Len(due[j]) /\ Ends(pos, j) = pos[j] + Len(due[j])
          /\ Ends(pos, j) # 1
      BY <1>3
    <2>2. PICK e \in 1..(num - 1) : e = Ends(new, j)' /\ e + 1 = Ends(pos, j)
      <3>1. new[j] + Len(due[j]) \in 1..(num - 1) /\ new[j] + Len(due[j]) + 1 = Ends(pos, j)
        <4>1. PICK x \in Int, l \in Nat, n \in Nat : x = pos[j] /\ l = Len(due[j]) /\ n = num
          BY <1>2, <2>0
        <4>2. x + l \in 1..n /\ x + l # 1
          BY <2>0, <2>1, <4>1
        <4>3. (x - 1) + l \in 1..(n - 1) /\ (x - 1) + l + 1 = x + l
          BY ONLY <4>2, x \in Int, l \in Nat, n \in Nat
        <4> QED BY <2>0, <4>1, <4>3
      <3> QED BY <2>0, <3>1
    <2>3. Contents'[Ends(new, j)'] = Nul
      BY <2>1, <2>2
    <2>4. ASSUME NEW k \in 1..Len(due[j]), new[j] + k - 1 >= 1
          PROVE  Contents'[new[j] + k - 1] = due[j][k]
      <3>1. /\ new[j] + k - 1 \in 1..(num - 1) /\ (new[j] + k - 1) + 1 = pos[j] + k - 1
            /\ pos[j] + k - 1 >= 1
        <4>1. PICK x \in Int, l \in Nat, n \in Nat : x = pos[j] /\ l = Len(due[j]) /\ n = num
          BY <1>2, <2>0
        <4>2. x + l \in 1..n /\ k \in 1..l /\ (x - 1) + k - 1 >= 1
          BY <2>0, <2>1, <2>4, <4>1
        <4>3. (x - 1) + k - 1 \in 1..(n - 1) /\ ((x - 1) + k - 1) + 1 = x + k - 1 /\ x + k - 1 >= 1
          BY ONLY <4>2, x \in Int, l \in Nat, n \in Nat, k \in 1..l
        <4> QED BY <2>0, <4>1, <4>3
      <3> QED BY <2>1, <3>1
    <2>5. op' # "read" => new[j] >= 1
      BY <2>0
    <2> QED BY <1>2, <2>2, <2>3, <2>4, <2>5
  <1>5. ASSUME NEW i \in 1..Len(due), NEW j \in 1..Len(due), i < j PROVE Ends(new, i)' < new[j]
    <2>1. Ends(pos, i) < pos[j]
      BY <1>5 DEF Laid
    <2>2. PICK x \in Int, l \in Nat, y \in Int :
              /\ x = pos[i] /\ l = Len(due[i]) /\ y = pos[j]
              /\ Ends(new, i)' = (x - 1) + l /\ Ends(pos, i) = x + l /\ new[j] = y - 1
      <3>1. /\ pos[i] \in Int /\ Len(due[i]) \in Nat /\ new[i] = pos[i] - 1
            /\ Ends(new, i)' = new[i] + Len(due[i]) /\ Ends(pos, i) = pos[i] + Len(due[i])
        BY <1>3
      <3>2. pos[j] \in Int /\ new[j] = pos[j] - 1
        BY <1>3
      <3> QED BY ONLY <3>1, <3>2
    <2>3. x + l < y
      BY <2>1, <2>2
    <2>4. (x - 1) + l < y - 1
      BY ONLY <2>3, x \in Int, l \in Nat, y \in Int
    <2> QED BY <2>2, <2>4
  <1>6. ASSUME NEW i \in 1..(num' - Held')
        PROVE  Contents'[i] = Nul \/ \E j \in 1..Len(due) : new[j] <= i /\ i < Ends(new, j)'
    <2>1. i \in 1..(num - 1) /\ i + 1 \in 1..(num - Held)
      BY <1>2
    <2>2. Contents[i + 1] = Nul \/ \E j \in 1..Len(due) : pos[j] <= i + 1 /\ i + 1 < Ends(pos, j)
      BY <2>1 DEF Laid
    <2>3. ASSUME NEW j \in 1..Len(due), pos[j] <= i + 1, i + 1 < Ends(pos, j)
          PROVE  new[j] <= i /\ i < Ends(new, j)'
      <3>1. /\ Len(due[j]) \in Nat /\ pos[j] \in Int /\ new[j] = pos[j] - 1
            /\ Ends(new, j)' = new[j] + Len(due[j]) /\ Ends(pos, j) = pos[j] + Len(due[j])
        BY <1>3
      <3> QED BY <2>1, <2>3, <3>1
    <2> QED BY <2>1, <2>2, <2>3
  <1>7. Laid(new)'
    BY <1>4, <1>5, <1>6 DEF Laid
  <1> QED BY <1>1, <1>7

\* When the terminator of the first string is taken, or its only character, the
\* strings behind it move up.
LEMMA LaidFirstOut ==
    ASSUME NEW pos \in [1..Len(due) -> Int], Laid(pos), CallTypes, RingInv, num > 0,
           due # <<>>, Ends(pos, 1) \in 1..2,
           due' = Tail(due), Held = 0, Held' = 0, num' = num - 1,
           \A i \in 1..(num - 1) : Contents'[i] = Contents[i + 1]
    PROVE  \E new \in [1..Len(due') -> Int] : Laid(new)'
  <1>1. /\ Len(due) \in Nat /\ Len(due) > 0 /\ Len(due') = Len(due) - 1
        /\ \A j \in 1..Len(due') : j + 1 \in 1..Len(due) /\ due'[j] = due[j + 1]
    BY DEF CallTypes
  <1>2. PICK new \in [1..Len(due') -> Int] : \A j \in 1..Len(due') : new[j] = pos[j + 1] - 1
    <2>1. [j \in 1..Len(due') |-> pos[j + 1] - 1] \in [1..Len(due') -> Int]
      BY <1>1
    <2> QED BY <2>1
  <1>3. num \in Nat /\ num' = num - 1 /\ num > 0
    BY DEF RingInv
  <1>4. \A j \in 1..Len(due) : /\ Len(due[j]) \in Nat /\ Len(due[j]) > 0 /\ pos[j] \in Int
                               /\ Ends(pos, j) = pos[j] + Len(due[j])
                               /\ Ends(pos, j) \in Int
    BY DueLengths DEF Ends
  <1>5. \A j \in 1..Len(due') : /\ new[j] = pos[j + 1] - 1
                                /\ Ends(new, j)' = new[j] + Len(due[j + 1])
                                /\ pos[j + 1] > 1
    <2> SUFFICES ASSUME NEW j \in 1..Len(due')
                 PROVE  /\ new[j] = pos[j + 1] - 1
                        /\ Ends(new, j)' = new[j] + Len(due[j + 1])
                        /\ pos[j + 1] > 1
      OBVIOUS
    <2>1. Ends(pos, 1) < pos[j + 1]
      <3>1. 1 \in 1..Len(due) /\ j + 1 \in 1..Len(due) /\ 1 < j + 1
        BY <1>1
      <3> QED BY <3>1 DEF Laid
    <2> QED BY <1>1, <1>2, <1>4, <2>1 DEF Ends
  <1>6. ASSUME NEW j \in 1..Len(due')
        PROVE  /\ Ends(new, j)' \in 1..(num' - Held') /\ Contents'[Ends(new, j)'] = Nul
               /\ \A k \in 1..Len(due'[j]) :
                     new[j] + k - 1 >= 1 => Contents'[new[j] + k - 1] = due'[j][k]
               /\ new[j] >= 1
    <2>0. PICK h \in 1..Len(due) : h = j + 1 /\ due'[j] = due[h]
      BY <1>1
    <2>1. /\ Ends(pos, h) \in 1..num /\ Contents[Ends(pos, h)] = Nul
          /\ \A k \in 1..Len(due[h]) : pos[h] + k - 1 >= 1 => Contents[pos[h] + k - 1] = due[h][k]
      BY <1>3 DEF Laid
    <2>2. /\ new[j] = pos[h] - 1 /\ pos[h] \in Int /\ Len(due[h]) \in Nat /\ new[j] >= 1
          /\ Ends(new, j)' = new[j] + Len(due[h]) /\ Ends(pos, h) = pos[h] + Len(due[h])
      BY <1>4, <1>5, <2>0
    <2>3. PICK e \in 1..(num - 1) : e = Ends(new, j)' /\ e + 1 = Ends(pos, h)
      <3>1. new[j] + Len(due[h]) \in 1..(num - 1) /\ new[j] + Len(due[h]) + 1 = Ends(pos, h)
        <4>1. PICK x \in Int, l \in Nat, n \in Nat : x = pos[h] /\ l = Len(due[h]) /\ n = num
          BY <1>3, <2>2
        <4>2. x + l \in 1..n /\ x - 1 >= 1
          BY <2>1, <2>2, <4>1
        <4>3. (x - 1) + l \in 1..(n - 1) /\ (x - 1) + l + 1 = x + l
          BY ONLY <4>2, x \in Int, l \in Nat, n \in Nat
        <4> QED BY <2>2, <4>1, <4>3
      <3> QED BY <2>2, <3>1
    <2>4. Contents'[Ends(new, j)'] = Nul
      BY <2>1, <2>2, <2>3
    <2>5. ASSUME NEW k \in 1..Len(due[h]) PROVE Contents'[new[j] + k - 1] = due[h][k]
      <3>1. /\ new[j] + k - 1 \in 1..(num - 1) /\ (new[j] + k - 1) + 1 = pos[h] + k - 1
            /\ pos[h] + k - 1 >= 1
        <4>1. PICK x \in Int, l \in Nat, n \in Nat : x = pos[h] /\ l = Len(due[h]) /\ n = num
          BY <1>3, <2>2
        <4>2. x + l \in 1..n /\ x - 1 >= 1 /\ k \in 1..l
          BY <2>1, <2>2, <4>1
        <4>3. (x - 1) + k - 1 \in 1..(n - 1) /\ ((x - 1) + k - 1) + 1 = x + k - 1 /\ x + k - 1 >= 1
          BY ONLY <4>2, x \in Int, l \in Nat, n \in Nat, k \in 1..l
        <4> QED BY <2>2, <4>1, <4>3
      <3> QED BY <2>1, <3>1
    <2> QED BY <1>3, <2>0, <2>2, <2>3, <2>4, <2>5
  <1>7. ASSUME NEW i \in 1..Len(due'), NEW j \in 1..Len(due'), i < j PROVE Ends(new, i)' < new[j]
    <2>1. i + 1 \in 1..Len(due) /\ j + 1 \in 1..Len(due) /\ i + 1 < j + 1
      BY <1>1, <1>7
    <2>2. Ends(pos, i + 1) < pos[j + 1]
      BY <2>1 DEF Laid
    <2>3. PICK g \in 1..Len(due) : g = i + 1
      BY <2>1
    <2>4. /\ new[j] = pos[j + 1] - 1 /\ pos[j + 1] \in Int
          /\ Ends(new, i)' = (pos[g] - 1) + Len(due[g]) /\ Ends(pos, g) = pos[g] + Len(due[g])
          /\ pos[g] \in Int /\ Len(due[g]) \in Nat
      BY <1>4, <1>5, <2>1, <2>3
    <2>5. PICK x \in Int, l \in Nat, y \in Int : x = pos[g] /\ l = Len(due[g]) /\ y = pos[j + 1]
      BY <2>4
    <2>6. x + l < y
      BY <2>2, <2>3, <2>4, <2>5
    <2>7. (x - 1) + l < y - 1
      BY ONLY <2>6, x \in Int, l \in Nat, y \in Int
    <2> QED BY <2>4, <2>5, <2>7
  <1>8. ASSUME NEW i \in 1..(num' - Held')
        PROVE  Contents'[i] = Nul \/ \E j \in 1..Len(due') : new[j] <= i /\ i < Ends(new, j)'
    <2>1. i \in 1..(num - 1) /\ i + 1 \in 1..(num - Held)
      BY <1>3
    <2>2. CASE Contents[i + 1] = Nul
      BY <2>1, <2>2
    <2>3. CASE \E j \in 1..Len(due) : pos[j] <= i + 1 /\ i + 1 < Ends(pos, j)
      <3>1. PICK j \in 1..Len(due) : pos[j] <= i + 1 /\ i + 1 < Ends(pos, j)
        BY <2>3
      <3>2. j # 1
        BY <2>1, <3>1
      <3>3. PICK h \in 1..Len(due') : h + 1 = j
        <4>1. j - 1 \in 1..Len(due') /\ (j - 1) + 1 = j
          BY <1>1, <3>2
        <4> QED BY <4>1
      <3>4. new[h] <= i /\ i < Ends(new, h)'
        <4>1. /\ new[h] = pos[j] - 1 /\ pos[j] \in Int /\ Len(due[j]) \in Nat
              /\ Ends(new, h)' = new[h] + Len(due[j]) /\ Ends(pos, j) = pos[j] + Len(due[j])
          BY <1>4, <1>5, <3>3
        <4>2. PICK x \in Int, l \in Nat, m \in Nat : x = pos[j] /\ l = Len(due[j]) /\ m = i
          BY <2>1, <4>1
        <4>3. x <= m + 1 /\ m + 1 < x + l
          BY <3>1, <4>1, <4>2
        <4>4. x - 1 <= m /\ m < (x - 1) + l
          BY ONLY <4>3, x \in Int, l \in Nat, m \in Nat
        <4> QED BY <4>1, <4>2, <4>4
      <3> QED BY <3>4
    <2> QED BY <2>1, <2>2, <2>3 DEF Laid
  <1>9. Laid(new)'
    BY <1>6, <1>7, <1>8 DEF Laid
  <1> QED BY <1>9

\* Strings of which the first is without its first character.
LEMMA WithoutFirst ==
    ASSUME NEW S, NEW s \in Seq(Seq(S) \ {<<>>}), s # <<>>, Len(s[1]) > 1,
           NEW t, t = <<Tail(s[1])>> \o Tail(s)
    PROVE  /\ t \in Seq(Seq(S) \ {<<>>}) /\ Len(t) = Len(s)
           /\ Len(t[1]) = Len(s[1]) - 1
           /\ \A k \in 1..(Len(s[1]) - 1) : t[1][k] = s[1][k + 1]
           /\ \A j \in 2..Len(s) : t[j] = s[j]
  <1> DEFINE T == Seq(S) \ {<<>>}
  <1>1. Len(s) \in Nat /\ Len(s) > 0 /\ s[1] \in Seq(S) /\ s[1] # <<>>
    <2>1. Len(s) \in Nat \ {0}
      BY EmptySeq
    <2>2. 1 \in 1..Len(s)
      BY <2>1
    <2>3. s[1] \in Seq(S) \ {<<>>}
      BY <2>1, <2>2, LenProperties
    <2> QED BY <2>1, <2>3
  <1>2. /\ Tail(s[1]) \in Seq(S) /\ Len(Tail(s[1])) = Len(s[1]) - 1
        /\ \A k \in 1..Len(Tail(s[1])) : Tail(s[1])[k] = s[1][k + 1]
    BY <1>1, HeadTailProperties
  <1>3. Tail(s[1]) # <<>>
    <2>1. Len(s[1]) - 1 # 0
      OBVIOUS
    <2> QED BY <1>2, <2>1, EmptySeq
  <1> DEFINE one == <<Tail(s[1])>>
             more == Tail(s)
  <1>4. one \in Seq(T) /\ Len(one) = 1 /\ one[1] = Tail(s[1])
    BY <1>2, <1>3
  <1>5. /\ more \in Seq(T) /\ Len(more) = Len(s) - 1
        /\ \A i \in 1..Len(more) : more[i] = s[i + 1]
    BY HeadTailProperties
  <1>6. t = one \o more
    OBVIOUS
  <1> HIDE DEF one, more
  <1>7. /\ t \in Seq(T) /\ Len(t) = 1 + Len(more)
        /\ \A i \in 1..(1 + Len(more)) : t[i] = IF i <= 1 THEN one[i] ELSE more[i - 1]
    <2> HIDE DEF T
    <2>0. one \in Seq(T) /\ more \in Seq(T)
      BY <1>4, <1>5
    <2>1. /\ one \o more \in Seq(T) /\ Len(one \o more) = Len(one) + Len(more)
          /\ \A i \in 1..(Len(one) + Len(more)) : (one \o more)[i] =
                 IF i <= Len(one) THEN one[i] ELSE more[i - Len(one)]
      BY ONLY <2>0, ConcatProperties, Zenon
    <2> QED BY <1>4, <1>6, <2>1
  <1>8. t[1] = Tail(s[1])
    BY <1>1, <1>4, <1>5, <1>7
  <1>9. ASSUME NEW j \in 2..Len(s) PROVE t[j] = s[j]
    <2>1. j \in 1..(1 + Len(more)) /\ ~(j <= 1) /\ j - 1 \in 1..Len(more) /\ (j - 1) + 1 = j
      BY <1>1, <1>5
    <2> QED BY <1>5, <1>7, <2>1
  <1>10. Len(t) = Len(s)
    BY <1>1, <1>5, <1>7
  <1>11. /\ Len(t[1]) = Len(s[1]) - 1
         /\ \A k \in 1..(Len(s[1]) - 1) : t[1][k] = s[1][k + 1]
    BY <1>2, <1>8, Zenon
  <1> QED BY <1>7, <1>9, <1>10, <1>11, Zenon

\* When the first of several characters of a string is taken, the rest of it is
\* where the whole was.
LEMMA LaidShortened ==
    ASSUME NEW pos \in [1..Len(due) -> Int], Laid(pos), CallTypes, RingInv, num > 0,
           due # <<>>, pos[1] = 1, Len(due[1]) > 1,
           due' = <<Tail(due[1])>> \o Tail(due), Held = 0, Held' = 0, num' = num - 1,
           \A i \in 1..(num - 1) : Contents'[i] = Contents[i + 1],
           op # "read"
    PROVE  \E new \in [1..Len(due') -> Int] : Laid(new)'
  <1>1. due \in Seq(Seq(Values \ {Nul}) \ {<<>>}) /\ Len(due) \in Nat /\ 1 \in 1..Len(due)
    <2>1. due \in Seq(Seq(Values \ {Nul}) \ {<<>>})
      BY DEF CallTypes
    <2>2. Len(due) \in Nat \ {0}
      BY <2>1, EmptySeq
    <2> QED BY <2>1, <2>2
  <1>2. /\ Len(due') = Len(due) /\ Len(due'[1]) = Len(due[1]) - 1
        /\ \A k \in 1..(Len(due[1]) - 1) : due'[1][k] = due[1][k + 1]
        /\ \A j \in 2..Len(due) : due'[j] = due[j]
    BY <1>1, WithoutFirst
  <1>3. num \in Nat /\ num' = num - 1 /\ num > 0
    BY DEF RingInv
  <1>4. PICK new \in [1..Len(due) -> Int] :
            \A j \in 1..Len(due) : new[j] = IF j = 1 THEN 1 ELSE pos[j] - 1
    <2>1. [j \in 1..Len(due) |-> IF j = 1 THEN 1 ELSE pos[j] - 1] \in [1..Len(due) -> Int]
      OBVIOUS
    <2> QED BY <2>1
  <1>5. \A j \in 1..Len(due) : Len(due[j]) \in Nat /\ Len(due[j]) > 0 /\ pos[j] \in Int
                               /\ Ends(pos, j) = pos[j] + Len(due[j])
    BY DueLengths DEF Ends
  <1>6. \A j \in 1..Len(due) : Ends(new, j)' = Ends(pos, j) - 1
    <2>1. Ends(new, 1)' = Ends(pos, 1) - 1
      BY <1>1, <1>2, <1>4, <1>5 DEF Ends
    <2>2. ASSUME NEW j \in 2..Len(due) PROVE Ends(new, j)' = Ends(pos, j) - 1
      <3>0. j \in 1..Len(due) /\ j # 1
        BY <1>1, <2>2
      <3>1. due'[j] = due[j] /\ new[j] = pos[j] - 1
        BY <1>2, <1>4, <2>2, <3>0
      <3> QED BY <1>5, <3>0, <3>1 DEF Ends
    <2> QED BY <1>1, <2>1, <2>2
  <1>7. ASSUME NEW j \in 1..Len(due)
        PROVE  /\ Ends(new, j)' \in 1..(num - 1) /\ Contents'[Ends(new, j)'] = Nul
               /\ \A k \in 1..Len(due'[j]) :
                     new[j] + k - 1 >= 1 => Contents'[new[j] + k - 1] = due'[j][k]
               /\ new[j] >= 1
    <2>1. /\ Ends(pos, j) \in 1..num /\ Contents[Ends(pos, j)] = Nul /\ pos[j] >= 1
          /\ \A k \in 1..Len(due[j]) : pos[j] + k - 1 >= 1 => Contents[pos[j] + k - 1] = due[j][k]
      BY <1>3 DEF Laid
    <2>2. Len(due[j]) \in Nat /\ Len(due[j]) > 0 /\ pos[j] \in Int /\ Ends(pos, j) = pos[j] + Len(due[j])
      BY <1>5
    <2>3. PICK x \in Int, l \in Nat, n \in Nat :
              x = pos[j] /\ l = Len(due[j]) /\ n = num /\ l > 0 /\ x + l \in 1..n /\ x >= 1
      BY <1>3, <2>1, <2>2
    <2>4. PICK e \in 1..(num - 1) : e = Ends(new, j)' /\ e + 1 = Ends(pos, j)
      <3>1. (x + l) - 1 \in 1..(n - 1)
        BY ONLY <2>3, x \in Int, l \in Nat, n \in Nat
      <3> QED BY <1>6, <2>2, <2>3, <3>1
    <2>5. Contents'[Ends(new, j)'] = Nul
      BY <2>1, <2>4
    <2>6. CASE j = 1
      <3>1. new[j] = 1 /\ x = 1 /\ Len(due'[j]) = l - 1
        BY <1>1, <1>2, <1>4, <2>3, <2>6
      <3>2. ASSUME NEW k \in 1..(l - 1) PROVE Contents'[new[j] + k - 1] = due'[j][k]
        <4>1. k \in 1..(n - 1) /\ k + 1 \in 1..l /\ x + (k + 1) - 1 = k + 1 /\ 1 + k - 1 = k
          BY ONLY <2>3, <3>1, x \in Int, l \in Nat, n \in Nat, k \in 1..(l - 1)
        <4>2. Contents'[k] = Contents[k + 1]
          BY <2>3, <4>1
        <4>3. pos[j] + (k + 1) - 1 >= 1 /\ pos[j] + (k + 1) - 1 = k + 1 /\ k + 1 \in 1..Len(due[j])
          BY <2>3, <4>1
        <4>4. Contents[k + 1] = due[1][k + 1]
          <5>1. Contents[pos[j] + (k + 1) - 1] = due[j][k + 1]
            BY <2>1, <4>3
          <5> QED BY <2>6, <4>3, <5>1
        <4>5. due'[j][k] = due[1][k + 1]
          BY <1>1, <2>3, <2>6, <3>1
        <4> QED BY <3>1, <4>1, <4>2, <4>4, <4>5
      <3> QED BY <2>3, <2>4, <2>5, <3>1, <3>2
    <2>7. CASE j # 1
      <3>1. j \in 2..Len(due) /\ new[j] = x - 1 /\ due'[j] = due[j]
        <4>1. j \in 2..Len(due)
          BY <1>1, <2>7
        <4> QED BY <1>2, <1>4, <2>3, <2>7, <4>1
      <3>2. x > 1
        <4>1. Ends(pos, 1) < pos[j]
          BY <1>1, <3>1 DEF Laid
        <4>2. Ends(pos, 1) > 1
          BY <1>1, <1>5
        <4>3. Ends(pos, 1) \in Int
          BY <1>1, <1>5
        <4> QED BY <2>3, <4>1, <4>2, <4>3
      <3>3. ASSUME NEW k \in 1..l PROVE Contents'[new[j] + k - 1] = due'[j][k]
        <4>0. x + l \in 1..n /\ x > 1
          BY <2>3, <3>2
        <4>1. (x - 1) + k - 1 \in 1..(n - 1) /\ ((x - 1) + k - 1) + 1 = x + k - 1 /\ x + k - 1 >= 1
          BY ONLY <4>0, x \in Int, l \in Nat, n \in Nat, k \in 1..l
        <4> QED BY <2>1, <2>3, <3>1, <4>1
      <3>4. new[j] >= 1
        BY <3>1, <3>2
      <3> QED BY <2>3, <2>4, <2>5, <3>1, <3>3, <3>4
    <2> QED BY <2>6, <2>7
  <1>8. ASSUME NEW i \in 1..Len(due), NEW j \in 1..Len(due), i < j PROVE Ends(new, i)' < new[j]
    <2>1. Ends(pos, i) < pos[j] /\ j # 1 /\ new[j] = pos[j] - 1
      BY <1>1, <1>4, <1>8 DEF Laid
    <2>2. pos[i] \in Int /\ Len(due[i]) \in Nat /\ Ends(pos, i) = pos[i] + Len(due[i])
      BY <1>5
    <2>3. pos[j] \in Int /\ Ends(new, i)' = Ends(pos, i) - 1
      BY <1>5, <1>6
    <2> QED BY <2>1, <2>2, <2>3
  <1>9. ASSUME NEW i \in 1..(num - 1)
        PROVE  Contents'[i] = Nul \/ \E j \in 1..Len(due) : new[j] <= i /\ i < Ends(new, j)'
    <2>1. i \in Nat /\ i >= 1 /\ i + 1 \in 1..(num - Held) /\ Contents'[i] = Contents[i + 1]
      BY <1>3
    <2>2. Contents[i + 1] = Nul \/ \E j \in 1..Len(due) : pos[j] <= i + 1 /\ i + 1 < Ends(pos, j)
      BY <2>1 DEF Laid
    <2>3. ASSUME NEW j \in 1..Len(due), pos[j] <= i + 1, i + 1 < Ends(pos, j)
          PROVE  new[j] <= i /\ i < Ends(new, j)'
      <3>1. /\ pos[j] \in Int /\ Len(due[j]) \in Nat /\ Ends(pos, j) = pos[j] + Len(due[j])
            /\ Ends(new, j)' = Ends(pos, j) - 1 /\ new[j] = IF j = 1 THEN 1 ELSE pos[j] - 1
        BY <1>4, <1>5, <1>6
      <3> QED BY <2>1, <2>3, <3>1
    <2> QED BY <2>1, <2>2, <2>3
  <1>10. Len(due') = Len(due) /\ num' - Held' = num - 1
    BY <1>2, <1>3
  <1>11. Laid(new)'
    BY <1>7, <1>8, <1>9, <1>10 DEF Laid
  <1> QED BY <1>2, <1>11

\* A terminator at the front belongs to no string that is due.
LEMMA LaidZeroOut ==
    ASSUME NEW pos \in [1..Len(due) -> Int], Laid(pos), CallTypes, RingInv, RingInv',
           dequeue_sem, num > 0, Contents[1] = Nul, due' = due, Held = 0, Held' = 0,
           op # "read"
    PROVE  \E new \in [1..Len(due) -> Int] : Laid(new)'
  <1>1. num' = num - 1 /\ \A i \in 1..(num - 1) : Contents'[i] = Contents[i + 1]
    BY CharacterOut
  <1>2. ASSUME NEW j \in 1..Len(due) PROVE Ends(pos, j) # 1 /\ pos[j] > 1
    <2>1. Len(due[j]) \in Nat /\ Len(due[j]) > 0 /\ pos[j] \in Int /\ pos[j] >= 1
      BY DueLengths DEF Laid
    <2>2. Ends(pos, j) > 1
      BY <2>1 DEF Ends
    <2>3. pos[j] # 1
      <3> SUFFICES ASSUME pos[j] = 1 PROVE FALSE
        OBVIOUS
      <3>1. 1 \in 1..Len(due[j]) /\ pos[j] + 1 - 1 = 1
        BY <2>1
      <3>2. Contents[1] = due[j][1]
        <4>1. \A k \in 1..Len(due[j]) : pos[j] + k - 1 >= 1 => Contents[pos[j] + k - 1] = due[j][k]
          BY DEF Laid
        <4> QED BY <3>1, <4>1
      <3>3. due[j][1] \in Values \ {Nul}
        BY <3>1 DEF CallTypes
      <3> QED BY <3>2, <3>3
    <2> QED BY <2>1, <2>2, <2>3
  <1> QED BY <1>1, <1>2, LaidShift

\* In front of the first string lie only terminators: `dust' takes no part of it.
LEMMA SkipStep ==
    ASSUME StringInv, RingInv', skips_zero
    PROVE  StringInv'
  <1>1. /\ op = "skip" /\ AtZero /\ dequeue_sem
        /\ UNCHANGED <<op, str, left, buf, due, cut>>
    BY DEF skips_zero, callVars
  <1>2. CallTypes /\ CallTypes' /\ RingInv /\ Held = 0 /\ Held' = 0 /\ num \in Nat
    BY <1>1 DEF StringInv, CallTypes, Held, RingInv
  <1> SUFFICES ASSUME ~cut PROVE \E new \in [1..Len(due) -> Int] : Whole(new)'
    BY <1>1, <1>2 DEF StringInv
  <1>3. PICK pos \in [1..Len(due) -> Int] : Whole(pos)
    BY DEF StringInv
  <1>4. CASE num = 0
    <2>1. num' = num /\ Contents' = Contents
      BY <1>1, <1>4 DEF dequeue_sem, Contents
    <2>2. Laid(pos)'
      BY <1>1, <1>2, <1>3, <2>1, LaidKept DEF Whole
    <2> QED BY <1>1, <2>2 DEF Whole
  <1>5. CASE num # 0
    <2>1. num > 0 /\ Contents[1] = Nul
      BY <1>1, <1>2, <1>5, HeadIsFirst, ValuesAssumption DEF AtZero
    <2>2. PICK new \in [1..Len(due) -> Int] : Laid(new)'
      BY <1>1, <1>2, <1>3, <2>1, LaidZeroOut DEF Whole
    <2> QED BY <1>1, <2>2 DEF Whole
  <1> QED BY <1>4, <1>5

\* The empty queue holds no string, nor a part of one.
LEMMA EmptyIsWhole ==
    ASSUME due' = <<>>, num' = 0, op' = "none"
    PROVE  \E pos \in [1..Len(due') -> Int] : Whole(pos)'
  <1>1. Len(due') = 0 /\ Held' = 0 /\ num' - Held' = 0
    BY DEF Held
  <1>2. PICK pos : pos \in [1..Len(due') -> Int]
    <2>1. [j \in 1..Len(due') |-> 0] \in [1..Len(due') -> Int]
      OBVIOUS
    <2> QED BY <2>1
  <1>3. Whole(pos)'
    BY <1>1 DEF Whole, Laid
  <1> QED BY <1>2, <1>3

\* A caller that takes a single character takes a terminator of no string, or
\* shortens the first string by its first character.
LEMMA TakeStep ==
    ASSUME StringInv, RingInv', op = "none", dequeue_sem, UNCHANGED callVars,
           cut' = (cut /\ num' # 0),
           due' = IF num' = 0 THEN <<>> ELSE IF cut \/ got' = Nul THEN due ELSE Shortened
    PROVE  CallTypes' /\ (~cut' => \E new \in [1..Len(due') -> Int] : Whole(new)')
  <1>1. CallTypes /\ RingInv /\ Held = 0 /\ Held' = 0 /\ num \in Nat /\ UNCHANGED <<op, str, left, buf>>
    BY DEF StringInv, CallTypes, Held, RingInv, callVars
  <1>2. CASE num' = 0
    <2>1. due' = <<>> /\ ~cut' /\ op' = "none" /\ num' = 0
      BY <1>1, <1>2
    <2>2. CallTypes'
      <3>1. due' \in Seq(Seq(Values \ {Nul}) \ {<<>>})
        BY <2>1, EmptySeq
      <3> QED BY <1>1, <2>1, <3>1 DEF CallTypes
    <2>3. \E pos \in [1..Len(due') -> Int] : Whole(pos)'
      BY <2>1, EmptyIsWhole
    <2> QED BY <2>2, <2>3
  <1>3. CASE num' # 0 /\ (cut \/ got' = Nul)
    <2>0. num > 0
      BY <1>1, <1>3 DEF dequeue_sem
    <2>1. due' = due /\ num > 0
      BY <1>3, <2>0
    <2>3. cut' = cut /\ CallTypes'
      BY <1>1, <1>3, <2>1 DEF CallTypes
    <2>2. ASSUME ~cut PROVE \E new \in [1..Len(due') -> Int] : Whole(new)'
      <3>1. PICK pos \in [1..Len(due) -> Int] : Whole(pos)
        BY <2>2 DEF StringInv
      <3>2. Contents[1] = Nul
        BY <1>1, <1>3, <2>1, <2>2, CharacterOut
      <3>3. PICK new \in [1..Len(due) -> Int] : Laid(new)'
        BY <1>1, <2>1, <3>1, <3>2, LaidZeroOut DEF Whole
      <3> QED BY <1>1, <2>1, <3>3 DEF Whole
    <2> QED BY <2>1, <2>2, <2>3
  <1>4. CASE num' # 0 /\ ~cut /\ got' # Nul
    <2>0. num > 0 /\ ~cut' /\ due' = Shortened
      <3>1. num > 0
        BY <1>1, <1>4 DEF dequeue_sem
      <3>2. ~cut' /\ due' = Shortened
        BY <1>4, Zenon
      <3> QED BY <3>1, <3>2
    <2>1. /\ num' = num - 1 /\ Contents[1] # Nul
          /\ \A i \in 1..(num - 1) : Contents'[i] = Contents[i + 1]
      BY <1>1, <1>4, <2>0, CharacterOut
    <2>2. PICK pos \in [1..Len(due) -> Int] : Whole(pos)
      BY <1>4 DEF StringInv
    <2>3. due # <<>> /\ pos[1] = 1
      <3>1. 1 \in 1..(num - Held)
        BY <1>1, <2>0
      <3>2. PICK j \in 1..Len(due) : pos[j] <= 1 /\ 1 < Ends(pos, j)
        BY <2>1, <2>2, <3>1 DEF Whole, Laid
      <3>3. pos[j] = 1
        BY <1>1, <2>2, <3>2 DEF Whole, Laid
      <3>4. Len(due) \in Nat /\ 1 \in 1..Len(due)
        BY <1>1, <3>2, DueLengths
      <3>5. Ends(pos, 1) \in Int /\ Ends(pos, 1) >= 1
        BY <1>1, <2>2, <3>4 DEF Whole, Laid
      <3>6. j = 1
        <4>1. 1 < j => Ends(pos, 1) < pos[j]
          BY <2>2, <3>4 DEF Whole, Laid
        <4> QED BY <3>3, <3>4, <3>5, <4>1
      <3> QED BY <1>1, <3>3, <3>4, <3>6 DEF CallTypes
    <2>4. /\ due \in Seq(Seq(Values \ {Nul}) \ {<<>>}) /\ Head(due) = due[1]
          /\ 1 \in 1..Len(due) /\ due[1] \in Seq(Values \ {Nul})
          /\ Len(due[1]) \in Nat /\ Len(due[1]) > 0
          /\ Ends(pos, 1) = 1 + Len(due[1])
      <3>1. due \in Seq(Seq(Values \ {Nul}) \ {<<>>}) /\ 1 \in 1..Len(due)
        BY <1>1, <2>3 DEF CallTypes
      <3>2. due[1] \in Seq(Values \ {Nul})
        BY <3>1, LenProperties
      <3> QED BY <1>1, <2>3, <3>1, <3>2, DueLengths DEF Ends
    <2>5. CASE Len(due[1]) = 1
      <3>1. due' = Tail(due)
        BY <2>0, <2>4, <2>5 DEF Shortened
      <3>2. due' \in Seq(Seq(Values \ {Nul}) \ {<<>>})
        <4> DEFINE T == Seq(Values \ {Nul}) \ {<<>>}
        <4> HIDE DEF T
        <4>1. due \in Seq(T)
          BY <2>4 DEF T
        <4>2. Tail(due) \in Seq(T)
          BY ONLY <2>3, <4>1, HeadTailProperties, Zenon
        <4> QED BY <3>1, <4>2 DEF T
      <3>3. Ends(pos, 1) \in 1..2
        BY <2>4, <2>5
      <3>4. PICK new \in [1..Len(due') -> Int] : Laid(new)'
        BY <1>1, <2>0, <2>1, <2>2, <2>3, <3>1, <3>3, LaidFirstOut DEF Whole
      <3>5. CallTypes'
        BY <1>1, <2>0, <3>2 DEF CallTypes
      <3> QED BY <1>1, <3>4, <3>5 DEF Whole
    <2>6. CASE Len(due[1]) # 1
      <3>1. due' = <<Tail(due[1])>> \o Tail(due) /\ Len(due[1]) > 1
        <4>0. \A n \in Nat : n > 0 => n = 1 \/ n > 1
          OBVIOUS
        <4>1. Len(due[1]) > 1
          BY <2>4, <2>6, <4>0, Zenon
        <4>2. Shortened = <<Tail(due[1])>> \o Tail(due)
          BY ONLY <2>4, <2>6 DEF Shortened
        <4> QED BY <2>0, <4>1, <4>2
      <3>2. due' \in Seq(Seq(Values \ {Nul}) \ {<<>>})
        BY <2>3, <2>4, <3>1, WithoutFirst
      <3>3. PICK new \in [1..Len(due') -> Int] : Laid(new)'
        BY <1>1, <2>0, <2>1, <2>2, <2>3, <3>1, LaidShortened DEF Whole
      <3>4. CallTypes'
        BY <1>1, <2>0, <3>2 DEF CallTypes
      <3> QED BY <1>1, <3>3, <3>4 DEF Whole
    <2> QED BY <2>5, <2>6
  <1> QED BY <1>2, <1>3, <1>4

\* What finds_text has found is the first string, or the queue is empty.
LEMMA FindStep ==
    ASSUME StringInv, RingInv', finds_text
    PROVE  StringInv'
  <1>1. /\ op = "skip" /\ op' = "read" /\ ~AtZero
        /\ UNCHANGED <<que, head, num, ret, got, str, left, buf, due, cut>>
    BY DEF finds_text, ringVars
  <1>2. /\ CallTypes /\ CallTypes' /\ RingInv /\ Held = 0 /\ Held' = 0 /\ num \in Nat
        /\ buf = <<>> /\ Len(buf) = 0
    BY <1>1 DEF StringInv, CallTypes, Held, RingInv
  <1> SUFFICES ASSUME ~cut PROVE \E new \in [1..Len(due) -> Int] : Whole(new)'
    BY <1>1, <1>2 DEF StringInv
  <1>3. PICK pos \in [1..Len(due) -> Int] : Whole(pos)
    BY DEF StringInv
  <1>4. Laid(pos)'
    <2>1. Contents' = Contents
      BY <1>1 DEF Contents
    <2> QED BY <1>1, <1>2, <1>3, <2>1, LaidKept DEF Whole
  <1>5. Reading(pos)
    <2>1. CASE num = 0
      <3>1. \A j \in 1..Len(due) : FALSE
        BY <1>2, <1>3, <2>1 DEF Whole, Laid
      <3>2. Len(due) = 0
        <4>1. Len(due) \in Nat
          BY <1>2, DueLengths
        <4> QED BY <3>1, <4>1
      <3>3. due = <<>>
        BY <1>2, <3>2 DEF CallTypes
      <3> QED BY <1>2, <2>1, <3>3 DEF Reading
    <2>2. CASE num # 0
      <3>1. num > 0 /\ 1 \in 1..(num - Held)
        BY <1>2, <2>2
      <3>2. Contents[1] # Nul
        BY <1>1, <1>2, <3>1, HeadIsFirst DEF AtZero
      <3>3. PICK j \in 1..Len(due) : pos[j] <= 1 /\ 1 < Ends(pos, j)
        BY <1>3, <3>1, <3>2 DEF Whole, Laid
      <3>4. Len(due) \in Nat /\ 1 \in 1..Len(due)
        BY <1>2, <3>3, DueLengths
      <3>5. j = 1
        <4> SUFFICES ASSUME j # 1 PROVE FALSE
          OBVIOUS
        <4>1. 1 < j
          BY <3>4
        <4>2. Ends(pos, 1) \in 1..(num - Held) /\ Ends(pos, 1) < pos[j]
          BY <1>3, <3>4, <4>1 DEF Whole, Laid
        <4>3. Ends(pos, 1) \in Int /\ Ends(pos, 1) >= 1 /\ pos[j] \in Int
          BY <1>2, <4>2
        <4> QED BY <3>3, <4>2, <4>3
      <3>6. pos[1] = 1
        <4>1. pos[1] >= 1 /\ pos[1] \in Int
          BY <1>1, <1>3, <3>4 DEF Whole, Laid
        <4> QED BY <3>3, <3>5, <4>1
      <3>7. due # <<>> /\ Len(due[1]) \in Nat
        BY <1>2, <3>4, DueLengths
      <3> QED BY <1>2, <3>6, <3>7 DEF Reading
    <2> QED BY <2>1, <2>2
  <1>6. Reading(pos)'
    BY <1>1, <1>5 DEF Reading
  <1> QED BY <1>1, <1>4, <1>6 DEF Whole

\* What dequeue_str promises, of one of its steps.
NextStringTaken ==
    op = "read" /\ op' = "none" /\ ~cut =>
        IF num = 0 THEN due = <<>> /\ buf' = <<>>
        ELSE due # <<>> /\ buf' = Append(Head(due), Nul)

\* buf is filled with the first string, character by character up to its
\* terminator.
LEMMA ReadStep ==
    ASSUME StringInv, RingInv', reads_char
    PROVE  StringInv' /\ NextStringTaken
  <1>1. op = "read" /\ dequeue_sem /\ UNCHANGED <<str, left>>
    BY DEF reads_char
  <1>2. RingInv /\ CallTypes /\ Held = 0 /\ num \in Nat
    BY <1>1 DEF StringInv, Held, RingInv
  <1>3. CASE num = 0
    <2>1. op' = "none" /\ due' = <<>> /\ ~cut' /\ num' = 0 /\ UNCHANGED <<got, buf>>
      BY <1>1, <1>3 DEF reads_char, dequeue_sem
    <2>2. CallTypes'
      <3>1. due' \in Seq(Seq(Values \ {Nul}) \ {<<>>}) /\ cut' \in BOOLEAN
        BY <1>1, <1>3, <2>1, EmptySeq DEF reads_char
      <3> QED BY <1>1, <1>2, <2>1, <3>1 DEF CallTypes
    <2>3. ASSUME ~cut PROVE due = <<>> /\ buf = <<>>
      <3>0. PICK pos \in [1..Len(due) -> Int] : Whole(pos)
        BY <2>3 DEF StringInv
      <3>1. CASE due # <<>>
        <4>1. 1 \in 1..Len(due)
          BY <1>2, <3>1 DEF CallTypes
        <4>2. Ends(pos, 1) \in 1..(num - Held)
          BY <3>0, <4>1 DEF Whole, Laid
        <4> QED BY <1>2, <1>3, <4>2
      <3> QED BY <1>1, <3>0, <3>1 DEF Whole, Reading
    <2>4. StringInv'
      <3>1. \E pos \in [1..Len(due') -> Int] : Whole(pos)'
        BY <2>1, EmptyIsWhole
      <3> QED BY <2>2, <3>1 DEF StringInv
    <2>5. NextStringTaken
      BY <1>3, <2>1, <2>3 DEF StringInv, NextStringTaken
    <2> QED BY <2>4, <2>5
  <1>4. CASE num # 0
    <2>0. num > 0
      BY <1>2, <1>4
    <2>1. /\ num' = num - 1 /\ got' = Contents[1] /\ got' \in Values
          /\ \A i \in 1..(num - 1) : Contents'[i] = Contents[i + 1]
      BY <1>1, <1>2, <2>0, CharacterOut
    <2>2. /\ buf' = Append(buf, got') /\ op' = (IF got' = Nul THEN "none" ELSE "read")
          /\ due' = IF got' = Nul /\ due # <<>> THEN Tail(due) ELSE due
          /\ cut' = cut
      BY <1>4 DEF reads_char
    <2>3. CallTypes' /\ Held' = 0
      <3>1. buf' \in Seq(Values)
        BY <1>2, <2>1, <2>2 DEF CallTypes
      <3>2. due' \in Seq(Seq(Values \ {Nul}) \ {<<>>})
        <4>1. due \in Seq(Seq(Values \ {Nul}) \ {<<>>})
          BY <1>2 DEF CallTypes
        <4>2. due # <<>> => Tail(due) \in Seq(Seq(Values \ {Nul}) \ {<<>>})
          BY <4>1
        <4> QED BY <2>2, <4>1, <4>2
      <3> QED BY <1>1, <1>2, <2>2, <3>1, <3>2 DEF CallTypes, Held
    <2>4. ASSUME ~cut
          PROVE  /\ \E new \in [1..Len(due') -> Int] : Whole(new)'
                 /\ op' = "none" => due # <<>> /\ buf' = Append(Head(due), Nul)
      <3>1. PICK pos \in [1..Len(due) -> Int] : Whole(pos)
        BY <2>4 DEF StringInv
      <3>2. /\ due # <<>> /\ pos[1] = 1 - Len(buf) /\ Len(buf) <= Len(due[1])
            /\ \A k \in 1..Len(buf) : buf[k] = due[1][k]
        BY <1>1, <1>4, <3>1 DEF Whole, Reading
      <3>3. Len(due) \in Nat /\ 1 \in 1..Len(due) /\ Len(buf) \in Nat /\ Len(due[1]) \in Nat
        BY <1>2, <3>2, DueLengths DEF CallTypes
      <3>4. /\ due[1] \in Seq(Values \ {Nul}) /\ buf \in Seq(Values) /\ Head(due) = due[1]
            /\ Ends(pos, 1) = 1 - Len(buf) + Len(due[1])
        BY <1>2, <3>2, <3>3 DEF CallTypes, Ends
      <3>5. CASE Len(buf) < Len(due[1])
        <4>1. PICK k \in 1..Len(due[1]) : k = Len(buf) + 1
          BY <3>3, <3>5
        <4>2. pos[1] + k - 1 = 1
          BY <3>2, <3>3, <4>1
        <4>3. got' = due[1][k] /\ got' # Nul
          <5>1. Contents[1] = due[1][k]
            BY <3>1, <3>3, <4>2 DEF Whole, Laid
          <5>2. due[1][k] \in Values \ {Nul}
            BY <3>4
          <5> QED BY <2>1, <5>1, <5>2
        <4>4. op' = "read" /\ due' = due /\ buf' = Append(buf, got')
          BY <2>2, <4>3
        <4>5. ASSUME NEW j \in 1..Len(due) PROVE Ends(pos, j) # 1
          <5>1. Ends(pos, 1) > 1
            BY <3>3, <3>4, <3>5
          <5>2. j # 1 => Ends(pos, 1) < pos[j]
            BY <3>1, <3>3 DEF Whole, Laid
          <5>3. Ends(pos, j) = pos[j] + Len(due[j]) /\ Len(due[j]) \in Nat /\ pos[j] \in Int
            BY <1>2, DueLengths DEF Ends
          <5>4. Ends(pos, 1) \in Int
            BY <3>3, <3>4
          <5> QED BY <5>1, <5>2, <5>3, <5>4
        <4>6. PICK new \in [1..Len(due) -> Int] :
                  Laid(new)' /\ \A j \in 1..Len(due) : new[j] = pos[j] - 1
          BY <1>2, <2>0, <2>1, <2>3, <3>1, <4>4, <4>5, LaidShift DEF Whole
        <4>7. Len(buf') = Len(buf) + 1 /\ \A i \in 1..Len(buf') : buf'[i] = due[1][i]
          <5>1. Len(buf') = Len(buf) + 1 /\ buf'[Len(buf) + 1] = got'
                /\ \A i \in 1..Len(buf) : buf'[i] = buf[i]
            BY <3>4, <4>4
          <5> QED BY <3>2, <3>3, <4>1, <4>3, <5>1
        <4>8. Reading(new)'
          <5>1. new[1] = 1 - Len(buf') /\ Len(buf') <= Len(due[1])
            BY <3>2, <3>3, <3>5, <4>6, <4>7
          <5> QED BY <3>2, <4>4, <4>7, <5>1 DEF Reading
        <4>9. Whole(new)' /\ new \in [1..Len(due') -> Int]
          BY <4>4, <4>6, <4>8 DEF Whole
        <4> QED BY <4>4, <4>9
      <3>6. CASE Len(buf) = Len(due[1])
        <4>1. Ends(pos, 1) = 1
          BY <3>3, <3>4, <3>6
        <4>2. got' = Nul
          BY <2>1, <3>1, <3>3, <4>1 DEF Whole, Laid
        <4>3. op' = "none" /\ due' = Tail(due) /\ buf' = Append(buf, Nul)
          BY <2>2, <3>2, <4>2
        <4>4. PICK new \in [1..Len(due') -> Int] : Laid(new)'
          BY <1>2, <2>0, <2>1, <2>3, <3>1, <3>2, <4>1, <4>3, LaidFirstOut DEF Whole
        <4>5. buf = due[1]
          <5>1. due[1] \in Seq(Values) /\ buf \in Seq(Values)
            BY <3>4
          <5> QED BY <3>2, <3>6, <5>1, SeqEqual
        <4>6. Whole(new)'
          BY <4>3, <4>4 DEF Whole
        <4> QED BY <3>2, <3>4, <4>3, <4>5, <4>6
      <3> QED BY <3>2, <3>3, <3>5, <3>6
    <2>5. StringInv'
      BY <1>1, <2>2, <2>3, <2>4 DEF StringInv
    <2>6. NextStringTaken
      BY <1>4, <2>4 DEF NextStringTaken
    <2> QED BY <2>5, <2>6
  <1> QED BY <1>3, <1>4

\* A string that is in whole, with its terminator, is due behind the others.
LEMMA LaidLastIn ==
    ASSUME NEW pos \in [1..Len(due) -> Int], Laid(pos), CallTypes, RingInv, op = "enqueue",
           op' # "read", Held = Len(str), Held <= num, str # <<>>,
           due' = Append(due, str), Held' = 0, num' = num + 1,
           \A i \in 1..num : Contents'[i] = Contents[i], Contents'[num + 1] = Nul,
           \A k \in 1..Held : Contents[num - Held + k] = str[k]
    PROVE  \E new \in [1..Len(due') -> Int] : Laid(new)'
  <1>1. /\ Len(due) \in Nat /\ Len(due') = Len(due) + 1 /\ Len(str) \in Nat /\ Len(str) > 0
        /\ \A j \in 1..Len(due) : due'[j] = due[j] /\ due'[Len(due) + 1] = str
    BY DEF CallTypes
  <1>2. due'[Len(due) + 1] = str
    BY DEF CallTypes
  <1>3. PICK d \in Nat, n \in Nat, l \in Nat :
            d = Len(due) /\ n = num /\ l = Len(str) /\ l > 0 /\ l <= n /\ Held = l
    <2>1. num \in Nat
      BY SizeAssumption DEF RingInv
    <2>2. Len(str) <= num
      OBVIOUS
    <2> QED BY <1>1, <2>1, <2>2
  <1>4. PICK new \in [1..(d + 1) -> Int] :
            new[d + 1] = n - l + 1 /\ \A j \in 1..d : new[j] = pos[j]
    <2> DEFINE f == [j \in 1..(d + 1) |-> IF j = d + 1 THEN n - l + 1 ELSE pos[j]]
    <2>1. f \in [1..(d + 1) -> Int]
      BY <1>3
    <2>2. f[d + 1] = n - l + 1 /\ \A j \in 1..d : f[j] = pos[j]
      OBVIOUS
    <2> HIDE DEF f
    <2> QED BY <2>1, <2>2
  <1>5. \A j \in 1..d : Len(due[j]) \in Nat /\ pos[j] \in Int /\ pos[j] >= 1 /\ Ends(pos, j) \in 1..(n - l)
    BY <1>3, DueLengths DEF Laid
  <1>6. Ends(new, d + 1)' = n + 1 /\ \A j \in 1..d : Ends(new, j)' = Ends(pos, j)
    <2>1. Ends(new, d + 1)' = (n - l + 1) + l
      BY <1>2, <1>3, <1>4 DEF Ends
    <2>2. \A j \in 1..d : Ends(new, j)' = Ends(pos, j)
      BY <1>1, <1>3, <1>4 DEF Ends
    <2> QED BY <2>1, <2>2
  <1>7. ASSUME NEW j \in 1..(d + 1)
        PROVE  /\ Ends(new, j)' \in 1..(n + 1) /\ Contents'[Ends(new, j)'] = Nul
               /\ \A k \in 1..Len(due'[j]) :
                     new[j] + k - 1 >= 1 => Contents'[new[j] + k - 1] = due'[j][k]
               /\ new[j] >= 1
    <2>1. CASE j = d + 1
      <3>1. due'[j] = str /\ new[j] = n - l + 1 /\ Ends(new, j)' = n + 1
        BY <1>2, <1>3, <1>4, <1>6, <2>1
      <3>2. ASSUME NEW k \in 1..l PROVE Contents'[new[j] + k - 1] = str[k]
        <4>1. new[j] + k - 1 = n - l + k /\ n - l + k \in 1..n
          BY <1>3, <3>1
        <4> QED BY <1>3, <4>1
      <3>3. n - l + 1 >= 1 /\ n + 1 \in 1..(n + 1)
        BY <1>3
      <3>4. Contents'[n + 1] = Nul
        BY <1>3
      <3> QED BY <1>3, <3>1, <3>2, <3>3, <3>4
    <2>2. CASE j # d + 1
      <3>1. /\ j \in 1..d /\ due'[j] = due[j] /\ new[j] = pos[j] /\ Ends(new, j)' = Ends(pos, j)
            /\ Len(due[j]) \in Nat /\ pos[j] \in Int /\ pos[j] >= 1
        <4>1. j \in 1..d
          BY <1>3, <2>2
        <4>2. due'[j] = due[j]
          BY <1>1, <1>3, <4>1
        <4> QED BY <1>4, <1>5, <1>6, <4>1, <4>2
      <3>2. /\ Contents[Ends(pos, j)] = Nul /\ Ends(pos, j) \in 1..n /\ Ends(pos, j) \in 1..(n - l)
            /\ \A k \in 1..Len(due[j]) : pos[j] + k - 1 >= 1 => Contents[pos[j] + k - 1] = due[j][k]
        BY <1>3, <1>5, <3>1 DEF Laid
      <3>3. ASSUME NEW k \in 1..Len(due[j]) PROVE Contents'[new[j] + k - 1] = due[j][k]
        <4>1. PICK x \in Int, m \in Nat : x = pos[j] /\ m = Len(due[j])
          BY <3>1
        <4>2. x + m \in 1..(n - l) /\ x >= 1 /\ k \in 1..m
          BY <3>1, <3>2, <4>1 DEF Ends
        <4>3. x + k - 1 \in 1..n /\ x + k - 1 >= 1
          BY ONLY <4>2, x \in Int, m \in Nat, n \in Nat, l \in Nat, k \in 1..m
        <4> QED BY <1>3, <3>1, <3>2, <4>1, <4>3
      <3> QED BY <1>3, <3>1, <3>2, <3>3
    <2> QED BY <2>1, <2>2
  <1>8. ASSUME NEW i \in 1..(d + 1), NEW j \in 1..(d + 1), i < j PROVE Ends(new, i)' < new[j]
    <2>1. i \in 1..d /\ Ends(new, i)' = Ends(pos, i) /\ Ends(pos, i) \in 1..(n - l)
      BY <1>5, <1>6, <1>8
    <2>2. CASE j = d + 1
      BY <1>4, <2>1, <2>2
    <2>3. CASE j # d + 1
      <3>1. j \in 1..d /\ new[j] = pos[j]
        BY <1>4, <2>3
      <3> QED BY <1>3, <1>8, <2>1, <3>1 DEF Laid
    <2> QED BY <2>2, <2>3
  <1>9. ASSUME NEW i \in 1..(n + 1)
        PROVE  Contents'[i] = Nul \/ \E j \in 1..(d + 1) : new[j] <= i /\ i < Ends(new, j)'
    <2>1. CASE i = n + 1
      BY <1>3, <2>1
    <2>2. CASE n - l + 1 <= i /\ i # n + 1
      <3>1. d + 1 \in 1..(d + 1) /\ new[d + 1] <= i /\ i < Ends(new, d + 1)'
        BY <1>4, <1>6, <2>2
      <3> QED BY <3>1
    <2>3. CASE i < n - l + 1
      <3>1. i \in 1..(num - Held) /\ Contents'[i] = Contents[i]
        BY <1>3, <2>3
      <3>2. Contents[i] = Nul \/ \E j \in 1..d : pos[j] <= i /\ i < Ends(pos, j)
        BY <1>3, <3>1 DEF Laid
      <3>3. \A j \in 1..d : j \in 1..(d + 1) /\ new[j] = pos[j] /\ Ends(new, j)' = Ends(pos, j)
        BY <1>4, <1>6
      <3> QED BY <3>1, <3>2, <3>3
    <2>4. i = n + 1 \/ (n - l + 1 <= i /\ i # n + 1) \/ i < n - l + 1
      BY ONLY n \in Nat, l \in Nat, i \in 1..(n + 1)
    <2> QED BY <2>1, <2>2, <2>3, <2>4
  <1>10. Len(due') = d + 1 /\ num' - Held' = n + 1
    BY <1>1, <1>3
  <1>11. Laid(new)'
    BY <1>7, <1>8, <1>9, <1>10 DEF Laid
  <1> QED BY <1>4, <1>10, <1>11

\* enqueue_str puts in a whole string or the queue is cut.
LEMMA PutStep ==
    ASSUME StringInv, RingInv', puts_char
    PROVE  StringInv'
  <1>1. /\ op = "enqueue" /\ enqueue_sem(Head(left)) /\ left' = Tail(left)
        /\ op' = (IF num = Size \/ left' = <<>> THEN "none" ELSE "enqueue")
        /\ UNCHANGED <<str, buf>>
    BY DEF puts_char
  <1>2. /\ RingInv /\ CallTypes /\ left \in Seq(Values) /\ left # <<>> /\ str \in Seq(Values \ {Nul})
        /\ due \in Seq(Seq(Values \ {Nul}) \ {<<>>})
        /\ Held = Len(str) + 1 - Len(left) /\ num \in Nat /\ num <= Size
    BY <1>1, SizeAssumption DEF StringInv, CallTypes, Held, RingInv
  <1>3. /\ Len(left) \in Nat /\ Len(left) > 0 /\ Len(str) \in Nat
        /\ Tail(left) \in Seq(Values) /\ Len(Tail(left)) = Len(left) - 1
        /\ \A k \in 1..Len(Tail(left)) : Tail(left)[k] = left[k + 1]
        /\ Head(left) = left[1] /\ Head(left) \in Values
        /\ Tail(left) = <<>> <=> Len(left) = 1
    <2>1. /\ Len(left) \in Nat /\ Len(left) > 0 /\ Len(str) \in Nat
          /\ Tail(left) \in Seq(Values) /\ Len(Tail(left)) = Len(left) - 1
          /\ \A k \in 1..Len(Tail(left)) : Tail(left)[k] = left[k + 1]
          /\ Head(left) = left[1] /\ Head(left) \in Values
      BY <1>2
    <2>2. Tail(left) = <<>> <=> Len(Tail(left)) = 0
      BY <2>1, EmptySeq
    <2> QED BY <2>1, <2>2
  <1>4. CallTypes'
    <2>1. due' \in Seq(Seq(Values \ {Nul}) \ {<<>>}) /\ cut' \in BOOLEAN
      <3>1. str # <<>> => Append(due, str) \in Seq(Seq(Values \ {Nul}) \ {<<>>})
        BY <1>2
      <3> QED BY <1>2, <3>1 DEF puts_char, CallTypes
    <2> QED BY <1>1, <1>2, <1>3, <2>1 DEF CallTypes
  <1> SUFFICES ASSUME ~cut' PROVE \E new \in [1..Len(due') -> Int] : Whole(new)'
    BY <1>4 DEF StringInv
  <1>5. ~cut /\ (num = Size => Len(left) > Len(str))
    <2>1. ~(cut \/ (num = Size /\ Len(left) <= Len(str)))
      BY DEF puts_char
    <2> QED BY <1>3, <2>1
  <1>6. PICK pos \in [1..Len(due) -> Int] : Whole(pos)
    BY <1>5 DEF StringInv
  <1>7. Laid(pos) /\ Putting
    BY <1>1, <1>6 DEF Whole
  <1>8. PICK n \in Nat, l \in Nat, h \in Nat :
            /\ n = num /\ l = Len(str) /\ h = Held /\ h <= n /\ Len(left) = l + 1 - h
            /\ h \in 0..l
    <2>1. Held \in 0..Len(str) /\ Held <= num /\ Held \in Nat
      BY <1>7 DEF Putting
    <2>2. Len(left) = Len(str) + 1 - Held
      BY <1>2, <1>3, <2>1
    <2>3. num \in Nat /\ Len(str) \in Nat
      BY <1>2, <1>3
    <2> QED BY ONLY <2>1, <2>2, <2>3
  <1>9. Head(left) = IF h + 1 <= l THEN str[h + 1] ELSE Nul
    <2>1. 1 \in 1..Len(left)
      BY <1>3
    <2> QED BY <1>3, <1>7, <1>8, <2>1 DEF Putting
  <1>10. CASE num = Size
    <2>1. ~(num < Size)
      BY <1>8, <1>10
    <2>2. num' = num /\ Contents' = Contents
      BY <1>1, <2>1 DEF enqueue_sem, Contents
    <2>3. h = 0 /\ op' = "none" /\ Held' = 0 /\ due' = due
      <3>1. h = 0
        BY <1>5, <1>8, <1>10
      <3>2. op' = "none" /\ due' = due
        BY <1>1, <1>10, <2>1 DEF puts_char
      <3> QED BY <3>1, <3>2 DEF Held
    <2>4. Laid(pos)'
      BY <1>1, <1>2, <1>7, <1>8, <2>2, <2>3, LaidKept
    <2> QED BY <2>3, <2>4 DEF Whole
  <1>11. CASE num # Size
    <2>0. num < Size
      BY <1>2, <1>11, SizeAssumption
    <2>1. /\ num' = num + 1 /\ \A i \in 1..num : Contents'[i] = Contents[i]
          /\ Contents'[num + 1] = Head(left)
      BY <1>1, <1>2, <1>3, <2>0, CharacterIn
    <2>2. CASE Len(left) # 1
      <3>1. op' = "enqueue" /\ due' = due /\ left' = Tail(left)
        BY <1>1, <1>3, <1>11, <2>2 DEF puts_char
      <3>2. Held' = h + 1 /\ h + 1 <= l /\ Len(left') = l - h
        <4>1. Len(left') = Len(left) - 1
          BY <1>3, <3>1
        <4>2. str' = str /\ Held' = Len(str') + 1 - Len(left')
          BY <1>1, <3>1 DEF Held
        <4>3. Len(left) = l + 1 - h /\ Len(left) > 1 /\ l = Len(str)
          BY <1>3, <1>8, <2>2
        <4>4. Held' = l + 1 - (l + 1 - h - 1) /\ Len(left') = l + 1 - h - 1 /\ l + 1 - h > 1
          BY <4>1, <4>2, <4>3
        <4> QED BY ONLY <4>4, l \in Nat, h \in Nat
      <3>3. num' - Held' = num - Held /\ \A i \in 1..(num - Held) : Contents'[i] = Contents[i]
        <4>1. num' = n + 1 /\ Held' = h + 1 /\ num = n /\ Held = h
          BY <1>8, <2>1, <3>2
        <4>2. (n + 1) - (h + 1) = n - h /\ 1..(n - h) \subseteq 1..n
          BY ONLY n \in Nat, h \in Nat
        <4>3. \A i \in 1..n : Contents'[i] = Contents[i]
          BY <1>8, <2>1
        <4> QED BY <4>1, <4>2, <4>3
      <3>4. Laid(pos)'
        BY <1>1, <1>2, <1>7, <3>1, <3>3, LaidKept
      <3>5. Putting'
        <4>1. Held' \in 0..Len(str') /\ Held' <= num'
          BY <1>1, <1>8, <2>1, <3>2
        <4>2. ASSUME NEW k \in 1..Len(left')
              PROVE  left'[k] = IF Held' + k <= Len(str') THEN str'[Held' + k] ELSE Nul
          <5>1. k + 1 \in 1..Len(left) /\ left'[k] = left[k + 1] /\ Held' + k = h + (k + 1)
            BY <1>3, <1>8, <3>1, <3>2
          <5> QED BY <1>1, <1>7, <1>8, <5>1 DEF Putting
        <4>3. ASSUME NEW k \in 1..Held' PROVE Contents'[num' - Held' + k] = str'[k]
          <5>1. num' - Held' + k = n - h + k /\ k \in 1..(h + 1)
            BY <1>8, <2>1, <3>2
          <5>2. CASE k = h + 1
            BY <1>1, <1>8, <1>9, <2>1, <3>2, <5>1, <5>2
          <5>3. CASE k # h + 1
            <6>1. k \in 1..h /\ n - h + k \in 1..n
              BY <1>8, <5>1, <5>3
            <6> QED BY <1>1, <1>7, <1>8, <2>1, <5>1, <6>1 DEF Putting
          <5> QED BY <5>2, <5>3
        <4> QED BY <4>1, <4>2, <4>3 DEF Putting
      <3> QED BY <3>1, <3>4, <3>5 DEF Whole
    <2>3. CASE Len(left) = 1
      <3>1. left' = <<>> /\ op' = "none" /\ h = l /\ Head(left) = Nul /\ Held' = 0
        <4>1. left' = <<>> /\ op' = "none"
          BY <1>1, <1>3, <2>3
        <4>2. h = l /\ ~(h + 1 <= l)
          <5>1. l + 1 - h = 1
            BY <1>8, <2>3
          <5> QED BY ONLY <5>1, l \in Nat, h \in Nat
        <4> QED BY <1>9, <4>1, <4>2 DEF Held
      <3>2. due' = IF str # <<>> THEN Append(due, str) ELSE due
        BY <1>5, <2>0, <3>1 DEF puts_char
      <3>3. CASE str = <<>>
        <4>1. h = 0 /\ due' = due
          BY <1>8, <3>1, <3>2, <3>3
        <4>2. /\ num' - Held' = num - Held + 1 /\ Contents'[num - Held + 1] = Nul
              /\ \A i \in 1..(num - Held) : Contents'[i] = Contents[i]
          BY <1>8, <2>1, <3>1, <4>1
        <4>3. Laid(pos)'
          BY <1>1, <1>2, <1>7, <4>1, <4>2, LaidKept
        <4> QED BY <3>1, <4>1, <4>3 DEF Whole
      <3>4. CASE str # <<>>
        <4>1. PICK new \in [1..Len(due') -> Int] : Laid(new)'
          BY <1>1, <1>2, <1>7, <1>8, <2>1, <3>1, <3>2, <3>4, LaidLastIn DEF Putting
        <4> QED BY <3>1, <4>1 DEF Whole
      <3> QED BY <3>3, <3>4
    <2> QED BY <2>2, <2>3
  <1> QED BY <1>10, <1>11
LEMMA StringStep == StringInv /\ [StringNext]_stringVars => StringInv' /\ [NextStringTaken]_stringVars
  <1> SUFFICES ASSUME StringInv, [StringNext]_stringVars
               PROVE  StringInv' /\ [NextStringTaken]_stringVars
    OBVIOUS
  <1>0. RingInv /\ CallTypes /\ RingInv'
    <2>1. [Next]_ringVars
      BY CharacterStep DEF StringInv, CallTypes, LeftInv
    <2> QED BY <2>1, RingStep DEF StringInv
  <1>1. CASE Characters
    <2>1. op = "none" /\ UNCHANGED <<op, str, left, buf>>
      BY <1>1 DEF Characters, callVars
    <2>2. CASE (\E v \in Values : enqueue_sem(v)) /\ cut' = TRUE /\ due' = <<>>
      <3>1. due' \in Seq(Seq(Values \ {Nul}) \ {<<>>})
        BY <2>2, EmptySeq
      <3> QED BY <1>0, <2>1, <2>2, <3>1 DEF StringInv, CallTypes, NextStringTaken
    <2>3. CASE /\ dequeue_sem
               /\ cut' = (cut /\ num' # 0)
               /\ due' = IF num' = 0 THEN <<>> ELSE IF cut \/ got' = Nul THEN due ELSE Shortened
      <3>1. CallTypes' /\ (~cut' => \E new \in [1..Len(due') -> Int] : Whole(new)')
        BY <1>0, <2>1, <2>3, TakeStep DEF callVars
      <3> QED BY <1>0, <2>1, <3>1 DEF StringInv, NextStringTaken
    <2>4. CASE flush_queue_sem /\ cut' = FALSE /\ due' = <<>>
      <3>1. due' \in Seq(Seq(Values \ {Nul}) \ {<<>>})
        BY <2>4, EmptySeq
      <3>2. op' = "none" /\ num' = 0 /\ due' = <<>>
        BY <2>1, <2>4 DEF flush_queue_sem
      <3>3. \E pos \in [1..Len(due') -> Int] : Whole(pos)'
        BY <3>2, EmptyIsWhole
      <3> QED BY <1>0, <2>1, <2>4, <3>1, <3>3 DEF StringInv, CallTypes, NextStringTaken
    <2> QED BY <1>1, <2>2, <2>3, <2>4 DEF Characters
  <1>2. ASSUME NEW s \in Strings, enqueue_str(s) PROVE StringInv' /\ NextStringTaken
    <2>1. /\ op = "none" /\ op' = "enqueue" /\ str' = s /\ left' = Append(s, Nul)
          /\ UNCHANGED <<que, head, num, ret, got, buf, due, cut>>
      BY <1>2 DEF enqueue_str, ringVars
    <2>2. /\ s \in Seq(Values \ {Nul}) /\ s \in Seq(Values) /\ Nul \in Values
      <3>1. s \in Seq(Values \ {Nul}) /\ Nul \in Values
        BY StringsAssumption, NulAssumption
      <3> QED BY <3>1
    <2>3. /\ Append(s, Nul) \in Seq(Values) /\ Len(Append(s, Nul)) = Len(s) + 1 /\ Len(s) \in Nat
          /\ \A k \in 1..(Len(s) + 1) : Append(s, Nul)[k] = IF k <= Len(s) THEN s[k] ELSE Nul
      BY <2>2
    <2>4. CallTypes'
      <3>1. Append(s, Nul) # <<>>
        BY <2>3
      <3> QED BY <1>0, <2>1, <2>2, <2>3, <3>1 DEF CallTypes
    <2>5. Held = 0 /\ Held' = 0 /\ Contents' = Contents /\ num \in Nat
      BY <1>0, <2>1, <2>3 DEF Held, Contents, RingInv
    <2>6. ASSUME ~cut' PROVE \E pos \in [1..Len(due') -> Int] : Whole(pos)'
      <3>1. PICK pos \in [1..Len(due) -> Int] : Whole(pos)
        BY <2>1, <2>6 DEF StringInv
      <3>2. Laid(pos)'
        BY <1>0, <2>1, <2>5, <3>1, LaidKept DEF Whole
      <3>3. Putting'
        BY <2>1, <2>3, <2>5 DEF Putting
      <3> QED BY <2>1, <3>1, <3>2, <3>3 DEF Whole
    <2> QED BY <1>0, <2>1, <2>4, <2>6 DEF StringInv, NextStringTaken
  <1>3. CASE dequeue_str
    <2>1. /\ op = "none" /\ op' = "skip" /\ buf' = <<>>
          /\ UNCHANGED <<que, head, num, ret, got, str, left, due, cut>>
      BY <1>3 DEF dequeue_str, ringVars
    <2>2. CallTypes' /\ Held = 0 /\ Held' = 0 /\ Contents' = Contents /\ num \in Nat
      BY <1>0, <2>1 DEF CallTypes, Held, Contents, RingInv
    <2>3. ASSUME ~cut' PROVE \E pos \in [1..Len(due') -> Int] : Whole(pos)'
      <3>1. PICK pos \in [1..Len(due) -> Int] : Whole(pos)
        BY <2>1, <2>3 DEF StringInv
      <3>2. Laid(pos)'
        BY <1>0, <2>1, <2>2, <3>1, LaidKept DEF Whole
      <3> QED BY <2>1, <3>1, <3>2 DEF Whole
    <2> QED BY <1>0, <2>1, <2>2, <2>3 DEF StringInv, NextStringTaken
  <1>4. CASE puts_char
    BY <1>0, <1>4, PutStep DEF puts_char, NextStringTaken
  <1>5. CASE skips_zero
    BY <1>0, <1>5, SkipStep DEF skips_zero, NextStringTaken
  <1>6. CASE finds_text
    BY <1>0, <1>6, FindStep DEF finds_text, NextStringTaken
  <1>7. CASE reads_char
    BY <1>0, <1>7, ReadStep
  <1>8. CASE UNCHANGED stringVars
    <2>1. UNCHANGED <<que, head, num, ret, got, op, str, left, buf, due, cut>>
      BY <1>8 DEF stringVars, ringVars, callVars
    <2>2. CallTypes' /\ Contents' = Contents /\ Held' = Held
      BY <1>0, <2>1 DEF CallTypes, Contents, Held
    <2>3. ASSUME NEW pos \in [1..Len(due) -> Int], Whole(pos) PROVE Whole(pos)'
      BY <2>1, <2>2, <2>3 DEF Whole, Laid, Ends, Reading, Putting
    <2>4. StringInv'
      BY <1>0, <2>1, <2>2, <2>3 DEF StringInv
    <2> QED BY <1>8, <2>4
  <1> QED BY <1>1, <1>2, <1>3, <1>4, <1>5, <1>6, <1>7, <1>8 DEF StringNext, StringCall

LEMMA StringInit0 == StringInit => StringInv
  <1> SUFFICES ASSUME StringInit PROVE StringInv
    OBVIOUS
  <1>1. RingInv
    BY SizeAssumption DEF StringInit, Init, RingInv, Cells
  <1>2. CallTypes
    <2>1. op = "none" /\ str = <<>> /\ left = <<>> /\ buf = <<>> /\ due = <<>> /\ cut = FALSE
      BY DEF StringInit
    <2> QED BY <2>1, EmptySeq DEF CallTypes
  <1>3. due = <<>> /\ op = "none" /\ num = 0
    BY DEF StringInit, Init
  <1>4. Len(due) = 0 /\ Held = 0 /\ num - Held = 0
    BY <1>3 DEF Held
  <1>5. PICK pos : pos \in [1..Len(due) -> Int]
    <2>1. [j \in 1..Len(due) |-> 0] \in [1..Len(due) -> Int]
      OBVIOUS
    <2> QED BY <2>1
  <1>6. Whole(pos)
    BY <1>3, <1>4 DEF Whole, Laid
  <1> QED BY <1>1, <1>2, <1>5, <1>6 DEF StringInv

\* dequeue_str delivers the strings one by one, each whole and in the order they
\* were put in, for every capacity and all strings, through wraps and empty
\* strings, and also when callers have taken characters of the first one by one:
\* then it delivers the rest.  Nothing is proved while a character put in alone or
\* a part of a string is in the queue (enqueue_str, dequeue_str).
THEOREM StringsComeOutWhole == StringSpec => TakesNextString
  <1>1. StringInv /\ [StringNext]_stringVars => StringInv' /\ [NextStringTaken]_stringVars
    BY StringStep
  <1> QED BY <1>1, StringInit0, PTL DEF StringSpec, TakesNextString, NextStringTaken
=============================================================================
