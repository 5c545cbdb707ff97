---------------------------- MODULE StringQueue ----------------------------
(***************************************************************************)
(* The string calls of queue_char (util.c) on top of the single characters *)
(* of RingQueue, one step per character: enqueue_str and dequeue_str hold  *)
(* no lock, and each is a loop of enqueue_char or dequeue_char.  Nul is    *)
(* the terminator of a string, Empty the filler of a flush: one byte, 0,   *)
(* under two names, so that a cell in use is told from a free one.         *)
(***************************************************************************)
EXTENDS RingQueue

CONSTANTS Nul,      \* '\0' at the end of a string
          Strings   \* bound: the strings put in, without their terminator

ASSUME NulAssumption == Nul \in Values
ASSUME StringsAssumption == Strings \subseteq Seq(Values \ {Nul})

VARIABLES op,       \* the call under way: "none", "enqueue", "skip", "read"
          str,      \* the string of enqueue_str
          left,     \* what it has still to put in, with the terminator
          buf,      \* the caller's buffer of dequeue_str
          due,      \* history: strings put in whole and not yet read
          cut       \* history: characters are inside that are no whole string

callVars == <<op, str, left, buf>>
stringVars == <<ringVars, callVars, due, cut>>

StringInit == Init /\ op = "none" /\ str = <<>> /\ left = <<>> /\ buf = <<>> /\ due = <<>> /\ cut = FALSE

\* The strings that are due when the character in front is taken alone.
Shortened ==
    IF Len(Head(due)) = 1 THEN Tail(due) ELSE <<Tail(Head(due))>> \o Tail(due)

\* Calls for single characters in between.  One put in is no whole string; one
\* taken shortens the string it belongs to, and the empty queue holds no part.
Characters ==
    /\ op = "none"
    /\ \/ /\ \E v \in Values : enqueue_sem(v)
          /\ cut' = TRUE /\ due' = <<>>
       \/ /\ dequeue_sem
          /\ cut' = (cut /\ num' # 0)
          /\ due' = IF num' = 0 THEN <<>> ELSE IF cut \/ got' = Nul THEN due ELSE Shortened
       \/ /\ flush_queue_sem
          /\ cut' = FALSE /\ due' = <<>>
    /\ UNCHANGED callVars

enqueue_str(s) ==
    /\ op = "none"
    /\ op' = "enqueue" /\ str' = s /\ left' = Append(s, Nul)
    /\ UNCHANGED <<ringVars, buf, due, cut>>

\* Mutant: the terminator is forgotten.
puts_but_last ==
    /\ op = "enqueue"
    /\ IF num < Size /\ Len(left) > 1
       THEN /\ enqueue_sem(Head(left))
            /\ left' = Tail(left)
            /\ UNCHANGED <<op, due, cut>>
       ELSE /\ op' = "none"
            /\ due' = IF cut \/ str = <<>> \/ Len(left) > 1 THEN due ELSE Append(due, str)
            /\ UNCHANGED <<ringVars, left, cut>>
    /\ UNCHANGED <<str, buf>>

\* Out of room, it returns 0 and leaves in the queue what has gone in.
puts_char ==
    /\ op = "enqueue"
    /\ enqueue_sem(Head(left))
    /\ left' = Tail(left)
    /\ op' = IF num = Size \/ left' = <<>> THEN "none" ELSE "enqueue"
    /\ cut' = (cut \/ (num = Size /\ Len(left) <= Len(str)))
    /\ due' = IF num < Size /\ left' = <<>> /\ str # <<>> /\ ~cut THEN Append(due, str) ELSE due
    /\ UNCHANGED <<str, buf>>

dequeue_str ==
    /\ op = "none"
    /\ op' = "skip" /\ buf' = <<>>
    /\ UNCHANGED <<ringVars, str, left, due, cut>>

\* The cell at the head, which an empty queue has too.
queue_char_head == que[head]
AtZero == queue_char_head \in {Nul, Empty}

\* Mutant: the zero is looked at and left.
skips_nothing == op = "skip" /\ AtZero /\ UNCHANGED stringVars

\* The zeros in front, into `dust'.
skips_zero ==
    /\ op = "skip" /\ AtZero
    /\ dequeue_sem
    /\ UNCHANGED <<callVars, due, cut>>

finds_text ==
    /\ op = "skip" /\ ~AtZero
    /\ op' = "read"
    /\ UNCHANGED <<ringVars, str, left, buf, due, cut>>

\* 1 at the terminator, 0 when there is nothing more.
reads_char ==
    /\ op = "read"
    /\ dequeue_sem
    /\ IF num = 0
       THEN op' = "none" /\ due' = <<>> /\ cut' = FALSE /\ UNCHANGED buf
       ELSE /\ buf' = Append(buf, got')
            /\ op' = IF got' = Nul THEN "none" ELSE "read"
            /\ due' = IF got' = Nul /\ due # <<>> THEN Tail(due) ELSE due
            /\ UNCHANGED cut
    /\ UNCHANGED <<str, left>>

StringCall == puts_char \/ skips_zero \/ finds_text \/ reads_char
StringNext == Characters \/ (\E s \in Strings : enqueue_str(s)) \/ dequeue_str \/ StringCall

StringSpec == StringInit /\ [][StringNext]_stringVars /\ WF_stringVars(StringCall)

-----------------------------------------------------------------------------
\* Each dequeue_str that answers 1 delivers the next string that is not empty,
\* with its terminator, less the characters a caller has taken from its front one
\* by one; and one that answers 0 has found no string and written nothing, though
\* the cells of an empty queue keep old text (enqueue_str, dequeue_str).  Nothing
\* is said while the queue holds a character put in alone or a part of a string
\* that found no room: from then until it is flushed, or found or made empty.
TakesNextString ==
    [][op = "read" /\ op' = "none" /\ ~cut =>
           IF num = 0 THEN due = <<>> /\ buf' = <<>>
           ELSE due # <<>> /\ buf' = Append(Head(due), Nul)]_stringVars

\* dequeue_str gets past the zeros at the head and returns, unless they are all
\* there is: then the cell at the head stays a zero and it never returns.
NothingButZeros == num = 0 /\ AtZero
ReadReturns == [](op \in {"skip", "read"} => <>(op = "none" \/ NothingButZeros))
=============================================================================
