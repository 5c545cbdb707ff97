---------------------------- MODULE BoundedFifo ----------------------------
(***************************************************************************)
(* What a caller of enqueue_sem/dequeue_sem (and of enqueue_char and       *)
(* dequeue_char, which are the same code over characters) may rely on: a   *)
(* first-in first-out buffer of at most Size values that refuses a value   *)
(* when it is full and hands out nothing when it is empty.                 *)
(***************************************************************************)
EXTENDS Naturals, Sequences

CONSTANTS Size,     \* capacity
          Values,   \* what the buffer holds
          Empty     \* what a caller's variable holds before anything is read

VARIABLES buf,      \* the values inside, oldest first
          ret,      \* what the last call returned: 1 on success, 0 otherwise
          got       \* what the last successful read delivered

fifoVars == <<buf, ret, got>>

Init == buf = <<>> /\ ret = 1 /\ got = Empty

Put(v) == IF Len(buf) < Size
          THEN buf' = Append(buf, v) /\ ret' = 1 /\ UNCHANGED got
          ELSE ret' = 0 /\ UNCHANGED <<buf, got>>

Take == IF buf # <<>>
        THEN buf' = Tail(buf) /\ got' = Head(buf) /\ ret' = 1
        ELSE ret' = 0 /\ UNCHANGED <<buf, got>>

Clear == buf' = <<>> /\ UNCHANGED <<ret, got>>

Next == (\E v \in Values : Put(v)) \/ Take \/ Clear

Spec == Init /\ [][Next]_fifoVars
=============================================================================
