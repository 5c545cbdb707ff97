------------------------------ MODULE MCKernel ------------------------------
(***************************************************************************)
(* Kernel for TLC: one upright screen whose lines are longer than what is  *)
(* shown, and one on which the second key does not fit into a line; the    *)
(* firmware keeps 64 KB just below 1 GB.                                   *)
(***************************************************************************)
EXTENDS Kernel

Upright == [hor |-> 720, ver |-> 1280, ppsl |-> 736]
Narrow == [hor |-> 62, ver |-> 60, ppsl |-> 80]
TwoModes == {Upright, Narrow}

FirmwareBelow1GB == {Span(1073676288, 65536)}
=============================================================================
