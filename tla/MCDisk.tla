------------------------------- MODULE MCDisk -------------------------------
(***************************************************************************)
(* Disk for TLC: two devices with two functions each, in which there is no *)
(* AHCI controller, or there are two behind an IDE controller; file        *)
(* systems of blocks of one, two and four KB whose last block of inodes is *)
(* part full.                                                              *)
(***************************************************************************)
EXTENDS Disk

Nothing == [r \in Registers |-> Ones]
Plugged(class, subclass, bar) ==
    [r \in Registers |-> CASE r = 0 -> <<134, 128, 34, 41>>
                           [] r = 8 -> <<2, 1, subclass, class>>
                           [] r = 36 -> <<0, 0, 0, bar>>]
Machine(a, b, c, d) ==
    [f \in Functions |-> CASE f[2] = 0 /\ f[3] = 0 -> a [] f[2] = 0 /\ f[3] = 1 -> b
                           [] f[2] = 1 /\ f[3] = 0 -> c [] OTHER -> d]
Bridge == Plugged(6, 1, 0)
Ide == Plugged(1, 1, 1)
TwoMachines ==
    {Machine(Bridge, Nothing, Ide, Nothing),
     Machine(Bridge, Ide, Plugged(1, 6, 254), Plugged(1, 6, 250))}

ThreeSets == {{0}, {0, 1}, {1}}

ThreeFilesystems ==
    {[s_log_block_size |-> 0, s_inodes_per_group |-> 5, bg_inode_table |-> 5],
     [s_log_block_size |-> 1, s_inodes_per_group |-> 6, bg_inode_table |-> 3],
     [s_log_block_size |-> 2, s_inodes_per_group |-> 9, bg_inode_table |-> 1]}

\* One sector, one entry, and more.
FourRequests == {<<0, 1>>, <<3, 2>>, <<0, 5>>, <<3, 5>>}
=============================================================================
