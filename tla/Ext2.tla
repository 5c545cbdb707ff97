-------------------------------- MODULE Ext2 --------------------------------
(***************************************************************************)
(* check_ext2 of fs/ext2.c up to the table of inodes: the super block, the *)
(* descriptor of the first block group, and create_inode_table2, which     *)
(* reads the group's table block by block.  Each step uses what one        *)
(* ahci_read_byte has brought: pool, for each sector read the one of the   *)
(* disk it came from.  A sector holds zeros where nothing else is said.    *)
(*                                                                         *)
(* create_inode_table does the same.  The table is then lost, because the  *)
(* pointer to it is assigned to a parameter, and what the directories are  *)
(* walked with is a null pointer: that walk is left out.                   *)
(***************************************************************************)
EXTENDS Integers

CONSTANTS
    SectorInodes,   \* inodes of 128 bytes in a sector: 4
    Filesystems     \* bound: [s_log_block_size, s_inodes_per_group, bg_inode_table]

ASSUME SectorInodesAssumption == SectorInodes \in Nat \ {0}
ASSUME FilesystemsAssumption ==
    \A f \in Filesystems : /\ f.s_log_block_size \in Nat /\ f.s_inodes_per_group \in Nat \ {0}
                           /\ f.bg_inode_table \in Nat
\* What the provers do not know of powers.
ASSUME PowersAssumption == \A f \in Filesystems : 2^f.s_log_block_size \in Nat \ {0}

VARIABLES
    fs,             \* what is on the disk
    at_ext2,        \* what check_ext2 reads next, or "root" when it has its table
    i,              \* the loop of create_inode_table2: the block
    block_size,     \* of what has been read: s_log_block_size, as 1024-byte units,
    s_inodes_per_group,
    bg_inode_table,
    inode_table     \* the inodes by their number on the disk

statics == <<block_size, s_inodes_per_group, bg_inode_table>>
ext2Vars == <<fs, at_ext2, i, statics, inode_table>>

Ext2Init ==
    /\ fs \in Filesystems
    /\ at_ext2 = "sblock" /\ i = 0
    /\ block_size = 0 /\ s_inodes_per_group = 0 /\ bg_inode_table = 0
    /\ inode_table = <<>>

-----------------------------------------------------------------------------
(* The disk, by sectors *)

SectorsOf(log) == 2 * 2^log
FirstData == IF fs.s_log_block_size = 0 THEN 1 ELSE 0
DescriptorSector == (FirstData + 1) * SectorsOf(fs.s_log_block_size)
TableSector == fs.bg_inode_table * SectorsOf(fs.s_log_block_size)

\* The n-th inode of sector s, counted from 0, or zeros.
NotAnInode == -1
InodeAt(s, n) == IF s >= TableSector THEN (s - TableSector) * SectorInodes + n ELSE NotAnInode

-----------------------------------------------------------------------------
(* check_ext2 *)

BLOCK == 2 * block_size
inodes_per_block == BLOCK * SectorInodes
nblock_inode_table ==
    (s_inodes_per_group \div inodes_per_block)
        + (IF s_inodes_per_group % inodes_per_block # 0 THEN 1 ELSE 0)
table_len == inodes_per_block * nblock_inode_table

\* The parameters of the next ahci_read_byte: start and number of sectors.  The
\* sector of the descriptor is fixed.
Request ==
    CASE at_ext2 = "sblock" -> <<2, 2>>
      [] at_ext2 = "descriptor" -> <<4, 2>>
      [] at_ext2 = "inodes" -> <<(bg_inode_table + i) * BLOCK, BLOCK>>

ext2_check_sblock(pool) ==
    /\ at_ext2 = "sblock" /\ at_ext2' = "descriptor"
    /\ block_size' = IF pool[0] = 2 THEN 2^fs.s_log_block_size ELSE 1
    /\ s_inodes_per_group' = IF pool[0] = 2 THEN fs.s_inodes_per_group ELSE 0
    /\ UNCHANGED <<fs, i, bg_inode_table, inode_table>>

\* With the allocation of the table, which is assumed to succeed, as those of the
\* blocks it is read through: the code does not look at what kmalloc answers.
ext2_check_bg_dsc2(pool) ==
    /\ at_ext2 = "descriptor" /\ at_ext2' = "inodes"
    /\ bg_inode_table' = IF pool[0] = DescriptorSector THEN fs.bg_inode_table ELSE 0
    /\ inode_table' = [n \in 0..(table_len - 1) |-> NotAnInode]
    /\ UNCHANGED <<fs, i, block_size, s_inodes_per_group>>

\* Mutant: a whole block is added to the place for every block before.
create_inode_table2_wide(pool) ==
    /\ at_ext2 = "inodes"
    /\ inode_table' = [n \in 0..(table_len - 1) |->
           LET j == n - (i + inodes_per_block * i)
           IN  IF j \in 0..(inodes_per_block - 1)
               THEN InodeAt(pool[j \div SectorInodes], j % SectorInodes) ELSE inode_table[n]]
    /\ i' = i + 1
    /\ at_ext2' = IF i' < nblock_inode_table THEN "inodes" ELSE "root"
    /\ UNCHANGED <<fs, statics>>

\* One turn: the inodes of a block go to i + j + (inodes_per_block - 1) * i.
create_inode_table2(pool) ==
    /\ at_ext2 = "inodes"
    /\ inode_table' = [n \in 0..(table_len - 1) |->
           LET j == n - (i + (inodes_per_block - 1) * i)
           IN  IF j \in 0..(inodes_per_block - 1)
               THEN InodeAt(pool[j \div SectorInodes], j % SectorInodes) ELSE inode_table[n]]
    /\ i' = i + 1
    /\ at_ext2' = IF i' < nblock_inode_table THEN "inodes" ELSE "root"
    /\ UNCHANGED <<fs, statics>>

Uses(pool) ==
    ext2_check_sblock(pool) \/ ext2_check_bg_dsc2(pool) \/ create_inode_table2(pool)

-----------------------------------------------------------------------------
\* The table in memory is that of the group on the disk, every inode at its place,
\* also when the last block is full only in part, if the heap has room for it; but with blocks of more than
\* 2 KB the descriptor is looked for in the wrong sector (check_ext2,
\* create_inode_table2, ahci_read_byte).
TableIsDisk ==
    at_ext2 = "root" /\ fs.s_log_block_size <= 1 =>
        \A n \in 0..(fs.s_inodes_per_group - 1) : inode_table[n] = n
=============================================================================
