------------------------------ MODULE MHTDisk ------------------------------
(***************************************************************************)
(* The MHT file: a 128-byte header followed by 70-byte blocks, one per     *)
(* node of the tree (mhtfile.h, defs.h).                                   *)
(*                                                                         *)
(* A byte offset 128 + 70*(p-1) is the block position p, and the offset 0  *)
(* (UNASSIGNED_OFFSET) is position 0.  The child and parent offsets of a   *)
(* block are relative and counted in blocks, as in the file.  A position   *)
(* past the end of the file holds ZeroBlock: the readers clear their       *)
(* buffer and ignore the count returned by read().                         *)
(***************************************************************************)
EXTENDS MHTHash

CONSTANTS
    MaxPos,     \* bound on the number of blocks of a file
    NoPage      \* UNASSIGNED_PAGENO (0x7FFFFFFF), larger than every real page

ASSUME DiskAssumption == MaxPos \in Nat \ {0} /\ NoPage \in Nat \ {0}

VARIABLES
    file,       \* the blocks, by position
    hdr         \* the header: rootNodeOffset and firstSupplementaryLeafOffset

Pos  == 1 .. MaxPos
NoPos == 0                      \* UNASSIGNED_OFFSET

(* First byte of the reserved field: 0x01 in the root block, 'R' in every  *)
(* other block that was written, 0 in a cleared buffer.                    *)
Mark == {"root", "R", "zero"}

Block == [pn : Nat, lvl : Nat, h : Hash, isn : BOOLEAN, izn : BOOLEAN,
          lcpn : Nat, lcos : Int, rcpn : Nat, rcos : Int,
          ppn : Nat, pos : Int, rsvd : Mark]

ZeroBlock == [pn |-> 0, lvl |-> 0, h |-> NullHash, isn |-> FALSE, izn |-> FALSE,
              lcpn |-> 0, lcos |-> 0, rcpn |-> 0, rcos |-> 0,
              ppn |-> 0, pos |-> 0, rsvd |-> "zero"]

Header == [rno : 0 .. MaxPos, fslo : 0 .. MaxPos]

DiskTypeOK == file \in [Pos -> Block] /\ hdr \in Header

-----------------------------------------------------------------------------
(* The reader behind fo_read_mht_block2.                                   *)
Read(f, p) == IF p \in Pos THEN f[p] ELSE ZeroBlock

Lchild(f, p) == p + Read(f, p).lcos
Rchild(f, p) == p + Read(f, p).rcos
Parent(f, p) == p + Read(f, p).pos

IsInterior(f, p) == Read(f, p).lvl > 0

(* The condition of the loops that climb from a block towards the root:    *)
(* the block is not marked as the root and it has a parent offset.         *)
Climbs(f, p) == Read(f, p).rsvd # "root" /\ Read(f, p).pos # 0

(* cal_parent_nodes_sha256: the hash of block p computed from the two      *)
(* child hashes found in the file, and the block that carries it.          *)
ChildrenHash(f, p) == Combine(Read(f, Lchild(f, p)).h, Read(f, Rchild(f, p)).h)

(* Faulty variant: the children change places.                             *)
RehashedSwapped(f, p) ==
    [Read(f, p) EXCEPT !.h = Combine(Read(f, Rchild(f, p)).h, Read(f, Lchild(f, p)).h)]

Rehashed(f, p) == [Read(f, p) EXCEPT !.h = ChildrenHash(f, p)]

-----------------------------------------------------------------------------
(* What a correct file looks like.  These predicates translate no code;    *)
(* the properties are stated with them.                                    *)

(* The hash of block p is the combination of its children's hashes.        *)
MerkleAt(f, p) == Read(f, p).h = ChildrenHash(f, p)

(* Child and parent offsets are inverse to each other, the one block       *)
(* marked as the root is r, and every other written block has a parent.    *)
WellLinked(f, r) ==
    /\ r \in Pos /\ f[r].rsvd = "root"
    /\ \A p \in Pos : f[p].rsvd = "root" => p = r
    /\ \A p \in Pos : f[p].lvl > 0 =>
          /\ f[p].rsvd # "zero"
          /\ \A c \in {Lchild(f, p), Rchild(f, p)} :
                c \in Pos /\ f[c].rsvd = "R" /\ Parent(f, c) = p
    /\ \A p \in Pos : f[p].rsvd = "R" =>
          /\ f[p].pos # 0
          /\ Parent(f, p) \in Pos
          /\ f[Parent(f, p)].lvl > 0
          /\ p \in {Lchild(f, Parent(f, p)), Rchild(f, Parent(f, p))}
=============================================================================
