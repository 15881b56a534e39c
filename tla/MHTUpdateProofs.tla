-------------------------- MODULE MHTUpdateProofs --------------------------
(***************************************************************************)
(* Proofs about MHTUpdate, for every file, page set and hash set that meet *)
(* UpdateAssumption: the Merkle property survives updates and crashes but  *)
(* for the blocks a crash left stale, each of which lies above a leaf      *)
(* whose update was cut; searches find the pages of the tree, and the walk *)
(* ends at the root; a changed hash shows, if no hash holds a zero byte.   *)
(***************************************************************************)
EXTENDS MHTUpdate, MHTNodeProofs

(* The strengthening: the file stays well linked, and the block in the     *)
(* walk's buffer is a block of the tree.                                   *)
WalkOnTree ==
    /\ pc \in {"search", "path"} => cur \in Pos /\ file[cur].rsvd # "zero"
    /\ pc = "search" /\ ret # NoPos => ret = cur

IInv ==
    /\ TypeOK
    /\ WellLinked(file, hdr.rno)
    /\ WalkOnTree
    /\ MerkleUnlessTorn

-----------------------------------------------------------------------------
(* What WellLinked says of one interior block and of one climbing block.   *)
LEMMA Children ==
    ASSUME NEW f \in [Pos -> Block], NEW r, WellLinked(f, r),
           NEW p \in Pos, f[p].lvl > 0, NEW c \in {Lchild(f, p), Rchild(f, p)}
    PROVE  /\ c \in Pos /\ c # p /\ f[c].rsvd = "R" /\ f[c].pos # 0
           /\ Climbs(f, c) /\ Parent(f, c) = p
<1>1. c \in Pos /\ f[c].rsvd = "R" /\ Parent(f, c) = p
  BY DEF WellLinked
<1>2. f[c].pos # 0
  BY <1>1 DEF WellLinked
<1>3. c \in Int /\ f[c].pos \in Int
  BY <1>1 DEF Pos, Block
<1>4. c # p
  BY <1>1, <1>2, <1>3 DEF Parent, Read
<1>5. QED
  BY <1>1, <1>2, <1>4 DEF Climbs, Read

LEMMA ParentOnTree ==
    ASSUME NEW f \in [Pos -> Block], NEW r, WellLinked(f, r),
           NEW p \in Pos, f[p].rsvd # "zero", Climbs(f, p)
    PROVE  /\ Parent(f, p) \in Pos
           /\ f[Parent(f, p)].lvl > 0
           /\ f[Parent(f, p)].rsvd # "zero"
           /\ p \in {Lchild(f, Parent(f, p)), Rchild(f, Parent(f, p))}
<1>1. f[p].rsvd = "R"
  BY DEF Climbs, Read, Block, Mark
<1>2. QED
  BY <1>1 DEF WellLinked

(* WellLinked reads no hash.                                               *)
LEMMA HashFrame ==
    ASSUME NEW f \in [Pos -> Block], NEW g \in [Pos -> Block], NEW r,
           \A p \in Pos : SameButHash(g[p], f[p]),
           WellLinked(f, r)
    PROVE  WellLinked(g, r)
<1>1. \A p \in Pos : /\ g[p].lvl = f[p].lvl /\ g[p].rsvd = f[p].rsvd
                     /\ g[p].lcos = f[p].lcos /\ g[p].rcos = f[p].rcos
                     /\ g[p].pos = f[p].pos
  BY DEF SameButHash, Block
<1>2. \A p \in Pos : /\ Lchild(g, p) = Lchild(f, p)
                     /\ Rchild(g, p) = Rchild(f, p)
                     /\ Parent(g, p) = Parent(f, p)
  BY <1>1 DEF Lchild, Rchild, Parent, Read
<1>3. QED
  BY <1>1, <1>2 DEF WellLinked

-----------------------------------------------------------------------------
LEMMA BlockFacts ==
    /\ ZeroBlock \in Block
    /\ \A f \in [Pos -> Block] : \A p : Read(f, p) \in Block
    /\ \A f \in [Pos -> Block] : \A p : Rehashed(f, p) \in Block
<1>1. NullHash \in Hash
  BY DEF NullHash, Hash, Byte
<1>2. ZeroBlock \in Block
  BY <1>1 DEF ZeroBlock, Block, Mark
<1>3. ASSUME NEW f \in [Pos -> Block], NEW p PROVE Read(f, p) \in Block
  BY <1>2 DEF Read
<1>4. ASSUME NEW f \in [Pos -> Block], NEW p PROVE Rehashed(f, p) \in Block
  <2>1. /\ Read(f, p) \in Block
        /\ Read(f, Lchild(f, p)).h \in Hash
        /\ Read(f, Rchild(f, p)).h \in Hash
    BY <1>3 DEF Block
  <2>2. ChildrenHash(f, p) \in Hash
    BY <2>1, CombineType DEF ChildrenHash
  <2>3. QED
    BY <2>1, <2>2 DEF Rehashed, Block
<1>5. QED
  BY <1>2, <1>3, <1>4

LEMMA InitInv == Init => IInv
<1> SUFFICES ASSUME Init PROVE IInv
  OBVIOUS
<1>1. PICK d \in InitDisks : file = d.file /\ hdr = d.hdr
  BY DEF Init
<1>2. WellFormed(d)
  BY UpdateAssumption
<1>3. NullHash \in Hash
  BY DEF NullHash, Hash, Byte
<1>4. TypeOK
  BY <1>1, <1>2, <1>3, DiskAssumption DEF Init, TypeOK, DiskTypeOK, WellFormed, NoOp, NoPos
<1>5. WellLinked(file, hdr.rno)
  BY <1>1, <1>2 DEF WellFormed
<1>6. WalkOnTree
  BY DEF Init, WalkOnTree
<1>7. MerkleUnlessTorn
  BY <1>1, <1>2 DEF MerkleUnlessTorn, WellFormed
<1>8. QED
  BY <1>4, <1>5, <1>6, <1>7 DEF IInv

-----------------------------------------------------------------------------
(* Steps that write nothing: the search, its failure, the end of an        *)
(* update.                                                                 *)
LEMMA StartInv == IInv /\ (\E args \in Args : StartUpdate(args)) => IInv'
<1> SUFFICES ASSUME IInv, NEW args \in Args, StartUpdate(args) PROVE IInv'
  OBVIOUS
<1> USE DEF IInv
<1>1. UNCHANGED <<file, hdr, torn, cut>> /\ pc' = "search" /\ pc = "idle"
  BY DEF StartUpdate, BeginSearch
<1>2. args \in [page : Nat, hash : Hash]
  BY UpdateAssumption DEF Args
<1>3. TypeOK'
  BY <1>1, <1>2, DiskAssumption
     DEF StartUpdate, BeginSearch, TypeOK, DiskTypeOK, Header, NoPos
<1>4. WellLinked(file, hdr.rno)'
  BY <1>1
<1>5. WalkOnTree'
  BY <1>1 DEF StartUpdate, BeginSearch, WalkOnTree, WellLinked
<1>6. MerkleUnlessTorn'
  BY <1>1 DEF MerkleUnlessTorn, MerkleAt, ChildrenHash, IsInterior, Pending
<1>7. QED
  BY <1>3, <1>4, <1>5, <1>6

LEMMA SearchInv == IInv /\ Search => IInv'
<1> SUFFICES ASSUME IInv, Search PROVE IInv'
  OBVIOUS
<1> USE DEF IInv
<1>1. /\ UNCHANGED <<file, hdr, pc, op, torn, cut>> /\ pc = "search"
      /\ ret' = cur' /\ cur' \in {Lchild(file, cur), Rchild(file, cur)}
  BY DEF Search, SearchStep
<1>2. cur \in Pos /\ file[cur].lvl > 0
  BY <1>1 DEF WalkOnTree, Search, SearchStep, IsInterior, Read
<1>3. cur' \in Pos /\ file[cur'].rsvd = "R"
  <2>1. file \in [Pos -> Block]
    BY DEF TypeOK, DiskTypeOK
  <2>2. QED
    BY <1>1, <1>2, <2>1, Children
<1>4. TypeOK'
  BY <1>1, <1>3, DiskAssumption DEF TypeOK, DiskTypeOK, Pos
<1>5. WellLinked(file, hdr.rno)'
  BY <1>1
<1>6. WalkOnTree'
  BY <1>1, <1>3 DEF WalkOnTree
<1>7. MerkleUnlessTorn'
  BY <1>1 DEF MerkleUnlessTorn, MerkleAt, ChildrenHash, IsInterior, Pending
<1>8. QED
  BY <1>4, <1>5, <1>6, <1>7

LEMMA ReturnInv == IInv /\ (Fail \/ Finish) => IInv'
<1> SUFFICES ASSUME IInv, Fail \/ Finish PROVE IInv'
  OBVIOUS
<1> USE DEF IInv
<1>1. UNCHANGED <<file, hdr, op, cur, ret, torn>> /\ pc' = "idle" /\ cut' \subseteq cut
  BY DEF Fail, Finish
<1>2. Pending = {}
  BY DEF Fail, Finish, NotFound, AtLeaf, PathEnded, Pending
<1>3. TypeOK'
  BY <1>1 DEF TypeOK, DiskTypeOK
<1>4. WellLinked(file, hdr.rno)'
  BY <1>1
<1>5. WalkOnTree'
  BY <1>1 DEF WalkOnTree
<1>6. MerkleUnlessTorn'
  BY <1>1, <1>2 DEF MerkleUnlessTorn, MerkleAt, ChildrenHash, IsInterior, Pending
<1>7. QED
  BY <1>3, <1>4, <1>5, <1>6

-----------------------------------------------------------------------------
(* A write of block b that changes its hash only leaves every interior     *)
(* block consistent that is neither b nor the parent of b.                 *)
LEMMA WriteFrame ==
    ASSUME NEW f \in [Pos -> Block], NEW r, WellLinked(f, r),
           NEW b \in Pos, NEW blk \in Block, SameButHash(blk, f[b]),
           NEW p \in Pos, p # b, f[p].lvl > 0, MerkleAt(f, p),
           ~(Climbs(f, b) /\ Parent(f, b) = p)
    PROVE  MerkleAt([f EXCEPT ![b] = blk], p)
<1> DEFINE g == [f EXCEPT ![b] = blk]
           lc == Lchild(f, p)
           rc == Rchild(f, p)
<1>1. /\ lc \in Pos /\ rc \in Pos
      /\ lc # b /\ rc # b
  BY Children
<1>2. Read(g, p) = Read(f, p)
  BY DEF Read
<1>3. Lchild(g, p) = lc /\ Rchild(g, p) = rc
  BY <1>2 DEF Lchild, Rchild
<1>4. Read(g, lc) = Read(f, lc) /\ Read(g, rc) = Read(f, rc)
  BY <1>1 DEF Read
<1>5. QED
  BY <1>2, <1>3, <1>4 DEF MerkleAt, ChildrenHash

LEMMA WriteLeafInv == IInv /\ WriteLeaf => IInv'
<1> SUFFICES ASSUME IInv, WriteLeaf PROVE IInv'
  OBVIOUS
<1> USE DEF IInv
<1> DEFINE blk == [file[ret] EXCEPT !.h = op.hash]
<1>1. /\ UNCHANGED <<hdr, op, ret, torn, cut>>
      /\ pc = "search" /\ pc' = "path" /\ cur' = ret
      /\ file' = [file EXCEPT ![ret] = blk]
  BY DEF WriteLeaf, Found, AtLeaf
<1>2. ret \in Pos /\ cur = ret /\ file[ret].rsvd # "zero" /\ ~(file[ret].lvl > 0)
  BY DEF WriteLeaf, Found, AtLeaf, WalkOnTree, IsInterior, Read
<1>3. file \in [Pos -> Block] /\ op.hash \in Hash
  BY DEF TypeOK, DiskTypeOK
<1>4. blk \in Block /\ SameButHash(blk, file[ret])
  BY <1>2, <1>3 DEF Block, SameButHash
<1>5. file' \in [Pos -> Block] /\ \A p \in Pos : SameButHash(file'[p], file[p])
  BY <1>1, <1>2, <1>3, <1>4 DEF SameButHash, Block
<1>6. TypeOK'
  BY <1>1, <1>5 DEF TypeOK, DiskTypeOK
<1>7. WellLinked(file, hdr.rno)'
  BY <1>1, <1>3, <1>5, HashFrame
<1>8. WalkOnTree'
  BY <1>1, <1>2, <1>3, <1>4 DEF WalkOnTree, SameButHash, Block
<1>9. MerkleUnlessTorn'
  <2> SUFFICES ASSUME NEW p \in Pos, IsInterior(file', p), p \notin torn' \cup Pending'
               PROVE  MerkleAt(file', p)
    BY DEF MerkleUnlessTorn
  <2>1. p # ret /\ file[p].lvl > 0
    BY <1>1, <1>2, <1>4 DEF IsInterior, Read, SameButHash, Block
  <2>2. MerkleAt(file, p)
    BY <1>1, <2>1 DEF MerkleUnlessTorn, IsInterior, Read, Pending
  <2>3. ~(Climbs(file, ret) /\ Parent(file, ret) = p)
    <3>1. SUFFICES ASSUME Climbs(file, ret), Parent(file, ret) = p PROVE FALSE
      OBVIOUS
    <3>2. Read(file', ret) = blk /\ Read(file, ret) = file[ret]
      BY <1>1, <1>2, <1>3 DEF Read
    <3>3. blk.pos = file[ret].pos /\ blk.rsvd = file[ret].rsvd
      BY <1>2, <1>3 DEF Block
    <3>4. Climbs(file', ret) /\ Parent(file', ret) = p
      BY <3>1, <3>2, <3>3 DEF Climbs, Parent
    <3>5. QED
      BY <1>1, <3>4 DEF Pending
  <2>4. QED
    BY <1>1, <1>2, <1>3, <1>4, <2>1, <2>2, <2>3, WriteFrame
<1>10. QED
  BY <1>6, <1>7, <1>8, <1>9

LEMMA ClimbInv == IInv /\ Climb => IInv'
<1> SUFFICES ASSUME IInv, Climb PROVE IInv'
  OBVIOUS
<1> USE DEF IInv
<1> DEFINE par == Parent(file, cur)
           blk == Rehashed(file, par)
<1>1. /\ UNCHANGED <<hdr, pc, op, ret, cut>>
      /\ pc = "path" /\ Climbs(file, cur)
      /\ cur' = par /\ torn' = torn \ {par}
      /\ file' = [file EXCEPT ![par] = blk]
  BY DEF Climb, PathStep
<1>2. file \in [Pos -> Block] /\ cur \in Pos /\ file[cur].rsvd # "zero"
  BY <1>1 DEF TypeOK, DiskTypeOK, WalkOnTree
<1>3. par \in Pos /\ file[par].lvl > 0 /\ file[par].rsvd # "zero"
  BY <1>1, <1>2, ParentOnTree
<1>4. blk \in Block /\ SameButHash(blk, file[par]) /\ blk.h = ChildrenHash(file, par)
  <2>1. Read(file, par) = file[par] /\ file[par] \in Block
    BY <1>2, <1>3 DEF Read
  <2>2. blk \in Block
    BY <1>2, BlockFacts
  <2>3. QED
    BY <2>1, <2>2 DEF Rehashed, SameButHash, Block
<1> HIDE DEF blk
<1>5. file' \in [Pos -> Block] /\ \A p \in Pos : SameButHash(file'[p], file[p])
  BY <1>1, <1>2, <1>3, <1>4 DEF SameButHash, Block
<1>6. TypeOK'
  <2>1. cur' \in 0 .. MaxPos
    BY <1>1, <1>3, DiskAssumption DEF Pos
  <2>2. torn' \subseteq Pos /\ DiskTypeOK'
    BY <1>1, <1>5 DEF TypeOK, DiskTypeOK
  <2>3. QED
    BY <1>1, <2>1, <2>2 DEF TypeOK
<1>7. WellLinked(file, hdr.rno)'
  BY <1>1, <1>2, <1>5, HashFrame
<1>8. WalkOnTree'
  BY <1>1, <1>2, <1>3, <1>4 DEF WalkOnTree, SameButHash, Block
<1>9. MerkleUnlessTorn'
  <2> SUFFICES ASSUME NEW p \in Pos, IsInterior(file', p), p \notin torn' \cup Pending'
               PROVE  MerkleAt(file', p)
    BY DEF MerkleUnlessTorn
  <2>1. CASE p = par
    <3>1. \A c \in {Lchild(file, par), Rchild(file, par)} : c \in Pos /\ c # par
      BY <1>2, <1>3, Children
    <3>2. Read(file', par) = blk
      BY <1>1, <1>2, <1>3, <1>5 DEF Read
    <3>3. blk.lcos = file[par].lcos /\ blk.rcos = file[par].rcos
      BY <1>2, <1>3, <1>4 DEF SameButHash, Block
    <3>4. Lchild(file', par) = Lchild(file, par) /\ Rchild(file', par) = Rchild(file, par)
      BY <1>3, <3>2, <3>3 DEF Lchild, Rchild, Read
    <3>5. /\ Read(file', Lchild(file, par)) = Read(file, Lchild(file, par))
          /\ Read(file', Rchild(file, par)) = Read(file, Rchild(file, par))
      BY <1>1, <1>2, <3>1 DEF Read
    <3>6. QED
      BY <1>4, <2>1, <3>2, <3>4, <3>5 DEF MerkleAt, ChildrenHash
  <2>2. CASE p # par
    <3>1. file[p].lvl > 0
      BY <1>1, <1>2, <2>2 DEF IsInterior, Read
    <3>2. MerkleAt(file, p)
      BY <1>1, <2>2, <3>1 DEF MerkleUnlessTorn, IsInterior, Read, Pending
    <3>3. ~(Climbs(file, par) /\ Parent(file, par) = p)
      <4>1. SUFFICES ASSUME Climbs(file, par), Parent(file, par) = p PROVE FALSE
        OBVIOUS
      <4>2. Read(file', par) = blk /\ Read(file, par) = file[par]
        BY <1>1, <1>2, <1>3, <1>5 DEF Read
      <4>3. blk.pos = file[par].pos /\ blk.rsvd = file[par].rsvd
        BY <1>2, <1>3, <1>4 DEF SameButHash, Block
      <4>4. Climbs(file', par) /\ Parent(file', par) = p
        BY <4>1, <4>2, <4>3 DEF Climbs, Parent
      <4>5. QED
        BY <1>1, <4>4 DEF Pending
    <3>4. QED
      BY <1>1, <1>2, <1>3, <1>4, <2>2, <3>1, <3>2, <3>3, WriteFrame
  <2>3. QED
    BY <2>1, <2>2
<1>10. QED
  BY <1>6, <1>7, <1>8, <1>9

(* A crash turns the block still to be recomputed into a torn one.         *)
LEMMA CrashInv == IInv /\ Crash => IInv'
<1> SUFFICES ASSUME IInv, Crash PROVE IInv'
  OBVIOUS
<1> USE DEF IInv
<1>1. /\ UNCHANGED <<file, hdr>> /\ pc' = "idle"
      /\ op' = NoOp /\ cur' = NoPos /\ ret' = NoPos
      /\ torn' = torn \cup Pending /\ cut' \subseteq cut \cup {op.page}
  BY DEF Crash
<1>2. Pending \subseteq Pos
  BY ParentOnTree DEF Pending, WalkOnTree, TypeOK, DiskTypeOK
<1>3. NullHash \in Hash
  BY DEF NullHash, Hash, Byte
<1>4. TypeOK'
  BY <1>1, <1>2, <1>3, DiskAssumption DEF TypeOK, DiskTypeOK, NoOp, NoPos
<1>5. WellLinked(file, hdr.rno)'
  BY <1>1
<1>6. WalkOnTree'
  BY <1>1 DEF WalkOnTree
<1>7. MerkleUnlessTorn'
  BY <1>1 DEF MerkleUnlessTorn, MerkleAt, ChildrenHash, IsInterior
<1>8. QED
  BY <1>4, <1>5, <1>6, <1>7

LEMMA StepInv == IInv /\ [Next]_vars => IInv'
<1> SUFFICES ASSUME IInv, [Next]_vars PROVE IInv'
  OBVIOUS
<1>1. CASE \E args \in Args : StartUpdate(args)
  BY <1>1, StartInv
<1>2. CASE Search
  BY <1>2, SearchInv
<1>3. CASE Fail \/ Finish
  BY <1>3, ReturnInv
<1>4. CASE WriteLeaf
  BY <1>4, WriteLeafInv
<1>5. CASE Climb
  BY <1>5, ClimbInv
<1>6. CASE Crash
  BY <1>6, CrashInv
<1>7. CASE UNCHANGED vars
  BY <1>7 DEF vars, IInv, TypeOK, DiskTypeOK, WalkOnTree, MerkleUnlessTorn,
              MerkleAt, ChildrenHash, IsInterior, Pending
<1>8. QED
  BY <1>1, <1>2, <1>3, <1>4, <1>5, <1>6, <1>7 DEF Next, Step

(* A step writes the hash field of one block, or no block at all.          *)
LEMMA ShapeStep ==
    IInv /\ [Next]_vars =>
        (\A p \in Pos : SameButHash(file'[p], file[p])) /\ hdr' = hdr
<1> SUFFICES ASSUME IInv, [Next]_vars
             PROVE  (\A p \in Pos : SameButHash(file'[p], file[p])) /\ hdr' = hdr
  OBVIOUS
<1>1. file \in [Pos -> Block]
  BY DEF IInv, TypeOK, DiskTypeOK
<1>2. \A b \in Block : SameButHash(b, b)
  BY DEF SameButHash, Block
<1>3. CASE UNCHANGED <<file, hdr>>
  BY <1>1, <1>2, <1>3
<1>4. CASE WriteLeaf
  <2>1. file' = [file EXCEPT ![ret] = [file[ret] EXCEPT !.h = op.hash]] /\ hdr' = hdr
    BY <1>4 DEF WriteLeaf
  <2>2. \A b \in Block : \A h : SameButHash([b EXCEPT !.h = h], b)
    BY DEF SameButHash, Block
  <2>3. QED
    BY <1>1, <1>2, <2>1, <2>2
<1>5. CASE Climb
  <2>1. /\ file' = [file EXCEPT ![Parent(file, cur)] = Rehashed(file, Parent(file, cur))]
        /\ hdr' = hdr
    BY <1>5 DEF Climb, PathStep
  <2>2. \A p \in Pos : SameButHash(Rehashed(file, p), file[p])
    BY <1>1 DEF Rehashed, Read, SameButHash, Block
  <2>3. QED
    BY <1>1, <1>2, <2>1, <2>2
<1>6. QED
  BY <1>3, <1>4, <1>5
     DEF Next, Step, vars, StartUpdate, BeginSearch, Search, SearchStep, Fail, Finish, Crash

-----------------------------------------------------------------------------
(* The inductive invariant holds throughout.                               *)
THEOREM Invariance == Spec => []IInv
<1>1. Init => IInv
  BY InitInv
<1>2. IInv /\ [Next]_vars => IInv'
  BY StepInv
<1>3. QED
  BY <1>1, <1>2, PTL DEF Spec

(* Every variable keeps its type: updates and crashes never take the walk  *)
(* outside the file (updatePathToRoot, locateMHTBlockOffsetByPageNo).      *)
THEOREM TypeCorrect == Spec => []TypeOK
<1>1. IInv => TypeOK
  BY DEF IInv
<1>2. QED
  BY <1>1, Invariance, PTL

(* The Merkle property under updates and crashes: every interior block     *)
(* combines its children, but for the parent the running walk is about to  *)
(* recompute and for blocks a crash left stale (updatePathToRoot).         *)
THEOREM MerkleSafety == Spec => []MerkleUnlessTorn
<1>1. IInv => MerkleUnlessTorn
  BY DEF IInv
<1>2. QED
  BY <1>1, Invariance, PTL

(* The walk of an update that returns ended at the root in the header      *)
(* (the loop condition of updatePathToRoot).                               *)
THEOREM WalkReachesRoot == Spec => []WalkEndsAtRoot
<1>1. IInv => WalkEndsAtRoot
  <2> SUFFICES ASSUME IInv, PathEnded PROVE cur = hdr.rno
    BY DEF WalkEndsAtRoot
  <2>1. pc = "path" /\ ~Climbs(file, cur)
    BY DEF PathEnded
  <2>2. cur \in Pos /\ file[cur].rsvd # "zero" /\ file[cur] \in Block
    BY <2>1 DEF IInv, WalkOnTree, TypeOK, DiskTypeOK
  <2>3. file[cur].rsvd = "root" \/ file[cur].pos = 0
    BY <2>1, <2>2 DEF Climbs, Read
  <2>4. file[cur].rsvd = "R" => file[cur].pos # 0
    BY <2>2 DEF IInv, WellLinked
  <2>5. file[cur].rsvd = "root"
    BY <2>2, <2>3, <2>4 DEF Block, Mark
  <2>6. QED
    BY <2>2, <2>5 DEF IInv, WellLinked
<1>2. QED
  BY <1>1, Invariance, PTL

(* An update changes hashes only, whatever the file and wherever it is cut *)
(* (updateMHTBlockHashByPageNo, cal_parent_nodes_sha256).                  *)
THEOREM ShapeSafety == Spec => ShapeKept
<1>1. IInv /\ [Next]_vars =>
          [/\ \A p \in Pos : SameButHash(file'[p], file[p])
           /\ hdr' = hdr]_vars
  BY ShapeStep
<1>2. QED
  BY <1>1, Invariance, PTL DEF Spec, ShapeKept

-----------------------------------------------------------------------------
(* The way up, unfolded once.  Chain's recursive function exists: the      *)
(* least sets closed under up solve its equation.                          *)
Closed(up, S) == \A m \in S : m \in DOMAIN up => up[m] \in S
Above(up, x)  == {n \in Int : \A S \in SUBSET Int :
                      Closed(up, S) /\ (x \in DOMAIN up => up[x] \in S) => n \in S}

LEMMA AboveUnfolds ==
    ASSUME NEW up, \A x \in DOMAIN up : x \in Int /\ up[x] \in Int, NEW x \in Int
    PROVE  Above(up, x) = IF x \in DOMAIN up THEN {up[x]} \cup Above(up, up[x]) ELSE {}
<1>1. CASE x \in DOMAIN up
  <2> DEFINE S == {up[x]} \cup Above(up, up[x])
  <2>1. up[x] \in Above(up, x)
    BY <1>1 DEF Above
  <2>2. Above(up, up[x]) \subseteq Above(up, x)
    BY <1>1 DEF Above, Closed
  <2>3. S \in SUBSET Int /\ Closed(up, S)
    BY <1>1 DEF Above, Closed
  <2> HIDE DEF S
  <2>4. up[x] \in S
    BY DEF S
  <2>5. Above(up, x) \subseteq S
    BY <2>3, <2>4 DEF Above
  <2>6. QED
    BY <1>1, <2>1, <2>2, <2>5 DEF S
<1>2. CASE x \notin DOMAIN up
  <2>1. {} \in SUBSET Int /\ Closed(up, {})
    BY DEF Closed
  <2>2. QED
    BY <1>2, <2>1 DEF Above
<1>3. QED
  BY <1>1, <1>2

LEMMA ChainUnfolds ==
    ASSUME NEW up, \A x \in DOMAIN up : x \in Int /\ up[x] \in Int, NEW q \in Int
    PROVE  Chain(up, q) = IF q \in DOMAIN up THEN {up[q]} \cup Chain(up, up[q]) ELSE {}
<1> DEFINE Eq(g) == g = [x \in Int |-> IF x \in DOMAIN up THEN {up[x]} \cup g[up[x]] ELSE {}]
<1>1. \E g : Eq(g)
  <2> DEFINE W == [x \in Int |-> Above(up, x)]
  <2>1. Eq(W)
    BY AboveUnfolds
  <2>2. QED
    BY <2>1
<1>2. PICK U : U = (CHOOSE g : Eq(g)) /\ Eq(U)
  BY <1>1, Zenon
<1>3. \A x : Chain(up, x) = U[x]
  BY <1>2 DEF Chain
<1>4. QED
  BY <1>2, <1>3

LEMMA PathUpUnfolds ==
    ASSUME NEW f \in [Pos -> Block], NEW q \in Pos
    PROVE  PathUp(f, q) = IF Climbs(f, q) THEN {Parent(f, q)} \cup PathUp(f, Parent(f, q))
                                          ELSE {}
<1> DEFINE up == ParentOf(f)
<1>1. \A x \in Pos : Parent(f, x) \in Int
  BY DEF Parent, Read, Pos, Block
<1>2. DOMAIN up = {x \in Pos : Climbs(f, x)} /\ \A x \in DOMAIN up : up[x] = Parent(f, x)
  BY DEF ParentOf
<1> HIDE DEF up
<1>3. \A x \in DOMAIN up : x \in Int /\ up[x] \in Int
  BY <1>1, <1>2 DEF Pos
<1>4. q \in Int
  BY DEF Pos
<1>5. Chain(up, q) = IF q \in DOMAIN up THEN {up[q]} \cup Chain(up, up[q]) ELSE {}
  BY <1>3, <1>4, ChainUnfolds
<1>6. QED
  BY <1>2, <1>5 DEF PathUp, up

(* What is read off the shape of a file does not see a change of hashes.   *)
LEMMA ShapeFrame ==
    ASSUME NEW f \in [Pos -> Block], NEW g \in [Pos -> Block],
           \A p \in Pos : SameButHash(g[p], f[p])
    PROVE  /\ \A p \in Pos : /\ g[p].lvl = f[p].lvl /\ g[p].rsvd = f[p].rsvd
                            /\ g[p].pn = f[p].pn /\ g[p].pos = f[p].pos
           /\ \A p \in Pos : /\ Lchild(g, p) = Lchild(f, p)
                            /\ Rchild(g, p) = Rchild(f, p)
                            /\ Parent(g, p) = Parent(f, p)
           /\ \A p \in Pos : Climbs(g, p) <=> Climbs(f, p)
           /\ \A q : PathUp(g, q) = PathUp(f, q) /\ On(g, q) = On(f, q)
           /\ \A p \in Pos : \A page : IsLeafOf(g, p, page) <=> IsLeafOf(f, p, page)
<1>1. \A p \in Pos : /\ g[p].lvl = f[p].lvl /\ g[p].rsvd = f[p].rsvd
                     /\ g[p].lcos = f[p].lcos /\ g[p].rcos = f[p].rcos
                     /\ g[p].pn = f[p].pn /\ g[p].pos = f[p].pos
  BY DEF SameButHash, Block
<1>2. \A p \in Pos : /\ Lchild(g, p) = Lchild(f, p)
                     /\ Rchild(g, p) = Rchild(f, p)
                     /\ Parent(g, p) = Parent(f, p)
  BY <1>1 DEF Lchild, Rchild, Parent, Read
<1>3. \A p \in Pos : Climbs(g, p) <=> Climbs(f, p)
  BY <1>1 DEF Climbs, Read
<1>4. ParentOf(g) = ParentOf(f)
  BY <1>2, <1>3 DEF ParentOf
<1>5. \A q : PathUp(g, q) = PathUp(f, q) /\ On(g, q) = On(f, q)
  BY <1>4 DEF PathUp, On
<1>6. QED
  BY <1>1, <1>2, <1>3, <1>5 DEF IsLeafOf

-----------------------------------------------------------------------------
(* Why damage can be traced: a torn block lies above the leaf of a page    *)
(* whose update was cut, other than the page being updated, or it lies     *)
(* ahead of the running walk, which will recompute it; and what lies ahead *)
(* of the walk lies above the leaf of its page.                            *)
AboveLeafOf(p, page) == \E q \in Pos : IsLeafOf(file, q, page) /\ p \in PathUp(file, q)

Updating == IF pc = "path" THEN {op.page} ELSE {}

Traced ==
    /\ PagesOnce(file) /\ cut \subseteq Pages
    /\ pc # "idle" => op.page \in Pages
    /\ pc = "path" => \E q \in Pos : /\ IsLeafOf(file, q, op.page)
                                    /\ PathUp(file, cur) \subseteq PathUp(file, q)
    /\ \A p \in torn : \/ \E page \in cut \ Updating : AboveLeafOf(p, page)
                       \/ pc = "path" /\ p \in PathUp(file, cur)

LEMMA TracedInit == Init => Traced
<1> SUFFICES ASSUME Init PROVE Traced
  OBVIOUS
<1>1. PICK d \in InitDisks : file = d.file
  BY DEF Init
<1>2. PagesOnce(file)
  BY <1>1, UpdateAssumption DEF WellFormed
<1>3. QED
  BY <1>2 DEF Init, Traced

(* Steps that leave the file as it is.                                     *)
LEMMA TracedQuiet ==
    IInv /\ Traced /\ (UNCHANGED vars \/ Search \/ Fail \/ \E args \in Args : StartUpdate(args))
        => Traced'
<1> SUFFICES ASSUME Traced,
                    UNCHANGED vars \/ Search \/ Fail \/ \E args \in Args : StartUpdate(args)
             PROVE  Traced'
  OBVIOUS
<1>1. CASE UNCHANGED vars
  BY <1>1 DEF vars, Traced, AboveLeafOf, Updating
<1>2. CASE Search \/ Fail
  <2>1. /\ UNCHANGED <<file, op, torn, cut>> /\ pc = "search" /\ pc' \in {"search", "idle"}
    BY <1>2 DEF Search, SearchStep, Fail, NotFound, AtLeaf
  <2>2. QED
    BY <2>1 DEF Traced, AboveLeafOf, Updating
<1>3. CASE \E args \in Args : StartUpdate(args)
  <2>1. PICK args \in Args : StartUpdate(args)
    BY <1>3
  <2>2. UNCHANGED <<file, torn, cut>> /\ pc = "idle" /\ pc' = "search" /\ op' = args
    BY <2>1 DEF StartUpdate, BeginSearch
  <2>3. args.page \in Pages
    BY DEF Args
  <2>4. QED
    BY <2>2, <2>3 DEF Traced, AboveLeafOf, Updating
<1>4. QED
  BY <1>1, <1>2, <1>3

LEMMA TracedWrite == IInv /\ Traced /\ WriteLeaf => Traced'
<1> SUFFICES ASSUME IInv, Traced, WriteLeaf PROVE Traced'
  OBVIOUS
<1>1. /\ UNCHANGED <<op, torn, cut>> /\ pc = "search" /\ pc' = "path" /\ cur' = ret
      /\ \A p \in Pos : SameButHash(file'[p], file[p])
  BY ShapeStep DEF WriteLeaf, Found, AtLeaf, Next, Step
<1>2. file \in [Pos -> Block] /\ file' \in [Pos -> Block]
  BY WriteLeafInv DEF IInv, TypeOK, DiskTypeOK
<1>3. /\ \A q : PathUp(file', q) = PathUp(file, q)
      /\ \A p \in Pos : \A page : IsLeafOf(file', p, page) <=> IsLeafOf(file, p, page)
  BY <1>1, <1>2, ShapeFrame
<1>4. ret \in Pos /\ IsLeafOf(file, ret, op.page)
  <2>1. ret \in Pos /\ cur = ret /\ file[ret].rsvd # "zero"
    BY DEF WriteLeaf, Found, AtLeaf, IInv, WalkOnTree
  <2>2. file[ret].pn = op.page /\ ~(file[ret].lvl > 0)
    BY <2>1 DEF WriteLeaf, Found, AtLeaf, IsInterior, Read
  <2>3. file[ret].lvl \in Nat
    BY <1>2, <2>1 DEF Block
  <2>4. QED
    BY <2>1, <2>2, <2>3 DEF IsLeafOf
<1>5. PagesOnce(file')
  BY <1>3 DEF Traced, PagesOnce
<1>6. \E q \in Pos : /\ IsLeafOf(file', q, op'.page)
                     /\ PathUp(file', cur') \subseteq PathUp(file', q)
  BY <1>1, <1>3, <1>4
<1>7. ASSUME NEW p \in torn'
      PROVE  \/ \E page \in cut' \ Updating' : AboveLeafOf(p, page)'
             \/ p \in PathUp(file', cur')
  <2>1. PICK page \in cut : AboveLeafOf(p, page)
    BY <1>1 DEF Traced
  <2>2. PICK q \in Pos : IsLeafOf(file, q, page) /\ p \in PathUp(file, q)
    BY <2>1 DEF AboveLeafOf
  <2>3. CASE page = op.page
    <3>1. q = ret
      BY <1>4, <2>2, <2>3 DEF Traced, PagesOnce
    <3>2. QED
      BY <1>1, <1>3, <2>2, <3>1
  <2>4. CASE page # op.page
    <3>1. page \in cut' \ Updating'
      BY <1>1, <2>4 DEF Updating
    <3>2. AboveLeafOf(p, page)'
      BY <1>3, <2>2 DEF AboveLeafOf
    <3>3. QED
      BY <3>1, <3>2
  <2>5. QED
    BY <2>3, <2>4
<1>8. QED
  BY <1>1, <1>5, <1>6, <1>7 DEF Traced

LEMMA TracedClimb == IInv /\ Traced /\ Climb => Traced'
<1> SUFFICES ASSUME IInv, Traced, Climb PROVE Traced'
  OBVIOUS
<1> DEFINE par == Parent(file, cur)
<1>1. /\ UNCHANGED <<op, pc, cut>> /\ pc = "path" /\ cur' = par /\ Climbs(file, cur)
      /\ torn' = torn \ {par}
      /\ \A p \in Pos : SameButHash(file'[p], file[p])
  BY ShapeStep DEF Climb, PathStep, Next, Step
<1>2. file \in [Pos -> Block] /\ file' \in [Pos -> Block] /\ cur \in Pos
  BY <1>1, ClimbInv DEF IInv, TypeOK, DiskTypeOK, WalkOnTree
<1>3. /\ \A q : PathUp(file', q) = PathUp(file, q)
      /\ \A p \in Pos : \A page : IsLeafOf(file', p, page) <=> IsLeafOf(file, p, page)
  BY <1>1, <1>2, ShapeFrame
<1>4. PathUp(file, cur) = {par} \cup PathUp(file, par)
  BY <1>1, <1>2, PathUpUnfolds
<1>5. PagesOnce(file')
  BY <1>3 DEF Traced, PagesOnce
<1>6. \A p, page : AboveLeafOf(p, page) => AboveLeafOf(p, page)'
  BY <1>3 DEF AboveLeafOf
<1>7. Updating' = Updating
  BY <1>1 DEF Updating
<1>8. QED
  BY <1>1, <1>3, <1>4, <1>5, <1>6, <1>7 DEF Traced

LEMMA TracedFinish == IInv /\ Traced /\ Finish => Traced'
<1> SUFFICES ASSUME IInv, Traced, Finish PROVE Traced'
  OBVIOUS
<1>1. /\ UNCHANGED <<file, torn>> /\ pc = "path" /\ pc' = "idle" /\ ~Climbs(file, cur)
      /\ cut' = cut \ {op.page}
  BY DEF Finish, PathEnded
<1>2. PathUp(file, cur) = {}
  BY <1>1, PathUpUnfolds DEF IInv, TypeOK, DiskTypeOK, WalkOnTree
<1>3. Updating = {op.page} /\ Updating' = {}
  BY <1>1 DEF Updating
<1>4. QED
  BY <1>1, <1>2, <1>3 DEF Traced, AboveLeafOf

LEMMA TracedCrash == IInv /\ Traced /\ Crash => Traced'
<1> SUFFICES ASSUME IInv, Traced, Crash PROVE Traced'
  OBVIOUS
<1>1. /\ UNCHANGED file /\ pc # "idle" /\ pc' = "idle"
      /\ torn' = torn \cup Pending
      /\ cut' = IF pc = "path" THEN cut \cup {op.page} ELSE cut
  BY DEF Crash
<1>2. cut' \subseteq Pages /\ PagesOnce(file)'
  BY <1>1 DEF Traced, PagesOnce
<1>3. Pending # {} => pc = "path" /\ Pending \subseteq PathUp(file, cur)
  BY PathUpUnfolds DEF IInv, TypeOK, DiskTypeOK, WalkOnTree, Pending
<1>4. ASSUME NEW p \in torn' PROVE \E page \in cut' : AboveLeafOf(p, page)
  <2>1. CASE \E page \in cut \ Updating : AboveLeafOf(p, page)
    BY <1>1, <2>1
  <2>2. CASE pc = "path" /\ p \in PathUp(file, cur)
    BY <1>1, <2>2 DEF Traced, AboveLeafOf
  <2>3. QED
    BY <1>1, <1>3, <2>1, <2>2 DEF Traced
<1>5. Updating' = {}
  BY <1>1 DEF Updating
<1>6. \A p, page : AboveLeafOf(p, page) => AboveLeafOf(p, page)'
  BY <1>1 DEF AboveLeafOf
<1>7. QED
  BY <1>1, <1>2, <1>4, <1>5, <1>6 DEF Traced

LEMMA TracedStep == IInv /\ Traced /\ [Next]_vars => Traced'
  BY TracedQuiet, TracedWrite, TracedClimb, TracedFinish, TracedCrash DEF Next, Step

(* Damage can be traced: a block whose hash is stale lies above the leaf   *)
(* of a page whose update was cut by a crash, or of the page being updated *)
(* now (updateMHTBlockHashByPageNo).                                       *)
THEOREM DamageSafety == Spec => []DamageTraceable
<1>1. Init => Traced
  BY TracedInit
<1>2. IInv /\ Traced /\ [Next]_vars => Traced'
  BY TracedStep
<1>3. IInv /\ Traced => DamageTraceable
  <2> SUFFICES ASSUME IInv, Traced, NEW p \in Pos, IsInterior(file, p), ~MerkleAt(file, p)
               PROVE  \E q \in Pos, page \in cut \cup Updating :
                          IsLeafOf(file, q, page) /\ p \in PathUp(file, q)
    BY DEF DamageTraceable, Updating
  <2>1. p \in torn \cup Pending
    BY DEF IInv, MerkleUnlessTorn
  <2>2. Pending # {} => pc = "path" /\ Pending \subseteq PathUp(file, cur)
    BY PathUpUnfolds DEF IInv, TypeOK, DiskTypeOK, WalkOnTree, Pending
  <2>3. CASE \E page \in cut \ Updating : AboveLeafOf(p, page)
    BY <2>3 DEF AboveLeafOf
  <2>4. CASE pc = "path" /\ p \in PathUp(file, cur)
    BY <2>4 DEF Traced, Updating
  <2>5. QED
    BY <2>1, <2>2, <2>3, <2>4 DEF Traced
<1>4. QED
  BY <1>1, <1>2, <1>3, Invariance, PTL DEF Spec

-----------------------------------------------------------------------------
(* The search is on the way up from the leaf it looks for, wherever that   *)
(* leaf is.  It starts at the root, which must not be a leaf itself.       *)
RootsFork == \A d \in InitDisks : IsInterior(d.file, d.hdr.rno)

OnTheWay ==
    /\ SearchTree(file, hdr.rno) /\ file[hdr.rno].lvl > 0
    /\ pc = "search" =>
          /\ ret = NoPos => cur = hdr.rno
          /\ \A p \in Pos : IsLeafOf(file, p, op.page) => cur \in On(file, p)

LEMMA SearchTreeFrame ==
    ASSUME NEW f \in [Pos -> Block], NEW g \in [Pos -> Block], NEW r,
           \A p \in Pos : SameButHash(g[p], f[p]),
           SearchTree(f, r)
    PROVE  SearchTree(g, r)
<1>1. /\ \A p \in Pos : /\ g[p].lvl = f[p].lvl /\ g[p].pn = f[p].pn
                        /\ Lchild(g, p) = Lchild(f, p) /\ Rchild(g, p) = Rchild(f, p)
      /\ \A q : PathUp(g, q) = PathUp(f, q) /\ On(g, q) = On(f, q)
      /\ \A p \in Pos : \A page : IsLeafOf(g, p, page) <=> IsLeafOf(f, p, page)
  BY ShapeFrame
<1>2. QED
  BY <1>1 DEF SearchTree

LEMMA OnTheWayInit == ASSUME RootsFork PROVE Init => OnTheWay
<1> SUFFICES ASSUME Init PROVE OnTheWay
  OBVIOUS
<1>1. PICK d \in InitDisks : file = d.file /\ hdr = d.hdr
  BY DEF Init
<1>2. WellFormed(d) /\ IsInterior(d.file, d.hdr.rno)
  BY UpdateAssumption DEF RootsFork
<1>3. hdr.rno \in Pos
  BY <1>1, <1>2 DEF WellFormed, WellLinked
<1>4. QED
  BY <1>1, <1>2, <1>3 DEF Init, OnTheWay, WellFormed, IsInterior, Read

LEMMA OnTheWayStep == IInv /\ Traced /\ OnTheWay /\ [Next]_vars => OnTheWay'
<1> SUFFICES ASSUME IInv, Traced, OnTheWay, [Next]_vars PROVE OnTheWay'
  OBVIOUS
<1>1. /\ file \in [Pos -> Block] /\ file' \in [Pos -> Block] /\ hdr' = hdr
      /\ hdr.rno \in Pos /\ \A p \in Pos : SameButHash(file'[p], file[p])
  BY StepInv, ShapeStep DEF IInv, TypeOK, DiskTypeOK, WellLinked
<1>2. SearchTree(file', hdr'.rno) /\ file'[hdr'.rno].lvl > 0
  <2>1. SearchTree(file, hdr.rno) /\ file[hdr.rno].lvl > 0
    BY DEF OnTheWay
  <2>2. file'[hdr.rno].lvl = file[hdr.rno].lvl
    BY <1>1, ShapeFrame
  <2>3. QED
    BY <1>1, <2>1, <2>2, SearchTreeFrame
<1>3. ASSUME pc' = "search", \E args \in Args : StartUpdate(args)
      PROVE  /\ cur' = hdr'.rno
             /\ \A p \in Pos : IsLeafOf(file', p, op'.page) => cur' \in On(file', p)
  <2>1. PICK args \in Args : StartUpdate(args)
    BY <1>3
  <2>2. cur' = hdr.rno /\ op' = args /\ UNCHANGED file
    BY <2>1 DEF StartUpdate, BeginSearch
  <2>3. op'.page \in Pages
    BY <2>2 DEF Args
  <2>4. QED
    BY <1>1, <2>2, <2>3 DEF OnTheWay, SearchTree
<1>4. ASSUME Search
      PROVE  /\ ret' # NoPos
             /\ \A p \in Pos : IsLeafOf(file', p, op'.page) => cur' \in On(file', p)
  <2>1. /\ UNCHANGED <<file, op>> /\ pc = "search" /\ IsInterior(file, cur) /\ ret' = cur'
        /\ cur' = IF op.page <= Read(file, cur).pn THEN Lchild(file, cur) ELSE Rchild(file, cur)
    BY <1>4 DEF Search, SearchStep
  <2>2. cur \in Pos /\ file[cur].lvl > 0 /\ Read(file, cur) = file[cur]
    BY <2>1 DEF IInv, WalkOnTree, IsInterior, Read
  <2>3. cur' \in Pos
    BY <1>1, <2>1, <2>2, Children DEF IInv
  <2>4. ASSUME NEW p \in Pos, IsLeafOf(file, p, op.page) PROVE cur' \in On(file, p)
    <3>1. cur \in On(file, p)
      BY <2>1, <2>4 DEF OnTheWay
    <3>2. cur \in PathUp(file, p)
      BY <2>2, <2>4, <3>1 DEF IsLeafOf, On
    <3>3. op.page \in Pages
      BY <2>1 DEF Traced
    <3>4. QED
      BY <2>1, <2>2, <2>4, <3>2, <3>3 DEF OnTheWay, SearchTree
  <2>5. QED
    BY <2>1, <2>3, <2>4 DEF NoPos, Pos
<1>5. CASE ~(Search \/ \E args \in Args : StartUpdate(args)) /\ pc' = "search"
  <2>1. UNCHANGED vars
    BY <1>5 DEF Next, Step, Fail, WriteLeaf, Climb, PathStep, Finish, Crash
  <2>2. QED
    BY <2>1 DEF vars, OnTheWay
<1>6. QED
  BY <1>2, <1>3, <1>4, <1>5 DEF OnTheWay

(* locateMHTBlockOffsetByPageNo finds every page that is in the tree of a  *)
(* file of more than one block, also after updates were cut by crashes: a  *)
(* search fails only for a page no leaf holds.                             *)
THEOREM SearchSafety == ASSUME RootsFork PROVE Spec => []SearchFindsPage
<1>1. Init => Traced /\ OnTheWay
  BY TracedInit, OnTheWayInit
<1>2. IInv /\ Traced /\ OnTheWay /\ [Next]_vars => (Traced /\ OnTheWay)'
  BY TracedStep, OnTheWayStep
<1>3. IInv /\ Traced /\ OnTheWay => SearchFindsPage
  <2> SUFFICES ASSUME IInv, Traced, OnTheWay, NotFound, NEW p \in Pos, IsLeafOf(file, p, op.page)
               PROVE  FALSE
    BY DEF SearchFindsPage
  <2>1. /\ pc = "search" /\ ~IsInterior(file, cur)
        /\ Read(file, cur).pn # op.page \/ ret = NoPos
    BY DEF NotFound, AtLeaf
  <2>2. cur \in Pos /\ ~(file[cur].lvl > 0)
    BY <2>1 DEF IInv, WalkOnTree, IsInterior, Read
  <2>3. cur \in On(file, p) /\ op.page \in Pages
    BY <2>1 DEF OnTheWay, Traced
  <2>4. cur = p
    BY <2>2, <2>3 DEF OnTheWay, SearchTree, On
  <2>5. ret = NoPos
    BY <2>1, <2>2, <2>4 DEF IsLeafOf, Read
  <2>6. QED
    BY <2>1, <2>2, <2>5 DEF OnTheWay
<1>4. QED
  BY <1>1, <1>2, <1>3, Invariance, PTL DEF Spec

-----------------------------------------------------------------------------
(* While no hash of a written block contains a zero byte, strlen measures  *)
(* whole messages and a changed hash shows in the parent.                  *)
Whole(f) == \A p \in Pos : f[p].rsvd # "zero" => NoZero(f[p].h)

HashesWhole == /\ \A d \in InitDisks : Whole(d.file)
               /\ \A hash \in NewHash : NoZero(hash)

StaysWhole ==
    /\ Whole(file) /\ file[hdr.rno].pos = 0
    /\ pc # "idle" => NoZero(op.hash)

LEMMA ParentShows ==
    ASSUME NEW f \in [Pos -> Block], NEW r, WellLinked(f, r), f[r].pos = 0, Whole(f),
           NEW b \in Pos, f[b].rsvd # "zero", f[b].pos # 0,
           NEW blk \in Block, SameButHash(blk, f[b]), NoZero(blk.h), blk.h # f[b].h,
           MerkleAt(f, Parent(f, b))
    PROVE  ~MerkleAt([f EXCEPT ![b] = blk], Parent(f, b))
<1> DEFINE g  == [f EXCEPT ![b] = blk]
           up == Parent(f, b)
           lc == Lchild(f, up)
           rc == Rchild(f, up)
<1>1. f[b].rsvd = "R"
  BY DEF WellLinked, Block, Mark
<1>2. up \in Pos /\ f[up].lvl > 0 /\ b \in {lc, rc}
  BY <1>1 DEF WellLinked
<1>3. \A c \in {lc, rc} : c \in Pos /\ c # up /\ f[c].rsvd = "R"
  BY <1>2, Children
<1>4. up # b
  BY <1>2, <1>3
<1>5. Read(g, up) = Read(f, up)
  BY <1>2, <1>4 DEF Read
<1>6. Lchild(g, up) = lc /\ Rchild(g, up) = rc
  BY <1>5 DEF Lchild, Rchild
<1> HIDE DEF up, lc, rc
<1>7. Read(f, up).h = Combine(f[lc].h, f[rc].h)
  BY <1>3 DEF MerkleAt, ChildrenHash, Read, up, lc, rc
<1>8. SUFFICES Combine(g[lc].h, g[rc].h) # Combine(f[lc].h, f[rc].h)
  BY <1>3, <1>5, <1>6, <1>7 DEF MerkleAt, ChildrenHash, Read, up
<1>9. /\ f[lc].h \in Hash /\ f[rc].h \in Hash /\ blk.h \in Hash
      /\ NoZero(f[lc].h) /\ NoZero(f[rc].h)
  BY <1>3 DEF Block, Whole
<1>10. /\ g[lc].h = IF lc = b THEN blk.h ELSE f[lc].h
       /\ g[rc].h = IF rc = b THEN blk.h ELSE f[rc].h
  BY <1>3
<1> HIDE DEF g
<1>11. CASE lc = b /\ rc = b
  BY <1>9, <1>10, <1>11, CombineInjective
<1>12. CASE lc = b /\ rc # b
  BY <1>9, <1>10, <1>12, CombineInjective
<1>13. CASE lc # b /\ rc = b
  BY <1>9, <1>10, <1>13, CombineInjective
<1>14. QED
  BY <1>2, <1>11, <1>12, <1>13

(* A step leaves the file alone or writes one block that was written       *)
(* before, with a hash that contains no zero byte.                         *)
OneWrite ==
    \/ file' = file
    \/ \E b \in Pos, blk \in Block :
          /\ file[b].rsvd # "zero" /\ SameButHash(blk, file[b]) /\ NoZero(blk.h)
          /\ file' = [file EXCEPT ![b] = blk]

LEMMA OneWriteStep == IInv /\ StaysWhole /\ [Next]_vars => OneWrite
<1> SUFFICES ASSUME IInv, StaysWhole, [Next]_vars PROVE OneWrite
  OBVIOUS
<1>1. file \in [Pos -> Block] /\ op.hash \in Hash
  BY DEF IInv, TypeOK, DiskTypeOK
<1>2. CASE UNCHANGED file
  BY <1>2 DEF OneWrite
<1>3. CASE WriteLeaf
  <2> DEFINE blk == [file[ret] EXCEPT !.h = op.hash]
  <2>1. /\ pc = "search" /\ ret \in Pos /\ file[ret].rsvd # "zero"
        /\ file' = [file EXCEPT ![ret] = blk]
    BY <1>3 DEF WriteLeaf, Found, AtLeaf, IInv, WalkOnTree
  <2>2. blk \in Block /\ SameButHash(blk, file[ret]) /\ blk.h = op.hash
    BY <1>1, <2>1 DEF Block, SameButHash
  <2>3. NoZero(op.hash)
    BY <2>1 DEF StaysWhole
  <2> HIDE DEF blk
  <2>4. QED
    BY <2>1, <2>2, <2>3 DEF OneWrite
<1>4. CASE Climb
  <2> DEFINE par == Parent(file, cur)
             blk == Rehashed(file, par)
  <2>1. /\ cur \in Pos /\ file[cur].rsvd # "zero" /\ Climbs(file, cur)
        /\ file' = [file EXCEPT ![par] = blk]
    BY <1>4 DEF Climb, PathStep, IInv, WalkOnTree
  <2>2. par \in Pos /\ file[par].lvl > 0 /\ file[par].rsvd # "zero"
    BY <1>1, <2>1, ParentOnTree DEF IInv
  <2>3. blk \in Block /\ file[par] \in Block
    BY <1>1, <2>2, BlockFacts
  <2>4. SameButHash(blk, file[par]) /\ blk.h = ChildrenHash(file, par)
    BY <2>2, <2>3 DEF Rehashed, Read, SameButHash, Block
  <2> HIDE DEF blk
  <2>5. \A c \in {Lchild(file, par), Rchild(file, par)} : c \in Pos /\ file[c].rsvd = "R"
    BY <1>1, <2>2, Children DEF IInv
  <2>6. \A c \in {Lchild(file, par), Rchild(file, par)} :
            Read(file, c).h \in Hash /\ NoZero(Read(file, c).h)
    BY <1>1, <2>5 DEF StaysWhole, Whole, Read, Block
  <2>7. NoZero(ChildrenHash(file, par))
    BY <2>6, CombineWhole DEF ChildrenHash
  <2>8. QED
    BY <2>1, <2>2, <2>3, <2>4, <2>7 DEF OneWrite
<1>5. QED
  BY <1>2, <1>3, <1>4
     DEF Next, Step, vars, StartUpdate, BeginSearch, Search, SearchStep, Fail, Finish, Crash

LEMMA StaysWholeInit == ASSUME HashesWhole PROVE Init => StaysWhole
<1> SUFFICES ASSUME Init PROVE StaysWhole
  OBVIOUS
<1>1. PICK d \in InitDisks : file = d.file /\ hdr = d.hdr
  BY DEF Init
<1>2. Whole(file) /\ file[hdr.rno].pos = 0
  BY <1>1, UpdateAssumption DEF HashesWhole, WellFormed
<1>3. QED
  BY <1>2 DEF Init, StaysWhole

LEMMA StaysWholeStep ==
    ASSUME HashesWhole PROVE IInv /\ StaysWhole /\ [Next]_vars => StaysWhole'
<1> SUFFICES ASSUME IInv, StaysWhole, [Next]_vars PROVE StaysWhole'
  OBVIOUS
<1>1. /\ file \in [Pos -> Block] /\ hdr.rno \in Pos /\ hdr' = hdr
      /\ \A p \in Pos : SameButHash(file'[p], file[p])
      /\ file' \in [Pos -> Block]
  BY StepInv, ShapeStep DEF IInv, TypeOK, DiskTypeOK, WellLinked
<1>2. Whole(file')
  <2>1. OneWrite
    BY OneWriteStep
  <2>2. QED
    BY <1>1, <2>1 DEF OneWrite, StaysWhole, Whole
<1>3. file'[hdr'.rno].pos = 0
  BY <1>1, ShapeFrame DEF StaysWhole
<1>4. pc' # "idle" => NoZero(op'.hash)
  <2>1. CASE \E args \in Args : StartUpdate(args)
    BY <2>1 DEF StartUpdate, BeginSearch, Args, HashesWhole
  <2>2. CASE ~\E args \in Args : StartUpdate(args)
    <3>1. (op' = op /\ pc # "idle") \/ pc' = "idle" \/ UNCHANGED vars
      BY <2>2 DEF Next, Step, Search, SearchStep, Fail, WriteLeaf, Found, AtLeaf,
                  Climb, PathStep, Finish, Crash
    <3>2. QED
      BY <3>1 DEF StaysWhole, vars
  <2>3. QED
    BY <2>1, <2>2
<1>5. QED
  BY <1>2, <1>3, <1>4 DEF StaysWhole

(* A Merkle tree gives a changed hash away, as long as no hash contains a  *)
(* zero byte: where a step changes the hash of a block whose parent        *)
(* matched its children, the parent no longer matches them                 *)
(* (generateCombinedHash_SHA256).                                          *)
THEOREM ChangeSafety == ASSUME HashesWhole PROVE Spec => ChangeShows
<1>1. Init => StaysWhole
  BY StaysWholeInit
<1>2. IInv /\ StaysWhole /\ [Next]_vars => StaysWhole'
  BY StaysWholeStep
<1>3. IInv /\ StaysWhole /\ [Next]_vars =>
        [\A p \in Pos :
            LET up == Parent(file, p)
            IN  Read(file, p).pos # 0 /\ file'[p].h # file[p].h /\ MerkleAt(file, up)
                    => ~MerkleAt(file', up)]_vars
  <2> SUFFICES ASSUME IInv, StaysWhole, [Next]_vars, NEW p \in Pos,
                      Read(file, p).pos # 0, file'[p].h # file[p].h,
                      MerkleAt(file, Parent(file, p))
               PROVE  ~MerkleAt(file', Parent(file, p))
    OBVIOUS
  <2>1. file \in [Pos -> Block] /\ Read(file, p) = file[p]
    BY DEF IInv, TypeOK, DiskTypeOK, Read
  <2>2. PICK b \in Pos : \E blk \in Block :
          /\ file[b].rsvd # "zero" /\ SameButHash(blk, file[b]) /\ NoZero(blk.h)
          /\ file' = [file EXCEPT ![b] = blk]
    BY OneWriteStep DEF OneWrite
  <2>3. PICK blk \in Block :
          /\ file[b].rsvd # "zero" /\ SameButHash(blk, file[b]) /\ NoZero(blk.h)
          /\ file' = [file EXCEPT ![b] = blk]
    BY <2>2
  <2>4. b = p /\ blk.h # file[p].h
    BY <2>1, <2>3
  <2>5. WellLinked(file, hdr.rno) /\ file[hdr.rno].pos = 0 /\ Whole(file)
    BY DEF IInv, StaysWhole
  <2>6. QED
    BY <2>1, <2>3, <2>4, <2>5, ParentShows
<1>4. QED
  BY <1>1, <1>2, <1>3, Invariance, PTL DEF Spec, ChangeShows
=============================================================================
