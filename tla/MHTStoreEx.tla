----------------------------- MODULE MHTStoreEx -----------------------------
(***************************************************************************)
(* The operations of mhtfile.c on the files of both builders: those of     *)
(* mhtfile.c itself, as in MHTStore, and those that the builders of        *)
(* mhtfile_ex.c leave (MHTBuildEx shows that X!ExLayoutFile is what they   *)
(* write).                                                                 *)
(***************************************************************************)
EXTENDS MHTStore

CONSTANTS
    ExLeaves,   \* the rows of leaves that mhtfile_ex.c built from
    ExMaxCut    \* MaxCut for the files of mhtfile_ex.c

VARIABLE
    builder     \* the source file of the builder

exVars == <<vars, builder>>

X == INSTANCE MHTLayoutEx

(* Unless it holds padding, such a file is laid out well, too: with no     *)
(* page to come in its tree, nobody misses the mark of the root or the     *)
(* parent offsets of interior blocks.                                      *)
ExAssumption ==
    \A leaves \in ExLeaves :
        /\ DOMAIN leaves # {}
        /\ \A i \in DOMAIN leaves : leaves[i].pn \in Pages \cup {NoPage}
                                    /\ leaves[i].h \in GivenHash
        /\ (\A i \in DOMAIN leaves : leaves[i].pn # NoPage) =>
               LaidOut(X!ExLayoutFile(leaves), X!LayoutHeader(leaves), leaves)
ASSUME ExAssumption

(* A row of two, four, ... leaves whose padding, if any, is last.          *)
ExInit ==
    /\ \E leaves \in ExLeaves :
          /\ file = X!ExLayoutFile(leaves) /\ hdr = X!LayoutHeader(leaves)
          /\ acked = [p \in {leaves[i].pn : i \in DOMAIN leaves} \ {NoPage} |->
                        leaves[CHOOSE i \in DOMAIN leaves : leaves[i].pn = p].h]
    /\ pc = "idle" /\ op = NoOp /\ cur = NoPos /\ ret = NoPos
    /\ QueueAtRest /\ glob = NoGlobals
    /\ slot = NoPos /\ cut = {}

InitAny ==
    \/ Init   /\ builder = "mhtfile"
    \/ ExInit /\ builder = "mhtfile_ex"

NextAny ==
    /\ Next /\ UNCHANGED builder
    /\ builder = "mhtfile_ex" => Cardinality(cut') <= ExMaxCut

AnySpec == InitAny /\ [][NextAny]_exVars /\ WF_exVars(Step /\ UNCHANGED builder)

-----------------------------------------------------------------------------
(* SameAsRebuilt, which only a file of mhtfile.c can promise.              *)
OwnSameAsRebuilt == builder = "mhtfile" => SameAsRebuilt

(* "Update the hash value of the node on the path from a certain MHT node  *)
(* to the root" (mhtfile.h:179): when nothing runs and no operation was    *)
(* cut, every interior block combines the hashes of its children.          *)
RestIsMerkle ==
    pc = "idle" /\ cut = {} =>
        \A p \in 1 .. hdr.rno : IsInterior(file, p) => MerkleAt(file, p)

(* What remains of that on every file: a hash is stale only right above a  *)
(* child without a parent offset, where a climb ended short of the root    *)
(* (update_mht_block_index_info leaves the offset out, updatePathToRoot    *)
(* takes a block without one for the root).                                *)
Gap(p) == IsInterior(file, p) /\ Read(file, p).pos = 0

StaleOnlyAboveGaps ==
    pc = "idle" /\ cut = {} =>
        \A p \in 1 .. hdr.rno : IsInterior(file, p) =>
            MerkleAt(file, p) \/ Gap(Lchild(file, p)) \/ Gap(Rchild(file, p))
=============================================================================
