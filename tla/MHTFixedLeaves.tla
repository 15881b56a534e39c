--------------------------- MODULE MHTFixedLeaves ---------------------------
(***************************************************************************)
(* buildMHTFileFvByFixedLeaves: extend a data set in place to a multiple   *)
(* of leaf_num blocks, split it into parts of leaf_num blocks, build the   *)
(* tree of each part under a temporary name (the digest of the part) and   *)
(* rename it after its root hash.                                          *)
(*                                                                         *)
(* The process may die between any two writes; the data set keeps the      *)
(* blocks appended so far and the directory the trees renamed so far, and  *)
(* the caller may run the whole again, also with another leaf_num.  The    *)
(* other entry points of MHTBuildEx, which share the globals, may be       *)
(* called between two calls.                                               *)
(***************************************************************************)
EXTENDS MHTBuildEx

CONSTANTS
    InitData,   \* the data sets to begin with: nonempty rows of blocks
    LeafNums,   \* the values of leaf_num that callers pass
    PadHash     \* the digest of a block that holds '0' throughout

VARIABLES
    ds,         \* the blocks of in_data_file
    phase,      \* where the call is
    leaf_num,   \* leaf_num, rounded up
    parts,      \* output_mhtfile_num
    i,          \* the part at work
    short,      \* how many blocks the data set still lacks
    dir         \* the directory of the trees: disk images by root hash

fixedVars == <<ds, phase, leaf_num, parts, i, short, dir>>
allVars   == <<vars, fixedVars>>

ASSUME FixedLeavesAssumption ==
    /\ \A d \in InitData : d \in Seq(Elem) /\ d # <<>>
    /\ LeafNums \subseteq Nat \ {0} /\ PadHash \in Hash

FixedInit ==
    /\ Init
    /\ ds \in InitData
    /\ phase = "none" /\ leaf_num = 0 /\ parts = 0 /\ i = 0 /\ short = 0
    /\ dir = <<>>

(* is_power_of_2 and cal_the_least_pow2_to_n.                              *)
RoundUp(n) == CHOOSE p \in {Pow2[k] : k \in 0 .. n} :
                  n <= p /\ \A k \in 0 .. n : n <= Pow2[k] => p <= Pow2[k]

(* Faulty variant: a full part of padding when nothing is missing.         *)
MissingAlways(n) == n - (Len(ds) % n)

Missing(n) == IF Len(ds) % n = 0 THEN 0 ELSE n - (Len(ds) % n)

StartFixed(n) ==
    /\ phase = "none" /\ stage = "idle"
    /\ leaf_num' = RoundUp(n)
    /\ short' = Missing(leaf_num')
    /\ parts' = (Len(ds) \div leaf_num') + (IF short' > 0 THEN 1 ELSE 0)
    /\ i' = 0
    /\ phase' = "extend"
    /\ UNCHANGED <<vars, ds, dir>>

(* ds_extend_dataset_with_char appends block after block.                  *)
ExtendData ==
    /\ phase = "extend"
    /\ IF short > 0
       THEN /\ ds' = Append(ds, [pn |-> NoPage, h |-> PadHash])
            /\ short' = short - 1
            /\ UNCHANGED phase
       ELSE /\ phase' = "split"
            /\ UNCHANGED <<ds, short>>
    /\ UNCHANGED <<vars, leaf_num, parts, i, dir>>

(* Faulty variant: every part is read from the front of the data set.      *)
FirstPart(k) == SubSeq(ds, 1, leaf_num)

Part(k) == SubSeq(ds, k * leaf_num + 1, (k + 1) * leaf_num)

(* Copy the next part to a file of its own and build its tree.             *)
BuildPart ==
    /\ phase = "split" /\ i < parts
    /\ StartBuild([kind |-> "dataset", elems |-> Part(i)])
    /\ phase' = "build"
    /\ UNCHANGED <<ds, leaf_num, parts, i, short, dir>>

BuildStep ==
    /\ phase = "build" /\ Step
    /\ UNCHANGED fixedVars

(* root_hash_string, which stays empty when no root was written.           *)
RootName == IF glob.rno = NoPos THEN <<>> ELSE file[glob.rno].h

(* rename replaces a file that has the name.                               *)
Renamed(name) ==
    [n \in DOMAIN dir \cup {name} |->
        IF n = name THEN [file |-> file, hdr |-> hdr] ELSE dir[n]]

(* Faulty variant: the file is renamed before its header is written.       *)
RenamePartEarly ==
    /\ phase = "build" /\ stage = "header"
    /\ dir' = Renamed(RootName)
    /\ i' = i + 1
    /\ phase' = "split"
    /\ UNCHANGED <<vars, ds, leaf_num, parts, short>>

RenamePart ==
    /\ phase = "build" /\ stage = "idle"
    /\ dir' = Renamed(RootName)
    /\ i' = i + 1
    /\ phase' = "split"
    /\ UNCHANGED <<vars, ds, leaf_num, parts, short>>

ReturnFixed ==
    /\ phase = "split" /\ i = parts
    /\ phase' = "none"
    /\ UNCHANGED <<vars, ds, leaf_num, parts, i, short, dir>>

(* The process dies, perhaps in the middle of a build.                     *)
FixedCrash ==
    /\ phase # "none"
    /\ IF stage # "idle" THEN Crash ELSE UNCHANGED vars
    /\ phase' = "none" /\ leaf_num' = 0 /\ parts' = 0 /\ i' = 0 /\ short' = 0
    /\ UNCHANGED <<ds, dir>>

(* The calls of process_all_elem and its variants by themselves.           *)
StartAlone(input) == phase = "none" /\ StartBuild(input) /\ UNCHANGED fixedVars
StepAlone         == phase = "none" /\ Step /\ UNCHANGED fixedVars
CrashAlone        == phase = "none" /\ Crash /\ UNCHANGED fixedVars

FixedStep == ExtendData \/ BuildPart \/ BuildStep \/ RenamePart \/ ReturnFixed \/ StepAlone

FixedNext ==
    \/ \E n \in LeafNums : StartFixed(n)
    \/ \E input \in Inputs : StartAlone(input)
    \/ FixedStep \/ FixedCrash \/ CrashAlone

FixedSpec == FixedInit /\ [][FixedNext]_allVars /\ WF_allVars(FixedStep)

-----------------------------------------------------------------------------
Returned == phase = "none" /\ leaf_num # 0

FixedTypeOK ==
    /\ TypeOK
    /\ ds \in Seq(Elem) /\ leaf_num \in Nat
    /\ phase \in {"none", "extend", "split", "build"}
    /\ parts \in Nat /\ i \in 0 .. parts /\ short \in 0 .. leaf_num

(* However often a call was cut and repeated, also with other values of    *)
(* leaf_num, one that returns leaves a data set of whole parts, with less  *)
(* padding than the largest part has blocks: it is never padded twice.     *)
PadBlocks == {k \in 1 .. Len(ds) : ds[k].pn = NoPage}

PaddedOnce ==
    Returned => /\ Len(ds) % leaf_num = 0
                /\ \E n \in LeafNums : Cardinality(PadBlocks) < RoundUp(n)

(* A tree that has its final name is finished: its header names a root,    *)
(* the last block, whose hash is the name of the file.                     *)
NamedAfterRoot ==
    \A n \in DOMAIN dir :
        /\ dir[n].hdr.rno # NoPos
        /\ dir[n].file[dir[n].hdr.rno].h = n

(* The state of the call and the directory, at any moment.                 *)
DirectoryComplete == FixedTypeOK /\ NamedAfterRoot

(* Every call returns unless the process dies: the combining loops end     *)
(* with the input, and the loop over the parts with the data set.          *)
FixedReturns == (phase # "none" \/ stage # "idle") ~> (phase = "none" /\ stage = "idle")
=============================================================================
