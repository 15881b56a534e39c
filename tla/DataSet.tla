------------------------------ MODULE DataSet -------------------------------
(***************************************************************************)
(* Data sets (ds.c): a header of four words of version and one word that   *)
(* holds the length of a block, then blocks of an index and data.          *)
(*                                                                         *)
(* A file is the sequence of its 32-bit words, and a block is a whole      *)
(* number of words: ds_extend_dataset_by_array and _by_ds find their way   *)
(* in a file by counting bytes from its ends, so what they read may be a   *)
(* part of a block.  Words are taken modulo WordMod.  The calls are        *)
(* synchronous and keep no state between them.                             *)
(***************************************************************************)
EXTENDS Integers, Sequences, FiniteSets

Sq == INSTANCE SequencesExt

CONSTANTS
    Files,      \* the names of the files
    Rows,       \* the data of blocks that callers and generators produce
    MaxBlocks,  \* bound on the blocks of a file
    WordMod,    \* 2^32 in the code
    Version     \* the four words of DS_VERSION

ASSUME DataSetAssumption ==
    /\ WordMod \in Nat /\ WordMod > 1
    /\ MaxBlocks \in Nat /\ MaxBlocks < WordMod
    /\ \A r \in Rows : /\ r \in Seq(0 .. WordMod - 1) /\ r # <<>>
                       /\ Len(r) + 1 < WordMod
    /\ Version \in Seq(0 .. WordMod - 1) /\ Len(Version) = 4

VARIABLES
    fs,         \* the words of every file, <<>> when it does not exist
    call        \* observer: the last call, and what it was given

dataSetVars == <<fs, call>>

Word      == 0 .. WordMod - 1
HeaderLen == 5
PtrLen    == 2                      \* sizeof(void*)

NoIndex == (WordMod \div 2) - 1     \* UNASSIGNED_INDEX (0x7FFFFFFF)

NoCall == [op |-> "none", on |-> "none", data |-> <<>>, old |-> <<>>]

Exists(f) == fs[f] # <<>>

-----------------------------------------------------------------------------
Header(len)    == Version \o <<len>>
BlockLen(w)    == w[HeaderLen]
Concat(blocks) == Sq!FlattenSeq(blocks)

(* Faulty variant: the last block is not counted.                          *)
BlockNumShort(w) == ((Len(w) - HeaderLen) \div BlockLen(w)) - 1

(* ds_verify_ds: the number of reads of one block that return something;   *)
(* the rest of a torn block counts as a block.                             *)
BlockNum(w) == (Len(w) - HeaderLen + BlockLen(w) - 1) \div BlockLen(w)
Verified(f) == Exists(f) /\ BlockNum(fs[f]) > 0

(* The blocks as the readers of a data set see them.                       *)
Chunk(w, len, n) == SubSeq(w, (n - 1) * len + 1, n * len)
Blocks(w) == [n \in 1 .. BlockNum(w) |->
                 SubSeq(w, HeaderLen + (n - 1) * BlockLen(w) + 1,
                        IF n < BlockNum(w) THEN HeaderLen + n * BlockLen(w) ELSE Len(w))]
Whole(w)  == (Len(w) - HeaderLen) % BlockLen(w) = 0

Became(op, f, data, words) ==
    /\ fs' = [fs EXCEPT ![f] = words]
    /\ call' = [op |-> op, on |-> f, data |-> data, old |-> fs[f]]

-----------------------------------------------------------------------------
(* ds_create_dataset_random: blocks numbered from 1, as many as asked for. *)
CreateRandom(f, data) ==
    Became("random", f, data,
           Header(1 + Len(data[1])) \o Concat([n \in DOMAIN data |-> <<n>> \o data[n]]))

(* ds_create_dataset_random_dso: the numbers are shuffled.                 *)
CreateShuffled(f, data, order) ==
    Became("shuffled", f, data,
           Header(1 + Len(data[1])) \o Concat([n \in DOMAIN data |-> <<order[n]>> \o data[n]]))

(* ds_create_dataset_by_array: every block gets the front of the array.    *)
CreateByArray(f, data) ==
    Became("array", f, data,
           Header(1 + Len(data[1])) \o Concat([n \in DOMAIN data |-> <<n>> \o data[1]]))

(* Faulty variant: padding as in an extension with pointers, index and all.*)
ExtendWithCharShort(f, num, ch) ==
    /\ Verified(f)
    /\ LET block == <<NoIndex>> \o [k \in 1 .. PtrLen - 1 |-> ch]
       IN  Became("char", f, [n \in 1 .. num |-> Tail(block)],
                  fs[f] \o Concat([n \in 1 .. num |-> block]))

(* ds_extend_dataset_with_char: padding blocks, all numbered               *)
(* UNASSIGNED_INDEX.                                                       *)
ExtendWithChar(f, num, ch) ==
    /\ Verified(f)
    /\ LET block == <<NoIndex>> \o [k \in 1 .. BlockLen(fs[f]) - 1 |-> ch]
       IN  Became("char", f, [n \in 1 .. num |-> Tail(block)],
                  fs[f] \o Concat([n \in 1 .. num |-> block]))

(* What the two functions below take for the last index: the last word.    *)
LastWord(w) == w[Len(w)]

(* ds_extend_dataset_by_array: blocks of an index and a pointer, however   *)
(* long the blocks of the file are.                                        *)
ExtendByArray(f, data) ==
    /\ Exists(f)
    /\ Became("extendArray", f, data,
              fs[f] \o Concat([n \in DOMAIN data |->
                                  <<(LastWord(fs[f]) + n) % WordMod>> \o data[n]]))

(* ds_extend_dataset_by_ds: as many blocks as the input has, read from its *)
(* very beginning; the first short read ends the call.                     *)
ExtendByDs(f, g) ==
    /\ Verified(g) /\ Exists(f) /\ f # g
    /\ LET w    == fs[g]
           len  == BlockLen(w)
           full == {n \in 0 .. BlockNum(w) : n * len <= Len(w)}
           num  == CHOOSE n \in full : \A x \in full : x <= n
           Renumbered(n) == <<(LastWord(fs[f]) + n) % WordMod>> \o Tail(Chunk(w, len, n))
       IN  Became("extendDs", f, [n \in 1 .. BlockNum(w) |-> Tail(Blocks(w)[n])],
                  fs[f] \o Concat([n \in 1 .. num |-> Renumbered(n)]))

-----------------------------------------------------------------------------
(* compare_block_info: the sign of the difference of two ints.             *)
AsInt(x) == IF x <= NoIndex THEN x ELSE x - WordMod

(* Faulty variant: the other way round.                                    *)
CompareReversed(a, b) == AsInt((b[1] - a[1]) % WordMod)

Compare(a, b) == AsInt((a[1] - b[1]) % WordMod)

(* qsort leaves one of the orders in which no pair of neighbours compares  *)
(* the wrong way round.                                                    *)
Perms(n) == {p \in [1 .. n -> 1 .. n] : \A a, b \in 1 .. n : p[a] = p[b] => a = b}

SortedBy(blocks, p) ==
    \A n \in 1 .. Len(blocks) - 1 : Compare(blocks[p[n]], blocks[p[n + 1]]) <= 0

(* ds_sort_dataset_by_index.  When the last block is torn the read fails   *)
(* and there is no output.                                                 *)
SortByIndex(f, g) ==
    /\ Verified(f) /\ Whole(fs[f])
    /\ LET blocks == Blocks(fs[f])
       IN  \E p \in Perms(Len(blocks)) :
              /\ SortedBy(blocks, p)
              /\ fs' = [fs EXCEPT ![g] = Header(BlockLen(fs[f]))
                            \o Concat([n \in DOMAIN blocks |-> blocks[p[n]]])]
              /\ call' = [op |-> "sort", on |-> g, data |-> <<>>, old |-> fs[f]]

-----------------------------------------------------------------------------
(* The arguments of the calls; the rows of one call are equally long, and  *)
(* a file is created once.                                                 *)
Data(num) == {d \in [1 .. num -> Rows] : \A n \in 1 .. num : Len(d[n]) = Len(d[1])}

Room(f, num) == BlockNum(fs[f]) + num <= MaxBlocks

Create ==
    \E f \in Files, num \in 1 .. MaxBlocks : \E data \in Data(num) :
      /\ ~Exists(f)
      /\ \/ CreateRandom(f, data)
         \/ \E order \in Perms(num) : CreateShuffled(f, data, order)
         \/ CreateByArray(f, data)

PadWithChar ==
    \E f \in Files, num \in 1 .. 2 : Exists(f) /\ Room(f, num) /\ ExtendWithChar(f, num, 0)

AppendArray ==
    \E f \in Files, num \in 1 .. 2 : \E data \in Data(num) :
        /\ Len(data[1]) = PtrLen
        /\ Exists(f) /\ Room(f, num) /\ ExtendByArray(f, data)

AppendDs ==
    \E f, g \in Files : /\ Exists(f) /\ Exists(g) /\ Room(f, BlockNum(fs[g]))
                        /\ ExtendByDs(f, g)

Sort == \E f, g \in Files : SortByIndex(f, g)

DataSetInit == fs = [f \in Files |-> <<>>] /\ call = NoCall

DataSetNext == Create \/ PadWithChar \/ AppendArray \/ AppendDs \/ Sort

DataSetSpec == DataSetInit /\ [][DataSetNext]_dataSetVars

-----------------------------------------------------------------------------
FilesTypeOK == fs \in [Files -> Seq(Word)]

Indices(w) == [n \in 1 .. BlockNum(w) |-> AsInt(Blocks(w)[n][1])]
DataOf(w)  == [n \in 1 .. BlockNum(w) |-> Tail(Blocks(w)[n])]
Ordered(w) == \A n \in 1 .. BlockNum(w) - 1 : Indices(w)[n] <= Indices(w)[n + 1]

(* Callers whose data are as long as a pointer, the only length that       *)
(* ds_extend_dataset_by_array writes: it would tear other blocks.          *)
PointerRows == \A r \in Rows : Len(r) = PtrLen

(* Whatever calls made it, a data set has the version, and its blocks are  *)
(* whole, so that the number ds_verify_ds finds is the number it has.      *)
WholeBlocks ==
    \A f \in Files : Exists(f) => SubSeq(fs[f], 1, 4) = Version /\ Whole(fs[f])

(* The files after any calls on them.                                      *)
FilesWhole == FilesTypeOK /\ WholeBlocks

(* No block is ever lost: an extension leaves what is there and adds one   *)
(* block for every block it was given; sorting keeps every block as often  *)
(* as it was there (qsort moves BLOCK_INFO records with pointers).         *)
Times(b, w) == Cardinality({n \in 1 .. BlockNum(w) : Blocks(w)[n] = b})

BlocksKept ==
    call.op \in {"char", "extendArray", "extendDs", "sort"} =>
        LET now == fs[call.on]
            old == call.old
        IN  /\ BlockNum(now) = BlockNum(old) + Len(call.data)
            /\ \A n \in 1 .. BlockNum(old) :
                  IF call.op = "sort" THEN Times(Blocks(old)[n], now) = Times(Blocks(old)[n], old)
                                      ELSE Blocks(now)[n] = Blocks(old)[n]

(* After sorting the indices rise, padding comes last: a tree built from   *)
(* the file can be searched.  compare_block_info subtracts two ints, so    *)
(* the indices of the file must not be further apart than an int holds.    *)
Near(w) == \A m, n \in 1 .. BlockNum(w) : Indices(w)[m] - Indices(w)[n] <= NoIndex

SortOrders == call.op = "sort" /\ Near(call.old) => Ordered(fs[call.on])

(* "Sort data blocks by index" (ds.h:127): the blocks of every data set.   *)
SortsAll == call.op = "sort" => Ordered(fs[call.on])

(* "Creates a dataset via a given array" (ds.h:60): block n holds element  *)
(* n of the array.                                                         *)
ArrayStored == call.op = "array" => DataOf(fs[call.on]) = call.data

(* "Extends the dataset by a given array. Indices are ordered." (ds.h:106) *)
ExtensionOrdered ==
    call.op = "extendArray" /\ Ordered(call.old) => Ordered(fs[call.on])

(* "Extends the dataset by a given dataset file" (ds.h:117): the blocks    *)
(* added hold the data of the blocks of that file.                         *)
InputAppended ==
    call.op = "extendDs" =>
        DataOf(fs[call.on]) = DataOf(call.old) \o call.data
=============================================================================
