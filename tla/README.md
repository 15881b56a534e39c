# A TLA+ model of filemht, a Merkle hash tree kept in a file

filemht is a C library (synchronous calls, no threads of its own) that keeps a Merkle
hash tree (MHT) over the pages of a database in a file. A builder turns a data
set into a file, and later calls look pages up, change their hashes and insert
new pages. There is no log and no lock: every operation is a series of small
writes to the file, and what a crash in the middle leaves is what the next
process finds. The project models the operations write by write.

## The system

| Part | Source | State | Operations |
|---|---|---|---|
| Hash combination | `mhtdefs.c` | none | digests of leaves, `generateCombinedHash_SHA256` |
| File format, block access | `mhtfile.c` (`fo_*`), `mhtfile.h`, `defs.h` | the file: a header of 128 bytes (root offset RNO, first padding leaf FSLO), then blocks of 70 bytes; the file pointer | read and write a block or the header, absolute or relative |
| Search | `mhtfile.c` 408-536 | none | `locateMHTBlockOffsetByPageNo`, `searchPageByNo`, `verifyHashInMHT` |
| Hash update | `mhtfile.c` 538-657 | the file | `updateMHTBlockHashByPageNo`, `updateMHTBlockHashByMHTBlock`, `updatePathToRoot` |
| Tree building | `mhtfile.c` 270-355, 1081-1400 | the queue, the globals of `defs.c`, the file | `buildMHTFile_fv` |
| Insertion behind the last page | `mhtfile.c` 659-754, 1701-1744, 1834-2166 | the same | `insertNewMHTBlock`, `extentTheMHT`, `update_interior_nodes_pageno`, `find_the_first_leaf_splymt_block_by_offset` |
| Insertion in page order | `mhtfile.c` 756-976 | the file and a temporary copy | `insertNewPageDisorder` |
| Demonstration builder | `mhtfile.c` 196-268, 980-1079 | as tree building | `buildMHTFile` |
| Queue | `dbqueue.c` | doubly linked list | enqueue, dequeue, dequeue_sub, dequeue_sppos, ... |
| Queue node pool | `qnode_pool.c` | free list and allocation count under a mutex | allocate, free, initialise, clean up |
| Builder for other formats | `mhtfile_ex.c` 11-56, 191-880 | queue, file; patches written blocks | `buildMHTFileTest_ex`, `buildMHTFileFv_ex`, `process_all_elem_fv_new_ds_fmt` |
| Trees of fixed size | `mhtfile_ex.c` 80-185 | the data set, which it pads in place; a directory of trees | `buildMHTFileFvByFixedLeaves` |
| Data sets | `ds.c`, `dataelem.c` | input files: version, block length, blocks that begin with an index | create, extend, sort, verify |
| Kept descriptors | `mhtfile.c` 357-372, `defs.c` | `g_mhtFileFdRd`, `g_mhtFileFD` | open, close |
| SHA-256, strings, command line, tests | `sha256.c`, `string_ex.c`, `mhtfile_utils.c`, `test_*.c`, `prfm_eval_*.c` | none | |

How they interact: the builders and `extentTheMHT` enqueue nodes, combine them
through the hash functions and write them as blocks; the globals of `defs.c`
carry the root offset and the padding offset from the queue loops to whoever
writes the header. An insertion reads FSLO, extends the tree if it is 0, fills
a padding leaf, climbs to the root twice (hashes, then separators) and writes
the header last. Updates search and climb once. An insertion in page order does
the same once per later leaf, reading what it overwrites from a temporary copy.
The builders of `mhtfile_ex.c` read data sets and leave files that the
operations of `mhtfile.c` then work on. Queue nodes come from the pool.

What is hard here, and what correctness means for each part:

* **Crashes between writes.** An update must leave only damage that repeating
  it repairs. An insertion or extension must keep all reported pages findable
  wherever it stops, since the header is written last and the old root is
  overwritten in place.
* **Two things that must agree.** Offsets are counted in queue links while the
  tree is built but are used as distances in the file; separators are copied
  upwards and refreshed by insertions; FSLO must name the leaf behind the last
  page.
* **State that outlives a call.** The globals are not reset between builds.
* **Loops that end by what is in the file.** Climb, search and scan run until
  they meet a mark or a level; on a damaged or half written file they may not.
* **Boundaries.** One-leaf trees, full trees, a page equal to a separator; inputs
  that are not a power of two; equal data in two blocks.
* **Patching what is written.** `mhtfile_ex.c` writes a parent before its own
  parent exists and finds its block again by hash.
* **Who owns a node.** The pool's header calls it thread safe, but fields are set
  outside the lock, and the builders test and initialise in two steps. A node
  must be given back by exactly one of those who touch it.
* **A number kept too long.** A global remembers a descriptor after it is closed.

`PROJECT.json` lists these hazards at their lines.

## Modules

| Module | Models | |
|---|---|---|
| `MHTHash` | hash values, `generateCombinedHash_SHA256` | SHA-256 is an injective function: a digest spells what was hashed. What is hashed is kept exactly: the message ends at the first zero byte (`strlen`) |
| `MHTDisk` | blocks, header, block reads, parent and child offsets, the rehashing of one block | offset `128 + 70*(p-1)` is position `p`; relative offsets stay relative |
| `MHTTree` | definitions only: what the blocks of a tree look like while pages are found in it, and its hashes | translates no code; the assumptions about initial files and the proofs are stated with it |
| `MHTLayout` | reference: the file of a complete tree in closed form | post-order positions by formula, independent of the code |
| `MHTNode` | queue nodes, their combination and serialisation, the globals | common to both families of builders |
| `MHTPath` | search and climb, one action per loop turn | |
| `MHTUpdate` | `updateMHTBlockHashByPageNo` with crashes | `torn`, `cut` are observers: blocks and pages a crash left half done |
| `MHTQueue` | the loops shared by the builder and `extentTheMHT` | one action per turn; `q` is the list without its header node |
| `MHTBuild` | `buildMHTFile_fv`: any sequence of builds, with crashes | `glob` survives builds and is fresh after a crash |
| `PageStore` | abstract: what a file promises its callers | |
| `MHTStore` | `insertNewMHTBlock`, `extentTheMHT`, updates, crashes, on one file | composes `MHTPath` and `MHTQueue`; `acked`, `cut` are observers |
| `MHTDisorder` | `insertNewPageDisorder`, `searchPageByNo`, `verifyHashInMHT`, on the file of `MHTStore` and together with its calls | `copy` is the temporary file, `rd` and `wr` are the offsets of the shift |
| `MHTBuildEx` | the three builders of `mhtfile_ex.c`: one action per write or patch | the kind of input decides only what is hashed |
| `MHTLayoutEx` | reference: `MHTLayout` without the two fields these builders never write | |
| `MHTStoreEx` | `MHTStore` on its own files and on files of `MHTBuildEx` | the same steps, other initial files; `builder` says whose file it is and never changes |
| `MHTFixedLeaves` | `buildMHTFileFvByFixedLeaves` around `MHTBuildEx`, with crashes and repeated calls, between calls of the builders by themselves | `dir` maps names (root hashes) to disk images |
| `DataSet` | `ds.c` in machine words: a file is a sequence of words | `call` is an observer; torn blocks and wrapping words are kept |
| `NodePool` | abstract: what a pool of nodes promises | |
| `QNodePool` | `qnode_pool.c`: one action per locked section, one for what is done outside | refines `NodePool` |
| `NodeQueue` | abstract: a queue is a sequence | |
| `DBQueue` | `dbqueue.c`: links, header, tail, length | refines `NodeQueue`; `Careful` restricts callers to what the builders do |
| `MHTDescriptors` | the descriptor table, `g_mhtFileFdRd`, and the callers' descriptors | |
| `MCUpdate`, `MCBuild`, `MCStore`, `MCDisorder`, `MCBuildEx`, `MCDataSet`, `MCQNodePool`, `MCDBQueue`, `MCDescriptors` | instances for TLC | |
| `MHTNodeProofs`, `MHTUpdateProofs`, `MHTBuildProofs`, `MHTStoreProofs`, `MHTDisorderProofs`, `MHTBuildExProofs`, `ResourceProofs`, `DBQueueProofs` | theorems | `MHTNodeProofs` holds what the others need to know of hashes and nodes, `MHTDisorderProofs` rests on the lemmas of `MHTStoreProofs`, `ResourceProofs` is about pool, descriptors and data sets |

`pc` (updates, insertions) and `stage` (queue loops) say where a process is;
`cur` is the block in the buffer of the running walk, `ret` the offset the
search will return, `slot` the leaf an insertion fills, `hdr` the header on
disk. `MHTDisorder` reuses these steps as they are: its climbs, scans, extension
and separator walks are those of `MHTStore`, and `op.kind` says whose they are.
An action makes at most one write and `Crash` is enabled between any two
actions, which is finer than the code needs and loses no behaviour: memory is
lost, the file stays. A write of one block is taken as atomic and writes reach
the disk in order; the code calls no `fsync`, so after a power failure (rather
than the death of the process) more could go wrong than the model shows.

Definitions whose comment begins "Faulty variant" are plausible bugs in the
definition that follows. No specification uses them; each is put in place of
the definition once, to see that a property notices (`mutants` in
`PROJECT.json`).

## Runs

| Run | Question | Bounds | Result |
|---|---|---|---|
| `update` | what do updates and crashes do to a well-formed file | trees of 2 and 4 leaves, one of them padding; a page that is missing; one new hash | holds |
| `update_zero_byte` | does a changed hash always show | a hash with a zero byte | **violated** |
| `update_one_leaf` | is a page that is in the tree found | a tree of one leaf | **violated** |
| `build` | is every finished file the one it should be | 1 to 8 pages, and a data set with a page numbered 0x7FFFFFFF; any number of builds in a process | holds |
| `build_stale_fslo` | does the header name padding only if there is some | the same | **violated** |
| `store` | growth, updates and crashes, on files of both builders | from 1 to 5 pages, at most two operations cut and not repeated (`MaxCut`); a full file of `mhtfile_ex.c` from 4 to 5 pages, one cut (`ExMaxCut`) | holds |
| `disorder` | insertions anywhere, with the other calls; what a crash in the shift costs | from 2 to 5 pages, one insertion cut after the copy (`MaxBroken`), three pages used after it (`PagesAfter`) | holds |
| `build_ex` | is every finished file of `mhtfile_ex.c` the one it should be; is there a tree for every part of a split data set, whatever was cut | arrays, files and data sets of 1, 2, 4 and 8 elements and some in between, padding at the end; data sets of 3 and 5 blocks split with `leaf_num` 2 and 3 (rounded to 4); any number of calls in any order, crashes | holds |
| `dataset` | are blocks kept, whole and sorted | two files of up to 3 blocks, two rows of data, words of 8 bits, any sequence of calls | holds |
| `pool` | does a node have one owner | two threads, three nodes, preallocation of two | holds |
| `queue` | is the list a sequence | four nodes, one of them the header; callers that do what the builders do (`Careful`) | holds |
| `descriptors` | is every open descriptor somebody's | two MHT files, two others, numbers 3 to 6 | holds |

Bounds. `MaxPos` = 15 blocks is a tree of 8 leaves, so `store` goes through three
extensions and leaves the last tree partly padded, and `build` meets every
padding length from 0 to 3 and queues with three peaks. `NoPage` = 99 stands
for 0x7FFFFFFF. `MaxHash` bounds updates after a crash inside an extension:
each of them also hashes blocks above the old root, which belong to no tree
yet, and the spelled hash would grow without end; a hash of the tree itself is
never longer than `MaxPos`. `MaxCut` = 2 lets a crash hit an insertion while
the update of another page is still half done, and the other way round.

`store` starts from one page only: by `OwnSameAsRebuilt` a file grown to two
pages is the file built from them, so every larger start is met on the way.
The file of `mhtfile_ex.c` has four pages because an update stops short of the
root only when there are two levels above the leaves.

`disorder` needs five pages for an extension from four leaves to eight in an
insertion, and two for it to have something to shift; what it says of finished
files (`SortedAsRebuilt`, `VerifyTells`) it says while no insertion was cut
(`broken` = 0), what a cut one costs is `ShiftKeepsPages`. After that crash the
callers use `PagesAfter` = {1, 4, 7}: before, between and behind the others.
Eight elements in `build_ex` combine over three levels, so patches reach blocks
with an arbitrary distance to the end of the file. In `dataset` a word has 8
bits instead of 32 and the padding index 127 stands for 0x7FFFFFFF; a row ends
with 127, so that the block added behind it has a negative index and the
subtraction in `compare_block_info` overflows within two blocks. Two
threads suffice for the pool, whose steps involve one thread's node and the
list; three nodes let the list have a middle, and the theorems lift the bounds.
Four nodes give queues of three, where first, middle and tail differ. Four
numbers suffice for descriptors: an insertion uses two at a time.
`CHECK_DEADLOCK FALSE` is set for the run about data sets, whose files only
grow up to `MaxBlocks`.

Fairness. `FairSpec` adds weak fairness of the steps of the running operation
only: calls are synchronous and nothing blocks, so a call that was made runs on
until it returns or its process dies. Nobody is obliged to start a call or to
crash. `AnySpec`, `DisorderSpec`, `FixedSpec` and `FairSpec` of the builder state the
same. The pool, the queue, data sets and descriptors have no loop of their
own to end and state no fairness.

What the properties say. Some runs check a conjunction: `HeaderInv`, `ShiftInv`,
`DirectoryComplete`, `FilesWhole`, `LinksAgree` and `TableAccounted` join the type
invariant of their module with the parts explained here. The type invariants of
updates, the builder and the pool are proved instead.

* `MerkleUnlessTorn`, `DamageTraceable`: after any mix of updates and crashes,
  a hash that does not combine its children is in a block a crash left behind,
  above a leaf whose update was cut. Repeating that update repairs it.
* `WalkEndsAtRoot`, `SearchFindsPage`, `ShapeKept`, `Returns`: climbs reach the
  root, searches find what is there, updates change only hashes, both loops end.
* `ChangeShows`: a changed hash makes the parent's hash wrong. This is what a
  Merkle tree is for, and it holds as long as no hash contains a zero byte.
* `StreamConsistent`, `PeaksFall`, `OnlyRootRemains`: at every moment of a
  build, blocks already written and nodes still queued form one forest with
  correct offsets and hashes; the queue is a binary counter; it ends as one root.
* `BuiltAsLaidOut`: the finished file is `MHTLayout`'s (for `mhtfile_ex.c`
  `MHTLayoutEx`'s), and the header names its root and first padding leaf.
* `AckedFound`, `StoreSpec`: whatever an operation is doing and wherever crashes
  cut operations, a page whose insertion returned is found; the file implements
  `PageStore`. What `PageStore` does not promise: a page whose insertion was cut
  may be visible and then disappear, because the header still names its leaf.
* `OwnSameAsRebuilt`: grown files equal files built at once, in every field. The
  C code was run on the same cases (1 to 3 pages grown up to 6) and the files
  were equal byte by byte.
* `StaleOnlyAboveGaps`: in a file at rest every interior hash combines those of its
  children, except right above a child that `mhtfile_ex.c` left without parent
  offset. In a file of `mhtfile.c` there is none, so there it says that the file
  is a Merkle tree.
* `HeaderNamesSlot` (in `HeaderInv`): FSLO is the leaf behind the last reported page, or 0.
* `ShiftKeepsPages` (in `ShiftInv`): while later pages move one leaf on, a reported page that is
  in no leaf is in the copy, still to be read, and there is one such page at a
  time. With crashes: one page lost per insertion that was cut after the copy,
  and never more by anything that is called later. Repeating the insertion does
  not bring it back, since the copy is made anew. A page that a call is at work
  on, or was when a crash cut it, may show the old hash or the new one and is not
  counted.
* `SortedAsRebuilt`: files that grew in any order of pages equal files built at
  once, except for IZN (`ZeroMarkTells` below). `VerifyTells`: `verifyHashInMHT`
  accepts exactly the pages and hashes that were reported. Both are stated only
  while no crash cut an insertion: a crash in the separator walk after a shift, followed by
  another insertion, can leave leaves unsorted, and searches then miss pages
  that are in the file.
* `BlocksJoinChildren`, `QueueStaysShort`, `PatchFindsOwn`: in every state of a
  build in `mhtfile_ex.c`, for any number of elements, each block's offsets lead
  to its children, at most one node per level is queued, and each patch hits the
  block of the node it is for (if no two subtrees are equal).
* `PaddedOnce`, `NamedAfterRoot` (in `DirectoryComplete`), `EveryPartBuilt`, `FixedReturns`: a call ends; one of
  `buildMHTFileFvByFixedLeaves` that returns has a complete tree for every part
  and pads once, however many calls were cut before; a tree under its final name
  is complete.
* `WholeBlocks` (in `FilesWhole`), `BlocksKept`, `SortOrders`: no call on a data set loses or tears
  a block, sorting puts indices in order with padding last, provided that an int
  holds what lies between any two of them (`Near`).
* `OneOwner`, `FreeListEnds`, `NodesHandedOutOnce`: no interleaving gives a node to
  two threads or makes the free list a ring, although a second initialisation
  may drop the list. (`CountTells` holds for one thread only.)
* `BackwardMirrors`, `LengthTells` (in `LinksAgree`), `NodesAccounted`, `ImplementsSequence`: links,
  tail, length and the pool's nodes agree after any sequence of calls.
* `NoneLeftOpen` (in `TableAccounted`): each open descriptor is held by a caller or will be closed by
  the next `initOpenMHTFileWR`, so repeated insertions do not run out of them.

### Disagreements with the documentation

* `update_zero_byte`: `mhtdefs.c:89` hashes `strlen(tmp_buf)` bytes of two binary
  hashes. Everything behind the first zero byte is ignored; about one pair of
  hashes in five contains one. `mhtdefs.h:69` promises the hash of both.
* `update_one_leaf`: `mhtfile.c:456` sets the result only when the search moves,
  so the page of a one-leaf tree is never found (`mhtfile.h:146`). Its insertion
  of further pages works (`store`), and then it is found; `AckedFound` counts the
  page of such a file as found.
* `build_stale_fslo`: `mhtfile.c:340` writes a global no build resets. A full
  tree built after a padded one names a block in use as its first padding leaf
  (`filemht_structure_sketch:26`), and the next insertion fills that block.

The three above are runs. The following statements of comments are definitions
beside the properties; no run names them, since TLC refutes each within seconds
when it is put in the place of the INVARIANTs of the configuration named (with
the change in parentheses):

* `SortsAll` (`MCDataSet.cfg`): `ds.c:573` compares by subtracting two ints. Indices
  that are further apart than an int holds stay in the wrong order (`ds.h:127`); a
  negative one comes about when `ds_extend_dataset_by_array` counts on from a word
  of data.
* `RemainingWrittenBack` (`MCDisorder.cfg`, `InitLeaves <- MCOne`): `mhtfile.c:887`
  never shifts the root's block. A page inserted by `insertNewPageDisorder` into
  a file of one page replaces that page (`mhtfile.h:262`). A compiled program
  behaves the same.
* `ZeroMarkTells` (`MCDisorder.cfg`): `mhtfile.c:870` leaves IZN set in a filled leaf
  (`dbqueue.h:49`).
* `EveryElementBuilt` (`MCBuildEx.cfg`, `Inputs <- MCUneven`): the builders of
  `mhtfile_ex.c` work for powers of two only, which no comment says
  (`mhtfile_ex.h:37`). Nodes behind the head are not written; the process then
  aborts in `freeQueue`.
* `PatchFindsOwn` (`MCBuildEx.cfg`, `Inputs <- MCEqual`): `mhtfile.c:2419` finds the
  wrong block for one of two equal subtrees (`mhtfile_ex.h:210`), and the
  separators of the left one are lost. It holds without equal subtrees.
* `RestIsMerkle`, `Returns` (`MCStore.cfg`, the second with `ExLeaves <- WithPad`):
  files of `mhtfile_ex.c` lack parent offsets (`mhtfile_ex.c:868`) and the root's
  mark (`:744`). Updates leave the root's hash as it was when the tree has four
  leaves or more (`mhtfile.h:179`), and the insertion that fills the last padding
  leaf scans past the end of the file for ever (`mhtfile.h:236`). Both were seen
  with compiled programs.
* `AsManyFiles` (`MCBuildEx.cfg`, `InitData <- Twice`, `LeafNums = {2}`): parts with
  equal data have one file (`mhtfile_ex.c:98`).
* `ArrayStored`, `ExtensionOrdered`, `InputAppended` (`MCDataSet.cfg`): `ds.c:190`
  stores the first element in every block, `ds.c:288` takes data for the last
  index, `ds.c:384` reads the input from its header on (`ds.h:60`, `:106`, `:117`).
* `CountTells` (`MCQNodePool.cfg`): the test at `mhtfile_ex.c:530` is stale when the
  pool is initialised, and the count forgets nodes in use (`qnode_pool.h:54`). With
  `Thread = {t1}` it holds. No node is given out twice because of it (`OneOwner`,
  proved). The repository starts no threads; this is about the promise of the
  header.
* `GivenNodeReturned`, `FreeingEnds` (`MCDBQueue.cfg`, `Careful = FALSE`, and no check
  for deadlock, since the program aborts) and `LookBackwardStops`: `dbqueue.c:155`
  removes the head instead of the tail, `:170` frees an MHT node twice, `:89`
  returns the header (`dbqueue.h:126`, `:146`, `:175`). The builders never do the
  first, do the second only when nodes are left behind the head, and compare with
  the header.
* `ReturnedRefers` (`MCDescriptors.cfg`): `mhtfile.c:364` closes a number it no longer
  owns, and `insertNewPageDisorder` closes the descriptor its caller holds, as in
  `prfm_eval_insertcmn.c:49-67` (`mhtfile.h:118`).

## Proofs

Every theorem is about all values of the constants that meet the named
assumptions: files of any size, any set of pages and hashes, queues and pools of
any finite size, any number of crashes (but for `MaxCut` = 0 where it is named).

| Module | Theorems | State for every instance |
|---|---|---|
| `MHTUpdateProofs` | `TypeCorrect`, `MerkleSafety`, `WalkReachesRoot`, `ShapeSafety`, `DamageSafety` | `TypeOK`, `MerkleUnlessTorn`, `WalkEndsAtRoot`, `ShapeKept`, `DamageTraceable` |
| | `SearchSafety` (if `RootsFork`), `ChangeSafety` (if `HashesWhole`) | `SearchFindsPage`, `ChangeShows` |
| `MHTBuildProofs` | `BuildTypeCorrect`, `StreamSafety`, `PeaksSafety`, `SingleRoot` | `TypeOK`, `StreamConsistent`, `PeaksFall`, `OnlyRootRemains` |
| `MHTStoreProofs` | `AckedSafety`, `HeaderSafety`, `StoreImplements`, about `Spec` | `AckedFound`, `HeaderInv`, `StoreSpec` |
| | `AnyAckedSafety`, `AnyHeaderSafety`, `AnyImplements`, about `AnySpec` (if `ExFull`) | the same |
| | `MerkleSafety`, about `Spec` | `RestIsMerkle` |
| | `StaleSafety`, about `AnySpec` (if `ExFull`) | `StaleOnlyAboveGaps` |
| `MHTDisorderProofs` | `ShiftInvariance`, `ShiftSafety`, about `DisorderSpec` (if `LeavesFork`) | `DInv`, `ShiftInv` |
| | `OrderInvariance`, `VerifySafety` (if `LeavesFork` and `MaxCut` = 0) | `OInv`, `VerifyTells` |
| `MHTBuildExProofs` | `BlocksJoin`, `QueueShort`, about `Spec` of `MHTBuildEx` | `BlocksJoinChildren`, `QueueStaysShort` |
| | `FixedBuilder`, `FixedTypes`, about `FixedSpec` of `MHTFixedLeaves` | the same two, `FixedTypeOK` |
| | `Directory` (if `PartsFork`), `PaddingOnce` (if `NoPadding`), about `FixedSpec` | `DirectoryComplete`, `PaddedOnce` |
| | `PatchSafety` (if `InputsDiffer`), about `Spec`; `FixedPatch` (if `InputsDiffer`, `PartsDiffer`, `NoPadding`), about `FixedSpec` | `PatchFindsOwn` |
| `ResourceProofs` | `PoolTypeCorrect`, `PoolOneOwner`, `PoolListEnds`, `PoolImplements`, about `QNodePool` | `TypeOK`, `OneOwner`, `FreeListEnds`, `NodesHandedOutOnce` |
| | `DescriptorSafety`, about `MHTDescriptors` | `TableAccounted` |
| | `DataSetsWhole`, `DataSetsKept`, `DataSetsSorted` (if `PointerRows`), about `DataSet` | `FilesWhole`, `BlocksKept`, `SortOrders` |
| `DBQueueProofs` | `LinksSafety`, `NodesSafety`, `QueueImplements` (if `Careful`) | `LinksAgree`, `NodesAccounted`, `ImplementsSequence` |

### Updates

`MerkleUnlessTorn` alone is not inductive: the climb is only right because
child and parent offsets are inverse to each other and only the block the header
names is marked as root. The invariant `IInv` adds that (`WellLinked`), and that
the climb is at a block of the tree. `HashFrame` shows that changing a hash
keeps it, and one lemma per action does the rest.

Three more invariants stand on `IInv`. `Traced` says where a running walk is: on
the path up from the leaf of its page, so a block it leaves stale is above that
leaf (`DamageTraceable`). That path (`PathUp`) is a recursive function;
`AboveUnfolds` and `ChainUnfolds` show, by the smallest set closed under going to the
parent, that a function with these equations exists, so one may unfold it; it is
the same for files that differ in hashes only. `OnTheWay` says that
a search is at a block on the path up from the leaf it looks for, wherever that
leaf is; `SearchTree`, which the initial files meet, says that separators lead
the right way at each block of such a path. `StaysWhole` says that no hash in the file
contains a zero byte; then `strlen` measures whole messages (`StrLenWhole` in
`MHTNodeProofs`) and `generateCombinedHash_SHA256` is injective (`CombineInjective`).

### Builder

The invariant `QInv` says what the levels in the queue look like in each stage: settled (the
parentless nodes fall strictly), walking (everything before the walk is above the
tail, everything it passed is below the tail and has a parent), draining (one
node above the padding level). `CombineInv` is the hard step: two queue nodes
change, one is appended, and `StreamConsistent` has to be carried over for all
others (`StreamKept`).

### Insertion, extension and updates of one file

`AckedFound` speaks of a search, which is recursive in the file, and is not
inductive: what a search finds depends on every separator, offset and level in
the file, and the file is rewritten block by block while the tree grows. The
proof never follows a path. It uses positions: the tree lies in the file in
post-order, so the blocks below block `p` are those from some `lo[p]` up to `p`
(`TreeAt` in `MHTTree`). A search for the page in leaf `x` is at a block `p` with
`lo[p] <= x <= p` from its first step to its last, and induction over positions
gives its result (the least closed set and well-founded induction of the
library, both in first-order form).

The invariant is `IInv`, which says there is a function `lo` with `IInvAt(lo)`:

* the file as its header names it is sound (`Holds`, `HashesShown`): one tree, leaves
  in the order of their pages, padding behind them, each separator leads to the
  side a page is on, and every reported page that no operation is at work on has its hash;
* where the search and the climb are (`SearchInv`, `ClimbInv`), which leaf an insertion
  fills (`InsertInv`), up to which block the separators above it are already right
  (`SepsInv`), and that no padding leaf was passed on the way to the next one
  (`NextInv`);
* for each stage of the extension, the row of blocks written and nodes still
  queued (`Row`, `Grown`): parentless nodes fall in level (`Falls`), the old root either
  still waits as the head of the queue or has been joined by everything behind it,
  and what was added is padding (`WalkAt`, `FlushAt`, `PadAt`). The old tree is never
  disturbed except that its root's block loses its mark and gets a parent.

There is a lemma for each action. The hard ones are `ExtendCombineInv` (a node is
combined; `GrowNode` carries the row over), the last write of the extension,
which turns the row into the file of the new header (`ExtendDone`), and the
separator walk, where each block on the way up must separate the new page without
disturbing the others.

The refinement `StoreSpec` needs two facts more: hashes in leaves are hashes that
were given (`HashesGiven`), and what a search returns in terms of leaves (`Shows`). Then
each step is classified (`StepKinds`): it puts the page of the operation, reports
it, or changes nothing that `PageStore` sees.

`AnySpec` starts also from files of `mhtfile_ex.c`. The theorems about it need that
the rows given to that builder hold no padding (`ExFull`); the instance of `MCStore` is
of this kind. With padding such a file has leaves without parent offset, and the
insertion's scan for the next padding leaf need not end (`Returns` fails there, see
above).

### Hashes above the leaves

`StaleOnlyAboveGaps` speaks of files at rest with no operation cut, and so does
`RestIsMerkle`. Neither is inductive, and neither says why an extension, which
may run over a tree with hashes a crash left stale, brings them back in order
when the cut insertion is repeated. The invariant `HashInv` accounts for each interior
block at each moment (`Explained`): its hash combines those of its children, or it is
right above a gap, an interior block without parent offset, or there is a leaf
below it with a mark (`Marks`) from which a climb would come to the block without
meeting a gap (`Reaches`). A leaf has a mark when its page is in `cut`, or when it is
the leaf the running operation wrote and the climb is still below the block.

* The write of a leaf's hash makes stale what is right above the leaf, and gives
  the leaf its mark. A turn of the climb makes one block right and the block
  above it stale, unless the climb ends here, at a gap or at the root
  (`ExplainsWrite`, `ClimbHashes`). `PathAbove` says that the climb met no gap so far.
* When the climb is over no block above its leaf is stale on account of that leaf, so the
  leaf may lose its mark when the operation returns (`ClimbIsOver`,
  `UpdateReturnsHashes`, `InsertReturnsHashes`). A crash puts the page into `cut` and
  the mark stays (`CrashHashes`).
* The blocks an extension adds join the tree all at once, when the header is
  written. Each was combined from its children in the row, which is part of what
  `Grown` says of the row (`RowCombines`); the old root keeps its hash, stale
  or not, and gets a parent offset, so it is no gap and climbs from the leaves below
  it come to the new blocks (`ExtendHeaderHashes`).

At rest with `cut` empty no leaf has a mark (`RestExplained`), which leaves gaps. In a
file of `mhtfile.c` there is none, and it stays so (`LeavesClimb`).

### Insertion in page order

A cut shift leaves a file that is sorted no more, with one page twice and one
missing, and everything may run on it afterwards. So nothing of `IInv` that
speaks of order, or of what searches find, can be part of the invariant `DInv`. What
remains, with a function `lo` as before:

* the shape (`Formed`): the file is one tree, every block below the root has a parent
  offset, no leaf in use is behind padding (`PadsLast`), and a separator that is a page has
  no padding on its left (`PagesLeft`). The last point is what keeps every search,
  wherever wrong separators send it, from going past the first padding leaf into
  the middle of the padding (`SearchAt`), so a shift writes to leaves in use and the
  next one only;
* the copy (`CopyInv`). Until the shift begins, and in calls that only update, the leaves
  of copy and file are the same. Afterwards there is a leaf `y`, where the search
  ended (`ShiftAt`): before `y` and behind `wr`, the leaf written last, copy and file agree, and
  in between each leaf holds what the leaf before it holds in the copy. The tree may
  have been extended since the copy was made; then all that the copy does not
  reach is padding, but for the leaf behind the old root;
* the account (`Ledger`): but for a set `W` of at most `broken` pages, and those a call is, or
  was, at work on, each reported page is in a leaf before the one the header names, with
  its hash, in the copy when there is one and in the file otherwise. Pages that
  are already behind that leaf are in `W`: those are the pages a later insertion may
  overwrite.

`ShiftTurnKeeps` is one turn of the shift: the next leaf of the copy is the leaf
`wr`, which held the page that is to be written, and the next leaf of the file takes
it (`ShiftMoves`). `CrashLoses` compares the account of the copy with that of the
file when the copy is lost: whatever the turn, one page is added to `W`. The leaf the header
names lies inside the shifted part or on one side of it, and the page lost is the one
at work, the last before the named leaf, or the one still to be written.
`DisorderReturnsKeeps` shows that a shift which ends loses none: it has written the leaf
the header names (`ShiftPassesSlot`), so the leaf that is next in the copy holds padding or
is not there. The extension in the middle is that of `MHTStoreProofs`, whose
lemmas are stated about the blocks (`Grows`) and not about the call that asked for them.

`ShiftKeepsPages` follows: a page that the account of the copy shows and no leaf of the
file holds is in leaf `wr` of the copy (`AwayShown`), which is still to be read.

That searches tell the right answer (`VerifyTells`) needs the order that `DInv` leaves out.
`OInv` adds it, as long as `cut` is empty and `broken` = 0:

* `FileOrdered`: the pages of the leaves ascend at every moment, also in the middle of a
  shift, and are reported pages, but for the one at work. For a turn of the shift to
  keep this, the page to be written next must be behind all pages written (`Fits`)
  and before all that are still in their leaf, which the order of the copy gives
  (`CopyOrdered`, `ShiftOrder`);
* `Separates`: a separator is the page of the last leaf on its left. While the
  walk after a written leaf is under way this may fail, but only behind that leaf and at
  or above the block the walk stands at (`Unset`). Between a block and its parent no block
  has the written leaf as the last one on its left (`SepsBeginOrder`), so the walk
  leaves out none;
* `Beside`: a search has smaller pages before the subtree it stands at and greater ones
  behind it. Hence the leaf where the second search ends is the place of the new
  page (`PutPageOrder`), and with the `Ledger`, whose `W` is empty now, a search for a
  reported page ends at its leaf (`FoundThere`).

The blocks an extension adds separate as they should because their page is that of the
last leaf of the old tree, or none (`ExtendHeaderOrder`).

### Builders of `mhtfile_ex.c`

These builders write a leaf when its parent is made, an interior node at once,
and compute how far away children and parent are from the level alone. `BlocksJoinChildren`
says that these numbers lead to the right blocks, which depends on where every
queued node's tree lies in the file. The invariant `ExInv` says where: there are
ends `e[1] < e[2] < ...` such that the tree of the k-th queued node is the
stretch of `TreeSize(level)` blocks that ends with `e[k]`, the node's own block, and
these stretches follow each other without a gap up to the file pointer. There is one
form for each stage (`ReadAt`, `CombineAt`, `LeftAt`, `RightAt`, `ParentAt`),
since a combination adds the parent to the queue before it takes the children
out one by one, and writes leaves but only patches interior nodes. The distance of a left child is
then the size of its sibling's tree plus one (`LeftDistance`), and
`QueueStaysShort` falls out of the levels in `Base`, which fall strictly. `Joins` carries
the finished blocks through later writes and patches: these change no
level, no hash and no child offset of a block before the file pointer (`Keeps`).
There is one lemma per action.

`FixedInv` adds what the loop over the parts needs: the blocks a data set has and
lacks make up whole parts, and the part at work has `leaf_num` of them, so its
tree has a root for the file to be named after when the part is at least two
blocks. For `PaddedOnce` an invariant about one call is not enough, since a call may be
cut while it pads and then be repeated with another `leaf_num`. `PadInv` says that
the data set is some blocks that are no padding and then padding, with room for
it below the next multiple of one of the part sizes. It is inductive
because part sizes are powers of two (`RoundUp`) and of two powers of two one
divides the other (`Pow2Divides`): what a longer part lacks has room in its own
next multiple, what a shorter part lacks never leaves the longer part's
(`RoomDivides`, `RoomGrows`).

`PatchFindsOwn` says that the backward search by hash (`mhtfile.c:2419`) finds the
blocks of the two nodes just combined. `SearchInv` says why: no other block has the
hash of an interior block (`Once`). A new parent keeps that true. When its
children are interior, a block with the same hash would have children with the same
hashes as these; the right one is the last block of the file by `Once`, and it would have
to lie before its own parent (`PairNew`). When they are leaves, the blocks
right above the leaves combine the pairs of elements read before (`PairsTo`,
and a leaf waits in the queue just when an odd number was read), and those are
different by assumption. A hash of another level is different because digests of
one length make hashes whose length grows with the level (`HashLens`), which stands
for SHA-256 giving different texts different hashes. For the parts of a data set `DataInv`
adds that the data set is one of the caller's with padding behind it, and `PadInv`
how much.

### Pool and queue

What makes `OneOwner` inductive is the shape of the free list: a sequence of
distinct live nodes that nobody holds, each linked to the one below. `From` is the
smallest set closed under `next`; `StackReach` shows that for such a list it is the
set of the sequence's nodes, `StackFrame` that writes to the `next` of nodes in use
leave the list alone. One lemma per action then gives the stack after it, and
the refinement: only `Alloc` and `Free` change what threads hold.

The invariant of the queue (`QInv`) is that there is no queue and no node in
use that a caller does not hold, or that header and queue are a chain
`c[0], ..., c[n]` of distinct nodes, linked in both directions, which are exactly the
nodes in use that nobody holds. `ItemsAreRow` shows that the walk along `next`, a
recursive function in the model, gives the sequence `c[1], ..., c[n]`; `ChainGrows` and
its counterpart for removals say what one node more or less does to it. Each
operation is then one step of `NodeQueue`, or none. `Careful` restricts callers to
what the builders do; without it the queue is not a queue (see
`GivenNodeReturned` above).

### Descriptors and data sets

The handles that callers got from `initOpenMHTFileWR` say nothing of what is open:
an insertion closes their number and leaves them where they are. The invariant
behind `TableAccounted` (`OpenIsOwned`) therefore counts from the table: an open
number is the one in the global or one that a caller opened without the library.
`OpenedFree` says that `open` gives a free number or none.

The invariant of data sets says that every file has the shape of a header and
`k` blocks of an index and a pointer (`Shaped`). `ConcatBlocks` gives the words of a
concatenation by induction over its running value, `Appended` what is in a file
after blocks were added behind a shaped one, and each call is one of its uses:
that `ds_extend_dataset_by_ds` reads its input from the header on makes its data
wrong (`InputAppended`) but its number of blocks right. `Permuted` counts the places
of a block before and after `qsort`, and `CompareExact` says when the wrapped
difference of two words is the difference of their ints.

### Assumptions

* `DiskAssumption`, `BuildAssumption`, `BuildExAssumption`, `FixedLeavesAssumption`,
  `PoolAssumption`, `QueueAssumption`, `DescriptorAssumption`, `DataSetAssumption`: constants are of the right kind; inputs and data
  sets are not empty; the queue's set of nodes is finite.
* `UpdateAssumption`: the files updates start from are well formed: a linked tree,
  hashes combined, separators that lead to their leaves, no page twice, a root
  without parent offset.
* `StoreAssumption`, `ExAssumption`: the files insertions start from are laid out as
  `LaidOut` says: sorted, with separators that lead to the leaves, every interior hash combined
  (`Hashed`), and, in a file of `mhtfile.c`, a parent offset in every block below the
  root (`Climbable`). TLC evaluates both on the files `MHTLayout` and `MHTLayoutEx`
  describe, and the runs `build` and `build_ex` show that the builders leave these.
  That the closed form has this shape for every number of leaves is not proved.
* `RootsFork`: files of more than one block. In a file of one block the search
  fails (`update_one_leaf`). `HashesWhole`: no zero byte in any hash the updates start
  from or are given (with one, `ChangeShows` fails: `update_zero_byte`). `Careful`, `ExFull`:
  as above.
* `PartsFork`: no caller splits into parts of one block, whose file has no root block
  and is renamed to an empty root hash. `NoPadding`: a data set has no padding
  before the first call (an input padded by other means may hold more than
  one part of it).
* `InputsDiffer`, `PartsDiffer`: the digests of an input, or of a part of a data set
  that padding can make, have one length and no zero byte, and no two of the pairs
  of neighbours that become siblings are alike. With four blocks of the same data
  the search finds a wrong block (`Inputs <- MCEqual`, see above).
* `PointerRows`: data are as long as a pointer, which is what
  `ds_extend_dataset_by_array` writes whatever the length of the file's blocks is;
  with other data it tears the file.
* `LeavesFork`: the file was built from more than one page. In a file of one page the
  shift never reads the block at the root's offset, which is the page itself
  (`RemainingWrittenBack` fails, see above). `ShiftAssumption`, which TLC evaluates like
  `StoreAssumption`: in the file the builder left no separator that is a page has padding
  on its left, each separator is the page of the last leaf on its left, and leaves
  without a page are marked as padding (`Separated`).
* `MaxCut` = 0, in `OrderInvariance` and `VerifySafety` only, as in the run `disorder`: no
  crash cuts an update or an insertion behind the last page. After such a crash
  `VerifyTells` is not so: the leaf may hold a page or a hash that was never reported. (What a
  search finds then is `AckedFound`, which `MHTStoreProofs` proves with any number of
  cuts.) Crashes of searches, and of insertions in page order before the copy is made,
  are included; one after that is counted by `broken`, and `VerifyTells` says nothing any more.
* The instances of the passing runs satisfy all these conditions.
* `MHTHash` is used through its type only (`CombineType`), except in
  `ChangeSafety`, `PatchSafety` and `FixedPatch`, so the other theorems hold for any combination of hashes.

### Only model-checked

* Liveness: `Returns`, `BuildEnds`, `FixedReturns`, and so that the scan for the next
  padding leaf ends.
* `BuiltAsLaidOut`, `OwnSameAsRebuilt`: equality with the closed form of `MHTLayout` in
  every field. It would need induction over that recursive form. The theorems
  say instead which page is found with which hash and that all hashes combine.
* `EveryPartBuilt` of the builders of `mhtfile_ex.c`, which rests on the same closed
  form.
* `SortedAsRebuilt` of `MHTDisorder`: equality with the same closed form. `MHTDisorderProofs`
  says which leaf holds which page and what the separators are (`OInv`), but nothing
  of the interior hashes and of the pages of parents and children that blocks repeat.

## Not modelled

* SHA-256 itself, serialisation to bytes, printing, the command line, strings,
  argument checks that return at once.
* The demonstration builder (`buildMHTFile`): the loops of `MHTQueue` over generated
  pages.
* Failing `read`, `write` and `open` calls, except where a full descriptor table
  makes `open` fail: the code ignores most of their results. When
  `ds_sort_dataset_by_index` fails to read a torn block it frees pointers that
  were never set (`ds.c:451`, `:494`); the model has no outcome for that call, and
  `WholeBlocks` shows that no data set of `ds.c` with data as long as a pointer is
  torn.
* Memory. Some buffers leak, and a builder of `mhtfile_ex.c` never gives back an
  interior node it takes out of the queue once its block is written
  (`mhtfile_ex.c:690`, `:730`), so it holds more memory than its header promises.
* `freeQueue2`, `freeQueue3`: they are called when only one of header and tail is
  set, which `initQueue` and `freeQueue` never leave. `destroy_qnode_pool`, which
  nothing calls. `scan_mht_file_data_blocks`, which divides a file's length, and
  `extendSupplementaryBlock4InDataFile`, which calls a function it is given.
* `leaf_num` = 1 in `MHTFixedLeaves`: a part of one block has no root block, and
  its file is renamed to an empty root hash.
* Page numbers are not negative, as the callers check. Writes reach the disk in
  order.

## Plan

Done: hash, disk, path, update (with proofs); queue loops, builder (with proofs);
page store and store (with proofs); insertion in page order (with proofs); the builders of
`mhtfile_ex.c` and trees of fixed size (with proofs), their files in use; data sets (with proofs);
pool (with proofs); linked queue (with proofs); descriptors (with proofs).

Open, as proofs: that the interior hashes are right after a shift that runs to its end, as
`RestIsMerkle` says it of the insertion behind the last page, and all equalities with the
closed form of `MHTLayout`.
