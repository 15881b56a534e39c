--------------------------- MODULE MHTDescriptors ---------------------------
(***************************************************************************)
(* The file descriptors of a program that uses the library.  One global    *)
(* keeps the number the last initOpenMHTFileWR returned; the number stays  *)
(* in it when the file is closed, by a caller or by insertNewPageDisorder, *)
(* and the next initOpenMHTFileWR closes that number again, whatever it    *)
(* refers to by then.                                                      *)
(***************************************************************************)
EXTENDS Integers, FiniteSets, FiniteSetsExt

CONSTANTS
    MHTFile,    \* the MHT files a program works on
    OwnFile,    \* the other files it opens (data sets, results)
    TmpFile,    \* MHT_TMP_FILE_NAME
    Closed,
    MaxFd       \* the largest number the system gives out

ASSUME DescriptorAssumption ==
    MaxFd \in Nat /\ MaxFd >= 3 /\ Closed \notin MHTFile \cup OwnFile \cup {TmpFile}

VARIABLES
    table,              \* the file each descriptor refers to, or Closed
    g_mhtFileFdRd,
    handles             \* the descriptors callers hold: number, file, and
                        \* whether initOpenMHTFileWR gave it

descriptorVars == <<table, g_mhtFileFdRd, handles>>

Fd == 3 .. MaxFd

NoFd == -1

Handle == [fd : Fd, file : MHTFile \cup OwnFile, mht : BOOLEAN]

FreeFds(t) == {fd \in Fd : t[fd] = Closed}

(* open gives the smallest free number, or fails when there is none.       *)
Opened(t) == IF FreeFds(t) = {} THEN NoFd ELSE Min(FreeFds(t))

Refer(t, fd, f) == IF fd = NoFd THEN t ELSE [t EXCEPT ![fd] = f]

Shut(t, fd) == IF fd \in Fd THEN [t EXCEPT ![fd] = Closed] ELSE t

(* Faulty variant: the number in the global is not closed.                 *)
BeforeOpenKept(t, g) == t

(* The table in which initOpenMHTFileWR opens its file.                    *)
BeforeOpen(t, g) == IF g > 2 THEN Shut(t, g) ELSE t

-----------------------------------------------------------------------------
DescriptorInit ==
    /\ table = [fd \in Fd |-> Closed]
    /\ g_mhtFileFdRd = NoFd
    /\ handles = {}

(* The callers test the number for a failed open.                          *)
Given(fd, f) == {[fd |-> x, file |-> f, mht |-> TRUE] : x \in {fd} \ {NoFd}}

(* initOpenMHTFileWR called by a program: it gives up the descriptor it    *)
(* had for the MHT file before.                                            *)
InitOpen(f) ==
    LET t  == BeforeOpen(table, g_mhtFileFdRd)
        fd == Opened(t)
    IN  /\ table' = Refer(t, fd, f)
        /\ g_mhtFileFdRd' = fd
        /\ handles' = {h \in handles : ~h.mht} \cup Given(fd, f)

(* A program opens a file of its own, or closes any descriptor it holds.   *)
OpenOwn(f) ==
    LET fd == Opened(table) IN
    /\ fd # NoFd
    /\ table' = Refer(table, fd, f)
    /\ handles' = handles \cup {[fd |-> fd, file |-> f, mht |-> FALSE]}
    /\ UNCHANGED g_mhtFileFdRd

Close(h) ==
    /\ table' = Shut(table, h.fd)
    /\ handles' = handles \ {h}
    /\ UNCHANGED g_mhtFileFdRd

(* insertNewPageDisorder opens the file through initOpenMHTFileWR and      *)
(* closes it; for a page that is not there it does so a second time, with  *)
(* the temporary file open beside it.  (The program exits when it cannot   *)
(* open a file.)                                                           *)
InsertUpdates(f) ==
    LET t1 == BeforeOpen(table, g_mhtFileFdRd)
        fd == Opened(t1)
    IN  /\ fd # NoFd
        /\ table' = Shut(Refer(t1, fd, f), fd)
        /\ g_mhtFileFdRd' = fd
        /\ UNCHANGED handles

InsertAdds(f) ==
    LET t1  == BeforeOpen(table, g_mhtFileFdRd)
        fd  == Opened(t1)
        t2  == BeforeOpen(Shut(Refer(t1, fd, f), fd), fd)
        new == Opened(t2)
        t3  == Refer(t2, new, f)
        tmp == Opened(t3)
    IN  /\ fd # NoFd /\ tmp # NoFd
        /\ table' = Shut(Shut(Refer(t3, tmp, TmpFile), new), tmp)
        /\ g_mhtFileFdRd' = new
        /\ UNCHANGED handles

DescriptorNext ==
    \/ \E f \in MHTFile : InitOpen(f) \/ InsertUpdates(f) \/ InsertAdds(f)
    \/ \E f \in OwnFile : OpenOwn(f)
    \/ \E h \in handles : Close(h)

DescriptorSpec == DescriptorInit /\ [][DescriptorNext]_descriptorVars

-----------------------------------------------------------------------------
(* Every variable has its type.                                            *)
DescriptorTypeOK ==
    /\ table \in [Fd -> MHTFile \cup OwnFile \cup {TmpFile, Closed}]
    /\ g_mhtFileFdRd \in Fd \cup {NoFd}
    /\ handles \subseteq Handle

(* No descriptor is left open behind the program's back: each open one is  *)
(* a caller's, or the one the next initOpenMHTFileWR closes; a program     *)
(* that inserts for ever does not run out of numbers.                      *)
NoneLeftOpen ==
    \A fd \in Fd : table[fd] # Closed =>
        fd = g_mhtFileFdRd \/ \E h \in handles : h.fd = fd

(* What holds of the table after any calls of the program and the library. *)
TableAccounted == DescriptorTypeOK /\ NoneLeftOpen

(* mhtfile.h: initOpenMHTFileWR returns "The file descriptor refering to   *)
(* the opened MHT file."  What a caller opened refers to its file until    *)
(* the caller closes it or opens another MHT file.                         *)
ReturnedRefers == \A h \in handles : table[h.fd] = h.file
=============================================================================
