----------------------------- MODULE PageStore -----------------------------
(***************************************************************************)
(* What an MHT file promises its callers: it maps pages to hashes.  A step *)
(* gives one page a hash; a page whose insertion or update was reported    *)
(* as done is never lost and changes only when a hash is put for it.  A    *)
(* page that was put but not reported (its insertion was cut by a crash)   *)
(* may vanish when another page is put.                                    *)
(***************************************************************************)
CONSTANTS
    Pages,      \* the pages callers use
    Hashes,     \* the hashes they put
    Absent      \* the value of a page that is not in the store

VARIABLES
    store,      \* the hash of each page, or Absent
    known       \* the pages whose insertion was reported

Present == {p \in Pages : store[p] # Absent}

Init ==
    /\ store \in [Pages -> Hashes \cup {Absent}]
    /\ known = Present

Put(p, hash) ==
    /\ store'[p] = hash
    /\ \A x \in Pages \ {p} :
          \/ store'[x] = store[x]
          \/ x \notin known /\ store'[x] = Absent
    /\ known' = known

Report(p) ==
    /\ p \in Present
    /\ known' = known \cup {p}
    /\ store' = store

Next == \E p \in Pages : Report(p) \/ \E hash \in Hashes : Put(p, hash)

Spec == Init /\ [][Next]_<<store, known>>
=============================================================================
