----------------------------- MODULE AllocTable -----------------------------
(***************************************************************************)
(* What the map "allocs" promises to whoever reads it: a ledger of         *)
(* outstanding allocations.  A record is entered once for an address that  *)
(* has none, it never changes while it stands, it is removed as a whole,   *)
(* and the values that allocators return for a failure (Reserved) never    *)
(* get a record.  MemleakBpf implements this ledger.  While the probes are *)
(* being attached a free may go unseen: then, and at that address only, a  *)
(* record is overwritten by the next one (MemleakAttach).  MemleakReport   *)
(* reads the ledger while it changes.                                      *)
(***************************************************************************)
CONSTANTS Key,        \* every word that may name an allocation
          Reserved,   \* the words that mean failure: NULL and MAP_FAILED
          Value,      \* what a record may say
          None        \* no record

VARIABLE allocs

TableInit == allocs = [k \in Key |-> None]

Enter(k, v) ==
    /\ allocs[k] = None
    /\ allocs' = [allocs EXCEPT ![k] = v]

Remove(k) ==
    /\ allocs[k] # None
    /\ allocs' = [allocs EXCEPT ![k] = None]

Overwrite(k, v) ==
    /\ allocs[k] # None
    /\ allocs' = [allocs EXCEPT ![k] = v]

TableNext ==
    \/ \E k \in Key \ Reserved, v \in Value : Enter(k, v)
    \/ \E k \in Key : Remove(k)

TableSpec == TableInit /\ [][TableNext]_allocs
=============================================================================
