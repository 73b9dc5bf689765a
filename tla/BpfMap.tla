------------------------------- MODULE BpfMap -------------------------------
(***************************************************************************)
(* A BPF hash map as the probes and the user-space reader see it: a        *)
(* function from every possible key to a value, with None for a missing    *)
(* key.  The kernel helpers are external code; what is modelled is what    *)
(* memleak.bpf.c and memleak.c rely on: each helper is atomic, an update   *)
(* (BPF_ANY) overwrites, an update that needs a new entry in a full map    *)
(* fails and leaves the map alone, deleting a missing key does nothing.    *)
(***************************************************************************)
EXTENDS Naturals, FiniteSets

CONSTANT None    \* the value of a missing key, a NULL lookup

Keys(m) == {k \in DOMAIN m : m[k] # None}

HasRoom(m, k, max) == k \in Keys(m) \/ Cardinality(Keys(m)) < max

UpdateElem(m, k, v, max) ==
    IF HasRoom(m, k, max) THEN [m EXCEPT ![k] = v] ELSE m

DeleteElem(m, k) == [m EXCEPT ![k] = None]
=============================================================================
