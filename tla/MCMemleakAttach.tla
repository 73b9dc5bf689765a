-------------------------- MODULE MCMemleakAttach --------------------------
(* Values for model-checking the attachment of the probes. *)
EXTENDS MemleakAttach, TLC

CONSTANTS t1, t2, a1, a2

Threads == {t1, t2}
Addrs == {a1, a2}
NullOnly == {NULL}
Symmetric == Permutations(Tid) \cup Permutations(Addr)

\* a checked attachment whose result is read from memory, an unchecked one, and
\* the free of what they return
Calls == {"posix_memalign", "valloc", "free"}
=============================================================================
