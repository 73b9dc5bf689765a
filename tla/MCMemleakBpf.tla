---------------------------- MODULE MCMemleakBpf ----------------------------
(* Values for model-checking the probes. *)
EXTENDS MemleakBpf, TLC

CONSTANTS t1, t2, a1, a2, a3

Threads == {t1, t2}
OneAddr == {a1}
TwoAddrs == {a1, a2}
ThreeAddrs == {a1, a2, a3}
NullOnly == {NULL}
Symmetric == Permutations(Tid) \cup Permutations(Addr)

\* the malloc family of a C++ program
HeapFns == {"operator_new_array", "realloc", "posix_memalign", "operator_delete"}
HeapDelegates == {<<"operator_new_array", "operator_new">>,
                  <<"operator_new", "malloc">>, <<"realloc", "malloc">>,
                  <<"posix_memalign", "memalign">>, <<"operator_delete", "free">>}

\* the pages of a process that maps them itself
PageFns == {"mmap", "mremap", "munmap"}

\* C code that calls malloc, realloc and posix_memalign itself
CFns == {"malloc", "realloc", "posix_memalign", "free"}
=============================================================================
