----------------------------- MODULE MemleakBpf -----------------------------
(***************************************************************************)
(* The probes of memleak (memleak.bpf.c) on the allocation functions of    *)
(* one traced process, and the process itself as far as the probes can     *)
(* tell.                                                                   *)
(*                                                                         *)
(* A probed call is an entry probe, the function's own work, and (for a    *)
(* function that allocates) a return probe.  Threads interleave between    *)
(* these.  A function may be implemented by calling another probed one     *)
(* (operator new calls malloc): then both entry probes run, and the return *)
(* probes run innermost first, all of them with the same result.           *)
(*                                                                         *)
(* Each handler is one step.  A handler only touches the entries of        *)
(* sizes and memptrs of its own thread and one key of allocs, each with    *)
(* one atomic map helper, so splitting it would only add states in which   *)
(* a block that no other thread knows yet is half recorded.                *)
(*                                                                         *)
(* Stack contents and timestamps are left out of the records: a record is  *)
(* the requested size and the stack id.  combined_only is false, as the    *)
(* loader sets it (memleak.c:252).                                         *)
(***************************************************************************)
EXTENDS BpfMap, Integers, Sequences

CONSTANTS
    Tid,                  \* the threads of the traced process
    Addr,                 \* the addresses its allocator may hand out
    NULL, MAP_FAILED,     \* what allocators return for a failure
    Sizes, StackIds,      \* requested sizes; results of bpf_get_stackid
    Fns,                  \* the probed functions the process calls itself
    Delegates,            \* <<f, g>>: f is implemented by a call of g
    CanFail,              \* the functions whose own work may fail
    Leftovers,            \* what *memptr may hold when posix_memalign fails
    ReadFaults,           \* may reading *memptr in the return probe fault?
    MinSize, MaxSize, SampleRate,      \* const volatile configuration
    MaxSizes, MaxMemptrs, MaxAllocs    \* max_entries of the three maps

SizeFns == {"malloc", "calloc", "mmap", "aligned_alloc", "valloc", "memalign",
            "pvalloc", "operator_new", "operator_new_array"}
MoveFns == {"realloc", "mremap"}
NewFns  == {"operator_new", "operator_new_array"}
FreeFns == {"free", "munmap", "operator_delete", "operator_delete_sized",
            "operator_delete_array", "operator_delete_array_sized"}
AllocFns == SizeFns \cup MoveFns \cup {"posix_memalign"}
AllFns == AllocFns \cup FreeFns

Word == Addr \cup {NULL, MAP_FAILED}
Info == [size : Sizes, stack_id : StackIds]
Block == [size : Sizes \cup {0}, stack_id : Int]

ASSUME WordAssumption ==
    /\ NULL # MAP_FAILED /\ {NULL, MAP_FAILED} \cap Addr = {}
    /\ None \notin Word /\ None \notin Info \cup Block /\ None # "memptr"
ASSUME DataAssumption ==
    /\ Sizes \subseteq Nat /\ StackIds \subseteq Int
    /\ {MinSize, MaxSize, MaxSizes, MaxMemptrs, MaxAllocs} \subseteq Nat
    /\ SampleRate \in Nat \ {0}
    /\ Leftovers \subseteq Word /\ ReadFaults \in BOOLEAN
ASSUME FnsAssumption ==
    /\ Fns \subseteq AllFns /\ CanFail \subseteq AllFns
    /\ Delegates \subseteq (AllocFns \X SizeFns) \cup (FreeFns \X FreeFns)
    /\ \A d \in Delegates : d[2] \in NewFns => d[1] \in NewFns

VARIABLES
    sizes,      \* tid -> the size_info of the allocation call in progress
    memptrs,    \* tid -> the memptr argument of posix_memalign
    allocs,     \* address -> the alloc_info of an outstanding allocation
    call,       \* the probed call each thread is in
    heap        \* address -> the live block there: what the process asked for

kernel == <<sizes, memptrs, allocs>>
vars == <<sizes, memptrs, allocs, call, heap>>

\* stack: the probed functions entered, innermost first; ret: the result, None
\* until the innermost has done its work; ptr: the block given up to the call.
Frame == [stack : Seq(AllFns), size : Sizes \cup {0}, site : Int,
          ptr : Addr \cup {NULL}, ret : Word \cup {None}]
Idle == [stack |-> <<>>, size |-> 0, site |-> 0, ptr |-> NULL, ret |-> None]

Init ==
    /\ sizes = [t \in Tid |-> None]
    /\ memptrs = [t \in Tid |-> None]
    /\ allocs = [w \in Word |-> None]
    /\ call = [t \in Tid |-> Idle]
    /\ heap = [a \in Addr |-> None]

-----------------------------------------------------------------------------
(* Faulty variants of the bodies below.  No specification uses them: they    *)
(* stand for bugs that the properties at the end must catch.                 *)

\* an inner call replaces the entry of the call it implements
gen_alloc_enter_overwrites(t, size, stack_id) ==
    IF size < MinSize \/ size > MaxSize THEN sizes' = sizes
    ELSE sizes' = UpdateElem(sizes, t, [size |-> size, stack_id |-> stack_id], MaxSizes)

\* the entry of sizes is not deleted
gen_alloc_exit2_keeps_sizes(t, address) ==
    /\ sizes' = sizes
    /\ allocs' = IF sizes[t] # None /\ address \notin {NULL, MAP_FAILED}
                 THEN UpdateElem(allocs, address, sizes[t], MaxAllocs)
                 ELSE allocs

\* the entry of sizes is deleted only when the allocation succeeded
gen_alloc_exit2_keeps_failed(t, address) ==
    IF sizes[t] # None /\ address \notin {NULL, MAP_FAILED}
    THEN /\ sizes' = DeleteElem(sizes, t)
         /\ allocs' = UpdateElem(allocs, address, sizes[t], MaxAllocs)
    ELSE UNCHANGED <<sizes, allocs>>

\* a failed mmap is taken for an address
gen_alloc_exit2_records_failed(t, address) ==
    /\ sizes' = DeleteElem(sizes, t)
    /\ allocs' = IF sizes[t] # None /\ address # NULL
                 THEN UpdateElem(allocs, address, sizes[t], MaxAllocs)
                 ELSE allocs

\* the record is cleared, not deleted
gen_free_enter_clears(address) ==
    allocs' = IF allocs[address] = None THEN allocs
              ELSE [allocs EXCEPT ![address] = [size |-> 0, stack_id |-> 0]]

\* the record is not deleted
gen_free_enter_keeps(address) == allocs' = allocs

-----------------------------------------------------------------------------
(* The bodies shared by the handlers. *)

gen_alloc_enter(t, size, stack_id) ==
    LET sinfo == [size |-> size, stack_id |-> stack_id]
        skipped == size < MinSize \/ size > MaxSize \/ sizes[t] # None
    IN  \/ skipped /\ sizes' = sizes
        \/ SampleRate > 1 /\ sizes' = sizes       \* the clock decided against it
        \/ ~skipped /\ sizes' = UpdateElem(sizes, t, sinfo, MaxSizes)

gen_alloc_exit2(t, address) ==
    /\ sizes' = DeleteElem(sizes, t)
    /\ allocs' = IF sizes[t] # None /\ address \notin {NULL, MAP_FAILED}
                 THEN UpdateElem(allocs, address, sizes[t], MaxAllocs)
                 ELSE allocs

gen_free_enter(address) == allocs' = DeleteElem(allocs, address)

-----------------------------------------------------------------------------
(* The process.  It is a correct program: it gives up only live blocks that *)
(* no other call is working on, or NULL.                                    *)

Top(t) == call[t].stack[1]
InCall(t) == call[t].stack # <<>>
Running(t) == InCall(t) /\ call[t].ret = None
Returning(t) == InCall(t) /\ call[t].ret # None

Holds(t, a) == a \in {call[t].ptr, call[t].ret}
Busy(a) == \E t \in Tid : Holds(t, a)

\* Whether the innermost function of t hands its work on to fn.
Delegating(t, fn) ==
    /\ Running(t)
    /\ <<Top(t), fn>> \in Delegates
    /\ fn \in FreeFns \/ call[t].ptr = NULL

Executing(t) == Running(t) /\ \A fn \in AllFns : ~Delegating(t, fn)

\* A bound on the environment: an allocation starts only when an address is
\* left for it, so that memory never runs out half way through a call.
Room ==
    LET waiting == {t \in Tid : Running(t) /\ Top(t) \in AllocFns}
        free == {a \in Addr : heap[a] = None}
    IN  Cardinality(waiting) < Cardinality(free)

\* Thread t enters fn, called by the program or by the function it is in.
Enter(t, fn, size, ptr, site) ==
    \/ /\ ~InCall(t) /\ fn \in Fns
       /\ fn \in AllocFns => Room
       /\ ptr # NULL => heap[ptr] # None /\ ~Busy(ptr)
       /\ call' = [call EXCEPT ![t] = [stack |-> <<fn>>, size |-> size,
                                       site |-> site, ptr |-> ptr, ret |-> None]]
    \/ /\ Delegating(t, fn) /\ size = call[t].size /\ ptr = call[t].ptr
       /\ call' = [call EXCEPT ![t].stack = <<fn>> \o @]

Return(t) ==
    call' = IF Len(call[t].stack) = 1 THEN [call EXCEPT ![t] = Idle]
                                      ELSE [call EXCEPT ![t].stack = Tail(@)]

\* An allocation succeeds; a block that was given up moves or stays in place.
Grant(t) ==
    /\ Executing(t) /\ Top(t) \in AllocFns
    /\ \E a \in Addr :
        /\ heap[a] = None \/ a = call[t].ptr
        /\ heap' = [b \in Addr |->
              IF b = a THEN [size |-> call[t].size, stack_id |-> call[t].site]
              ELSE IF b = call[t].ptr THEN None ELSE heap[b]]
        /\ call' = [call EXCEPT ![t].ret = a, ![t].ptr = NULL]
    /\ UNCHANGED kernel

\* realloc(ptr, 0) may free the block and return NULL.
ReallocToNothing(t) ==
    /\ Executing(t) /\ Top(t) = "realloc"
    /\ call[t].size = 0 /\ call[t].ptr # NULL
    /\ heap' = [heap EXCEPT ![call[t].ptr] = None]
    /\ call' = [call EXCEPT ![t].ret = NULL, ![t].ptr = NULL]
    /\ UNCHANGED kernel

\* An allocation fails: a block that was given up to it is still there.
Fail(t) ==
    /\ Executing(t) /\ Top(t) \in AllocFns \cap CanFail
    /\ LET failure == IF Top(t) \in {"mmap", "mremap"} THEN MAP_FAILED ELSE NULL
       IN  call' = [call EXCEPT ![t].ret = failure, ![t].ptr = NULL]
    /\ UNCHANGED <<kernel, heap>>

\* A free function does its work and returns: no probe watches the return.
Release(t) ==
    /\ Executing(t) /\ Top(t) \in FreeFns
    /\ \/ heap' = [a \in Addr |-> IF a = call[t].ptr THEN None ELSE heap[a]]
       \/ Top(t) \in CanFail /\ heap' = heap
    /\ call' = [call EXCEPT ![t] = Idle]
    /\ UNCHANGED kernel

\* A failed operator new throws: its return probe does not run.
Throws(t) == Returning(t) /\ Top(t) \in NewFns /\ call[t].ret = NULL

Unwind(t) ==
    /\ Throws(t)
    /\ call' = [call EXCEPT ![t] = Idle]
    /\ UNCHANGED <<kernel, heap>>

-----------------------------------------------------------------------------
(* The probes. *)

alloc_enter(t) ==
    \E fn \in SizeFns, size \in Sizes, site \in StackIds :
        /\ Enter(t, fn, size, NULL, site)
        /\ gen_alloc_enter(t, size, site)
        /\ UNCHANGED <<memptrs, allocs, heap>>

realloc_enter(t) ==
    \E fn \in MoveFns, size \in Sizes, site \in StackIds, ptr \in Addr \cup {NULL} :
        /\ Enter(t, fn, size, ptr, site)
        /\ gen_free_enter(ptr)
        /\ gen_alloc_enter(t, size, site)
        /\ UNCHANGED <<memptrs, heap>>

posix_memalign_enter(t) ==
    \E size \in Sizes, site \in StackIds :
        /\ Enter(t, "posix_memalign", size, NULL, site)
        /\ memptrs' = UpdateElem(memptrs, t, "memptr", MaxMemptrs)
        /\ gen_alloc_enter(t, size, site)
        /\ UNCHANGED <<allocs, heap>>

free_enter(t) ==
    \E fn \in FreeFns, ptr \in Addr \cup {NULL} :
        /\ Enter(t, fn, 0, ptr, 0)
        /\ gen_free_enter(ptr)
        /\ UNCHANGED <<sizes, memptrs, heap>>

alloc_exit(t) ==
    /\ Returning(t) /\ Top(t) \in SizeFns \cup MoveFns /\ ~Throws(t)
    /\ gen_alloc_exit2(t, call[t].ret)
    /\ Return(t)
    /\ UNCHANGED <<memptrs, heap>>

\* The return code is not looked at: after a failure *memptr is whatever it
\* was before the call.  Without an entry of memptrs, or if *memptr cannot be
\* read (faults), the handler goes no further.
posix_memalign_exit(t, faults) ==
    /\ Returning(t) /\ Top(t) = "posix_memalign"
    /\ memptrs' = DeleteElem(memptrs, t)
    /\ IF memptrs[t] = None \/ faults
       THEN UNCHANGED <<sizes, allocs>>
       ELSE \E addr \in IF call[t].ret = NULL THEN Leftovers ELSE {call[t].ret} :
                gen_alloc_exit2(t, addr)
    /\ Return(t)
    /\ UNCHANGED heap

Faults == IF ReadFaults THEN BOOLEAN ELSE {FALSE}

-----------------------------------------------------------------------------
Work(t) == Grant(t) \/ ReallocToNothing(t) \/ Fail(t) \/ Release(t) \/ Unwind(t)
EnterProbe(t) ==
    alloc_enter(t) \/ realloc_enter(t) \/ posix_memalign_enter(t) \/ free_enter(t)
ExitProbe(t) == alloc_exit(t) \/ \E faults \in Faults : posix_memalign_exit(t, faults)

Next == \E t \in Tid : Work(t) \/ EnterProbe(t) \/ ExitProbe(t)

Spec == Init /\ [][Next]_vars

\* A thread that is inside a call goes on: the scheduler lets it run, the call
\* does its work, and its probes run.  Nothing makes a thread start a call.
Proceed(t) == InCall(t) /\ (Work(t) \/ EnterProbe(t) \/ ExitProbe(t))

FairSpec == Spec /\ \A t \in Tid : WF_vars(Proceed(t))

-----------------------------------------------------------------------------
(* What the probes promise. *)

\* The type invariant: each map holds what its handlers put there.
TypeOK ==
    /\ sizes \in [Tid -> Info \cup {None}]
    /\ memptrs \in [Tid -> {"memptr", None}]
    /\ allocs \in [Word -> Info \cup {None}]
    /\ call \in [Tid -> Frame]
    /\ heap \in [Addr -> Block \cup {None}]

\* Soundness: whatever allocs lists as outstanding is a block that is live at
\* this moment and was requested with the recorded size; it is never a block
\* already given back, an address of another thread's later block, or a
\* failure value.  (The order of the free probe, the work, and the return
\* probe across threads: gen_free_enter, gen_alloc_exit2.)
NoFalseLeak ==
    \A w \in Keys(allocs) :
        w \in Addr /\ heap[w] # None /\ allocs[w].size = heap[w].size

\* What is left of soundness when posix_memalign_exit cannot read *memptr or a
\* map is full: a size may be stale, but a listed address is still a live block.
OnlyLiveBlocks == \A w \in Keys(allocs) : w \in Addr /\ heap[w] # None

\* Completeness: a live block that no call is working on is listed, with the
\* size and the stack of the call the program itself made, also when that call
\* was implemented by other probed functions (gen_alloc_enter keeps the entry
\* it finds, gen_alloc_exit2 consumes it).
NoMissedLeak ==
    \A a \in Addr : heap[a] # None /\ ~Busy(a) => allocs[a] = heap[a]

\* Nothing of a call survives it in the per-thread maps, whatever path it took:
\* a stale entry would be kept by the thread's next allocation and give that
\* block the size and stack of the earlier one.
CallsLeaveNothing ==
    \A t \in Tid : ~InCall(t) => sizes[t] = None /\ memptrs[t] = None

\* allocs is a ledger (see AllocTable): no update ever overwrites a standing
\* record although gen_alloc_exit2 uses BPF_ANY, and no failure value becomes
\* a key.
Ledger == INSTANCE AllocTable WITH Key <- Word, Reserved <- {NULL, MAP_FAILED},
                                   Value <- Info
LedgerSpec == Ledger!TableSpec

\* The conditions under which the probes are exact: *memptr can be read and
\* holds no address after a failure, there is a memptrs entry for every thread,
\* and a failing operator new has called a probed function that failed before
\* it throws.
WellBehaved ==
    /\ ~ReadFaults /\ Leftovers \subseteq {NULL, MAP_FAILED}
    /\ IsFiniteSet(Tid) /\ Cardinality(Tid) <= MaxMemptrs
    /\ \A fn \in NewFns : \E g \in SizeFns : <<fn, g>> \in Delegates

\* A call tree is one of free functions, or one of allocation functions of
\* which only the outermost can be realloc, mremap or posix_memalign, and in
\* which an operator new is under no other function.
StackInv ==
    \A t \in Tid : LET st == call[t].stack IN
        \/ \A i \in 1..Len(st) : /\ st[i] \in AllocFns
                                 /\ i < Len(st) => st[i] \in SizeFns
                                 /\ st[i] \in NewFns => st[Len(st)] \in NewFns
        \/ \A i \in 1..Len(st) : st[i] \in FreeFns

CallInv ==
    \A t \in Tid :
        /\ ~InCall(t) => call[t] = Idle
        /\ Returning(t) => call[t].ptr = NULL /\ Top(t) \notin FreeFns
        /\ InCall(t) /\ Top(t) \in SizeFns => call[t].ptr = NULL

\* memptrs has the entry of a thread exactly while it is in posix_memalign.
MemptrsInv ==
    \A t \in Tid : memptrs[t] # None <=>
        InCall(t) /\ call[t].stack[Len(call[t].stack)] = "posix_memalign"

\* An entry of sizes belongs to the call its thread is in.
SizesInv ==
    \A t \in Tid : sizes[t] # None =>
        /\ InCall(t) /\ Top(t) \in AllocFns
        /\ sizes[t].size = call[t].size
        /\ Returning(t) => Top(t) \notin NewFns

\* A block that a call works on is live, and no record stands in the way of
\* the record the call is going to enter.
HeldInv ==
    \A t \in Tid, a \in Addr :
        /\ call[t].ptr = a => heap[a] # None /\ allocs[a] = None
        /\ call[t].ret = a => /\ heap[a] # None /\ heap[a].size = call[t].size
                              /\ sizes[t] # None => allocs[a] = None

\* No two calls work on one block.
OwnInv == \A s, t \in Tid, a \in Addr : Holds(s, a) /\ Holds(t, a) => s = t

\* The inductive invariant behind NoFalseLeak, CallsLeaveNothing and
\* LedgerSpec: how the maps, the calls in progress and the heap fit together
\* in every state between two probes.
ProbeInv ==
    /\ StackInv /\ CallInv /\ MemptrsInv /\ SizesInv /\ HeldInv /\ OwnInv
    /\ NoFalseLeak

\* A block that a call works on is live, and has no record while it is given up.
WorkedOnInv ==
    \A t \in Tid, a \in Addr :
        /\ Holds(t, a) => heap[a] # None
        /\ call[t].ptr = a => allocs[a] = None

\* The inductive invariant behind OnlyLiveBlocks.  It says nothing of sizes and
\* memptrs, which may hold anything.
LiveInv == StackInv /\ CallInv /\ OwnInv /\ WorkedOnInv /\ OnlyLiveBlocks

\* The further conditions under which nothing is missed: every request is
\* recorded, the maps have room, and no function fails that is given a block.
Complete ==
    /\ WellBehaved
    /\ SampleRate = 1 /\ \A size \in Sizes : MinSize <= size /\ size <= MaxSize
    /\ Cardinality(Tid) <= MaxSizes
    /\ IsFiniteSet(Addr) /\ Cardinality(Addr) <= MaxAllocs
    /\ CanFail \cap (MoveFns \cup FreeFns) = {}

\* While an allocation is under way sizes has the request of the program itself,
\* under however many functions.
PendingInv ==
    \A t \in Tid : Running(t) /\ Top(t) \in AllocFns =>
        sizes[t] = [size |-> call[t].size, stack_id |-> call[t].site]

\* posix_memalign gives up no block.
AlignedInv ==
    \A t \in Tid : InCall(t) /\ Top(t) = "posix_memalign" => call[t].ptr = NULL

\* A block that is being returned is in one of the two maps.
OnItsWayInv ==
    \A t \in Tid, a \in Addr : call[t].ret = a => heap[a] \in {sizes[t], allocs[a]}

\* The inductive invariant behind NoMissedLeak, next to ProbeInv: where the
\* request of a block is at each point of its call.
ListInv == PendingInv /\ AlignedInv /\ OnItsWayInv /\ NoMissedLeak

\* Whatever an allocation call saves is consumed, under the fairness that a
\* thread in a call goes on.
SizesDrain == \A t \in Tid : sizes[t] # None ~> sizes[t] = None
=============================================================================
