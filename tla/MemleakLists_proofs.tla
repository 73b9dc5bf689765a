------------------------ MODULE MemleakLists_proofs ------------------------
(***************************************************************************)
(* The other half of the proofs about the probes: nothing is missed.  The  *)
(* conditions are those of Complete, for every number of threads,          *)
(* addresses and functions.                                                *)
(***************************************************************************)
EXTENDS MemleakBpf_proofs

\* The invariants that the lemmas below start from.
Known == TypeOK /\ ProbeInv /\ ListInv

\* A call that starts has the site of the program's request; a function under
\* another leaves it alone.
LEMMA EnterSite ==
    ASSUME Known, NEW t \in Tid, NEW fn, NEW size, NEW ptr, NEW site,
           Enter(t, fn, size, ptr, site)
    PROVE  call'[t].site = IF InCall(t) THEN call[t].site ELSE site
  <1>1. call[t] \in Frame /\ t \in DOMAIN call
    BY DEF Known, TypeOK
  <1>2. CASE /\ ~InCall(t)
             /\ call' = [call EXCEPT ![t] = [stack |-> <<fn>>, size |-> size,
                                 site |-> site, ptr |-> ptr, ret |-> None]]
    BY <1>1, <1>2
  <1>3. CASE Delegating(t, fn) /\ call' = [call EXCEPT ![t].stack = <<fn>> \o @]
    <2>1. InCall(t)
      BY <1>3 DEF Delegating, Running
    <2>2. call'[t] = [call[t] EXCEPT !.stack = <<fn>> \o call[t].stack]
      BY <1>1, <1>3
    <2> QED
      BY <1>1, <2>1, <2>2 DEF Frame
  <1> QED
    BY <1>2, <1>3 DEF Enter

-----------------------------------------------------------------------------
(* The entry probes. *)

\* An entry probe takes a record off only where the block is given up, and the
\* call works on that block from then on.
LEMMA EnterLists ==
    ASSUME Known, NEW t \in Tid, NEW fn \in AllFns, NEW size,
           NEW ptr \in Addr \cup {NULL},
           Entered(t, fn, size, ptr), heap' = heap,
           gen_free_enter(ptr) \/ (ptr = NULL /\ allocs' = allocs),
           \A u \in Tid : u # t => sizes'[u] = sizes[u],
           fn = "posix_memalign" => ptr = NULL
    PROVE  AlignedInv' /\ OnItsWayInv' /\ NoMissedLeak'
  <1>1. None \notin Addr /\ NULL \notin Addr /\ Addr \subseteq Word
    BY WordAssumption DEF Word
  <1>2. /\ \A u \in Tid : u # t => call'[u] = call[u]
        /\ InCall(t)' /\ Top(t)' = fn /\ call'[t].ptr = ptr /\ call'[t].ret = None
    BY DEF Entered
  <1>3. \A a \in Addr : a # ptr => allocs'[a] = allocs[a]
    BY <1>1 DEF gen_free_enter, DeleteElem, Known, TypeOK
  <1>4. \A u \in Tid, a \in Addr : u # t /\ Holds(u, a) => a # ptr
    <2>1. ASSUME ptr \in Addr, NEW u \in Tid, u # t, Holds(u, ptr) PROVE FALSE
      <3>1. ptr # NULL
        BY <1>1, <2>1
      <3>2. Busy(ptr)
        BY <2>1 DEF Busy
      <3>3. call[t].ptr = ptr
        BY <3>1, <3>2 DEF Entered
      <3>4. Holds(t, ptr)
        BY <3>3 DEF Holds
      <3> QED
        BY <2>1, <3>4 DEF Known, ProbeInv, OwnInv
    <2> QED
      BY <2>1
  <1>5. \A a \in Addr : Holds(t, a) => a = ptr
    <2>1. CASE ~InCall(t)
      <3>1. call[t].ptr = NULL /\ call[t].ret = None
        BY <2>1 DEF Known, ProbeInv, CallInv, Idle
      <3> QED
        BY <1>1, <3>1 DEF Holds
    <2>2. CASE InCall(t)
      BY <1>1, <2>2 DEF Entered, Holds
    <2> QED
      BY <2>1, <2>2
  <1>6. AlignedInv'
    BY <1>2 DEF Known, ListInv, AlignedInv, InCall, Top
  <1>7. OnItsWayInv'
    <2> SUFFICES ASSUME NEW u \in Tid, NEW a \in Addr, call'[u].ret = a
                 PROVE  heap'[a] \in {sizes'[u], allocs'[a]}
      BY DEF OnItsWayInv
    <2>1. u # t /\ call[u].ret = a
      BY <1>1, <1>2
    <2>2. a # ptr
      BY <1>4, <2>1 DEF Holds
    <2> QED
      BY <1>3, <2>1, <2>2 DEF Known, ListInv, OnItsWayInv
  <1>8. NoMissedLeak'
    <2> SUFFICES ASSUME NEW a \in Addr, heap'[a] # None, ~Busy(a)'
                 PROVE  allocs'[a] = heap'[a]
      BY DEF NoMissedLeak
    <2>1. \A u \in Tid : ~Holds(u, a)'
      BY DEF Busy
    <2>2. a # ptr
      BY <1>2, <2>1 DEF Holds
    <2>3. \A u \in Tid : ~Holds(u, a)
      BY <1>2, <1>5, <2>1, <2>2 DEF Holds
    <2>4. ~Busy(a)
      BY <2>3 DEF Busy
    <2> QED
      BY <1>3, <2>2, <2>4 DEF Known, ListInv, NoMissedLeak
  <1> QED
    BY <1>6, <1>7, <1>8

\* The entry probe of a call saves the request of the program, and that of a
\* function under another finds it saved.
LEMMA EnterPending ==
    ASSUME Complete, Known, NEW t \in Tid, NEW fn \in AllocFns, NEW size \in Sizes,
           NEW site \in StackIds, NEW ptr \in Addr \cup {NULL},
           Enter(t, fn, size, ptr, site), Entered(t, fn, size, ptr),
           gen_alloc_enter(t, size, site)
    PROVE  PendingInv'
  <1> DEFINE request == [size |-> size, stack_id |-> site]
  <1>1. request \in Info /\ request # None
    BY WordAssumption DEF Info
  <1>2. sizes' = IF sizes[t] # None THEN sizes
                 ELSE UpdateElem(sizes, t, request, MaxSizes)
    <2>1. ~(SampleRate > 1)
      BY DEF Complete
    <2>2. ~(size < MinSize \/ size > MaxSize)
      BY DataAssumption DEF Complete
    <2> QED
      BY <2>1, <2>2 DEF gen_alloc_enter
  <1>3. \A u \in Tid : u # t => sizes'[u] = sizes[u] /\ call'[u] = call[u]
    BY <1>2 DEF Entered, UpdateElem, Known, TypeOK
  <1>4. sizes'[t] = [size |-> call'[t].size, stack_id |-> call'[t].site]
    <2>1. call'[t].size = size
      BY DEF Entered
    <2>2. CASE ~InCall(t)
      <3>1. sizes[t] = None
        BY <2>2 DEF Known, ProbeInv, SizesInv
      <3>2. Keys(sizes) \subseteq Tid \ {t}
        BY <3>1 DEF Keys, Known, TypeOK
      <3>3. HasRoom(sizes, t, MaxSizes)
        BY <3>2, RoomForAll, DataAssumption DEF Complete, WellBehaved
      <3>4. sizes'[t] = request
        BY <1>2, <3>1, <3>3 DEF UpdateElem, Known, TypeOK
      <3>5. call'[t].site = site
        BY <2>2, EnterSite
      <3> QED
        BY <2>1, <3>4, <3>5
    <2>3. CASE InCall(t)
      <3>1. Running(t) /\ <<Top(t), fn>> \in Delegates /\ call[t].size = size
        BY <2>3 DEF Entered, Running
      <3>2. Top(t) \in AllocFns
        BY <3>1, FnsAssumption, Kinds
      <3>3. sizes[t] = [size |-> call[t].size, stack_id |-> call[t].site]
        BY <3>1, <3>2 DEF Known, ListInv, PendingInv
      <3>4. sizes[t] # None
        <4>1. call[t] \in Frame
          BY DEF Known, TypeOK
        <4>2. sizes[t] \in Block
          BY <3>3, <4>1 DEF Block, Frame
        <4> QED
          BY <4>2, WordAssumption
      <3>5. call'[t].site = call[t].site
        BY <2>3, EnterSite
      <3> QED
        BY <1>2, <2>1, <3>1, <3>3, <3>4, <3>5
    <2> QED
      BY <2>2, <2>3
  <1> HIDE DEF request
  <1> QED
    BY <1>3, <1>4 DEF Known, ListInv, PendingInv, Running, InCall, Top

\* The entry probes of the functions that allocate.
LEMMA AllocEntryLists ==
    ASSUME Complete, Known, NEW t \in Tid, NEW fn \in AllocFns,
           NEW size \in Sizes, NEW site \in StackIds, NEW ptr \in Addr \cup {NULL},
           Enter(t, fn, size, ptr, site), gen_alloc_enter(t, size, site), heap' = heap,
           gen_free_enter(ptr) \/ (ptr = NULL /\ allocs' = allocs),
           fn = "posix_memalign" => ptr = NULL
    PROVE  ListInv'
  <1>1. CallsOK /\ fn \in AllFns /\ size \in Sizes \cup {0} /\ site \in Int
    BY DataAssumption DEF Known, CallsOK, ProbeInv, AllFns
  <1>2. Entered(t, fn, size, ptr)
    BY <1>1, EnterFacts
  <1>3. PendingInv'
    BY <1>2, EnterPending
  <1>4. \A u \in Tid : u # t => sizes'[u] = sizes[u]
    BY DEF gen_alloc_enter, UpdateElem, Known, TypeOK
  <1>5. AlignedInv' /\ OnItsWayInv' /\ NoMissedLeak'
    BY <1>1, <1>2, <1>4, EnterLists
  <1> QED
    BY <1>3, <1>5 DEF ListInv

\* The entry probes of the functions that free.
LEMMA FreeEntryLists ==
    ASSUME Known, NEW t \in Tid, free_enter(t)
    PROVE  ListInv'
  <1>1. PICK fn \in FreeFns, ptr \in Addr \cup {NULL} :
          Enter(t, fn, 0, ptr, 0) /\ gen_free_enter(ptr)
    BY DEF free_enter
  <1>2. /\ CallsOK /\ fn \in AllFns /\ 0 \in Sizes \cup {0} /\ 0 \in Int
        /\ fn # "posix_memalign" /\ fn \notin AllocFns
    BY Kinds DEF Known, CallsOK, ProbeInv, AllFns
  <1>3. Entered(t, fn, 0, ptr)
    BY <1>1, <1>2, EnterFacts
  <1>4. sizes' = sizes /\ heap' = heap
    BY DEF free_enter
  <1>5. PendingInv'
    BY <1>2, <1>3, <1>4
       DEF Entered, Known, ListInv, PendingInv, Running, InCall, Top
  <1>6. AlignedInv' /\ OnItsWayInv' /\ NoMissedLeak'
    BY <1>1, <1>2, <1>3, <1>4, EnterLists
  <1> QED
    BY <1>5, <1>6 DEF ListInv

-----------------------------------------------------------------------------
(* The return probes. *)

\* A return probe lists the block that its call hands out, if an inner one has
\* not done so, and touches no other record.
LEMMA ReturnLists ==
    ASSUME Complete, Known, NEW t \in Tid, Returning(t), Returned(t), heap' = heap,
           CallInv', NEW w \in Word, w = call[t].ret \/ w \in {NULL, MAP_FAILED},
           call[t].ret \in Addr => w = call[t].ret,
           gen_alloc_exit2(t, w)
    PROVE  ListInv'
  <1>1. /\ None \notin Addr /\ NULL \notin Addr /\ MAP_FAILED \notin Addr
        /\ Addr \subseteq Word
    BY WordAssumption DEF Word
  <1>2. sizes'[t] = None /\ \A u \in Tid : u # t => sizes'[u] = sizes[u]
    BY DEF gen_alloc_exit2, DeleteElem, Known, TypeOK
  <1>3. /\ \A u \in Tid : u # t => call'[u] = call[u]
        /\ ~InCall(t)' \/ Returning(t)'
        /\ call'[t].ret \in {call[t].ret, None}
    BY DEF Returned, Idle, InCall
  <1>4. call[t].ptr = NULL
    BY DEF Known, ProbeInv, CallInv
  <1>5. \A a \in Addr : a # call[t].ret => allocs'[a] = allocs[a]
    BY <1>1 DEF gen_alloc_exit2, UpdateElem, Known, TypeOK
  <1>6. ASSUME NEW a \in Addr, call[t].ret = a PROVE allocs'[a] = heap[a]
    <2>1. heap[a] # None /\ heap[a] \in {sizes[t], allocs[a]} /\ w = a
      BY <1>6 DEF Known, ProbeInv, HeldInv, ListInv, OnItsWayInv
    <2>2. CASE sizes[t] = None
      BY <2>1, <2>2 DEF gen_alloc_exit2
    <2>3. CASE sizes[t] # None
      <3>1. allocs[a] = None /\ heap[a] = sizes[t]
        BY <1>6, <2>1, <2>3 DEF Known, ProbeInv, HeldInv
      <3>2. Keys(allocs) \subseteq Addr \ {a}
        BY <3>1 DEF Known, ProbeInv, NoFalseLeak, Keys
      <3>3. HasRoom(allocs, a, MaxAllocs)
        BY <3>2, RoomForAll, DataAssumption DEF Complete
      <3>4. allocs' = [allocs EXCEPT ![a] = sizes[t]]
        BY <1>1, <2>1, <2>3, <3>3 DEF gen_alloc_exit2, UpdateElem
      <3> QED
        BY <1>1, <3>1, <3>4 DEF Known, TypeOK
    <2> QED
      BY <2>2, <2>3
  <1>7. PendingInv'
    <2>1. ~Running(t)'
      BY <1>3 DEF Running, Returning
    <2> QED
      BY <1>2, <1>3, <2>1 DEF Known, ListInv, PendingInv, Running, InCall, Top
  <1>8. AlignedInv'
    <2>1. InCall(t)' => call'[t].ptr = NULL
      BY <1>3 DEF CallInv
    <2> QED
      BY <1>3, <2>1 DEF Known, ListInv, AlignedInv, InCall, Top
  <1>9. OnItsWayInv'
    <2> SUFFICES ASSUME NEW u \in Tid, NEW a \in Addr, call'[u].ret = a
                 PROVE  heap'[a] \in {sizes'[u], allocs'[a]}
      BY DEF OnItsWayInv
    <2>1. CASE u = t
      BY <1>1, <1>3, <1>6, <2>1
    <2>2. CASE u # t
      <3>1. call[u].ret = a
        BY <1>3, <2>2
      <3>2. a # call[t].ret
        BY <2>2, <3>1 DEF Known, ProbeInv, OwnInv, Holds
      <3> QED
        BY <1>2, <1>5, <2>2, <3>1, <3>2 DEF Known, ListInv, OnItsWayInv
    <2> QED
      BY <2>1, <2>2
  <1>10. NoMissedLeak'
    <2> SUFFICES ASSUME NEW a \in Addr, heap'[a] # None, ~Busy(a)'
                 PROVE  allocs'[a] = heap'[a]
      BY DEF NoMissedLeak
    <2>1. CASE call[t].ret = a
      BY <1>6, <2>1
    <2>2. CASE call[t].ret # a
      <3>1. \A u \in Tid : ~Holds(u, a)'
        BY DEF Busy
      <3>2. \A u \in Tid : ~Holds(u, a)
        BY <1>1, <1>3, <1>4, <2>2, <3>1 DEF Holds
      <3>3. ~Busy(a)
        BY <3>2 DEF Busy
      <3> QED
        BY <1>5, <2>2, <3>3 DEF Known, ListInv, NoMissedLeak
    <2> QED
      BY <2>1, <2>2
  <1> QED
    BY <1>7, <1>8, <1>9, <1>10 DEF ListInv

\* The return probe of every function that hands its result back itself.
LEMMA AllocExitLists ==
    ASSUME Complete, Known, NEW t \in Tid, alloc_exit(t)
    PROVE  ListInv'
  <1>1. /\ Returning(t) /\ Return(t) /\ CallsOK
        /\ gen_alloc_exit2(t, call[t].ret) /\ heap' = heap
    BY DEF alloc_exit, Known, CallsOK, ProbeInv
  <1>2. call[t].ret \in Word
    BY <1>1 DEF Known, TypeOK, Frame, Returning
  <1>3. Returned(t) /\ CallInv'
    BY <1>1, ReturnFacts, ReturnCalls
  <1> QED
    BY <1>1, <1>2, <1>3, ReturnLists

\* The return probe of posix_memalign reads the result that was stored.
LEMMA MemalignExitLists ==
    ASSUME Complete, Known, NEW t \in Tid, NEW faults \in Faults,
           posix_memalign_exit(t, faults)
    PROVE  ListInv'
  <1>1. /\ Returning(t) /\ Return(t) /\ CallsOK /\ InCall(t)
        /\ Top(t) = "posix_memalign" /\ heap' = heap
    BY DEF posix_memalign_exit, Known, CallsOK, ProbeInv, Returning
  <1>2. call[t].ret \in Word
    BY <1>1 DEF Known, TypeOK, Frame, Returning
  <1>3. Len(call[t].stack) = 1
    BY <1>1, TopFacts
  <1>4. memptrs[t] # None
    BY <1>1, <1>3 DEF Known, ProbeInv, MemptrsInv, Top
  <1>5. NULL \notin Addr
    BY WordAssumption
  <1>6. PICK w \in Word : /\ w = call[t].ret \/ w \in {NULL, MAP_FAILED}
                          /\ call[t].ret \in Addr => w = call[t].ret
                          /\ gen_alloc_exit2(t, w)
    BY <1>2, <1>4, <1>5, DataAssumption DEF posix_memalign_exit, Complete, WellBehaved, Faults
  <1>7. Returned(t) /\ CallInv'
    BY <1>1, ReturnFacts, ReturnCalls
  <1> QED
    BY <1>1, <1>6, <1>7, ReturnLists

-----------------------------------------------------------------------------
(* The functions' own work. *)

\* After its work a call is over, or it returns a failure, or it returns a block
\* made as it was asked to; the block that was given up is gone, or was none.
LEMMA WorkResult ==
    ASSUME Complete, Known, NEW t \in Tid, Work(t)
    PROVE  /\ InCall(t)' => Returning(t)' /\ call'[t].ptr = NULL
           /\ \A a \in Addr : call'[t].ret = a => heap'[a] = sizes[t]
           /\ \A a \in Addr : heap'[a] # None /\ ~Holds(t, a)' =>
                  heap'[a] = heap[a] /\ ~Holds(t, a)
  <1>1. /\ None \notin Addr /\ NULL \notin Addr /\ MAP_FAILED \notin Addr
        /\ None # NULL /\ None # MAP_FAILED
    BY WordAssumption DEF Word
  <1>2. /\ call[t] \in Frame /\ call \in [Tid -> Frame]
        /\ heap \in [Addr -> Block \cup {None}]
    BY DEF Known, TypeOK
  <1>3. CASE Grant(t)
    <2>1. PICK a \in Addr :
            /\ heap' = [b \in Addr |->
                 IF b = a THEN [size |-> call[t].size, stack_id |-> call[t].site]
                 ELSE IF b = call[t].ptr THEN None ELSE heap[b]]
            /\ call' = [call EXCEPT ![t].ret = a, ![t].ptr = NULL]
      BY <1>3 DEF Grant
    <2>2. Running(t) /\ Top(t) \in AllocFns
      BY <1>3 DEF Grant, Executing
    <2>3. call'[t].ret = a /\ call'[t].ptr = NULL
      BY <1>2, <2>1 DEF Frame
    <2>4. sizes[t] = [size |-> call[t].size, stack_id |-> call[t].site]
      BY <2>2 DEF Known, ListInv, PendingInv
    <2>5. heap'[a] = sizes[t]
      BY <2>1, <2>4
    <2>6. \A b \in Addr : b # a /\ heap'[b] # None =>
            b # call[t].ptr /\ heap'[b] = heap[b]
      BY <2>1
    <2>7. call[t].ret = None
      BY <2>2 DEF Running
    <2>8. \A b \in Addr : heap'[b] # None /\ ~Holds(t, b)' =>
            heap'[b] = heap[b] /\ ~Holds(t, b)
      BY <1>1, <2>3, <2>6, <2>7 DEF Holds
    <2>9. InCall(t)' => Returning(t)'
      BY <1>1, <2>3 DEF Returning
    <2> QED
      BY <2>3, <2>5, <2>8, <2>9
  <1>4. CASE ReallocToNothing(t)
    <2>1. /\ heap' = [heap EXCEPT ![call[t].ptr] = None]
          /\ call'[t].ret = NULL /\ call'[t].ptr = NULL /\ call[t].ret = None
      BY <1>2, <1>4 DEF ReallocToNothing, Frame, Executing, Running
    <2>2. \A b \in Addr : heap'[b] # None => heap'[b] = heap[b] /\ b # call[t].ptr
      BY <1>2, <2>1
    <2> QED
      BY <1>1, <2>1, <2>2 DEF Holds, Returning
  <1>5. CASE Fail(t)
    <2>1. /\ heap' = heap /\ call'[t].ret \in {NULL, MAP_FAILED}
          /\ call'[t].ptr = NULL /\ call[t].ret = None
      BY <1>2, <1>5 DEF Fail, Frame, Executing, Running
    <2>2. Top(t) \in SizeFns \/ Top(t) = "posix_memalign"
      BY <1>5, Kinds DEF Fail, Complete
    <2>3. InCall(t)
      BY <1>5 DEF Fail, Executing, Running
    <2>4. call[t].ptr = NULL
      BY <2>2, <2>3 DEF Known, ProbeInv, CallInv, ListInv, AlignedInv
    <2> QED
      BY <1>1, <2>1, <2>4 DEF Holds, Returning
  <1>6. CASE Release(t)
    <2>1. heap' = [a \in Addr |-> IF a = call[t].ptr THEN None ELSE heap[a]]
      BY <1>6 DEF Release, Complete
    <2>2. call'[t] = Idle /\ call[t].ret = None
      BY <1>2, <1>6 DEF Release, Executing, Running
    <2>3. \A b \in Addr : heap'[b] # None => heap'[b] = heap[b] /\ b # call[t].ptr
      BY <2>1
    <2> QED
      BY <1>1, <2>2, <2>3 DEF Holds, InCall, Idle
  <1>7. CASE Unwind(t)
    <2>1. heap' = heap /\ call'[t] = Idle /\ call[t].ret = NULL
      BY <1>2, <1>7 DEF Unwind, Throws
    <2>2. call[t].ptr = NULL
      BY <1>7 DEF Unwind, Throws, Known, ProbeInv, CallInv
    <2> QED
      BY <1>1, <2>1, <2>2 DEF Holds, InCall, Idle
  <1> QED
    BY <1>3, <1>4, <1>5, <1>6, <1>7 DEF Work

\* The work of one call.
LEMMA WorkLists ==
    ASSUME Complete, Known, NEW t \in Tid, Work(t)
    PROVE  ListInv'
  <1>1. /\ allocs' = allocs /\ sizes' = sizes
        /\ \A u \in Tid : u # t => call'[u] = call[u]
        /\ \A a \in Addr, u \in Tid : u # t /\ Holds(u, a) => heap'[a] = heap[a]
    BY WorkHeap DEF Complete, Known
  <1>2. PendingInv'
    <2>1. ~Running(t)'
      BY WorkResult DEF Running, Returning
    <2> QED
      BY <1>1, <2>1 DEF Known, ListInv, PendingInv, Running, InCall, Top
  <1>3. AlignedInv'
    BY <1>1, WorkResult DEF Known, ListInv, AlignedInv, InCall, Top
  <1>4. OnItsWayInv'
    <2> SUFFICES ASSUME NEW u \in Tid, NEW a \in Addr, call'[u].ret = a
                 PROVE  heap'[a] \in {sizes'[u], allocs'[a]}
      BY DEF OnItsWayInv
    <2>1. CASE u = t
      BY <1>1, <2>1, WorkResult
    <2>2. CASE u # t
      BY <1>1, <2>2 DEF Known, ListInv, OnItsWayInv, Holds
    <2> QED
      BY <2>1, <2>2
  <1>5. NoMissedLeak'
    <2> SUFFICES ASSUME NEW a \in Addr, heap'[a] # None, ~Busy(a)'
                 PROVE  allocs'[a] = heap'[a]
      BY DEF NoMissedLeak
    <2>1. \A u \in Tid : ~Holds(u, a)'
      BY DEF Busy
    <2>2. heap'[a] = heap[a] /\ ~Holds(t, a)
      BY <2>1, WorkResult
    <2>3. \A u \in Tid : ~Holds(u, a)
      BY <1>1, <2>1, <2>2 DEF Holds
    <2>4. ~Busy(a)
      BY <2>3 DEF Busy
    <2> QED
      BY <1>1, <2>2, <2>4 DEF Known, ListInv, NoMissedLeak
  <1> QED
    BY <1>2, <1>3, <1>4, <1>5 DEF ListInv

-----------------------------------------------------------------------------
(* The theorems. *)

\* Nothing is live and nothing is listed before the first call.
LEMMA ListInit == Init => ListInv
  <1> SUFFICES ASSUME Init PROVE ListInv
    OBVIOUS
  <1>1. None \notin Addr /\ \A t \in Tid : call[t] = Idle
    BY WordAssumption DEF Init, Word
  <1>2. \A t \in Tid : ~InCall(t) /\ ~Running(t) /\ call[t].ret = None
    BY <1>1 DEF InCall, Running, Idle
  <1>3. PendingInv /\ AlignedInv /\ OnItsWayInv
    BY <1>1, <1>2 DEF PendingInv, AlignedInv, OnItsWayInv
  <1>4. NoMissedLeak
    BY DEF Init, NoMissedLeak
  <1> QED
    BY <1>3, <1>4 DEF ListInv

\* Every step keeps the request of a block where the invariant says it is.
LEMMA ListStep ==
    ASSUME Complete, Known, [Next]_vars
    PROVE  ListInv'
  <1>1. ASSUME NEW t \in Tid, alloc_enter(t) PROVE ListInv'
    <2>1. PICK fn \in SizeFns, size \in Sizes, site \in StackIds :
            Enter(t, fn, size, NULL, site) /\ gen_alloc_enter(t, size, site)
      BY <1>1 DEF alloc_enter
    <2>2. allocs' = allocs /\ heap' = heap /\ fn \in AllocFns
      BY <1>1, Kinds DEF alloc_enter
    <2> QED
      BY <2>1, <2>2, AllocEntryLists
  <1>2. ASSUME NEW t \in Tid, realloc_enter(t) PROVE ListInv'
    <2>1. PICK fn \in MoveFns, size \in Sizes, site \in StackIds,
               ptr \in Addr \cup {NULL} :
            /\ Enter(t, fn, size, ptr, site)
            /\ gen_free_enter(ptr) /\ gen_alloc_enter(t, size, site)
      BY <1>2 DEF realloc_enter
    <2>2. heap' = heap /\ fn \in AllocFns /\ fn # "posix_memalign"
      BY <1>2, Kinds DEF realloc_enter
    <2> QED
      BY <2>1, <2>2, AllocEntryLists
  <1>3. ASSUME NEW t \in Tid, posix_memalign_enter(t) PROVE ListInv'
    <2>1. PICK size \in Sizes, site \in StackIds :
            /\ Enter(t, "posix_memalign", size, NULL, site)
            /\ gen_alloc_enter(t, size, site)
      BY <1>3 DEF posix_memalign_enter
    <2>2. allocs' = allocs /\ heap' = heap /\ "posix_memalign" \in AllocFns
      BY <1>3, Kinds DEF posix_memalign_enter
    <2> QED
      BY <2>1, <2>2, AllocEntryLists
  <1>4. ASSUME NEW t \in Tid, free_enter(t) PROVE ListInv'
    BY <1>4, FreeEntryLists
  <1>5. ASSUME NEW t \in Tid, Work(t) PROVE ListInv'
    BY <1>5, WorkLists
  <1>6. ASSUME NEW t \in Tid, alloc_exit(t) PROVE ListInv'
    BY <1>6, AllocExitLists
  <1>7. ASSUME NEW t \in Tid, NEW faults \in Faults,
               posix_memalign_exit(t, faults)
        PROVE  ListInv'
    BY <1>7, MemalignExitLists
  <1>8. CASE UNCHANGED vars
    BY <1>8 DEF vars, Known, ListInv, PendingInv, AlignedInv, OnItsWayInv,
                NoMissedLeak, Running, InCall, Top, Busy, Holds
  <1> QED
    BY <1>1, <1>2, <1>3, <1>4, <1>5, <1>6, <1>7, <1>8
       DEF Next, EnterProbe, ExitProbe

\* Where the request of a block is, from the entry of the call that asks for it
\* to the record in allocs, in every state.
THEOREM ListsInductive == ASSUME Complete PROVE Spec => []ListInv
  <1>1. WellBehaved
    BY DEF Complete
  <1>2. Spec => []ProbeInv
    BY <1>1, ProbesInductive
  <1>3. ListInv /\ ProbeInv /\ TypeOK /\ [Next]_vars => ListInv'
    BY ListStep DEF Known
  <1> QED
    BY <1>2, <1>3, ListInit, TypeCorrect, PTL DEF Spec

\* Every live block that no call works on is listed, with the size and the stack
\* of the request that the program itself made.
THEOREM Completeness == ASSUME Complete PROVE Spec => []NoMissedLeak
  <1>1. ListInv => NoMissedLeak
    BY DEF ListInv
  <1> QED
    BY <1>1, ListsInductive, PTL

=============================================================================
