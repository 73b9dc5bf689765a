------------------------ MODULE MemleakAttach_proofs ------------------------
(***************************************************************************)
(* Proofs about the attachment of the probes to a running process, for     *)
(* every number of threads and addresses, every choice of functions and    *)
(* every moment at which a call may begin.  What is proved of a probe or   *)
(* of the work of a function in MemleakBpf_proofs is used here; a call     *)
(* that no probe watches is what is new.                                   *)
(***************************************************************************)
EXTENDS MemleakAttach, MemleakBpf_proofs

\* The invariants that the lemmas below start from.
Kept == TypeOK /\ MapsInv

\* The words that matter are kept apart.
LEMMA Words ==
    /\ None \notin Addr /\ NULL \notin Addr /\ MAP_FAILED \notin Addr
    /\ Addr \subseteq Word /\ NULL \in Word /\ None \notin Word /\ None \notin Block
  BY WordAssumption DEF Word

\* What MapsInv has of the calls is what the lemmas about calls need.
LEMMA KeptCalls == Kept => CallsOK
  BY DEF Kept, MapsInv, CallsOK

-----------------------------------------------------------------------------
(* A call begins. *)

\* Thread t enters fn: the program attached to its entry runs, or nothing does.
Arrives(t, fn, size, ptr, site) ==
    /\ Enter(t, fn, size, ptr, site) /\ (fn \in SizeFns => ptr = NULL)
    /\ heap' = heap /\ Begins(t, fn)
    /\ \/ /\ Attached(fn, "enter") /\ fn \in AllocFns
          /\ size \in Sizes /\ site \in StackIds /\ gen_alloc_enter(t, size, site)
          /\ gen_free_enter(ptr) \/ (ptr = NULL /\ allocs' = allocs)
       \/ /\ Attached(fn, "enter") /\ fn \in FreeFns
          /\ gen_free_enter(ptr) /\ sizes' = sizes
       \/ ~Attached(fn, "enter") /\ sizes' = sizes /\ allocs' = allocs
    /\ memptrs' = IF Attached(fn, "enter") /\ fn = "posix_memalign"
                  THEN UpdateElem(memptrs, t, "memptr", MaxMemptrs) ELSE memptrs

\* A watched call arrives, and its entry probe is a step of MemleakBpf.
LEMMA WatchedArrives ==
    ASSUME Kept, NEW t \in Tid, WatchedCall(t)
    PROVE  /\ \E fn \in AllFns, size \in Sizes \cup {0}, ptr \in Addr \cup {NULL},
                 site \in Int : Arrives(t, fn, size, ptr, site)
           /\ TypeOK'
  <1>1. EnterProbe(t) /\ TypeOK'
    <2>1. EnterProbe(t)
      BY DEF WatchedCall
    <2> QED
      BY <2>1, TypeStep DEF Next, Kept
  <1>2. ASSUME NEW fn \in AllFns, call'[t].stack[1] = fn
        PROVE  Attached(fn, "enter") /\ Begins(t, fn)
    BY <1>2 DEF WatchedCall
  <1>3. ASSUME NEW fn \in AllFns, NEW size \in Sizes \cup {0}, NEW site \in Int,
               NEW ptr \in Addr \cup {NULL}, Enter(t, fn, size, ptr, site)
        PROVE  Attached(fn, "enter") /\ Begins(t, fn)
    <2>1. Entered(t, fn, size, ptr)
      BY <1>3, KeptCalls, EnterFacts
    <2>2. call'[t].stack[1] = fn
      BY <2>1 DEF Entered, Top
    <2> QED
      BY <1>2, <2>2
  <1>4. CASE alloc_enter(t)
    <2>1. PICK fn \in SizeFns, size \in Sizes, site \in StackIds :
            Enter(t, fn, size, NULL, site) /\ gen_alloc_enter(t, size, site)
      BY <1>4 DEF alloc_enter
    <2>2. /\ fn \in AllFns /\ fn \in AllocFns /\ fn # "posix_memalign" /\ site \in Int
          /\ memptrs' = memptrs /\ allocs' = allocs /\ heap' = heap
      BY <1>4, Kinds, DataAssumption DEF alloc_enter, AllFns
    <2>3. Arrives(t, fn, size, NULL, site)
      BY <1>3, <2>1, <2>2 DEF Arrives
    <2> QED
      BY <1>1, <2>2, <2>3
  <1>5. CASE realloc_enter(t)
    <2>1. PICK fn \in MoveFns, size \in Sizes, site \in StackIds,
               ptr \in Addr \cup {NULL} :
            /\ Enter(t, fn, size, ptr, site)
            /\ gen_free_enter(ptr) /\ gen_alloc_enter(t, size, site)
      BY <1>5 DEF realloc_enter
    <2>2. /\ fn \in AllFns /\ fn \in AllocFns /\ fn \notin SizeFns /\ site \in Int
          /\ fn # "posix_memalign" /\ memptrs' = memptrs /\ heap' = heap
      BY <1>5, Kinds, DataAssumption DEF realloc_enter, AllFns
    <2>3. Arrives(t, fn, size, ptr, site)
      BY <1>3, <2>1, <2>2 DEF Arrives
    <2> QED
      BY <1>1, <2>2, <2>3
  <1>6. CASE posix_memalign_enter(t)
    <2>1. PICK size \in Sizes, site \in StackIds :
            /\ Enter(t, "posix_memalign", size, NULL, site)
            /\ gen_alloc_enter(t, size, site)
            /\ memptrs' = UpdateElem(memptrs, t, "memptr", MaxMemptrs)
      BY <1>6 DEF posix_memalign_enter
    <2>2. /\ "posix_memalign" \in AllFns /\ "posix_memalign" \in AllocFns
          /\ site \in Int /\ allocs' = allocs /\ heap' = heap
      BY <1>6, Kinds, DataAssumption DEF posix_memalign_enter, AllFns
    <2>3. Arrives(t, "posix_memalign", size, NULL, site)
      BY <1>3, <2>1, <2>2 DEF Arrives
    <2> QED
      BY <1>1, <2>2, <2>3
  <1>7. CASE free_enter(t)
    <2>1. PICK fn \in FreeFns, ptr \in Addr \cup {NULL} :
            Enter(t, fn, 0, ptr, 0) /\ gen_free_enter(ptr)
      BY <1>7 DEF free_enter
    <2>2. /\ fn \in AllFns /\ fn \notin SizeFns /\ 0 \in Int
          /\ 0 \in Sizes \cup {0} /\ sizes' = sizes /\ heap' = heap
          /\ fn # "posix_memalign" /\ memptrs' = memptrs
      BY <1>7, Kinds DEF free_enter, AllFns
    <2>3. Arrives(t, fn, 0, ptr, 0)
      BY <1>3, <2>1, <2>2 DEF Arrives
    <2> QED
      BY <1>1, <2>2, <2>3
  <1> QED
    BY <1>1, <1>4, <1>5, <1>6, <1>7 DEF EnterProbe

\* A call that no program is attached to arrives unseen.
LEMMA BlindArrives ==
    ASSUME Kept, NEW t \in Tid, BlindCall(t)
    PROVE  /\ \E fn \in AllFns, size \in Sizes \cup {0}, ptr \in Addr \cup {NULL},
                 site \in Int : Arrives(t, fn, size, ptr, site)
           /\ TypeOK'
  <1>1. PICK fn \in AllFns, size \in Sizes \cup {0}, ptr \in Addr \cup {NULL},
             site \in Int :
          /\ ~Attached(fn, "enter") /\ (fn \in SizeFns => ptr = NULL)
          /\ Enter(t, fn, size, ptr, site) /\ Begins(t, fn)
    <2>1. CASE \E fn \in AllocFns \cap Called, size \in Sizes, site \in StackIds,
                  ptr \in Addr \cup {NULL} :
                 /\ ~Attached(fn, "enter") /\ (ptr # NULL => fn \in MoveFns)
                 /\ Enter(t, fn, size, ptr, site) /\ Begins(t, fn)
      <3>1. PICK fn \in AllocFns, size \in Sizes, site \in StackIds,
                 ptr \in Addr \cup {NULL} :
                 /\ ~Attached(fn, "enter") /\ (ptr # NULL => fn \in MoveFns)
                 /\ Enter(t, fn, size, ptr, site) /\ Begins(t, fn)
        BY <2>1
      <3>2. fn \in AllFns /\ site \in Int /\ (fn \in SizeFns => ptr = NULL)
        BY <3>1, Kinds, DataAssumption DEF AllFns
      <3> QED
        BY <3>1, <3>2
    <2>2. CASE \E fn \in FreeFns \cap Called, ptr \in Addr \cup {NULL} :
                 /\ ~Attached(fn, "enter")
                 /\ Enter(t, fn, 0, ptr, 0) /\ Begins(t, fn)
      <3>1. PICK fn \in FreeFns, ptr \in Addr \cup {NULL} :
                 /\ ~Attached(fn, "enter")
                 /\ Enter(t, fn, 0, ptr, 0) /\ Begins(t, fn)
        BY <2>2
      <3>2. /\ fn \in AllFns /\ fn \notin SizeFns /\ 0 \in Int /\ 0 \in Sizes \cup {0}
        BY <3>1, Kinds DEF AllFns
      <3> QED
        BY <3>1, <3>2
    <2> QED
      BY <2>1, <2>2 DEF BlindCall
  <1>2. sizes' = sizes /\ memptrs' = memptrs /\ allocs' = allocs /\ heap' = heap
    BY DEF BlindCall, kernel
  <1>3. Arrives(t, fn, size, ptr, site)
    BY <1>1, <1>2 DEF Arrives
  <1>4. TypeOK'
    <2>1. call' \in [Tid -> Frame]
      BY <1>1, EnterType DEF Kept
    <2> QED
      BY <1>2, <2>1 DEF Kept, TypeOK
  <1> QED
    BY <1>3, <1>4

\* What the entry of a function does to the call of its thread.
LEMMA ArriveCall ==
    ASSUME Kept, NEW t \in Tid, NEW fn \in AllFns, NEW size \in Sizes \cup {0},
           NEW ptr \in Addr \cup {NULL}, NEW site \in Int,
           Arrives(t, fn, size, ptr, site)
    PROVE  /\ Entered(t, fn, size, ptr) /\ StackInv' /\ CallInv'
           /\ call'[t].site = IF InCall(t) THEN call[t].site ELSE site
           /\ InCall(t) /\ Top(t) \in AllocFns => fn \in AllocFns
  <1>1. Enter(t, fn, size, ptr, site) /\ (fn \in SizeFns => ptr = NULL)
    BY DEF Arrives
  <1>2. Entered(t, fn, size, ptr) /\ StackInv' /\ CallInv'
    BY <1>1, KeptCalls, EnterFacts, EnterCalls
  <1>3. call[t] \in Frame /\ t \in DOMAIN call
    BY DEF Kept, TypeOK
  <1>4. call'[t].site = IF InCall(t) THEN call[t].site ELSE site
    <2>1. CASE /\ ~InCall(t)
               /\ call' = [call EXCEPT ![t] = [stack |-> <<fn>>, size |-> size,
                                   site |-> site, ptr |-> ptr, ret |-> None]]
      BY <1>3, <2>1
    <2>2. CASE Delegating(t, fn) /\ call' = [call EXCEPT ![t].stack = <<fn>> \o @]
      <3>1. InCall(t)
        BY <2>2 DEF Delegating, Running
      <3>2. call'[t] = [call[t] EXCEPT !.stack = <<fn>> \o call[t].stack]
        BY <1>3, <2>2
      <3> QED
        BY <1>3, <3>1, <3>2 DEF Frame
    <2> QED
      BY <1>1, <2>1, <2>2 DEF Enter
  <1>5. InCall(t) /\ Top(t) \in AllocFns => fn \in AllocFns
    BY <1>2, FnsAssumption, Kinds DEF Entered
  <1> QED
    BY <1>2, <1>4, <1>5

\* The entry of a function may take one record off, that of the block given up.
LEMMA ArriveAllocs ==
    ASSUME Kept, NEW t \in Tid, NEW fn \in AllFns, NEW size \in Sizes \cup {0},
           NEW ptr \in Addr \cup {NULL}, NEW site \in Int,
           Arrives(t, fn, size, ptr, site)
    PROVE  /\ AddressesOnly'
           /\ \A a \in Addr : a # ptr => allocs'[a] = allocs[a]
           /\ ptr \in Addr => allocs'[ptr] \in {None, allocs[ptr]}
           /\ ptr \in Addr /\ Attached(fn, "enter") => allocs'[ptr] = None
  <1>1. allocs' = allocs \/ allocs' = DeleteElem(allocs, ptr)
    BY DEF Arrives, gen_free_enter
  <1>2. /\ \A a \in Addr : a # ptr => allocs'[a] = allocs[a]
        /\ ptr \in Addr => allocs'[ptr] \in {None, allocs[ptr]}
        /\ AddressesOnly'
    BY <1>1, Words DEF DeleteElem, Kept, MapsInv, TypeOK, AddressesOnly, Keys
  <1>3. ptr \in Addr /\ Attached(fn, "enter") => allocs'[ptr] = None
    BY Words DEF Arrives, gen_free_enter, DeleteElem, Kept, TypeOK
  <1> QED
    BY <1>2, <1>3

\* The entry probe of an allocation saves the request unless one is saved, and
\* a return probe is owed for it from then on.
LEMMA ArriveSizes ==
    ASSUME Recording, Kept, NEW t \in Tid, NEW fn \in AllFns,
           NEW size \in Sizes \cup {0}, NEW ptr \in Addr \cup {NULL}, NEW site \in Int,
           Arrives(t, fn, size, ptr, site)
    PROVE  /\ \A u \in Tid : u # t => sizes'[u] = sizes[u] /\ (u \in owed' <=> u \in owed)
           /\ Attached(fn, "enter") /\ fn \in AllocFns =>
                /\ t \in owed' /\ sizes'[t] # None
                /\ sizes[t] # None => sizes'[t] = sizes[t]
                /\ sizes[t] = None => sizes'[t] = [size |-> size, stack_id |-> site]
           /\ ~(Attached(fn, "enter") /\ fn \in AllocFns) =>
                sizes'[t] = sizes[t] /\ (t \in owed' <=> t \in owed)
  <1>1. Begins(t, fn)
    BY DEF Arrives
  <1>2. owed' = IF Attached(fn, "enter") /\ fn \in AllocFns THEN owed \cup {t} ELSE owed
    BY <1>1 DEF Begins
  <1>3. CASE Attached(fn, "enter") /\ fn \in AllocFns
    <2> DEFINE request == [size |-> size, stack_id |-> site]
    <2>1. size \in Sizes /\ site \in StackIds /\ gen_alloc_enter(t, size, site)
      BY <1>3, Kinds DEF Arrives
    <2>2. request \in Info /\ request # None
      BY <2>1, WordAssumption DEF Info
    <2>3. ~(SampleRate > 1) /\ ~(size < MinSize \/ size > MaxSize)
      BY <2>1, DataAssumption DEF Recording
    <2>4. sizes' = IF sizes[t] # None THEN sizes
                   ELSE UpdateElem(sizes, t, request, MaxSizes)
      BY <2>1, <2>3 DEF gen_alloc_enter
    <2>5. sizes[t] = None => HasRoom(sizes, t, MaxSizes)
      <3>1. sizes[t] = None => Keys(sizes) \subseteq Tid \ {t}
        BY DEF Keys, Kept, TypeOK
      <3> QED
        BY <3>1, RoomForAll, DataAssumption DEF Recording
    <2>6. sizes[t] = None => sizes' = [sizes EXCEPT ![t] = request]
      BY <2>4, <2>5 DEF UpdateElem
    <2> HIDE DEF request
    <2>7. /\ sizes[t] # None => sizes' = sizes
          /\ sizes[t] = None => /\ sizes'[t] = request
                                /\ \A u \in Tid : u # t => sizes'[u] = sizes[u]
      BY <2>4, <2>6 DEF Kept, TypeOK
    <2> QED
      BY <1>2, <1>3, <2>2, <2>7 DEF request
  <1>4. CASE ~(Attached(fn, "enter") /\ fn \in AllocFns)
    <2>1. sizes' = sizes
      BY <1>4 DEF Arrives
    <2> QED
      BY <1>2, <1>4, <2>1
  <1> QED
    BY <1>3, <1>4

\* The entry probe of posix_memalign saves memptr if there is room for it.
LEMMA ArriveHanded ==
    ASSUME Kept, NEW t \in Tid, NEW fn \in AllFns, NEW size, NEW ptr, NEW site,
           Arrives(t, fn, size, ptr, site)
    PROVE  Keys(memptrs)' = handed'
  <1>1. /\ handed = {u \in Tid : memptrs[u] # None} /\ handed = Keys(memptrs)
        /\ memptrs \in [Tid -> {"memptr", None}]
    BY DEF Kept, MapsInv, TypeOK, SizesOwed, Keys
  <1>2. handed' = IF /\ Attached(fn, "enter") /\ fn = "posix_memalign"
                     /\ t \in handed \/ Cardinality(handed) < MaxMemptrs
                  THEN handed \cup {t} ELSE handed
    BY DEF Arrives, Begins
  <1>3. CASE Attached(fn, "enter") /\ fn = "posix_memalign"
    <2>1. memptrs' = UpdateElem(memptrs, t, "memptr", MaxMemptrs)
      BY <1>3 DEF Arrives
    <2>2. HasRoom(memptrs, t, MaxMemptrs) <=>
            t \in handed \/ Cardinality(handed) < MaxMemptrs
      BY <1>1 DEF HasRoom
    <2>3. memptrs' = IF t \in handed \/ Cardinality(handed) < MaxMemptrs
                     THEN [memptrs EXCEPT ![t] = "memptr"] ELSE memptrs
      BY <2>1, <2>2 DEF UpdateElem
    <2>4. CASE t \in handed \/ Cardinality(handed) < MaxMemptrs
      <3>1. /\ memptrs' = [memptrs EXCEPT ![t] = "memptr"]
            /\ handed' = handed \cup {t} /\ "memptr" # None
        BY <1>2, <1>3, <2>3, <2>4, WordAssumption
      <3> QED
        BY <1>1, <3>1 DEF Keys
    <2>5. CASE ~(t \in handed \/ Cardinality(handed) < MaxMemptrs)
      BY <1>1, <1>2, <2>3, <2>5 DEF Keys
    <2> QED
      BY <2>4, <2>5
  <1>4. CASE ~(Attached(fn, "enter") /\ fn = "posix_memalign")
    <2>1. memptrs' = memptrs /\ handed' = handed
      BY <1>2, <1>4 DEF Arrives
    <2> QED
      BY <1>1, <2>1 DEF Keys
  <1> QED
    BY <1>3, <1>4

\* A block that is given up is live, and no other call works on it.
LEMMA ArriveHeld ==
    ASSUME Kept, NEW t \in Tid, NEW fn \in AllFns, NEW size \in Sizes \cup {0},
           NEW ptr \in Addr \cup {NULL}, NEW site \in Int,
           Arrives(t, fn, size, ptr, site)
    PROVE  /\ OwnInv' /\ HeldLive'
           /\ \A u \in Tid : u # t => call'[u] = call[u] /\ (ptr # NULL => ~Holds(u, ptr))
           /\ \A a \in Addr : Holds(t, a)' <=> a = ptr
           /\ \A a \in Addr : Holds(t, a) => a = ptr
  <1>1. Entered(t, fn, size, ptr)
    BY ArriveCall
  <1>2. /\ \A u \in Tid : u # t => call'[u] = call[u]
        /\ call'[t].ptr = ptr /\ call'[t].ret = None
    BY <1>1 DEF Entered
  <1>3. \A a \in Addr : Holds(t, a)' <=> a = ptr
    BY <1>2, Words DEF Holds
  <1>4. \A a \in Addr : Holds(t, a) => a = ptr
    <2>1. CASE ~InCall(t)
      BY <2>1, Words DEF Kept, MapsInv, CallInv, Idle, Holds
    <2>2. CASE InCall(t)
      BY <1>1, <2>2, Words DEF Entered, Holds
    <2> QED
      BY <2>1, <2>2
  <1>5. ptr # NULL => heap[ptr] # None /\ \A u \in Tid : u # t => ~Holds(u, ptr)
    <2>1. ptr # NULL => ptr \in Addr
      OBVIOUS
    <2>2. CASE ~InCall(t)
      BY <1>1, <2>2 DEF Entered, Busy
    <2>3. CASE InCall(t)
      <3>1. Holds(t, ptr)
        BY <1>1, <2>3 DEF Entered, Holds
      <3> QED
        BY <2>1, <3>1 DEF Kept, MapsInv, HeldLive, OwnInv
    <2> QED
      BY <2>2, <2>3
  <1>6. \A u \in Tid, a \in Addr : u # t => (Holds(u, a)' <=> Holds(u, a))
    BY <1>2 DEF Holds
  <1>7. OwnInv'
    <2> SUFFICES ASSUME NEW u \in Tid, NEW v \in Tid, NEW a \in Addr,
                        Holds(u, a)', Holds(v, a)'
                 PROVE  u = v
      BY DEF OwnInv
    <2> QED
      BY <1>3, <1>5, <1>6, Words DEF Kept, MapsInv, OwnInv
  <1>8. HeldLive'
    <2> SUFFICES ASSUME NEW u \in Tid, NEW a \in Addr, Holds(u, a)'
                 PROVE  heap'[a] # None
      BY DEF HeldLive
    <2>1. heap' = heap
      BY DEF Arrives
    <2> QED
      BY <1>3, <1>5, <1>6, <2>1, Words DEF Kept, MapsInv, HeldLive
  <1> QED
    BY <1>2, <1>3, <1>4, <1>5, <1>7, <1>8

\* A call that begins, watched or not, keeps the invariant.
LEMMA ArriveStep ==
    ASSUME Recording, Kept, NEW t \in Tid, NEW fn \in AllFns,
           NEW size \in Sizes \cup {0}, NEW ptr \in Addr \cup {NULL}, NEW site \in Int,
           Arrives(t, fn, size, ptr, site)
    PROVE  MapsInv'
  <1>1. /\ Entered(t, fn, size, ptr) /\ StackInv' /\ CallInv' /\ OwnInv' /\ HeldLive'
        /\ AddressesOnly' /\ heap' = heap /\ Begins(t, fn)
    BY ArriveCall, ArriveHeld, ArriveAllocs DEF Arrives
  <1>2. /\ \A u \in Tid : u # t => call'[u] = call[u]
        /\ InCall(t)' /\ Top(t)' = fn /\ ~Returning(t)' /\ Running(t)'
        /\ call'[t].size = size /\ call'[t].ptr = ptr /\ call'[t].ret = None
    BY <1>1 DEF Entered, Returning, Running
  <1>3. /\ \A a \in Addr : a # ptr => allocs'[a] = allocs[a]
        /\ ptr \in Addr => allocs'[ptr] \in {None, allocs[ptr]}
        /\ ptr \in Addr /\ Attached(fn, "enter") => allocs'[ptr] = None
        /\ \A u \in Tid, a \in Addr : u # t /\ Holds(u, a) => allocs'[a] = allocs[a]
    <2>1. \A u \in Tid : u # t /\ ptr # NULL => ~Holds(u, ptr)
      BY ArriveHeld
    <2>2. \A u \in Tid, a \in Addr : u # t /\ Holds(u, a) => a # ptr
      BY <2>1, Words
    <2> QED
      BY <2>2, ArriveAllocs
  <1>4. /\ \A u \in Tid : u # t => /\ sizes'[u] = sizes[u]
                                   /\ u \in owed' <=> u \in owed
                                   /\ u \in seen' <=> u \in seen
                                   /\ u \in clear' <=> u \in clear
        /\ spoiled' = spoiled
    BY <1>1, ArriveSizes DEF Begins
  <1>5. SizesOwed'
    <2> SUFFICES ASSUME NEW u \in Tid PROVE sizes'[u] # None <=> u \in owed'
      BY ArriveHanded DEF SizesOwed
    <2> QED
      BY <1>4, ArriveSizes DEF Kept, MapsInv, SizesOwed
  <1>6. SeenInv'
    <2> SUFFICES ASSUME NEW u \in Tid, u \in seen'
                 PROVE  Running(u)' /\ \A a \in Addr : call'[u].ptr = a => allocs'[a] = None
      BY DEF SeenInv
    <2>1. CASE u # t
      BY <1>2, <1>3, <1>4, <2>1
         DEF Kept, MapsInv, SeenInv, Holds, Running, InCall
    <2>2. CASE u = t
      <3>1. CASE Attached(fn, "enter")
        BY <1>2, <1>3, <2>2, <3>1
      <3>2. CASE ~Attached(fn, "enter")
        <4>1. t \in seen
          BY <1>1, <2>2, <3>2 DEF Begins
        <4>2. Running(t) /\ \A b \in Addr : call[t].ptr = b => allocs[b] = None
          BY <4>1 DEF Kept, MapsInv, SeenInv
        <4>3. call[t].ptr = ptr
          BY <1>1, <4>2 DEF Entered, Running
        <4> QED
          BY <1>2, <1>3, <2>2, <4>2, <4>3
      <3> QED
        BY <3>1, <3>2
    <2> QED
      BY <2>1, <2>2
  <1>7. ClearInv'
    <2> SUFFICES ASSUME NEW u \in Tid, u \in clear'
                 PROVE  /\ InCall(u)' /\ Top(u)' \in AllocFns
                        /\ Running(u)' => /\ u \in owed'
                             /\ sizes'[u] = [size |-> call'[u].size,
                                             stack_id |-> call'[u].site]
                        /\ \A a \in Addr : call'[u].ret = a =>
                              heap'[a] = IF u \in owed' THEN sizes'[u] ELSE allocs'[a]
      BY DEF ClearInv
    <2>1. CASE u # t
      BY <1>1, <1>2, <1>3, <1>4, <2>1
         DEF Kept, MapsInv, ClearInv, Holds, Running, InCall, Top
    <2>2. CASE u = t
      <3>1. CASE t \in clear
        <4>1. InCall(t) /\ Top(t) \in AllocFns
          BY <3>1 DEF Kept, MapsInv, ClearInv
        <4>2. Running(t) /\ call[t].size = size
          BY <1>1, <4>1 DEF Entered, Running
        <4>3. /\ t \in owed
              /\ sizes[t] = [size |-> call[t].size, stack_id |-> call[t].site]
          BY <3>1, <4>2 DEF Kept, MapsInv, ClearInv
        <4>4. sizes[t] # None
          BY <4>3 DEF Kept, MapsInv, SizesOwed
        <4>5. fn \in AllocFns /\ call'[t].site = call[t].site
          BY <4>1, ArriveCall
        <4>6. t \in owed' /\ sizes'[t] = sizes[t]
          BY <4>3, <4>4, ArriveSizes
        <4> QED
          BY <1>2, <2>2, <4>2, <4>3, <4>5, <4>6, Words
      <3>2. CASE t \notin clear
        <4>1. Attached(fn, "enter") /\ fn \in AllocFns /\ ~InCall(t) /\ t \notin owed
          BY <1>1, <2>2, <3>2 DEF Begins
        <4>2. sizes[t] = None
          BY <4>1 DEF Kept, MapsInv, SizesOwed
        <4>3. call'[t].site = site
          BY <4>1, ArriveCall
        <4>4. t \in owed' /\ sizes'[t] = [size |-> size, stack_id |-> site]
          BY <4>1, <4>2, ArriveSizes
        <4> QED
          BY <1>2, <2>2, <4>1, <4>3, <4>4, Words
      <3> QED
        BY <3>1, <3>2
    <2> QED
      BY <2>1, <2>2
  <1>8. GrantedInv'
    <2> SUFFICES ASSUME NEW u \in Tid, NEW a \in Addr, a \notin spoiled,
                        call'[u].ret = a, sizes'[u] # None
                 PROVE  allocs'[a] = None
      BY <1>4 DEF GrantedInv
    <2>1. u # t /\ call[u].ret = a
      BY <1>2, Words
    <2> QED
      BY <1>3, <1>4, <2>1 DEF Kept, MapsInv, GrantedInv, Holds
  <1>9. WatchedExact'
    <2> SUFFICES ASSUME NEW a \in Addr, a \notin spoiled, ~Busy(a)'
                 PROVE  allocs'[a] = heap'[a]
      BY <1>4 DEF WatchedExact
    <2>1. \A u \in Tid : ~Holds(u, a)'
      BY DEF Busy
    <2>2. a # ptr
      BY <2>1, ArriveHeld
    <2>3. \A u \in Tid : ~Holds(u, a)
      BY <2>1, <2>2, ArriveHeld DEF Holds
    <2>4. allocs[a] = heap[a]
      BY <2>3 DEF Busy, Kept, MapsInv, WatchedExact
    <2> QED
      BY <1>1, <1>3, <2>2, <2>4
  <1> QED
    BY <1>1, <1>5, <1>6, <1>7, <1>8, <1>9 DEF MapsInv

-----------------------------------------------------------------------------
(* A function does its work. *)

\* The block given up goes or stays, the block granted is what was asked for,
\* and nobody else works on either.
LEMMA WorkBlocks ==
    ASSUME Kept, NEW t \in Tid, Work(t)
    PROVE  /\ \A u \in Tid : u # t => call'[u] = call[u]
           /\ \A a \in Addr : Holds(t, a) => a = call[t].ptr
           /\ \A a \in Addr : a # call[t].ptr /\ ~Holds(t, a)' => heap'[a] = heap[a]
           /\ \A a \in Addr : Holds(t, a)' =>
                 /\ call'[t].ret = a /\ (heap[a] = None \/ a = call[t].ptr)
                 /\ heap'[a] = [size |-> call[t].size, stack_id |-> call[t].site]
                 /\ call'[t].size = call[t].size /\ call'[t].site = call[t].site
           /\ call'[t].ptr = NULL
  <1>1. /\ t \in DOMAIN call /\ call[t] \in Frame /\ DOMAIN heap = Addr
        /\ \A u \in Tid : u \in DOMAIN call
    BY DEF Kept, TypeOK
  <1>2. CASE Grant(t)
    <2>1. PICK a \in Addr :
            /\ heap[a] = None \/ a = call[t].ptr
            /\ heap' = [b \in Addr |->
                 IF b = a THEN [size |-> call[t].size, stack_id |-> call[t].site]
                 ELSE IF b = call[t].ptr THEN None ELSE heap[b]]
            /\ call' = [call EXCEPT ![t].ret = a, ![t].ptr = NULL]
      BY <1>2 DEF Grant
    <2>2. call[t].ret = None
      BY <1>2 DEF Grant, Executing, Running
    <2>3. /\ \A u \in Tid : u # t => call'[u] = call[u]
          /\ call'[t].ret = a /\ call'[t].ptr = NULL
          /\ call'[t].size = call[t].size /\ call'[t].site = call[t].site
      BY <1>1, <2>1 DEF Frame
    <2>4. \A b \in Addr : /\ Holds(t, b)' <=> b = a
                          /\ Holds(t, b) => b = call[t].ptr
      BY <2>2, <2>3, Words DEF Holds
    <2> QED
      BY <2>1, <2>3, <2>4
  <1>3. CASE ReallocToNothing(t) \/ Fail(t) \/ Release(t) \/ Unwind(t)
    <2>1. \A b \in Addr : b # call[t].ptr => heap'[b] = heap[b]
      BY <1>1, <1>3 DEF ReallocToNothing, Fail, Release, Unwind
    <2>2. /\ \A u \in Tid : u # t => call'[u] = call[u]
          /\ call'[t].ptr = NULL /\ call'[t].ret \in {None, NULL, MAP_FAILED}
      <3>1. \/ call' = [call EXCEPT ![t] = Idle]
            \/ \E r \in {NULL, MAP_FAILED} :
                  call' = [call EXCEPT ![t].ret = r, ![t].ptr = NULL]
        BY <1>3 DEF ReallocToNothing, Fail, Release, Unwind
      <3> QED
        BY <1>1, <3>1 DEF Frame, Idle
    <2>3. call[t].ret \in {None, NULL}
      BY <1>3 DEF ReallocToNothing, Fail, Release, Unwind, Executing, Running, Throws
    <2>4. \A b \in Addr : /\ ~Holds(t, b)'
                          /\ Holds(t, b) => b = call[t].ptr
      BY <2>2, <2>3, Words DEF Holds
    <2> QED
      BY <2>1, <2>2, <2>4
  <1> QED
    BY <1>2, <1>3 DEF Work

\* No other call notices what becomes of the blocks of this one.
LEMMA WorkOthers ==
    ASSUME Kept, NEW t \in Tid, Work(t)
    PROVE  /\ OwnInv' /\ HeldLive'
           /\ \A u \in Tid, a \in Addr : u # t /\ Holds(u, a) =>
                 heap'[a] = heap[a] /\ a # call[t].ptr
  <1>1. /\ \A u \in Tid : u # t => call'[u] = call[u]
        /\ \A a \in Addr : a # call[t].ptr /\ ~Holds(t, a)' => heap'[a] = heap[a]
        /\ \A a \in Addr : Holds(t, a)' =>
              /\ heap[a] = None \/ a = call[t].ptr
              /\ heap'[a] = [size |-> call[t].size, stack_id |-> call[t].site]
    BY WorkBlocks
  <1>2. [size |-> call[t].size, stack_id |-> call[t].site] # None
    <2>1. [size |-> call[t].size, stack_id |-> call[t].site] \in Block
      BY DEF Kept, TypeOK, Frame, Block
    <2> QED
      BY <2>1, Words
  <1>3. \A u \in Tid, a \in Addr : u # t => (Holds(u, a)' <=> Holds(u, a))
    BY <1>1 DEF Holds
  <1>4. \A u \in Tid, a \in Addr : u # t /\ Holds(u, a) =>
          heap[a] # None /\ a # call[t].ptr
    BY DEF Kept, MapsInv, HeldLive, OwnInv, Holds
  <1>5. \A u \in Tid, a \in Addr : u # t /\ Holds(u, a) => ~Holds(t, a)'
    BY <1>1, <1>4
  <1>6. OwnInv'
    <2> SUFFICES ASSUME NEW u \in Tid, NEW v \in Tid, NEW a \in Addr,
                        Holds(u, a)', Holds(v, a)', u # v
                 PROVE  FALSE
      BY DEF OwnInv
    <2> QED
      BY <1>3, <1>5 DEF Kept, MapsInv, OwnInv
  <1>7. HeldLive'
    <2> SUFFICES ASSUME NEW u \in Tid, NEW a \in Addr, Holds(u, a)'
                 PROVE  heap'[a] # None
      BY DEF HeldLive
    <2>1. CASE u = t
      BY <1>1, <1>2, <2>1
    <2>2. CASE u # t
      BY <1>1, <1>3, <1>4, <1>5, <2>2
    <2> QED
      BY <2>1, <2>2
  <1> QED
    BY <1>1, <1>4, <1>5, <1>6, <1>7

\* The work of a function keeps the invariant: what no probe saw spoils the
\* block that was given up, and no other.
LEMMA WorksStep ==
    ASSUME Kept, NEW t \in Tid, Works(t)
    PROVE  MapsInv' /\ TypeOK'
  <1>1. Work(t) /\ TypeOK'
    <2>1. Work(t)
      BY DEF Works
    <2> QED
      BY <2>1, TypeStep DEF Next, Kept
  <1>2. Worked(t) /\ StackInv' /\ CallInv' /\ OwnInv' /\ HeldLive'
    BY <1>1, KeptCalls, WorkFacts, WorkShape, WorkOthers
  <1>3. /\ \A u \in Tid : u # t => call'[u] = call[u]
        /\ sizes' = sizes /\ memptrs' = memptrs /\ allocs' = allocs
    BY <1>2 DEF Worked, kernel
  <1>4. /\ owed' = owed /\ handed' = handed /\ seen' = seen \ {t}
        /\ clear' = IF InCall(t)' THEN clear ELSE clear \ {t}
        /\ spoiled' = IF call[t].ptr = NULL THEN spoiled
                      ELSE IF t \in seen /\ heap'[call[t].ptr] = None
                           THEN spoiled \ {call[t].ptr}
                           ELSE spoiled \cup {call[t].ptr}
    BY DEF Works
  <1>5. /\ \A a \in Addr : Holds(t, a) => a = call[t].ptr
        /\ \A a \in Addr : a # call[t].ptr /\ ~Holds(t, a)' => heap'[a] = heap[a]
        /\ \A a \in Addr : Holds(t, a)' =>
              /\ call'[t].ret = a /\ (heap[a] = None \/ a = call[t].ptr)
              /\ heap'[a] = [size |-> call[t].size, stack_id |-> call[t].site]
              /\ call'[t].size = call[t].size /\ call'[t].site = call[t].site
    BY <1>1, WorkBlocks
  <1>6. \A u \in Tid, a \in Addr : u # t /\ Holds(u, a) =>
          heap'[a] = heap[a] /\ a # call[t].ptr
    BY <1>1, WorkOthers
  <1>7. \A a \in Addr : a # call[t].ptr => (a \in spoiled' <=> a \in spoiled)
    BY <1>4
  <1>8. AddressesOnly' /\ SizesOwed'
    BY <1>3, <1>4 DEF Kept, MapsInv, AddressesOnly, SizesOwed, Keys
  <1>9. SeenInv'
    BY <1>3, <1>4 DEF Kept, MapsInv, SeenInv, Running, InCall
  <1>10. ClearInv'
    <2> SUFFICES ASSUME NEW u \in Tid, u \in clear'
                 PROVE  /\ InCall(u)' /\ Top(u)' \in AllocFns
                        /\ Running(u)' => /\ u \in owed'
                             /\ sizes'[u] = [size |-> call'[u].size,
                                             stack_id |-> call'[u].site]
                        /\ \A a \in Addr : call'[u].ret = a =>
                              heap'[a] = IF u \in owed' THEN sizes'[u] ELSE allocs'[a]
      BY DEF ClearInv
    <2>1. CASE u # t
      BY <1>3, <1>4, <1>6, <2>1
         DEF Kept, MapsInv, ClearInv, Holds, Running, InCall, Top
    <2>2. CASE u = t
      <3>1. t \in clear /\ InCall(t)'
        BY <1>4, <2>2
      <3>2. /\ call'[t].stack = call[t].stack /\ call'[t].ret \in Word
            /\ Running(t) /\ Top(t) \in AllocFns
        BY <1>2, <3>1 DEF Worked, InCall, Idle, Executing
      <3>3. /\ t \in owed
            /\ sizes[t] = [size |-> call[t].size, stack_id |-> call[t].site]
        BY <3>1, <3>2 DEF Kept, MapsInv, ClearInv
      <3>4. ~Running(t)' /\ Top(t)' = Top(t)
        BY <3>2, Words DEF Running, Top
      <3>5. \A a \in Addr : call'[t].ret = a => heap'[a] = sizes[t]
        BY <1>5, <3>3 DEF Holds
      <3> QED
        BY <1>3, <1>4, <2>2, <3>1, <3>2, <3>3, <3>4, <3>5
    <2> QED
      BY <2>1, <2>2
  <1>11. GrantedInv'
    <2> SUFFICES ASSUME NEW u \in Tid, NEW a \in Addr, a \notin spoiled',
                        call'[u].ret = a, sizes'[u] # None
                 PROVE  allocs'[a] = None
      BY DEF GrantedInv
    <2>1. CASE u # t
      <3>1. Holds(u, a) /\ call[u].ret = a
        BY <1>3, <2>1 DEF Holds
      <3>2. a \notin spoiled
        BY <1>6, <1>7, <2>1, <3>1
      <3> QED
        BY <1>3, <3>1, <3>2 DEF Kept, MapsInv, GrantedInv
    <2>2. CASE u = t
      <3>1. Holds(t, a)'
        BY <2>2 DEF Holds
      <3>2. heap'[a] # None
        BY <1>2, <3>1 DEF HeldLive
      <3>3. a # call[t].ptr
        BY <1>4, <3>2, Words
      <3>4. heap[a] = None /\ a \notin spoiled
        BY <1>5, <1>7, <3>1, <3>3
      <3>5. ~Busy(a)
        BY <3>4 DEF Busy, Kept, MapsInv, HeldLive
      <3> QED
        BY <1>3, <3>4, <3>5 DEF Kept, MapsInv, WatchedExact
    <2> QED
      BY <2>1, <2>2
  <1>12. WatchedExact'
    <2> SUFFICES ASSUME NEW a \in Addr, a \notin spoiled', ~Busy(a)'
                 PROVE  allocs'[a] = heap'[a]
      BY DEF WatchedExact
    <2>1. \A u \in Tid : ~Holds(u, a)'
      BY DEF Busy
    <2>2. CASE a = call[t].ptr
      <3>1. t \in seen /\ heap'[a] = None
        BY <1>4, <2>2, Words
      <3> QED
        BY <1>3, <2>2, <3>1 DEF Kept, MapsInv, SeenInv
    <2>3. CASE a # call[t].ptr
      <3>1. heap'[a] = heap[a] /\ a \notin spoiled
        BY <1>5, <1>7, <2>1, <2>3
      <3>2. \A u \in Tid : ~Holds(u, a)
        BY <1>3, <1>5, <2>1, <2>3 DEF Holds
      <3> QED
        BY <1>3, <3>1, <3>2 DEF Busy, Kept, MapsInv, WatchedExact
    <2> QED
      BY <2>2, <2>3
  <1> QED
    BY <1>1, <1>2, <1>8, <1>9, <1>10, <1>11, <1>12 DEF MapsInv

-----------------------------------------------------------------------------
(* A function returns. *)

\* Thread t returns, and its return probe takes over what is owed or does not.
Leaves(t) ==
    /\ Returning(t) /\ Return(t) /\ heap' = heap
    /\ \/ sizes' = sizes /\ allocs' = allocs /\ owed' = owed
       \/ /\ owed' = owed \ {t}
          /\ \E w \in Word : /\ w = call[t].ret \/ {w, call[t].ret} \cap Addr = {}
                             /\ gen_alloc_exit2(t, w)
    /\ \/ memptrs' = memptrs /\ handed' = handed
       \/ memptrs' = DeleteElem(memptrs, t) /\ handed' = handed \ {t}

\* Every return is one of these: the probe does not run, it gives up, or it
\* takes the request out of sizes.
LEMMA ReturnsLeaves ==
    ASSUME Recording, Kept, NEW t \in Tid, Returns(t)
    PROVE  Leaves(t) /\ TypeOK'
  <1>1. Returning(t) /\ InCall(t) /\ call[t].ret \in Word
    BY DEF Returns, Returning, Kept, TypeOK, Frame
  <1>2. CASE Return(t) /\ UNCHANGED <<kernel, heap, handed, owed>>
    <2>1. /\ Return(t) /\ heap' = heap /\ handed' = handed /\ owed' = owed
          /\ sizes' = sizes /\ memptrs' = memptrs /\ allocs' = allocs
      BY <1>2 DEF kernel
    <2>2. call' \in [Tid -> Frame]
      BY <1>1, <2>1, ReturnType DEF Kept
    <2> QED
      BY <1>1, <2>1, <2>2 DEF Leaves, Kept, TypeOK
  <1>3. CASE alloc_exit(t) /\ owed' = owed \ {t} /\ handed' = handed
    <2>1. TypeOK'
      BY <1>3, TypeStep DEF Next, Kept, ExitProbe
    <2>2. Return(t) /\ heap' = heap /\ memptrs' = memptrs /\ gen_alloc_exit2(t, call[t].ret)
      BY <1>3 DEF alloc_exit
    <2> QED
      BY <1>1, <1>3, <2>1, <2>2 DEF Leaves
  <1>4. ASSUME NEW faults \in Faults, posix_memalign_exit(t, faults),
               owed' = IF faults \/ t \notin handed THEN owed ELSE owed \ {t},
               handed' = handed \ {t}
        PROVE  Leaves(t) /\ TypeOK'
    <2>1. TypeOK'
      BY <1>4, TypeStep DEF Next, Kept, ExitProbe
    <2>2. Return(t) /\ heap' = heap /\ memptrs' = DeleteElem(memptrs, t)
      BY <1>4 DEF posix_memalign_exit
    <2>3. memptrs[t] = None <=> t \notin handed
      BY DEF Kept, MapsInv, SizesOwed, Keys, TypeOK
    <2>4. CASE faults \/ t \notin handed
      <3>1. sizes' = sizes /\ allocs' = allocs /\ owed' = owed
        BY <1>4, <2>3, <2>4 DEF posix_memalign_exit
      <3> QED
        BY <1>1, <1>4, <2>1, <2>2, <3>1 DEF Leaves
    <2>5. CASE ~(faults \/ t \notin handed)
      <3>1. \E addr \in IF call[t].ret = NULL THEN Leftovers ELSE {call[t].ret} :
              gen_alloc_exit2(t, addr)
        BY <1>4, <2>3, <2>5 DEF posix_memalign_exit
      <3>2. \E w \in Word : /\ w = call[t].ret \/ {w, call[t].ret} \cap Addr = {}
                            /\ gen_alloc_exit2(t, w)
        BY <1>1, <3>1, Words, DataAssumption DEF Recording
      <3> QED
        BY <1>1, <1>4, <2>1, <2>2, <2>5, <3>2 DEF Leaves
    <2> QED
      BY <2>4, <2>5
  <1> QED
    BY <1>2, <1>3, <1>4 DEF Returns, TakesOver

\* What a return leaves in the maps.
LEMMA LeaveMaps ==
    ASSUME Recording, Kept, NEW t \in Tid, Leaves(t)
    PROVE  /\ AddressesOnly' /\ SizesOwed'
           /\ \A u \in Tid : u # t => sizes'[u] = sizes[u] /\ (u \in owed' <=> u \in owed)
           /\ \A a \in Addr : a # call[t].ret => allocs'[a] = allocs[a]
           /\ \/ sizes' = sizes /\ allocs' = allocs /\ owed' = owed
              \/ /\ sizes'[t] = None /\ t \notin owed'
                 /\ \A a \in Addr : call[t].ret = a =>
                       allocs'[a] = IF t \in owed THEN sizes[t] ELSE allocs[a]
  <1>1. Keys(memptrs)' = handed'
    <2>1. handed = {u \in Tid : memptrs[u] # None} /\ memptrs \in [Tid -> {"memptr", None}]
      BY DEF Kept, MapsInv, TypeOK, SizesOwed, Keys
    <2> QED
      BY <2>1 DEF Leaves, DeleteElem, Keys
  <1>2. CASE sizes' = sizes /\ allocs' = allocs /\ owed' = owed
    BY <1>2, <1>1 DEF Kept, MapsInv, AddressesOnly, SizesOwed, Keys
  <1>3. ASSUME owed' = owed \ {t}, NEW w \in Word, gen_alloc_exit2(t, w),
               w = call[t].ret \/ {w, call[t].ret} \cap Addr = {}
        PROVE  /\ AddressesOnly' /\ SizesOwed'
               /\ \A u \in Tid : u # t => sizes'[u] = sizes[u] /\ (u \in owed' <=> u \in owed)
               /\ \A a \in Addr : a # call[t].ret => allocs'[a] = allocs[a]
               /\ sizes'[t] = None /\ t \notin owed'
               /\ \A a \in Addr : call[t].ret = a =>
                     allocs'[a] = IF t \in owed THEN sizes[t] ELSE allocs[a]
    <2>1. /\ sizes'[t] = None
          /\ \A u \in Tid : u # t => sizes'[u] = sizes[u] /\ (u \in owed' <=> u \in owed)
      BY <1>3 DEF gen_alloc_exit2, DeleteElem, Kept, TypeOK
    <2>2. SizesOwed'
      BY <1>3, <1>1, <2>1 DEF Kept, MapsInv, SizesOwed
    <2>3. sizes[t] # None <=> t \in owed
      BY DEF Kept, MapsInv, SizesOwed
    <2>4. CASE t \notin owed \/ w \notin Addr
      <3>1. allocs' = allocs
        BY <1>3, <2>3, <2>4 DEF gen_alloc_exit2, Word
      <3>2. t \in owed => call[t].ret \notin Addr
        BY <1>3, <2>4
      <3> QED
        BY <1>3, <2>1, <2>2, <3>1, <3>2 DEF Kept, MapsInv, AddressesOnly, Keys
    <2>5. CASE t \in owed /\ w \in Addr
      <3>1. w = call[t].ret
        BY <1>3, <2>5
      <3>2. HasRoom(allocs, w, MaxAllocs)
        <4>1. CASE allocs[w] # None
          BY <4>1 DEF HasRoom, Keys, Kept, TypeOK
        <4>2. CASE allocs[w] = None
          <5>1. Keys(allocs) \subseteq Addr \ {w}
            BY <4>2 DEF Kept, MapsInv, AddressesOnly, Keys
          <5> QED
            BY <2>5, <5>1, RoomForAll, DataAssumption DEF Recording
        <4> QED
          BY <4>1, <4>2
      <3>3. allocs' = [allocs EXCEPT ![w] = sizes[t]]
        BY <1>3, <2>3, <2>5, <3>2, Words DEF gen_alloc_exit2, UpdateElem
      <3>4. \A a \in Word : allocs'[a] = IF a = w THEN sizes[t] ELSE allocs[a]
        BY <3>3 DEF Kept, TypeOK
      <3>5. AddressesOnly'
        BY <2>5, <3>3 DEF Kept, TypeOK, MapsInv, AddressesOnly, Keys
      <3> QED
        BY <1>3, <2>1, <2>2, <2>5, <3>1, <3>4, <3>5, Words
    <2> QED
      BY <2>4, <2>5
  <1> QED
    BY <1>2, <1>3 DEF Leaves

\* A return keeps the invariant: a call that was not watched in whole, or that
\* found a leftover, spoils the block it hands out and no other.
LEMMA ReturnsStep ==
    ASSUME Recording, Kept, NEW t \in Tid, Returns(t)
    PROVE  MapsInv' /\ TypeOK'
  <1>1. Leaves(t) /\ Returning(t) /\ TypeOK' /\ heap' = heap
    BY ReturnsLeaves DEF Leaves
  <1>2. Returned(t) /\ StackInv' /\ CallInv'
    BY <1>1, KeptCalls, ReturnFacts, ReturnCalls DEF Leaves
  <1>3. /\ AddressesOnly' /\ SizesOwed'
        /\ \A u \in Tid : u # t => sizes'[u] = sizes[u] /\ (u \in owed' <=> u \in owed)
        /\ \A a \in Addr : a # call[t].ret => allocs'[a] = allocs[a]
        /\ \/ sizes' = sizes /\ allocs' = allocs /\ owed' = owed
           \/ /\ sizes'[t] = None /\ t \notin owed'
              /\ \A a \in Addr : call[t].ret = a =>
                    allocs'[a] = IF t \in owed THEN sizes[t] ELSE allocs[a]
    BY <1>1, LeaveMaps
  <1>4. /\ seen' = seen
        /\ InCall(t)' => clear' = clear /\ spoiled' = spoiled
        /\ ~InCall(t)' =>
             /\ clear' = clear \ {t}
             /\ spoiled' = IF t \in clear /\ t \notin owed'
                           THEN spoiled \ ({call[t].ret} \cap Addr)
                           ELSE spoiled \cup ({call[t].ret} \cap Addr)
    BY DEF Returns
  <1>5. call[t].ptr = NULL /\ ~Running(t) /\ InCall(t)
    BY <1>1 DEF Kept, MapsInv, CallInv, Returning, Running
  <1>6. /\ \A u \in Tid : u # t => call'[u] = call[u]
        /\ call'[t].ptr = NULL
        /\ ~InCall(t)' => call'[t].ret = None
        /\ InCall(t)' => /\ call'[t].ret = call[t].ret /\ Returning(t)'
                         /\ Top(t)' = call[t].stack[2] /\ Len(call[t].stack) > 1
    <2>1. CASE Len(call[t].stack) = 1 /\ call'[t] = Idle
      BY <1>2, <2>1 DEF Returned, Idle, InCall
    <2>2. CASE /\ Len(call[t].stack) > 1
               /\ InCall(t)' /\ Returning(t)'
               /\ call'[t].ret = call[t].ret /\ call'[t].ptr = call[t].ptr
               /\ \A i \in 1..(Len(call[t].stack) - 1) :
                      call'[t].stack[i] = call[t].stack[i + 1]
      <3>1. Len(call[t].stack) \in Nat
        BY <1>2 DEF Returned
      <3>2. call'[t].stack[1] = call[t].stack[2]
        BY <2>2, <3>1
      <3> QED
        BY <1>2, <1>5, <2>2, <3>2 DEF Returned, Top
    <2> QED
      BY <1>2, <2>1, <2>2 DEF Returned
  <1>7. \A a \in Addr : Holds(t, a) <=> a = call[t].ret
    BY <1>5, Words DEF Holds
  <1>8. \A a \in Addr : Holds(t, a)' <=> InCall(t)' /\ a = call[t].ret
    BY <1>6, Words DEF Holds
  <1>9. \A u \in Tid, a \in Addr : u # t =>
          /\ Holds(u, a)' <=> Holds(u, a)
          /\ Holds(u, a) => /\ a # call[t].ret /\ allocs'[a] = allocs[a]
                            /\ a \in spoiled' <=> a \in spoiled
    <2>1. \A u \in Tid, a \in Addr : u # t => (Holds(u, a)' <=> Holds(u, a))
      BY <1>6 DEF Holds
    <2>2. \A u \in Tid, a \in Addr : u # t /\ Holds(u, a) => a # call[t].ret
      BY <1>7 DEF Kept, MapsInv, OwnInv
    <2> QED
      BY <1>3, <1>4, <2>1, <2>2
  <1>10. OwnInv' /\ HeldLive'
    <2>1. \A u \in Tid, a \in Addr : Holds(u, a)' => Holds(u, a)
      BY <1>7, <1>8, <1>9
    <2>2. OwnInv'
      <3> SUFFICES ASSUME NEW u \in Tid, NEW v \in Tid, NEW a \in Addr,
                          Holds(u, a)', Holds(v, a)'
                   PROVE  u = v
        BY DEF OwnInv
      <3> QED
        BY <2>1 DEF Kept, MapsInv, OwnInv
    <2>3. HeldLive'
      <3> SUFFICES ASSUME NEW u \in Tid, NEW a \in Addr, Holds(u, a)'
                   PROVE  heap'[a] # None
        BY DEF HeldLive
      <3> QED
        BY <1>1, <2>1 DEF Kept, MapsInv, HeldLive
    <2> QED
      BY <2>2, <2>3
  <1>11. SeenInv'
    <2> SUFFICES ASSUME NEW u \in Tid, u \in seen'
                 PROVE  Running(u)' /\ \A a \in Addr : call'[u].ptr = a => allocs'[a] = None
      BY DEF SeenInv
    <2>1. u # t /\ Running(u) /\ \A a \in Addr : call[u].ptr = a => allocs[a] = None
      BY <1>4, <1>5 DEF Kept, MapsInv, SeenInv
    <2> QED
      BY <1>6, <1>9, <2>1 DEF Running, InCall, Holds
  <1>12. ClearInv'
    <2> SUFFICES ASSUME NEW u \in Tid, u \in clear'
                 PROVE  /\ InCall(u)' /\ Top(u)' \in AllocFns
                        /\ Running(u)' => /\ u \in owed'
                             /\ sizes'[u] = [size |-> call'[u].size,
                                             stack_id |-> call'[u].site]
                        /\ \A a \in Addr : call'[u].ret = a =>
                              heap'[a] = IF u \in owed' THEN sizes'[u] ELSE allocs'[a]
      BY DEF ClearInv
    <2>1. u \in clear /\ (u = t => InCall(t)')
      BY <1>4
    <2>2. CASE u # t
      BY <1>1, <1>3, <1>6, <1>9, <2>1, <2>2
         DEF Kept, MapsInv, ClearInv, Holds, Running, InCall, Top
    <2>3. CASE u = t
      <3>1. /\ Top(t) \in AllocFns
            /\ \A a \in Addr : call[t].ret = a =>
                  heap[a] = IF t \in owed THEN sizes[t] ELSE allocs[a]
        BY <2>1, <2>3 DEF Kept, MapsInv, ClearInv
      <3>2. Top(t)' \in AllocFns /\ ~Running(t)'
        <4>1. ~Running(t)'
          BY <1>6, <2>1, <2>3 DEF Running, Returning
        <4> QED
          BY <1>5, <1>6, <2>1, <2>3, <3>1, <4>1, KeptCalls, TopFacts
      <3>3. \A a \in Addr : call[t].ret = a =>
              heap[a] = IF t \in owed' THEN sizes'[t] ELSE allocs'[a]
        BY <1>3, <3>1
      <3> QED
        BY <1>1, <1>6, <2>1, <2>3, <3>2, <3>3
    <2> QED
      BY <2>2, <2>3
  <1>13. GrantedInv'
    <2> SUFFICES ASSUME NEW u \in Tid, NEW a \in Addr, a \notin spoiled',
                        call'[u].ret = a, sizes'[u] # None
                 PROVE  allocs'[a] = None
      BY DEF GrantedInv
    <2>1. CASE u # t
      <3>1. call[u].ret = a /\ Holds(u, a)
        BY <1>6, <2>1 DEF Holds
      <3> QED
        BY <1>3, <1>9, <2>1, <3>1 DEF Kept, MapsInv, GrantedInv
    <2>2. CASE u = t
      <3>1. InCall(t)' /\ call[t].ret = a
        BY <1>6, <2>2, Words
      <3>2. sizes' = sizes /\ allocs' = allocs /\ spoiled' = spoiled
        BY <1>3, <1>4, <2>2, <3>1
      <3> QED
        BY <2>2, <3>1, <3>2 DEF Kept, MapsInv, GrantedInv
    <2> QED
      BY <2>1, <2>2
  <1>14. WatchedExact'
    <2> SUFFICES ASSUME NEW a \in Addr, a \notin spoiled', ~Busy(a)'
                 PROVE  allocs'[a] = heap[a]
      BY <1>1 DEF WatchedExact
    <2>1. \A u \in Tid : ~Holds(u, a)'
      BY DEF Busy
    <2>2. CASE a # call[t].ret
      <3>1. \A u \in Tid : ~Holds(u, a)
        BY <1>7, <1>9, <2>1, <2>2
      <3>2. a \notin spoiled
        BY <1>4, <2>2
      <3> QED
        BY <1>3, <2>2, <3>1, <3>2 DEF Busy, Kept, MapsInv, WatchedExact
    <2>3. CASE a = call[t].ret
      <3>1. ~InCall(t)'
        BY <1>8, <2>1, <2>3
      <3>2. t \in clear /\ t \notin owed'
        BY <1>4, <2>3, <3>1
      <3>3. heap[a] = IF t \in owed THEN sizes[t] ELSE allocs[a]
        BY <2>3, <3>2 DEF Kept, MapsInv, ClearInv
      <3> QED
        BY <1>3, <2>3, <3>2, <3>3
    <2> QED
      BY <2>2, <2>3
  <1> QED
    BY <1>1, <1>2, <1>3, <1>10, <1>11, <1>12, <1>13, <1>14 DEF MapsInv

-----------------------------------------------------------------------------
(* The theorems. *)

\* A process in which no thread is in a call satisfies the invariant.
LEMMA AttachStart == AttachInit => Kept
  <1> SUFFICES ASSUME AttachInit PROVE Kept
    OBVIOUS
  <1>1. /\ TypeOK /\ \A t \in Tid : call[t] = Idle
        /\ handed = {} /\ owed = {} /\ seen = {} /\ clear = {}
        /\ \A t \in Tid : sizes[t] = None /\ memptrs[t] = None
        /\ \A w \in Word : allocs[w] = None
        /\ \A a \in Addr : heap[a] = None
    BY DEF AttachInit, Init, TypeOK, Idle, Frame
  <1>2. \A t \in Tid : /\ ~InCall(t) /\ ~Returning(t) /\ Len(call[t].stack) = 0
                      /\ \A a \in Addr : ~Holds(t, a) /\ call[t].ret # a
    BY <1>1, Words DEF InCall, Returning, Holds, Idle
  <1>3. StackInv /\ CallInv /\ OwnInv /\ HeldLive
    BY <1>1, <1>2 DEF StackInv, CallInv, OwnInv, HeldLive
  <1>4. AddressesOnly /\ SizesOwed /\ SeenInv /\ ClearInv /\ GrantedInv /\ WatchedExact
    BY <1>1, <1>2, Words
       DEF TypeOK, AddressesOnly, Keys, SizesOwed, SeenInv, ClearInv, GrantedInv,
           WatchedExact
  <1> QED
    BY <1>1, <1>3, <1>4 DEF Kept, MapsInv

\* A program whose attachment fails, and the end of memleak, destroy the maps.
LEMMA CleanupStep ==
    ASSUME Kept, Cleanup
    PROVE  Kept'
  <1>1. /\ UNCHANGED <<call, heap>> /\ spoiled' = Addr
        /\ owed' = {} /\ handed' = {} /\ seen' = {} /\ clear' = {}
        /\ \A t \in Tid : sizes'[t] = None /\ memptrs'[t] = None
        /\ \A w \in Word : allocs'[w] = None
    BY DEF Cleanup
  <1>2. TypeOK'
    BY DEF Cleanup, Kept, TypeOK
  <1>3. StackInv' /\ CallInv' /\ OwnInv' /\ HeldLive'
    BY <1>1 DEF Kept, MapsInv, StackInv, CallInv, OwnInv, HeldLive,
                InCall, Returning, Top, Holds
  <1>4. AddressesOnly' /\ SizesOwed'
    BY <1>1, <1>2 DEF TypeOK, AddressesOnly, SizesOwed, Keys
  <1>5. SeenInv' /\ ClearInv' /\ GrantedInv' /\ WatchedExact'
    BY <1>1 DEF SeenInv, ClearInv, GrantedInv, WatchedExact
  <1> QED
    BY <1>2, <1>3, <1>4, <1>5 DEF Kept, MapsInv

\* Every step keeps the invariant: one of attach_uprobes, which touches no map,
\* or one of a thread, however far the attachment has come, or the cleanup.
LEMMA AttachStep ==
    ASSUME Recording, Kept, [AttachNext]_attachVars
    PROVE  Kept'
  <1>1. CASE UNCHANGED <<vars, history>> \/ Attach \/ Miss
    <2>1. UNCHANGED <<vars, handed, owed, seen, clear, spoiled>>
      BY <1>1 DEF Attach, Miss, history
    <2> QED
      BY <2>1 DEF vars, Kept, TypeOK, MapsInv, StackInv, CallInv, OwnInv, HeldLive,
                  AddressesOnly, SizesOwed, SeenInv, ClearInv, GrantedInv, WatchedExact,
                  InCall, Running, Returning, Top, Holds, Busy, Keys
  <1>2. ASSUME NEW t \in Tid, WatchedCall(t) \/ BlindCall(t) PROVE Kept'
    <2>1. /\ \E fn \in AllFns, size \in Sizes \cup {0}, ptr \in Addr \cup {NULL},
                site \in Int : Arrives(t, fn, size, ptr, site)
          /\ TypeOK'
      BY <1>2, WatchedArrives, BlindArrives
    <2> QED
      BY <2>1, ArriveStep DEF Kept
  <1>3. ASSUME NEW t \in Tid, Works(t) PROVE Kept'
    BY <1>3, WorksStep DEF Kept
  <1>4. ASSUME NEW t \in Tid, Returns(t) PROVE Kept'
    BY <1>4, ReturnsStep DEF Kept
  <1>5. CASE SetupFails \/ Ends
    BY <1>5, CleanupStep DEF SetupFails, Ends
  <1> QED
    BY <1>1, <1>2, <1>3, <1>4, <1>5 DEF AttachNext, attachVars

\* The types of MemleakBpf and the invariant hold in every state, for any number
\* of threads and addresses, however calls and attachments interleave.
THEOREM MapsInductive == ASSUME Recording PROVE AttachSpec => [](TypeOK /\ MapsInv)
  <1>1. Kept /\ [AttachNext]_attachVars => Kept'
    BY AttachStep
  <1>2. Kept => TypeOK /\ MapsInv
    BY DEF Kept
  <1> QED
    BY <1>1, <1>2, AttachStart, PTL DEF AttachSpec

\* What stays in sizes is what a return probe owes, at any moment of the
\* attachment: no interleaving leaves an entry behind by another way.
THEOREM OnlyOwedStays == ASSUME Recording PROVE AttachSpec => []SizesOwed
  <1>1. TypeOK /\ MapsInv => SizesOwed
    BY DEF MapsInv
  <1> QED
    BY <1>1, MapsInductive, PTL

\* A call that was watched in whole and found nothing owed sets its address
\* right, whatever went unseen before, next to it or since.
THEOREM WatchedIsExact == ASSUME Recording PROVE AttachSpec => []WatchedExact
  <1>1. TypeOK /\ MapsInv => WatchedExact
    BY DEF MapsInv
  <1> QED
    BY <1>1, MapsInductive, PTL

\* The ledger of AllocTable, with a record overwritten at a spoiled address only.
THEOREM LedgerIsSpoiled == ASSUME Recording PROVE AttachSpec => LedgerButSpoiled
  <1> DEFINE Step == \/ Ledger!TableNext
                     \/ \E a \in spoiled, v \in Info : Ledger!Overwrite(a, v)
                     \/ Cleanup
  <1>1. ASSUME Kept, [AttachNext]_attachVars PROVE [Step]_allocs
    <2>1. ASSUME NEW t \in Tid, WatchedCall(t) \/ BlindCall(t) PROVE [Step]_allocs
      <3>1. PICK fn \in AllFns, size \in Sizes \cup {0}, ptr \in Addr \cup {NULL},
                 site \in Int : Arrives(t, fn, size, ptr, site)
        BY <1>1, <2>1, WatchedArrives, BlindArrives
      <3>2. allocs' = allocs \/ allocs' = DeleteElem(allocs, ptr)
        BY <3>1 DEF Arrives, gen_free_enter
      <3>3. CASE allocs' = allocs \/ allocs[ptr] = None
        BY <1>1, <3>2, <3>3 DEF Kept, TypeOK, DeleteElem
      <3>4. CASE allocs' # allocs /\ allocs[ptr] # None
        <4>1. Ledger!Remove(ptr)
          BY <3>2, <3>4 DEF Ledger!Remove, DeleteElem
        <4> QED
          BY <4>1, Words DEF Ledger!TableNext
      <3> QED
        BY <3>3, <3>4
    <2>2. ASSUME NEW t \in Tid, Works(t) PROVE allocs' = allocs
      BY <2>2 DEF Works, Work, Grant, ReallocToNothing, Fail, Release, Unwind, kernel
    <2>3. ASSUME NEW t \in Tid, Returns(t) PROVE [Step]_allocs
      <3>1. Leaves(t)
        BY <1>1, <2>3, ReturnsLeaves
      <3>2. CASE allocs' = allocs
        BY <3>2
      <3>3. CASE allocs' # allocs
        <4>1. PICK w \in Word : /\ w = call[t].ret \/ {w, call[t].ret} \cap Addr = {}
                                /\ gen_alloc_exit2(t, w)
          BY <3>1, <3>3 DEF Leaves
        <4>2. /\ sizes[t] # None /\ w \notin {NULL, MAP_FAILED}
              /\ allocs' = [allocs EXCEPT ![w] = sizes[t]]
          BY <3>3, <4>1 DEF gen_alloc_exit2, UpdateElem
        <4>3. w \in Addr /\ w = call[t].ret /\ sizes[t] \in Info
          BY <1>1, <4>1, <4>2 DEF Word, Kept, TypeOK
        <4>4. CASE allocs[w] = None
          <5>1. Ledger!Enter(w, sizes[t])
            BY <4>2, <4>4 DEF Ledger!Enter
          <5> QED
            BY <4>1, <4>2, <4>3, <5>1 DEF Ledger!TableNext
        <4>5. CASE allocs[w] # None
          <5>1. w \in spoiled
            BY <1>1, <4>2, <4>3, <4>5 DEF Kept, MapsInv, GrantedInv
          <5>2. Ledger!Overwrite(w, sizes[t])
            BY <4>2, <4>5 DEF Ledger!Overwrite
          <5> QED
            BY <4>3, <5>1, <5>2
        <4> QED
          BY <4>4, <4>5
      <3> QED
        BY <3>2, <3>3
    <2>4. CASE UNCHANGED vars
      BY <2>4 DEF vars
    <2>5. CASE Cleanup
      BY <2>5
    <2> QED
      BY <1>1, <2>1, <2>2, <2>3, <2>4, <2>5
         DEF AttachNext, Attach, Miss, SetupFails, Ends, attachVars, vars
  <1>2. Kept /\ [AttachNext]_attachVars => Kept'
    BY AttachStep
  <1> HIDE DEF Step
  <1>3. AttachSpec => [][Step]_allocs
    BY <1>1, <1>2, AttachStart, PTL DEF AttachSpec
  <1> QED
    BY <1>3 DEF Step, LedgerButSpoiled

-----------------------------------------------------------------------------
(* The programs of attach_uprobes. *)

\* There is a program in s for the place at of fn.
Has(s, fn, at) == \E i \in DOMAIN s : s[i].fn = fn /\ s[i].at = at

\* The functions of F, if they are called, have the programs that they need in s.
Lists(s, F) ==
    /\ s \in Seq(Program)
    /\ \A fn \in F \cap Called : \A at \in Places(fn) : Has(s, fn, at)

LEMMA HasEither ==
    ASSUME NEW s \in Seq(Program), NEW r \in Seq(Program), NEW fn, NEW at,
           Has(s, fn, at) \/ Has(r, fn, at)
    PROVE  Has(s \o r, fn, at)
  <1>1. /\ \A i \in DOMAIN s : i \in DOMAIN (s \o r) /\ (s \o r)[i] = s[i]
        /\ \A i \in DOMAIN r : /\ Len(s) + i \in DOMAIN (s \o r)
                               /\ (s \o r)[Len(s) + i] = r[i]
    OBVIOUS
  <1> QED
    BY <1>1 DEF Has

LEMMA ListsJoin ==
    ASSUME NEW s, NEW r, NEW F, NEW G, Lists(s, F), Lists(r, G)
    PROVE  Lists(s \o r, F \cup G)
  <1>1. s \o r \in Seq(Program)
    BY DEF Lists
  <1>2. ASSUME NEW fn \in (F \cup G) \cap Called, NEW at \in Places(fn)
        PROVE  Has(s \o r, fn, at)
    BY HasEither DEF Lists
  <1> QED
    BY <1>1, <1>2 DEF Lists

LEMMA ListsProbe ==
    ASSUME NEW fn \in AllFns, NEW checked \in BOOLEAN
    PROVE  /\ Lists(Pair(fn, checked), {fn})
           /\ fn \in FreeFns => Lists(Enters(fn, checked), {fn})
  <1> DEFINE p(at) == [fn |-> fn, at |-> at, checked |-> checked]
  <1>1. CASE fn \in Called
    <2>1. Enters(fn, checked) = <<p("enter")>> /\ Exits(fn, checked) = <<p("exit")>>
      BY <1>1 DEF Enters, Exits, Probe
    <2>2. p("enter") \in Program /\ p("exit") \in Program
      BY DEF Program
    <2>3. /\ Enters(fn, checked) \in Seq(Program) /\ Exits(fn, checked) \in Seq(Program)
          /\ Has(Enters(fn, checked), fn, "enter") /\ Has(Exits(fn, checked), fn, "exit")
      BY <2>1, <2>2 DEF Has
    <2>4. /\ Has(Pair(fn, checked), fn, "enter") /\ Has(Pair(fn, checked), fn, "exit")
          /\ Pair(fn, checked) \in Seq(Program)
      BY <2>3, HasEither DEF Pair
    <2> QED
      BY <2>3, <2>4 DEF Lists, Places
  <1>2. CASE fn \notin Called
    <2>1. /\ Exits(fn, checked) = <<>>
          /\ Enters(fn, checked) \in {<<>>, <<p("enter")>>}
      BY <1>2 DEF Enters, Exits, Probe
    <2>2. <<>> \in Seq(Program) /\ p("enter") \in Program
      BY DEF Program
    <2>3. Enters(fn, checked) \in Seq(Program) /\ Exits(fn, checked) \in Seq(Program)
      <3>1. <<p("enter")>> \in Seq(Program)
        <4> HIDE DEF p
        <4> QED
          BY <2>2
      <3> QED
        BY <2>1, <2>2, <3>1
    <2>4. Pair(fn, checked) \in Seq(Program)
      BY <2>3 DEF Pair
    <2> QED
      BY <1>2, <2>3, <2>4 DEF Lists
  <1> QED
    BY <1>1, <1>2

\* attach_uprobes has a program for every function that memleak knows, and for
\* the return of every allocation.
LEMMA ProgramsComplete == Lists(Programs, AllFns)
  <1> DEFINE P(fn, checked) == Lists(Pair(fn, checked), {fn})
             E(fn, checked) == Lists(Enters(fn, checked), {fn})
             c3 == Pair("malloc", TRUE) \o Pair("calloc", TRUE) \o Pair("realloc", TRUE)
             c6 == c3 \o Pair("mmap", TRUE) \o Pair("mremap", TRUE)
                   \o Pair("posix_memalign", TRUE)
             c9 == c6 \o Pair("memalign", TRUE) \o Enters("free", TRUE)
                   \o Enters("munmap", TRUE)
             x3 == Pair("operator_new", ~StdCxxLoaded) \o Pair("operator_new_array", FALSE)
                   \o Enters("operator_delete", FALSE)
  <1>1. /\ P("malloc", TRUE) /\ P("calloc", TRUE) /\ P("realloc", TRUE) /\ P("mmap", TRUE)
        /\ P("mremap", TRUE) /\ P("posix_memalign", TRUE) /\ P("memalign", TRUE)
        /\ P("valloc", FALSE) /\ P("pvalloc", FALSE) /\ P("aligned_alloc", FALSE)
        /\ P("operator_new", ~StdCxxLoaded) /\ P("operator_new_array", FALSE)
    BY ListsProbe DEF AllFns, AllocFns, SizeFns, MoveFns
  <1>2. /\ E("free", TRUE) /\ E("munmap", TRUE) /\ E("operator_delete", FALSE)
        /\ E("operator_delete_sized", FALSE) /\ E("operator_delete_array", FALSE)
        /\ E("operator_delete_array_sized", FALSE)
    BY ListsProbe DEF AllFns, FreeFns
  <1>3. Lists(c3, {"malloc"} \cup {"calloc"} \cup {"realloc"})
    BY <1>1, ListsJoin
  <1> HIDE DEF c3
  <1>4. Lists(c6, {"malloc"} \cup {"calloc"} \cup {"realloc"} \cup {"mmap"} \cup {"mremap"}
                  \cup {"posix_memalign"})
    BY <1>1, <1>3, ListsJoin
  <1> HIDE DEF c6
  <1>5. Lists(c9, {"malloc"} \cup {"calloc"} \cup {"realloc"} \cup {"mmap"} \cup {"mremap"}
                  \cup {"posix_memalign"} \cup {"memalign"} \cup {"free"} \cup {"munmap"})
    BY <1>1, <1>2, <1>4, ListsJoin
  <1> HIDE DEF c9
  <1>6. Lists(CPrograms,
              {"malloc"} \cup {"calloc"} \cup {"realloc"} \cup {"mmap"} \cup {"mremap"}
              \cup {"posix_memalign"} \cup {"memalign"} \cup {"free"} \cup {"munmap"}
              \cup {"valloc"} \cup {"pvalloc"} \cup {"aligned_alloc"})
    BY <1>1, <1>5, ListsJoin DEF c3, c6, c9, CPrograms
  <1>7. Lists(x3, {"operator_new"} \cup {"operator_new_array"} \cup {"operator_delete"})
    BY <1>1, <1>2, ListsJoin
  <1> HIDE DEF x3
  <1>8. Lists(CxxPrograms,
              {"operator_new"} \cup {"operator_new_array"} \cup {"operator_delete"}
              \cup {"operator_delete_sized"} \cup {"operator_delete_array"}
              \cup {"operator_delete_array_sized"})
    BY <1>2, <1>7, ListsJoin DEF x3, CxxPrograms
  <1> DEFINE F == {"malloc"} \cup {"calloc"} \cup {"realloc"} \cup {"mmap"} \cup {"mremap"}
                  \cup {"posix_memalign"} \cup {"memalign"} \cup {"free"} \cup {"munmap"}
                  \cup {"valloc"} \cup {"pvalloc"} \cup {"aligned_alloc"}
             G == {"operator_new"} \cup {"operator_new_array"} \cup {"operator_delete"}
                  \cup {"operator_delete_sized"} \cup {"operator_delete_array"}
                  \cup {"operator_delete_array_sized"}
  <1>9. AllFns = F \cup G
    BY DEF AllFns, AllocFns, SizeFns, MoveFns, FreeFns
  <1> HIDE DEF F, G
  <1>10. Lists(CPrograms, F) /\ Lists(CxxPrograms, G)
    BY <1>6, <1>8 DEF F, G
  <1>11. Lists(Programs, F \cup G)
    BY <1>10, ListsJoin DEF Programs
  <1> QED
    BY <1>9, <1>11

-----------------------------------------------------------------------------
(* The types, whatever fails and whatever the process asks for. *)

\* A call begins by entering a function, whether its program is attached or not.
Begun(t, fn, size, ptr, site) == Enter(t, fn, size, ptr, site) /\ Begins(t, fn)

\* What entering a function does to the stacks of calls.
LEMMA EnterStack ==
    ASSUME TypeOK, NEW t \in Tid, NEW fn \in AllFns, NEW size, NEW ptr, NEW site,
           Enter(t, fn, size, ptr, site)
    PROVE  /\ call'[t].stack = <<fn>> \o call[t].stack
           /\ \A u \in Tid : u # t => call'[u] = call[u]
           /\ fn \in Called
  <1>1. call[t] \in Frame /\ t \in DOMAIN call
    BY DEF TypeOK
  <1>2. CASE /\ ~InCall(t) /\ fn \in Fns
             /\ call' = [call EXCEPT ![t] = [stack |-> <<fn>>, size |-> size,
                                 site |-> site, ptr |-> ptr, ret |-> None]]
    <2>1. call'[t].stack = <<fn>> /\ call[t].stack = <<>>
      BY <1>1, <1>2 DEF InCall
    <2>2. <<fn>> \o <<>> = <<fn>>
      OBVIOUS
    <2>3. \A u \in Tid : u # t => call'[u] = call[u]
      BY <1>2 DEF TypeOK
    <2> QED
      BY <1>2, <2>1, <2>2, <2>3 DEF Called
  <1>3. CASE /\ <<Top(t), fn>> \in Delegates
             /\ call' = [call EXCEPT ![t].stack = <<fn>> \o @]
    <2>1. call'[t] = [call[t] EXCEPT !.stack = <<fn>> \o call[t].stack]
      BY <1>1, <1>3
    <2>2. call'[t].stack = <<fn>> \o call[t].stack
      BY <1>1, <2>1 DEF Frame
    <2>3. \A u \in Tid : u # t => call'[u] = call[u]
      BY <1>3 DEF TypeOK
    <2>4. fn \in Called
      <3>1. <<Top(t), fn>>[2] = fn
        OBVIOUS
      <3> QED
        BY <1>3, <3>1 DEF Called
    <2> QED
      BY <2>2, <2>3, <2>4
  <1> QED
    BY <1>2, <1>3 DEF Enter, Delegating

\* A call that a program watches begins, and so does one that none watches.
LEMMA CallBegins ==
    ASSUME TypeOK, NEW t \in Tid, WatchedCall(t) \/ BlindCall(t)
    PROVE  /\ TypeOK'
           /\ \E fn \in AllFns, size \in Sizes \cup {0}, ptr \in Addr \cup {NULL},
                 site \in Int : Begun(t, fn, size, ptr, site)
  <1> DEFINE Goal == \E fn \in AllFns, size \in Sizes \cup {0}, ptr \in Addr \cup {NULL},
                        site \in Int : Begun(t, fn, size, ptr, site)
  <1>1. CASE WatchedCall(t)
    <2>1. EnterProbe(t) /\ TypeOK'
      <3>1. EnterProbe(t)
        BY <1>1 DEF WatchedCall
      <3> QED
        BY <3>1, TypeStep DEF Next
    <2>2. ASSUME NEW fn \in AllFns, NEW size \in Sizes \cup {0}, NEW site \in Int,
                 NEW ptr \in Addr \cup {NULL}, Enter(t, fn, size, ptr, site)
          PROVE  Goal
      <3>1. call'[t].stack = <<fn>> \o call[t].stack /\ call[t].stack \in Seq(AllFns)
        BY <2>2, EnterStack DEF TypeOK, Frame
      <3>2. call'[t].stack[1] = fn
        BY <3>1, PushStack
      <3>3. Begins(t, fn)
        BY <1>1, <3>2 DEF WatchedCall
      <3> QED
        BY <2>2, <3>3 DEF Begun
    <2> HIDE DEF Goal
    <2>3. ASSUME alloc_enter(t) PROVE Goal
      <3>1. PICK fn \in SizeFns, size \in Sizes, site \in StackIds :
              Enter(t, fn, size, NULL, site)
        BY <2>3 DEF alloc_enter
      <3>2. fn \in AllFns /\ site \in Int
        BY Kinds, DataAssumption DEF AllFns
      <3> QED
        BY <2>1, <2>2, <3>1, <3>2
    <2>4. ASSUME realloc_enter(t) PROVE Goal
      <3>1. PICK fn \in MoveFns, size \in Sizes, site \in StackIds,
                 ptr \in Addr \cup {NULL} : Enter(t, fn, size, ptr, site)
        BY <2>4 DEF realloc_enter
      <3>2. fn \in AllFns /\ site \in Int
        BY Kinds, DataAssumption DEF AllFns
      <3> QED
        BY <2>1, <2>2, <3>1, <3>2
    <2>5. ASSUME posix_memalign_enter(t) PROVE Goal
      <3>1. PICK size \in Sizes, site \in StackIds :
              Enter(t, "posix_memalign", size, NULL, site)
        BY <2>5 DEF posix_memalign_enter
      <3>2. "posix_memalign" \in AllFns /\ site \in Int
        BY Kinds, DataAssumption DEF AllFns
      <3> QED
        BY <2>1, <2>2, <3>1, <3>2
    <2>6. ASSUME free_enter(t) PROVE Goal
      <3>1. PICK fn \in FreeFns, ptr \in Addr \cup {NULL} : Enter(t, fn, 0, ptr, 0)
        BY <2>6 DEF free_enter
      <3>2. fn \in AllFns /\ 0 \in Int /\ 0 \in Sizes \cup {0}
        BY DEF AllFns
      <3> QED
        BY <2>1, <2>2, <3>1, <3>2
    <2>7. Goal
      BY <2>1, <2>3, <2>4, <2>5, <2>6 DEF EnterProbe
    <2> QED
      BY <2>1, <2>7 DEF Goal
  <1>2. CASE BlindCall(t)
    <2>1. PICK fn \in AllFns, size \in Sizes \cup {0}, ptr \in Addr \cup {NULL},
               site \in Int : Begun(t, fn, size, ptr, site)
      <3>1. CASE \E fn \in AllocFns \cap Called, size \in Sizes, site \in StackIds,
                    ptr \in Addr \cup {NULL} :
                   Enter(t, fn, size, ptr, site) /\ Begins(t, fn)
        <4>1. AllocFns \subseteq AllFns /\ StackIds \subseteq Int
          BY DataAssumption DEF AllFns
        <4> QED
          BY <3>1, <4>1 DEF Begun
      <3>2. CASE \E fn \in FreeFns \cap Called, ptr \in Addr \cup {NULL} :
                   Enter(t, fn, 0, ptr, 0) /\ Begins(t, fn)
        <4>1. FreeFns \subseteq AllFns /\ 0 \in Int /\ 0 \in Sizes \cup {0}
          BY DEF AllFns
        <4> QED
          BY <3>2, <4>1 DEF Begun
      <3> QED
        BY <1>2, <3>1, <3>2 DEF BlindCall
    <2>2. call' \in [Tid -> Frame]
      BY <2>1, EnterType DEF Begun
    <2>3. TypeOK'
      BY <1>2, <2>2 DEF BlindCall, kernel, TypeOK
    <2> QED
      BY <2>1, <2>3
  <1> QED
    BY <1>1, <1>2

\* The work of a function leaves the stack of its call, or takes the call off.
LEMMA WorkStack ==
    ASSUME TypeOK, NEW t \in Tid, Work(t)
    PROVE  /\ \A u \in Tid : u # t => call'[u] = call[u]
           /\ call'[t].stack = IF InCall(t)' THEN call[t].stack ELSE <<>>
  <1>1. call[t] \in Frame /\ t \in DOMAIN call
    BY DEF TypeOK
  <1>2. ASSUME NEW r, call' = [call EXCEPT ![t].ret = r, ![t].ptr = NULL]
        PROVE  /\ \A u \in Tid : u # t => call'[u] = call[u]
               /\ call'[t].stack = call[t].stack
    <2>1. call'[t] = [call[t] EXCEPT !.ret = r, !.ptr = NULL]
      BY <1>1, <1>2
    <2>2. call'[t].stack = call[t].stack
      BY <1>1, <2>1 DEF Frame
    <2>3. \A u \in Tid : u # t => call'[u] = call[u]
      BY <1>2 DEF TypeOK
    <2> QED
      BY <2>2, <2>3
  <1>3. CASE \E r : call' = [call EXCEPT ![t].ret = r, ![t].ptr = NULL]
    BY <1>2, <1>3 DEF InCall
  <1>4. CASE call' = [call EXCEPT ![t] = Idle]
    <2>1. call'[t] = Idle /\ \A u \in Tid : u # t => call'[u] = call[u]
      BY <1>1, <1>4 DEF TypeOK
    <2> QED
      BY <2>1 DEF Idle, InCall
  <1> QED
    BY <1>3, <1>4 DEF Work, Grant, ReallocToNothing, Fail, Release, Unwind

\* A return takes the innermost function off the stack.
LEMMA ReturnStack ==
    ASSUME TypeOK, NEW t \in Tid, Returning(t), Return(t)
    PROVE  /\ \A u \in Tid : u # t => call'[u] = call[u]
           /\ Len(call[t].stack) \in Nat \ {0}
           /\ Len(call'[t].stack) = Len(call[t].stack) - 1
  <1>1. /\ call[t] \in Frame /\ t \in DOMAIN call
        /\ call[t].stack \in Seq(AllFns) /\ call[t].stack # <<>>
    BY DEF TypeOK, Returning, InCall, Frame
  <1>2. Len(call[t].stack) \in Nat \ {0} /\ Len(Tail(call[t].stack)) = Len(call[t].stack) - 1
    BY <1>1, PopStack
  <1>3. CASE Len(call[t].stack) = 1
    <2>1. call'[t] = Idle /\ \A u \in Tid : u # t => call'[u] = call[u]
      BY <1>1, <1>3 DEF Return, TypeOK
    <2>2. call'[t].stack = <<>> /\ Len(<<>>) = 0
      BY <2>1 DEF Idle
    <2> QED
      BY <1>3, <2>1, <2>2
  <1>4. CASE Len(call[t].stack) # 1
    <2>1. /\ call'[t] = [call[t] EXCEPT !.stack = Tail(call[t].stack)]
          /\ \A u \in Tid : u # t => call'[u] = call[u]
      BY <1>1, <1>4 DEF Return, TypeOK
    <2>2. call'[t].stack = Tail(call[t].stack)
      BY <1>1, <2>1 DEF Frame
    <2> QED
      BY <1>2, <2>1, <2>2
  <1> QED
    BY <1>3, <1>4

\* Whether a return probe runs or not, the innermost function returns.
LEMMA ReturnsReturn ==
    ASSUME TypeOK, NEW t \in Tid, Returns(t)
    PROVE  Returning(t) /\ Return(t) /\ TypeOK'
  <1>1. Returning(t)
    BY DEF Returns
  <1>2. CASE TakesOver(t)
    <2>1. ExitProbe(t) /\ Return(t)
      BY <1>2 DEF TakesOver, ExitProbe, alloc_exit, posix_memalign_exit
    <2> QED
      BY <1>1, <2>1, TypeStep DEF Next
  <1>3. CASE Return(t) /\ UNCHANGED <<kernel, heap>>
    <2>1. call' \in [Tid -> Frame]
      BY <1>1, <1>3, ReturnType DEF Returning
    <2> QED
      BY <1>1, <1>3, <2>1 DEF kernel, TypeOK
  <1> QED
    BY <1>2, <1>3 DEF Returns

\* Every step keeps the types: a frame more on a stack is a return probe more
\* decided, a frame less one less.
LEMMA AttachTypeStep ==
    ASSUME AttachTypeOK, [AttachNext]_attachVars
    PROVE  AttachTypeOK'
  <1>1. /\ TypeOK /\ todo \in Seq(Program) /\ links \subseteq AllFns \X {"enter", "exit"}
        /\ armed \in [Tid -> Seq(BOOLEAN)]
        /\ \A t \in Tid : Len(armed[t]) = Len(call[t].stack)
        /\ missed \in BOOLEAN /\ whole \subseteq Tid /\ handed \subseteq Tid
        /\ owed \subseteq Tid /\ seen \subseteq Tid /\ clear \subseteq Tid
        /\ spoiled \subseteq Addr
    BY DEF AttachTypeOK
  <1>2. CASE Attach \/ Miss
    <2>1. todo # <<>>
      BY <1>2 DEF Attach, Miss
    <2>2. Head(todo) \in Program /\ Tail(todo) \in Seq(Program)
      BY <1>1, <2>1
    <2>3. <<Head(todo).fn, Head(todo).at>> \in AllFns \X {"enter", "exit"}
      BY <2>2 DEF Program
    <2>4. /\ UNCHANGED vars /\ armed' = armed /\ whole' = whole /\ handed' = handed
          /\ owed' = owed /\ seen' = seen /\ clear' = clear /\ spoiled' = spoiled
      BY <1>2 DEF Attach, Miss, history
    <2>5. /\ TypeOK' /\ armed' \in [Tid -> Seq(BOOLEAN)]
          /\ \A t \in Tid : Len(armed'[t]) = Len(call'[t].stack)
          /\ whole' \subseteq Tid /\ handed' \subseteq Tid /\ owed' \subseteq Tid
          /\ seen' \subseteq Tid /\ clear' \subseteq Tid /\ spoiled' \subseteq Addr
      BY <1>1, <2>4 DEF vars, TypeOK
    <2>6. links' \in {links, links \cup {<<Head(todo).fn, Head(todo).at>>}}
      BY <1>2 DEF Attach, Miss
    <2>7. todo' = Tail(todo) /\ missed' \in {missed, TRUE}
      BY <1>2 DEF Attach, Miss, history
    <2>8. links' \subseteq AllFns \X {"enter", "exit"}
      BY <1>1, <2>3, <2>6
    <2> QED
      BY <1>1, <2>2, <2>5, <2>7, <2>8 DEF AttachTypeOK
  <1>3. ASSUME NEW t \in Tid, WatchedCall(t) \/ BlindCall(t) PROVE AttachTypeOK'
    <2>1. TypeOK'
      BY <1>1, <1>3, CallBegins
    <2>2. PICK fn \in AllFns, size \in Sizes \cup {0}, ptr \in Addr \cup {NULL},
               site \in Int : Begun(t, fn, size, ptr, site)
      BY <1>1, <1>3, CallBegins
    <2>3. Begins(t, fn) /\ Enter(t, fn, size, ptr, site)
      BY <2>2 DEF Begun
    <2>4. /\ call'[t].stack = <<fn>> \o call[t].stack
          /\ \A u \in Tid : u # t => call'[u] = call[u]
          /\ call[t].stack \in Seq(AllFns)
      BY <1>1, <2>3, EnterStack DEF TypeOK, Frame
    <2>5. armed' = [armed EXCEPT ![t] = <<Attached(fn, "exit")>> \o @]
      BY <2>3 DEF Begins
    <2>6. Attached(fn, "exit") \in BOOLEAN
      BY DEF Attached
    <2>7. /\ Len(call'[t].stack) = Len(call[t].stack) + 1
          /\ <<Attached(fn, "exit")>> \o armed[t] \in Seq(BOOLEAN)
          /\ Len(<<Attached(fn, "exit")>> \o armed[t]) = Len(armed[t]) + 1
      BY <1>1, <2>4, <2>6, PushStack
    <2>8. /\ armed' \in [Tid -> Seq(BOOLEAN)]
          /\ \A u \in Tid : Len(armed'[u]) = Len(call'[u].stack)
      BY <1>1, <2>4, <2>5, <2>7
    <2>9. /\ todo' = todo /\ links' = links /\ missed' = missed /\ spoiled' = spoiled
          /\ whole' \subseteq Tid /\ handed' \subseteq Tid /\ owed' \subseteq Tid
          /\ seen' \subseteq Tid /\ clear' \subseteq Tid
      BY <1>1, <2>3 DEF Begins, setup
    <2> QED
      BY <1>1, <2>1, <2>8, <2>9 DEF AttachTypeOK
  <1>4. ASSUME NEW t \in Tid, Works(t) PROVE AttachTypeOK'
    <2>1. Work(t) /\ TypeOK'
      BY <1>1, <1>4, TypeStep DEF Works, Next
    <2>2. /\ \A u \in Tid : u # t => call'[u] = call[u]
          /\ call'[t].stack = IF InCall(t)' THEN call[t].stack ELSE <<>>
      BY <1>1, <2>1, WorkStack
    <2>3. armed' = IF InCall(t)' THEN armed ELSE [armed EXCEPT ![t] = <<>>]
      BY <1>4 DEF Works
    <2>4. <<>> \in Seq(BOOLEAN) /\ Len(<<>>) = 0
      OBVIOUS
    <2>5. /\ armed' \in [Tid -> Seq(BOOLEAN)]
          /\ \A u \in Tid : Len(armed'[u]) = Len(call'[u].stack)
      BY <1>1, <2>2, <2>3, <2>4
    <2>6. call[t].ptr \in Addr \cup {NULL}
      BY <1>1 DEF TypeOK, Frame
    <2>7. /\ todo' = todo /\ links' = links /\ missed' = missed
          /\ whole' \subseteq Tid /\ handed' \subseteq Tid /\ owed' \subseteq Tid
          /\ seen' \subseteq Tid /\ clear' \subseteq Tid /\ spoiled' \subseteq Addr
      BY <1>1, <1>4, <2>6 DEF Works, setup
    <2> QED
      BY <1>1, <2>1, <2>5, <2>7 DEF AttachTypeOK
  <1>5. ASSUME NEW t \in Tid, Returns(t) PROVE AttachTypeOK'
    <2>1. Returning(t) /\ Return(t) /\ TypeOK'
      BY <1>1, <1>5, ReturnsReturn
    <2>2. /\ \A u \in Tid : u # t => call'[u] = call[u]
          /\ Len(call[t].stack) \in Nat \ {0}
          /\ Len(call'[t].stack) = Len(call[t].stack) - 1
      BY <1>1, <2>1, ReturnStack
    <2>3. armed' = [armed EXCEPT ![t] = Tail(@)]
      BY <1>5 DEF Returns
    <2>4. armed[t] # <<>>
      <3>1. Len(armed[t]) # 0 /\ Len(<<>>) = 0
        BY <1>1, <2>2
      <3> QED
        BY <3>1
    <2>5. Tail(armed[t]) \in Seq(BOOLEAN) /\ Len(Tail(armed[t])) = Len(armed[t]) - 1
      BY <1>1, <2>4, PopStack
    <2>6. /\ armed' \in [Tid -> Seq(BOOLEAN)]
          /\ \A u \in Tid : Len(armed'[u]) = Len(call'[u].stack)
      BY <1>1, <2>2, <2>3, <2>5
    <2>7. /\ todo' = todo /\ links' = links /\ missed' = missed
          /\ whole' \subseteq Tid /\ handed' \subseteq Tid /\ owed' \subseteq Tid
          /\ seen' \subseteq Tid /\ clear' \subseteq Tid /\ spoiled' \subseteq Addr
      BY <1>1, <1>5 DEF Returns, TakesOver, setup
    <2> QED
      BY <1>1, <2>1, <2>6, <2>7 DEF AttachTypeOK
  <1>6. CASE UNCHANGED attachVars
    BY <1>1, <1>6 DEF attachVars, vars, setup, history, AttachTypeOK, TypeOK
  <1>7. CASE Cleanup
    <2>1. TypeOK'
      BY <1>1, <1>7 DEF Cleanup, TypeOK
    <2>2. <<>> \in Seq(Program)
      OBVIOUS
    <2>3. /\ todo' = <<>> /\ links' = {} /\ missed' = TRUE
          /\ armed' = armed /\ call' = call
          /\ whole' = {} /\ handed' = {} /\ owed' = {} /\ seen' = {} /\ clear' = {}
          /\ spoiled' = Addr
      BY <1>7 DEF Cleanup
    <2> QED
      BY <1>1, <2>1, <2>2, <2>3 DEF AttachTypeOK
  <1> QED
    BY <1>2, <1>3, <1>4, <1>5, <1>6, <1>7 DEF AttachNext, SetupFails, Ends

\* No program is attached, and none that attach_uprobes has is malformed.
LEMMA AttachTypeStart == AttachInit => AttachTypeOK
  <1> SUFFICES ASSUME AttachInit PROVE AttachTypeOK
    OBVIOUS
  <1>1. TypeOK /\ \A t \in Tid : call[t] = Idle
    BY DEF AttachInit, Init, TypeOK, Idle, Frame
  <1>2. todo \in Seq(Program)
    BY ProgramsComplete DEF AttachInit, Lists
  <1>3. Len(<<>>) = 0 /\ <<>> \in Seq(BOOLEAN)
    OBVIOUS
  <1>4. /\ armed \in [Tid -> Seq(BOOLEAN)]
        /\ \A t \in Tid : Len(armed[t]) = Len(call[t].stack)
    BY <1>1, <1>3 DEF AttachInit, Idle
  <1> QED
    BY <1>1, <1>2, <1>4 DEF AttachInit, AttachTypeOK

\* The maps, the calls, the programs and the links keep their types, and every
\* frame of a call has its return probe decided, in every execution: under no
\* assumption on what is requested, fails or finds a map full.
THEOREM AttachTyped == AttachSpec => []AttachTypeOK
  <1> QED
    BY AttachTypeStart, AttachTypeStep, PTL DEF AttachSpec

-----------------------------------------------------------------------------
(* Once attach_uprobes is through. *)

AllKept == AttachTypeOK /\ AttachInv

LEMMA AllKeptHas == AllKept => Kept /\ CallsOK /\ AttachTypeOK /\ SetupInv /\ WholeInv
  BY KeptCalls DEF AllKept, AttachTypeOK, AttachInv, Kept

\* A function that the process calls is one that memleak knows.
LEMMA CalledKnown == Called \subseteq AllFns
  <1>1. \A d \in Delegates : d[2] \in AllFns
    <2>1. \A d \in (AllocFns \X SizeFns) \cup (FreeFns \X FreeFns) :
            d[2] \in SizeFns \cup FreeFns
      OBVIOUS
    <2> QED
      BY <2>1, FnsAssumption, Kinds DEF AllFns
  <1> QED
    BY <1>1, FnsAssumption DEF Called

\* attach_uprobes has every program that is needed before it starts.
LEMMA SetupStart == AttachInit => SetupInv
  BY ProgramsComplete, CalledKnown DEF AttachInit, Lists, Has, SetupInv

\* A program is taken off the list by attaching it, or the attachment has failed.
LEMMA SetupStep ==
    ASSUME AttachTypeOK, SetupInv, [AttachNext]_attachVars
    PROVE  SetupInv'
  <1>1. CASE Miss \/ SetupFails \/ Ends
    BY <1>1 DEF Miss, SetupFails, Ends, Cleanup, SetupInv
  <1>2. CASE Attach
    <2> SUFFICES ASSUME ~missed, NEW fn \in Called, NEW at \in Places(fn)
                 PROVE  \/ <<fn, at>> \in links'
                        \/ \E i \in DOMAIN todo' : todo'[i].fn = fn /\ todo'[i].at = at
      BY <1>2 DEF Attach, history, SetupInv, Attached, Places
    <2>1. /\ todo \in Seq(Program) /\ todo # <<>> /\ todo' = Tail(todo)
          /\ links' = links \cup {<<todo[1].fn, todo[1].at>>}
      BY <1>2 DEF Attach, AttachTypeOK
    <2>2. CASE <<fn, at>> \in links
      BY <2>1, <2>2
    <2>3. CASE \E i \in DOMAIN todo : todo[i].fn = fn /\ todo[i].at = at
      <3>1. PICK i \in DOMAIN todo : todo[i].fn = fn /\ todo[i].at = at
        BY <2>3
      <3>2. CASE i = 1
        BY <2>1, <3>1, <3>2
      <3>3. CASE i # 1
        <4>1. i \in 1..Len(todo) /\ Len(todo) \in Nat
          BY <2>1
        <4>2. i - 1 \in 1..(Len(todo) - 1) /\ (i - 1) + 1 = i
          BY <3>3, <4>1
        <4>3. i - 1 \in DOMAIN todo' /\ todo'[i - 1] = todo[i]
          BY <2>1, <4>2, PopStack
        <4> QED
          BY <3>1, <4>3
      <3> QED
        BY <3>2, <3>3
    <2> QED
      BY <2>2, <2>3 DEF SetupInv, Attached
  <1>3. CASE todo' = todo /\ links' = links /\ missed' = missed
    <2> SUFFICES ASSUME ~missed, NEW fn \in Called, NEW at \in Places(fn)
                 PROVE  \/ <<fn, at>> \in links'
                        \/ \E i \in DOMAIN todo' : todo'[i].fn = fn /\ todo'[i].at = at
      BY <1>3 DEF SetupInv, Attached, Places
    <2>1. \/ <<fn, at>> \in links
          \/ \E i \in DOMAIN todo : todo[i].fn = fn /\ todo[i].at = at
      BY DEF SetupInv, Attached
    <2> QED
      BY <1>3, <2>1
  <1>4. ASSUME NEW t \in Tid, WatchedCall(t) \/ BlindCall(t)
        PROVE  todo' = todo /\ links' = links /\ missed' = missed
    BY <1>4 DEF WatchedCall, BlindCall, Begins, setup
  <1>5. ASSUME NEW t \in Tid, Works(t) \/ Returns(t)
        PROVE  todo' = todo /\ links' = links /\ missed' = missed
    BY <1>5 DEF Works, Returns, setup
  <1> QED
    BY <1>1, <1>2, <1>3, <1>4, <1>5 DEF AttachNext, attachVars, setup, history

\* When attach_uprobes is through, everything that the process calls is watched.
LEMMA AllAttached ==
    ASSUME SetupInv, todo = <<>>, ~missed, NEW fn \in Called
    PROVE  Attached(fn, "enter") /\ (fn \in AllocFns => Attached(fn, "exit"))
  <1>1. "enter" \in Places(fn) /\ (fn \in AllocFns => "exit" \in Places(fn))
    BY Kinds DEF Places
  <1>2. DOMAIN todo = {}
    OBVIOUS
  <1> QED
    BY <1>1, <1>2 DEF SetupInv

\* What WholeInv says of one thread.
WholeCall(t) ==
    /\ todo = <<>> /\ ~missed /\ InCall(t)
    /\ \A i \in DOMAIN call[t].stack :
          /\ call[t].stack[i] \in Called
          /\ call[t].stack[i] \in AllocFns => armed[t][i]
    /\ call[t].ptr # NULL => t \in seen
    /\ Returning(t) /\ Top(t) \in NewFns /\ (\E g \in SizeFns : <<Top(t), g>> \in Delegates)
          => sizes[t] = None

LEMMA WholeEach == WholeInv <=> \A t \in whole : WholeCall(t)
  BY DEF WholeInv, WholeCall

\* The call of a thread that does not move stays as it is.
LEMMA WholeStays ==
    ASSUME NEW u \in Tid, WholeCall(u), call'[u] = call[u], armed'[u] = armed[u],
           sizes'[u] = sizes[u], u \in seen' <=> u \in seen,
           todo' = todo, missed' = missed
    PROVE  WholeCall(u)'
  BY DEF WholeCall, InCall, Returning, Top

\* A call that begins now is seen by the program at its entry, and its return
\* will be; so is the call of a function that another hands its work to.
LEMMA WholeBegins ==
    ASSUME Recording, AllKept, NEW t \in Tid, WatchedCall(t) \/ BlindCall(t)
    PROVE  WholeInv'
  <1>1. PICK fn \in AllFns, size \in Sizes \cup {0}, ptr \in Addr \cup {NULL},
             site \in Int : Arrives(t, fn, size, ptr, site)
    BY AllKeptHas, WatchedArrives, BlindArrives
  <1>2. Enter(t, fn, size, ptr, site) /\ Begins(t, fn) /\ Kept /\ TypeOK
    BY <1>1, AllKeptHas DEF Arrives, Kept
  <1>3. /\ call'[t].stack = <<fn>> \o call[t].stack
        /\ \A u \in Tid : u # t => call'[u] = call[u]
        /\ fn \in Called
    BY <1>2, EnterStack
  <1>4. /\ InCall(t)' /\ ~Returning(t)'
        /\ \A u \in Tid : u # t => sizes'[u] = sizes[u]
    <2>1. Entered(t, fn, size, ptr)
      BY <1>1, <1>2, ArriveCall
    <2>2. \A u \in Tid : u # t => sizes'[u] = sizes[u]
      BY <1>1, <1>2, ArriveSizes
    <2> QED
      BY <2>1, <2>2 DEF Entered, Returning
  <1>5. /\ armed \in [Tid -> Seq(BOOLEAN)] /\ Len(armed[t]) = Len(call[t].stack)
        /\ call[t].stack \in Seq(AllFns) /\ WholeInv /\ SetupInv /\ whole \subseteq Tid
    BY AllKeptHas DEF AttachTypeOK, TypeOK, Frame
  <1>6. /\ armed' = [armed EXCEPT ![t] = <<Attached(fn, "exit")>> \o @]
        /\ seen' = IF Attached(fn, "enter") /\ call'[t].ptr # NULL
                   THEN seen \cup {t} ELSE seen
        /\ whole' = IF ~InCall(t) /\ todo = <<>> /\ ~missed THEN whole \cup {t} ELSE whole
        /\ todo' = todo /\ links' = links /\ missed' = missed
    BY <1>2 DEF Begins, setup
  <1>7. ASSUME NEW u \in whole', u # t PROVE WholeCall(u)'
    <2>1. u \in Tid /\ WholeCall(u)
      BY <1>5, <1>6, <1>7, WholeEach
    <2> QED
      BY <1>3, <1>4, <1>5, <1>6, <1>7, <2>1, WholeStays
  <1>8. ASSUME t \in whole' PROVE WholeCall(t)'
    <2>1. todo = <<>> /\ ~missed /\ (InCall(t) => t \in whole)
      BY <1>5, <1>6, <1>8 DEF WholeInv
    <2>2. Attached(fn, "enter") /\ (fn \in AllocFns => Attached(fn, "exit"))
      BY <1>3, <1>5, <2>1, AllAttached
    <2>3. call'[t].ptr # NULL => t \in seen'
      BY <1>6, <2>2
    <2> DEFINE n == Len(call[t].stack)
               b == Attached(fn, "exit")
    <2>4. /\ n \in Nat /\ Len(call'[t].stack) = n + 1
          /\ call'[t].stack[1] = fn
          /\ \A i \in 2..(n + 1) : call'[t].stack[i] = call[t].stack[i - 1]
          /\ DOMAIN call'[t].stack = 1..(n + 1)
      BY <1>3, <1>5, PushStack
    <2>5. armed'[t] = <<b>> \o armed[t] /\ armed[t] \in Seq(BOOLEAN) /\ b \in BOOLEAN
      BY <1>5, <1>6 DEF Attached
    <2>6. armed'[t][1] = b /\ \A i \in 2..(n + 1) : armed'[t][i] = armed[t][i - 1]
      <3> HIDE DEF b
      <3> QED
        BY <1>5, <2>5, PushStack
    <2>7. ASSUME NEW i \in DOMAIN call'[t].stack
          PROVE  /\ call'[t].stack[i] \in Called
                 /\ call'[t].stack[i] \in AllocFns => armed'[t][i]
      <3>1. CASE i = 1
        BY <1>3, <2>2, <2>4, <2>6, <3>1
      <3>2. CASE i # 1
        <4>1. i \in 2..(n + 1) /\ i - 1 \in 1..n /\ 1..n = DOMAIN call[t].stack
          <5>1. i \in 1..(n + 1) /\ n \in Nat
            BY <2>4
          <5> HIDE DEF n
          <5>2. i \in 2..(n + 1) /\ i - 1 \in 1..n
            BY <3>2, <5>1
          <5>3. 1..n = DOMAIN call[t].stack
            BY <1>5 DEF n
          <5> QED
            BY <5>2, <5>3
        <4>2. InCall(t)
          <5>1. n # 0
            BY <2>4, <4>1
          <5>2. Len(<<>>) = 0
            OBVIOUS
          <5> QED
            BY <5>1, <5>2 DEF InCall
        <4>3. WholeCall(t)
          BY <1>5, <2>1, <4>2, WholeEach
        <4>4. /\ call[t].stack[i - 1] \in Called
              /\ call[t].stack[i - 1] \in AllocFns => armed[t][i - 1]
          BY <4>1, <4>3 DEF WholeCall
        <4> QED
          BY <2>4, <2>6, <4>1, <4>4
      <3> QED
        BY <3>1, <3>2
    <2> QED
      BY <1>4, <1>6, <2>1, <2>3, <2>7 DEF WholeCall
  <1>9. \A u \in whole' : WholeCall(u)'
    BY <1>7, <1>8
  <1> QED
    BY <1>9 DEF WholeInv, WholeCall

\* A function that hands its work on does none itself: an operator new that is
\* returning has the result of a function that was probed.
LEMMA WholeWorks ==
    ASSUME AllKept, NEW t \in Tid, Works(t)
    PROVE  WholeInv'
  <1>1. Work(t) /\ Kept /\ CallsOK /\ TypeOK /\ WholeInv /\ whole \subseteq Tid
    BY AllKeptHas DEF Works, Kept, AttachTypeOK
  <1>2. Worked(t) /\ call'[t].ptr = NULL
    BY <1>1, WorkFacts, WorkBlocks
  <1>3. /\ \A u \in Tid : u # t => call'[u] = call[u]
        /\ sizes' = sizes
    BY <1>2 DEF Worked, kernel
  <1>4. /\ armed \in [Tid -> Seq(BOOLEAN)]
        /\ armed' = IF InCall(t)' THEN armed ELSE [armed EXCEPT ![t] = <<>>]
        /\ seen' = seen \ {t}
        /\ whole' = IF InCall(t)' THEN whole ELSE whole \ {t}
        /\ todo' = todo /\ missed' = missed
    BY AllKeptHas DEF Works, setup, AttachTypeOK
  <1>5. ASSUME NEW u \in whole', u # t PROVE WholeCall(u)'
    <2>1. u \in Tid /\ WholeCall(u)
      BY <1>1, <1>4, WholeEach
    <2>2. armed'[u] = armed[u] /\ (u \in seen' <=> u \in seen)
      BY <1>4, <1>5, <2>1
    <2> QED
      BY <1>3, <1>4, <1>5, <2>1, <2>2, WholeStays
  <1>6. ASSUME t \in whole' PROVE WholeCall(t)'
    <2>1. InCall(t)' /\ WholeCall(t)
      BY <1>1, <1>4, <1>6, WholeEach
    <2>2. call'[t].stack = call[t].stack /\ Executing(t) /\ armed' = armed
      BY <1>2, <1>4, <2>1 DEF Worked, InCall, Idle
    <2>3. ASSUME Top(t)' \in NewFns, NEW g \in SizeFns, <<Top(t)', g>> \in Delegates
          PROVE  FALSE
      <3>1. Top(t)' = Top(t)
        BY <2>2 DEF Top
      <3>2. call[t].ptr = NULL
        BY <1>1, <2>1, <2>3, <3>1, Kinds DEF WholeCall, CallsOK, CallInv
      <3>3. Delegating(t, g) /\ g \in AllFns
        BY <2>2, <2>3, <3>1, <3>2, Kinds DEF Delegating, Executing, AllFns
      <3> QED
        BY <2>2, <3>3 DEF Executing
    <2>4. Top(t)' = call'[t].stack[1]
      BY DEF Top
    <2>5. /\ \A i \in DOMAIN call'[t].stack :
                /\ call'[t].stack[i] \in Called
                /\ call'[t].stack[i] \in AllocFns => armed'[t][i]
          /\ todo' = <<>> /\ ~missed'
      BY <1>4, <2>1, <2>2 DEF WholeCall
    <2> QED
      BY <1>2, <2>1, <2>3, <2>5 DEF WholeCall
  <1>7. \A u \in whole' : WholeCall(u)'
    BY <1>5, <1>6
  <1> QED
    BY <1>7 DEF WholeInv, WholeCall

\* The return probe of posix_memalign goes without taking over what is owed.
GivesUp(t) == Top(t) = "posix_memalign" /\ t \in owed'

\* The return of an allocation that is watched in whole takes the request out of
\* sizes, unless that of posix_memalign gives up and still owes it.
LEMMA WholeTakes ==
    ASSUME AllKept, NEW t \in whole, Returns(t), Top(t) \in AllocFns
    PROVE  sizes'[t] = None \/ GivesUp(t)
  <1>1. /\ t \in Tid /\ WholeCall(t) /\ SetupInv /\ CallsOK /\ TypeOK
        /\ armed[t] \in Seq(BOOLEAN)
    BY AllKeptHas, WholeEach DEF AttachTypeOK
  <1>2. InCall(t) /\ Len(call[t].stack) \in Nat \ {0} /\ call[t].stack \in Seq(AllFns)
    BY <1>1, TopFacts DEF WholeCall, Frame
  <1>3. 1 \in DOMAIN call[t].stack
    BY <1>2
  <1>4. Top(t) \in Called /\ armed[t][1]
    BY <1>1, <1>3 DEF WholeCall, Top
  <1>5. ReturnProbed(t)
    <2>1. Attached(Top(t), "exit")
      BY <1>1, <1>4, AllAttached DEF WholeCall
    <2>2. Head(armed[t]) = armed[t][1]
      OBVIOUS
    <2> QED
      BY <1>4, <2>1, <2>2 DEF ReturnProbed
  <1>6. TakesOver(t)
    BY <1>5 DEF Returns
  <1>7. \A w : gen_alloc_exit2(t, w) => sizes'[t] = None
    BY <1>1 DEF gen_alloc_exit2, DeleteElem, TypeOK
  <1>8. CASE alloc_exit(t)
    BY <1>7, <1>8 DEF alloc_exit
  <1>9. ASSUME NEW faults \in Faults, posix_memalign_exit(t, faults),
               owed' = IF faults \/ t \notin handed THEN owed ELSE owed \ {t}
        PROVE  sizes'[t] = None \/ GivesUp(t)
    <2>1. Top(t) = "posix_memalign" /\ (memptrs[t] = None <=> t \notin handed)
      BY <1>1, <1>9, AllKeptHas
         DEF posix_memalign_exit, Kept, MapsInv, SizesOwed, Keys, TypeOK
    <2>2. CASE faults \/ t \notin handed
      <3>1. sizes' = sizes /\ owed' = owed
        BY <1>9, <2>1, <2>2 DEF posix_memalign_exit
      <3>2. sizes[t] # None <=> t \in owed
        BY <1>1, AllKeptHas DEF Kept, MapsInv, SizesOwed
      <3> QED
        BY <2>1, <3>1, <3>2 DEF GivesUp
    <2>3. CASE ~(faults \/ t \notin handed)
      BY <1>7, <1>9, <2>1, <2>3 DEF posix_memalign_exit
    <2> QED
      BY <2>2, <2>3
  <1> QED
    BY <1>6, <1>8, <1>9 DEF TakesOver

\* A caller finds the frames below as they were; an operator new finds that the
\* function it called has cleared its entry of sizes away.
LEMMA WholeReturns ==
    ASSUME Recording, AllKept, NEW t \in Tid, Returns(t)
    PROVE  WholeInv'
  <1>1. Kept /\ CallsOK /\ TypeOK /\ WholeInv /\ whole \subseteq Tid
    BY AllKeptHas DEF Kept, AttachTypeOK
  <1>2. Leaves(t) /\ Returning(t) /\ Return(t)
    BY <1>1, ReturnsLeaves DEF Leaves
  <1>3. Returned(t) /\ \A u \in Tid : u # t => sizes'[u] = sizes[u]
    BY <1>1, <1>2, ReturnFacts, LeaveMaps
  <1>4. \A u \in Tid : u # t => call'[u] = call[u]
    BY <1>3 DEF Returned
  <1>5. /\ armed \in [Tid -> Seq(BOOLEAN)] /\ Len(armed[t]) = Len(call[t].stack)
        /\ armed' = [armed EXCEPT ![t] = Tail(@)] /\ seen' = seen
        /\ whole' = IF InCall(t)' THEN whole ELSE whole \ {t}
        /\ todo' = todo /\ missed' = missed
    BY AllKeptHas DEF Returns, setup, AttachTypeOK
  <1>6. ASSUME NEW u \in whole', u # t PROVE WholeCall(u)'
    <2>1. u \in Tid /\ WholeCall(u)
      BY <1>1, <1>5, WholeEach
    <2> QED
      BY <1>3, <1>4, <1>5, <1>6, <2>1, WholeStays
  <1>7. ASSUME t \in whole' PROVE WholeCall(t)'
    <2> DEFINE n == Len(call[t].stack)
    <2>1. InCall(t)' /\ WholeCall(t) /\ t \in whole
      BY <1>1, <1>5, <1>7, WholeEach
    <2>2. /\ n \in Nat /\ n > 1 /\ Len(call'[t].stack) = n - 1
          /\ call'[t].ptr = call[t].ptr
          /\ \A i \in 1..(n - 1) : call'[t].stack[i] = call[t].stack[i + 1]
      BY <1>3, <2>1 DEF Returned, InCall, Idle
    <2>3. call'[t].stack \in Seq(AllFns) /\ call[t].stack \in Seq(AllFns)
      <3>1. TypeOK'
        BY <1>1, ReturnsReturn
      <3> QED
        BY <1>1, <3>1 DEF TypeOK, Frame
    <2>4. \A i \in 1..(n - 1) : armed'[t][i] = armed[t][i + 1]
      <3>1. armed[t] \in Seq(BOOLEAN) /\ armed'[t] = Tail(armed[t]) /\ Len(armed[t]) = n
        BY <1>5
      <3>2. armed[t] # <<>>
        <4>1. Len(<<>>) = 0
          OBVIOUS
        <4> QED
          BY <2>2, <3>1, <4>1
      <3> QED
        BY <3>1, <3>2, PopStack
    <2>5. ASSUME NEW i \in DOMAIN call'[t].stack
          PROVE  /\ call'[t].stack[i] \in Called
                 /\ call'[t].stack[i] \in AllocFns => armed'[t][i]
      <3>1. i \in 1..(n - 1) /\ i + 1 \in DOMAIN call[t].stack
        <4>1. DOMAIN call'[t].stack = 1..(n - 1) /\ DOMAIN call[t].stack = 1..n
          BY <2>2, <2>3
        <4> HIDE DEF n
        <4> QED
          BY <2>2, <4>1
      <3>2. /\ call[t].stack[i + 1] \in Called
            /\ call[t].stack[i + 1] \in AllocFns => armed[t][i + 1]
        BY <2>1, <3>1 DEF WholeCall
      <3> QED
        BY <2>2, <2>4, <3>1, <3>2
    <2>6. ASSUME Top(t)' \in NewFns PROVE sizes'[t] = None
      <3>1. Top(t)' = call[t].stack[2]
        <4>1. 1 \in 1..(n - 1)
          BY <2>2
        <4> QED
          BY <2>2, <4>1 DEF Top
      <3>2. InCall(t) /\ Top(t) \in AllocFns
        BY <1>1, <2>1, <2>2, <2>6, <3>1, TopFacts, Kinds DEF WholeCall
      <3>3. ~GivesUp(t)
        BY <1>1, <2>2, <3>2, TopFacts DEF GivesUp
      <3> QED
        BY <2>1, <3>2, <3>3, WholeTakes
    <2> QED
      BY <1>5, <2>1, <2>2, <2>5, <2>6 DEF WholeCall
  <1>8. \A u \in whole' : WholeCall(u)'
    BY <1>6, <1>7
  <1> QED
    BY <1>8 DEF WholeInv, WholeCall

\* Every step keeps the whole invariant.
LEMMA AllStep ==
    ASSUME Recording, AllKept, [AttachNext]_attachVars
    PROVE  AllKept'
  <1>1. Kept' /\ AttachTypeOK' /\ SetupInv'
    BY AllKeptHas, AttachStep, AttachTypeStep, SetupStep
  <1>2. WholeInv'
    <2>1. CASE Attach \/ Miss
      <3>1. todo # <<>> /\ whole' = whole
        BY <2>1 DEF Attach, Miss, history
      <3>2. \A t \in whole : FALSE
        BY <3>1, AllKeptHas DEF WholeInv
      <3> QED
        BY <3>1, <3>2 DEF WholeInv
    <2>2. CASE UNCHANGED attachVars
      BY <2>2, AllKeptHas
         DEF attachVars, vars, setup, history, WholeInv, InCall, Returning, Top
    <2>3. CASE SetupFails \/ Ends
      BY <2>3 DEF SetupFails, Ends, Cleanup, WholeInv
    <2> QED
      BY <2>1, <2>2, <2>3, WholeBegins, WholeWorks, WholeReturns DEF AttachNext
  <1> QED
    BY <1>1, <1>2 DEF AllKept, AttachInv, Kept

LEMMA AllStart == AttachInit => AllKept
  <1> SUFFICES ASSUME AttachInit PROVE AllKept
    OBVIOUS
  <1>1. WholeInv
    BY DEF AttachInit, WholeInv
  <1> QED
    BY <1>1, AttachStart, AttachTypeStart, SetupStart DEF AllKept, AttachInv, Kept

\* What the maps hold of every call, which programs are attached or still to be,
\* and which calls are watched to their end: the invariant holds in every
\* execution, for any number of threads and addresses and any set of functions.
THEOREM AttachInductive == ASSUME Recording PROVE AttachSpec => []AttachInv
  <1>1. AllKept /\ [AttachNext]_attachVars => AllKept'
    BY AllStep
  <1>2. AllKept => AttachInv
    BY DEF AllKept
  <1> QED
    BY <1>1, <1>2, AllStart, PTL DEF AttachSpec

-----------------------------------------------------------------------------
(* The setup settles. *)

\* A call that is watched in whole ends without its entry of sizes.
LEMMA WholeEnds ==
    ASSUME Recording, ThrowsLate, AllKept, AttachNext, NEW t \in whole,
           Top(t) \in AllocFns, ~InCall(t)'
    PROVE  sizes'[t] = None \/ GivesUp(t)
  <1>1. /\ t \in Tid /\ WholeCall(t) /\ InCall(t) /\ Kept /\ CallsOK
        /\ call[t].stack \in Seq(AllFns)
    BY AllKeptHas, WholeEach DEF AttachTypeOK, WholeCall, TypeOK, Frame
  <1>2. call'[t] # call[t]
    BY <1>1 DEF InCall
  <1>3. ASSUME NEW u \in Tid, WatchedCall(u) \/ BlindCall(u) PROVE FALSE
    <2>1. PICK fn \in AllFns, size \in Sizes \cup {0}, ptr \in Addr \cup {NULL},
               site \in Int : Arrives(u, fn, size, ptr, site)
      BY <1>1, <1>3, WatchedArrives, BlindArrives
    <2>2. InCall(u)' /\ \A v \in Tid : v # u => call'[v] = call[v]
      BY <1>1, <2>1, ArriveCall DEF Entered
    <2> QED
      BY <1>1, <1>2, <2>2
  <1>4. ASSUME NEW u \in Tid, Works(u) PROVE sizes'[t] = None
    <2>1. Worked(u)
      BY <1>1, <1>4, WorkFacts DEF Works
    <2>2. u = t /\ sizes' = sizes
      BY <1>1, <1>2, <2>1 DEF Worked, kernel
    <2>3. Throws(t)
      BY <1>1, <2>1, <2>2, Kinds DEF Worked, InCall
    <2>4. Returning(t) /\ Top(t) \in NewFns
      BY <2>3 DEF Throws
    <2>5. Top(t) \in Called
      <3>1. 1 \in DOMAIN call[t].stack
        BY <1>1 DEF InCall
      <3> QED
        BY <1>1, <3>1 DEF WholeCall, Top
    <2>6. \E g \in SizeFns : <<Top(t), g>> \in Delegates
      BY <2>4, <2>5 DEF ThrowsLate
    <2> QED
      BY <1>1, <2>2, <2>4, <2>6 DEF WholeCall
  <1>5. ASSUME NEW u \in Tid, Returns(u) PROVE sizes'[t] = None \/ GivesUp(t)
    <2>1. Returned(u)
      BY <1>1, <1>5, ReturnsLeaves, ReturnFacts DEF Leaves
    <2>2. u = t
      BY <1>1, <1>2, <2>1 DEF Returned
    <2> QED
      BY <1>5, <2>2, WholeTakes
  <1>6. ASSUME UNCHANGED vars \/ Cleanup PROVE FALSE
    BY <1>2, <1>6 DEF vars, Cleanup
  <1> QED
    BY <1>3, <1>4, <1>5, <1>6 DEF AttachNext, Attach, Miss, SetupFails, Ends

\* A block that is given up in such a call has lost its record before it is gone.
LEMMA WholeFrees ==
    ASSUME Recording, AllKept, AttachNext, NEW t \in whole, NEW a \in Addr,
           call[t].ptr = a, heap'[a] = None
    PROVE  allocs'[a] = None
  <1>1. t \in Tid /\ t \in seen /\ Kept /\ CallsOK
    BY AllKeptHas, WholeEach, Words DEF AttachTypeOK, WholeCall
  <1>2. allocs[a] = None /\ heap[a] # None /\ Holds(t, a)
    BY <1>1 DEF Kept, MapsInv, SeenInv, HeldLive, Holds
  <1>3. heap'[a] # heap[a]
    BY <1>2
  <1>4. ASSUME NEW u \in Tid, WatchedCall(u) \/ BlindCall(u) PROVE FALSE
    <2>1. heap' = heap
      BY <1>1, <1>4, WatchedArrives, BlindArrives DEF Arrives
    <2> QED
      BY <1>3, <2>1
  <1>5. ASSUME NEW u \in Tid, Works(u) PROVE allocs'[a] = None
    <2>1. Work(u) /\ Worked(u)
      BY <1>1, <1>5, WorkFacts DEF Works
    <2>2. allocs' = allocs
      BY <2>1 DEF Worked, kernel
    <2> QED
      BY <1>2, <2>2
  <1>6. ASSUME NEW u \in Tid, Returns(u) PROVE FALSE
    <2>1. heap' = heap
      BY <1>1, <1>6, ReturnsLeaves DEF Leaves
    <2> QED
      BY <1>3, <2>1
  <1>7. ASSUME UNCHANGED vars \/ Cleanup PROVE FALSE
    BY <1>3, <1>7 DEF vars, Cleanup
  <1> QED
    BY <1>4, <1>5, <1>6, <1>7 DEF AttachNext, Attach, Miss, SetupFails, Ends

\* From the moment at which attach_uprobes is through, with every program it has
\* attached, until memleak ends, no call that begins adds to the damage: sizes is
\* left clean, but for a posix_memalign whose return probe gives up, and no block
\* goes and leaves its record.
THEOREM SetupSettled ==
    ASSUME Recording, ThrowsLate PROVE AttachSpec => SetupSettles
  <1> DEFINE Settles ==
        \A t \in whole :
            /\ Top(t) \in AllocFns /\ ~InCall(t)' =>
                  sizes'[t] = None \/ (Top(t) = "posix_memalign" /\ t \in owed')
            /\ \A a \in Addr : call[t].ptr = a /\ heap'[a] = None => allocs'[a] = None
  <1>1. AllKept /\ [AttachNext]_attachVars => [Settles]_attachVars
    BY WholeEnds, WholeFrees DEF GivesUp
  <1>2. AllKept /\ [AttachNext]_attachVars => AllKept'
    BY AllStep
  <1> HIDE DEF Settles
  <1>3. AttachSpec => [][Settles]_attachVars
    BY <1>1, <1>2, AllStart, PTL DEF AttachSpec
  <1> QED
    BY <1>3 DEF Settles, SetupSettles
=============================================================================
