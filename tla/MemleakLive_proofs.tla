------------------------- MODULE MemleakLive_proofs -------------------------
(***************************************************************************)
(* What the probes keep to when nearly everything goes wrong: *memptr      *)
(* cannot be read, maps are full, requests are not sampled, an operator    *)
(* new throws.  The size and the stack of a record may be stale then, but  *)
(* no address is listed that is not a live block.                          *)
(***************************************************************************)
EXTENDS MemleakBpf_proofs

\* The one condition: a failing posix_memalign leaves no address in *memptr.
NoStaleMemptr == Leftovers \cap Addr = {}

\* An entry probe takes the record of a block off before the block is given up.
LEMMA EnterLive ==
    ASSUME TypeOK, LiveInv, NEW t \in Tid, NEW fn \in AllFns,
           NEW size \in Sizes \cup {0}, NEW ptr \in Addr \cup {NULL}, NEW site \in Int,
           Enter(t, fn, size, ptr, site), fn \in SizeFns => ptr = NULL,
           heap' = heap, gen_free_enter(ptr) \/ (ptr = NULL /\ allocs' = allocs)
    PROVE  LiveInv'
  <1>1. None \notin Addr /\ NULL \notin Addr /\ Addr \subseteq Word
    BY WordAssumption DEF Word
  <1>2. CallsOK
    BY DEF CallsOK, LiveInv
  <1>3. Entered(t, fn, size, ptr)
    BY <1>2, EnterFacts
  <1>4. StackInv' /\ CallInv'
    BY <1>2, EnterCalls
  <1>5. /\ \A u \in Tid : u # t => call'[u] = call[u]
        /\ call'[t].ptr = ptr /\ call'[t].ret = None
    BY <1>3 DEF Entered
  <1>6. /\ \A w \in Word : allocs'[w] = allocs[w] \/ allocs'[w] = None
        /\ ptr # NULL => allocs'[ptr] = None
        /\ DOMAIN allocs = Word /\ DOMAIN allocs' = Word
    BY <1>1 DEF gen_free_enter, DeleteElem, TypeOK
  <1>7. \A a \in Addr : Holds(t, a)' => a = ptr /\ ptr # NULL
    BY <1>1, <1>5 DEF Holds
  <1>8. ptr # NULL => /\ heap[ptr] # None
                      /\ \A u \in Tid : Holds(u, ptr) => u = t
    <2>1. ptr # NULL => ptr \in Addr
      OBVIOUS
    <2>2. CASE ~InCall(t)
      BY <1>3, <2>2 DEF Entered, Busy
    <2>3. CASE InCall(t)
      <3>1. Holds(t, ptr)
        BY <1>3, <2>3 DEF Entered, Holds
      <3> QED
        BY <2>1, <3>1 DEF LiveInv, WorkedOnInv, OwnInv
    <2> QED
      BY <2>2, <2>3
  <1>9. OwnInv'
    <2> SUFFICES ASSUME NEW u \in Tid, NEW v \in Tid, NEW a \in Addr,
                        Holds(u, a)', Holds(v, a)'
                 PROVE  u = v
      BY DEF OwnInv
    <2>1. \A x \in {u, v} : x # t => Holds(x, a)
      BY <1>5 DEF Holds
    <2> QED
      BY <1>7, <1>8, <2>1 DEF LiveInv, OwnInv
  <1>10. WorkedOnInv'
    <2> SUFFICES ASSUME NEW u \in Tid, NEW a \in Addr
                 PROVE  /\ Holds(u, a)' => heap'[a] # None
                        /\ call'[u].ptr = a => allocs'[a] = None
      BY DEF WorkedOnInv
    <2>1. CASE u = t
      BY <1>1, <1>5, <1>6, <1>7, <1>8, <2>1
    <2>2. CASE u # t
      BY <1>1, <1>5, <1>6, <2>2 DEF LiveInv, WorkedOnInv, Holds
    <2> QED
      BY <2>1, <2>2
  <1>11. OnlyLiveBlocks'
    BY <1>6 DEF LiveInv, OnlyLiveBlocks, Keys
  <1> QED
    BY <1>4, <1>9, <1>10, <1>11 DEF LiveInv

\* A return probe lists what its call hands out, or nothing.
LEMMA ReturnLive ==
    ASSUME TypeOK, LiveInv, NEW t \in Tid, Returning(t), Return(t), heap' = heap,
           \/ allocs' = allocs
           \/ \E w \in Word : /\ w = call[t].ret \/ w \notin Addr
                              /\ gen_alloc_exit2(t, w)
    PROVE  LiveInv'
  <1>1. /\ None \notin Addr /\ NULL \notin Addr /\ Addr \subseteq Word
        /\ None \notin Word
    BY WordAssumption DEF Word
  <1>2. CallsOK
    BY DEF CallsOK, LiveInv
  <1>3. Returned(t) /\ StackInv' /\ CallInv'
    BY <1>2, ReturnFacts, ReturnCalls
  <1>4. /\ \A u \in Tid : u # t => call'[u] = call[u]
        /\ call'[t].ptr = NULL /\ call'[t].ret \in {None, call[t].ret}
    BY <1>3 DEF Returned, Idle, LiveInv, CallInv
  <1>5. \/ allocs' = allocs
        \/ \E w \in Addr : \E v : w = call[t].ret /\ allocs' = [allocs EXCEPT ![w] = v]
    BY DEF gen_alloc_exit2, UpdateElem, Word
  <1>6. \A w \in Word : allocs'[w] = allocs[w] \/ (w \in Addr /\ Holds(t, w))
    BY <1>5 DEF Holds, TypeOK
  <1>7. \A u \in Tid, a \in Addr : Holds(u, a)' => Holds(u, a)
    BY <1>1, <1>4 DEF Holds
  <1>8. OwnInv'
    <2> SUFFICES ASSUME NEW u \in Tid, NEW v \in Tid, NEW a \in Addr,
                        Holds(u, a)', Holds(v, a)'
                 PROVE  u = v
      BY DEF OwnInv
    <2> QED
      BY <1>7 DEF LiveInv, OwnInv
  <1>9. WorkedOnInv'
    <2> SUFFICES ASSUME NEW u \in Tid, NEW a \in Addr
                 PROVE  /\ Holds(u, a)' => heap'[a] # None
                        /\ call'[u].ptr = a => allocs'[a] = None
      BY DEF WorkedOnInv
    <2>1. Holds(u, a)' => heap'[a] # None
      BY <1>7 DEF LiveInv, WorkedOnInv
    <2>2. ASSUME call'[u].ptr = a PROVE allocs'[a] = None
      <3>1. u # t /\ call[u].ptr = a /\ Holds(u, a)
        BY <1>1, <1>4, <2>2 DEF Holds
      <3>2. ~Holds(t, a)
        BY <3>1 DEF LiveInv, OwnInv
      <3> QED
        BY <1>1, <1>6, <3>1, <3>2 DEF LiveInv, WorkedOnInv
    <2> QED
      BY <2>1, <2>2
  <1>10. OnlyLiveBlocks'
    <2>1. DOMAIN allocs = Word /\ DOMAIN allocs' = Word
      BY <1>5 DEF TypeOK
    <2> QED
      BY <1>6, <2>1 DEF LiveInv, OnlyLiveBlocks, WorkedOnInv, Keys
  <1> QED
    BY <1>3, <1>8, <1>9, <1>10 DEF LiveInv

\* Work ends or makes a block only where there is no record.
LEMMA WorkLive ==
    ASSUME TypeOK, LiveInv, NEW t \in Tid, Work(t)
    PROVE  LiveInv'
  <1>1. /\ None \notin Addr /\ NULL \notin Addr /\ MAP_FAILED \notin Addr
        /\ Addr \subseteq Word /\ None \notin Block
    BY WordAssumption DEF Word
  <1>2. CallsOK
    BY DEF CallsOK, LiveInv
  <1>3. Worked(t) /\ StackInv' /\ CallInv'
    BY <1>2, WorkFacts, WorkShape
  <1>4. allocs' = allocs /\ \A u \in Tid : u # t => call'[u] = call[u]
    BY <1>3 DEF Worked, kernel
  <1>5. \A a \in Addr : heap[a] = None => \A u \in Tid : ~Holds(u, a)
    BY DEF LiveInv, WorkedOnInv
  <1>6. \A a \in Addr : call[t].ptr = a =>
          allocs[a] = None /\ \A u \in Tid : u # t => ~Holds(u, a)
    BY DEF LiveInv, WorkedOnInv, OwnInv, Holds
  <1>7. /\ \A a \in Addr : heap'[a] = None /\ heap[a] # None => call[t].ptr = a
        /\ \A a \in Addr : Holds(t, a)' =>
              /\ heap'[a] # None /\ call'[t].ptr # a
              /\ \A u \in Tid : u # t => ~Holds(u, a)
    <2>1. CASE Grant(t)
      <3>1. PICK a \in Addr :
              /\ heap[a] = None \/ a = call[t].ptr
              /\ heap' = [b \in Addr |->
                   IF b = a THEN [size |-> call[t].size, stack_id |-> call[t].site]
                   ELSE IF b = call[t].ptr THEN None ELSE heap[b]]
              /\ call' = [call EXCEPT ![t].ret = a, ![t].ptr = NULL]
        BY <2>1 DEF Grant
      <3>2. call'[t].ret = a /\ call'[t].ptr = NULL
        BY <3>1 DEF TypeOK, Frame
      <3>3. heap'[a] # None
        <4>1. [size |-> call[t].size, stack_id |-> call[t].site] \in Block
          BY DEF TypeOK, Frame, Block
        <4> QED
          BY <1>1, <3>1, <4>1
      <3>4. \A u \in Tid : u # t => ~Holds(u, a)
        BY <1>5, <1>6, <3>1
      <3>5. \A b \in Addr : heap'[b] = None /\ heap[b] # None => call[t].ptr = b
        BY <3>1, <3>3
      <3>6. \A b \in Addr : Holds(t, b)' => b = a
        BY <1>1, <3>2 DEF Holds
      <3> QED
        BY <1>1, <3>2, <3>3, <3>4, <3>5, <3>6
    <2>2. CASE ReallocToNothing(t) \/ Fail(t) \/ Release(t) \/ Unwind(t)
      <3>1. \A b \in Addr : b # call[t].ptr => heap'[b] = heap[b]
        BY <2>2 DEF ReallocToNothing, Fail, Release, Unwind, TypeOK
      <3>2. \/ call'[t] = Idle
            \/ call'[t].ptr = NULL /\ call'[t].ret \in {NULL, MAP_FAILED}
        BY <2>2 DEF ReallocToNothing, Fail, Release, Unwind, TypeOK, Frame
      <3>3. \A b \in Addr : ~Holds(t, b)'
        BY <1>1, <3>2 DEF Holds, Idle
      <3> QED
        BY <3>1, <3>3
    <2> QED
      BY <2>1, <2>2 DEF Work
  <1>8. \A u \in Tid, a \in Addr : u # t => (Holds(u, a)' <=> Holds(u, a))
    BY <1>4 DEF Holds
  <1>9. OwnInv'
    <2> SUFFICES ASSUME NEW u \in Tid, NEW v \in Tid, NEW a \in Addr,
                        Holds(u, a)', Holds(v, a)', u # v
                 PROVE  FALSE
      BY DEF OwnInv
    <2> QED
      BY <1>7, <1>8 DEF LiveInv, OwnInv
  <1>10. WorkedOnInv'
    <2> SUFFICES ASSUME NEW u \in Tid, NEW a \in Addr
                 PROVE  /\ Holds(u, a)' => heap'[a] # None
                        /\ call'[u].ptr = a => allocs'[a] = None
      BY DEF WorkedOnInv
    <2>1. CASE u = t
      BY <1>7, <2>1 DEF Holds
    <2>2. CASE u # t
      <3>1. Holds(u, a)' => heap'[a] # None
        BY <1>6, <1>7, <1>8, <2>2 DEF LiveInv, WorkedOnInv
      <3>2. call'[u].ptr = a => allocs'[a] = None
        BY <1>4, <2>2 DEF LiveInv, WorkedOnInv
      <3> QED
        BY <3>1, <3>2
    <2> QED
      BY <2>1, <2>2
  <1>11. OnlyLiveBlocks'
    BY <1>4, <1>6, <1>7 DEF LiveInv, OnlyLiveBlocks, Keys
  <1> QED
    BY <1>3, <1>9, <1>10, <1>11 DEF LiveInv

-----------------------------------------------------------------------------
\* Nothing is listed and no call is under way at the start.
LEMMA LiveInit == Init => LiveInv
  <1> SUFFICES ASSUME Init PROVE LiveInv
    OBVIOUS
  <1>1. /\ None \notin Addr /\ NULL \notin Addr
        /\ \A t \in Tid : call[t] = Idle
    BY WordAssumption DEF Init, Word
  <1>2. \A t \in Tid : /\ ~InCall(t) /\ ~Returning(t) /\ Len(call[t].stack) = 0
                      /\ \A a \in Addr : ~Holds(t, a) /\ call[t].ptr # a
    BY <1>1 DEF InCall, Returning, Holds, Idle
  <1>3. StackInv /\ CallInv /\ OwnInv /\ WorkedOnInv
    BY <1>1, <1>2 DEF StackInv, CallInv, OwnInv, WorkedOnInv
  <1>4. OnlyLiveBlocks
    BY DEF Init, OnlyLiveBlocks, Keys
  <1> QED
    BY <1>3, <1>4 DEF LiveInv

\* Every step keeps to live blocks, whatever sizes and memptrs hold.
LEMMA LiveStep ==
    ASSUME NoStaleMemptr, TypeOK, LiveInv, [Next]_vars
    PROVE  LiveInv'
  <1>1. ASSUME NEW t \in Tid, alloc_enter(t) PROVE LiveInv'
    <2>1. PICK fn \in SizeFns, size \in Sizes, site \in StackIds :
            Enter(t, fn, size, NULL, site)
      BY <1>1 DEF alloc_enter
    <2>2. /\ allocs' = allocs /\ heap' = heap
          /\ fn \in AllFns /\ size \in Sizes \cup {0} /\ site \in Int
      BY <1>1, Kinds, DataAssumption DEF alloc_enter, AllFns
    <2> QED
      BY <2>1, <2>2, EnterLive
  <1>2. ASSUME NEW t \in Tid, realloc_enter(t) PROVE LiveInv'
    <2>1. PICK fn \in MoveFns, size \in Sizes, site \in StackIds,
               ptr \in Addr \cup {NULL} :
            Enter(t, fn, size, ptr, site) /\ gen_free_enter(ptr)
      BY <1>2 DEF realloc_enter
    <2>2. /\ heap' = heap /\ fn \notin SizeFns
          /\ fn \in AllFns /\ size \in Sizes \cup {0} /\ site \in Int
      BY <1>2, Kinds, DataAssumption DEF realloc_enter, AllFns
    <2> QED
      BY <2>1, <2>2, EnterLive
  <1>3. ASSUME NEW t \in Tid, posix_memalign_enter(t) PROVE LiveInv'
    <2>1. PICK size \in Sizes, site \in StackIds :
            Enter(t, "posix_memalign", size, NULL, site)
      BY <1>3 DEF posix_memalign_enter
    <2>2. /\ allocs' = allocs /\ heap' = heap
          /\ "posix_memalign" \in AllFns /\ size \in Sizes \cup {0} /\ site \in Int
      BY <1>3, Kinds, DataAssumption DEF posix_memalign_enter, AllFns
    <2> QED
      BY <2>1, <2>2, EnterLive
  <1>4. ASSUME NEW t \in Tid, free_enter(t) PROVE LiveInv'
    <2>1. PICK fn \in FreeFns, ptr \in Addr \cup {NULL} :
            Enter(t, fn, 0, ptr, 0) /\ gen_free_enter(ptr)
      BY <1>4 DEF free_enter
    <2>2. /\ heap' = heap /\ fn \notin SizeFns
          /\ fn \in AllFns /\ 0 \in Sizes \cup {0} /\ 0 \in Int
      BY <1>4, Kinds DEF free_enter, AllFns
    <2> QED
      BY <2>1, <2>2, EnterLive
  <1>5. ASSUME NEW t \in Tid, Work(t) PROVE LiveInv'
    BY <1>5, WorkLive
  <1>6. ASSUME NEW t \in Tid, alloc_exit(t) PROVE LiveInv'
    <2>1. /\ Returning(t) /\ Return(t) /\ heap' = heap
          /\ gen_alloc_exit2(t, call[t].ret)
      BY <1>6 DEF alloc_exit
    <2>2. call[t].ret \in Word
      BY <2>1 DEF TypeOK, Frame, Returning
    <2> QED
      BY <2>1, <2>2, ReturnLive
  <1>7. ASSUME NEW t \in Tid, NEW faults \in Faults,
               posix_memalign_exit(t, faults)
        PROVE  LiveInv'
    <2>1. Returning(t) /\ Return(t) /\ heap' = heap
      BY <1>7 DEF posix_memalign_exit
    <2>2. call[t].ret \in Word
      BY <2>1 DEF TypeOK, Frame, Returning
    <2>3. \/ allocs' = allocs
          \/ \E w \in Word : /\ w = call[t].ret \/ w \notin Addr
                             /\ gen_alloc_exit2(t, w)
      BY <1>7, <2>2, DataAssumption DEF posix_memalign_exit, NoStaleMemptr
    <2> QED
      BY <2>1, <2>3, ReturnLive
  <1>8. CASE UNCHANGED vars
    BY <1>8 DEF vars, LiveInv, StackInv, CallInv, OwnInv, WorkedOnInv,
                OnlyLiveBlocks, InCall, Returning, Top, Holds, Keys
  <1> QED
    BY <1>1, <1>2, <1>3, <1>4, <1>5, <1>6, <1>7, <1>8
       DEF Next, EnterProbe, ExitProbe

\* The invariant holds in every state if posix_memalign leaves no address behind.
THEOREM LiveInductive == ASSUME NoStaleMemptr PROVE Spec => []LiveInv
  <1>1. LiveInv /\ TypeOK /\ [Next]_vars => LiveInv'
    BY LiveStep
  <1> QED
    BY <1>1, LiveInit, TypeCorrect, PTL DEF Spec

\* The unread return code of posix_memalign is the only way in which memleak
\* comes to list a block that is not there: with *memptr free of addresses after
\* a failure, nothing else that can go wrong leads to it.
THEOREM OnlyLive == ASSUME NoStaleMemptr PROVE Spec => []OnlyLiveBlocks
  <1>1. LiveInv => OnlyLiveBlocks
    BY DEF LiveInv
  <1> QED
    BY <1>1, LiveInductive, PTL

=============================================================================
