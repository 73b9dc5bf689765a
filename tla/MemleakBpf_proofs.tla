------------------------- MODULE MemleakBpf_proofs -------------------------
(***************************************************************************)
(* Proofs about the probes of MemleakBpf, for every set of threads and     *)
(* addresses, every choice of probed functions and every map size.         *)
(***************************************************************************)
EXTENDS MemleakBpf, FiniteSetTheorems, TLAPS

\* Entering a function puts it in front of the stack of calls.
LEMMA PushStack ==
    ASSUME NEW S, NEW s \in Seq(S), NEW x \in S
    PROVE  /\ <<x>> \o s \in Seq(S)
           /\ Len(<<x>> \o s) = Len(s) + 1
           /\ (<<x>> \o s)[1] = x
           /\ \A i \in 2..(Len(s) + 1) : (<<x>> \o s)[i] = s[i - 1]
  OBVIOUS

\* Returning from a function takes it off the stack of calls.
LEMMA PopStack ==
    ASSUME NEW S, NEW s \in Seq(S), s # <<>>
    PROVE  /\ Tail(s) \in Seq(S)
           /\ Len(Tail(s)) = Len(s) - 1
           /\ \A i \in 1..(Len(s) - 1) : Tail(s)[i] = s[i + 1]
           /\ Len(s) \in Nat \ {0}
           /\ s[1] \in S /\ s[Len(s)] \in S
           /\ Len(s) # 1 => Tail(s) # <<>>
  <1>1. Len(s) \in Nat \ {0}
    OBVIOUS
  <1>2. /\ Tail(s) \in Seq(S)
        /\ Len(Tail(s)) = Len(s) - 1
        /\ \A i \in 1..(Len(s) - 1) : Tail(s)[i] = s[i + 1]
    OBVIOUS
  <1>3. s[1] \in S /\ s[Len(s)] \in S
    BY <1>1
  <1>4. ASSUME Len(s) # 1 PROVE Tail(s) # <<>>
    <2>1. Len(Tail(s)) # 0
      BY <1>1, <1>2, <1>4
    <2>2. Len(<<>>) = 0
      OBVIOUS
    <2> QED
      BY <2>1, <2>2
  <1> QED
    BY <1>1, <1>2, <1>3, <1>4

\* A positive number that is not one is greater than one.
LEMMA Positive == \A n \in Nat \ {0} : n # 1 <=> n > 1
  OBVIOUS

\* A map helper keeps the type of the map.
LEMMA MapType ==
    ASSUME NEW K, NEW V, NEW m \in [K -> V \cup {None}], NEW k \in K,
           NEW v \in V, NEW max
    PROVE  /\ UpdateElem(m, k, v, max) \in [K -> V \cup {None}]
           /\ DeleteElem(m, k) \in [K -> V \cup {None}]
  BY DEF UpdateElem, DeleteElem

-----------------------------------------------------------------------------
(* Type correctness, one lemma for each body that a handler shares. *)

\* Gen_alloc_enter leaves sizes a table of pending requests, one a thread at most.
LEMMA SizesType ==
    ASSUME TypeOK, NEW t \in Tid, NEW size \in Sizes, NEW site \in StackIds,
           gen_alloc_enter(t, size, site)
    PROVE  sizes' \in [Tid -> Info \cup {None}]
  <1>1. [size |-> size, stack_id |-> site] \in Info
    BY DEF Info
  <1>2. UpdateElem(sizes, t, [size |-> size, stack_id |-> site], MaxSizes)
           \in [Tid -> Info \cup {None}]
    BY <1>1, MapType DEF TypeOK
  <1> QED
    BY <1>2 DEF gen_alloc_enter, TypeOK

\* Gen_alloc_exit2 keeps the types of sizes and allocs.
LEMMA RecordType ==
    ASSUME TypeOK, NEW t \in Tid, NEW w \in Word, gen_alloc_exit2(t, w)
    PROVE  /\ sizes' \in [Tid -> Info \cup {None}]
           /\ allocs' \in [Word -> Info \cup {None}]
  <1>1. sizes' \in [Tid -> Info \cup {None}]
    BY DEF gen_alloc_exit2, TypeOK, DeleteElem
  <1>2. CASE sizes[t] # None /\ w \notin {NULL, MAP_FAILED}
    <2>1. sizes[t] \in Info
      BY <1>2 DEF TypeOK
    <2> QED
      BY <1>1, <1>2, <2>1, MapType DEF gen_alloc_exit2, TypeOK
  <1>3. CASE ~(sizes[t] # None /\ w \notin {NULL, MAP_FAILED})
    BY <1>1, <1>3 DEF gen_alloc_exit2, TypeOK
  <1> QED
    BY <1>2, <1>3

\* Entering a function leaves a well-formed frame and touches no map.
LEMMA EnterType ==
    ASSUME TypeOK, NEW t \in Tid, NEW fn \in AllFns, NEW size \in Sizes \cup {0},
           NEW ptr \in Addr \cup {NULL}, NEW site \in Int,
           Enter(t, fn, size, ptr, site)
    PROVE  call' \in [Tid -> Frame]
  <1>1. CASE call' = [call EXCEPT ![t] = [stack |-> <<fn>>, size |-> size,
                                 site |-> site, ptr |-> ptr, ret |-> None]]
    <2>1. <<fn>> \in Seq(AllFns)
      OBVIOUS
    <2>2. [stack |-> <<fn>>, size |-> size, site |-> site, ptr |-> ptr,
           ret |-> None] \in Frame
      BY <2>1 DEF Frame
    <2> QED
      BY <1>1, <2>2 DEF TypeOK
  <1>2. CASE call' = [call EXCEPT ![t].stack = <<fn>> \o @]
    <2>1. call[t] \in Frame
      BY DEF TypeOK
    <2>2. <<fn>> \o call[t].stack \in Seq(AllFns)
      BY <2>1, PushStack DEF Frame
    <2>3. [call[t] EXCEPT !.stack = <<fn>> \o @] \in Frame
      BY <2>1, <2>2 DEF Frame
    <2> QED
      BY <1>2, <2>3 DEF TypeOK
  <1> QED
    BY <1>1, <1>2 DEF Enter

\* Returning leaves a well-formed frame and touches no other thread.
LEMMA ReturnType ==
    ASSUME TypeOK, NEW t \in Tid, InCall(t), Return(t)
    PROVE  call' \in [Tid -> Frame]
  <1>1. call[t] \in Frame /\ call[t].stack # <<>>
    BY DEF TypeOK, InCall
  <1>2. Idle \in Frame
    BY DEF Idle, Frame
  <1>3. Tail(call[t].stack) \in Seq(AllFns)
    BY <1>1, PopStack DEF Frame
  <1>4. [call[t] EXCEPT !.stack = Tail(@)] \in Frame
    BY <1>1, <1>3 DEF Frame
  <1>5. CASE Len(call[t].stack) = 1
    BY <1>2, <1>5 DEF Return, TypeOK
  <1>6. CASE Len(call[t].stack) # 1
    BY <1>4, <1>6 DEF Return, TypeOK
  <1> QED
    BY <1>5, <1>6

\* Every step of the probes and of the process keeps the types.
LEMMA TypeStep ==
    ASSUME TypeOK, [Next]_vars
    PROVE  TypeOK'
  <1> USE DEF TypeOK
  <1>1. ASSUME NEW t \in Tid, alloc_enter(t) PROVE TypeOK'
    <2>1. PICK fn \in SizeFns, size \in Sizes, site \in StackIds :
            /\ Enter(t, fn, size, NULL, site)
            /\ gen_alloc_enter(t, size, site)
      BY <1>1 DEF alloc_enter
    <2>2. fn \in AllFns /\ site \in Int
      BY DataAssumption DEF AllFns, AllocFns
    <2>3. call' \in [Tid -> Frame] /\ sizes' \in [Tid -> Info \cup {None}]
      BY <2>1, <2>2, EnterType, SizesType
    <2> QED
      BY <1>1, <2>3 DEF alloc_enter
  <1>2. ASSUME NEW t \in Tid, realloc_enter(t) PROVE TypeOK'
    <2>1. PICK fn \in MoveFns, size \in Sizes, site \in StackIds,
               ptr \in Addr \cup {NULL} :
            /\ Enter(t, fn, size, ptr, site)
            /\ gen_alloc_enter(t, size, site)
            /\ gen_free_enter(ptr)
      BY <1>2 DEF realloc_enter
    <2>2. fn \in AllFns /\ site \in Int
      BY DataAssumption DEF AllFns, AllocFns
    <2>3. call' \in [Tid -> Frame] /\ sizes' \in [Tid -> Info \cup {None}]
      BY <2>1, <2>2, EnterType, SizesType
    <2>4. allocs' \in [Word -> Info \cup {None}]
      BY <2>1 DEF gen_free_enter, DeleteElem
    <2> QED
      BY <1>2, <2>3, <2>4 DEF realloc_enter
  <1>3. ASSUME NEW t \in Tid, posix_memalign_enter(t) PROVE TypeOK'
    <2>1. PICK size \in Sizes, site \in StackIds :
            /\ Enter(t, "posix_memalign", size, NULL, site)
            /\ gen_alloc_enter(t, size, site)
            /\ memptrs' = UpdateElem(memptrs, t, "memptr", MaxMemptrs)
      BY <1>3 DEF posix_memalign_enter
    <2>2. "posix_memalign" \in AllFns /\ site \in Int
      BY DataAssumption DEF AllFns, AllocFns
    <2>3. call' \in [Tid -> Frame] /\ sizes' \in [Tid -> Info \cup {None}]
      BY <2>1, <2>2, EnterType, SizesType
    <2>4. memptrs' \in [Tid -> {"memptr", None}]
      BY <2>1 DEF UpdateElem
    <2> QED
      BY <1>3, <2>3, <2>4 DEF posix_memalign_enter
  <1>4. ASSUME NEW t \in Tid, free_enter(t) PROVE TypeOK'
    <2>1. PICK fn \in FreeFns, ptr \in Addr \cup {NULL} :
            Enter(t, fn, 0, ptr, 0) /\ gen_free_enter(ptr)
      BY <1>4 DEF free_enter
    <2>2. fn \in AllFns /\ 0 \in Int /\ 0 \in Sizes \cup {0}
      BY DEF AllFns
    <2>3. call' \in [Tid -> Frame]
      <3> HIDE DEF TypeOK
      <3> QED
        BY <2>1, <2>2, EnterType
    <2>4. allocs' \in [Word -> Info \cup {None}]
      BY <2>1 DEF gen_free_enter, DeleteElem
    <2> QED
      BY <1>4, <2>3, <2>4 DEF free_enter
  <1>5. ASSUME NEW t \in Tid, Work(t) PROVE TypeOK'
    <2>1. call[t] \in Frame /\ NULL \in Word /\ MAP_FAILED \in Word
      BY <1>5 DEF Word
    <2>2. CASE Grant(t)
      <3>1. PICK a \in Addr :
              /\ heap' = [b \in Addr |->
                   IF b = a THEN [size |-> call[t].size, stack_id |-> call[t].site]
                   ELSE IF b = call[t].ptr THEN None ELSE heap[b]]
              /\ call' = [call EXCEPT ![t].ret = a, ![t].ptr = NULL]
        BY <2>2 DEF Grant
      <3>2. [size |-> call[t].size, stack_id |-> call[t].site] \in Block
        BY <2>1 DEF Frame, Block
      <3>3. [call[t] EXCEPT !.ret = a, !.ptr = NULL] \in Frame
        BY <2>1, <3>1 DEF Frame, Word
      <3> QED
        BY <2>2, <3>1, <3>2, <3>3 DEF Grant, kernel
    <2>3. CASE ReallocToNothing(t)
      <3>1. [call[t] EXCEPT !.ret = NULL, !.ptr = NULL] \in Frame
        BY <2>1 DEF Frame
      <3> QED
        BY <2>3, <3>1 DEF ReallocToNothing, kernel
    <2>4. CASE Fail(t)
      <3>1. \A r \in {NULL, MAP_FAILED} :
              [call[t] EXCEPT !.ptr = NULL, !.ret = r] \in Frame
        BY <2>1 DEF Frame
      <3> QED
        BY <2>4, <3>1 DEF Fail, kernel
    <2>5. CASE Release(t) \/ Unwind(t)
      <3>1. Idle \in Frame
        BY DEF Idle, Frame
      <3> QED
        BY <2>5, <3>1 DEF Release, Unwind, kernel
    <2> QED
      BY <1>5, <2>2, <2>3, <2>4, <2>5 DEF Work
  <1>6. ASSUME NEW t \in Tid, alloc_exit(t) PROVE TypeOK'
    <2>1. call[t].ret \in Word /\ InCall(t)
      BY <1>6 DEF alloc_exit, Returning, Frame
    <2>2. /\ sizes' \in [Tid -> Info \cup {None}]
          /\ allocs' \in [Word -> Info \cup {None}]
      BY <1>6, <2>1, RecordType DEF alloc_exit
    <2>3. call' \in [Tid -> Frame]
      BY <1>6, <2>1, ReturnType DEF alloc_exit
    <2> QED
      BY <1>6, <2>2, <2>3 DEF alloc_exit
  <1>7. ASSUME NEW t \in Tid, NEW faults \in Faults,
               posix_memalign_exit(t, faults)
        PROVE  TypeOK'
    <2>1. InCall(t) /\ call[t].ret \in Word
      BY <1>7 DEF posix_memalign_exit, Returning, Frame
    <2>2. /\ sizes' \in [Tid -> Info \cup {None}]
          /\ allocs' \in [Word -> Info \cup {None}]
      <3>1. CASE UNCHANGED <<sizes, allocs>>
        BY <3>1
      <3>2. CASE \E addr \in IF call[t].ret = NULL THEN Leftovers
                                                  ELSE {call[t].ret} :
                   gen_alloc_exit2(t, addr)
        BY <2>1, <3>2, RecordType, DataAssumption
      <3> QED
        BY <1>7, <3>1, <3>2 DEF posix_memalign_exit
    <2>3. call' \in [Tid -> Frame]
      BY <1>7, <2>1, ReturnType DEF posix_memalign_exit
    <2>4. memptrs' \in [Tid -> {"memptr", None}]
      BY <1>7 DEF posix_memalign_exit, DeleteElem
    <2> QED
      BY <1>7, <2>2, <2>3, <2>4 DEF posix_memalign_exit
  <1>8. CASE UNCHANGED vars
    BY <1>8 DEF vars
  <1> QED
    BY <1>1, <1>2, <1>3, <1>4, <1>5, <1>6, <1>7, <1>8
       DEF Next, EnterProbe, ExitProbe

\* Every map, call frame and heap entry keeps its type in every execution of
\* the probes, whatever the process calls and whatever fails.
THEOREM TypeCorrect == Spec => []TypeOK
  <1>1. Init => TypeOK
    BY DEF Init, TypeOK, Idle, Frame
  <1> QED
    BY <1>1, TypeStep, PTL DEF Spec

-----------------------------------------------------------------------------
(* What each kind of step does to the calls in progress. *)

\* The kinds of functions do not overlap.
LEMMA Kinds ==
    /\ SizeFns \subseteq AllocFns /\ MoveFns \subseteq AllocFns /\ NewFns \subseteq SizeFns
    /\ "posix_memalign" \in AllocFns /\ "posix_memalign" \notin SizeFns \cup MoveFns
    /\ AllocFns = SizeFns \cup MoveFns \cup {"posix_memalign"}
    /\ SizeFns \cap MoveFns = {} /\ NewFns \cap MoveFns = {}
    /\ \A fn \in FreeFns : fn \notin AllocFns
  BY DEF SizeFns, MoveFns, NewFns, FreeFns, AllocFns

\* The state of the calls that the other steps rely on.
CallsOK == TypeOK /\ StackInv /\ CallInv

\* Only the thread that enters changes its call; the call is fresh, or it is the
\* one the thread was in with one more function on its stack.
Entered(t, fn, size, ptr) ==
    /\ \A u \in Tid : u # t => call'[u] = call[u]
    /\ InCall(t)' /\ Top(t)' = fn
    /\ call'[t].size = size /\ call'[t].ptr = ptr /\ call'[t].ret = None
    /\ \/ /\ ~InCall(t) /\ Len(call'[t].stack) = 1
          /\ ptr # NULL => heap[ptr] # None /\ ~Busy(ptr)
       \/ /\ InCall(t) /\ call[t].size = size /\ call[t].ptr = ptr
          /\ call[t].ret = None /\ <<Top(t), fn>> \in Delegates
          /\ Len(call[t].stack) \in Nat \ {0}
          /\ Len(call'[t].stack) = Len(call[t].stack) + 1
          /\ \A i \in 2..(Len(call[t].stack) + 1) :
                 call'[t].stack[i] = call[t].stack[i - 1]

\* What entering a function does to call, stated as the facts Entered.
LEMMA EnterFacts ==
    ASSUME CallsOK, NEW t \in Tid, NEW fn \in AllFns, NEW size \in Sizes \cup {0},
           NEW ptr \in Addr \cup {NULL}, NEW site \in Int,
           Enter(t, fn, size, ptr, site)
    PROVE  Entered(t, fn, size, ptr)
  <1>1. call[t] \in Frame /\ t \in DOMAIN call
    BY DEF CallsOK, TypeOK
  <1>2. CASE /\ ~InCall(t)
             /\ ptr # NULL => heap[ptr] # None /\ ~Busy(ptr)
             /\ call' = [call EXCEPT ![t] = [stack |-> <<fn>>, size |-> size,
                                 site |-> site, ptr |-> ptr, ret |-> None]]
    <2>1. call'[t] = [stack |-> <<fn>>, size |-> size, site |-> site,
                      ptr |-> ptr, ret |-> None]
      BY <1>1, <1>2
    <2>2. <<fn>> # <<>> /\ <<fn>>[1] = fn /\ Len(<<fn>>) = 1
      OBVIOUS
    <2>3. InCall(t)' /\ Top(t)' = fn
      BY <2>1, <2>2 DEF InCall, Top
    <2>4. \A u \in Tid : u # t => call'[u] = call[u]
      BY <1>2
    <2>5. /\ call'[t].stack = <<fn>> /\ call'[t].size = size
          /\ call'[t].ptr = ptr /\ call'[t].ret = None
      BY <2>1
    <2>6. Len(call'[t].stack) = 1
      BY <2>2, <2>5
    <2> QED
      BY <1>2, <2>3, <2>4, <2>5, <2>6 DEF Entered
  <1>3. CASE /\ Delegating(t, fn) /\ size = call[t].size /\ ptr = call[t].ptr
             /\ call' = [call EXCEPT ![t].stack = <<fn>> \o @]
    <2> DEFINE s == call[t].stack
    <2>1. s \in Seq(AllFns) /\ s # <<>> /\ call[t].ret = None
      BY <1>1, <1>3 DEF Frame, Delegating, Running, InCall
    <2>2. /\ <<fn>> \o s \in Seq(AllFns) /\ Len(<<fn>> \o s) = Len(s) + 1
          /\ (<<fn>> \o s)[1] = fn
          /\ \A i \in 2..(Len(s) + 1) : (<<fn>> \o s)[i] = s[i - 1]
          /\ Len(s) \in Nat \ {0}
      BY <2>1, PushStack, PopStack
    <2>3. <<fn>> \o s # <<>>
      BY <2>2, Len(<<>>) = 0
    <2>4. call'[t] = [call[t] EXCEPT !.stack = <<fn>> \o s]
      BY <1>1, <1>3
    <2>5. /\ call'[t].stack = <<fn>> \o s /\ call'[t].size = call[t].size
          /\ call'[t].ptr = call[t].ptr /\ call'[t].ret = call[t].ret
      BY <1>1, <2>4 DEF Frame
    <2>6. InCall(t) /\ <<Top(t), fn>> \in Delegates
      BY <1>3 DEF Delegating, Running
    <2>7. InCall(t)' /\ Top(t)' = fn
      BY <2>2, <2>3, <2>5 DEF InCall, Top
    <2> HIDE DEF s
    <2>8. \A u \in Tid : u # t => call'[u] = call[u]
      BY <1>3
    <2> QED
      BY <1>3, <2>1, <2>2, <2>5, <2>6, <2>7, <2>8 DEF s, Entered
  <1> QED
    BY <1>2, <1>3 DEF Enter, Entered

\* Entering keeps the shape of the call trees.
LEMMA EnterCalls ==
    ASSUME CallsOK, NEW t \in Tid, NEW fn \in AllFns, NEW size \in Sizes \cup {0},
           NEW ptr \in Addr \cup {NULL}, NEW site \in Int,
           Enter(t, fn, size, ptr, site), fn \in SizeFns => ptr = NULL
    PROVE  StackInv' /\ CallInv'
  <1>1. /\ \A u \in Tid : u # t => call'[u] = call[u]
        /\ InCall(t)' /\ Top(t)' = fn /\ call'[t].ret = None
        /\ call'[t].ptr = ptr
    <2>1. Entered(t, fn, size, ptr)
      BY EnterFacts
    <2> QED
      BY <2>1 DEF Entered
  <1>2. CallInv'
    <2>1. /\ ~InCall(t)' => call'[t] = Idle
          /\ Returning(t)' => call'[t].ptr = NULL /\ Top(t)' \notin FreeFns
          /\ InCall(t)' /\ Top(t)' \in SizeFns => call'[t].ptr = NULL
      BY <1>1 DEF Returning
    <2>2. \A u \in Tid : u # t =>
            /\ ~InCall(u)' => call'[u] = Idle
            /\ Returning(u)' => call'[u].ptr = NULL /\ Top(u)' \notin FreeFns
            /\ InCall(u)' /\ Top(u)' \in SizeFns => call'[u].ptr = NULL
      BY <1>1 DEF CallsOK, CallInv, InCall, Returning, Top
    <2> QED
      BY <2>1, <2>2 DEF CallInv
  <1>3. \/ \A i \in 1..Len(call'[t].stack) :
              /\ call'[t].stack[i] \in AllocFns
              /\ i < Len(call'[t].stack) => call'[t].stack[i] \in SizeFns
              /\ call'[t].stack[i] \in NewFns =>
                    call'[t].stack[Len(call'[t].stack)] \in NewFns
        \/ \A i \in 1..Len(call'[t].stack) : call'[t].stack[i] \in FreeFns
    <2>1. CASE Len(call'[t].stack) = 1
      <3>1. call'[t].stack[1] = fn
        BY <1>1 DEF Top
      <3>2. \A i \in 1..Len(call'[t].stack) : i = 1
        BY <2>1
      <3>3. fn \in AllocFns \/ fn \in FreeFns
        BY DEF AllFns
      <3> QED
        BY <2>1, <3>1, <3>2, <3>3
    <2>2. CASE Len(call'[t].stack) # 1
      <3> DEFINE n == Len(call[t].stack)
      <3>1. /\ <<Top(t), fn>> \in Delegates /\ n \in Nat \ {0}
            /\ Len(call'[t].stack) = n + 1
            /\ \A i \in 2..(n + 1) : call'[t].stack[i] = call[t].stack[i - 1]
        BY <2>2, EnterFacts DEF Entered
      <3>2. call'[t].stack[1] = fn /\ call[t].stack[1] = Top(t)
        BY <1>1 DEF Top
      <3>3. \A i \in 1..(n + 1) : i = 1 \/ (i \in 2..(n + 1) /\ i - 1 \in 1..n)
        BY <3>1
      <3>4. \/ /\ Top(t) \in AllocFns /\ fn \in SizeFns
               /\ fn \in NewFns => Top(t) \in NewFns
            \/ Top(t) \in FreeFns /\ fn \in FreeFns
        BY <3>1, FnsAssumption
      <3>5. 1 \in 1..n /\ n \in 1..n /\ n + 1 \in 2..(n + 1) /\ (n + 1) - 1 = n
        BY <3>1
      <3>6. \/ \A i \in 1..n :
                  /\ call[t].stack[i] \in AllocFns
                  /\ i < n => call[t].stack[i] \in SizeFns
                  /\ call[t].stack[i] \in NewFns => call[t].stack[n] \in NewFns
            \/ \A i \in 1..n : call[t].stack[i] \in FreeFns
        BY DEF CallsOK, StackInv
      <3> HIDE DEF n
      <3>7. CASE /\ Top(t) \in AllocFns /\ fn \in SizeFns
                 /\ fn \in NewFns => Top(t) \in NewFns
        <4>0. call'[t].stack[n + 1] = call[t].stack[n]
          BY <3>1, <3>5
        <4>1. \A i \in 1..n :
                  /\ call[t].stack[i] \in AllocFns
                  /\ i < n => call[t].stack[i] \in SizeFns
                  /\ call[t].stack[i] \in NewFns => call[t].stack[n] \in NewFns
          BY <3>2, <3>5, <3>6, <3>7, Kinds
        <4>2. ASSUME NEW i \in 1..(n + 1)
              PROVE /\ call'[t].stack[i] \in AllocFns
                    /\ i < n + 1 => call'[t].stack[i] \in SizeFns
                    /\ call'[t].stack[i] \in NewFns => call'[t].stack[n + 1] \in NewFns
          <5>1. CASE i = 1
            BY <3>2, <3>5, <3>7, <4>0, <4>1, <5>1, Kinds
          <5>2. CASE i \in 2..(n + 1) /\ i - 1 \in 1..n
            <6>1. call'[t].stack[i] = call[t].stack[i - 1]
              BY <3>1, <5>2
            <6>2. i < n + 1 => i - 1 < n
              BY <3>1, <5>2
            <6>3. /\ call[t].stack[i - 1] \in AllocFns
                  /\ i - 1 < n => call[t].stack[i - 1] \in SizeFns
                  /\ call[t].stack[i - 1] \in NewFns => call[t].stack[n] \in NewFns
              BY <4>1, <5>2
            <6> QED
              BY <4>0, <6>1, <6>2, <6>3
          <5> QED
            BY <3>3, <5>1, <5>2
        <4> QED
          BY <3>1, <4>2
      <3>8. CASE Top(t) \in FreeFns /\ fn \in FreeFns
        <4>1. \A i \in 1..n : call[t].stack[i] \in FreeFns
          BY <3>2, <3>5, <3>6, <3>8, Kinds
        <4>2. ASSUME NEW i \in 1..(n + 1) PROVE call'[t].stack[i] \in FreeFns
          <5>1. CASE i = 1
            BY <3>2, <3>8, <5>1
          <5>2. CASE i \in 2..(n + 1) /\ i - 1 \in 1..n
            <6>1. call'[t].stack[i] = call[t].stack[i - 1]
              BY <3>1, <5>2
            <6>2. call[t].stack[i - 1] \in FreeFns
              BY <4>1, <5>2
            <6> QED
              BY <6>1, <6>2
          <5> QED
            BY <3>3, <5>1, <5>2
        <4> QED
          BY <3>1, <4>2
      <3> QED
        BY <3>4, <3>7, <3>8
    <2> QED
      BY <2>1, <2>2
  <1>4. StackInv'
    BY <1>1, <1>3 DEF CallsOK, StackInv
  <1> QED
    BY <1>2, <1>4

\* Returning ends the call, or leaves the caller of the innermost function
\* with the same result.
Returned(t) ==
    /\ \A u \in Tid : u # t => call'[u] = call[u]
    /\ Len(call[t].stack) \in Nat \ {0}
    /\ \/ Len(call[t].stack) = 1 /\ call'[t] = Idle
       \/ /\ Len(call[t].stack) > 1
          /\ InCall(t)' /\ Returning(t)'
          /\ call'[t].ret = call[t].ret /\ call'[t].size = call[t].size
          /\ call'[t].ptr = call[t].ptr
          /\ Len(call'[t].stack) = Len(call[t].stack) - 1
          /\ \A i \in 1..(Len(call[t].stack) - 1) :
                 call'[t].stack[i] = call[t].stack[i + 1]

\* What returning from a function does to call, stated as Returned.
LEMMA ReturnFacts ==
    ASSUME CallsOK, NEW t \in Tid, Returning(t), Return(t)
    PROVE  Returned(t)
  <1> DEFINE s == call[t].stack
  <1>1. /\ call[t] \in Frame /\ s \in Seq(AllFns) /\ s # <<>>
        /\ t \in DOMAIN call /\ call[t].ret # None
    BY DEF CallsOK, TypeOK, Returning, InCall, Frame
  <1>2. /\ Len(s) \in Nat \ {0} /\ Len(Tail(s)) = Len(s) - 1
        /\ \A i \in 1..(Len(s) - 1) : Tail(s)[i] = s[i + 1]
        /\ Len(s) # 1 => Tail(s) # <<>>
    BY <1>1, PopStack
  <1>3. CASE Len(s) = 1
    BY <1>1, <1>2, <1>3 DEF Return, Returned
  <1>4. CASE Len(s) # 1
    <2>1. call' = [call EXCEPT ![t].stack = Tail(s)]
      BY <1>4 DEF Return
    <2>2. /\ \A u \in Tid : u # t => call'[u] = call[u]
          /\ call'[t] = [call[t] EXCEPT !.stack = Tail(s)]
      BY <1>1, <2>1
    <2>3. /\ call'[t].stack = Tail(s) /\ call'[t].size = call[t].size
          /\ call'[t].ptr = call[t].ptr /\ call'[t].ret = call[t].ret
      BY <1>1, <2>2 DEF Frame
    <2>4. InCall(t)' /\ Returning(t)'
      BY <1>1, <1>2, <1>4, <2>3 DEF InCall, Returning
    <2>5. Len(s) > 1
      BY <1>2, <1>4
    <2> HIDE DEF s
    <2> QED
      BY <1>2, <2>2, <2>3, <2>4, <2>5 DEF s, Returned
  <1> QED
    BY <1>3, <1>4 DEF Returned

\* The innermost function of a call in which something can be done.
LEMMA TopFacts ==
    ASSUME CallsOK, NEW t \in Tid, InCall(t)
    PROVE  /\ call[t] \in Frame /\ Len(call[t].stack) \in Nat \ {0}
           /\ Top(t) \in AllFns
           /\ Top(t) = "posix_memalign" => Len(call[t].stack) = 1
           /\ Len(call[t].stack) > 1 =>
                (Top(t) \in AllocFns <=> call[t].stack[2] \in AllocFns)
  <1>1. call[t] \in Frame /\ call[t].stack # <<>> /\ call[t].stack \in Seq(AllFns)
    BY DEF CallsOK, TypeOK, InCall, Frame
  <1>2. Len(call[t].stack) \in Nat \ {0} /\ Top(t) \in AllFns
    BY <1>1, PopStack DEF Top
  <1>3. \/ \A i \in 1..Len(call[t].stack) :
              /\ call[t].stack[i] \in AllocFns
              /\ i < Len(call[t].stack) => call[t].stack[i] \in SizeFns
              /\ call[t].stack[i] \in NewFns =>
                    call[t].stack[Len(call[t].stack)] \in NewFns
        \/ \A i \in 1..Len(call[t].stack) : call[t].stack[i] \in FreeFns
    BY DEF CallsOK, StackInv
  <1>4. /\ 1 \in 1..Len(call[t].stack)
        /\ Len(call[t].stack) > 1 => 2 \in 1..Len(call[t].stack)
        /\ Len(call[t].stack) # 1 => 1 < Len(call[t].stack)
    <2>1. \A n \in Nat \ {0} :
            /\ 1 \in 1..n
            /\ n > 1 => 2 \in 1..n
            /\ n # 1 => 1 < n
      OBVIOUS
    <2> QED
      BY <1>2, <2>1
  <1>5. Top(t) = "posix_memalign" => Len(call[t].stack) = 1
    BY <1>3, <1>4, Kinds DEF Top
  <1>6. Len(call[t].stack) > 1 =>
          (Top(t) \in AllocFns <=> call[t].stack[2] \in AllocFns)
    BY <1>3, <1>4, Kinds DEF Top
  <1> QED
    BY <1>1, <1>2, <1>5, <1>6

\* Returning keeps the shape of the call trees.
LEMMA ReturnCalls ==
    ASSUME CallsOK, NEW t \in Tid, Returning(t), Return(t)
    PROVE  StackInv' /\ CallInv'
  <1>1. CASE Len(call[t].stack) = 1
    <2>1. call'[t] = Idle /\ \A u \in Tid : u # t => call'[u] = call[u]
      BY <1>1, ReturnFacts DEF Returned
    <2>2. Len(Idle.stack) = 0 /\ Idle.stack = <<>>
      BY DEF Idle
    <2>3. \A i \in 1..Len(call'[t].stack) : call'[t].stack[i] \in FreeFns
      BY <2>1, <2>2
    <2> QED
      BY <2>1, <2>2, <2>3 DEF CallsOK, StackInv, CallInv, InCall, Returning, Top
  <1>2. CASE Len(call[t].stack) # 1
    <2> DEFINE n == Len(call[t].stack)
    <2>1. /\ \A u \in Tid : u # t => call'[u] = call[u]
          /\ n \in Nat \ {0} /\ n # 1 /\ InCall(t)' /\ Returning(t)'
          /\ call'[t].ret = call[t].ret /\ call'[t].ptr = call[t].ptr
          /\ Len(call'[t].stack) = n - 1
          /\ \A i \in 1..(n - 1) : call'[t].stack[i] = call[t].stack[i + 1]
      BY <1>2, ReturnFacts, Zenon DEF Returned
    <2> HIDE DEF n
    <2>2. \A i \in 1..(n - 1) : i + 1 \in 1..n /\ (i < n - 1 => i + 1 < n)
      BY <2>1
    <2>3. 1 \in 1..(n - 1) /\ 2 \in 1..n /\ n - 1 \in 1..(n - 1) /\ (n - 1) + 1 = n
      BY <2>1
    <2>4. \/ \A i \in 1..n :
                /\ call[t].stack[i] \in AllocFns
                /\ i < n => call[t].stack[i] \in SizeFns
                /\ call[t].stack[i] \in NewFns => call[t].stack[n] \in NewFns
          \/ \A i \in 1..n : call[t].stack[i] \in FreeFns
      BY DEF CallsOK, StackInv, n
    <2>5. \/ \A i \in 1..(n - 1) :
                /\ call'[t].stack[i] \in AllocFns
                /\ i < n - 1 => call'[t].stack[i] \in SizeFns
                /\ call'[t].stack[i] \in NewFns => call'[t].stack[n - 1] \in NewFns
          \/ \A i \in 1..(n - 1) : call'[t].stack[i] \in FreeFns
      <3>1. call'[t].stack[n - 1] = call[t].stack[n]
        BY <2>1, <2>3
      <3> QED
        BY <2>1, <2>2, <2>4, <3>1
    <2>6. StackInv'
      BY <2>1, <2>5 DEF CallsOK, StackInv
    <2>7. call[t].ptr = NULL /\ Top(t) \notin FreeFns
      BY DEF CallsOK, CallInv
    <2>8. Top(t)' = call[t].stack[2]
      BY <2>1, <2>3 DEF Top
    <2>9. Top(t)' \notin FreeFns
      <3>1. InCall(t) /\ Top(t) \in AllFns
        BY TopFacts DEF Returning
      <3>2. Len(call[t].stack) > 1
        BY <1>2, ReturnFacts, Positive, Zenon DEF Returned
      <3> QED
        BY <2>7, <2>8, <3>1, <3>2, TopFacts, Kinds DEF AllFns
    <2>10. CallInv'
      BY <2>1, <2>7, <2>9 DEF CallsOK, CallInv, InCall, Returning, Top
    <2> QED
      BY <2>6, <2>10
  <1> QED
    BY <1>1, <1>2

\* The function's own work ends the call, or sets the result and lets go of
\* the block that was given up; nobody else notices.
Worked(t) ==
    /\ \A u \in Tid : u # t => call'[u] = call[u]
    /\ UNCHANGED kernel /\ InCall(t)
    /\ \/ /\ call'[t] = Idle
          /\ (Running(t) /\ Top(t) \in FreeFns) \/ Throws(t)
       \/ /\ call'[t].stack = call[t].stack /\ call'[t].size = call[t].size
          /\ call'[t].ptr = NULL /\ call'[t].ret \in Word
          /\ Executing(t) /\ Top(t) \in AllocFns

\* What the body of a function does to call and heap, stated as Worked.
LEMMA WorkFacts ==
    ASSUME CallsOK, NEW t \in Tid, Work(t)
    PROVE  Worked(t)
  <1>1. call[t] \in Frame /\ t \in DOMAIN call /\ NULL \in Word /\ MAP_FAILED \in Word
    BY DEF CallsOK, TypeOK, Word
  <1>2. ASSUME NEW r \in Word, Executing(t), Top(t) \in AllocFns,
               call' = [call EXCEPT ![t].ret = r, ![t].ptr = NULL]
        PROVE  /\ \A u \in Tid : u # t => call'[u] = call[u]
               /\ call'[t].stack = call[t].stack /\ call'[t].size = call[t].size
               /\ call'[t].ptr = NULL /\ call'[t].ret = r
               /\ InCall(t)
    <2>1. call'[t] = [call[t] EXCEPT !.ret = r, !.ptr = NULL]
      BY <1>1, <1>2
    <2>2. /\ call'[t].stack = call[t].stack /\ call'[t].size = call[t].size
          /\ call'[t].ptr = NULL /\ call'[t].ret = r
      BY <1>1, <2>1 DEF Frame
    <2>3. \A u \in Tid : u # t => call'[u] = call[u]
      BY <1>2 DEF CallsOK, TypeOK
    <2>4. InCall(t)
      BY <1>2 DEF Executing, Running
    <2> QED
      BY <2>2, <2>3, <2>4 DEF Worked
  <1>3. CASE Grant(t)
    <2>1. PICK a \in Addr : call' = [call EXCEPT ![t].ret = a, ![t].ptr = NULL]
      BY <1>3 DEF Grant
    <2>2. a \in Word
      BY DEF Word
    <2> QED
      BY <1>2, <1>3, <2>1, <2>2 DEF Grant, Worked
  <1>4. CASE ReallocToNothing(t)
    <2>1. "realloc" \in AllocFns
      BY DEF AllocFns, MoveFns
    <2> QED
      BY <1>1, <1>2, <1>4, <2>1 DEF ReallocToNothing, Worked
  <1>5. CASE Fail(t)
    <2>1. PICK r \in {NULL, MAP_FAILED} :
            call' = [call EXCEPT ![t].ret = r, ![t].ptr = NULL]
      BY <1>5 DEF Fail
    <2> QED
      BY <1>1, <1>2, <1>5, <2>1 DEF Fail, Worked
  <1>6. CASE Release(t) \/ Unwind(t)
    <2>1. call' = [call EXCEPT ![t] = Idle] /\ UNCHANGED kernel
      BY <1>6 DEF Release, Unwind
    <2>2. call'[t] = Idle /\ \A u \in Tid : u # t => call'[u] = call[u]
      BY <1>1, <2>1
    <2>3. (Running(t) /\ Top(t) \in FreeFns) \/ Throws(t)
      BY <1>6 DEF Release, Unwind, Executing
    <2>4. InCall(t)
      BY <2>3 DEF Running, Throws, Returning
    <2> QED
      BY <2>1, <2>2, <2>3, <2>4 DEF Worked
  <1> QED
    BY <1>3, <1>4, <1>5, <1>6 DEF Work, Worked

-----------------------------------------------------------------------------
(* The entry probes preserve the invariant. *)

\* An entry probe touches at most the record of the block that is given up.
LEMMA EnterHeld ==
    ASSUME TypeOK, ProbeInv, NEW t \in Tid, NEW fn \in AllFns, NEW size,
           NEW ptr \in Addr \cup {NULL},
           Entered(t, fn, size, ptr), heap' = heap,
           gen_free_enter(ptr) \/ (ptr = NULL /\ allocs' = allocs),
           \A u \in Tid : u # t => sizes'[u] = sizes[u]
    PROVE  HeldInv' /\ OwnInv' /\ NoFalseLeak'
  <1>1. None \notin Addr /\ NULL \notin Addr /\ Addr \subseteq Word
    BY WordAssumption DEF Word
  <1>2. \A w \in Word : allocs'[w] = allocs[w] \/ allocs'[w] = None
    BY DEF gen_free_enter, DeleteElem, TypeOK
  <1>3. ptr # NULL => heap[ptr] # None /\ allocs'[ptr] = None
    <2>1. ptr # NULL => ptr \in Addr
      OBVIOUS
    <2>2. ptr # NULL => allocs'[ptr] = None
      BY <1>1, <2>1 DEF gen_free_enter, DeleteElem, TypeOK
    <2>3. ptr # NULL => heap[ptr] # None
      BY <2>1 DEF Entered, ProbeInv, HeldInv
    <2> QED
      BY <2>2, <2>3
  <1>4. \A u \in Tid, a \in Addr : u # t /\ Holds(u, a)' => Holds(u, a)
    BY DEF Holds, Entered
  <1>5. \A a \in Addr : Holds(t, a)' => a = ptr /\ ptr # NULL
    BY <1>1 DEF Holds, Entered
  <1>6. ptr # NULL => \A u \in Tid : Holds(u, ptr) => u = t
    <2>1. ptr # NULL => ~Busy(ptr) \/ Holds(t, ptr)
      BY DEF Entered, Holds
    <2>2. ptr # NULL => ptr \in Addr
      OBVIOUS
    <2> QED
      BY <2>1, <2>2 DEF Busy, ProbeInv, OwnInv
  <1>7. OwnInv'
    <2> SUFFICES ASSUME NEW u \in Tid, NEW v \in Tid, NEW a \in Addr,
                        Holds(u, a)', Holds(v, a)'
                 PROVE  u = v
      BY DEF OwnInv
    <2> QED
      BY <1>4, <1>5, <1>6 DEF ProbeInv, OwnInv
  <1>8. HeldInv'
    <2> SUFFICES ASSUME NEW u \in Tid, NEW a \in Addr
                 PROVE  /\ call'[u].ptr = a => heap'[a] # None /\ allocs'[a] = None
                        /\ call'[u].ret = a =>
                              /\ heap'[a] # None /\ heap'[a].size = call'[u].size
                              /\ sizes'[u] # None => allocs'[a] = None
      BY DEF HeldInv
    <2>1. CASE u = t
      BY <1>1, <1>3, <2>1 DEF Entered
    <2>2. CASE u # t
      BY <1>1, <1>2, <2>2 DEF Entered, ProbeInv, HeldInv
    <2> QED
      BY <2>1, <2>2
  <1>9. NoFalseLeak'
    <2>1. DOMAIN allocs = Word /\ DOMAIN allocs' = Word
      BY DEF TypeOK, gen_free_enter, DeleteElem
    <2> QED
      BY <1>2, <2>1 DEF ProbeInv, NoFalseLeak, Keys
  <1> QED
    BY <1>7, <1>8, <1>9

\* What an allocation's entry probe leaves in sizes is of the call it enters.
LEMMA EnterSizes ==
    ASSUME TypeOK, ProbeInv, NEW t \in Tid, NEW fn \in AllocFns, NEW size \in Sizes,
           NEW site \in StackIds, NEW ptr,
           Entered(t, fn, size, ptr), gen_alloc_enter(t, size, site)
    PROVE  SizesInv' /\ \A u \in Tid : u # t => sizes'[u] = sizes[u]
  <1>1. \A u \in Tid : u # t => sizes'[u] = sizes[u]
    BY DEF gen_alloc_enter, UpdateElem, TypeOK
  <1>2. sizes'[t] = sizes[t] \/ sizes'[t].size = size
    BY DEF gen_alloc_enter, UpdateElem, TypeOK
  <1>3. sizes[t] # None => InCall(t) /\ sizes[t].size = call[t].size
    BY DEF ProbeInv, SizesInv
  <1>4. sizes'[t] # None => sizes'[t].size = size
    BY <1>2, <1>3 DEF Entered
  <1>5. /\ InCall(t)' /\ Top(t)' = fn /\ call'[t].size = size /\ ~Returning(t)'
        /\ \A u \in Tid : u # t => call'[u] = call[u]
    BY DEF Entered, Returning
  <1>6. ASSUME NEW u \in Tid, u # t, sizes'[u] # None
        PROVE  /\ InCall(u)' /\ Top(u)' \in AllocFns
               /\ sizes'[u].size = call'[u].size
               /\ Returning(u)' => Top(u)' \notin NewFns
    BY <1>1, <1>5, <1>6 DEF ProbeInv, SizesInv, InCall, Top, Returning
  <1>7. SizesInv'
    BY <1>4, <1>5, <1>6 DEF SizesInv
  <1> QED
    BY <1>1, <1>7

\* A map with room for all of a finite set of keys refuses none of them.
LEMMA RoomForAll ==
    ASSUME NEW m, NEW S, IsFiniteSet(S), NEW k \in S, Keys(m) \subseteq S \ {k},
           NEW max \in Nat, Cardinality(S) <= max
    PROVE  HasRoom(m, k, max)
  <1>1. IsFiniteSet(S \ {k}) /\ Cardinality(S \ {k}) = Cardinality(S) - 1
    BY FS_RemoveElement
  <1>2. IsFiniteSet(Keys(m)) /\ Cardinality(Keys(m)) <= Cardinality(S \ {k})
    BY <1>1, FS_Subset
  <1>3. Cardinality(Keys(m)) \in Nat /\ Cardinality(S) \in Nat
    BY <1>2, FS_CardinalityType
  <1>4. Cardinality(Keys(m)) < max
    BY <1>1, <1>2, <1>3
  <1> QED
    BY <1>4 DEF HasRoom

\* With an entry for every thread, memptrs never refuses the entry of a thread
\* that has none.
LEMMA RoomForMemptr ==
    ASSUME WellBehaved, TypeOK, NEW t \in Tid, memptrs[t] = None
    PROVE  HasRoom(memptrs, t, MaxMemptrs)
  <1>1. Keys(memptrs) \subseteq Tid \ {t}
    BY DEF Keys, TypeOK
  <1> QED
    BY <1>1, RoomForAll, DataAssumption DEF WellBehaved

\* memptrs follows the calls of posix_memalign through every entry probe.
LEMMA EnterMemptrs ==
    ASSUME WellBehaved, TypeOK, ProbeInv, NEW t \in Tid, NEW fn \in AllFns,
           NEW size, NEW ptr, Entered(t, fn, size, ptr),
           IF fn = "posix_memalign"
           THEN memptrs' = UpdateElem(memptrs, t, "memptr", MaxMemptrs)
           ELSE memptrs' = memptrs
    PROVE  MemptrsInv'
  <1>1. /\ \A u \in Tid : u # t => call'[u] = call[u]
        /\ InCall(t)' /\ Top(t)' = fn
    BY DEF Entered
  <1>2. \A u \in Tid : u # t => memptrs'[u] = memptrs[u]
    BY DEF UpdateElem, TypeOK
  <1>3. CASE ~InCall(t)
    <2>1. memptrs[t] = None
      BY <1>3 DEF ProbeInv, MemptrsInv
    <2>2. Len(call'[t].stack) = 1
      BY <1>3 DEF Entered
    <2>3. call'[t].stack[Len(call'[t].stack)] = fn
      BY <1>1, <2>2 DEF Top
    <2>4. memptrs'[t] # None <=> fn = "posix_memalign"
      BY <2>1, RoomForMemptr, WordAssumption DEF UpdateElem, TypeOK
    <2> QED
      BY <1>1, <1>2, <2>3, <2>4 DEF ProbeInv, MemptrsInv, InCall
  <1>4. CASE InCall(t)
    <2> DEFINE n == Len(call[t].stack)
    <2>1. /\ <<Top(t), fn>> \in Delegates /\ n \in Nat \ {0}
          /\ Len(call'[t].stack) = n + 1
          /\ \A i \in 2..(n + 1) : call'[t].stack[i] = call[t].stack[i - 1]
      BY <1>4 DEF Entered
    <2> HIDE DEF n
    <2>2. n + 1 \in 2..(n + 1) /\ (n + 1) - 1 = n
      BY <2>1
    <2>3. call'[t].stack[Len(call'[t].stack)] = call[t].stack[n]
      BY <2>1, <2>2
    <2>4. fn # "posix_memalign"
      BY <2>1, FnsAssumption, Kinds
    <2>5. memptrs'[t] = memptrs[t]
      BY <2>4
    <2> QED
      BY <1>1, <1>2, <1>4, <2>3, <2>5 DEF ProbeInv, MemptrsInv, InCall, n
  <1> QED
    BY <1>3, <1>4

\* The entry probes of the functions that allocate.
LEMMA AllocEntries ==
    ASSUME WellBehaved, TypeOK, ProbeInv, NEW t \in Tid, NEW fn \in AllocFns,
           NEW size \in Sizes, NEW site \in StackIds, NEW ptr \in Addr \cup {NULL},
           Enter(t, fn, size, ptr, site), gen_alloc_enter(t, size, site),
           fn \in SizeFns => ptr = NULL, heap' = heap,
           gen_free_enter(ptr) \/ (ptr = NULL /\ allocs' = allocs),
           IF fn = "posix_memalign"
           THEN memptrs' = UpdateElem(memptrs, t, "memptr", MaxMemptrs)
           ELSE memptrs' = memptrs
    PROVE  ProbeInv'
  <1>1. CallsOK /\ fn \in AllFns /\ size \in Sizes \cup {0} /\ site \in Int
    BY DataAssumption DEF CallsOK, ProbeInv, AllFns
  <1>2. Entered(t, fn, size, ptr)
    BY <1>1, EnterFacts
  <1>3. StackInv' /\ CallInv'
    BY <1>1, EnterCalls
  <1>4. SizesInv' /\ \A u \in Tid : u # t => sizes'[u] = sizes[u]
    BY <1>2, EnterSizes
  <1>5. HeldInv' /\ OwnInv' /\ NoFalseLeak'
    BY <1>1, <1>2, <1>4, EnterHeld
  <1>6. MemptrsInv'
    BY <1>1, <1>2, EnterMemptrs
  <1> QED
    BY <1>3, <1>4, <1>5, <1>6 DEF ProbeInv

\* The entry probes of the functions that free.
LEMMA FreeEntries ==
    ASSUME WellBehaved, TypeOK, ProbeInv, NEW t \in Tid, free_enter(t)
    PROVE  ProbeInv'
  <1>1. PICK fn \in FreeFns, ptr \in Addr \cup {NULL} :
          Enter(t, fn, 0, ptr, 0) /\ gen_free_enter(ptr)
    BY DEF free_enter
  <1>2. /\ CallsOK /\ fn \in AllFns /\ 0 \in Sizes \cup {0} /\ 0 \in Int
        /\ fn \notin SizeFns /\ fn # "posix_memalign" /\ fn \notin AllocFns
    BY Kinds DEF CallsOK, ProbeInv, AllFns
  <1>3. Entered(t, fn, 0, ptr)
    BY <1>1, <1>2, EnterFacts
  <1>4. StackInv' /\ CallInv'
    BY <1>1, <1>2, EnterCalls
  <1>5. sizes' = sizes /\ memptrs' = memptrs /\ heap' = heap
    BY DEF free_enter
  <1>6. sizes[t] = None
    <2>1. InCall(t) => Top(t) \notin AllocFns
      BY <1>2, <1>3, FnsAssumption, Kinds DEF Entered
    <2> QED
      BY <2>1 DEF ProbeInv, SizesInv
  <1>7. SizesInv'
    BY <1>3, <1>5, <1>6 DEF Entered, ProbeInv, SizesInv, InCall, Top, Returning
  <1>8. HeldInv' /\ OwnInv' /\ NoFalseLeak'
    BY <1>1, <1>2, <1>3, <1>5, EnterHeld
  <1>9. MemptrsInv'
    BY <1>2, <1>3, <1>5, EnterMemptrs
  <1> QED
    BY <1>4, <1>7, <1>8, <1>9 DEF ProbeInv

-----------------------------------------------------------------------------
(* The return probes preserve the invariant. *)

\* A return probe records the result of its call, once, or nothing.
LEMMA RecordHeld ==
    ASSUME TypeOK, ProbeInv, NEW t \in Tid, Returning(t), Returned(t), heap' = heap,
           NEW w \in Word, w = call[t].ret \/ w \in {NULL, MAP_FAILED},
           gen_alloc_exit2(t, w)
    PROVE  SizesInv' /\ HeldInv' /\ OwnInv' /\ NoFalseLeak'
  <1>1. /\ None \notin Addr /\ NULL \notin Addr /\ MAP_FAILED \notin Addr
        /\ Addr \subseteq Word /\ None \notin Word
    BY WordAssumption DEF Word
  <1>2. sizes'[t] = None /\ \A u \in Tid : u # t => sizes'[u] = sizes[u]
    BY DEF gen_alloc_exit2, DeleteElem, TypeOK
  <1>3. /\ \A u \in Tid : u # t => call'[u] = call[u]
        /\ call'[t].ptr = NULL
        /\ \/ call'[t].ret = None
           \/ call'[t].ret = call[t].ret /\ call'[t].size = call[t].size
    BY DEF Returned, Idle, ProbeInv, CallInv
  <1>4. \/ allocs' = allocs
        \/ /\ sizes[t] # None /\ w = call[t].ret /\ w \in Addr
           /\ allocs' = [allocs EXCEPT ![w] = sizes[t]]
    BY DEF gen_alloc_exit2, UpdateElem, Word
  <1>5. \A a \in Addr : allocs'[a] = allocs[a] \/ Holds(t, a)
    BY <1>1, <1>4 DEF Holds, TypeOK
  <1>6. \A u \in Tid, a \in Addr : Holds(u, a)' => Holds(u, a)
    BY <1>1, <1>3 DEF Holds
  <1>7. OwnInv'
    <2> SUFFICES ASSUME NEW u \in Tid, NEW v \in Tid, NEW a \in Addr,
                        Holds(u, a)', Holds(v, a)'
                 PROVE  u = v
      BY DEF OwnInv
    <2> QED
      BY <1>6 DEF ProbeInv, OwnInv
  <1>8. SizesInv'
    <2> SUFFICES ASSUME NEW u \in Tid, sizes'[u] # None
                 PROVE  /\ InCall(u)' /\ Top(u)' \in AllocFns
                        /\ sizes'[u].size = call'[u].size
                        /\ Returning(u)' => Top(u)' \notin NewFns
      BY DEF SizesInv
    <2>1. u # t /\ sizes'[u] = sizes[u] /\ call'[u] = call[u]
      BY <1>2, <1>3
    <2> QED
      BY <2>1 DEF ProbeInv, SizesInv, InCall, Top, Returning
  <1>9. HeldInv'
    <2> SUFFICES ASSUME NEW u \in Tid, NEW a \in Addr
                 PROVE  /\ call'[u].ptr = a => heap'[a] # None /\ allocs'[a] = None
                        /\ call'[u].ret = a =>
                              /\ heap'[a] # None /\ heap'[a].size = call'[u].size
                              /\ sizes'[u] # None => allocs'[a] = None
      BY DEF HeldInv
    <2>1. CASE u = t
      BY <1>1, <1>2, <1>3, <2>1 DEF ProbeInv, HeldInv
    <2>2. CASE u # t
      <3>1. Holds(u, a) => allocs'[a] = allocs[a]
        BY <1>5, <2>2 DEF ProbeInv, OwnInv
      <3>2. call'[u] = call[u] /\ sizes'[u] = sizes[u]
        BY <1>2, <1>3, <2>2
      <3> QED
        BY <3>1, <3>2 DEF ProbeInv, HeldInv, Holds
    <2> QED
      BY <2>1, <2>2
  <1>10. NoFalseLeak'
    <2>1. CASE allocs' = allocs
      BY <2>1 DEF ProbeInv, NoFalseLeak, Keys
    <2>2. CASE /\ sizes[t] # None /\ w = call[t].ret /\ w \in Addr
               /\ allocs' = [allocs EXCEPT ![w] = sizes[t]]
      <3>1. heap[w] # None /\ heap[w].size = sizes[t].size
        BY <2>2 DEF ProbeInv, HeldInv, SizesInv
      <3>2. DOMAIN allocs = Word /\ DOMAIN allocs' = Word
        BY <2>2 DEF TypeOK
      <3> QED
        BY <2>2, <3>1, <3>2 DEF ProbeInv, NoFalseLeak, Keys
    <2> QED
      BY <1>4, <2>1, <2>2
  <1> QED
    BY <1>7, <1>8, <1>9, <1>10

\* The return probe of every function that hands its result back itself.
LEMMA AllocExits ==
    ASSUME WellBehaved, TypeOK, ProbeInv, NEW t \in Tid, alloc_exit(t)
    PROVE  ProbeInv'
  <1>1. /\ Returning(t) /\ Return(t) /\ CallsOK /\ InCall(t)
        /\ gen_alloc_exit2(t, call[t].ret) /\ heap' = heap /\ memptrs' = memptrs
        /\ Top(t) \in SizeFns \cup MoveFns
    BY DEF alloc_exit, CallsOK, ProbeInv, Returning
  <1>2. call[t].ret \in Word
    BY <1>1 DEF TypeOK, Frame, Returning
  <1>3. Returned(t)
    BY <1>1, ReturnFacts
  <1>4. StackInv' /\ CallInv'
    BY <1>1, ReturnCalls
  <1>5. SizesInv' /\ HeldInv' /\ OwnInv' /\ NoFalseLeak'
    BY <1>1, <1>2, <1>3, RecordHeld
  <1>6. MemptrsInv'
    <2>1. \A u \in Tid : u # t => call'[u] = call[u]
      BY <1>3 DEF Returned
    <2>2. CASE Len(call[t].stack) = 1
      <3>1. call'[t] = Idle
        BY <1>3, <2>2 DEF Returned
      <3>2. memptrs[t] = None
        BY <1>1, <2>2, Kinds DEF ProbeInv, MemptrsInv, Top
      <3>3. ~InCall(t)'
        BY <3>1 DEF InCall, Idle
      <3> QED
        BY <1>1, <2>1, <3>2, <3>3 DEF ProbeInv, MemptrsInv, InCall
    <2>3. CASE Len(call[t].stack) # 1
      <3> DEFINE n == Len(call[t].stack)
      <3>1. /\ n \in Nat \ {0} /\ n # 1 /\ InCall(t)'
            /\ Len(call'[t].stack) = n - 1
            /\ \A i \in 1..(n - 1) : call'[t].stack[i] = call[t].stack[i + 1]
        BY <1>3, <2>3, Zenon DEF Returned
      <3> HIDE DEF n
      <3>2. n - 1 \in 1..(n - 1) /\ (n - 1) + 1 = n
        BY <3>1
      <3>3. call'[t].stack[Len(call'[t].stack)] = call[t].stack[n]
        BY <3>1, <3>2
      <3> QED
        BY <1>1, <2>1, <3>1, <3>3 DEF ProbeInv, MemptrsInv, InCall, n
    <2> QED
      BY <2>2, <2>3
  <1> QED
    BY <1>4, <1>5, <1>6 DEF ProbeInv

\* The return probe of posix_memalign: it finds the memptr that was saved.
LEMMA MemalignExits ==
    ASSUME WellBehaved, TypeOK, ProbeInv, NEW t \in Tid, NEW faults \in Faults,
           posix_memalign_exit(t, faults)
    PROVE  ProbeInv'
  <1>1. /\ Returning(t) /\ Return(t) /\ CallsOK /\ InCall(t)
        /\ Top(t) = "posix_memalign" /\ heap' = heap
        /\ memptrs' = DeleteElem(memptrs, t)
    BY DEF posix_memalign_exit, CallsOK, ProbeInv, Returning
  <1>2. call[t].ret \in Word
    BY <1>1 DEF TypeOK, Frame, Returning
  <1>3. Len(call[t].stack) = 1
    BY <1>1, TopFacts
  <1>4. memptrs[t] # None
    BY <1>1, <1>3 DEF ProbeInv, MemptrsInv, Top
  <1>5. PICK w \in Word : /\ w = call[t].ret \/ w \in {NULL, MAP_FAILED}
                          /\ gen_alloc_exit2(t, w)
    BY <1>2, <1>4, DataAssumption DEF posix_memalign_exit, WellBehaved, Faults
  <1>6. Returned(t)
    BY <1>1, ReturnFacts
  <1>7. StackInv' /\ CallInv'
    BY <1>1, ReturnCalls
  <1>8. SizesInv' /\ HeldInv' /\ OwnInv' /\ NoFalseLeak'
    BY <1>1, <1>5, <1>6, RecordHeld
  <1>9. MemptrsInv'
    <2>1. call'[t] = Idle /\ \A u \in Tid : u # t => call'[u] = call[u]
      BY <1>3, <1>6 DEF Returned
    <2>2. memptrs'[t] = None /\ \A u \in Tid : u # t => memptrs'[u] = memptrs[u]
      BY <1>1 DEF DeleteElem, TypeOK
    <2>3. ~InCall(t)'
      BY <2>1 DEF InCall, Idle
    <2> QED
      BY <2>1, <2>2, <2>3 DEF ProbeInv, MemptrsInv, InCall
  <1> QED
    BY <1>7, <1>8, <1>9 DEF ProbeInv

-----------------------------------------------------------------------------
(* The functions' own work, between the probes, preserves the invariant. *)

\* An operator new does nothing itself: it calls a probed function.
LEMMA NewDelegates ==
    ASSUME WellBehaved, ProbeInv, NEW t \in Tid, Executing(t)
    PROVE  Top(t) \notin NewFns
  <1> SUFFICES ASSUME Top(t) \in NewFns PROVE FALSE
    OBVIOUS
  <1>1. PICK g \in SizeFns : <<Top(t), g>> \in Delegates
    BY DEF WellBehaved
  <1>2. Running(t) /\ InCall(t)
    BY DEF Executing, Running
  <1>3. call[t].ptr = NULL
    BY <1>2, Kinds DEF ProbeInv, CallInv
  <1>4. g \in AllFns
    BY Kinds DEF AllFns
  <1> QED
    BY <1>1, <1>2, <1>3, <1>4 DEF Executing, Delegating

\* Work keeps the shape of the call trees.
LEMMA WorkShape ==
    ASSUME CallsOK, NEW t \in Tid, Work(t)
    PROVE  StackInv' /\ CallInv'
  <1>1. Worked(t)
    BY WorkFacts
  <1>2. \A u \in Tid : u # t => call'[u] = call[u]
    BY <1>1 DEF Worked
  <1>3. CASE call'[t] = Idle
    <2>1. call'[t].stack = <<>> /\ Len(<<>>) = 0 /\ ~InCall(t)' /\ ~Returning(t)'
      BY <1>3 DEF Idle, InCall, Returning
    <2>2. StackInv'
      BY <1>2, <2>1 DEF CallsOK, StackInv
    <2>3. CallInv'
      BY <1>2, <1>3, <2>1 DEF CallsOK, CallInv, InCall, Returning, Top
    <2> QED
      BY <2>2, <2>3
  <1>4. CASE /\ call'[t].stack = call[t].stack /\ call'[t].ptr = NULL
             /\ InCall(t) /\ Top(t) \in AllocFns
    <2>1. InCall(t)' /\ Top(t)' = Top(t) /\ Top(t) \notin FreeFns
      BY <1>4, Kinds DEF InCall, Top
    <2>2. StackInv'
      BY <1>2, <1>4 DEF CallsOK, StackInv
    <2>3. \A u \in Tid : u # t =>
            /\ ~InCall(u)' => call'[u] = Idle
            /\ Returning(u)' => call'[u].ptr = NULL /\ Top(u)' \notin FreeFns
            /\ InCall(u)' /\ Top(u)' \in SizeFns => call'[u].ptr = NULL
      BY <1>2 DEF CallsOK, CallInv, InCall, Returning, Top
    <2>4. CallInv'
      BY <1>4, <2>1, <2>3 DEF CallInv
    <2> QED
      BY <2>2, <2>4
  <1> QED
    BY <1>1, <1>3, <1>4 DEF Worked

\* Work keeps what sizes and memptrs have of the calls in progress.
LEMMA WorkCalls ==
    ASSUME WellBehaved, TypeOK, ProbeInv, NEW t \in Tid, Work(t)
    PROVE  SizesInv' /\ MemptrsInv'
  <1>1. CallsOK
    BY DEF CallsOK, ProbeInv
  <1>2. Worked(t)
    BY <1>1, WorkFacts
  <1>3. /\ \A u \in Tid : u # t => call'[u] = call[u]
        /\ sizes' = sizes /\ memptrs' = memptrs /\ InCall(t)
    BY <1>2 DEF Worked, kernel
  <1>4. Top(t) \in AllFns /\ Len(call[t].stack) \in Nat \ {0}
    BY <1>1, <1>3, TopFacts
  <1>5. CASE /\ call'[t] = Idle
             /\ (Running(t) /\ Top(t) \in FreeFns) \/ Throws(t)
    <2>1. ~InCall(t)' /\ ~Returning(t)'
      BY <1>5 DEF Idle, InCall, Returning
    <2>2. sizes[t] = None
      BY <1>5, Kinds DEF ProbeInv, SizesInv, Throws
    <2>3. 1 \in 1..Len(call[t].stack) /\ Len(call[t].stack) \in 1..Len(call[t].stack)
      BY <1>4
    <2>4. call[t].stack[Len(call[t].stack)] # "posix_memalign"
      BY <1>5, <2>3, Kinds DEF ProbeInv, StackInv, Top, Throws
    <2>5. memptrs[t] = None
      BY <2>4 DEF ProbeInv, MemptrsInv
    <2>6. SizesInv'
      BY <1>3, <2>2 DEF ProbeInv, SizesInv, InCall, Returning, Top
    <2>7. MemptrsInv'
      BY <1>3, <2>1, <2>5 DEF ProbeInv, MemptrsInv, InCall
    <2> QED
      BY <2>6, <2>7
  <1>6. CASE /\ call'[t].stack = call[t].stack /\ call'[t].size = call[t].size
             /\ Executing(t) /\ Top(t) \in AllocFns
    <2>1. InCall(t)' /\ Top(t)' = Top(t)
      BY <1>3, <1>6 DEF InCall, Top
    <2>2. Top(t) \notin NewFns
      BY <1>6, NewDelegates
    <2>3. SizesInv'
      <3>1. \A u \in Tid : u # t /\ sizes'[u] # None =>
              /\ InCall(u)' /\ Top(u)' \in AllocFns
              /\ sizes'[u].size = call'[u].size
              /\ Returning(u)' => Top(u)' \notin NewFns
        BY <1>3 DEF ProbeInv, SizesInv, InCall, Returning, Top
      <3>2. sizes'[t] # None =>
              /\ InCall(t)' /\ Top(t)' \in AllocFns
              /\ sizes'[t].size = call'[t].size
              /\ Returning(t)' => Top(t)' \notin NewFns
        BY <1>3, <1>6, <2>1, <2>2 DEF ProbeInv, SizesInv
      <3> QED
        BY <3>1, <3>2 DEF SizesInv
    <2>4. MemptrsInv'
      BY <1>3, <1>6 DEF ProbeInv, MemptrsInv, InCall
    <2> QED
      BY <2>3, <2>4
  <1> QED
    BY <1>2, <1>5, <1>6 DEF Worked

\* Work on the heap happens under blocks that have no record.
LEMMA WorkHeap ==
    ASSUME WellBehaved, TypeOK, ProbeInv, NEW t \in Tid, Work(t)
    PROVE  /\ allocs' = allocs /\ sizes' = sizes
           /\ \A u \in Tid : u # t => call'[u] = call[u]
           /\ \A a \in Addr : heap'[a] = heap[a] \/ allocs[a] = None
           /\ \A a \in Addr, u \in Tid : u # t /\ Holds(u, a) =>
                  heap'[a] = heap[a] /\ ~Holds(t, a)'
           /\ \A a \in Addr : Holds(t, a)' =>
                  /\ call'[t].ret = a /\ call'[t].ptr # a /\ allocs[a] = None
                  /\ heap'[a] # None /\ heap'[a].size = call'[t].size
  <1>0. /\ None \notin Addr /\ NULL \notin Addr /\ MAP_FAILED \notin Addr
        /\ Addr \subseteq Word /\ None \notin Block
    BY WordAssumption DEF Word
  <1>1. Worked(t)
    <2>1. CallsOK
      BY DEF CallsOK, ProbeInv
    <2> QED
      BY <2>1, WorkFacts
  <1>2. /\ allocs' = allocs /\ sizes' = sizes
        /\ \A u \in Tid : u # t => call'[u] = call[u]
    BY <1>1 DEF Worked, kernel
  <1>3. \A a \in Addr : call[t].ptr = a =>
          allocs[a] = None /\ \A u \in Tid : u # t => ~Holds(u, a)
    BY DEF ProbeInv, HeldInv, OwnInv, Holds
  <1>4. \A a \in Addr : heap[a] = None =>
          allocs[a] = None /\ \A u \in Tid : ~Holds(u, a)
    <2>1. \A a \in Addr : heap[a] = None => allocs[a] = None
      BY <1>0 DEF ProbeInv, NoFalseLeak, Keys, TypeOK
    <2>2. \A a \in Addr, u \in Tid : Holds(u, a) => heap[a] # None
      BY DEF ProbeInv, HeldInv, Holds
    <2> QED
      BY <2>1, <2>2
  <1>5. CASE Grant(t)
    <2>1. PICK a \in Addr :
            /\ heap[a] = None \/ a = call[t].ptr
            /\ heap' = [b \in Addr |->
                 IF b = a THEN [size |-> call[t].size, stack_id |-> call[t].site]
                 ELSE IF b = call[t].ptr THEN None ELSE heap[b]]
            /\ call' = [call EXCEPT ![t].ret = a, ![t].ptr = NULL]
      BY <1>5 DEF Grant
    <2>2. /\ call'[t].ret = a /\ call'[t].ptr = NULL
          /\ call'[t].size = call[t].size
      BY <2>1 DEF TypeOK, Frame
    <2>3. allocs[a] = None /\ \A u \in Tid : u # t => ~Holds(u, a)
      BY <1>3, <1>4, <2>1
    <2>4. [size |-> call[t].size, stack_id |-> call[t].site] \in Block
      BY DEF TypeOK, Frame, Block
    <2>5. heap'[a] # None /\ heap'[a].size = call'[t].size
      BY <1>0, <2>1, <2>2, <2>4
    <2>6. \A b \in Addr : b # a /\ b # call[t].ptr => heap'[b] = heap[b]
      BY <2>1
    <2>7. \A b \in Addr : Holds(t, b)' => b = a
      BY <1>0, <2>2 DEF Holds
    <2>8. \A b \in Addr : heap'[b] = heap[b] \/ allocs[b] = None
      BY <1>3, <2>3, <2>6
    <2>9. \A b \in Addr, u \in Tid : u # t /\ Holds(u, b) =>
            heap'[b] = heap[b] /\ ~Holds(t, b)'
      BY <1>3, <2>3, <2>6, <2>7
    <2>10. \A b \in Addr : Holds(t, b)' =>
             /\ call'[t].ret = b /\ call'[t].ptr # b /\ allocs[b] = None
             /\ heap'[b] # None /\ heap'[b].size = call'[t].size
      BY <1>0, <2>2, <2>3, <2>5, <2>7
    <2> QED
      BY <1>2, <2>8, <2>9, <2>10
  <1>6. CASE ReallocToNothing(t) \/ Fail(t) \/ Release(t) \/ Unwind(t)
    <2>1. \A b \in Addr : b # call[t].ptr => heap'[b] = heap[b]
      BY <1>6 DEF ReallocToNothing, Fail, Release, Unwind, TypeOK
    <2>2. \/ call'[t] = Idle
          \/ call'[t].ptr = NULL /\ call'[t].ret \in {NULL, MAP_FAILED}
      BY <1>6 DEF ReallocToNothing, Fail, Release, Unwind, TypeOK, Frame
    <2>3. \A b \in Addr : ~Holds(t, b)'
      BY <1>0, <2>2 DEF Holds, Idle
    <2> QED
      BY <1>2, <1>3, <2>1, <2>3
  <1> QED
    BY <1>5, <1>6 DEF Work

\* The work of one call.
LEMMA WorkStep ==
    ASSUME WellBehaved, TypeOK, ProbeInv, NEW t \in Tid, Work(t)
    PROVE  ProbeInv'
  <1>1. StackInv' /\ CallInv' /\ SizesInv' /\ MemptrsInv'
    BY WorkShape, WorkCalls DEF CallsOK, ProbeInv
  <1>2. OwnInv'
    <2> SUFFICES ASSUME NEW u \in Tid, NEW v \in Tid, NEW a \in Addr,
                        Holds(u, a)', Holds(v, a)', u # v
                 PROVE  FALSE
      BY DEF OwnInv
    <2>1. \A x \in Tid : x # t => (Holds(x, a)' <=> Holds(x, a))
      BY WorkHeap DEF Holds
    <2>2. CASE u = t
      BY <2>1, <2>2, WorkHeap
    <2>3. CASE v = t
      BY <2>1, <2>3, WorkHeap
    <2>4. CASE u # t /\ v # t
      BY <2>1, <2>4 DEF ProbeInv, OwnInv
    <2> QED
      BY <2>2, <2>3, <2>4
  <1>3. HeldInv'
    <2> SUFFICES ASSUME NEW u \in Tid, NEW a \in Addr
                 PROVE  /\ call'[u].ptr = a => heap'[a] # None /\ allocs'[a] = None
                        /\ call'[u].ret = a =>
                              /\ heap'[a] # None /\ heap'[a].size = call'[u].size
                              /\ sizes'[u] # None => allocs'[a] = None
      BY DEF HeldInv
    <2>1. CASE u = t
      BY <2>1, WorkHeap DEF Holds
    <2>2. CASE u # t
      <3>1. call'[u] = call[u] /\ allocs' = allocs /\ sizes' = sizes
        BY <2>2, WorkHeap
      <3>2. Holds(u, a) => heap'[a] = heap[a]
        BY <2>2, WorkHeap
      <3> QED
        BY <3>1, <3>2 DEF ProbeInv, HeldInv, Holds
    <2> QED
      BY <2>1, <2>2
  <1>4. NoFalseLeak'
    <2>1. allocs' = allocs /\ \A a \in Addr : heap'[a] = heap[a] \/ allocs[a] = None
      BY WorkHeap
    <2> QED
      BY <2>1 DEF ProbeInv, NoFalseLeak, Keys
  <1> QED
    BY <1>1, <1>2, <1>3, <1>4 DEF ProbeInv

-----------------------------------------------------------------------------
(* The theorems. *)

\* Every initial state satisfies the inductive invariant.
LEMMA ProbeInit == Init => ProbeInv
  <1> SUFFICES ASSUME Init PROVE ProbeInv
    OBVIOUS
  <1>1. /\ None \notin Addr /\ NULL \notin Addr /\ NULL # None
        /\ \A t \in Tid : call[t] = Idle
    BY WordAssumption DEF Init, Word
  <1>2. \A t \in Tid : /\ ~InCall(t) /\ ~Returning(t)
                      /\ call[t].ptr = NULL /\ call[t].ret = None
                      /\ call[t].stack = <<>> /\ Len(call[t].stack) = 0
    BY <1>1 DEF InCall, Returning, Idle
  <1>3. StackInv /\ CallInv
    BY <1>1, <1>2 DEF StackInv, CallInv
  <1>4. MemptrsInv /\ SizesInv
    BY <1>2 DEF Init, MemptrsInv, SizesInv
  <1>5. HeldInv /\ OwnInv
    BY <1>1, <1>2 DEF HeldInv, OwnInv, Holds
  <1>6. NoFalseLeak
    BY DEF Init, NoFalseLeak, Keys
  <1> QED
    BY <1>3, <1>4, <1>5, <1>6 DEF ProbeInv

\* Every step keeps the inductive invariant, one step an action.
LEMMA ProbeStep ==
    ASSUME WellBehaved, TypeOK, ProbeInv, [Next]_vars
    PROVE  ProbeInv'
  <1>1. ASSUME NEW t \in Tid, alloc_enter(t) PROVE ProbeInv'
    <2>1. PICK fn \in SizeFns, size \in Sizes, site \in StackIds :
            Enter(t, fn, size, NULL, site) /\ gen_alloc_enter(t, size, site)
      BY <1>1 DEF alloc_enter
    <2>2. memptrs' = memptrs /\ allocs' = allocs /\ heap' = heap
      BY <1>1 DEF alloc_enter
    <2>3. fn \in AllocFns /\ fn # "posix_memalign"
      BY Kinds
    <2> QED
      BY <2>1, <2>2, <2>3, AllocEntries
  <1>2. ASSUME NEW t \in Tid, realloc_enter(t) PROVE ProbeInv'
    <2>1. PICK fn \in MoveFns, size \in Sizes, site \in StackIds,
               ptr \in Addr \cup {NULL} :
            /\ Enter(t, fn, size, ptr, site)
            /\ gen_free_enter(ptr) /\ gen_alloc_enter(t, size, site)
      BY <1>2 DEF realloc_enter
    <2>2. memptrs' = memptrs /\ heap' = heap
      BY <1>2 DEF realloc_enter
    <2>3. fn \in AllocFns /\ fn # "posix_memalign" /\ fn \notin SizeFns
      BY Kinds
    <2> QED
      BY <2>1, <2>2, <2>3, AllocEntries
  <1>3. ASSUME NEW t \in Tid, posix_memalign_enter(t) PROVE ProbeInv'
    <2>1. PICK size \in Sizes, site \in StackIds :
            /\ Enter(t, "posix_memalign", size, NULL, site)
            /\ gen_alloc_enter(t, size, site)
      BY <1>3 DEF posix_memalign_enter
    <2>2. /\ memptrs' = UpdateElem(memptrs, t, "memptr", MaxMemptrs)
          /\ allocs' = allocs /\ heap' = heap
      BY <1>3 DEF posix_memalign_enter
    <2>3. "posix_memalign" \in AllocFns
      BY Kinds
    <2> QED
      BY <2>1, <2>2, <2>3, AllocEntries
  <1>4. ASSUME NEW t \in Tid, free_enter(t) PROVE ProbeInv'
    BY <1>4, FreeEntries
  <1>5. ASSUME NEW t \in Tid, Work(t) PROVE ProbeInv'
    BY <1>5, WorkStep
  <1>6. ASSUME NEW t \in Tid, alloc_exit(t) PROVE ProbeInv'
    BY <1>6, AllocExits
  <1>7. ASSUME NEW t \in Tid, NEW faults \in Faults,
               posix_memalign_exit(t, faults)
        PROVE  ProbeInv'
    BY <1>7, MemalignExits
  <1>8. CASE UNCHANGED vars
    BY <1>8 DEF vars, ProbeInv, StackInv, CallInv, MemptrsInv, SizesInv, HeldInv,
                OwnInv, NoFalseLeak, InCall, Returning, Top, Holds, Keys
  <1> QED
    BY <1>1, <1>2, <1>3, <1>4, <1>5, <1>6, <1>7, <1>8
       DEF Next, EnterProbe, ExitProbe

\* The invariant that ties the maps, the calls in progress and the heap holds in
\* every state, for any number of threads and addresses.
THEOREM ProbesInductive == ASSUME WellBehaved PROVE Spec => []ProbeInv
  <1>1. ProbeInv /\ TypeOK /\ [Next]_vars => ProbeInv'
    BY ProbeStep
  <1> QED
    BY <1>1, ProbeInit, TypeCorrect, PTL DEF Spec

\* The address map never lists a block that is not live, nor a wrong size: the
\* free probe runs before the block can be handed out again, and the return
\* probe before anybody can free it.
THEOREM Soundness == ASSUME WellBehaved PROVE Spec => []NoFalseLeak
  <1>1. ProbeInv => NoFalseLeak
    BY DEF ProbeInv
  <1> QED
    BY <1>1, ProbesInductive, PTL

\* No path through a call, failure included, leaves an entry in the per-thread
\* maps for the thread's next call to trip over.
THEOREM NothingLeftBehind == ASSUME WellBehaved PROVE Spec => []CallsLeaveNothing
  <1>1. ProbeInv => CallsLeaveNothing
    BY DEF ProbeInv, SizesInv, MemptrsInv, CallsLeaveNothing
  <1> QED
    BY <1>1, ProbesInductive, PTL

\* The address map implements the ledger of AllocTable: every probe enters one
\* record where there is none, removes one record, or leaves the ledger alone.
THEOREM ImplementsLedger == ASSUME WellBehaved PROVE Spec => LedgerSpec
  <1>1. Init => Ledger!TableInit
    BY DEF Init, Ledger!TableInit
  <1>2. ASSUME TypeOK, ProbeInv, [Next]_vars PROVE [Ledger!TableNext]_allocs
    <2>1. ASSUME NEW w \in Word, gen_free_enter(w) PROVE [Ledger!TableNext]_allocs
      <3>1. CASE allocs[w] = None
        BY <1>2, <2>1, <3>1 DEF gen_free_enter, DeleteElem, TypeOK
      <3>2. CASE allocs[w] # None
        <4>1. Ledger!Remove(w)
          BY <2>1, <3>2 DEF Ledger!Remove, gen_free_enter, DeleteElem
        <4> QED
          BY <4>1 DEF Ledger!TableNext
      <3> QED
        BY <3>1, <3>2
    <2>2. ASSUME NEW t \in Tid, Returning(t), NEW w \in Word,
                 w = call[t].ret \/ w \in {NULL, MAP_FAILED}, gen_alloc_exit2(t, w)
          PROVE [Ledger!TableNext]_allocs
      <3>1. CASE allocs' = allocs
        BY <3>1
      <3>2. CASE allocs' # allocs
        <4>1. /\ sizes[t] # None /\ w = call[t].ret /\ w \notin {NULL, MAP_FAILED}
              /\ allocs' = [allocs EXCEPT ![w] = sizes[t]]
          BY <2>2, <3>2 DEF gen_alloc_exit2, UpdateElem
        <4>2. w \in Addr /\ sizes[t] \in Info
          BY <1>2, <2>2, <4>1 DEF Word, TypeOK
        <4>3. allocs[w] = None
          BY <1>2, <4>1, <4>2 DEF ProbeInv, HeldInv
        <4>4. Ledger!Enter(w, sizes[t])
          BY <4>1, <4>3 DEF Ledger!Enter
        <4> QED
          BY <4>1, <4>2, <4>4 DEF Ledger!TableNext
      <3> QED
        BY <3>1, <3>2
    <2>3. ASSUME NEW t \in Tid, EnterProbe(t) PROVE [Ledger!TableNext]_allocs
      <3>1. allocs' = allocs \/ \E ptr \in Addr \cup {NULL} : gen_free_enter(ptr)
        BY <2>3 DEF EnterProbe, alloc_enter, realloc_enter, posix_memalign_enter,
                    free_enter
      <3> QED
        BY <2>1, <3>1 DEF Word
    <2>4. ASSUME NEW t \in Tid, Work(t) PROVE [Ledger!TableNext]_allocs
      BY <2>4 DEF Work, Grant, ReallocToNothing, Fail, Release, Unwind, kernel
    <2>5. ASSUME NEW t \in Tid, alloc_exit(t) PROVE [Ledger!TableNext]_allocs
      <3>1. call[t].ret \in Word /\ Returning(t)
        BY <1>2, <2>5 DEF alloc_exit, Returning, TypeOK, Frame
      <3> QED
        BY <2>2, <2>5, <3>1 DEF alloc_exit
    <2>6. ASSUME NEW t \in Tid, NEW faults \in Faults,
           posix_memalign_exit(t, faults)
          PROVE  [Ledger!TableNext]_allocs
      <3>1. call[t].ret \in Word /\ Returning(t)
        BY <1>2, <2>6 DEF posix_memalign_exit, Returning, TypeOK, Frame
      <3>2. \/ allocs' = allocs
            \/ \E w \in Word : /\ w = call[t].ret \/ w \in {NULL, MAP_FAILED}
                               /\ gen_alloc_exit2(t, w)
        BY <2>6, <3>1, DataAssumption DEF posix_memalign_exit, WellBehaved, Faults
      <3> QED
        BY <2>2, <3>1, <3>2
    <2>7. CASE UNCHANGED vars
      BY <2>7 DEF vars
    <2> QED
      BY <1>2, <2>3, <2>4, <2>5, <2>6, <2>7 DEF Next, ExitProbe
  <1> QED
    BY <1>1, <1>2, ProbesInductive, TypeCorrect, PTL
       DEF Spec, LedgerSpec, Ledger!TableSpec

=============================================================================
