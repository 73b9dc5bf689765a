-------------------------- MODULE Bootstrap_proofs --------------------------
(***************************************************************************)
(* Proofs about bootstrap, for every set of pids, every filter and every   *)
(* capacity of exec_start and of the ring buffer.                          *)
(***************************************************************************)
EXTENDS Bootstrap, SequenceTheorems, TLAPS

Slot == [event : Event, busy : BOOLEAN]

\* Reserving puts one event at the end of the buffer, or drops it.
LEMMA ReserveFacts ==
    ASSUME rb \in Seq(Slot), Len(rb) <= RingSize, NEW e \in Event, Reserve(e)
    PROVE  /\ rb' \in Seq(Slot) /\ Len(rb') <= RingSize
           /\ \/ rb' = rb
              \/ /\ Len(rb') = Len(rb) + 1
                 /\ \A i \in 1..Len(rb) : rb'[i] = rb[i]
                 /\ rb'[Len(rb) + 1].event = e
  <1>1. [event |-> e, busy |-> TRUE] \in Slot
    BY DEF Slot
  <1>2. CASE Len(rb) < RingSize
    <2>1. rb' = Append(rb, [event |-> e, busy |-> TRUE])
      BY <1>2 DEF Reserve
    <2>2. rb' \in Seq(Slot) /\ Len(rb') = Len(rb) + 1
      BY <1>1, <2>1
    <2>3. \A i \in 1..Len(rb) : rb'[i] = rb[i]
      BY <2>1
    <2>4. rb'[Len(rb) + 1] = [event |-> e, busy |-> TRUE]
      BY <2>1
    <2> QED
      BY <1>2, <2>2, <2>3, <2>4, BootstrapAssumption
  <1>3. CASE ~(Len(rb) < RingSize)
    BY <1>3 DEF Reserve
  <1> QED
    BY <1>2, <1>3

\* Submitting marks samples and moves none.
LEMMA SubmitFacts ==
    ASSUME rb \in Seq(Slot), NEW p \in Pid, Submit(p)
    PROVE  /\ rb' \in Seq(Slot) /\ Len(rb') = Len(rb)
           /\ \A i \in 1..Len(rb) : rb'[i].event = rb[i].event
  <1>1. rb' = [i \in 1..Len(rb) |->
                IF rb[i].event.pid = p THEN [rb[i] EXCEPT !.busy = FALSE] ELSE rb[i]]
    BY DEF Submit
  <1>2. \A i \in 1..Len(rb) :
            /\ rb[i] \in Slot
            /\ [rb[i] EXCEPT !.busy = FALSE] \in Slot
            /\ [rb[i] EXCEPT !.busy = FALSE].event = rb[i].event
    <2>1. \A x \in Slot : /\ [x EXCEPT !.busy = FALSE] \in Slot
                          /\ [x EXCEPT !.busy = FALSE].event = x.event
      BY DEF Slot
    <2> QED
      BY <2>1, ElementOfSeq
  <1>3. rb' \in [1..Len(rb) -> Slot]
    BY <1>1, <1>2
  <1>4. rb' \in Seq(Slot) /\ Len(rb') = Len(rb)
    <2>1. Len(rb) \in Nat
      OBVIOUS
    <2>2. rb' \in Seq(Slot)
      BY <1>3, <2>1, SeqDef
    <2> QED
      BY <1>3, <2>1, <2>2, LenProperties
  <1> QED
    BY <1>1, <1>2, <1>4

\* Printing takes the oldest sample, the others move up.
LEMMA PrintFacts ==
    ASSUME rb \in Seq(Slot), handle_event
    PROVE  /\ rb' \in Seq(Slot) /\ Len(rb) >= 1 /\ Len(rb') = Len(rb) - 1
           /\ \A i \in 1..(Len(rb) - 1) : rb'[i] = rb[i + 1]
  <1>1. rb # <<>> /\ rb' = SubSeq(rb, 1, 0) \o SubSeq(rb, 2, Len(rb))
    BY DEF handle_event, Readable
  <1>2. Len(rb) \in Nat /\ Len(rb) >= 1
    BY <1>1
  <1>3. SubSeq(rb, 1, 0) = <<>>
    BY <1>2
  <1>4. rb' = Tail(rb)
    BY <1>1, <1>3, TailIsSubSeq
  <1>5. Tail(rb) \in Seq(Slot) /\ Len(Tail(rb)) = Len(rb) - 1
    BY <1>1, HeadTailProperties
  <1>6. \A i \in 1..Len(Tail(rb)) : Tail(rb)[i] = rb[i + 1]
    BY <1>1, HeadTailProperties
  <1> QED
    BY <1>1, <1>2, <1>4, <1>5, <1>6

\* A map helper keeps the type of exec_start, changes one key at most, and that
\* to the value that it is given.
LEMMA StartTypes ==
    ASSUME exec_start \in [Pid -> Time \cup {None}], NEW p \in Pid, NEW v \in Time
    PROVE  /\ DeleteElem(exec_start, p) \in [Pid -> Time \cup {None}]
           /\ UpdateElem(exec_start, p, v, MaxStarts) \in [Pid -> Time \cup {None}]
           /\ \A q \in Pid : q # p =>
                 /\ DeleteElem(exec_start, p)[q] = exec_start[q]
                 /\ UpdateElem(exec_start, p, v, MaxStarts)[q] = exec_start[q]
           /\ DeleteElem(exec_start, p)[p] = None
           /\ UpdateElem(exec_start, p, v, MaxStarts)[p] \in {v, None}
           /\ HasRoom(exec_start, p, MaxStarts) =>
                 UpdateElem(exec_start, p, v, MaxStarts)[p] = v
  <1>1. exec_start[p] # None => UpdateElem(exec_start, p, v, MaxStarts)[p] = v
    BY DEF UpdateElem, HasRoom, Keys
  <1> QED
    BY <1>1 DEF UpdateElem, DeleteElem

-----------------------------------------------------------------------------
(* The buffer. *)

\* What DurationExact and DurationKnown say of one event.
Exact(e) ==
    /\ e.exit_event /\ ~e.orphan =>
        /\ e.duration_ns \in {0, e.ran}
        /\ min_duration_ns # 0 => e.duration_ns = e.ran /\ e.ran >= min_duration_ns
    /\ e.exit_event /\ e.noted => e.duration_ns = e.ran

\* The part of the invariant that is about the buffer.
BufferInv == rb \in Seq(Slot) /\ Len(rb) <= RingSize /\ DurationExact /\ DurationKnown

\* It is one about the samples.
LEMMA ExactBySample ==
    DurationExact /\ DurationKnown <=> \A i \in DOMAIN rb : Exact(rb[i].event)
  BY DEF DurationExact, DurationKnown, Events, Exact

\* A handler that reserves for an exact event keeps the buffer in order.
LEMMA ReserveKeeps ==
    ASSUME BufferInv, NEW e \in Event, Exact(e), Reserve(e),
           min_duration_ns' = min_duration_ns
    PROVE  BufferInv'
  <1>1. rb' \in Seq(Slot) /\ Len(rb') <= RingSize
    BY ReserveFacts DEF BufferInv
  <1>2. \A i \in DOMAIN rb : Exact(rb[i].event)
    BY ExactBySample DEF BufferInv
  <1>3. \A i \in DOMAIN rb' : Exact(rb'[i].event)
    <2>1. CASE rb' = rb
      BY <1>2, <2>1
    <2>2. CASE /\ Len(rb') = Len(rb) + 1
               /\ \A i \in 1..Len(rb) : rb'[i] = rb[i]
               /\ rb'[Len(rb) + 1].event = e
      <3>1. /\ Len(rb) \in Nat /\ DOMAIN rb = 1..Len(rb)
            /\ DOMAIN rb' = 1..(Len(rb) + 1)
        BY <1>1, <2>2, LenProperties DEF BufferInv
      <3>2. \A i \in DOMAIN rb' : i \in 1..Len(rb) \/ i = Len(rb) + 1
        BY <3>1
      <3> QED
        BY <1>2, <2>2, <3>1, <3>2
    <2> QED
      BY <2>1, <2>2, ReserveFacts DEF BufferInv
  <1>4. DurationExact' /\ DurationKnown'
    BY <1>3 DEF DurationExact, DurationKnown, Events, Exact
  <1> QED
    BY <1>1, <1>4 DEF BufferInv

\* A step that leaves the buffer alone keeps it in order.
LEMMA QuietKeeps ==
    ASSUME BufferInv, UNCHANGED <<rb, min_duration_ns>>
    PROVE  BufferInv'
  BY DEF BufferInv, DurationExact, DurationKnown, Events

\* Submitting keeps it in order.
LEMMA SubmitKeeps ==
    ASSUME BufferInv, NEW p \in Pid, Submit(p)
    PROVE  BufferInv'
  <1>1. /\ rb' \in Seq(Slot) /\ Len(rb') = Len(rb)
        /\ \A i \in 1..Len(rb) : rb'[i].event = rb[i].event
    BY SubmitFacts DEF BufferInv
  <1>2. min_duration_ns' = min_duration_ns
    BY DEF Submit, loaded
  <1>3. DOMAIN rb = 1..Len(rb) /\ DOMAIN rb' = 1..Len(rb)
    BY <1>1, LenProperties DEF BufferInv
  <1>4. \A i \in DOMAIN rb : Exact(rb[i].event)
    BY ExactBySample DEF BufferInv
  <1>5. \A i \in DOMAIN rb' : Exact(rb'[i].event)
    BY <1>1, <1>3, <1>4
  <1>6. DurationExact' /\ DurationKnown'
    BY <1>2, <1>5 DEF DurationExact, DurationKnown, Events, Exact
  <1> QED
    BY <1>1, <1>6 DEF BufferInv

\* Printing takes the oldest sample and keeps the others in order.
LEMMA PrintKeeps ==
    ASSUME BufferInv, handle_event
    PROVE  BufferInv'
  <1>1. /\ rb' \in Seq(Slot) /\ Len(rb) >= 1 /\ Len(rb') = Len(rb) - 1
        /\ \A i \in 1..(Len(rb) - 1) : rb'[i] = rb[i + 1]
    BY PrintFacts DEF BufferInv
  <1>2. min_duration_ns' = min_duration_ns
    BY DEF handle_event, loaded
  <1>3. Len(rb) \in Nat /\ DOMAIN rb = 1..Len(rb) /\ DOMAIN rb' = 1..(Len(rb) - 1)
    BY <1>1, LenProperties DEF BufferInv
  <1>4. \A i \in DOMAIN rb' : i + 1 \in DOMAIN rb /\ rb'[i] = rb[i + 1]
    BY <1>1, <1>3
  <1>5. \A i \in DOMAIN rb : Exact(rb[i].event)
    BY ExactBySample DEF BufferInv
  <1>6. \A i \in DOMAIN rb' : Exact(rb'[i].event)
    BY <1>4, <1>5
  <1>7. DurationExact' /\ DurationKnown'
    BY <1>2, <1>6 DEF DurationExact, DurationKnown, Events, Exact
  <1> QED
    BY <1>1, <1>3, <1>7, BootstrapAssumption DEF BufferInv

-----------------------------------------------------------------------------
(* The rest of the state. *)

\* The part of the invariant that is not about the buffer.
StateInv ==
    /\ exec_start \in [Pid -> Time \cup {None}]
    /\ min_duration_ns \in MinDurations /\ exiting \in BOOLEAN
    /\ now \in Time
    /\ orphans \subseteq Pid /\ proc \in [Pid -> Process \cup {None}]
    /\ StartsPast /\ Phases /\ StartsOwned /\ NotedKept

\* The invariant is made of these two parts.
LEMMA Parts == HandlersInv <=> StateInv /\ BufferInv
  <1>1. Phases => /\ attached \subseteq {"handle_exec", "handle_exit"}
                  /\ pc \in {"load", "attach_exec", "attach_exit", "loop", "poll", "done"}
    BY DEF Phases
  <1> QED
    BY <1>1 DEF HandlersInv, StateInv, BufferInv, TypeOK, Slot

\* A time is a natural number, and so is the time that has passed since another.
LEMMA Times ==
    /\ Time \subseteq Nat /\ 0 \notin Time
    /\ \A s \in Time : s <= now /\ now \in Time => now - s \in Nat
  BY BootstrapAssumption DEF Time

\* What is known of a process that is alive.
LEMMA AliveFacts ==
    ASSUME StateInv, NEW p \in Pid, Alive(p)
    PROVE  /\ proc[p] \in Process
           /\ proc[p].leader \in BOOLEAN /\ proc[p].worker \in BOOLEAN
           /\ proc[p].started \in 0..MaxTime /\ proc[p].exits \in Nat
           /\ proc[p].noted \in BOOLEAN /\ proc[p].started <= now
           /\ now \in Nat /\ now - proc[p].started \in Nat
  <1>1. proc[p] \in Process /\ proc[p].started <= now
    BY DEF StateInv, Alive, StartsPast
  <1>2. /\ proc[p].leader \in BOOLEAN /\ proc[p].worker \in BOOLEAN
        /\ proc[p].started \in 0..MaxTime /\ proc[p].exits \in Nat
        /\ proc[p].noted \in BOOLEAN
    BY <1>1 DEF Process
  <1>3. now \in Nat /\ MaxTime \in Nat
    BY Times, BootstrapAssumption DEF StateInv
  <1> QED
    BY <1>1, <1>2, <1>3

\* A process that loses a thread is gone with its last.
LEMMA AfterExitFacts ==
    ASSUME StateInv, NEW p \in Pid, NEW q \in Process, q.started <= now,
           proc' = AfterExit(p, q)
    PROVE  /\ proc' \in [Pid -> Process \cup {None}]
           /\ \A o \in Pid : o # p => proc'[o] = proc[o]
           /\ proc'[p] \in {q, None}
           /\ q.leader => proc'[p] = q
  BY DEF StateInv, AfterExit

\* Handle_exec records the start and emits an exact event, if there is room.
LEMMA ExecFacts ==
    ASSUME StateInv, BufferInv, NEW p \in Pid, Alive(p), handle_exec(p),
           UNCHANGED min_duration_ns
    PROVE  exec_start' = UpdateElem(exec_start, p, now, MaxStarts) /\ BufferInv'
  <1> DEFINE e == [exit_event |-> FALSE, pid |-> p, duration_ns |-> 0, ran |-> 0,
                   noted |-> FALSE, before |-> proc[p].exits, orphan |-> FALSE]
  <1>1. e \in Event /\ Exact(e)
    BY AliveFacts DEF Event, Exact
  <1>2. CASE min_duration_ns # 0
    BY <1>2, QuietKeeps DEF handle_exec, RememberStart
  <1>3. CASE min_duration_ns = 0
    <2>1. Reserve(e)
      BY <1>3 DEF handle_exec
    <2> HIDE DEF e
    <2>2. BufferInv'
      BY <1>1, <2>1, ReserveKeeps
    <2> QED
      BY <2>2 DEF handle_exec, RememberStart
  <1> QED
    BY <1>2, <1>3

\* Handle_exit removes the start that it finds, on every path, and the event that
\* it emits is exact.
LEMMA ExitFacts ==
    ASSUME StateInv, BufferInv, NEW p \in Pid, Alive(p), proc[p].leader, handle_exit(p),
           attached = {"handle_exec", "handle_exit"},
           UNCHANGED min_duration_ns
    PROVE  exec_start' = DeleteElem(exec_start, p) /\ BufferInv'
  <1> DEFINE start == exec_start[p]
             duration == IF start = None THEN 0 ELSE Lifetime(start)
             ran == IF proc[p].started = 0 THEN 0 ELSE now - proc[p].started
             e == ExitEvent(p, duration)
  <1>1. duration \in Nat /\ ran \in Nat
    <2>1. start # None => start \in Time /\ start <= now
      BY DEF StateInv, StartsPast
    <2>2. now \in Time
      BY DEF StateInv
    <2>3. duration \in Nat
      BY <2>1, <2>2, Times DEF Lifetime
    <2> QED
      BY <2>3, AliveFacts
  <1>2. start # None /\ p \notin orphans => duration = ran
    <2> SUFFICES ASSUME start # None, p \notin orphans PROVE duration = ran
      OBVIOUS
    <2>1. p \in Keys(exec_start) \ orphans
      BY DEF Keys, StateInv
    <2>2. pc # "done"
      BY DEF StateInv, Phases
    <2>3. start = proc[p].started
      BY <2>1, <2>2 DEF StateInv, StartsOwned
    <2>4. start \in Time
      BY DEF StateInv
    <2> QED
      BY <2>3, <2>4, Times DEF Lifetime
  <1>3. start = None => duration = 0
    OBVIOUS
  <1>4. proc[p].noted => duration = ran
    <2> SUFFICES ASSUME proc[p].noted PROVE duration = ran
      OBVIOUS
    <2>1. p \in Keys(exec_start) /\ start = proc[p].started
      BY DEF StateInv, NotedKept
    <2>2. start \in Time
      BY <2>1 DEF StateInv, Keys
    <2> QED
      BY <2>1, <2>2, Times, NoneAssumption DEF Lifetime
  <1>7. /\ e \in Event /\ e.duration_ns = duration /\ e.ran = ran
        /\ e.orphan <=> p \in orphans
        /\ e.noted = proc[p].noted
    <2>1. proc[p].exits \in Nat /\ proc[p].noted \in BOOLEAN
      BY AliveFacts
    <2> HIDE DEF duration
    <2>2. e = [exit_event |-> TRUE, pid |-> p, duration_ns |-> duration, ran |-> ran,
               noted |-> proc[p].noted, before |-> proc[p].exits, orphan |-> p \in orphans]
      BY DEF ExitEvent
    <2> HIDE DEF ran, e
    <2>3. (p \in orphans) \in BOOLEAN
      OBVIOUS
    <2>4. e \in Event
      BY <1>1, <2>1, <2>2, <2>3 DEF Event
    <2>5. /\ e.duration_ns = duration /\ e.ran = ran /\ e.noted = proc[p].noted
          /\ e.orphan = (p \in orphans)
      BY <2>2
    <2> QED
      BY <2>4, <2>5
  <1>5. CASE start = None /\ min_duration_ns # 0
    <2>1. UNCHANGED <<exec_start, rb>>
      BY <1>5 DEF handle_exit, kernel
    <2>2. DeleteElem(exec_start, p) = exec_start
      BY <1>5 DEF DeleteElem, StateInv
    <2> QED
      BY <2>1, <2>2, QuietKeeps
  <1>6. CASE ~(start = None /\ min_duration_ns # 0)
    <2>1. exec_start' = DeleteElem(exec_start, p)
      BY <1>6 DEF handle_exit
    <2>2. CASE min_duration_ns # 0 /\ duration < min_duration_ns
      <3>1. rb' = rb
        BY <1>6, <2>2 DEF handle_exit
      <3> QED
        BY <2>1, <3>1, QuietKeeps
    <2>3. CASE ~(min_duration_ns # 0 /\ duration < min_duration_ns)
      <3>1. Reserve(e)
        BY <1>6, <2>3 DEF handle_exit
      <3>2. min_duration_ns \in Nat
        BY BootstrapAssumption DEF StateInv
      <3> HIDE DEF start, duration, ran, e
      <3>3. Exact(e)
        <4>1. p \notin orphans =>
                /\ duration \in {0, ran}
                /\ min_duration_ns # 0 => duration = ran /\ ran >= min_duration_ns
          BY <1>1, <1>2, <1>3, <1>6, <2>3, <3>2
        <4> QED
          BY <1>4, <1>7, <4>1 DEF Exact
      <3> QED
        BY <1>7, <2>1, <3>1, <3>3, ReserveKeeps
    <2> QED
      BY <2>2, <2>3
  <1> QED
    BY <1>5, <1>6

-----------------------------------------------------------------------------
(* The steps. *)

\* Main attaches, polls and ends without touching what the handlers keep.
LEMMA MainKeeps ==
    ASSUME StateInv, BufferInv, MainStep
    PROVE  StateInv' /\ BufferInv'
  <1>1. CASE Attach
    <2>1. BufferInv'
      BY <1>1, QuietKeeps DEF Attach, kernel
    <2>2. Phases'
      BY <1>1 DEF Attach, StateInv, Phases, kernel, Keys
    <2> QED
      BY <1>1, <2>1, <2>2
      DEF Attach, StateInv, StartsPast, StartsOwned, NotedKept, kernel, Keys, Alive
  <1>2. CASE SetupFails
    <2>1. BufferInv'
      BY <1>2, QuietKeeps DEF SetupFails, kernel
    <2> QED
      BY <1>2, <2>1
      DEF SetupFails, Cleanup, StateInv, StartsPast, Phases, StartsOwned, NotedKept, kernel, Alive
  <1>3. CASE LoopTest
    <2>1. BufferInv'
      BY <1>3, QuietKeeps DEF LoopTest, kernel
    <2> QED
      BY <1>3, <2>1
      DEF LoopTest, Cleanup, StateInv, StartsPast, Phases, StartsOwned, NotedKept, kernel, Keys, Alive
  <1>4. CASE handle_event
    <2>1. BufferInv'
      BY <1>4, PrintKeeps
    <2> QED
      BY <1>4, <2>1
      DEF handle_event, StateInv, StartsPast, Phases, StartsOwned, NotedKept, loaded, Keys, Alive
  <1>5. CASE PollReturns
    <2>1. BufferInv'
      BY <1>5, QuietKeeps DEF PollReturns, kernel, loaded
    <2> QED
      BY <1>5, <2>1
      DEF PollReturns, StateInv, StartsPast, Phases, StartsOwned, NotedKept, kernel, loaded, Keys, Alive
  <1>6. CASE PollFails
    <2>1. BufferInv'
      BY <1>6, QuietKeeps DEF PollFails, kernel
    <2> QED
      BY <1>6, <2>1
      DEF PollFails, Cleanup, StateInv, StartsPast, Phases, StartsOwned, NotedKept, kernel, Alive
  <1> QED
    BY <1>1, <1>2, <1>3, <1>4, <1>5, <1>6 DEF MainStep

\* A step of one process: it keeps the invariant if what is recorded for it
\* afterwards is its own start, or known to be none of its own.
LEMMA ProcessKeeps ==
    ASSUME StateInv, NEW p \in Pid, NEW q \in Process \cup {None},
           exec_start' \in [Pid -> Time \cup {None}],
           proc' \in [Pid -> Process \cup {None}], orphans' \subseteq Pid,
           proc'[p] = q, q # None => q.started <= now,
           exec_start'[p] # None => exec_start'[p] <= now,
           \A o \in Pid : o # p => /\ proc'[o] = proc[o]
                                   /\ exec_start'[o] = exec_start[o]
                                   /\ o \in orphans' <=> o \in orphans,
           \/ pc = "done" \/ exec_start'[p] = None \/ p \in orphans'
           \/ q # None /\ q.leader /\ exec_start'[p] = q.started,
           q # None /\ q.leader /\ q.noted =>
               exec_start'[p] # None /\ exec_start'[p] = q.started,
           UNCHANGED <<min_duration_ns, attached, pc, exiting, now>>,
           exec_start' # exec_start => attached # {}
    PROVE  StateInv'
  <1>1. StartsPast'
    <2>1. ASSUME NEW o \in Pid
          PROVE  /\ exec_start'[o] # None => exec_start'[o] <= now
                 /\ proc'[o] # None => proc'[o].started <= now
      BY DEF StateInv, StartsPast, Alive
    <2> QED
      BY <2>1 DEF StartsPast, Alive
  <1>2. StartsOwned'
    <2> SUFFICES ASSUME pc # "done", NEW o \in Pid, exec_start'[o] # None, o \notin orphans'
                 PROVE  proc'[o] # None /\ proc'[o].leader /\ exec_start'[o] = proc'[o].started
      BY DEF StartsOwned, Keys, Alive
    <2>1. CASE o = p
      BY <2>1
    <2>2. CASE o # p
      <3>1. exec_start[o] # None /\ o \notin orphans
        BY <2>2
      <3>2. o \in Keys(exec_start) \ orphans
        BY <3>1 DEF Keys, StateInv
      <3>3. proc[o] # None /\ proc[o].leader /\ exec_start[o] = proc[o].started
        BY <3>2 DEF StateInv, StartsOwned, Alive
      <3> QED
        BY <2>2, <3>3
    <2> QED
      BY <2>1, <2>2
  <1>3. Phases'
    BY DEF StateInv, Phases, Keys
  <1>4. NotedKept'
    <2> SUFFICES ASSUME NEW o \in Pid, proc'[o] # None, proc'[o].leader, proc'[o].noted
                 PROVE  exec_start'[o] # None /\ exec_start'[o] = proc'[o].started
      BY DEF NotedKept, Keys, Alive, StateInv
    <2>1. CASE o = p
      BY <2>1
    <2>2. CASE o # p
      BY <2>2 DEF StateInv, NotedKept, Keys, Alive
    <2> QED
      BY <2>1, <2>2
  <1> QED
    BY <1>1, <1>2, <1>3, <1>4 DEF StateInv

\* What is recorded of a process whose start was noted.
LEMMA NotedFacts ==
    ASSUME StateInv, NEW p \in Pid, Alive(p), proc[p].leader, proc[p].noted
    PROVE  exec_start[p] # None /\ exec_start[p] = proc[p].started
  BY DEF StateInv, NotedKept, Keys

\* A new process, whose pid may have been used before.
LEMMA ForkKeeps ==
    ASSUME StateInv, BufferInv, NEW p \in Pid, Fork(p)
    PROVE  StateInv' /\ BufferInv'
  <1> DEFINE q == [leader |-> TRUE, worker |-> FALSE, started |-> 0, noted |-> FALSE,
                   exits |-> 0]
  <1>1. BufferInv'
    BY QuietKeeps DEF Fork, kernel, main, loaded
  <1>2. q \in Process /\ q.started <= now /\ ~q.noted
    BY Times, BootstrapAssumption DEF Process, StateInv
  <1>3. ~Alive(p) /\ proc' = [proc EXCEPT ![p] = q]
    BY DEF Fork
  <1>4. UNCHANGED <<exec_start, min_duration_ns, attached, pc, exiting, now, orphans>>
    BY DEF Fork, kernel, main, loaded
  <1>5. pc = "done" \/ exec_start[p] = None \/ p \in orphans
    BY <1>3 DEF StateInv, StartsOwned, Keys
  <1> HIDE DEF q
  <1>6. /\ proc' \in [Pid -> Process \cup {None}] /\ proc'[p] = q
        /\ \A o \in Pid : o # p => proc'[o] = proc[o]
    BY <1>2, <1>3 DEF StateInv
  <1>7. StateInv'
    BY <1>2, <1>4, <1>5, <1>6, ProcessKeeps DEF StateInv, StartsPast
  <1> QED
    BY <1>1, <1>7

\* A process gets a second thread.
LEMMA NewThreadKeeps ==
    ASSUME StateInv, BufferInv, NEW p \in Pid, NewThread(p)
    PROVE  StateInv' /\ BufferInv'
  <1> DEFINE q == [proc[p] EXCEPT !.worker = TRUE]
  <1>1. BufferInv'
    BY QuietKeeps DEF NewThread, kernel, main, loaded
  <1>2. Alive(p) /\ proc' = [proc EXCEPT ![p] = q]
    BY DEF NewThread, Acts
  <1>3. /\ q \in Process /\ q.started = proc[p].started /\ q.leader = proc[p].leader
        /\ q.noted = proc[p].noted /\ q.started <= now
    BY <1>2, AliveFacts DEF Process
  <1>4. UNCHANGED <<exec_start, min_duration_ns, attached, pc, exiting, now, orphans>>
    BY DEF NewThread, kernel, main, loaded
  <1>5. \/ pc = "done" \/ exec_start[p] = None \/ p \in orphans
        \/ proc[p].leader /\ exec_start[p] = proc[p].started
    BY DEF StateInv, StartsOwned, Keys
  <1> HIDE DEF q
  <1>6. /\ proc' \in [Pid -> Process \cup {None}] /\ proc'[p] = q /\ q # None
        /\ \A o \in Pid : o # p => proc'[o] = proc[o]
    BY <1>2, <1>3, NoneAssumption DEF StateInv
  <1>7. StateInv'
    BY <1>2, <1>3, <1>4, <1>5, <1>6, NotedFacts, ProcessKeeps DEF StateInv, StartsPast
  <1> QED
    BY <1>1, <1>7

\* Exec: the start is recorded while handle_exec is attached, and then the process
\* owns it; without room for it nothing was recorded for its pid before.
LEMMA ExecKeeps ==
    ASSUME StateInv, BufferInv, NEW p \in Pid, Exec(p)
    PROVE  StateInv' /\ BufferInv'
  <1> DEFINE noted == "handle_exec" \in attached /\ HasRoom(exec_start, p, MaxStarts)
             q == [proc[p] EXCEPT !.leader = TRUE, !.worker = FALSE, !.started = now,
                                  !.noted = noted]
  <1>1. Alive(p) /\ proc' = [proc EXCEPT ![p] = q]
    BY DEF Exec, Acts, StateInv, Alive
  <1>2. /\ q \in Process /\ q.started = now /\ q.leader /\ q.started <= now
        /\ q.noted = noted
    <2>1. now \in Nat /\ now \in 0..MaxTime
      BY BootstrapAssumption DEF StateInv, Time
    <2>2. proc[p] \in Process
      BY <1>1, AliveFacts
    <2> HIDE DEF noted
    <2>4. noted \in BOOLEAN
      BY DEF noted, HasRoom
    <2>3. q \in Process /\ q.started = now /\ q.leader /\ q.noted = noted
      BY <2>1, <2>2, <2>4 DEF Process
    <2> HIDE DEF q
    <2> QED
      BY <2>1, <2>3
  <1>3. UNCHANGED <<min_duration_ns, attached, pc, exiting, now>>
    BY DEF Exec, main, loaded
  <1> HIDE DEF q
  <1>4. /\ proc' \in [Pid -> Process \cup {None}] /\ proc'[p] = q /\ q # None
        /\ \A o \in Pid : o # p => proc'[o] = proc[o]
    BY <1>1, <1>2, NoneAssumption DEF StateInv
  <1>5. CASE "handle_exec" \in attached
    <2>1. handle_exec(p) /\ orphans' = orphans \ {p}
      BY <1>5 DEF Exec
    <2>2. exec_start' = UpdateElem(exec_start, p, now, MaxStarts) /\ BufferInv'
      BY <1>1, <1>3, <2>1, ExecFacts
    <2>3. /\ exec_start' \in [Pid -> Time \cup {None}]
          /\ \A o \in Pid : o # p => exec_start'[o] = exec_start[o]
          /\ exec_start'[p] \in {now, None}
          /\ noted => exec_start'[p] = now
      BY <2>2, StartTypes DEF StateInv
    <2>4. now # None
      BY NoneAssumption DEF StateInv
    <2> HIDE DEF noted
    <2>5. StateInv'
      BY <1>2, <1>3, <1>4, <1>5, <2>1, <2>3, <2>4, ProcessKeeps DEF StateInv
    <2> QED
      BY <2>2, <2>5
  <1>6. CASE "handle_exec" \notin attached
    <2>1. UNCHANGED <<exec_start, rb, orphans>> /\ ~noted
      BY <1>6 DEF Exec, kernel
    <2>2. pc = "done" \/ exec_start[p] = None
      BY <1>6 DEF StateInv, Phases, Keys
    <2>3. StateInv'
      BY <1>2, <1>3, <1>4, <2>1, <2>2, ProcessKeeps DEF StateInv, StartsPast
    <2> QED
      BY <1>3, <2>1, <2>3, QuietKeeps
  <1> QED
    BY <1>5, <1>6

\* A thread that is not the leader exits, and no handler does anything.
LEMMA WorkerExitKeeps ==
    ASSUME StateInv, BufferInv, NEW p \in Pid, WorkerExit(p)
    PROVE  StateInv' /\ BufferInv'
  <1> DEFINE q == [proc[p] EXCEPT !.worker = FALSE]
  <1>1. BufferInv'
    BY QuietKeeps DEF WorkerExit, handle_thread_exit, kernel, main, loaded
  <1>2. Alive(p) /\ proc' = AfterExit(p, q)
    BY DEF WorkerExit, Acts
  <1>3. /\ q \in Process /\ q.started = proc[p].started /\ q.leader = proc[p].leader
        /\ q.noted = proc[p].noted /\ q.started <= now
    BY <1>2, AliveFacts DEF Process
  <1>4. UNCHANGED <<exec_start, min_duration_ns, attached, pc, exiting, now, orphans>>
    BY DEF WorkerExit, handle_thread_exit, kernel, main, loaded
  <1>5. \/ pc = "done" \/ exec_start[p] = None \/ p \in orphans
        \/ proc[p].leader /\ exec_start[p] = proc[p].started
    BY DEF StateInv, StartsOwned, Keys
  <1> HIDE DEF q
  <1>6. /\ proc' \in [Pid -> Process \cup {None}] /\ proc'[p] \in {q, None}
        /\ q.leader => proc'[p] = q
        /\ \A o \in Pid : o # p => proc'[o] = proc[o]
    BY <1>2, <1>3, AfterExitFacts
  <1>7. q # None
    BY <1>3, NoneAssumption
  <1>8. StateInv'
    BY <1>2, <1>3, <1>4, <1>5, <1>6, <1>7, NotedFacts, ProcessKeeps DEF StateInv, StartsPast
  <1> QED
    BY <1>1, <1>8

\* The leader exits: handle_exit removes its start, or it is left in the window.
LEMMA LeaderExitKeeps ==
    ASSUME StateInv, BufferInv, NEW p \in Pid, LeaderExit(p)
    PROVE  StateInv' /\ BufferInv'
  <1> DEFINE q == [proc[p] EXCEPT !.leader = FALSE,
                                  !.exits = IF rb' = rb THEN @ ELSE @ + 1]
  <1>1. Alive(p) /\ proc[p].leader /\ proc' = AfterExit(p, q)
    BY DEF LeaderExit, Acts
  <1>2. UNCHANGED <<min_duration_ns, attached, pc, exiting, now>>
    BY DEF LeaderExit, main, loaded
  <1>3. /\ BufferInv'
        /\ exec_start' \in [Pid -> Time \cup {None}] /\ orphans' \subseteq Pid
        /\ exec_start'[p] = None \/ (p \in orphans' /\ exec_start' = exec_start)
        /\ \A o \in Pid : o # p => /\ exec_start'[o] = exec_start[o]
                                   /\ o \in orphans' <=> o \in orphans
        /\ exec_start' # exec_start => attached # {}
    <2>1. CASE "handle_exit" \in attached
      <3>1. attached = {"handle_exec", "handle_exit"}
        BY <2>1 DEF StateInv, Phases
      <3>2. handle_exit(p) /\ orphans' = orphans \ {p}
        BY <2>1 DEF LeaderExit
      <3>3. exec_start' = DeleteElem(exec_start, p) /\ BufferInv'
        BY <1>1, <1>2, <3>1, <3>2, ExitFacts
      <3>4. now \in Time
        BY DEF StateInv
      <3>5. /\ exec_start' \in [Pid -> Time \cup {None}] /\ exec_start'[p] = None
            /\ \A o \in Pid : o # p => exec_start'[o] = exec_start[o]
        BY <3>3, <3>4, StartTypes DEF StateInv
      <3> QED
        <4>1. attached # {}
          BY <2>1
        <4>2. orphans' \subseteq Pid /\ \A o \in Pid : o # p => (o \in orphans' <=> o \in orphans)
          BY <3>2 DEF StateInv
        <4> QED
          BY <3>3, <3>5, <4>1, <4>2
    <2>2. CASE "handle_exit" \notin attached
      <3>1. /\ UNCHANGED <<exec_start, rb>>
            /\ orphans' = orphans \cup ({p} \cap Keys(exec_start))
        BY <2>2 DEF LeaderExit, kernel
      <3>2. BufferInv'
        BY <1>2, <3>1, QuietKeeps
      <3>3. exec_start[p] = None \/ p \in orphans'
        BY <3>1 DEF Keys, StateInv
      <3> QED
        BY <3>1, <3>2, <3>3 DEF StateInv
    <2> QED
      BY <2>1, <2>2
  <1>5. q \in Process /\ q.started = proc[p].started /\ q.started <= now /\ ~q.leader
    <2>1. /\ proc[p] \in Process /\ proc[p].started <= now
          /\ (IF rb' = rb THEN proc[p].exits ELSE proc[p].exits + 1) \in Nat
      BY <1>1, AliveFacts
    <2> QED
      BY <2>1 DEF Process
  <1> HIDE DEF q
  <1>6. /\ proc' \in [Pid -> Process \cup {None}] /\ proc'[p] \in {q, None}
        /\ \A o \in Pid : o # p => proc'[o] = proc[o]
    BY <1>1, <1>5, AfterExitFacts
  <1>7. StateInv'
    BY <1>2, <1>3, <1>5, <1>6, ProcessKeeps DEF StateInv, StartsPast
  <1> QED
    BY <1>3, <1>7

\* The clock moves on, and every start stays in the past.
LEMMA TickKeeps ==
    ASSUME StateInv, BufferInv, Tick
    PROVE  StateInv' /\ BufferInv'
  <1>1. BufferInv'
    BY QuietKeeps DEF Tick, kernel, main, loaded
  <1>2. now \in Nat /\ now' = now + 1 /\ now' \in Time
    BY Times, BootstrapAssumption DEF Tick, StateInv, Time
  <1>3. UNCHANGED <<exec_start, min_duration_ns, attached, pc, exiting, proc, orphans>>
    BY DEF Tick, kernel, main, loaded
  <1>4. StartsPast'
    <2>1. ASSUME NEW o \in Pid
          PROVE  /\ exec_start[o] # None => exec_start[o] <= now + 1
                 /\ proc[o] # None => proc[o].started <= now + 1
      <3>1. exec_start[o] # None => exec_start[o] \in Nat /\ exec_start[o] <= now
        BY Times DEF StateInv, StartsPast
      <3>2. proc[o] # None => proc[o].started \in Nat /\ proc[o].started <= now
        BY AliveFacts, BootstrapAssumption DEF Alive
      <3> QED
        BY <1>2, <3>1, <3>2
    <2> QED
      BY <1>2, <1>3, <2>1 DEF StartsPast, Alive
  <1> QED
    BY <1>1, <1>2, <1>3, <1>4 DEF StateInv, Phases, StartsOwned, NotedKept, Keys, Alive

-----------------------------------------------------------------------------
(* The theorems. *)

\* The invariant holds from the start, whatever the filter.
LEMMA InitKeeps == Init => StateInv /\ BufferInv
  <1> SUFFICES ASSUME Init PROVE StateInv /\ BufferInv
    OBVIOUS
  <1>1. now \in Time
    BY BootstrapAssumption DEF Init, Time
  <1>2. rb = <<>> /\ Len(rb) = 0 /\ DOMAIN rb = {} /\ rb \in Seq(Slot)
    BY DEF Init
  <1>3. BufferInv
    BY <1>2, BootstrapAssumption DEF Init, BufferInv, DurationExact, DurationKnown, Events
  <1> QED
    BY <1>1, <1>3 DEF Init, StateInv, StartsPast, Phases, StartsOwned, NotedKept, Keys, Alive

\* The inductive invariant of bootstrap, in every execution.
THEOREM HandlersInductive == Spec => []HandlersInv
  <1>1. Init => HandlersInv
    BY InitKeeps, Parts
  <1>2. HandlersInv /\ [Next]_vars => HandlersInv'
    <2> SUFFICES ASSUME StateInv, BufferInv, [Next]_vars PROVE StateInv' /\ BufferInv'
      BY Parts, PTL
    <2>1. CASE MainStep
      BY <2>1, MainKeeps
    <2>2. CASE sig_handler
      <3>1. BufferInv'
        BY <2>2, QuietKeeps DEF sig_handler, kernel, loaded
      <3> QED
        BY <2>2, <3>1
        DEF sig_handler, kernel, loaded, StateInv, StartsPast, Phases, StartsOwned, NotedKept, Keys, Alive
    <2>3. CASE Tick
      BY <2>3, TickKeeps
    <2>4. ASSUME NEW p \in Pid, ProcessStep(p) PROVE StateInv' /\ BufferInv'
      BY <2>4, ForkKeeps, NewThreadKeeps, ExecKeeps, WorkerExitKeeps, LeaderExitKeeps
      DEF ProcessStep
    <2>5. ASSUME NEW p \in Pid, Submit(p) PROVE StateInv' /\ BufferInv'
      <3>1. BufferInv'
        BY <2>5, SubmitKeeps
      <3> QED
        BY <2>5, <3>1
        DEF Submit, main, loaded, StateInv, StartsPast, Phases, StartsOwned, NotedKept, Keys, Alive
    <2>6. CASE UNCHANGED vars
      <3>1. BufferInv'
        BY <2>6, QuietKeeps DEF vars, kernel, main, loaded
      <3> QED
        BY <2>6, <3>1
        DEF vars, kernel, main, loaded, StateInv, StartsPast, Phases, StartsOwned, NotedKept, Keys, Alive
    <2> QED
      BY <2>1, <2>2, <2>3, <2>4, <2>5, <2>6 DEF Next
  <1> QED
    BY <1>1, <1>2, PTL DEF Spec

\* The maps, the buffer, main and the processes keep their types.
THEOREM TypeCorrect == Spec => []TypeOK
  BY HandlersInductive, PTL DEF HandlersInv

\* While both handlers are attached a start in exec_start is that of a living
\* process, or left by one that ended before handle_exit was attached.
THEOREM StartsLive == Spec => []StartsAreLive
  <1>1. HandlersInv => StartsAreLive
    BY DEF HandlersInv, StartsOwned, Phases, StartsAreLive
  <1> QED
    BY <1>1, HandlersInductive, PTL

\* The duration in an exit event is that of the process that exits.
THEOREM DurationsExact == Spec => []DurationExact
  BY HandlersInductive, PTL DEF HandlersInv

\* And it is known when the exec of that process was seen and recorded.
THEOREM DurationsKnown == Spec => []DurationKnown
  BY HandlersInductive, PTL DEF HandlersInv
=============================================================================
