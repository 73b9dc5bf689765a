----------------------------- MODULE Bootstrap -----------------------------
(***************************************************************************)
(* The bootstrap tool: the handlers of bootstrap.bpf.c on the exec and     *)
(* exit tracepoints, the ring buffer that carries their events, and main   *)
(* of bootstrap.c, which attaches the handlers, polls the buffer, prints   *)
(* and ends on a signal.                                                   *)
(*                                                                         *)
(* The processes of the machine are the environment.  A process has a      *)
(* leader, whose thread id is the pid, and at most one more thread.  Pids  *)
(* are used again.  A handler runs on the task it reports, so its process  *)
(* does nothing else meanwhile; between its reservation in the buffer and  *)
(* its submission everything else moves on.                                *)
(***************************************************************************)
EXTENDS BpfMap, Integers, Sequences

CONSTANTS
    Pid,
    MinDurations,        \* what main may store in min_duration_ns; 0: no filter
    MaxStarts, RingSize, \* capacity of exec_start, and of rb in events
    PollErrors,          \* may load, attach, ring_buffer__new or a poll fail?
    MaxTime, MaxProcs, MaxExecs      \* bounds on the environment

ASSUME BootstrapAssumption ==
    /\ MinDurations \subseteq Nat /\ MinDurations # {}
    /\ {MaxStarts, RingSize, MaxProcs, MaxExecs} \subseteq Nat /\ MaxTime \in Nat \ {0}
    /\ PollErrors \in BOOLEAN

VARIABLES
    exec_start,       \* pid -> time of exec
    rb,               \* the ring buffer: reserved and submitted events in order
    min_duration_ns, attached,
    pc, exiting,      \* main
    now,
    proc,             \* pid -> the process, None if the pid is unused
    orphans,          \* history: pids whose start is that of a process that left
                      \* before handle_exit was attached
    procs, execs      \* history: processes and execs so far

kernel == <<exec_start, rb>>
main == <<pc, exiting>>
loaded == <<min_duration_ns, attached>>
bounds == <<procs, execs>>
vars == <<kernel, loaded, main, now, proc, orphans, bounds>>

Time == 1..MaxTime

\* started: when this process last called exec, 0 if it never did;
\* noted: whether handle_exec was there to see it and exec_start had room;
\* exits: how many exit events it has caused.
Process == [leader : BOOLEAN, worker : BOOLEAN, started : 0..MaxTime, noted : BOOLEAN,
            exits : Nat]

\* duration_ns is 0 when no start is known.  History: ran, the time since the
\* process's own exec; noted, as of the process; before, its exits so far;
\* orphan, whether the start that was found is that of a process of the window.
Event == [exit_event : BOOLEAN, pid : Pid, duration_ns : Nat,
          ran : Nat, noted : BOOLEAN, before : Nat, orphan : BOOLEAN]

ASSUME NoneAssumption == None \notin Time /\ None \notin Process

Init ==
    /\ exec_start = [p \in Pid |-> None] /\ rb = <<>>
    /\ min_duration_ns \in MinDurations /\ attached = {}
    /\ pc = "load" /\ exiting = FALSE
    /\ now = 1
    /\ proc = [p \in Pid |-> None]
    /\ orphans = {} /\ procs = 0 /\ execs = 0

-----------------------------------------------------------------------------
(* The ring buffer. *)

Reserved(p) == \E i \in DOMAIN rb : rb[i].busy /\ rb[i].event.pid = p

\* bpf_ringbuf_reserve and the filling of the sample; without room no event.
Reserve(event) ==
    rb' = IF Len(rb) < RingSize THEN Append(rb, [event |-> event, busy |-> TRUE]) ELSE rb

ExitEvent(p, duration) ==
    [exit_event |-> TRUE, pid |-> p, duration_ns |-> duration,
     ran |-> IF proc[p].started = 0 THEN 0 ELSE now - proc[p].started,
     noted |-> proc[p].noted, before |-> proc[p].exits, orphan |-> p \in orphans]

-----------------------------------------------------------------------------
(* Faulty variants, which the properties at the end must catch. *)

\* the start is deleted only when the event is emitted
handle_exit_deletes_late(p) ==
    LET start == exec_start[p]
        duration == IF start = None THEN 0 ELSE now - start
    IN  IF duration < min_duration_ns \/ Len(rb) = RingSize
        THEN UNCHANGED kernel
        ELSE exec_start' = DeleteElem(exec_start, p) /\ Reserve(ExitEvent(p, duration))

\* the start is deleted before the thread is compared with the leader
handle_thread_exit_deletes(p) == exec_start' = DeleteElem(exec_start, p) /\ rb' = rb

\* the start of the previous program is kept: BPF_NOEXIST for BPF_ANY
RememberStart_noexist(p) ==
    exec_start' = IF exec_start[p] = None
                  THEN UpdateElem(exec_start, p, now, MaxStarts) ELSE exec_start

\* exec events are never submitted
Submit_exit_only(p) ==
    /\ \E i \in DOMAIN rb : rb[i].busy /\ rb[i].event.pid = p /\ rb[i].event.exit_event
    /\ rb' = [i \in DOMAIN rb |->
                IF rb[i].event.pid = p THEN [rb[i] EXCEPT !.busy = FALSE] ELSE rb[i]]
    /\ UNCHANGED <<exec_start, loaded, main, now, proc, orphans, bounds>>

\* main does not look at exiting
MayPoll_always == TRUE

\* the clock's difference is taken the wrong way round
Lifetime_negative(start) == start - now

-----------------------------------------------------------------------------
\* bpf_ringbuf_submit
Submit(p) ==
    /\ Reserved(p)
    /\ rb' = [i \in DOMAIN rb |->
                IF rb[i].event.pid = p THEN [rb[i] EXCEPT !.busy = FALSE] ELSE rb[i]]
    /\ UNCHANGED <<exec_start, loaded, main, now, proc, orphans, bounds>>

-----------------------------------------------------------------------------
(* The handlers.  Each ends with its reservation; Submit is their last step. *)

RememberStart(p) == exec_start' = UpdateElem(exec_start, p, now, MaxStarts)

handle_exec(p) ==
    /\ RememberStart(p)
    /\ IF min_duration_ns # 0
       THEN rb' = rb
       ELSE Reserve([exit_event |-> FALSE, pid |-> p, duration_ns |-> 0, ran |-> 0,
                     noted |-> FALSE, before |-> proc[p].exits, orphan |-> FALSE])

Lifetime(start) == now - start

\* The leader's exit.  A start that is not known counts as no time at all.
handle_exit(p) ==
    LET start == exec_start[p]
        duration == IF start = None THEN 0 ELSE Lifetime(start)
    IN  IF start = None /\ min_duration_ns # 0
        THEN UNCHANGED kernel
        ELSE /\ exec_start' = DeleteElem(exec_start, p)
             /\ IF min_duration_ns # 0 /\ duration < min_duration_ns
                THEN rb' = rb
                ELSE Reserve(ExitEvent(p, duration))

\* The exit of a thread that is not the leader: handle_exit returns at once.
handle_thread_exit(p) == UNCHANGED kernel

-----------------------------------------------------------------------------
(* The processes. *)

Alive(p) == proc[p] # None

\* p can act: it is alive and none of its tasks is in a handler.
Acts(p) == Alive(p) /\ ~Reserved(p)

AfterExit(p, q) == [proc EXCEPT ![p] = IF q.leader \/ q.worker THEN q ELSE None]

Fork(p) ==
    /\ ~Alive(p) /\ ~Reserved(p) /\ procs < MaxProcs
    /\ procs' = procs + 1
    /\ proc' = [proc EXCEPT ![p] = [leader |-> TRUE, worker |-> FALSE,
                                    started |-> 0, noted |-> FALSE, exits |-> 0]]
    /\ UNCHANGED <<kernel, loaded, main, now, orphans, execs>>

NewThread(p) ==
    /\ Acts(p) /\ ~proc[p].worker
    /\ proc' = [proc EXCEPT ![p].worker = TRUE]
    /\ UNCHANGED <<kernel, loaded, main, now, orphans, bounds>>

\* One task calls exec and is the leader afterwards; a leader other than it has
\* exited before, in LeaderExit.
Exec(p) ==
    /\ Acts(p) /\ execs < MaxExecs
    /\ proc' = [proc EXCEPT ![p].leader = TRUE, ![p].worker = FALSE, ![p].started = now,
                            ![p].noted = /\ "handle_exec" \in attached
                                          /\ HasRoom(exec_start, p, MaxStarts)]
    /\ execs' = execs + 1
    /\ IF "handle_exec" \in attached
       THEN handle_exec(p) /\ orphans' = orphans \ {p}
       ELSE UNCHANGED <<kernel, orphans>>
    /\ UNCHANGED <<loaded, main, now, procs>>

WorkerExit(p) ==
    /\ Acts(p) /\ proc[p].worker
    /\ IF "handle_exit" \in attached THEN handle_thread_exit(p) ELSE UNCHANGED kernel
    /\ proc' = AfterExit(p, [proc[p] EXCEPT !.worker = FALSE])
    /\ UNCHANGED <<loaded, main, now, orphans, bounds>>

LeaderExit(p) ==
    /\ Acts(p) /\ proc[p].leader
    /\ IF "handle_exit" \in attached
       THEN handle_exit(p) /\ orphans' = orphans \ {p}
       ELSE /\ orphans' = orphans \cup ({p} \cap Keys(exec_start))
            /\ UNCHANGED kernel
    /\ proc' = AfterExit(p, [proc[p] EXCEPT !.leader = FALSE,
                                           !.exits = IF rb' = rb THEN @ ELSE @ + 1])
    /\ UNCHANGED <<loaded, main, now, bounds>>

Tick ==
    /\ now < MaxTime
    /\ now' = now + 1
    /\ UNCHANGED <<kernel, loaded, main, proc, orphans, bounds>>

-----------------------------------------------------------------------------
(* main *)

\* Cleanup detaches the handlers, whatever led to it.
Cleanup == pc' = "done" /\ attached' = {}

\* bootstrap_bpf__load, bootstrap_bpf__attach (one handler after the other, in
\* the order of the source), ring_buffer__new.
Attach ==
    /\ pc \in {"load", "attach_exec", "attach_exit"}
    /\ CASE pc = "load"        -> pc' = "attach_exec" /\ attached' = {}
         [] pc = "attach_exec" -> pc' = "attach_exit" /\ attached' = {"handle_exec"}
         [] pc = "attach_exit" -> pc' = "loop" /\ attached' = {"handle_exec", "handle_exit"}
    /\ UNCHANGED <<kernel, min_duration_ns, exiting, now, proc, orphans, bounds>>

SetupFails ==
    /\ PollErrors /\ pc \in {"load", "attach_exec", "attach_exit"}
    /\ Cleanup
    /\ UNCHANGED <<kernel, min_duration_ns, exiting, now, proc, orphans, bounds>>

sig_handler ==
    /\ ~exiting
    /\ exiting' = TRUE
    /\ UNCHANGED <<kernel, loaded, pc, now, proc, orphans, bounds>>

MayPoll == ~exiting

LoopTest ==
    /\ pc = "loop"
    /\ IF MayPoll THEN pc' = "poll" /\ UNCHANGED attached ELSE Cleanup
    /\ UNCHANGED <<kernel, min_duration_ns, exiting, now, proc, orphans, bounds>>

\* What ring_buffer__poll hands out next: the oldest record, once submitted.
Readable == IF rb = <<>> \/ rb[1].busy THEN {} ELSE {1}

handle_event ==
    /\ pc = "poll"
    /\ \E i \in Readable : rb' = SubSeq(rb, 1, i - 1) \o SubSeq(rb, i + 1, Len(rb))
    /\ UNCHANGED <<exec_start, loaded, pc, exiting, now, proc, orphans, bounds>>

\* Nothing is left to read, or the 100 ms are over.
PollReturns ==
    /\ pc = "poll" /\ Readable = {}
    /\ pc' = "loop"
    /\ UNCHANGED <<kernel, loaded, exiting, now, proc, orphans, bounds>>

\* -EINTR, or another error: the loop is left.
PollFails ==
    /\ pc = "poll" /\ Readable = {} /\ (exiting \/ PollErrors)
    /\ Cleanup
    /\ UNCHANGED <<kernel, min_duration_ns, exiting, now, proc, orphans, bounds>>

-----------------------------------------------------------------------------
MainStep == Attach \/ SetupFails \/ LoopTest \/ handle_event \/ PollReturns \/ PollFails
ProcessStep(p) ==
    Fork(p) \/ NewThread(p) \/ Exec(p) \/ WorkerExit(p) \/ LeaderExit(p)

Next ==
    \/ MainStep \/ sig_handler \/ Tick
    \/ \E p \in Pid : ProcessStep(p) \/ Submit(p)

\* main runs when it can, and a handler that has started ends.
Spec == Init /\ [][Next]_vars /\ WF_vars(MainStep) /\ \A p \in Pid : WF_vars(Submit(p))

-----------------------------------------------------------------------------
(* What the tool promises. *)

\* The type invariant.
TypeOK ==
    /\ exec_start \in [Pid -> Time \cup {None}]
    /\ rb \in Seq([event : Event, busy : BOOLEAN]) /\ Len(rb) <= RingSize
    /\ min_duration_ns \in MinDurations /\ attached \subseteq {"handle_exec", "handle_exit"}
    /\ pc \in {"load", "attach_exec", "attach_exit", "loop", "poll", "done"}
    /\ exiting \in BOOLEAN
    /\ now \in Time /\ orphans \subseteq Pid /\ proc \in [Pid -> Process \cup {None}]

\* The events on their way to main.
Events == {rb[i].event : i \in DOMAIN rb}

\* A start in exec_start belongs to the living process that called exec at that
\* time.  handle_exit deletes it on every path that found one, also on those
\* that emit nothing; a start left behind would be taken for that of the next
\* process with the same pid.  Only a process that execs and exits between the
\* two attachments leaves one, and the next exec or exit with its pid clears it.
StartsAreLive ==
    attached = {"handle_exec", "handle_exit"} =>
        \A p \in Keys(exec_start) \ orphans :
            Alive(p) /\ proc[p].leader /\ exec_start[p] = proc[p].started

\* The duration of an exit event is the time since the last exec of that very
\* process, or 0 for not known; with a filter it is known and long enough.  Full
\* maps, pids used again and execs that nobody recorded are no excuse; a start
\* left from the attachment is one, for a single exit of that pid.
DurationExact ==
    \A e \in Events : e.exit_event /\ ~e.orphan =>
        /\ e.duration_ns \in {0, e.ran}
        /\ min_duration_ns # 0 => e.duration_ns = e.ran /\ e.ran >= min_duration_ns

\* And it is known if the exec was seen and recorded: no exit of another thread,
\* no earlier program of the process and no other process takes the start away
\* before the leader exits.
DurationKnown ==
    \A e \in Events : e.exit_event /\ e.noted => e.duration_ns = e.ran

\* Why these hold: the inductive invariant of the proofs, in parts.
\* No start lies in the future.
StartsPast ==
    \A p \in Pid : /\ exec_start[p] # None => exec_start[p] <= now
                   /\ Alive(p) => proc[p].started <= now

\* Which handlers are attached where; before handle_exec nothing is recorded.
Phases ==
    \/ pc \in {"load", "attach_exec"} /\ attached = {} /\ Keys(exec_start) = {}
    \/ pc = "attach_exit" /\ attached = {"handle_exec"}
    \/ pc \in {"loop", "poll"} /\ attached = {"handle_exec", "handle_exit"}
    \/ pc = "done" /\ attached = {}

\* As long as bootstrap runs, a start belongs to a living process or to one of
\* the window.
StartsOwned ==
    pc # "done" =>
        \A p \in Keys(exec_start) \ orphans :
            Alive(p) /\ proc[p].leader /\ exec_start[p] = proc[p].started

\* A start that was recorded stays as long as it is needed.
NotedKept ==
    \A p \in Pid : Alive(p) /\ proc[p].leader /\ proc[p].noted =>
        p \in Keys(exec_start) /\ exec_start[p] = proc[p].started

HandlersInv ==
    TypeOK /\ StartsPast /\ Phases /\ StartsOwned /\ NotedKept /\ DurationExact /\ DurationKnown

\* Events reach main: no handler leaves the buffer blocked for the events behind
\* its own, and main reads on.  (The processes stop some time, MaxExecs.)
EventsDrain == rb # <<>> ~> rb = <<>> \/ pc = "done"

\* main ends after a signal, in whatever step of its work it arrives.
ExitsAfterSignal == exiting ~> pc = "done"

\* "ignore thread exits": there is one exit event for a process.
ExitsOnce == \A e \in Events : e.exit_event => e.before = 0
=============================================================================
