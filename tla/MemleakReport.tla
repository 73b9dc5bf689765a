--------------------------- MODULE MemleakReport ---------------------------
(***************************************************************************)
(* The user-space side of memleak (memleak.c): the loop of main, and       *)
(* print_outstanding_allocs, which walks the map "allocs" while the probes *)
(* keep changing it and prints the outstanding allocations by stack.       *)
(*                                                                         *)
(* The map is the ledger of AllocTable, which the probes implement (see    *)
(* LedgerSpec in MemleakBpf and LedgerButSpoiled in MemleakAttach); each   *)
(* system call of the reader and each change of the ledger is one step.    *)
(* What the reader computes from its own variables between two system     *)
(* calls is part of the step before.  Keys are numbers in the order in     *)
(* which the kernel walks the map.                                         *)
(***************************************************************************)
EXTENDS BpfMap, Integers, Sequences, Functions

CONSTANTS
    Key,                  \* addresses, in the order of the kernel's walk
    Sizes,                \* requested sizes
    Stacks,               \* <<id, frames>>: what the probes record of a stack
    NoFrames,             \* the frames of a record with manual_stack_cnt 0
    EFAULT, EEXIST,       \* error codes of bpf_get_stackid
    MinAge,               \* env.min_age_ns, in ticks
    Asked,                \* the counts of rounds on the command line, 0: none
    IntSize,              \* an int is in -IntSize..IntSize - 1
    MapErrors,            \* may a map system call fail?
    MaxTime, MaxChurn     \* bounds: on the clock and on the map's changes

ASSUME ReportAssumption ==
    /\ IsFiniteSet(Key) /\ Key \subseteq Nat \ {0}    \* the walk starts at 0
    /\ Sizes \subseteq Nat /\ \A s \in Stacks : s[1] \in Int
    /\ {MinAge, MaxTime, MaxChurn} \subseteq Nat /\ MinAge <= MaxTime
    /\ {EFAULT, EEXIST, IntSize} \subseteq Nat \ {0}
    /\ Asked \subseteq Nat /\ MapErrors \in BOOLEAN

Time == MinAge..MaxTime
Record(size, stack, time) ==
    [size |-> size, stack_id |-> stack[1], frames |-> stack[2], timestamp |-> time]
Info == {Record(size, stack, time) : size \in Sizes, stack \in Stacks, time \in Time}

ASSUME NoneAssumption == None \notin Info

VARIABLES
    allocs,          \* the ledger: key -> alloc_info
    now,             \* the kernel's clock
    pc,              \* where main is
    asked, nr_intervals, exiting,
    prev_key, curr_key,             \* the walk
    groups, missing, collisions,    \* allocs[0..nr_allocs), nr_*_stacks
    report,          \* what this round printed, None if the walk was given up
    standing,        \* history: the records that stood all through this round's walk
    ever,            \* history: the records that stood at some time of it
    began,           \* history: when it began
    rounds,          \* history: the walks begun, if there is a count of them
    churn            \* history: how often the ledger has changed

walk == <<prev_key, curr_key, groups, missing, collisions>>
history == <<standing, ever, began, rounds, churn>>
loop == <<asked, nr_intervals, exiting>>
vars == <<allocs, now, pc, loop, walk, report, history>>

Table == INSTANCE AllocTable WITH Reserved <- {}, Value <- Info

\* print_outstanding_allocs returns, and the next call starts with new locals
\* and with no element of the array in use.
FreshWalk ==
    /\ prev_key' = 0 /\ curr_key' = 0
    /\ groups' = <<>> /\ missing' = 0 /\ collisions' = 0

\* argp_parse_long returns a long, which is stored in an int.
ToInt(n) == ((n + IntSize) % (2 * IntSize)) - IntSize

\* Without a count on the command line env.nr_intervals is -1.
ParsedIntervals(n) == IF n = 0 THEN -1 ELSE ToInt(n)

Init ==
    /\ allocs = [k \in Key |-> None]
    /\ now = MinAge
    /\ pc = "loop" /\ exiting = FALSE
    /\ asked \in Asked /\ nr_intervals = ParsedIntervals(asked)
    /\ prev_key = 0 /\ curr_key = 0
    /\ groups = <<>> /\ missing = 0 /\ collisions = 0
    /\ report = None
    /\ standing = {} /\ ever = {} /\ began = MinAge /\ rounds = 0 /\ churn = 0

-----------------------------------------------------------------------------
(* The probes and the world. *)

Walking == pc \in {"next", "lookup"}

EnterRecord ==
    /\ churn < MaxChurn
    /\ \E k \in Key, size \in Sizes, stack \in Stacks :
        LET info == Record(size, stack, now)
        IN  /\ Table!Enter(k, info) \/ Table!Overwrite(k, info)
            /\ IF Walking
               THEN /\ ever' = ever \cup {<<k, info>>}
                    /\ standing' = standing \ ({<<k, allocs[k]>>} \ {<<k, info>>})
               ELSE UNCHANGED <<ever, standing>>
    /\ churn' = churn + 1
    /\ UNCHANGED <<now, pc, loop, walk, report, began, rounds>>

RemoveRecord ==
    /\ churn < MaxChurn
    /\ \E k \in Key :
        /\ Table!Remove(k)
        /\ standing' = IF Walking THEN standing \ {<<k, allocs[k]>>} ELSE standing
    /\ churn' = churn + 1
    /\ UNCHANGED <<now, pc, loop, walk, report, ever, began, rounds>>

Tick ==
    /\ now < MaxTime
    /\ now' = now + 1
    /\ UNCHANGED <<allocs, pc, loop, walk, report, history>>

sig_handler ==
    /\ ~exiting
    /\ exiting' = TRUE
    /\ UNCHANGED <<allocs, now, pc, asked, nr_intervals, walk, report, history>>

-----------------------------------------------------------------------------
(* The loop of main.  A signal ends the sleep early, but not the round.  A     *)
(* negative count of rounds stays negative: -1 stands for all of them.         *)

\* a faulty variant: the count is decremented before it is tested
MoreRounds_decrements_first == nr_intervals # 1

\* a faulty variant: a signal does not end the loop
Interrupted_never == FALSE

Interrupted == exiting
MoreRounds == nr_intervals # 0

LoopTest ==
    /\ pc = "loop"
    /\ IF ~Interrupted /\ MoreRounds
       THEN pc' = "sleep" /\ nr_intervals' = IF nr_intervals < 0 THEN -1 ELSE nr_intervals - 1
       ELSE pc' = "done" /\ UNCHANGED nr_intervals
    /\ report' = None /\ standing' = {} /\ ever' = {} /\ began' = MinAge
    /\ UNCHANGED <<allocs, now, asked, exiting, walk, rounds, churn>>

Sleep ==
    /\ pc = "sleep"
    /\ pc' = "next"
    /\ standing' = {<<k, allocs[k]>> : k \in Keys(allocs)}
    /\ ever' = standing' /\ began' = now
    /\ rounds' = IF nr_intervals < 0 THEN rounds ELSE rounds + 1
    /\ UNCHANGED <<allocs, now, loop, walk, report, churn>>

-----------------------------------------------------------------------------
(* print_outstanding_allocs *)

\* The keys that bpf_map_get_next_key chooses from: after a key that is gone it
\* starts again at the first.
Following(k) == IF k \in Keys(allocs) THEN {j \in Keys(allocs) : j > k} ELSE Keys(allocs)

First(ks) == CHOOSE k \in ks : \A j \in ks : k <= j

get_next_key ==
    /\ pc = "next" /\ Following(prev_key) # {}
    /\ curr_key' = First(Following(prev_key))
    /\ pc' = "lookup"
    /\ UNCHANGED <<allocs, now, loop, prev_key, groups, missing, collisions,
                   report, history>>

\* Faulty variants, which the properties at the end must catch.
Grouped_loses(info) ==
    IF \E i \in DOMAIN groups : groups[i].stack_id = info.stack_id
    THEN groups
    ELSE Append(groups, [stack_id |-> info.stack_id, frames |-> info.frames,
                         size |-> info.size, count |-> 1])
alloc_size_compare_ascending(x, y) == x.size < y.size
TooYoung_negated(info) == now - MinAge >= info.timestamp
InvalidStack_collisions(stack_id) == stack_id = -EEXIST

TooYoung(info) == now - MinAge < info.timestamp
InvalidStack(stack_id) == stack_id < 0
StackErr(stack_id) == stack_id < 0 /\ stack_id # -EFAULT
StackCollision(stack_id) == stack_id = -EEXIST

\* The array of stacks with one more allocation.  The id alone decides where it
\* goes; the frames are those of the first record of the id.
Grouped(info) ==
    IF \E i \in DOMAIN groups : groups[i].stack_id = info.stack_id
    THEN [i \in DOMAIN groups |->
            IF groups[i].stack_id = info.stack_id
            THEN [groups[i] EXCEPT !.size = @ + info.size, !.count = @ + 1]
            ELSE groups[i]]
    ELSE Append(groups, [stack_id |-> info.stack_id, frames |-> info.frames,
                         size |-> info.size, count |-> 1])

\* The loop header of the walk, run by every continue.
Advance == prev_key' = curr_key

lookup_elem ==
    /\ pc = "lookup"
    /\ pc' = "next" /\ Advance
    /\ LET info == allocs[curr_key] IN
       \/ /\ info = None                 \* removed since get_next_key
          /\ UNCHANGED <<groups, missing, collisions>>
       \/ /\ info # None /\ TooYoung(info)
          /\ UNCHANGED <<groups, missing, collisions>>
       \/ /\ info # None /\ ~TooYoung(info) /\ InvalidStack(info.stack_id)
          /\ missing' = missing + (IF StackErr(info.stack_id) THEN 1 ELSE 0)
          /\ collisions' = collisions + (IF StackCollision(info.stack_id) THEN 1 ELSE 0)
          /\ UNCHANGED groups
       \/ /\ info # None /\ ~TooYoung(info) /\ ~InvalidStack(info.stack_id)
          /\ groups' = Grouped(info)
          /\ UNCHANGED <<missing, collisions>>
    /\ UNCHANGED <<allocs, now, loop, curr_key, report, history>>

alloc_size_compare(x, y) == x.size > y.size

\* What qsort may leave in the array: groups that compare as equal stay in no
\* particular order.
Sorted(gs) ==
    {[i \in DOMAIN gs |-> gs[p[i]]] :
        p \in {q \in Bijection(DOMAIN gs, DOMAIN gs) :
                 \A i, j \in DOMAIN gs : i < j => ~alloc_size_compare(gs[q[j]], gs[q[i]])}}

\* print_stack_frames: how many lines are printed.  The frames of a line come from
\* its first record or, if that has none, from stack_traces: an error of that
\* lookup other than ENOENT ends the printing after the line.
Lines(gs) ==
    {Len(gs)} \cup {n \in DOMAIN gs : MapErrors /\ gs[n].frames = NoFrames}

\* No more keys: sort, print, return to the loop.
PrintReport ==
    /\ pc = "next" /\ Following(prev_key) = {}
    /\ pc' = "loop" /\ FreshWalk
    /\ \E sorted \in Sorted(groups) : \E n \in Lines(sorted) :
          report' = [groups |-> SubSeq(sorted, 1, n), complete |-> n = Len(sorted),
                     at |-> now, missing |-> missing, collisions |-> collisions]
    /\ UNCHANGED <<allocs, now, loop, history>>

\* A map system call fails: the walk is given up without a word on stdout.
WalkError ==
    /\ MapErrors /\ Walking
    /\ pc' = "loop" /\ FreshWalk
    /\ report' = None
    /\ UNCHANGED <<allocs, now, loop, history>>

-----------------------------------------------------------------------------
Reader == LoopTest \/ Sleep \/ get_next_key \/ lookup_elem \/ PrintReport \/ WalkError
World == EnterRecord \/ RemoveRecord \/ Tick \/ sig_handler
Next == Reader \/ World

\* main runs when it can; nothing obliges the process to allocate, the clock to
\* show a new time, or a signal to arrive.
Spec == Init /\ [][Next]_vars /\ WF_vars(Reader)

-----------------------------------------------------------------------------
(* What a report promises. *)

\* the ids of stacks that could be had
Traced == {s[1] : s \in {x \in Stacks : x[1] >= 0}}

Group == [stack_id : Traced, frames : {s[2] : s \in Stacks}, size : Nat, count : Nat \ {0}]

\* The type invariant.  Only a stack that has a trace gets a line in the array.
TypeOK ==
    /\ allocs \in [Key -> Info \cup {None}] /\ now \in Time
    /\ pc \in {"loop", "sleep", "next", "lookup", "done"}
    /\ asked \in Asked /\ nr_intervals \in -IntSize..IntSize - 1 /\ exiting \in BOOLEAN
    /\ prev_key \in Key \cup {0} /\ curr_key \in Key \cup {0}
    /\ pc = "lookup" => curr_key \in Key
    /\ groups \in Seq(Group)
    /\ missing \in Nat /\ collisions \in Nat /\ rounds \in Nat

\* A report has been printed and the next round has not begun.
Printed == pc = "loop" /\ report # None

Complete == Printed /\ report.complete

Size == [r \in Key \X Info |-> r[2].size]
Bytes(recs) == SumFunctionOnSet(Size, recs)
WithStack(recs, s) == {r \in recs : r[2].stack_id = s}
Unread(recs) == {r \in recs : r[2].stack_id < 0 /\ r[2].stack_id # -EFAULT}
GroupsOf(s) == {i \in DOMAIN report.groups : report.groups[i].stack_id = s}
Count(s) == SumFunctionOnSet([i \in DOMAIN report.groups |-> report.groups[i].count], GroupsOf(s))
Total(s) == SumFunctionOnSet([i \in DOMAIN report.groups |-> report.groups[i].size], GroupsOf(s))
\* the records that the walk must have found, and found old enough
Due == {r \in standing : r[2].timestamp <= began - MinAge}

\* However the process allocates and frees during the walk, and although the
\* walk starts again when the key it stands on is removed, an allocation that
\* was old enough when the walk began and outstanding until it ended is in the
\* report, under its stack.
StandingReported ==
    Complete => \A s \in Traced :
        /\ Count(s) >= Cardinality(WithStack(Due, s))
        /\ Total(s) >= Bytes(WithStack(Due, s))

\* If nothing moved during the walk, the report is the exact account of the
\* allocations that are old enough, and of the stacks that could not be had.
QuietReportExact ==
    Complete /\ ever = standing /\ report.at = began =>
        /\ \A s \in Traced : /\ Count(s) = Cardinality(WithStack(Due, s))
                              /\ Total(s) = Bytes(WithStack(Due, s))
        /\ report.missing = Cardinality(Unread(Due))
        /\ report.collisions = Cardinality(WithStack(Due, -EEXIST))

\* Each stack is reported once, the largest first, and only for allocations the
\* process had.  (There are no more groups than stacks, so the user-space array
\* cannot overflow however long the walk runs.)
ReportOrdered ==
    Printed => \A i, j \in DOMAIN report.groups :
        /\ i < j => /\ report.groups[i].stack_id # report.groups[j].stack_id
                    /\ report.groups[i].size >= report.groups[j].size
        /\ WithStack(ever, report.groups[i].stack_id) # {}

\* "output every 10 seconds, 3 times": without a signal memleak walks as often as
\* it was asked to, whatever the walks ran into, and goes on for ever if no count
\* was given.  Of a count that an int cannot hold the low bits are left: 2^32
\* rounds are none.
RoundsAsAsked ==
    pc = "done" /\ ~exiting => asked > 0 /\ rounds = asked % (2 * IntSize)

\* "%zu bytes in %zu allocations from stack", and then one stack: it is the stack
\* of every allocation that is counted there.
OneStackPerLine ==
    Printed => \A i \in DOMAIN report.groups :
        \A r \in WithStack(Due, report.groups[i].stack_id) :
            r[2].frames = report.groups[i].frames

\* The comment on the walk: "for each struct alloc_info in the bpf map".  Every
\* record the map held during the walk is counted at most once.
CountedOnce ==
    Complete => \A s \in Traced : Count(s) <= Cardinality(WithStack(ever, s))

\* memleak ends after a signal, in whatever step of a round it finds main: the
\* walk comes to its end although removals make it start again.  MaxChurn is part
\* of this claim: each restart takes a removal, and a process that freed for ever
\* under the reader's cursor could keep the walk going for ever.
ExitsAfterSignal == exiting ~> pc = "done"

-----------------------------------------------------------------------------
(* Why it holds, for every number of keys, records and changes. *)

\* The times and what the walk's history has to do with the ledger.
HistoryInv ==
    /\ began \in MinAge..now /\ now \in Time
    /\ standing \subseteq ever /\ ever \subseteq Key \X Info
    /\ \A r, q \in standing : r[1] = q[1] => r = q
    /\ Walking => /\ \A r \in standing : allocs[r[1]] = r[2]
                  /\ \A k \in Keys(allocs) : <<k, allocs[k]>> \in ever

\* No two groups have one stack, and the process had an allocation from each.
GroupsInv ==
    /\ ~Walking => groups = <<>> /\ prev_key = 0 /\ missing = 0 /\ collisions = 0
    /\ \A i, j \in DOMAIN groups : i # j => groups[i].stack_id # groups[j].stack_id
    /\ Walking => \A i \in DOMAIN groups : WithStack(ever, groups[i].stack_id) # {}

\* Nothing that stands is skipped: the next key leaves none of them out, also
\* where the walk has started again.
CursorInv ==
    pc = "lookup" => \A r \in standing :
        r[1] <= curr_key => r[1] <= prev_key \/ r[1] = curr_key

\* the records that must have been counted before the cursor came where it is
Reached == {r \in Due : r[1] <= prev_key}

CountedInv ==
    Walking =>
        /\ \A r \in Reached : r[2].stack_id >= 0 =>
              \E i \in DOMAIN groups : groups[i].stack_id = r[2].stack_id
        /\ \A i \in DOMAIN groups :
              /\ groups[i].count >= Cardinality(WithStack(Reached, groups[i].stack_id))
              /\ groups[i].size >= Bytes(WithStack(Reached, groups[i].stack_id))

\* Until something moves, the cursor goes forward over keys that are there, and
\* what has been counted is what it has passed.
Quiet == ever = standing /\ now = began

QuietInv ==
    Walking /\ Quiet =>
        /\ prev_key \in Keys(allocs) \cup {0}
        /\ pc = "lookup" => curr_key \in Keys(allocs) /\ curr_key > prev_key
        /\ \A i \in DOMAIN groups :
              /\ groups[i].count = Cardinality(WithStack(Reached, groups[i].stack_id))
              /\ groups[i].size = Bytes(WithStack(Reached, groups[i].stack_id))
        /\ missing = Cardinality(Unread(Reached))
        /\ collisions = Cardinality(WithStack(Reached, -EEXIST))

\* The walks begun and the rounds left make up the count, and only a signal or
\* the last of them ends the loop.
RoundsInv ==
    /\ nr_intervals >= 0 =>
          /\ asked > 0
          /\ rounds + nr_intervals + (IF pc = "sleep" THEN 1 ELSE 0) = asked % (2 * IntSize)
    /\ pc = "done" => exiting \/ nr_intervals = 0

\* The inductive invariant behind StandingReported, QuietReportExact,
\* ReportOrdered and RoundsAsAsked: what the reader holds between two of its
\* system calls of a map that changes at any of them.
WalkInv ==
    /\ HistoryInv /\ GroupsInv /\ CursorInv /\ CountedInv /\ QuietInv /\ RoundsInv
=============================================================================
