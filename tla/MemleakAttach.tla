--------------------------- MODULE MemleakAttach ---------------------------
(***************************************************************************)
(* memleak attaches its probes to a process that is running: attach_uprobes*)
(* (memleak.c) attaches one program after the other, and the threads of    *)
(* the process call the functions meanwhile.  A function may have an entry *)
(* probe and no return probe yet, an allocation may be seen and its free   *)
(* not, and a call under way has the return probe only if that was         *)
(* attached when the call began: the kernel puts the trampoline of a       *)
(* return probe on the stack at the entry of the function.                 *)
(*                                                                         *)
(* The probes and the process are those of MemleakBpf.  Here a call is     *)
(* watched, when the program for it is attached, or blind.                 *)
(*                                                                         *)
(* The variables from missed on are history: they say which programs were  *)
(* attached and which probes have run, never what the probes wrote.        *)
(***************************************************************************)
EXTENDS MemleakBpf

CONSTANTS
    StdCxxLoaded,    \* does /proc/<pid>/maps name libstdc++?
    AttachErrors     \* may the attachment of a program fail?

ASSUME AttachAssumption == StdCxxLoaded \in BOOLEAN /\ AttachErrors \in BOOLEAN

VARIABLES
    todo,        \* the programs that are still to be attached, in order
    links,       \* the attached programs, as <<function, "enter" or "exit">>
    armed,       \* thread -> for each frame of its call: will the return probe run?
    missed,      \* has an attachment failed?
    whole,       \* threads whose call in progress began when all was attached
    handed,      \* threads with a memptr saved and no return probe of it since
    owed,        \* threads whose last entry probe has had no return probe since
    seen,        \* threads that give up a block and of whose call a probe has run
    clear,       \* threads that ask for one, their outermost call watched, nothing owed
    spoiled      \* addresses granted or given up by a call not watched in whole

setup == <<todo, links>>
history == <<missed, whole, handed, owed, seen, clear, spoiled>>
attachVars == <<vars, setup, armed, history>>

-----------------------------------------------------------------------------
(* attach_uprobes *)

Program == [fn : AllFns, at : {"enter", "exit"}, checked : BOOLEAN]

\* Of a function that the process never calls only one program is followed, and
\* only if it is checked: attached it makes no difference, but its failure does,
\* and that of the return probe to the same end.
Called == Fns \cup {d[2] : d \in Delegates}

Probe(fn, at, checked) == <<[fn |-> fn, at |-> at, checked |-> checked]>>
Enters(fn, checked) == IF checked \/ fn \in Called THEN Probe(fn, "enter", checked) ELSE <<>>
Exits(fn, checked)  == IF fn \in Called THEN Probe(fn, "exit", checked) ELSE <<>>
Pair(fn, checked)   == Enters(fn, checked) \o Exits(fn, checked)

\* A faulty variant: the return probe of valloc is forgotten.
CPrograms_forgets ==
    Pair("malloc", TRUE) \o Pair("realloc", TRUE) \o Pair("posix_memalign", TRUE)
    \o Enters("free", TRUE) \o Enters("valloc", FALSE)

\* ATTACH_UPROBE_CHECKED gives up when a program is not attached, ATTACH_UPROBE
\* goes on without it.
CPrograms ==
    Pair("malloc", TRUE) \o Pair("calloc", TRUE) \o Pair("realloc", TRUE)
    \o Pair("mmap", TRUE) \o Pair("mremap", TRUE)
    \o Pair("posix_memalign", TRUE) \o Pair("memalign", TRUE)
    \o Enters("free", TRUE) \o Enters("munmap", TRUE)
    \o Pair("valloc", FALSE) \o Pair("pvalloc", FALSE) \o Pair("aligned_alloc", FALSE)

\* The operators of C++ are in the shared library or in the binary itself.
CxxPrograms ==
    Pair("operator_new", ~StdCxxLoaded) \o Pair("operator_new_array", FALSE)
    \o Enters("operator_delete", FALSE) \o Enters("operator_delete_sized", FALSE)
    \o Enters("operator_delete_array", FALSE)
    \o Enters("operator_delete_array_sized", FALSE)

Programs == CPrograms \o CxxPrograms

Attach ==
    /\ todo # <<>>
    /\ todo' = Tail(todo)
    /\ links' = links \cup {<<Head(todo).fn, Head(todo).at>>}
    /\ UNCHANGED <<vars, armed, history>>

\* An unchecked program is not attached, and nobody notices.
Miss ==
    /\ AttachErrors /\ todo # <<>> /\ ~Head(todo).checked
    /\ todo' = Tail(todo) /\ missed' = TRUE
    /\ UNCHANGED <<vars, links, armed, whole, handed, owed, seen, clear, spoiled>>

\* main cleans up: memleak_bpf__destroy destroys every link and every map, with
\* calls under way that are not watched to their end.
Cleanup ==
    /\ todo' = <<>> /\ links' = {} /\ missed' = TRUE
    /\ sizes' = [t \in Tid |-> None] /\ memptrs' = [t \in Tid |-> None]
    /\ allocs' = [w \in Word |-> None]
    /\ whole' = {} /\ handed' = {} /\ owed' = {} /\ seen' = {} /\ clear' = {}
    /\ spoiled' = Addr
    /\ UNCHANGED <<call, heap, armed>>

\* A checked program is not attached, be its function one that the process calls
\* or not: a C process without libstdc++ has no operator new in its binary.  Or
\* the path of the binary cannot be read, just before that program.
SetupFails == AttachErrors /\ todo # <<>> /\ Head(todo).checked /\ Cleanup

\* memleak_bpf__attach or syms_cache__new fails, or the reports are over.
Ends == todo = <<>> /\ links # {} /\ Cleanup

-----------------------------------------------------------------------------
(* The process, watched as far as the programs are attached. *)

Attached(fn, at) == <<fn, at>> \in links

\* Thread t has just entered fn.
Begins(t, fn) ==
    LET outermost == ~InCall(t)
        watched == Attached(fn, "enter")
    IN  /\ armed' = [armed EXCEPT ![t] = <<Attached(fn, "exit")>> \o @]
        /\ seen' = IF watched /\ call'[t].ptr # NULL THEN seen \cup {t} ELSE seen
        /\ clear' = IF watched /\ fn \in AllocFns /\ outermost /\ t \notin owed
                    THEN clear \cup {t} ELSE clear
        /\ owed' = IF watched /\ fn \in AllocFns THEN owed \cup {t} ELSE owed
        /\ handed' = IF watched /\ fn = "posix_memalign"
                        /\ (t \in handed \/ Cardinality(handed) < MaxMemptrs)
                     THEN handed \cup {t} ELSE handed
        /\ whole' = IF outermost /\ todo = <<>> /\ ~missed THEN whole \cup {t} ELSE whole
        /\ UNCHANGED <<setup, missed, spoiled>>

\* What Enter asks for in any case.
MayEnter(t) == ~InCall(t) \/ \E fn \in Called : Delegating(t, fn)

WatchedCall(t) ==
    /\ MayEnter(t) /\ EnterProbe(t)
    /\ LET fn == call'[t].stack[1] IN Attached(fn, "enter") /\ Begins(t, fn)

BlindCall(t) ==
    /\ MayEnter(t)
    /\ \/ \E fn \in AllocFns \cap Called, size \in Sizes, site \in StackIds, ptr \in Addr \cup {NULL} :
            /\ ~Attached(fn, "enter") /\ (ptr # NULL => fn \in MoveFns)
            /\ Enter(t, fn, size, ptr, site)
            /\ Begins(t, fn)
       \/ \E fn \in FreeFns \cap Called, ptr \in Addr \cup {NULL} :
            /\ ~Attached(fn, "enter")
            /\ Enter(t, fn, 0, ptr, 0)
            /\ Begins(t, fn)
    /\ UNCHANGED <<kernel, heap>>

\* The function does its work.  A block given up unseen leaves its record, and
\* one that is still there after a failure has lost it.
Works(t) ==
    /\ Work(t)
    /\ LET ptr == call[t].ptr IN
       spoiled' = IF ptr = NULL THEN spoiled
                  ELSE IF t \in seen /\ heap'[ptr] = None THEN spoiled \ {ptr}
                  ELSE spoiled \cup {ptr}
    /\ seen' = seen \ {t}
    /\ IF InCall(t)' THEN UNCHANGED <<armed, clear>>
       ELSE armed' = [armed EXCEPT ![t] = <<>>] /\ clear' = clear \ {t}
    /\ whole' = IF InCall(t)' THEN whole ELSE whole \ {t}
    /\ UNCHANGED <<setup, missed, handed, owed>>

ReturnProbed(t) == Head(armed[t]) /\ Attached(Top(t), "exit")

\* A return probe takes over what the entry probe saved, but that of posix_memalign
\* gives up when no memptr was handed to it or *memptr cannot be read.
TakesOver(t) ==
    \/ /\ alloc_exit(t)
       /\ owed' = owed \ {t} /\ handed' = handed
    \/ \E faults \in Faults :
        /\ posix_memalign_exit(t, faults)
        /\ owed' = IF faults \/ t \notin handed THEN owed ELSE owed \ {t}
        /\ handed' = handed \ {t}

Returns(t) ==
    /\ Returning(t)
    /\ \/ ReturnProbed(t) /\ TakesOver(t)
       \/ /\ ~ReturnProbed(t) /\ ~Throws(t) /\ Return(t)
          /\ UNCHANGED <<kernel, heap, handed, owed>>
    /\ armed' = [armed EXCEPT ![t] = Tail(@)]
    /\ IF InCall(t)'
       THEN UNCHANGED <<whole, clear, spoiled>>
       ELSE /\ whole' = whole \ {t} /\ clear' = clear \ {t}
            /\ LET granted == {call[t].ret} \cap Addr IN
               spoiled' = IF t \in clear /\ t \notin owed' THEN spoiled \ granted
                                                           ELSE spoiled \cup granted
    /\ UNCHANGED <<setup, missed, seen>>

-----------------------------------------------------------------------------
AttachInit ==
    /\ Init
    /\ todo = Programs /\ links = {}
    /\ armed = [t \in Tid |-> <<>>]
    /\ missed = FALSE /\ whole = {} /\ handed = {} /\ owed = {} /\ seen = {} /\ clear = {} /\ spoiled = {}

AttachNext ==
    \/ Attach \/ Miss \/ SetupFails \/ Ends
    \/ \E t \in Tid : WatchedCall(t) \/ BlindCall(t) \/ Works(t) \/ Returns(t)

AttachSpec == AttachInit /\ [][AttachNext]_attachVars

-----------------------------------------------------------------------------
(* What may be expected of memleak from the moment at which it is started. *)

\* The type invariant.  Every frame of a call has its return probe decided.
AttachTypeOK ==
    /\ TypeOK
    /\ todo \in Seq(Program) /\ links \subseteq AllFns \X {"enter", "exit"}
    /\ armed \in [Tid -> Seq(BOOLEAN)]
    /\ \A t \in Tid : Len(armed[t]) = Len(call[t].stack)
    /\ missed \in BOOLEAN /\ whole \subseteq Tid /\ handed \subseteq Tid
    /\ owed \subseteq Tid /\ seen \subseteq Tid /\ clear \subseteq Tid
    /\ spoiled \subseteq Addr

\* An entry of sizes outlives its call only where an entry probe ran and no
\* return probe took it over since: the function had only its entry probe when
\* the call began, or the return probe of posix_memalign gave up.  Every other
\* call of the thread clears it away, however calls and attachments interleave.
SizesOwed ==
    /\ \A t \in Tid : sizes[t] # None <=> t \in owed
    /\ Keys(memptrs) = handed

\* How far the damage of attaching to a running process goes.  An address is
\* right from the moment at which its block was granted or given up by a call
\* that was watched in whole and found no leftover of the thread's earlier
\* calls: listed with its size and stack while it is live, and not listed when
\* it is free.  What came from the attachment window, from a program that could
\* not be attached, or from a give-up of posix_memalign_exit spoils the next
\* block of that thread and no other.
WatchedExact == \A a \in Addr \ spoiled : ~Busy(a) => allocs[a] = heap[a]

\* From the moment at which attach_uprobes is through, until memleak ends, no call
\* adds to the damage: one that began after that leaves no entry of sizes behind,
\* not even one that it found, unless the return probe of posix_memalign gives up
\* (or an operator new throws without having called malloc); and a block that it
\* gives up loses its record.
SetupSettles ==
    [][\A t \in whole :
        /\ Top(t) \in AllocFns /\ ~InCall(t)' =>
              sizes'[t] = None \/ (Top(t) = "posix_memalign" /\ t \in owed')
        /\ \A a \in Addr : call[t].ptr = a /\ heap'[a] = None => allocs'[a] = None
      ]_attachVars

\* allocs is still the ledger that the report reads, except that a record may be
\* overwritten where a free or the grant before it went unseen: gen_alloc_exit2
\* uses BPF_ANY, so that the address is right again afterwards.  The ledger ends
\* with memleak.
LedgerButSpoiled ==
    [][\/ Ledger!TableNext
       \/ \E a \in spoiled, v \in Info : Ledger!Overwrite(a, v)
       \/ Cleanup]_allocs

-----------------------------------------------------------------------------
(* Why it holds, for every number of threads, addresses and functions. *)

\* The conditions: every request is recorded, sizes and allocs have room, and a
\* failing posix_memalign leaves no address in *memptr.  Everything else may go
\* wrong: calls fail, memptrs is full, *memptr cannot be read.
Recording ==
    /\ SampleRate = 1 /\ \A size \in Sizes : MinSize <= size /\ size <= MaxSize
    /\ IsFiniteSet(Tid) /\ Cardinality(Tid) <= MaxSizes
    /\ IsFiniteSet(Addr) /\ Cardinality(Addr) <= MaxAllocs
    /\ Leftovers \cap Addr = {}

\* The further condition under which the setup settles: operator new has the block
\* from a probed function, which has failed before it throws.
ThrowsLate == \A fn \in NewFns \cap Called : \E g \in SizeFns : <<fn, g>> \in Delegates

\* A block that a call works on is live.
HeldLive == \A t \in Tid, a \in Addr : Holds(t, a) => heap[a] # None

\* No failure value is a key of allocs.
AddressesOnly == Keys(allocs) \subseteq Addr

\* A block that is given up before the eyes of a probe has no record.
SeenInv ==
    \A t \in Tid : t \in seen =>
        Running(t) /\ \A a \in Addr : call[t].ptr = a => allocs[a] = None

\* A call that began clear carries the request of the program: in sizes until a
\* return probe takes it, in allocs from then on.
ClearInv ==
    \A t \in Tid : t \in clear =>
        /\ InCall(t) /\ Top(t) \in AllocFns
        /\ Running(t) => /\ t \in owed
                         /\ sizes[t] = [size |-> call[t].size, stack_id |-> call[t].site]
        /\ \A a \in Addr : call[t].ret = a =>
              heap[a] = IF t \in owed THEN sizes[t] ELSE allocs[a]

\* A record stands in the way of the next one at a spoiled address only.
GrantedInv ==
    \A t \in Tid, a \in Addr \ spoiled :
        call[t].ret = a /\ sizes[t] # None => allocs[a] = None

\* What the maps hold of a call that began at any moment of the attachment.
MapsInv ==
    /\ StackInv /\ CallInv /\ OwnInv /\ HeldLive /\ AddressesOnly
    /\ SizesOwed /\ SeenInv /\ ClearInv /\ GrantedInv /\ WatchedExact

\* the places at which a function needs a program
Places(fn) == IF fn \in FreeFns THEN {"enter"} ELSE {"enter", "exit"}

\* No program that the process needs is forgotten on the way.
SetupInv ==
    ~missed => \A fn \in Called : \A at \in Places(fn) :
        Attached(fn, at) \/ \E i \in DOMAIN todo : todo[i].fn = fn /\ todo[i].at = at

\* A call that began when all was attached has been seen by its probes and will
\* be; and what it saved has gone before an operator new can throw, if that has
\* the block from a function that is probed.
WholeInv ==
    \A t \in whole :
        /\ todo = <<>> /\ ~missed /\ InCall(t)
        /\ \A i \in DOMAIN call[t].stack :
              /\ call[t].stack[i] \in Called
              /\ call[t].stack[i] \in AllocFns => armed[t][i]
        /\ call[t].ptr # NULL => t \in seen
        /\ Returning(t) /\ Top(t) \in NewFns /\ (\E g \in SizeFns : <<Top(t), g>> \in Delegates)
              => sizes[t] = None

\* The inductive invariant behind SizesOwed, WatchedExact, LedgerButSpoiled and
\* SetupSettles.
AttachInv == MapsInv /\ SetupInv /\ WholeInv
=============================================================================
