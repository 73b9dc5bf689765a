# Verification of eBPF_Hub

`eBPF_Hub` holds two tools built on eBPF. **memleak** attaches probes to the
allocation functions of one running process, keeps the blocks that are
outstanding in a kernel map, and every few seconds prints them grouped by call
stack. **bootstrap** reports processes as they exec and exit. This directory
holds TLA+ models of both, the TLC runs that check them on small instances, and
TLAPS proofs of the results that matter most.

tlc -config bpf_heap.cfg MCMemleakHeap        # any run: PROJECT.json lists module
and cfg tlapm MemleakBpf_proofs.tla                   # and the other *_proofs.tla

## 1. Inventory

| Component | State it keeps | Operations | Hard about it | What makes it correct |
|---|---|---|---|---|
| memleak probes (`memleak.bpf.c`) | maps `sizes`, `memptrs` (by thread), `allocs` (by address) | an entry and a return probe for each allocation function, an entry probe for each free function | the threads of the process interleave between entry, work and return; functions nest; calls fail; maps fill up; memory may be unreadable | what is listed is live, what is live is listed, nothing outlives its call |
| combined statistics (`memleak.bpf.c:48-81`) | map `combined_allocs` | add, subtract | two non-atomic counters, one entry of room | off: `combined_only` is false |
| kernel tracepoint handlers (`memleak.bpf.c:417-571`, `core_fixes.bpf.h`) | the same maps | one handler per tracepoint | | never loaded (`memleak.c:730-742`) |
| report loop (`memleak.c:306-311, 620-728`) | `allocs` array, counters, `exiting`, `nr_intervals` | sleep, walk the map, group, sort, print; signal handler | the map changes under the walk; signals at any point | what stands is reported, once; memleak ends after a signal |
| setup, options, attachment (`memleak.c:66-113, 187-305, 333-372, 744-858`) | `env`, skeleton, links | parse, load, attach one program after the other, checked or not, clean up | programs are attached while calls are under way; one of a pair may fail; a checked program of a function that the process does not even have ends memleak | the damage of a call not seen in whole stays with the next block of its thread, and no call that begins after the attachment adds to it |
| printing of stacks (`memleak.c:405-606`) | `demangle_buf` | for each line its size, its count and its stack | the id that groups is not the stack that is printed; one lookup error ends the printing | a line's stack is that of all its allocations |
| symbol tables and cache (`trace_helpers.c:235-817`) | `syms_cache`, `dsos`, ranges, symbols | take a picture of `/proc/<pid>/maps`, load symbols at first use, look an address up | the process changes during the picture and after it; files come, go and are replaced, and are opened by name three times | what was mapped throughout is found; what is answered was once true, as far as the file is still the one that was mapped |
| symbol search (`trace_helpers.c:142-170, 627-655`) | `start`, `end` | halve, finish | boundaries | the last symbol at or before the address, inside the table |
| histograms, partitions, kernel symbols (rest of `trace_helpers.c`) | | | | not called by memleak |
| uprobe helpers (`uprobe_helpers.c`) | | read ELF files and paths | | pure input |
| bootstrap (`bootstrap.bpf.c`, `bootstrap.c`) | map `exec_start`, ring buffer `rb`, `exiting` | `handle_exec`, `handle_exit`, poll, print, signal | pids used again, events reserved and submitted in different orders, full map, full buffer, two handlers attached in turn | exact durations, known where the exec was recorded, no stale starts, an end after a signal |
| leak tests (`test_case/`) | | call sequences for memleak to find | | their kinds of calls are those of the model's process |
| build system, kernel headers | | | | not code of the tools |

How they interact: the kernel runs the probes in the threads of the traced
process; the report loop reads `allocs` with system calls, with no lock against
the probes; printing asks the symbol cache, which reads the process's maps and
files; signals interrupt the loops. bootstrap's handlers run on any processor
and talk to its loop through the ring buffer alone.

## 2. Modules

| Module | Models | State and actions |
|---|---|---|
| `BpfMap` | the hash maps of the kernel, as `memleak.bpf.c` uses them (external) | `UpdateElem` (fails when full), `DeleteElem`, `Keys` |
| `MemleakBpf` | every probe that memleak attaches, and the traced process around them | `sizes`, `memptrs`, `allocs` as in the code; `call` is the probed call each thread is in, `heap` the live blocks. One action per kind of handler (`alloc_enter`, `realloc_enter`, `posix_memalign_enter`, `free_enter`, `alloc_exit`, `posix_memalign_exit`) over the shared bodies `gen_alloc_enter`, `gen_alloc_exit2`, `gen_free_enter`; `Grant`, `Fail`, `Release`, `ReallocToNothing`, `Unwind` are the work of the function itself |
| `AllocTable` | the abstract promise: a ledger in which a record is entered once, stays as it is, and is removed as a whole | `Enter`, `Remove`; `Overwrite`, which `LedgerButSpoiled` allows at certain addresses only |
| `MemleakAttach` | `attach_uprobes` with its macros, the cleanup of `main`, and `MemleakBpf` as far as it is watched | `todo` and `links` are the programs still to attach and attached; `armed` says for each frame of a call whether its return probe will run. `Attach`, `Miss` (an unchecked program fails), `SetupFails` (a checked one fails), `Ends` (memleak ends after its setup); `WatchedCall`, `BlindCall`, `Works`, `Returns` wrap the actions of `MemleakBpf` |
| `MemleakReport` | the counts of `argp_parse_arg`, the loop of `main`, `sig_handler`, `print_outstanding_allocs`, `print_stack_frames` | the walk with `bpf_map_get_next_key` and `bpf_map_lookup_elem` one system call a step, over a ledger that changes as `AllocTable` allows; grouping, sorting, and the lines that get printed |
| `Symbols` | `syms_cache__get_syms`, `syms__load_file`, `syms__add_dso`, `syms__find_dso`, `dso__load_sym_table`, `syms__map_addr_dso` | `OpenMaps`, `ReadLine` (one line a step, ahead of its use), `AddDso`, `ReadText`, `LoadFails`, `EndOfFile`, `Resolve`; the process maps, unmaps and ends, files become unreadable and are replaced |
| `SymSearch` | the binary search of `ksyms__map_addr` and `dso__find_sym` | `Halve`, `Finish` |
| `Bootstrap` | both handlers, `exec_start`, the ring buffer, `main` and `handle_event` of bootstrap | handlers as atomic map operations with reserve and submit apart; attach, poll, print, signal |
| `MemleakBpf_proofs`, `MemleakLists_proofs`, `MemleakLive_proofs`, `MemleakAttach_proofs`, `MemleakReport_proofs`, `Symbols_proofs`, `SymSearch_proofs`, `Bootstrap_proofs` | theorems and proofs; the second, third and fourth extend the first | |
| `MC*` | instances for TLC | |

Composition: `MemleakReport` does not repeat the probes. It reads a ledger, and
`MemleakBpf` implements that ledger (`LedgerSpec`, checked and proved), so what
the report promises holds over what the probes write. `MemleakAttach` extends
`MemleakBpf` by the time in which not all probes are there, and what remains of
the ledger then is `LedgerButSpoiled`: a record may be overwritten at an address
that was spoiled. `EnterRecord` of `MemleakReport` therefore may overwrite
anywhere, and its promises hold during the attachment too. In the same way `Symbols`
states the result of a search as a formula and `SymSearch` shows that the loop
computes it.

Every module has a section of faulty variants, operators that no specification
uses. Each stands for a plausible bug, and each property is known to fail when
its variant takes the place of the right definition; `PROJECT.json` pairs them
under `mutants`.

### Decisions of modelling

*Probes.* A handler is one step. It touches the entries of its own thread in
`sizes` and `memptrs` and one address in `allocs`, and in a correct program no
other thread works on that address, so a finer grain would add no behaviour that
the properties tell apart. The process is a correct program: it frees live
blocks, once, and no two calls work on one block. An allocation starts only
while an address is left (`Room`), so that exhaustion is a failure chosen by
`CanFail` and not an accident of the small instance. `Delegates` says which
function is implemented by calls of which (operator new by malloc, operator
delete by free). A failing operator new throws, so its return probe never runs
(`Unwind`). An allocator's own mmap inside malloc is not a call through the
probed symbol and is left out. Stack contents and timestamps are abstracted to a
stack id here; `MemleakReport` has the frames and the times. Configuration is
what the loader sets (`memleak.c:245-252`), but `MinSize`, `MaxSize` and
`SampleRate` remain parameters, since the program reads them.

*Attachment.* The kernel decides at the entry of a function whether its return
probe will run (it exchanges the return address), and the probe then runs unless
its program was detached. A call under way when the entry probe of its function
is attached is not seen at all; one that began between the two attachments has
an entry and no return. `missed`, `whole`, `handed`, `owed`, `seen`, `clear` and
`spoiled` are history: they record which programs were attached, which probes
have run and which of them could not read `*memptr`, never what the probes wrote,
so that the properties compare the maps with something that does not come from
them. A program for a function that the process never calls does nothing when
it is attached. When it is not, that matters only if it is checked: then
`attach_uprobes` gives up, after everything else has been attached and with calls
under way that have run an entry probe, and `Cleanup` destroys every link and map.
memleak on a C program such as `leak_test.c` always ends so, at `memleak.c:844`,
because the program's binary has no operator new. `todo` therefore keeps one
program of each checked function whether the process calls it or not, the entry
probe: the failure of its return probe, or of `get_pid_exe_path` just before,
leads to the same state. `Ends` is the cleanup after the setup, be it an error or
the last report; every call under way then loses its return probe as well.
`SetupSettles` speaks of calls from the end of the setup until memleak ends.
The instance has one checked pair whose return probe reads memory
(posix_memalign), one unchecked pair (valloc), free, and checked programs of
functions that the process does not call, operator new of its binary being the
last (`StdCxxLoaded` is FALSE); no function fails there, since failures are the
business of `bpf_pages`. realloc and nested functions are in the module, and left
out of the instance for its size.

*Report.* A record has a stack id and frames, because `gen_alloc_enter` takes
both: the id from `bpf_get_stackid`, the frames by reading the stack itself. At
the entry of malloc a walk over frame pointers passes by the caller (its return
address is not behind a frame pointer yet); a kernel that adds it to user stacks
of entry probes makes such pairs rarer, not impossible: functions without frame
pointers, for which the frames are read at all, still drop out. An `int` of
`IntSize` 4 stands for 32 bits: asking for 8 rounds there is asking for 2^32 here.
The order in which the kernel hands out keys is a fixed order of numbers; if the
key asked about is gone, the walk starts at the first key again, as the kernel's
hash map does. The loop looks at `exiting` between rounds only. `qsort` may leave
stacks of equal size in any order (`Sorted` is a set of arrays, one of which is
printed). A negative count of rounds stays negative in the model (-1): the program
would need 2^31 rounds to see it wrap.

*Symbols.* A symbol table is a set here, without order; `SymSearch` has the sorted
array. Symbols that start at one address count as one. Of `/proc/<pid>/maps` the
kernel promises only that addresses never go back; each line is a step of its own,
and `fscanf` reads from a buffer, so that lines are looked at (`AddDso`) later
than the kernel made them up. A path has a sequence of files, its versions:
`Replace` puts the next one there while the process goes on with what it has
mapped, and the kernel then shows the mapping with " (deleted)" behind its path, a
name that cannot be opened. The code opens a file by its name when it takes the
type (`trace_helpers.c:277`), again for `.text` (297) and again for the symbols at
the first lookup (502), and never compares the inode that it has read (681). Each
of these is a step of its own in the model and finds the file that is there by
then. `replaced` is history, the paths of which another file came between the
start of the picture and the reading of the symbols; there `AnswersOnceTrue`
promises the path and a symbol that some file at this path has had, and no more,
because the code promises no more. A return address is never the first byte of a
mapping, so the strict test of `trace_helpers.c:384` is taken as it stands, and
the promises exclude that byte: no property here could find that test wrong. All
executable segments of a file are displaced alike (`bias`), as the code assumes
when it takes the displacement of `.text` for every one. `LoadFails` is any way
out through `err_out` of `syms__load_file` but a missing `.text`: a line that does
not scan, a read error when the process is gone, no memory. Later failures of
malloc are left out. A `damaged` file has a symbol section that breaks off: from
the first lookup in one the code uses freed fields (`Intact` is false), a search
may end at any dso, and every answer is `Garbage`, which stands for whatever may
come out.

*bootstrap.* A process has a leader and at most one more thread. Events carry
fields that only the properties read (`ran`, the time since the process's exec;
`noted`, whether `handle_exec` was there to see that exec and `exec_start` had room;
how many exits were reported before). That events come out in the order of their
reservation is a property of libbpf's ring buffer, not of this program, and not a
property here. `min_duration_ns` is 0, as `main` leaves it
today, and 1, for the filter that the handlers implement. The handlers are
attached one after the other while processes run, in every run; `orphans` is
history, the pids whose recorded start is that of a process which left before
`handle_exit` was there.

## 3. Runs

| Run | Asks | Instance | Result |
|---|---|---|---|
| `bpf_heap` | are the probes exact for malloc, free, posix_memalign and operator new over malloc? | 2 threads, 3 addresses, 2 sizes, 2 stacks | `TypeOK`, `NoFalseLeak`, `NoMissedLeak`, `CallsLeaveNothing`, `ProbeInv`, `ListInv`, `LedgerSpec` hold |
| `bpf_pages` | mmap, mremap, munmap with failures, a size filter, sampling, maps of one entry | 2 threads, 2 addresses | less is listed, nothing false is (`NoFalseLeak`, `LiveInv`); the entries of a thread drain |
| `bpf_attach` | what does it cost to attach to a running process, to miss a program, to end in the middle, to find `memptrs` full or `*memptr` unreadable? | 2 threads, 2 addresses, posix_memalign, valloc and free, 1 entry of `memptrs`, libstdc++ not loaded (822340 states) | `SizesOwed`, `WatchedExact`, `SetupSettles`, `LedgerButSpoiled` hold: the damage is one block per leftover; so does `AttachInv`, the invariant of the proof |
| `bpf_realloc_fails` | is a block still listed after a realloc that failed? | 2 threads, 2 addresses | **no**: finding 1 |
| `bpf_memalign_fails` | is only what was allocated listed? | 2 threads, 2 addresses | **no**: finding 2 |
| `report_walk` | does a walk over a changing map tell the truth? | 3 keys, 3 changes, 2 units of time, 4 kinds of stacks, no count of rounds, 1, or one that an int cannot hold; failing map calls | holds, with `WalkInv`, the invariant of its proof |
| `report_counts_twice` | is each allocation counted once? | 2 keys, 4 changes | **no**: finding 3 |
| `report_merges_stacks` | is the stack of a line that of all its allocations? | 2 keys, one id with two frames | **no**: finding 4 |
| `symbols` | does a picture taken line by line serve later lookups? | 6 paths, one with two versions and one with a damaged file, 10 mappings, 7 addresses, 3 changes (276861 states) | holds, with `PictureInv`, the invariant of its proof |
| `sym_search` | does the search find what callers need? | every table of up to 3 symbols over small addresses, with aliases, overlaps and empty symbols | holds |
| `bootstrap_events` | exact durations, known ones, no stale starts, an end | 2 pids, 2 processes and 2 execs, so that a pid is used again, room for 1 start and 2 events, with and without filter, handlers attached in turn (171408 states) | holds, with `HandlersInv`, the invariant of its proof |
| `bootstrap_thread_exit` | does a process exit once? | a leader and one thread | **no**: finding 5 |

Why the bounds suffice. For the probes two threads are enough to hand an address
from one to the other between any two probes, and three addresses let both work
while a third block stands; the proofs then remove the bound. Three keys give
the walk a key before, at and behind its cursor, and three changes remove the
cursor, enter something elsewhere and restore it. Three changes of an address
space are two files unmapped and a third mapped in their place, before, at or
behind the line being read, or a file replaced and its old mapping exchanged for
one of the new. Tables of three symbols have every parity of
`end - start` and every position of the answer, and the search is proved for all
tables. Room for fewer entries than there are threads or processes makes every
map and buffer run full.

The properties, and the code that they are about:

- `NoFalseLeak`, `NoMissedLeak`: the order entry, work, return over all threads,
  and nested functions (`gen_alloc_enter` keeps the entry that it finds,
  `gen_alloc_exit2` consumes it).
- `CallsLeaveNothing`, `SizesDrain`: an entry that outlives its call would give
  the thread's next block the size and stack of an earlier one.
- `LedgerSpec`: the update with `BPF_ANY` never overwrites a standing record.
- `SizesOwed`: an entry of `sizes` outlives its call exactly where an entry probe
  ran and no return probe took it over. `WatchedExact`: each leftover spoils the
  next block of its thread and no other; every address put right since is exact.
  `SetupSettles`: until memleak ends, a call that began after the last attachment
  leaves nothing behind and a block that it gives up loses its record.
  `LedgerButSpoiled`: a record is overwritten at spoiled addresses only.
- `StandingReported`: an allocation that was there, old enough, from the start of
  a walk to its end is in the report, however the map changed around it.
  `QuietReportExact`: with no change the report is exactly the map, error ids
  counted. `ReportOrdered`: one line for each stack, the largest first, also
  where the printing breaks off. `RoundsAsAsked`: as many walks as asked for,
  modulo the width of an int, whatever fails in them.
- `StandingFound`: code mapped all along is found, though the walk reads lines of
  different moments and dsos of files long gone come first in the search.
  `AnswersOnceTrue`: path, symbol and offset of an answer were right at some
  moment since the walk began, or the file was replaced before its symbols were
  read; then only the path was. `NamesStay`: tables are read once, at the first
  lookup, and neither a later failure to open the file nor another file in its
  place takes a name back.
- `FindsLargest`, `FindsCovering`, `Terminates`: the search.
- `StartsAreLive`: no start stays for the next process with the pid. `DurationExact`:
  a duration is the process's own or not known. `DurationKnown`: it is known if the
  exec was seen and recorded; no exit of another thread takes it away.
  `EventsDrain`: no handler leaves the buffer blocked.
- `ExitsAfterSignal`, in both tools: after a signal, `main` comes to its end.

### Fairness

`FairSpec` of `MemleakBpf`: weak fairness of `Proceed(t)` for each thread. A
thread inside a call is runnable, its function does not block on another thread
of the model, and probes run with the instruction that they are put on. Nothing
makes a thread start a call.
`MemleakReport`: weak fairness of the reader only. memleak is a process that the
scheduler runs, and `sleep` returns. The traced process may stop at any point.
`ExitsAfterSignal` rests also on the bound on changes (`MaxChurn`): without a
bound, a process that keeps removing the key under the cursor keeps the walk
going, and `exiting` is looked at between walks only.
`Bootstrap`: weak fairness of the steps of `main` and of submitting what has been
reserved; a handler that has reserved runs on to its submit with preemption off.
`SymSearch`: weak fairness of the loop. `Symbols` states no liveness.

## 4. Findings

1. `memleak.bpf.c:240` (and 272): a failing realloc or mremap leaves a live block
   that is no longer listed.
2. `memleak.bpf.c:306`: a failing posix_memalign enters whatever `*memptr` held.
3. `memleak.c:638`: a removal of the key under the cursor restarts the walk, and
   what was already counted is counted again.
4. `memleak.c:676`: allocations with one stack id are put together, and printed
   with the frames of the first of them, though the frames are recorded because
   the id does not tell enough.
5. `bootstrap.bpf.c:90`: the exit of a leader is reported as that of its process
   while other threads live on.

No document promises anything for the time of an attachment, so the following
are limits that the properties name and not findings. bootstrap: a start
recorded before `handle_exit` is attached may be taken for that of the next
process with the same pid, once (`orphan` in `DurationExact`, `StartsAreLive`).
memleak: `spoiled`, above, and that a C process ends it (`SetupFails`). Nor does any
document promise that names are those of the files that were mapped (`replaced`).

## 5. Proofs

`MemleakBpf_proofs` (for all threads, addresses, sizes, functions, delegations
and map sizes that the module's assumptions allow):

- `TypeCorrect`: `Spec => []TypeOK`.
- `ProbesInductive`: `Spec => []ProbeInv`. `NoFalseLeak` is not inductive: the
  return probe enters whatever `sizes` holds under whatever address was
  returned. `ProbeInv` adds what makes that safe. `StackInv`: which functions can
  be under which. `SizesInv`: an entry of `sizes` belongs to the call its thread
  is in and has its size. `MemptrsInv`: `memptrs` is occupied exactly during
  posix_memalign. `HeldInv`: a block that a call works on is live, and no record
  stands where the call is going to enter one. `OwnInv`: no two calls work on one
  block. The step lemma has one step per action; `EnterFacts`, `ReturnFacts` and
  `WorkFacts` say once what entering, returning and working do to the calls.
- `Soundness` (`NoFalseLeak`), `NothingLeftBehind` (`CallsLeaveNothing`), and
  `ImplementsLedger` (`LedgerSpec`): each step of a probe is a step of the ledger
  or leaves it alone.

All but the first assume `WellBehaved`: `*memptr` can be read and holds no
address after a failure, `memptrs` has room for every thread, and a failing
operator new has gone through a probed function. Runs `bpf_attach` and
`bpf_memalign_fails` show what is left, and what breaks, without it. The proofs
need no failing-realloc assumption: a failed realloc loses a record and falsifies
nothing.

`MemleakLists_proofs` is the other half, `Completeness` (`NoMissedLeak`), from
`ListsInductive` (`ListInv`). A block is listed at the end of a chain of steps, so
the invariant says where its request is at each of them: `PendingInv`, while the
allocation is under way, in `sizes`, and it is that of the program's own call
under however many functions; `OnItsWayInv`, while the block is returned, in
`sizes` or already in `allocs`. `AlignedInv` is about a block given up to a call.
The condition, `Complete`, is `WellBehaved` and: nothing is sampled or filtered
out, `sizes` and `allocs` have room, and no realloc, mremap or free function
fails (finding 1 is what happens if one does). `bpf_heap` meets it.

`MemleakLive_proofs` drops the conditions instead: `OnlyLive` (`OnlyLiveBlocks`,
from `LiveInv`) holds with full maps, unreadable memory, sampling and a throwing
operator new, as long as a failing posix_memalign leaves no address in
`*memptr`. Finding 2 therefore is the only way to list a block that is not there.
The invariant does not mention `sizes` and `memptrs`; what is stale in them can
only spoil the size and the stack of a record.

`MemleakAttach_proofs` is about every number of threads and addresses, every choice
of functions and delegations, and every interleaving of calls with
`attach_uprobes`. `AttachTyped` (`AttachTypeOK`) needs no condition. The other
theorems assume `Recording`: every request is recorded, `sizes` and `allocs` have
room, and a failing posix_memalign leaves no address in `*memptr`. Calls may fail,
`memptrs` may be full and `*memptr` unreadable.

- `OnlyOwedStays` (`SizesOwed`), `WatchedIsExact` (`WatchedExact`) and
  `LedgerIsSpoiled` (`LedgerButSpoiled`) follow from `MapsInductive` (`MapsInv`,
  the first part of `AttachInv`). The argument does not look at which programs are
  attached: a call is watched or not, frame by frame. `SizesOwed` is inductive by
  itself: the other side of it, `owed` and `handed`, is decided by which probes
  ran and whether `*memptr` could be read. `WatchedExact` is not: while a call
  works on an address it says nothing of it. `ClearInv` carries the request of a
  call that found no leftover from `sizes` to `allocs`, through blind frames and
  whatever is attached meanwhile; `SeenInv` says that a block given up before a
  probe has no record; `GrantedInv`, that a record which is about to be
  overwritten is at a spoiled address; `OwnInv` and `HeldLive`, that no other
  thread's step touches any of these.
- `SetupSettled` (`SetupSettles`) does look at the programs. `ProgramsComplete`
  goes through the list of `attach_uprobes`: every function of the process has an
  entry, every allocation a return. `SetupInv` keeps that while programs go from
  `todo` to `links`, and a program that fails, checked or not, sets `missed`.
  `WholeInv` follows a call that began after the last of them: each of its frames
  will have its return probe unless memleak ends before, a block that it gives up
  has been seen, and what it saved in `sizes` has gone before an operator new can
  throw. The further condition, `ThrowsLate`, is that operator new has its block
  from a probed function; one that throws by itself leaves its entry, because no
  return probe runs. `AttachInductive` is the invariant in whole (`AttachInv`:
  `MapsInv`, `SetupInv`, `WholeInv`), which `bpf_attach` checks.

`MemleakReport_proofs` (for all finite sets of keys, all sizes, stacks, ages, counts
of rounds, and bounds on the clock and on changes, which only have to exist):
`TypesKept` (`TypeOK`), `WalkInductive` (`WalkInv`), and from it
`StandingIsReported` (`StandingReported`), `QuietIsExact` (`QuietReportExact`),
`ReportsOrdered` (`ReportOrdered`) and `RoundsKept` (`RoundsAsAsked`). None of the
four promises is inductive, as they speak of printed reports only. `CountedInv`
says during the walk what `StandingReported` says at its end: what stands, is old
enough and lies at or before `prev_key` has been counted at least once. That it
survives a step to the next key takes `CursorInv`, no standing record lies between
`prev_key` and `curr_key`. A removal of the key under the cursor sends the walk back
to the first key: `curr_key` goes down, `Reached` shrinks when `prev_key` follows
it, and what was counted twice only makes the counts larger. `HistoryInv` ties
`standing` and `ever` to the ledger while the walk is on. `QuietInv` says of a walk
in which nothing has moved that the cursor only goes forward, so that each record
is counted once and the counts are exact. `GroupsInv`, no two groups have one
stack, makes the sums over the lines of a report sums over one line; it is kept by
`Sorted`, for any permutation that `qsort` may have made. `RoundsInv` adds the
rounds walked to the rounds left. Sums over sets of records are folds; what the
proof needs of them (adding an element, being monotonic) is shown by induction on
cardinality, stated as the existence of a smallest counterexample among numbers.

`SymSearch_proofs` (for every sorted table): `SearchInvariant`, `MapAddrCorrect`
(`FindsLargest`) and `FindSymCorrect` (`FindsCovering`). The invariant says that
all before `start` are at or before the address and all behind `end` are beyond.

`Symbols_proofs` (for all files, mappings, addresses and bounds on changes):
`TypesHold` (`TypeOK`), `PictureInductive` (`PictureInv`), `StandingIsFound`
(`StandingFound`), `AnswersWereTrue` (`AnswersOnceTrue`) and `NamesKept`
(`NamesStay`). That a standing address is found is not inductive: it says nothing
before the walk ends. `StandingInv` says what the walk has brought so far: all
that stands and starts before its position is recorded, or among the lines that
are read and not looked at yet. It survives a line because
the next line starts no later than anything still to come, so that what the walk
skips would overlap the mapping just read. `DsosInv` says that a recorded range
was mapped once and overlaps nothing that stands, or else a range recorded earlier
could shadow it in `syms__find_dso`; and, for a path that was not replaced, that
the dso has taken its type, its displacement and its symbols from the file that is
mapped there. It holds for such a path although type, `.text` and symbols are read
at three opens, because a file can only be replaced once its symbols are there, or
the path is `replaced` from then on; `LinesInv` says the same of a line that is
read and not looked at yet. For the others it keeps that a symbol is one of a file
that was at the path. `AnswersInv` says that a lookup would bring again what it
brought, from which both `AnswersOnceTrue` and `NamesStay` follow. All three
promises end where a table breaks off, and the proofs show that nothing breaks
them before: fields are freed only by a lookup, in a complete picture, in a
damaged file. Assumed of the process: mappings do not overlap, and a file of type
EXEC is mapped where it was linked.

`Bootstrap_proofs` (for all pids, sizes of the map and the buffer, filters and
bounds on processes): `HandlersInductive` (`HandlersInv`), and from it
`StartsLive` (`StartsAreLive`), `DurationsExact` (`DurationExact`),
`DurationsKnown` (`DurationKnown`) and `TypeCorrect`. `StartsAreLive` speaks of
the time in which both handlers are attached and is not inductive: the start that
a handler finds may have been recorded before. `StartsOwned` extends it to the
whole run but for the pids of `orphans`, and needs `Phases`, which says what can
be in `exec_start` in which phase of the attachment, and `StartsPast`, without
which a duration could be negative. `NotedKept` is the converse of `StartsOwned`:
a start that was recorded is still there, with the time of the last exec, when the
leader exits. Assumed are only that `None` is no time and no process and that the
clock has a value.

Only model-checked: liveness (`SizesDrain`, `ExitsAfterSignal` of both tools,
`EventsDrain`, `Terminates`), which is out of the prover's reach together with
ENABLED. The invariants and action properties of the passing runs are all proved.
What the other runs find is a counterexample each and takes no proof.

## 6. Not modelled

- Combined statistics and the kernel tracepoint handlers: `memleak.c:252` sets
  `combined_only` to false, `memleak.c:730-742` keeps the tracepoint programs from
  being loaded, and no option changes either. There is no state of memleak in
  which they run.
- The parts of `trace_helpers.c` and `uprobe_helpers.c` that memleak does not
  call (histograms, partitions, kernel symbols, offsets of functions).
- The text of reports, demangling, and blazesym, which an optional build uses.
- How long a walk over `allocs` may get while the process frees without end
  (`MaxChurn` bounds it here), what is lost behind a line whose stack cannot be looked
  up, and a count of rounds that does not fit an `int`: the models have all three and
  no promise to hold them against.
- A munmap of a part of a mapping; an exec or the end of the process that memleak
  watches. Nothing in memleak looks at either, and nothing is said of them.
- Setup up to the load of the skeleton: until then there is nothing to be seen,
  and a failure only ends memleak.
- The build system, and the generated `vmlinux` headers: declarations of kernel
  types, nearly all lines of the repository, with no behaviour.

## 7. Plan

The modules above are what the code has to model, and their invariants are proved.
What is left:

1. The composition of the report with the probes as a theorem: that a step of
   `MemleakAttach` is one of `EnterRecord`, `RemoveRecord` or none for the map of
   `MemleakReport`. So far `LedgerIsSpoiled` and the definition of `EnterRecord`
   show it side by side.
2. How long a walk can get: a bound on its steps in the number of removals, as an
   invariant, of which `ExitsAfterSignal` would be the consequence under fairness.

Combined statistics come back into the plan if an option ever switches them on:
two counters in one word, and the read after the delete in `gen_free_enter`.
