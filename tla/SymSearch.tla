----------------------------- MODULE SymSearch -----------------------------
(***************************************************************************)
(* The binary search of the symbol tables: ksyms__map_addr, and the lookup *)
(* of dso__find_sym, which runs the same loop and then asks whether the    *)
(* symbol it found covers the offset (trace_helpers.c).                    *)
(*                                                                         *)
(* A table is the array that qsort left; its indices count from 1 here and *)
(* from 0 in the code, so an empty table has end = 0 (-1 in the code).     *)
(***************************************************************************)
EXTENDS Integers, Sequences

CONSTANTS Tables,      \* the sorted symbol tables
          Addrs,       \* the addresses looked up
          None         \* no symbol: NULL

Symbol == [start : Nat, size : Nat]
Sorted(tab) == \A i, j \in 1..Len(tab) : i < j => tab[i].start <= tab[j].start

ASSUME TablesAssumption ==
    /\ \A tab \in Tables : tab \in Seq(Symbol) /\ Sorted(tab)
    /\ Addrs \subseteq Nat
    /\ None \notin Nat

VARIABLES lookup,      \* the caller: "ksyms__map_addr" or "dso__find_sym"
          syms, addr,  \* its arguments
          start, end,  \* the part of the table that is left
          pc, found    \* found: the index of the result

input == <<lookup, syms, addr>>
vars == <<input, start, end, pc, found>>

Init ==
    /\ lookup \in {"ksyms__map_addr", "dso__find_sym"}
    /\ syms \in Tables /\ addr \in Addrs
    /\ start = 1 /\ end = Len(syms)
    /\ pc = "search" /\ found = None

-----------------------------------------------------------------------------
\* Faulty variants, which the properties at the end must catch.
Mid_low == start + (end - start) \div 2
AtMost_strict(i) == syms[i].start < addr
Covers_end(i) == addr <= syms[i].start + syms[i].size

-----------------------------------------------------------------------------
Mid == start + (end - start + 1) \div 2

AtMost(i) == syms[i].start <= addr

Covers(i) == addr < syms[i].start + syms[i].size

Halve ==
    /\ pc = "search" /\ start < end
    /\ IF AtMost(Mid) THEN start' = Mid /\ end' = end
                      ELSE end' = Mid - 1 /\ start' = start
    /\ UNCHANGED <<input, pc, found>>

Finish ==
    /\ pc = "search" /\ ~(start < end)
    /\ pc' = "done"
    /\ found' = IF /\ start = end /\ AtMost(start)
                   /\ lookup = "dso__find_sym" => Covers(start)
                THEN start ELSE None
    /\ UNCHANGED <<input, start, end>>

Next == Halve \/ Finish

Spec == Init /\ [][Next]_vars /\ WF_vars(Next)

-----------------------------------------------------------------------------
\* The type invariant; every index the loop reads is in the table.
TypeOK ==
    /\ lookup \in {"ksyms__map_addr", "dso__find_sym"}
    /\ syms \in Tables /\ addr \in Addrs
    /\ start \in 1..(Len(syms) + 1) /\ end \in 0..Len(syms)
    /\ pc \in {"search", "done"} /\ found \in (1..Len(syms)) \cup {None}

\* Symbol i starts at addr or before, and addr is inside symbol i.
Before(i) == syms[i].start <= addr
Inside(i) == Before(i) /\ addr < syms[i].start + syms[i].size

\* The last symbol that starts at addr or before is in start..end, unless there
\* is none and start has never moved.
SearchInv ==
    /\ TypeOK
    /\ syms # <<>> => start <= end
    /\ \A i \in 1..Len(syms) : i <= start /\ start > 1 => Before(i)
    /\ \A i \in 1..Len(syms) : i > end => ~Before(i)

\* i is the last symbol of the table that starts at addr or before.
IsLast(i) ==
    /\ i \in 1..Len(syms) /\ Before(i)
    /\ \A j \in 1..Len(syms) : Before(j) => j <= i

\* "find largest sym_addr <= addr using binary search": ksyms__map_addr returns
\* the last such symbol, or NULL if every symbol starts beyond addr.
FindsLargest ==
    pc = "done" /\ lookup = "ksyms__map_addr" =>
        IF found = None THEN \A i \in 1..Len(syms) : ~Before(i) ELSE IsLast(found)

\* dso__find_sym names a symbol only for an offset inside it, and where the
\* symbols do not overlap it finds the one that is there.
Disjoint ==
    \A i, j \in 1..Len(syms) : i < j => syms[i].start + syms[i].size <= syms[j].start
                                       /\ syms[j].size # 0

FindsCovering ==
    pc = "done" /\ lookup = "dso__find_sym" =>
        /\ found # None => Inside(found)
        /\ Disjoint => \A i \in 1..Len(syms) : Inside(i) => found = i

\* The search ends: each round leaves a smaller part of the table.
Terminates == <>(pc = "done")
=============================================================================
