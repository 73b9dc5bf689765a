-------------------------- MODULE SymSearch_proofs --------------------------
(* Proofs that the binary search of the symbol tables is correct for every   *)
(* sorted table and every address.                                           *)
EXTENDS SymSearch, TLAPS

\* The entries of a table are symbols.
LEMMA Entries ==
    ASSUME NEW tab \in Seq(Symbol), NEW i \in 1..Len(tab)
    PROVE  tab[i].start \in Nat /\ tab[i].size \in Nat
<1>1. tab[i] \in Symbol
  OBVIOUS
<1> QED
  BY <1>1 DEF Symbol

\* Before is downward closed in a sorted table: a symbol in front of one that
\* starts at the address or before does so too.
LEMMA BeforeDownward ==
    ASSUME TypeOK, NEW i \in 1..Len(syms), NEW j \in 1..Len(syms), i <= j, Before(j)
    PROVE  Before(i)
<1>1. syms \in Seq(Symbol) /\ Sorted(syms) /\ addr \in Nat
  BY TablesAssumption DEF TypeOK
<1>2. syms[i].start \in Nat /\ syms[j].start \in Nat
  BY <1>1, Entries
<1>3. CASE i = j
  BY <1>3
<1>4. CASE i < j
  <2>1. syms[i].start <= syms[j].start
    BY <1>1, <1>4 DEF Sorted
  <2> QED
    BY <1>1, <1>2, <2>1 DEF Before
<1> QED
  BY <1>3, <1>4

\* The middle of a part of two or more symbols lies in it, beyond its start.
LEMMA MidInPart ==
    ASSUME TypeOK, start < end
    PROVE  Mid \in Int /\ start < Mid /\ Mid <= end /\ Mid \in 1..Len(syms)
<1>1. syms \in Seq(Symbol) /\ start \in 1..(Len(syms) + 1) /\ end \in 0..Len(syms)
  BY TablesAssumption DEF TypeOK
<1>2. Len(syms) \in Nat
  BY <1>1
<1> QED
  BY <1>1, <1>2 DEF Mid

\* One round of the loop keeps the invariant: the half that is given up holds
\* only symbols whose side is known, since the table is sorted.
LEMMA HalveKeeps == SearchInv /\ Halve => SearchInv'
<1> SUFFICES ASSUME SearchInv, Halve PROVE SearchInv'
  OBVIOUS
<1>1. TypeOK /\ start < end /\ UNCHANGED <<input, pc, found>>
  BY DEF SearchInv, Halve
<1>2. syms' = syms /\ addr' = addr
  BY <1>1 DEF input
<1>3. /\ Mid \in 1..Len(syms) /\ start < Mid /\ Mid <= end
      /\ syms \in Seq(Symbol) /\ Len(syms) \in Nat
      /\ start \in 1..(Len(syms) + 1) /\ end \in 0..Len(syms)
  BY <1>1, MidInPart, TablesAssumption DEF TypeOK
<1>4. CASE AtMost(Mid)
  <2>1. start' = Mid /\ end' = end
    BY <1>4 DEF Halve
  <2>2. \A i \in 1..Len(syms) : i <= Mid => Before(i)
    BY <1>1, <1>3, <1>4, BeforeDownward DEF AtMost, Before
  <2>3. TypeOK'
    BY <1>1, <1>3, <2>1 DEF TypeOK, input
  <2> QED
    BY <1>2, <1>3, <2>1, <2>2, <2>3 DEF SearchInv, Before
<1>5. CASE ~AtMost(Mid)
  <2>1. end' = Mid - 1 /\ start' = start
    BY <1>5 DEF Halve
  <2>2. \A i \in 1..Len(syms) : i > Mid - 1 => ~Before(i)
    <3> SUFFICES ASSUME NEW i \in 1..Len(syms), i > Mid - 1, Before(i) PROVE FALSE
      OBVIOUS
    <3>1. Mid <= i
      BY <1>3
    <3>2. Before(Mid)
      BY <1>1, <1>3, <3>1, BeforeDownward
    <3> QED
      BY <1>5, <3>2 DEF AtMost, Before
  <2>3. TypeOK'
    BY <1>1, <1>3, <2>1 DEF TypeOK, input
  <2> QED
    BY <1>2, <1>3, <2>1, <2>2, <2>3 DEF SearchInv, Before
<1> QED
  BY <1>4, <1>5

\* The last step keeps it; what it returns is an index of the table.
LEMMA FinishKeeps == SearchInv /\ Finish => SearchInv'
<1> SUFFICES ASSUME SearchInv, Finish PROVE SearchInv'
  OBVIOUS
<1>1. /\ syms \in Seq(Symbol) /\ Len(syms) \in Nat
      /\ start \in 1..(Len(syms) + 1) /\ end \in 0..Len(syms)
  BY TablesAssumption DEF SearchInv, TypeOK
<1>2. UNCHANGED <<lookup, syms, addr, start, end>> /\ pc' = "done"
  BY DEF Finish, input
<1>3. found' \in (1..Len(syms)) \cup {None}
  BY <1>1 DEF Finish
<1>4. TypeOK'
  BY <1>2, <1>3 DEF SearchInv, TypeOK
<1> QED
  BY <1>2, <1>4 DEF SearchInv, Before

\* The invariant of the loop holds in every state of every search.
THEOREM SearchInvariant == Spec => []SearchInv
<1>1. Init => SearchInv
  <2> SUFFICES ASSUME Init PROVE SearchInv
    OBVIOUS
  <2>1. syms \in Seq(Symbol) /\ Len(syms) \in Nat
    BY TablesAssumption DEF Init
  <2>2. syms # <<>> => Len(syms) >= 1
    BY <2>1
  <2> QED
    BY <2>1, <2>2 DEF Init, SearchInv, TypeOK
<1>2. SearchInv /\ [Next]_vars => SearchInv'
  <2>1. SearchInv /\ UNCHANGED vars => SearchInv'
    BY DEF SearchInv, TypeOK, Before, vars, input
  <2> QED
    BY <2>1, HalveKeeps, FinishKeeps DEF Next
<1> QED
  BY <1>1, <1>2, PTL DEF Spec

\* With at most one symbol left, it is the last that starts at the address or
\* before, unless all start beyond it.
LEMMA OneLeft ==
    ASSUME SearchInv, ~(start < end)
    PROVE  /\ start = end /\ AtMost(start) => IsLast(start)
           /\ ~(start = end /\ AtMost(start)) => \A i \in 1..Len(syms) : ~Before(i)
<1>1. /\ syms \in Seq(Symbol) /\ Len(syms) \in Nat
      /\ start \in 1..(Len(syms) + 1) /\ end \in 0..Len(syms)
  BY TablesAssumption DEF SearchInv, TypeOK
<1>2. ASSUME start = end, AtMost(start) PROVE IsLast(start)
  BY <1>1, <1>2 DEF SearchInv, IsLast, Before, AtMost
<1>3. ASSUME ~(start = end /\ AtMost(start)), NEW i \in 1..Len(syms), Before(i)
      PROVE  FALSE
  <2>1. syms # <<>> /\ start <= end
    BY <1>1, <1>3 DEF SearchInv
  <2>2. start = end /\ start \in 1..Len(syms) /\ ~Before(start)
    BY <1>1, <1>3, <2>1 DEF AtMost, Before
  <2>3. i <= end
    BY <1>1, <1>3 DEF SearchInv
  <2>4. start > 1
    BY <1>1, <1>3, <2>2, <2>3
  <2> QED
    BY <2>2, <2>4 DEF SearchInv
<1> QED
  BY <1>2, <1>3

\* Finish establishes what the two callers rely on.
LEMMA FinishFinds == SearchInv /\ Finish => FindsLargest' /\ FindsCovering'
<1> SUFFICES ASSUME SearchInv, Finish PROVE FindsLargest' /\ FindsCovering'
  OBVIOUS
<1>1. /\ syms \in Seq(Symbol) /\ Len(syms) \in Nat /\ addr \in Nat
      /\ start \in 1..(Len(syms) + 1) /\ end \in 0..Len(syms)
  BY TablesAssumption DEF SearchInv, TypeOK
<1>2. UNCHANGED <<lookup, syms, addr, start, end>> /\ ~(start < end)
  BY DEF Finish, input
<1>3. /\ start = end /\ AtMost(start) => IsLast(start)
      /\ ~(start = end /\ AtMost(start)) => \A i \in 1..Len(syms) : ~Before(i)
  BY <1>2, OneLeft
<1>4. start # None
  BY <1>1, TablesAssumption
<1>5. FindsLargest'
  BY <1>2, <1>3, <1>4 DEF Finish, FindsLargest, IsLast, Before
<1>6. FindsCovering'
  <2> SUFFICES ASSUME lookup = "dso__find_sym"
               PROVE  /\ found' # None => Inside(found')
                      /\ Disjoint => \A i \in 1..Len(syms) : Inside(i) => found' = i
    BY <1>2 DEF FindsCovering, Inside, Before, Disjoint
  <2>1. found' # None => Inside(found')
    BY DEF Finish, Inside, Before, AtMost, Covers
  <2>2. ASSUME Disjoint, NEW i \in 1..Len(syms), Inside(i) PROVE found' = i
    <3>1. Before(i) /\ start = end /\ AtMost(start) /\ IsLast(start)
      BY <1>3, <2>2 DEF Inside
    <3>2. start \in 1..Len(syms) /\ i <= start
      BY <3>1, <2>2 DEF IsLast
    <3>3. /\ syms[i].start \in Nat /\ syms[i].size \in Nat
          /\ syms[start].start \in Nat /\ syms[start].size \in Nat
      BY <1>1, <3>2, Entries
    <3>4. ASSUME i < start PROVE FALSE
      <4>1. syms[i].start + syms[i].size <= syms[start].start
        BY <2>2, <3>2, <3>4 DEF Disjoint
      <4>2. addr < syms[i].start + syms[i].size /\ syms[start].start <= addr
        BY <2>2, <3>1 DEF Inside, AtMost
      <4> QED
        BY <1>1, <3>3, <4>1, <4>2
    <3>5. i = start
      BY <1>1, <3>2, <3>4
    <3> QED
      BY <2>2, <3>1, <3>5 DEF Finish, Inside, Covers
  <2> QED
    BY <2>1, <2>2
<1> QED
  BY <1>5, <1>6

\* A search that has not ended has promised nothing, and one that has ended
\* does not move.
LEMMA ResultKept ==
    SearchInv /\ FindsLargest /\ FindsCovering /\ [Next]_vars
        => FindsLargest' /\ FindsCovering'
<1> SUFFICES ASSUME SearchInv, FindsLargest, FindsCovering, [Next]_vars
             PROVE  FindsLargest' /\ FindsCovering'
  OBVIOUS
<1>1. CASE Halve
  BY <1>1 DEF Halve, FindsLargest, FindsCovering
<1>2. CASE Finish
  BY <1>2, FinishFinds
<1>3. CASE UNCHANGED vars
  BY <1>3 DEF FindsLargest, FindsCovering, IsLast, Inside, Before, Disjoint, vars, input
<1> QED
  BY <1>1, <1>2, <1>3 DEF Next

\* ksyms__map_addr returns the last symbol at or before the address, for every
\* sorted table.
THEOREM MapAddrCorrect == Spec => []FindsLargest
<1>1. Init => FindsLargest /\ FindsCovering
  BY DEF Init, FindsLargest, FindsCovering
<1> QED
  BY <1>1, SearchInvariant, ResultKept, PTL DEF Spec

\* dso__find_sym names only symbols that contain the offset, and the one that
\* does where symbols do not overlap.
THEOREM FindSymCorrect == Spec => []FindsCovering
<1>1. Init => FindsLargest /\ FindsCovering
  BY DEF Init, FindsLargest, FindsCovering
<1> QED
  BY <1>1, SearchInvariant, ResultKept, PTL DEF Spec
=============================================================================
