------------------------ MODULE MemleakReport_proofs ------------------------
(***************************************************************************)
(* Proofs about the report of memleak, for every set of addresses, sizes   *)
(* and stacks, and every change of the ledger under the walk.  What a sum  *)
(* over a finite set comes to is proved first, by induction on the number  *)
(* of its elements: the set of the numbers for which a fact holds contains *)
(* 0 and with each number the next, and so is Nat.                         *)
(***************************************************************************)
EXTENDS MemleakReport, FiniteSetTheorems, TLAPS

-----------------------------------------------------------------------------
(* Sums over finite sets. *)

\* Induction, as a fact about sets of numbers.
LEMMA Inductive ==
    ASSUME NEW N \in SUBSET Nat, 0 \in N, \A n \in N : n + 1 \in N
    PROVE  N = Nat
  <1> SUFFICES ASSUME Nat \ N # {} PROVE FALSE
    OBVIOUS
  <1>1. PICK m \in Nat \ N : \A n \in Nat \ N : ~(<<n, m>> \in OpToRel(<, Nat))
    BY NatLessThanWellFounded, WFMin
  <1>2. \A n \in Nat \ N : ~(n < m)
    BY <1>1 DEF OpToRel
  <1>3. m # 0 /\ m - 1 \in Nat /\ m - 1 < m /\ (m - 1) + 1 = m
    OBVIOUS
  <1> QED
    BY <1>2, <1>3

Some(T) == CHOOSE x \in T : TRUE

\* One more round of the recursion that defines the sum.
Unfolded(w, g, T) == IF T = {} THEN 0 ELSE w[Some(T)] + g[T \ {Some(T)}]

\* The function that gives the sums of w over the subsets of S.
Sums(w, S) == CHOOSE g : g = [T \in SUBSET S |-> Unfolded(w, g, T)]

LEMMA SomeIsElement == \A T : T # {} => Some(T) \in T
  BY DEF Some

\* Taking one element away.
LEMMA OneLess ==
    ASSUME NEW T, IsFiniteSet(T), NEW x \in T
    PROVE  /\ IsFiniteSet(T \ {x})
           /\ Cardinality(T) \in Nat \ {0} /\ Cardinality(T \ {x}) = Cardinality(T) - 1
  <1>1. Cardinality(T) \in Nat /\ Cardinality(T \ {x}) \in Nat
    BY FS_CardinalityType, FS_RemoveElement
  <1> QED
    BY <1>1, FS_RemoveElement

\* The recursion has a solution, and Sums is one.
LEMMA SumsUnfold ==
    ASSUME NEW S, IsFiniteSet(S), NEW w
    PROVE  \A T \in SUBSET S : Sums(w, S)[T] = Unfolded(w, Sums(w, S), T)
  <1> DEFINE Upto(g, n) == \A T \in SUBSET S : Cardinality(T) <= n => g[T] = Unfolded(w, g, T)
             N == {n \in Nat : \E g : Upto(g, n)}
  <1>1. \A T \in SUBSET S : IsFiniteSet(T) /\ Cardinality(T) \in Nat
    BY FS_Subset, FS_CardinalityType
  <1>2. 0 \in N
    <2>1. \A T \in SUBSET S : Cardinality(T) <= 0 => T = {}
      BY <1>1, FS_EmptySet
    <2>2. Upto([T \in SUBSET S |-> 0], 0)
      BY <2>1 DEF Unfolded
    <2> QED
      BY <2>2
  <1>3. ASSUME NEW n \in N PROVE n + 1 \in N
    <2>1. PICK g : Upto(g, n)
      OBVIOUS
    <2> DEFINE h == [T \in SUBSET S |-> Unfolded(w, g, T)]
    <2>2. \A T \in SUBSET S : Cardinality(T) <= n => h[T] = g[T]
      BY <2>1
    <2>3. ASSUME NEW T \in SUBSET S, Cardinality(T) <= n + 1
          PROVE  h[T] = Unfolded(w, h, T)
      <3>1. CASE T = {}
        BY <3>1 DEF Unfolded
      <3>2. CASE T # {}
        <4>1. Some(T) \in T
          BY <3>2, SomeIsElement
        <4>2. T \ {Some(T)} \in SUBSET S /\ Cardinality(T \ {Some(T)}) <= n
          BY <1>1, <2>3, <4>1, OneLess
        <4>3. h[T \ {Some(T)}] = g[T \ {Some(T)}]
          BY <2>2, <4>2
        <4>4. h[T] = w[Some(T)] + g[T \ {Some(T)}]
          BY <3>2 DEF Unfolded
        <4> HIDE DEF h
        <4> QED
          BY <3>2, <4>3, <4>4 DEF Unfolded
      <3> QED
        BY <3>1, <3>2
    <2> HIDE DEF h
    <2>4. Upto(h, n + 1)
      BY <2>3
    <2> QED
      BY <2>4
  <1>4. N = Nat
    <2> HIDE DEF N
    <2>1. N \in SUBSET Nat
      BY DEF N
    <2> QED
      BY <1>2, <1>3, <2>1, Inductive
  <1>5. Cardinality(S) \in Nat
    BY FS_CardinalityType
  <1>6. PICK g : Upto(g, Cardinality(S))
    BY <1>4, <1>5
  <1>7. \A T \in SUBSET S : g[T] = Unfolded(w, g, T)
    BY <1>6, FS_Subset
  <1> DEFINE f == [T \in SUBSET S |-> g[T]]
  <1>8. \A T \in SUBSET S : Unfolded(w, f, T) = Unfolded(w, g, T)
    <2>1. \A T \in SUBSET S : f[T \ {Some(T)}] = g[T \ {Some(T)}]
      OBVIOUS
    <2> HIDE DEF f
    <2> QED
      BY <2>1 DEF Unfolded
  <1>9. f = [T \in SUBSET S |-> Unfolded(w, f, T)]
    <2>1. [T \in SUBSET S |-> Unfolded(w, f, T)] = [T \in SUBSET S |-> g[T]]
      BY <1>7, <1>8
    <2> QED
      BY <2>1
  <1> DEFINE Solves(h) == h = [T \in SUBSET S |-> Unfolded(w, h, T)]
  <1>10. Solves(Sums(w, S))
    <2>1. Solves(f)
      BY <1>9
    <2>2. Sums(w, S) = CHOOSE h : Solves(h)
      BY DEF Sums
    <2> HIDE DEF Solves, f
    <2> QED
      BY <2>1, <2>2
  <1> QED
    BY <1>10

LEMMA SumIsLast == \A w, S : SumFunctionOnSet(w, S) = Sums(w, S)[S]
  BY DEF SumFunctionOnSet, FoldFunctionOnSet, MapThenFoldSet, Sums, Unfolded, Some

\* What is left of S sums up as it does inside S.
LEMMA SumsInside ==
    ASSUME NEW S, IsFiniteSet(S), NEW w, NEW R \in SUBSET S
    PROVE  Sums(w, S)[R] = SumFunctionOnSet(w, R)
  <1> DEFINE N == {n \in Nat : \A T \in SUBSET R :
                      Cardinality(T) <= n => Sums(w, S)[T] = Sums(w, R)[T]}
  <1>1. IsFiniteSet(R)
    BY FS_Subset
  <1>2. \A T \in SUBSET R : IsFiniteSet(T) /\ Cardinality(T) \in Nat
    BY <1>1, FS_Subset, FS_CardinalityType
  <1>3. \A T \in SUBSET R : /\ Sums(w, S)[T] = Unfolded(w, Sums(w, S), T)
                            /\ Sums(w, R)[T] = Unfolded(w, Sums(w, R), T)
    BY <1>1, SumsUnfold
  <1>4. 0 \in N
    <2>1. \A T \in SUBSET R : Cardinality(T) <= 0 => T = {}
      BY <1>2, FS_EmptySet
    <2> QED
      BY <1>3, <2>1 DEF Unfolded
  <1>5. ASSUME NEW n \in N PROVE n + 1 \in N
    <2>1. ASSUME NEW T \in SUBSET R, Cardinality(T) <= n + 1, T # {}
          PROVE  Sums(w, S)[T] = Sums(w, R)[T]
      <3>1. Some(T) \in T
        BY <2>1, SomeIsElement
      <3>2. T \ {Some(T)} \in SUBSET R /\ Cardinality(T \ {Some(T)}) <= n
        BY <1>2, <2>1, <3>1, OneLess
      <3>3. Sums(w, S)[T \ {Some(T)}] = Sums(w, R)[T \ {Some(T)}]
        BY <3>2
      <3> QED
        BY <1>3, <2>1, <3>3 DEF Unfolded
    <2>2. Sums(w, S)[{}] = Sums(w, R)[{}]
      BY <1>3 DEF Unfolded
    <2>3. \A T \in SUBSET R : Cardinality(T) <= n + 1 => Sums(w, S)[T] = Sums(w, R)[T]
      BY <2>1, <2>2
    <2> QED
      BY <2>3
  <1>6. N = Nat
    <2> HIDE DEF N
    <2>1. N \in SUBSET Nat
      BY DEF N
    <2> QED
      BY <1>4, <1>5, <2>1, Inductive
  <1> QED
    BY <1>1, <1>2, <1>6, SumIsLast

LEMMA SumEmpty == \A w : SumFunctionOnSet(w, {}) = 0
  <1> SUFFICES ASSUME NEW w PROVE SumFunctionOnSet(w, {}) = 0
    OBVIOUS
  <1>1. Sums(w, {})[{}] = Unfolded(w, Sums(w, {}), {})
    BY SumsUnfold, FS_EmptySet
  <1> QED
    BY <1>1, SumIsLast DEF Unfolded

LEMMA SumSome ==
    ASSUME NEW S, IsFiniteSet(S), S # {}, NEW w
    PROVE  /\ Some(S) \in S
           /\ SumFunctionOnSet(w, S) = w[Some(S)] + SumFunctionOnSet(w, S \ {Some(S)})
  <1>1. Sums(w, S)[S] = w[Some(S)] + Sums(w, S)[S \ {Some(S)}]
    BY SumsUnfold DEF Unfolded
  <1>2. Sums(w, S)[S \ {Some(S)}] = SumFunctionOnSet(w, S \ {Some(S)})
    BY SumsInside
  <1> QED
    BY <1>1, <1>2, SumIsLast, SomeIsElement

LEMMA SumType ==
    ASSUME NEW D, NEW w \in [D -> Nat], NEW S \in SUBSET D, IsFiniteSet(S)
    PROVE  SumFunctionOnSet(w, S) \in Nat
  <1> DEFINE N == {n \in Nat : \A T \in SUBSET S :
                      Cardinality(T) <= n => SumFunctionOnSet(w, T) \in Nat}
  <1>1. \A T \in SUBSET S : IsFiniteSet(T) /\ Cardinality(T) \in Nat
    BY FS_Subset, FS_CardinalityType
  <1>2. 0 \in N
    <2>1. \A T \in SUBSET S : Cardinality(T) <= 0 => T = {}
      BY <1>1, FS_EmptySet
    <2> QED
      BY <2>1, SumEmpty
  <1>3. ASSUME NEW n \in N PROVE n + 1 \in N
    <2>1. ASSUME NEW T \in SUBSET S, Cardinality(T) <= n + 1, T # {}
          PROVE  SumFunctionOnSet(w, T) \in Nat
      <3>1. Some(T) \in T
            /\ SumFunctionOnSet(w, T) = w[Some(T)] + SumFunctionOnSet(w, T \ {Some(T)})
        BY <1>1, <2>1, SumSome
      <3>2. T \ {Some(T)} \in SUBSET S /\ Cardinality(T \ {Some(T)}) <= n
        BY <1>1, <2>1, <3>1, OneLess
      <3>3. SumFunctionOnSet(w, T \ {Some(T)}) \in Nat
        BY <3>2
      <3>4. w[Some(T)] \in Nat
        BY <3>1
      <3> QED
        BY <3>1, <3>3, <3>4
    <2> QED
      BY <2>1, SumEmpty
  <1>4. N = Nat
    <2> HIDE DEF N
    <2>1. N \in SUBSET Nat
      BY DEF N
    <2> QED
      BY <1>2, <1>3, <2>1, Inductive
  <1> QED
    BY <1>1, <1>4

\* The elements may be taken away in any order.
LEMMA SumAny ==
    ASSUME NEW D, NEW w \in [D -> Nat], NEW S \in SUBSET D, IsFiniteSet(S), NEW e \in S
    PROVE  SumFunctionOnSet(w, S) = w[e] + SumFunctionOnSet(w, S \ {e})
  <1> DEFINE Sum(T) == SumFunctionOnSet(w, T)
             N == {n \in Nat : \A T \in SUBSET S : \A x \in T :
                      Cardinality(T) <= n => Sum(T) = w[x] + Sum(T \ {x})}
  <1>1. \A T \in SUBSET S : /\ IsFiniteSet(T) /\ Cardinality(T) \in Nat
                            /\ Sum(T) \in Nat
    BY FS_Subset, FS_CardinalityType, SumType
  <1>2. 0 \in N
    <2>1. \A T \in SUBSET S : Cardinality(T) <= 0 => T = {}
      BY <1>1, FS_EmptySet
    <2> QED
      BY <2>1
  <1>3. ASSUME NEW n \in N PROVE n + 1 \in N
    <2>1. ASSUME NEW T \in SUBSET S, NEW x \in T, Cardinality(T) <= n + 1, x # Some(T)
          PROVE  Sum(T) = w[x] + Sum(T \ {x})
      <3> DEFINE c == Some(T)
      <3>1. c \in T /\ Sum(T) = w[c] + Sum(T \ {c})
        BY <1>1, <2>1, SumSome
      <3> HIDE DEF c, Sum
      <3>2. /\ T \ {c} \in SUBSET S /\ Cardinality(T \ {c}) <= n /\ x \in T \ {c}
            /\ T \ {x} \in SUBSET S /\ Cardinality(T \ {x}) <= n /\ c \in T \ {x}
        BY <1>1, <2>1, <3>1, OneLess DEF c
      <3>3. Sum(T \ {c}) = w[x] + Sum((T \ {c}) \ {x})
        BY <3>2
      <3>4. Sum(T \ {x}) = w[c] + Sum((T \ {x}) \ {c})
        BY <3>2
      <3>5. (T \ {c}) \ {x} = (T \ {x}) \ {c}
        OBVIOUS
      <3>6. w[c] \in Nat /\ w[x] \in Nat /\ Sum((T \ {x}) \ {c}) \in Nat
        BY <1>1, <3>1
      <3> QED
        BY <3>1, <3>3, <3>4, <3>5, <3>6
    <2>2. \A T \in SUBSET S : T # {} => Sum(T) = w[Some(T)] + Sum(T \ {Some(T)})
      BY <1>1, SumSome
    <2> HIDE DEF Sum
    <2>3. \A T \in SUBSET S : \A x \in T :
              Cardinality(T) <= n + 1 => Sum(T) = w[x] + Sum(T \ {x})
      BY <2>1, <2>2
    <2> QED
      BY <2>3
  <1>4. N = Nat
    <2> HIDE DEF N
    <2>1. N \in SUBSET Nat
      BY DEF N
    <2> QED
      BY <1>2, <1>3, <2>1, Inductive
  <1> HIDE DEF Sum
  <1>5. Sum(S) = w[e] + Sum(S \ {e})
    BY <1>1, <1>4
  <1> QED
    BY <1>5 DEF Sum

LEMMA SumOne ==
    ASSUME NEW D, NEW w \in [D -> Nat], NEW x \in D
    PROVE  SumFunctionOnSet(w, {x}) = w[x]
  <1>1. IsFiniteSet({x}) /\ {x} \in SUBSET D /\ {x} \ {x} = {}
    BY FS_Singleton
  <1>2. SumFunctionOnSet(w, {x}) = w[x] + SumFunctionOnSet(w, {x} \ {x})
    BY <1>1, SumAny
  <1> QED
    BY <1>1, <1>2, SumEmpty

LEMMA SumMonotonic ==
    ASSUME NEW D, NEW w \in [D -> Nat], NEW S \in SUBSET D, IsFiniteSet(S),
           NEW R \in SUBSET S
    PROVE  SumFunctionOnSet(w, R) <= SumFunctionOnSet(w, S)
  <1> DEFINE Sum(T) == SumFunctionOnSet(w, T)
             N == {n \in Nat : \A T \in SUBSET S :
                      R \subseteq T /\ Cardinality(T) <= n => Sum(R) <= Sum(T)}
  <1>1. \A T \in SUBSET S : /\ IsFiniteSet(T) /\ Cardinality(T) \in Nat
                            /\ Sum(T) \in Nat
    BY FS_Subset, FS_CardinalityType, SumType
  <1>2. 0 \in N
    <2>1. \A T \in SUBSET S : Cardinality(T) <= 0 => T = {}
      BY <1>1, FS_EmptySet
    <2> HIDE DEF Sum
    <2> QED
      BY <1>1, <2>1
  <1>3. ASSUME NEW n \in N PROVE n + 1 \in N
    <2>1. ASSUME NEW T \in SUBSET S, R \subseteq T, Cardinality(T) <= n + 1, R # T
          PROVE  Sum(R) <= Sum(T)
      <3>1. PICK x \in T : x \notin R
        BY <2>1
      <3>2. Sum(T) = w[x] + Sum(T \ {x})
        BY <1>1, SumAny
      <3>3. R \subseteq T \ {x} /\ T \ {x} \in SUBSET S /\ Cardinality(T \ {x}) <= n
        BY <1>1, <2>1, <3>1, OneLess
      <3> HIDE DEF Sum
      <3>4. Sum(R) <= Sum(T \ {x})
        BY <3>3
      <3>5. w[x] \in Nat /\ Sum(T \ {x}) \in Nat /\ Sum(R) \in Nat
        BY <1>1, <3>3
      <3> QED
        BY <3>2, <3>4, <3>5
    <2> HIDE DEF Sum
    <2>2. Sum(R) <= Sum(R)
      BY <1>1
    <2> QED
      BY <2>1, <2>2
  <1>4. N = Nat
    <2> HIDE DEF N
    <2>1. N \in SUBSET Nat
      BY DEF N
    <2> QED
      BY <1>2, <1>3, <2>1, Inductive
  <1> HIDE DEF Sum
  <1>5. Sum(R) <= Sum(S)
    BY <1>1, <1>4
  <1> QED
    BY <1>5 DEF Sum

-----------------------------------------------------------------------------
(* The operators of the walk. *)

LEMMA InfoFacts ==
    \A info \in Info :
        /\ info.size \in Nat /\ info.stack_id \in Int /\ info.timestamp \in Time
        /\ info.frames \in {s[2] : s \in Stacks}
        /\ info.stack_id >= 0 => info.stack_id \in Traced
  BY ReportAssumption DEF Info, Record, Traced

LEMMA TimeFacts == \A t \in Time : t \in Nat /\ MinAge <= t /\ t <= MaxTime
  BY ReportAssumption DEF Time

LEMMA KeyFacts == IsFiniteSet(Key) /\ Key \subseteq Nat \ {0}
  BY ReportAssumption

\* A set of numbers has a first.
LEMMA FirstFacts ==
    ASSUME NEW ks \in SUBSET Nat, ks # {}
    PROVE  First(ks) \in ks /\ \A k \in ks : First(ks) <= k
  <1> DEFINE Least(k) == k \in ks /\ \A j \in ks : k <= j
  <1>1. \E k : Least(k)
    <2>1. PICK k \in ks : \A j \in ks : ~(<<j, k>> \in OpToRel(<, Nat))
      BY NatLessThanWellFounded, WFMin
    <2>2. \A j \in ks : ~(j < k)
      BY <2>1 DEF OpToRel
    <2>3. \A j \in ks : k <= j
      BY <2>2
    <2> QED
      BY <2>3
  <1>2. First(ks) = CHOOSE k : Least(k)
    BY DEF First
  <1>3. Least(First(ks))
    <2> HIDE DEF Least
    <2> QED
      BY <1>1, <1>2
  <1> QED
    BY <1>3

\* get_next_key gives the first key behind prev_key, or the first of all.
LEMMA NextKey ==
    ASSUME TypeOK, get_next_key
    PROVE  /\ curr_key' \in Keys(allocs) /\ curr_key' \in Key
           /\ \A k \in Keys(allocs) :
                 k < curr_key' => prev_key \in Keys(allocs) /\ k <= prev_key
           /\ prev_key \in Keys(allocs) \cup {0} => curr_key' > prev_key
  <1>1. Keys(allocs) \subseteq Key
    BY DEF TypeOK, Keys
  <1>2. Following(prev_key) \subseteq Keys(allocs)
    BY DEF Following
  <1>3. /\ curr_key' \in Following(prev_key)
        /\ \A k \in Following(prev_key) : curr_key' <= k
    BY <1>1, <1>2, FirstFacts, KeyFacts DEF get_next_key
  <1>4. prev_key \in Nat /\ curr_key' \in Nat /\ curr_key' # 0
    BY <1>1, <1>2, <1>3, KeyFacts DEF TypeOK
  <1>5. ASSUME NEW k \in Keys(allocs), k < curr_key'
        PROVE  prev_key \in Keys(allocs) /\ k <= prev_key
    BY <1>1, <1>3, <1>4, <1>5, KeyFacts DEF Following
  <1>6. prev_key \in Keys(allocs) \cup {0} => curr_key' > prev_key
    BY <1>3, <1>4 DEF Following
  <1> QED
    BY <1>1, <1>2, <1>3, <1>5, <1>6

\* One more allocation goes to the group of its stack, or to a new one.
LEMMA GroupedOld ==
    ASSUME groups \in Seq(Group), NEW info \in Info, NEW i \in DOMAIN groups,
           groups[i].stack_id = info.stack_id
    PROVE  /\ Grouped(info) \in Seq(Group) /\ DOMAIN Grouped(info) = DOMAIN groups
           /\ \A j \in DOMAIN groups :
                 /\ Grouped(info)[j].stack_id = groups[j].stack_id
                 /\ groups[j].stack_id # info.stack_id => Grouped(info)[j] = groups[j]
                 /\ groups[j].stack_id = info.stack_id =>
                       /\ Grouped(info)[j].count = groups[j].count + 1
                       /\ Grouped(info)[j].size = groups[j].size + info.size
  <1> DEFINE more(g) == [g EXCEPT !.size = @ + info.size, !.count = @ + 1]
             gs == [j \in DOMAIN groups |-> IF groups[j].stack_id = info.stack_id
                                            THEN more(groups[j]) ELSE groups[j]]
  <1>1. Grouped(info) = gs
    BY DEF Grouped
  <1>2. \A g \in Group : /\ more(g) \in Group /\ more(g).stack_id = g.stack_id
                         /\ more(g).count = g.count + 1 /\ more(g).size = g.size + info.size
    <2>1. info.size \in Nat
      BY InfoFacts
    <2>2. \A g \in Group : g.size + info.size \in Nat /\ g.count + 1 \in Nat \ {0}
      <3>1. \A g \in Group : g.size \in Nat /\ g.count \in Nat
        BY DEF Group
      <3> QED
        BY <2>1, <3>1
    <2>3. ASSUME NEW g \in Group PROVE more(g) \in Group
      BY <2>2 DEF Group
    <2>4. ASSUME NEW g \in Group
          PROVE  /\ more(g).stack_id = g.stack_id /\ more(g).count = g.count + 1
                 /\ more(g).size = g.size + info.size
      BY DEF Group
    <2> QED
      BY <2>3, <2>4
  <1>3. \A j \in DOMAIN groups : groups[j] \in Group
    OBVIOUS
  <1> HIDE DEF more
  <1>4. gs \in Seq(Group)
    <2>1. gs \in [1..Len(groups) -> Group]
      BY <1>2, <1>3
    <2> QED
      BY <2>1
  <1> QED
    BY <1>1, <1>2, <1>3, <1>4

LEMMA GroupedNew ==
    ASSUME groups \in Seq(Group), NEW info \in Info, info.stack_id >= 0,
           \A i \in DOMAIN groups : groups[i].stack_id # info.stack_id
    PROVE  /\ Grouped(info) \in Seq(Group)
           /\ DOMAIN Grouped(info) = 1..(Len(groups) + 1)
           /\ \A j \in DOMAIN groups : Grouped(info)[j] = groups[j]
           /\ Grouped(info)[Len(groups) + 1].stack_id = info.stack_id
           /\ Grouped(info)[Len(groups) + 1].count = 1
           /\ Grouped(info)[Len(groups) + 1].size = info.size
  <1> DEFINE g == [stack_id |-> info.stack_id, frames |-> info.frames,
                   size |-> info.size, count |-> 1]
  <1>1. g \in Group
    BY InfoFacts DEF Group
  <1>2. Grouped(info) = Append(groups, g)
    BY DEF Grouped
  <1>3. g.stack_id = info.stack_id /\ g.count = 1 /\ g.size = info.size
    OBVIOUS
  <1> HIDE DEF g
  <1> QED
    BY <1>1, <1>2, <1>3

LEMMA GroupedType ==
    ASSUME groups \in Seq(Group), NEW info \in Info, info.stack_id >= 0
    PROVE  Grouped(info) \in Seq(Group)
  BY GroupedOld, GroupedNew

\* qsort leaves every group once, the larger before the smaller.
LEMMA SortedFacts ==
    ASSUME NEW gs \in Seq(Group), NEW sorted \in Sorted(gs)
    PROVE  /\ sorted \in Seq(Group) /\ Len(sorted) = Len(gs)
           /\ \E p \in Bijection(DOMAIN gs, DOMAIN gs) :
                 \A i \in DOMAIN gs : sorted[i] = gs[p[i]]
           /\ \A i, j \in DOMAIN gs : i < j => sorted[i].size >= sorted[j].size
  <1>1. PICK p \in Bijection(DOMAIN gs, DOMAIN gs) :
            /\ sorted = [i \in DOMAIN gs |-> gs[p[i]]]
            /\ \A i, j \in DOMAIN gs : i < j => ~alloc_size_compare(gs[p[j]], gs[p[i]])
    BY DEF Sorted
  <1>2. p \in [DOMAIN gs -> DOMAIN gs]
    BY DEF Bijection, Injection
  <1>3. \A i \in DOMAIN gs : gs[p[i]] \in Group /\ gs[p[i]].size \in Nat
    <2>1. \A j \in DOMAIN gs : gs[j] \in Group
      OBVIOUS
    <2>2. \A g \in Group : g.size \in Nat
      BY DEF Group
    <2> QED
      BY <1>2, <2>1, <2>2
  <1>4. sorted \in [1..Len(gs) -> Group]
    BY <1>1, <1>3
  <1>5. sorted \in Seq(Group) /\ Len(sorted) = Len(gs)
    BY <1>4
  <1>6. \A i, j \in DOMAIN gs : i < j => sorted[i].size >= sorted[j].size
    BY <1>1, <1>3 DEF alloc_size_compare
  <1> QED
    BY <1>1, <1>5, <1>6

-----------------------------------------------------------------------------
(* Types. *)

LEMMA TypeInit == Init => TypeOK
  <1> SUFFICES ASSUME Init PROVE TypeOK
    OBVIOUS
  <1>1. allocs \in [Key -> Info \cup {None}] /\ pc \in {"loop", "sleep", "next", "lookup", "done"}
    BY DEF Init
  <1>2. now \in Time
    BY ReportAssumption DEF Init, Time
  <1>3. asked \in Asked /\ asked \in Nat /\ nr_intervals \in -IntSize..IntSize - 1
    <2>1. asked \in Nat /\ IntSize \in Nat \ {0}
      BY ReportAssumption DEF Init
    <2>2. ((asked + IntSize) % (2 * IntSize)) \in 0..(2 * IntSize) - 1
      BY <2>1
    <2> QED
      BY <2>1, <2>2 DEF Init, ParsedIntervals, ToInt
  <1>4. groups \in Seq(Group)
    BY DEF Init
  <1> QED
    BY <1>1, <1>2, <1>3, <1>4 DEF Init, TypeOK

\* A record is entered, or taken away.
LEMMA TypeLedger ==
    ASSUME TypeOK, EnterRecord \/ RemoveRecord
    PROVE  allocs' \in [Key -> Info \cup {None}]
  <1>1. ASSUME NEW k \in Key, NEW size \in Sizes, NEW stack \in Stacks,
               \/ Table!Enter(k, Record(size, stack, now))
               \/ Table!Overwrite(k, Record(size, stack, now))
        PROVE  allocs' \in [Key -> Info \cup {None}]
    <2>1. Record(size, stack, now) \in Info
      BY DEF Info, TypeOK
    <2>2. allocs' = [allocs EXCEPT ![k] = Record(size, stack, now)]
      BY <1>1 DEF Table!Enter, Table!Overwrite
    <2> QED
      BY <2>1, <2>2 DEF TypeOK
  <1>2. ASSUME NEW k \in Key, Table!Remove(k)
        PROVE  allocs' \in [Key -> Info \cup {None}]
    BY <1>2 DEF TypeOK, Table!Remove
  <1> QED
    BY <1>1, <1>2 DEF EnterRecord, RemoveRecord

LEMMA TypeStep ==
    ASSUME TypeOK, [Next]_vars
    PROVE  TypeOK'
  <1> USE DEF TypeOK
  <1>1. CASE EnterRecord \/ RemoveRecord
    <2>1. allocs' \in [Key -> Info \cup {None}]
      BY <1>1, TypeLedger
    <2>2. UNCHANGED <<now, pc, loop, walk, rounds>>
      BY <1>1 DEF EnterRecord, RemoveRecord
    <2> QED
      BY <2>1, <2>2 DEF loop, walk
  <1>2. CASE Tick
    <2>1. now' \in Time
      BY <1>2, TimeFacts, ReportAssumption DEF Tick, Time
    <2> QED
      BY <1>2, <2>1 DEF Tick, loop, walk, history
  <1>3. CASE sig_handler
    BY <1>3 DEF sig_handler, walk, history
  <1>4. CASE LoopTest
    <2>1. nr_intervals' \in -IntSize..IntSize - 1
      BY <1>4, ReportAssumption DEF LoopTest, MoreRounds
    <2> QED
      BY <1>4, <2>1 DEF LoopTest, walk
  <1>5. CASE Sleep
    BY <1>5 DEF Sleep, loop, walk
  <1>6. CASE get_next_key
    BY <1>6, NextKey DEF get_next_key, loop, history
  <1>7. CASE lookup_elem
    <2>1. prev_key' \in Key \cup {0}
      BY <1>7 DEF lookup_elem, Advance
    <2>2. missing' \in Nat /\ collisions' \in Nat
      BY <1>7 DEF lookup_elem
    <2>3. groups' \in Seq(Group)
      <3> DEFINE info == allocs[curr_key]
      <3>1. groups' = groups \/ (info # None /\ ~InvalidStack(info.stack_id) /\ groups' = Grouped(info))
        BY <1>7 DEF lookup_elem
      <3>2. ASSUME info # None, ~InvalidStack(info.stack_id)
            PROVE  Grouped(info) \in Seq(Group)
        <4>1. info \in Info
          <5>1. curr_key \in Key
            BY <1>7 DEF lookup_elem
          <5> QED
            BY <3>2, <5>1
        <4>2. info.stack_id >= 0
          BY <3>2, <4>1, InfoFacts DEF InvalidStack
        <4> QED
          BY <4>1, <4>2, GroupedType
      <3> QED
        BY <3>1, <3>2
    <2> QED
      BY <1>7, <2>1, <2>2, <2>3 DEF lookup_elem, loop, history
  <1>8. CASE PrintReport \/ WalkError
    <2>1. pc' = "loop" /\ FreshWalk /\ UNCHANGED <<allocs, now, loop, history>>
      BY <1>8 DEF PrintReport, WalkError
    <2>2. groups' \in Seq(Group)
      BY <2>1 DEF FreshWalk
    <2> QED
      BY <2>1, <2>2 DEF FreshWalk, loop, history
  <1>9. CASE UNCHANGED vars
    BY <1>9 DEF vars, loop, walk, history
  <1> QED
    BY <1>1, <1>2, <1>3, <1>4, <1>5, <1>6, <1>7, <1>8, <1>9 DEF Next, Reader, World

\* In every behaviour of memleak's main and of the process that it watches, the
\* variables of the walk, the groups and the count of rounds keep their types:
\* only a stack that has a trace gets a group (print_outstanding_allocs).
THEOREM TypesKept == Spec => []TypeOK
  BY TypeInit, TypeStep, PTL DEF Spec

-----------------------------------------------------------------------------
(* The invariant of the walk. *)

Kept == TypeOK /\ WalkInv

\* What stood all through a walk is finite: it has one record for each address.
LEMMA StandingFinite ==
    ASSUME HistoryInv
    PROVE  IsFiniteSet(standing) /\ standing \subseteq Key \X Info
  <1>1. standing \subseteq Key \X Info
    BY DEF HistoryInv
  <1> DEFINE f == [r \in standing |-> r[1]]
  <1>2. f \in [standing -> Key]
    BY <1>1
  <1>3. \A r, q \in standing : f[r] = f[q] => r = q
    BY DEF HistoryInv
  <1>4. f \in Injection(standing, Key)
    BY <1>2, <1>3 DEF Injection, IsInjective
  <1> QED
    BY <1>1, <1>4, FS_Injection, KeyFacts

LEMMA SizeType == Size \in [Key \X Info -> Nat] /\ \A r \in Key \X Info : Size[r] = r[2].size
  BY InfoFacts DEF Size

\* Fewer records: not more of them, and not more bytes.
LEMMA Fewer ==
    ASSUME NEW S \in SUBSET (Key \X Info), IsFiniteSet(S), NEW T \in SUBSET S
    PROVE  /\ Cardinality(T) \in Nat /\ Cardinality(S) \in Nat
           /\ Cardinality(T) <= Cardinality(S)
           /\ Bytes(T) \in Nat /\ Bytes(S) \in Nat /\ Bytes(T) <= Bytes(S)
  <1>1. IsFiniteSet(T) /\ Cardinality(T) <= Cardinality(S)
    BY FS_Subset
  <1>2. Cardinality(T) \in Nat /\ Cardinality(S) \in Nat
    BY <1>1, FS_CardinalityType
  <1>3. Bytes(T) \in Nat /\ Bytes(S) \in Nat
    BY <1>1, SizeType, SumType DEF Bytes
  <1>4. Bytes(T) <= Bytes(S)
    BY SizeType, SumMonotonic DEF Bytes
  <1> QED
    BY <1>1, <1>2, <1>3, <1>4

\* One record more.
LEMMA OneMore ==
    ASSUME NEW S \in SUBSET (Key \X Info), IsFiniteSet(S), NEW c \in Key \X Info,
           c \notin S
    PROVE  /\ IsFiniteSet(S \cup {c})
           /\ Cardinality(S \cup {c}) = Cardinality(S) + 1
           /\ Bytes(S \cup {c}) = Bytes(S) + c[2].size
  <1>1. IsFiniteSet(S \cup {c}) /\ Cardinality(S \cup {c}) = Cardinality(S) + 1
    BY FS_AddElement
  <1>2. SumFunctionOnSet(Size, S \cup {c})
          = Size[c] + SumFunctionOnSet(Size, (S \cup {c}) \ {c})
    BY <1>1, SizeType, SumAny
  <1>3. (S \cup {c}) \ {c} = S
    OBVIOUS
  <1>4. Bytes(S) \in Nat /\ Size[c] \in Nat /\ Size[c] = c[2].size
    BY Fewer, SizeType
  <1>5. Bytes(S \cup {c}) = Size[c] + Bytes(S)
    BY <1>2, <1>3 DEF Bytes
  <1> QED
    BY <1>1, <1>4, <1>5

\* At most one record more.
LEMMA AtMostOneMore ==
    ASSUME NEW S \in SUBSET (Key \X Info), IsFiniteSet(S), NEW c \in Key \X Info,
           NEW T \in SUBSET (S \cup {c})
    PROVE  /\ Cardinality(T) <= Cardinality(S) + 1
           /\ Bytes(T) <= Bytes(S) + c[2].size
  <1>1. c[2].size \in Nat /\ Cardinality(S) \in Nat /\ Bytes(S) \in Nat
    BY Fewer, InfoFacts
  <1>2. CASE c \in S
    <2>1. T \in SUBSET S
      BY <1>2
    <2> QED
      BY <1>1, <2>1, Fewer
  <1>3. CASE c \notin S
    <2>1. S \cup {c} \in SUBSET (Key \X Info) /\ IsFiniteSet(S \cup {c})
      BY <1>3, OneMore
    <2>2. /\ Cardinality(S \cup {c}) = Cardinality(S) + 1
          /\ Bytes(S \cup {c}) = Bytes(S) + c[2].size
      BY <1>3, OneMore
    <2>3. Cardinality(T) <= Cardinality(S \cup {c}) /\ Bytes(T) <= Bytes(S \cup {c})
      BY <2>1, Fewer
    <2> QED
      BY <2>2, <2>3
  <1> QED
    BY <1>2, <1>3

\* The bytes and the number of no records.
LEMMA NoRecords == Cardinality({}) = 0 /\ Bytes({}) = 0
  BY FS_EmptySet, SumEmpty DEF Bytes

LEMMA ReachedFacts ==
    ASSUME HistoryInv
    PROVE  /\ Due \subseteq standing /\ Reached \subseteq Due
           /\ \A S \in SUBSET standing : S \subseteq Key \X Info /\ IsFiniteSet(S)
           /\ \A s : WithStack(Reached, s) \in SUBSET standing
  BY StandingFinite, FS_Subset DEF Due, Reached, WithStack

\* A group has counted every part of what it must have counted.
LEMMA StillCounted ==
    ASSUME Kept, Walking, NEW i \in DOMAIN groups,
           NEW T \in SUBSET WithStack(Reached, groups[i].stack_id)
    PROVE  groups[i].count >= Cardinality(T) /\ groups[i].size >= Bytes(T)
  <1> DEFINE S == WithStack(Reached, groups[i].stack_id)
  <1>1. S \in SUBSET (Key \X Info) /\ IsFiniteSet(S)
    BY ReachedFacts DEF Kept, WalkInv
  <1>2. groups[i].count >= Cardinality(S) /\ groups[i].size >= Bytes(S)
    BY DEF Kept, WalkInv, CountedInv
  <1>3. groups[i].count \in Nat /\ groups[i].size \in Nat
    <2>1. groups[i] \in Group
      BY DEF Kept, TypeOK
    <2> QED
      BY <2>1 DEF Group
  <1> HIDE DEF S
  <1>4. /\ Cardinality(T) \in Nat /\ Cardinality(S) \in Nat /\ Cardinality(T) <= Cardinality(S)
        /\ Bytes(T) \in Nat /\ Bytes(S) \in Nat /\ Bytes(T) <= Bytes(S)
    BY <1>1, Fewer DEF S
  <1> QED
    BY <1>2, <1>3, <1>4

\* With the record under the cursor, it has to count one more.
LEMMA OneMoreCounted ==
    ASSUME Kept, Walking, NEW i \in DOMAIN groups, NEW c \in Key \X Info,
           NEW T \in SUBSET (WithStack(Reached, groups[i].stack_id) \cup {c})
    PROVE  /\ groups[i].count + 1 >= Cardinality(T)
           /\ groups[i].size + c[2].size >= Bytes(T)
  <1> DEFINE S == WithStack(Reached, groups[i].stack_id)
  <1>1. S \in SUBSET (Key \X Info) /\ IsFiniteSet(S)
    BY ReachedFacts DEF Kept, WalkInv
  <1>2. groups[i].count >= Cardinality(S) /\ groups[i].size >= Bytes(S)
    BY DEF Kept, WalkInv, CountedInv
  <1>3. groups[i].count \in Nat /\ groups[i].size \in Nat
    <2>1. groups[i] \in Group
      BY DEF Kept, TypeOK
    <2> QED
      BY <2>1 DEF Group
  <1> HIDE DEF S
  <1>4. Cardinality(T) <= Cardinality(S) + 1 /\ Bytes(T) <= Bytes(S) + c[2].size
    BY <1>1, AtMostOneMore DEF S
  <1>5. Cardinality(S) \in Nat /\ Bytes(S) \in Nat /\ c[2].size \in Nat
    BY <1>1, Fewer, InfoFacts
  <1>6. S \cup {c} \in SUBSET (Key \X Info) /\ IsFiniteSet(S \cup {c})
    BY <1>1, FS_AddElement
  <1>7. Cardinality(T) \in Nat /\ Bytes(T) \in Nat
    BY <1>6, Fewer DEF S
  <1> QED
    BY <1>2, <1>3, <1>4, <1>5, <1>7

-----------------------------------------------------------------------------
(* The count of rounds. *)

\* A number that does not change sign on its way into an int has kept its low
\* bits.
LEMMA ToIntFits ==
    ASSUME NEW n \in Nat, IntSize \in Nat \ {0}, ToInt(n) >= 0
    PROVE  ToInt(n) = n % (2 * IntSize)
  <1> DEFINE M == 2 * IntSize
             a == (n + IntSize) % M
             b == n % M
  <1>1. M \in Nat \ {0} /\ M = IntSize + IntSize
    OBVIOUS
  <1>2. ToInt(n) = a - IntSize
    BY DEF ToInt
  <1> HIDE DEF M
  <1> DEFINE q == (n + IntSize) \div M
             p == n \div M
  <1>3. a \in 0..M - 1 /\ n + IntSize = M * q + a /\ q \in Int
    BY <1>1
  <1>4. b \in 0..M - 1 /\ n = M * p + b /\ p \in Int
    BY <1>1
  <1> HIDE DEF a, b, p, q
  <1>5. M * (q - p) = M * q - M * p /\ (q - p) * M = M * (q - p)
    BY <1>1, <1>3, <1>4
  <1>6. (q - p) * M < M /\ -M < (q - p) * M
    BY <1>1, <1>2, <1>3, <1>4, <1>5
  <1>7. q - p = 0
    <2>1. \A k \in Int : k * M < M /\ -M < k * M => k = 0
      BY <1>1
    <2> QED
      BY <1>3, <1>4, <1>6, <2>1
  <1>8. a - IntSize = b
    BY <1>1, <1>3, <1>4, <1>7
  <1> QED
    BY <1>2, <1>8 DEF b, M

LEMMA RoundsStep ==
    ASSUME TypeOK, RoundsInv, [Next]_vars
    PROVE  RoundsInv'
  <1>1. nr_intervals \in Int /\ rounds \in Nat /\ asked \in Nat
    BY ReportAssumption DEF TypeOK
  <1>2. CASE LoopTest
    <2>1. UNCHANGED <<asked, exiting, rounds>> /\ pc = "loop"
      BY <1>2 DEF LoopTest
    <2>2. CASE pc' = "sleep" /\ nr_intervals # 0
                /\ nr_intervals' = IF nr_intervals < 0 THEN -1 ELSE nr_intervals - 1
      BY <1>1, <2>1, <2>2 DEF RoundsInv
    <2>3. CASE pc' = "done" /\ (exiting \/ nr_intervals = 0) /\ nr_intervals' = nr_intervals
      BY <1>1, <2>1, <2>3 DEF RoundsInv
    <2> QED
      BY <1>2, <2>2, <2>3 DEF LoopTest, Interrupted, MoreRounds
  <1>3. CASE Sleep
    BY <1>1, <1>3 DEF Sleep, RoundsInv, loop
  <1>4. CASE get_next_key \/ lookup_elem \/ PrintReport \/ WalkError
    <2>1. UNCHANGED <<asked, nr_intervals, exiting, rounds>>
          /\ pc \notin {"sleep", "done"} /\ pc' \notin {"sleep", "done"}
      BY <1>4 DEF get_next_key, lookup_elem, PrintReport, WalkError, Walking, loop, history
    <2> QED
      BY <2>1 DEF RoundsInv
  <1>5. CASE EnterRecord \/ RemoveRecord \/ Tick \/ sig_handler \/ UNCHANGED vars
    <2>1. UNCHANGED <<asked, nr_intervals, rounds, pc>> /\ (exiting => exiting')
      BY <1>5 DEF EnterRecord, RemoveRecord, Tick, sig_handler, vars, loop, history
    <2> QED
      BY <2>1 DEF RoundsInv
  <1> QED
    BY <1>2, <1>3, <1>4, <1>5 DEF Next, Reader, World

-----------------------------------------------------------------------------
(* The first state, and changes of the ledger. *)

LEMMA InvInit == Init => WalkInv
  <1> SUFFICES ASSUME Init PROVE WalkInv
    OBVIOUS
  <1>1. ~Walking /\ groups = <<>> /\ standing = {}
    BY DEF Init, Walking
  <1>2. HistoryInv
    BY <1>1, ReportAssumption DEF Init, HistoryInv, Time
  <1>3. GroupsInv
    BY <1>1 DEF Init, GroupsInv
  <1>4. CursorInv /\ CountedInv /\ QuietInv
    BY <1>1 DEF CursorInv, CountedInv, QuietInv, Walking
  <1>5. RoundsInv
    <2>1. asked \in Nat /\ IntSize \in Nat \ {0} /\ rounds = 0 /\ pc = "loop"
      BY ReportAssumption DEF Init
    <2>2. ASSUME nr_intervals >= 0 PROVE asked > 0 /\ nr_intervals = asked % (2 * IntSize)
      <3>1. asked > 0 /\ nr_intervals = ToInt(asked)
        BY <2>1, <2>2 DEF Init, ParsedIntervals
      <3> QED
        BY <2>1, <2>2, <3>1, ToIntFits
    <2> QED
      BY <2>1, <2>2 DEF RoundsInv
  <1> QED
    BY <1>2, <1>3, <1>4, <1>5 DEF WalkInv

\* What a change of the ledger leaves of the records that stood, and what it
\* does to the history.
LEMMA LedgerFacts ==
    ASSUME Kept, EnterRecord \/ RemoveRecord
    PROVE  /\ UNCHANGED <<now, pc, loop, walk, report, began, rounds>>
           /\ standing' \subseteq standing /\ standing' \subseteq ever'
           /\ ever' \subseteq Key \X Info
           /\ ~Walking => UNCHANGED <<standing, ever>>
           /\ Walking => /\ \A r \in standing' : allocs'[r[1]] = r[2]
                         /\ \A k \in Keys(allocs') : <<k, allocs'[k]>> \in ever'
                         /\ ever' = standing' => allocs' = allocs /\ ever = standing
  <1> USE DEF Kept
  <1>1. HistoryInv /\ allocs \in [Key -> Info \cup {None}]
    BY DEF WalkInv, TypeOK
  <1>2. ASSUME NEW k \in Key, NEW info \in Info,
               allocs' = [allocs EXCEPT ![k] = info], Walking,
               ever' = ever \cup {<<k, info>>},
               standing' = standing \ ({<<k, allocs[k]>>} \ {<<k, info>>})
        PROVE  /\ standing' \subseteq standing /\ standing' \subseteq ever'
               /\ ever' \subseteq Key \X Info
               /\ \A r \in standing' : allocs'[r[1]] = r[2]
               /\ \A j \in Keys(allocs') : <<j, allocs'[j]>> \in ever'
               /\ ever' = standing' => allocs' = allocs /\ ever = standing
    <2>1. \A r \in standing : r = <<r[1], r[2]>> /\ r[1] \in Key /\ allocs[r[1]] = r[2]
      BY <1>1, <1>2 DEF HistoryInv
    <2>2. ASSUME NEW r \in standing' PROVE allocs'[r[1]] = r[2]
      <3>1. CASE r[1] = k
        <4>1. r = <<k, allocs[k]>>
          BY <1>2, <2>1, <3>1
        <4>2. r = <<k, info>>
          BY <1>2, <4>1
        <4> QED
          BY <1>1, <1>2, <4>2
      <3>2. CASE r[1] # k
        BY <1>1, <1>2, <2>1, <3>2
      <3> QED
        BY <3>1, <3>2
    <2>3. ASSUME NEW j \in Keys(allocs') PROVE <<j, allocs'[j]>> \in ever'
      <3>1. CASE j = k
        BY <1>1, <1>2, <3>1
      <3>2. CASE j # k
        <4>1. j \in Keys(allocs) /\ allocs'[j] = allocs[j]
          BY <1>1, <1>2, <3>2 DEF Keys
        <4> QED
          BY <1>1, <1>2, <4>1 DEF HistoryInv
      <3> QED
        BY <3>1, <3>2
    <2>4. standing' \subseteq standing /\ standing \subseteq ever /\ ever \subseteq ever'
      BY <1>1, <1>2 DEF HistoryInv
    <2>5. ever' \subseteq Key \X Info
      BY <1>1, <1>2 DEF HistoryInv
    <2>6. ASSUME ever' = standing' PROVE allocs' = allocs /\ ever = standing
      <3>1. ever = standing
        BY <2>4, <2>6
      <3>2. <<k, info>> \in standing
        BY <1>2, <2>4, <2>6
      <3>3. allocs[k] = info
        BY <1>1, <1>2, <3>2 DEF HistoryInv
      <3> QED
        BY <1>1, <1>2, <3>1, <3>3
    <2> QED
      BY <2>2, <2>3, <2>4, <2>5, <2>6
  <1>3. CASE EnterRecord
    <2>1. PICK k \in Key, size \in Sizes, stack \in Stacks :
              LET info == Record(size, stack, now)
              IN  /\ Table!Enter(k, info) \/ Table!Overwrite(k, info)
                  /\ IF Walking
                     THEN /\ ever' = ever \cup {<<k, info>>}
                          /\ standing' = standing \ ({<<k, allocs[k]>>} \ {<<k, info>>})
                     ELSE UNCHANGED <<ever, standing>>
      BY <1>3 DEF EnterRecord
    <2> DEFINE info == Record(size, stack, now)
    <2>2. info \in Info
      BY DEF Info, TypeOK
    <2>3. allocs' = [allocs EXCEPT ![k] = info]
      BY <2>1 DEF Table!Enter, Table!Overwrite
    <2>4. UNCHANGED <<now, pc, loop, walk, report, began, rounds>>
      BY <1>3 DEF EnterRecord
    <2> HIDE DEF info
    <2>5. CASE Walking
      <3>1. /\ ever' = ever \cup {<<k, info>>}
            /\ standing' = standing \ ({<<k, allocs[k]>>} \ {<<k, info>>})
        BY <2>1, <2>5 DEF info
      <3> QED
        BY <1>2, <2>2, <2>3, <2>4, <2>5, <3>1
    <2>6. CASE ~Walking
      BY <1>1, <2>1, <2>4, <2>6 DEF HistoryInv
    <2> QED
      BY <2>5, <2>6
  <1>4. CASE RemoveRecord
    <2>1. PICK k \in Key :
              /\ Table!Remove(k)
              /\ standing' = IF Walking THEN standing \ {<<k, allocs[k]>>} ELSE standing
      BY <1>4 DEF RemoveRecord
    <2>2. allocs[k] # None /\ allocs' = [allocs EXCEPT ![k] = None]
      BY <2>1 DEF Table!Remove
    <2>3. UNCHANGED <<now, pc, loop, walk, report, ever, began, rounds>>
      BY <1>4 DEF RemoveRecord
    <2>4. ASSUME Walking, NEW r \in standing' PROVE allocs'[r[1]] = r[2]
      <3>1. r \in standing /\ r # <<k, allocs[k]>>
        BY <2>1, <2>4
      <3>2. r = <<r[1], r[2]>> /\ r[1] \in Key /\ allocs[r[1]] = r[2]
        BY <1>1, <2>4, <3>1 DEF HistoryInv
      <3> QED
        BY <1>1, <2>2, <3>1, <3>2
    <2>5. ASSUME Walking, NEW j \in Keys(allocs') PROVE <<j, allocs'[j]>> \in ever'
      <3>1. j \in Keys(allocs) /\ allocs'[j] = allocs[j]
        BY <1>1, <2>2 DEF Keys
      <3> QED
        BY <1>1, <2>3, <2>5, <3>1 DEF HistoryInv
    <2>6. ASSUME Walking PROVE ever' # standing'
      <3>1. <<k, allocs[k]>> \in ever
        BY <1>1, <2>2, <2>6 DEF HistoryInv, Keys
      <3> QED
        BY <2>1, <2>3, <2>6, <3>1
    <2>7. standing' \subseteq standing
      BY <2>1
    <2>8. standing' \subseteq ever' /\ ever' \subseteq Key \X Info
      BY <1>1, <2>3, <2>7 DEF HistoryInv
    <2>9. ~Walking => UNCHANGED <<standing, ever>>
      BY <2>1, <2>3
    <2> QED
      BY <2>3, <2>4, <2>5, <2>6, <2>7, <2>8, <2>9
  <1> QED
    BY <1>3, <1>4

\* The records that must have been counted may only become fewer.
LEMMA LedgerKeeps ==
    ASSUME Kept, EnterRecord \/ RemoveRecord
    PROVE  HistoryInv' /\ GroupsInv' /\ CursorInv' /\ CountedInv' /\ QuietInv'
  <1> USE DEF Kept, WalkInv
  <1>1. /\ UNCHANGED <<now, pc, loop, walk, report, began, rounds>>
        /\ standing' \subseteq standing /\ standing' \subseteq ever'
        /\ ever' \subseteq Key \X Info
        /\ ~Walking => UNCHANGED <<standing, ever>>
        /\ Walking => /\ \A r \in standing' : allocs'[r[1]] = r[2]
                      /\ \A k \in Keys(allocs') : <<k, allocs'[k]>> \in ever'
                      /\ ever' = standing' => allocs' = allocs /\ ever = standing
    BY LedgerFacts
  <1>2. UNCHANGED <<prev_key, curr_key, groups, missing, collisions>> /\ Walking' = Walking
    BY <1>1 DEF walk, Walking
  <1>3. ever \subseteq ever'
    BY DEF EnterRecord, RemoveRecord
  <1>4. HistoryInv'
    BY <1>1, <1>2 DEF HistoryInv
  <1>5. GroupsInv'
    <2>1. \A s : WithStack(ever, s) \subseteq WithStack(ever', s)
      BY <1>3 DEF WithStack
    <2> QED
      BY <1>1, <1>2, <2>1 DEF GroupsInv
  <1>6. CursorInv'
    BY <1>1, <1>2 DEF CursorInv
  <1>7. Due' \subseteq Due /\ Reached' \subseteq Reached
    BY <1>1, <1>2 DEF Due, Reached
  <1>8. CASE ~Walking
    BY <1>2, <1>4, <1>5, <1>6, <1>8 DEF CountedInv, QuietInv
  <1>9. CASE Walking
    <2>1. ASSUME NEW i \in DOMAIN groups
          PROVE  /\ groups[i].count >= Cardinality(WithStack(Reached', groups[i].stack_id))
                 /\ groups[i].size >= Bytes(WithStack(Reached', groups[i].stack_id))
      <3>1. WithStack(Reached', groups[i].stack_id) \subseteq WithStack(Reached, groups[i].stack_id)
        BY <1>7 DEF WithStack
      <3> QED
        BY <1>9, <3>1, StillCounted
    <2>2. CountedInv'
      <3>1. \A r \in Reached' : r[2].stack_id >= 0 =>
                \E i \in DOMAIN groups : groups[i].stack_id = r[2].stack_id
        BY <1>7, <1>9 DEF CountedInv
      <3>2. groups' = groups
        BY <1>2
      <3> QED
        BY <2>1, <3>1, <3>2 DEF CountedInv
    <2>3. ASSUME Quiet' PROVE UNCHANGED <<allocs, standing, ever>> /\ Quiet
      <3>1. ever' = standing' /\ now' = began'
        BY <2>3 DEF Quiet
      <3>2. allocs' = allocs /\ ever = standing /\ standing' \subseteq standing
        BY <1>1, <1>9, <3>1
      <3>3. standing' = standing /\ ever' = ever
        BY <1>3, <3>1, <3>2
      <3> QED
        BY <1>1, <3>1, <3>2, <3>3 DEF Quiet
    <2>4. ASSUME Quiet' PROVE QuietInv'
      <3>1. UNCHANGED <<allocs, standing, began, prev_key, curr_key, groups, missing,
                        collisions, pc>> /\ Quiet
        BY <1>1, <1>2, <2>3, <2>4
      <3>2. Reached' = Reached
        BY <3>1 DEF Reached, Due
      <3> QED
        BY <1>9, <3>1, <3>2 DEF QuietInv
    <2> QED
      BY <1>2, <1>4, <1>5, <1>6, <2>2, <2>4 DEF QuietInv
  <1> QED
    BY <1>8, <1>9

-----------------------------------------------------------------------------
(* The clock, the signal, and the steps between two walks. *)

LEMMA OutsideKeeps ==
    ASSUME Kept, Tick \/ sig_handler \/ LoopTest \/ PrintReport \/ WalkError \/ UNCHANGED vars
    PROVE  HistoryInv' /\ GroupsInv' /\ CursorInv' /\ CountedInv' /\ QuietInv'
  <1> USE DEF Kept, WalkInv
  <1>1. CASE Tick
    <2>1. /\ UNCHANGED <<allocs, pc, prev_key, curr_key, groups, missing, collisions, standing,
                         ever, began, rounds>>
          /\ now' = now + 1 /\ now < MaxTime
      BY <1>1 DEF Tick, walk, history
    <2>2. HistoryInv'
      BY <2>1, TimeFacts, ReportAssumption DEF HistoryInv, Walking, Keys, Time
    <2>3. GroupsInv' /\ CursorInv'
      BY <2>1 DEF GroupsInv, CursorInv, Walking, WithStack
    <2>4. Reached' = Reached /\ ~Quiet'
      BY <2>1, ReportAssumption, TimeFacts DEF Reached, Due, Quiet, HistoryInv
    <2> QED
      BY <2>1, <2>2, <2>3, <2>4 DEF CountedInv, QuietInv, Walking
  <1>2. CASE sig_handler \/ UNCHANGED vars
    <2>1. UNCHANGED <<allocs, now, pc, prev_key, curr_key, groups, missing, collisions, standing,
                      ever, began, rounds>>
      BY <1>2 DEF sig_handler, vars, walk, history
    <2>2. HistoryInv' /\ GroupsInv' /\ CursorInv'
      BY <2>1 DEF HistoryInv, GroupsInv, CursorInv, Walking, WithStack, Keys
    <2>3. Reached' = Reached /\ Quiet' = Quiet
      BY <2>1 DEF Reached, Due, Quiet
    <2>4. CountedInv'
      BY <2>1, <2>3 DEF CountedInv, Walking
    <2>5. QuietInv'
      BY <2>1, <2>3 DEF QuietInv, Walking
    <2> QED
      BY <2>2, <2>4, <2>5
  <1>3. CASE LoopTest \/ PrintReport \/ WalkError
    <2>1. /\ pc' \in {"loop", "sleep", "done"} /\ now' = now
          /\ groups' = <<>> /\ prev_key' = 0 /\ missing' = 0 /\ collisions' = 0
          /\ \/ UNCHANGED <<standing, ever, began>>
             \/ standing' = {} /\ ever' = {} /\ began' = MinAge
      <3>1. CASE LoopTest
        BY <3>1 DEF LoopTest, walk, GroupsInv, Walking
      <3>2. CASE PrintReport \/ WalkError
        BY <3>2 DEF PrintReport, WalkError, FreshWalk, history
      <3> QED
        BY <1>3, <3>1, <3>2
    <2>2. ~Walking'
      BY <2>1 DEF Walking
    <2>3. HistoryInv'
      BY <2>1, <2>2, TimeFacts, ReportAssumption DEF HistoryInv
    <2>4. GroupsInv'
      BY <2>1, <2>2 DEF GroupsInv
    <2> QED
      BY <2>1, <2>2, <2>3, <2>4 DEF CursorInv, CountedInv, QuietInv
  <1> QED
    BY <1>1, <1>2, <1>3

LEMMA SleepKeeps ==
    ASSUME Kept, Sleep
    PROVE  HistoryInv' /\ GroupsInv' /\ CursorInv' /\ CountedInv' /\ QuietInv'
  <1> USE DEF Kept, WalkInv
  <1>1. /\ pc = "sleep" /\ pc' = "next"
        /\ standing' = {<<k, allocs[k]>> : k \in Keys(allocs)}
        /\ ever' = standing' /\ began' = now
        /\ UNCHANGED <<allocs, now, prev_key, groups, missing, collisions>>
    BY DEF Sleep, walk
  <1>2. prev_key = 0 /\ groups = <<>> /\ missing = 0 /\ collisions = 0
    BY <1>1 DEF GroupsInv, Walking
  <1>3. \A r \in standing' : /\ r = <<r[1], allocs[r[1]]>> /\ r[1] \in Keys(allocs)
                             /\ r[1] \in Key /\ r[2] \in Info /\ r[2] = allocs[r[1]]
    BY <1>1 DEF Keys, TypeOK
  <1>4. HistoryInv'
    <2>1. began' \in MinAge..now' /\ now' \in Time
      BY <1>1, TimeFacts, ReportAssumption DEF HistoryInv
    <2>2. ever' \subseteq Key \X Info
      BY <1>1, <1>3
    <2>3. \A r, q \in standing' : r[1] = q[1] => r = q
      BY <1>3
    <2>4. \A k \in Keys(allocs') : <<k, allocs'[k]>> \in ever'
      BY <1>1
    <2> QED
      BY <1>1, <1>3, <2>1, <2>2, <2>3, <2>4 DEF HistoryInv
  <1>5. GroupsInv'
    BY <1>1, <1>2 DEF GroupsInv, Walking
  <1>6. Reached' = {}
    <2>1. \A r \in standing' : ~(r[1] <= 0)
      BY <1>3, KeyFacts
    <2> QED
      BY <1>1, <1>2, <2>1 DEF Reached, Due
  <1>7. \A s : WithStack({}, s) = {} /\ Unread({}) = {}
    BY DEF WithStack, Unread
  <1>8. CountedInv'
    BY <1>1, <1>2, <1>6 DEF CountedInv
  <1>9. QuietInv'
    <2>1. Cardinality(Unread(Reached')) = 0 /\ Cardinality(WithStack(Reached', -EEXIST)) = 0
      BY <1>6, <1>7, NoRecords
    <2>2. DOMAIN groups' = {} /\ prev_key' = 0 /\ missing' = 0 /\ collisions' = 0
      BY <1>1, <1>2
    <2> QED
      BY <1>1, <2>1, <2>2 DEF QuietInv
  <1> QED
    BY <1>1, <1>4, <1>5, <1>8, <1>9 DEF CursorInv

-----------------------------------------------------------------------------
(* The walk. *)

\* A record that stands has its key in the map.
LEMMA StandingKeys ==
    ASSUME Kept, Walking, NEW r \in standing
    PROVE  /\ r = <<r[1], r[2]>> /\ r[1] \in Key /\ r[1] \in Nat /\ r[2] \in Info
           /\ r[1] \in Keys(allocs) /\ allocs[r[1]] = r[2]
  <1>1. r \in Key \X Info /\ allocs[r[1]] = r[2]
    BY DEF Kept, WalkInv, HistoryInv
  <1>2. r = <<r[1], r[2]>> /\ r[1] \in Key /\ r[2] \in Info
    BY <1>1
  <1>3. r[1] \in Keys(allocs)
    BY <1>1, <1>2, NoneAssumption DEF Keys, Kept, TypeOK
  <1> QED
    BY <1>1, <1>2, <1>3, KeyFacts

LEMMA NextKeyKeeps ==
    ASSUME Kept, get_next_key
    PROVE  HistoryInv' /\ GroupsInv' /\ CursorInv' /\ CountedInv' /\ QuietInv'
  <1> USE DEF Kept, WalkInv
  <1>1. /\ pc = "next" /\ pc' = "lookup"
        /\ UNCHANGED <<allocs, now, prev_key, groups, missing, collisions, standing, ever, began>>
    BY DEF get_next_key, history
  <1>2. Walking /\ Walking'
    BY <1>1 DEF Walking
  <1>3. /\ curr_key' \in Keys(allocs) /\ curr_key' \in Key
        /\ \A k \in Keys(allocs) : k < curr_key' => k <= prev_key
        /\ prev_key \in Keys(allocs) \cup {0} => curr_key' > prev_key
    BY NextKey
  <1>4. HistoryInv' /\ GroupsInv'
    BY <1>1, <1>2 DEF HistoryInv, GroupsInv, WithStack, Keys
  <1>5. CursorInv'
    <2>1. ASSUME NEW r \in standing, r[1] <= curr_key'
          PROVE  r[1] <= prev_key \/ r[1] = curr_key'
      <3>1. r[1] \in Keys(allocs) /\ r[1] \in Nat
        BY <1>2, StandingKeys
      <3>2. curr_key' \in Nat
        BY <1>3, KeyFacts
      <3> QED
        BY <1>3, <2>1, <3>1, <3>2
    <2> QED
      BY <1>1, <2>1 DEF CursorInv
  <1>6. Reached' = Reached /\ Quiet' = Quiet
    BY <1>1 DEF Reached, Due, Quiet
  <1>7. CountedInv'
    BY <1>1, <1>2, <1>6 DEF CountedInv
  <1>8. ASSUME Quiet
        PROVE  /\ prev_key \in Keys(allocs) \cup {0}
               /\ curr_key' \in Keys(allocs) /\ curr_key' > prev_key
    BY <1>2, <1>3, <1>8 DEF QuietInv
  <1>9. QuietInv'
    BY <1>1, <1>2, <1>6, <1>8 DEF QuietInv
  <1> QED
    BY <1>4, <1>5, <1>7, <1>9

\* The record under the cursor, as a record of the history.
Found == <<curr_key, allocs[curr_key]>>

\* What the walk has passed after a lookup: what it had passed before and, if it
\* stands and is due, the record that it looked up.
LEMMA ReachedNext ==
    ASSUME Kept, lookup_elem
    PROVE  /\ Reached' \subseteq Reached \cup {Found}
           /\ Found \in Reached' =>
                 Found \in Due /\ allocs[curr_key] \in Info /\ ~TooYoung(allocs[curr_key])
           /\ Quiet => /\ Found \notin Reached /\ allocs[curr_key] \in Info
                       /\ Reached' = IF TooYoung(allocs[curr_key]) THEN Reached
                                     ELSE Reached \cup {Found}
  <1> USE DEF Kept, WalkInv
  <1>1. /\ pc = "lookup" /\ prev_key' = curr_key
        /\ UNCHANGED <<allocs, now, standing, ever, began>>
    BY DEF lookup_elem, Advance, history
  <1>2. Walking
    BY <1>1 DEF Walking
  <1>3. Due' = Due /\ Due \subseteq standing
    BY <1>1 DEF Due
  <1>4. curr_key \in Key /\ curr_key \in Nat /\ prev_key \in Nat
    BY <1>1, KeyFacts DEF TypeOK
  <1>5. Reached' \subseteq Reached \cup {Found}
    <2> SUFFICES ASSUME NEW r \in Reached' PROVE r \in Reached \/ r = Found
      OBVIOUS
    <2>1. r \in Due /\ r[1] <= curr_key
      BY <1>1, <1>3 DEF Reached
    <2>2. r \in standing
      BY <1>3, <2>1
    <2>3. r[1] <= prev_key \/ r[1] = curr_key
      BY <1>1, <2>1, <2>2 DEF CursorInv
    <2>4. r = <<r[1], allocs[r[1]]>>
      BY <1>2, <2>2, StandingKeys
    <2> QED
      BY <2>1, <2>3, <2>4 DEF Reached, Found
  <1>6. now \in Nat /\ began \in Nat /\ began <= now /\ MinAge \in Nat
    BY TimeFacts, ReportAssumption DEF HistoryInv
  <1>7. ASSUME Found \in standing
        PROVE  /\ allocs[curr_key] \in Info
               /\ allocs[curr_key].timestamp \in Nat
               /\ Found \in Due <=> allocs[curr_key].timestamp <= began - MinAge
    <2>1. allocs[curr_key] \in Info
      BY <1>2, <1>7, StandingKeys DEF Found
    <2>2. allocs[curr_key].timestamp \in Nat
      BY <2>1, InfoFacts, TimeFacts
    <2> QED
      BY <1>7, <2>1, <2>2 DEF Due, Found
  <1>8. ASSUME Found \in Reached'
        PROVE  Found \in Due /\ allocs[curr_key] \in Info /\ ~TooYoung(allocs[curr_key])
    <2>1. Found \in Due /\ Found \in standing
      BY <1>3, <1>8 DEF Reached
    <2> QED
      BY <1>6, <1>7, <2>1 DEF TooYoung
  <1>9. ASSUME Quiet
        PROVE  /\ Found \notin Reached /\ allocs[curr_key] \in Info
               /\ Reached' = IF TooYoung(allocs[curr_key]) THEN Reached
                             ELSE Reached \cup {Found}
    <2>1. curr_key \in Keys(allocs) /\ curr_key > prev_key
      BY <1>1, <1>2, <1>9 DEF QuietInv
    <2>2. Found \in standing /\ now = began
      BY <1>2, <1>9, <2>1 DEF HistoryInv, Quiet, Found
    <2>3. Found \notin Reached
      BY <1>4, <2>1 DEF Reached, Found
    <2>4. Found \in Due <=> ~TooYoung(allocs[curr_key])
      BY <1>6, <1>7, <2>2 DEF TooYoung
    <2>5. Reached \subseteq Reached'
      <3>1. ASSUME NEW r \in Reached PROVE r[1] <= curr_key
        <4>1. r[1] \in Nat
          BY <1>2, <1>3, StandingKeys DEF Reached
        <4> QED
          BY <1>4, <2>1, <4>1 DEF Reached
      <3> QED
        BY <1>1, <1>3, <3>1 DEF Reached
    <2>6. Found \in Reached' <=> Found \in Due
      BY <1>1, <1>3, <1>4 DEF Reached, Found
    <2>7. TooYoung(allocs[curr_key]) => Reached' = Reached
      BY <1>5, <2>4, <2>5, <2>6
    <2>8. ~TooYoung(allocs[curr_key]) => Reached' = Reached \cup {Found}
      BY <1>5, <2>4, <2>5, <2>6
    <2> QED
      BY <1>7, <2>2, <2>3, <2>7, <2>8
  <1> QED
    BY <1>5, <1>8, <1>9

\* What every lookup does.
LEMMA LookupFacts ==
    ASSUME Kept, lookup_elem
    PROVE  /\ pc = "lookup" /\ pc' = "next" /\ Walking /\ Walking' /\ prev_key' = curr_key
           /\ UNCHANGED <<allocs, now, standing, ever, began>>
           /\ HistoryInv' /\ CursorInv' /\ Quiet' = Quiet
           /\ curr_key \in Key /\ allocs[curr_key] \in Info \cup {None}
           /\ \A i \in DOMAIN groups :
                 /\ groups[i].stack_id >= 0 /\ groups[i].stack_id \in Int
                 /\ groups[i].count \in Nat /\ groups[i].size \in Nat
  <1> USE DEF Kept, WalkInv
  <1>1. /\ pc = "lookup" /\ pc' = "next" /\ prev_key' = curr_key
        /\ UNCHANGED <<allocs, now, standing, ever, began>>
    BY DEF lookup_elem, Advance, history
  <1>2. Walking /\ Walking'
    BY <1>1 DEF Walking
  <1>3. HistoryInv'
    BY <1>1, <1>2 DEF HistoryInv, Keys
  <1>4. CursorInv' /\ Quiet' = Quiet
    BY <1>1 DEF CursorInv, Quiet
  <1>5. curr_key \in Key /\ allocs[curr_key] \in Info \cup {None}
    BY <1>1 DEF TypeOK
  <1>6. ASSUME NEW i \in DOMAIN groups
        PROVE  /\ groups[i].stack_id >= 0 /\ groups[i].stack_id \in Int
               /\ groups[i].count \in Nat /\ groups[i].size \in Nat
    <2>1. groups[i] \in Group
      BY DEF TypeOK
    <2>2. \A s \in Traced : s >= 0 /\ s \in Int
      BY ReportAssumption DEF Traced
    <2> QED
      BY <2>1, <2>2 DEF Group
  <1> QED
    BY <1>1, <1>2, <1>3, <1>4, <1>5, <1>6

LEMMA LookupSkips ==
    ASSUME Kept, lookup_elem, UNCHANGED <<groups, missing, collisions>>,
           allocs[curr_key] = None \/ TooYoung(allocs[curr_key])
    PROVE  GroupsInv' /\ CountedInv' /\ QuietInv'
  <1> USE DEF Kept, WalkInv
  <1>1. Reached' \subseteq Reached
    BY ReachedNext, NoneAssumption
  <1>2. GroupsInv'
    BY LookupFacts DEF GroupsInv, WithStack
  <1>3. CountedInv'
    <2>1. ASSUME NEW i \in DOMAIN groups
          PROVE  /\ groups[i].count >= Cardinality(WithStack(Reached', groups[i].stack_id))
                 /\ groups[i].size >= Bytes(WithStack(Reached', groups[i].stack_id))
      <3>1. WithStack(Reached', groups[i].stack_id) \subseteq WithStack(Reached, groups[i].stack_id)
        BY <1>1 DEF WithStack
      <3> QED
        BY <3>1, LookupFacts, StillCounted
    <2>2. \A r \in Reached' : r[2].stack_id >= 0 =>
              \E i \in DOMAIN groups : groups[i].stack_id = r[2].stack_id
      BY <1>1, LookupFacts DEF CountedInv
    <2>3. groups' = groups
      OBVIOUS
    <2> QED
      BY <2>1, <2>2, <2>3 DEF CountedInv
  <1>4. ASSUME Quiet PROVE QuietInv'
    <2>1. Reached' = Reached
      BY <1>4, ReachedNext, NoneAssumption
    <2>2. /\ curr_key \in Keys(allocs)
          /\ \A i \in DOMAIN groups :
                /\ groups[i].count = Cardinality(WithStack(Reached, groups[i].stack_id))
                /\ groups[i].size = Bytes(WithStack(Reached, groups[i].stack_id))
          /\ missing = Cardinality(Unread(Reached))
          /\ collisions = Cardinality(WithStack(Reached, -EEXIST))
      BY <1>4, LookupFacts DEF QuietInv
    <2>3. pc' = "next" /\ prev_key' = curr_key /\ allocs' = allocs
      BY LookupFacts
    <2> QED
      BY <2>1, <2>2, <2>3 DEF QuietInv
  <1>5. QuietInv'
    <2>1. Quiet' = Quiet
      BY LookupFacts
    <2> QED
      BY <1>4, <2>1 DEF QuietInv
  <1> QED
    BY <1>2, <1>3, <1>5

LEMMA LookupInvalid ==
    ASSUME Kept, lookup_elem, groups' = groups, allocs[curr_key] # None,
           ~TooYoung(allocs[curr_key]), InvalidStack(allocs[curr_key].stack_id),
           missing' = missing + (IF StackErr(allocs[curr_key].stack_id) THEN 1 ELSE 0),
           collisions' = collisions + (IF StackCollision(allocs[curr_key].stack_id) THEN 1 ELSE 0)
    PROVE  GroupsInv' /\ CountedInv' /\ QuietInv'
  <1> USE DEF Kept, WalkInv
  <1> DEFINE id == allocs[curr_key].stack_id
  <1>1. Reached' \subseteq Reached \cup {Found}
    BY ReachedNext
  <1>2. Found[2].stack_id = id /\ id < 0 /\ id \in Int
    <2>1. id \in Int
      BY LookupFacts, InfoFacts
    <2> QED
      BY <2>1 DEF Found, InvalidStack
  <1> HIDE DEF id
  <1>3. GroupsInv'
    BY LookupFacts DEF GroupsInv, WithStack
  <1>4. ASSUME NEW i \in DOMAIN groups
        PROVE  WithStack(Reached', groups[i].stack_id) \subseteq WithStack(Reached, groups[i].stack_id)
    <2>1. groups[i].stack_id # id
      BY <1>2, LookupFacts
    <2> QED
      BY <1>1, <1>2, <2>1 DEF WithStack
  <1>5. CountedInv'
    <2>1. ASSUME NEW i \in DOMAIN groups
          PROVE  /\ groups[i].count >= Cardinality(WithStack(Reached', groups[i].stack_id))
                 /\ groups[i].size >= Bytes(WithStack(Reached', groups[i].stack_id))
      BY <1>4, LookupFacts, StillCounted
    <2>2. ASSUME NEW r \in Reached', r[2].stack_id >= 0
          PROVE  \E i \in DOMAIN groups : groups[i].stack_id = r[2].stack_id
      <3>1. r \in Reached
        BY <1>1, <1>2, <2>2
      <3> QED
        BY <2>2, <3>1, LookupFacts DEF CountedInv
    <2> QED
      BY <2>1, <2>2 DEF CountedInv
  <1>6. ASSUME Quiet PROVE QuietInv'
    <2>1. Reached' = Reached \cup {Found} /\ Found \notin Reached
      BY <1>6, ReachedNext
    <2>2. /\ curr_key \in Keys(allocs)
          /\ \A i \in DOMAIN groups :
                /\ groups[i].count = Cardinality(WithStack(Reached, groups[i].stack_id))
                /\ groups[i].size = Bytes(WithStack(Reached, groups[i].stack_id))
          /\ missing = Cardinality(Unread(Reached))
          /\ collisions = Cardinality(WithStack(Reached, -EEXIST))
      BY <1>6, LookupFacts DEF QuietInv
    <2>3. \A i \in DOMAIN groups :
              WithStack(Reached', groups[i].stack_id) = WithStack(Reached, groups[i].stack_id)
      BY <1>4, <2>1 DEF WithStack
    <2>4. Found \in Key \X Info
      BY LookupFacts DEF Found
    <2>5. /\ Unread(Reached) \in SUBSET (Key \X Info) /\ IsFiniteSet(Unread(Reached))
          /\ WithStack(Reached, -EEXIST) \in SUBSET (Key \X Info)
          /\ IsFiniteSet(WithStack(Reached, -EEXIST))
      BY ReachedFacts DEF Unread
    <2>6. missing' = Cardinality(Unread(Reached'))
      <3>1. CASE StackErr(id)
        <4>1. Unread(Reached') = Unread(Reached) \cup {Found} /\ Found \notin Unread(Reached)
          BY <1>2, <2>1, <3>1 DEF Unread, StackErr
        <4> QED
          BY <2>2, <2>4, <2>5, <3>1, <4>1, OneMore DEF id
      <3>2. CASE ~StackErr(id)
        <4>1. Unread(Reached') = Unread(Reached)
          BY <1>2, <2>1, <3>2 DEF Unread, StackErr
        <4> QED
          BY <2>2, <3>2, <4>1 DEF id, TypeOK
      <3> QED
        BY <3>1, <3>2
    <2>7. collisions' = Cardinality(WithStack(Reached', -EEXIST))
      <3>1. CASE StackCollision(id)
        <4>1. /\ WithStack(Reached', -EEXIST) = WithStack(Reached, -EEXIST) \cup {Found}
              /\ Found \notin WithStack(Reached, -EEXIST)
          BY <1>2, <2>1, <3>1 DEF WithStack, StackCollision
        <4> QED
          BY <2>2, <2>4, <2>5, <3>1, <4>1, OneMore DEF id
      <3>2. CASE ~StackCollision(id)
        <4>1. WithStack(Reached', -EEXIST) = WithStack(Reached, -EEXIST)
          BY <1>2, <2>1, <3>2 DEF WithStack, StackCollision
        <4> QED
          BY <2>2, <3>2, <4>1 DEF id, TypeOK
      <3> QED
        BY <3>1, <3>2
    <2>8. pc' = "next" /\ prev_key' = curr_key /\ allocs' = allocs
      BY LookupFacts
    <2> QED
      BY <2>2, <2>3, <2>6, <2>7, <2>8 DEF QuietInv
  <1>7. QuietInv'
    <2>1. Quiet' = Quiet
      BY LookupFacts
    <2> QED
      BY <1>6, <2>1 DEF QuietInv
  <1> QED
    BY <1>3, <1>5, <1>7

LEMMA LookupGroups ==
    ASSUME Kept, lookup_elem, allocs[curr_key] # None,
           ~TooYoung(allocs[curr_key]), ~InvalidStack(allocs[curr_key].stack_id),
           groups' = Grouped(allocs[curr_key]), UNCHANGED <<missing, collisions>>
    PROVE  GroupsInv' /\ CountedInv' /\ QuietInv'
  <1> USE DEF Kept, WalkInv
  <1> DEFINE info == allocs[curr_key]
             id == info.stack_id
             Has(i) == groups[i].stack_id = id
             n == Len(groups) + 1
  <1>1. info \in Info /\ id >= 0 /\ id \in Int /\ info.size \in Nat
    <2>1. info \in Info
      BY LookupFacts
    <2> QED
      BY <2>1, InfoFacts DEF InvalidStack
  <1>2. /\ Found \in Key \X Info /\ Found[2] = info /\ Found[2].stack_id = id
        /\ Found \in ever /\ Found \in WithStack(ever, id)
    <2>1. Found \in Key \X Info /\ Found[2] = info
      BY <1>1, LookupFacts DEF Found
    <2>2. curr_key \in Keys(allocs)
      BY LookupFacts DEF Keys, TypeOK
    <2>3. Found \in ever
      BY <2>2, LookupFacts DEF HistoryInv, Found
    <2> QED
      BY <2>1, <2>3 DEF WithStack
  <1>3. Reached' \subseteq Reached \cup {Found}
    BY ReachedNext
  <1>4. \A s : /\ WithStack(Reached', s) \subseteq WithStack(Reached, s) \cup {Found}
               /\ s # id => WithStack(Reached', s) \subseteq WithStack(Reached, s)
    BY <1>2, <1>3 DEF WithStack
  <1>5. groups \in Seq(Group) /\ DOMAIN groups = 1..Len(groups) /\ Len(groups) \in Nat
    BY DEF TypeOK
  <1>6. Quiet => /\ Found \notin Reached /\ Reached' = Reached \cup {Found}
                 /\ \A i \in DOMAIN groups :
                       /\ groups[i].count = Cardinality(WithStack(Reached, groups[i].stack_id))
                       /\ groups[i].size = Bytes(WithStack(Reached, groups[i].stack_id))
                 /\ missing = Cardinality(Unread(Reached))
                 /\ collisions = Cardinality(WithStack(Reached, -EEXIST))
                 /\ curr_key \in Keys(allocs)
    BY ReachedNext, LookupFacts DEF QuietInv
  <1>7. \A s : /\ WithStack(Reached, s) \in SUBSET (Key \X Info)
               /\ IsFiniteSet(WithStack(Reached, s))
               /\ Found \notin Reached => Found \notin WithStack(Reached, s)
    BY ReachedFacts DEF WithStack
  <1>8. groups' = Grouped(info) /\ UNCHANGED <<missing, collisions>>
    OBVIOUS
  <1>9. \A i \in DOMAIN groups : WithStack(ever, groups[i].stack_id) # {}
    BY LookupFacts DEF GroupsInv
  <1>10. \A i, j \in DOMAIN groups : i # j => groups[i].stack_id # groups[j].stack_id
    BY DEF GroupsInv
  <1>11. \A r \in Reached : r[2].stack_id >= 0 =>
              \E i \in DOMAIN groups : groups[i].stack_id = r[2].stack_id
    BY LookupFacts DEF CountedInv
  <1> HIDE DEF info, id, n
  \* The counts of a group, old or new, from the group before.
  <1> DEFINE Same(i) == groups'[i] = groups[i] /\ groups[i].stack_id # id
             More(i) == /\ groups'[i].stack_id = id /\ Has(i)
                        /\ groups'[i].count = groups[i].count + 1
                        /\ groups'[i].size = groups[i].size + info.size
             New(i) == /\ groups'[i].stack_id = id
                       /\ groups'[i].count = 1 /\ groups'[i].size = info.size
                       /\ \A j \in DOMAIN groups : groups[j].stack_id # id
  <1>12. /\ \A i \in DOMAIN groups' : \/ i \in DOMAIN groups /\ Same(i)
                                      \/ i \in DOMAIN groups /\ More(i)
                                      \/ i = n /\ New(i)
         /\ \A i \in DOMAIN groups : i \in DOMAIN groups' /\ groups'[i].stack_id = groups[i].stack_id
         /\ \E i \in DOMAIN groups' : groups'[i].stack_id = id
         /\ n \notin DOMAIN groups
    <2>1. n \notin DOMAIN groups
      BY <1>5 DEF n
    <2>2. CASE \E i \in DOMAIN groups : Has(i)
      <3>1. PICK e \in DOMAIN groups : Has(e)
        BY <2>2
      <3>2. /\ DOMAIN groups' = DOMAIN groups
            /\ \A j \in DOMAIN groups :
                 /\ groups'[j].stack_id = groups[j].stack_id
                 /\ groups[j].stack_id # id => groups'[j] = groups[j]
                 /\ groups[j].stack_id = id =>
                       /\ groups'[j].count = groups[j].count + 1
                       /\ groups'[j].size = groups[j].size + info.size
        BY <1>1, <1>5, <1>8, <3>1, GroupedOld DEF id
      <3> QED
        BY <2>1, <3>1, <3>2
    <2>3. CASE ~ \E i \in DOMAIN groups : Has(i)
      <3>1. /\ DOMAIN groups' = 1..n /\ n \in 1..n
            /\ \A j \in DOMAIN groups : groups'[j] = groups[j]
            /\ groups'[n].stack_id = id /\ groups'[n].count = 1 /\ groups'[n].size = info.size
        BY <1>1, <1>5, <1>8, <2>3, GroupedNew DEF id, n
      <3>2. \A i \in 1..n : i \in DOMAIN groups \/ i = n
        BY <1>5 DEF n
      <3>3. DOMAIN groups \subseteq 1..n
        BY <1>5 DEF n
      <3> QED
        BY <2>1, <2>3, <3>1, <3>2, <3>3
    <2> QED
      BY <2>2, <2>3
  <1>13. \A i \in DOMAIN groups' : i \notin DOMAIN groups =>
              i = n /\ groups'[i].stack_id = id /\ \A j \in DOMAIN groups : groups[j].stack_id # id
    BY <1>12
  <1>14. GroupsInv'
    <2>1. ASSUME NEW i \in DOMAIN groups', NEW j \in DOMAIN groups', i # j
          PROVE  groups'[i].stack_id # groups'[j].stack_id
      BY <1>10, <1>12, <1>13, <2>1
    <2>2. ASSUME NEW i \in DOMAIN groups' PROVE WithStack(ever, groups'[i].stack_id) # {}
      BY <1>2, <1>9, <1>12, <1>13
    <2>3. Walking' /\ ever' = ever
      BY LookupFacts
    <2>4. \A i \in DOMAIN groups' : WithStack(ever', groups'[i].stack_id) # {}
      BY <2>2, <2>3
    <2> QED
      BY <2>1, <2>3, <2>4 DEF GroupsInv
  <1>15. CountedInv'
    <2>1. ASSUME NEW r \in Reached', r[2].stack_id >= 0
          PROVE  \E i \in DOMAIN groups' : groups'[i].stack_id = r[2].stack_id
      <3>1. CASE r = Found
        BY <1>2, <1>12, <3>1
      <3>2. CASE r \in Reached
        BY <1>11, <1>12, <2>1, <3>2
      <3> QED
        BY <1>3, <3>1, <3>2
    <2>2. ASSUME NEW i \in DOMAIN groups'
          PROVE  /\ groups'[i].count >= Cardinality(WithStack(Reached', groups'[i].stack_id))
                 /\ groups'[i].size >= Bytes(WithStack(Reached', groups'[i].stack_id))
      <3> DEFINE T == WithStack(Reached', groups'[i].stack_id)
      <3>1. CASE i \in DOMAIN groups /\ Same(i)
        <4>1. T \subseteq WithStack(Reached, groups[i].stack_id)
          BY <1>4, <3>1
        <4> QED
          BY <3>1, <4>1, LookupFacts, StillCounted
      <3>2. CASE i \in DOMAIN groups /\ More(i)
        <4>1. T \subseteq WithStack(Reached, groups[i].stack_id) \cup {Found}
          BY <1>4, <3>2
        <4> HIDE DEF T
        <4>2. /\ groups[i].count + 1 >= Cardinality(T)
              /\ groups[i].size + Found[2].size >= Bytes(T)
          BY <1>2, <3>2, <4>1, LookupFacts, OneMoreCounted
        <4> QED
          BY <1>2, <3>2, <4>2 DEF T
      <3>3. CASE i = n /\ New(i)
        <4>1. WithStack(Reached, id) = {}
          BY <1>1, <1>11, <3>3 DEF WithStack
        <4>2. T \in SUBSET ({} \cup {Found})
          BY <1>4, <3>3, <4>1
        <4> HIDE DEF T
        <4>3. {} \in SUBSET (Key \X Info) /\ IsFiniteSet({})
          BY FS_EmptySet
        <4>4. Cardinality(T) <= Cardinality({}) + 1 /\ Bytes(T) <= Bytes({}) + Found[2].size
          BY <1>2, <4>2, <4>3, AtMostOneMore
        <4>5. T \in SUBSET {Found} /\ IsFiniteSet({Found}) /\ {Found} \in SUBSET (Key \X Info)
          BY <1>2, <4>2, FS_Singleton
        <4>6. Cardinality(T) \in Nat /\ Bytes(T) \in Nat
          BY <4>5, Fewer
        <4> QED
          BY <1>1, <1>2, <3>3, <4>4, <4>6, NoRecords DEF T
      <3> QED
        BY <1>12, <3>1, <3>2, <3>3
    <2> HIDE DEF Same, More, New, Has
    <2> QED
      BY <2>1, <2>2 DEF CountedInv
  <1>16. ASSUME Quiet PROVE QuietInv'
    <2>1. WithStack(Reached', id) = WithStack(Reached, id) \cup {Found}
      BY <1>2, <1>6, <1>16 DEF WithStack
    <2>2. \A s : s # id => WithStack(Reached', s) = WithStack(Reached, s)
      BY <1>2, <1>6, <1>16 DEF WithStack
    <2>3. Unread(Reached') = Unread(Reached)
      BY <1>1, <1>2, <1>6, <1>16 DEF Unread
    <2>4. -EEXIST # id
      BY <1>1, ReportAssumption
    <2>5. /\ Cardinality(WithStack(Reached', id)) = Cardinality(WithStack(Reached, id)) + 1
          /\ Bytes(WithStack(Reached', id)) = Bytes(WithStack(Reached, id)) + info.size
      <3> DEFINE S == WithStack(Reached, id)
      <3>1. /\ S \in SUBSET (Key \X Info) /\ IsFiniteSet(S) /\ Found \notin S
            /\ WithStack(Reached', id) = S \cup {Found}
        BY <1>6, <1>7, <1>16, <2>1
      <3> HIDE DEF S
      <3>2. /\ Cardinality(S \cup {Found}) = Cardinality(S) + 1
            /\ Bytes(S \cup {Found}) = Bytes(S) + Found[2].size
        BY <1>2, <3>1, OneMore
      <3>3. Found[2].size = info.size
        BY <1>2
      <3> QED
        BY <3>1, <3>2, <3>3 DEF S
    <2>6. ASSUME NEW i \in DOMAIN groups'
          PROVE  /\ groups'[i].count = Cardinality(WithStack(Reached', groups'[i].stack_id))
                 /\ groups'[i].size = Bytes(WithStack(Reached', groups'[i].stack_id))
      <3>1. CASE i \in DOMAIN groups /\ Same(i)
        BY <1>6, <1>16, <2>2, <3>1
      <3>2. CASE i \in DOMAIN groups /\ More(i)
        <4>1. /\ groups[i].count = Cardinality(WithStack(Reached, id))
              /\ groups[i].size = Bytes(WithStack(Reached, id))
          BY <1>6, <1>16, <3>2
        <4> QED
          BY <2>5, <3>2, <4>1
      <3>3. CASE i = n /\ New(i)
        <4>1. WithStack(Reached, id) = {}
          BY <1>1, <1>11, <3>3 DEF WithStack
        <4> QED
          BY <1>1, <2>5, <3>3, <4>1, NoRecords
      <3> QED
        BY <1>12, <3>1, <3>2, <3>3
    <2>7. missing' = Cardinality(Unread(Reached'))
      BY <1>6, <1>8, <1>16, <2>3
    <2>8. collisions' = Cardinality(WithStack(Reached', -EEXIST))
      BY <1>6, <1>8, <1>16, <2>2, <2>4
    <2>9. pc' = "next" /\ prev_key' = curr_key /\ allocs' = allocs /\ curr_key \in Keys(allocs)
      BY <1>6, <1>16, LookupFacts
    <2> HIDE DEF Same, More, New, Has
    <2> QED
      BY <2>6, <2>7, <2>8, <2>9 DEF QuietInv
  <1>17. QuietInv'
    <2>1. Quiet' = Quiet
      BY LookupFacts
    <2> QED
      BY <1>16, <2>1 DEF QuietInv
  <1> QED
    BY <1>14, <1>15, <1>17

LEMMA LookupKeeps ==
    ASSUME Kept, lookup_elem
    PROVE  HistoryInv' /\ GroupsInv' /\ CursorInv' /\ CountedInv' /\ QuietInv'
  <1>1. HistoryInv' /\ CursorInv'
    BY LookupFacts
  <1>2. GroupsInv' /\ CountedInv' /\ QuietInv'
    <2>1. CASE /\ allocs[curr_key] = None \/ TooYoung(allocs[curr_key])
               /\ UNCHANGED <<groups, missing, collisions>>
      BY <2>1, LookupSkips
    <2>2. CASE /\ allocs[curr_key] # None /\ ~TooYoung(allocs[curr_key])
               /\ InvalidStack(allocs[curr_key].stack_id) /\ groups' = groups
               /\ missing' = missing + (IF StackErr(allocs[curr_key].stack_id) THEN 1 ELSE 0)
               /\ collisions' = collisions
                     + (IF StackCollision(allocs[curr_key].stack_id) THEN 1 ELSE 0)
      BY <2>2, LookupInvalid
    <2>3. CASE /\ allocs[curr_key] # None /\ ~TooYoung(allocs[curr_key])
               /\ ~InvalidStack(allocs[curr_key].stack_id)
               /\ groups' = Grouped(allocs[curr_key]) /\ UNCHANGED <<missing, collisions>>
      BY <2>3, LookupGroups
    <2> QED
      BY <2>1, <2>2, <2>3 DEF lookup_elem
  <1> QED
    BY <1>1, <1>2

LEMMA WalkStep ==
    ASSUME Kept, [Next]_vars
    PROVE  WalkInv'
  <1>1. RoundsInv'
    BY RoundsStep DEF Kept, WalkInv
  <1>2. HistoryInv' /\ GroupsInv' /\ CursorInv' /\ CountedInv' /\ QuietInv'
    <2>1. CASE EnterRecord \/ RemoveRecord
      BY <2>1, LedgerKeeps
    <2>2. CASE Tick \/ sig_handler \/ LoopTest \/ PrintReport \/ WalkError \/ UNCHANGED vars
      BY <2>2, OutsideKeeps
    <2>3. CASE Sleep
      BY <2>3, SleepKeeps
    <2>4. CASE get_next_key
      BY <2>4, NextKeyKeeps
    <2>5. CASE lookup_elem
      BY <2>5, LookupKeeps
    <2> QED
      BY <2>1, <2>2, <2>3, <2>4, <2>5 DEF Next, Reader, World
  <1> QED
    BY <1>1, <1>2 DEF WalkInv

\* While the probes change "allocs" at any point of a walk, between a
\* bpf_map_get_next_key and its bpf_map_lookup_elem too, print_outstanding_allocs
\* keeps the invariant of the walk: nothing that stands all through it is passed
\* without having been counted, every stack has one group, and if nothing moves
\* the counts are exact; and main keeps count of the rounds.
THEOREM WalkInductive == Spec => []WalkInv
  <1>1. Init => Kept
    BY TypeInit, InvInit DEF Kept
  <1>2. Kept /\ [Next]_vars => Kept'
    BY TypeStep, WalkStep DEF Kept
  <1>3. Kept => WalkInv
    BY DEF Kept
  <1> QED
    BY <1>1, <1>2, <1>3, PTL DEF Spec

-----------------------------------------------------------------------------
(* The report. *)

\* The allocations and the bytes that an array of groups shows for a stack.
At(gs, s) == {i \in DOMAIN gs : gs[i].stack_id = s}
CountIn(gs, s) == SumFunctionOnSet([i \in DOMAIN gs |-> gs[i].count], At(gs, s))
TotalIn(gs, s) == SumFunctionOnSet([i \in DOMAIN gs |-> gs[i].size], At(gs, s))

\* With one group for each stack, the totals of a stack are those of its group.
LEMMA StackTotals ==
    ASSUME NEW gs \in Seq(Group), NEW s,
           \A i, j \in DOMAIN gs : i # j => gs[i].stack_id # gs[j].stack_id
    PROVE  /\ At(gs, s) = {} => CountIn(gs, s) = 0 /\ TotalIn(gs, s) = 0
           /\ \A i \in At(gs, s) : /\ CountIn(gs, s) = gs[i].count
                                  /\ TotalIn(gs, s) = gs[i].size
  <1> DEFINE G == At(gs, s)
             c == [i \in DOMAIN gs |-> gs[i].count]
             z == [i \in DOMAIN gs |-> gs[i].size]
  <1>1. c \in [DOMAIN gs -> Nat] /\ z \in [DOMAIN gs -> Nat]
    <2>1. \A i \in DOMAIN gs : gs[i] \in Group
      OBVIOUS
    <2>2. \A g \in Group : g.count \in Nat /\ g.size \in Nat
      BY DEF Group
    <2> QED
      BY <2>1, <2>2
  <1>2. \A i \in G : G = {i} /\ i \in DOMAIN gs
    BY DEF At
  <1>3. \A i \in G : c[i] = gs[i].count /\ z[i] = gs[i].size
    BY <1>2
  <1> HIDE DEF c, z
  <1>4. ASSUME NEW i \in G
        PROVE  SumFunctionOnSet(c, G) = gs[i].count /\ SumFunctionOnSet(z, G) = gs[i].size
    <2>1. i \in DOMAIN gs
      BY <1>2
    <2>2. SumFunctionOnSet(c, {i}) = c[i]
      BY <1>1, <2>1, SumOne
    <2>3. SumFunctionOnSet(z, {i}) = z[i]
      BY <1>1, <2>1, SumOne
    <2> QED
      BY <1>2, <1>3, <2>2, <2>3
  <1>5. G = {} => SumFunctionOnSet(c, G) = 0 /\ SumFunctionOnSet(z, G) = 0
    BY SumEmpty
  <1>6. CountIn(gs, s) = SumFunctionOnSet(c, G) /\ TotalIn(gs, s) = SumFunctionOnSet(z, G)
    BY DEF CountIn, TotalIn, c, z
  <1> QED
    BY <1>4, <1>5, <1>6

\* What is printed are groups of the array, each at most once, the larger before
\* the smaller; and all of them if the printing is not cut short.
LEMMA PrintedGroups ==
    ASSUME Kept, PrintReport
    PROVE  /\ report'.groups \in Seq(Group)
           /\ \E p \in [DOMAIN report'.groups -> DOMAIN groups] :
                 /\ \A i, j \in DOMAIN report'.groups : i # j => p[i] # p[j]
                 /\ \A i \in DOMAIN report'.groups : report'.groups[i] = groups[p[i]]
                 /\ report'.complete =>
                       \A k \in DOMAIN groups : \E i \in DOMAIN report'.groups : p[i] = k
           /\ \A i, j \in DOMAIN report'.groups :
                 i < j => report'.groups[i].size >= report'.groups[j].size
           /\ report'.at = now /\ report'.missing = missing
           /\ report'.collisions = collisions
  <1>1. groups \in Seq(Group)
    BY DEF Kept, TypeOK
  <1> DEFINE Printing(sorted, n) ==
            report' = [groups |-> SubSeq(sorted, 1, n), complete |-> n = Len(sorted),
                       at |-> now, missing |-> missing, collisions |-> collisions]
  <1>0. PICK sorted \in Sorted(groups) : \E n \in Lines(sorted) : Printing(sorted, n)
    BY DEF PrintReport
  <1>2. PICK n \in Lines(sorted) : Printing(sorted, n)
    BY <1>0
  <1>3. /\ sorted \in Seq(Group) /\ Len(sorted) = Len(groups)
        /\ \A i, j \in DOMAIN groups : i < j => sorted[i].size >= sorted[j].size
    BY <1>1, SortedFacts
  <1>4. PICK p \in Bijection(DOMAIN groups, DOMAIN groups) :
            \A i \in DOMAIN groups : sorted[i] = groups[p[i]]
    BY <1>1, SortedFacts
  <1>5. /\ p \in [DOMAIN groups -> DOMAIN groups]
        /\ \A i, j \in DOMAIN groups : i # j => p[i] # p[j]
        /\ \A k \in DOMAIN groups : \E i \in DOMAIN groups : p[i] = k
    BY <1>4 DEF Bijection, Injection, Surjection, IsInjective
  <1>6. n \in Nat /\ n <= Len(groups) /\ DOMAIN groups = 1..Len(groups) /\ Len(groups) \in Nat
    BY <1>1, <1>3 DEF Lines
  <1> DEFINE gs == SubSeq(sorted, 1, n)
  <1>7. gs \in Seq(Group) /\ DOMAIN gs = 1..n /\ \A i \in 1..n : gs[i] = sorted[i]
    BY <1>3, <1>6
  <1> HIDE DEF gs
  <1> DEFINE q == [i \in 1..n |-> p[i]]
  <1>8. 1..n \subseteq DOMAIN groups
    BY <1>6
  <1>9. /\ q \in [1..n -> DOMAIN groups]
        /\ \A i, j \in 1..n : i # j => q[i] # q[j]
        /\ \A i \in 1..n : gs[i] = groups[q[i]]
        /\ n = Len(groups) => \A k \in DOMAIN groups : \E i \in 1..n : q[i] = k
    BY <1>4, <1>5, <1>6, <1>7, <1>8
  <1>10. \A i, j \in 1..n : i < j => gs[i].size >= gs[j].size
    BY <1>3, <1>7, <1>8
  <1>11. /\ report'.groups = gs /\ report'.complete = (n = Len(groups)) /\ report'.at = now
         /\ report'.missing = missing /\ report'.collisions = collisions
    BY <1>2, <1>3 DEF gs
  <1> DEFINE Shows(out, r) ==
               /\ r \in [DOMAIN out -> DOMAIN groups]
               /\ \A i, j \in DOMAIN out : i # j => r[i] # r[j]
               /\ \A i \in DOMAIN out : out[i] = groups[r[i]]
               /\ n = Len(groups) => \A k \in DOMAIN groups : \E i \in DOMAIN out : r[i] = k
  <1> HIDE DEF q
  <1>12. Shows(gs, q)
    BY <1>7, <1>9
  <1>13. \E r : Shows(report'.groups, r)
    <2> HIDE DEF Shows
    <2> QED
      BY <1>11, <1>12
  <1>14. \A i, j \in DOMAIN report'.groups :
            i < j => report'.groups[i].size >= report'.groups[j].size
    BY <1>7, <1>10, <1>11
  <1> QED
    BY <1>7, <1>11, <1>13, <1>14

\* When there is no next key, the walk has passed every record that it owes.
LEMMA NothingFollows ==
    ASSUME Kept, PrintReport
    PROVE  /\ Walking /\ Reached = Due
           /\ Due' = Due /\ UNCHANGED <<standing, ever, began, now>>
           /\ pc' = "loop"
  <1> USE DEF Kept, WalkInv
  <1>1. /\ pc = "next" /\ Following(prev_key) = {} /\ pc' = "loop"
        /\ UNCHANGED <<standing, ever, began, now>>
    BY DEF PrintReport, history
  <1>2. Walking
    BY <1>1 DEF Walking
  <1>3. ASSUME NEW r \in Due PROVE r[1] <= prev_key
    <2>1. r \in standing
      BY DEF Due
    <2>2. r[1] \in Keys(allocs) /\ r[1] \in Nat
      BY <1>2, <2>1, StandingKeys
    <2>3. prev_key \in Nat
      BY KeyFacts DEF TypeOK
    <2>4. prev_key \in Keys(allocs)
      BY <1>1, <2>2 DEF Following
    <2>5. ~(r[1] > prev_key)
      BY <1>1, <2>2, <2>4 DEF Following
    <2> QED
      BY <2>2, <2>3, <2>5
  <1>4. Reached = Due
    BY <1>3 DEF Reached
  <1> QED
    BY <1>1, <1>2, <1>4 DEF Due

\* What one report says of a stack is what the walk has counted of it.
LEMMA PrintCounts ==
    ASSUME Kept, PrintReport, report'.complete, NEW s \in Traced
    PROVE  \/ /\ Count(s)' = 0 /\ Total(s)' = 0
              /\ WithStack(Due, s) = {}
           \/ \E k \in DOMAIN groups :
                 /\ groups[k].stack_id = s
                 /\ Count(s)' = groups[k].count /\ Total(s)' = groups[k].size
  <1> USE DEF Kept, WalkInv
  <1> DEFINE gs == report'.groups
  <1>1. gs \in Seq(Group)
    BY PrintedGroups
  <1>2. PICK p \in [DOMAIN gs -> DOMAIN groups] :
            /\ \A i, j \in DOMAIN gs : i # j => p[i] # p[j]
            /\ \A i \in DOMAIN gs : gs[i] = groups[p[i]]
            /\ \A k \in DOMAIN groups : \E i \in DOMAIN gs : p[i] = k
    BY PrintedGroups
  <1>3. Count(s)' = CountIn(gs, s) /\ Total(s)' = TotalIn(gs, s)
    BY DEF Count, Total, GroupsOf, CountIn, TotalIn, At
  <1> HIDE DEF gs
  <1>4. \A i, j \in DOMAIN gs : i # j => gs[i].stack_id # gs[j].stack_id
    BY <1>2 DEF GroupsInv
  <1>5. /\ At(gs, s) = {} => CountIn(gs, s) = 0 /\ TotalIn(gs, s) = 0
        /\ \A i \in At(gs, s) : CountIn(gs, s) = gs[i].count /\ TotalIn(gs, s) = gs[i].size
    BY <1>1, <1>4, StackTotals
  <1>6. CASE At(gs, s) = {}
    <2>1. ASSUME NEW r \in WithStack(Due, s) PROVE FALSE
      <3>1. r \in Reached /\ r[2].stack_id = s
        BY NothingFollows DEF WithStack
      <3>2. s >= 0
        BY DEF Traced
      <3>3. PICK k \in DOMAIN groups : groups[k].stack_id = s
        BY <3>1, <3>2, NothingFollows DEF CountedInv
      <3> QED
        BY <1>2, <1>6, <3>3 DEF At
    <2> QED
      BY <1>3, <1>5, <1>6, <2>1
  <1>7. CASE At(gs, s) # {}
    <2>1. PICK i \in At(gs, s) : i \in DOMAIN gs /\ gs[i].stack_id = s
      BY <1>7 DEF At
    <2>2. /\ p[i] \in DOMAIN groups /\ groups[p[i]].stack_id = s
          /\ Count(s)' = groups[p[i]].count /\ Total(s)' = groups[p[i]].size
      BY <1>2, <1>3, <1>5, <2>1
    <2> QED
      BY <2>2
  <1> QED
    BY <1>6, <1>7

ReportInv == StandingReported /\ QuietReportExact /\ ReportOrdered

LEMMA PrintKeeps ==
    ASSUME Kept, PrintReport
    PROVE  ReportInv'
  <1> USE DEF Kept, WalkInv
  <1>1. /\ Walking /\ Reached = Due /\ Due' = Due /\ UNCHANGED <<standing, ever, began, now>>
    BY NothingFollows
  <1>2. /\ report'.at = now /\ report'.missing = missing /\ report'.collisions = collisions
    BY PrintedGroups
  <1>3. \A s : WithStack(Due', s) = WithStack(Due, s) /\ Unread(Due') = Unread(Due)
    BY <1>1
  <1>4. StandingReported'
    <2>1. ASSUME report'.complete, NEW s \in Traced
          PROVE  /\ Count(s)' >= Cardinality(WithStack(Due, s))
                 /\ Total(s)' >= Bytes(WithStack(Due, s))
      <3>1. CASE Count(s)' = 0 /\ Total(s)' = 0 /\ WithStack(Due, s) = {}
        BY <3>1, NoRecords
      <3>2. ASSUME NEW k \in DOMAIN groups, groups[k].stack_id = s,
                   Count(s)' = groups[k].count, Total(s)' = groups[k].size
            PROVE  /\ Count(s)' >= Cardinality(WithStack(Due, s))
                   /\ Total(s)' >= Bytes(WithStack(Due, s))
        BY <1>1, <3>2 DEF CountedInv
      <3> QED
        BY <2>1, <3>1, <3>2, PrintCounts
    <2> QED
      BY <1>3, <2>1 DEF StandingReported, Complete
  <1>5. QuietReportExact'
    <2>1. ASSUME report'.complete, Quiet, NEW s \in Traced
          PROVE  /\ Count(s)' = Cardinality(WithStack(Due, s))
                 /\ Total(s)' = Bytes(WithStack(Due, s))
      <3>1. CASE Count(s)' = 0 /\ Total(s)' = 0 /\ WithStack(Due, s) = {}
        BY <3>1, NoRecords
      <3>2. ASSUME NEW k \in DOMAIN groups, groups[k].stack_id = s,
                   Count(s)' = groups[k].count, Total(s)' = groups[k].size
            PROVE  /\ Count(s)' = Cardinality(WithStack(Due, s))
                   /\ Total(s)' = Bytes(WithStack(Due, s))
        BY <1>1, <2>1, <3>2 DEF QuietInv
      <3> QED
        BY <2>1, <3>1, <3>2, PrintCounts
    <2>2. ASSUME Quiet
          PROVE  /\ report'.missing = Cardinality(Unread(Due))
                 /\ report'.collisions = Cardinality(WithStack(Due, -EEXIST))
      BY <1>1, <1>2, <2>2 DEF QuietInv
    <2>3. ever' = standing' /\ report'.at = began' => Quiet
      BY <1>1, <1>2 DEF Quiet
    <2> QED
      BY <1>3, <2>1, <2>2, <2>3 DEF QuietReportExact, Complete
  <1>6. ReportOrdered'
    <2> DEFINE gs == report'.groups
    <2>1. gs \in Seq(Group) /\ \A i, j \in DOMAIN gs : i < j => gs[i].size >= gs[j].size
      BY PrintedGroups
    <2>2. PICK p \in [DOMAIN gs -> DOMAIN groups] :
              /\ \A i, j \in DOMAIN gs : i # j => p[i] # p[j]
              /\ \A i \in DOMAIN gs : gs[i] = groups[p[i]]
      BY PrintedGroups
    <2> HIDE DEF gs
    <2>3. \A i, j \in DOMAIN gs : i < j => i # j
      BY <2>1
    <2>4. \A i, j \in DOMAIN gs :
              i < j => gs[i].stack_id # gs[j].stack_id /\ gs[i].size >= gs[j].size
      BY <2>1, <2>2, <2>3 DEF GroupsInv
    <2>5. \A i \in DOMAIN gs : WithStack(ever', gs[i].stack_id) # {}
      BY <1>1, <2>2 DEF GroupsInv
    <2> QED
      BY <2>4, <2>5 DEF ReportOrdered, gs
  <1> QED
    BY <1>4, <1>5, <1>6 DEF ReportInv

\* Until the next round begins, neither the report nor what it is about changes.
LEMMA ReportStays ==
    ASSUME [Next]_vars, ~PrintReport, Printed'
    PROVE  Printed /\ UNCHANGED <<report, standing, ever, began>>
  <1>1. pc' = "loop" /\ report' # None
    BY DEF Printed
  <1>2. CASE EnterRecord \/ RemoveRecord
    <2>1. UNCHANGED <<pc, report, began>>
      BY <1>2 DEF EnterRecord, RemoveRecord
    <2>2. ~Walking
      BY <1>1, <2>1 DEF Walking
    <2>3. UNCHANGED <<standing, ever>>
      BY <1>2, <2>2 DEF EnterRecord, RemoveRecord
    <2> QED
      BY <1>1, <2>1, <2>3 DEF Printed
  <1>3. CASE Tick \/ sig_handler \/ UNCHANGED vars
    <2>1. UNCHANGED <<pc, report, standing, ever, began>>
      BY <1>3 DEF Tick, sig_handler, vars, history
    <2> QED
      BY <1>1, <2>1 DEF Printed
  <1>4. CASE LoopTest \/ Sleep \/ get_next_key \/ lookup_elem \/ WalkError
    BY <1>1, <1>4 DEF LoopTest, Sleep, get_next_key, lookup_elem, WalkError
  <1> QED
    BY <1>2, <1>3, <1>4 DEF Next, Reader, World

LEMMA ReportStep ==
    ASSUME Kept, ReportInv, [Next]_vars
    PROVE  ReportInv'
  <1>1. CASE PrintReport
    BY <1>1, PrintKeeps
  <1>2. CASE ~PrintReport /\ Printed'
    <2>1. Printed /\ UNCHANGED <<report, standing, ever, began>>
      BY <1>2, ReportStays
    <2>2. StandingReported' /\ QuietReportExact'
      BY <2>1 DEF ReportInv, StandingReported, QuietReportExact, Complete, Printed,
                  Count, Total, GroupsOf, WithStack, Due, Unread
    <2>3. ReportOrdered'
      BY <2>1 DEF ReportInv, ReportOrdered, WithStack
    <2> QED
      BY <2>2, <2>3 DEF ReportInv
  <1>3. CASE ~Printed'
    BY <1>3 DEF ReportInv, StandingReported, QuietReportExact, ReportOrdered, Complete
  <1> QED
    BY <1>1, <1>2, <1>3

\* What holds of every report holds in every state.
LEMMA ReportsKept == Spec => []ReportInv
  <1>1. Init => Kept /\ ReportInv
    <2>1. Init => ~Printed
      BY DEF Init, Printed
    <2> QED
      BY <2>1, TypeInit, InvInit
         DEF Kept, ReportInv, StandingReported, QuietReportExact, ReportOrdered, Complete
  <1>2. Kept /\ ReportInv /\ [Next]_vars => (Kept /\ ReportInv)'
    BY TypeStep, WalkStep, ReportStep DEF Kept
  <1>3. Kept /\ ReportInv => ReportInv
    OBVIOUS
  <1> QED
    BY <1>1, <1>2, <1>3, PTL DEF Spec

\* Whatever the process allocates and frees while print_outstanding_allocs walks
\* the map, and although the walk starts again when the key it stands on is gone,
\* an allocation that was old enough and outstanding all the time is in the
\* report, in the count and in the bytes of its stack.
THEOREM StandingIsReported == Spec => []StandingReported
  <1>1. ReportInv => StandingReported
    BY DEF ReportInv
  <1> QED
    BY <1>1, ReportsKept, PTL

\* If nothing moves during the walk, the report is exact: the counts and the bytes
\* of each stack, and the "stack traces could not be displayed" of both kinds.
THEOREM QuietIsExact == Spec => []QuietReportExact
  <1>1. ReportInv => QuietReportExact
    BY DEF ReportInv
  <1> QED
    BY <1>1, ReportsKept, PTL

\* Each stack is printed once and the largest first, for any number of stacks,
\* whatever order qsort gives to stacks of one size, and only for allocations
\* that the process had during the walk.
THEOREM ReportsOrdered == Spec => []ReportOrdered
  <1>1. ReportInv => ReportOrdered
    BY DEF ReportInv
  <1> QED
    BY <1>1, ReportsKept, PTL

\* Without a signal, main ends only after as many rounds as the command line asked
\* for, of which an int has kept the low bits.
THEOREM RoundsKept == Spec => []RoundsAsAsked
  <1>1. TypeOK /\ WalkInv => RoundsAsAsked
    <2> SUFFICES ASSUME TypeOK, RoundsInv, pc = "done", ~exiting
                 PROVE  asked > 0 /\ rounds = asked % (2 * IntSize)
      BY DEF WalkInv, RoundsAsAsked
    <2>1. nr_intervals = 0 /\ rounds \in Nat
      BY DEF RoundsInv, TypeOK
    <2> QED
      BY <2>1 DEF RoundsInv
  <1> QED
    BY <1>1, TypesKept, WalkInductive, PTL
=============================================================================
