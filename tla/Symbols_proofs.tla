--------------------------- MODULE Symbols_proofs ---------------------------
(***************************************************************************)
(* Proofs about the picture of the address space, for every set of files,  *)
(* mappings and addresses and every number of changes.  Until a file is met *)
(* whose symbols cannot be read to their end: what stands is found, what is *)
(* answered was true once, and names stay.                                 *)
(***************************************************************************)
EXTENDS Symbols, SequenceTheorems, WellFoundedInduction, TLAPS

-----------------------------------------------------------------------------
(* Lookups. *)

\* A set of numbers that is not empty has a least one.
LEMMA LeastExists ==
    ASSUME NEW S, S \subseteq Nat, S # {}
    PROVE  \E n \in S : \A m \in S : n <= m
  <1>1. PICK n \in S : \A m \in S : ~ (<<m, n>> \in OpToRel(<, Nat))
    BY NatLessThanWellFounded, WFMin
  <1>2. \A m \in S : ~(m < n)
    BY <1>1 DEF OpToRel
  <1> QED
    BY <1>2

\* Min takes it.
LEMMA MinFacts ==
    ASSUME NEW S, S \subseteq Nat, S # {}
    PROVE  Min(S) \in S
  <1>1. PICK n \in S : \A m \in S : n <= m
    BY LeastExists
  <1> QED
    BY <1>1 DEF Min

\* The dsos with a range around a, and those ranges of one dso.
Hits(syms, a) ==
    {i \in 1..Len(syms) : \E j \in DOMAIN syms[i].ranges : InRange(syms[i].ranges[j], a)}
RangeHits(dso, a) == {j \in 1..Len(dso.ranges) : InRange(dso.ranges[j], a)}

\* The fields of a dso.
LEMMA TypeOfDso ==
    ASSUME NEW dso \in Dso
    PROVE  /\ dso.name \in Name /\ dso.ranges \in Seq(Mappings) /\ dso.bias \in Nat
           /\ dso.type \in {"EXEC", "DYN", "VDSO", "UNKNOWN"} /\ dso.freed \in BOOLEAN
           /\ dso.syms \subseteq Symbol
           /\ DOMAIN dso.ranges = 1..Len(dso.ranges) /\ Len(dso.ranges) \in Nat
  <1>1. dso.ranges \in Seq(Mappings)
    BY DEF Dso
  <1> QED
    BY <1>1 DEF Dso

\* The files at a path.
LEMMA TypeOfFiles ==
    ASSUME NEW p \in Paths, NEW v \in DOMAIN Elf[p]
    PROVE  /\ v \in 1..Len(Elf[p]) /\ Len(Elf[p]) \in Nat
           /\ Elf[p][v].bias \in Nat /\ Elf[p][v].symbols \subseteq Symbol
           /\ Elf[p][v].type \in {"VDSO", "anon"} => Len(Elf[p]) = 1
           /\ Elf[p][v].type = "VDSO" => Elf[p][v].bias = 0
  <1>1. Elf[p] \in Seq(ElfFile)
    BY FilesAssumption
  <1>2. v \in 1..Len(Elf[p]) /\ Len(Elf[p]) \in Nat
    BY <1>1
  <1>3. Elf[p][v] \in ElfFile
    BY <1>1, <1>2, ElementOfSeq
  <1> QED
    BY <1>2, <1>3, FilesAssumption DEF ElfFile

\* The fields of a mapping.
LEMMA TypeOfMapping ==
    ASSUME NEW m \in Mappings
    PROVE  /\ m.name \in Paths /\ m.version \in DOMAIN Elf[m.name] /\ m.exec \in BOOLEAN
           /\ m.start \in Nat /\ m.end \in Nat /\ m.file_off \in Nat /\ m.start < m.end
  BY MappingsAssumption

\* syms__find_dso as a formula over the sets of hits.
LEMMA FindFormula ==
    ASSUME NEW syms \in Seq(Dso), NEW a
    PROVE  syms__find_dso(syms, a) =
               IF Hits(syms, a) = {} THEN None
               ELSE LET i == Min(Hits(syms, a))
                        j == Min(RangeHits(syms[i], a))
                    IN  [dso |-> i, offset |-> Offset(syms[i], syms[i].ranges[j], a)]
  <1> DEFINE H == Hits(syms, a)
             i == IF H # {} THEN Min(H) ELSE 0
             R == RangeHits(syms[i], a)
             j == IF R # {} THEN Min(R) ELSE 0
  <1>1. syms__find_dso(syms, a) =
            IF i = 0 THEN None
            ELSE [dso |-> i, offset |-> Offset(syms[i], syms[i].ranges[j], a)]
    BY DEF syms__find_dso, SelectInSeq, Hits, RangeHits
  <1>2. CASE H = {}
    BY <1>1, <1>2
  <1>3. CASE H # {}
    <2>1. H \subseteq Nat /\ H \subseteq 1..Len(syms)
      BY DEF Hits
    <2>2. i \in H /\ i = Min(H) /\ i # 0
      BY <1>3, <2>1, MinFacts
    <2>3. syms[i] \in Dso
      BY <2>1, <2>2, ElementOfSeq
    <2>4. R # {}
      BY <2>2, <2>3, TypeOfDso DEF Hits, RangeHits
    <2> QED
      BY <1>1, <1>3, <2>2, <2>4
  <1> QED
    BY <1>2, <1>3

\* What is found is a range around the address, and its dso; nothing is found
\* only where there is no such range.
LEMMA FindFacts ==
    ASSUME NEW syms \in Seq(Dso), NEW a \in Nat
    PROVE  LET at == syms__find_dso(syms, a) IN
           \/ /\ at = None
              /\ \A i \in DOMAIN syms : \A j \in DOMAIN syms[i].ranges :
                     ~InRange(syms[i].ranges[j], a)
           \/ /\ at # None /\ at.dso \in 1..Len(syms) /\ at.offset \in Int
              /\ \E j \in DOMAIN syms[at.dso].ranges :
                     /\ InRange(syms[at.dso].ranges[j], a)
                     /\ at.offset = Offset(syms[at.dso], syms[at.dso].ranges[j], a)
  <1> DEFINE H == Hits(syms, a)
             i == Min(H)
             R == RangeHits(syms[i], a)
             j == Min(R)
             at == syms__find_dso(syms, a)
  <1>1. CASE H = {}
    <2>1. at = None
      BY <1>1, FindFormula
    <2>2. DOMAIN syms = 1..Len(syms)
      OBVIOUS
    <2> QED
      BY <1>1, <2>1, <2>2 DEF Hits
  <1>2. CASE H # {}
    <2>1. H \subseteq Nat /\ H \subseteq 1..Len(syms)
      BY DEF Hits
    <2>2. i \in H /\ i \in 1..Len(syms)
      BY <1>2, <2>1, MinFacts
    <2>3. syms[i] \in Dso
      BY <2>2, ElementOfSeq
    <2>4. R # {} /\ R \subseteq Nat
      <3>1. DOMAIN syms[i].ranges = 1..Len(syms[i].ranges)
        BY <2>3, TypeOfDso
      <3>2. \E k \in DOMAIN syms[i].ranges : InRange(syms[i].ranges[k], a)
        BY <2>2 DEF Hits
      <3> QED
        BY <3>1, <3>2 DEF RangeHits
    <2>5. j \in R
      BY <2>4, MinFacts
    <2>6. j \in DOMAIN syms[i].ranges /\ InRange(syms[i].ranges[j], a)
      BY <2>3, <2>5, TypeOfDso DEF RangeHits
    <2>7. syms[i].ranges[j] \in Mappings
      BY <2>3, <2>6, TypeOfDso
    <2>8. at = [dso |-> i, offset |-> Offset(syms[i], syms[i].ranges[j], a)]
      BY <1>2, FindFormula
    <2>9. Offset(syms[i], syms[i].ranges[j], a) \in Int
      <3>1. \A m \in Mappings, b \in Nat : a - m.start + m.file_off + b \in Int
        BY TypeOfMapping
      <3>2. syms[i].bias \in Nat
        BY <2>3, TypeOfDso
      <3> QED
        BY <2>7, <3>1, <3>2 DEF Offset
    <2> HIDE DEF i, j
    <2>10. at \in [dso : Nat, offset : Int]
      BY <2>2, <2>8, <2>9
    <2> QED
      BY <2>2, <2>6, <2>8, <2>9, <2>10, NoneAssumption
  <1> QED
    BY <1>1, <1>2

\* Lookups depend on the ranges, types and biases of the dsos only.
LEMMA FindSame ==
    ASSUME NEW s \in Seq(Dso), NEW t \in Seq(Dso), NEW a, Len(s) = Len(t),
           \A i \in 1..Len(s) : /\ s[i].ranges = t[i].ranges
                                /\ s[i].type = t[i].type /\ s[i].bias = t[i].bias
    PROVE  syms__find_dso(s, a) = syms__find_dso(t, a)
  <1>1. Hits(s, a) = Hits(t, a)
    BY DEF Hits
  <1> DEFINE H == Hits(s, a)
             i == Min(H)
  <1>2. CASE H = {}
    BY <1>1, <1>2, FindFormula
  <1>3. CASE H # {}
    <2>1. H \subseteq Nat /\ H \subseteq 1..Len(s)
      BY DEF Hits
    <2>2. i \in 1..Len(s)
      BY <1>3, <2>1, MinFacts
    <2>3. RangeHits(s[i], a) = RangeHits(t[i], a)
      BY <2>2 DEF RangeHits
    <2> DEFINE j == Min(RangeHits(s[i], a))
    <2>4. Offset(s[i], s[i].ranges[j], a) = Offset(t[i], t[i].ranges[j], a)
      BY <2>2 DEF Offset
    <2>5. syms__find_dso(s, a) = [dso |-> i, offset |-> Offset(s[i], s[i].ranges[j], a)]
      BY <1>3, FindFormula
    <2>6. syms__find_dso(t, a) = [dso |-> i, offset |-> Offset(t[i], t[i].ranges[j], a)]
      BY <1>1, <1>3, <2>3, FindFormula
    <2> QED
      BY <2>4, <2>5, <2>6
  <1> QED
    BY <1>2, <1>3

\* dso__find_sym finds a symbol of the table around the offset, or nothing.
LEMMA FindSymFacts ==
    ASSUME NEW syms, syms \subseteq Symbol, NEW offset \in Int
    PROVE  \/ FindSym(syms, offset) = None
           \/ \E s \in syms :
                /\ FindSym(syms, offset) = [symbol |-> s, offset |-> offset - s.start]
                /\ s.start \in Nat /\ s.size \in Nat
                /\ offset - s.start \in 0..(s.size - 1)
  <1> DEFINE below == {s \in syms : s.start <= offset}
             last == CHOOSE s \in below : \A t \in below : t.start <= s.start
  <1>1. CASE below = {}
    BY <1>1 DEF FindSym
  <1>2. CASE below # {}
    <2> DEFINE gaps == {offset - s.start : s \in below}
    <2>1. \A s \in below : s.start \in Nat /\ s.size \in Nat /\ s.start <= offset
      BY DEF Symbol
    <2>2. gaps \subseteq Nat /\ gaps # {}
      <3> HIDE DEF below
      <3>1. \A s \in below : offset - s.start \in Nat
        BY <2>1
      <3> QED
        BY <1>2, <3>1
    <2>3. PICK g \in gaps : \A h \in gaps : g <= h
      <3> HIDE DEF gaps
      <3> QED
        BY <2>2, LeastExists
    <2>4. PICK s \in below : g = offset - s.start
      BY <2>3
    <2>5. ASSUME NEW t \in below PROVE t.start <= s.start
      <3>1. g <= offset - t.start
        BY <2>3
      <3>2. t.start \in Nat /\ s.start \in Nat
        BY <2>1
      <3> QED
        BY <2>4, <3>1, <3>2
    <2>6. last \in below
      BY <2>4, <2>5
    <2>7. last \in syms /\ last.start \in Nat /\ last.size \in Nat /\ last.start <= offset
      BY <2>1, <2>6
    <2>8. FindSym(syms, offset) = IF below = {} \/ offset >= last.start + last.size THEN None
                                  ELSE [symbol |-> last, offset |-> offset - last.start]
      BY DEF FindSym
    <2> HIDE DEF last, below
    <2>9. CASE offset >= last.start + last.size
      BY <2>8, <2>9
    <2>10. CASE ~(offset >= last.start + last.size)
      <3>1. FindSym(syms, offset) = [symbol |-> last, offset |-> offset - last.start]
        BY <1>2, <2>8, <2>10
      <3>2. offset - last.start \in 0..(last.size - 1)
        BY <2>7, <2>10
      <3> QED
        BY <2>7, <3>1, <3>2
    <2> QED
      BY <2>9, <2>10
  <1> QED
    BY <1>1, <1>2

-----------------------------------------------------------------------------
(* What the actions make of a dso. *)

\* The type of a name is unknown or that of the file at its path.
LEMMA TypeOfName ==
    ASSUME TypeOK, NEW name \in Name
    PROVE  /\ name.path \in Paths /\ name.gone \in BOOLEAN
           /\ disk[name.path] \in DOMAIN Elf[name.path] /\ disk[name.path] \in Nat
           /\ get_elf_type(name) \in {"EXEC", "DYN", "VDSO", "UNKNOWN"}
           /\ get_elf_type(name) \in {"UNKNOWN", OnDisk(name).type}
           /\ name.gone => get_elf_type(name) = "UNKNOWN"
  <1>1. /\ name.path \in Paths /\ name.gone \in BOOLEAN
        /\ disk[name.path] \in DOMAIN Elf[name.path] /\ disk[name.path] \in Nat
    BY DEF Name, TypeOK
  <1>2. CASE is_vdso(name)
    <2>1. 1 \in DOMAIN Elf[name.path]
      BY <1>1, FilesAssumption
    <2>2. Len(Elf[name.path]) = 1
      BY <1>1, <1>2, <2>1, TypeOfFiles DEF is_vdso
    <2>3. disk[name.path] = 1
      BY <1>1, <2>2, TypeOfFiles
    <2> QED
      BY <1>1, <1>2, <2>3 DEF get_elf_type, is_vdso, OnDisk
  <1>3. CASE ~is_vdso(name)
    BY <1>1, <1>3 DEF get_elf_type, Opens
  <1> QED
    BY <1>2, <1>3

\* A range and the type of its name are added to a dso, the rest is left.
LEMMA ExtendedFacts ==
    ASSUME TypeOK, NEW old \in Dso, NEW m \in Mappings
    PROVE  LET new == Extended(old, m) IN
           /\ new \in Dso
           /\ new.name = old.name /\ new.syms = old.syms /\ new.freed = old.freed
           /\ new.type = get_elf_type(old.name) /\ new.bias = old.bias
           /\ new.ranges = Append(old.ranges, m)
  <1> DEFINE new == Extended(old, m)
             type == get_elf_type(old.name)
  <1>1. type \in {"EXEC", "DYN", "VDSO", "UNKNOWN"}
    BY TypeOfDso, TypeOfName
  <1>2. new = [old EXCEPT !.ranges = Append(old.ranges, m), !.type = type]
    BY DEF Extended, add_range
  <1>3. Append(old.ranges, m) \in Seq(Mappings)
    BY TypeOfDso, AppendProperties
  <1> HIDE DEF new, type
  <1>4. [old EXCEPT !.ranges = Append(old.ranges, m)] \in Dso
    BY <1>3 DEF Dso
  <1> QED
    BY <1>1, <1>2, <1>4 DEF Dso, new, type

\* A dso for a file seen first.
LEMMA TypeOfNewDso ==
    ASSUME NEW name \in Name
    PROVE  NewDso(name) \in Dso
  <1>1. <<>> \in Seq(Mappings)
    OBVIOUS
  <1> QED
    BY <1>1 DEF NewDso, Dso

\* The first of the lines read ahead and the rest of them.
LEMMA LineFacts ==
    ASSUME TypeOK, lines # <<>>
    PROVE  /\ Head(lines) \in Line /\ Head(lines).map \in Mappings /\ Head(lines).name \in Name
           /\ 1 \in DOMAIN lines /\ Head(lines) = lines[1]
           /\ Tail(lines) \in Seq(Line)
           /\ \A i \in DOMAIN Tail(lines) : i + 1 \in DOMAIN lines
                                           /\ Tail(lines)[i] = lines[i + 1]
           /\ \A i \in DOMAIN lines : i # 1 => i - 1 \in DOMAIN Tail(lines)
                                             /\ Tail(lines)[i - 1] = lines[i]
  <1>1. lines \in Seq(Line)
    BY DEF TypeOK
  <1>2. /\ Head(lines) \in Line /\ Head(lines) = lines[1] /\ Tail(lines) \in Seq(Line)
        /\ Len(lines) \in Nat /\ Len(lines) >= 1 /\ Len(Tail(lines)) = Len(lines) - 1
        /\ \A i \in 1..(Len(lines) - 1) : Tail(lines)[i] = lines[i + 1]
    BY <1>1, HeadTailProperties, EmptySeq, LenProperties
  <1>3. DOMAIN lines = 1..Len(lines) /\ DOMAIN Tail(lines) = 1..(Len(lines) - 1)
    BY <1>1, <1>2, LenProperties
  <1>4. Head(lines).map \in Mappings /\ Head(lines).name \in Name
    BY <1>2 DEF Line
  <1> HIDE DEF Line
  <1> QED
    BY <1>2, <1>3, <1>4

\* syms__add_dso puts the mapping into the dso of its name or into a new one at
\* the end, and leaves the other dsos alone.
LEMMA AddFacts ==
    ASSUME TypeOK, AddDso
    PROVE  LET line == Head(lines) IN
           /\ dsos' \in Seq(Dso) /\ DOMAIN dsos \subseteq DOMAIN dsos'
           /\ \E i \in DOMAIN dsos', old \in Dso :
                /\ dsos'[i] = Extended(old, line.map) /\ old.name = line.name
                /\ \/ i \in DOMAIN dsos /\ old = dsos[i]
                   \/ i \notin DOMAIN dsos /\ old = NewDso(line.name)
                /\ \A k \in DOMAIN dsos' : k # i => /\ k \in DOMAIN dsos
                                                    /\ dsos'[k] = dsos[k]
                /\ i \in Nat /\ i # 0
                /\ text' = IF get_elf_type(line.name) # "DYN" THEN 0 ELSE i
  <1> DEFINE m == Head(lines).map
             name == Head(lines).name
  <1>0. dsos \in Seq(Dso) /\ m \in Mappings /\ name \in Name
    BY LineFacts DEF AddDso, TypeOK
  <1> HIDE DEF m, name
  <1> DEFINE I == {k \in 1..Len(dsos) : dsos[k].name = name}
             i == IF I # {} THEN Min(I) ELSE 0
  <1>1. /\ dsos' = IF i = 0 THEN Append(dsos, Extended(NewDso(name), m))
                            ELSE [dsos EXCEPT ![i] = Extended(@, m)]
        /\ text' = IF get_elf_type(name) # "DYN" THEN 0
                   ELSE IF i = 0 THEN Len(dsos) + 1 ELSE i
    BY DEF AddDso, SelectInSeq, m, name
  <1>2. DOMAIN dsos = 1..Len(dsos) /\ Len(dsos) \in Nat
    BY <1>0
  <1>3. CASE I = {}
    <2> DEFINE old == NewDso(name)
               new == Extended(old, m)
    <2>1. old \in Dso /\ old.name = name
      BY <1>0, TypeOfNewDso DEF NewDso
    <2>2. new \in Dso
      BY <1>0, <2>1, ExtendedFacts
    <2>3. dsos' = Append(dsos, new)
      BY <1>1, <1>3
    <2> HIDE DEF new, old
    <2>4. /\ dsos' \in Seq(Dso) /\ Len(dsos') = Len(dsos) + 1
          /\ \A k \in 1..Len(dsos) : dsos'[k] = dsos[k]
          /\ dsos'[Len(dsos) + 1] = new
      BY <1>0, <2>2, <2>3, AppendProperties
    <2>5. DOMAIN dsos' = 1..(Len(dsos) + 1)
      BY <2>4
    <2>6. Len(dsos) + 1 \in DOMAIN dsos' /\ Len(dsos) + 1 \notin DOMAIN dsos
      BY <1>2, <2>5
    <2>7. \A k \in DOMAIN dsos' : k # Len(dsos) + 1 => k \in DOMAIN dsos
      BY <1>2, <2>5
    <2>8. DOMAIN dsos \subseteq DOMAIN dsos'
      BY <1>2, <2>5
    <2>9. text' = IF get_elf_type(name) # "DYN" THEN 0 ELSE Len(dsos) + 1
      BY <1>1, <1>3
    <2>10. Len(dsos) + 1 \in Nat /\ Len(dsos) + 1 # 0
      BY <1>2
    <2> QED
      BY <1>2, <2>1, <2>4, <2>6, <2>7, <2>8, <2>9, <2>10 DEF new, old, m, name
  <1>4. CASE I # {}
    <2>1. I \subseteq Nat /\ I \subseteq 1..Len(dsos)
      OBVIOUS
    <2>2. i \in I
      <3> HIDE DEF I
      <3> QED
        BY <1>4, <2>1, MinFacts
    <2>3. i \in 1..Len(dsos) /\ dsos[i].name = name /\ dsos[i] \in Dso
      BY <1>0, <2>2, ElementOfSeq
    <2> DEFINE new == Extended(dsos[i], m)
    <2>4. new \in Dso
      BY <1>0, <2>3, ExtendedFacts
    <2>5. dsos' = [dsos EXCEPT ![i] = new] /\ i \in Nat /\ i # 0
          /\ text' = IF get_elf_type(name) # "DYN" THEN 0 ELSE i
      <3>1. i \in Nat /\ i # 0
        BY <1>2, <2>3
      <3> HIDE DEF i, I
      <3> QED
        BY <1>1, <3>1
    <2> HIDE DEF new, i
    <2>6. /\ dsos' \in Seq(Dso) /\ Len(dsos') = Len(dsos)
          /\ \A k \in 1..Len(dsos) : dsos'[k] = IF k = i THEN new ELSE dsos[k]
      BY <1>0, <2>3, <2>4, <2>5, ExceptSeq
    <2>7. DOMAIN dsos' = DOMAIN dsos
      BY <2>5
    <2> QED
      BY <1>2, <2>3, <2>5, <2>6, <2>7 DEF new, m, name
  <1> QED
    BY <1>3, <1>4

\* Loading the table touches nothing that lookups of the dso depend on, and
\* nothing at all where symbols have been read before.
LEMMA LoadFacts ==
    ASSUME TypeOK, NEW dso \in Dso
    PROVE  LET new == WithTable(dso) IN
           /\ new \in Dso
           /\ new.name = dso.name /\ new.ranges = dso.ranges
           /\ new.type = dso.type /\ new.bias = dso.bias
           /\ dso.syms # {} => new = dso
           /\ dso.freed => new.freed
           /\ new.syms # {} => \/ new = dso
                               \/ /\ dso.syms = {} /\ dso.type # "UNKNOWN"
                                  /\ new.syms \subseteq OnDisk(dso.name).symbols
  <1> DEFINE file == OnDisk(dso.name)
             table == Table(file)
  <1>1. table \subseteq file.symbols
    BY DEF Table
  <1>2. file.symbols \subseteq Symbol
    BY TypeOfDso, TypeOfName, TypeOfFiles DEF OnDisk
  <1>3. table \subseteq Symbol
    BY <1>1, <1>2
  <1> HIDE DEF table, file
  <1>4. CASE dso.syms # {}
    BY <1>4 DEF WithTable, NeedsTable
  <1>5. CASE dso.syms = {} /\ ~Loadable(dso)
    <2>1. WithTable(dso) = [dso EXCEPT !.syms = {}]
      BY <1>5 DEF WithTable, NeedsTable
    <2> QED
      BY <1>5, <2>1 DEF Dso
  <1>6. CASE dso.syms = {} /\ Loadable(dso) /\ file.damaged
    <2>1. WithTable(dso) = [dso EXCEPT !.freed = TRUE]
      BY <1>6 DEF WithTable, NeedsTable, file
    <2> QED
      BY <1>6, <2>1 DEF Dso
  <1>7. CASE dso.syms = {} /\ Loadable(dso) /\ ~file.damaged
    <2>1. WithTable(dso) = [dso EXCEPT !.syms = table]
      BY <1>7 DEF WithTable, NeedsTable, file, table
    <2>2. [dso EXCEPT !.syms = table] \in Dso
      BY <1>3 DEF Dso
    <2>3. dso.type # "UNKNOWN"
      BY <1>7 DEF Loadable
    <2> QED
      BY <1>1, <1>7, <2>1, <2>2, <2>3 DEF Dso, file
  <1> QED
    BY <1>4, <1>5, <1>6, <1>7

\* The step from dsos to those with the table of dso i read.
Loads(i) == dsos' = [dsos EXCEPT ![i] = WithTable(dsos[i])]

\* It leaves all other dsos and every lookup, and repairs nothing that was freed.
LEMMA LoadsFacts ==
    ASSUME TypeOK, NEW i \in 1..Len(dsos), Loads(i)
    PROVE  /\ i \in DOMAIN dsos /\ dsos[i] \in Dso
           /\ dsos' \in Seq(Dso) /\ DOMAIN dsos' = DOMAIN dsos
           /\ \A k \in DOMAIN dsos :
                  dsos'[k] = IF k = i THEN WithTable(dsos[i]) ELSE dsos[k]
           /\ \A a \in Addrs : syms__find_dso(dsos', a) = syms__find_dso(dsos, a)
           /\ Intact' => Intact
  <1> DEFINE new == WithTable(dsos[i])
  <1>1. dsos \in Seq(Dso) /\ DOMAIN dsos = 1..Len(dsos) /\ dsos[i] \in Dso
    BY ElementOfSeq DEF TypeOK
  <1>2. /\ new \in Dso /\ new.ranges = dsos[i].ranges
        /\ new.type = dsos[i].type /\ new.bias = dsos[i].bias
        /\ dsos[i].freed => new.freed
    BY <1>1, LoadFacts
  <1>3. dsos' = [dsos EXCEPT ![i] = new]
    BY DEF Loads
  <1> HIDE DEF new
  <1>4. /\ dsos' \in Seq(Dso) /\ Len(dsos') = Len(dsos)
        /\ \A k \in 1..Len(dsos) : dsos'[k] = IF k = i THEN new ELSE dsos[k]
    BY <1>1, <1>2, <1>3, ExceptSeq
  <1>5. \A a \in Addrs : syms__find_dso(dsos', a) = syms__find_dso(dsos, a)
    <2>1. \A k \in 1..Len(dsos) : /\ dsos[k].ranges = dsos'[k].ranges
                                  /\ dsos[k].type = dsos'[k].type
                                  /\ dsos[k].bias = dsos'[k].bias
      BY <1>2, <1>4
    <2> QED
      BY <1>1, <1>4, <2>1, FindSame
  <1>6. DOMAIN dsos' = DOMAIN dsos
    BY <1>3
  <1>7. Intact' => Intact
    BY <1>1, <1>2, <1>4, <1>6 DEF Intact
  <1> QED
    BY <1>1, <1>4, <1>5, <1>6, <1>7 DEF new

\* What a lookup finds, and the result that a dso in order gives.
Found(addr) == syms__find_dso(dsos, addr)
Brought(addr) ==
    LET dso == WithTable(dsos[Found(addr).dso])
    IN  [dso |-> dso.name, sym |-> FindSym(dso.syms, Found(addr).offset)]

\* The three ways of a lookup: in freed fields, without a range, in a range.
Lost(addr) ==
    /\ ~Intact /\ answer' = [a \in Addrs |-> Garbage]
    /\ \E i \in 1..Len(dsos) : Loads(i)
Missed(addr) ==
    /\ Found(addr) = None /\ dsos' = dsos
    /\ answer' = [answer EXCEPT ![addr] = None]
Hit(addr) ==
    /\ Found(addr) # None /\ Found(addr).dso \in 1..Len(dsos) /\ Loads(Found(addr).dso)
    /\ IsResult(Brought(addr))
    /\ answer' = IF WithTable(dsos[Found(addr).dso]).freed THEN [a \in Addrs |-> Garbage]
                 ELSE [answer EXCEPT ![addr] = Brought(addr)]

\* There is no fourth.
LEMMA ResolveFacts ==
    ASSUME TypeOK, NEW addr \in Addrs, Resolve(addr)
    PROVE  Lost(addr) \/ Missed(addr) \/ Hit(addr)
  <1>0. dsos \in Seq(Dso)
    BY DEF TypeOK
  <1>1. CASE ~Intact
    <2>1. PICK i \in DOMAIN dsos : dsos' = [dsos EXCEPT ![i] = WithTable(@)]
      BY <1>1 DEF Resolve
    <2>2. i \in 1..Len(dsos) /\ Loads(i)
      BY <1>0, <2>1 DEF Loads
    <2> QED
      BY <1>1, <2>2 DEF Resolve, Lost
  <1>2. CASE Intact /\ Found(addr) = None
    BY <1>2 DEF Resolve, Found, Missed
  <1>3. CASE Intact /\ Found(addr) # None
    <2> DEFINE at == syms__find_dso(dsos, addr)
               i == at.dso
               new == WithTable(dsos[i])
    <2>1. addr \in Nat
      BY AddressAssumption
    <2>2. i \in 1..Len(dsos) /\ at.offset \in Int
      BY <1>0, <1>3, <2>1, FindFacts DEF Found
    <2>3. dsos[i] \in Dso
      BY <1>0, <2>2, ElementOfSeq
    <2>4. new \in Dso
      BY <2>3, LoadFacts
    <2>5. /\ Loads(i)
          /\ answer' = IF new.freed THEN [a \in Addrs |-> Garbage]
                       ELSE [answer EXCEPT ![addr] = Brought(addr)]
      BY <1>3 DEF Resolve, Found, Brought, Loads
    <2>6. new.syms \subseteq Symbol /\ new.name \in Name
      BY <2>4, TypeOfDso
    <2>7. IsResult(Brought(addr))
      <3>1. Brought(addr) = [dso |-> new.name, sym |-> FindSym(new.syms, at.offset)]
        BY DEF Brought, Found
      <3> DEFINE found == FindSym(new.syms, at.offset)
      <3>2. found # None => /\ found = [symbol |-> found.symbol, offset |-> found.offset]
                            /\ found.symbol \in Symbol
                            /\ found.offset \in 0..(found.symbol.size - 1)
        <4> SUFFICES ASSUME found # None
                     PROVE  /\ found = [symbol |-> found.symbol, offset |-> found.offset]
                            /\ found.symbol \in Symbol
                            /\ found.offset \in 0..(found.symbol.size - 1)
          OBVIOUS
        <4>1. PICK s \in new.syms :
                /\ found = [symbol |-> s, offset |-> at.offset - s.start]
                /\ at.offset - s.start \in 0..(s.size - 1)
          BY <2>2, <2>6, FindSymFacts
        <4> HIDE DEF found
        <4> QED
          BY <2>6, <4>1
      <3> DEFINE result == Brought(addr)
      <3>3. result = [dso |-> new.name, sym |-> found]
        BY <3>1
      <3> HIDE DEF found, result, new
      <3>4. result.dso = new.name /\ result.sym = found
        BY <3>3
      <3>5. IsResult(result)
        BY <2>6, <3>2, <3>3, <3>4 DEF IsResult
      <3> QED
        BY <3>5 DEF result
    <2> QED
      BY <1>3, <2>2, <2>5, <2>7 DEF Hit, Found
  <1> QED
    BY <1>1, <1>2, <1>3

-----------------------------------------------------------------------------
(* Types. *)

\* Types at the start.
LEMMA InitTypes == Init => TypeOK
  <1> SUFFICES ASSUME Init PROVE TypeOK
    OBVIOUS
  <1>1. dsos \in Seq(Dso) /\ lines \in Seq(Line)
    BY DEF Init
  <1>2. answer = [a \in Addrs |-> answer[a]]
    BY DEF Init
  <1>3. changes \in 0..MaxChanges
    BY AddressAssumption DEF Init
  <1>4. disk \in [Paths -> Nat] /\ \A p \in Paths : disk[p] \in DOMAIN Elf[p]
    <2>1. ASSUME NEW p \in Paths PROVE 1 \in DOMAIN Elf[p]
      <3>1. Elf[p] \in Seq(ElfFile) /\ Elf[p] # <<>>
        BY FilesAssumption
      <3> HIDE DEF ElfFile
      <3> QED
        BY <3>1
    <2> QED
      BY <2>1 DEF Init
  <1> QED
    BY <1>1, <1>2, <1>3, <1>4, MappingsAssumption DEF Init, TypeOK

\* err_out leaves nothing behind.
LEMMA GiveUpTypes ==
    ASSUME TypeOK, GiveUp, UNCHANGED <<process, answer, standing, past, replaced>>
    PROVE  TypeOK'
  <1>1. dsos' \in Seq(Dso) /\ lines' \in Seq(Line)
    BY DEF GiveUp
  <1> QED
    BY <1>1 DEF TypeOK, GiveUp, process

\* No step breaks a type.
LEMMA StepTypes == TypeOK /\ [Next]_vars => TypeOK'
  <1> SUFFICES ASSUME TypeOK, [Next]_vars PROVE TypeOK'
    OBVIOUS
  <1> USE DEF TypeOK
  <1>1. ASSUME NEW m \in Mappings, Map(m) PROVE TypeOK'
    BY <1>1, AddressAssumption DEF Map, Change, loading
  <1>2. ASSUME NEW m \in Mappings, Unmap(m) PROVE TypeOK'
    BY <1>2, AddressAssumption DEF Unmap, Change, loading
  <1>3. ASSUME NEW p \in Paths, Flip(p) PROVE TypeOK'
    BY <1>3, AddressAssumption DEF Flip, Change, loading
  <1>4. ASSUME NEW p \in Paths, Replace(p) PROVE TypeOK'
    <2>1. disk' \in [Paths -> Nat]
      BY <1>4 DEF Replace
    <2>2. \A q \in Paths : disk'[q] \in DOMAIN Elf[q]
      <3>1. /\ disk' = [disk EXCEPT ![p] = disk[p] + 1] /\ disk[p] < Len(Elf[p])
            /\ disk[p] \in DOMAIN Elf[p] /\ Elf[p] \in Seq(ElfFile)
        BY <1>4, FilesAssumption DEF Replace
      <3>2. disk[p] + 1 \in DOMAIN Elf[p]
        <4> HIDE DEF ElfFile
        <4> QED
          BY <3>1
      <3> QED
        BY <3>1, <3>2
    <2>3. changes' \in 0..MaxChanges /\ replaced' \subseteq Paths
      BY <1>4, AddressAssumption DEF Replace, Change
    <2>4. UNCHANGED <<maps, alive, readable, cache, walk, lines, text, dsos, answer,
                      standing, past>>
      BY <1>4 DEF Replace, loading
    <2> QED
      BY <2>1, <2>2, <2>3, <2>4
  <1>5. CASE Exit
    <2>1. changes' \in 0..MaxChanges
      BY <1>5, AddressAssumption DEF Exit, Change
    <2> QED
      BY <1>5, <2>1 DEF Exit, loading
  <1>6. CASE OpenMaps
    BY <1>6 DEF OpenMaps, process
  <1>7. CASE ReadLine
    <2>1. PICK m \in Ahead :
            /\ walk' = m.end
            /\ lines' = IF m.exec /\ is_file_backed(m.name)
                        THEN Append(lines, [map |-> m, name |-> Shown(m)]) ELSE lines
      BY <1>7 DEF ReadLine
    <2>2. m \in Mappings /\ m.end \in Nat
      BY <2>1, TypeOfMapping DEF Ahead
    <2>3. [map |-> m, name |-> Shown(m)] \in Line
      BY <2>2, TypeOfMapping DEF Line, Name, Shown
    <2>4. lines' \in Seq(Line)
      BY <2>1, <2>3, AppendProperties
    <2> QED
      BY <1>7, <2>1, <2>2, <2>4 DEF ReadLine, process
  <1>8. CASE AddDso
    <2>1. dsos' \in Seq(Dso) /\ text' \in Nat
      BY <1>8, AddFacts
    <2>2. lines' \in Seq(Line)
      BY <1>8, LineFacts DEF AddDso
    <2> QED
      BY <1>8, <2>1, <2>2 DEF AddDso, process
  <1>9. CASE ReadText
    <2>1. CASE GiveUp
      BY <1>9, <2>1, GiveUpTypes DEF ReadText
    <2>2. CASE ~GiveUp
      <3> DEFINE file == OnDisk(dsos[text].name)
      <3>1. /\ dsos' = [dsos EXCEPT ![text].bias = file.bias]
            /\ text' = 0 /\ UNCHANGED <<cache, walk, lines>>
            /\ UNCHANGED <<process, answer, standing, past, replaced>>
        BY <1>9, <2>2 DEF ReadText
      <3>2. dsos' \in Seq(Dso)
        <4>1. CASE text \in DOMAIN dsos
          <5>1. dsos[text] \in Dso
            BY <4>1, ElementOfSeq
          <5>2. file.bias \in Nat
            BY <5>1, TypeOfDso, TypeOfName, TypeOfFiles DEF OnDisk
          <5> DEFINE new == [dsos[text] EXCEPT !.bias = file.bias]
          <5>3. new \in Dso
            BY <5>1, <5>2 DEF Dso
          <5>4. dsos' = [dsos EXCEPT ![text] = new]
            BY <3>1
          <5> HIDE DEF new
          <5> QED
            BY <4>1, <5>3, <5>4, ExceptSeq
        <4>2. CASE text \notin DOMAIN dsos
          <5>1. dsos' = dsos
            BY <3>1, <4>2
          <5> QED
            BY <5>1
        <4> QED
          BY <4>1, <4>2
      <3> QED
        BY <3>1, <3>2 DEF process
    <2> QED
      BY <2>1, <2>2
  <1>10. CASE LoadFails
    BY <1>10, GiveUpTypes DEF LoadFails
  <1>11. CASE EndOfFile
    BY <1>11 DEF EndOfFile, process
  <1>12. ASSUME NEW addr \in Addrs, Resolve(addr) PROVE TypeOK'
    <2>1. /\ dsos' \in Seq(Dso)
          /\ answer' = [a \in Addrs |-> answer'[a]]
          /\ \A a \in Addrs : answer'[a] \notin {None, Garbage} => IsResult(answer'[a])
      <3>1. CASE Lost(addr)
        BY <3>1, LoadsFacts DEF Lost
      <3>2. CASE Missed(addr)
        BY <3>2 DEF Missed
      <3>3. CASE Hit(addr)
        BY <3>3, LoadsFacts DEF Hit
      <3> QED
        BY <1>12, <3>1, <3>2, <3>3, ResolveFacts
    <2> QED
      BY <1>12, <2>1 DEF Resolve, process, loading
  <1>13. CASE UNCHANGED vars
    BY <1>13 DEF vars, process, loading
  <1> QED
    BY <1>1, <1>2, <1>3, <1>4, <1>5, <1>6, <1>7, <1>8, <1>9, <1>10, <1>11, <1>12, <1>13
    DEF Next

\* Every state of the picture is of its type.
THEOREM TypesHold == Spec => []TypeOK
  <1> QED
    BY InitTypes, StepTypes, PTL DEF Spec

-----------------------------------------------------------------------------
(* The invariant. *)

\* Before the picture is asked for there is nothing.
LEMMA InitPicture == Init => PictureInv
  <1> SUFFICES ASSUME Init PROVE PictureInv
    OBVIOUS
  <1>1. PhaseInv
    BY MappingsAssumption DEF Init, PhaseInv
  <1>2. LinesInv /\ DsosInv /\ StandingInv /\ AnswersInv
    BY DEF Init, LinesInv, DsosInv, StandingInv, AnswersInv
  <1> QED
    BY <1>1, <1>2 DEF PictureInv

\* While there is no picture nothing has been freed and no address has an
\* answer, whatever a step of the walk does to the dsos.
LEMMA NoAnswersYet ==
    ASSUME PictureInv, cache # "ready", answer' = answer
    PROVE  AnswersInv'
  <1>1. Intact
    BY DEF PictureInv, DsosInv, Intact
  <1> QED
    BY <1>1 DEF PictureInv, AnswersInv

\* Answers stay right while the dsos stay as they are.
LEMMA AnswersKept ==
    ASSUME PictureInv, UNCHANGED <<cache, dsos, answer>>
    PROVE  Intact' => AnswersInv'
  BY DEF PictureInv, Intact, AnswersInv

\* A new mapping overlaps none, so that it takes no address from those that stand.
LEMMA MapPicture ==
    ASSUME TypeOK, PictureInv, NEW m \in Mappings, Map(m) PROVE PictureInv'
  <1>1. /\ maps' = maps \cup {m} /\ past' = past \cup {m}
        /\ UNCHANGED <<disk, cache, walk, lines, text, dsos, answer, standing, replaced>>
        /\ \A n \in maps : ~Overlap(m, n)
    BY DEF Map, loading
  <1>2. PhaseInv'
    <2>1. \A n \in maps : ~Overlap(n, m)
      BY <1>1 DEF Overlap
    <2> QED
      BY <1>1, <2>1 DEF PictureInv, PhaseInv
  <1>3. LinesInv'
    BY <1>1 DEF PictureInv, LinesInv, Taken
  <1>4. DsosInv'
    BY <1>1 DEF PictureInv, DsosInv, Taken, Agrees
  <1>5. StandingInv'
    BY <1>1 DEF PictureInv, StandingInv, Recorded
  <1>6. Intact' => AnswersInv'
    BY <1>1, AnswersKept
  <1> QED
    BY <1>2, <1>3, <1>4, <1>5, <1>6 DEF PictureInv

\* Mappings that go away take nothing with them but their claim to be found.
LEMMA FewerPicture ==
    ASSUME TypeOK, PictureInv, maps' \subseteq maps, standing' \subseteq standing,
           UNCHANGED <<disk, cache, walk, lines, text, dsos, answer, past, replaced>>
    PROVE  PictureInv'
  <1>1. PhaseInv'
    BY DEF PictureInv, PhaseInv
  <1>2. LinesInv'
    BY DEF PictureInv, LinesInv, Taken
  <1>3. DsosInv'
    BY DEF PictureInv, DsosInv, Taken, Agrees
  <1>4. StandingInv'
    BY DEF PictureInv, StandingInv, Recorded
  <1>5. Intact' => AnswersInv'
    BY AnswersKept
  <1> QED
    BY <1>1, <1>2, <1>3, <1>4, <1>5 DEF PictureInv

\* A file that takes the place of another matters to no dso that has its symbols,
\* and of the others no more is said.
LEMMA ReplacePicture ==
    ASSUME TypeOK, PictureInv, NEW p \in Paths, Replace(p) PROVE PictureInv'
  <1>1. /\ disk' = [disk EXCEPT ![p] = @ + 1] /\ replaced \subseteq replaced'
        /\ UNCHANGED <<maps, cache, walk, lines, text, dsos, answer, standing, past>>
        /\ \/ p \in replaced'
           \/ /\ cache = "ready"
              /\ \A i \in DOMAIN dsos :
                     dsos[i].name = [path |-> p, gone |-> FALSE] => ~NeedsTable(dsos[i])
    BY DEF Replace, loading
  <1>2. \A q \in Paths : /\ disk[q] \in Nat /\ disk'[q] \in Nat /\ disk[q] <= disk'[q]
                         /\ q # p => disk'[q] = disk[q]
    BY <1>1 DEF TypeOK
  <1>3. PhaseInv'
    BY <1>1 DEF PictureInv, PhaseInv
  <1>4. LinesInv'
    <2>1. lines # <<>> => p \in replaced'
      BY <1>1, NoneAssumption DEF PictureInv, PhaseInv
    <2>2. \A i \in DOMAIN lines : lines[i].map \in Mappings
      <3>1. \A i \in DOMAIN lines : lines[i] \in Line
        BY ElementOfSeq, LenProperties DEF TypeOK
      <3> QED
        BY <3>1 DEF Line
    <2>3. \A i \in DOMAIN lines : lines # <<>>
      BY DEF TypeOK
    <2> QED
      BY <1>1, <1>2, <2>1, <2>2, <2>3, TypeOfMapping DEF PictureInv, LinesInv, Taken
  <1>5. DsosInv'
    <2> SUFFICES ASSUME NEW i \in DOMAIN dsos
                 PROVE  /\ \A t \in dsos[i].syms : \E v \in 1..disk'[dsos[i].name.path] :
                               t \in Elf[dsos[i].name.path][v].symbols
                        /\ \A j \in DOMAIN dsos[i].ranges :
                              ~dsos[i].name.gone /\ dsos[i].name.path \notin replaced' =>
                                  Agrees(i, dsos[i].ranges[j])'
      BY <1>1 DEF PictureInv, DsosInv, Taken
    <2>1. dsos[i] \in Dso
      BY ElementOfSeq, LenProperties DEF TypeOK
    <2>2. /\ dsos[i].name.path \in Paths /\ dsos[i].name.gone \in BOOLEAN
          /\ dsos[i].name = [path |-> dsos[i].name.path, gone |-> dsos[i].name.gone]
      BY <2>1, TypeOfDso DEF Name
    <2>3. \A t \in dsos[i].syms : \E v \in 1..disk'[dsos[i].name.path] :
              t \in Elf[dsos[i].name.path][v].symbols
      <3>1. 1..disk[dsos[i].name.path] \subseteq 1..disk'[dsos[i].name.path]
        BY <1>2, <2>2
      <3> QED
        BY <3>1 DEF PictureInv, DsosInv
    <2>4. ASSUME NEW j \in DOMAIN dsos[i].ranges,
                 ~dsos[i].name.gone, dsos[i].name.path \notin replaced'
          PROVE  Agrees(i, dsos[i].ranges[j])'
      <3>0. PICK m : m = dsos[i].ranges[j]
        OBVIOUS
      <3>1. Agrees(i, m) /\ m.name = dsos[i].name.path
        BY <1>1, <2>4, <3>0 DEF PictureInv, DsosInv
      <3>2. NeedsTable(dsos[i]) => m.version = disk'[m.name]
        <4>1. CASE m.name = p
          BY <1>1, <2>2, <2>4, <3>1, <4>1
        <4>2. CASE m.name # p
          BY <1>2, <2>2, <3>1, <4>2 DEF Agrees
        <4> QED
          BY <4>1, <4>2
      <3>3. Agrees(i, m)'
        BY <1>1, <3>1, <3>2 DEF Agrees, NeedsTable, File
      <3> QED
        BY <1>1, <3>0, <3>3
    <2> QED
      BY <2>3, <2>4
  <1>6. StandingInv'
    BY <1>1 DEF PictureInv, StandingInv, Recorded
  <1>7. Intact' => AnswersInv'
    BY <1>1, AnswersKept
  <1> QED
    BY <1>3, <1>4, <1>5, <1>6, <1>7 DEF PictureInv

\* The walk begins with nothing passed.
LEMMA OpenPicture ==
    ASSUME TypeOK, PictureInv, OpenMaps PROVE PictureInv'
  <1>1. /\ cache = "empty" /\ walk = None /\ dsos = <<>> /\ lines = <<>> /\ text = 0
        /\ UNCHANGED <<maps, lines, text, dsos, answer>>
    BY DEF OpenMaps, PictureInv, PhaseInv, process
  <1>2. \/ walk' = 0 /\ cache' = "empty" /\ standing' = maps /\ past' = maps
        \/ walk' = None /\ cache' = "failed"
    BY <1>1 DEF OpenMaps
  <1>3. PhaseInv'
    BY <1>1, <1>2, NoneAssumption DEF PictureInv, PhaseInv
  <1>4. LinesInv' /\ DsosInv'
    BY <1>1 DEF LinesInv, DsosInv
  <1>5. StandingInv'
    <2>1. CASE walk' = 0 /\ cache' = "empty" /\ standing' = maps
      <3>1. \A m \in maps : ~(m.start < 0)
        BY TypeOfMapping DEF TypeOK
      <3> QED
        BY <2>1, <3>1 DEF StandingInv
    <2>2. CASE walk' = None /\ cache' = "failed"
      BY <2>2 DEF StandingInv
    <2> QED
      BY <1>2, <2>1, <2>2
  <1>6. AnswersInv'
    BY <1>1, NoAnswersYet
  <1> QED
    BY <1>3, <1>4, <1>5, <1>6 DEF PictureInv

\* err_out leaves nothing to go wrong.
LEMMA GiveUpPicture ==
    ASSUME TypeOK, PictureInv, cache = "empty", GiveUp,
           UNCHANGED <<process, answer, standing, past, replaced>>
    PROVE  PictureInv'
  <1>1. /\ walk' = None /\ lines' = <<>> /\ text' = 0 /\ cache' = "failed" /\ dsos' = <<>>
        /\ UNCHANGED <<maps, answer, standing, past>>
    BY DEF GiveUp, process
  <1>2. PhaseInv'
    BY <1>1 DEF PictureInv, PhaseInv
  <1>3. LinesInv' /\ DsosInv' /\ StandingInv'
    BY <1>1 DEF LinesInv, DsosInv, StandingInv
  <1>4. AnswersInv'
    BY <1>1, NoAnswersYet
  <1> QED
    BY <1>2, <1>3, <1>4 DEF PictureInv

\* At the end of the file the walk has passed all that stands.
LEMMA EndPicture ==
    ASSUME TypeOK, PictureInv, EndOfFile PROVE PictureInv'
  <1>1. /\ walk # None /\ Ahead = {} /\ cache = "empty" /\ walk' = None /\ cache' = "ready"
        /\ lines = <<>> /\ text = 0
        /\ UNCHANGED <<maps, disk, lines, text, dsos, answer, standing, past, replaced>>
    BY DEF EndOfFile, PictureInv, PhaseInv, process
  <1>2. PhaseInv'
    BY <1>1 DEF PictureInv, PhaseInv
  <1>3. LinesInv'
    BY <1>1 DEF LinesInv
  <1>4. DsosInv'
    BY <1>1 DEF PictureInv, DsosInv, Taken, Agrees
  <1>5. StandingInv'
    <2>1. \A m \in standing : m \in maps /\ m.start \in Nat /\ walk \in Nat
      BY <1>1, TypeOfMapping DEF TypeOK
    <2>2. \A m \in standing : m.start < walk
      BY <1>1, <2>1 DEF Ahead
    <2> QED
      BY <1>1, <2>2 DEF PictureInv, StandingInv, Recorded
  <1>6. AnswersInv'
    BY <1>1, NoAnswersYet
  <1> QED
    BY <1>2, <1>3, <1>4, <1>5, <1>6 DEF PictureInv

\* Two mappings that share an address overlap.
LEMMA SharedOverlaps ==
    ASSUME NEW m \in Mappings, NEW n \in Mappings, NEW a \in Nat,
           InRange(m, a), InRange(n, a)
    PROVE  Overlap(m, n)
  BY TypeOfMapping DEF InRange, Overlap

\* A line: the walk passes its mapping and no other that stands.
LEMMA ReadPicture ==
    ASSUME TypeOK, PictureInv, ReadLine PROVE PictureInv'
  <1>1. PICK m \in Ahead :
          /\ \A n \in Ahead : m.start <= n.start
          /\ walk' = m.end
          /\ lines' = IF m.exec /\ is_file_backed(m.name)
                      THEN Append(lines, [map |-> m, name |-> Shown(m)]) ELSE lines
    BY DEF ReadLine
  <1>2. /\ walk # None /\ text = 0 /\ cache = "empty"
        /\ UNCHANGED <<maps, disk, cache, text, dsos, answer, standing, past, replaced>>
    BY DEF ReadLine, process, PictureInv, PhaseInv
  <1>3. m \in Mappings /\ m \in maps /\ m.end \in Nat /\ m \in past
    BY <1>1, <1>2, TypeOfMapping DEF Ahead, TypeOK, PictureInv, PhaseInv
  <1> DEFINE line == [map |-> m, name |-> Shown(m)]
  <1>4. /\ line.map = m /\ line.name.path = m.name
        /\ ~line.name.gone => m.version = disk[m.name]
    BY DEF Shown
  <1>5. line \in Line
    BY <1>3, TypeOfMapping DEF Line, Name, Shown
  <1> HIDE DEF line
  <1>6. /\ \A i \in DOMAIN lines : i \in DOMAIN lines' /\ lines'[i] = lines[i]
        /\ \A i \in DOMAIN lines' :
              i \in DOMAIN lines \/ (lines'[i] = line /\ m.exec /\ is_file_backed(m.name))
        /\ m.exec /\ is_file_backed(m.name) => \E i \in DOMAIN lines' : lines'[i] = line
    <2>1. CASE m.exec /\ is_file_backed(m.name)
      <3>1. lines' = Append(lines, line) /\ lines \in Seq(Line)
        BY <1>1, <2>1 DEF TypeOK, line
      <3> HIDE DEF Line
      <3> QED
        BY <1>5, <2>1, <3>1
    <2>2. CASE ~(m.exec /\ is_file_backed(m.name))
      BY <1>1, <2>2
    <2> QED
      BY <2>1, <2>2
  <1>7. PhaseInv'
    BY <1>2, <1>3, <1>1, NoneAssumption DEF PictureInv, PhaseInv
  <1>8. LinesInv'
    <2>1. Taken(m)
      BY <1>3 DEF Taken, TypeOK, PictureInv, PhaseInv
    <2>2. ASSUME NEW i \in DOMAIN lines'
          PROVE  LET n == lines'[i].map IN
                 /\ Taken(n) /\ n.name = lines'[i].name.path /\ is_file_backed(n.name)
                 /\ ~lines'[i].name.gone /\ n.name \notin replaced => n.version = disk[n.name]
      <3>1. CASE i \in DOMAIN lines
        BY <1>6, <3>1 DEF PictureInv, LinesInv
      <3>2. CASE lines'[i] = line /\ is_file_backed(m.name)
        BY <1>4, <2>1, <3>2
      <3> QED
        BY <1>6, <3>1, <3>2
    <2> QED
      BY <1>2, <2>2 DEF LinesInv, Taken
  <1>9. DsosInv'
    BY <1>2 DEF PictureInv, DsosInv, Taken, Agrees
  <1>10. StandingInv'
    <2>1. ASSUME NEW n \in standing, n.exec, is_file_backed(n.name), n.start < m.end
          PROVE  Recorded(n) \/ \E i \in DOMAIN lines' : lines'[i].map = n
      <3>1. n \in maps /\ n \in Mappings /\ walk \in Nat
        BY <1>2 DEF TypeOK
      <3>2. CASE n.start < walk
        BY <1>2, <1>6, <2>1, <3>2 DEF PictureInv, StandingInv
      <3>3. CASE ~(n.start < walk)
        <4>1. m.start <= n.start
          BY <1>1, <3>1, <3>3, TypeOfMapping DEF Ahead
        <4>2. Overlap(m, n)
          BY <1>3, <2>1, <3>1, <4>1, TypeOfMapping DEF Overlap
        <4>3. m = n
          BY <1>3, <3>1, <4>2 DEF PictureInv, PhaseInv
        <4> QED
          BY <1>4, <1>6, <2>1, <4>3
      <3> QED
        BY <3>2, <3>3
    <2>2. \A n : Recorded(n)' <=> Recorded(n)
      BY <1>2 DEF Recorded
    <2> QED
      BY <1>1, <1>2, <2>1, <2>2 DEF StandingInv
  <1>11. AnswersInv'
    BY <1>2, NoAnswersYet
  <1> QED
    BY <1>7, <1>8, <1>9, <1>10, <1>11 DEF PictureInv

\* A line that becomes a range of the dso of its name.
LEMMA AddPicture ==
    ASSUME TypeOK, PictureInv, AddDso PROVE PictureInv'
  <1> DEFINE line == Head(lines)
  <1>1. PICK m, name : m = line.map /\ name = line.name
    OBVIOUS
  <1>2. /\ lines # <<>> /\ text = 0 /\ walk # None /\ cache = "empty" /\ lines' = Tail(lines)
        /\ UNCHANGED <<maps, disk, cache, walk, answer, standing, past, replaced>>
    BY DEF AddDso, process, PictureInv, PhaseInv
  <1>3. m \in Mappings /\ name \in Name /\ line = lines[1] /\ 1 \in DOMAIN lines
    BY <1>1, <1>2, LineFacts
  <1>4. /\ Taken(m) /\ m.name = name.path /\ is_file_backed(m.name)
        /\ ~name.gone /\ m.name \notin replaced => m.version = disk[m.name]
    BY <1>1, <1>3 DEF PictureInv, LinesInv
  <1>5. PICK i \in DOMAIN dsos', old \in Dso :
            /\ dsos'[i] = Extended(old, m) /\ old.name = name
            /\ \/ i \in DOMAIN dsos /\ old = dsos[i]
               \/ i \notin DOMAIN dsos /\ old = NewDso(name)
            /\ \A k \in DOMAIN dsos' : k # i => k \in DOMAIN dsos /\ dsos'[k] = dsos[k]
            /\ i \in Nat /\ i # 0
            /\ text' = IF get_elf_type(name) # "DYN" THEN 0 ELSE i
    BY <1>1, AddFacts
  <1>6. /\ dsos \in Seq(Dso) /\ dsos' \in Seq(Dso) /\ DOMAIN dsos \subseteq DOMAIN dsos'
    BY AddFacts DEF TypeOK
  <1> HIDE DEF line
  <1> DEFINE new == Extended(old, m)
  <1>7. /\ new.name = name /\ new.syms = old.syms /\ new.freed = old.freed
        /\ new.type = get_elf_type(name) /\ new.bias = old.bias
        /\ new.ranges = Append(old.ranges, m)
    BY <1>3, <1>5, ExtendedFacts
  <1>8. /\ get_elf_type(name) \in {"UNKNOWN", OnDisk(name).type}
        /\ name.gone => get_elf_type(name) = "UNKNOWN"
    BY <1>3, TypeOfName
  <1>9. /\ Len(old.ranges) + 1 \in DOMAIN new.ranges
        /\ new.ranges[Len(old.ranges) + 1] = m
        /\ \A j \in DOMAIN old.ranges : j \in DOMAIN new.ranges /\ new.ranges[j] = old.ranges[j]
        /\ \A j \in DOMAIN new.ranges : new.ranges[j] = m \/ j \in DOMAIN old.ranges
    <2> DEFINE q == old.ranges
               t == Append(q, m)
    <2>1. q \in Seq(Mappings)
      BY TypeOfDso
    <2> HIDE DEF q
    <2>2. /\ Len(q) + 1 \in DOMAIN t /\ t[Len(q) + 1] = m
          /\ \A j \in DOMAIN q : j \in DOMAIN t /\ t[j] = q[j]
          /\ \A j \in DOMAIN t : t[j] = m \/ j \in DOMAIN q
      BY <1>3, <2>1
    <2>3. new.ranges = t
      BY <1>7 DEF q
    <2> HIDE DEF t, new
    <2> QED
      BY <2>2, <2>3 DEF q
  <1>10. dsos'[i] = new
    BY <1>5
  <1> HIDE DEF new
  <1>11. PhaseInv'
    BY <1>2, <1>5, <1>7, <1>10 DEF PictureInv, PhaseInv
  <1>12. LinesInv'
    <2> SUFFICES ASSUME NEW k \in DOMAIN lines'
                 PROVE  LET n == lines'[k].map IN
                        /\ Taken(n) /\ n.name = lines'[k].name.path /\ is_file_backed(n.name)
                        /\ ~lines'[k].name.gone /\ n.name \notin replaced =>
                               n.version = disk[n.name]
      BY <1>2 DEF LinesInv, Taken
    <2>1. k + 1 \in DOMAIN lines /\ lines'[k] = lines[k + 1]
      BY <1>2, LineFacts
    <2> QED
      BY <2>1 DEF PictureInv, LinesInv
  <1>13. DsosInv'
    <2>1. /\ ~old.freed /\ old.syms = {} /\ old.name = name
          /\ \A j \in DOMAIN old.ranges :
                /\ Taken(old.ranges[j]) /\ old.ranges[j].name = name.path
                /\ ~name.gone /\ name.path \notin replaced =>
                     /\ old.ranges[j].version = disk[name.path]
                     /\ File(old.ranges[j]).type # "DYN" => old.bias = 0
      <3>1. CASE i \in DOMAIN dsos
        BY <1>2, <1>5, <3>1 DEF PictureInv, DsosInv, Agrees, NeedsTable
      <3>2. CASE i \notin DOMAIN dsos
        BY <1>5, <3>2 DEF NewDso
      <3> QED
        BY <3>1, <3>2
    <2>2. i \notin DOMAIN dsos => old.bias = 0
      BY <1>5 DEF NewDso
    <2>3. i \in DOMAIN dsos => 1 \in DOMAIN old.ranges
      <3> SUFFICES ASSUME i \in DOMAIN dsos PROVE 1 \in DOMAIN old.ranges
        OBVIOUS
      <3>1. old.ranges # <<>>
        BY <1>5 DEF PictureInv, DsosInv
      <3> DEFINE q == old.ranges
      <3>2. q \in Seq(Mappings)
        BY TypeOfDso
      <3> HIDE DEF q
      <3>3. q # <<>> => 1 \in DOMAIN q
        BY <3>2
      <3> QED
        BY <3>1, <3>3 DEF q
    <2>4. /\ ~new.freed /\ new.syms = {} /\ new.name = name
          /\ name.gone => new.type = "UNKNOWN"
          /\ new.ranges # <<>>
      BY <1>7, <1>8, <1>9, <2>1
    <2>5. ASSUME NEW j \in DOMAIN new.ranges, NEW n, n = new.ranges[j]
          PROVE  /\ Taken(n) /\ n.name = name.path
                 /\ ~name.gone /\ name.path \notin replaced => Agrees(i, n)'
      <3>1. n = new.ranges[j]
        BY <2>5
      <3>2. Taken(n) /\ n.name = name.path
        BY <1>4, <1>9, <2>1, <3>1
      <3>3. ASSUME ~name.gone, name.path \notin replaced
            PROVE  Agrees(i, n)'
        <4>1. n.version = disk[name.path] /\ File(n) = OnDisk(name)
          BY <1>4, <1>9, <2>1, <3>1, <3>2, <3>3 DEF File, OnDisk
        <4>2. File(n).type # "DYN" => old.bias = 0
          <5>1. CASE i \in DOMAIN dsos
            <6>1. File(old.ranges[1]) = File(n)
              BY <2>1, <2>3, <3>3, <4>1, <5>1 DEF File, OnDisk
            <6> QED
              BY <2>1, <2>3, <3>3, <5>1, <6>1
          <5>2. CASE i \notin DOMAIN dsos
            BY <2>2, <5>2
          <5> QED
            BY <5>1, <5>2
        <4>3. new.type \in {"UNKNOWN", File(n).type} /\ (new.type = "DYN" => text' = i)
          BY <1>5, <1>7, <1>8, <4>1
        <4> QED
          BY <1>2, <1>7, <1>10, <2>4, <3>2, <4>1, <4>2, <4>3 DEF Agrees, File
      <3> QED
        BY <3>2, <3>3
    <2>6. ASSUME NEW k \in DOMAIN dsos'
          PROVE  /\ dsos'[k].ranges # <<>> /\ ~dsos'[k].freed
                 /\ dsos'[k].name.gone => dsos'[k].type = "UNKNOWN"
                 /\ dsos'[k].syms = {}
                 /\ \A j \in DOMAIN dsos'[k].ranges : \A n : n = dsos'[k].ranges[j] =>
                       /\ Taken(n) /\ n.name = dsos'[k].name.path
                       /\ ~dsos'[k].name.gone /\ dsos'[k].name.path \notin replaced =>
                              Agrees(k, n)'
      <3>1. CASE k = i
        BY <1>10, <2>4, <2>5, <3>1
      <3>2. CASE k # i
        <4>1. k \in DOMAIN dsos /\ dsos'[k] = dsos[k] /\ k # 0
          BY <1>5, <1>6, <3>2
        <4>2. ASSUME NEW n, Agrees(k, n) PROVE Agrees(k, n)'
          BY <1>2, <4>1, <4>2 DEF Agrees, NeedsTable, File
        <4> QED
          BY <1>2, <4>1, <4>2 DEF PictureInv, DsosInv, NeedsTable
      <3> QED
        BY <3>1, <3>2
    <2> QED
      BY <1>2, <2>6 DEF DsosInv, NeedsTable, Taken, Agrees
  <1>14. StandingInv'
    <2>1. Recorded(m)'
      BY <1>9, <1>10 DEF Recorded
    <2>2. ASSUME NEW n, Recorded(n) PROVE Recorded(n)'
      <3>1. PICK k \in DOMAIN dsos : \E j \in DOMAIN dsos[k].ranges : dsos[k].ranges[j] = n
        BY <2>2 DEF Recorded
      <3>2. CASE k # i
        BY <1>5, <1>6, <3>1, <3>2 DEF Recorded
      <3>3. CASE k = i
        <4>1. old = dsos[k] /\ dsos'[k] = new
          BY <1>5, <1>10, <3>3
        <4>2. \E j \in DOMAIN new.ranges : new.ranges[j] = n
          BY <1>9, <3>1, <4>1
        <4> QED
          BY <1>6, <4>1, <4>2 DEF Recorded
      <3> QED
        BY <3>2, <3>3
    <2>3. ASSUME NEW n, NEW k \in DOMAIN lines, lines[k].map = n
          PROVE  Recorded(n)' \/ \E l \in DOMAIN lines' : lines'[l].map = n
      <3>1. CASE k = 1
        BY <1>1, <1>3, <2>1, <2>3, <3>1
      <3>2. CASE k # 1
        BY <1>2, <2>3, <3>2, LineFacts
      <3> QED
        BY <3>1, <3>2
    <2> QED
      BY <1>2, <2>2, <2>3 DEF PictureInv, StandingInv
  <1>15. AnswersInv'
    BY <1>2, NoAnswersYet
  <1> QED
    BY <1>11, <1>12, <1>13, <1>14, <1>15 DEF PictureInv

\* The bias of a shared object.
LEMMA TextPicture ==
    ASSUME TypeOK, PictureInv, ReadText PROVE PictureInv'
  <1>1. /\ text \in DOMAIN dsos /\ text # 0 /\ dsos[text].type = "DYN" /\ cache = "empty"
        /\ UNCHANGED <<process, answer, standing, past, replaced>>
    BY DEF ReadText, PictureInv, PhaseInv
  <1>2. CASE GiveUp
    BY <1>1, <1>2, GiveUpPicture
  <1>3. CASE ~GiveUp
    <2>1. PICK bias : bias = OnDisk(dsos[text].name).bias
      OBVIOUS
    <2>2. /\ dsos' = [dsos EXCEPT ![text].bias = bias] /\ text' = 0
          /\ UNCHANGED <<maps, disk, cache, walk, lines, answer, standing, past, replaced>>
      BY <1>1, <1>3, <2>1 DEF ReadText, process
    <2>3. /\ DOMAIN dsos' = DOMAIN dsos
          /\ \A k \in DOMAIN dsos : k # text => dsos'[k] = dsos[k]
          /\ dsos'[text] = [dsos[text] EXCEPT !.bias = bias]
      BY <1>1, <2>2
    <2>4. /\ dsos[text] \in Dso /\ 0 \notin DOMAIN dsos
          /\ dsos[text].name.path \in Paths
      <3>1. dsos[text] \in Dso /\ 0 \notin DOMAIN dsos
        BY <1>1, ElementOfSeq, LenProperties DEF TypeOK
      <3> QED
        BY <3>1, TypeOfDso, TypeOfName
    <2>5. /\ dsos'[text].name = dsos[text].name /\ dsos'[text].ranges = dsos[text].ranges
          /\ dsos'[text].type = dsos[text].type /\ dsos'[text].syms = dsos[text].syms
          /\ dsos'[text].freed = dsos[text].freed /\ dsos'[text].bias = bias
      BY <2>3, <2>4 DEF Dso
    <2>6. PhaseInv'
      BY <2>2 DEF PictureInv, PhaseInv
    <2>7. LinesInv'
      BY <2>2 DEF PictureInv, LinesInv, Taken
    <2>8. DsosInv'
      <3>1. ASSUME NEW k \in DOMAIN dsos, NEW n, Agrees(k, n), n.name = dsos[k].name.path
            PROVE  Agrees(k, n)'
        <4>1. CASE k = text
          <5>1. NeedsTable(dsos[k])
            BY <1>1, <3>1 DEF PictureInv, DsosInv
          <5>2. File(n) = OnDisk(dsos[k].name)
            BY <3>1, <5>1 DEF Agrees, File, OnDisk
          <5>3. File(n).type = "DYN" /\ File(n).bias = bias
            BY <1>1, <2>1, <3>1, <4>1, <5>2 DEF Agrees
          <5> QED
            BY <2>2, <2>5, <3>1, <4>1, <5>3 DEF Agrees, File, NeedsTable
        <4>2. CASE k # text
          BY <1>1, <2>2, <2>3, <2>4, <3>1, <4>2 DEF Agrees, File, NeedsTable
        <4> QED
          BY <4>1, <4>2
      <3>2. ASSUME NEW k \in DOMAIN dsos
            PROVE  /\ dsos'[k].name = dsos[k].name /\ dsos'[k].ranges = dsos[k].ranges
                   /\ dsos'[k].type = dsos[k].type /\ dsos'[k].syms = dsos[k].syms
                   /\ dsos'[k].freed = dsos[k].freed
        BY <2>3, <2>5
      <3> SUFFICES ASSUME NEW k \in DOMAIN dsos'
                   PROVE  /\ dsos'[k].ranges # <<>> /\ (dsos'[k].freed => cache = "ready")
                          /\ dsos'[k].name.gone => dsos'[k].type = "UNKNOWN"
                          /\ dsos'[k].syms = {}
                          /\ \A j \in DOMAIN dsos'[k].ranges :
                                \A n : n = dsos'[k].ranges[j] =>
                                  /\ Taken(n) /\ n.name = dsos'[k].name.path
                                  /\ ~dsos'[k].name.gone /\ dsos'[k].name.path \notin replaced =>
                                         Agrees(k, n)'
        BY <2>2 DEF DsosInv, NeedsTable, Taken, Agrees
      <3>3. k \in DOMAIN dsos
        BY <2>3
      <3> QED
        BY <1>1, <3>1, <3>2, <3>3 DEF PictureInv, DsosInv, NeedsTable
    <2>9. StandingInv'
      <3>1. \A k \in DOMAIN dsos : dsos'[k].ranges = dsos[k].ranges
        BY <2>3, <2>5
      <3>2. \A m : Recorded(m) => Recorded(m)'
        BY <2>3, <3>1 DEF Recorded
      <3> QED
        BY <2>2, <3>2 DEF PictureInv, StandingInv
    <2>10. AnswersInv'
      BY <1>1, <2>2, NoAnswersYet
    <2> QED
      BY <2>6, <2>7, <2>8, <2>9, <2>10 DEF PictureInv
  <1> QED
    BY <1>2, <1>3

\* Reading the table of a dso: whatever file is at its path, it is the one that is
\* mapped as long as no other has been put there.
LEMMA LoadsPicture ==
    ASSUME TypeOK, PictureInv, cache = "ready", NEW i \in 1..Len(dsos), Loads(i),
           UNCHANGED <<maps, disk, cache, walk, lines, text, standing, past, replaced>>
    PROVE  PhaseInv' /\ LinesInv' /\ DsosInv' /\ StandingInv'
  <1>0. PICK new : new = WithTable(dsos[i])
    OBVIOUS
  <1>1. /\ i \in DOMAIN dsos /\ dsos[i] \in Dso /\ DOMAIN dsos' = DOMAIN dsos
        /\ \A k \in DOMAIN dsos : dsos'[k] = IF k = i THEN new ELSE dsos[k]
    BY <1>0, LoadsFacts
  <1>2. /\ new.name = dsos[i].name /\ new.ranges = dsos[i].ranges
        /\ new.type = dsos[i].type /\ new.bias = dsos[i].bias
        /\ dsos[i].syms # {} => new = dsos[i]
        /\ new.syms # {} => \/ new = dsos[i]
                            \/ /\ dsos[i].syms = {} /\ dsos[i].type # "UNKNOWN"
                               /\ new.syms \subseteq OnDisk(dsos[i].name).symbols
    BY <1>0, <1>1, LoadFacts
  <1>3. /\ disk[new.name.path] \in 1..disk[new.name.path]
    BY <1>1, <1>2, TypeOfDso, TypeOfName, TypeOfFiles
  <1>4. PhaseInv'
    BY <1>1, <1>2 DEF PictureInv, PhaseInv
  <1>5. LinesInv'
    BY DEF PictureInv, LinesInv, Taken
  <1>6. DsosInv'
    <2>1. ASSUME NEW k \in DOMAIN dsos, NEW n, Agrees(k, n), n.name = dsos[k].name.path
          PROVE  Agrees(k, n)'
      <3>1. CASE k = i
        <4>1. new.syms \subseteq File(n).symbols
          <5>1. CASE dsos[i].syms # {}
            BY <1>2, <2>1, <3>1, <5>1 DEF Agrees
          <5>2. CASE dsos[i].syms = {}
            <6>1. File(n) = OnDisk(dsos[i].name)
              BY <2>1, <3>1, <5>2 DEF Agrees, File, OnDisk, NeedsTable
            <6> QED
              BY <1>2, <5>2, <6>1
          <5> QED
            BY <5>1, <5>2
        <4>2. NeedsTable(new) => NeedsTable(dsos[i])
          BY <1>2 DEF NeedsTable
        <4> QED
          BY <1>1, <1>2, <2>1, <3>1, <4>1, <4>2 DEF Agrees, File, NeedsTable
      <3>2. CASE k # i
        BY <1>1, <2>1, <3>2 DEF Agrees, File, NeedsTable
      <3> QED
        BY <3>1, <3>2
    <2>2. ASSUME NEW k \in DOMAIN dsos
          PROVE  /\ dsos'[k].name = dsos[k].name /\ dsos'[k].ranges = dsos[k].ranges
                 /\ dsos'[k].type = dsos[k].type
      BY <1>1, <1>2
    <2>3. ASSUME NEW k \in DOMAIN dsos
          PROVE  /\ dsos'[k].syms # {} => dsos'[k].type # "UNKNOWN"
                 /\ \A t \in dsos'[k].syms : \E v \in 1..disk[dsos'[k].name.path] :
                        t \in Elf[dsos'[k].name.path][v].symbols
      <3>1. CASE dsos'[k] = dsos[k]
        BY <3>1 DEF PictureInv, DsosInv, NeedsTable
      <3>2. CASE dsos'[k] # dsos[k]
        <4>1. dsos'[k] = new /\ k = i
          BY <1>1, <3>2
        <4>2. new.syms # {} => /\ dsos[i].type # "UNKNOWN"
                               /\ new.syms \subseteq OnDisk(dsos[i].name).symbols
          BY <1>1, <1>2, <3>2, <4>1
        <4> QED
          BY <1>2, <1>3, <4>1, <4>2 DEF OnDisk
      <3> QED
        BY <3>1, <3>2
    <2> SUFFICES ASSUME NEW k \in DOMAIN dsos
                 PROVE  /\ dsos'[k].ranges # <<>>
                        /\ dsos'[k].name.gone => dsos'[k].type = "UNKNOWN"
                        /\ \A j \in DOMAIN dsos'[k].ranges :
                              \A n : n = dsos'[k].ranges[j] =>
                                /\ Taken(n) /\ n.name = dsos'[k].name.path
                                /\ ~dsos'[k].name.gone /\ dsos'[k].name.path \notin replaced =>
                                       Agrees(k, n)'
      BY <1>1, <2>3 DEF DsosInv, NeedsTable, Taken, Agrees
    <2> QED
      BY <2>1, <2>2 DEF PictureInv, DsosInv
  <1>7. StandingInv'
    <2>1. \A k \in DOMAIN dsos : dsos'[k].ranges = dsos[k].ranges
      BY <1>1, <1>2
    <2>2. \A m : Recorded(m) => Recorded(m)'
      BY <1>1, <2>1 DEF Recorded
    <2> QED
      BY <2>2 DEF PictureInv, StandingInv
  <1> QED
    BY <1>4, <1>5, <1>6, <1>7

\* A lookup that finds a range changes one answer, if it frees nothing.
LEMMA HitFacts ==
    ASSUME TypeOK, NEW addr \in Addrs, Hit(addr), Intact'
    PROVE  Intact /\ answer' = [answer EXCEPT ![addr] = Brought(addr)]
  <1> DEFINE i == Found(addr).dso
  <1>1. i \in DOMAIN dsos' /\ dsos'[i] = WithTable(dsos[i]) /\ Intact
    BY LoadsFacts DEF Hit
  <1>2. ~WithTable(dsos[i]).freed
    BY <1>1 DEF Intact
  <1> QED
    BY <1>1, <1>2 DEF Hit

\* A lookup that finds a range leaves each answer what a lookup would bring.
LEMMA HitAnswers ==
    ASSUME TypeOK, PictureInv, cache = "ready", cache' = cache,
           NEW addr \in Addrs, Hit(addr), Intact'
    PROVE  AnswersInv'
  <1> DEFINE i == Found(addr).dso
             new == WithTable(dsos[i])
  <1>1. /\ dsos \in Seq(Dso) /\ i \in DOMAIN dsos /\ dsos[i] \in Dso
        /\ DOMAIN dsos' = DOMAIN dsos /\ Intact
        /\ \A k \in DOMAIN dsos : dsos'[k] = IF k = i THEN new ELSE dsos[k]
        /\ \A a \in Addrs : syms__find_dso(dsos', a) = syms__find_dso(dsos, a)
    BY LoadsFacts DEF TypeOK, Hit
  <1>2. new.name = dsos[i].name /\ (dsos[i].syms # {} => new = dsos[i])
    BY <1>1, LoadFacts
  <1>3. answer' = [answer EXCEPT ![addr] = Brought(addr)] /\ IsResult(Brought(addr))
    BY <1>1, HitFacts DEF Hit
  <1> HIDE DEF new, i
  <1> SUFFICES ASSUME NEW a \in Addrs, answer'[a] # None
               PROVE  LET at == syms__find_dso(dsos', a) IN
                      /\ cache' = "ready" /\ at # None /\ IsResult(answer'[a])
                      /\ answer'[a].dso = dsos'[at.dso].name
                      /\ answer'[a].sym # None =>
                             answer'[a].sym = FindSym(dsos'[at.dso].syms, at.offset)
    BY DEF AnswersInv
  <1> DEFINE at == syms__find_dso(dsos, a)
  <1>4. syms__find_dso(dsos', a) = at
    BY <1>1
  <1>5. CASE a = addr
    <2>1. answer'[a] = [dso |-> new.name, sym |-> FindSym(new.syms, at.offset)]
      BY <1>3, <1>5 DEF TypeOK, Brought, Found, new, i
    <2>2. at # None /\ dsos'[at.dso] = new
      BY <1>1, <1>5 DEF Hit, Found, i
    <2>3. IsResult(answer'[a])
      BY <1>3, <1>5 DEF TypeOK
    <2> QED
      BY <1>4, <2>1, <2>2, <2>3
  <1>6. CASE a # addr
    <2>1. answer'[a] = answer[a]
      BY <1>3, <1>6 DEF TypeOK
    <2>2. /\ at # None /\ answer[a].dso = dsos[at.dso].name /\ IsResult(answer[a])
          /\ answer[a].sym # None => answer[a].sym = FindSym(dsos[at.dso].syms, at.offset)
      BY <1>1, <2>1 DEF PictureInv, AnswersInv
    <2>3. at.dso \in DOMAIN dsos
      BY <1>1, <2>2, FindFacts, AddressAssumption
    <2>4. dsos'[at.dso].name = dsos[at.dso].name
      BY <1>1, <1>2, <2>3
    <2>5. FindSym({}, at.offset) = None
      BY DEF FindSym
    <2>6. answer[a].sym # None => dsos'[at.dso] = dsos[at.dso]
      BY <1>1, <1>2, <2>2, <2>3, <2>5
    <2> QED
      BY <1>4, <2>1, <2>2, <2>4, <2>6
  <1> QED
    BY <1>5, <1>6

\* A lookup.
LEMMA ResolvePicture ==
    ASSUME TypeOK, PictureInv, NEW addr \in Addrs, Resolve(addr) PROVE PictureInv'
  <1>1. cache = "ready"
        /\ UNCHANGED <<maps, disk, cache, walk, lines, text, standing, past, replaced>>
    BY DEF Resolve, process, loading
  <1>2. CASE Lost(addr)
    <2>1. PhaseInv' /\ LinesInv' /\ DsosInv' /\ StandingInv'
      BY <1>1, <1>2, LoadsPicture DEF Lost
    <2>2. ~Intact'
      BY <1>2, LoadsFacts DEF Lost
    <2> QED
      BY <2>1, <2>2 DEF PictureInv
  <1>3. CASE Missed(addr)
    <2>1. PhaseInv' /\ LinesInv'
      BY <1>1, <1>3 DEF Missed, PictureInv, PhaseInv, LinesInv, Taken
    <2>2. DsosInv'
      BY <1>1, <1>3 DEF Missed, PictureInv, DsosInv, Taken, Agrees
    <2>3. StandingInv'
      BY <1>1, <1>3 DEF Missed, PictureInv, StandingInv, Recorded
    <2>4. Intact' => AnswersInv'
      <3>1. \A a \in Addrs : answer'[a] = None \/ answer'[a] = answer[a]
        BY <1>3 DEF Missed, TypeOK
      <3> QED
        BY <1>1, <1>3, <3>1 DEF Missed, PictureInv, AnswersInv, Intact
    <2> QED
      BY <2>1, <2>2, <2>3, <2>4 DEF PictureInv
  <1>4. CASE Hit(addr)
    <2>1. PhaseInv' /\ LinesInv' /\ DsosInv' /\ StandingInv'
      BY <1>1, <1>4, LoadsPicture DEF Hit
    <2>2. Intact' => AnswersInv'
      BY <1>1, <1>4, HitAnswers
    <2> QED
      BY <2>1, <2>2 DEF PictureInv
  <1> QED
    BY <1>2, <1>3, <1>4, ResolveFacts

\* The picture keeps its invariant, whatever the process does meanwhile and
\* whatever files take the place of others.
THEOREM PictureInductive == Spec => []PictureInv
  <1>1. TypeOK /\ PictureInv /\ [Next]_vars => PictureInv'
    <2> SUFFICES ASSUME TypeOK, PictureInv, [Next]_vars PROVE PictureInv'
      OBVIOUS
    <2>1. ASSUME NEW m \in Mappings, Map(m) PROVE PictureInv'
      BY <2>1, MapPicture
    <2>2. ASSUME NEW m \in Mappings, Unmap(m) PROVE PictureInv'
      BY <2>2, FewerPicture DEF Unmap, loading
    <2>3. ASSUME NEW p \in Paths, Flip(p) PROVE PictureInv'
      BY <2>3, FewerPicture DEF Flip, loading
    <2>4. ASSUME NEW p \in Paths, Replace(p) PROVE PictureInv'
      BY <2>4, ReplacePicture
    <2>5. CASE Exit
      BY <2>5, FewerPicture DEF Exit, loading
    <2>6. CASE OpenMaps
      BY <2>6, OpenPicture
    <2>7. CASE ReadLine
      BY <2>7, ReadPicture
    <2>8. CASE AddDso
      BY <2>8, AddPicture
    <2>9. CASE ReadText
      BY <2>9, TextPicture
    <2>10. CASE LoadFails
      BY <2>10, GiveUpPicture DEF LoadFails, PictureInv, PhaseInv
    <2>11. CASE EndOfFile
      BY <2>11, EndPicture
    <2>12. ASSUME NEW addr \in Addrs, Resolve(addr) PROVE PictureInv'
      BY <2>12, ResolvePicture
    <2>13. CASE UNCHANGED vars
      BY <2>13, FewerPicture DEF vars, process, loading
    <2> QED
      BY <2>1, <2>2, <2>3, <2>4, <2>5, <2>6, <2>7, <2>8, <2>9, <2>10, <2>11, <2>12, <2>13
      DEF Next
  <1> QED
    BY InitPicture, TypesHold, <1>1, PTL DEF Spec

-----------------------------------------------------------------------------
(* What follows from it. *)

\* What is recorded is found, and nothing recorded earlier hides it.
LEMMA InvFinds == TypeOK /\ PictureInv => StandingFound
  <1> SUFFICES ASSUME TypeOK, PictureInv, cache = "ready", NEW m \in standing,
                      NEW a \in Addrs, m.exec, is_file_backed(m.name), InRange(m, a)
               PROVE  LET at == syms__find_dso(dsos, a) IN
                      at # None /\ dsos[at.dso].name.path = m.name
    BY DEF StandingFound
  <1> DEFINE at == syms__find_dso(dsos, a)
  <1>1. dsos \in Seq(Dso) /\ a \in Nat /\ m \in Mappings
    BY AddressAssumption DEF TypeOK
  <1>2. Recorded(m)
    BY DEF PictureInv, StandingInv
  <1>3. at # None
    BY <1>1, <1>2, FindFacts DEF Recorded
  <1>4. at.dso \in 1..Len(dsos)
        /\ \E j \in DOMAIN dsos[at.dso].ranges : InRange(dsos[at.dso].ranges[j], a)
    BY <1>1, <1>3, FindFacts
  <1> HIDE DEF at
  <1>5. PICK j \in DOMAIN dsos[at.dso].ranges : InRange(dsos[at.dso].ranges[j], a)
    BY <1>4
  <1> DEFINE n == dsos[at.dso].ranges[j]
  <1>6. at.dso \in DOMAIN dsos /\ dsos[at.dso] \in Dso
    BY <1>1, <1>4, ElementOfSeq
  <1>7. n \in Mappings
    BY <1>5, <1>6, TypeOfDso
  <1>8. n.name = dsos[at.dso].name.path /\ (m = n \/ ~Overlap(m, n))
    BY <1>5, <1>6 DEF PictureInv, DsosInv, Taken
  <1>9. Overlap(m, n)
    BY <1>1, <1>5, <1>7, SharedOverlaps
  <1> QED
    BY <1>3, <1>8, <1>9 DEF at

\* Every address in code that has been mapped since the picture was begun is found
\* under the right path (while no freed ranges are searched), for every process
\* and however it and its files change meanwhile.
THEOREM StandingIsFound == Spec => []StandingFound
  <1> QED
    BY TypesHold, PictureInductive, InvFinds, PTL

\* The range behind an answer is that of a mapping of the past; its symbols are
\* those of some file of that path, and of the file that is mapped if that was not
\* replaced before they were read.
LEMMA InvTrue == TypeOK /\ PictureInv => AnswersOnceTrue
  <1> SUFFICES ASSUME Intact, TypeOK, PictureInv, NEW a \in Addrs, answer[a] # None
               PROVE  \E m \in past :
                        /\ m.name = answer[a].dso.path /\ InRange(m, a)
                        /\ answer[a].sym # None =>
                             LET s == answer[a].sym.symbol IN
                             /\ \E v \in 1..disk[m.name] : s \in Elf[m.name][v].symbols
                             /\ m.name \notin replaced =>
                                  /\ s \in File(m).symbols
                                  /\ Vaddr(m, a) = s.start + answer[a].sym.offset
                                  /\ Vaddr(m, a) < s.start + s.size
    BY DEF AnswersOnceTrue
  <1> DEFINE at == syms__find_dso(dsos, a)
  <1>1. dsos \in Seq(Dso) /\ a \in Nat
    BY AddressAssumption DEF TypeOK
  <1>2. /\ at # None /\ cache = "ready" /\ answer[a].dso = dsos[at.dso].name
        /\ answer[a].sym # None => answer[a].sym = FindSym(dsos[at.dso].syms, at.offset)
    BY DEF PictureInv, AnswersInv
  <1>3. /\ at.dso \in 1..Len(dsos) /\ at.offset \in Int
        /\ \E j \in DOMAIN dsos[at.dso].ranges :
              /\ InRange(dsos[at.dso].ranges[j], a)
              /\ at.offset = Offset(dsos[at.dso], dsos[at.dso].ranges[j], a)
    BY <1>1, <1>2, FindFacts
  <1> HIDE DEF at
  <1> DEFINE d == dsos[at.dso]
  <1>4. at.dso \in DOMAIN dsos /\ d \in Dso /\ text # at.dso
    BY <1>1, <1>2, <1>3, ElementOfSeq, NoneAssumption DEF PictureInv, PhaseInv
  <1>5. PICK j \in DOMAIN d.ranges :
            InRange(d.ranges[j], a) /\ at.offset = Offset(d, d.ranges[j], a)
    BY <1>3
  <1> DEFINE m == d.ranges[j]
  <1>6. m \in Mappings
    BY <1>4, <1>5, TypeOfDso
  <1>7. /\ m \in past /\ m.name = d.name.path
        /\ d.syms # {} => d.type # "UNKNOWN" /\ ~d.name.gone
        /\ \A s \in d.syms : \E v \in 1..disk[m.name] : s \in Elf[m.name][v].symbols
        /\ ~d.name.gone /\ m.name \notin replaced =>
             /\ d.type \in {"UNKNOWN", File(m).type}
             /\ d.type = "DYN" => d.bias = File(m).bias
             /\ File(m).type # "DYN" => d.bias = 0
             /\ d.syms \subseteq File(m).symbols
    BY <1>4, <1>5 DEF PictureInv, DsosInv, Taken, Agrees, NeedsTable
  <1>8. d.type \in {"EXEC", "DYN", "VDSO", "UNKNOWN"} /\ d.syms \subseteq Symbol
    BY <1>4, TypeOfDso
  <1> HIDE DEF d, m
  <1>9. ASSUME answer[a].sym # None
        PROVE  LET s == answer[a].sym.symbol IN
               /\ \E v \in 1..disk[m.name] : s \in Elf[m.name][v].symbols
               /\ m.name \notin replaced =>
                    /\ s \in File(m).symbols
                    /\ Vaddr(m, a) = s.start + answer[a].sym.offset
                    /\ Vaddr(m, a) < s.start + s.size
    <2>1. PICK s \in d.syms : /\ answer[a].sym = [symbol |-> s, offset |-> at.offset - s.start]
                              /\ s.start \in Nat /\ s.size \in Nat
                              /\ at.offset - s.start \in 0..(s.size - 1)
      BY <1>2, <1>3, <1>8, <1>9, FindSymFacts DEF d
    <2>2. ASSUME m.name \notin replaced
          PROVE  s \in File(m).symbols /\ at.offset = Vaddr(m, a)
      <3>1. d.type # "UNKNOWN" /\ s \in File(m).symbols /\ d.type = File(m).type
        BY <1>7, <2>1, <2>2
      <3>2. /\ m.start \in Nat /\ m.file_off \in Nat /\ File(m).bias \in Nat
            /\ File(m).type = "VDSO" => File(m).bias = 0
        BY <1>6, TypeOfMapping, TypeOfFiles DEF File
      <3>3. at.offset = Offset(d, m, a)
        BY <1>5 DEF m
      <3>4. CASE d.type = "DYN"
        BY <1>7, <2>1, <2>2, <3>3, <3>4 DEF Offset, Vaddr
      <3>5. CASE d.type = "VDSO"
        <4>1. File(m).bias = 0 /\ d.bias = 0
          BY <1>7, <2>1, <2>2, <3>1, <3>2, <3>5
        <4> QED
          BY <1>1, <3>1, <3>2, <3>3, <3>5, <4>1 DEF Offset, Vaddr
      <3>6. CASE d.type = "EXEC"
        <4>1. m.start = m.file_off + File(m).bias
          BY <1>6, <3>1, <3>6, MappingsAssumption
        <4>2. at.offset = a
          BY <3>3, <3>6 DEF Offset
        <4> QED
          BY <1>1, <3>1, <3>2, <4>1, <4>2 DEF Vaddr
      <3> QED
        BY <1>8, <3>1, <3>4, <3>5, <3>6
    <2>3. at.offset < s.start + s.size /\ at.offset = s.start + (at.offset - s.start)
      BY <1>3, <2>1
    <2> QED
      BY <1>7, <2>1, <2>2, <2>3
  <1>10. m.name = answer[a].dso.path /\ InRange(m, a)
    BY <1>2, <1>5, <1>7 DEF d, m
  <1> QED
    BY <1>7, <1>9, <1>10

\* Until a file is met whose symbols cannot be read to their end, the path of every
\* answer was mapped there at some moment since the picture was begun, and the
\* symbol is one that a file at that path has had; it is the right one, with the
\* right offset, if no other file was put there before the symbols were read.
THEOREM AnswersWereTrue == Spec => []AnswersOnceTrue
  <1> QED
    BY TypesHold, PictureInductive, InvTrue, PTL

\* Until then a frame that once had a name keeps it.
THEOREM NamesKept == Spec => NamesStay
  <1>1. TypeOK /\ PictureInv /\ [Next]_vars =>
            [Intact' => \A a \in Addrs : answer[a] # None /\ answer[a].sym # None =>
                                         answer'[a] = answer[a]]_vars
    <2> SUFFICES ASSUME TypeOK, PictureInv, Next, Intact',
                        NEW a \in Addrs, answer[a] # None, answer[a].sym # None
                 PROVE  answer'[a] = answer[a]
      OBVIOUS
    <2>1. ASSUME NEW addr \in Addrs, Resolve(addr) PROVE answer'[a] = answer[a]
      <3>1. answer = [b \in Addrs |-> answer[b]]
        BY DEF TypeOK
      <3>2. Intact /\ (Missed(addr) \/ Hit(addr))
        <4>1. CASE Lost(addr)
          BY <4>1, LoadsFacts DEF Lost
        <4>2. CASE Missed(addr)
          BY <4>2 DEF Missed, Intact
        <4>3. CASE Hit(addr)
          BY <4>3, LoadsFacts DEF Hit
        <4> QED
          BY <2>1, <4>1, <4>2, <4>3, ResolveFacts
      <3> DEFINE at == syms__find_dso(dsos, a)
      <3>3. /\ at # None /\ answer[a].dso = dsos[at.dso].name /\ IsResult(answer[a])
            /\ answer[a].sym = FindSym(dsos[at.dso].syms, at.offset)
        BY <3>2 DEF PictureInv, AnswersInv
      <3>4. CASE a # addr
        <4>1. CASE Missed(addr)
          BY <3>1, <3>4, <4>1 DEF Missed
        <4>2. CASE Hit(addr)
          BY <3>1, <3>4, <4>2, HitFacts
        <4> QED
          BY <3>2, <4>1, <4>2
      <3>5. CASE a = addr
        <4>1. Hit(a)
          BY <3>2, <3>3, <3>5 DEF Missed, Found
        <4>2. dsos[at.dso] \in Dso
          BY <4>1, LoadsFacts DEF Hit, Found
        <4>3. dsos[at.dso].syms # {}
          BY <3>3 DEF FindSym
        <4>4. WithTable(dsos[at.dso]) = dsos[at.dso]
          BY <4>2, <4>3, LoadFacts
        <4>5. Brought(a) = [dso |-> answer[a].dso, sym |-> answer[a].sym]
          BY <3>3, <4>4 DEF Brought, Found
        <4>6. answer[a] = [dso |-> answer[a].dso, sym |-> answer[a].sym]
          BY <3>3 DEF IsResult
        <4>7. answer'[a] = Brought(a)
          BY <3>1, <4>1, HitFacts
        <4> QED
          BY <4>5, <4>6, <4>7
      <3> QED
        BY <3>4, <3>5
    <2>2. CASE ~ \E addr \in Addrs : Resolve(addr)
      <3>1. answer' = answer
        BY <2>2 DEF Next, Map, Unmap, Flip, Replace, Exit, OpenMaps, ReadLine, AddDso,
           ReadText, LoadFails, EndOfFile
      <3> QED
        BY <3>1
    <2> QED
      BY <2>1, <2>2
  <1> QED
    BY TypesHold, PictureInductive, <1>1, PTL DEF Spec, NamesStay
=============================================================================
