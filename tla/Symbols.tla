------------------------------ MODULE Symbols ------------------------------
(***************************************************************************)
(* The picture that memleak takes of the address space of the traced       *)
(* process to name the frames of a stack (trace_helpers.c, without         *)
(* blazesym): syms__load_file reads /proc/<pid>/maps once, one line after  *)
(* the other, while the process goes on mapping and unmapping files;       *)
(* syms_cache keeps what came out of it for good; the symbols of a file    *)
(* are read when an address in it is looked up for the first time.         *)
(*                                                                         *)
(* A symbol table is the set of its symbols here.  What dso__find_sym finds *)
(* is stated as one formula; SymSearch shows that the binary search over   *)
(* the sorted table computes it.                                           *)
(***************************************************************************)
EXTENDS Integers, Sequences, SequencesExt

CONSTANTS
    Elf,         \* path -> the files that are at it, one after the other
    Mappings,    \* the mappings the process may have
    Initial,     \* those it has when memleak starts
    Addrs,       \* the addresses looked up
    MaxChanges,  \* a bound on the changes of the environment
    None,
    Garbage      \* whatever a lookup in freed memory brings

Paths == DOMAIN Elf
Symbol == [start : Nat, size : Nat]

\* type: what the ELF header, or the name, says; text: whether .text is found;
\* bias: sh_addr - sh_offset of .text; damaged: a symbol section cannot be read
\* to its end.
ElfFile == [type : {"EXEC", "DYN", "VDSO", "UNKNOWN", "anon"}, text : BOOLEAN,
            bias : Nat, symbols : SUBSET Symbol, damaged : BOOLEAN]

ASSUME FilesAssumption ==
    \A p \in Paths :
        /\ Elf[p] \in Seq(ElfFile) /\ Elf[p] # <<>>
        /\ \A v \in DOMAIN Elf[p] :
            /\ Elf[p][v].type \in {"VDSO", "anon"} => Len(Elf[p]) = 1
            /\ Elf[p][v].type = "VDSO" => Elf[p][v].bias = 0
            \* aliases count as one symbol
            /\ \A s, t \in Elf[p][v].symbols : s.start = t.start => s = t

\* The file that is mapped.
File(m) == Elf[m.name][m.version]

Overlap(m, n) == m.start < n.end /\ n.start < m.end

ASSUME MappingsAssumption ==
    /\ Initial \subseteq Mappings /\ \A m, n \in Initial : m = n \/ ~Overlap(m, n)
    /\ \A m \in Mappings :
        /\ m.name \in Paths /\ m.version \in DOMAIN Elf[m.name] /\ m.exec \in BOOLEAN
        /\ m.start \in Nat /\ m.end \in Nat /\ m.file_off \in Nat /\ m.start < m.end
        \* a file that is not relocated is mapped where it was linked to be
        /\ File(m).type = "EXEC" => m.start = m.file_off + File(m).bias
ASSUME AddressAssumption == Addrs \subseteq Nat /\ MaxChanges \in Nat
ASSUME NoneAssumption == None \notin Nat /\ None \notin [dso : Nat, offset : Int]

VARIABLES
    maps, alive,     \* the process: its mappings, and whether it still runs
    disk,            \* path -> which of its files is there now
    readable,        \* the paths that can be opened now (the vdso: copied to one)
    changes,         \* how often any of these has changed
    cache,           \* the entry of syms_cache: "empty", "ready" or "failed" (NULL)
    walk,            \* syms__load_file: the address the kernel's next line comes from
    lines,           \* the lines read ahead, and not looked at yet
    text,            \* the dso whose .text is looked for next, or 0
    dsos,            \* syms->dsos
    answer,          \* address -> what the last lookup of it brought
    standing, past,  \* mappings there ever since, and at any time since, the
                     \* walk began
    replaced         \* paths whose file was replaced since, before their symbols
                     \* were read

process == <<maps, alive, disk, readable, changes>>
loading == <<walk, lines, text>>
vars == <<process, cache, loading, dsos, answer, standing, past, replaced>>

Init ==
    /\ maps = Initial /\ alive = TRUE /\ disk = [p \in Paths |-> 1]
    /\ readable = Paths /\ changes = 0
    /\ cache = "empty" /\ walk = None /\ lines = <<>> /\ text = 0 /\ dsos = <<>>
    /\ answer = [a \in Addrs |-> None]
    /\ standing = {} /\ past = {} /\ replaced = {}

-----------------------------------------------------------------------------
\* Faulty variants, which the properties at the end must catch.

\* a second mapping of a file is taken to be the first
add_range_once(dso, m) == IF dso.ranges = <<>> THEN <<m>> ELSE dso.ranges

\* the displacement of .text is forgotten
Offset_unbiased(dso, m, addr) ==
    IF dso.type \in {"DYN", "VDSO"} THEN addr - m.start + m.file_off ELSE addr

\* the end of the symbol is not looked at
FindSym_uncovered(syms, offset) ==
    LET below == {s \in syms : s.start <= offset}
        last == CHOOSE s \in below : \A t \in below : t.start <= s.start
    IN  IF below = {} THEN None ELSE [symbol |-> last, offset |-> offset - last.start]

\* the symbols are read again at every lookup
NeedsTable_always(dso) == TRUE

-----------------------------------------------------------------------------
\* dso->syms is NULL: nothing has been read yet, or nothing was there.
NeedsTable(dso) == dso.syms = {}

-----------------------------------------------------------------------------
(* The process and the files it maps. *)

Change == changes < MaxChanges /\ changes' = changes + 1

\* A process maps the file that it finds at a path.
Map(m) ==
    /\ Change /\ alive
    /\ m.version = disk[m.name] /\ \A n \in maps : ~Overlap(m, n)
    /\ maps' = maps \cup {m} /\ past' = past \cup {m}
    /\ UNCHANGED <<alive, disk, readable, cache, loading, dsos, answer, standing, replaced>>

Unmap(m) ==
    /\ Change /\ m \in maps
    /\ maps' = maps \ {m} /\ standing' = standing \ {m}
    /\ UNCHANGED <<alive, disk, readable, cache, loading, dsos, answer, past, replaced>>

\* A path can no longer be opened, or no descriptor is left for it; and back.
Flip(p) ==
    /\ Change
    /\ readable' = IF p \in readable THEN readable \ {p} ELSE readable \cup {p}
    /\ UNCHANGED <<maps, alive, disk, cache, loading, dsos, answer, standing, past, replaced>>

\* Another file is put at the path (a library is upgraded, a program is built anew),
\* while the process goes on with the one that it has mapped.
Replace(p) ==
    /\ Change /\ disk[p] < Len(Elf[p])
    /\ disk' = [disk EXCEPT ![p] = @ + 1]
    /\ replaced' = IF cache = "ready" /\ \A i \in DOMAIN dsos :
                        dsos[i].name = [path |-> p, gone |-> FALSE] => ~NeedsTable(dsos[i])
                   THEN replaced ELSE replaced \cup {p}
    /\ UNCHANGED <<maps, alive, readable, cache, loading, dsos, answer, standing, past>>

Exit ==
    /\ Change /\ alive /\ alive' = FALSE
    /\ maps' = {} /\ standing' = {}
    /\ UNCHANGED <<disk, readable, cache, loading, dsos, answer, past, replaced>>

-----------------------------------------------------------------------------
(* Taking the picture. *)

\* What is no file has a name of another kind.
is_file_backed(p) == Elf[p][1].type # "anon"

\* The name in a line of the maps: the kernel adds " (deleted)" to the path of a
\* file that is no longer there, and no file has that name.
Shown(m) == [path |-> m.name, gone |-> m.version # disk[m.name]]

is_vdso(name) == ~name.gone /\ Elf[name.path][1].type = "VDSO"

\* What a name stands for is found out anew at every open.
Opens(name) == ~name.gone /\ name.path \in readable
OnDisk(name) == Elf[name.path][disk[name.path]]

get_elf_type(name) ==
    CASE is_vdso(name) -> "VDSO"
      [] Opens(name) /\ OnDisk(name).type \in {"EXEC", "DYN"} -> OnDisk(name).type
      [] OTHER -> "UNKNOWN"

\* What calloc and memset leave, and the range is still to come.
NewDso(name) == [name |-> name, ranges |-> <<>>, type |-> "UNKNOWN", bias |-> 0,
                 syms |-> {}, freed |-> FALSE]

add_range(dso, m) == Append(dso.ranges, m)

\* The dso with the range of m and the type its name has now.
Extended(dso, m) == [dso EXCEPT !.ranges = add_range(dso, m), !.type = get_elf_type(dso.name)]

\* syms_cache__get_syms asks for the picture when there is none yet.  fopen or
\* calloc may fail: the cache remembers that as well.
OpenMaps ==
    /\ cache = "empty" /\ walk = None
    /\ \/ /\ alive /\ walk' = 0 /\ cache' = cache
          /\ standing' = maps /\ past' = maps /\ replaced' = {}
       \/ cache' = "failed" /\ UNCHANGED <<walk, standing, past, replaced>>
    /\ UNCHANGED <<process, lines, text, dsos, answer>>

\* The mappings from which the kernel takes the lines still to come.
Ahead == {m \in maps : m.start >= walk}

\* Lines are read ahead of what is made of them, which is nothing for most.
ReadLine ==
    /\ walk # None /\ text = 0
    /\ \E m \in Ahead :
        /\ \A n \in Ahead : m.start <= n.start
        /\ walk' = m.end
        /\ lines' = IF m.exec /\ is_file_backed(m.name)
                    THEN Append(lines, [map |-> m, name |-> Shown(m)]) ELSE lines
    /\ UNCHANGED <<process, cache, text, dsos, answer, standing, past, replaced>>

\* syms__add_dso up to get_elf_type.  A shared object still needs its .text.
AddDso ==
    /\ lines # <<>> /\ text = 0
    /\ LET line == Head(lines)
           i == SelectInSeq(dsos, LAMBDA d : d.name = line.name)
       IN  /\ dsos' = IF i = 0 THEN Append(dsos, Extended(NewDso(line.name), line.map))
                               ELSE [dsos EXCEPT ![i] = Extended(@, line.map)]
           /\ text' = IF get_elf_type(line.name) # "DYN" THEN 0
                      ELSE IF i = 0 THEN Len(dsos) + 1 ELSE i
    /\ lines' = Tail(lines)
    /\ UNCHANGED <<process, cache, walk, answer, standing, past, replaced>>

\* err_out of syms__load_file.
GiveUp ==
    /\ walk' = None /\ lines' = <<>> /\ text' = 0
    /\ cache' = "failed" /\ dsos' = <<>>      \* syms__free

\* get_elf_text_scn_info, which opens the file once more.
ReadText ==
    /\ text # 0
    /\ LET name == dsos[text].name IN
       IF Opens(name) /\ OnDisk(name).text
       THEN /\ dsos' = [dsos EXCEPT ![text].bias = OnDisk(name).bias]
            /\ text' = 0 /\ UNCHANGED <<cache, walk, lines>>
       ELSE GiveUp
    /\ UNCHANGED <<process, answer, standing, past, replaced>>

\* A line cannot be read, as when the process is gone for good, or no memory is
\* left for what it brings.
LoadFails ==
    /\ walk # None /\ GiveUp
    /\ UNCHANGED <<process, answer, standing, past, replaced>>

EndOfFile ==
    /\ walk # None /\ Ahead = {} /\ lines = <<>> /\ text = 0
    /\ walk' = None /\ cache' = "ready"
    /\ UNCHANGED <<process, lines, text, dsos, answer, standing, past, replaced>>

-----------------------------------------------------------------------------
(* Looking an address up. *)

InRange(m, addr) == m.start < addr /\ addr < m.end

Offset(dso, m, addr) ==
    IF dso.type \in {"DYN", "VDSO"}
    THEN addr - m.start + m.file_off + dso.bias ELSE addr

\* The first range, in the order of the dsos and of their ranges, as the index
\* of its dso and the offset in the file; None if there is none.
syms__find_dso(syms, addr) ==
    LET i == SelectInSeq(syms, LAMBDA d : \E j \in DOMAIN d.ranges :
                                              InRange(d.ranges[j], addr))
    IN  IF i = 0 THEN None
        ELSE LET ranges == syms[i].ranges
                 j == SelectInSeq(ranges, LAMBDA m : InRange(m, addr))
             IN  [dso |-> i, offset |-> Offset(syms[i], ranges[j], addr)]

\* The table of a file, as dso__add_syms and qsort leave it.
Table(file) == {s \in file.symbols : s.start # 0}

\* dso__load_sym_table finds something to read; for the vdso that is a copy in a
\* file of its own, which may fail as well.
Loadable(dso) == dso.type # "UNKNOWN" /\ Opens(dso.name)

\* dso__load_sym_table, when dso__find_sym asks for it: it takes whatever file has
\* the name by now.  If reading breaks off, the fields are freed and stay in use.
WithTable(dso) ==
    IF ~NeedsTable(dso) THEN dso
    ELSE IF ~Loadable(dso) THEN [dso EXCEPT !.syms = {}]
    ELSE IF OnDisk(dso.name).damaged THEN [dso EXCEPT !.freed = TRUE]
    ELSE [dso EXCEPT !.syms = Table(OnDisk(dso.name))]

\* The search of dso__find_sym (see SymSearch), as the symbol and its offset.
FindSym(syms, offset) ==
    LET below == {s \in syms : s.start <= offset}
        last == CHOOSE s \in below : \A t \in below : t.start <= s.start
    IN  IF below = {} \/ offset >= last.start + last.size THEN None
        ELSE [symbol |-> last, offset |-> offset - last.start]

\* No field is in use that has been freed.
Intact == \A i \in DOMAIN dsos : ~dsos[i].freed

\* syms__map_addr_dso.  Once freed fields are searched, any dso may come out and
\* anything may be called anything: no answer is known any more.
Resolve(addr) ==
    /\ cache = "ready"
    /\ IF ~Intact
       THEN /\ \E i \in DOMAIN dsos : dsos' = [dsos EXCEPT ![i] = WithTable(@)]
            /\ answer' = [a \in Addrs |-> Garbage]
       ELSE LET at == syms__find_dso(dsos, addr) IN
            IF at = None
            THEN answer' = [answer EXCEPT ![addr] = None] /\ dsos' = dsos
            ELSE LET dso == WithTable(dsos[at.dso])
                     result == [dso |-> dso.name, sym |-> FindSym(dso.syms, at.offset)]
                 IN  /\ dsos' = [dsos EXCEPT ![at.dso] = dso]
                     /\ answer' = IF dso.freed THEN [a \in Addrs |-> Garbage]
                                  ELSE [answer EXCEPT ![addr] = result]
    /\ UNCHANGED <<process, cache, loading, standing, past, replaced>>

-----------------------------------------------------------------------------
Next ==
    \/ \E m \in Mappings : Map(m) \/ Unmap(m)
    \/ \E p \in Paths : Flip(p) \/ Replace(p)
    \/ Exit
    \/ OpenMaps \/ ReadLine \/ AddDso \/ ReadText \/ LoadFails \/ EndOfFile
    \/ \E addr \in Addrs : Resolve(addr)

Spec == Init /\ [][Next]_vars

-----------------------------------------------------------------------------
Name == [path : Paths, gone : BOOLEAN]
Line == [map : Mappings, name : Name]
Dso == [name : Name, ranges : Seq(Mappings), type : {"EXEC", "DYN", "VDSO", "UNKNOWN"},
        bias : Nat, syms : SUBSET Symbol, freed : BOOLEAN]

\* A lookup brings a file and, within a symbol, an offset.
IsResult(r) ==
    /\ r = [dso |-> r.dso, sym |-> r.sym] /\ r.dso \in Name
    /\ r.sym # None =>
         /\ r.sym = [symbol |-> r.sym.symbol, offset |-> r.sym.offset]
         /\ r.sym.symbol \in Symbol /\ r.sym.offset \in 0..(r.sym.symbol.size - 1)

\* The type invariant.
TypeOK ==
    /\ maps \subseteq Mappings /\ standing \subseteq maps /\ past \subseteq Mappings
    /\ alive \in BOOLEAN /\ readable \subseteq Paths /\ changes \in 0..MaxChanges
    /\ disk \in [Paths -> Nat] /\ \A p \in Paths : disk[p] \in DOMAIN Elf[p]
    /\ cache \in {"empty", "ready", "failed"} /\ walk \in Nat \cup {None}
    /\ lines \in Seq(Line) /\ text \in Nat /\ dsos \in Seq(Dso)
    /\ answer = [a \in Addrs |-> answer[a]]
    /\ \A a \in Addrs : answer[a] \notin {None, Garbage} => IsResult(answer[a])
    /\ replaced \subseteq Paths

\* The address of addr in the file of m, as the linker counts it.
Vaddr(m, addr) == addr - m.start + m.file_off + File(m).bias

\* Whatever a frame was called was true at some moment since the picture was
\* begun: that file was mapped there, and the frame was in that symbol, so many
\* bytes behind its start.  (The walk reads lines of different moments and opens
\* the files it finds in them later, and once more later still; files are mapped
\* more than once and come and go: syms__add_dso, syms__find_dso, dso__find_sym.)
\* Where the file has been replaced before its symbols were read, nothing compares
\* it with the one that is mapped: then only the file is right, and the name of
\* the symbol is one that some file at that path has had.  All this is up to the
\* first file whose symbols cannot be read to their end (dso__load_sym_table).
AnswersOnceTrue ==
    Intact => \A a \in Addrs : answer[a] # None =>
        \E m \in past :
            /\ m.name = answer[a].dso.path /\ InRange(m, a)
            /\ answer[a].sym # None =>
                LET s == answer[a].sym.symbol IN
                /\ \E v \in 1..disk[m.name] : s \in Elf[m.name][v].symbols
                /\ m.name \notin replaced =>
                     /\ s \in File(m).symbols
                     /\ Vaddr(m, a) = s.start + answer[a].sym.offset
                     /\ Vaddr(m, a) < s.start + s.size

\* Every address inside code that has been mapped all along is found, under the
\* right path, whatever was mapped and unmapped around it during the walk and
\* since, however often its file is mapped, and whether that is still the file at
\* the path (syms__load_file, syms__add_dso).  Where a table broke off, freed
\* ranges would be searched.
StandingFound ==
    cache = "ready" /\ Intact =>
        \A m \in standing, a \in Addrs :
            m.exec /\ is_file_backed(m.name) /\ InRange(m, a) =>
                /\ syms__find_dso(dsos, a) # None
                /\ dsos[syms__find_dso(dsos, a).dso].name.path = m.name

\* A frame that once had a name keeps it: the reports that follow one another
\* call the same address the same, also after its file has become unreadable or
\* has been replaced, until a table breaks off.
NamesStay ==
    [][Intact' => \A a \in Addrs : answer[a] # None /\ answer[a].sym # None =>
                                    answer'[a] = answer[a]]_vars

\* Why these hold: the inductive invariant of the proofs, in parts.
\* How far the picture is.
PhaseInv ==
    /\ walk # None => cache = "empty"
    /\ walk = None => lines = <<>> /\ text = 0
    /\ walk = None /\ cache # "ready" => dsos = <<>>
    /\ text # 0 => text \in DOMAIN dsos /\ dsos[text].type = "DYN"
    /\ walk # None \/ cache = "ready" => maps \subseteq past
    /\ \A m, n \in maps : m = n \/ ~Overlap(m, n)

\* What has been read was there, and hides nothing that stands.
Taken(m) == m \in past /\ \A n \in standing : n = m \/ ~Overlap(n, m)

\* A line has the name of its file as long as that is not replaced.
LinesInv ==
    \A i \in DOMAIN lines :
        LET m == lines[i].map IN
        /\ Taken(m) /\ m.name = lines[i].name.path /\ is_file_backed(m.name)
        /\ ~lines[i].name.gone /\ m.name \notin replaced => m.version = disk[m.name]

\* What dso i has taken over from the file that is mapped at m.
Agrees(i, m) ==
    LET dso == dsos[i] IN
    /\ dso.type \in {"UNKNOWN", File(m).type}
    /\ dso.type = "DYN" /\ text # i => dso.bias = File(m).bias
    /\ File(m).type # "DYN" => dso.bias = 0
    /\ dso.syms \subseteq File(m).symbols
    /\ NeedsTable(dso) => m.version = disk[m.name]

\* What a dso has taken over from which files, and of which mappings.
DsosInv ==
    \A i \in DOMAIN dsos :
        LET dso == dsos[i] IN
        /\ dso.ranges # <<>> /\ (dso.freed => cache = "ready")
        /\ dso.name.gone => dso.type = "UNKNOWN"
        /\ ~NeedsTable(dso) => cache = "ready" /\ dso.type # "UNKNOWN"
        /\ \A s \in dso.syms : \E v \in 1..disk[dso.name.path] :
               s \in Elf[dso.name.path][v].symbols
        /\ \A j \in DOMAIN dso.ranges :
              /\ Taken(dso.ranges[j]) /\ dso.ranges[j].name = dso.name.path
              /\ ~dso.name.gone /\ dso.name.path \notin replaced => Agrees(i, dso.ranges[j])

\* What the walk has passed and still stands is recorded, or about to be.
Recorded(m) == \E i \in DOMAIN dsos : \E j \in DOMAIN dsos[i].ranges : dsos[i].ranges[j] = m

StandingInv ==
    \A m \in standing : m.exec /\ is_file_backed(m.name) =>
        /\ walk # None /\ m.start < walk =>
             Recorded(m) \/ \E i \in DOMAIN lines : lines[i].map = m
        /\ cache = "ready" => Recorded(m)

\* An answer is what the dsos as they are would bring again.
AnswersInv ==
    \A a \in Addrs : answer[a] # None =>
        LET at == syms__find_dso(dsos, a) IN
        /\ cache = "ready" /\ at # None /\ IsResult(answer[a])
        /\ answer[a].dso = dsos[at.dso].name
        /\ answer[a].sym # None => answer[a].sym = FindSym(dsos[at.dso].syms, at.offset)

PictureInv == PhaseInv /\ LinesInv /\ DsosInv /\ StandingInv /\ (Intact => AnswersInv)
=============================================================================
