----------------------------- MODULE MCSymbols -----------------------------
(* An executable, a library that is mapped in two pieces, may move and may  *)
(* be replaced by another version, a plugin without .text, generated code,  *)
(* the vdso, and a library with a damaged symbol table.                    *)
EXTENDS Symbols

Sym(start, size) == [start |-> start, size |-> size]
ElfOf(type, hasText, bias, symbols) ==
    [type |-> type, text |-> hasText, bias |-> bias, symbols |-> symbols, damaged |-> FALSE]

MCElf ==
    [exe    |-> <<ElfOf("EXEC", TRUE, 1, {Sym(0, 0), Sym(2, 1)})>>,
     lib    |-> <<ElfOf("DYN", TRUE, 2, {Sym(0, 0), Sym(4, 2), Sym(6, 3)}),
                  ElfOf("DYN", TRUE, 1, {Sym(3, 2), Sym(5, 4)})>>,
     plugin |-> <<ElfOf("DYN", FALSE, 0, {})>>,
     jit    |-> <<ElfOf("anon", FALSE, 0, {})>>,
     vdso   |-> <<ElfOf("VDSO", TRUE, 0, {Sym(1, 1)})>>,
     broken |-> <<[ElfOf("DYN", TRUE, 0, {Sym(1, 1)}) EXCEPT !.damaged = TRUE]>>]

Mapped(name, version, start, end, file_off, exec) ==
    [name |-> name, version |-> version, start |-> start, end |-> end,
     file_off |-> file_off, exec |-> exec]

Exe   == Mapped("exe", 1, 1, 4, 0, TRUE)
Data  == Mapped("exe", 1, 4, 5, 3, FALSE)
Lib1  == Mapped("lib", 1, 5, 8, 1, TRUE)
Lib2  == Mapped("lib", 1, 8, 11, 4, TRUE)
Moved == Mapped("lib", 1, 6, 9, 1, TRUE)
Newer == Mapped("lib", 2, 6, 9, 2, TRUE)
Jit   == Mapped("jit", 1, 6, 9, 0, TRUE)
Plugin == Mapped("plugin", 1, 9, 11, 0, TRUE)
Vdso  == Mapped("vdso", 1, 11, 13, 0, TRUE)
Broken == Mapped("broken", 1, 13, 15, 0, TRUE)

MCMappings == {Exe, Data, Lib1, Lib2, Moved, Newer, Jit, Plugin, Vdso, Broken}
MCInitial == {Exe, Data, Lib1, Lib2, Vdso, Broken}
MCAddrs == {2, 3, 7, 8, 10, 12, 14}
=============================================================================
