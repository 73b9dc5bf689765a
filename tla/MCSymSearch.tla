---------------------------- MODULE MCSymSearch ----------------------------
(* Values for model-checking the search: every table of a few symbols, with  *)
(* aliases, labels of size 0, gaps, overlaps and symbols inside others.      *)
EXTENDS SymSearch, SequencesExt

CONSTANTS MaxSyms, MaxAddr

\* sym_cmp; the order of two symbols with one start is that of their names,
\* which the search does not see
sym_cmp(s, t) == s.start < t.start

Symbols == [start : 1..MaxAddr, size : 0..2]

SomeTables == {SortSeq(tab, sym_cmp) : tab \in BoundedSeq(Symbols, MaxSyms)}

SomeAddrs == 0..(MaxAddr + 1)
=============================================================================
