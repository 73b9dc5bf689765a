---------------------------- MODULE MCBootstrap ----------------------------
(* Values for model-checking bootstrap. *)
EXTENDS Bootstrap

\* without a filter, as main sets it today, and with one
Filters == {0, 1}
=============================================================================
