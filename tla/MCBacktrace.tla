----------------------------- MODULE MCBacktrace -----------------------------
(***************************************************************************)
(* Model-checking instance of Backtrace: every character getc() returns.   *)
(***************************************************************************)
EXTENDS Backtrace

MCSeeds == 0..255
====
