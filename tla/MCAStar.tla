------------------------------- MODULE MCAStar -------------------------------
(***************************************************************************)
(* Model-checking instance of AStar over the map sets of MCGridMaps.       *)
(***************************************************************************)
EXTENDS AStar, MCGridMaps

\* main()'s table: discrete, Hamming, Manhattan, sum of squared differences.
MCDFuns == <<"discrete", "hamming", "manhattan", "ssd">>
=============================================================================
