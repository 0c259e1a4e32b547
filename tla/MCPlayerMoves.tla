---------------------------- MODULE MCPlayerMoves ----------------------------
(***************************************************************************)
(* Model-checking instance of PlayerMoves over the map sets of MCGridMaps. *)
(***************************************************************************)
EXTENDS PlayerMoves, MCGridMaps
====
