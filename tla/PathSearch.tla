-------------------------- MODULE PathSearch ---------------------------------
(***************************************************************************)
(* What main() and a_star_search of src/asm_lab04/arm/path/path_finding.c  *)
(* promise, with the search itself left out: for each entry of the         *)
(* distance-function table in turn, one search runs on the map and         *)
(* answers either the length of some legal path from the player's tile to  *)
(* the goal tile (as find_player and find_goal locate them) that visits no *)
(* cell twice, or "Search space exhausted" when there is none; then main() *)
(* moves to the next entry.  A shortest path is not promised (the          *)
(* specification, 4.2 and 9, disclaims optimality).                        *)
(*                                                                         *)
(* AStar refines this module (AStar!RefinesPathSearch).                    *)
(***************************************************************************)
EXTENDS Grid, Integers, Sequences, FiniteSets

CONSTANTS
    DFuns,    \* the distance_functions table (only its length matters here)
    Policy,   \* the function get_legal_neighbors points to
    Maps      \* the maps the program may be built with

VARIABLES
    map,      \* the map being searched
    dIdx,     \* main()'s loop index d into DFuns
    status,   \* "idle", "searching", "solved", "exhausted"
    answer    \* the step count of the returned solution (0 otherwise)

vars == <<map, dIdx, status, answer>>

\* The shortest number of legal moves from the player to the goal.
Shortest(m) == ShortestDistance(Policy, m, find_player(m), find_goal(m))

\* main() calls a_star_search for its next distance function.
Start ==
    /\ status = "idle"
    /\ dIdx <= Len(DFuns)
    /\ status' = "searching"
    /\ UNCHANGED <<map, dIdx, answer>>

\* The longest path that visits no cell twice.
MaxSteps == Cardinality(Cells) - 1

\* The for(;;) loop of a_star_search breaks with a solution: a path no
\* shorter than a shortest one and visiting no cell twice.
Solve ==
    /\ status = "searching"
    /\ status' = "solved"
    /\ Shortest(map) # Unreachable
    /\ answer' \in Shortest(map)..MaxSteps
    /\ UNCHANGED <<map, dIdx>>

\* It breaks with "Search space exhausted": there is no legal path.
Exhaust ==
    /\ status = "searching"
    /\ status' = "exhausted"
    /\ Shortest(map) = Unreachable
    /\ UNCHANGED <<map, dIdx, answer>>

\* a_star_search frees its structures and returns; d is incremented.
Return ==
    /\ status \in {"solved", "exhausted"}
    /\ status' = "idle"
    /\ answer' = 0
    /\ dIdx' = dIdx + 1
    /\ UNCHANGED map

Init ==
    /\ map \in Maps
    /\ dIdx = 1
    /\ status = "idle"
    /\ answer = 0

Next == Start \/ Solve \/ Exhaust \/ Return

\* The states in which Next is enabled.
CanStep == status # "idle" \/ dIdx <= Len(DFuns)

\* Every search started returns, and main() gets through its table: this is
\* WF_vars(Next), with CanStep for ENABLED <<Next>>_vars, so that the
\* property stays a state predicate under AStar's refinement mapping.
Fairness == <>[]CanStep => []<><<Next>>_vars

Spec == Init /\ [][Next]_vars /\ Fairness
=============================================================================
