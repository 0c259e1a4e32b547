------------------------------ MODULE MCGridMaps ------------------------------
(***************************************************************************)
(* Map sets for model checking: every map of the grid with at most one     *)
(* player and at most one goal tile, any set of walls elsewhere.  A map     *)
(* without a player or goal is a map the program can be built with (the    *)
(* "goal" map of path.h has no player).                                     *)
(***************************************************************************)
EXTENDS Grid

NoCell == [x |-> SizeX, y |-> SizeY]

\* The map with the player at s, the goal at g and walls on W elsewhere.
MkMap(s, g, W) ==
    [c \in Cells |-> IF c = s THEN PLAYER
                     ELSE IF c = g THEN GOAL
                     ELSE IF c \in W THEN WALL ELSE EMPTY]

MCMaps ==
    { MkMap(s, g, W) :
        s \in Cells \cup {NoCell}, g \in Cells \cup {NoCell}, W \in SUBSET Cells }

\* The maps that hold both a player and a goal tile.
MCMapsWithBoth ==
    {m \in MCMaps : \E s, g \in Cells : m[s] = PLAYER /\ m[g] = GOAL}

\* The maps that hold a player tile.
MCMapsWithPlayer ==
    {m \in MCMaps : \E s \in Cells : m[s] = PLAYER}

\* Larger grids: the player in the top-left and the goal in the bottom-right
\* corner, every set of walls in between.
MCCornerMaps ==
    LET s == [x |-> 0, y |-> 0]
        g == [x |-> SizeX - 1, y |-> SizeY - 1]
    IN  { MkMap(s, g, W) : W \in SUBSET (Cells \ {s, g}) }
====
