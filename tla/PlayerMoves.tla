----------------------------- MODULE PlayerMoves -----------------------------
(***************************************************************************)
(* The interactive player moves of path_finding.c: move_player_in_direction *)
(* finds the player, computes the new position for a direction_t, and      *)
(* move_player writes the player there and empties the old cell when       *)
(* legal_move (is_neighbor and legal_position) allows it.                  *)
(***************************************************************************)
EXTENDS Grid, Distances, FiniteSets

CONSTANT Maps   \* the maps the game may start from

ASSUME Maps \subseteq MapT

VARIABLES
    map,   \* the map_t being played on
    last   \* history: the direction of the last call ("none" before any)

vars == <<map, last>>

\* direction_enum of path_finding.h.
Directions == {"left", "right", "up", "down"}

\* is_neighbor: Manhattan distance 1 (N, E, S, W).
is_neighbor(p1, p2) == manhattan_distance(p1, p2) = 1

\* legal_move: one tile away, then legal_position.
legal_move(m, player, new) == is_neighbor(new, player) /\ legal_position(m, new)

\* Faulty move that writes the player but leaves the old cell as it was.
move_player_noclear(m, pos, new) ==
    IF legal_move(m, pos, new) THEN [m EXCEPT ![new] = PLAYER] ELSE m

\* move_player: the map after the move, unchanged if the move is illegal.
move_player(m, pos, new) ==
    IF legal_move(m, pos, new) THEN [m EXCEPT ![new] = PLAYER, ![pos] = EMPTY] ELSE m

\* The switch of move_player_in_direction on uint16_t coordinates.
NewPosition(d, p) ==
    CASE d = "left"  -> Coord(p.x, p.y - 1)
      [] d = "right" -> Coord(p.x, p.y + 1)
      [] d = "up"    -> Coord(p.x + 1, p.y)
      [] d = "down"  -> Coord(p.x - 1, p.y)

move_player_in_direction(d) ==
    LET player_pos == find_player(map)
    IN  /\ map' = move_player(map, player_pos, NewPosition(d, player_pos))
        /\ last' = d

Init == map \in Maps /\ last = "none"

Next == \E d \in Directions : move_player_in_direction(d)

Spec == Init /\ [][Next]_vars

(***************************************************************************)
(* Properties                                                              *)
(***************************************************************************)
Players(m) == {c \in Cells : m[c] = PLAYER}
Walls(m)   == {c \in Cells : m[c] = WALL}

\* A move only moves the player: it never creates or removes a player tile
\* and never erases or adds a wall, whatever the map and direction.
OnlyThePlayerMoves ==
    [][Walls(map') = Walls(map) /\ Cardinality(Players(map')) = Cardinality(Players(map))]_vars

\* The neighbour each direction names in the neighbour generators of
\* path_finding.c (get_neighbors_simple/four/eight: up = x - 1, down = x + 1,
\* left = y - 1, right = y + 1), matching print_map_with_additions, which
\* prints row x = 0 at the top.
DirectionStep(d, p) ==
    CASE d = "left"  -> Left(p)
      [] d = "right" -> Right(p)
      [] d = "up"    -> Up(p)
      [] d = "down"  -> Down(p)

\* Whenever move_player_in_direction actually moves the player, it moves it
\* to the neighbour that the rest of the program calls by that direction.
MovesFollowDirectionNames ==
    [][map' # map => find_player(map') = DirectionStep(last', find_player(map))]_vars
====
