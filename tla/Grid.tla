-------------------------------- MODULE Grid --------------------------------
(***************************************************************************)
(* The grid model and neighbour generators of the A* path-finding lab      *)
(* (src/asm_lab04/arm/path/path_finding.c, path_finding.h, path.h).        *)
(*                                                                         *)
(* A map is a function from the cells [x: 0..SizeX-1, y: 0..SizeY-1] to a  *)
(* tile.  Coordinates are uint16_t fields (Pair in path_finding.h), so a   *)
(* step off the top or left edge wraps to 65535 rather than going          *)
(* negative; every candidate coordinate is reduced modulo 2^16.            *)
(***************************************************************************)
EXTENDS Integers, Sequences

CONSTANTS
    SizeX,      \* MAP_SIZE_X
    SizeY       \* MAP_SIZE_Y

ASSUME SizeX \in 1..16 /\ SizeY \in 1..16

\* Tile characters of path.h.
EMPTY  == "."
WALL   == "W"
PLAYER == "p"
GOAL   == "@"
Tiles  == {EMPTY, WALL, PLAYER, GOAL}

Cells == [x : 0..SizeX-1, y : 0..SizeY-1]

\* Every value a uint16_t coordinate pair can hold near the grid: the cells
\* and the wrapped-around 65535 row or column.
U16(n) == n % 65536
Coord(a, b) == [x |-> U16(a), y |-> U16(b)]

MapT == [Cells -> Tiles]

\* on_map and the bounds half of legal_position.
on_map(p) == p.x < SizeX /\ p.y < SizeY

\* place_on_map: write a tile or symbol into a cell, ignored off the map.
place_on_map(m, p, t) == IF on_map(p) THEN [m EXCEPT ![p] = t] ELSE m

\* Faulty legality test that forgets the wall check.
legal_position_nowall(m, p) == on_map(p)

\* legal_position: on the map and not on a wall.  The bounds test comes
\* first, so an off-map coordinate never indexes the map.
legal_position(m, p) == on_map(p) /\ m[p] # WALL

\* Row-major rank of a cell: the order in which find() scans the map.
RowMajor(c) == c.x * SizeY + c.y

\* find: first cell holding thing in row-major order, (0,0) when absent.
find(m, thing) ==
    LET hits == {c \in Cells : m[c] = thing}
    IN  IF hits = {}
          THEN [x |-> 0, y |-> 0]
          ELSE CHOOSE c \in hits : \A d \in hits : RowMajor(c) <= RowMajor(d)

find_goal(m)   == find(m, GOAL)
find_player(m) == find(m, PLAYER)

\* get_position_id: y in the low 16 bits, x shifted into the high 16 bits.
\* The uint32_t key is kept as its two halves <<high, low>> (TLC integers
\* are 32-bit signed and 65535 * 2^16 does not fit); comparing keys as
\* unsigned integers is comparing the halves lexicographically.
PositionId(p) == <<p.x, p.y>>

IdLess(a, b) == a[1] < b[1] \/ (a[1] = b[1] /\ a[2] < b[2])
IdLeq(a, b)  == IdLess(a, b) \/ a = b

\* The candidates in the generators' order, named as in the code.
Left(p)  == Coord(p.x, p.y - 1)
Right(p) == Coord(p.x, p.y + 1)
Up(p)    == Coord(p.x - 1, p.y)
Down(p)  == Coord(p.x + 1, p.y)

\* Keeps the coordinates whose guard holds, in order.
Guarded(s) ==
    LET kept == SelectSeq(s, LAMBDA e : e[1])
    IN  [i \in 1..Len(kept) |-> kept[i][2]]

\* Faulty bounds: the "if (position.x)" guard of the up candidate is
\* missing, so row 0 steps up to the wrapped row 65535.
get_neighbors_simple_noguard(m, p) ==
    Guarded(<< <<p.y # 0, Left(p)>>, <<p.y + 1 < SizeY, Right(p)>>,
               <<TRUE, Up(p)>>, <<p.x + 1 < SizeX, Down(p)>> >>)

\* get_neighbors_simple: in-bounds 4-neighbours, walls ignored.
get_neighbors_simple(m, p) ==
    Guarded(<< <<p.y # 0, Left(p)>>, <<p.y + 1 < SizeY, Right(p)>>,
               <<p.x # 0, Up(p)>>, <<p.x + 1 < SizeX, Down(p)>> >>)

\* get_legal_neighbors_4: left, right, up, down filtered by legal_position.
get_legal_neighbors_4(m, p) ==
    SelectSeq(<<Left(p), Right(p), Up(p), Down(p)>>,
              LAMBDA c : legal_position(m, c))

\* get_legal_neighbors_8: the four, then ne, se, sw, nw, same filter.
get_legal_neighbors_8(m, p) ==
    get_legal_neighbors_4(m, p)
      \o SelectSeq(<<Coord(p.x - 1, p.y + 1), Coord(p.x + 1, p.y + 1),
                     Coord(p.x + 1, p.y - 1), Coord(p.x - 1, p.y - 1)>>,
                   LAMBDA c : legal_position(m, c))

\* get_directions_student: the assembly routine returns a N,S,E,W bit mask
\* of the legal moves; the wrapper turns it into north, south, east, west.
get_directions_student(m, p) ==
    SelectSeq(<<Up(p), Down(p), Right(p), Left(p)>>,
              LAMBDA c : legal_position(m, c))

\* The generator bound to the global get_legal_neighbors pointer.
NeighborPolicies == {"simple", "four", "eight", "student"}
get_legal_neighbors(policy, m, p) ==
    CASE policy = "simple"  -> get_neighbors_simple(m, p)
      [] policy = "four"    -> get_legal_neighbors_4(m, p)
      [] policy = "eight"   -> get_legal_neighbors_8(m, p)
      [] policy = "student" -> get_directions_student(m, p)

(***************************************************************************)
(* Reference definitions, written from the specification's contract       *)
(* (legal moves respect bounds and walls), not from the generators: the    *)
(* properties compare the search against them.                             *)
(***************************************************************************)
AbsDiff(a, b) == IF a > b THEN a - b ELSE b - a

\* q is one legal move away from p: 8-connected for "eight", else 4.
Adjacent(policy, m, p, q) ==
    /\ q \in Cells
    /\ m[q] # WALL
    /\ p # q
    /\ AbsDiff(p.x, q.x) <= 1 /\ AbsDiff(p.y, q.y) <= 1
    /\ policy # "eight" => AbsDiff(p.x, q.x) + AbsDiff(p.y, q.y) = 1

Unreachable == -1

\* Breadth-first distance from the set seen (reached in k moves) to g.
RECURSIVE BfsDistance(_, _, _, _, _)
BfsDistance(policy, m, seen, g, k) ==
    IF g \in seen THEN k
    ELSE LET next == seen \cup {q \in Cells : \E p \in seen : Adjacent(policy, m, p, q)}
         IN  IF next = seen THEN Unreachable
             ELSE BfsDistance(policy, m, next, g, k + 1)

ShortestDistance(policy, m, s, g) == BfsDistance(policy, m, {s}, g, 0)
=============================================================================
