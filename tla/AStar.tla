-------------------------------- MODULE AStar --------------------------------
(***************************************************************************)
(* The A* solver of src/asm_lab04/arm/path/path_finding.c: main()'s loop    *)
(* over the distance functions, a_star_search, a_star_search_step, the      *)
(* sorted Cache (cache_lookup, clear_cache) and the priority Queue          *)
(* (enqueue, dequeue, clear_queue).                                         *)
(*                                                                         *)
(* Nodes live in an arena: nodes[i] is the i-th malloc of the current       *)
(* search, prev = 0 stands for NULL, and frees counts the free() calls made *)
(* on it, so a use after free or a double free is visible in the state.    *)
(* Queue and Cache are sequences in array order (index 1 = element 0).     *)
(***************************************************************************)
EXTENDS Grid, Distances, Integers, Sequences, SequencesExt, FiniteSets

CONSTANTS
    DFuns,           \* the distance_functions table main() iterates over
    Policy,          \* the function get_legal_neighbors points to
    QueueCapacity,   \* QUEUE_CAPACITY
    CacheCapacity,   \* CACHE_CAPACITY
    Maps             \* the maps the program may be built with

ASSUME /\ DFuns \in Seq(DistanceNames) /\ DFuns # <<>>
       /\ Policy \in NeighborPolicies
       /\ QueueCapacity \in Nat \ {0} /\ CacheCapacity \in Nat \ {0}
       /\ Maps \subseteq MapT

VARIABLES
    map,        \* the map being searched (const map_t)
    dIdx,       \* main()'s loop index d into DFuns
    phase,      \* "idle", "running", "solved", "exhausted", "hung"
    goal,       \* a_star_search's goal = find_goal(map)
    nodes,      \* the arena of nodes allocated by the current search
    queue,      \* Queue: <<[node, prio]>>, lowest priority last
    cache,      \* Cache: <<[id, node]>>, kept in ascending id order
    lastPrio,   \* priority of the node dequeued last in this search
    solution    \* node returned by a_star_search_step on success (0: none)

vars == <<map, dIdx, phase, goal, nodes, queue, cache, lastPrio, solution>>

\* The heuristic installed in distance_function for this search.
Dist(a, b) == distance_function(DFuns[dIdx], a, b)

\* Faulty goal test that accepts a cell one unit of distance away.
is_goal_near(p) == Dist(p, goal) <= 1

\* is_goal: the active distance to the goal is zero.
is_goal(p) == Dist(p, goal) = 0

\* struct Node: the map pointer is the constant map, prev is an arena index
\* (0 for NULL); frees counts the free() calls made on the node.
Node == [pos : Cells, steps : Nat, prev : Nat, frees : Nat]

\* struct Queue and struct Cache of at most their capacities, over the
\* arena ns: Queue's parallel arrays elements/priorities as one record.
Queue(ns) == {q \in Seq([node : DOMAIN ns, prio : Nat]) : Len(q) <= QueueCapacity}
Cache(ns) == {c \in Seq([id : Nat \X Nat, node : DOMAIN ns]) : Len(c) <= CacheCapacity}

\* node_from_initial_map: a node at find_player(map), no steps, no prev.
node_from_initial_map(m) == [pos |-> find_player(m), steps |-> 0, prev |-> 0, frees |-> 0]

\* clear_queue: size = 0.
clear_queue == <<>>

\* Faulty deallocation that never calls free().
deallocate_node_skip(ns, n) == ns

\* deallocate_node.
deallocate_node(ns, n) == [ns EXCEPT ![n].frees = @ + 1]

(***************************************************************************)
(* Cache                                                                   *)
(***************************************************************************)
\* clear_cache: deallocate_node on the node of every entry, then size = 0
\* (the caller's cache' = <<>>).
clear_cache(ns, c) ==
    [i \in DOMAIN ns |->
        [ns[i] EXCEPT !.frees = @ + Cardinality({k \in 1..Len(c) : c[k].node = i})]]

\* Faulty lookup that never reports a hit.
CacheHitNever(c, id) == FALSE

\* The linear scan of cache_lookup.
CacheHit(c, id) == \E k \in 1..Len(c) : c[k].id = id

\* Faulty insertion that appends instead of shifting larger ids up.
CacheInsertAppend(c, id, n) == Append(c, [id |-> id, node |-> n])

\* The shift loop of cache_lookup: entries with a larger id move up one
\* slot, so the new entry lands after the last entry whose id is <= id.
CacheInsert(c, id, n) ==
    LET at == Max({j \in 0..Len(c) : j = 0 \/ IdLeq(c[j].id, id)})
    IN  InsertAt(c, at + 1, [id |-> id, node |-> n])

(***************************************************************************)
(* Queue                                                                   *)
(***************************************************************************)
\* The shift loop of enqueue: entries with a lower priority move up one
\* slot, so the new entry lands after the last entry whose priority is >=
\* its own (equal priorities: the newest is dequeued first).
QueueInsert(q, n, prio) ==
    LET at == Max({j \in 0..Len(q) : j = 0 \/ q[j].prio >= prio})
    IN  InsertAt(q, at + 1, [node |-> n, prio |-> prio])


\* dequeue returns elements[--size]: the last element.
DequeueIndex(q) == Len(q)

\* Faulty enqueue priority that forgets the steps taken so far.
PriorityNoSteps(d, steps) == d

\* The priority a_star_search_step passes to enqueue: distance + steps.
Priority(d, steps) == d + steps

(***************************************************************************)
(* One neighbour of the loop in a_star_search_step: malloc a node, then     *)
(* cache_lookup frees it on a hit; on a miss it is inserted into the cache  *)
(* and enqueued.  A full cache or queue spins forever (for(;;)), which the  *)
(* model records as hung and no later neighbour is processed.              *)
(***************************************************************************)
ExpandOne(w, st, c) ==
    LET n    == Len(st.nodes) + 1
        node == [pos |-> c, steps |-> st.nodes[w].steps + 1, prev |-> w, frees |-> 0]
        ns   == Append(st.nodes, node)
        id   == PositionId(c)
    IN  CASE st.hung -> st
          [] CacheHit(st.cache, id) ->
                [st EXCEPT !.nodes = deallocate_node(ns, n)]
          [] Len(st.cache) = CacheCapacity ->
                [st EXCEPT !.nodes = ns, !.hung = TRUE]
          [] Len(st.queue) = QueueCapacity ->
                [st EXCEPT !.nodes = ns, !.cache = CacheInsert(st.cache, id, n),
                           !.hung = TRUE]
          [] OTHER ->
                [st EXCEPT !.nodes = ns, !.cache = CacheInsert(st.cache, id, n),
                           !.queue = QueueInsert(st.queue, n,
                                        Priority(Dist(c, goal), node.steps))]

(***************************************************************************)
(* main(): start the search of the d-th distance function on the map.      *)
(* a_star_search callocs Queue and Cache, allocates the initial node at     *)
(* find_player(map), enqueues it, then records it with cache_lookup.       *)
(***************************************************************************)
StartSearch ==
    /\ phase = "idle"
    /\ dIdx <= Len(DFuns)
    /\ LET s == find_player(map)
           g == find_goal(map)
       IN  /\ goal' = g
           /\ nodes' = <<node_from_initial_map(map)>>
           /\ queue' = <<[node |-> 1,
                          prio |-> Priority(distance_function(DFuns[dIdx], s, g), 0)]>>
           /\ cache' = <<[id |-> PositionId(s), node |-> 1]>>
    /\ phase' = "running"
    /\ lastPrio' = 0
    /\ solution' = 0
    /\ UNCHANGED <<map, dIdx>>

(***************************************************************************)
(* a_star_search_step, one action per outcome.                             *)
(***************************************************************************)
\* dequeue on an empty queue returns NULL: the step returns -1 and the
\* driver loop breaks with "Search space exhausted".
Exhaust ==
    /\ phase = "running"
    /\ queue = <<>>
    /\ phase' = "exhausted"
    /\ UNCHANGED <<map, dIdx, goal, nodes, queue, cache, lastPrio, solution>>

\* The dequeued node is at the goal: the step returns it and the loop breaks.
ReachGoal ==
    /\ phase = "running"
    /\ queue # <<>>
    /\ LET k == DequeueIndex(queue) IN
       /\ is_goal(nodes[queue[k].node].pos)
       /\ solution' = queue[k].node
       /\ lastPrio' = queue[k].prio
       /\ queue' = RemoveAt(queue, k)
    /\ phase' = "solved"
    /\ UNCHANGED <<map, dIdx, goal, nodes, cache>>

\* Otherwise the dequeued node is expanded over its legal neighbours.
\* The for loop over the neighbours, in the generator's order.
RECURSIVE ExpandAll(_, _, _)
ExpandAll(w, st, cs) ==
    IF cs = <<>> THEN st ELSE ExpandAll(w, ExpandOne(w, st, Head(cs)), Tail(cs))

Expand ==
    /\ phase = "running"
    /\ queue # <<>>
    /\ LET k == DequeueIndex(queue)
           w == queue[k].node
           r == ExpandAll(w, [nodes |-> nodes, queue |-> RemoveAt(queue, k),
                              cache |-> cache, hung |-> FALSE],
                          get_legal_neighbors(Policy, map, nodes[w].pos))
       IN  /\ ~is_goal(nodes[w].pos)
           /\ lastPrio' = queue[k].prio
           /\ nodes' = r.nodes
           /\ queue' = r.queue
           /\ cache' = r.cache
           /\ phase' = IF r.hung THEN "hung" ELSE "running"
    /\ UNCHANGED <<map, dIdx, goal, solution>>

(***************************************************************************)
(* After the loop: clear_queue, clear_cache (free every cached node),      *)
(* free Queue and Cache, return to main(), which moves to the next         *)
(* distance function.                                                      *)
(***************************************************************************)
Finish ==
    /\ phase \in {"solved", "exhausted"}
    /\ queue' = clear_queue
    /\ nodes' = clear_cache(nodes, cache)
    /\ cache' = <<>>
    /\ phase' = "idle"
    /\ dIdx' = dIdx + 1
    /\ UNCHANGED <<map, goal, lastPrio, solution>>

Init ==
    /\ map \in Maps
    /\ dIdx = 1
    /\ phase = "idle"
    /\ goal = [x |-> 0, y |-> 0]
    /\ nodes = <<>>
    /\ queue = <<>>
    /\ cache = <<>>
    /\ lastPrio = 0
    /\ solution = 0

Next == StartSearch \/ Exhaust \/ ReachGoal \/ Expand \/ Finish

\* The states in which some action of Next is enabled: a running search
\* always has Exhaust, ReachGoal or Expand (the queue is empty or not, its
\* last node is the goal or not), a returned one Finish, and main() starts
\* the next search while its table has entries.  A hung search has none.
CanStep ==
    \/ phase = "idle" /\ dIdx <= Len(DFuns)
    \/ phase \in {"running", "solved", "exhausted"}

\* The program is one sequential loop: whenever a step is possible it is
\* taken.  This is WF_vars(Next), with CanStep for ENABLED <<Next>>_vars.
Fairness == <>[]CanStep => []<><<Next>>_vars

Spec == Init /\ [][Next]_vars /\ Fairness

(***************************************************************************)
(* Properties                                                              *)
(***************************************************************************)
Live == {i \in DOMAIN nodes : nodes[i].frees = 0}
InSearch == phase \in {"running", "solved", "exhausted"}

\* Types; in particular every node's position is a cell of the map: the
\* uint16_t wrap-around of position.x - 1 and position.y - 1 on the top and
\* left edges never yields a node.
TypeOK ==
    /\ map \in MapT
    /\ dIdx \in 1..Len(DFuns) + 1
    /\ phase \in {"idle", "running", "solved", "exhausted", "hung"}
    /\ goal \in Cells
    /\ nodes \in Seq(Node)
    /\ queue \in Queue(nodes)
    /\ cache \in Cache(nodes)
    /\ lastPrio \in Nat
    /\ solution \in 0..Len(nodes)

\* The positions from the first node to node i, following prev (prev < i).
RECURSIVE PathTo(_)
PathTo(i) ==
    IF nodes[i].prev = 0 THEN <<nodes[i].pos>>
    ELSE Append(PathTo(nodes[i].prev), nodes[i].pos)

\* connecting_symbol(prev, next): the line drawn on the cell between two
\* path cells; the diagonals only when get_legal_neighbors is _8.
connecting_symbol(prev, next) ==
    LET c == [x |-> IF prev.x > next.x THEN prev.x ELSE next.x,
              y |-> IF prev.y > next.y THEN prev.y ELSE next.y]
    IN  CASE prev.x = next.x -> "-"
          [] prev.y = next.y -> "|"
          [] Policy = "eight" /\ (c = prev \/ c = next) -> "\\"
          [] Policy = "eight" -> "/"
          [] OTHER -> "+"

\* Faulty drawing that writes the symbol on node's own cell, not its prev's.
RECURSIVE DrawPathShifted(_, _)
DrawPathShifted(m, i) ==
    IF nodes[i].prev = 0 THEN m
    ELSE LET p == nodes[i].prev IN
         DrawPathShifted(IF nodes[p].prev # 0
                           THEN place_on_map(m, nodes[i].pos,
                                  connecting_symbol(nodes[i].pos, nodes[nodes[p].prev].pos))
                           ELSE m, p)

\* The while (node->prev) loop of print_path_to_node: every node whose prev
\* has a prev gets connecting_symbol(node, prev->prev) drawn on prev's cell.
RECURSIVE DrawPath(_, _)
DrawPath(m, i) ==
    IF nodes[i].prev = 0 THEN m
    ELSE LET p == nodes[i].prev IN
         DrawPath(IF nodes[p].prev # 0
                    THEN place_on_map(m, nodes[p].pos,
                           connecting_symbol(nodes[i].pos, nodes[nodes[p].prev].pos))
                    ELSE m, p)

\* print_path_to_node: the solution_map (a copy of the node's map) with the
\* path drawn on it, as print_map then prints it.
print_path_to_node(i) == DrawPath(map, i)

\* Memory discipline of cache_lookup and clear_cache: no node is freed twice;
\* while a search runs, the live nodes are exactly those the cache owns and
\* every live node's prev is live (the chain print_path_to_node walks holds
\* no dangling pointer); once a search has returned, every node it
\* allocated has been freed.
NodeLifetime ==
    /\ \A i \in DOMAIN nodes : nodes[i].frees <= 1
    /\ InSearch =>
         /\ Live = {cache[k].node : k \in 1..Len(cache)}
         /\ \A i \in Live : nodes[i].prev = 0 \/ nodes[i].prev \in Live
    /\ phase = "idle" => Live = {}

\* The cache is a set: entries are in strictly ascending id order, so no
\* position is recorded twice, and every entry's id is its node's position.
CacheIsSortedSet ==
    InSearch =>
      \A k \in 1..Len(cache) :
         /\ cache[k].id = PositionId(nodes[cache[k].node].pos)
         /\ k > 1 => IdLess(cache[k-1].id, cache[k].id)

\* Bounds of Queue and Cache: the cache holds at most one entry per cell of
\* the map and the queue only cached nodes, so QUEUE_CAPACITY and
\* CACHE_CAPACITY (1024, 2048 for the 80 cells of the lab) are never
\* reached and the for(;;) of a full queue or cache is dead code.
FrontierBounded ==
    Len(queue) <= Len(cache) /\ Len(cache) <= Cardinality(Cells)

\* A returned solution is a legal path: it starts at the player, ends at
\* the goal, every move is to an adjacent non-wall cell of the map, and
\* its length is the node's step count.
SolutionIsLegalPath ==
    phase = "solved" =>
      LET path == PathTo(solution) IN
      /\ path[1] = find_player(map)
      /\ path[Len(path)] = goal
      /\ Len(path) = nodes[solution].steps + 1
      /\ \A k \in 1..Len(path) - 1 : Adjacent(Policy, map, path[k], path[k+1])

\* The map print_path_to_node prints for a solution shows the path: the
\* player's and the goal's tiles are left as they are, every cell strictly
\* between them on the path carries a connecting symbol, and no other cell
\* of the map is changed.
SolutionMapShowsPath ==
    phase = "solved" =>
      LET sm == print_path_to_node(solution)
          path == PathTo(solution)
      IN  /\ sm[path[1]] = map[path[1]]
          /\ sm[goal] = map[goal]
          /\ \A k \in 2..Len(path) - 1 : sm[path[k]] \in {"-", "|", "+", "\\", "/"}
          /\ \A c \in Cells \ ToSet(path) : sm[c] = map[c]

\* The heuristic of this search never drops by more than one per legal move
\* towards the goal of this map (it is consistent here).
HeuristicConsistent ==
    \A p, q \in Cells : Adjacent(Policy, map, p, q) => Dist(p, goal) <= Dist(q, goal) + 1

\* With a heuristic consistent on the map, nodes leave the queue in
\* non-decreasing priority: nothing still pending has a lower f = g + h
\* than the node dequeued last, whichever entry of the table is in use.
FrontierNotBelowExpanded ==
    phase = "running" /\ HeuristicConsistent =>
      \A k \in 1..Len(queue) : queue[k].prio >= lastPrio

\* A search runs only from the player's tile to the goal tile of the map:
\* the map must contain both (section 7 of the specification: NoStartOrGoal
\* fails fast before searching).
SearchBetweenPlayerAndGoal ==
    InSearch => map[nodes[1].pos] = PLAYER /\ map[goal] = GOAL

\* The refinement mapping: a running (or hung) search is "searching", and
\* the answer is the step count of the solution while it is returned.  The
\* abstract search may start from any map of the grid (MapT).
SearchStatus ==
    CASE phase = "idle"                -> "idle"
      [] phase \in {"running", "hung"} -> "searching"
      [] OTHER                         -> phase

ABS == INSTANCE PathSearch
         WITH Maps   <- MapT,
              status <- SearchStatus,
              answer <- IF phase = "solved" THEN nodes[solution].steps ELSE 0

\* A* with the first-path cache implements the path search main() relies
\* on, under every heuristic of the table: each search returns, it reports
\* exhaustion only when no legal path from the player to the goal exists
\* (the cache never drops a reachable cell), and otherwise a solution whose
\* step count is at least the shortest distance and at most one step per
\* other cell (the cached positions on its prev chain are distinct).
RefinesPathSearch == ABS!Spec

=============================================================================
