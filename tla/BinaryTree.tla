------------------------------ MODULE BinaryTree ------------------------------
(***************************************************************************)
(* The binary search tree exercise, src/asm_lab06/x86/binary_tree/main.c:  *)
(* main() allocates a root and inserts further nodes one at a time with    *)
(* the recursive insert().  It never frees: its free_tree() calls are      *)
(* commented out ("There is a bug with free ...").  free_tree(), which     *)
(* collects the nodes with get_all_nodes() into a static array of MAX_NODES *)
(* entries and frees each one, is kept as an operator and checked on every *)
(* tree main() can build.                                                   *)
(*                                                                         *)
(* Nodes live in an arena: nodes[i] is the i-th allocate_node_with_data and *)
(* left/right = 0 stands for NULL.  The root is nodes[1].  The data strings *)
(* only label the nodes for the traversal and are left out.                *)
(***************************************************************************)
EXTENDS Integers, Sequences, SequencesExt, FiniteSets

CONSTANTS
    Values,      \* the values main() may insert
    MaxInserts,  \* bound on the number of insert() calls of a behaviour
    MAX_NODES    \* capacity of free_tree's static array

ASSUME /\ Values \subseteq Nat /\ Values # {}
       /\ MaxInserts \in Nat
       /\ MAX_NODES \in Nat \ {0}

VARIABLES
    nodes,   \* the arena: <<[value, left, right]>>
    crashed  \* insert() read through a NULL pointer (the process faulted)

vars == <<nodes, crashed>>

NULL == 0

\* main()'s root pointer: NULL when its allocation failed.
Root == IF nodes = <<>> THEN NULL ELSE 1

\* allocate_node_with_data: a fresh node with no children.
allocate_node_with_data(v) == [value |-> v, left |-> NULL, right |-> NULL]

\* Faulty insert whose comparison is strict: equal values go right.
RECURSIVE insert_strict(_, _, _)
insert_strict(ns, n, r) ==
    IF ns[n].value < ns[r].value
      THEN IF ns[r].left # NULL THEN insert_strict(ns, n, ns[r].left)
           ELSE [ns EXCEPT ![r].left = n]
      ELSE IF ns[r].right # NULL THEN insert_strict(ns, n, ns[r].right)
           ELSE [ns EXCEPT ![r].right = n]

\* insert(node, root): smaller or equal values descend left, larger right,
\* until an empty child slot takes the node.
RECURSIVE insert(_, _, _)
insert(ns, n, r) ==
    IF ns[n].value <= ns[r].value
      THEN IF ns[r].left # NULL THEN insert(ns, n, ns[r].left)
           ELSE [ns EXCEPT ![r].left = n]
      ELSE IF ns[r].right # NULL THEN insert(ns, n, ns[r].right)
           ELSE [ns EXCEPT ![r].right = n]

\* Faulty collection that stops one slot before the array is full.
RECURSIVE get_all_nodes_early(_, _)
get_all_nodes_early(r, array) ==
    IF r = NULL \/ Len(array) + 1 >= MAX_NODES THEN array
    ELSE LET a1 == Append(array, r)
             a2 == IF nodes[r].left # NULL THEN get_all_nodes_early(nodes[r].left, a1) ELSE a1
         IN  IF nodes[r].right # NULL THEN get_all_nodes_early(nodes[r].right, a2) ELSE a2

\* get_all_nodes(root, array, num): pre-order collection into array, which
\* stops ("Cannot go deeper !") once num reaches MAX_NODES.  The array is
\* the sequence of the num entries written so far.
RECURSIVE get_all_nodes(_, _)
get_all_nodes(r, array) ==
    IF r = NULL \/ Len(array) = MAX_NODES THEN array
    ELSE LET a1 == Append(array, r)
             a2 == IF nodes[r].left # NULL THEN get_all_nodes(nodes[r].left, a1) ELSE a1
         IN  IF nodes[r].right # NULL THEN get_all_nodes(nodes[r].right, a2) ELSE a2

(***************************************************************************)
(* Actions                                                                 *)
(***************************************************************************)
\* insert(allocate_node_with_data(v, ...), root), as main() calls it.
Insert(v) ==
    /\ ~crashed
    /\ Root # NULL
    /\ Len(nodes) <= MaxInserts
    /\ LET n == Len(nodes) + 1
       IN  nodes' = insert(Append(nodes, allocate_node_with_data(v)), n, 1)
    /\ UNCHANGED crashed

\* The same call when malloc() fails: allocate_node_with_data prints
\* "malloc() failed !" and returns NULL, main() passes it on unchecked, and
\* insert's first test reads node->value (or root->value, when the root's
\* own allocation failed): the process faults.
InsertNull ==
    /\ ~crashed
    /\ Len(nodes) <= MaxInserts
    /\ crashed' = TRUE
    /\ UNCHANGED nodes

\* free_tree(root): the number of free() calls it makes on each node: one
\* per entry of the array get_all_nodes fills.
free_tree ==
    LET array == get_all_nodes(Root, <<>>)
    IN  [i \in DOMAIN nodes |-> Cardinality({k \in 1..Len(array) : array[k] = i})]

\* main() starts with root = allocate_node_with_data(...), NULL if malloc fails.
Init ==
    /\ nodes \in {<<allocate_node_with_data(v)>> : v \in Values} \cup {<<>>}
    /\ crashed = FALSE

Next == (\E v \in Values : Insert(v)) \/ InsertNull

Spec == Init /\ [][Next]_vars

(***************************************************************************)
(* Properties                                                              *)
(***************************************************************************)
\* In-order sequence of the subtree at r: what traverse_tree_asm prints.
RECURSIVE InOrder(_)
InOrder(r) ==
    IF r = NULL THEN <<>>
    ELSE InOrder(nodes[r].left) \o <<r>> \o InOrder(nodes[r].right)

\* Node i is printed before node j: a smaller value, or an equal value
\* inserted later (an equal value descends left of every earlier one).
PrintedBefore(i, j) ==
    \/ nodes[i].value < nodes[j].value
    \/ nodes[i].value = nodes[j].value /\ i > j

\* The traversal prints every inserted node once, in ascending value order,
\* so trees built from the same words in different orders print the same
\* sentence (main() line 134), and equal values come out newest first.
TraversalIsSortedSentence ==
    LET s == InOrder(Root) IN
    /\ Len(s) = Len(nodes)
    /\ ToSet(s) = DOMAIN nodes
    /\ \A k \in 1..Len(s) - 1 : PrintedBefore(s[k], s[k+1])

\* free_tree "unallocates all nodes of a tree, root included": called on
\* any tree main() can build that fits MAX_NODES, it would free every node
\* exactly once, so the "bug with free" main() works around by not calling
\* it (main.c:173) is not in free_tree's collection of the nodes.
FreeTreeFreesAll ==
    Len(nodes) <= MAX_NODES => \A i \in DOMAIN nodes : free_tree[i] = 1
=============================================================================
