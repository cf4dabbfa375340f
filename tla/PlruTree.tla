------------------------------ MODULE PlruTree ------------------------------
(***************************************************************************)
(* The line controller of the tree-based pseudo LRU policy                 *)
(* (plru_line_controller.v).  A set of 2^Layers lines has a binary tree of *)
(* nodes; every node points to the half in which the line to replace is    *)
(* looked for.  A line is its address bit by bit, the most significant     *)
(* first, and a node is the bits that lead to it.  As in RecencyStack, the *)
(* environment is the cache controller's: a miss is followed by the fill   *)
(* of the line that addr_o names and by the repeated reference, which hits.*)
(***************************************************************************)
EXTENDS Naturals, FiniteSets

CONSTANT Layers   \* LAYERS, log2 of N_LOCATIONS

ASSUME PlruAssumption == Layers \in Nat \ {0}

VARIABLES
  tree,      \* tree_nodes_reg
  cold,      \* cold_start_counter, one bit wider than an address
  coldDone,  \* cold_start_done_reg
  target,    \* the line that is being filled, addr_o when the cache took it
  held,      \* lines whose tag is valid
  waiting,   \* a miss has not been repeated yet
  newer      \* history: newer[l], the lines referenced since l was

plruVars == <<tree, cold, coldDone, target, held, waiting, newer>>

Layer == 0 .. Layers - 1
Leaf  == [Layer -> 0 .. 1]
Tree  == UNION {[0 .. i - 1 -> 0 .. 1] : i \in Layer}

\* The node above a leaf at a layer, update_index_ptrs.
Node(l, i) == [j \in 0 .. i - 1 |-> l[j]]

\* The leaf that a counter's lower bits name.
AsLeaf(n) == [i \in Layer |-> (n \div 2 ^ (Layers - 1 - i)) % 2]

PlruInit ==
  /\ tree = [n \in Tree |-> 0]
  /\ cold = 2 ^ Layers - 1
  /\ coldDone = FALSE
  /\ target = [i \in Layer |-> 0]
  /\ held = {}
  /\ waiting = FALSE
  /\ newer = [l \in Leaf |-> {}]

\* addr_rep_ptr: the leaf that all nodes above it point to.
Pointed == CHOOSE l \in Leaf : \A i \in Layer : tree[Node(l, i)] = l[i]

\* A mutation of TurnAway: the node above the leaf keeps its value.
TurnAwayShort(l) ==
  tree' = [n \in Tree |->
             IF \E i \in 0 .. Layers - 2 : n = Node(l, i) /\ tree[n] = l[i]
             THEN 1 - tree[n] ELSE tree[n]]

\* Nodes on the path to the referenced leaf that point to it are inverted.
TurnAway(l) ==
  tree' = [n \in Tree |->
             IF \E i \in Layer : n = Node(l, i) /\ tree[n] = l[i]
             THEN 1 - tree[n] ELSE tree[n]]

Touch(l) ==
  /\ IF coldDone THEN TurnAway(l) ELSE UNCHANGED tree
  /\ newer' = [m \in Leaf |-> IF m = l THEN {} ELSE newer[m] \cup {l}]

PlruHit(l) ==
  /\ ~waiting /\ l \in held
  /\ Touch(l)
  /\ UNCHANGED <<cold, coldDone, target, held, waiting>>

\* miss_i: the counter starts at 2^Layers - 1, so its first increment already
\* carries into the bit that ends the cold start.
PlruMiss ==
  /\ ~waiting
  /\ cold' = (cold + 1) % (2 * 2 ^ Layers)
  /\ coldDone' = (coldDone \/ cold' >= 2 ^ Layers)
  /\ target' = IF coldDone' THEN Pointed ELSE AsLeaf(cold')
  /\ waiting' = TRUE
  /\ UNCHANGED <<tree, held, newer>>

PlruRefill ==
  /\ waiting
  /\ waiting' = FALSE
  /\ held' = held \cup {target}
  /\ Touch(target)
  /\ UNCHANGED <<cold, coldDone, target>>

PlruNext == (\E l \in Leaf : PlruHit(l)) \/ PlruMiss \/ PlruRefill

PlruSpec == PlruInit /\ [][PlruNext]_plruVars

-----------------------------------------------------------------------------
\* The line given up is none of the Layers lines referenced last: the bits of
\* the tree stand for at least that much of the order that LRU keeps.
PlruKeepsRecent ==
  waiting /\ target \in held => Cardinality(newer[target]) >= Layers
=============================================================================
