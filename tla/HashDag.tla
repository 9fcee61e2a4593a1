------------------------------- MODULE HashDag -------------------------------
(***************************************************************************)
(* HashDAG (files/dag.rs): which hash is contained in which archive, and   *)
(* the breadth first searches over it.                                     *)
(*                                                                         *)
(* A node stands for its own index: add maps each id to one index and      *)
(* never removes it.  The graph is built by one owner, and a search runs   *)
(* to its end under a shared borrow, so nothing is added during a search.  *)
(* Nothing keeps the graph acyclic ("doesn't enforce DAGness").            *)
(***************************************************************************)
EXTENDS Naturals, FiniteSets

CONSTANTS Ids,        \* the ids that may be added
          EdgeData,   \* what an edge may carry
          None        \* no id, no data

ASSUME NoneIsNoData == None \notin EdgeData

VARIABLES
    nodes,       \* the ids added so far
    children,    \* HashNode.children of each id
    parents,     \* HashNode.parents of each id
    edge_map,    \* data by <<parent, child>>
    search,      \* "descendants" or "ancestors" while one runs, or "none"
    start,       \* the id it starts from
    unexplored,  \* its queue
    found        \* descendant_idxs or ancestor_idxs

graph == <<nodes, children, parents, edge_map>>
dagVars == <<nodes, children, parents, edge_map, search, start, unexplored, found>>

Init ==
    /\ nodes = {}
    /\ children = [i \in Ids |-> {}]
    /\ parents = [i \in Ids |-> {}]
    /\ edge_map = [e \in {} |-> None]
    /\ search = "none" /\ start = None
    /\ unexplored = {} /\ found = {}

(* HashMap::insert for each edge. *)
WithEdges(edges, data) ==
    [e \in edges \union DOMAIN edge_map |-> IF e \in edges THEN data ELSE edge_map[e]]

add(id) ==
    /\ search = "none"
    /\ nodes' = nodes \union {id}
    /\ UNCHANGED <<children, parents, edge_map, search, start, unexplored, found>>

(* Mutant: the child does not learn of its parent. *)
add_relationship_one_way(child, parent, data) ==
    /\ search = "none"
    /\ {child, parent} \subseteq nodes
    /\ children' = [children EXCEPT ![parent] = @ \union {child}]
    /\ edge_map' = WithEdges({<<parent, child>>}, data)
    /\ UNCHANGED <<nodes, parents, search, start, unexplored, found>>

(* Mutant: the parent is not looked up before the edge is made. *)
add_relationship_unchecked(child, parent, data) ==
    /\ search = "none"
    /\ child \in nodes
    /\ children' = [children EXCEPT ![parent] = @ \union {child}]
    /\ parents' = [parents EXCEPT ![child] = @ \union {parent}]
    /\ edge_map' = WithEdges({<<parent, child>>}, data)
    /\ UNCHANGED <<nodes, search, start, unexplored, found>>

(* Err(NoNode) for an id that was not added; nothing has changed then. *)
add_relationship(child, parent, data) ==
    /\ search = "none"
    /\ {child, parent} \subseteq nodes
    /\ children' = [children EXCEPT ![parent] = @ \union {child}]
    /\ parents' = [parents EXCEPT ![child] = @ \union {parent}]
    /\ edge_map' = WithEdges({<<parent, child>>}, data)
    /\ UNCHANGED <<nodes, search, start, unexplored, found>>

(* Called with as much edge data as children, here the same for each. *)
add_children(kids, parent, data) ==
    /\ search = "none"
    /\ kids \union {parent} \subseteq nodes
    /\ children' = [children EXCEPT ![parent] = @ \union kids]
    /\ parents' = [i \in Ids |-> IF i \in kids THEN parents[i] \union {parent}
                                              ELSE parents[i]]
    /\ edge_map' = WithEdges({parent} \X kids, data)
    /\ UNCHANGED <<nodes, search, start, unexplored, found>>

(* None for an id that was not added. *)
Begin(id, direction) ==
    /\ search = "none"
    /\ id \in nodes
    /\ search' = direction
    /\ start' = id
    /\ unexplored' = {id}
    /\ found' = {}
    /\ UNCHANGED graph

Beyond(i) == IF search = "descendants" THEN children[i] ELSE parents[i]

(* Mutant: what has been found is put on the queue again. *)
ExploreAgain ==
    /\ search # "none"
    /\ \E i \in unexplored :
         /\ unexplored' = (unexplored \ {i}) \union Beyond(i)
         /\ found' = found \union Beyond(i)
    /\ UNCHANGED <<graph, search, start>>

(* Mutant: found is extended before the check, so nothing is queued. *)
ExploreOneLevel ==
    /\ search # "none"
    /\ \E i \in unexplored :
         /\ unexplored' = unexplored \ {i}
         /\ found' = found \union Beyond(i)
    /\ UNCHANGED <<graph, search, start>>

(***************************************************************************)
(* One round of the while loop.  Each push is preceded by a check that the *)
(* queue does not hold the node, so the queue is a set; the order within   *)
(* it is that of HashSet iteration, which is arbitrary.                    *)
(***************************************************************************)
Explore ==
    /\ search # "none"
    /\ \E i \in unexplored :
         /\ unexplored' = (unexplored \ {i}) \union (Beyond(i) \ found)
         /\ found' = found \union Beyond(i)
    /\ UNCHANGED <<graph, search, start>>

Return ==
    /\ search # "none" /\ unexplored = {}
    /\ search' = "none" /\ start' = None /\ found' = {}
    /\ UNCHANGED <<graph, unexplored>>

Build ==
    \/ \E id \in Ids : add(id)
    \/ \E c, p \in Ids, d \in EdgeData : add_relationship(c, p, d)
    \/ \E kids \in SUBSET Ids, p \in Ids, d \in EdgeData : add_children(kids, p, d)

Next ==
    \/ Build
    \/ \E id \in Ids, d \in {"descendants", "ancestors"} : Begin(id, d)
    \/ Explore
    \/ Return

Spec == Init /\ [][Next]_dagVars

(* A search is a loop without awaits: once begun it goes on. *)
FairSpec == Spec /\ WF_dagVars(Explore \/ Return)
-----------------------------------------------------------------------------
TypeOK ==
    /\ nodes \subseteq Ids
    /\ children \in [Ids -> SUBSET nodes]
    /\ parents \in [Ids -> SUBSET nodes]
    /\ DOMAIN edge_map \subseteq nodes \X nodes
    /\ \A e \in DOMAIN edge_map : edge_map[e] \in EdgeData
    /\ search \in {"descendants", "ancestors", "none"}
    /\ start \in nodes \union {None}
    /\ unexplored \subseteq nodes /\ found \subseteq nodes

(***************************************************************************)
(* Both ends of an edge know it, and its data is kept: descendants and     *)
(* ancestors search one and the same relation.                             *)
(***************************************************************************)
Mirrored ==
    \A c, p \in Ids :
        /\ c \in children[p] <=> p \in parents[c]
        /\ c \in children[p] <=> <<p, c>> \in DOMAIN edge_map

Holds(C) == Beyond(start) \subseteq C /\ \A i \in C : Beyond(i) \subseteq C

(* What can be reached from start: the least set with its edges, closed. *)
Reachable == {i \in Ids : \A C \in SUBSET Ids : Holds(C) => i \in C}

(***************************************************************************)
(* A search returns exactly what can be reached, on graphs with cycles     *)
(* too, although the start is put on the queue a second time on a cycle.   *)
(***************************************************************************)
SearchIsExact ==
    search # "none" /\ unexplored = {} => found = Reachable

(***************************************************************************)
(* A search ends, also on a graph that is not acyclic ("try to avoid       *)
(* loops"): no node is queued for ever.                                    *)
(***************************************************************************)
SearchEnds == search # "none" ~> search = "none"
=============================================================================
