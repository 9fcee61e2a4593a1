---------------------------- MODULE HashDagProof ----------------------------
(***************************************************************************)
(* The searches of HashDAG are exact on every graph, for any set of ids.   *)
(*                                                                         *)
(* The invariant has two halves.  Sound: a search stays inside every set   *)
(* that holds the start's edges and is closed.  Complete: a found node     *)
(* whose edges have not been followed is still on the queue.  When the     *)
(* queue is empty the two meet in the least closed set.                    *)
(***************************************************************************)
EXTENDS HashDag, TLAPS

Sound ==
    \A C \in SUBSET Ids : Holds(C) => found \subseteq C /\ unexplored \subseteq C \union {start}

Complete ==
    \A i \in found \union {start} : i \in unexplored \/ Beyond(i) \subseteq found

Searching == search # "none" => start \in nodes /\ Sound /\ Complete
-----------------------------------------------------------------------------
(* The types, and both ends of every edge, survive each operation. *)
LEMMA TypeInit == Init => TypeOK
BY DEF Init, TypeOK

LEMMA TypeStep == TypeOK /\ [Next]_dagVars => TypeOK'
<1> SUFFICES ASSUME TypeOK, [Next]_dagVars PROVE TypeOK'
  OBVIOUS
<1> USE DEF TypeOK
<1>1. ASSUME NEW id \in Ids, add(id) PROVE TypeOK'
  BY <1>1 DEF add
<1>2. ASSUME NEW c \in Ids, NEW p \in Ids, NEW d \in EdgeData, add_relationship(c, p, d)
      PROVE  TypeOK'
  BY <1>2 DEF add_relationship, WithEdges
<1>3. ASSUME NEW kids \in SUBSET Ids, NEW p \in Ids, NEW d \in EdgeData,
             add_children(kids, p, d)
      PROVE  TypeOK'
  BY <1>3 DEF add_children, WithEdges
<1>4. ASSUME NEW id \in Ids, NEW d \in {"descendants", "ancestors"}, Begin(id, d)
      PROVE  TypeOK'
  BY <1>4 DEF Begin, graph
<1>5. CASE Explore
  BY <1>5 DEF Explore, Beyond, graph
<1>6. CASE Return
  BY <1>6 DEF Return, graph
<1>7. CASE UNCHANGED dagVars
  BY <1>7 DEF dagVars
<1> QED
  BY <1>1, <1>2, <1>3, <1>4, <1>5, <1>6, <1>7 DEF Next, Build

LEMMA MirroredStep == TypeOK /\ Mirrored /\ [Next]_dagVars => Mirrored'
<1> SUFFICES ASSUME TypeOK, Mirrored, [Next]_dagVars PROVE Mirrored'
  OBVIOUS
<1> USE DEF Mirrored, TypeOK
<1>1. ASSUME NEW c \in Ids, NEW p \in Ids, NEW d \in EdgeData, add_relationship(c, p, d)
      PROVE  Mirrored'
  BY <1>1 DEF add_relationship, WithEdges
<1>2. ASSUME NEW kids \in SUBSET Ids, NEW p \in Ids, NEW d \in EdgeData,
             add_children(kids, p, d)
      PROVE  Mirrored'
  BY <1>2 DEF add_children, WithEdges
<1>3. CASE UNCHANGED graph
  BY <1>3 DEF graph
<1>4. ASSUME NEW id \in Ids, add(id) PROVE Mirrored'
  BY <1>4 DEF add
<1> QED
  BY <1>1, <1>2, <1>3, <1>4 DEF Next, Build, Begin, Explore, Return, dagVars, graph
-----------------------------------------------------------------------------
(* Both halves of the search invariant survive each round of the loop. *)
LEMMA SearchStep == TypeOK /\ Searching /\ [Next]_dagVars => Searching'
<1> SUFFICES ASSUME TypeOK, Searching, [Next]_dagVars, search' # "none"
             PROVE  start' \in nodes' /\ Sound' /\ Complete'
  BY DEF Searching
<1>1. ASSUME NEW id \in Ids, NEW d \in {"descendants", "ancestors"}, Begin(id, d)
      PROVE  start' \in nodes' /\ Sound' /\ Complete'
  BY <1>1 DEF Begin, graph, Sound, Complete
<1>2. CASE Explore
  <2>1. PICK i \in unexplored :
          /\ unexplored' = (unexplored \ {i}) \union (Beyond(i) \ found)
          /\ found' = found \union Beyond(i)
    BY <1>2 DEF Explore
  <2>2. UNCHANGED <<children, parents, search, start, nodes>> /\ search # "none"
    BY <1>2 DEF Explore, graph
  <2>3. \A j : Beyond(j)' = Beyond(j)
    BY <2>2 DEF Beyond
  <2>4. Sound /\ Complete /\ start \in nodes
    BY <2>2 DEF Searching
  <2>5. Sound'
    <3>1. SUFFICES ASSUME NEW C \in SUBSET Ids, Holds(C)
                   PROVE  found' \subseteq C /\ unexplored' \subseteq C \union {start}
      BY <2>2, <2>3 DEF Sound, Holds
    <3>2. found \subseteq C /\ unexplored \subseteq C \union {start}
      BY <2>4, <3>1 DEF Sound
    <3>3. Beyond(i) \subseteq C
      BY <3>1, <3>2, <2>1 DEF Holds
    <3> QED
      BY <2>1, <3>2, <3>3
  <2>6. Complete'
    <3>1. ASSUME NEW j \in found' \union {start}
          PROVE  j \in unexplored' \/ Beyond(j) \subseteq found'
      <4>1. CASE j = i
        BY <2>1, <4>1
      <4>2. CASE j # i /\ j \in found \union {start}
        BY <2>1, <2>4, <4>2 DEF Complete
      <4>3. CASE j \in Beyond(i) \ found
        BY <2>1, <4>3
      <4> QED
        BY <2>1, <3>1, <4>1, <4>2, <4>3
    <3> QED
      BY <2>2, <2>3, <3>1 DEF Complete
  <2> QED
    BY <2>2, <2>4, <2>5, <2>6
<1>3. CASE UNCHANGED dagVars
  <2>1. \A j : Beyond(j)' = Beyond(j)
    BY <1>3 DEF dagVars, Beyond
  <2>2. \A C : Holds(C)' <=> Holds(C)
    BY <1>3, <2>1 DEF dagVars, Holds
  <2> QED
    BY <1>3, <2>1, <2>2 DEF dagVars, Searching, Sound, Complete
<1> QED
  BY <1>1, <1>2, <1>3
  DEF Next, Build, add, add_relationship, add_children, Return
-----------------------------------------------------------------------------
(* The graph and the search keep their invariants. *)
THEOREM DagInvariant == Spec => [](TypeOK /\ Mirrored /\ Searching)
<1>1. Init => TypeOK /\ Mirrored /\ Searching
  BY TypeInit DEF Init, Mirrored, Searching
<1>2. TypeOK /\ Mirrored /\ Searching /\ [Next]_dagVars
        => (TypeOK /\ Mirrored /\ Searching)'
  BY TypeStep, MirroredStep, SearchStep
<1> QED
  BY <1>1, <1>2, PTL DEF Spec

(***************************************************************************)
(* The tables and the search keep their types.                             *)
(***************************************************************************)
THEOREM TypesAreCorrect == Spec => []TypeOK
BY DagInvariant, PTL

(***************************************************************************)
(* Children, parents and edge data agree in every graph that add,          *)
(* add_relationship and add_children build.                                *)
(***************************************************************************)
THEOREM EdgesAreMirrored == Spec => []Mirrored
BY DagInvariant, PTL

(***************************************************************************)
(* descendants and ancestors return exactly what can be reached, whatever  *)
(* the graph, cycles included, and in whatever order sets are iterated.    *)
(***************************************************************************)
THEOREM SearchesAreExact == Spec => []SearchIsExact
<1>1. TypeOK /\ Searching => SearchIsExact
  <2> SUFFICES ASSUME TypeOK, Searching, search # "none", unexplored = {}
               PROVE  found = Reachable
    BY DEF SearchIsExact
  <2>1. found \in SUBSET Ids
    BY DEF TypeOK
  <2>2. Holds(found)
    BY DEF Searching, Complete, Holds
  <2>3. \A i \in found : i \in Reachable
    BY <2>1 DEF Searching, Sound, Reachable
  <2>4. \A i \in Reachable : i \in found
    BY <2>1, <2>2 DEF Reachable
  <2> QED
    BY <2>3, <2>4
<1> QED
  BY <1>1, DagInvariant, PTL
=============================================================================
