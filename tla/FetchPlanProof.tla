---------------------------- MODULE FetchPlanProof ----------------------------
(***************************************************************************)
(* The plan is right for any archives, nested or circular, and for any     *)
(* updates that commit while it is made.                                   *)
(*                                                                         *)
(* The graph is built level by level from the wanted hashes upwards.  What *)
(* it keeps on the way: an id that the graph has reached has all its edges *)
(* of the snapshot in the graph, or is on the level to be looked up next   *)
(* (LoopInv).  When a level has no parents the graph has every edge of     *)
(* every id it has reached, and so the archives around a wanted hash are   *)
(* the same in the graph and in the snapshot.                              *)
(***************************************************************************)
EXTENDS FetchPlan, TLAPS

(* The ids the graph has reached. *)
Reached == hids \union {e[2] : e \in dag}

LoopInv ==
    phase = "dag" => \A e \in snapshot : e[1] \in Reached => e \in dag \/ e[1] \in level

BuiltPhases == {"missing", "fetches", "solve", "planned", "panicked"}

\* "failed" is not among them: a request may fail with half a graph.
Built == phase \in BuiltPhases

Whole == \A e \in snapshot : e[1] \in Reached => e \in dag

BuiltInv == Built => Whole

(* What the request has not come to yet is empty. *)
Unset ==
    /\ phase \in {"idle", "look_up"} => hids = {}
    /\ phase \in {"idle", "look_up", "begin"} => dag = {} /\ snapshot = {}
    /\ phase \in {"idle", "look_up", "begin", "dag", "missing"} => missing = {}
    /\ phase # "planned" => plan = {}

GraphInv == TypeOK /\ Unset /\ LoopInv /\ BuiltInv

-----------------------------------------------------------------------------
LEMMA GraphInit == Init => GraphInv
BY DEF Init, GraphInv, TypeOK, Unset, LoopInv, BuiltInv, Built, BuiltPhases, Phases

LEMMA LearnGrows ==
    ASSUME TypeOK, NEW h \in Ids, Learn(h)
    PROVE  /\ hashes \subseteq hashes' /\ hashes' \subseteq Ids /\ h \in hashes'
           /\ archive_entries \subseteq archive_entries'
           /\ archive_entries' \subseteq Contains
BY PlanAssumption DEF TypeOK, Learn

(* An update or an indexer changes the tables only, and they grow. *)
LEMMA TypeStep == TypeOK /\ Unset /\ [Next]_vars => TypeOK' /\ Unset'
<1> SUFFICES ASSUME TypeOK, Unset, [Next]_vars PROVE TypeOK' /\ Unset'
  OBVIOUS
<1> USE DEF TypeOK, Unset, Phases
<1>1. ASSUME NEW h \in Ids, PackageCommitted(h) PROVE TypeOK' /\ Unset'
  BY <1>1, LearnGrows DEF PackageCommitted, planVars
<1>2. ASSUME NEW h \in Ids, Indexed(h) PROVE TypeOK' /\ Unset'
  BY <1>2, LearnGrows DEF Indexed, planVars
<1>3. ASSUME NEW M \in Manifests, Ask(M) PROVE TypeOK' /\ Unset'
  BY <1>3 DEF Ask, tables
<1>4. CASE LookUp
  BY <1>4 DEF LookUp, tables
<1>5. CASE BeginDag
  BY <1>5 DEF BeginDag, tables
<1>6. CASE GenerateDag
  BY <1>6 DEF GenerateDag, Parents, tables
<1>7. CASE CalculateMissing
  BY <1>7 DEF CalculateMissing, tables
<1>8. CASE NotInDag \/ CalculateFetches \/ QueryFails
  BY <1>8 DEF NotInDag, CalculateFetches, QueryFails, tables, planVars
<1>9. CASE Solve
  BY <1>9 DEF Solve, Candidates, tables
<1>10. CASE UNCHANGED vars
  BY <1>10 DEF vars, tables, planVars
<1> QED
  BY <1>1, <1>2, <1>3, <1>4, <1>5, <1>6, <1>7, <1>8, <1>9, <1>10
     DEF Next, Acquire, Finished

(***************************************************************************)
(* A round of the loop brings the edges of the level into the graph, and   *)
(* the ids it reaches through them are the level to come.                  *)
(***************************************************************************)
LEMMA GraphStep == GraphInv /\ [Next]_vars => GraphInv'
<1> SUFFICES ASSUME GraphInv, [Next]_vars PROVE LoopInv' /\ BuiltInv'
  BY TypeStep DEF GraphInv
<1>1. CASE LookUp
  BY <1>1 DEF LookUp, LoopInv, BuiltInv, Built, BuiltPhases
<1>2. CASE BeginDag
  <2>1. dag' = {} /\ hids' = hids /\ level' = hids' /\ phase' = "dag"
    BY <1>2 DEF BeginDag, GraphInv, Unset
  <2>2. LoopInv'
    BY <2>1 DEF LoopInv, Reached
  <2> QED
    BY <2>1, <2>2 DEF BuiltInv, Built, BuiltPhases
<1>3. CASE GenerateDag
  <2>1. phase = "dag" /\ UNCHANGED <<hids, snapshot>>
    BY <1>3 DEF GenerateDag
  <2>2. CASE Parents = {}
    <3>1. phase' = "missing" /\ UNCHANGED dag
      BY <1>3, <2>2 DEF GenerateDag
    <3>2. ASSUME NEW e \in snapshot, e[1] \in Reached PROVE e \in dag
      BY <2>1, <2>2, <3>2 DEF GraphInv, LoopInv, Parents
    <3> QED
      BY <2>1, <3>1, <3>2 DEF BuiltInv, LoopInv, Whole, Reached
  <2>3. CASE Parents # {}
    <3>1. dag' = dag \union Parents /\ level' = NextLevel /\ UNCHANGED phase
      BY <1>3, <2>3 DEF GenerateDag
    <3>2. ASSUME NEW e \in snapshot, e[1] \in Reached' PROVE e \in dag' \/ e[1] \in level'
      <4>1. e[1] \in Reached \/ e[1] \in NextLevel
        BY <2>1, <3>1, <3>2 DEF Reached, NextLevel
      <4>2. CASE e[1] \in NextLevel
        BY <3>1, <4>2
      <4>3. CASE e[1] \in Reached
        BY <2>1, <3>1, <4>3 DEF GraphInv, LoopInv, Parents
      <4> QED
        BY <4>1, <4>2, <4>3
    <3> QED
      BY <2>1, <3>1, <3>2 DEF BuiltInv, Built, BuiltPhases, LoopInv
  <2> QED
    BY <2>2, <2>3
<1>4. CASE CalculateMissing \/ NotInDag \/ CalculateFetches \/ Solve
  <2>1. phase \in BuiltPhases /\ phase' \in BuiltPhases /\ UNCHANGED <<hids, dag, snapshot>>
    BY <1>4 DEF CalculateMissing, NotInDag, CalculateFetches, Solve, planVars, BuiltPhases
  <2> QED
    BY <2>1 DEF GraphInv, BuiltInv, Built, BuiltPhases, Whole, Reached, LoopInv
<1>5. CASE UNCHANGED <<phase, hids, snapshot, dag, level>>
  BY <1>5 DEF GraphInv, LoopInv, BuiltInv, Built, BuiltPhases, Whole, Reached
<1>6. ASSUME NEW M \in Manifests, Ask(M) PROVE LoopInv' /\ BuiltInv'
  BY <1>6 DEF Ask, LoopInv, BuiltInv, Built, BuiltPhases
<1>7. CASE QueryFails
  BY <1>7 DEF QueryFails, LoopInv, BuiltInv, Built, BuiltPhases
<1> QED
  BY <1>1, <1>2, <1>3, <1>4, <1>5, <1>6, <1>7
     DEF Next, Acquire, Finished, PackageCommitted, Indexed, vars, planVars

LEMMA GraphAlways == Spec => []GraphInv
BY GraphInit, GraphStep, PTL DEF Spec

(* The types, for any archives and manifests. *)
THEOREM TypeCorrect == Spec => []TypeOK
BY GraphAlways, PTL DEF GraphInv
-----------------------------------------------------------------------------
(* The least closed sets, without the operator they are parameterised by. *)
DownClosed(E, C, h) == Down(E, h) \subseteq C /\ \A i \in C : Down(E, i) \subseteq C
UpClosed(E, C, h) == Up(E, h) \subseteq C /\ \A i \in C : Up(E, i) \subseteq C

LEMMA DescendantsAre ==
    \A E, h : Descendants(E, h) =
        {x \in Ids : \A C \in SUBSET Ids : DownClosed(E, C, h) => x \in C}
BY DEF Descendants, Closed, DownClosed

LEMMA AncestorsAre ==
    \A E, h : Ancestors(E, h) =
        {x \in Ids : \A C \in SUBSET Ids : UpClosed(E, C, h) => x \in C}
BY DEF Ancestors, Closed, UpClosed

(* The ancestors are themselves a closed set of ids. *)
LEMMA AncestorsClosed ==
    ASSUME NEW E \in SUBSET (Ids \X Ids), NEW h
    PROVE  Ancestors(E, h) \subseteq Ids /\ UpClosed(E, Ancestors(E, h), h)
<1>1. \A i : Up(E, i) \subseteq Ids
  BY DEF Up
<1> QED
  BY <1>1, AncestorsAre DEF UpClosed

LEMMA DescendantsClosed ==
    ASSUME NEW E \in SUBSET (Ids \X Ids), NEW h
    PROVE  Descendants(E, h) \subseteq Ids /\ DownClosed(E, Descendants(E, h), h)
<1>1. \A i : Down(E, i) \subseteq Ids
  BY DEF Down
<1> QED
  BY <1>1, DescendantsAre DEF DownClosed

(* More edges, more descendants. *)
LEMMA DescendantsGrow ==
    ASSUME NEW E, NEW F \in SUBSET (Ids \X Ids), E \subseteq F, NEW h
    PROVE  Descendants(E, h) \subseteq Descendants(F, h)
<1>1. \A i : Down(E, i) \subseteq Down(F, i)
  BY DEF Down
<1>2. DownClosed(E, Descendants(F, h), h) /\ Descendants(F, h) \in SUBSET Ids
  BY <1>1, DescendantsClosed DEF DownClosed
<1> QED
  BY <1>2, DescendantsAre

(***************************************************************************)
(* What is an ancestor has the other as a descendant: the ids m is a       *)
(* descendant of are closed upwards from m.                                *)
(***************************************************************************)
LEMMA Dual ==
    ASSUME NEW E \in SUBSET (Ids \X Ids), NEW m \in Ids, NEW a \in Ancestors(E, m)
    PROVE  m \in Descendants(E, a)
<1> DEFINE D == {x \in Ids : m \in Descendants(E, x)}
<1>1. \A e \in E : e[1] \in Ids /\ e[2] \in Ids /\ e[1] \in Down(E, e[2])
  BY DEF Down
<1>2. Up(E, m) \subseteq D
  <2>1. ASSUME NEW e \in E, e[1] = m PROVE e[2] \in D
    BY <1>1, <2>1, DescendantsClosed DEF DownClosed
  <2> QED
    BY <2>1 DEF Up
<1>3. ASSUME NEW i \in D PROVE Up(E, i) \subseteq D
  <2>1. ASSUME NEW e \in E, e[1] = i PROVE e[2] \in D
    <3>1. DownClosed(E, Descendants(E, e[2]), i) /\ Descendants(E, e[2]) \in SUBSET Ids
      BY <1>1, <2>1, DescendantsClosed DEF DownClosed
    <3> QED
      BY <1>1, <3>1, DescendantsAre
  <2> QED
    BY <2>1 DEF Up
<1>4. UpClosed(E, D, m) /\ D \in SUBSET Ids
  BY <1>2, <1>3 DEF UpClosed
<1> QED
  BY <1>4, AncestorsAre

(***************************************************************************)
(* With every edge of what it has reached, the graph has the archives      *)
(* around a wanted hash.  Those it has are ends of its edges, so their own *)
(* edges are in it, and they are closed in the snapshot too.               *)
(***************************************************************************)
LEMMA SameAncestors ==
    ASSUME GraphInv, Whole, NEW h \in hids
    PROVE  Ancestors(dag, h) = Ancestors(snapshot, h)
<1>1. dag \subseteq snapshot /\ snapshot \in SUBSET (Ids \X Ids)
  BY PlanAssumption DEF GraphInv, TypeOK
<1>2. dag \in SUBSET (Ids \X Ids)
  BY <1>1
<1>3. \A i : Up(dag, i) \subseteq Up(snapshot, i)
  BY <1>1 DEF Up
<1>4. \A i \in Reached : Up(snapshot, i) \subseteq Up(dag, i)
  BY DEF Up, Whole
<1>5. Ancestors(dag, h) \subseteq Ancestors(snapshot, h)
  <2>1. UpClosed(dag, Ancestors(snapshot, h), h) /\ Ancestors(snapshot, h) \in SUBSET Ids
    BY <1>1, <1>3, AncestorsClosed DEF UpClosed
  <2> QED
    BY <2>1, AncestorsAre
<1>6. Ancestors(snapshot, h) \subseteq Ancestors(dag, h)
  <2> DEFINE A == {i \in Ancestors(dag, h) : i \in Reached}
  <2>1. h \in Reached /\ \A i : Up(dag, i) \subseteq Reached
    BY DEF Reached, Up
  <2>2. UpClosed(dag, A, h)
    BY <1>2, <2>1, AncestorsClosed DEF UpClosed
  <2>3. UpClosed(snapshot, A, h) /\ A \in SUBSET Ids
    BY <1>2, <1>4, <2>1, <2>2, AncestorsClosed DEF UpClosed
  <2> QED
    BY <2>3, AncestorsAre
<1> QED
  BY <1>5, <1>6

(* The graph has every archive around a wanted hash, as of one moment. *)
THEOREM Completeness == Spec => []DagIsComplete
<1>1. GraphInv => DagIsComplete
  BY SameAncestors DEF DagIsComplete, GraphInv, BuiltInv, Built, BuiltPhases
<1> QED
  BY <1>1, GraphAlways, PTL
-----------------------------------------------------------------------------
(* A hash that is not missing is in an archive that is local. *)
SkippedInv ==
    phase \in {"fetches", "solve", "planned"} =>
        \A h \in hids \ missing : \E a \in local : h \in Descendants(dag, a)

LEMMA SkippedStep == GraphInv /\ SkippedInv /\ [Next]_vars => SkippedInv'
<1> SUFFICES ASSUME GraphInv, SkippedInv, [Next]_vars, Planning' PROVE SkippedInv'
  BY DEF SkippedInv, Planning
<1>1. CASE CalculateMissing
  BY <1>1 DEF CalculateMissing, LocalSources, SkippedInv, tables
<1>2. CASE UNCHANGED <<hids, missing, dag>> /\ local \subseteq local' /\ Planning
  BY <1>2 DEF SkippedInv, Planning
<1>3. Planning => ~LookUp /\ ~BeginDag /\ ~GenerateDag /\ \A M : ~Ask(M)
  BY DEF Planning, LookUp, BeginDag, GenerateDag, Ask
<1>4. Planning' => ~NotInDag /\ ~QueryFails /\ ~LookUp /\ ~BeginDag /\ ~GenerateDag /\ \A M : ~Ask(M)
  BY DEF Planning, NotInDag, QueryFails, LookUp, BeginDag, GenerateDag, Ask
<1>5. CASE CalculateFetches \/ Solve
  BY <1>2, <1>5 DEF CalculateFetches, Solve, tables, Planning
<1>6. ASSUME NEW h \in Ids, PackageCommitted(h) \/ Indexed(h) PROVE SkippedInv'
  BY <1>2, <1>6 DEF PackageCommitted, Indexed, planVars, Planning
<1>7. CASE UNCHANGED vars
  BY <1>2, <1>7 DEF vars, tables, planVars, Planning
<1> QED
  BY <1>1, <1>4, <1>5, <1>6, <1>7 DEF Next, Acquire, Finished

(***************************************************************************)
(* A wanted hash of the table that is not counted as missing is inside an  *)
(* archive that is local: the edges of the graph are edges of the table,   *)
(* which only grows.  Nothing is said of the hashes the table does not     *)
(* have, nor of missing ones that no candidate of the plan holds.          *)
(***************************************************************************)
THEOREM NothingLost == Spec => []NothingSkipped
<1>1. Init => SkippedInv
  BY DEF Init, SkippedInv
<1>2. GraphInv /\ SkippedInv => NothingSkipped
  <2> SUFFICES ASSUME GraphInv, SkippedInv, Planning, NEW h \in hids \ missing
               PROVE  \E a \in local : h \in Descendants(archive_entries, a)
    BY DEF NothingSkipped
  <2>1. PICK a \in local : h \in Descendants(dag, a)
    BY DEF SkippedInv, Planning
  <2>2. dag \subseteq archive_entries /\ archive_entries \in SUBSET (Ids \X Ids)
    BY PlanAssumption DEF GraphInv, TypeOK
  <2> QED
    BY <2>1, <2>2, DescendantsGrow
<1> QED
  BY <1>1, <1>2, GraphAlways, SkippedStep, PTL DEF Spec
-----------------------------------------------------------------------------
(* The plan covers what the candidates hold, and they hold what is offered. *)
PlanInv == phase = "planned" => Covers(plan)

LEMMA PlanStep == PlanInv /\ [Next]_vars => PlanInv'
<1> SUFFICES ASSUME PlanInv, [Next]_vars, phase' = "planned" PROVE Covers(plan)'
  BY DEF PlanInv
<1>1. CASE Solve
  <2>1. PICK S \in SUBSET Candidates : Covers(S) /\ plan' = S
    BY <1>1 DEF Solve
  <2>2. UNCHANGED <<dag, missing, offered>>
    BY <1>1 DEF Solve
  <2> QED
    BY <2>1, <2>2 DEF Covers, Candidates, Held, Around
<1>2. CASE phase = "planned" /\ UNCHANGED <<dag, missing, offered, plan>>
  BY <1>2 DEF PlanInv, Covers, Candidates, Held, Around
<1>3. Solve \/ (phase = "planned" /\ UNCHANGED <<dag, missing, offered, plan>>)
  BY DEF Next, Acquire, Finished, vars, planVars, Ask, LookUp, BeginDag, GenerateDag,
         CalculateMissing, NotInDag, CalculateFetches, QueryFails, PackageCommitted,
         Indexed
<1> QED
  BY <1>1, <1>2, <1>3

(***************************************************************************)
(* If a repository offered an archive with a missing hash in it, at any    *)
(* depth, the plan has one: the archive is a candidate that holds the hash *)
(* (Dual), and the plan covers all that the candidates hold.               *)
(***************************************************************************)
THEOREM OfferIsTaken == Spec => []PlanBringsWhatIsOffered
<1>1. Init => PlanInv
  BY DEF Init, PlanInv
<1>2. GraphInv /\ PlanInv => PlanBringsWhatIsOffered
  <2> SUFFICES ASSUME GraphInv, PlanInv, phase = "planned", NEW m \in missing,
                      NEW a \in offered, a \in Ancestors(snapshot, m)
               PROVE  \E s \in plan : m \in Descendants(snapshot, s)
    BY DEF PlanBringsWhatIsOffered
  <2>1. dag \subseteq snapshot /\ snapshot \in SUBSET (Ids \X Ids)
    BY PlanAssumption DEF GraphInv, TypeOK
  <2>2. m \in hids /\ m \in Ids /\ a \in Ancestors(dag, m)
    BY SameAncestors DEF GraphInv, TypeOK, BuiltInv, Built, BuiltPhases
  <2>3. a \in Candidates /\ m \in Held(a)
    BY <2>1, <2>2, Dual DEF Candidates, Around, Held
  <2>4. \E s \in plan : m \in Held(s)
    BY <2>3 DEF PlanInv, Covers
  <2> QED
    BY <2>1, <2>4, DescendantsGrow DEF Held
<1> QED
  BY <1>1, <1>2, GraphAlways, PlanStep, PTL DEF Spec
=============================================================================
