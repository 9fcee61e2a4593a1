------------------------------ MODULE FetchPlan ------------------------------
(***************************************************************************)
(* What acquire_files (files.rs) decides to download: the first half, up   *)
(* to the set of sources it then fetches.                                  *)
(*                                                                         *)
(* It reads the database in four transactions of its own, one after the    *)
(* other: the ids of the manifest's hashes, the archives around them, the  *)
(* sources of all of these, the sources of what is missing.  In between,   *)
(* updates and indexing commit.  A transaction reads from the snapshot of  *)
(* its first statement.                                                    *)
(*                                                                         *)
(* The searches of the graph are those of HashDag and the choice of the    *)
(* sources is that of Solver, both by what those modules show of them.     *)
(***************************************************************************)
EXTENDS Naturals, FiniteSets, FiniteSetsExt

CONSTANTS Ids,        \* hash ids
          Contains,   \* <<file, archive>>: what archives really contain
          Listed,     \* archives that packages of a repository list
          Remote,     \* those of them with a url
          Size,       \* of an archive in Remote
          Indexable,  \* hashes that may get a local source
          Manifests   \* the sets of hashes that may be asked for

ASSUME PlanAssumption ==
    /\ IsFiniteSet(Ids)
    /\ Contains \subseteq Ids \X Ids
    /\ Remote \subseteq Listed /\ Listed \subseteq Ids /\ Indexable \subseteq Ids
    /\ Size \in [Remote -> Nat]
    /\ Manifests \subseteq SUBSET Ids

VARIABLES
    hashes, archive_entries, local, remote,   \* the tables
    phase,     \* what acquire_files does next
    manifest,  \* what it was asked for
    hids,      \* the ids of those of them that are in the table
    snapshot,  \* archive_entries as generate_dag sees it
    level,     \* the ids whose parents generate_dag looks up next
    dag,       \* hid_hierarchy: <<file, archive>>
    missing,   \* missing_hids
    offered,   \* the hashes with a remote source, as calculate_fetches saw them
    plan       \* minimized_sources

tables == <<hashes, archive_entries, local, remote>>
planVars == <<manifest, hids, snapshot, level, dag, missing, offered, plan>>
vars == <<tables, phase, planVars>>

Phases == {"idle", "look_up", "begin", "dag", "missing", "fetches", "solve",
           "planned", "failed", "panicked"}

Init ==
    /\ hashes = {} /\ archive_entries = {} /\ local = {} /\ remote = {}
    /\ phase = "idle"
    /\ manifest = {} /\ hids = {} /\ snapshot = {} /\ level = {} /\ dag = {}
    /\ missing = {} /\ offered = {} /\ plan = {}

(***************************************************************************)
(* The least set with the edges of id that is closed: descendants follows  *)
(* an edge from the archive to the file, ancestors the other way.          *)
(***************************************************************************)
Down(edges, i) == {e[1] : e \in {d \in edges : d[2] = i}}
Up(edges, i) == {e[2] : e \in {d \in edges : d[1] = i}}

Closed(C, Follow(_), id) == Follow(id) \subseteq C /\ \A i \in C : Follow(i) \subseteq C

Descendants(edges, id) ==
    LET Follow(i) == Down(edges, i)
    IN  {x \in Ids : \A C \in SUBSET Ids : Closed(C, Follow, id) => x \in C}

Ancestors(edges, id) ==
    LET Follow(i) == Up(edges, i)
    IN  {x \in Ids : \A C \in SUBSET Ids : Closed(C, Follow, id) => x \in C}

Nodes == UNION {{e[1], e[2]} : e \in dag}

-----------------------------------------------------------------------------
(* The tables grow: an archive is known with its contents. *)
Learn(h) ==
    LET inside == {e \in Contains : e[2] = h}
    IN  /\ archive_entries' = archive_entries \union inside
        /\ hashes' = hashes \union {h} \union {e[1] : e \in inside}

(* A modlist update commits a package that lists the archive h (FsnDb). *)
PackageCommitted(h) ==
    /\ h \in Listed
    /\ Learn(h)
    /\ remote' = remote \union ({h} \intersect Remote)
    /\ UNCHANGED <<local, phase, planVars>>

(***************************************************************************)
(* A local file, or a VP with what is in it, gets a local source: what     *)
(* index_file and index_vp insert.  They never commit, so for now such     *)
(* rows come from elsewhere; the planner has to be right about them.       *)
(***************************************************************************)
Indexed(h) ==
    /\ h \in Indexable
    /\ IF h \in Listed
       THEN hashes' = hashes \union {h} /\ UNCHANGED archive_entries
       ELSE Learn(h)
    /\ local' = local \union {h}
    /\ UNCHANGED <<remote, phase, planVars>>

Ask(M) ==
    /\ phase = "idle"
    /\ phase' = "look_up"
    /\ manifest' = M
    /\ UNCHANGED <<tables, hids, snapshot, level, dag, missing, offered, plan>>

(* Mutant: a hash the table does not have is kept. *)
LookUpAll ==
    /\ phase = "look_up"
    /\ hids' = manifest
    /\ phase' = "begin"
    /\ UNCHANGED <<tables, manifest, snapshot, level, dag, missing, offered, plan>>

(* get_hash_ids: a hash the table does not have is left out. *)
LookUp ==
    /\ phase = "look_up"
    /\ hids' = manifest \intersect hashes
    /\ phase' = "begin"
    /\ UNCHANGED <<tables, manifest, snapshot, level, dag, missing, offered, plan>>

(* The first statement of generate_dag fixes what the whole loop sees. *)
BeginDag ==
    /\ phase = "begin"
    /\ snapshot' = archive_entries
    /\ level' = hids
    /\ phase' = "dag"
    /\ UNCHANGED <<tables, manifest, hids, dag, missing, offered, plan>>

(* Mutant: each query of the loop sees what has been committed by then. *)
ParentsByNow == {e \in archive_entries : e[1] \in level}

Parents == {e \in snapshot : e[1] \in level}

(* Mutant: the next level is that of the files, not of their archives. *)
LevelStays == {e[1] : e \in Parents}

(* parent_ids *)
NextLevel == {e[2] : e \in Parents}

(* One round of the loop, and its end once nothing has a parent. *)
GenerateDag ==
    /\ phase = "dag"
    /\ IF Parents = {}
       THEN phase' = "missing" /\ UNCHANGED <<dag, level>>
       ELSE /\ dag' = dag \union Parents
            /\ level' = NextLevel
            /\ UNCHANGED phase
    /\ UNCHANGED <<tables, manifest, hids, snapshot, missing, offered, plan>>

(* Mutant: the location of a source is not looked at. *)
AnySource == (local \union remote) \intersect Nodes

(* The sources of the graph's hashes that are local. *)
LocalSources == local \intersect Nodes

(* What the archives around it make available; not the source itself. *)
CalculateMissing ==
    /\ phase = "missing"
    /\ missing' = hids \ UNION {Descendants(dag, h) : h \in LocalSources}
    /\ phase' = "fetches"
    /\ UNCHANGED <<tables, manifest, hids, snapshot, level, dag, offered, plan>>

(* ancestors(m).unwrap() for a hash that is in no archive. *)
NotInDag ==
    /\ phase = "fetches"
    /\ ~ missing \subseteq Nodes
    /\ phase' = "panicked"
    /\ UNCHANGED <<tables, planVars>>

CalculateFetches ==
    /\ phase = "fetches"
    /\ missing \subseteq Nodes
    /\ offered' = remote
    /\ phase' = "solve"
    /\ UNCHANGED <<tables, manifest, hids, snapshot, level, dag, missing, plan>>

(***************************************************************************)
(* The error of a transaction is that of acquire_files: begin, a query, or *)
(* the commit that ends it.  What was read is dropped with the request.    *)
(***************************************************************************)
QueryFails ==
    /\ \/ phase \in {"look_up", "begin", "dag", "missing"}
       \/ phase = "fetches" /\ missing \subseteq Nodes
    /\ phase' = "failed"
    /\ UNCHANGED <<tables, planVars>>

(* Mutant: only the archives a file is in itself, not those around them. *)
ParentsOnly(m) == Up(dag, m)

(* hash_ancestors *)
Around(m) == Ancestors(dag, m)

(* sourcemap: the remote sources, and what each holds of what is missing. *)
Candidates == offered \intersect UNION {Around(m) : m \in missing}

Held(s) == Descendants(dag, s) \intersect missing

Cost(S) == MapThenSumSet(LAMBDA s : Size[s], S)

Covers(S) == UNION {Held(s) : s \in Candidates} = UNION {Held(s) : s \in S}

(* solve_files returns a cheapest cover of what the candidates hold. *)
Solve ==
    /\ phase = "solve"
    /\ \E S \in SUBSET Candidates :
         /\ Covers(S)
         /\ \A T \in SUBSET Candidates : Covers(T) => Cost(S) <= Cost(T)
         /\ plan' = S
    /\ phase' = "planned"
    /\ UNCHANGED <<tables, manifest, hids, snapshot, level, dag, missing, offered>>

Acquire == \/ LookUp \/ BeginDag \/ GenerateDag
           \/ CalculateMissing \/ NotInDag \/ CalculateFetches \/ Solve

Outcomes == {"planned", "failed", "panicked"}

Finished == phase \in Outcomes /\ UNCHANGED vars

Next ==
    \/ \E h \in Ids : PackageCommitted(h) \/ Indexed(h)
    \/ \E M \in Manifests : Ask(M)
    \/ Acquire \/ QueryFails
    \/ Finished

Spec == Init /\ [][Next]_vars

(* Queries are answered, unless they fail; the solver ends (Solver). *)
FairSpec == Spec /\ WF_vars(Acquire)
-----------------------------------------------------------------------------
TypeOK ==
    /\ hashes \subseteq Ids /\ archive_entries \subseteq Contains
    /\ local \subseteq hashes /\ remote \subseteq hashes /\ remote \subseteq Remote
    /\ phase \in Phases
    /\ manifest \in Manifests \union {{}}
    /\ hids \subseteq manifest /\ hids \subseteq hashes
    /\ dag \subseteq snapshot /\ snapshot \subseteq archive_entries
    /\ missing \subseteq hids
    /\ plan \subseteq offered /\ offered \subseteq remote

Planning == phase \in {"fetches", "solve", "planned"}

(***************************************************************************)
(* The graph has every archive around a wanted hash, however deep they are *)
(* nested, as of one moment, although updates commit while it is built.    *)
(***************************************************************************)
DagIsComplete ==
    phase = "missing" =>
        \A h \in hids : Ancestors(dag, h) = Ancestors(snapshot, h)

(***************************************************************************)
(* A hash of the manifest that was found in the table is taken off the     *)
(* missing ones only if it is inside an archive the program has locally.   *)
(* (A hash that the table does not have is not looked for at all, and one  *)
(* that is missing stays out of the plan when nobody offers it.)           *)
(***************************************************************************)
NothingSkipped ==
    Planning => \A h \in hids \ missing :
        \E a \in local : h \in Descendants(archive_entries, a)

(***************************************************************************)
(* If some repository offered an archive with a missing hash in it, at any *)
(* depth, the plan downloads one that has it.                              *)
(***************************************************************************)
PlanBringsWhatIsOffered ==
    phase = "planned" => \A m \in missing :
        offered \intersect Ancestors(snapshot, m) # {} =>
            \E s \in plan : m \in Descendants(snapshot, s)

(* Planning comes to an end: archives do not contain each other. *)
PlanningEnds == phase = "look_up" ~> phase \in Outcomes
=============================================================================
