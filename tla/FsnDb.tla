-------------------------------- MODULE FsnDb --------------------------------
(***************************************************************************)
(* The database side of a modlist update: the end of `mod_update`          *)
(* (fsnebula/api.rs), `commit_mods` (fsnebula/db.rs) and the SQLite        *)
(* transaction they run in.                                                *)
(*                                                                         *)
(* A handler reads the releases it already has, keeps the mods of the      *)
(* downloaded list that are new, and inserts them in one transaction:      *)
(* names, releases, details, packages, then files.  The statements of a    *)
(* transaction change a private copy (work); Commit publishes it.          *)
(*                                                                         *)
(* SQLite in WAL mode: the first read fixes the snapshot of a transaction, *)
(* its first write takes the only write lock.  A transaction that has read *)
(* cannot wait for the lock: the write fails at once if another handler    *)
(* holds it (SQLITE_BUSY) or has committed since the snapshot              *)
(* (SQLITE_BUSY_SNAPSHOT).                                                 *)
(***************************************************************************)
EXTENDS Naturals, Sequences, FiniteSets

CONSTANTS Handlers,   \* concurrent requests to /api/fsn/update
          None,       \* no handler
          Mods,       \* the mods a repository may publish
          RepoLists   \* the mod lists a repository may publish

ASSUME NoneIsNoHandler == None \notin Handlers
ASSUME ListsOfMods == RepoLists \subseteq Seq(Mods)
ASSUME PackagesOfMods ==
    \A m \in Mods : Len(m.packs) \in Nat /\ DOMAIN m.packs = 1 .. Len(m.packs)

VARIABLES
    db,      \* the committed tables
    writer,  \* the handler whose transaction holds the write lock, or None
    stale,   \* handlers whose snapshot is older than db
    stage,   \* where each handler is in its transaction
    work,    \* each transaction's own view of the tables
    list,    \* the mod list each handler was given
    fresh,   \* new_mods: the positions of list[h] that were not in the db
    rows     \* zipped_vals: <<rel_id, position>> pairs

dbVars == <<db, writer, stale, stage, work, list, fresh, rows>>

(***************************************************************************)
(* The tables.  A row of details stands for the row of mods or builds and  *)
(* the links and flags of a release; a row of packages for the package and *)
(* its dependencies.  A hash stands for its own id: hashes.val is UNIQUE.  *)
(***************************************************************************)
Key(m) == <<m.name, m.version>>

EmptyDb == [names    |-> {},   \* rel_names
            releases |-> {},   \* <<rel_id, key>>
            relSeq   |-> 0,    \* sqlite_sequence of releases
            details  |-> {},   \* <<rel_id, mod>>
            packages |-> {},   \* <<p_id, rel_id, package>>
            pakSeq   |-> 0,    \* sqlite_sequence of packages
            sources  |-> {},   \* hash of a downloadable archive
            entries  |-> {},   \* <<hash of a file, hash of its archive>>
            files    |-> {}]   \* <<p_id, hash>>

KeysOf(d) == {r[2] : r \in d.releases}

Stages == {"idle", "filtered", "named", "released", "packaged", "filed",
           "updated", "failed"}

(* Stages in which the handler has a transaction open. *)
Open == {"filtered", "named", "released", "packaged", "filed"}

(* Stages in which it has written. *)
Writing == Open \ {"filtered"}

-----------------------------------------------------------------------------
(* Mutant: the filter compares names only. *)
FreshByName(L, known) == {k \in DOMAIN L : L[k].name \notin {r[1] : r \in known}}

(* The filter of mod_update: what is new, by name and version. *)
Fresh(L, known) == {k \in DOMAIN L : Key(L[k]) \notin known}

Rank(S, k) == Cardinality({j \in S : j <= k})

(* The positions INSERT OR IGNORE really inserts: UNIQUE(name, version). *)
Inserted(L, N, known) ==
    {k \in N : /\ Key(L[k]) \notin known
               /\ \A j \in N : j < k => Key(L[j]) # Key(L[k])}

(* Mutant: the id column is computed one too far. *)
RowIdOneTooFar(seq, N, k) == seq + Rank(N, k) + 1

(* AUTOINCREMENT: an ignored row uses up an id all the same. *)
RowId(seq, N, k) == seq + Rank(N, k)

(* Mutant: the ids are zipped with the whole list, not with new_mods. *)
ZippedWithWholeList(L, N, known, seq) ==
    {<<RowId(seq, N, p[1]), p[2]>> : p \in
        {q \in Inserted(L, N, known) \X DOMAIN L :
            Rank(Inserted(L, N, known), q[1]) = Rank(DOMAIN L, q[2])}}

(* Mutant: the match on mod_type has no arm for builds. *)
ZippedWithoutBuilds(L, N, known, seq) ==
    {<<RowId(seq, N, k), k>> : k \in {j \in N : L[j].kind # "build"}}

(* zip(&rel_ids, fsnmods): the i-th id RETURNING gives with the i-th mod. *)
Zipped(L, N, known, seq) ==
    {<<RowId(seq, N, p[1]), p[2]>> : p \in
        {q \in Inserted(L, N, known) \X N :
            Rank(Inserted(L, N, known), q[1]) = Rank(N, q[2])}}

(* fsnmod.stability.expect("Builds require a set stability!") *)
NoStability(m) == m.kind = "build" /\ ~m.stability

(* The packages of the zipped mods, in order: <<<<rel_id, position>>, i>>. *)
Slots(L, zipped) ==
    UNION {{<<z, i>> : i \in DOMAIN L[z[2]].packs} : z \in zipped}

NotAfter(s, t) == \/ s[1][2] < t[1][2]
                  \/ s[1][2] = t[1][2] /\ s[2] <= t[2]

Package(L, s) == L[s[1][2]].packs[s[2]]

(* add_fsn_releases: the releases, then a mods or builds row per pair. *)
AddReleases(d, L, N, zipped) ==
    [d EXCEPT !.releases = @ \union {<<RowId(d.relSeq, N, k), Key(L[k])>> :
                                       k \in Inserted(L, N, KeysOf(d))},
              !.relSeq = @ + Cardinality(N),
              !.details = @ \union {<<z[1], L[z[2]]>> : z \in zipped}]

(* add_fsn_packages, with the dependencies zipped to the returned p_ids. *)
AddPackages(d, L, zipped) ==
    LET slots == Slots(L, zipped)
        pakId(s) == d.pakSeq + Cardinality({t \in slots : NotAfter(t, s)})
    IN  [d EXCEPT !.packages = @ \union {<<pakId(s), s[1][1], Package(L, s)>> : s \in slots},
                  !.pakSeq = @ + Cardinality(slots)]

(***************************************************************************)
(* The loop over `packages` and the three inserts after it.  The elements  *)
(* of `packages` are (rel_id, package) pairs and the loop calls the first  *)
(* component p_id, so it is the release's id that goes into files.p_id.    *)
(***************************************************************************)
FileRows(L, zipped) ==
    UNION {{<<s[1][1], f.hash>> : f \in Package(L, s).filelist} : s \in Slots(L, zipped)}

(* archive_map.get(&file.archive).unwrap() *)
UnknownArchive(pkg) == \E f \in pkg.filelist : f.archive \notin DOMAIN pkg.archives

(* unwrap() panics, or files.p_id REFERENCES packages(p_id) is violated. *)
FilesRejected(d, L, zipped) ==
    \/ \E s \in Slots(L, zipped) : UnknownArchive(Package(L, s))
    \/ \E r \in FileRows(L, zipped) : r[1] \notin {p[1] : p \in d.packages}

(* One source per url: an archive that lists none (not in offered) has no  *)
(* source.                                                                 *)
Archives(paks) == UNION {{p.archives[a] : a \in p.offered} : p \in paks}

EntriesOf(paks) ==
    UNION {{<<f.hash, p.archives[f.archive]>> : f \in p.filelist} : p \in paks}

(* Mutant: the archives are not added as sources. *)
AddFilesWithoutSources(d, L, zipped) ==
    LET paks == {Package(L, s) : s \in Slots(L, zipped)}
    IN  [d EXCEPT !.entries = @ \union EntriesOf(paks),
                  !.files = @ \union FileRows(L, zipped)]

AddFiles(d, L, zipped) ==
    LET paks == {Package(L, s) : s \in Slots(L, zipped)}
    IN  [d EXCEPT !.sources = @ \union Archives(paks),
                  !.entries = @ \union EntriesOf(paks),
                  !.files = @ \union FileRows(L, zipped)]

-----------------------------------------------------------------------------
DbInit ==
    /\ db = EmptyDb
    /\ writer = None
    /\ stale = {}
    /\ stage = [h \in Handlers |-> "idle"]
    /\ work = [h \in Handlers |-> EmptyDb]
    /\ list = [h \in Handlers |-> <<>>]
    /\ fresh = [h \in Handlers |-> {}]
    /\ rows = [h \in Handlers |-> {}]

Enter(h, s) == stage' = [stage EXCEPT ![h] = s]

(* The transaction of h is over: committed, or rolled back when dropped. *)
Close(h, result) ==
    /\ Enter(h, result)
    /\ writer' = IF writer = h THEN None ELSE writer
    /\ work' = [work EXCEPT ![h] = EmptyDb]
    /\ fresh' = [fresh EXCEPT ![h] = {}]
    /\ rows' = [rows EXCEPT ![h] = {}]

Rollback(h) ==
    /\ Close(h, "failed")
    /\ stale' = stale \ {h}
    /\ UNCHANGED <<db, list>>

(* get_releases, the first read of the transaction, and the filter. *)
ReadReleases(h, L) ==
    /\ stage[h] = "idle"
    /\ Enter(h, "filtered")
    /\ work' = [work EXCEPT ![h] = db]
    /\ list' = [list EXCEPT ![h] = L]
    /\ fresh' = [fresh EXCEPT ![h] = Fresh(L, KeysOf(db))]
    /\ UNCHANGED <<db, writer, stale, rows>>

(* Mutant: the lock is taken whatever was committed since the snapshot. *)
WriteNamesFromOldSnapshot(h) ==
    /\ stage[h] = "filtered"
    /\ writer = None
    /\ writer' = h
    /\ work' = [work EXCEPT ![h].names = @ \union {list[h][k].name : k \in fresh[h]}]
    /\ Enter(h, "named")
    /\ UNCHANGED <<db, stale, list, fresh, rows>>

(***************************************************************************)
(* add_release_names, the first write: it takes the lock or fails at once. *)
(* With no new mod the statements have no rows, none is executed, and the  *)
(* first write is the ANALYZE before the commit: no statement in between   *)
(* touches the database, so the lock is taken here in that case too.       *)
(***************************************************************************)
WriteNames(h) ==
    /\ stage[h] = "filtered"
    /\ writer = None /\ h \notin stale
    /\ writer' = h
    /\ work' = [work EXCEPT ![h].names = @ \union {list[h][k].name : k \in fresh[h]}]
    /\ Enter(h, "named")
    /\ UNCHANGED <<db, stale, list, fresh, rows>>

(* Mutant: only a held lock is an error, an outdated snapshot waits. *)
BusyUnlessStale(h) ==
    /\ stage[h] = "filtered"
    /\ writer # None
    /\ Rollback(h)

Busy(h) ==
    /\ stage[h] = "filtered"
    /\ writer # None \/ h \in stale
    /\ Rollback(h)

ZippedBy(h) == Zipped(list[h], fresh[h], KeysOf(work[h]), work[h].relSeq)

WriteReleases(h) ==
    /\ stage[h] = "named"
    /\ \A z \in ZippedBy(h) : ~NoStability(list[h][z[2]])
    /\ work' = [work EXCEPT ![h] = AddReleases(work[h], list[h], fresh[h], ZippedBy(h))]
    /\ rows' = [rows EXCEPT ![h] = ZippedBy(h)]
    /\ Enter(h, "released")
    /\ UNCHANGED <<db, writer, stale, list, fresh>>

BuildPanics(h) ==
    /\ stage[h] = "named"
    /\ \E z \in ZippedBy(h) : NoStability(list[h][z[2]])
    /\ Rollback(h)

WritePackages(h) ==
    /\ stage[h] = "released"
    /\ work' = [work EXCEPT ![h] = AddPackages(work[h], list[h], rows[h])]
    /\ Enter(h, "packaged")
    /\ UNCHANGED <<db, writer, stale, list, fresh, rows>>

WriteFiles(h) ==
    /\ stage[h] = "packaged"
    /\ ~FilesRejected(work[h], list[h], rows[h])
    /\ work' = [work EXCEPT ![h] = AddFiles(work[h], list[h], rows[h])]
    /\ Enter(h, "filed")
    /\ UNCHANGED <<db, writer, stale, list, fresh, rows>>

FilesFail(h) ==
    /\ stage[h] = "packaged"
    /\ FilesRejected(work[h], list[h], rows[h])
    /\ Rollback(h)

(* tx.commit(): the other open snapshots are now behind. *)
Commit(h) ==
    /\ stage[h] = "filed"
    /\ db' = work[h]
    /\ stale' = (stale \union {g \in Handlers : stage[g] \in Open}) \ {h}
    /\ Close(h, "updated")
    /\ UNCHANGED list

(* Mutant: dropping the transaction commits what it has written. *)
AbortKeepsWrites(h) ==
    /\ stage[h] \in Writing
    /\ db' = work[h]
    /\ stale' = (stale \union {g \in Handlers : stage[g] \in Open}) \ {h}
    /\ Close(h, "failed")
    /\ UNCHANGED list

(***************************************************************************)
(* The transaction is dropped at any of its awaits: a statement or the     *)
(* commit failed, or the client went away and its handler was cancelled.   *)
(***************************************************************************)
Abort(h) == stage[h] \in Open /\ Rollback(h)

(* The response is sent. *)
Reply(h) ==
    /\ stage[h] \in {"updated", "failed"}
    /\ Enter(h, "idle")
    /\ list' = [list EXCEPT ![h] = <<>>]
    /\ UNCHANGED <<db, writer, stale, work, fresh, rows>>

(* The process dies; SQLite rolls every open transaction back. *)
DbCrash ==
    /\ writer' = None /\ stale' = {}
    /\ stage' = [h \in Handlers |-> "idle"]
    /\ work' = [h \in Handlers |-> EmptyDb]
    /\ list' = [h \in Handlers |-> <<>>]
    /\ fresh' = [h \in Handlers |-> {}]
    /\ rows' = [h \in Handlers |-> {}]
    /\ UNCHANGED db

Transact(h) ==
    \/ WriteNames(h) \/ Busy(h)
    \/ WriteReleases(h) \/ BuildPanics(h)
    \/ WritePackages(h)
    \/ WriteFiles(h) \/ FilesFail(h)
    \/ Commit(h)

DbNext ==
    \/ \E h \in Handlers :
         \/ \E L \in RepoLists : ReadReleases(h, L)
         \/ Transact(h) \/ Abort(h) \/ Reply(h)
    \/ DbCrash

DbSpec == DbInit /\ [][DbNext]_dbVars

-----------------------------------------------------------------------------
Catalogue == INSTANCE ModCatalogue WITH catalogue <- {d[2] : d \in db.details}

DuplicateFreeLists == \A L \in RepoLists : Catalogue!DuplicateFree(L)

DbTypeOK ==
    /\ writer \in Handlers \union {None}
    /\ stale \subseteq Handlers
    /\ stage \in [Handlers -> Stages]
    /\ list \in [Handlers -> RepoLists \union {<<>>}]
    /\ \A h \in Handlers : fresh[h] \subseteq DOMAIN list[h]
    /\ \A d \in {db} \union {work[h] : h \in Handlers} :
         /\ d.relSeq \in Nat /\ d.pakSeq \in Nat
         /\ \A r \in d.releases : r[1] \in 1 .. d.relSeq
         /\ \A p \in d.packages : p[1] \in 1 .. d.pakSeq

(***************************************************************************)
(* Every row of mods and builds describes the release its rel_id names.    *)
(* commit_mods pairs returned ids with mods by position only, over an      *)
(* INSERT OR IGNORE that returns nothing for the rows it ignores.          *)
(***************************************************************************)
RowsBelongToRelease ==
    \A d \in db.details : <<d[1], Key(d[2])>> \in db.releases

(***************************************************************************)
(* A committed release is whole: it has its details and each package of    *)
(* its mod exactly once, whatever failed, panicked, was cancelled or was   *)
(* refused the lock while other updates ran.                               *)
(***************************************************************************)
ReleasesAreWhole ==
    \A r \in db.releases : \E d \in db.details :
        /\ d[1] = r[1]
        /\ {e \in db.details : e[1] = r[1]} = {d}
        /\ {p[3] : p \in {q \in db.packages : q[2] = r[1]}} =
             {d[2].packs[i] : i \in DOMAIN d[2].packs}
        /\ Cardinality({q \in db.packages : q[2] = r[1]}) = Len(d[2].packs)

(***************************************************************************)
(* An update that answers "updated" has stored every mod of the list it    *)
(* was given, also those it filtered out because it believed them stored.  *)
(***************************************************************************)
AnsweredIsStored ==
    \A h \in Handlers : stage[h] = "updated" =>
        \A k \in DOMAIN list[h] : Key(list[h][k]) \in KeysOf(db)

(***************************************************************************)
(* What a committed package lists can be traced and fetched: each of its   *)
(* files has a row, the entry of the archive it is in, and a source of     *)
(* that archive if the list gives a url for it, whatever other updates,    *)
(* failures and reused hashes there were.                                  *)
(***************************************************************************)
OfferedFilesAreFetchable ==
    \A p \in db.packages : \A f \in p[3].filelist :
        LET arc == p[3].archives[f.archive]
        IN  /\ \E r \in db.files : r[2] = f.hash
            /\ <<f.hash, arc>> \in db.entries
            /\ f.archive \in p[3].offered => arc \in db.sources

(***************************************************************************)
(* No committed row is lost or rewritten by a later update: a commit made  *)
(* from an old view of the tables would drop what was committed since.     *)
(***************************************************************************)
NothingIsLost ==
    [][ /\ db.releases \subseteq db'.releases
        /\ db.details \subseteq db'.details
        /\ db.packages \subseteq db'.packages
        /\ db.files \subseteq db'.files ]_db

(***************************************************************************)
(* Each step of the database is a step of the catalogue or changes nothing *)
(* of it: concurrent updates that overlap, fail or abort add whole lists.  *)
(***************************************************************************)
RefinesCatalogue == Catalogue!CatalogueSpec

(***************************************************************************)
(* A file row names the package the file belongs to (files.p_id references *)
(* packages.p_id; get_package_files selects by it).                        *)
(***************************************************************************)
FilesBelongToPackage ==
    \A f \in db.files : \E p \in db.packages :
        p[1] = f[1] /\ \E g \in p[3].filelist : g.hash = f[2]
=============================================================================
