----------------------------- MODULE FsnDbProof -----------------------------
(***************************************************************************)
(* What holds of FsnDb for any number of handlers, any mods and any lists, *)
(* as long as no list publishes a key twice: rows belong to their release, *)
(* and the database implements the catalogue.                              *)
(*                                                                         *)
(* The argument.  RETURNING gives one id per inserted row and zip pairs    *)
(* the i-th id with the i-th new mod; the pairing is right exactly when    *)
(* every new mod is inserted (ZipIsIdentity).  It is, because a handler    *)
(* that writes has a view equal to the committed tables: it holds the only *)
(* write lock and its snapshot is not stale (ViewIsCurrent).               *)
(***************************************************************************)
EXTENDS FsnDb, FiniteSetTheorems, TLAPS

(* The rows a transaction adds: position k gets the next id by rank. *)
NewReleases(d, L, N) == {<<RowId(d.relSeq, N, k), Key(L[k])>> : k \in N}
NewDetails(d, L, N) == {<<RowId(d.relSeq, N, k), L[k]>> : k \in N}

NewKeys(L, N) == {Key(L[k]) : k \in N}
NewMods(L, N) == {L[k] : k \in N}
ModsOf(d) == {x[2] : x \in d.details}

Inserting == {"released", "packaged", "filed"}

PerHandler(f) == f = [h \in Handlers |-> f[h]]

Tables == {"names", "releases", "relSeq", "details", "packages", "pakSeq",
           "sources", "entries", "files"}

IsDb(d) == d = [t \in Tables |-> d[t]]

Shape ==
    /\ stage \in [Handlers -> Stages]
    /\ PerHandler(work) /\ PerHandler(list) /\ PerHandler(fresh)
    /\ PerHandler(rows)
    /\ IsDb(db) /\ \A h \in Handlers : IsDb(work[h])

Control ==
    /\ \A h \in Handlers : stage[h] \in Open => list[h] \in RepoLists
    /\ \A h \in Handlers : stage[h] \in Writing => writer = h /\ h \notin stale

(* What a transaction sees and has prepared, as long as it can commit. *)
View(h) ==
    /\ fresh[h] = Fresh(list[h], KeysOf(db))
    /\ stage[h] \in {"filtered", "named"} =>
         /\ work[h].releases = db.releases
         /\ work[h].relSeq = db.relSeq
         /\ work[h].details = db.details
    /\ stage[h] \in Inserting =>
         /\ work[h].releases = db.releases \union NewReleases(db, list[h], fresh[h])
         /\ work[h].details = db.details \union NewDetails(db, list[h], fresh[h])

ViewIsCurrent ==
    \A h \in Handlers : stage[h] \in Open /\ h \notin stale => View(h)

KeysAgree == KeysOf(db) = {Key(d[2]) : d \in db.details}

DbInv ==
    /\ Shape
    /\ Control
    /\ ViewIsCurrent
    /\ KeysAgree
    /\ RowsBelongToRelease
-----------------------------------------------------------------------------
(* Different members of a set of numbers have different ranks in it. *)
LEMMA RankIsInjective ==
    ASSUME NEW S \in SUBSET Nat, IsFiniteSet(S), NEW j \in S, NEW k \in S,
           Rank(S, j) = Rank(S, k)
    PROVE  j = k
<1> DEFINE Below(i) == {m \in S : m <= i}
<1>1. \A i \in S : IsFiniteSet(Below(i))
  BY FS_Subset
<1>2. ASSUME NEW a \in S, NEW b \in S, a < b, Rank(S, a) = Rank(S, b)
      PROVE  FALSE
  <2>0. \A i \in S : i \in Nat
    OBVIOUS
  <2>1. \A i \in Below(a) : i \in Below(b)
    BY <1>2, <2>0
  <2>2. Below(a) = Below(b)
    <3>1. Below(a) \in SUBSET Below(b)
      BY <2>1
    <3>2. Cardinality(Below(a)) = Cardinality(Below(b))
      BY <1>2 DEF Rank
    <3> QED
      BY <1>1, <3>1, <3>2, FS_Subset
  <2>3. b \in Below(b) /\ b \notin Below(a)
    BY <1>2, <2>0
  <2> QED
    BY <2>2, <2>3
<1>3. j \in Nat /\ k \in Nat
  OBVIOUS
<1> QED
  BY <1>2, <1>3

(* The domain of a published list is a finite set of numbers. *)
LEMMA ListDomain ==
    ASSUME NEW L \in RepoLists
    PROVE  DOMAIN L \in SUBSET Nat /\ IsFiniteSet(DOMAIN L)
<1>1. DOMAIN L = 1 .. Len(L) /\ Len(L) \in Nat
  BY ListsOfMods
<1> QED
  BY <1>1, FS_Interval

(***************************************************************************)
(* If no new mod is ignored by INSERT OR IGNORE, the ids come back in the  *)
(* order of new_mods: zip pairs each new mod with the id of its own row.   *)
(***************************************************************************)
LEMMA ZipIsIdentity ==
    ASSUME NEW L \in RepoLists, Catalogue!DuplicateFree(L), NEW known, NEW seq,
           NEW N, N = Fresh(L, known)
    PROVE  /\ Inserted(L, N, known) = N
           /\ Zipped(L, N, known, seq) = {<<RowId(seq, N, k), k>> : k \in N}
<1>1. N \subseteq DOMAIN L /\ N \in SUBSET Nat /\ IsFiniteSet(N)
  BY ListDomain, FS_Subset DEF Fresh
<1>2. Inserted(L, N, known) = N
  BY <1>1 DEF Inserted, Fresh, Catalogue!DuplicateFree, Catalogue!Key, Key
<1>3. \A j, k \in N : Rank(N, j) = Rank(N, k) => j = k
  BY <1>1, RankIsInjective
<1>4. {q \in N \X N : Rank(N, q[1]) = Rank(N, q[2])} = {<<k, k>> : k \in N}
  BY <1>3
<1>5. Zipped(L, N, known, seq) = {<<RowId(seq, N, p[1]), p[2]>> : p \in {<<k, k>> : k \in N}}
  BY <1>2, <1>4, Zenon DEF Zipped
<1>6. {<<RowId(seq, N, p[1]), p[2]>> : p \in {<<k, k>> : k \in N}}
        = {<<RowId(seq, N, k), k>> : k \in N}
  <2> DEFINE left == {<<RowId(seq, N, p[1]), p[2]>> : p \in {<<k, k>> : k \in N}}
             right == {<<RowId(seq, N, k), k>> : k \in N}
  <2>1. ASSUME NEW x \in left PROVE x \in right
    <3>1. PICK p \in {<<k, k>> : k \in N} : x = <<RowId(seq, N, p[1]), p[2]>>
      BY <2>1
    <3>2. PICK k \in N : p = <<k, k>>
      BY <3>1
    <3>3. p[1] = k /\ p[2] = k
      BY <3>2
    <3> QED
      BY <3>1, <3>3
  <2>2. ASSUME NEW x \in right PROVE x \in left
    <3>1. PICK k \in N : x = <<RowId(seq, N, k), k>>
      BY <2>2
    <3>2. <<k, k>> \in {<<i, i>> : i \in N} /\ <<k, k>>[1] = k /\ <<k, k>>[2] = k
      OBVIOUS
    <3>3. x = <<RowId(seq, N, <<k, k>>[1]), <<k, k>>[2]>>
      BY <3>1, <3>2
    <3> QED
      BY <3>2, <3>3
  <2> QED
    BY <2>1, <2>2
<1> QED
  BY <1>2, <1>5, <1>6
-----------------------------------------------------------------------------
(* A statement replaces the view of its own transaction. *)
LEMMA ViewReplaced ==
    ASSUME PerHandler(work), NEW h \in Handlers, NEW v, work' = [work EXCEPT ![h] = v]
    PROVE  work'[h] = v
BY DEF PerHandler

(* What each statement makes of the releases and their details. *)
LEMMA AddReleasesFields ==
    ASSUME NEW d, IsDb(d), NEW L, NEW N, NEW zipped
    PROVE  /\ IsDb(AddReleases(d, L, N, zipped))
           /\ AddReleases(d, L, N, zipped).releases = d.releases \union
                {<<RowId(d.relSeq, N, k), Key(L[k])>> : k \in Inserted(L, N, KeysOf(d))}
           /\ AddReleases(d, L, N, zipped).details = d.details \union
                {<<z[1], L[z[2]]>> : z \in zipped}
BY DEF AddReleases, IsDb, Tables

LEMMA AddPackagesFields ==
    ASSUME NEW d, IsDb(d), NEW L, NEW zipped
    PROVE  /\ IsDb(AddPackages(d, L, zipped))
           /\ AddPackages(d, L, zipped).releases = d.releases
           /\ AddPackages(d, L, zipped).details = d.details
BY DEF AddPackages, IsDb, Tables

LEMMA AddFilesFields ==
    ASSUME NEW d, IsDb(d), NEW L, NEW zipped
    PROVE  /\ IsDb(AddFiles(d, L, zipped))
           /\ AddFiles(d, L, zipped).releases = d.releases
           /\ AddFiles(d, L, zipped).details = d.details
BY DEF AddFiles, IsDb, Tables

(* The tables and the per-handler functions keep their shape. *)
LEMMA ShapeInit == DbInit => Shape
BY DEF DbInit, Shape, PerHandler, IsDb, Tables, EmptyDb, Stages

LEMMA ShapeStep == Shape /\ [DbNext]_dbVars => Shape'
<1> SUFFICES ASSUME Shape, [DbNext]_dbVars PROVE Shape'
  OBVIOUS
<1> USE DEF Shape, PerHandler, Stages
<1>e. IsDb(EmptyDb)
  BY DEF IsDb, Tables, EmptyDb
<1>r. ASSUME NEW h \in Handlers, Rollback(h) PROVE Shape'
  BY <1>r, <1>e DEF Rollback, Close, Enter
<1>1. ASSUME NEW h \in Handlers, NEW L \in RepoLists, ReadReleases(h, L)
      PROVE  Shape'
  BY <1>1 DEF ReadReleases, Enter
<1>2. ASSUME NEW h \in Handlers, WriteNames(h) PROVE Shape'
  BY <1>2 DEF WriteNames, Enter, IsDb, Tables
<1>3. ASSUME NEW h \in Handlers, WriteReleases(h) PROVE Shape'
  BY <1>3, AddReleasesFields DEF WriteReleases, Enter
<1>4. ASSUME NEW h \in Handlers, WritePackages(h) PROVE Shape'
  BY <1>4, AddPackagesFields DEF WritePackages, Enter
<1>5. ASSUME NEW h \in Handlers, WriteFiles(h) PROVE Shape'
  BY <1>5, AddFilesFields DEF WriteFiles, Enter
<1>6. ASSUME NEW h \in Handlers, Commit(h) PROVE Shape'
  BY <1>6, <1>e DEF Commit, Close, Enter
<1>7. ASSUME NEW h \in Handlers, Reply(h) PROVE Shape'
  BY <1>7 DEF Reply, Enter
<1>8. CASE DbCrash
  BY <1>8, <1>e DEF DbCrash
<1>9. CASE UNCHANGED dbVars
  BY <1>9 DEF dbVars
<1> QED
  BY <1>r, <1>1, <1>2, <1>3, <1>4, <1>5, <1>6, <1>7, <1>8, <1>9
  DEF DbNext, Transact, Busy, BuildPanics, FilesFail, Abort

(* The lock is held by whoever has written, from a snapshot that is current. *)
LEMMA ControlInit == DbInit => Control
BY DEF DbInit, Control, Open, Writing

LEMMA ControlStep == Shape /\ Control /\ [DbNext]_dbVars => Control'
<1> SUFFICES ASSUME Shape, Control, [DbNext]_dbVars PROVE Control'
  OBVIOUS
<1> USE DEF Shape, PerHandler, Control, Stages, Open, Writing
<1>r. ASSUME NEW h \in Handlers, Rollback(h) PROVE Control'
  BY <1>r DEF Rollback, Close, Enter
<1>1. ASSUME NEW h \in Handlers, NEW L \in RepoLists, ReadReleases(h, L)
      PROVE  Control'
  BY <1>1 DEF ReadReleases, Enter
<1>2. ASSUME NEW h \in Handlers, WriteNames(h) PROVE Control'
  BY <1>2, NoneIsNoHandler DEF WriteNames, Enter
<1>3. ASSUME NEW h \in Handlers, WriteReleases(h) PROVE Control'
  BY <1>3 DEF WriteReleases, Enter
<1>4. ASSUME NEW h \in Handlers, WritePackages(h) PROVE Control'
  BY <1>4 DEF WritePackages, Enter
<1>5. ASSUME NEW h \in Handlers, WriteFiles(h) PROVE Control'
  BY <1>5 DEF WriteFiles, Enter
<1>6. ASSUME NEW h \in Handlers, Commit(h) PROVE Control'
  BY <1>6 DEF Commit, Close, Enter
<1>7. ASSUME NEW h \in Handlers, Reply(h) PROVE Control'
  BY <1>7 DEF Reply, Enter
<1>8. CASE DbCrash
  BY <1>8 DEF DbCrash
<1>9. CASE UNCHANGED dbVars
  BY <1>9 DEF dbVars
<1> QED
  BY <1>r, <1>1, <1>2, <1>3, <1>4, <1>5, <1>6, <1>7, <1>8, <1>9
  DEF DbNext, Transact, Busy, BuildPanics, FilesFail, Abort
-----------------------------------------------------------------------------
(* The two inserts of add_fsn_releases put in each new mod, under its own id. *)
LEMMA ReleasesWritten ==
    ASSUME DuplicateFreeLists, Shape, NEW h \in Handlers,
           list[h] \in RepoLists, stage[h] = "named", View(h), WriteReleases(h)
    PROVE  /\ work'[h].releases = db.releases \union NewReleases(db, list[h], fresh[h])
           /\ work'[h].details = db.details \union NewDetails(db, list[h], fresh[h])
<1> DEFINE L == list[h]
           N == fresh[h]
           known == KeysOf(work[h])
           seq == work[h].relSeq
           zipped == Zipped(L, N, known, seq)
<1>1. known = KeysOf(db) /\ seq = db.relSeq
  BY DEF View, KeysOf
<1>2. N = Fresh(L, known)
  BY <1>1 DEF View
<1>3. Catalogue!DuplicateFree(L)
  BY DEF DuplicateFreeLists
<1>4. /\ Inserted(L, N, known) = N
      /\ zipped = {<<RowId(seq, N, k), k>> : k \in N}
  BY <1>2, <1>3, ZipIsIdentity
<1>5. /\ work'[h].releases = work[h].releases \union
           {<<RowId(seq, N, k), Key(L[k])>> : k \in Inserted(L, N, known)}
      /\ work'[h].details = work[h].details \union {<<z[1], L[z[2]]>> : z \in zipped}
  <2>1. work'[h] = AddReleases(work[h], L, N, zipped)
    BY ViewReplaced DEF WriteReleases, ZippedBy, Shape
  <2> QED
    BY <2>1, AddReleasesFields DEF Shape
<1>6. {<<z[1], L[z[2]]>> : z \in zipped} = {<<RowId(seq, N, k), L[k]>> : k \in N}
  <2>1. ASSUME NEW x \in {<<z[1], L[z[2]]>> : z \in zipped}
        PROVE  x \in {<<RowId(seq, N, k), L[k]>> : k \in N}
    <3>1. PICK z \in zipped : x = <<z[1], L[z[2]]>>
      BY <2>1
    <3>2. PICK k \in N : z = <<RowId(seq, N, k), k>>
      BY <1>4, <3>1
    <3>3. z[1] = RowId(seq, N, k) /\ z[2] = k
      BY <3>2
    <3> QED
      BY <3>1, <3>3
  <2>2. ASSUME NEW x \in {<<RowId(seq, N, k), L[k]>> : k \in N}
        PROVE  x \in {<<z[1], L[z[2]]>> : z \in zipped}
    <3>1. PICK k \in N : x = <<RowId(seq, N, k), L[k]>>
      BY <2>2
    <3> DEFINE z == <<RowId(seq, N, k), k>>
    <3>2. z \in zipped /\ z[1] = RowId(seq, N, k) /\ z[2] = k
      BY <1>4
    <3>3. x = <<z[1], L[z[2]]>>
      BY <3>1, <3>2
    <3> HIDE DEF z, zipped, L
    <3> QED
      BY <3>2, <3>3
  <2> HIDE DEF zipped
  <2> QED
    BY <2>1, <2>2
<1>7. work[h].releases = db.releases /\ work[h].details = db.details
  BY DEF View
<1> QED
  BY <1>1, <1>4, <1>5, <1>6, <1>7 DEF NewReleases, NewDetails

(* Whoever can still commit sees the committed tables and what it adds. *)
LEMMA ViewInit == DbInit => ViewIsCurrent
BY DEF DbInit, ViewIsCurrent, Open

LEMMA ViewStep ==
    ASSUME DuplicateFreeLists
    PROVE  Shape /\ Control /\ ViewIsCurrent /\ [DbNext]_dbVars => ViewIsCurrent'
<1> SUFFICES ASSUME Shape, Control, ViewIsCurrent, [DbNext]_dbVars,
                    NEW g \in Handlers, stage'[g] \in Open, g \notin stale'
             PROVE  View(g)'
  BY DEF ViewIsCurrent
<1> USE DEF Shape, PerHandler, Open, Inserting
(* Another handler's step that leaves db alone does not touch the view of g. *)
<1>s. ASSUME UNCHANGED <<db, stage[g], work[g], list[g], fresh[g]>>,
             g \notin stale
      PROVE  View(g)'
  <2>1. View(g)
    BY <1>s DEF ViewIsCurrent
  <2>2. /\ KeysOf(db)' = KeysOf(db)
        /\ NewReleases(db, list[g], fresh[g])' = NewReleases(db, list[g], fresh[g])
        /\ NewDetails(db, list[g], fresh[g])' = NewDetails(db, list[g], fresh[g])
    BY <1>s DEF KeysOf, NewReleases, NewDetails
  <2> QED
    BY <1>s, <2>1, <2>2 DEF View
<1>r. ASSUME NEW h \in Handlers, Rollback(h) PROVE View(g)'
  <2>1. g # h
    BY <1>r DEF Rollback, Close, Enter
  <2> QED
    BY <1>s, <1>r, <2>1 DEF Rollback, Close, Enter
<1>1. ASSUME NEW h \in Handlers, NEW L \in RepoLists, ReadReleases(h, L)
      PROVE  View(g)'
  <2>1. CASE g = h
    BY <1>1, <2>1 DEF ReadReleases, Enter, View
  <2>2. CASE g # h
    BY <1>s, <1>1, <2>2 DEF ReadReleases, Enter
  <2> QED
    BY <2>1, <2>2
<1>2. ASSUME NEW h \in Handlers, WriteNames(h) PROVE View(g)'
  <2>1. CASE g = h
    BY <1>2, <2>1 DEF WriteNames, Enter, View, ViewIsCurrent, IsDb, Tables
  <2>2. CASE g # h
    BY <1>s, <1>2, <2>2 DEF WriteNames, Enter
  <2> QED
    BY <2>1, <2>2
<1>3. ASSUME NEW h \in Handlers, WriteReleases(h) PROVE View(g)'
  <2>1. CASE g = h
    <3>1. stage[h] = "named" /\ h \notin stale /\ list[h] \in RepoLists /\ View(h)
      BY <1>3, <2>1 DEF WriteReleases, Control, ViewIsCurrent
    <3>2. /\ work'[h].releases = db.releases \union NewReleases(db, list[h], fresh[h])
          /\ work'[h].details = db.details \union NewDetails(db, list[h], fresh[h])
      BY <1>3, <3>1, ReleasesWritten
    <3>3. stage'[h] = "released" /\ UNCHANGED <<db, list, fresh>>
      BY <1>3 DEF WriteReleases, Enter
    <3> QED
      BY <2>1, <3>1, <3>2, <3>3 DEF View, NewReleases, NewDetails, KeysOf
  <2>2. CASE g # h
    <3>1. UNCHANGED <<db, stage[g], work[g], list[g], fresh[g], stale>>
      BY <1>3, <2>2 DEF WriteReleases, Enter
    <3> QED
      BY <1>s, <3>1
  <2> QED
    BY <2>1, <2>2
<1>4. ASSUME NEW h \in Handlers, WritePackages(h) PROVE View(g)'
  <2>1. CASE g = h
    <3>1. /\ stage[h] \in Inserting /\ stage'[h] \in Inserting
          /\ UNCHANGED <<db, stale, list, fresh>>
      BY <1>4 DEF WritePackages, Enter
    <3>2. /\ work'[h].releases = work[h].releases
          /\ work'[h].details = work[h].details
      <4>1. work'[h] = AddPackages(work[h], list[h], rows[h])
        BY <1>4 DEF WritePackages
      <4> QED
        BY <4>1, AddPackagesFields
    <3>3. View(h)
      BY <2>1, <3>1 DEF ViewIsCurrent
    <3>4. /\ KeysOf(db)' = KeysOf(db)
          /\ NewReleases(db, list[h], fresh[h])' = NewReleases(db, list[h], fresh[h])
          /\ NewDetails(db, list[h], fresh[h])' = NewDetails(db, list[h], fresh[h])
      BY <3>1 DEF KeysOf, NewReleases, NewDetails
    <3> QED
      BY <2>1, <3>1, <3>2, <3>3, <3>4 DEF View
  <2>2. CASE g # h
    BY <1>s, <1>4, <2>2 DEF WritePackages, Enter
  <2> QED
    BY <2>1, <2>2
<1>5. ASSUME NEW h \in Handlers, WriteFiles(h) PROVE View(g)'
  <2>1. CASE g = h
    <3>1. /\ stage[h] \in Inserting /\ stage'[h] \in Inserting
          /\ UNCHANGED <<db, stale, list, fresh>>
      BY <1>5 DEF WriteFiles, Enter
    <3>2. /\ work'[h].releases = work[h].releases
          /\ work'[h].details = work[h].details
      <4>1. work'[h] = AddFiles(work[h], list[h], rows[h])
        BY <1>5 DEF WriteFiles
      <4> QED
        BY <4>1, AddFilesFields
    <3>3. View(h)
      BY <2>1, <3>1 DEF ViewIsCurrent
    <3>4. /\ KeysOf(db)' = KeysOf(db)
          /\ NewReleases(db, list[h], fresh[h])' = NewReleases(db, list[h], fresh[h])
          /\ NewDetails(db, list[h], fresh[h])' = NewDetails(db, list[h], fresh[h])
      BY <3>1 DEF KeysOf, NewReleases, NewDetails
    <3> QED
      BY <2>1, <3>1, <3>2, <3>3, <3>4 DEF View
  <2>2. CASE g # h
    BY <1>s, <1>5, <2>2 DEF WriteFiles, Enter
  <2> QED
    BY <2>1, <2>2
<1>6. ASSUME NEW h \in Handlers, Commit(h) PROVE View(g)'
  <2>1. stage'[h] \notin Open
    BY <1>6 DEF Commit, Close, Enter
  <2>2. g # h /\ stage[g] \notin Open
    BY <1>6, <2>1 DEF Commit, Close, Enter
  <2>3. stage'[g] = stage[g]
    BY <1>6, <2>2 DEF Commit, Close, Enter
  <2> QED
    BY <2>2, <2>3
<1>7. ASSUME NEW h \in Handlers, Reply(h) PROVE View(g)'
  <2>1. g # h
    BY <1>7 DEF Reply, Enter
  <2> QED
    BY <1>s, <1>7, <2>1 DEF Reply, Enter
<1>8. CASE DbCrash
  BY <1>8 DEF DbCrash
<1>9. CASE UNCHANGED dbVars
  BY <1>s, <1>9 DEF dbVars
<1> QED
  BY <1>r, <1>1, <1>2, <1>3, <1>4, <1>5, <1>6, <1>7, <1>8, <1>9
  DEF DbNext, Transact, Busy, BuildPanics, FilesFail, Abort
-----------------------------------------------------------------------------
(* The committed tables change only when a transaction commits. *)
LEMMA OnlyCommitWrites ==
    ASSUME [DbNext]_dbVars, db' # db
    PROVE  \E h \in Handlers : Commit(h)
BY DEF DbNext, Transact, dbVars, ReadReleases, WriteNames, Busy, WriteReleases,
       BuildPanics, WritePackages, WriteFiles, FilesFail, Abort, Rollback, Reply, DbCrash

(* A commit adds the release and the details row of each new mod of its list. *)
LEMMA Committed ==
    ASSUME Shape, Control, ViewIsCurrent, NEW h \in Handlers, Commit(h)
    PROVE  /\ list[h] \in RepoLists
           /\ fresh[h] = Fresh(list[h], KeysOf(db))
           /\ db'.releases = db.releases \union NewReleases(db, list[h], fresh[h])
           /\ db'.details = db.details \union NewDetails(db, list[h], fresh[h])
<1>1. stage[h] = "filed" /\ db' = work[h]
  BY DEF Commit
<1>2. list[h] \in RepoLists /\ View(h)
  BY <1>1 DEF Control, ViewIsCurrent, Open, Writing
<1> QED
  BY <1>1, <1>2 DEF View, Inserting

(* The keys of the releases, and those of the mods described, after a commit. *)
LEMMA KeysCommitted ==
    ASSUME NEW d, NEW e, NEW L, NEW N,
           e.releases = d.releases \union NewReleases(d, L, N),
           e.details = d.details \union NewDetails(d, L, N)
    PROVE  /\ KeysOf(e) = KeysOf(d) \union NewKeys(L, N)
           /\ ModsOf(e) = ModsOf(d) \union NewMods(L, N)
<1>1. {r[2] : r \in NewReleases(d, L, N)} = NewKeys(L, N)
  <2>1. ASSUME NEW x \in NewKeys(L, N)
        PROVE  \E r \in NewReleases(d, L, N) : x = r[2]
    <3>1. PICK k \in N : x = Key(L[k])
      BY DEF NewKeys
    <3> DEFINE r == <<RowId(d.relSeq, N, k), Key(L[k])>>
    <3>2. r \in NewReleases(d, L, N)
      BY DEF NewReleases
    <3>3. x = r[2]
      BY <3>1
    <3> QED
      BY <3>2, <3>3
  <2>2. ASSUME NEW r \in NewReleases(d, L, N)
        PROVE  r[2] \in NewKeys(L, N)
    BY DEF NewReleases, NewKeys
  <2> QED
    BY <2>1, <2>2
<1>2. {r[2] : r \in NewDetails(d, L, N)} = NewMods(L, N)
  <2>1. ASSUME NEW x \in NewMods(L, N)
        PROVE  \E r \in NewDetails(d, L, N) : x = r[2]
    <3>1. PICK k \in N : x = L[k]
      BY DEF NewMods
    <3> DEFINE r == <<RowId(d.relSeq, N, k), L[k]>>
    <3>2. r \in NewDetails(d, L, N)
      BY DEF NewDetails
    <3>3. x = r[2]
      BY <3>1
    <3> QED
      BY <3>2, <3>3
  <2>2. ASSUME NEW r \in NewDetails(d, L, N)
        PROVE  r[2] \in NewMods(L, N)
    BY DEF NewDetails, NewMods
  <2> QED
    BY <2>1, <2>2
<1>3. {r[2] : r \in e.releases} = {r[2] : r \in d.releases} \union {r[2] : r \in NewReleases(d, L, N)}
  OBVIOUS
<1>4. {x[2] : x \in e.details} = {x[2] : x \in d.details} \union {x[2] : x \in NewDetails(d, L, N)}
  OBVIOUS
<1> QED
  BY <1>1, <1>2, <1>3, <1>4 DEF KeysOf, ModsOf

(* Each release has its details, and each details row its release. *)
LEMMA TablesInit == DbInit => KeysAgree /\ RowsBelongToRelease
BY DEF DbInit, EmptyDb, KeysAgree, KeysOf, RowsBelongToRelease

LEMMA TablesStep ==
    DbInv /\ [DbNext]_dbVars => KeysAgree' /\ RowsBelongToRelease'
<1> SUFFICES ASSUME DbInv, [DbNext]_dbVars PROVE KeysAgree' /\ RowsBelongToRelease'
  OBVIOUS
<1>1. CASE db' = db
  BY <1>1 DEF DbInv, KeysAgree, KeysOf, RowsBelongToRelease
<1>2. CASE db' # db
  <2>1. PICK h \in Handlers : Commit(h)
    BY <1>2, OnlyCommitWrites
  <2> DEFINE L == list[h]
             N == fresh[h]
  <2>2. /\ db'.releases = db.releases \union NewReleases(db, L, N)
        /\ db'.details = db.details \union NewDetails(db, L, N)
    BY <2>1, Committed DEF DbInv
  <2> HIDE DEF L, N
  <2>3. KeysAgree'
    <3>1. /\ KeysOf(db') = KeysOf(db) \union NewKeys(L, N)
          /\ ModsOf(db') = ModsOf(db) \union NewMods(L, N)
      BY <2>2, KeysCommitted
    <3>2. \A d : {Key(x[2]) : x \in d.details} = {Key(m) : m \in ModsOf(d)}
      BY DEF ModsOf
    <3>3. {Key(m) : m \in ModsOf(db')} = {Key(m) : m \in ModsOf(db)} \union NewKeys(L, N)
      BY <3>1 DEF NewKeys, NewMods
    <3>4. KeysOf(db) = {Key(m) : m \in ModsOf(db)}
      BY <3>2 DEF DbInv, KeysAgree
    <3>5. KeysOf(db') = {Key(m) : m \in ModsOf(db')}
      BY <3>1, <3>3, <3>4
    <3> QED
      BY <3>2, <3>5 DEF KeysAgree, KeysOf
  <2>4. RowsBelongToRelease'
    <3>1. ASSUME NEW x \in NewDetails(db, L, N)
          PROVE  <<x[1], Key(x[2])>> \in NewReleases(db, L, N)
      BY DEF NewDetails, NewReleases
    <3> QED
      BY <2>2, <3>1 DEF DbInv, RowsBelongToRelease
  <2> QED
    BY <2>3, <2>4
<1> QED
  BY <1>1, <1>2
-----------------------------------------------------------------------------
(* The inductive invariant holds in every reachable state. *)
THEOREM DbInvariant ==
    ASSUME DuplicateFreeLists
    PROVE  DbSpec => []DbInv
<1>1. DbInit => DbInv
  BY ShapeInit, ControlInit, ViewInit, TablesInit DEF DbInv
<1>2. DbInv /\ [DbNext]_dbVars => DbInv'
  BY ShapeStep, ControlStep, ViewStep, TablesStep DEF DbInv
<1> QED
  BY <1>1, <1>2, PTL DEF DbSpec

(***************************************************************************)
(* commit_mods pairs ids with mods by position, over INSERT OR IGNORE; for *)
(* lists that publish no key twice, the pairing never goes wrong, however  *)
(* many updates overlap: each row of mods and builds describes the release *)
(* its rel_id names.                                                       *)
(***************************************************************************)
THEOREM RowsAreSound ==
    ASSUME DuplicateFreeLists
    PROVE  DbSpec => []RowsBelongToRelease
BY DbInvariant, PTL DEF DbInv

(* What changes of the tables, seen as a catalogue, is one list taken in. *)
LEMMA CatalogueStep ==
    DbInv /\ [DbNext]_dbVars => [Catalogue!CatalogueNext]_({d[2] : d \in db.details})
<1> SUFFICES ASSUME DbInv, [DbNext]_dbVars
             PROVE  [Catalogue!CatalogueNext]_({d[2] : d \in db.details})
  OBVIOUS
<1>1. CASE db' = db
  BY <1>1
<1>2. CASE db' # db
  <2>1. PICK h \in Handlers : Commit(h)
    BY <1>2, OnlyCommitWrites
  <2> DEFINE L == list[h]
             N == fresh[h]
  <2>2. /\ L \in RepoLists /\ N = Fresh(L, KeysOf(db))
        /\ db'.releases = db.releases \union NewReleases(db, L, N)
        /\ db'.details = db.details \union NewDetails(db, L, N)
    BY <2>1, Committed DEF DbInv
  <2> HIDE DEF L, N
  <2>3. ModsOf(db)' = ModsOf(db) \union NewMods(L, N)
    <3>1. /\ db'.releases = db.releases \union NewReleases(db, L, N)
          /\ db'.details = db.details \union NewDetails(db, L, N)
      BY <2>2
    <3> QED
      BY <3>1, KeysCommitted
  <2>4. KeysOf(db) = {Key(m) : m \in ModsOf(db)}
    BY DEF DbInv, KeysAgree, ModsOf
  <2>5. Catalogue!Unknown(L) = NewMods(L, N)
    BY <2>2, <2>4 DEF NewMods, ModsOf, Fresh, Key, Catalogue!Unknown, Catalogue!Listed,
       Catalogue!Keys, Catalogue!Key
  <2> QED
    BY <2>2, <2>3, <2>5 DEF ModsOf, Catalogue!CatalogueNext, Catalogue!Ingest
<1> QED
  BY <1>1, <1>2

(***************************************************************************)
(* Under the same assumption the tables implement the catalogue: whatever  *)
(* is interleaved, aborted or refused, the mods change by whole lists.     *)
(***************************************************************************)
THEOREM DbImplementsCatalogue ==
    ASSUME DuplicateFreeLists
    PROVE  DbSpec => RefinesCatalogue
<1>1. DbInit => Catalogue!CatalogueInit
  BY DEF DbInit, EmptyDb, Catalogue!CatalogueInit
<1> QED
  BY <1>1, CatalogueStep, DbInvariant, PTL DEF DbSpec, RefinesCatalogue,
     Catalogue!CatalogueSpec
=============================================================================
