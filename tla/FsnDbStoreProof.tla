--------------------------- MODULE FsnDbStoreProof ---------------------------
(***************************************************************************)
(* What FsnDb keeps, for any number of handlers: its types, that nothing   *)
(* committed is lost, that an answered list is stored, that every file can *)
(* be fetched, that a committed release is whole.                          *)
(*                                                                         *)
(* Types: every id was handed out by its AUTOINCREMENT counter.  The       *)
(* counters count rows, so the argument is that every set of rows a        *)
(* transaction inserts is finite.                                          *)
(*                                                                         *)
(* Rows: the view of a transaction that is not stale extends the committed *)
(* tables (ViewExtends), and only a handler that holds the lock, hence is  *)
(* not stale, commits.                                                     *)
(*                                                                         *)
(* Whole releases: such a transaction adds one id, one details row and the *)
(* packages per new mod (View, Packed); its ids are above all that the     *)
(* tables have, so what it adds mixes with nothing that was there.         *)
(***************************************************************************)
EXTENDS FsnDbProof

(* The ids in the tables d are those their counters have handed out. *)
Numbered(d) ==
    /\ d.relSeq \in Nat /\ d.pakSeq \in Nat
    /\ \A r \in d.releases : r[1] \in 1 .. d.relSeq
    /\ \A p \in d.packages : p[1] \in 1 .. d.pakSeq

(* The pairs of ids and positions that packages are inserted for. *)
FiniteRows(L, zipped) ==
    /\ IsFiniteSet(zipped)
    /\ \A z \in zipped : z[2] \in DOMAIN L

ListsKnown ==
    /\ list \in [Handlers -> RepoLists \union {<<>>}]
    /\ \A h \in Handlers : fresh[h] \subseteq DOMAIN list[h]
    /\ \A h \in Handlers : FiniteRows(list[h], rows[h])
    /\ \A h \in Handlers : stage[h] \notin Open => fresh[h] = {}
    /\ \A h \in Handlers : stage[h] \notin Inserting => rows[h] = {}

AllNumbered == Numbered(db) /\ \A h \in Handlers : Numbered(work[h])

TypeInv ==
    /\ Shape
    /\ writer \in Handlers \union {None}
    /\ stale \subseteq Handlers
    /\ ListsKnown
    /\ AllNumbered
-----------------------------------------------------------------------------
LEMMA PositionsFinite ==
    ASSUME NEW L \in RepoLists \union {<<>>}
    PROVE  DOMAIN L \in SUBSET Nat /\ IsFiniteSet(DOMAIN L)
<1>1. CASE L \in RepoLists
  BY <1>1, ListDomain
<1>2. CASE L = <<>>
  BY <1>2, FS_EmptySet
<1> QED
  BY <1>1, <1>2

(* A rank counts at least the member itself, at most the whole set. *)
LEMMA RankBounds ==
    ASSUME NEW N \in SUBSET Nat, IsFiniteSet(N), NEW k \in N
    PROVE  Rank(N, k) \in 1 .. Cardinality(N)
<1> DEFINE Below == {j \in N : j <= k}
<1>1. Below \in SUBSET N /\ IsFiniteSet(Below) /\ Cardinality(Below) <= Cardinality(N)
  BY FS_Subset
<1>2. k \in Below
  OBVIOUS
<1>3. Cardinality(Below) # 0
  BY <1>1, <1>2, FS_EmptySet
<1>4. Cardinality(Below) \in Nat /\ Cardinality(N) \in Nat
  BY <1>1, FS_CardinalityType
<1> QED
  BY <1>1, <1>3, <1>4 DEF Rank

(* Zipping hands out ids of the statement to positions of the list. *)
LEMMA ZippedFinite ==
    ASSUME NEW L \in RepoLists \union {<<>>}, NEW N, N \subseteq DOMAIN L,
           NEW known, NEW seq \in Nat
    PROVE  FiniteRows(L, Zipped(L, N, known, seq))
<1>1. N \in SUBSET Nat /\ IsFiniteSet(N) /\ Cardinality(N) \in Nat
  BY PositionsFinite, FS_Subset, FS_CardinalityType
<1>2. \A k \in N : RowId(seq, N, k) \in seq + 1 .. seq + Cardinality(N)
  BY <1>1, RankBounds DEF RowId
<1>3. ASSUME NEW z \in Zipped(L, N, known, seq)
      PROVE  z \in (seq + 1 .. seq + Cardinality(N)) \X N
  <2>1. PICK p \in Inserted(L, N, known) \X N : z = <<RowId(seq, N, p[1]), p[2]>>
    BY DEF Zipped
  <2>2. p[1] \in N /\ p[2] \in N
    BY <2>1 DEF Inserted
  <2> QED
    BY <2>1, <2>2, <1>2
<1>4. IsFiniteSet((seq + 1 .. seq + Cardinality(N)) \X N)
  <2>1. IsFiniteSet(seq + 1 .. seq + Cardinality(N))
    BY <1>1, FS_Interval
  <2> QED
    BY <1>1, <2>1, FS_Product
<1>5. Zipped(L, N, known, seq) \in SUBSET ((seq + 1 .. seq + Cardinality(N)) \X N)
  BY <1>3
<1>6. IsFiniteSet(Zipped(L, N, known, seq))
  BY <1>4, <1>5, FS_Subset
<1>7. \A z \in Zipped(L, N, known, seq) : z[2] \in DOMAIN L
  BY <1>5
<1> QED
  BY <1>6, <1>7 DEF FiniteRows

(* The packages of finitely many mods are finitely many. *)
LEMMA SlotsFinite ==
    ASSUME NEW L \in RepoLists \union {<<>>}, NEW zipped, FiniteRows(L, zipped)
    PROVE  /\ IsFiniteSet(Slots(L, zipped))
           /\ \A s \in Slots(L, zipped) : NotAfter(s, s)
<1> DEFINE packsOf(z) == {<<z, i>> : i \in DOMAIN L[z[2]].packs}
           f == [z \in zipped |-> packsOf(z)]
           all == {packsOf(z) : z \in zipped}
<1>1. \A z \in zipped : L[z[2]] \in Mods
  BY ListsOfMods DEF FiniteRows
<1>2. ASSUME NEW z \in zipped
      PROVE  IsFiniteSet(packsOf(z)) /\ \A s \in packsOf(z) : NotAfter(s, s)
  <2> DEFINE n == Len(L[z[2]].packs)
  <2>1. n \in Nat /\ DOMAIN L[z[2]].packs = 1 .. n
    BY <1>1, PackagesOfMods
  <2> HIDE DEF n
  <2>2. IsFiniteSet({z} \X (1 .. n))
    <3>1. IsFiniteSet({z})
      BY FS_Singleton
    <3>2. IsFiniteSet(1 .. n)
      BY <2>1, FS_Interval
    <3> QED
      BY <3>1, <3>2, FS_Product
  <2>3. packsOf(z) \in SUBSET ({z} \X (1 .. n))
    BY <2>1
  <2>4. IsFiniteSet(packsOf(z))
    BY <2>2, <2>3, FS_Subset
  <2>5. \A s \in packsOf(z) : NotAfter(s, s)
    BY <2>1 DEF NotAfter
  <2> QED
    BY <2>4, <2>5
<1>3. f \in Surjection(zipped, all)
  BY DEF Surjection
<1>4. IsFiniteSet(all)
  BY <1>3, FS_Surjection DEF FiniteRows
<1>5. IsFiniteSet(UNION all)
  BY <1>2, <1>4, FS_UNION
<1>6. Slots(L, zipped) = UNION all
  BY DEF Slots
<1> QED
  BY <1>2, <1>5, <1>6
-----------------------------------------------------------------------------
LEMMA ReleasesNumbered ==
    ASSUME NEW d, IsDb(d), Numbered(d), NEW L \in RepoLists \union {<<>>},
           NEW N, N \subseteq DOMAIN L, NEW zipped
    PROVE  Numbered(AddReleases(d, L, N, zipped))
<1> DEFINE e == AddReleases(d, L, N, zipped)
           new == {<<RowId(d.relSeq, N, k), Key(L[k])>> : k \in Inserted(L, N, KeysOf(d))}
<1>1. N \in SUBSET Nat /\ IsFiniteSet(N) /\ Cardinality(N) \in Nat
  BY PositionsFinite, FS_Subset, FS_CardinalityType
<1>2. /\ e.relSeq = d.relSeq + Cardinality(N) /\ e.pakSeq = d.pakSeq
      /\ e.releases = d.releases \union new /\ e.packages = d.packages
  BY DEF AddReleases, IsDb, Tables
<1>3. \A k \in N : RowId(d.relSeq, N, k) \in 1 .. d.relSeq + Cardinality(N)
  BY <1>1, RankBounds DEF RowId, Numbered
<1>4. \A r \in new : r[1] \in 1 .. d.relSeq + Cardinality(N)
  BY <1>3 DEF Inserted
<1> HIDE DEF new, e
<1>5. \A r \in e.releases : r[1] \in 1 .. e.relSeq
  BY <1>1, <1>2, <1>4 DEF Numbered
<1>6. Numbered(e)
  BY <1>1, <1>2, <1>5 DEF Numbered
<1> QED
  BY <1>6 DEF e

LEMMA PackagesNumbered ==
    ASSUME NEW d, IsDb(d), Numbered(d), NEW L \in RepoLists \union {<<>>},
           NEW zipped, FiniteRows(L, zipped)
    PROVE  Numbered(AddPackages(d, L, zipped))
<1> DEFINE e == AddPackages(d, L, zipped)
           slots == Slots(L, zipped)
           before(s) == {t \in slots : NotAfter(t, s)}
           pakId(s) == d.pakSeq + Cardinality(before(s))
           new == {<<pakId(s), s[1][1], Package(L, s)>> : s \in slots}
<1>1. IsFiniteSet(slots) /\ Cardinality(slots) \in Nat
  BY SlotsFinite, FS_CardinalityType
<1>2. /\ e.pakSeq = d.pakSeq + Cardinality(slots) /\ e.relSeq = d.relSeq
      /\ e.packages = d.packages \union new /\ e.releases = d.releases
  BY DEF AddPackages, IsDb, Tables
<1>3. ASSUME NEW s \in slots
      PROVE  pakId(s) \in 1 .. d.pakSeq + Cardinality(slots)
  <2>1. s \in before(s)
    BY SlotsFinite
  <2>2. before(s) \in SUBSET slots
    OBVIOUS
  <2>3. /\ IsFiniteSet(before(s)) /\ Cardinality(before(s)) <= Cardinality(slots)
    BY <1>1, <2>2, FS_Subset
  <2>4. Cardinality(before(s)) \in Nat /\ Cardinality(before(s)) # 0
    BY <2>1, <2>3, FS_CardinalityType, FS_EmptySet
  <2> HIDE DEF before
  <2> QED
    BY <1>1, <2>3, <2>4 DEF Numbered
<1>4. ASSUME NEW p \in new
      PROVE  p[1] \in 1 .. d.pakSeq + Cardinality(slots)
  <2>1. PICK s \in slots : p = <<pakId(s), s[1][1], Package(L, s)>>
    OBVIOUS
  <2> HIDE DEF pakId
  <2>2. p[1] = pakId(s)
    BY <2>1
  <2> QED
    BY <1>3, <2>2
<1> HIDE DEF new, e, slots
<1>5. \A p \in e.packages : p[1] \in 1 .. e.pakSeq
  BY <1>1, <1>2, <1>4 DEF Numbered
<1>6. Numbered(e)
  BY <1>1, <1>2, <1>5 DEF Numbered
<1> QED
  BY <1>6 DEF e

LEMMA OthersNumbered ==
    ASSUME NEW d, IsDb(d), Numbered(d), NEW L, NEW zipped, NEW names
    PROVE  /\ Numbered(AddFiles(d, L, zipped))
           /\ Numbered([d EXCEPT !.names = names])
BY DEF AddFiles, Numbered, IsDb, Tables
-----------------------------------------------------------------------------
LEMMA TypeInvInit == DbInit => TypeInv
<1>1. Numbered(EmptyDb)
  BY DEF Numbered, EmptyDb
<1> QED
  BY <1>1, ShapeInit, FS_EmptySet
  DEF DbInit, TypeInv, ListsKnown, AllNumbered, FiniteRows

LEMMA ControlTypesStep ==
    TypeInv /\ [DbNext]_dbVars => writer' \in Handlers \union {None} /\ stale' \subseteq Handlers
BY DEF TypeInv, Shape, DbNext, dbVars, Transact, Busy, BuildPanics, FilesFail, Abort, Rollback,
       Close, ReadReleases, WriteNames, WriteReleases, WritePackages, WriteFiles, Commit,
       Reply, DbCrash

LEMMA ListsStep == TypeInv /\ [DbNext]_dbVars => ListsKnown'
<1> SUFFICES ASSUME TypeInv, [DbNext]_dbVars PROVE ListsKnown'
  OBVIOUS
<1> USE DEF TypeInv, Shape, PerHandler, ListsKnown, Enter, Stages, Open, Inserting
<1>e. FiniteRows(<<>>, {}) /\ \A L : FiniteRows(L, {})
  BY FS_EmptySet DEF FiniteRows
<1>r. ASSUME NEW h \in Handlers, Rollback(h) PROVE ListsKnown'
  BY <1>r, <1>e DEF Rollback, Close
<1>1. ASSUME NEW h \in Handlers, NEW L \in RepoLists, ReadReleases(h, L)
      PROVE  ListsKnown'
  <2>1. rows' = rows /\ \A g \in Handlers : g # h => list'[g] = list[g] /\ fresh'[g] = fresh[g]
    BY <1>1 DEF ReadReleases
  <2>2. list'[h] = L /\ fresh'[h] = Fresh(L, KeysOf(db)) /\ Fresh(L, KeysOf(db)) \subseteq DOMAIN L
    BY <1>1 DEF ReadReleases, Fresh
  <2>3. list' \in [Handlers -> RepoLists \union {<<>>}]
    BY <1>1 DEF ReadReleases
  <2>4. rows[h] = {} /\ stage' = [stage EXCEPT ![h] = "filtered"]
    BY <1>1 DEF ReadReleases
  <2>5. \A g \in Handlers : g # h => stage'[g] = stage[g]
    BY <2>4
  <2>6. stage'[h] = "filtered"
    BY <2>4
  <2>7. ASSUME NEW g \in Handlers
        PROVE  /\ fresh'[g] \subseteq DOMAIN list'[g]
               /\ FiniteRows(list'[g], rows'[g])
               /\ stage'[g] \notin Open => fresh'[g] = {}
               /\ stage'[g] \notin Inserting => rows'[g] = {}
    <3>1. CASE g = h
      BY <3>1, <2>1, <2>2, <2>4, <2>6, <1>e
    <3>2. CASE g # h
      BY <3>2, <2>1, <2>5
    <3> QED
      BY <3>1, <3>2
  <2> HIDE DEF TypeInv, Shape, PerHandler, Enter, Stages, Open, Inserting
  <2> QED
    BY <2>3, <2>7 DEF ListsKnown
<1>2. ASSUME NEW h \in Handlers, WriteNames(h) \/ WritePackages(h) \/ WriteFiles(h)
      PROVE  ListsKnown'
  BY <1>2 DEF WriteNames, WritePackages, WriteFiles
<1>3. ASSUME NEW h \in Handlers, WriteReleases(h) PROVE ListsKnown'
  <2>1. FiniteRows(list[h], ZippedBy(h))
    BY ZippedFinite DEF ZippedBy, AllNumbered, Numbered
  <2> QED
    BY <1>3, <2>1 DEF WriteReleases
<1>6. ASSUME NEW h \in Handlers, Commit(h) PROVE ListsKnown'
  BY <1>6, <1>e DEF Commit, Close
<1>7. ASSUME NEW h \in Handlers, Reply(h) PROVE ListsKnown'
  BY <1>7, <1>e DEF Reply
<1>8. CASE DbCrash
  BY <1>8, <1>e DEF DbCrash
<1>9. CASE UNCHANGED dbVars
  BY <1>9 DEF dbVars
<1> QED
  BY <1>r, <1>1, <1>2, <1>3, <1>6, <1>7, <1>8, <1>9
  DEF DbNext, Transact, Busy, BuildPanics, FilesFail, Abort

LEMMA NumbersStep == TypeInv /\ [DbNext]_dbVars => AllNumbered'
<1> SUFFICES ASSUME TypeInv, [DbNext]_dbVars PROVE AllNumbered'
  OBVIOUS
<1> USE DEF TypeInv, Shape, PerHandler, AllNumbered
<1>e. Numbered(EmptyDb)
  BY DEF Numbered, EmptyDb
<1>k. \A h \in Handlers : /\ list[h] \in RepoLists \union {<<>>}
                          /\ fresh[h] \subseteq DOMAIN list[h]
                          /\ FiniteRows(list[h], rows[h])
  BY DEF ListsKnown
<1>r. ASSUME NEW h \in Handlers, Rollback(h) PROVE AllNumbered'
  BY <1>r, <1>e DEF Rollback, Close
<1>1. ASSUME NEW h \in Handlers, NEW L \in RepoLists, ReadReleases(h, L)
      PROVE  AllNumbered'
  BY <1>1 DEF ReadReleases
<1>2. ASSUME NEW h \in Handlers, WriteNames(h) PROVE AllNumbered'
  <2>1. PICK names : work' = [work EXCEPT ![h] = [work[h] EXCEPT !.names = names]]
    BY <1>2 DEF WriteNames
  <2> QED
    BY <1>2, <2>1, OthersNumbered DEF WriteNames
<1>3. ASSUME NEW h \in Handlers, WriteReleases(h) PROVE AllNumbered'
  BY <1>3, <1>k, ReleasesNumbered DEF WriteReleases
<1>4. ASSUME NEW h \in Handlers, WritePackages(h) PROVE AllNumbered'
  BY <1>4, <1>k, PackagesNumbered DEF WritePackages
<1>5. ASSUME NEW h \in Handlers, WriteFiles(h) PROVE AllNumbered'
  BY <1>5, OthersNumbered DEF WriteFiles
<1>6. ASSUME NEW h \in Handlers, Commit(h) PROVE AllNumbered'
  BY <1>6, <1>e DEF Commit, Close
<1>7. ASSUME NEW h \in Handlers, Reply(h) PROVE AllNumbered'
  BY <1>7 DEF Reply
<1>8. CASE DbCrash
  BY <1>8, <1>e DEF DbCrash
<1>9. CASE UNCHANGED dbVars
  BY <1>9 DEF dbVars
<1> QED
  BY <1>r, <1>1, <1>2, <1>3, <1>4, <1>5, <1>6, <1>7, <1>8, <1>9
  DEF DbNext, Transact, Busy, BuildPanics, FilesFail, Abort

(***************************************************************************)
(* The state has its types, and every id in a table, committed or not, is  *)
(* one its AUTOINCREMENT counter has handed out: no insert reuses one.     *)
(***************************************************************************)
THEOREM DbTypesAreCorrect == DbSpec => []DbTypeOK
<1>1. TypeInv /\ [DbNext]_dbVars => TypeInv'
  BY ShapeStep, ControlTypesStep, ListsStep, NumbersStep DEF TypeInv
<1>2. TypeInv => DbTypeOK
  BY DEF TypeInv, Shape, ListsKnown, AllNumbered, Numbered, DbTypeOK
<1> QED
  BY TypeInvInit, <1>1, <1>2, PTL DEF DbSpec
-----------------------------------------------------------------------------
Extends(e, d) ==
    /\ d.releases \subseteq e.releases
    /\ d.details \subseteq e.details
    /\ d.packages \subseteq e.packages
    /\ d.files \subseteq e.files

ViewExtends ==
    \A h \in Handlers : stage[h] \in Open /\ h \notin stale => Extends(work[h], db)

StoreInv == Shape /\ Control /\ ViewExtends

(* What the tables d hold of a package p: rows for all that it lists. *)
Listed(d, p) ==
    \A f \in p.filelist :
        /\ \E r \in d.files : r[2] = f.hash
        /\ <<f.hash, p.archives[f.archive]>> \in d.entries
        /\ f.archive \in p.offered => p.archives[f.archive] \in d.sources

(* The packages a transaction has stored and whose files it has not. *)
Pending(h) ==
    {Package(list[h], s) : s \in IF stage[h] = "packaged" THEN Slots(list[h], rows[h]) ELSE {}}

Fetchable(d, but) == \A q \in d.packages : q[3] \in but \/ Listed(d, q[3])

FetchInv == Shape /\ Fetchable(db, {}) /\ \A h \in Handlers : Fetchable(work[h], Pending(h))
-----------------------------------------------------------------------------
(* No statement of a transaction removes a row from its view. *)
LEMMA StatementsExtend ==
    ASSUME NEW d, NEW e, IsDb(e), Extends(e, d), NEW L, NEW N, NEW zipped
    PROVE  /\ Extends(AddReleases(e, L, N, zipped), d)
           /\ Extends(AddPackages(e, L, zipped), d)
           /\ Extends(AddFiles(e, L, zipped), d)
<1>1. Extends(AddReleases(e, L, N, zipped), d)
  BY DEF AddReleases, Extends, IsDb, Tables
<1>2. Extends(AddPackages(e, L, zipped), d)
  BY DEF AddPackages, Extends, IsDb, Tables
<1>3. Extends(AddFiles(e, L, zipped), d)
  BY DEF AddFiles, Extends, IsDb, Tables
<1> QED
  BY <1>1, <1>2, <1>3

(* A view that is current keeps extending the tables. *)
LEMMA ExtendsStep ==
    Shape /\ Control /\ ViewExtends /\ [DbNext]_dbVars => ViewExtends'
<1> SUFFICES ASSUME Shape, Control, ViewExtends, [DbNext]_dbVars PROVE ViewExtends'
  OBVIOUS
<1> USE DEF Shape, PerHandler, ViewExtends, Stages, Open
<1>r. ASSUME NEW h \in Handlers, Rollback(h) PROVE ViewExtends'
  BY <1>r DEF Rollback, Close, Enter
<1>1. ASSUME NEW h \in Handlers, NEW L \in RepoLists, ReadReleases(h, L)
      PROVE  ViewExtends'
  BY <1>1 DEF ReadReleases, Enter, Extends
<1>2. ASSUME NEW h \in Handlers, WriteNames(h) PROVE ViewExtends'
  BY <1>2 DEF WriteNames, Enter, Extends, IsDb, Tables
<1>3. ASSUME NEW h \in Handlers, WriteReleases(h) PROVE ViewExtends'
  BY <1>3, StatementsExtend DEF WriteReleases, Enter
<1>4. ASSUME NEW h \in Handlers, WritePackages(h) PROVE ViewExtends'
  BY <1>4, StatementsExtend DEF WritePackages, Enter
<1>5. ASSUME NEW h \in Handlers, WriteFiles(h) PROVE ViewExtends'
  BY <1>5, StatementsExtend DEF WriteFiles, Enter
<1>6. ASSUME NEW h \in Handlers, Commit(h) PROVE ViewExtends'
  BY <1>6 DEF Commit, Close, Enter
<1>7. ASSUME NEW h \in Handlers, Reply(h) PROVE ViewExtends'
  BY <1>7 DEF Reply, Enter
<1>8. CASE DbCrash
  BY <1>8 DEF DbCrash
<1>9. CASE UNCHANGED dbVars
  BY <1>9 DEF dbVars
<1> QED
  BY <1>r, <1>1, <1>2, <1>3, <1>4, <1>5, <1>6, <1>7, <1>8, <1>9
  DEF DbNext, Transact, Busy, BuildPanics, FilesFail, Abort

(* A commit publishes an extension of what was committed. *)
LEMMA CommitExtends ==
    ASSUME StoreInv, [DbNext]_dbVars
    PROVE  Extends(db', db)
<1>1. CASE db' = db
  BY <1>1 DEF Extends
<1>2. CASE db' # db
  <2>1. PICK h \in Handlers : Commit(h)
    BY <1>2, OnlyCommitWrites
  <2>2. stage[h] \in Open /\ h \notin stale /\ db' = work[h]
    BY <2>1 DEF StoreInv, Control, Commit, Open, Writing
  <2> QED
    BY <2>2 DEF StoreInv, ViewExtends
<1> QED
  BY <1>1, <1>2

LEMMA StoreInvariant == DbSpec => []StoreInv
<1>1. DbInit => StoreInv
  BY ShapeInit, ControlInit DEF DbInit, StoreInv, ViewExtends, Open
<1>2. StoreInv /\ [DbNext]_dbVars => StoreInv'
  BY ShapeStep, ControlStep, ExtendsStep DEF StoreInv
<1> QED
  BY <1>1, <1>2, PTL DEF DbSpec

(***************************************************************************)
(* No committed row is lost: SQLite refuses the lock to a transaction that *)
(* read before the last commit, so none commits an old view of the tables. *)
(***************************************************************************)
THEOREM CommittedIsKept == DbSpec => NothingIsLost
<1> DEFINE Kept == /\ db.releases \subseteq db'.releases
                   /\ db.details \subseteq db'.details
                   /\ db.packages \subseteq db'.packages
                   /\ db.files \subseteq db'.files
<1>1. StoreInv /\ [DbNext]_dbVars => [Kept]_db
  BY CommitExtends DEF Extends
<1> QED
  BY <1>1, StoreInvariant, PTL DEF DbSpec, NothingIsLost
-----------------------------------------------------------------------------
(* A commit stores each mod of the list, new or already known. *)
LEMMA CommitStores ==
    ASSUME DbInv, NEW h \in Handlers, Commit(h)
    PROVE  \A k \in DOMAIN list[h] : Key(list[h][k]) \in KeysOf(db')
<1> DEFINE L == list[h]
           N == fresh[h]
<1>1. /\ N = Fresh(L, KeysOf(db))
      /\ db'.releases = db.releases \union NewReleases(db, L, N)
      /\ db'.details = db.details \union NewDetails(db, L, N)
  BY Committed DEF DbInv
<1> HIDE DEF L, N
<1>2. KeysOf(db') = KeysOf(db) \union NewKeys(L, N)
  BY <1>1, KeysCommitted
<1>3. \A k \in DOMAIN L : Key(L[k]) \in KeysOf(db) \/ k \in N
  BY <1>1 DEF Fresh
<1>4. \A k \in DOMAIN L : Key(L[k]) \in KeysOf(db')
  BY <1>2, <1>3 DEF NewKeys
<1> QED
  BY <1>4 DEF L

(* The keys of the tables only grow. *)
LEMMA KeysGrow ==
    ASSUME StoreInv, [DbNext]_dbVars
    PROVE  KeysOf(db) \subseteq KeysOf(db')
BY CommitExtends DEF Extends, KeysOf

LEMMA AnsweredStep ==
    ASSUME DbInv, StoreInv, AnsweredIsStored, [DbNext]_dbVars
    PROVE  AnsweredIsStored'
<1> SUFFICES ASSUME NEW g \in Handlers, stage'[g] = "updated",
                    NEW k \in DOMAIN list'[g]
             PROVE  Key(list'[g][k]) \in KeysOf(db')
  BY DEF AnsweredIsStored, KeysOf
<1>1. CASE stage[g] = "updated" /\ list'[g] = list[g]
  BY <1>1, KeysGrow DEF AnsweredIsStored
<1>2. CASE Commit(g)
  BY <1>2, CommitStores DEF Commit
<1>3. (stage[g] = "updated" /\ list'[g] = list[g]) \/ Commit(g)
  <2> USE DEF StoreInv, Shape, PerHandler, Stages
  <2>r. ASSUME NEW h \in Handlers, Rollback(h)
        PROVE  stage[g] = "updated" /\ list'[g] = list[g]
    BY <2>r DEF Rollback, Close, Enter
  <2>1. ASSUME NEW h \in Handlers, NEW L \in RepoLists, ReadReleases(h, L)
        PROVE  stage[g] = "updated" /\ list'[g] = list[g]
    BY <2>1 DEF ReadReleases, Enter
  <2>2. ASSUME NEW h \in Handlers,
               WriteNames(h) \/ WriteReleases(h) \/ WritePackages(h) \/ WriteFiles(h)
        PROVE  stage[g] = "updated" /\ list'[g] = list[g]
    BY <2>2 DEF WriteNames, WriteReleases, WritePackages, WriteFiles, Enter
  <2>3. ASSUME NEW h \in Handlers, Commit(h)
        PROVE  (stage[g] = "updated" /\ list'[g] = list[g]) \/ Commit(g)
    BY <2>3 DEF Commit, Close, Enter
  <2>4. ASSUME NEW h \in Handlers, Reply(h)
        PROVE  stage[g] = "updated" /\ list'[g] = list[g]
    BY <2>4 DEF Reply, Enter
  <2>5. CASE DbCrash
    BY <2>5 DEF DbCrash
  <2>6. CASE UNCHANGED dbVars
    BY <2>6 DEF dbVars
  <2> QED
    BY <2>r, <2>1, <2>2, <2>3, <2>4, <2>5, <2>6
    DEF DbNext, Transact, Busy, BuildPanics, FilesFail, Abort
<1> QED
  BY <1>1, <1>2, <1>3

(***************************************************************************)
(* "updated" is true: each mod of the list is stored, whether this update  *)
(* inserted it or filtered it out, although the filter ran on a snapshot.  *)
(***************************************************************************)
THEOREM AnswersAreTrue ==
    ASSUME DuplicateFreeLists
    PROVE  DbSpec => []AnsweredIsStored
<1>1. DbInit => AnsweredIsStored
  BY DEF DbInit, AnsweredIsStored
<1>2. DbInv /\ StoreInv /\ AnsweredIsStored /\ [DbNext]_dbVars => AnsweredIsStored'
  BY AnsweredStep
<1> QED
  BY <1>1, <1>2, DbInvariant, StoreInvariant, PTL DEF DbSpec
-----------------------------------------------------------------------------
(* The statement that writes the files of the packages it was given writes *)
(* their entries and sources.                                              *)
LEMMA FilesWritten ==
    ASSUME NEW d, IsDb(d), NEW L, NEW zipped, ~FilesRejected(d, L, zipped),
           Fetchable(d, {Package(L, s) : s \in Slots(L, zipped)})
    PROVE  Fetchable(AddFiles(d, L, zipped), {})
<1> DEFINE paks == {Package(L, s) : s \in Slots(L, zipped)}
           e == AddFiles(d, L, zipped)
<1>1. /\ e.packages = d.packages
      /\ e.files = d.files \union FileRows(L, zipped)
      /\ e.entries = d.entries \union EntriesOf(paks)
      /\ e.sources = d.sources \union Archives(paks)
  BY DEF AddFiles, IsDb, Tables
<1>2. ASSUME NEW s \in Slots(L, zipped), NEW f \in Package(L, s).filelist
      PROVE  LET p == Package(L, s)
             IN  /\ <<s[1][1], f.hash>> \in FileRows(L, zipped)
                 /\ <<f.hash, p.archives[f.archive]>> \in EntriesOf(paks)
                 /\ f.archive \in p.offered => p.archives[f.archive] \in Archives(paks)
  <2>1. Package(L, s) \in paks
    OBVIOUS
  <2>2. <<s[1][1], f.hash>> \in FileRows(L, zipped)
    BY DEF FileRows
  <2> HIDE DEF paks
  <2> QED
    BY <2>1, <2>2 DEF EntriesOf, Archives
<1> HIDE DEF e
<1>3. ASSUME NEW p \in paks PROVE Listed(e, p)
  <2>1. PICK s \in Slots(L, zipped) : p = Package(L, s)
    OBVIOUS
  <2> SUFFICES ASSUME NEW f \in p.filelist
               PROVE  /\ \E r \in e.files : r[2] = f.hash
                      /\ <<f.hash, p.archives[f.archive]>> \in e.entries
                      /\ f.archive \in p.offered => p.archives[f.archive] \in e.sources
    BY DEF Listed
  <2> HIDE DEF paks
  <2>2. /\ <<s[1][1], f.hash>> \in e.files
        /\ <<f.hash, p.archives[f.archive]>> \in e.entries
        /\ f.archive \in p.offered => p.archives[f.archive] \in e.sources
    BY <1>1, <1>2, <2>1
  <2> QED
    BY <2>2
<1>4. ASSUME NEW p, Listed(d, p) PROVE Listed(e, p)
  BY <1>1, <1>4 DEF Listed
<1>5. \A q \in e.packages : q[3] \in paks \/ Listed(d, q[3])
  BY <1>1 DEF Fetchable
<1> HIDE DEF paks
<1> QED
  BY <1>3, <1>4, <1>5 DEF Fetchable, e

(* The packages it stored are those it then writes the files of. *)
LEMMA PackagesWritten ==
    ASSUME NEW d, IsDb(d), Fetchable(d, {}), NEW L, NEW zipped
    PROVE  Fetchable(AddPackages(d, L, zipped), {Package(L, s) : s \in Slots(L, zipped)})
<1> DEFINE paks == {Package(L, s) : s \in Slots(L, zipped)}
           e == AddPackages(d, L, zipped)
<1>1. e.files = d.files /\ e.entries = d.entries /\ e.sources = d.sources
  BY DEF AddPackages, IsDb, Tables
<1>2. \A q \in e.packages : q \in d.packages \/ q[3] \in paks
  <2> DEFINE slots == Slots(L, zipped)
             pakId(s) == d.pakSeq + Cardinality({u \in slots : NotAfter(u, s)})
  <2>1. e.packages = d.packages \union {<<pakId(s), s[1][1], Package(L, s)>> : s \in slots}
    BY DEF AddPackages, IsDb, Tables
  <2> HIDE DEF e, pakId
  <2> QED
    BY <2>1
<1> HIDE DEF e, paks
<1>3. \A q \in d.packages : Listed(e, q[3])
  BY <1>1 DEF Fetchable, Listed
<1>4. Fetchable(e, paks)
  BY <1>2, <1>3 DEF Fetchable
<1> QED
  BY <1>4 DEF e, paks

(* The other statements leave all of these tables alone. *)
LEMMA FetchableKept ==
    ASSUME NEW d, NEW e, NEW but, Fetchable(d, but),
           /\ e.packages = d.packages /\ e.files = d.files
           /\ e.entries = d.entries /\ e.sources = d.sources
    PROVE  Fetchable(e, but)
BY DEF Fetchable, Listed

LEMMA FetchStep == FetchInv /\ [DbNext]_dbVars => FetchInv'
<1> DEFINE Goal == Fetchable(db', {}) /\ \A g \in Handlers : Fetchable(work'[g], Pending(g)')
<1> SUFFICES ASSUME FetchInv, [DbNext]_dbVars PROVE Goal
  BY ShapeStep DEF FetchInv, Fetchable, Listed
<1> USE DEF FetchInv, Shape, PerHandler
<1>e. Fetchable(EmptyDb, {}) /\ \A h \in Handlers : Fetchable(EmptyDb, Pending(h)')
  BY DEF Fetchable, EmptyDb
<1>w. \A h \in Handlers : stage[h] # "packaged" => Fetchable(work[h], {})
  BY DEF Pending
<1>o. ASSUME NEW h \in Handlers, db' = db, Fetchable(work'[h], Pending(h)'),
             \A g \in Handlers \ {h} :
                 /\ work'[g] = work[g] /\ stage'[g] = stage[g]
                 /\ list'[g] = list[g] /\ rows'[g] = rows[g]
      PROVE  Goal
  <2>1. ASSUME NEW g \in Handlers \ {h} PROVE Pending(g)' = Pending(g)
    <3>1. stage'[g] = stage[g] /\ list'[g] = list[g] /\ rows'[g] = rows[g]
      BY <1>o
    <3> HIDE DEF FetchInv, Shape, PerHandler
    <3> QED
      BY ONLY <3>1 DEF Pending, Slots, Package
  <2> QED
    BY <1>o, <2>1
<1>n. \A h \in Handlers : stage'[h] # "packaged" => Pending(h)' = {}
  BY DEF Pending
<1>r. ASSUME NEW h \in Handlers, Rollback(h) PROVE Goal
  BY <1>r, <1>e, <1>o DEF Rollback, Close, Enter
<1>1. ASSUME NEW h \in Handlers, NEW L \in RepoLists, ReadReleases(h, L) PROVE Goal
  BY <1>1, <1>o, <1>n DEF ReadReleases, Enter
<1>2. ASSUME NEW h \in Handlers, WriteNames(h) PROVE Goal
  <2>1. /\ work'[h].packages = work[h].packages /\ work'[h].files = work[h].files
        /\ work'[h].entries = work[h].entries /\ work'[h].sources = work[h].sources
    BY <1>2 DEF WriteNames, IsDb, Tables
  <2>2. Fetchable(work'[h], {})
    BY <1>2, <1>w, <2>1, FetchableKept DEF WriteNames
  <2> QED
    BY <1>2, <2>2, <1>o, <1>n DEF WriteNames, Enter
<1>3. ASSUME NEW h \in Handlers, WriteReleases(h) PROVE Goal
  <2>1. /\ work'[h].packages = work[h].packages /\ work'[h].files = work[h].files
        /\ work'[h].entries = work[h].entries /\ work'[h].sources = work[h].sources
    BY <1>3 DEF WriteReleases, AddReleases, IsDb, Tables
  <2>2. Fetchable(work'[h], {})
    BY <1>3, <1>w, <2>1, FetchableKept DEF WriteReleases
  <2> QED
    BY <1>3, <2>2, <1>o, <1>n DEF WriteReleases, Enter
<1>4. ASSUME NEW h \in Handlers, WritePackages(h) PROVE Goal
  <2>1. Fetchable(AddPackages(work[h], list[h], rows[h]),
                  {Package(list[h], s) : s \in Slots(list[h], rows[h])})
    BY <1>4, <1>w, PackagesWritten DEF WritePackages
  <2>2. /\ work'[h] = AddPackages(work[h], list[h], rows[h])
        /\ stage'[h] = "packaged" /\ list' = list /\ rows' = rows
    BY <1>4 DEF WritePackages, Enter
  <2>3. Pending(h)' = {Package(list[h], s) : s \in Slots(list[h], rows[h])}
    BY <2>2 DEF Pending, Slots, Package
  <2> QED
    BY <1>4, <2>1, <2>2, <2>3, <1>o DEF WritePackages, Enter
<1>5. ASSUME NEW h \in Handlers, WriteFiles(h) PROVE Goal
  <2>1. Pending(h) = {Package(list[h], s) : s \in Slots(list[h], rows[h])}
    BY <1>5 DEF WriteFiles, Pending
  <2>2. Fetchable(AddFiles(work[h], list[h], rows[h]), {})
    BY <1>5, <2>1, FilesWritten DEF WriteFiles
  <2> QED
    BY <1>5, <2>2, <1>o, <1>n DEF WriteFiles, Enter
<1>6. ASSUME NEW h \in Handlers, Commit(h) PROVE Goal
  <2>1. Fetchable(db', {})
    BY <1>6, <1>w DEF Commit
  <2>2. \A g \in Handlers : Fetchable(work'[g], Pending(g)')
    BY <1>6, <1>e DEF Commit, Close, Enter, Pending
  <2> QED
    BY <2>1, <2>2
<1>7. ASSUME NEW h \in Handlers, Reply(h) PROVE Goal
  BY <1>7, <1>w, <1>o, <1>n DEF Reply, Enter
<1>8. CASE DbCrash
  BY <1>8, <1>e DEF DbCrash
<1>9. CASE UNCHANGED dbVars
  BY <1>9 DEF dbVars, Pending
<1> QED
  BY <1>r, <1>1, <1>2, <1>3, <1>4, <1>5, <1>6, <1>7, <1>8, <1>9
  DEF DbNext, Transact, Busy, BuildPanics, FilesFail, Abort

(***************************************************************************)
(* What a committed package lists can be traced, and fetched where the     *)
(* list gives a url: while a transaction has stored packages and not yet   *)
(* their files it cannot commit, and the statement that writes the files   *)
(* writes them for just those packages.  This needs nothing of the lists,  *)
(* not even that their keys are distinct or that their archives have urls. *)
(***************************************************************************)
THEOREM OfferedFilesHaveSources == DbSpec => []OfferedFilesAreFetchable
<1>1. DbInit => FetchInv
  BY ShapeInit DEF DbInit, FetchInv, Fetchable, EmptyDb
<1>2. FetchInv => OfferedFilesAreFetchable
  BY DEF FetchInv, Fetchable, Listed, OfferedFilesAreFetchable
<1> QED
  BY <1>1, <1>2, FetchStep, PTL DEF DbSpec
-----------------------------------------------------------------------------
(* The rows of a statement: each new position with the id of its rank. *)
Numbering(seq, N) == {<<RowId(seq, N, k), k>> : k \in N}

(* The package rows a transaction adds: the slots in order, from seq on. *)
PakId(seq, slots, s) == seq + Cardinality({t \in slots : NotAfter(t, s)})
NewPackages(seq, L, zipped) ==
    {<<PakId(seq, Slots(L, zipped), s), s[1][1], Package(L, s)>> : s \in Slots(L, zipped)}

(* What a transaction that can still commit has made of the packages. *)
Packed(h) ==
    /\ stage[h] \in {"filtered", "named", "released"} =>
         work[h].packages = db.packages /\ work[h].pakSeq = db.pakSeq
    /\ stage[h] \in Inserting => rows[h] = Numbering(db.relSeq, fresh[h])
    /\ stage[h] \in {"packaged", "filed"} =>
         work[h].packages = db.packages \union NewPackages(db.pakSeq, list[h], rows[h])

PackedIsCurrent ==
    \A h \in Handlers : stage[h] \in Open /\ h \notin stale => Packed(h)

(* packages.rel_id REFERENCES releases(rel_id) *)
PackagesOwned == \A p \in db.packages : \E r \in db.releases : r[1] = p[2]

WholeInv ==
    /\ DbInv
    /\ TypeInv
    /\ PackedIsCurrent
    /\ PackagesOwned
    /\ ReleasesAreWhole
-----------------------------------------------------------------------------
(* Whoever can still commit has added the packages of its new mods to the
   committed ones. *)
LEMMA PackedStep ==
    ASSUME DuplicateFreeLists
    PROVE  DbInv /\ PackedIsCurrent /\ [DbNext]_dbVars => PackedIsCurrent'
<1> SUFFICES ASSUME Shape, Control, ViewIsCurrent, PackedIsCurrent, [DbNext]_dbVars,
                    NEW g \in Handlers, stage'[g] \in Open, g \notin stale'
             PROVE  Packed(g)'
  BY DEF DbInv, PackedIsCurrent
<1> USE DEF Shape, PerHandler, Open, Inserting
<1>s. ASSUME UNCHANGED <<db, stage[g], work[g], list[g], fresh[g], rows[g]>>,
             g \notin stale
      PROVE  Packed(g)'
  <2>1. Packed(g)
    BY <1>s DEF PackedIsCurrent
  <2>2. /\ Numbering(db.relSeq, fresh[g])' = Numbering(db.relSeq, fresh[g])
        /\ NewPackages(db.pakSeq, list[g], rows[g])' = NewPackages(db.pakSeq, list[g], rows[g])
    BY <1>s
  <2> QED
    BY <1>s, <2>1, <2>2 DEF Packed
<1>r. ASSUME NEW h \in Handlers, Rollback(h) PROVE Packed(g)'
  <2>1. g # h
    BY <1>r DEF Rollback, Close, Enter
  <2> QED
    BY <1>s, <1>r, <2>1 DEF Rollback, Close, Enter
<1>1. ASSUME NEW h \in Handlers, NEW L \in RepoLists, ReadReleases(h, L)
      PROVE  Packed(g)'
  <2>1. CASE g = h
    BY <1>1, <2>1 DEF ReadReleases, Enter, Packed
  <2>2. CASE g # h
    BY <1>s, <1>1, <2>2 DEF ReadReleases, Enter
  <2> QED
    BY <2>1, <2>2
<1>2. ASSUME NEW h \in Handlers, WriteNames(h) PROVE Packed(g)'
  <2>1. CASE g = h
    BY <1>2, <2>1 DEF WriteNames, Enter, Packed, PackedIsCurrent, IsDb, Tables
  <2>2. CASE g # h
    BY <1>s, <1>2, <2>2 DEF WriteNames, Enter
  <2> QED
    BY <2>1, <2>2
<1>3. ASSUME NEW h \in Handlers, WriteReleases(h) PROVE Packed(g)'
  <2>1. CASE g = h
    <3>1. /\ stage[h] = "named" /\ h \notin stale /\ list[h] \in RepoLists
          /\ View(h) /\ Packed(h)
      BY <1>3, <2>1 DEF WriteReleases, Control, ViewIsCurrent, PackedIsCurrent
    <3>2. ZippedBy(h) = Numbering(db.relSeq, fresh[h])
      <4>1. KeysOf(work[h]) = KeysOf(db) /\ work[h].relSeq = db.relSeq
        BY <3>1 DEF View, KeysOf
      <4>2. fresh[h] = Fresh(list[h], KeysOf(db)) /\ Catalogue!DuplicateFree(list[h])
        BY <3>1 DEF View, DuplicateFreeLists
      <4> QED
        BY <3>1, <4>1, <4>2, ZipIsIdentity DEF ZippedBy, Numbering
    <3>3. /\ work'[h].packages = work[h].packages
          /\ work'[h].pakSeq = work[h].pakSeq
      BY <1>3 DEF WriteReleases, AddReleases, IsDb, Tables
    <3>4. stage'[h] = "released" /\ rows'[h] = ZippedBy(h) /\ UNCHANGED <<db, fresh>>
      BY <1>3 DEF WriteReleases, Enter
    <3> QED
      BY <2>1, <3>1, <3>2, <3>3, <3>4 DEF Packed, Numbering
  <2>2. CASE g # h
    <3>1. UNCHANGED <<db, stage[g], work[g], list[g], fresh[g], rows[g], stale>>
      BY <1>3, <2>2 DEF WriteReleases, Enter
    <3> QED
      BY <1>s, <3>1
  <2> QED
    BY <2>1, <2>2
<1>4. ASSUME NEW h \in Handlers, WritePackages(h) PROVE Packed(g)'
  <2>1. CASE g = h
    <3>1. /\ stage[h] = "released" /\ stage'[h] = "packaged"
          /\ UNCHANGED <<db, stale, list, fresh, rows>>
      BY <1>4 DEF WritePackages, Enter
    <3>2. Packed(h)
      BY <2>1, <3>1 DEF PackedIsCurrent
    <3>3. work'[h] = AddPackages(work[h], list[h], rows[h])
      BY <1>4 DEF WritePackages
    <3>4. work'[h].packages = work[h].packages \union
            NewPackages(work[h].pakSeq, list[h], rows[h])
      BY <3>3 DEF AddPackages, NewPackages, PakId, IsDb, Tables
    <3>5. NewPackages(db.pakSeq, list[h], rows[h])' = NewPackages(db.pakSeq, list[h], rows[h])
      BY <3>1
    <3>6. Numbering(db.relSeq, fresh[h])' = Numbering(db.relSeq, fresh[h])
      BY <3>1
    <3> QED
      BY <2>1, <3>1, <3>2, <3>4, <3>5, <3>6 DEF Packed
  <2>2. CASE g # h
    BY <1>s, <1>4, <2>2 DEF WritePackages, Enter
  <2> QED
    BY <2>1, <2>2
<1>5. ASSUME NEW h \in Handlers, WriteFiles(h) PROVE Packed(g)'
  <2>1. CASE g = h
    <3>1. /\ stage[h] = "packaged" /\ stage'[h] = "filed"
          /\ UNCHANGED <<db, stale, list, fresh, rows>>
      BY <1>5 DEF WriteFiles, Enter
    <3>2. Packed(h)
      BY <2>1, <3>1 DEF PackedIsCurrent
    <3>3. work'[h] = AddFiles(work[h], list[h], rows[h])
      BY <1>5 DEF WriteFiles
    <3>4. work'[h].packages = work[h].packages
      BY <3>3 DEF AddFiles, IsDb, Tables
    <3>5. NewPackages(db.pakSeq, list[h], rows[h])' = NewPackages(db.pakSeq, list[h], rows[h])
      BY <3>1
    <3>6. Numbering(db.relSeq, fresh[h])' = Numbering(db.relSeq, fresh[h])
      BY <3>1
    <3> QED
      BY <2>1, <3>1, <3>2, <3>4, <3>5, <3>6 DEF Packed
  <2>2. CASE g # h
    BY <1>s, <1>5, <2>2 DEF WriteFiles, Enter
  <2> QED
    BY <2>1, <2>2
<1>6. ASSUME NEW h \in Handlers, Commit(h) PROVE Packed(g)'
  <2>1. stage'[h] \notin Open
    BY <1>6 DEF Commit, Close, Enter
  <2>2. g # h /\ stage[g] \notin Open
    BY <1>6, <2>1 DEF Commit, Close, Enter
  <2>3. stage'[g] = stage[g]
    BY <1>6, <2>2 DEF Commit, Close, Enter
  <2> QED
    BY <2>2, <2>3
<1>7. ASSUME NEW h \in Handlers, Reply(h) PROVE Packed(g)'
  <2>1. g # h
    BY <1>7 DEF Reply, Enter
  <2> QED
    BY <1>s, <1>7, <2>1 DEF Reply, Enter
<1>8. CASE DbCrash
  BY <1>8 DEF DbCrash
<1>9. CASE UNCHANGED dbVars
  BY <1>s, <1>9 DEF dbVars
<1> QED
  BY <1>r, <1>1, <1>2, <1>3, <1>4, <1>5, <1>6, <1>7, <1>8, <1>9
  DEF DbNext, Transact, Busy, BuildPanics, FilesFail, Abort
-----------------------------------------------------------------------------
(* Two packages of one mod get different ids. *)
LEMMA PakIdIsInjective ==
    ASSUME NEW L \in RepoLists, NEW zipped, FiniteRows(L, zipped), NEW seq \in Nat,
           NEW z \in zipped, NEW i \in DOMAIN L[z[2]].packs, NEW j \in DOMAIN L[z[2]].packs,
           PakId(seq, Slots(L, zipped), <<z, i>>) = PakId(seq, Slots(L, zipped), <<z, j>>)
    PROVE  i = j
<1> DEFINE slots == Slots(L, zipped)
           before(s) == {t \in slots : NotAfter(t, s)}
<1>1. IsFiniteSet(slots) /\ DOMAIN L \in SUBSET Nat
  BY SlotsFinite, ListDomain
<1>2. \A y \in zipped : y[2] \in Nat /\ DOMAIN L[y[2]].packs \in SUBSET Nat
  <2>1. \A y \in zipped : L[y[2]] \in Mods /\ y[2] \in DOMAIN L
    BY ListsOfMods DEF FiniteRows
  <2> QED
    BY <1>1, <2>1, PackagesOfMods
<1>3. \A t \in slots : t[1][2] \in Nat /\ t[2] \in Nat
  <2>1. \A t \in slots : \E y \in zipped : \E n \in DOMAIN L[y[2]].packs : t = <<y, n>>
    BY DEF Slots
  <2> QED
    BY <1>2, <2>1
<1>4. <<z, i>> \in slots /\ <<z, j>> \in slots
  BY DEF Slots
<1>5. ASSUME NEW a \in DOMAIN L[z[2]].packs, NEW b \in DOMAIN L[z[2]].packs, a < b,
             <<z, a>> \in slots, <<z, b>> \in slots
      PROVE  Cardinality(before(<<z, a>>)) # Cardinality(before(<<z, b>>))
  <2>0. a \in Nat /\ b \in Nat /\ z[2] \in Nat
    BY <1>2
  <2>1. before(<<z, a>>) \in SUBSET before(<<z, b>>)
    <3>1. ASSUME NEW t \in slots, NotAfter(t, <<z, a>>) PROVE NotAfter(t, <<z, b>>)
      BY <3>1, <1>3, <1>5, <2>0 DEF NotAfter
    <3> QED
      BY <3>1
  <2>2. <<z, b>> \in before(<<z, b>>) /\ <<z, b>> \notin before(<<z, a>>)
    BY <1>5, <2>0 DEF NotAfter
  <2>3. IsFiniteSet(before(<<z, b>>))
    <3>1. before(<<z, b>>) \in SUBSET slots
      OBVIOUS
    <3> HIDE DEF before, slots
    <3> QED
      BY <1>1, <3>1, FS_Subset
  <2> HIDE DEF before
  <2> QED
    BY <2>1, <2>2, <2>3, FS_Subset
<1>6. Cardinality(before(<<z, i>>)) = Cardinality(before(<<z, j>>))
  <2>1. \A s : IsFiniteSet(before(s))
    <3>1. \A s : before(s) \in SUBSET slots
      OBVIOUS
    <3> HIDE DEF before, slots
    <3> QED
      BY <1>1, <3>1, FS_Subset
  <2>2. \A s : Cardinality(before(s)) \in Nat
    BY <2>1, FS_CardinalityType
  <2>3. \A s : PakId(seq, slots, s) = seq + Cardinality(before(s))
    BY DEF PakId
  <2> HIDE DEF before, slots
  <2>4. seq + Cardinality(before(<<z, i>>)) = seq + Cardinality(before(<<z, j>>))
    BY <2>3 DEF slots
  <2> QED
    BY <2>2, <2>4
<1> HIDE DEF before, slots
<1>7. i \in Nat /\ j \in Nat
  BY <1>2
<1> QED
  BY <1>4, <1>5, <1>6, <1>7
-----------------------------------------------------------------------------
(* The packages of the release id are those of the mod m, each one once. *)
Under(paks, id) == {q \in paks : q[2] = id}
HasPackages(paks, id, m) ==
    /\ {p[3] : p \in Under(paks, id)} = {m.packs[i] : i \in DOMAIN m.packs}
    /\ Cardinality(Under(paks, id)) = Len(m.packs)

(* The rows of packages that a new release gets: one for each of its mod. *)
LEMMA ReleasePacked ==
    ASSUME NEW L \in RepoLists, NEW N \in SUBSET (DOMAIN L), NEW rel \in Nat, NEW seq \in Nat,
           NEW k \in N
    PROVE  HasPackages(NewPackages(seq, L, Numbering(rel, N)), RowId(rel, N, k), L[k])
<1> DEFINE zipped == Numbering(rel, N)
           slots == Slots(L, zipped)
           z == <<RowId(rel, N, k), k>>
           own == Under(NewPackages(seq, L, zipped), RowId(rel, N, k))
           row(i) == <<PakId(seq, slots, <<z, i>>), RowId(rel, N, k), L[k].packs[i]>>
           n == Len(L[k].packs)
<1>1. N \in SUBSET Nat /\ IsFiniteSet(N)
  BY ListDomain, FS_Subset
<1>2. \A j \in N : RowId(rel, N, j) = RowId(rel, N, k) => j = k
  <2>1. \A j \in N : Rank(N, j) \in Nat
    BY <1>1, RankBounds, FS_CardinalityType
  <2> QED
    BY <1>1, <2>1, RankIsInjective DEF RowId
<1>3. FiniteRows(L, zipped)
  <2>1. zipped = {<<RowId(rel, N, j), j>> : j \in N}
    BY DEF Numbering
  <2>2. IsFiniteSet(zipped)
    <3> DEFINE f == [j \in N |-> <<RowId(rel, N, j), j>>]
    <3>1. f \in Surjection(N, zipped)
      BY <2>1 DEF Surjection
    <3> HIDE DEF f, zipped
    <3> QED
      BY <1>1, <3>1, FS_Surjection
  <2>3. \A y \in zipped : y[2] \in DOMAIN L
    BY <2>1
  <2> QED
    BY <2>2, <2>3 DEF FiniteRows
<1>4. n \in Nat /\ DOMAIN L[k].packs = 1 .. n
  BY ListsOfMods, PackagesOfMods
<1>5. z \in zipped /\ z[1] = RowId(rel, N, k) /\ z[2] = k
  BY DEF Numbering
<1>6. \A i \in 1 .. n : row(i) \in own
  <2>1. ASSUME NEW i \in 1 .. n PROVE row(i) \in own
    <3> DEFINE s == <<z, i>>
    <3>1. s \in slots
      BY <1>4, <1>5 DEF Slots
    <3>2. s[1][1] = RowId(rel, N, k) /\ Package(L, s) = L[k].packs[i]
      BY DEF Package
    <3>3. row(i) = <<PakId(seq, slots, s), s[1][1], Package(L, s)>>
      BY <3>2
    <3>4. row(i) \in NewPackages(seq, L, zipped)
      <4> HIDE DEF s, zipped
      <4> QED
        BY <3>1, <3>3 DEF NewPackages
    <3> QED
      BY <3>4 DEF Under
  <2> QED
    BY <2>1
<1>7. \A q \in own : \E i \in 1 .. n : q = row(i)
  <2>1. ASSUME NEW q \in own PROVE \E i \in 1 .. n : q = row(i)
    <3>1. PICK s \in slots : q = <<PakId(seq, slots, s), s[1][1], Package(L, s)>>
      BY DEF NewPackages, Under
    <3>2. PICK y \in zipped : \E i \in DOMAIN L[y[2]].packs : s = <<y, i>>
      BY DEF Slots
    <3>3. PICK i \in DOMAIN L[y[2]].packs : s = <<y, i>>
      BY <3>2
    <3>4. PICK j \in N : y = <<RowId(rel, N, j), j>>
      BY DEF Numbering
    <3>5. q[2] = RowId(rel, N, j) /\ q[2] = RowId(rel, N, k)
      BY <3>1, <3>3, <3>4 DEF Under
    <3>6. j = k
      BY <1>2, <3>5
    <3>7. i \in 1 .. n /\ s = <<z, i>>
      BY <1>4, <3>3, <3>4, <3>6
    <3>8. Package(L, s) = L[k].packs[i]
      BY <3>7 DEF Package
    <3> HIDE DEF slots
    <3> QED
      BY <3>1, <3>7, <3>8
  <2> QED
    BY <2>1
<1>8. \A i, j \in 1 .. n : row(i) = row(j) => i = j
  <2>1. ASSUME NEW i \in 1 .. n, NEW j \in 1 .. n, row(i) = row(j) PROVE i = j
    <3>1. row(i)[1] = row(j)[1]
      BY <2>1
    <3>2. PakId(seq, slots, <<z, i>>) = PakId(seq, slots, <<z, j>>)
      <4> HIDE DEF slots, z
      <4> QED
        BY <3>1
    <3>3. i \in DOMAIN L[z[2]].packs /\ j \in DOMAIN L[z[2]].packs
      BY <1>4
    <3> HIDE DEF z, zipped
    <3> QED
      BY <1>3, <1>5, <3>2, <3>3, PakIdIsInjective
  <2> QED
    BY <2>1
<1>9. \A i \in 1 .. n : row(i)[3] = L[k].packs[i]
  OBVIOUS
<1> HIDE DEF own, row, n
<1>10. Cardinality(own) = n
  <2> DEFINE f == [i \in 1 .. n |-> row(i)]
  <2>1. f \in Bijection(1 .. n, own)
    BY <1>6, <1>7, <1>8 DEF Bijection, Injection, Surjection, IsInjective
  <2>2. IsFiniteSet(1 .. n) /\ Cardinality(1 .. n) = n
    BY <1>4, FS_Interval
  <2> HIDE DEF f
  <2>3. Cardinality(own) = Cardinality(1 .. n)
    BY <2>1, <2>2, FS_Bijection DEF ExistsBijection
  <2> QED
    BY <2>2, <2>3
<1>11. {p[3] : p \in own} = {L[k].packs[i] : i \in DOMAIN L[k].packs}
  <2>1. ASSUME NEW p \in own PROVE \E i \in DOMAIN L[k].packs : p[3] = L[k].packs[i]
    BY <1>4, <1>7, <1>9
  <2>2. ASSUME NEW i \in DOMAIN L[k].packs PROVE \E p \in own : p[3] = L[k].packs[i]
    BY <1>4, <1>6, <1>9
  <2> QED
    BY <2>1, <2>2
<1> QED
  BY <1>10, <1>11 DEF own, n, HasPackages

(* A release of the tables d has one details row and the packages of its mod. *)
Whole(d, r) == \E x \in d.details :
    /\ x[1] = r[1]
    /\ {e \in d.details : e[1] = r[1]} = {x}
    /\ HasPackages(d.packages, r[1], x[2])

(* The rows of the tables d that name a release name one of its releases. *)
Owned(d) ==
    /\ \A x \in d.details : \E r \in d.releases : r[1] = x[1]
    /\ \A p \in d.packages : \E r \in d.releases : r[1] = p[2]

(* A whole list, added under new ids, leaves every release whole. *)
LEMMA AddedIsWhole ==
    ASSUME NEW d, NEW e, NEW L \in RepoLists, NEW N \in SUBSET (DOMAIN L), NEW seq \in Nat,
           Numbered(d), Owned(d), \A r \in d.releases : Whole(d, r),
           e.releases = d.releases \union NewReleases(d, L, N),
           e.details = d.details \union NewDetails(d, L, N),
           e.packages = d.packages \union NewPackages(seq, L, Numbering(d.relSeq, N))
    PROVE  Owned(e) /\ \A r \in e.releases : Whole(e, r)
<1> DEFINE new == NewPackages(seq, L, Numbering(d.relSeq, N))
<1>1. N \in SUBSET Nat /\ IsFiniteSet(N)
  BY ListDomain, FS_Subset
<1>2. \A k \in N : RowId(d.relSeq, N, k) \in Nat /\ RowId(d.relSeq, N, k) > d.relSeq
  <2>1. \A k \in N : Rank(N, k) \in Nat \ {0}
    BY <1>1, RankBounds, FS_CardinalityType
  <2> QED
    BY <2>1 DEF RowId, Numbered
<1>3. \A r \in d.releases : r[1] \in Nat /\ r[1] <= d.relSeq
  BY DEF Numbered
<1>n. \A r \in d.releases : \A k \in N : r[1] # RowId(d.relSeq, N, k)
  <2>1. d.relSeq \in Nat
    BY DEF Numbered
  <2> QED
    BY <1>2, <1>3, <2>1
<1>4. \A j, k \in N : RowId(d.relSeq, N, j) = RowId(d.relSeq, N, k) => j = k
  <2>1. \A j \in N : Rank(N, j) \in Nat
    BY <1>1, RankBounds, FS_CardinalityType
  <2> QED
    BY <1>1, <2>1, RankIsInjective DEF RowId, Numbered
<1>5. \A p \in new : \E k \in N : p[2] = RowId(d.relSeq, N, k)
  <2> SUFFICES ASSUME NEW p \in new PROVE \E k \in N : p[2] = RowId(d.relSeq, N, k)
    OBVIOUS
  <2> DEFINE zipped == Numbering(d.relSeq, N)
             slots == Slots(L, zipped)
  <2>1. PICK s \in slots : p = <<PakId(seq, slots, s), s[1][1], Package(L, s)>>
    BY DEF NewPackages
  <2>2. s[1] \in zipped
    BY DEF Slots
  <2>3. PICK k \in N : s[1] = <<RowId(d.relSeq, N, k), k>>
    BY <2>2 DEF Numbering
  <2> HIDE DEF slots
  <2> QED
    BY <2>1, <2>3
<1>6. \A x \in NewDetails(d, L, N) : \E k \in N : x = <<RowId(d.relSeq, N, k), L[k]>>
  BY DEF NewDetails
<1> HIDE DEF new
<1>7. Owned(e)
  <2>1. \A k \in N : \E r \in e.releases : r[1] = RowId(d.relSeq, N, k)
    <3> SUFFICES ASSUME NEW k \in N PROVE \E r \in e.releases : r[1] = RowId(d.relSeq, N, k)
      OBVIOUS
    <3> DEFINE r == <<RowId(d.relSeq, N, k), Key(L[k])>>
    <3>1. r \in e.releases /\ r[1] = RowId(d.relSeq, N, k)
      BY DEF NewReleases
    <3> QED
      BY <3>1
  <2>2. \A x \in e.details : \E r \in e.releases : r[1] = x[1]
    BY <1>6, <2>1 DEF Owned
  <2>3. \A p \in e.packages : \E r \in e.releases : r[1] = p[2]
    BY <1>5, <2>1 DEF Owned, new
  <2> QED
    BY <2>2, <2>3 DEF Owned
<1>8. ASSUME NEW r \in d.releases PROVE Whole(e, r)
  <2>1. {x \in e.details : x[1] = r[1]} = {x \in d.details : x[1] = r[1]}
    <3>1. \A x \in NewDetails(d, L, N) : x[1] # r[1]
      BY <1>n, <1>6
    <3> QED
      BY <3>1
  <2>2. Under(e.packages, r[1]) = Under(d.packages, r[1])
    <3>1. \A q \in new : q[2] # r[1]
      BY <1>n, <1>5
    <3> QED
      BY <3>1 DEF new, Under
  <2>3. PICK x \in d.details :
          /\ x[1] = r[1]
          /\ {y \in d.details : y[1] = r[1]} = {x}
          /\ HasPackages(d.packages, r[1], x[2])
    BY DEF Whole
  <2>4. x \in e.details
    OBVIOUS
  <2> QED
    BY <2>1, <2>2, <2>3, <2>4 DEF Whole, HasPackages
<1>9. ASSUME NEW k \in N, NEW r, r[1] = RowId(d.relSeq, N, k) PROVE Whole(e, r)
  <2> DEFINE x == <<RowId(d.relSeq, N, k), L[k]>>
  <2>1. x \in e.details /\ x[1] = r[1] /\ x[2] = L[k]
    BY <1>9 DEF NewDetails
  <2>2. \A y \in d.details : y[1] # r[1]
    BY <1>n, <1>9 DEF Owned
  <2>3. \A y \in NewDetails(d, L, N) : y[1] = r[1] => y = x
    BY <1>4, <1>6, <1>9
  <2>4. {y \in e.details : y[1] = r[1]} = {x}
    BY <2>1, <2>2, <2>3
  <2>5. \A q \in d.packages : q[2] # r[1]
    BY <1>n, <1>9 DEF Owned
  <2>6. Under(e.packages, r[1]) = Under(new, RowId(d.relSeq, N, k))
    BY <1>9, <2>5 DEF new, Under
  <2>7. d.relSeq \in Nat
    BY DEF Numbered
  <2>8. HasPackages(new, RowId(d.relSeq, N, k), L[k])
    BY <2>7, ReleasePacked DEF new
  <2> HIDE DEF x
  <2>9. HasPackages(e.packages, r[1], x[2])
    BY <2>1, <2>6, <2>8 DEF HasPackages
  <2> QED
    BY <2>1, <2>4, <2>9 DEF Whole
<1>10. ASSUME NEW r \in NewReleases(d, L, N) PROVE \E k \in N : r[1] = RowId(d.relSeq, N, k)
  BY DEF NewReleases
<1> QED
  BY <1>7, <1>8, <1>9, <1>10

(* Only a commit can break it, and a commit adds whole releases. *)
LEMMA WholeStep == WholeInv /\ [DbNext]_dbVars => PackagesOwned' /\ ReleasesAreWhole'
<1> SUFFICES ASSUME WholeInv, [DbNext]_dbVars PROVE PackagesOwned' /\ ReleasesAreWhole'
  OBVIOUS
<1>1. CASE db' = db
  BY <1>1 DEF WholeInv, PackagesOwned, ReleasesAreWhole
<1>2. CASE db' # db
  <2>1. PICK h \in Handlers : Commit(h)
    BY <1>2, OnlyCommitWrites
  <2> DEFINE L == list[h]
             N == fresh[h]
  <2>2. /\ L \in RepoLists /\ N \in SUBSET (DOMAIN L)
        /\ db'.releases = db.releases \union NewReleases(db, L, N)
        /\ db'.details = db.details \union NewDetails(db, L, N)
    BY <2>1, Committed DEF WholeInv, DbInv, Fresh
  <2>3. db'.packages = db.packages \union NewPackages(db.pakSeq, L, Numbering(db.relSeq, N))
    <3>1. stage[h] = "filed" /\ db' = work[h] /\ h \notin stale
      BY <2>1 DEF Commit, WholeInv, DbInv, Control, Open, Writing
    <3>2. Packed(h)
      BY <3>1 DEF WholeInv, PackedIsCurrent, Open
    <3> QED
      BY <3>1, <3>2 DEF Packed, Inserting
  <2>4. Numbered(db) /\ db.pakSeq \in Nat
    BY DEF WholeInv, TypeInv, AllNumbered, Numbered
  <2>5. Owned(db)
    <3>1. \A x \in db.details : \E r \in db.releases : r[1] = x[1]
      <4> SUFFICES ASSUME NEW x \in db.details PROVE \E r \in db.releases : r[1] = x[1]
        OBVIOUS
      <4>1. <<x[1], Key(x[2])>> \in db.releases
        BY DEF WholeInv, DbInv, RowsBelongToRelease
      <4> QED
        BY <4>1
    <3> QED
      BY <3>1 DEF WholeInv, PackagesOwned, Owned
  <2>6. \A r \in db.releases : Whole(db, r)
    BY DEF WholeInv, ReleasesAreWhole, Whole, HasPackages, Under
  <2> HIDE DEF L, N
  <2>7. Owned(db') /\ \A r \in db'.releases : Whole(db', r)
    BY <2>2, <2>3, <2>4, <2>5, <2>6, AddedIsWhole
  <2> QED
    BY <2>7 DEF Owned, Whole, HasPackages, Under, PackagesOwned, ReleasesAreWhole
<1> QED
  BY <1>1, <1>2

(***************************************************************************)
(* A committed release is whole: it has its one details row and each       *)
(* package of its mod exactly once.  All of them are written by one        *)
(* transaction, under ids nothing else in the tables bears.                *)
(***************************************************************************)
THEOREM CommittedIsWhole ==
    ASSUME DuplicateFreeLists
    PROVE  DbSpec => []ReleasesAreWhole
<1>1. DbInit => WholeInv
  <2>1. DbInit => DbInv
    BY ShapeInit, ControlInit, ViewInit, TablesInit DEF DbInv
  <2> QED
    BY <2>1, TypeInvInit
    DEF DbInit, WholeInv, PackedIsCurrent, PackagesOwned, ReleasesAreWhole, EmptyDb, Open
<1>2. WholeInv /\ [DbNext]_dbVars => WholeInv'
  <2>1. DbInv /\ [DbNext]_dbVars => DbInv'
    BY ShapeStep, ControlStep, ViewStep, TablesStep DEF DbInv
  <2>2. TypeInv /\ [DbNext]_dbVars => TypeInv'
    BY ShapeStep, ControlTypesStep, ListsStep, NumbersStep DEF TypeInv
  <2> QED
    BY <2>1, <2>2, PackedStep, WholeStep DEF WholeInv
<1> QED
  BY <1>1, <1>2, PTL DEF DbSpec, WholeInv
=============================================================================
