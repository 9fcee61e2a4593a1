# Formal models of sol-gate

sol-gate is a mod manager for FreeSpace 2: a local web server that downloads a
list of mods from FSNebula mirrors, keeps it in SQLite, indexes the files the
user already has, and works out the cheapest download for the ones that are
missing. This directory holds TLA+ models of its logic, TLC configurations
that check them on small instances, and theorems checked by TLAPS.

Paths below are relative to the repository.

## Inventory

| Component | Source | State | Operations | Correct when |
|---|---|---|---|---|
| Modlist download | `src/fsnebula.rs` | two files: `mods.json`, `mods.json.etag` | `FSNebula::init` | it returns what a mirror has; the tag on disk is the tag of the list on disk; it always returns |
| Modlist ingestion | `src/fsnebula/db.rs`, `src/db/queries.rs`, `migrations/` | the SQLite tables | `commit_mods`, in one transaction | a release is stored whole or not at all, rows are joined to the right release, nothing committed is lost |
| Update request | `src/fsnebula/api.rs` | the open transaction of each request | `mod_update` | "updated" means the mirror's list is stored |
| Containment graph | `src/files/dag.rs` | `HashDAG` | `add`, `add_relationship`, `add_children`, `descendants`, `ancestors` | both directions agree; searches are exact and end, with cycles too |
| Fetch solver | `src/files/solver.rs` | stack, best cost and sources | `solve_files` | the cheapest cover is returned, the search ends |
| Fetch planning | `src/files.rs` | local variables over four transactions | `acquire_files`, `generate_dag`, `calculate_missing`, `calculate_fetches` | what is missing and on offer is fetched, what is not missing is really there |
| Downloads | `src/files.rs`, `sevenz.rs` | a stream of four downloads, the directory archives are extracted to | `acquire_files`, `fetch_files`, `sevenz_extract` | it comes to its end only if every download and every `index_file` succeeded; it ends; it leaves nothing running |
| Indexer | `src/files/indexer.rs`, `hash.rs` | two transactions, a set of tasks and one that is detached | `index_dir`, `index_file`, `index_vp`, `hash_channel` | a file is indexed under the hash of its contents, or it is known why not; the write lock is not left taken |
| Reader pool | `src/files/readers.rs` | an actor, its channel of eight, a task per raw file | `ReaderPool`, `get_file` | each request is answered or dropped, and the pool goes on taking them |
| Configuration | `src/config.rs`, `src/config/api.rs` | `Arc<RwLock<Config>>`, `config.toml` | `get_config`, `put_config` | it does not change under an update; who asks is answered |
| vp-tools | `vp/src/bin.rs`, `compression.rs` | two bounded channels, tasks | `decompress` | every file is written once, or an error is reported; no stage hangs |
| VP index | `vp/src/parser.rs`, `types.rs`, `fs.rs` | none (pure) | `VPDir::from`, `flatten`, `locate`, `read_entry` | the paths are those of the directory tree, and lead to their files |
| Mod queries | `src/mods/api.rs`, `src/files/api.rs` | none | read-only queries | |
| Server, CLI, types | `src/main.rs`, `src/api.rs`, `src/common.rs`, ... | none | start-up, routing | |
| Compression | `src/files/compression.rs` | none | calls to libraries, stubs | |
| Frontend | `frontend/` | none | a static page | |

How they interact: `mod_update` takes a read guard of the configuration, opens
a transaction, calls `FSNebula::init`, and hands the transaction to
`commit_mods`. What two requests share is the two cached files, the database
and the lock of the configuration. `acquire_files` reads the tables that
updates and indexing write, in four transactions of its own, builds a
`HashDAG` from them, searches it, and calls the solver on a thread of its own.
Then it downloads the sources that were chosen, and hands each to the indexer
before it looks at the next. The indexer reads files through the reader pool
and takes the one write lock of the database. `index_vp`, and the extractor of
the vp crate, take the files of a VP archive from its index. Everything runs
as tokio tasks, and a handler whose client goes away is dropped at an await.

What is hard: overlapping requests (two files, one write lock, snapshots that
grow old, a fair lock whose readers wait behind a writer); failures,
cancellations and crashes between two awaits; tasks nobody joins, whose panics
nobody sees and who go on after their caller; pairing by position of what SQL
returns; sets computed from different moments of the database; searches that
have to end on cyclic graphs; pruning that must not lose the optimum.
`PROJECT.json` lists each as a hazard at its line, with the properties that
would catch it, or the reason none does.

## Modules

### ModCatalogue: what an update promises

The abstract specification. `catalogue` is a set of mods; the one action adds,
at once, every mod of one published list whose key was unknown.

### FsnDb: the transaction of an update

One handler per concurrent request. Its stages are the points of
`commit_mods` between statement groups: the filter (`ReadReleases`), names
(`WriteNames`, the first write), releases and their rows (`WriteReleases`),
packages (`WritePackages`), hashes, sources, archive entries and files
(`WriteFiles`), `Commit`. `work[h]` is what the transaction of `h` sees, `db`
the committed tables. SQLite is modelled by its WAL rules: the first read
fixes the snapshot (`work[h] := db`), the first write takes the only write
lock, and fails at once when another holds it or has committed since the
snapshot (`Busy`, `stale`). `Abort` is an error or a dropped future at any
await, `DbCrash` the end of the process.

Abstractions: a hash stands for its own id (`hashes.val` is unique); a
`details` row stands for the `mods` or `builds` row with the links and flags
of a release, a `packages` row for the package with its dependencies. Ids are
those AUTOINCREMENT gives: an ignored row uses one up, so `RowId` counts all
rows of the statement. `RETURNING` yields rows in insertion order and none for
ignored rows, so `Zipped` pairs the i-th inserted row with the i-th mod. The
urls of an archive are abstracted to whether it lists any (`offered`): one that
lists none gets entries and files but no source.

### FsnFetch: the download

One action per await of `FSNebula::init`. A list is known by its version, a
tag by the version it was sent with. Writing `mods.json` takes two steps
(`OpenCache` truncates, `CloseCache` fills), and writers that overlap leave
one of their lists or a mixture (`Torn`, which never parses). The answer is
parsed after it has been stored, so one that is no list (`Garble`) stays behind
in `mods.json` under its tag, and the call fails (`Parsed`). Which failures
happen is the constant `Faults`: connections and statuses (`Skip`), bodies that
break off or do not parse, file operations, dropped futures, the end of the
process.

### ConfigLock: the configuration

`config` is the value in memory, `saved` the one in the file, `holding` and
`waiting` the state of tokio's RwLock: it is fair, so whoever asks waits behind
those that wait already (`Enter`), and a release lets in as many from the head
of the queue as go together (`LetIn`: one writer, or the readers up to the next
writer). `get_config` and `put_config` drop their guard in the poll in which
they get it. `Config::save` writes to the path of the directory, which always
fails, so `saved` never changes and a restart (`ConfigRestart`) forgets what
was put.

### FsnUpdate: the request

INSTANCEs FsnFetch, FsnDb and ConfigLock over the same handlers and composes
their actions. A handler waits for its read guard (`Request`), starts the
download once it has it (`Start`; at once if the lock is free), and drops the
guard with its answer or when it is dropped itself (`Ended`). `BEGIN` of a
deferred transaction takes neither snapshot nor lock, so the transaction starts
with its first read, after the download. The list a mirror serves is
`Lists[version]`. Only the result of a fetch starts a transaction (`Filter`),
and an answer ends both (`Answer`).

### HashDag: the graph

`nodes`, `children`, `parents` and `edge_map` as in the struct, with ids in
place of indices. A search is a sequence of rounds of its while loop;
`descendants` and `ancestors` differ only in the edges they follow. The queue
is a set: the code checks before each push that the node is not in it, and
takes them in the order of `HashSet` iteration, which is arbitrary.
`add_children` is given as much edge data as children: the code's `zip` would
leave the rest without, and nothing in the program calls it.
`get_edge_data` changes nothing and is never called; it is left out.

### Solver: branch and bound

The loop of `solve_files`, with the stack of steps. minilp is an oracle: fixing
a variable fails exactly if no choice covers any more, otherwise its optimum
is integral, hence a cheapest cover of the problem, or fractional in any free
variable and of any cost from its parent's up to that of the cheapest cover.
So the properties hold whatever the relaxations return and whichever variable
is the most fractional one. Fractional costs are only compared to costs of
covers, and are rounded up to the next of these.

### FetchPlan: from the manifest to the sources

One action per transaction or loop round of the first half of
`acquire_files`. HashDag's searches appear as the closure that module shows
them to compute, the solver as a cheapest cover. In between, `PackageCommitted`
(an update) and `Indexed` (a local file) grow the tables. `Indexed` allows
more than the program does today: `index_file` and `index_vp` never commit
their transactions, so no local source reaches the tables. The planner is
written for them to be there, and is checked with them. Each transaction may
fail, and the request with it (`QueryFails`).

### Readers, Indexer, FetchTasks: from the sources to the index

One state machine in three layers, each of which EXTENDS the one below; only
FetchTasks has a next-state relation.

*Readers* has the pool's channel (`requests`), its actor (`pool`), the tasks
that read raw files (`reading`) and what came over the channel of each request
(`chan`). The actor looks an entry of a VP up in `vp_channels`; nothing in the
program ever fills that map, so the `unwrap` panics (`HandleEntry`), the
receiver is dropped with everything queued in it, and every later send fails
(`SendFails`).

*Indexer* has a stage for each `index_file` (`job`) and each `index_vp` (`vp`).
An `index_file` sends its request, joins the hash, inserts (which takes the
write lock), for a VP spawns `index_vp`, reads the size of the file and adds the
source, and is dropped with its transaction. A hash that met a read error
panics, and with it the `index_file` that joins it; what `index_vp` ends with
nobody learns, so all of its ends are one. To `hash_channel` every channel that
closes is the end of a file (`Closed`): of a whole one (`read`), of as much as
had been written by then (`part`), or of nothing, when the pool has dropped the
request (`dropped`); all three are hashed and stored. Neither transaction is
ever committed, so of the database only the write lock (`lock`) is kept.
sqlx waits five seconds for it and then fails; waiting is modelled as waiting,
failing as the fault `db`.

*FetchTasks* has the stage of each source (`src`) and that of the call
(`acquire`). The downloads are futures of one stream: they are polled only while no
result is being indexed (`Polled`), and a failing one panics the call. What runs
by itself goes on regardless: `Extract` on its blocking thread, the pool, the
reads, `index_vp`. Three things in the code shape the model. A download is named
by its hash, without extension, so it is always indexed as a raw file; only
extracted ones are VPs. `join("/extract")` is an absolute path, so all archives
share one directory (several may bring one file) and `WalkDir` finds, besides
its own files, those of the others and any part of those that are arriving. And
the status of a download is not looked at nor its file flushed, so an extraction
may fail with no fault at all, and a raw file may be read in part
(`MayBeIncomplete`). `WalkDir` skips what it cannot read, and panics over an
entry that has vanished (`WalkPanics`).

### VpIndex: the index of an archive

The parser from the list of records to the tree: `VPDir::from` calls itself and
all calls share one iterator, so the calls that have not returned are a stack
(`open`) in a fold over the records. A record of size 0 is a directory, or the
end of one if its name is `..`; any other becomes an entry of the directory
whose call is the last one open (`Push`, the `contents.push`). `flatten`,
`locate` and `read_entry` are operators; a directory holds its entries in their
order, so `flatten`, which goes depth first, lists files in the order of their
records (`InOrder`), with the names of the directories around each (`Paths`).
`locate` has no file both where the code returns an error (a name is missing) and
where it panics (the path ends at a directory).
`Sorted` is the stable sort that `InOrder` and the extractor's `sort_by_key` are
written with: the place of a number is how many come before it. The reference
definition uses no stack: what is around a record is found by counting the
directories entered and left in between.

### VpTools: the extractor

EXTENDS VpIndex. The tasks of `decompress`: one that reads the files `flatten`
lists, several that decompress, several that save, the two bounded channels
between them, and `main` awaiting one task after the other. Each recv, send,
read or write is an action. `None` is what a task holds between two files.
Bytes are known by the file, offset and size they were read from. A channel is
closed when the tasks on one side of it have all ended; the copies `main` holds
are dropped before it awaits. When `result` is set the program is over, whatever
the tasks still have. The position of the file handle (`handle`) and what
the reader takes it to be (`currpos`) are two variables, as in the code, which
seeks only where `currpos` says so. Paths are taken to be distinct: of two files
with one path, the one saved last stays.

## Runs

Passing runs; each is exhaustive within its bounds.

| Run | Instance | States | Shows |
|---|---|---|---|
| `db` | two handlers, five lists that overlap, come out of order, or fail in each of the three ways | 15,823 | `RowsBelongToRelease`, `ReleasesAreWhole`, `AnsweredIsStored`, `OfferedFilesAreFetchable`, `NothingIsLost`, and that FsnDb implements ModCatalogue |
| `update` | one request at a time, two mirrors, three lists, failing connections; one client of `get_config`, one of `put_config` | 36,447 | `TagMatchesCache`, `UpdatedMeansProcessed`, `CatchesUp`, `ConfigUnchangedDuringUpdate`, `ConfigAnswered` |
| `update_faults` | two requests, one mirror, two lists, every fault | 225,108 | `FetchedIsPublished`, `StoredWasPublished`, `EveryRequestAnswered` |
| `dag` | every graph of three nodes, with cycles and self loops | 17,181 | `Mirrored`, `SearchIsExact`, `SearchEnds` |
| `solver` | every way three sources hold two hashes, the triangle (whose relaxed optimum is fractional), three sets of sizes with ties and zeros | 174,931 | `ResultIsOptimal`, `OptimumInReach`, `SearchEnds` |
| `plan` | two files, a VP in an archive, another archive with both files, three manifests; any transaction of the planner may fail | 59,112 | `DagIsComplete`, `NothingSkipped`, `PlanBringsWhatIsOffered`, `PlanningEnds` |
| `index` | two archives, one with a VP and one with a compressed VP, and a single file; every fault | 198,150 | `NoJoinedFailureIsLost`, `WrongHashesHaveKnownCauses`, `AcquireEnds`, `LeftoversEnd` |
| `vp_tools` | two tasks of each kind, channels of one entry, five archives (contiguous, overlapping with a gap, one packed file, several tiny ones, cut short), a disk that may fail at any read or write; and every list of up to five records | 40,301 | `SuccessIsComplete`, `OwnBytes`, `BadFileCostsItself`, `IndexAgrees`, `ToolEnds` |

Each run also checks the type invariant of its module.

Runs that show a disagreement between the code and what the repository says of
it; each has a finding in `PROJECT.json`:

- `update_race`: two overlapping requests, with no fault at all, leave a new
  tag beside an old list: the tag is written before the list it tags. From then
  on every request is answered 304 and "updated", and the list is never stored.
- `db_duplicate`: a list with one (name, version) twice pairs ids with the
  wrong mods.
- `db_files`: `files.p_id` holds release ids.
- `index_send`: `src/files/indexer.rs:87` calls the send to the pool infallible.
  The first VP that is indexed ends the pool, and the next file's send panics.
  A file whose request was queued behind that VP is stored under the hash of no
  bytes, while its `index_file` returns Ok: the `dropped` of
  `WrongHashesHaveKnownCauses`.

`update` shows the other side of the first: with one request at a time, and no
cancellation or crash, the promise holds. (A request that is cancelled between
writing the tag and the list breaks it as well.)

What else was met while modelling, and has no run:

- The comment at `src/files/indexer.rs:92`, that `hash_channel` cannot panic, is
  untrue: it unwraps each chunk, and a read error is one. That no read error is
  stored as the end of a file (`WrongHashesHaveKnownCauses`) rests on that panic.
- An archive that lists no url is not added as a source, although
  `src/fsnebula/db.rs:83` says each is. `OfferedFilesAreFetchable` therefore asks
  for a source only of those that list one.
- `calculate_missing` removes from the missing hashes what a local source
  contains, but not its own hash, although the comment at `src/files.rs:226`
  says so; no such row reaches the tables today.
- A missing hash nobody offers is left out of the plan without an error, and a
  wanted hash the table does not have is not looked for; `NothingSkipped` and
  `PlanBringsWhatIsOffered` speak of the others.
- An answer that does not parse stays in `mods.json` with its tag, so every later
  request fails until the mirror has another list.
- An error page in place of a raw file is indexed under its own hash, which
  nobody compares with the one that was asked for.
- A mirror that sends no tag leaves the tag of another mirror's list beside its
  own list. Every mirror of the runs sends tags: with a mixed set
  `TagMatchesCache` would not hold, and no doc says that mirrors may be mixed.
  Mirrors without tags are covered by the theorems of FsnUpdate only.
- The number of entries in the header of a VP is not used: records are parsed to
  the end of the archive.

### Bounds

Two handlers are enough for each race over one lock and two files: a third
could only repeat the part of the second. The lists of `db` are chosen so that
every failing branch fires and a second list overlaps the first in part.
Versions are bounded by `MaxVersion`; three are needed for a copy to be older
than an old one. `MaxConfig` bounds the configurations that are put: two, so
that one can be put while an update that follows another one waits. The two
runs of two handlers leave the clients of the configuration out: with readers
only the lock never makes anyone wait.

In the graph three nodes give every shape of a search that meets a node twice,
a cycle through the start, and a self loop. In the solver three sources are the
least with a fractional optimum. In the plan, nesting is two deep, so that a
level can be lost.

In `index` the channel of the pool holds two requests in place of eight and the
stream two downloads in place of four (`QueueLimit`, `Parallel`), so that three
sources fill both. Each archive brings one file, but as both are extracted into
one directory either can index two, and the VP has one entry: enough for the
pool to die with another request queued behind it, and for `index_vp` to
outlive the call. `index_send` uses the program's own limits.

In the extractor, channels of one entry (the program has 32) and archives of
up to four files let every channel fill up; there are two tasks of a kind so
that one may go on after the other has panicked, and tiny files enough that
both may panic. The lists of records are all those of up to five over two
files, a directory and an end: a directory in a directory, one that is empty,
one never closed, ends too many, and files behind the end of the root.

`Solver`, `VpTools` and `FetchTasks` stop when the search is done, the tool has
ended and the call is over, so their runs do not check for deadlock;
`SearchEnds`, `ToolEnds`, `AcquireEnds` and `LeftoversEnd` show that they stop
nowhere else. No other run switches that check off.

### Fairness

A fault is never fair: no property needs one to happen.

- `FairSpec` of FsnUpdate: weak fairness of what a handler does itself, and of
  a client of the configuration that has the lock. The code's awaits are of file
  operations and HTTP requests, which end or fail; `sqlx` fails instead of
  waiting for a lock that cannot be had. Nothing forces a user to make a
  request, a mirror to publish, or a client to ask for the configuration.
- `AskingSpec`, the specification of `update` and `update_race`, adds what
  `CatchesUp` speaks of: the user keeps asking, and a mirror asked again and
  again answers at last (strong fairness). It makes `ConfigAnswered` harder: the
  lock is asked for over and over.
- HashDag, Solver: loops without awaits go on once begun.
- FetchPlan: the queries of `acquire_files` are answered, unless they fail; that
  one fails is no part of the fairness.
- FetchTasks: tasks and blocking threads are run, and no connection and no read
  hangs for ever. Fairness is stated for each source, file and task by itself,
  as each is a future or thread of its own.
- VpTools: some task that can go on does, which is the least a runtime gives.

## Proofs

Eight modules hold the theorems: `FsnDbProof` and `FsnDbStoreProof` (over
FsnDb), `FsnUpdateProof` (over FsnUpdate), `FetchTasksProof` (over FetchTasks),
`FetchPlanProof` (over FetchPlan), `SolverProof` (over Solver), `VpToolsProof`
(over VpTools) and `HashDagProof` (over HashDag). They hold for every value of
the constants: any number of handlers, mirrors, mods, lists, sources, files,
archives, tasks and ids, any limits, and any set of faults.

Over FsnDb:

- `DbInvariant`: `DbSpec => []DbInv`. `RowsBelongToRelease` alone is not
  inductive. A commit publishes `work[h]`, so each private view needs it too;
  and the pairing made by `WriteReleases` is right only because nothing in
  `fresh[h]` is already among the releases of the view it is inserted into.
  `DbInv` therefore adds: a handler that has written holds the lock and is not
  stale (`Control`); an open transaction that is not stale sees the releases of
  `db`, and after its inserts these and its own, each position with its own id
  (`ViewIsCurrent`); the keys of the releases are those of the details
  (`KeysAgree`). The step that carries the proof is the lemma
  `ZipIsIdentity`: if the list has no key twice and no key of `fresh` is known,
  every row is inserted, the two ranks agree and each position is paired with
  its own row.
- `RowsAreSound`: `DbSpec => []RowsBelongToRelease`.
- `DbImplementsCatalogue`: `DbSpec => RefinesCatalogue`. `Commit` maps to
  `Ingest(list[h])`, every other step leaves the catalogue as it is.
- `CommittedIsKept`: `DbSpec => NothingIsLost`, and `AnswersAreTrue`:
  `DbSpec => []AnsweredIsStored`. Both rest on `ViewExtends`: the view of a
  transaction that is not stale contains the committed rows. A commit by
  another handler makes the view stale, and a stale handler is refused the
  lock, so whoever commits publishes a view that contains `db`. An answer
  stays true because what was filtered out was in the snapshot.
- `CommittedIsWhole`: `DbSpec => []ReleasesAreWhole`. `WholeInv` says what a
  view that is not stale adds to the committed packages (`PackedIsCurrent`):
  one package row per position and package, each under the release of its
  position (`Packed`), with an id of its own (`PakIdIsInjective`). That these
  do not mix with what was there follows from the counters: every package in
  the tables belongs to a release in them (`PackagesOwned`), and a new id is
  above all that were handed out.
- `OfferedFilesHaveSources`: `DbSpec => []OfferedFilesAreFetchable`, for any
  lists. It is about the files that packages list, so the invariant says of a
  view which packages are already written and which are still owed their rows:
  every package of a view is fetchable but those this transaction has written
  and not filed (`Pending`), and a transaction that may commit has none. The
  rows `AddFiles` writes are those of exactly these packages.
- `DbTypesAreCorrect`: `DbSpec => []DbTypeOK`: the types, and that every id in
  a table is at most its counter, for which the proof needs that the positions
  an insert numbers are finitely many.

Over FsnUpdate:

- `FetchTypesAreCorrect` and `FetchedListsArePublished`: a list is returned from
  an answer or from `mods.json`, and what is in that file is torn or the list of
  one of those who wrote it. So the invariant speaks of every place a list can
  be in: the answers held (`AnswersPublished`), the file (`CachePublished`), and
  the lists that are being written over each other (`LayersPublished`). The
  lemma `StepsOfTheDownload` maps each step of a request to a step of FsnFetch
  or a stutter.
- `UpdatesKeepTheirConfig`: `Spec => ConfigUnchangedDuringUpdate`. An update at
  work has a guard (`GuardsHeld`), and who writes has the only one
  (`WritersAlone`). The second needs that a release lets in only as many from
  the queue as are admitted, that is that the CHOOSE of `LetIn` has something to
  choose: the least number of waiters behind which the next is not admitted
  (`HasLeast`, from the well-foundedness of the numbers).
- `StoredListsWerePublished`: `Spec => []StoredWasPublished`. Each step of a
  request is a step of FsnDb or a stutter (`StepsOfTheDb`), so `DbInv` of
  FsnDbProof holds of the composition; the only step that gives a transaction a
  list is `Filter`, which gives it the list the download returned
  (`FilterReads`), and that is published; and a commit adds rows of the list of
  its own transaction only.
- `UpdateImplementsItsParts`: `Spec => Neb!FetchSpec /\ Db!DbSpec`. The two
  lemmas that map the steps, `StepsOfTheDownload` and `StepsOfTheDb`, and that
  the initial states are the same: the service is an implementation of both
  parts, so what is proved of each alone holds in it.
- `UpdatesGrowTheCatalogue`: `Spec => Db!RefinesCatalogue`, for lists without a
  duplicate: the whole service implements ModCatalogue. `Filter` gives a
  transaction a list of `RepoLists`, and `CatalogueStep` of FsnDbProof maps each
  step of the tables to a step of the catalogue or a stutter.
- `UpdatesKeepTheTables` and `UpdatesKeepReleasesWhole`: `OfferedFilesHaveSources`,
  `CommittedIsKept` and `CommittedIsWhole` carried to the service along the same
  refinement.
- `RequestTypesAreCorrect`: `Spec => []TypeOK`. The types of the three parts,
  and what the composition adds: the head of the queue for the configuration
  is never one that could be let in (`HeadWaits`), and a transaction works on
  the list its own download returned (`ListIsFetched`).
- `TagsBelongToLists`: `Spec => []TagMatchesCache`, and `UpdatesAreTrue`:
  `Spec => []UpdatedMeansProcessed`, both for undisturbed requests (see the
  assumptions). A tag is on disk with a list of its own version except between
  the two writes of one request, whose answer still has both (`AnswerKept`); a
  304 then means the list in the file. For the second, the lists of the
  download are followed through the transaction to the committed tables.

Over FetchTasks:

- `FinishesOnlyWithoutFailure`: `Spec => []NoJoinedFailureIsLost`. The invariant
  `OncePerSource` ties each `index_file` to its source: there is none before the
  source is taken up, none has failed when it counts as indexed, and a source
  that is no archive has one for its file from the moment it is taken up. This is about
  the failures that are passed on only: `index_vp` is joined by nobody, and what
  was hashed is the matter of the next theorem.
- `WrongHashesAreExplained`: `Spec => []WrongHashesHaveKnownCauses`. An answer
  can be mistaken for another only if two come for one request, or one request is
  made twice. The invariant says where a request can be: in one place of the queue
  or with one task, its channel open there (`Places`), and not yet made while its
  `index_file` or `index_vp` is before the send (`JobsAndChannels`). And each
  answer has its cause when it is given, which stays (`ExplainedStays`): a dead
  pool stays dead, and the archives that bring a file are constants.
- `TypesAreCorrect`: `Spec => []TypeOK`, which bounds the queue, the downloads
  under way and the counter of entries of a VP, and says that the write lock is
  not left taken. `TypesInv` adds what these rest on: only a raw file has a task
  that reads it (`PoolHolds`); only a VP has entries left, and at least one
  while it waits for a hash (`EntriesLeft`); who holds the lock is at a stage
  where it is used (`LockHeld`); the downloads under way are finitely many
  (`RoomKept`).

Over FetchPlan:

- `TypeCorrect`: `Spec => []TypeOK`.
- `Completeness`: `Spec => []DagIsComplete`. While the graph is built level by
  level, an id it has reached has all its edges of the snapshot in the graph or
  is on the level that is looked up next (`LoopInv`); so when a level has no
  parents, all edges of every id it has reached are there (`BuiltInv`), and the
  archives around a wanted hash are the same in the graph and the snapshot
  (`SameAncestors`). Nothing is assumed of the archives: they may contain each
  other.
- `NothingLost`: `Spec => []NothingSkipped`. What was found in the table and is not
  counted as missing is below a local archive in the graph (`SkippedInv`); the
  graph has only edges of the table, and that only grows. It says nothing of
  wanted hashes that are not in the table, nor of missing ones nobody offers.
- `OfferIsTaken`: `Spec => []PlanBringsWhatIsOffered`. An offered archive around
  a missing hash is a candidate that holds it, since descendants and ancestors
  are each other's inverse (`Dual`, from the definition of both as least closed
  sets); and the plan covers what the candidates hold.

Over Solver:

- `TypeCorrect`: `Spec => []TypeOK`; the stack is never deeper than there are
  sources, as each step fixes one more.
- `Reachability`: `Spec => []OptimumInReach`, and `Optimality`:
  `Spec => []ResultIsOptimal`. The invariant `IInv` has both together with the
  shape of the stack (`StackOK`: each step is a problem with one more variable
  fixed than the one below, and within it) and of the best solution so far
  (`BestOK`). A step may be dropped only if its bound is no better than the best
  cover, a step that fails holds no cover at all, and when the two values of a
  variable are tried every cover of the problem is under one of them: so a
  cheapest cover is under an untried value of some step until one is found.
  Comparing costs needs what a sum over a set is: the first part of the module
  shows that `MapThenSumSet` does not depend on the order of the elements
  (`SumsAgree`), has a value (`SumsExist`) and grows with the set
  (`TotalGrows`).

Over VpTools:

- `TypesAreCorrect`: `Spec => []TypeOK`; the reader stays inside the archive and
  no channel is overfull.
- `BytesAreOwn`: `Spec => []OwnBytes`. Whatever is held (`Holdings`), queued
  (`Channels`) or on disk (`OnDisk`) is the contents of the file it names;
  where the reader seeks, and where it does not, it stands at the offset of the
  file, because `currpos` is where the handle is (`Cursor`).
- `SuccessMeansAll`: `Spec => []SuccessIsComplete`, and `OthersAreSaved`:
  `Spec => []BadFileCostsItself`. `Accounted` says that a file is still to be
  read, held, queued, on disk or lost, and that only a failure of the reader, a
  writer or its own decompression loses one. `Orderly` says that a task ends
  without an error only after those that feed it have ended, with an empty
  channel. `main` awaits the last stage first, so when it has seen all of them
  end (`Awaited`), only the disk is left.
- `IndexIsRight`: `Spec => []IndexAgrees`, for an index of any length. It is the
  one result about a parser, and the longest proof. `Calls` unfolds the fold of
  `VPDir` into the calls `c[k]` after each record. `Parsed` is what holds after
  every one of them (`AllParsed`): the open calls begin with the root, increase,
  and each of them was made while those before it were open (`Stacked`); each is
  open by counting, with as many directories entered and not left since as there
  are calls above it (`Counted`); no other directory is open by counting
  (`OthersClosed`); and the tree so far has the entries before the end of the
  root, each under the call that was last (`Treed`). The first three are needed
  together: an end closes the directory whose count is used up, which is the
  last of the open calls only because the counts go up by one from each to the
  one under it. So the trail of an entry is its path (`PathsAre`) and what is
  around it (`AroundIs`). The list of files is the one increasing list of its
  numbers (`InOrderLists`, `InOrderIs`), and where no directory has two entries
  of one name, `m` names along a trail lead to its place `m + 1`
  (`FollowsTrail`), for `locate` and for `read_entry`. Where an induction would
  be used, a smallest counterexample is (`LeastNumber`).

Over HashDag:

- `TypesAreCorrect`: `Spec => []TypeOK` of HashDag.
- `EdgesAreMirrored`: `Spec => []Mirrored`.
- `SearchesAreExact`: `Spec => []SearchIsExact`. The invariant: everything
  found can be reached, everything found or the start has its edges found
  unless it is still in the queue. With an empty queue `found` is closed, so
  it is the least closed set.

Assumptions. Two hypotheses are stated in an ASSUME of the theorems that need
them.

- `DuplicateFreeLists`, lists that publish each key once: `RowsAreSound`,
  `DbImplementsCatalogue`, `AnswersAreTrue`, `CommittedIsWhole`, and over the
  service `StoredListsWerePublished`, `UpdatesGrowTheCatalogue`,
  `UpdatesKeepReleasesWhole` and `UpdatesAreTrue`. Of the first, `db_duplicate`
  shows that it is false without.
- `Undisturbed`: one handler, so that requests do not overlap; no fault but a
  failing connection; mirrors that all send tags: `TagsBelongToLists` and
  `UpdatesAreTrue`. These are the conditions of run `update`, here with any
  number of mirrors and versions. `update_race` shows that overlapping requests
  break the promise, a cancelled one does too, and so does a mirror without tags
  (see below "Runs").

The other theorems need only the named assumptions on the constants, all about
their types, except that in FetchTasks a download is one file without an
extension, and that in VpTools no two files of an archive have
one path and a task of each kind exists. TLC evaluates them in every run of these
modules.

Proof attempts led to three corrections of the models. The outcome of `decompress`
was a CASE whose guards overlapped when the last task had failed: TLC takes the
first that holds, the logic leaves open which, so the guards of `Outcome` now
exclude each other. And the stable sorts are now written as `Sorted`, which says
where each number goes and so can be reasoned about. The path of a record was
defined by recursion over all records, also over those behind the end of the
root, which have no directory and so no value; `Paths` is defined over the
entries of the tree.

One habit of the proofs is a precaution. This version of Zenon accepts
`A \subseteq D \cap B` from `A \subseteq C \cap B` for unrelated C and D; so no
obligation here has a subset of an intersection in its goal and its facts, and
`TypeOK` of FetchPlan states such conjuncts apart.

Model-checked only: liveness, which is out of the prover's reach
(`CatchesUp`, `EveryRequestAnswered`, `ConfigAnswered`, `SearchEnds`,
`PlanningEnds`, `AcquireEnds`, `LeftoversEnd`, `ToolEnds`). Every safety
property of a passing run is stated by a theorem. No module has a RECURSIVE
operator: recursion is by functions and by the folds of the community modules,
and what they compute is shown by a smallest counterexample.

## Not modelled

- The VP readers of `readers.rs` (their actor, the handle, the idle timeout) and
  `Get::CS`: nothing reaches them. The lookup in front of them panics for every
  request, and nobody sends `Get::CS`.
- `install_mod` and the end of `acquire_files`, `get_file`, the `compress` of
  vp-tools: each is a `todo!()`.
- Mod queries (`src/mods/api.rs`, `src/files/api.rs`): one read-only statement
  each, of committed tables; they keep no state.
- The bytes of a VP record and header, and `split_path`, which asks the file
  system where an archive ends.
- Start-up, routing, embedded files, CLI, types (`src/main.rs`, `api.rs`,
  `cli.rs`, `common.rs`, `db.rs`): no behaviour of their own. The types appear
  as the records of the models.
- `src/files/compression.rs`: a byte format of a library, and a stub.
- The frontend: a static page.

## What is left

The VP readers, once the program registers them, and mod queries, should they
come to keep state. Liveness would need a prover that knows fairness.
