------------------------------- MODULE Indexer -------------------------------
(***************************************************************************)
(* The indexer (files/indexer.rs, files/hash.rs): index_file hashes a file *)
(* through the reader pool and writes its rows in a transaction of its     *)
(* own; for a VP it starts index_vp, which nobody waits for, and that      *)
(* hashes the entries one by one and writes theirs.  Neither transaction   *)
(* is committed, so nothing they insert is ever seen by anyone else: what  *)
(* is left of the database is its write lock.                              *)
(*                                                                         *)
(* A step that panics ends its task only.  A hashing task that panics is   *)
(* noticed by the index_file that joins it; what index_vp ends with is     *)
(* noticed by nobody, so all of its ends are one.  A channel that closes   *)
(* early is no error to hash_channel: what came before is hashed.          *)
(***************************************************************************)
EXTENDS Readers

CONSTANTS None,
          Vps,        \* the jobs whose path ends in .vp
          Vpcs,       \* the jobs whose path ends in .vpc
          Entries,    \* how many files are in each of Vps
          Faults      \* which of FaultKinds may happen

FaultKinds == {"disk", "db", "net", "cancel"}

ASSUME IndexerAssumption ==
    /\ Vps \subseteq Jobs /\ Vpcs \subseteq Jobs /\ Vps \intersect Vpcs = {}
    /\ Entries \in [Vps -> Nat]
    /\ Faults \subseteq FaultKinds
    /\ None \notin Requests

VARIABLES job,   \* the stage of index_file
          vp,    \* the stage of index_vp
          left,  \* the entries index_vp has not hashed yet
          lock   \* whose transaction holds the write lock

jobVars == <<job, vp, left, lock>>
indexVars == <<readerVars, jobVars>>

Active == {"send", "hash", "stat"}
Ends == {"ok", "err", "panic", "aborted"}
VpActive == {"open", "entries", "wait", "link"}

Raw(j) == <<j, "raw">>
Entry(j) == <<j, "entry">>
Goto(j, l) == job' = [job EXCEPT ![j] = l]
GotoVp(j, l) == vp' = [vp EXCEPT ![j] = l]
Drop(q) == IF lock = q THEN None ELSE lock

IndexerInit ==
    /\ ReadersInit
    /\ job = [j \in Jobs |-> "none"]
    /\ vp = [j \in Jobs |-> "none"]
    /\ left = [j \in Jobs |-> 0]
    /\ lock = None

(***************************************************************************)
(* index_file sends its request and spawns hash_channel; then it opens a   *)
(* transaction, which locks nothing yet, and joins the hash: two waits     *)
(* that show only by how they end.                                         *)
(***************************************************************************)
SendRaw(j) ==
    /\ job[j] = "send"
    /\ \/ Send(Raw(j)) /\ Goto(j, "hash")
       \/ SendFails /\ Goto(j, "panic")
    /\ UNCHANGED <<vp, left, lock>>

(* pool.begin() fails, or the INSERT: an error, or the lock stays taken. *)
DbFails(j) ==
    /\ "db" \in Faults
    /\ job[j] = "hash"
    /\ Goto(j, "err")
    /\ UNCHANGED <<readerVars, vp, left, lock>>

(* chunk.unwrap() in hash_channel, and hash_jh.await.unwrap() with it. *)
HashPanics(j) ==
    /\ job[j] = "hash"
    /\ chan[Raw(j)] = "error"
    /\ Goto(j, "panic")
    /\ UNCHANGED <<readerVars, vp, left, lock>>

(* Mutant: hash_channel stops at an error and hashes what it has. *)
HashIgnoresError(j) ==
    /\ job[j] = "hash"
    /\ chan[Raw(j)] \in Closed \union {"error"}

Hashed(j) ==
    /\ job[j] = "hash"
    /\ chan[Raw(j)] \in Closed

(* add_hashes takes the write lock; then the extension of the path decides. *)
Insert(j) ==
    /\ Hashed(j)
    /\ lock = None
    /\ \/ /\ j \in Vpcs                 \* todo!()
          /\ Goto(j, "panic")
          /\ UNCHANGED <<vp, lock>>
       \/ /\ j \notin Vpcs
          /\ Goto(j, "stat")
          /\ lock' = Raw(j)
          /\ vp' = IF j \in Vps THEN [vp EXCEPT ![j] = "open"] ELSE vp
    /\ UNCHANGED <<readerVars, left>>

(* The size of the file; whatever add_sources says, index_file is Ok. *)
Stat(j) ==
    /\ job[j] = "stat"
    /\ lock' = Drop(Raw(j))
    /\ \/ Goto(j, "ok")
       \/ "disk" \in Faults /\ Goto(j, "err")
    /\ UNCHANGED <<readerVars, vp, left>>

(* index_vp: open the file and parse its index, or err or panic. *)
OpenVp(j) ==
    /\ vp[j] = "open"
    /\ \/ GotoVp(j, "entries") /\ left' = [left EXCEPT ![j] = Entries[j]]
       \/ "disk" \in Faults /\ GotoVp(j, "gone") /\ UNCHANGED left
    /\ UNCHANGED <<readerVars, job, lock>>

SendEntry(j) ==
    /\ vp[j] = "entries" /\ left[j] > 0
    /\ \/ Send(Entry(j)) /\ GotoVp(j, "wait")
       \/ SendFails /\ GotoVp(j, "gone")
    /\ UNCHANGED <<job, left, lock>>

(* hash_channel in the task itself: a dropped channel has a hash as well. *)
EntryHashed(j) ==
    /\ vp[j] = "wait"
    /\ chan[Entry(j)] \in Closed
    /\ left' = [left EXCEPT ![j] = @ - 1]
    /\ GotoVp(j, "entries")
    /\ UNCHANGED <<readerVars, job, lock>>

(* add_hashes; of an empty list it executes nothing and needs no lock. *)
InsertVp(j) ==
    /\ vp[j] = "entries" /\ left[j] = 0
    /\ Entries[j] > 0 => lock = None
    /\ IF Entries[j] > 0
       THEN GotoVp(j, "link") /\ lock' = Entry(j)
       ELSE GotoVp(j, "gone") /\ UNCHANGED lock
    /\ UNCHANGED <<readerVars, job, left>>

(* pool.begin().await.unwrap() panics, or the INSERT fails. *)
VpDbFails(j) ==
    /\ "db" \in Faults
    /\ vp[j] = "entries" /\ left[j] = 0
    /\ GotoVp(j, "gone")
    /\ UNCHANGED <<readerVars, job, left, lock>>

(* add_archive_entries, or its foreign key fails; rolled back either way. *)
LinkVp(j) ==
    /\ vp[j] = "link"
    /\ lock' = Drop(Entry(j))
    /\ GotoVp(j, "gone")
    /\ UNCHANGED <<readerVars, job, left>>

FileStep(j) == SendRaw(j) \/ HashPanics(j) \/ Insert(j) \/ Stat(j)
VpStep(j) == OpenVp(j) \/ SendEntry(j) \/ EntryHashed(j) \/ InsertVp(j) \/ LinkVp(j)

(* index_dir spawns one index_file for each file it has found. *)
Spawn(js) == job' = [j \in Jobs |-> IF j \in js THEN "send" ELSE job[j]]

(* Mutant: the transaction belongs to the call and not to the task. *)
AbortKeepsTransaction(js) ==
    /\ job' = [j \in Jobs |-> IF j \in js /\ job[j] \in Active THEN "aborted" ELSE job[j]]
    /\ UNCHANGED <<vp, left, lock>>

(* The set of tasks is dropped: index_file stops at its await, index_vp not. *)
Abort(js) ==
    LET stopped == {j \in js : job[j] \in Active}
    IN /\ job' = [j \in Jobs |-> IF j \in stopped THEN "aborted" ELSE job[j]]
       /\ lock' = IF \E j \in stopped : lock = Raw(j) THEN None ELSE lock
       /\ UNCHANGED <<vp, left>>

IndexerTypeOK ==
    /\ ReadersTypeOK
    /\ job \in [Jobs -> Active \union Ends \union {"none"}]
    /\ vp \in [Jobs -> VpActive \union {"none", "gone"}]
    /\ left \in [Jobs -> Nat]
    /\ lock \in {None} \union {Raw(j) : j \in {i \in Jobs : job[i] = "stat"}}
                       \union {Entry(j) : j \in {i \in Jobs : vp[i] = "link"}}
=============================================================================
