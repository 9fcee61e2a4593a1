------------------------------ MODULE FetchTasks ------------------------------
(***************************************************************************)
(* acquire_files (files.rs), second half: the sources the planner chose    *)
(* are downloaded, at most four at a time, and each result is indexed      *)
(* before the next one is looked at.                                       *)
(*                                                                         *)
(* The downloads are futures of one stream, so none of them is polled      *)
(* while a result is being indexed, and one that fails panics the whole    *)
(* call.  What runs on its own goes on regardless, also after the call has *)
(* ended: the extraction of an archive on its blocking thread, the reader  *)
(* pool and its tasks, index_vp.                                           *)
(*                                                                         *)
(* save_loc.join("/extract") is /extract, whatever save_loc is: all        *)
(* archives are extracted into one directory, and index_dir indexes what   *)
(* is there, of this archive or another.                                   *)
(***************************************************************************)
EXTENDS Indexer

CONSTANTS Sources,
          Archives,   \* the sources of format SevenZip
          Files,
          Contents,   \* the files a source brings: its own, or those inside
          Parallel    \* downloads at a time: 4

ASSUME FetchTasksAssumption ==
    /\ Archives \subseteq Sources
    /\ Contents \in [Sources -> SUBSET Files]
    /\ \A s \in Sources \ Archives : Cardinality(Contents[s]) = 1
    /\ Jobs = Sources \X Files
    (* The path of a download is its hash and has no extension. *)
    /\ Vps \union Vpcs \subseteq Archives \X Files
    /\ Parallel \in Nat \ {0}

VARIABLES acquire,   \* what acquire_files is at, or ended with
          src        \* the stage of each source

fetchVars == <<acquire, src>>
vars == <<indexVars, fetchVars>>

InFlight == {"asking", "extracting", "extracted", "broken"}
Stages == InFlight \union {"planned", "indexing", "indexed"}

Init ==
    /\ IndexerInit
    /\ acquire = "running"
    /\ src = [s \in Sources |-> "planned"]

To(s, l) == src' = [src EXCEPT ![s] = l]
JobsOf(s) == {j \in Jobs : j[1] = s /\ job[j] # "none"}
Indexing == \E s \in Sources : src[s] = "indexing"

(* Mutant: one download too many. *)
HasRoomForOneMore ==
    Cardinality({s \in Sources : src[s] \in InFlight}) <= Parallel

HasRoom == Cardinality({s \in Sources : src[s] \in InFlight}) < Parallel
Planned == {s \in Sources : src[s] = "planned"}

(* buffer_unordered takes up further downloads before it polls any. *)
Ask(s) ==
    /\ acquire = "running" /\ ~Indexing
    /\ HasRoom
    /\ s \in Planned
    /\ To(s, "asking")
    /\ UNCHANGED <<indexVars, acquire>>

Polled == acquire = "running" /\ ~Indexing /\ (HasRoom => Planned = {})

(* The last chunk has been written; the file is not flushed. *)
Download(s) ==
    /\ Polled
    /\ src[s] = "asking"
    /\ IF s \in Archives
       THEN To(s, "extracting") /\ UNCHANGED job
       ELSE To(s, "indexing") /\ Spawn({s} \X Contents[s])
    /\ UNCHANGED <<readerVars, vp, left, lock, acquire>>

(* fetch_files(..).await.unwrap(): any failure, and the call is over. *)
FetchFails(s) ==
    /\ Faults \intersect {"db", "net", "disk"} # {}
    /\ Polled
    /\ src[s] = "asking"
    /\ acquire' = "panicked"
    /\ UNCHANGED <<indexVars, src>>

(* .expect("7z extraction failed") *)
ExtractionFailed(s) ==
    /\ Polled
    /\ src[s] = "broken"
    /\ acquire' = "panicked"
    /\ UNCHANGED <<indexVars, src>>

(***************************************************************************)
(* sevenz_extract, on a blocking thread.  It may fail without any fault of *)
(* its own: the last write of the archive may still be in flight, and what *)
(* was downloaded may be an error page, as nobody looks at the status.     *)
(***************************************************************************)
Extract(s) ==
    /\ src[s] = "extracting"
    /\ To(s, "extracted") \/ To(s, "broken")
    /\ UNCHANGED <<indexVars, acquire>>

(* What is in /extract; of an archive being extracted, any part. *)
FilesOf(ss) == UNION {Contents[s] : s \in ss}
Extracted == FilesOf({s \in Archives : src[s] \in {"extracted", "indexing", "indexed"}})
Arriving == FilesOf({s \in Archives : src[s] \in {"extracting", "broken"}})

(* index_dir: a directory that cannot be read is skipped silently. *)
WalkDir(s) ==
    /\ Polled
    /\ src[s] = "extracted"
    /\ \E found \in SUBSET (Extracted \union Arriving) :
         /\ "disk" \in Faults \/ Extracted \subseteq found
         /\ Spawn({s} \X found)
    /\ To(s, "indexing")
    /\ UNCHANGED <<readerVars, vp, left, lock, acquire>>

(* f.metadata().unwrap(), with tasks of the entries before f at work. *)
WalkPanics(s) ==
    /\ "disk" \in Faults
    /\ acquire = "running"
    /\ src[s] = "indexing" /\ s \in Archives
    /\ acquire' = "panicked"
    /\ Abort(JobsOf(s))
    /\ UNCHANGED <<readerVars, src>>

(* The download was not flushed, or the file is still being extracted. *)
MayBeIncomplete(j) == j[1] \notin Archives \/ j[2] \in Arriving

Read(j) ==
    /\ GetFile(Raw(j), {"read"} \union (IF MayBeIncomplete(j) THEN {"part"} ELSE {})
                              \union (IF "disk" \in Faults THEN {"error"} ELSE {}))
    /\ UNCHANGED <<jobVars, fetchVars>>

Pool == (HandleRaw \/ HandleEntry) /\ UNCHANGED <<jobVars, fetchVars>>
IndexFile(j) == FileStep(j) /\ UNCHANGED fetchVars
IndexVp(j) == VpStep(j) /\ UNCHANGED fetchVars
IndexFault(j) == (DbFails(j) \/ VpDbFails(j)) /\ UNCHANGED fetchVars

(* Mutant: what the tasks of index_dir return is not looked at. *)
IndexedWhenAllEnded(s) ==
    /\ acquire = "running"
    /\ src[s] = "indexing"
    /\ \A j \in JobsOf(s) : job[j] \in Ends
    /\ To(s, "indexed")
    /\ UNCHANGED <<indexVars, acquire>>

Indexed(s) ==
    /\ acquire = "running"
    /\ src[s] = "indexing"
    /\ \A j \in JobsOf(s) : job[j] = "ok"
    /\ To(s, "indexed")
    /\ UNCHANGED <<indexVars, acquire>>

(* The first failure that is joined ends index_dir, and by `?` the call. *)
IndexFails(s) ==
    /\ acquire = "running"
    /\ src[s] = "indexing"
    /\ \E j \in JobsOf(s) :
         \/ job[j] = "err" /\ acquire' = "failed"
         \/ job[j] = "panic" /\ acquire' = "panicked"
    /\ Abort(JobsOf(s))
    /\ UNCHANGED <<readerVars, src>>

(* The stream is empty; what follows it is a todo!(). *)
Finish ==
    /\ acquire = "running"
    /\ \A s \in Sources : src[s] = "indexed"
    /\ acquire' = "finished"
    /\ UNCHANGED <<indexVars, src>>

Cancel ==
    /\ "cancel" \in Faults
    /\ acquire = "running"
    /\ acquire' = "cancelled"
    /\ Abort(Jobs)
    /\ UNCHANGED <<readerVars, src>>

SourceStep(s) ==
    \/ Ask(s) \/ Download(s) \/ ExtractionFailed(s) \/ WalkDir(s)
    \/ Indexed(s) \/ IndexFails(s)

Next ==
    \/ \E s \in Sources : SourceStep(s) \/ Extract(s) \/ FetchFails(s) \/ WalkPanics(s)
    \/ \E j \in Jobs : IndexFile(j) \/ IndexVp(j) \/ IndexFault(j) \/ Read(j)
    \/ Pool \/ Finish \/ Cancel

Spec == Init /\ [][Next]_vars

(* Tasks and blocking threads are run, and no connection or file hangs. *)
Fairness ==
    /\ \A s \in Sources : WF_vars(SourceStep(s)) /\ WF_vars(Extract(s))
    /\ \A j \in Jobs : /\ WF_vars(IndexFile(j)) /\ WF_vars(IndexVp(j))
                       /\ WF_vars(Read(j))
    /\ WF_vars(Pool) /\ WF_vars(Finish)

FairSpec == Spec /\ Fairness
-----------------------------------------------------------------------------
TypeOK ==
    /\ IndexerTypeOK
    /\ acquire \in {"running", "finished", "failed", "panicked", "cancelled"}
    /\ src \in [Sources -> Stages]
    /\ Cardinality({s \in Sources : src[s] \in InFlight}) <= Parallel

(***************************************************************************)
(* acquire_files comes to the end of its stream only if every source was   *)
(* downloaded and each index_file that was started for it has returned Ok: *)
(* no error and no panic of a task that is joined is lost on the way up    *)
(* through the nested tasks and the stream.  It says nothing of index_vp,  *)
(* which nobody joins, nor of what was hashed: see the next property.      *)
(***************************************************************************)
NoJoinedFailureIsLost ==
    acquire = "finished" =>
        /\ \A s \in Sources : src[s] = "indexed"
        /\ \A s \in Sources \ Archives : \A f \in Contents[s] : job[<<s, f>>] = "ok"
        /\ \A j \in Jobs : job[j] \in {"none", "ok"}

(***************************************************************************)
(* A hash that is stored is that of the whole file, with three exceptions: *)
(* the reader pool had died and the file was not read at all; a part of a  *)
(* download was read before its last write; a part of a file was read that *)
(* another archive was putting into /extract.  So a read error is never    *)
(* taken for the end of a file, and an archive that alone brings a file is *)
(* never walked before the file is whole.                                  *)
(***************************************************************************)
WrongHashesHaveKnownCauses ==
    \A j \in Jobs : job[j] \in {"stat", "ok"} =>
        \/ chan[Raw(j)] = "read"
        \/ chan[Raw(j)] = "dropped" /\ pool = "dead"
        \/ /\ chan[Raw(j)] = "part"
           /\ \/ j[1] \notin Archives
              \/ \E t \in Archives \ {j[1]} : j[2] \in Contents[t]

(***************************************************************************)
(* "Send failed, but it's infallible???" (indexer.rs:87): while the server *)
(* runs, the reader pool takes requests.                                   *)
(***************************************************************************)
SendIsInfallible ==
    \A j \in Jobs : job[j] = "send" => pool = "running"

(***************************************************************************)
(* acquire_files ends, with an answer or a panic: no task waits for a      *)
(* chunk, a slot, the write lock or another task that will not come.       *)
(***************************************************************************)
AcquireEnds == <>(acquire # "running")

Quiet ==
    /\ reading = {} /\ requests = <<>> /\ lock = None
    /\ \A j \in Jobs : job[j] \notin Active /\ vp[j] \notin VpActive

(***************************************************************************)
(* Nothing that was started stays behind: tasks nobody joins end as well,  *)
(* and the write lock is not left taken.                                   *)
(***************************************************************************)
LeftoversEnd == <>[]Quiet
=============================================================================
