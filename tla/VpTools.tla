------------------------------- MODULE VpTools -------------------------------
(***************************************************************************)
(* The extractor of vp/src/bin.rs.  decompress spawns one task that reads  *)
(* the files of an archive, tasks that decompress them and tasks that save *)
(* them, with a bounded channel before each of the last two kinds, and     *)
(* then awaits the tasks one after the other.                              *)
(*                                                                         *)
(* A channel is closed for receiving when its last sender is gone, and for *)
(* sending when its last receiver is.  The copies main holds are dropped   *)
(* before it awaits anything, so only the tasks count.  The program ends   *)
(* with main: tasks that still run are dropped.                            *)
(***************************************************************************)
EXTENDS VpIndex

CONSTANTS Archives,     \* the archives that may be extracted
          Reader,       \* vp_task
          Decoders,     \* decompress_tasks
          Savers,       \* save_tasks
          Capacity,     \* of a channel
          DiskMayFail   \* whether the disk may fail under a task

(* Mutant: main awaits the tasks as they were spawned. *)
TasksAsSpawned == <<Reader>> \o Decoders \o Savers

Tasks == Savers \o Decoders \o <<Reader>>     \* in the order main awaits them

(***************************************************************************)
(* An archive has a length and the records of its index.  No two files are *)
(* to be written to one path.                                              *)
(***************************************************************************)
ASSUME VpAssumption ==
    /\ \A a \in Archives :
           /\ a.length \in Nat
           /\ Len(a.records) \in Nat /\ DOMAIN a.records = 1 .. Len(a.records)
           /\ \A k \in DOMAIN a.records :
                  /\ a.records[k].offset \in Nat /\ a.records[k].size \in Nat
                  /\ a.records[k].stubbed \in BOOLEAN
           /\ LET files == flatten(a.records)
              IN  \A i, j \in DOMAIN files :
                      files[i].offset < a.length /\ files[i].path = files[j].path => i = j
    /\ Capacity \in Nat \ {0}
    /\ Decoders # <<>> /\ Decoders \in Seq(Range(Decoders))
    /\ Savers # <<>> /\ Savers \in Seq(Range(Savers))
    /\ \A i, j \in DOMAIN Tasks : Tasks[i] = Tasks[j] => i = j
    /\ DiskMayFail \in BOOLEAN

None == [file |-> 0, from |-> 0, size |-> 0]

VARIABLES archive,   \* the archive that is extracted
          files,     \* its files in the order they are read
          next,      \* the index of the next file to read
          currpos,   \* where vp_task takes its file handle to be
          handle,    \* where the handle is
          vp,        \* the channel tx_vp, rx_vp
          uc,        \* the channel tx_uc, rx_uc
          status,    \* of each task
          entry,     \* what a task holds
          disk,      \* what is at the path of each file
          awaited,   \* how many of Tasks main has seen end
          result     \* of decompress

vars == <<archive, files, next, currpos, handle, vp, uc, status, entry, disk, awaited, result>>

(* sort_by_key, which is stable. *)
ByOffset(listed) ==
    LET order == Sorted(DOMAIN listed, [i \in DOMAIN listed |-> listed[i].offset])
    IN  [n \in DOMAIN order |-> listed[order[n]]]

Contents(k) == [file |-> k, from |-> files[k].offset, size |-> files[k].size]

Absent == None
Partial == [file |-> 0, from |-> 0, size |-> 1]   \* some bytes, of no use

Init ==
    /\ archive \in Archives
    /\ files = ByOffset(flatten(archive.records))
    /\ next = 1 /\ currpos = 0 /\ handle = 0
    /\ vp = <<>> /\ uc = <<>>
    /\ status = [t \in ToSet(Tasks) |-> "waiting"]
    /\ entry = [t \in ToSet(Tasks) |-> None]
    /\ disk = [k \in DOMAIN files |-> Absent]
    /\ awaited = 0 /\ result = "none"

Ended(t) == status[t] \in {"done", "failed"}
(* Mutant: main keeps its copies of the channels. *)
ClosedNever(T) == FALSE

Closed(T) == \A t \in ToSet(T) : Ended(t)

Becomes(t, s, e) ==
    /\ status' = [status EXCEPT ![t] = s]
    /\ entry' = [entry EXCEPT ![t] = e]
-----------------------------------------------------------------------------
(***************************************************************************)
(* vp_task: seek unless currpos says that the handle is there already, and *)
(* read_exact, which moves the handle; currpos is kept beside it by hand.  *)
(***************************************************************************)
From(k) == IF currpos # files[k].offset THEN files[k].offset ELSE handle

(* Mutant: currpos is not set by a seek. *)
CurrposNotSet(k) == currpos

Currpos(k) == IF currpos # files[k].offset THEN files[k].offset ELSE currpos

TooShort(k) == From(k) + files[k].size > archive.length

Read ==
    /\ status[Reader] = "waiting" /\ next \in DOMAIN files /\ ~TooShort(next)
    /\ Becomes(Reader, "holding",
               [file |-> next, from |-> From(next), size |-> files[next].size])
    /\ handle' = From(next) + files[next].size
    /\ currpos' = Currpos(next) + files[next].size
    /\ next' = next + 1
    /\ UNCHANGED <<vp, uc, disk>>

(* The archive cannot be opened (before its first file), sought or read. *)
ReadFails ==
    /\ status[Reader] = "waiting"
    /\ \/ DiskMayFail /\ (next = 1 \/ next \in DOMAIN files)
       \/ next \in DOMAIN files /\ TooShort(next)
    /\ Becomes(Reader, "failed", None)
    /\ UNCHANGED <<next, currpos, handle, vp, uc, disk>>

ReadEnds ==
    /\ status[Reader] = "waiting" /\ next \notin DOMAIN files
    /\ Becomes(Reader, "done", None)
    /\ UNCHANGED <<next, currpos, handle, vp, uc, disk>>

(* Mutant: one entry too many. *)
HasRoomForMore(channel) == Len(channel) <= Capacity

HasRoom(channel) == Len(channel) < Capacity

SendRead ==
    /\ status[Reader] = "holding" /\ HasRoom(vp) /\ ~Closed(Decoders)
    /\ vp' = Append(vp, entry[Reader])
    /\ Becomes(Reader, "waiting", None)
    /\ UNCHANGED <<next, currpos, handle, uc, disk>>

SendReadFails ==
    /\ status[Reader] = "holding" /\ Closed(Decoders)
    /\ Becomes(Reader, "failed", None)
    /\ UNCHANGED <<next, currpos, handle, vp, uc, disk>>
-----------------------------------------------------------------------------
(***************************************************************************)
(* decompress_tasks.  maybe_decompress returns what is not packed as it is *)
(* and panics on the rest: real_decompress is a todo!(), and a file with   *)
(* less than four bytes has no magic number to look at.                    *)
(***************************************************************************)
Panics(e) == files[e.file].stubbed \/ e.size < 4

Decode(d) ==
    /\ status[d] = "waiting" /\ vp # <<>>
    /\ IF Panics(Head(vp)) THEN Becomes(d, "failed", None)
                           ELSE Becomes(d, "holding", Head(vp))
    /\ vp' = Tail(vp)
    /\ UNCHANGED <<next, currpos, handle, uc, disk>>

DecodingEnds(d) ==
    /\ status[d] = "waiting" /\ vp = <<>> /\ Ended(Reader)
    /\ Becomes(d, "done", None)
    /\ UNCHANGED <<next, currpos, handle, vp, uc, disk>>

SendDecoded(d) ==
    /\ status[d] = "holding" /\ HasRoom(uc) /\ ~Closed(Savers)
    /\ uc' = Append(uc, entry[d])
    /\ Becomes(d, "waiting", None)
    /\ UNCHANGED <<next, currpos, handle, vp, disk>>

SendDecodedFails(d) ==
    /\ status[d] = "holding" /\ Closed(Savers)
    /\ Becomes(d, "failed", None)
    /\ UNCHANGED <<next, currpos, handle, vp, uc, disk>>
-----------------------------------------------------------------------------
(* save_tasks: directory and file, by the path the entry came with. *)
Take(s) ==
    /\ status[s] = "waiting" /\ uc # <<>>
    /\ Becomes(s, "holding", Head(uc))
    /\ uc' = Tail(uc)
    /\ UNCHANGED <<next, currpos, handle, vp, disk>>

Save(s) ==
    /\ status[s] = "holding"
    /\ disk' = [disk EXCEPT ![entry[s].file] = entry[s]]
    /\ Becomes(s, "waiting", None)
    /\ UNCHANGED <<next, currpos, handle, vp, uc>>

SaveFails(s) ==
    /\ DiskMayFail /\ status[s] = "holding"
    /\ \E left \in {disk[entry[s].file], Partial} :
           disk' = [disk EXCEPT ![entry[s].file] = left]
    /\ Becomes(s, "failed", None)
    /\ UNCHANGED <<next, currpos, handle, vp, uc>>

SavingEnds(s) ==
    /\ status[s] = "waiting" /\ uc = <<>> /\ Closed(Decoders)
    /\ Becomes(s, "done", None)
    /\ UNCHANGED <<next, currpos, handle, vp, uc, disk>>
-----------------------------------------------------------------------------
(* Mutant: the results of the tasks are dropped. *)
OutcomeDropped(t) == IF t = Last(Tasks) THEN "ok" ELSE "none"

(* decompress: task.await?? on one task after the other. *)
Outcome(t) ==
    CASE status[t] = "failed" -> "error"
      [] status[t] # "failed" /\ t = Last(Tasks) -> "ok"
      [] OTHER -> "none"

Await ==
    LET t == Tasks[awaited + 1]
    IN  /\ Ended(t)
        /\ awaited' = awaited + 1
        /\ result' = Outcome(t)
        /\ UNCHANGED <<next, currpos, handle, vp, uc, status, entry, disk>>

DecoderStep(d) ==
    Decode(d) \/ DecodingEnds(d) \/ SendDecoded(d) \/ SendDecodedFails(d)

SaverStep(s) == Take(s) \/ Save(s) \/ SaveFails(s) \/ SavingEnds(s)

ReaderStep == Read \/ ReadFails \/ ReadEnds \/ SendRead \/ SendReadFails

TaskStep ==
    \/ ReaderStep
    \/ \E d \in ToSet(Decoders) : DecoderStep(d)
    \/ \E s \in ToSet(Savers) : SaverStep(s)

Next ==
    /\ result = "none"
    /\ UNCHANGED <<archive, files>>
    /\ \/ TaskStep /\ UNCHANGED <<awaited, result>>
       \/ Await

Spec == Init /\ [][Next]_vars

(* The runtime runs some task that can go on. *)
FairSpec == Spec /\ WF_vars(Next)
-----------------------------------------------------------------------------
Entries ==
    [file : DOMAIN files, from : 0 .. archive.length, size : 1 .. archive.length]

TypeOK ==
    /\ archive \in Archives
    /\ next \in 1 .. Len(files) + 1
    /\ currpos \in 0 .. archive.length /\ handle \in 0 .. archive.length
    /\ vp \in Seq(Entries) /\ Len(vp) <= Capacity
    /\ uc \in Seq(Entries) /\ Len(uc) <= Capacity
    /\ status \in [ToSet(Tasks) -> {"waiting", "holding", "done", "failed"}]
    /\ entry \in [ToSet(Tasks) -> Entries \union {None}]
    /\ disk \in [DOMAIN files -> Entries \union {Absent, Partial}]
    /\ awaited \in 0 .. Len(Tasks)
    /\ result \in {"none", "ok", "error"}

(***************************************************************************)
(* When the tool reports success every file of the archive is on disk with *)
(* its own bytes: none was left in a channel or in a task that had ended.  *)
(***************************************************************************)
SuccessIsComplete ==
    result = "ok" => \A k \in DOMAIN files : disk[k] = Contents(k)

(***************************************************************************)
(* Whatever fails, at the path of a file are its own bytes or nothing, or  *)
(* what a failed write left, never bytes of another file: when currpos     *)
(* saves a seek the handle is there, also if files overlap or leave gaps.  *)
(***************************************************************************)
OwnBytes ==
    \A k \in DOMAIN files :
        \/ disk[k] \in {Absent, Contents(k)}
        \/ disk[k] = Partial /\ \E s \in ToSet(Savers) : status[s] = "failed"

(***************************************************************************)
(* A file that cannot be decompressed costs only itself, as long as one    *)
(* decompressing task is left: all others have been saved before main      *)
(* reports the panic.                                                      *)
(***************************************************************************)
BadFileCostsItself ==
    (/\ result # "none"
     /\ \A s \in ToSet(Savers) : status[s] # "failed"
     /\ \E d \in ToSet(Decoders) : status[d] = "done"
     /\ status[Reader] = "done")
        => \A k \in DOMAIN files : Panics(Contents(k)) \/ disk[k] = Contents(k)

(***************************************************************************)
(* The tool ends, whichever tasks panic or fail: no task waits for room in *)
(* a channel that nobody empties or for entries that nobody sends.         *)
(***************************************************************************)
ToolEnds == <>(result # "none")

(***************************************************************************)
(* The files that are extracted are those of the directory tree, and they  *)
(* can be looked up under the paths they are extracted to.                 *)
(***************************************************************************)
IndexAgrees == ListsTheTree(archive.records) /\ FindsWhatIsListed(archive.records)
=============================================================================
