------------------------------- MODULE Readers -------------------------------
(***************************************************************************)
(* The reader pool (files/readers.rs): one actor that takes requests for   *)
(* the contents of a file from a bounded channel and answers each over the *)
(* channel that came with it.                                              *)
(*                                                                         *)
(* A raw file is read by a task of its own.  An entry of a VP is handed to *)
(* a reader found in vp_channels; the program never puts one there, so the *)
(* unwrap of the lookup panics and the actor is gone until the process is  *)
(* started again, with every request that was still queued.                *)
(*                                                                         *)
(* An answer is known by what its receiver gets before the channel closes. *)
(* The five chunks a channel buffers do not show: its receiver hashes each *)
(* chunk and does nothing else until the channel is closed.                *)
(***************************************************************************)
EXTENDS Naturals, Sequences, FiniteSets

CONSTANTS Jobs,        \* files to be read and indexed (see Indexer)
          QueueLimit   \* requests the channel of the pool holds: 8

ASSUME QueueAssumption == QueueLimit \in Nat \ {0}

VARIABLES requests,  \* the channel of the pool
          pool,      \* "running", or "dead" after a panic
          reading,   \* the requests that have a get_file task
          chan       \* what came over the channel of each request

readerVars == <<requests, pool, reading, chan>>

(* A file as such, or an entry of the VP it is; entries come one by one. *)
Requests == Jobs \X {"raw", "entry"}

(* Closed without an error: at the end of the file, at the end of what had *)
(* been written of it by then, or before its start.                        *)
Closed == {"read", "part", "dropped"}
Answers == {"none", "open", "error"} \union Closed

ReadersInit ==
    /\ requests = <<>>
    /\ pool = "running"
    /\ reading = {}
    /\ chan = [q \in Requests |-> "none"]

(* reader_pool.tx.send(..).await: waits for a free slot. *)
Send(q) ==
    /\ pool = "running"
    /\ Len(requests) < QueueLimit
    /\ requests' = Append(requests, q)
    /\ chan' = [chan EXCEPT ![q] = "open"]
    /\ UNCHANGED <<pool, reading>>

(* The receiver is gone: the sender's `expect` panics. *)
SendFails == pool = "dead" /\ UNCHANGED readerVars

HandleRaw ==
    /\ pool = "running"
    /\ requests # <<>>
    /\ Head(requests)[2] = "raw"
    /\ reading' = reading \union {Head(requests)}
    /\ requests' = Tail(requests)
    /\ UNCHANGED <<pool, chan>>

Queued == {requests[i] : i \in DOMAIN requests}

(* Mutant: the queue outlives the actor, and with it the channels' senders. *)
HandleEntryKeepsQueue ==
    /\ pool = "running"
    /\ requests # <<>>
    /\ Head(requests)[2] = "entry"
    /\ pool' = "dead"
    /\ UNCHANGED <<requests, chan, reading>>

(* vp_channels.get_mut(&fp).unwrap(): the map is empty. *)
HandleEntry ==
    /\ pool = "running"
    /\ requests # <<>>
    /\ Head(requests)[2] = "entry"
    /\ pool' = "dead"
    /\ requests' = <<>>
    /\ chan' = [q \in Requests |-> IF q \in Queued THEN "dropped" ELSE chan[q]]
    /\ UNCHANGED reading

(* get_file: the file is read to the end it has at that moment. *)
GetFile(q, results) ==
    /\ q \in reading
    /\ reading' = reading \ {q}
    /\ \E r \in results : chan' = [chan EXCEPT ![q] = r]
    /\ UNCHANGED <<requests, pool>>

ReadersTypeOK ==
    /\ requests \in Seq(Requests) /\ Len(requests) <= QueueLimit
    /\ pool \in {"running", "dead"}
    /\ reading \subseteq {q \in Requests : q[2] = "raw"}
    /\ chan \in [Requests -> Answers]
    /\ \A q \in Queued \union reading : chan[q] = "open"
=============================================================================
