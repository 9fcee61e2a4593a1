------------------------------ MODULE ConfigLock ------------------------------
(***************************************************************************)
(* The configuration (config.rs, config/api.rs): one value in memory       *)
(* behind tokio's RwLock, and the file it was read from at the start.      *)
(*                                                                         *)
(* The lock is fair: who asks for it waits behind those that wait already, *)
(* a reader also behind a writer, and a release hands it to the head of    *)
(* the queue.  get_config and put_config give it back in the poll that     *)
(* gets it; an update keeps its guard until it has answered.  A client     *)
(* that goes away while it waits in the queue is left out.                 *)
(***************************************************************************)
EXTENDS Naturals, Sequences, FiniteSets

CONSTANTS Updates,    \* clients that hold the lock for reading
          Getters,    \* clients of get_config
          Putters,    \* clients of put_config
          MaxConfig   \* bound on the configurations that are put

ConfigConstants ==
    /\ Updates \intersect Putters = {}
    /\ Getters \intersect (Updates \union Putters) = {}
    /\ MaxConfig \in Nat

VARIABLES config,   \* in memory
          saved,    \* in the file
          holding,  \* who has a guard
          waiting   \* the queue of the lock

lockVars == <<config, saved, holding, waiting>>

Clients == Updates \union Getters \union Putters
Waits(c) == \E i \in DOMAIN waiting : waiting[i] = c
Idle(c) == c \notin holding /\ ~Waits(c)

ConfigInit ==
    /\ config = 0 /\ saved = 0
    /\ holding = {} /\ waiting = <<>>

(* Whether c can have the lock next to those in held. *)
Admits(held, c) == held = {} \/ (held \union {c}) \intersect Putters = {}

(* Mutant: a reader is let in past the writers that wait. *)
GoesFirstIfReader(c) == c \notin Putters \/ waiting = <<>>

GoesFirst(c) == waiting = <<>>

(* config.read() and config.write() *)
Enter(c) ==
    /\ Idle(c)
    /\ IF GoesFirst(c) /\ Admits(holding, c)
       THEN holding' = holding \union {c} /\ UNCHANGED waiting
       ELSE waiting' = Append(waiting, c) /\ UNCHANGED holding

First(n) == {waiting[i] : i \in 1 .. n}

(* How many of the queue are let in when held are left with the lock. *)
LetIn(held) ==
    CHOOSE n \in 0 .. Len(waiting) :
        /\ \A i \in 1 .. n : Admits(held \union First(i - 1), waiting[i])
        /\ n = Len(waiting) \/ ~Admits(held \union First(n), waiting[n + 1])

(* The guard of c is dropped. *)
Leave(c) ==
    LET held == holding \ {c}
        n == LetIn(held)
    IN /\ holding' = held \union First(n)
       /\ waiting' = SubSeq(waiting, n + 1, Len(waiting))

AskConfig(c) ==
    /\ c \in Getters \/ (c \in Putters /\ config < MaxConfig)
    /\ Enter(c)
    /\ UNCHANGED <<config, saved>>

GetConfig(c) ==
    /\ c \in Getters \intersect holding
    /\ Leave(c)
    /\ UNCHANGED <<config, saved>>

(***************************************************************************)
(* put_config replaces the value and then fails to save it: the path that  *)
(* save writes to is the directory.  The new value stays in memory.        *)
(***************************************************************************)
PutConfig(c) ==
    /\ c \in Putters \intersect holding
    /\ config' \in config + 1 .. MaxConfig
    /\ Leave(c)
    /\ UNCHANGED saved

(* Config::read of the file, or the default, when the server starts. *)
ConfigRestart ==
    /\ config' = saved
    /\ holding' = {} /\ waiting' = <<>>
    /\ UNCHANGED saved

ConfigTypeOK ==
    /\ config \in 0 .. MaxConfig /\ saved = 0
    /\ holding \subseteq Clients
    /\ holding \intersect Putters # {} => Cardinality(holding) = 1
    /\ waiting \in Seq(Clients)
    /\ waiting # <<>> => ~Admits(holding, Head(waiting))
=============================================================================
