------------------------------ MODULE FsnUpdate ------------------------------
(***************************************************************************)
(* The whole request /api/fsn/update: `mod_update` (fsnebula/api.rs).  A   *)
(* handler opens a transaction, calls FSNebula::init (FsnFetch), filters   *)
(* the list it returns against the releases of the database and commits    *)
(* what is new (FsnDb), then answers "updated" or the error.               *)
(*                                                                         *)
(* A deferred transaction has neither snapshot nor lock before its first   *)
(* statement, so BEGIN changes nothing the model keeps: a transaction      *)
(* starts with ReadReleases, after the download.                           *)
(*                                                                         *)
(* The handler reads the configuration before it downloads and keeps its   *)
(* read guard to the end (ConfigLock).  The fields that are put are not    *)
(* those that name the mirrors and the cache.                              *)
(***************************************************************************)
EXTENDS Naturals, Sequences, FiniteSets

CONSTANTS Handlers, None,
          NRepos, MaxVersion, Tagged, Faults,   \* see FsnFetch
          Mods,
          Lists,                                \* the mod list of each version
          Getters, Putters, MaxConfig           \* see ConfigLock

VARIABLES served, etag, cache, writing, layers, fetch, tag, repo, body, answer,
          db, writer, stale, stage, work, list, fresh, rows,
          config, saved, holding, waiting

RepoLists == {Lists[v] : v \in DOMAIN Lists}

Neb == INSTANCE FsnFetch
Db == INSTANCE FsnDb
Conf == INSTANCE ConfigLock WITH Updates <- Handlers

fetchVars == <<served, etag, cache, writing, layers, fetch, tag, repo, body, answer>>
dbVars == <<db, writer, stale, stage, work, list, fresh, rows>>
confVars == <<config, saved, holding, waiting>>
vars == <<fetchVars, dbVars, confVars>>

ASSUME FetchAssumption == Neb!FetchConstants
ASSUME ConfigAssumption == Conf!ConfigConstants
ASSUME ListPerVersion == Lists \in [1 .. MaxVersion -> Seq(Mods)]
ASSUME DbAssumption ==
    /\ None \notin Handlers
    /\ \A m \in Mods : Len(m.packs) \in Nat /\ DOMAIN m.packs = 1 .. Len(m.packs)

Init == Neb!FetchInit /\ Db!DbInit /\ Conf!ConfigInit

Publish(r) == Neb!Publish(r) /\ UNCHANGED <<dbVars, confVars>>

(* Mutant: the guard goes out of scope once the configuration is cloned. *)
RequestDropsGuard(h) ==
    /\ holding \intersect Putters = {}
    /\ Neb!Call(h)
    /\ UNCHANGED <<dbVars, confVars>>

(* config.read().await gets its guard at once, or the handler waits. *)
Request(h) ==
    /\ fetch[h] = "idle"
    /\ Conf!Enter(h)
    /\ IF h \in holding' THEN Neb!Call(h) ELSE UNCHANGED fetchVars
    /\ UNCHANGED <<dbVars, config, saved>>

Start(h) ==
    /\ h \in holding
    /\ Neb!Call(h)
    /\ UNCHANGED <<dbVars, confVars>>

Fetch(h) == Neb!Progress(h) /\ UNCHANGED <<dbVars, confVars>>

(* The guard is dropped at the end of mod_update, and when it is dropped. *)
Ended(h) ==
    IF fetch'[h] = "idle"
    THEN Conf!Leave(h) /\ UNCHANGED <<config, saved>>
    ELSE UNCHANGED confVars

FetchFault(h) == Neb!Fault(h) /\ Ended(h) /\ UNCHANGED dbVars

(* let rep = neb.repo, get_releases and the filter. *)
Filter(h) ==
    /\ fetch[h] = "fetched"
    /\ Db!ReadReleases(h, Lists[body[h]])
    /\ UNCHANGED <<fetchVars, confVars>>

Transact(h) == Db!Transact(h) /\ UNCHANGED <<fetchVars, confVars>>

(* A statement fails, or the client is gone; both roll back. *)
Abort(h) ==
    /\ {"cancel", "disk"} \intersect Faults # {}
    /\ Db!Abort(h)
    /\ UNCHANGED <<fetchVars, confVars>>

(* Mutant: the commit is spawned and the answer does not wait for it. *)
AnswerBeforeCommit(h) ==
    /\ \/ Db!Reply(h) /\ Neb!Return(h)
       \/ fetch[h] = "failed" /\ Neb!Return(h) /\ UNCHANGED dbVars
       \/ stage[h] = "filed" /\ Neb!Return(h) /\ UNCHANGED dbVars
    /\ Ended(h)

(* The answer to the request: "updated", or the error of init or the db. *)
Answer(h) ==
    /\ \/ Db!Reply(h) /\ Neb!Return(h)
       \/ fetch[h] = "failed" /\ Neb!Return(h) /\ UNCHANGED dbVars
    /\ Ended(h)

AskConfig(c) == Conf!AskConfig(c) /\ UNCHANGED <<fetchVars, dbVars>>

Configure(c) ==
    /\ Conf!GetConfig(c) \/ Conf!PutConfig(c)
    /\ UNCHANGED <<fetchVars, dbVars>>

Restart == Neb!Crash /\ Db!DbCrash /\ Conf!ConfigRestart

Progress(h) == Start(h) \/ Fetch(h) \/ Filter(h) \/ Transact(h) \/ Answer(h)

Next ==
    \/ \E r \in 1 .. NRepos : Publish(r)
    \/ \E h \in Handlers : \/ Request(h) \/ Progress(h)
                           \/ FetchFault(h) \/ Abort(h)
    \/ \E c \in Getters \union Putters : AskConfig(c) \/ Configure(c)
    \/ Restart

Spec == Init /\ [][Next]_vars

(* Mirrors answer and statements end; nobody is forced to ask. *)
Fairness ==
    /\ \A h \in Handlers : WF_vars(Progress(h))
    /\ \A c \in Getters \union Putters : WF_vars(Configure(c))

FairSpec == Spec /\ Fairness

MirrorAnswers(h) ==
    /\ repo[h] = 1
    /\ Neb!NotModified(h) \/ Neb!Modified(h)
    /\ UNCHANGED <<dbVars, confVars>>

(* The user keeps asking; the first mirror is not out of reach for good. *)
AskingSpec ==
    FairSpec /\ \A h \in Handlers : WF_vars(Request(h)) /\ SF_vars(MirrorAnswers(h))
-----------------------------------------------------------------------------
TypeOK ==
    /\ Neb!FetchTypeOK
    /\ Db!DbTypeOK
    /\ Conf!ConfigTypeOK
    /\ \A h \in Handlers : stage[h] # "idle" =>
         fetch[h] = "fetched" /\ list[h] = Lists[body[h]]

(***************************************************************************)
(* Unless an answer is being stored, the tag on disk is that of the list   *)
(* on disk (see FsnFetch): as long as requests do not overlap.             *)
(***************************************************************************)
TagMatchesCache == Neb!TagMatchesCache

StoredList(v) ==
    \A k \in DOMAIN Lists[v] : Db!Key(Lists[v][k]) \in Db!KeysOf(db)

(***************************************************************************)
(* An "updated" answer means that the list the mirror had when it answered *)
(* this request has been processed: all of its releases are stored.        *)
(***************************************************************************)
UpdatedMeansProcessed ==
    \A h \in Handlers :
        stage[h] = "updated" /\ answer[h] # 0 => StoredList(answer[h])

(***************************************************************************)
(* Only releases of lists that were published are in the database, and a   *)
(* release that is there has the rows of the list entry it came from,      *)
(* whatever failed, was cancelled, overlapped or died in between.          *)
(***************************************************************************)
StoredWasPublished ==
    \A d \in db.details : \E v \in 1 .. MaxVersion :
        /\ \E r \in 1 .. NRepos : v <= served[r]
        /\ \E k \in DOMAIN Lists[v] : d[2] = Lists[v][k]
        /\ <<d[1], Db!Key(d[2])>> \in db.releases

(***************************************************************************)
(* Every request is answered, with "updated" or with an error, also when   *)
(* another one holds the write lock or has just committed.                 *)
(***************************************************************************)
EveryRequestAnswered ==
    \A h \in Handlers : fetch[h] = "tag" ~> fetch[h] = "idle"

(***************************************************************************)
(* A list that init hands over was published by a mirror: overlapping and  *)
(* broken writes of mods.json never make it another (see FsnFetch).        *)
(***************************************************************************)
FetchedIsPublished == Neb!FetchedIsPublished

(***************************************************************************)
(* The configuration does not change under an update, from its first await *)
(* to its answer: put_config waits for the guard.                          *)
(***************************************************************************)
ConfigUnchangedDuringUpdate ==
    [][(\E h \in Handlers : fetch[h] # "idle" /\ fetch'[h] # "idle")
         => config' = config]_vars

(***************************************************************************)
(* A request for the configuration is answered, although updates that are  *)
(* asked for again and again hold the lock for as long as they run: nobody *)
(* overtakes a put_config that waits.                                      *)
(***************************************************************************)
ConfigAnswered ==
    \A c \in Getters \union Putters : Conf!Waits(c) ~> Conf!Idle(c)

(***************************************************************************)
(* As long as the update is asked for again and again, the database keeps  *)
(* catching up with what the first mirror serves: no cached tag can keep   *)
(* a published list out for good.                                          *)
(***************************************************************************)
CatchesUp == []<>StoredList(served[1])
=============================================================================
