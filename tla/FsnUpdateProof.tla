---------------------------- MODULE FsnUpdateProof ---------------------------
(***************************************************************************)
(* For any handlers, mirrors, versions and faults: the types of FsnFetch,  *)
(* that a list init returns was published by some mirror, that nobody      *)
(* changes the configuration under an update, and the types of FsnUpdate.  *)
(*                                                                         *)
(* A list is returned from an answer or from mods.json, and what is in     *)
(* mods.json is either torn or the list of one of its writers.  So the     *)
(* invariant speaks of every place a list can be in: the answers held, the *)
(* file, and the lists that are being written over each other.             *)
(*                                                                         *)
(* The last part is about the database after any requests, mirrors and     *)
(* faults: it holds only mods of published lists, each under the release   *)
(* it came with.  The steps of a request on the database are those of      *)
(* FsnDb (StepsOfTheDb), so that the invariant of FsnDbProof holds of it;  *)
(* the lists it hands to a transaction are those the download returns; and *)
(* a commit adds rows of the list of its own transaction only.             *)
(* So the service implements FsnFetch and FsnDb, and the catalogue too.    *)
(*                                                                         *)
(* The end is about requests that nothing disturbs (Undisturbed): for them *)
(* the tag on disk is that of the list on disk, and "updated" is true.     *)
(***************************************************************************)
EXTENDS FsnUpdate, FiniteSetTheorems, WellFoundedInduction, TLAPS

Published(v) == \E r \in Neb!Mirrors : v <= served[r]

(* The labels at which a handler holds an answer it has received. *)
Holding == {"mark", "receive", "save", "write", "fetched"}

(* Those at which it has not looked at the answer yet. *)
Unread == {"save", "write"}

AnswersPublished ==
    \A h \in Handlers :
        /\ body[h] \in Neb!Versions => Published(body[h])
        /\ fetch[h] \in Unread => body[h] \in Neb!Versions \union {Neb!Torn}
        /\ fetch[h] \in Holding \ Unread => body[h] \in Neb!Versions

CachePublished == cache \in Neb!Versions => Published(cache)

LayersPublished == \A v \in layers \ {Neb!Torn} : Published(v)

IInv == Neb!FetchTypeOK /\ AnswersPublished /\ CachePublished /\ LayersPublished

USE FetchAssumption DEF Neb!FetchConstants

(* Torn is no version, and Nothing is none. *)
LEMMA NoVersions ==
    /\ Neb!Torn \notin Neb!Versions /\ Neb!Nothing \notin Neb!Versions
    /\ Neb!Torn # Neb!Nothing
BY DEF Neb!Torn, Neb!Nothing, Neb!Versions

LEMMA InitEstablishes == Neb!FetchInit => IInv
<1> SUFFICES ASSUME Neb!FetchInit PROVE IInv
  OBVIOUS
<1>1. Neb!FetchTypeOK
  BY DEF Neb!FetchInit, Neb!FetchTypeOK, Neb!Mirrors, Neb!Versions, Neb!Nothing, Neb!Labels
<1>2. AnswersPublished /\ CachePublished /\ LayersPublished
  BY NoVersions DEF Neb!FetchInit, AnswersPublished, CachePublished, LayersPublished, Holding, Unread
<1> QED
  BY <1>1, <1>2 DEF IInv

(* A mirror only ever gets newer lists. *)
LEMMA PublishedStays ==
    ASSUME Neb!FetchTypeOK, NEW r \in Neb!Mirrors, Neb!Publish(r),
           NEW v \in Neb!Versions, Published(v)
    PROVE  Published(v)'
<1>1. PICK w \in served[r] + 1 .. MaxVersion : served' = [served EXCEPT ![r] = w]
  BY DEF Neb!Publish
<1>2. PICK q \in Neb!Mirrors : v <= served[q]
  BY DEF Published
<1>3. \A m \in Neb!Mirrors : served[m] <= served'[m]
  BY <1>1 DEF Neb!FetchTypeOK, Neb!Versions, Neb!Mirrors
<1>4. served[q] \in Nat /\ served'[q] \in Nat /\ v \in Nat
  BY <1>1 DEF Neb!FetchTypeOK, Neb!Versions, Neb!Mirrors
<1> QED
  BY <1>2, <1>3, <1>4 DEF Published

LEMMA TypesPreserved == IInv /\ [Neb!FetchNext]_fetchVars => Neb!FetchTypeOK'
<1> SUFFICES ASSUME Neb!FetchTypeOK, AnswersPublished, [Neb!FetchNext]_fetchVars
             PROVE  Neb!FetchTypeOK'
  BY DEF IInv
<1> USE NoVersions DEF Neb!FetchTypeOK, Neb!files, Neb!Labels, Neb!Running, Neb!Goto
<1>1. ASSUME NEW r \in Neb!Mirrors, Neb!Publish(r) PROVE Neb!FetchTypeOK'
  BY <1>1 DEF Neb!Publish, Neb!Versions
<1>2. ASSUME NEW h \in Handlers, Neb!Call(h) PROVE Neb!FetchTypeOK'
  BY <1>2 DEF Neb!Call
<1>3. ASSUME NEW h \in Handlers, Neb!ReadTag(h) PROVE Neb!FetchTypeOK'
  BY <1>3 DEF Neb!ReadTag, Neb!TagsRead, Neb!Mirrors
<1>4. ASSUME NEW h \in Handlers, Neb!NotModified(h) PROVE Neb!FetchTypeOK'
  BY <1>4 DEF Neb!NotModified
<1>5. ASSUME NEW h \in Handlers, Neb!Modified(h) PROVE Neb!FetchTypeOK'
  BY <1>5 DEF Neb!Modified
<1>6. ASSUME NEW h \in Handlers, Neb!WriteTag(h) PROVE Neb!FetchTypeOK'
  BY <1>6 DEF Neb!WriteTag, AnswersPublished, Holding, Unread
<1>7. ASSUME NEW h \in Handlers, Neb!Receive(h) PROVE Neb!FetchTypeOK'
  BY <1>7 DEF Neb!Receive
<1>8. ASSUME NEW h \in Handlers, Neb!OpenCache(h) PROVE Neb!FetchTypeOK'
  BY <1>8 DEF Neb!OpenCache, AnswersPublished, Holding, Unread
<1>9. ASSUME NEW h \in Handlers, Neb!CloseCache(h) PROVE Neb!FetchTypeOK'
  BY <1>9 DEF Neb!CloseCache, Neb!Contents, Neb!Parsed, AnswersPublished, Holding, Unread
<1>10. ASSUME NEW h \in Handlers, Neb!Load(h) PROVE Neb!FetchTypeOK'
  BY <1>10 DEF Neb!Load
<1>11. ASSUME NEW h \in Handlers, Neb!Skip(h) PROVE Neb!FetchTypeOK'
  <2>1. repo[h] \in Neb!Mirrors /\ (repo[h] # NRepos => repo[h] + 1 \in Neb!Mirrors)
    BY DEF Neb!Mirrors
  <2>2. repo' \in [Handlers -> Neb!Mirrors]
    BY <1>11, <2>1 DEF Neb!Skip
  <2>3. fetch' \in [Handlers -> Neb!Labels] /\ writing' = {i \in Handlers : fetch'[i] = "write"}
    BY <1>11 DEF Neb!Skip
  <2> QED
    BY <1>11, <2>2, <2>3 DEF Neb!Skip
<1>12. ASSUME NEW h \in Handlers, Neb!BreakBody(h) PROVE Neb!FetchTypeOK'
  BY <1>12 DEF Neb!BreakBody
<1>18. ASSUME NEW h \in Handlers, Neb!Garble(h) PROVE Neb!FetchTypeOK'
  BY <1>18 DEF Neb!Garble
<1>13. ASSUME NEW h \in Handlers, Neb!DiskFails(h) PROVE Neb!FetchTypeOK'
  BY <1>13 DEF Neb!DiskFails
<1>14. ASSUME NEW h \in Handlers, Neb!Cancel(h) PROVE Neb!FetchTypeOK'
  BY <1>14 DEF Neb!Cancel, Neb!Forget, Neb!Mirrors
<1>15. ASSUME NEW h \in Handlers, Neb!Return(h) PROVE Neb!FetchTypeOK'
  BY <1>15 DEF Neb!Return, Neb!Forget, Neb!Mirrors
<1>16. CASE Neb!Crash
  BY <1>16 DEF Neb!Crash, Neb!Mirrors
<1>17. CASE UNCHANGED fetchVars
  BY <1>17 DEF fetchVars
<1> QED
  BY <1>1, <1>2, <1>3, <1>4, <1>5, <1>6, <1>7, <1>8, <1>9, <1>10, <1>11, <1>12,
     <1>13, <1>14, <1>15, <1>16, <1>17, <1>18 DEF Neb!FetchNext, Neb!Progress, Neb!Fault

(* No step brings a list that no mirror has published into any place. *)
LEMMA ListsPreserved ==
    IInv /\ [Neb!FetchNext]_fetchVars =>
        AnswersPublished' /\ CachePublished' /\ LayersPublished'
<1> DEFINE Listings == AnswersPublished /\ CachePublished /\ LayersPublished
<1> SUFFICES ASSUME Neb!FetchTypeOK, Listings, [Neb!FetchNext]_fetchVars PROVE Listings'
  BY DEF IInv
<1>1. ASSUME NEW r \in Neb!Mirrors, Neb!Publish(r) PROVE Listings'
  <2>1. UNCHANGED <<Neb!files, fetch, body>>
    BY <1>1 DEF Neb!Publish
  <2>2. \A v \in Neb!Versions : Published(v) => Published(v)'
    BY <1>1, PublishedStays
  <2> QED
    BY <2>1, <2>2 DEF AnswersPublished, CachePublished, LayersPublished, Neb!files, Neb!FetchTypeOK
<1>2. ASSUME UNCHANGED served PROVE \A v : Published(v)' <=> Published(v)
  BY <1>2 DEF Published
<1> USE NoVersions DEF AnswersPublished, CachePublished, LayersPublished, Holding, Unread,
                       Neb!FetchTypeOK, Neb!files, Neb!Goto
<1>3. ASSUME NEW h \in Handlers, Neb!Call(h) PROVE Listings'
  BY <1>2, <1>3 DEF Neb!Call
<1>4. ASSUME NEW h \in Handlers, Neb!ReadTag(h) PROVE Listings'
  BY <1>2, <1>4 DEF Neb!ReadTag
<1>5. ASSUME NEW h \in Handlers, Neb!NotModified(h) PROVE Listings'
  BY <1>2, <1>5 DEF Neb!NotModified
<1>6. ASSUME NEW h \in Handlers, Neb!Modified(h) PROVE Listings'
  <2>1. served[repo[h]] \in Neb!Versions /\ Published(served[repo[h]])
    BY DEF Published, Neb!Versions
  <2> QED
    BY <1>2, <1>6, <2>1 DEF Neb!Modified
<1>7. ASSUME NEW h \in Handlers, Neb!WriteTag(h) PROVE Listings'
  BY <1>2, <1>7 DEF Neb!WriteTag
<1>8. ASSUME NEW h \in Handlers, Neb!Receive(h) PROVE Listings'
  BY <1>2, <1>8 DEF Neb!Receive
<1>9. ASSUME NEW h \in Handlers, Neb!OpenCache(h) PROVE Listings'
  BY <1>2, <1>9 DEF Neb!OpenCache
<1>10. ASSUME NEW h \in Handlers, Neb!CloseCache(h) PROVE Listings'
  BY <1>2, <1>10 DEF Neb!CloseCache, Neb!Contents, Neb!Parsed
<1>11. ASSUME NEW h \in Handlers, Neb!Load(h) PROVE Listings'
  BY <1>2, <1>11 DEF Neb!Load
<1>12. ASSUME NEW h \in Handlers, Neb!Skip(h) PROVE Listings'
  BY <1>2, <1>12 DEF Neb!Skip
<1>13. ASSUME NEW h \in Handlers, Neb!BreakBody(h) PROVE Listings'
  BY <1>2, <1>13 DEF Neb!BreakBody
<1>14. ASSUME NEW h \in Handlers, Neb!DiskFails(h) PROVE Listings'
  BY <1>2, <1>14 DEF Neb!DiskFails
<1>15. ASSUME NEW h \in Handlers, Neb!Cancel(h) PROVE Listings'
  BY <1>2, <1>15 DEF Neb!Cancel, Neb!Forget
<1>16. ASSUME NEW h \in Handlers, Neb!Return(h) PROVE Listings'
  BY <1>2, <1>16 DEF Neb!Return, Neb!Forget
<1>19. ASSUME NEW h \in Handlers, Neb!Garble(h) PROVE Listings'
  BY <1>2, <1>19 DEF Neb!Garble
<1>17. CASE Neb!Crash
  BY <1>2, <1>17 DEF Neb!Crash
<1>18. CASE UNCHANGED fetchVars
  BY <1>2, <1>18 DEF fetchVars
<1> QED
  BY <1>1, <1>3, <1>4, <1>5, <1>6, <1>7, <1>8, <1>9, <1>10, <1>11, <1>12,
     <1>13, <1>14, <1>15, <1>16, <1>17, <1>18, <1>19
     DEF Neb!FetchNext, Neb!Progress, Neb!Fault

(* What a request does to the state of the download is a step of FsnFetch. *)
LEMMA StepsOfTheDownload == [Next]_vars => [Neb!FetchNext]_fetchVars
<1> SUFFICES ASSUME Next PROVE [Neb!FetchNext]_fetchVars
  BY DEF vars, fetchVars
<1>1. ASSUME NEW r \in 1 .. NRepos, Publish(r) PROVE Neb!FetchNext
  BY <1>1 DEF Publish, Neb!FetchNext, Neb!Mirrors
<1>2. ASSUME NEW h \in Handlers, Request(h) PROVE Neb!FetchNext \/ UNCHANGED fetchVars
  BY <1>2 DEF Request, Neb!FetchNext
<1>3. ASSUME NEW h \in Handlers, Progress(h) PROVE Neb!FetchNext \/ UNCHANGED fetchVars
  <2>1. CASE Start(h)
    BY <2>1 DEF Start, Neb!FetchNext
  <2>2. CASE Fetch(h)
    BY <2>2 DEF Fetch, Neb!FetchNext
  <2>3. CASE Filter(h) \/ Transact(h)
    BY <2>3 DEF Filter, Transact
  <2>4. CASE Answer(h)
    BY <2>4 DEF Answer, Neb!FetchNext
  <2> QED
    BY <1>3, <2>1, <2>2, <2>3, <2>4 DEF Progress
<1>4. ASSUME NEW h \in Handlers, FetchFault(h) PROVE Neb!FetchNext
  BY <1>4 DEF FetchFault, Neb!FetchNext
<1>5. ASSUME NEW h \in Handlers, Abort(h) PROVE UNCHANGED fetchVars
  BY <1>5 DEF Abort
<1>6. ASSUME NEW c \in Getters \union Putters, AskConfig(c) \/ Configure(c)
      PROVE  UNCHANGED fetchVars
  BY <1>6 DEF AskConfig, Configure
<1>7. CASE Restart
  BY <1>7 DEF Restart, Neb!FetchNext
<1> QED
  BY <1>1, <1>2, <1>3, <1>4, <1>5, <1>6, <1>7 DEF Next

LEMMA IInvHolds == Spec => []IInv
<1>1. Init => IInv
  BY InitEstablishes DEF Init
<1>2. IInv /\ [Next]_vars => IInv'
  BY StepsOfTheDownload, TypesPreserved, ListsPreserved DEF IInv
<1> QED
  BY <1>1, <1>2, PTL DEF Spec

(***************************************************************************)
(* The types of the download hold for any number of requests and mirrors;  *)
(* `writing' is always the set of handlers at the write of mods.json.      *)
(***************************************************************************)
THEOREM FetchTypesAreCorrect == Spec => []Neb!FetchTypeOK
BY IInvHolds, PTL DEF IInv

(***************************************************************************)
(* init returns only a list that some mirror has published, for any number *)
(* of overlapping requests and through every fault: a torn mods.json is    *)
(* never taken for a list.                                                 *)
(***************************************************************************)
THEOREM FetchedListsArePublished == Spec => []FetchedIsPublished
<1>1. IInv => FetchedIsPublished
  BY DEF IInv, AnswersPublished, Published, FetchedIsPublished, Neb!FetchedIsPublished,
         Holding, Unread
<1> QED
  BY IInvHolds, <1>1, PTL
-----------------------------------------------------------------------------
(***************************************************************************)
(* The configuration does not change under an update.  An update that is   *)
(* at work has a guard (GuardsHeld), and who writes has the only one       *)
(* (WritersAlone); the second is so because a release lets in the head of  *)
(* the queue as far as each next one is admitted.                          *)
(***************************************************************************)
GuardsHeld == \A h \in Handlers : fetch[h] # "idle" => h \in holding

WritersAlone == \A c \in holding \intersect Putters : holding = {c}

QueueType == waiting \in Seq(Conf!Clients)

Locked == QueueType /\ WritersAlone /\ GuardsHeld

ConfigStays ==
    (\E h \in Handlers : fetch[h] # "idle" /\ fetch'[h] # "idle") => config' = config

LEMMA HasLeast ==
    ASSUME NEW T \in SUBSET Nat, T # {}
    PROVE  \E n \in T : \A k \in T : ~(k < n)
<1> DEFINE Less == {ss \in Nat \X Nat : ss[1] < ss[2]}
<1>1. IsWellFoundedOn(Less, Nat)
  BY NatLessThanWellFounded DEF OpToRel
<1> HIDE DEF Less
<1>2. PICK n \in T : \A k \in T : <<k, n>> \notin Less
  BY <1>1, WFMin
<1> QED
  BY <1>2 DEF Less

(* LetIn is what it says: the choice is not one from the empty set. *)
LEMMA LetInAdmits ==
    ASSUME QueueType, NEW held
    PROVE  LET n == Conf!LetIn(held)
           IN  /\ n \in 0 .. Len(waiting)
               /\ \A i \in 1 .. n : Conf!Admits(held \union Conf!First(i - 1), waiting[i])
               /\ n = Len(waiting) \/ ~Conf!Admits(held \union Conf!First(n), waiting[n + 1])
<1> DEFINE Stops(n) == \/ n = Len(waiting)
                       \/ ~Conf!Admits(held \union Conf!First(n), waiting[n + 1])
           T == {n \in 0 .. Len(waiting) : Stops(n)}
<1>1. Len(waiting) \in Nat
  BY DEF QueueType
<1>2. Len(waiting) \in T /\ T \in SUBSET Nat
  BY <1>1
<1>3. PICK n \in T : \A k \in T : ~(k < n)
  BY <1>2, HasLeast
<1>4. n \in 0 .. Len(waiting) /\ Stops(n)
  OBVIOUS
<1>5. \A i \in 1 .. n : Conf!Admits(held \union Conf!First(i - 1), waiting[i])
  <2> SUFFICES ASSUME NEW i \in 1 .. n
               PROVE  Conf!Admits(held \union Conf!First(i - 1), waiting[i])
    OBVIOUS
  <2>1. i - 1 \in 0 .. Len(waiting) /\ i - 1 < n /\ (i - 1) + 1 = i
    BY <1>1, <1>4
  <2>2. ~Stops(i - 1)
    BY <1>3, <2>1
  <2> QED
    BY <2>1, <2>2
<1> HIDE DEF T, Stops
<1>6. \E m \in 0 .. Len(waiting) :
          /\ \A i \in 1 .. m : Conf!Admits(held \union Conf!First(i - 1), waiting[i])
          /\ m = Len(waiting) \/ ~Conf!Admits(held \union Conf!First(m), waiting[m + 1])
  BY <1>4, <1>5 DEF Stops
<1> QED
  BY <1>6 DEF Conf!LetIn

LEMMA LeaveKeepsLock ==
    ASSUME QueueType, WritersAlone, NEW c, Conf!Leave(c)
    PROVE  QueueType' /\ WritersAlone' /\ holding \ {c} \subseteq holding'
<1> DEFINE held == holding \ {c}
           n == Conf!LetIn(held)
<1>1. /\ n \in 0 .. Len(waiting) /\ Len(waiting) \in Nat
      /\ \A i \in 1 .. n : Conf!Admits(held \union Conf!First(i - 1), waiting[i])
  <2>1. Len(waiting) \in Nat
    BY DEF QueueType
  <2> QED
    BY <2>1, LetInAdmits
<1>2. /\ holding' = held \union Conf!First(n)
      /\ waiting' = SubSeq(waiting, n + 1, Len(waiting))
  BY DEF Conf!Leave
<1> HIDE DEF n
<1>3. QueueType'
  BY <1>1, <1>2 DEF QueueType
<1>4. CASE n = 0
  <2>1. holding' = held
    BY <1>2, <1>4 DEF Conf!First
  <2> QED
    BY <1>3, <2>1 DEF WritersAlone
<1>5. CASE n # 0
  <2>1. n \in 1 .. n /\ Conf!First(n) = Conf!First(n - 1) \union {waiting[n]}
    BY <1>1, <1>5 DEF Conf!First
  <2>2. holding' = (held \union Conf!First(n - 1)) \union {waiting[n]}
    BY <1>2, <2>1
  <2>3. Conf!Admits(held \union Conf!First(n - 1), waiting[n])
    BY <1>1, <2>1
  <2>4. WritersAlone'
    BY <2>2, <2>3 DEF WritersAlone, Conf!Admits
  <2> QED
    BY <1>3, <2>2, <2>4
<1> QED
  BY <1>1, <1>4, <1>5

LEMMA EnterKeepsLock ==
    ASSUME QueueType, WritersAlone, NEW c \in Conf!Clients, Conf!Enter(c)
    PROVE  QueueType' /\ WritersAlone' /\ holding \subseteq holding'
BY DEF Conf!Enter, Conf!Admits, QueueType, WritersAlone

(* What a download does, it does while it is not idle, and to itself. *)
LEMMA OthersStay ==
    ASSUME Neb!FetchTypeOK, NEW h \in Handlers,
           Neb!Call(h) \/ Neb!Progress(h) \/ Neb!Fault(h) \/ Neb!Return(h)
    PROVE  /\ \A g \in Handlers \ {h} : fetch'[g] = fetch[g] /\ body'[g] = body[g]
           /\ Neb!Progress(h) \/ Neb!Fault(h) => fetch[h] \notin {"idle", "fetched"}
           /\ Neb!Return(h) => fetch[h] \in {"fetched", "failed"}
           /\ Neb!Call(h) => fetch[h] = "idle"
<1> USE DEF Neb!Goto, Neb!FetchTypeOK, Neb!Running, Neb!Labels
<1> DEFINE Others == \A g \in Handlers \ {h} : fetch'[g] = fetch[g] /\ body'[g] = body[g]
           Midway == fetch[h] \notin {"idle", "fetched"}
<1>1. ASSUME Neb!Call(h) PROVE Others /\ fetch[h] = "idle"
  BY <1>1 DEF Neb!Call
<1>2. ASSUME Neb!Progress(h) PROVE Others /\ Midway
  BY <1>2 DEF Neb!Progress, Neb!ReadTag, Neb!NotModified, Neb!Modified, Neb!WriteTag,
              Neb!Receive, Neb!OpenCache, Neb!CloseCache, Neb!Load
<1>3. ASSUME Neb!Fault(h) PROVE Others /\ Midway
  BY <1>3 DEF Neb!Fault, Neb!Skip, Neb!BreakBody, Neb!Garble, Neb!DiskFails, Neb!Cancel,
              Neb!Forget
<1>4. ASSUME Neb!Return(h) PROVE Others /\ fetch[h] \in {"fetched", "failed"}
  BY <1>4 DEF Neb!Return, Neb!Forget
<1> QED
  BY <1>1, <1>2, <1>3, <1>4

(* The guard of h is dropped with its request, or kept. *)
LEMMA EndedKeepsLock ==
    ASSUME Locked, NEW h \in Handlers, Ended(h), fetch[h] # "idle",
           \A g \in Handlers \ {h} : fetch'[g] = fetch[g]
    PROVE  Locked' /\ config' = config
<1>1. CASE fetch'[h] = "idle"
  <2>1. Conf!Leave(h) /\ config' = config
    BY <1>1 DEF Ended
  <2>2. QueueType' /\ WritersAlone' /\ holding \ {h} \subseteq holding'
    BY <2>1, LeaveKeepsLock DEF Locked
  <2> QED
    BY <1>1, <2>1, <2>2 DEF Locked, GuardsHeld
<1>2. CASE fetch'[h] # "idle"
  BY <1>2 DEF Ended, confVars, Locked, GuardsHeld, QueueType, WritersAlone
<1> QED
  BY <1>1, <1>2

LEMMA LockedInit == Init => Locked
BY DEF Init, Neb!FetchInit, Conf!ConfigInit, Locked, QueueType, WritersAlone, GuardsHeld

LEMMA LockedStays ==
    Neb!FetchTypeOK /\ Locked /\ [Next]_vars => Locked' /\ ConfigStays
<1> SUFFICES ASSUME Neb!FetchTypeOK, Locked, [Next]_vars
             PROVE  Locked' /\ ConfigStays
  OBVIOUS
<1> USE DEF Locked
<1>1. ASSUME UNCHANGED confVars, \A h \in Handlers : fetch'[h] # "idle" =>
                                     fetch[h] # "idle" \/ h \in holding
      PROVE  Locked' /\ ConfigStays
  BY <1>1 DEF confVars, QueueType, WritersAlone, GuardsHeld, ConfigStays
<1>2. ASSUME NEW r \in 1 .. NRepos, Publish(r) PROVE Locked' /\ ConfigStays
  BY <1>1, <1>2 DEF Publish, Neb!Publish
<1>3. ASSUME NEW h \in Handlers, Request(h) PROVE Locked' /\ ConfigStays
  <2>1. Conf!Enter(h) /\ h \in Conf!Clients /\ config' = config
    BY <1>3 DEF Request, Conf!Clients
  <2>2. QueueType' /\ WritersAlone' /\ holding \subseteq holding'
    BY <2>1, EnterKeepsLock
  <2>3. CASE h \in holding'
    BY <1>3, <2>1, <2>2, <2>3, OthersStay DEF Request, GuardsHeld, ConfigStays
  <2>4. CASE h \notin holding'
    BY <1>3, <2>1, <2>2, <2>4 DEF Request, fetchVars, GuardsHeld, ConfigStays
  <2> QED
    BY <2>3, <2>4
<1>4. ASSUME NEW h \in Handlers, Progress(h) PROVE Locked' /\ ConfigStays
  <2>1. CASE Start(h)
    BY <1>1, <2>1, OthersStay DEF Start
  <2>2. CASE Fetch(h)
    BY <1>1, <2>2, OthersStay DEF Fetch
  <2>3. CASE Filter(h) \/ Transact(h)
    BY <1>1, <2>3 DEF Filter, Transact, fetchVars
  <2>4. CASE Answer(h)
    BY <2>4, OthersStay, EndedKeepsLock DEF Answer, ConfigStays
  <2> QED
    BY <1>4, <2>1, <2>2, <2>3, <2>4 DEF Progress
<1>5. ASSUME NEW h \in Handlers, FetchFault(h) PROVE Locked' /\ ConfigStays
  BY <1>5, OthersStay, EndedKeepsLock DEF FetchFault, ConfigStays
<1>6. ASSUME NEW h \in Handlers, Abort(h) PROVE Locked' /\ ConfigStays
  BY <1>1, <1>6 DEF Abort, fetchVars
<1>7. ASSUME NEW c \in Getters \union Putters, AskConfig(c) PROVE Locked' /\ ConfigStays
  <2>1. Conf!Enter(c) /\ c \in Conf!Clients /\ config' = config /\ UNCHANGED fetchVars
    BY <1>7 DEF AskConfig, Conf!AskConfig, Conf!Clients
  <2>2. QueueType' /\ WritersAlone' /\ holding \subseteq holding'
    BY <2>1, EnterKeepsLock
  <2> QED
    BY <2>1, <2>2 DEF fetchVars, GuardsHeld, ConfigStays
<1>8. ASSUME NEW c \in Getters \union Putters, Configure(c) PROVE Locked' /\ ConfigStays
  <2>1. Conf!Leave(c) /\ UNCHANGED fetchVars /\ c \notin Handlers /\ c \in holding
    BY <1>8, ConfigAssumption DEF Configure, Conf!GetConfig, Conf!PutConfig, Conf!ConfigConstants
  <2>2. QueueType' /\ WritersAlone' /\ holding \ {c} \subseteq holding'
    BY <2>1, LeaveKeepsLock
  <2>3. Locked'
    BY <2>1, <2>2 DEF fetchVars, GuardsHeld
  <2>4. ConfigStays
    <3>1. CASE Conf!GetConfig(c)
      BY <3>1 DEF Conf!GetConfig, ConfigStays
    <3>2. CASE Conf!PutConfig(c)
      BY <2>1, <3>2 DEF Conf!PutConfig, WritersAlone, GuardsHeld, ConfigStays
    <3> QED
      BY <1>8, <3>1, <3>2 DEF Configure
  <2> QED
    BY <2>3, <2>4
<1>9. CASE Restart
  BY <1>9 DEF Restart, Neb!Crash, Conf!ConfigRestart, QueueType, WritersAlone, GuardsHeld,
              ConfigStays
<1>10. CASE UNCHANGED vars
  BY <1>1, <1>10 DEF vars, fetchVars
<1> QED
  BY <1>2, <1>3, <1>4, <1>5, <1>6, <1>7, <1>8, <1>9, <1>10 DEF Next

(***************************************************************************)
(* For any updates, and any clients of get_config and put_config: no step  *)
(* of anyone changes the configuration under an update.                    *)
(***************************************************************************)
THEOREM UpdatesKeepTheirConfig == Spec => ConfigUnchangedDuringUpdate
<1>1. Neb!FetchTypeOK /\ Locked /\ [Next]_vars => ConfigStays /\ Locked'
  BY LockedStays
<1>2. ConfigStays => [(\E h \in Handlers : fetch[h] # "idle" /\ fetch'[h] # "idle")
                         => config' = config]_vars
  BY DEF ConfigStays
<1> QED
  BY <1>1, <1>2, LockedInit, FetchTypesAreCorrect, PTL
     DEF Spec, ConfigUnchangedDuringUpdate
-----------------------------------------------------------------------------
DbP == INSTANCE FsnDbStoreProof

(* FsnDbProof has definitions of FsnDb of its own: they are the same. *)
LEMMA SameCardinality == \A S : Db!Cardinality(S) = DbP!Cardinality(S)
BY DEF Db!Cardinality, DbP!Cardinality, Db!IsFiniteSet, DbP!IsFiniteSet

LEMMA SameRank == \A S, k : Db!Rank(S, k) = DbP!Rank(S, k)
BY SameCardinality DEF Db!Rank, DbP!Rank

LEMMA SameRowId == \A seq, N, k : Db!RowId(seq, N, k) = DbP!RowId(seq, N, k)
BY SameRank DEF Db!RowId, DbP!RowId

LEMMA SameKey == \A m : Db!Key(m) = DbP!Key(m)
BY DEF Db!Key, DbP!Key

LEMMA SameKeys == \A d : Db!KeysOf(d) = DbP!KeysOf(d)
BY DEF Db!KeysOf, DbP!KeysOf

LEMMA SameInserted ==
    ASSUME NEW L, NEW N, NEW known
    PROVE  Db!Inserted(L, N, known) = DbP!Inserted(L, N, known)
BY SameKey DEF Db!Inserted, DbP!Inserted

LEMMA SameZip == ASSUME NEW h PROVE Db!ZippedBy(h) = DbP!ZippedBy(h)
<1>1. ASSUME NEW L, NEW N, NEW known, NEW seq
      PROVE  Db!Zipped(L, N, known, seq) = DbP!Zipped(L, N, known, seq)
  BY SameInserted, SameRowId, SameRank DEF Db!Zipped, DbP!Zipped
<1> QED
  BY <1>1, SameKeys DEF Db!ZippedBy, DbP!ZippedBy

LEMMA SameReleases ==
    ASSUME NEW d, NEW L, NEW N, NEW zipped
    PROVE  Db!AddReleases(d, L, N, zipped) = DbP!AddReleases(d, L, N, zipped)
<1>1. Db!Cardinality(N) = DbP!Cardinality(N)
  BY SameCardinality
<1>2. {<<Db!RowId(d.relSeq, N, k), Db!Key(L[k])>> : k \in Db!Inserted(L, N, Db!KeysOf(d))}
        = {<<DbP!RowId(d.relSeq, N, k), DbP!Key(L[k])>> :
             k \in DbP!Inserted(L, N, DbP!KeysOf(d))}
  BY SameInserted, SameKeys, SameRowId, SameKey
<1> QED
  BY <1>1, <1>2 DEF Db!AddReleases, DbP!AddReleases

LEMMA SamePackages ==
    ASSUME NEW d, NEW L, NEW zipped
    PROVE  Db!AddPackages(d, L, zipped) = DbP!AddPackages(d, L, zipped)
<1>1. Db!Slots(L, zipped) = DbP!Slots(L, zipped)
  BY DEF Db!Slots, DbP!Slots
<1>2. \A S : Db!Cardinality(S) = DbP!Cardinality(S)
  BY SameCardinality
<1>3. \A s, t : Db!NotAfter(s, t) <=> DbP!NotAfter(s, t)
  BY DEF Db!NotAfter, DbP!NotAfter
<1>4. \A s : Db!Package(L, s) = DbP!Package(L, s)
  BY DEF Db!Package, DbP!Package
<1> DEFINE slots == Db!Slots(L, zipped)
           id(s) == d.pakSeq + Db!Cardinality({t \in slots : Db!NotAfter(t, s)})
           idP(s) == d.pakSeq + DbP!Cardinality({t \in slots : DbP!NotAfter(t, s)})
<1>5. \A s : {t \in slots : Db!NotAfter(t, s)} = {t \in slots : DbP!NotAfter(t, s)}
  BY <1>3
<1>6. \A s : id(s) = idP(s)
  BY <1>2, <1>5
<1> HIDE DEF id, idP, slots
<1>7. {<<id(s), s[1][1], Db!Package(L, s)>> : s \in slots}
        = {<<idP(s), s[1][1], DbP!Package(L, s)>> : s \in slots}
  BY <1>4, <1>6
<1> QED
  BY <1>1, <1>2, <1>7 DEF Db!AddPackages, DbP!AddPackages, id, idP, slots

LEMMA SameTransact ==
    ASSUME NEW h PROVE Db!Transact(h) <=> DbP!Transact(h)
<1>1. Db!WriteNames(h) <=> DbP!WriteNames(h)
  BY DEF Db!WriteNames, DbP!WriteNames, Db!Enter, DbP!Enter
<1>2. Db!Busy(h) <=> DbP!Busy(h)
  BY DEF Db!Busy, DbP!Busy, Db!Rollback, DbP!Rollback, Db!Close, DbP!Close,
         Db!Enter, DbP!Enter, Db!EmptyDb, DbP!EmptyDb
<1>3. Db!WriteReleases(h) <=> DbP!WriteReleases(h)
  BY SameZip, SameReleases DEF Db!WriteReleases, DbP!WriteReleases, Db!Enter,
         DbP!Enter, Db!NoStability, DbP!NoStability
<1>4. Db!BuildPanics(h) <=> DbP!BuildPanics(h)
  BY SameZip DEF Db!BuildPanics, DbP!BuildPanics, Db!Rollback, DbP!Rollback,
         Db!Close, DbP!Close, Db!Enter, DbP!Enter, Db!EmptyDb, DbP!EmptyDb,
         Db!NoStability, DbP!NoStability
<1>5. Db!WritePackages(h) <=> DbP!WritePackages(h)
  BY SamePackages DEF Db!WritePackages, DbP!WritePackages, Db!Enter, DbP!Enter
<1>6. Db!WriteFiles(h) <=> DbP!WriteFiles(h)
  BY DEF Db!WriteFiles, DbP!WriteFiles, Db!Enter, DbP!Enter, Db!AddFiles,
         DbP!AddFiles, Db!Slots, DbP!Slots, Db!Package, DbP!Package,
         Db!FileRows, DbP!FileRows, Db!FilesRejected, DbP!FilesRejected,
         Db!UnknownArchive, DbP!UnknownArchive, Db!Archives, DbP!Archives,
         Db!EntriesOf, DbP!EntriesOf
<1>7. Db!FilesFail(h) <=> DbP!FilesFail(h)
  BY DEF Db!FilesFail, DbP!FilesFail, Db!Rollback, DbP!Rollback, Db!Close,
         DbP!Close, Db!Enter, DbP!Enter, Db!EmptyDb, DbP!EmptyDb, Db!Slots,
         DbP!Slots, Db!Package, DbP!Package, Db!FileRows, DbP!FileRows,
         Db!FilesRejected, DbP!FilesRejected, Db!UnknownArchive,
         DbP!UnknownArchive
<1>8. Db!Commit(h) <=> DbP!Commit(h)
  BY DEF Db!Commit, DbP!Commit, Db!Close, DbP!Close, Db!Enter, DbP!Enter,
         Db!EmptyDb, DbP!EmptyDb, Db!Open, DbP!Open
<1> QED
  BY <1>1, <1>2, <1>3, <1>4, <1>5, <1>6, <1>7, <1>8 DEF Db!Transact, DbP!Transact

LEMMA SameOthers ==
    ASSUME NEW h
    PROVE  /\ \A L : Db!ReadReleases(h, L) <=> DbP!ReadReleases(h, L)
           /\ Db!Abort(h) <=> DbP!Abort(h)
           /\ Db!Reply(h) <=> DbP!Reply(h)
<1>1. ASSUME NEW L PROVE Db!ReadReleases(h, L) <=> DbP!ReadReleases(h, L)
  BY DEF Db!ReadReleases, DbP!ReadReleases, Db!Enter, DbP!Enter, Db!Fresh,
         DbP!Fresh, Db!KeysOf, DbP!KeysOf, Db!Key, DbP!Key
<1>2. Db!Abort(h) <=> DbP!Abort(h)
  BY DEF Db!Abort, DbP!Abort, Db!Open, DbP!Open, Db!Rollback, DbP!Rollback,
         Db!Close, DbP!Close, Db!Enter, DbP!Enter, Db!EmptyDb, DbP!EmptyDb
<1>3. Db!Reply(h) <=> DbP!Reply(h)
  BY DEF Db!Reply, DbP!Reply, Db!Enter, DbP!Enter
<1> QED
  BY <1>1, <1>2, <1>3

LEMMA SameEnds == (Db!DbInit <=> DbP!DbInit) /\ (Db!DbCrash <=> DbP!DbCrash)
BY DEF Db!DbInit, DbP!DbInit, Db!DbCrash, DbP!DbCrash, Db!EmptyDb, DbP!EmptyDb

(* What a request does to the tables is a step of FsnDb. *)
LEMMA StepsOfTheDb ==
    IInv /\ [Next]_vars => [DbP!DbNext]_dbVars
<1> SUFFICES ASSUME IInv, Next PROVE DbP!DbNext \/ UNCHANGED dbVars
  BY DEF vars, dbVars
<1>1. ASSUME NEW r \in 1 .. NRepos, Publish(r) PROVE UNCHANGED dbVars
  BY <1>1 DEF Publish
<1>2. ASSUME NEW h \in Handlers, Request(h) PROVE UNCHANGED dbVars
  BY <1>2 DEF Request
<1>3. ASSUME NEW h \in Handlers, Progress(h) PROVE DbP!DbNext \/ UNCHANGED dbVars
  <2>1. CASE Start(h) \/ Fetch(h)
    BY <2>1 DEF Start, Fetch
  <2>2. CASE Filter(h)
    <3>1. body[h] \in DOMAIN Lists
      BY <2>2, ListPerVersion DEF Filter, IInv, AnswersPublished, Holding, Unread, Neb!Versions
    <3>2. Lists[body[h]] \in RepoLists
      BY <3>1 DEF RepoLists
    <3> QED
      BY <2>2, <3>2, SameOthers DEF Filter, DbP!DbNext
  <2>3. CASE Transact(h)
    BY <2>3, SameTransact DEF Transact, DbP!DbNext
  <2>4. CASE Answer(h)
    BY <2>4, SameOthers DEF Answer, DbP!DbNext
  <2> QED
    BY <1>3, <2>1, <2>2, <2>3, <2>4 DEF Progress
<1>4. ASSUME NEW h \in Handlers, FetchFault(h) PROVE UNCHANGED dbVars
  BY <1>4 DEF FetchFault
<1>5. ASSUME NEW h \in Handlers, Abort(h) PROVE DbP!DbNext
  BY <1>5, SameOthers DEF Abort, DbP!DbNext
<1>6. ASSUME NEW c \in Getters \union Putters, AskConfig(c) \/ Configure(c)
      PROVE  UNCHANGED dbVars
  BY <1>6 DEF AskConfig, Configure
<1>7. CASE Restart
  BY <1>7, SameEnds DEF Restart, DbP!DbNext
<1> QED
  BY <1>1, <1>2, <1>3, <1>4, <1>5, <1>6, <1>7 DEF Next
-----------------------------------------------------------------------------
(* A mod of a list that some mirror has published. *)
Offered(m) ==
    \E v \in Neb!Versions : Published(v) /\ \E k \in DOMAIN Lists[v] : m = Lists[v][k]

ListsOffered ==
    \A h \in Handlers : stage[h] \in Db!Open =>
        \E v \in Neb!Versions : Published(v) /\ list[h] = Lists[v]

RowsOffered == \A d \in db.details : Offered(d[2])

StoredInv == IInv /\ DbP!DbInv /\ ListsOffered /\ RowsOffered

(* Nothing a mirror has published is taken back. *)
LEMMA PublishedKept ==
    ASSUME IInv, [Next]_vars, NEW v \in Neb!Versions, Published(v)
    PROVE  Published(v)'
<1>1. CASE UNCHANGED served
  BY <1>1 DEF Published
<1>2. ASSUME NEW r \in Neb!Mirrors, Neb!Publish(r) PROVE Published(v)'
  BY <1>2, PublishedStays DEF IInv
<1>3. (\E r \in Neb!Mirrors : Neb!Publish(r)) \/ UNCHANGED served
  <2>1. [Neb!FetchNext]_fetchVars
    BY StepsOfTheDownload
  <2> QED
    BY <2>1 DEF Neb!FetchNext, fetchVars, Neb!Call, Neb!Progress, Neb!ReadTag,
       Neb!NotModified, Neb!Modified, Neb!WriteTag, Neb!Receive, Neb!OpenCache,
       Neb!CloseCache, Neb!Load, Neb!Fault, Neb!Skip, Neb!BreakBody, Neb!Garble,
       Neb!DiskFails, Neb!Cancel, Neb!Return, Neb!Crash
<1> QED
  BY <1>1, <1>2, <1>3

(* A transaction keeps its list; only the filter gives it one. *)
LEMMA ListsKept ==
    ASSUME DbP!Shape, [DbP!DbNext]_dbVars, NEW g \in Handlers, stage'[g] \in Db!Open
    PROVE  \/ stage[g] \in Db!Open /\ list'[g] = list[g]
           \/ \E L \in RepoLists : DbP!ReadReleases(g, L)
<1> USE DEF DbP!Shape, DbP!PerHandler, DbP!Stages, Db!Open, DbP!Enter
<1> DEFINE Kept == stage[g] \in Db!Open /\ list'[g] = list[g]
<1>1. ASSUME NEW h \in Handlers, NEW L \in RepoLists, DbP!ReadReleases(h, L)
      PROVE  Kept \/ DbP!ReadReleases(g, L)
  BY <1>1 DEF DbP!ReadReleases
<1>2. ASSUME NEW h \in Handlers, DbP!Rollback(h) PROVE Kept
  BY <1>2 DEF DbP!Rollback, DbP!Close
<1>3. ASSUME NEW h \in Handlers, DbP!WriteNames(h) PROVE Kept
  BY <1>3 DEF DbP!WriteNames
<1>4. ASSUME NEW h \in Handlers, DbP!WriteReleases(h) PROVE Kept
  BY <1>4 DEF DbP!WriteReleases
<1>5. ASSUME NEW h \in Handlers, DbP!WritePackages(h) PROVE Kept
  BY <1>5 DEF DbP!WritePackages
<1>6. ASSUME NEW h \in Handlers, DbP!WriteFiles(h) PROVE Kept
  BY <1>6 DEF DbP!WriteFiles
<1>7. ASSUME NEW h \in Handlers, DbP!Commit(h) PROVE Kept
  BY <1>7 DEF DbP!Commit, DbP!Close
<1>8. ASSUME NEW h \in Handlers, DbP!Reply(h) PROVE Kept
  BY <1>8 DEF DbP!Reply
<1>9. ~DbP!DbCrash
  BY DEF DbP!DbCrash
<1>10. CASE UNCHANGED dbVars
  BY <1>10 DEF dbVars
<1> QED
  BY <1>1, <1>2, <1>3, <1>4, <1>5, <1>6, <1>7, <1>8, <1>9, <1>10
  DEF DbP!DbNext, DbP!Transact, DbP!Busy, DbP!BuildPanics, DbP!FilesFail, DbP!Abort

(* What FsnDb assumes of its constants. *)
LEMMA DbConstants ==
    /\ None \notin Handlers
    /\ RepoLists \subseteq Seq(Mods)
    /\ \A m \in Mods : Len(m.packs) \in Nat /\ DOMAIN m.packs = 1 .. Len(m.packs)
BY ListPerVersion, DbAssumption DEF RepoLists

(* The tables keep what FsnDbProof proves of them. *)
LEMMA DbInvKept ==
    ASSUME DbP!DuplicateFreeLists
    PROVE  /\ Init => DbP!DbInv
           /\ IInv /\ DbP!DbInv /\ [Next]_vars => DbP!DbInv'
<1>1. Init => DbP!DbInit
  BY SameEnds DEF Init
<1>2. DbP!DbInit => DbP!DbInv
  BY DbConstants, DbP!ShapeInit, DbP!ControlInit, DbP!ViewInit, DbP!TablesInit
     DEF DbP!DbInv
<1>3. DbP!DbInv /\ [DbP!DbNext]_dbVars => DbP!DbInv'
  BY DbConstants, DbP!ShapeStep, DbP!ControlStep, DbP!ViewStep, DbP!TablesStep
  DEF DbP!DbInv, DbP!dbVars, dbVars
<1> QED
  BY <1>1, <1>2, <1>3, StepsOfTheDb

(* The only step that gives a transaction its list is the filter. *)
LEMMA FilterReads ==
    ASSUME DbP!DbInv, [Next]_vars, NEW g \in Handlers, NEW L \in RepoLists,
           DbP!ReadReleases(g, L)
    PROVE  Filter(g)
<1> USE DEF DbP!DbInv, DbP!Shape, DbP!PerHandler, DbP!Stages
<1>1. stage[g] = "idle" /\ stage'[g] = "filtered"
  BY DEF DbP!ReadReleases, DbP!Enter
<1>2. ASSUME NEW h \in Handlers, h # g \/ ~Filter(h), Progress(h) PROVE FALSE
  <2>1. CASE Filter(h)
    BY <1>1, <1>2, <2>1 DEF Filter, Db!ReadReleases, Db!Enter
  <2>2. CASE Transact(h)
    BY <1>1, <2>2 DEF Transact, Db!Transact, Db!WriteNames, Db!Busy, Db!WriteReleases,
       Db!BuildPanics, Db!WritePackages, Db!WriteFiles, Db!FilesFail, Db!Commit,
       Db!Rollback, Db!Close, Db!Enter
  <2>3. CASE Answer(h)
    BY <1>1, <2>3 DEF Answer, Db!Reply, Db!Enter, dbVars
  <2>4. CASE Start(h) \/ Fetch(h)
    BY <1>1, <2>4 DEF Start, Fetch, dbVars
  <2> QED
    BY <1>2, <2>1, <2>2, <2>3, <2>4 DEF Progress
<1>3. ASSUME NEW h \in Handlers, Request(h) \/ FetchFault(h) \/ Abort(h) PROVE FALSE
  BY <1>1, <1>3 DEF Request, FetchFault, Abort, Db!Abort, Db!Open, Db!Rollback,
     Db!Close, Db!Enter, dbVars
<1>4. ASSUME NEW r \in 1 .. NRepos, Publish(r) PROVE FALSE
  BY <1>1, <1>4 DEF Publish, dbVars
<1>5. ASSUME NEW c \in Getters \union Putters, AskConfig(c) \/ Configure(c) PROVE FALSE
  BY <1>1, <1>5 DEF AskConfig, Configure, dbVars
<1>6. ~Restart
  BY <1>1 DEF Restart, Db!DbCrash
<1>7. ~UNCHANGED vars
  BY <1>1 DEF vars, dbVars
<1> QED
  BY <1>2, <1>3, <1>4, <1>5, <1>6, <1>7 DEF Next

LEMMA ListsOfferedStep ==
    StoredInv /\ [Next]_vars => ListsOffered'
<1> SUFFICES ASSUME StoredInv, [Next]_vars, NEW g \in Handlers, stage'[g] \in Db!Open
             PROVE  \E v \in Neb!Versions : Published(v)' /\ list'[g] = Lists[v]
  BY DEF ListsOffered
<1>1. CASE stage[g] \in Db!Open /\ list'[g] = list[g]
  <2>1. PICK v \in Neb!Versions : Published(v) /\ list[g] = Lists[v]
    BY <1>1 DEF StoredInv, ListsOffered
  <2> QED
    BY <1>1, <2>1, PublishedKept DEF StoredInv
<1>2. ASSUME NEW L \in RepoLists, DbP!ReadReleases(g, L)
      PROVE  \E v \in Neb!Versions : Published(v)' /\ list'[g] = Lists[v]
  <2>1. Filter(g)
    BY <1>2, FilterReads DEF StoredInv
  <2>2. body[g] \in Neb!Versions /\ Published(body[g])
    BY <2>1 DEF Filter, StoredInv, IInv, AnswersPublished, Holding, Unread
  <2>3. list'[g] = Lists[body[g]]
    BY <2>1 DEF Filter, Db!ReadReleases, StoredInv, DbP!DbInv, DbP!Shape, DbP!PerHandler
  <2> QED
    BY <2>2, <2>3, PublishedKept DEF StoredInv
<1> QED
  BY <1>1, <1>2, ListsKept, StepsOfTheDb DEF StoredInv, DbP!DbInv

(* What a commit adds is of the list of its transaction. *)
LEMMA RowsOfferedStep ==
    StoredInv /\ [Next]_vars => RowsOffered'
<1> SUFFICES ASSUME StoredInv, [Next]_vars, NEW d \in db'.details PROVE Offered(d[2])'
  BY DEF RowsOffered
<1>1. \A m : Offered(m) => Offered(m)'
  BY PublishedKept DEF Offered, StoredInv
<1>2. CASE d \in db.details
  BY <1>1, <1>2 DEF StoredInv, RowsOffered
<1>3. CASE d \notin db.details
  <2>1. PICK h \in Handlers : DbP!Commit(h)
    BY <1>3, DbConstants, DbP!OnlyCommitWrites, StepsOfTheDb
    DEF StoredInv, dbVars, DbP!dbVars
  <2>2. /\ list[h] \in RepoLists
        /\ fresh[h] = DbP!Fresh(list[h], DbP!KeysOf(db))
        /\ db'.details = db.details \union DbP!NewDetails(db, list[h], fresh[h])
    BY <2>1, DbConstants, DbP!Committed DEF StoredInv, DbP!DbInv
  <2>3. PICK k \in fresh[h] : d[2] = list[h][k]
    BY <1>3, <2>2 DEF DbP!NewDetails
  <2>4. k \in DOMAIN list[h]
    BY <2>2, <2>3 DEF DbP!Fresh
  <2>5. stage[h] \in Db!Open
    BY <2>1 DEF DbP!Commit, Db!Open
  <2>6. Offered(d[2])
    BY <2>3, <2>4, <2>5 DEF StoredInv, ListsOffered, Offered
  <2> QED
    BY <1>1, <2>6
<1> QED
  BY <1>2, <1>3

LEMMA StoredInvHolds == ASSUME DbP!DuplicateFreeLists PROVE Spec => []StoredInv
<1>1. Init => StoredInv
  <2>1. Init => IInv /\ DbP!DbInv
    BY InitEstablishes, DbInvKept DEF Init
  <2>2. Init => ListsOffered /\ RowsOffered
    BY DEF Init, Db!DbInit, ListsOffered, RowsOffered, Db!Open, Db!EmptyDb
  <2> QED
    BY <2>1, <2>2 DEF StoredInv
<1>2. StoredInv /\ [Next]_vars => StoredInv'
  <2>1. IInv /\ [Next]_vars => IInv'
    BY StepsOfTheDownload, TypesPreserved, ListsPreserved DEF IInv
  <2> QED
    BY <2>1, DbInvKept, ListsOfferedStep, RowsOfferedStep DEF StoredInv
<1> QED
  BY <1>1, <1>2, PTL DEF Spec

(***************************************************************************)
(* The database holds only mods of lists that some mirror has published,   *)
(* each under the release it came with, for any number of requests that    *)
(* overlap, fail, are cancelled or die, if no list publishes a key twice.  *)
(***************************************************************************)
THEOREM StoredListsWerePublished ==
    ASSUME DbP!DuplicateFreeLists PROVE Spec => []StoredWasPublished
<1>1. StoredInv => StoredWasPublished
  BY SameKey DEF StoredInv, DbP!DbInv, DbP!RowsBelongToRelease, RowsOffered,
     Offered, Published, Neb!Versions, Neb!Mirrors, StoredWasPublished
<1> QED
  BY <1>1, StoredInvHolds, PTL
-----------------------------------------------------------------------------
(***************************************************************************)
(* Put together under the requests, the configuration and the restarts of  *)
(* the service, the download and the transaction still behave as they do   *)
(* alone: nothing an update composes, in whatever order, lets either take  *)
(* a step init or commit_mods would not.                                   *)
(***************************************************************************)
THEOREM UpdateImplementsItsParts == Spec => Neb!FetchSpec /\ Db!DbSpec
<1>1. Init => Neb!FetchInit /\ Db!DbInit
  BY DEF Init
<1>2. IInv /\ [Next]_vars => [Neb!FetchNext]_fetchVars /\ [Db!DbNext]_(Db!dbVars)
  <2>1. DbP!DbNext => Db!DbNext
    BY SameTransact, SameOthers, SameEnds DEF Db!DbNext, DbP!DbNext
  <2> QED
    BY <2>1, StepsOfTheDownload, StepsOfTheDb DEF Db!dbVars, dbVars
<1> QED
  BY <1>1, <1>2, IInvHolds, PTL DEF Spec, Neb!FetchSpec, Db!DbSpec, Neb!fetchVars, fetchVars

(***************************************************************************)
(* The whole service promises the catalogue: whatever the mirrors publish, *)
(* and however requests overlap, fail, are cancelled or die, the mods it   *)
(* knows change only by whole lists, if no list publishes a key twice.     *)
(***************************************************************************)
THEOREM UpdatesGrowTheCatalogue ==
    ASSUME DbP!DuplicateFreeLists PROVE Spec => Db!RefinesCatalogue
<1>1. Init => Db!Catalogue!CatalogueInit
  BY DEF Init, Db!DbInit, Db!EmptyDb, Db!Catalogue!CatalogueInit
<1>2. StoredInv /\ [Next]_vars =>
        [Db!Catalogue!CatalogueNext]_({d[2] : d \in db.details})
  <2> SUFFICES ASSUME StoredInv, [Next]_vars
               PROVE  [Db!Catalogue!CatalogueNext]_({d[2] : d \in db.details})
    OBVIOUS
  <2>1. [DbP!Catalogue!CatalogueNext]_({d[2] : d \in db.details})
    BY StepsOfTheDb, DbConstants, DbP!CatalogueStep DEF StoredInv, dbVars, DbP!dbVars
  <2> QED
    BY <2>1 DEF Db!Catalogue!CatalogueNext, DbP!Catalogue!CatalogueNext,
       Db!Catalogue!Ingest, DbP!Catalogue!Ingest, Db!Catalogue!Unknown,
       DbP!Catalogue!Unknown, Db!Catalogue!Listed, DbP!Catalogue!Listed,
       Db!Catalogue!Keys, DbP!Catalogue!Keys, Db!Catalogue!Key, DbP!Catalogue!Key
<1> QED
  BY <1>1, <1>2, StoredInvHolds, PTL DEF Spec, Db!RefinesCatalogue,
     Db!Catalogue!CatalogueSpec

(* In the words of FsnDbProof: the service is an implementation of FsnDb. *)
LEMMA UpdateImplementsDb == Spec => DbP!DbSpec
<1>1. Init => DbP!DbInit
  BY SameEnds DEF Init
<1>2. IInv /\ [Next]_vars => [DbP!DbNext]_(DbP!dbVars)
  BY StepsOfTheDb DEF dbVars, DbP!dbVars
<1> QED
  BY <1>1, <1>2, IInvHolds, PTL DEF Spec, DbP!DbSpec

(***************************************************************************)
(* In the service, whatever the lists: what a committed package lists can  *)
(* be traced, and fetched where its archive has a url, and no request,     *)
(* fault or restart loses a committed row.                                 *)
(***************************************************************************)
THEOREM UpdatesKeepTheTables ==
    Spec => []Db!OfferedFilesAreFetchable /\ Db!NothingIsLost
<1>1. DbP!DbSpec => []DbP!OfferedFilesAreFetchable
  BY DbConstants, DbP!OfferedFilesHaveSources
<1>2. DbP!DbSpec => DbP!NothingIsLost
  BY DbConstants, DbP!CommittedIsKept
<1>3. DbP!OfferedFilesAreFetchable => Db!OfferedFilesAreFetchable
  BY DEF DbP!OfferedFilesAreFetchable, Db!OfferedFilesAreFetchable
<1>4. DbP!NothingIsLost => Db!NothingIsLost
  BY PTL DEF DbP!NothingIsLost, Db!NothingIsLost
<1> QED
  BY <1>1, <1>2, <1>3, <1>4, UpdateImplementsDb, PTL

(***************************************************************************)
(* In the service, if no list publishes a key twice, a committed release   *)
(* keeps its details and each of its packages exactly once.                *)
(***************************************************************************)
THEOREM UpdatesKeepReleasesWhole ==
    ASSUME DbP!DuplicateFreeLists PROVE Spec => []Db!ReleasesAreWhole
<1>1. DbP!DbSpec => []DbP!ReleasesAreWhole
  BY DbConstants, DbP!CommittedIsWhole
<1>2. DbP!ReleasesAreWhole => Db!ReleasesAreWhole
  BY SameCardinality DEF DbP!ReleasesAreWhole, Db!ReleasesAreWhole
<1> QED
  BY <1>1, <1>2, UpdateImplementsDb, PTL
-----------------------------------------------------------------------------
(***************************************************************************)
(* Types of the whole request.  The head of the queue of the lock waits    *)
(* for a reason, as LetIn stops only at one that is not admitted; and a    *)
(* transaction is open only under a download that has returned its list.   *)
(***************************************************************************)
HeadWaits == waiting # <<>> => ~Conf!Admits(holding, Head(waiting))

LockTypes ==
    /\ config \in 0 .. MaxConfig /\ saved = 0
    /\ holding \subseteq Conf!Clients
    /\ HeadWaits

ListIsFetched ==
    \A h \in Handlers : stage[h] # "idle" =>
        fetch[h] = "fetched" /\ list[h] = Lists[body[h]]

RequestInv == IInv /\ Locked /\ LockTypes /\ DbP!TypeInv /\ ListIsFetched

LEMMA LeaveKeepsQueue ==
    ASSUME QueueType, holding \subseteq Conf!Clients, NEW c, Conf!Leave(c)
    PROVE  holding' \subseteq Conf!Clients /\ HeadWaits'
<1> DEFINE held == holding \ {c}
           n == Conf!LetIn(held)
<1>1. /\ n \in 0 .. Len(waiting) /\ Len(waiting) \in Nat
      /\ n = Len(waiting) \/ ~Conf!Admits(held \union Conf!First(n), waiting[n + 1])
  <2>1. Len(waiting) \in Nat
    BY DEF QueueType
  <2> QED
    BY <2>1, LetInAdmits
<1>2. /\ holding' = held \union Conf!First(n)
      /\ waiting' = SubSeq(waiting, n + 1, Len(waiting))
  BY DEF Conf!Leave
<1> HIDE DEF n
<1>3. \A i \in 1 .. n : waiting[i] \in Conf!Clients
  BY <1>1 DEF QueueType
<1>4. holding' \subseteq Conf!Clients
  BY <1>2, <1>3 DEF Conf!First
<1>5. ASSUME waiting' # <<>> PROVE n # Len(waiting) /\ Head(waiting') = waiting[n + 1]
  <2>1. n # Len(waiting)
    BY <1>1, <1>2, <1>5 DEF QueueType
  <2> QED
    BY <1>1, <1>2, <2>1 DEF QueueType
<1>6. ASSUME waiting' # <<>> PROVE ~Conf!Admits(holding', Head(waiting'))
  BY <1>1, <1>2, <1>5, <1>6
<1> QED
  BY <1>4, <1>6 DEF HeadWaits, Conf!Admits

LEMMA EnterKeepsQueue ==
    ASSUME QueueType, holding \subseteq Conf!Clients, HeadWaits,
           NEW c \in Conf!Clients, Conf!Enter(c)
    PROVE  holding' \subseteq Conf!Clients /\ HeadWaits'
<1>1. CASE waiting = <<>> /\ Conf!Admits(holding, c)
  BY <1>1 DEF Conf!Enter, Conf!GoesFirst, HeadWaits
<1>2. CASE waiting = <<>> /\ ~Conf!Admits(holding, c)
  <2>1. holding' = holding /\ Head(waiting') = c
    BY <1>2 DEF Conf!Enter, Conf!GoesFirst
  <2> QED
    BY <1>2, <2>1 DEF HeadWaits, Conf!Admits
<1>3. CASE waiting # <<>>
  <2>1. holding' = holding /\ Head(waiting') = Head(waiting)
    BY <1>3 DEF Conf!Enter, Conf!GoesFirst, QueueType
  <2> QED
    BY <1>3, <2>1 DEF HeadWaits, Conf!Admits
<1> QED
  BY <1>1, <1>2, <1>3

LEMMA LockTypesStep == Locked /\ LockTypes /\ [Next]_vars => LockTypes'
<1> SUFFICES ASSUME Locked, LockTypes, [Next]_vars PROVE LockTypes'
  OBVIOUS
<1> USE DEF Locked, LockTypes
<1>1. ASSUME UNCHANGED confVars PROVE LockTypes'
  BY <1>1 DEF confVars, HeadWaits, Conf!Admits
<1>2. ASSUME NEW c \in Conf!Clients, Conf!Enter(c), UNCHANGED <<config, saved>>
      PROVE  LockTypes'
  BY <1>2, EnterKeepsQueue
<1>3. ASSUME NEW c, Conf!Leave(c), saved' = saved, config' \in 0 .. MaxConfig
      PROVE  LockTypes'
  BY <1>3, LeaveKeepsQueue
<1>4. ASSUME NEW r \in 1 .. NRepos, Publish(r) PROVE LockTypes'
  BY <1>1, <1>4 DEF Publish
<1>5. ASSUME NEW h \in Handlers, Request(h) PROVE LockTypes'
  BY <1>2, <1>5 DEF Request, Conf!Clients
<1>6. ASSUME NEW h \in Handlers, Progress(h) \/ FetchFault(h) \/ Abort(h) PROVE LockTypes'
  BY <1>1, <1>3, <1>6
     DEF Progress, Start, Fetch, Filter, Transact, Answer, FetchFault, Abort, Ended
<1>7. ASSUME NEW c \in Getters \union Putters, AskConfig(c) PROVE LockTypes'
  BY <1>2, <1>7 DEF AskConfig, Conf!AskConfig, Conf!Clients
<1>8. ASSUME NEW c \in Getters \union Putters, Configure(c) PROVE LockTypes'
  <2>1. Conf!Leave(c) /\ saved' = saved /\ config' \in 0 .. MaxConfig
    BY <1>8, ConfigAssumption
       DEF Configure, Conf!GetConfig, Conf!PutConfig, Conf!ConfigConstants
  <2> QED
    BY <1>3, <2>1
<1>9. CASE Restart
  BY <1>9, ConfigAssumption DEF Restart, Conf!ConfigRestart, Conf!ConfigConstants, HeadWaits
<1>10. CASE UNCHANGED vars
  BY <1>1, <1>10 DEF vars
<1> QED
  BY <1>4, <1>5, <1>6, <1>7, <1>8, <1>9, <1>10 DEF Next

(* A transaction goes on with the list it has, or ends. *)
LEMMA TransactionGoesOn ==
    ASSUME DbP!Shape, NEW h \in Handlers, Db!Transact(h) \/ Db!Abort(h)
    PROVE  /\ list' = list /\ stage[h] # "idle"
           /\ \A g \in Handlers \ {h} : stage'[g] = stage[g]
BY DEF DbP!Shape, Db!Transact, Db!Abort, Db!WriteNames, Db!Busy, Db!WriteReleases,
       Db!BuildPanics, Db!WritePackages, Db!WriteFiles, Db!FilesFail, Db!Commit,
       Db!Rollback, Db!Close, Db!Enter, Db!Open

LEMMA ListIsFetchedStep ==
    ASSUME IInv, DbP!Shape, ListIsFetched, [Next]_vars
    PROVE  ListIsFetched'
<1> USE DEF ListIsFetched
<1>t. Neb!FetchTypeOK
  BY DEF IInv
<1>1. ASSUME UNCHANGED <<stage, list>>, NEW h \in Handlers, stage[h] = "idle",
             \A g \in Handlers \ {h} : fetch'[g] = fetch[g] /\ body'[g] = body[g]
      PROVE  ListIsFetched'
  BY <1>1
<1>2. ASSUME UNCHANGED <<stage, list, fetch, body>> PROVE ListIsFetched'
  BY <1>2
<1>3. ASSUME NEW r \in 1 .. NRepos, Publish(r) PROVE ListIsFetched'
  BY <1>2, <1>3 DEF Publish, Neb!Publish, dbVars
<1>4. ASSUME NEW h \in Handlers, Request(h) PROVE ListIsFetched'
  BY <1>t, <1>1, <1>2, <1>4, OthersStay DEF Request, dbVars, fetchVars
<1>5. ASSUME NEW h \in Handlers, Progress(h) PROVE ListIsFetched'
  <2>1. CASE Start(h) \/ Fetch(h)
    BY <1>t, <1>1, <2>1, OthersStay DEF Start, Fetch, dbVars
  <2>2. CASE Filter(h)
    <3>1. /\ stage' = [stage EXCEPT ![h] = "filtered"]
          /\ list' = [list EXCEPT ![h] = Lists[body[h]]]
          /\ fetch[h] = "fetched" /\ UNCHANGED <<fetch, body>>
      BY <2>2 DEF Filter, Db!ReadReleases, Db!Enter, fetchVars
    <3>2. \A g \in Handlers : g # h => stage'[g] = stage[g] /\ list'[g] = list[g]
      BY <3>1 DEF DbP!Shape, DbP!PerHandler
    <3>3. list'[h] = Lists[body[h]]
      BY <3>1 DEF DbP!Shape, DbP!PerHandler
    <3> QED
      BY <3>1, <3>2, <3>3
  <2>3. CASE Transact(h)
    BY <2>3, TransactionGoesOn DEF Transact, fetchVars
  <2>4. CASE Answer(h)
    <3>1. CASE Db!Reply(h) /\ Neb!Return(h)
      <4>1. /\ stage' = [stage EXCEPT ![h] = "idle"]
            /\ list' = [list EXCEPT ![h] = <<>>]
        BY <3>1 DEF Db!Reply, Db!Enter
      <4>2. stage'[h] = "idle"
        BY <4>1 DEF DbP!Shape
      <4>3. \A g \in Handlers : g # h => stage'[g] = stage[g] /\ list'[g] = list[g]
        BY <4>1 DEF DbP!Shape, DbP!PerHandler
      <4> QED
        BY <1>t, <3>1, <4>2, <4>3, OthersStay
    <3>2. CASE fetch[h] = "failed" /\ Neb!Return(h) /\ UNCHANGED dbVars
      BY <1>t, <1>1, <3>2, OthersStay DEF dbVars
    <3> QED
      BY <2>4, <3>1, <3>2 DEF Answer
  <2> QED
    BY <1>5, <2>1, <2>2, <2>3, <2>4 DEF Progress
<1>6. ASSUME NEW h \in Handlers, FetchFault(h) PROVE ListIsFetched'
  BY <1>t, <1>1, <1>6, OthersStay DEF FetchFault, dbVars
<1>7. ASSUME NEW h \in Handlers, Abort(h) PROVE ListIsFetched'
  BY <1>7, TransactionGoesOn DEF Abort, fetchVars
<1>8. ASSUME NEW c \in Getters \union Putters, AskConfig(c) \/ Configure(c)
      PROVE  ListIsFetched'
  BY <1>2, <1>8 DEF AskConfig, Configure, fetchVars, dbVars
<1>9. CASE Restart
  BY <1>9 DEF Restart, Db!DbCrash
<1>10. CASE UNCHANGED vars
  BY <1>2, <1>10 DEF vars, fetchVars, dbVars
<1> QED
  BY <1>3, <1>4, <1>5, <1>6, <1>7, <1>8, <1>9, <1>10 DEF Next

LEMMA RequestInvHolds == Spec => []RequestInv
<1>1. Init => RequestInv
  <2> SUFFICES ASSUME Init PROVE RequestInv
    OBVIOUS
  <2>1. IInv /\ Locked
    BY InitEstablishes, LockedInit DEF Init
  <2>2. LockTypes
    BY ConfigAssumption
       DEF Init, Conf!ConfigInit, Conf!ConfigConstants, LockTypes, HeadWaits
  <2>3. DbP!DbInit
    BY SameEnds DEF Init
  <2>4. DbP!TypeInv
    BY <2>3, DbConstants, DbP!TypeInvInit
  <2>5. ListIsFetched
    BY DEF Init, Db!DbInit, ListIsFetched
  <2> QED
    BY <2>1, <2>2, <2>4, <2>5 DEF RequestInv
<1>2. RequestInv /\ [Next]_vars => RequestInv'
  <2> SUFFICES ASSUME RequestInv, [Next]_vars PROVE RequestInv'
    OBVIOUS
  <2>1. IInv'
    BY StepsOfTheDownload, TypesPreserved, ListsPreserved DEF RequestInv, IInv
  <2>2. Locked'
    BY LockedStays DEF RequestInv, IInv
  <2>3. LockTypes'
    BY LockTypesStep DEF RequestInv
  <2>4. [DbP!DbNext]_(DbP!dbVars)
    BY StepsOfTheDb DEF RequestInv, dbVars, DbP!dbVars
  <2>5. DbP!TypeInv'
    BY <2>4, DbConstants, DbP!ShapeStep, DbP!ControlTypesStep, DbP!ListsStep,
       DbP!NumbersStep DEF RequestInv, DbP!TypeInv
  <2>6. ListIsFetched'
    BY ListIsFetchedStep DEF RequestInv, DbP!TypeInv
  <2> QED
    BY <2>1, <2>2, <2>3, <2>5, <2>6 DEF RequestInv
<1> QED
  BY <1>1, <1>2, PTL DEF Spec

(***************************************************************************)
(* The types of the whole request, with any handlers, mirrors, faults and  *)
(* clients of the configuration.  Two parts of them are about how it is    *)
(* put together: nobody is kept waiting for a lock that could be given,    *)
(* and a transaction works on the list that its own download returned.     *)
(***************************************************************************)
THEOREM RequestTypesAreCorrect == Spec => []TypeOK
<1>1. RequestInv => TypeOK
  <2> SUFFICES ASSUME RequestInv PROVE TypeOK
    OBVIOUS
  <2>1. Neb!FetchTypeOK
    BY DEF RequestInv, IInv
  <2>2. Db!DbTypeOK
    BY DEF RequestInv, DbP!TypeInv, DbP!Shape, DbP!ListsKnown, DbP!AllNumbered,
           DbP!Numbered, DbP!Stages, Db!Stages, Db!DbTypeOK
  <2>3. ASSUME NEW c \in holding \intersect Putters PROVE Conf!Cardinality(holding) = 1
    <3>1. holding = {c}
      BY DEF RequestInv, Locked, WritersAlone
    <3>2. Cardinality({c}) = 1
      BY FS_Singleton
    <3> QED
      BY <3>1, <3>2 DEF Conf!Cardinality, Cardinality, Conf!IsFiniteSet, IsFiniteSet
  <2>4. Conf!ConfigTypeOK
    BY <2>3 DEF RequestInv, Locked, LockTypes, QueueType, HeadWaits, Conf!ConfigTypeOK
  <2> QED
    BY <2>1, <2>2, <2>4 DEF RequestInv, ListIsFetched, TypeOK
<1> QED
  BY <1>1, RequestInvHolds, PTL
-----------------------------------------------------------------------------
(***************************************************************************)
(* Requests in turn, of mirrors that tag their lists and may be out of     *)
(* reach, with nothing else that fails: the conditions under which the two *)
(* files of the cache belong together.  Without any of them they need not  *)
(* (the runs FsnUpdateRace and FsnUpdateFaults).                           *)
(***************************************************************************)
Undisturbed ==
    /\ \A g, h \in Handlers : g = h
    /\ Faults \subseteq {"net"}
    /\ Tagged = 1 .. NRepos

Storing == {"receive", "save", "write"}

(***************************************************************************)
(* What a request has read and was told, beside what is on disk.  A tag    *)
(* that was read is that of the cached list, so a mirror that has nothing  *)
(* newer means that list; a tag that is written is that of the list held.  *)
(***************************************************************************)
AnswerKept(h) ==
    /\ fetch[h] \in {"idle", "tag", "ask"} => answer[h] = Neb!Nothing
    /\ fetch[h] = "ask" => tag[h] \in {Neb!Nothing, cache}
    /\ fetch[h] \in Storing => etag = body[h]
    /\ fetch[h] = "write" => layers = {body[h]}
    /\ fetch[h] = "load" => answer[h] \in {Neb!Nothing, cache}
    /\ fetch[h] \in Holding => answer[h] \in {Neb!Nothing, body[h]}

TagInv == TagMatchesCache /\ \A h \in Handlers : AnswerKept(h)

LEMMA TagInvStep ==
    ASSUME Undisturbed, IInv, TagInv, [Neb!FetchNext]_fetchVars
    PROVE  TagInv'
<1> USE NoVersions
    DEF Undisturbed, IInv, AnswersPublished, TagInv, AnswerKept, TagMatchesCache,
        Neb!TagMatchesCache, Storing, Holding, Neb!FetchTypeOK, Neb!files, Neb!Goto
<1>1. ASSUME NEW r \in Neb!Mirrors, Neb!Publish(r) PROVE TagInv'
  BY <1>1 DEF Neb!Publish
<1>2. ASSUME NEW h \in Handlers, Neb!Call(h) PROVE TagInv'
  BY <1>2 DEF Neb!Call
<1>3. ASSUME NEW h \in Handlers, Neb!ReadTag(h) PROVE TagInv'
  BY <1>3 DEF Neb!ReadTag, Neb!TagsRead
<1>4. ASSUME NEW h \in Handlers, Neb!NotModified(h) PROVE TagInv'
  BY <1>4 DEF Neb!NotModified, Neb!Unchanged
<1>5. ASSUME NEW h \in Handlers, Neb!Modified(h) PROVE TagInv'
  <2>1. repo[h] \in Tagged
    BY DEF Neb!Mirrors
  <2> QED
    BY <1>5, <2>1 DEF Neb!Modified
<1>6. ASSUME NEW h \in Handlers, Neb!WriteTag(h) PROVE TagInv'
  BY <1>6 DEF Neb!WriteTag
<1>7. ASSUME NEW h \in Handlers, Neb!Receive(h) PROVE TagInv'
  BY <1>7 DEF Neb!Receive
<1>8. ASSUME NEW h \in Handlers, Neb!OpenCache(h) PROVE TagInv'
  <2>1. writing = {}
    BY <1>8 DEF Neb!OpenCache
  <2> QED
    BY <1>8, <2>1 DEF Neb!OpenCache
<1>9. ASSUME NEW h \in Handlers, Neb!CloseCache(h) PROVE TagInv'
  <2>1. writing = {h}
    BY <1>9 DEF Neb!CloseCache
  <2>2. cache' = body[h]
    BY <1>9, <2>1 DEF Neb!CloseCache, Neb!Contents
  <2>3. fetch'[h] \notin {"idle", "tag", "ask", "load"} \union Storing
    BY <1>9 DEF Neb!CloseCache, Neb!Parsed
  <2> QED
    BY <1>9, <2>2, <2>3 DEF Neb!CloseCache
<1>10. ASSUME NEW h \in Handlers, Neb!Load(h) PROVE TagInv'
  BY <1>10 DEF Neb!Load
<1>11. ASSUME NEW h \in Handlers, Neb!Skip(h) PROVE TagInv'
  BY <1>11 DEF Neb!Skip
<1>12. ASSUME NEW h \in Handlers, Neb!BreakBody(h) \/ Neb!Garble(h) \/ Neb!DiskFails(h)
                            \/ Neb!Cancel(h)
       PROVE  FALSE
  BY <1>12 DEF Neb!BreakBody, Neb!Garble, Neb!DiskFails, Neb!Cancel
<1>13. ASSUME NEW h \in Handlers, Neb!Return(h) PROVE TagInv'
  BY <1>13 DEF Neb!Return, Neb!Forget
<1>14. ~Neb!Crash
  BY DEF Neb!Crash
<1>15. CASE UNCHANGED fetchVars
  BY <1>15 DEF fetchVars
<1> QED
  BY <1>1, <1>2, <1>3, <1>4, <1>5, <1>6, <1>7, <1>8, <1>9, <1>10, <1>11, <1>12,
     <1>13, <1>14, <1>15 DEF Neb!FetchNext, Neb!Progress, Neb!Fault

LEMMA TagInvHolds == ASSUME Undisturbed PROVE Spec => []TagInv
<1>1. Init => TagInv
  BY DEF Init, Neb!FetchInit, TagInv, TagMatchesCache, Neb!TagMatchesCache, AnswerKept,
         Storing, Holding
<1>2. IInv /\ TagInv /\ [Next]_vars => TagInv'
  BY StepsOfTheDownload, TagInvStep
<1> QED
  BY <1>1, <1>2, IInvHolds, PTL DEF Spec

(***************************************************************************)
(* The tag on disk is that of the list on disk, for any number of mirrors  *)
(* and versions and whichever mirror answers: a 304 means the cached list. *)
(***************************************************************************)
THEOREM TagsBelongToLists == ASSUME Undisturbed PROVE Spec => []TagMatchesCache
BY TagInvHolds, PTL DEF TagInv

(***************************************************************************)
(* "updated" is true from one end to the other: the list the mirror had    *)
(* when it answered, downloaded or found in the cache, is stored.          *)
(***************************************************************************)
THEOREM UpdatesAreTrue ==
    ASSUME Undisturbed, DbP!DuplicateFreeLists PROVE Spec => []UpdatedMeansProcessed
<1> DEFINE Truth == DbP!StoreInv /\ DbP!AnsweredIsStored
<1>1. Init => Truth
  <2>1. Init => DbP!DbInit
    BY SameEnds DEF Init
  <2>2. DbP!DbInit => Truth
    BY DbConstants, DbP!ShapeInit, DbP!ControlInit
       DEF DbP!DbInit, DbP!StoreInv, DbP!ViewExtends, DbP!Open, DbP!AnsweredIsStored
  <2> QED
    BY <2>1, <2>2
<1>2. StoredInv /\ Truth /\ [Next]_vars => Truth'
  <2> SUFFICES ASSUME StoredInv, Truth, [Next]_vars PROVE Truth'
    OBVIOUS
  <2>1. [DbP!DbNext]_(DbP!dbVars)
    BY StepsOfTheDb DEF StoredInv, dbVars, DbP!dbVars
  <2>2. DbP!StoreInv'
    BY <2>1, DbConstants, DbP!ShapeStep, DbP!ControlStep, DbP!ExtendsStep DEF DbP!StoreInv
  <2>3. DbP!AnsweredIsStored'
    BY <2>1, DbConstants, DbP!AnsweredStep DEF StoredInv
  <2> QED
    BY <2>2, <2>3
<1>3. RequestInv /\ TagInv /\ Truth => UpdatedMeansProcessed
  <2> SUFFICES ASSUME RequestInv, TagInv, Truth, NEW h \in Handlers, stage[h] = "updated",
                      answer[h] # 0
               PROVE  StoredList(answer[h])
    BY DEF UpdatedMeansProcessed
  <2>1. fetch[h] = "fetched" /\ list[h] = Lists[body[h]]
    BY DEF RequestInv, ListIsFetched
  <2>2. answer[h] = body[h]
    BY <2>1 DEF TagInv, AnswerKept, Holding, Neb!Nothing
  <2>3. \A k \in DOMAIN list[h] : DbP!Key(list[h][k]) \in DbP!KeysOf(db)
    BY DEF DbP!AnsweredIsStored
  <2> QED
    BY <2>1, <2>2, <2>3, SameKey, SameKeys DEF StoredList
<1> QED
  BY <1>1, <1>2, <1>3, RequestInvHolds, TagInvHolds, StoredInvHolds, PTL DEF Spec
=============================================================================
