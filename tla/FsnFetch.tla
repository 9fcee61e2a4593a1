------------------------------- MODULE FsnFetch -------------------------------
(***************************************************************************)
(* FSNebula::init (fsnebula.rs): download the mod list, or use the copy in *)
(* the cache directory when a mirror says it has not changed.              *)
(*                                                                         *)
(* Two files are kept between requests: mods.json.etag, the tag of the     *)
(* last answer, and mods.json, its body.  Nothing ties the two: each       *)
(* request reads and writes them at its own awaits, next to every other    *)
(* request and through failures, cancellations and restarts.               *)
(*                                                                         *)
(* A list is known by its version.  A mirror that tags its answers uses    *)
(* the same tag for the same bytes.                                        *)
(***************************************************************************)
EXTENDS Naturals, FiniteSets

CONSTANTS Handlers,    \* concurrent calls of init
          NRepos,      \* mirrors, asked in the order 1 .. NRepos
          MaxVersion,  \* bound on the versions a mirror publishes
          Tagged,      \* the mirrors that send an ETag
          Faults       \* which of FaultKinds may happen

FaultKinds == {"net", "body", "disk", "cancel", "crash"}

FetchConstants == /\ NRepos \in Nat \ {0} /\ MaxVersion \in Nat \ {0}
                  /\ Tagged \subseteq 1 .. NRepos
                  /\ Faults \subseteq FaultKinds

Mirrors == 1 .. NRepos
Versions == 1 .. MaxVersion
Nothing == 0              \* no file, an empty tag, no answer
Torn == MaxVersion + 1    \* bytes that do not parse

VARIABLES
    served,  \* the version each mirror serves
    etag,    \* mods.json.etag
    cache,   \* mods.json
    writing, \* handlers that have mods.json open for writing
    layers,  \* versions written since mods.json was last closed by everyone
    fetch,   \* where each handler is
    tag,     \* the tag each handler has read
    repo,    \* the mirror each handler asks next
    body,    \* the list each handler holds
    answer   \* history: the version the mirror had when it answered

files == <<etag, cache, writing, layers>>
fetchVars == <<served, etag, cache, writing, layers, fetch, tag, repo, body, answer>>

Labels == {"idle", "tag", "ask", "mark", "receive", "save", "write", "load",
           "fetched", "failed"}
Running == Labels \ {"idle", "fetched", "failed"}

FetchInit ==
    /\ served = [r \in Mirrors |-> 1]
    /\ etag = Nothing /\ cache = Nothing
    /\ writing = {} /\ layers = {}
    /\ fetch = [h \in Handlers |-> "idle"]
    /\ tag = [h \in Handlers |-> Nothing]
    /\ repo = [h \in Handlers |-> 1]
    /\ body = [h \in Handlers |-> Nothing]
    /\ answer = [h \in Handlers |-> Nothing]

Goto(h, l) == fetch' = [fetch EXCEPT ![h] = l]

(* A mirror gets a newer list; mirrors need not agree. *)
Publish(r) ==
    /\ \E v \in served[r] + 1 .. MaxVersion : served' = [served EXCEPT ![r] = v]
    /\ UNCHANGED <<files, fetch, tag, repo, body, answer>>

Call(h) ==
    /\ fetch[h] = "idle"
    /\ Goto(h, "tag")
    /\ UNCHANGED <<served, files, tag, repo, body, answer>>

(* read_to_string(&etag_path), "" if there is none or it cannot be read. *)
TagsRead ==
    {etag} \union IF "disk" \in Faults \/ \E h \in Handlers : fetch[h] = "mark"
                  THEN {Nothing} ELSE {}

ReadTag(h) ==
    /\ fetch[h] = "tag"
    /\ \E t \in TagsRead : tag' = [tag EXCEPT ![h] = t]
    /\ repo' = [repo EXCEPT ![h] = 1]
    /\ Goto(h, "ask")
    /\ UNCHANGED <<served, files, body, answer>>

(* Err(_), or a status that is neither 200 nor 304: try the next mirror. *)
Skip(h) ==
    /\ "net" \in Faults
    /\ fetch[h] = "ask"
    /\ IF repo[h] = NRepos
       THEN Goto(h, "load") /\ UNCHANGED repo
       ELSE repo' = [repo EXCEPT ![h] = @ + 1] /\ UNCHANGED fetch
    /\ UNCHANGED <<served, files, tag, body, answer>>

Unchanged(h) == repo[h] \in Tagged /\ tag[h] = served[repo[h]]

(* 304: the loop is left with mods_json still None. *)
NotModified(h) ==
    /\ fetch[h] = "ask"
    /\ Unchanged(h)
    /\ answer' = [answer EXCEPT ![h] = served[repo[h]]]
    /\ Goto(h, "load")
    /\ UNCHANGED <<served, files, tag, repo, body>>

(* 200: the head of the answer; its body is still on the wire. *)
Modified(h) ==
    /\ fetch[h] = "ask"
    /\ ~Unchanged(h)
    /\ body' = [body EXCEPT ![h] = served[repo[h]]]
    /\ answer' = [answer EXCEPT ![h] = served[repo[h]]]
    /\ Goto(h, IF repo[h] \in Tagged THEN "mark" ELSE "receive")
    /\ UNCHANGED <<served, files, tag, repo>>

(* write(&etag_path, tag), before the body has been received. *)
WriteTag(h) ==
    /\ fetch[h] = "mark"
    /\ etag' = body[h]
    /\ Goto(h, "receive")
    /\ UNCHANGED <<served, cache, writing, layers, tag, repo, body, answer>>

(* Mutant: mods.json is written only when there is none yet. *)
ReceiveKeepsOldCopy(h) ==
    /\ fetch[h] = "receive"
    /\ Goto(h, IF cache = Nothing THEN "save" ELSE "fetched")
    /\ UNCHANGED <<served, files, tag, repo, body, answer>>

(* response.text() *)
Receive(h) ==
    /\ fetch[h] = "receive"
    /\ Goto(h, "save")
    /\ UNCHANGED <<served, files, tag, repo, body, answer>>

(* The body arrives and is no list.  Nobody looks before it is stored. *)
Garble(h) ==
    /\ "body" \in Faults
    /\ fetch[h] = "receive"
    /\ body' = [body EXCEPT ![h] = Torn]
    /\ Goto(h, "save")
    /\ UNCHANGED <<served, files, tag, repo, answer>>

BreakBody(h) ==
    /\ "body" \in Faults
    /\ fetch[h] = "receive"
    /\ Goto(h, "failed")
    /\ UNCHANGED <<served, files, tag, repo, body, answer>>

(* write(&mods_path, &resp) truncates the file, fills it and closes it. *)
OpenCache(h) ==
    /\ fetch[h] = "save"
    /\ cache' = Torn
    /\ writing' = writing \union {h}
    /\ layers' = {body[h]} \union IF writing = {} THEN {} ELSE layers
    /\ Goto(h, "write")
    /\ UNCHANGED <<served, etag, tag, repo, body, answer>>

(* Writers that overlapped leave one of their lists whole, or a mixture. *)
Contents(h) ==
    IF writing = {h} /\ layers = {body[h]} THEN {body[h]} ELSE layers \union {Torn}

(* from_str of the answer, once it has been stored. *)
Parsed(h) == IF body[h] \in Versions THEN "fetched" ELSE "failed"

CloseCache(h) ==
    /\ fetch[h] = "write"
    /\ cache' \in Contents(h)
    /\ writing' = writing \ {h}
    /\ layers' = IF writing = {h} THEN {} ELSE layers
    /\ Goto(h, Parsed(h))
    /\ UNCHANGED <<served, etag, tag, repo, body, answer>>

(* Mutant: a copy that does not parse is returned all the same. *)
LoadUnchecked(h) ==
    /\ fetch[h] = "load"
    /\ body' = [body EXCEPT ![h] = cache]
    /\ Goto(h, "fetched")
    /\ UNCHANGED <<served, files, tag, repo, answer>>

(* read_to_string(mods_path) and from_str: both may fail. *)
Load(h) ==
    /\ fetch[h] = "load"
    /\ IF cache \in Versions
       THEN body' = [body EXCEPT ![h] = cache] /\ Goto(h, "fetched")
       ELSE UNCHANGED body /\ Goto(h, "failed")
    /\ UNCHANGED <<served, files, tag, repo, answer>>

(* A file operation fails; a write may have truncated its file before. *)
DiskFails(h) ==
    /\ "disk" \in Faults
    /\ fetch[h] \in {"tag", "mark", "save", "write", "load"}
    /\ etag' \in {etag} \union IF fetch[h] = "mark" THEN {Nothing} ELSE {}
    /\ writing' = writing \ {h}
    /\ layers' = IF writing \subseteq {h} THEN {} ELSE layers
    /\ Goto(h, "failed")
    /\ UNCHANGED <<served, cache, tag, repo, body, answer>>

Forget(h) ==
    /\ Goto(h, "idle")
    /\ tag' = [tag EXCEPT ![h] = Nothing]
    /\ repo' = [repo EXCEPT ![h] = 1]
    /\ body' = [body EXCEPT ![h] = Nothing]
    /\ answer' = [answer EXCEPT ![h] = Nothing]

(***************************************************************************)
(* The client goes away and the future is dropped at an await.  A write    *)
(* that was started runs to its end on its own thread all the same.        *)
(***************************************************************************)
Cancel(h) ==
    /\ "cancel" \in Faults
    /\ fetch[h] \in Running \ {"write"}
    /\ Forget(h)
    /\ UNCHANGED <<served, files>>

(* init returns to its caller. *)
Return(h) ==
    /\ fetch[h] \in {"fetched", "failed"}
    /\ Forget(h)
    /\ UNCHANGED <<served, files>>

(* The process dies; files that were being written stay as they are. *)
Crash ==
    /\ "crash" \in Faults
    /\ etag' \in {etag} \union
         IF \E h \in Handlers : fetch[h] = "mark" THEN {Nothing} ELSE {}
    /\ writing' = {} /\ layers' = {}
    /\ fetch' = [h \in Handlers |-> "idle"]
    /\ tag' = [h \in Handlers |-> Nothing]
    /\ repo' = [h \in Handlers |-> 1]
    /\ body' = [h \in Handlers |-> Nothing]
    /\ answer' = [h \in Handlers |-> Nothing]
    /\ UNCHANGED <<served, cache>>

(* What init does as long as mirrors answer and files can be accessed. *)
Progress(h) ==
    \/ ReadTag(h)
    \/ NotModified(h) \/ Modified(h)
    \/ WriteTag(h) \/ Receive(h) \/ OpenCache(h) \/ CloseCache(h)
    \/ Load(h)

Fault(h) == Skip(h) \/ BreakBody(h) \/ Garble(h) \/ DiskFails(h) \/ Cancel(h)

FetchNext ==
    \/ \E r \in Mirrors : Publish(r)
    \/ \E h \in Handlers : Call(h) \/ Progress(h) \/ Fault(h) \/ Return(h)
    \/ Crash

FetchSpec == FetchInit /\ [][FetchNext]_fetchVars
-----------------------------------------------------------------------------
FetchTypeOK ==
    /\ served \in [Mirrors -> Versions]
    /\ etag \in Versions \union {Nothing}
    /\ cache \in Versions \union {Nothing, Torn}
    /\ writing = {h \in Handlers : fetch[h] = "write"}
    /\ layers \subseteq Versions \union {Torn} /\ (layers = {} <=> writing = {})
    /\ fetch \in [Handlers -> Labels]
    /\ tag \in [Handlers -> Versions \union {Nothing}]
    /\ repo \in [Handlers -> Mirrors]
    /\ body \in [Handlers -> Versions \union {Nothing, Torn}]
    /\ answer \in [Handlers -> Versions \union {Nothing}]

(***************************************************************************)
(* Unless an answer is being stored, a tag on disk is the tag of the list  *)
(* on disk: a later 304 for it means the cached list.                      *)
(***************************************************************************)
TagMatchesCache ==
    \/ etag \in {Nothing, cache}
    \/ \E h \in Handlers : fetch[h] \in {"receive", "save", "write"}

(***************************************************************************)
(* However the two files were left by writers that overlapped, failed or   *)
(* died, and whatever was stored unread, a call returns a list some mirror *)
(* published, never a torn file.                                           *)
(***************************************************************************)
FetchedIsPublished ==
    \A h \in Handlers : fetch[h] = "fetched" =>
        body[h] \in Versions /\ \E r \in Mirrors : body[h] <= served[r]
=============================================================================
