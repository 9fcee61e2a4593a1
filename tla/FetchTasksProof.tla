--------------------------- MODULE FetchTasksProof ---------------------------
(***************************************************************************)
(* For any sources, files, faults, queue limit and number of downloads at  *)
(* a time: what FetchTasks promises of an acquire_files that finishes, and *)
(* of the hashes that are stored, and the types of its state.              *)
(*                                                                         *)
(* These rest on a job being started once only.  A source is indexed once  *)
(* (OncePerSource), so its jobs send one request each, and as a request    *)
(* is in one place at a time its channel is closed for good when the hash  *)
(* is taken from it (OneRequest).                                          *)
(***************************************************************************)
EXTENDS FetchTasks, FiniteSetTheorems, TLAPS

USE IndexerAssumption, FetchTasksAssumption

Took == {"indexing", "indexed"}
Unpacking == {"extracting", "extracted", "broken"}

TasksType ==
    /\ job \in [Jobs -> Active \union Ends \union {"none"}]
    /\ src \in [Sources -> Stages]

OncePerSource ==
    /\ TasksType
    /\ \A j \in Jobs : job[j] # "none" => src[j[1]] \in Took
    /\ \A j \in Jobs : src[j[1]] = "indexed" => job[j] \in {"none", "ok"}
    /\ \A s \in Sources \ Archives : \A f \in Contents[s] :
           src[s] \in Took => job[<<s, f>>] # "none"
    /\ acquire = "finished" => \A s \in Sources : src[s] = "indexed"
    /\ \A s \in Sources : src[s] \in Unpacking => s \in Archives

LEMMA JobIsPair ==
    /\ \A j \in Jobs : j[1] \in Sources
    /\ \A s \in Sources, f \in Files : <<s, f>> \in Jobs /\ <<s, f>>[1] = s
    /\ \A s \in Sources : Contents[s] \subseteq Files
OBVIOUS

(* A job that is at work goes on to its next stage, or ends. *)
LEMMA JobGoesOn ==
    ASSUME OncePerSource, NEW j \in Jobs, job[j] \in Active,
           NEW l \in Active \union Ends, Goto(j, l), UNCHANGED fetchVars
    PROVE  OncePerSource'
<1>1. src[j[1]] = "indexing" /\ l # "none"
  BY JobIsPair DEF OncePerSource, Active, Ends, Took
<1>2. TasksType'
  BY DEF OncePerSource, TasksType, Goto, fetchVars
<1> QED
  BY <1>1, <1>2, JobIsPair DEF OncePerSource, TasksType, Goto, fetchVars, Took

(* A source whose state changes, when none of its jobs has been started. *)
LEMMA SourceGoesOn ==
    ASSUME OncePerSource, NEW s \in Sources, NEW l \in InFlight,
           src[s] \notin Took, To(s, l), UNCHANGED <<job, acquire>>,
           l \in Unpacking => s \in Archives
    PROVE  OncePerSource'
<1>1. acquire # "finished" /\ l \notin Took /\ l \in Stages
  BY DEF OncePerSource, Took, InFlight, Stages
<1>2. TasksType'
  BY <1>1 DEF OncePerSource, TasksType, To
<1> QED
  BY <1>1, <1>2, JobIsPair DEF OncePerSource, TasksType, To, Took

(* The jobs of a source are started, and the source is being indexed. *)
LEMMA SourceIsTaken ==
    ASSUME OncePerSource, NEW s \in Sources, NEW fs \in SUBSET Files,
           src[s] \notin Took, s \notin Archives => Contents[s] \subseteq fs,
           To(s, "indexing"), Spawn({s} \X fs), UNCHANGED acquire
    PROVE  OncePerSource'
<1>1. acquire # "finished" /\ src[s] # "indexed"
  BY DEF OncePerSource, Took
<1>2. \A j \in Jobs : j \in {s} \X fs <=> j[1] = s /\ j[2] \in fs
  BY JobIsPair
<1>3. /\ job' = [j \in Jobs |-> IF j \in {s} \X fs THEN "send" ELSE job[j]]
      /\ src' = [src EXCEPT ![s] = "indexing"]
  BY DEF Spawn, To
<1>4. TasksType'
  BY <1>3 DEF OncePerSource, TasksType, Active, Stages
<1>5. \A j \in Jobs : job'[j] # "none" => src'[j[1]] \in Took
  BY <1>2, <1>3, JobIsPair DEF OncePerSource, TasksType, Took
<1>6. \A j \in Jobs : src'[j[1]] = "indexed" => job'[j] \in {"none", "ok"}
  BY <1>2, <1>3, JobIsPair DEF OncePerSource, TasksType
<1>7. \A t \in Sources \ Archives : \A f \in Contents[t] :
          src'[t] \in Took => job'[<<t, f>>] # "none"
  <2> SUFFICES ASSUME NEW t \in Sources \ Archives, NEW f \in Contents[t], src'[t] \in Took
               PROVE  job'[<<t, f>>] # "none"
    OBVIOUS
  <2>1. f \in Files /\ <<t, f>> \in Jobs
    BY JobIsPair
  <2>2. CASE t = s
    BY <1>3, <2>1, <2>2
  <2>3. CASE t # s
    BY <1>3, <2>1, <2>3 DEF OncePerSource, TasksType
  <2> QED
    BY <2>2, <2>3
<1>8. \A t \in Sources : src'[t] \in Unpacking => t \in Archives
  BY <1>3 DEF OncePerSource, TasksType, Unpacking
<1> QED
  BY <1>1, <1>4, <1>5, <1>6, <1>7, <1>8 DEF OncePerSource

(* Jobs that are at work are aborted, with the end of the call. *)
LEMMA JobsAreAborted ==
    ASSUME OncePerSource, NEW js \in SUBSET Jobs, Abort(js), UNCHANGED src,
           acquire' # "finished"
    PROVE  OncePerSource'
<1>1. \A j \in Jobs : /\ job'[j] = "none" <=> job[j] = "none"
                      /\ job[j] \notin Active => job'[j] = job[j]
  BY DEF Abort, OncePerSource, TasksType, Active, Ends
<1>2. TasksType'
  BY DEF Abort, OncePerSource, TasksType, Ends
<1> QED
  BY <1>1, <1>2, JobIsPair DEF OncePerSource, Active

LEMMA OncePerSourceStays == OncePerSource /\ [Next]_vars => OncePerSource'
<1> SUFFICES ASSUME OncePerSource, [Next]_vars PROVE OncePerSource'
  OBVIOUS
<1>1. ASSUME NEW s \in Sources, Ask(s) PROVE OncePerSource'
  BY <1>1, SourceGoesOn DEF Ask, Planned, indexVars, jobVars, InFlight, Took, Unpacking
<1>2. ASSUME NEW s \in Sources, Download(s) PROVE OncePerSource'
  <2>1. CASE s \in Archives
    BY <1>2, <2>1, SourceGoesOn DEF Download, InFlight, Took
  <2>2. CASE s \notin Archives
    BY <1>2, <2>2, SourceIsTaken, JobIsPair DEF Download, Took
  <2> QED
    BY <2>1, <2>2
<1>3. ASSUME NEW s \in Sources, FetchFails(s) \/ ExtractionFailed(s) PROVE OncePerSource'
  BY <1>3 DEF FetchFails, ExtractionFailed, OncePerSource, TasksType, indexVars, jobVars
<1>4. ASSUME NEW s \in Sources, Extract(s) PROVE OncePerSource'
  BY <1>4, SourceGoesOn DEF Extract, InFlight, Took, indexVars, jobVars, OncePerSource, Unpacking
<1>5. ASSUME NEW s \in Sources, WalkDir(s) PROVE OncePerSource'
  <2>1. PICK fs \in SUBSET (Extracted \union Arriving) : Spawn({s} \X fs)
    BY <1>5 DEF WalkDir
  <2>2. fs \in SUBSET Files
    <3>1. \A f \in Extracted \union Arriving : \E t \in Sources : f \in Contents[t]
      BY DEF Extracted, Arriving, FilesOf
    <3> QED
      BY <2>1, <3>1, JobIsPair
  <2>3. s \in Archives
    BY <1>5 DEF WalkDir, OncePerSource, Unpacking
  <2> QED
    BY <1>5, <2>1, <2>2, <2>3, SourceIsTaken DEF WalkDir, Took
<1>6. ASSUME NEW j \in Jobs, IndexFile(j) PROVE OncePerSource'
  <2>1. job[j] \in Active /\ \E l \in Active \union Ends : Goto(j, l)
    BY <1>6 DEF IndexFile, FileStep, SendRaw, HashPanics, Insert, Hashed, Stat, Active, Ends
  <2> QED
    BY <1>6, <2>1, JobGoesOn DEF IndexFile
<1>7. ASSUME NEW j \in Jobs, IndexFault(j) PROVE OncePerSource'
  <2>1. CASE DbFails(j)
    BY <1>7, <2>1, JobGoesOn DEF IndexFault, DbFails, Active, Ends
  <2>2. CASE VpDbFails(j)
    BY <1>7, <2>2 DEF IndexFault, VpDbFails, OncePerSource, TasksType, fetchVars
  <2> QED
    BY <1>7, <2>1, <2>2 DEF IndexFault
<1>8. ASSUME UNCHANGED <<job, src, acquire>> PROVE OncePerSource'
  BY <1>8 DEF OncePerSource, TasksType
<1>9. ASSUME NEW j \in Jobs, IndexVp(j) PROVE OncePerSource'
  BY <1>8, <1>9 DEF IndexVp, VpStep, OpenVp, SendEntry, EntryHashed, InsertVp, LinkVp, fetchVars
<1>10. ASSUME NEW j \in Jobs, Read(j) PROVE OncePerSource'
  BY <1>8, <1>10 DEF Read, jobVars, fetchVars
<1>11. CASE Pool
  BY <1>8, <1>11 DEF Pool, jobVars, fetchVars
<1>12. ASSUME NEW s \in Sources, Indexed(s) PROVE OncePerSource'
  <2>1. \A j \in Jobs : j[1] = s => job[j] \in {"none", "ok"}
    BY <1>12 DEF Indexed, JobsOf
  <2>2. src' = [src EXCEPT ![s] = "indexed"] /\ src[s] = "indexing" /\ UNCHANGED <<job, acquire>>
    BY <1>12 DEF Indexed, To, indexVars, jobVars
  <2>3. TasksType'
    BY <2>2 DEF OncePerSource, TasksType, Stages
  <2> QED
    BY <2>1, <2>2, <2>3, JobIsPair DEF OncePerSource, TasksType, Took, Unpacking
<1>13. ASSUME NEW s \in Sources, IndexFails(s) \/ WalkPanics(s) PROVE OncePerSource'
  BY <1>13, JobsAreAborted DEF IndexFails, WalkPanics, JobsOf
<1>14. CASE Finish
  BY <1>14 DEF Finish, OncePerSource, TasksType, indexVars, jobVars
<1>15. CASE Cancel
  BY <1>15, JobsAreAborted DEF Cancel
<1>16. CASE UNCHANGED vars
  BY <1>8, <1>16 DEF vars, indexVars, jobVars, fetchVars
<1> QED
  BY <1>1, <1>2, <1>3, <1>4, <1>5, <1>6, <1>7, <1>9, <1>10, <1>11, <1>12, <1>13, <1>14,
     <1>15, <1>16 DEF Next, SourceStep

LEMMA OncePerSourceInit == Init => OncePerSource
BY JobIsPair DEF Init, IndexerInit, OncePerSource, TasksType, Stages, InFlight, Took,
                 Unpacking

(***************************************************************************)
(* An acquire_files that comes to the end of its stream has downloaded     *)
(* every source, and each index_file it has started has returned Ok.       *)
(***************************************************************************)
THEOREM FinishesOnlyWithoutFailure == Spec => []NoJoinedFailureIsLost
<1>1. OncePerSource => NoJoinedFailureIsLost
  <2> SUFFICES ASSUME OncePerSource, acquire = "finished" PROVE NoJoinedFailureIsLost
    BY DEF NoJoinedFailureIsLost
  <2>1. \A j \in Jobs : job[j] \in {"none", "ok"}
    BY JobIsPair DEF OncePerSource
  <2>2. \A s \in Sources \ Archives : \A f \in Contents[s] : job[<<s, f>>] = "ok"
    <3> SUFFICES ASSUME NEW s \in Sources \ Archives, NEW f \in Contents[s]
                 PROVE  job[<<s, f>>] = "ok"
      OBVIOUS
    <3>1. <<s, f>> \in Jobs
      BY JobIsPair
    <3>2. job[<<s, f>>] # "none"
      BY DEF OncePerSource, Took
    <3> QED
      BY <2>1, <3>1, <3>2
  <2> QED
    BY <2>1, <2>2 DEF NoJoinedFailureIsLost, OncePerSource
<1> QED
  BY <1>1, OncePerSourceInit, OncePerSourceStays, PTL DEF Spec
-----------------------------------------------------------------------------
Unsent == {"none", "send"}
Started == Unsent \union {"hash"}

(* A request is in one place at a time, and its channel is open there. *)
Places ==
    /\ requests \in Seq(Requests)
    /\ reading \subseteq Requests
    /\ chan \in [Requests -> Answers]
    /\ \A i, k \in DOMAIN requests : requests[i] = requests[k] => i = k
    /\ \A q \in reading : q \notin Queued /\ chan[q] = "open"
    /\ \A q \in Queued : chan[q] = "open"

JobsAndChannels ==
    /\ vp \in [Jobs -> VpActive \union {"none", "gone"}]
    /\ \A j \in Jobs : job[j] \in Unsent => chan[Raw(j)] = "none"
    /\ \A j \in Jobs : vp[j] # "none" => job[j] \notin Started
    /\ \A j \in Jobs : vp[j] \in {"none", "open"} => chan[Entry(j)] = "none"
    /\ \A j \in Jobs : vp[j] = "entries" => chan[Entry(j)] # "open"
    /\ \A j \in Jobs : job[j] \in {"stat", "ok"} => chan[Raw(j)] \in Closed

OneRequest == OncePerSource /\ Places /\ JobsAndChannels

LEMMA RequestsDiffer ==
    /\ \A j \in Jobs : Raw(j) \in Requests /\ Entry(j) \in Requests
    /\ \A i, j \in Jobs : /\ Raw(i) # Entry(j)
                          /\ Raw(i) = Raw(j) => i = j
                          /\ Entry(i) = Entry(j) => i = j
BY DEF Requests, Raw, Entry

LEMMA AnswersDiffer ==
    /\ "open" \notin Closed /\ "none" \notin Closed /\ "error" \notin Closed
    /\ Closed \subseteq Answers /\ {"none", "open", "error"} \subseteq Answers
BY DEF Closed, Answers

LEMMA QueueOps ==
    ASSUME requests \in Seq(Requests)
    PROVE  /\ \A q \in Requests : requests' = Append(requests, q) =>
                  /\ requests' \in Seq(Requests)
                  /\ Queued' = Queued \union {q}
           /\ requests # <<>> /\ requests' = Tail(requests) =>
                  /\ requests' \in Seq(Requests)
                  /\ Queued = Queued' \union {Head(requests)}
                  /\ Head(requests) \in Queued
<1>1. ASSUME NEW q \in Requests, requests' = Append(requests, q)
      PROVE  /\ requests' \in Seq(Requests)
             /\ Queued' = Queued \union {q}
  <2>1. /\ requests' \in Seq(Requests) /\ Len(requests') = Len(requests) + 1
        /\ \A i \in 1 .. Len(requests) : requests'[i] = requests[i]
        /\ requests'[Len(requests) + 1] = q
    BY <1>1
  <2>2. DOMAIN requests = 1 .. Len(requests) /\ DOMAIN requests' = 1 .. Len(requests')
    BY <2>1
  <2>3. Len(requests) \in Nat
    OBVIOUS
  <2>4. \A i : i \in 1 .. Len(requests) + 1 <=> i \in 1 .. Len(requests) \/ i = Len(requests) + 1
    BY <2>3
  <2> QED
    BY <2>1, <2>2, <2>4 DEF Queued
<1>2. ASSUME requests # <<>>, requests' = Tail(requests)
      PROVE  /\ requests' \in Seq(Requests)
             /\ Queued = Queued' \union {Head(requests)}
             /\ Head(requests) \in Queued
  <2>1. /\ requests' \in Seq(Requests) /\ Len(requests') = Len(requests) - 1
        /\ \A i \in 1 .. Len(requests) - 1 : requests'[i] = requests[i + 1]
        /\ requests[1] = Head(requests)
    BY <1>2
  <2>2. Len(requests) \in Nat /\ Len(requests) >= 1
    BY <1>2
  <2>3. DOMAIN requests = 1 .. Len(requests) /\ DOMAIN requests' = 1 .. Len(requests) - 1
    BY <2>1, <2>2
  <2>4. ASSUME NEW i \in 1 .. Len(requests) - 1 PROVE requests'[i] \in Queued
    <3>1. i + 1 \in 1 .. Len(requests)
      BY <2>2
    <3> QED
      BY <2>1, <2>3, <3>1 DEF Queued
  <2>5. ASSUME NEW i \in 1 .. Len(requests), i # 1 PROVE requests[i] \in Queued'
    <3>1. i - 1 \in 1 .. Len(requests) - 1 /\ requests'[i - 1] = requests[i]
      BY <2>1, <2>2, <2>5
    <3> QED
      BY <2>3, <3>1 DEF Queued
  <2>6. requests[1] \in Queued
    BY <2>2, <2>3 DEF Queued
  <2>7. \A q \in Queued' : q \in Queued
    BY <2>3, <2>4 DEF Queued
  <2>8. \A q \in Queued : q = requests[1] \/ q \in Queued'
    <3> SUFFICES ASSUME NEW i \in 1 .. Len(requests)
                 PROVE  requests[i] = requests[1] \/ requests[i] \in Queued'
      BY <2>3 DEF Queued
    <3> QED
      BY <2>5
  <2> QED
    BY <2>1, <2>6, <2>7, <2>8
<1> QED
  BY <1>1, <1>2

LEMMA AppendKeepsDistinct ==
    ASSUME Places, NEW q \in Requests, q \notin Queued, requests' = Append(requests, q)
    PROVE  \A i, k \in DOMAIN requests' : requests'[i] = requests'[k] => i = k
<1>1. /\ requests' \in Seq(Requests) /\ Len(requests') = Len(requests) + 1
      /\ \A i \in 1 .. Len(requests) : requests'[i] = requests[i]
      /\ requests'[Len(requests) + 1] = q
  BY DEF Places
<1>2. Len(requests) \in Nat /\ DOMAIN requests = 1 .. Len(requests)
  BY DEF Places
<1>3. DOMAIN requests' = 1 .. Len(requests) + 1
  BY <1>1
<1>4. \A i \in 1 .. Len(requests) : requests'[i] # q
  BY <1>1, <1>2 DEF Queued
<1> QED
  BY <1>1, <1>2, <1>3, <1>4 DEF Places

LEMMA TailKeepsDistinct ==
    ASSUME Places, requests # <<>>, requests' = Tail(requests)
    PROVE  /\ \A i, k \in DOMAIN requests' : requests'[i] = requests'[k] => i = k
           /\ Head(requests) \notin Queued'
<1>1. /\ requests' \in Seq(Requests) /\ Len(requests') = Len(requests) - 1
      /\ \A i \in 1 .. Len(requests) - 1 : requests'[i] = requests[i + 1]
      /\ requests[1] = Head(requests)
  BY DEF Places
<1>2. Len(requests) \in Nat /\ Len(requests) >= 1 /\ DOMAIN requests = 1 .. Len(requests)
  BY DEF Places
<1>3. DOMAIN requests' = 1 .. Len(requests) - 1
  BY <1>1, <1>2
<1>4. \A i \in DOMAIN requests' : i \in Nat /\ i >= 1 /\ i + 1 \in DOMAIN requests
  BY <1>2, <1>3
<1>5. \A i, k \in DOMAIN requests' : requests'[i] = requests'[k] => i + 1 = k + 1
  BY <1>1, <1>3, <1>4 DEF Places
<1>6. \A i \in DOMAIN requests' : requests'[i] # requests[1]
  <2> SUFFICES ASSUME NEW i \in DOMAIN requests', requests'[i] = requests[1] PROVE FALSE
    OBVIOUS
  <2>1. requests[i + 1] = requests[1] /\ 1 \in DOMAIN requests
    BY <1>1, <1>2, <1>3
  <2>2. i + 1 = 1
    BY <1>4, <2>1 DEF Places
  <2> QED
    BY <1>4, <2>2
<1> QED
  BY <1>1, <1>4, <1>5, <1>6 DEF Queued

LEMMA SendKeepsPlaces ==
    ASSUME Places, NEW q \in Requests, chan[q] # "open", Send(q)
    PROVE  Places' /\ chan' = [chan EXCEPT ![q] = "open"]
<1>1. q \notin Queued /\ q \notin reading
  BY DEF Places
<1>2. requests' = Append(requests, q) /\ chan' = [chan EXCEPT ![q] = "open"] /\ reading' = reading
  BY DEF Send
<1>3. requests' \in Seq(Requests) /\ Queued' = Queued \union {q}
  BY <1>2, QueueOps DEF Places
<1>4. \A i, k \in DOMAIN requests' : requests'[i] = requests'[k] => i = k
  BY <1>1, <1>2, AppendKeepsDistinct
<1>5. chan' \in [Requests -> Answers] /\ reading' \subseteq Requests
  BY <1>2, AnswersDiffer DEF Places
<1>6. \A p \in reading' : p \notin Queued' /\ chan'[p] = "open"
  BY <1>1, <1>2, <1>3 DEF Places
<1>7. \A p \in Queued' : chan'[p] = "open"
  BY <1>1, <1>2, <1>3 DEF Places
<1> QED
  BY <1>2, <1>3, <1>4, <1>5, <1>6, <1>7 DEF Places

LEMMA HandleRawKeepsPlaces ==
    ASSUME Places, HandleRaw PROVE Places' /\ chan' = chan
<1>1. /\ requests # <<>> /\ requests' = Tail(requests)
      /\ reading' = reading \union {Head(requests)} /\ chan' = chan
  BY DEF HandleRaw
<1>2. /\ requests' \in Seq(Requests) /\ Queued = Queued' \union {Head(requests)}
      /\ Head(requests) \in Queued
  BY <1>1, QueueOps DEF Places
<1>3. /\ \A i, k \in DOMAIN requests' : requests'[i] = requests'[k] => i = k
      /\ Head(requests) \notin Queued'
  BY <1>1, TailKeepsDistinct
<1>4. Head(requests) \in Requests
  BY <1>1 DEF Places
<1> QED
  BY <1>1, <1>2, <1>3, <1>4 DEF Places

LEMMA HandleEntryKeepsPlaces ==
    ASSUME Places, HandleEntry
    PROVE  /\ Places'
           /\ \A q \in Requests : chan'[q] = chan[q] \/ (chan[q] = "open" /\ chan'[q] = "dropped")
<1>1. /\ requests' = <<>> /\ reading' = reading
      /\ chan' = [q \in Requests |-> IF q \in Queued THEN "dropped" ELSE chan[q]]
  BY DEF HandleEntry
<1>2. Queued' = {} /\ requests' \in Seq(Requests) /\ DOMAIN requests' = {}
  BY <1>1 DEF Queued
<1>3. chan' \in [Requests -> Answers] /\ "dropped" \in Answers
  BY <1>1, AnswersDiffer DEF Places, Closed
<1>4. \A q \in reading' : q \notin Queued' /\ chan'[q] = "open"
  BY <1>1, <1>2 DEF Places
<1>5. \A q \in Requests : chan'[q] = chan[q] \/ (chan[q] = "open" /\ chan'[q] = "dropped")
  BY <1>1 DEF Places
<1> QED
  BY <1>1, <1>2, <1>3, <1>4, <1>5 DEF Places

LEMMA ReadKeepsPlaces ==
    ASSUME Places, NEW j \in Jobs, Read(j)
    PROVE  /\ Places'
           /\ \A q \in Requests : chan'[q] = chan[q] \/ (chan[q] = "open" /\ chan'[q] \notin {"none", "open"})
<1>1. PICK r \in {"read", "part", "error"} : chan' = [chan EXCEPT ![Raw(j)] = r]
  BY DEF Read, GetFile
<1>2. Raw(j) \in reading /\ reading' = reading \ {Raw(j)} /\ requests' = requests
  BY DEF Read, GetFile
<1>3. Queued' = Queued
  BY <1>2 DEF Queued
<1>4. chan' \in [Requests -> Answers]
  BY <1>1, AnswersDiffer DEF Places, Closed
<1> QED
  BY <1>1, <1>2, <1>3, <1>4 DEF Places

(* Answers that arrive change no job; a closed channel stays as it is. *)
LEMMA AnswersArrive ==
    ASSUME OneRequest, UNCHANGED <<job, vp>>,
           \A q \in Requests : \/ chan'[q] = chan[q]
                               \/ chan[q] = "open" /\ chan'[q] \notin {"none", "open"}
    PROVE  JobsAndChannels'
BY RequestsDiffer, AnswersDiffer DEF OneRequest, JobsAndChannels

(* A job goes on without touching a channel. *)
LEMMA StagesChange ==
    ASSUME OneRequest, UNCHANGED chan,
           vp' \in [Jobs -> VpActive \union {"none", "gone"}],
           \A j \in Jobs :
               /\ job'[j] \in Unsent => job[j] \in Unsent
               /\ vp'[j] # "none" => job'[j] \notin Started
               /\ vp'[j] \in {"none", "open"} => vp[j] \in {"none", "open"}
               /\ vp'[j] = "entries" => vp[j] = "entries" \/ chan[Entry(j)] # "open"
               /\ job'[j] \in {"stat", "ok"} =>
                      job[j] \in {"stat", "ok"} \/ chan[Raw(j)] \in Closed
    PROVE  JobsAndChannels'
BY DEF OneRequest, JobsAndChannels, Raw, Entry

LEMMA PlacesUnchanged ==
    ASSUME Places, UNCHANGED <<requests, reading, chan>> PROVE Places'
BY DEF Places, Queued

LEMMA IndexFileKeepsChannels ==
    ASSUME OneRequest, NEW j \in Jobs, FileStep(j) PROVE Places' /\ JobsAndChannels'
<1> USE DEF OneRequest, OncePerSource, TasksType
<1>1. CASE SendRaw(j) /\ Send(Raw(j)) /\ Goto(j, "hash")
  <2>1. chan[Raw(j)] = "none" /\ job[j] = "send"
    BY <1>1 DEF JobsAndChannels, SendRaw, Unsent
  <2>2. Places' /\ chan' = [chan EXCEPT ![Raw(j)] = "open"]
    BY <1>1, <2>1, SendKeepsPlaces, RequestsDiffer
  <2>3. job' = [job EXCEPT ![j] = "hash"] /\ vp' = vp
    BY <1>1 DEF SendRaw, Goto
  <2>4. vp[j] = "none"
    BY <2>1 DEF JobsAndChannels, Started, Unsent
  <2> QED
    BY <2>1, <2>2, <2>3, <2>4, RequestsDiffer DEF JobsAndChannels, Places, Started, Unsent
<1>2. CASE SendRaw(j) /\ SendFails /\ Goto(j, "panic")
  <2>1. UNCHANGED <<requests, reading, chan, vp>> /\ job' = [job EXCEPT ![j] = "panic"]
    BY <1>2 DEF SendRaw, SendFails, Goto, readerVars
  <2> QED
    BY <2>1, PlacesUnchanged, StagesChange DEF JobsAndChannels, Started, Unsent
<1>3. CASE HashPanics(j)
  <2>1. UNCHANGED <<requests, reading, chan, vp>> /\ job' = [job EXCEPT ![j] = "panic"]
    BY <1>3 DEF HashPanics, Goto, readerVars
  <2> QED
    BY <2>1, PlacesUnchanged, StagesChange DEF JobsAndChannels, Started, Unsent
<1>4. CASE Insert(j)
  <2>1. /\ UNCHANGED <<requests, reading, chan>>
        /\ job[j] = "hash" /\ chan[Raw(j)] \in Closed
    BY <1>4 DEF Insert, Hashed, readerVars
  <2>2. vp[j] = "none"
    BY <2>1 DEF JobsAndChannels, Started
  <2>3. CASE UNCHANGED vp
    <3>1. job' = [job EXCEPT ![j] = "panic"] \/ job' = [job EXCEPT ![j] = "stat"]
      BY <1>4 DEF Insert, Goto
    <3> QED
      BY <2>1, <2>2, <2>3, <3>1, PlacesUnchanged, StagesChange
         DEF JobsAndChannels, Started, Unsent
  <2>4. CASE vp' = [vp EXCEPT ![j] = "open"] /\ job' = [job EXCEPT ![j] = "stat"]
    <3>1. vp' \in [Jobs -> VpActive \union {"none", "gone"}]
      BY <2>4 DEF JobsAndChannels, VpActive
    <3> QED
      BY <2>1, <2>2, <2>4, <3>1, PlacesUnchanged, StagesChange
         DEF JobsAndChannels, Started, Unsent
  <2> QED
    BY <1>4, <2>3, <2>4 DEF Insert, Goto
<1>5. CASE Stat(j)
  <2>1. /\ UNCHANGED <<requests, reading, chan, vp>> /\ job[j] = "stat"
        /\ job' = [job EXCEPT ![j] = "ok"] \/ job' = [job EXCEPT ![j] = "err"]
    BY <1>5 DEF Stat, Goto, readerVars
  <2> QED
    BY <2>1, PlacesUnchanged, StagesChange DEF JobsAndChannels, Started, Unsent
<1> QED
  BY <1>1, <1>2, <1>3, <1>4, <1>5 DEF FileStep, SendRaw

LEMMA IndexVpKeepsChannels ==
    ASSUME OneRequest, NEW j \in Jobs, VpStep(j) PROVE Places' /\ JobsAndChannels'
<1> USE DEF OneRequest, OncePerSource, TasksType
<1>1. CASE SendEntry(j) /\ Send(Entry(j)) /\ GotoVp(j, "wait")
  <2>1. vp[j] = "entries" /\ chan[Entry(j)] # "open"
    BY <1>1 DEF JobsAndChannels, SendEntry
  <2>2. Places' /\ chan' = [chan EXCEPT ![Entry(j)] = "open"]
    BY <1>1, <2>1, SendKeepsPlaces, RequestsDiffer
  <2>3. vp' = [vp EXCEPT ![j] = "wait"] /\ job' = job
    BY <1>1 DEF SendEntry, GotoVp
  <2>4. vp' \in [Jobs -> VpActive \union {"none", "gone"}]
    BY <2>3 DEF JobsAndChannels, VpActive
  <2> QED
    BY <2>1, <2>2, <2>3, <2>4, RequestsDiffer DEF JobsAndChannels, Places
<1>2. CASE \/ SendEntry(j) /\ SendFails /\ GotoVp(j, "gone")
           \/ OpenVp(j) \/ EntryHashed(j) \/ InsertVp(j) \/ LinkVp(j)
  <2>1. UNCHANGED <<requests, reading, chan, job>>
    BY <1>2 DEF SendEntry, SendFails, OpenVp, EntryHashed, InsertVp, LinkVp, readerVars
  <2>2. /\ vp[j] # "none"
        /\ \/ vp' = [vp EXCEPT ![j] = "gone"] \/ vp' = [vp EXCEPT ![j] = "link"]
           \/ vp' = [vp EXCEPT ![j] = "entries"] /\ chan[Entry(j)] # "open"
    BY <1>2, AnswersDiffer
       DEF SendEntry, OpenVp, EntryHashed, InsertVp, LinkVp, GotoVp, JobsAndChannels
  <2>3. vp' \in [Jobs -> VpActive \union {"none", "gone"}]
    BY <2>2 DEF JobsAndChannels, VpActive
  <2>4. \A i \in Jobs :
            /\ vp'[i] # "none" => job'[i] \notin Started
            /\ vp'[i] \in {"none", "open"} => vp[i] \in {"none", "open"}
            /\ vp'[i] = "entries" => vp[i] = "entries" \/ chan[Entry(i)] # "open"
    BY <2>1, <2>2 DEF JobsAndChannels
  <2> QED
    BY <2>1, <2>3, <2>4, PlacesUnchanged, StagesChange
<1> QED
  BY <1>1, <1>2 DEF VpStep, SendEntry

(* A job starts from nothing: its source has not been indexed before. *)
LEMMA SpawnKeepsChannels ==
    ASSUME OneRequest, NEW s \in Sources, src[s] \notin Took, NEW fs,
           Spawn({s} \X fs), UNCHANGED <<chan, vp>>
    PROVE  JobsAndChannels'
<1>1. \A j \in Jobs : j \in {s} \X fs => job[j] = "none"
  BY JobIsPair DEF OneRequest, OncePerSource
<1>2. job' = [j \in Jobs |-> IF j \in {s} \X fs THEN "send" ELSE job[j]]
  BY DEF Spawn
<1> QED
  BY <1>1, <1>2, StagesChange DEF OneRequest, JobsAndChannels, Started, Unsent

LEMMA AbortKeepsChannels ==
    ASSUME OneRequest, NEW js \in SUBSET Jobs, Abort(js), UNCHANGED chan
    PROVE  JobsAndChannels'
<1>1. /\ vp' = vp
      /\ \A j \in Jobs : job'[j] = job[j] \/ job'[j] = "aborted"
  BY DEF Abort
<1> QED
  BY <1>1, StagesChange DEF OneRequest, JobsAndChannels, Started, Unsent

LEMMA OneRequestStays == OneRequest /\ [Next]_vars => OneRequest'
<1> SUFFICES ASSUME OneRequest, [Next]_vars PROVE OneRequest'
  OBVIOUS
<1>1. OncePerSource'
  BY OncePerSourceStays DEF OneRequest
<1> DEFINE Channels == Places /\ JobsAndChannels
<1> SUFFICES Channels'
  BY <1>1 DEF OneRequest
<1> USE DEF OneRequest, readerVars, jobVars, indexVars, fetchVars
<1>2. ASSUME NEW s \in Sources, Download(s) PROVE Channels'
  <2>1. UNCHANGED <<requests, reading, chan, vp>> /\ src[s] \notin Took
    BY <1>2 DEF Download, Took
  <2>2. CASE UNCHANGED job
    BY <2>1, <2>2, PlacesUnchanged DEF JobsAndChannels
  <2>3. CASE Spawn({s} \X Contents[s])
    BY <2>1, <2>3, SpawnKeepsChannels, PlacesUnchanged
  <2> QED
    BY <1>2, <2>2, <2>3 DEF Download
<1>3. ASSUME NEW s \in Sources, WalkDir(s) PROVE Channels'
  <2>1. PICK fs \in SUBSET (Extracted \union Arriving) : Spawn({s} \X fs)
    BY <1>3 DEF WalkDir
  <2> QED
    BY <1>3, <2>1, SpawnKeepsChannels, PlacesUnchanged DEF WalkDir, Took
<1>4. ASSUME NEW j \in Jobs, IndexFile(j) PROVE Channels'
  BY <1>4, IndexFileKeepsChannels DEF IndexFile
<1>5. ASSUME NEW j \in Jobs, IndexVp(j) PROVE Channels'
  BY <1>5, IndexVpKeepsChannels DEF IndexVp
<1>6. ASSUME NEW j \in Jobs, DbFails(j) PROVE Channels'
  <2>1. UNCHANGED <<requests, reading, chan, vp>> /\ job' = [job EXCEPT ![j] = "err"]
    BY <1>6 DEF DbFails, Goto
  <2>2. \A i \in Jobs : job'[i] = job[i] \/ job'[i] = "err"
    BY <2>1 DEF OncePerSource, TasksType
  <2> QED
    BY <2>1, <2>2, PlacesUnchanged, StagesChange DEF JobsAndChannels, Started, Unsent
<1>7. ASSUME NEW j \in Jobs, VpDbFails(j) PROVE Channels'
  <2>1. UNCHANGED <<requests, reading, chan, job>> /\ vp' = [vp EXCEPT ![j] = "gone"]
        /\ vp[j] = "entries"
    BY <1>7 DEF VpDbFails, GotoVp
  <2>2. vp' \in [Jobs -> VpActive \union {"none", "gone"}]
    BY <2>1 DEF JobsAndChannels
  <2>3. \A i \in Jobs : \/ vp'[i] = vp[i]
                        \/ vp'[i] = "gone" /\ vp[i] # "none"
    BY <2>1 DEF JobsAndChannels
  <2> QED
    BY <2>1, <2>2, <2>3, PlacesUnchanged, StagesChange DEF JobsAndChannels
<1>8. ASSUME NEW j \in Jobs, Read(j) PROVE Channels'
  BY <1>8, ReadKeepsPlaces, AnswersArrive, RequestsDiffer DEF Read
<1>9. CASE Pool
  <2>1. CASE HandleRaw
    BY <1>9, <2>1, HandleRawKeepsPlaces, AnswersArrive DEF Pool
  <2>2. CASE HandleEntry
    BY <1>9, <2>2, HandleEntryKeepsPlaces, AnswersArrive DEF Pool
  <2> QED
    BY <1>9, <2>1, <2>2 DEF Pool
<1>10. ASSUME NEW s \in Sources, IndexFails(s) \/ WalkPanics(s) PROVE Channels'
  <2>1. JobsOf(s) \in SUBSET Jobs /\ Abort(JobsOf(s)) /\ UNCHANGED readerVars
    BY <1>10 DEF IndexFails, WalkPanics, JobsOf
  <2>2. JobsAndChannels'
    BY <2>1, AbortKeepsChannels
  <2> QED
    BY <2>1, <2>2, PlacesUnchanged
<1>11. CASE Cancel
  <2>1. Abort(Jobs) /\ UNCHANGED readerVars
    BY <1>11 DEF Cancel
  <2>2. JobsAndChannels'
    BY <2>1, AbortKeepsChannels
  <2> QED
    BY <2>1, <2>2, PlacesUnchanged
<1>12. ASSUME UNCHANGED indexVars PROVE Channels'
  BY <1>12, PlacesUnchanged DEF JobsAndChannels
<1>13. ASSUME NEW s \in Sources,
              \/ Ask(s) \/ FetchFails(s) \/ ExtractionFailed(s) \/ Extract(s) \/ Indexed(s)
       PROVE  Channels'
  BY <1>12, <1>13 DEF Ask, FetchFails, ExtractionFailed, Extract, Indexed
<1>14. CASE Finish \/ UNCHANGED vars
  BY <1>12, <1>14 DEF Finish, vars
<1> QED
  BY <1>2, <1>3, <1>4, <1>5, <1>6, <1>7, <1>8, <1>9, <1>10, <1>11, <1>13, <1>14
     DEF Next, SourceStep, IndexFault

LEMMA OneRequestInit == Init => OneRequest
<1> SUFFICES ASSUME Init PROVE OneRequest
  OBVIOUS
<1>1. requests = <<>> /\ Queued = {} /\ DOMAIN requests = {}
  BY DEF Init, IndexerInit, ReadersInit, Queued
<1> QED
  BY <1>1, OncePerSourceInit, AnswersDiffer, RequestsDiffer
     DEF Init, IndexerInit, ReadersInit, OneRequest, Places, JobsAndChannels, Started, Unsent

(* The pool and its channel change in one of a few ways. *)
LEMMA ReadersMove ==
    ASSUME [Next]_vars
    PROVE  \/ UNCHANGED readerVars
           \/ \E q \in Requests : Send(q)
           \/ HandleRaw
           \/ HandleEntry
           \/ \E j \in Jobs : Read(j)
<1> USE RequestsDiffer DEF indexVars, fetchVars
<1>1. ASSUME NEW s \in Sources, SourceStep(s) \/ Extract(s) \/ FetchFails(s) \/ WalkPanics(s)
      PROVE  UNCHANGED readerVars
  BY <1>1 DEF SourceStep, Ask, Download, ExtractionFailed, WalkDir, Indexed, IndexFails,
              Extract, FetchFails, WalkPanics
<1>2. ASSUME NEW j \in Jobs, IndexFile(j)
      PROVE  UNCHANGED readerVars \/ Send(Raw(j))
  BY <1>2 DEF IndexFile, FileStep, SendRaw, SendFails, HashPanics, Insert, Stat
<1>3. ASSUME NEW j \in Jobs, IndexVp(j)
      PROVE  UNCHANGED readerVars \/ Send(Entry(j))
  BY <1>3 DEF IndexVp, VpStep, OpenVp, SendEntry, SendFails, EntryHashed, InsertVp, LinkVp
<1>4. ASSUME NEW j \in Jobs, IndexFault(j) PROVE UNCHANGED readerVars
  BY <1>4 DEF IndexFault, DbFails, VpDbFails
<1>5. CASE Pool
  BY <1>5 DEF Pool
<1>6. CASE Finish \/ Cancel \/ UNCHANGED vars
  BY <1>6 DEF Finish, Cancel, vars
<1> QED
  BY <1>1, <1>2, <1>3, <1>4, <1>5, <1>6 DEF Next

(***************************************************************************)
(* Why a channel closed before the end of the file: the pool is gone, or   *)
(* the file was not whole.  A job runs once its source is indexed, so what *)
(* is still being extracted then belongs to another archive.               *)
(***************************************************************************)
Explained ==
    /\ \A q \in Requests : chan[q] = "dropped" => pool = "dead"
    /\ \A j \in Jobs : chan[Raw(j)] = "part" =>
          \/ j[1] \notin Archives
          \/ \E t \in Archives \ {j[1]} : j[2] \in Contents[t]

LEMMA ExplainedStays == OneRequest /\ Explained /\ [Next]_vars => Explained'
<1> SUFFICES ASSUME OneRequest, Explained, [Next]_vars PROVE Explained'
  OBVIOUS
<1> USE RequestsDiffer DEF OneRequest, Places, Explained
<1>1. CASE UNCHANGED readerVars
  BY <1>1 DEF readerVars
<1>2. ASSUME NEW q \in Requests, Send(q) PROVE Explained'
  BY <1>2 DEF Send
<1>3. CASE HandleRaw
  BY <1>3 DEF HandleRaw
<1>4. CASE HandleEntry
  BY <1>4 DEF HandleEntry
<1>5. ASSUME NEW j \in Jobs, Read(j) PROVE Explained'
  <2>1. chan[Raw(j)] = "open"
    BY <1>5 DEF Read, GetFile
  <2>2. src[j[1]] \in Took
    <3>1. job[j] # "none"
      BY <2>1 DEF JobsAndChannels, Unsent
    <3> QED
      BY <3>1 DEF OncePerSource
  <2>3. j[2] \in Arriving => \E t \in Archives \ {j[1]} : j[2] \in Contents[t]
    BY <2>2 DEF Arriving, FilesOf, Took
  <2>4. PICK r \in {"read", "part", "error"} :
          /\ chan' = [chan EXCEPT ![Raw(j)] = r]
          /\ r = "part" => MayBeIncomplete(j)
    BY <1>5 DEF Read, GetFile
  <2>5. pool' = pool
    BY <1>5 DEF Read, GetFile
  <2> QED
    BY <2>3, <2>4, <2>5 DEF MayBeIncomplete
<1> QED
  BY <1>1, <1>2, <1>3, <1>4, <1>5, ReadersMove

(***************************************************************************)
(* In any schedule of the tasks a hash is that of the whole file unless    *)
(* the pool was dead, the download was not flushed, or another archive was *)
(* writing the file: a failed read never counts as the end of a file.      *)
(***************************************************************************)
THEOREM WrongHashesAreExplained == Spec => []WrongHashesHaveKnownCauses
<1>1. Init => Explained
  BY RequestsDiffer DEF Init, IndexerInit, ReadersInit, Explained
<1>2. OneRequest /\ Explained => WrongHashesHaveKnownCauses
  BY RequestsDiffer
     DEF OneRequest, JobsAndChannels, Explained, Closed, WrongHashesHaveKnownCauses
<1> QED
  BY <1>1, <1>2, OneRequestInit, OneRequestStays, ExplainedStays, PTL DEF Spec
-----------------------------------------------------------------------------
(***************************************************************************)
(* Type correctness.  Beyond OneRequest it takes what the limits and the   *)
(* lock rest on: only a raw file has a task of its own, only a VP has      *)
(* entries left and one of them when it waits for one, the write lock is   *)
(* held by a task that is where it holds it, and the downloads under way   *)
(* are finitely many, which nothing says of the sources.                   *)
(***************************************************************************)
Downloads == {s \in Sources : src[s] \in InFlight}

PoolHolds ==
    /\ pool \in {"running", "dead"}
    /\ Len(requests) <= QueueLimit
    /\ \A q \in reading : q[2] = "raw"

EntriesLeft ==
    /\ left \in [Jobs -> Nat]
    /\ \A j \in Jobs : /\ vp[j] # "none" => j \in Vps
                       /\ vp[j] = "wait" => left[j] > 0

LockHeld ==
    \/ lock = None
    \/ \E j \in Jobs : lock = Raw(j) /\ job[j] = "stat"
    \/ \E j \in Jobs : lock = Entry(j) /\ vp[j] = "link"

RoomKept ==
    /\ acquire \in {"running", "finished", "failed", "panicked", "cancelled"}
    /\ IsFiniteSet(Downloads)
    /\ Cardinality(Downloads) <= Parallel

TypesInv == OneRequest /\ PoolHolds /\ EntriesLeft /\ LockHeld /\ RoomKept

LEMMA PoolHoldsStays == OneRequest /\ PoolHolds /\ [Next]_vars => PoolHolds'
<1> SUFFICES ASSUME OneRequest, PoolHolds, [Next]_vars PROVE PoolHolds'
  OBVIOUS
<1> USE DEF PoolHolds, OneRequest, Places
<1>1. CASE UNCHANGED readerVars
  BY <1>1 DEF readerVars
<1>2. ASSUME NEW q \in Requests, Send(q) PROVE PoolHolds'
  <2>1. requests' = Append(requests, q) /\ Len(requests) < QueueLimit
    BY <1>2 DEF Send
  <2>2. Len(requests') = Len(requests) + 1 /\ Len(requests) \in Nat
    BY <2>1
  <2> QED
    BY <1>2, <2>1, <2>2, QueueAssumption DEF Send
<1>3. CASE HandleRaw
  <2>1. requests # <<>> /\ requests' = Tail(requests) /\ Head(requests)[2] = "raw"
    BY <1>3 DEF HandleRaw
  <2>2. Len(requests') = Len(requests) - 1 /\ Len(requests) \in Nat
    BY <2>1
  <2> QED
    BY <1>3, <2>1, <2>2, QueueAssumption DEF HandleRaw
<1>4. CASE HandleEntry
  BY <1>4, QueueAssumption DEF HandleEntry
<1>5. ASSUME NEW j \in Jobs, Read(j) PROVE PoolHolds'
  BY <1>5 DEF Read, GetFile
<1> QED
  BY <1>1, <1>2, <1>3, <1>4, <1>5, ReadersMove

(* Whatever leaves the lock's holder where it is leaves the lock held. *)
LEMMA HolderStays ==
    ASSUME LockHeld, UNCHANGED lock,
           \A j \in Jobs : job[j] = "stat" => job'[j] = "stat",
           \A j \in Jobs : vp[j] = "link" => vp'[j] = "link"
    PROVE  LockHeld'
BY DEF LockHeld, Raw, Entry

LEMMA AbortReleases ==
    ASSUME LockHeld, NEW js \in SUBSET Jobs, Abort(js)
    PROVE  LockHeld'
<1> DEFINE stopped == {j \in js : job[j] \in Active}
<1>1. /\ job' = [j \in Jobs |-> IF j \in stopped THEN "aborted" ELSE job[j]]
      /\ lock' = IF \E j \in stopped : lock = Raw(j) THEN None ELSE lock
      /\ vp' = vp
  BY DEF Abort
<1>2. CASE \E j \in stopped : lock = Raw(j)
  BY <1>1, <1>2 DEF LockHeld
<1>3. CASE ~ \E j \in stopped : lock = Raw(j)
  BY <1>1, <1>3 DEF LockHeld, Raw, Entry
<1> QED
  BY <1>2, <1>3

LEMMA IndexFileHolds ==
    ASSUME OneRequest, EntriesLeft, LockHeld, NEW j \in Jobs, FileStep(j)
    PROVE  EntriesLeft' /\ LockHeld'
<1> USE DEF OneRequest, OncePerSource, TasksType, EntriesLeft, JobsAndChannels, Goto
<1>1. CASE SendRaw(j) \/ HashPanics(j)
  <2>1. /\ UNCHANGED <<vp, left, lock>> /\ job[j] # "stat"
        /\ \E l : job' = [job EXCEPT ![j] = l]
    BY <1>1 DEF SendRaw, HashPanics
  <2> QED
    BY <2>1, HolderStays
<1>2. CASE Insert(j)
  <2>1. /\ left' = left /\ lock = None /\ job[j] = "hash"
        /\ \/ vp' = vp /\ lock' = lock
           \/ /\ job' = [job EXCEPT ![j] = "stat"] /\ lock' = Raw(j)
              /\ vp' = IF j \in Vps THEN [vp EXCEPT ![j] = "open"] ELSE vp
    BY <1>2 DEF Insert, Hashed
  <2>2. LockHeld'
    BY <2>1 DEF LockHeld, Raw, Entry
  <2> QED
    BY <2>1, <2>2
<1>3. CASE Stat(j)
  <2>1. /\ UNCHANGED <<vp, left>> /\ lock' = Drop(Raw(j))
        /\ \A i \in Jobs \ {j} : job'[i] = job[i]
    BY <1>3 DEF Stat
  <2>2. LockHeld'
    BY <2>1, RequestsDiffer DEF LockHeld, Drop
  <2> QED
    BY <2>1, <2>2
<1> QED
  BY <1>1, <1>2, <1>3 DEF FileStep

LEMMA IndexVpHolds ==
    ASSUME OneRequest, EntriesLeft, LockHeld, NEW j \in Jobs, VpStep(j) \/ VpDbFails(j)
    PROVE  EntriesLeft' /\ LockHeld'
<1> USE DEF OneRequest, OncePerSource, TasksType, EntriesLeft, JobsAndChannels, GotoVp
<1>1. CASE OpenVp(j)
  <2>1. j \in Vps /\ Entries[j] \in Nat
    BY <1>1 DEF OpenVp
  <2>2. LockHeld'
    BY <1>1, HolderStays DEF OpenVp
  <2> QED
    BY <1>1, <2>1, <2>2 DEF OpenVp
<1>2. CASE SendEntry(j)
  <2>1. LockHeld'
    BY <1>2, HolderStays DEF SendEntry
  <2> QED
    BY <1>2, <2>1 DEF SendEntry
<1>3. CASE EntryHashed(j)
  <2>1. left[j] - 1 \in Nat
    BY <1>3 DEF EntryHashed
  <2>2. LockHeld'
    BY <1>3, HolderStays DEF EntryHashed
  <2> QED
    BY <1>3, <2>1, <2>2 DEF EntryHashed
<1>4. CASE InsertVp(j)
  <2>1. vp[j] = "entries" /\ UNCHANGED <<job, left>>
    BY <1>4 DEF InsertVp
  <2>2. CASE vp' = [vp EXCEPT ![j] = "link"] /\ lock' = Entry(j)
    BY <2>1, <2>2 DEF LockHeld
  <2>3. CASE vp' = [vp EXCEPT ![j] = "gone"] /\ lock' = lock
    <3>1. LockHeld'
      BY <2>1, <2>3, HolderStays
    <3> QED
      BY <2>1, <2>3, <3>1
  <2> QED
    BY <1>4, <2>2, <2>3 DEF InsertVp
<1>5. CASE VpDbFails(j)
  <2>1. LockHeld'
    BY <1>5, HolderStays DEF VpDbFails
  <2> QED
    BY <1>5, <2>1 DEF VpDbFails
<1>6. CASE LinkVp(j)
  <2>1. /\ UNCHANGED <<job, left>> /\ lock' = Drop(Entry(j)) /\ vp[j] = "link"
        /\ vp' = [vp EXCEPT ![j] = "gone"]
    BY <1>6 DEF LinkVp
  <2>2. LockHeld'
    BY <2>1, RequestsDiffer DEF LockHeld, Drop
  <2> QED
    BY <2>1, <2>2
<1> QED
  BY <1>1, <1>2, <1>3, <1>4, <1>5, <1>6 DEF VpStep

LEMMA TasksHold ==
    ASSUME OneRequest, EntriesLeft, LockHeld, [Next]_vars
    PROVE  EntriesLeft' /\ LockHeld'
<1> USE DEF indexVars, jobVars, fetchVars
<1>1. ASSUME UNCHANGED jobVars PROVE EntriesLeft' /\ LockHeld'
  BY <1>1 DEF EntriesLeft, LockHeld
<1>2. ASSUME NEW s \in Sources, NEW fs, src[s] \notin Took, Spawn({s} \X fs),
             UNCHANGED <<vp, left, lock>>
      PROVE  EntriesLeft' /\ LockHeld'
  <2>1. \A j \in Jobs : job[j] = "stat" => job'[j] = "stat"
    BY <1>2, JobIsPair DEF Spawn, OneRequest, OncePerSource
  <2> QED
    BY <1>2, <2>1, HolderStays DEF EntriesLeft
<1>3. ASSUME NEW js \in SUBSET Jobs, Abort(js) PROVE EntriesLeft' /\ LockHeld'
  BY <1>3, AbortReleases DEF Abort, EntriesLeft
<1>4. ASSUME NEW s \in Sources, SourceStep(s) \/ Extract(s) \/ FetchFails(s) \/ WalkPanics(s)
      PROVE  EntriesLeft' /\ LockHeld'
  <2>1. CASE Download(s)
    BY <1>1, <1>2, <2>1 DEF Download, Took
  <2>2. CASE WalkDir(s)
    BY <1>2, <2>2 DEF WalkDir, Took
  <2>3. CASE IndexFails(s) \/ WalkPanics(s)
    BY <1>3, <2>3 DEF IndexFails, WalkPanics, JobsOf
  <2>4. CASE \/ Ask(s) \/ ExtractionFailed(s) \/ Indexed(s) \/ Extract(s) \/ FetchFails(s)
    BY <1>1, <2>4 DEF Ask, ExtractionFailed, Indexed, Extract, FetchFails
  <2> QED
    BY <1>4, <2>1, <2>2, <2>3, <2>4 DEF SourceStep
<1>5. ASSUME NEW j \in Jobs, IndexFile(j) PROVE EntriesLeft' /\ LockHeld'
  BY <1>5, IndexFileHolds DEF IndexFile
<1>6. ASSUME NEW j \in Jobs, IndexVp(j) \/ VpDbFails(j) PROVE EntriesLeft' /\ LockHeld'
  BY <1>6, IndexVpHolds DEF IndexVp
<1>7. ASSUME NEW j \in Jobs, DbFails(j) PROVE EntriesLeft' /\ LockHeld'
  BY <1>7, HolderStays
     DEF DbFails, Goto, EntriesLeft, OneRequest, OncePerSource, TasksType
<1>8. ASSUME NEW j \in Jobs, Read(j) PROVE EntriesLeft' /\ LockHeld'
  BY <1>1, <1>8 DEF Read
<1>9. CASE Pool \/ Finish \/ UNCHANGED vars
  BY <1>1, <1>9 DEF Pool, Finish, vars
<1>10. CASE Cancel
  BY <1>3, <1>10 DEF Cancel
<1> QED
  BY <1>4, <1>5, <1>6, <1>7, <1>8, <1>9, <1>10 DEF Next, IndexFault

LEMMA RoomKeptStays ==
    ASSUME OneRequest, RoomKept, [Next]_vars
    PROVE  RoomKept'
<1> USE DEF OneRequest, OncePerSource, TasksType, RoomKept, indexVars, fetchVars
<1>1. ASSUME UNCHANGED src,
             acquire' \in {"running", "finished", "failed", "panicked", "cancelled"}
      PROVE  RoomKept'
  BY <1>1 DEF Downloads
<1>2. ASSUME NEW s \in Sources, Ask(s) PROVE RoomKept'
  <2>1. src' = [src EXCEPT ![s] = "asking"] /\ acquire' = acquire /\ src[s] = "planned"
    BY <1>2 DEF Ask, To, Planned
  <2>2. Downloads' = Downloads \union {s} /\ s \notin Downloads
    BY <2>1 DEF Downloads, InFlight
  <2>3. Cardinality(Downloads) < Parallel
    BY <1>2 DEF Ask, HasRoom, Downloads
  <2>4. /\ IsFiniteSet(Downloads \union {s})
        /\ Cardinality(Downloads \union {s}) = Cardinality(Downloads) + 1
    BY <2>2, FS_AddElement
  <2>5. Cardinality(Downloads) \in Nat
    BY FS_CardinalityType
  <2> QED
    BY <2>1, <2>2, <2>3, <2>4, <2>5
<1>3. ASSUME NEW s \in Sources, NEW l, To(s, l), src[s] \in InFlight \/ l \notin InFlight,
             acquire' = acquire
      PROVE  RoomKept'
  <2>1. Downloads' \in SUBSET Downloads
    BY <1>3 DEF Downloads, To
  <2>2. IsFiniteSet(Downloads') /\ Cardinality(Downloads') <= Cardinality(Downloads)
    BY <2>1, FS_Subset
  <2>3. Cardinality(Downloads) \in Nat /\ Cardinality(Downloads') \in Nat
    BY <2>2, FS_CardinalityType
  <2> QED
    BY <1>3, <2>2, <2>3
<1>4. ASSUME NEW s \in Sources, SourceStep(s) \/ Extract(s) \/ FetchFails(s) \/ WalkPanics(s)
      PROVE  RoomKept'
  <2>1. CASE Ask(s)
    BY <1>2, <2>1
  <2>2. CASE Download(s) \/ WalkDir(s) \/ Extract(s) \/ Indexed(s)
    BY <1>3, <2>2 DEF Download, WalkDir, Extract, Indexed, InFlight
  <2>3. CASE ExtractionFailed(s) \/ IndexFails(s) \/ FetchFails(s) \/ WalkPanics(s)
    BY <1>1, <2>3 DEF ExtractionFailed, IndexFails, FetchFails, WalkPanics
  <2> QED
    BY <1>4, <2>1, <2>2, <2>3 DEF SourceStep
<1>5. ASSUME NEW j \in Jobs, IndexFile(j) \/ IndexVp(j) \/ IndexFault(j) \/ Read(j)
      PROVE  RoomKept'
  BY <1>1, <1>5 DEF IndexFile, IndexVp, IndexFault, Read
<1>6. CASE Pool \/ Finish \/ Cancel \/ UNCHANGED vars
  BY <1>1, <1>6 DEF Pool, Finish, Cancel, vars
<1> QED
  BY <1>4, <1>5, <1>6 DEF Next

LEMMA TypesInit == Init => TypesInv
<1> SUFFICES ASSUME Init PROVE TypesInv
  OBVIOUS
<1>1. OneRequest
  BY OneRequestInit
<1>2. Downloads = {}
  BY DEF Init, Downloads, InFlight
<1>3. RoomKept
  BY <1>2, FS_EmptySet DEF Init, RoomKept
<1>4. PoolHolds
  BY QueueAssumption DEF Init, IndexerInit, ReadersInit, PoolHolds
<1>5. EntriesLeft /\ LockHeld
  BY DEF Init, IndexerInit, EntriesLeft, LockHeld
<1> QED
  BY <1>1, <1>3, <1>4, <1>5 DEF TypesInv

(***************************************************************************)
(* The types, and with them the limits of the code: never more than        *)
(* Parallel downloads at a time nor more requests than the channel of the  *)
(* pool holds, a counter of entries that never passes zero, and a write    *)
(* lock that no task has left taken behind it, for any number of sources   *)
(* and files.                                                              *)
(***************************************************************************)
THEOREM TypesAreCorrect == Spec => []TypeOK
<1>1. TypesInv /\ [Next]_vars => TypesInv'
  BY OneRequestStays, PoolHoldsStays, TasksHold, RoomKeptStays DEF TypesInv
<1>2. TypesInv => TypeOK
  <2> SUFFICES ASSUME TypesInv PROVE TypeOK
    OBVIOUS
  <2>1. ReadersTypeOK
    BY DEF TypesInv, PoolHolds, OneRequest, Places, ReadersTypeOK
  <2>2. /\ job \in [Jobs -> Active \union Ends \union {"none"}]
        /\ vp \in [Jobs -> VpActive \union {"none", "gone"}]
        /\ left \in [Jobs -> Nat] /\ src \in [Sources -> Stages]
    BY DEF TypesInv, OneRequest, OncePerSource, TasksType, JobsAndChannels, EntriesLeft
  <2>3. lock \in {None} \union {Raw(j) : j \in {i \in Jobs : job[i] = "stat"}}
                       \union {Entry(j) : j \in {i \in Jobs : vp[i] = "link"}}
    BY DEF TypesInv, LockHeld
  <2>4. IndexerTypeOK
    BY <2>1, <2>2, <2>3 DEF IndexerTypeOK
  <2> QED
    BY <2>2, <2>4 DEF TypesInv, RoomKept, Downloads, TypeOK
<1> QED
  BY <1>1, <1>2, TypesInit, PTL DEF Spec
=============================================================================
