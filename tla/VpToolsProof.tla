----------------------------- MODULE VpToolsProof -----------------------------
(***************************************************************************)
(* The extractor for any archives, any numbers of decompressing and saving *)
(* tasks and any capacity of the channels: what is at the path of a file   *)
(* is its own, success means that all files are on disk, and a file that   *)
(* cannot be decompressed costs only itself.  And for any index, that the  *)
(* files are those of the tree that counting its records gives.            *)
(*                                                                         *)
(* The argument.  An entry that is held, queued or on disk is the contents *)
(* of the file it names (Holdings, Channels, OnDisk).  A file that is not  *)
(* yet read is held, queued, on disk or lost, and only a failure loses one *)
(* (Accounted).  A task ends without an error only when all before it have *)
(* ended and its channel is empty (Orderly): once main has seen the tasks  *)
(* end no place is left but the disk.                                      *)
(***************************************************************************)
EXTENDS VpTools, FiniteSetTheorems, SequenceTheorems, WellFoundedInduction, TLAPS

DecoderSet == ToSet(Decoders)
SaverSet == ToSet(Savers)
TaskSet == ToSet(Tasks)

Fits(k) == files[k].offset + files[k].size <= archive.length
OwnEntries == {Contents(k) : k \in {j \in DOMAIN files : Fits(j)}}

FilesGiven ==
    /\ archive \in Archives
    /\ Len(files) \in Nat /\ DOMAIN files = 1 .. Len(files)
    /\ \A k \in DOMAIN files : files[k].offset \in Nat /\ files[k].size \in Nat \ {0}

States == {"waiting", "holding", "done", "failed"}

Holdings ==
    /\ status \in [TaskSet -> States]
    /\ entry = [t \in TaskSet |-> entry[t]]
    /\ \A t \in TaskSet : IF status[t] = "holding" THEN entry[t] \in OwnEntries
                                                   ELSE entry[t] = None

Channels ==
    /\ vp \in Seq(OwnEntries) /\ Len(vp) <= Capacity
    /\ uc \in Seq(OwnEntries) /\ Len(uc) <= Capacity

Cursor ==
    /\ next \in 1 .. Len(files) + 1
    /\ currpos \in 0 .. archive.length
    /\ handle = currpos

Ruined == \E s \in SaverSet : status[s] = "failed"

OnDisk ==
    /\ disk = [k \in DOMAIN files |-> disk[k]]
    /\ \A k \in DOMAIN files :
         \/ disk[k] = Absent
         \/ disk[k] = Contents(k) /\ Fits(k)
         \/ disk[k] = Partial /\ Ruined

(* Whoever is done has left nothing to do. *)
Orderly ==
    /\ status[Reader] = "done" => next \notin DOMAIN files
    /\ \A d \in DecoderSet : status[d] = "done" => vp = <<>> /\ Ended(Reader)
    /\ \A s \in SaverSet : status[s] = "done" =>
           uc = <<>> /\ \A d \in DecoderSet : Ended(d)

Awaited ==
    /\ awaited \in 0 .. Len(Tasks)
    /\ result \in {"none", "ok", "error"}
    /\ \A i \in 1 .. awaited : Ended(Tasks[i])
    /\ result = "none" => awaited < Len(Tasks)
    /\ result = "ok" => awaited = Len(Tasks)
    /\ result = "error" => awaited > 0 /\ status[Tasks[awaited]] = "failed"
    /\ result # "error" => \A i \in 1 .. awaited : status[Tasks[i]] # "failed"

UnderWay(k) ==
    \/ next <= k
    \/ \E t \in TaskSet : entry[t] = Contents(k)
    \/ Contents(k) \in ToSet(vp)
    \/ Contents(k) \in ToSet(uc)

Lost(k) ==
    \/ Panics(Contents(k)) /\ \E d \in DecoderSet : status[d] = "failed"
    \/ status[Reader] = "failed"
    \/ Ruined

Accounted == \A k \in DOMAIN files : UnderWay(k) \/ disk[k] = Contents(k) \/ Lost(k)

Typed == FilesGiven /\ Holdings /\ Channels /\ Cursor

IInv == Typed /\ OnDisk /\ Orderly /\ Awaited /\ Accounted
-----------------------------------------------------------------------------
(* Sorting a finite set of numbers lists its members, each at its place. *)
LEMMA SortedLists ==
    ASSUME NEW S \in SUBSET Nat, IsFiniteSet(S), NEW weight, \A k \in S : weight[k] \in Nat
    PROVE  /\ Cardinality(S) \in Nat
           /\ DOMAIN Sorted(S, weight) = 1 .. Cardinality(S)
           /\ \A n \in 1 .. Cardinality(S) :
                  Sorted(S, weight)[n] \in S /\ Place(S, weight, Sorted(S, weight)[n]) = n
           /\ \A k \in S : /\ Place(S, weight, k) \in 1 .. Cardinality(S)
                           /\ Sorted(S, weight)[Place(S, weight, k)] = k
<1> DEFINE before(k) == {j \in S : \/ weight[j] < weight[k]
                                   \/ weight[j] = weight[k] /\ j <= k}
           place == [k \in S |-> Place(S, weight, k)]
           N == Cardinality(S)
<1>1. N \in Nat
  BY FS_CardinalityType
<1>2. \A k \in S : IsFiniteSet(before(k)) /\ Cardinality(before(k)) <= N
  <2>1. \A k \in S : before(k) \in SUBSET S
    OBVIOUS
  <2> HIDE DEF before
  <2> QED
    BY <2>1, FS_Subset
<1>3. \A k \in S : place[k] = Cardinality(before(k))
  BY DEF Place
<1>4. \A k \in S : place[k] \in 1 .. N
  <2> SUFFICES ASSUME NEW k \in S PROVE Cardinality(before(k)) \in 1 .. N
    BY <1>3
  <2>1. k \in before(k)
    OBVIOUS
  <2> HIDE DEF before, N
  <2>2. Cardinality(before(k)) \in Nat /\ Cardinality(before(k)) # 0
    BY <1>2, <2>1, FS_CardinalityType, FS_EmptySet
  <2> QED
    BY <1>1, <1>2, <2>2
<1>5. ASSUME NEW a \in S, NEW b \in S, a # b,
             weight[a] < weight[b] \/ (weight[a] = weight[b] /\ a <= b)
      PROVE  place[a] # place[b]
  <2>0. a \in Nat /\ b \in Nat /\ \A j \in S : j \in Nat /\ weight[j] \in Nat
    OBVIOUS
  <2>1. before(a) \in SUBSET before(b)
    <3>1. \A j \in before(a) : j \in before(b)
      BY <1>5, <2>0
    <3> QED
      BY <3>1
  <2>2. b \in before(b) /\ b \notin before(a)
    BY <1>5, <2>0
  <2> HIDE DEF before, place
  <2>3. Cardinality(before(a)) # Cardinality(before(b))
    BY <1>2, <2>1, <2>2, FS_Subset
  <2> QED
    BY <1>3, <2>3
<1>6. place \in Injection(S, 1 .. N)
  <2>1. \A a, b \in S : a # b => place[a] # place[b]
    <3>1. \A a, b \in S : \/ weight[a] < weight[b] \/ (weight[a] = weight[b] /\ a <= b)
                          \/ weight[b] < weight[a] \/ (weight[b] = weight[a] /\ b <= a)
      <4>1. \A j \in S : j \in Nat /\ weight[j] \in Nat
        OBVIOUS
      <4> QED
        BY <4>1
    <3> HIDE DEF place
    <3> QED
      BY <1>5, <3>1
  <2>2. place \in [S -> 1 .. N]
    <3>1. place = [k \in S |-> place[k]]
      OBVIOUS
    <3> HIDE DEF place, N
    <3> QED
      BY <1>4, <3>1
  <2> HIDE DEF place, N
  <2> QED
    BY <2>1, <2>2 DEF Injection, IsInjective
<1>7. place \in Surjection(S, 1 .. N)
  <2>1. IsFiniteSet(1 .. N) /\ Cardinality(1 .. N) = N
    BY <1>1, FS_Interval
  <2> HIDE DEF place
  <2> QED
    BY <1>6, <2>1, FS_Injection
<1>8. \A n \in 1 .. N : \E k \in S : Place(S, weight, k) = n
  BY <1>7 DEF Surjection
<1> DEFINE at(n) == CHOOSE k \in S : Place(S, weight, k) = n
<1>9. \A n \in 1 .. N : at(n) \in S /\ Place(S, weight, at(n)) = n
  BY <1>8
<1>10. DOMAIN Sorted(S, weight) = 1 .. N /\ \A n \in 1 .. N : Sorted(S, weight)[n] = at(n)
  BY DEF Sorted
<1>11. \A k \in S : place[k] = Place(S, weight, k)
  OBVIOUS
<1>12. \A k, j \in S : place[k] = place[j] => k = j
  <2> HIDE DEF place, N
  <2> QED
    BY <1>6 DEF Injection, IsInjective
<1> HIDE DEF at, place, N
<1>13. \A k \in S : Sorted(S, weight)[Place(S, weight, k)] = k
  <2> SUFFICES ASSUME NEW k \in S PROVE at(place[k]) = k /\ place[k] \in 1 .. N
    BY <1>10, <1>11
  <2>1. place[k] \in 1 .. N
    BY <1>4
  <2>2. at(place[k]) \in S /\ place[at(place[k])] = place[k]
    BY <1>9, <1>11, <2>1
  <2> QED
    BY <1>12, <2>1, <2>2
<1> QED
  BY <1>1, <1>4, <1>9, <1>10, <1>11, <1>13 DEF N

(* In their order a set of numbers increases and loses none of them. *)
LEMMA InOrderLists ==
    ASSUME NEW S \in SUBSET Nat, IsFiniteSet(S)
    PROVE  /\ Cardinality(S) \in Nat /\ DOMAIN InOrder(S) = 1 .. Cardinality(S)
           /\ {InOrder(S)[i] : i \in 1 .. Cardinality(S)} = S
           /\ \A i, j \in 1 .. Cardinality(S) : i < j => InOrder(S)[i] < InOrder(S)[j]
<1> DEFINE w == [k \in S |-> 0]
           N == Cardinality(S)
           upTo(k) == {j \in S : j <= k}
<1>0. \A k \in S : w[k] = 0 /\ w[k] \in Nat
  OBVIOUS
<1>1. ASSUME NEW k \in S PROVE Place(S, w, k) = Cardinality(upTo(k))
  <2>1. {j \in S : w[j] < w[k] \/ (w[j] = w[k] /\ j <= k)} = upTo(k)
    BY <1>0
  <2> QED
    BY <2>1 DEF Place
<1>2. InOrder(S) = Sorted(S, w)
  BY DEF InOrder
<1> HIDE DEF w
<1>3. /\ N \in Nat /\ DOMAIN Sorted(S, w) = 1 .. N
      /\ \A n \in 1 .. N : Sorted(S, w)[n] \in S /\ Place(S, w, Sorted(S, w)[n]) = n
      /\ \A k \in S : Place(S, w, k) \in 1 .. N /\ Sorted(S, w)[Place(S, w, k)] = k
  BY <1>0, SortedLists
<1>4. ASSUME NEW a \in S, NEW b \in S, a <= b PROVE Place(S, w, a) <= Place(S, w, b)
  <2>1. \A j \in upTo(a) : j \in upTo(b)
    BY <1>4
  <2>2. upTo(a) \in SUBSET upTo(b) /\ upTo(b) \in SUBSET S
    BY <2>1
  <2> HIDE DEF upTo
  <2>3. Cardinality(upTo(a)) <= Cardinality(upTo(b))
    BY <2>2, FS_Subset
  <2> QED
    BY <1>1, <2>3
<1>5. ASSUME NEW i \in 1 .. N, NEW j \in 1 .. N, i < j PROVE Sorted(S, w)[i] < Sorted(S, w)[j]
  <2> DEFINE a == Sorted(S, w)[i]
             b == Sorted(S, w)[j]
  <2>1. a \in S /\ b \in S /\ Place(S, w, a) = i /\ Place(S, w, b) = j
    BY <1>3
  <2> HIDE DEF a, b
  <2>2. a \in Nat /\ b \in Nat /\ (b <= a => j <= i)
    BY <1>4, <2>1
  <2>3. a < b
    BY <1>3, <1>5, <2>2
  <2> QED
    BY <2>3 DEF a, b
<1> HIDE DEF N
<1>6. {Sorted(S, w)[i] : i \in 1 .. N} = S
  BY <1>3
<1> QED
  BY <1>2, <1>3, <1>5, <1>6 DEF N

(* There is one such list. *)
LEMMA InOrderIs ==
    ASSUME NEW n \in Nat, NEW q, \A i \in 1 .. n : q[i] \in Nat,
           \A i, j \in 1 .. n : i < j => q[i] < q[j]
    PROVE  InOrder({q[i] : i \in 1 .. n}) = [i \in 1 .. n |-> q[i]]
<1> DEFINE S == {q[i] : i \in 1 .. n}
           w == [k \in S |-> 0]
           first(i) == {q[m] : m \in 1 .. i}
<1>1. ASSUME NEW i \in 1 .. n PROVE IsFiniteSet(first(i)) /\ Cardinality(first(i)) = i
  <2> DEFINE f == [m \in 1 .. i |-> q[m]]
  <2>1. \A m \in 1 .. i : m \in 1 .. n /\ m \in Int
    OBVIOUS
  <2>2. \A m, l \in 1 .. i : m # l => q[m] # q[l]
    BY <2>1
  <2>3. f \in Bijection(1 .. i, first(i))
    BY <2>2 DEF Bijection, Injection, Surjection, IsInjective
  <2>4. IsFiniteSet(1 .. i) /\ Cardinality(1 .. i) = i
    BY FS_Interval
  <2>5. i \in Nat
    OBVIOUS
  <2> HIDE DEF first, f
  <2>6. ExistsBijection(1 .. i, first(i))
    BY <2>3 DEF ExistsBijection
  <2> QED
    BY <2>4, <2>5, <2>6, FS_Bijection
<1>2. S \in SUBSET Nat /\ IsFiniteSet(S)
  <2>1. S \in SUBSET Nat
    OBVIOUS
  <2>2. CASE n = 0
    <3>1. S = {}
      BY <2>2
    <3> QED
      BY <2>1, <3>1, FS_EmptySet
  <2>3. CASE n # 0
    <3>1. n \in 1 .. n /\ S = first(n)
      BY <2>3
    <3> HIDE DEF S, first
    <3> QED
      BY <1>1, <2>1, <3>1
  <2> QED
    BY <2>2, <2>3
<1>3. \A k \in S : w[k] = 0 /\ w[k] \in Nat
  OBVIOUS
<1>4. ASSUME NEW i \in 1 .. n PROVE q[i] \in S /\ Place(S, w, q[i]) = i
  <2>1. q[i] \in S
    OBVIOUS
  <2>2. \A m \in 1 .. n : q[m] <= q[i] <=> m \in 1 .. i
    OBVIOUS
  <2>3. {j \in S : w[j] < w[q[i]] \/ (w[j] = w[q[i]] /\ j <= q[i])} = {j \in S : j <= q[i]}
    BY <1>3, <2>1
  <2>4. {j \in S : j <= q[i]} = first(i)
    BY <2>2
  <2> HIDE DEF S, first, w
  <2> QED
    BY <1>1, <2>1, <2>3, <2>4 DEF Place
<1> HIDE DEF w
<1>5. /\ Cardinality(S) \in Nat
      /\ DOMAIN Sorted(S, w) = 1 .. Cardinality(S)
      /\ \A k \in S : /\ Place(S, w, k) \in 1 .. Cardinality(S)
                      /\ Sorted(S, w)[Place(S, w, k)] = k
  <2> HIDE DEF S
  <2> QED
    BY <1>2, <1>3, SortedLists
<1>6. Cardinality(S) = n
  <2>1. CASE n = 0
    <3>1. S = {}
      BY <2>1
    <3> QED
      BY <2>1, <3>1, FS_EmptySet
  <2>2. CASE n # 0
    <3>1. n \in 1 .. n /\ S = first(n)
      BY <2>2
    <3> HIDE DEF S, first
    <3> QED
      BY <1>1, <3>1
  <2> QED
    BY <2>1, <2>2
<1>7. \A i \in 1 .. n : Sorted(S, w)[i] = q[i]
  BY <1>4, <1>5
<1>8. Sorted(S, w) = [i \in DOMAIN Sorted(S, w) |-> Sorted(S, w)[i]]
  <2> DEFINE at(m) == CHOOSE k \in S : Place(S, w, k) = m
  <2>1. Sorted(S, w) = [m \in 1 .. Cardinality(S) |-> at(m)]
    BY DEF Sorted
  <2> HIDE DEF at, S
  <2> QED
    BY <2>1
<1> HIDE DEF S
<1>9. Sorted(S, w) = [i \in 1 .. n |-> q[i]]
  BY <1>5, <1>6, <1>7, <1>8
<1> QED
  BY <1>9 DEF InOrder, w, S

(* The least number with some property. *)
LEMMA LeastNumber ==
    ASSUME NEW B \in SUBSET Nat, B # {}
    PROVE  \E m \in B : \A k \in B : m <= k
<1> DEFINE Less == {ss \in Nat \X Nat : ss[1] < ss[2]}
<1>1. IsWellFoundedOn(Less, Nat)
  BY NatLessThanWellFounded DEF OpToRel
<1> HIDE DEF Less
<1>2. PICK m \in B : \A k \in B : ~(<<k, m>> \in Less)
  BY <1>1, WFMin
<1>3. ASSUME NEW k \in B PROVE m <= k
  <2>1. k \in Nat /\ m \in Nat /\ ~(k < m)
    BY <1>2 DEF Less
  <2> QED
    BY <2>1
<1> QED
  BY <1>3

(* Of numbers up to n, the largest is n if it is among them. *)
LEMMA MaxIs ==
    ASSUME NEW n \in Nat, NEW s \in SUBSET (1 .. n), n \in s
    PROVE  Max(s) = n
<1>1. \A x \in s : x \in Nat /\ x <= n
  OBVIOUS
<1>2. n \in s /\ \A y \in s : n >= y
  BY <1>1
<1>3. Max(s) \in s /\ \A y \in s : Max(s) >= y
  BY <1>2 DEF Max
<1>4. Max(s) >= n /\ Max(s) \in Nat /\ Max(s) <= n
  BY <1>1, <1>3
<1> QED
  BY <1>4

(* The beginning of a list. *)
LEMMA Beginning ==
    ASSUME NEW S, NEW s \in Seq(S), NEW m \in 0 .. Len(s)
    PROVE  /\ SubSeq(s, 1, m) \in Seq(S) /\ Len(SubSeq(s, 1, m)) = m
           /\ \A i \in 1 .. m : SubSeq(s, 1, m)[i] = s[i]
<1>1. Len(s) \in Nat /\ m \in Nat /\ m <= Len(s) /\ \A i \in 1 .. Len(s) : s[i] \in S
  BY LenProperties
<1>2. \A i \in 1 .. m : i \in 1 .. Len(s) /\ s[i] \in S /\ 1 + i - 1 = i
  BY <1>1
<1>3. 1 \in Int /\ m \in Int /\ m - 1 + 1 = m /\ (IF 1 <= m THEN m - 1 + 1 ELSE 0) = m
  BY <1>1
<1>4. /\ SubSeq(s, 1, m) \in Seq(S)
      /\ Len(SubSeq(s, 1, m)) = IF 1 <= m THEN m - 1 + 1 ELSE 0
      /\ \A i \in 1 .. m - 1 + 1 : SubSeq(s, 1, m)[i] = s[1 + i - 1]
  BY <1>2, <1>3, SubSeqProperties
<1> QED
  BY <1>2, <1>3, <1>4
-----------------------------------------------------------------------------
IsIndex(records) == Len(records) \in Nat /\ DOMAIN records = 1 .. Len(records)

NoCalls == [open |-> <<Root>>, dir |-> << >>]

(* c[k]: the calls of VPDir::from after k records. *)
Through(records, c) ==
    /\ c[0] = NoCalls
    /\ \A k \in 1 .. Len(records) : c[k] = Parse(records, c[k - 1], k)

(* The fold of VPDir goes through the records from the first to the last. *)
LEMMA Calls ==
    ASSUME NEW records, IsIndex(records)
    PROVE  \E c : Through(records, c) /\ VPDir(records) = c[Len(records)].dir
<1> DEFINE N == Len(records)
           number == [k \in DOMAIN records |-> k]
           Folds(f, T) == f = [s \in SUBSET T |->
                                  IF s = {} THEN NoCalls
                                            ELSE Parse(records, f[s \ {Max(s)}], number[Max(s)])]
           iter == CHOOSE f : Folds(f, DOMAIN number)
           c == [k \in 0 .. N |-> iter[1 .. k]]
<1>1. N \in Nat /\ DOMAIN records = 1 .. N /\ DOMAIN number = 1 .. N
  BY DEF IsIndex
<1>2. VPDir(records) = iter[1 .. N].dir
  <2>1. VPDir(records) = iter[DOMAIN number].dir
    BY DEF VPDir, FoldLeft, MapThenFoldSet, NoCalls
  <2> QED
    BY <1>1, <2>1
<1>3. \A n \in Nat : \E f : Folds(f, 1 .. n)
  <2> DEFINE B == {n \in Nat : ~\E f : Folds(f, 1 .. n)}
  <2> SUFFICES ASSUME B # {} PROVE FALSE
    OBVIOUS
  <2>1. PICK m \in B : \A k \in B : m <= k
    BY LeastNumber
  <2>2. m # 0
    <3> DEFINE g == [s \in SUBSET (1 .. 0) |-> NoCalls]
    <3>1. \A s \in SUBSET (1 .. 0) : s = {}
      OBVIOUS
    <3>2. Folds(g, 1 .. 0)
      BY <3>1
    <3> QED
      BY <2>1, <3>2
  <2>3. m - 1 \in Nat /\ m - 1 \notin B
    <3>1. m \in Nat /\ m - 1 \in Nat /\ ~(m <= m - 1)
      BY <2>2
    <3> HIDE DEF B
    <3> QED
      BY <2>1, <3>1
  <2>4. PICK f : Folds(f, 1 .. m - 1)
    BY <2>3
  <2> DEFINE g == [s \in SUBSET (1 .. m) |->
                      IF m \in s THEN Parse(records, f[s \ {m}], number[m]) ELSE f[s]]
  <2>5. ASSUME NEW s \in SUBSET (1 .. m)
        PROVE  g[s] = IF s = {} THEN NoCalls
                                ELSE Parse(records, g[s \ {Max(s)}], number[Max(s)])
    <3>1. CASE m \in s
      <4>1. Max(s) = m
        BY <2>1, <3>1, MaxIs
      <4>2. s \ {m} \in SUBSET (1 .. m) /\ m \notin s \ {m}
        OBVIOUS
      <4>3. g[s \ {m}] = f[s \ {m}]
        BY <4>2
      <4> QED
        BY <3>1, <4>1, <4>3
    <3>2. CASE m \notin s
      <4>1. \A r \in SUBSET s : r \in SUBSET (1 .. m - 1) /\ r \in SUBSET (1 .. m) /\ m \notin r
        BY <3>2, <2>1
      <4>2. \A r \in SUBSET s : g[r] = f[r]
        BY <4>1
      <4>3. s \in SUBSET s /\ s \ {Max(s)} \in SUBSET s
        OBVIOUS
      <4>4. f[s] = IF s = {} THEN NoCalls
                             ELSE Parse(records, f[s \ {Max(s)}], number[Max(s)])
        BY <2>4, <4>1, <4>3
      <4> QED
        BY <4>2, <4>3, <4>4
    <3> QED
      BY <3>1, <3>2
  <2> HIDE DEF number
  <2>6. Folds(g, 1 .. m)
    BY <2>5
  <2> QED
    BY <2>1, <2>6
<1>4. Folds(iter, 1 .. N)
  <2> HIDE DEF number
  <2>1. \E f : Folds(f, DOMAIN number)
    BY <1>1, <1>3
  <2> QED
    BY <1>1, <2>1
<1>5. c[0] = NoCalls
  <2>1. c[0] = iter[{}]
    BY <1>1
  <2>2. {} \in SUBSET (1 .. N)
    OBVIOUS
  <2> HIDE DEF iter, c
  <2> QED
    BY <1>4, <2>1, <2>2
<1>6. ASSUME NEW k \in 1 .. N PROVE c[k] = Parse(records, c[k - 1], k)
  <2>1. /\ 1 .. k \in SUBSET (1 .. N) /\ 1 .. k # {} /\ k \in 1 .. k /\ k \in Nat
        /\ k \in 0 .. N /\ k - 1 \in 0 .. N
    BY <1>1
  <2>6. (1 .. k) \ {k} = 1 .. k - 1
    BY <2>1
  <2>2. Max(1 .. k) = k
    BY <2>1, MaxIs
  <2>3. number[k] = k
    BY <1>1
  <2>4. c[k] = iter[1 .. k] /\ c[k - 1] = iter[1 .. k - 1]
    BY <2>1
  <2> HIDE DEF iter, c, number
  <2>5. iter[1 .. k] = Parse(records, iter[(1 .. k) \ {Max(1 .. k)}], number[Max(1 .. k)])
    BY <1>4, <2>1
  <2> QED
    BY <2>1, <2>2, <2>3, <2>4, <2>5, <2>6
<1>7. c[N] = iter[1 .. N]
  BY <1>1
<1> HIDE DEF iter, c
<1> QED
  BY <1>2, <1>5, <1>6, <1>7 DEF Through
-----------------------------------------------------------------------------
IsDir(r) == ~IsFile(r) /\ r.name # ParentDir
IsEnd(r) == ~IsFile(r) /\ r.name = ParentDir
IsEntry(r) == IsFile(r) \/ IsDir(r)

IsCall(call) == call = [open |-> call.open, dir |-> call.dir]

(* What one record does to the calls. *)
LEMMA ParseIs ==
    ASSUME NEW records, NEW call, IsCall(call), NEW k
    PROVE  /\ IsCall(Parse(records, call, k))
           /\ call.open = <<>> => Parse(records, call, k) = call
           /\ call.open # <<>> /\ IsFile(records[k]) =>
                  /\ Parse(records, call, k).open = call.open
                  /\ Parse(records, call, k).dir = Push(call.dir, Last(call.open), k)
           /\ call.open # <<>> /\ IsEnd(records[k]) =>
                  /\ Parse(records, call, k).open = Front(call.open)
                  /\ Parse(records, call, k).dir = call.dir
           /\ call.open # <<>> /\ IsDir(records[k]) =>
                  /\ Parse(records, call, k).open = Append(call.open, k)
                  /\ Parse(records, call, k).dir = Push(call.dir, Last(call.open), k)
<1> DEFINE o == call.open
           after == Parse(records, call, k)
           pushed == Push(call.dir, Last(o), k)
           r == records[k]
<1>1. CASE o = <<>>
  BY <1>1 DEF Parse
<1>2. CASE o # <<>> /\ IsFile(r)
  <2>1. after = [call EXCEPT !.dir = pushed]
    BY <1>2 DEF Parse
  <2>2. after = [open |-> o, dir |-> pushed]
    BY <2>1 DEF IsCall
  <2> HIDE DEF after, pushed
  <2>3. IsCall(after) /\ after.open = o /\ after.dir = pushed
    BY <2>2 DEF IsCall
  <2> QED
    BY <1>2, <2>3 DEF IsEnd, IsDir, after, pushed
<1>3. CASE o # <<>> /\ IsEnd(r)
  <2>1. after = [call EXCEPT !.open = Front(o)]
    BY <1>3 DEF Parse, IsEnd, Close
  <2>2. after = [open |-> Front(o), dir |-> call.dir]
    BY <2>1 DEF IsCall
  <2> HIDE DEF after
  <2>3. IsCall(after) /\ after.open = Front(o) /\ after.dir = call.dir
    BY <2>2 DEF IsCall
  <2> QED
    BY <1>3, <2>3 DEF IsEnd, IsDir, after
<1>4. CASE o # <<>> /\ IsDir(r)
  <2>1. after = [open |-> Append(o, k), dir |-> pushed]
    BY <1>4 DEF Parse, IsDir
  <2> HIDE DEF after, pushed
  <2>2. IsCall(after) /\ after.open = Append(o, k) /\ after.dir = pushed
    BY <2>1 DEF IsCall
  <2> QED
    BY <1>4, <2>2 DEF IsEnd, IsDir, after, pushed
<1> QED
  BY <1>1, <1>2, <1>3, <1>4 DEF IsEnd, IsDir
-----------------------------------------------------------------------------
(* Counting in a stretch that grows. *)
LEMMA CountUp ==
    ASSUME NEW S, NEW m \in Nat, NEW n \in Nat, m <= n + 1
    PROVE  /\ Cardinality({j \in m .. n : j \in S}) \in Nat
           /\ Cardinality({j \in m .. n + 1 : j \in S}) =
                  Cardinality({j \in m .. n : j \in S}) + (IF n + 1 \in S THEN 1 ELSE 0)
<1> DEFINE found(to) == {j \in m .. to : j \in S}
<1>1. IsFiniteSet(found(n)) /\ n + 1 \notin found(n)
  <2>1. IsFiniteSet(m .. n) /\ found(n) \in SUBSET (m .. n)
    BY FS_Interval
  <2> QED
    BY <2>1, FS_Subset
<1>2. found(n + 1) = IF n + 1 \in S THEN found(n) \union {n + 1} ELSE found(n)
  <2>1. \A j : j \in m .. n + 1 <=> j \in m .. n \/ j = n + 1
    OBVIOUS
  <2> QED
    BY <2>1
<1> HIDE DEF found
<1>3. Cardinality(found(n)) \in Nat
  BY <1>1, FS_CardinalityType
<1>4. Cardinality(found(n) \union {n + 1}) = Cardinality(found(n)) + 1
  BY <1>1, FS_AddElement
<1>5. Cardinality(found(n + 1)) = Cardinality(found(n)) + (IF n + 1 \in S THEN 1 ELSE 0)
  BY <1>2, <1>3, <1>4
<1> QED
  BY <1>3, <1>5 DEF found

(* One record more is a directory entered, an end or neither. *)
LEMMA EnteredIs ==
    ASSUME NEW records, NEW m \in Nat, NEW n \in Nat, m <= n + 1
    PROVE  /\ Entered(records, m, n) \in Nat /\ Left(records, m, n) \in Nat
           /\ Entered(records, m, n + 1) =
                  Entered(records, m, n) + (IF IsDir(records[n + 1]) THEN 1 ELSE 0)
           /\ Left(records, m, n + 1) =
                  Left(records, m, n) + (IF IsEnd(records[n + 1]) THEN 1 ELSE 0)
<1> DEFINE dirs == {j \in Nat : IsDir(records[j])}
           ends == {j \in Nat : IsEnd(records[j])}
<1>1. \A to \in Nat : /\ Entered(records, m, to) = Cardinality({j \in m .. to : j \in dirs})
                        /\ Left(records, m, to) = Cardinality({j \in m .. to : j \in ends})
  <2> TAKE to \in Nat
  <2>1. /\ {j \in m .. to : j \in dirs} = {j \in m .. to : IsDir(records[j])}
        /\ {j \in m .. to : j \in ends} = {j \in m .. to : IsEnd(records[j])}
    OBVIOUS
  <2> HIDE DEF dirs, ends
  <2> QED
    BY <2>1 DEF Entered, Left, IsDir, IsEnd
<1>2. n + 1 \in Nat /\ (n + 1 \in dirs <=> IsDir(records[n + 1]))
      /\ (n + 1 \in ends <=> IsEnd(records[n + 1]))
  OBVIOUS
<1> HIDE DEF dirs, ends
<1>3. /\ Cardinality({j \in m .. n : j \in dirs}) \in Nat
      /\ Cardinality({j \in m .. n + 1 : j \in dirs}) =
             Cardinality({j \in m .. n : j \in dirs}) + (IF n + 1 \in dirs THEN 1 ELSE 0)
  BY CountUp
<1>4. /\ Cardinality({j \in m .. n : j \in ends}) \in Nat
      /\ Cardinality({j \in m .. n + 1 : j \in ends}) =
             Cardinality({j \in m .. n : j \in ends}) + (IF n + 1 \in ends THEN 1 ELSE 0)
  BY CountUp
<1> QED
  BY <1>1, <1>2, <1>3, <1>4

(* In an empty stretch nothing is entered or left. *)
LEMMA EnteredNone ==
    ASSUME NEW records, NEW n \in Nat
    PROVE  Entered(records, n + 1, n) = 0 /\ Left(records, n + 1, n) = 0
<1>1. n + 1 .. n = {}
  OBVIOUS
<1>2. /\ {j \in n + 1 .. n : ~IsFile(records[j]) /\ records[j].name # ParentDir} = {}
      /\ {j \in n + 1 .. n : ~IsFile(records[j]) /\ records[j].name = ParentDir} = {}
  BY <1>1
<1> QED
  BY <1>2, FS_EmptySet DEF Entered, Left

(* A directory is open behind its record, and is still open after another  *)
(* if it was so before and no more has been left than entered since.       *)
LEMMA OpenedIs ==
    ASSUME NEW records, NEW d \in Nat
    PROVE  StillOpen(records, d, d + 1)
<1>1. d + 1 .. (d + 1) - 1 = {}
  OBVIOUS
<1> QED
  BY <1>1 DEF StillOpen

LEMMA StillOpenIs ==
    ASSUME NEW records, NEW d \in Nat, NEW k \in Nat, d < k
    PROVE  StillOpen(records, d, k + 1) <=>
               StillOpen(records, d, k) /\ Left(records, d + 1, k) <= Entered(records, d + 1, k)
<1>1. \A j : j \in d + 1 .. (k + 1) - 1 <=> j \in d + 1 .. k - 1 \/ j = k
  OBVIOUS
<1> QED
  BY <1>1 DEF StillOpen
-----------------------------------------------------------------------------
(* The directories that are open after k records: those counting finds, in *)
(* their order, each with what is open around it.                          *)
Stacked(records, c, k, o) ==
    /\ o \in Seq(0 .. k)
    /\ o # <<>> => o[1] = Root
    /\ \A i \in 2 .. Len(o) :
           /\ IsDir(records[o[i]]) /\ o[i - 1] < o[i]
           /\ c[o[i] - 1].open = SubSeq(o, 1, i - 1)

Counted(records, k, o) ==
    \A i \in 1 .. Len(o) :
        /\ StillOpen(records, o[i], k + 1)
        /\ Entered(records, o[i] + 1, k) = Left(records, o[i] + 1, k) + (Len(o) - i)

OthersClosed(records, k, o) ==
    /\ o = <<>> => ~StillOpen(records, Root, k + 1)
    /\ o # <<>> => \A j \in 1 .. k : IsDir(records[j]) /\ StillOpen(records, j, k + 1)
                                      => \E i \in 2 .. Len(o) : o[i] = j

Treed(records, c, k, d) ==
    /\ DOMAIN d = {j \in 1 .. k : StillOpen(records, Root, j) /\ IsEntry(records[j])}
    /\ \A j \in DOMAIN d : d[j] = Last(c[j - 1].open)

Parsed(records, c, k) ==
    /\ IsCall(c[k])
    /\ Stacked(records, c, k, c[k].open)
    /\ Counted(records, k, c[k].open)
    /\ OthersClosed(records, k, c[k].open)
    /\ Treed(records, c, k, c[k].dir)

(* Before the first record only the root is open. *)
LEMMA ParsedInit ==
    ASSUME NEW records, NEW c, c[0] = NoCalls
    PROVE  Parsed(records, c, 0)
<1>1. c[0].open = <<0>> /\ c[0].dir = << >>
  BY DEF NoCalls, Root
<1>2. Stacked(records, c, 0, <<0>>)
  BY DEF Stacked, Root
<1>3. Counted(records, 0, <<0>>)
  <2>1. 0 \in Nat /\ 1 \in Nat /\ 0 < 1 /\ 0 + 1 = 1 /\ Len(<<0>>) = 1 /\ <<0>>[1] = 0
    OBVIOUS
  <2>2. Entered(records, 1, 0) = 0 /\ Left(records, 1, 0) = 0
    BY <2>1, EnteredNone
  <2>3. StillOpen(records, 0, 1)
    BY <2>1, OpenedIs
  <2>4. \A i \in 1 .. Len(<<0>>) : i = 1
    BY <2>1
  <2> QED
    BY <2>1, <2>2, <2>3, <2>4 DEF Counted
<1>4. Treed(records, c, 0, << >>)
  BY DEF Treed
<1> QED
  BY <1>1, <1>2, <1>3, <1>4 DEF Parsed, OthersClosed, IsCall, NoCalls

(* What a file, a directory or an end does to the counts of those open. *)
LEMMA OpenAfter ==
    ASSUME NEW records, NEW k \in Nat, NEW d \in 0 .. k,
           NEW n \in Nat, StillOpen(records, d, k + 1),
           Entered(records, d + 1, k) = Left(records, d + 1, k) + n
    PROVE  /\ IsFile(records[k + 1]) =>
                  /\ StillOpen(records, d, (k + 1) + 1)
                  /\ Entered(records, d + 1, k + 1) = Left(records, d + 1, k + 1) + n
           /\ IsDir(records[k + 1]) =>
                  /\ StillOpen(records, d, (k + 1) + 1)
                  /\ Entered(records, d + 1, k + 1) = Left(records, d + 1, k + 1) + (n + 1)
           /\ IsEnd(records[k + 1]) =>
                  /\ StillOpen(records, d, (k + 1) + 1) <=> n > 0
                  /\ Entered(records, d + 1, k + 1) = Left(records, d + 1, k + 1) + (n - 1)
<1>1. /\ d + 1 \in Nat /\ d \in Nat /\ d + 1 <= k + 1 /\ k + 1 \in Nat /\ d < k + 1
  OBVIOUS
<1>2. /\ Entered(records, d + 1, k) \in Nat /\ Left(records, d + 1, k) \in Nat
      /\ Entered(records, d + 1, k + 1) =
             Entered(records, d + 1, k) + (IF IsDir(records[k + 1]) THEN 1 ELSE 0)
      /\ Left(records, d + 1, k + 1) =
             Left(records, d + 1, k) + (IF IsEnd(records[k + 1]) THEN 1 ELSE 0)
  BY <1>1, EnteredIs
<1>3. StillOpen(records, d, (k + 1) + 1) <=>
          Left(records, d + 1, k + 1) <= Entered(records, d + 1, k + 1)
  BY <1>1, StillOpenIs
<1> QED
  BY <1>2, <1>3 DEF IsDir, IsEnd

(* A directory that has been closed stays closed. *)
LEMMA ClosedStays ==
    ASSUME NEW records, NEW k \in Nat, NEW d \in 0 .. k, StillOpen(records, d, (k + 1) + 1)
    PROVE  StillOpen(records, d, k + 1)
<1>1. d \in Nat /\ k + 1 \in Nat /\ d < k + 1
  OBVIOUS
<1> QED
  BY <1>1, StillOpenIs

(* What is on the stack: numbers up to k that increase, the root first. *)
LEMMA StackFacts ==
    ASSUME NEW records, NEW c, NEW k \in Nat, NEW o, Stacked(records, c, k, o), o # <<>>
    PROVE  /\ Len(o) \in Nat \ {0} /\ DOMAIN o = 1 .. Len(o) /\ 1 \in 1 .. Len(o)
           /\ \A i \in 1 .. Len(o) : o[i] \in 0 .. k
           /\ \A i \in 2 .. Len(o) : i - 1 \in 1 .. Len(o) /\ i \in 1 .. Len(o) /\ o[i] \in 1 .. k
           /\ Last(o) \in 0 .. k
<1>1. o \in Seq(0 .. k)
  BY DEF Stacked
<1>2. Len(o) \in Nat \ {0} /\ DOMAIN o = 1 .. Len(o) /\ \A i \in 1 .. Len(o) : o[i] \in 0 .. k
  BY <1>1, LenProperties
<1>3. 1 \in 1 .. Len(o) /\ Len(o) \in 1 .. Len(o)
  BY <1>2
<1>4. ASSUME NEW i \in 2 .. Len(o)
      PROVE  i - 1 \in 1 .. Len(o) /\ i \in 1 .. Len(o) /\ o[i] \in 1 .. k
  <2>1. i - 1 \in 1 .. Len(o) /\ i \in 1 .. Len(o)
    BY <1>2
  <2>2. o[i - 1] < o[i]
    BY DEF Stacked
  <2> QED
    BY <1>2, <2>1, <2>2
<1> QED
  BY <1>2, <1>3, <1>4 DEF Last

(* A file changes nothing. *)
LEMMA AfterFile ==
    ASSUME NEW records, NEW c, NEW k \in Nat, NEW o, o # <<>>, IsFile(records[k + 1]),
           Stacked(records, c, k, o), Counted(records, k, o), OthersClosed(records, k, o)
    PROVE  /\ Stacked(records, c, k + 1, o) /\ Counted(records, k + 1, o)
           /\ OthersClosed(records, k + 1, o)
<1> USE StackFacts
<1>1. Stacked(records, c, k + 1, o)
  <2>1. o \in Seq(0 .. k + 1)
    BY SeqMonotonic DEF Stacked
  <2> QED
    BY <2>1 DEF Stacked
<1>2. ASSUME NEW i \in 1 .. Len(o)
      PROVE  /\ StillOpen(records, o[i], (k + 1) + 1)
             /\ Entered(records, o[i] + 1, k + 1) = Left(records, o[i] + 1, k + 1) + (Len(o) - i)
  <2>1. Len(o) - i \in Nat /\ o[i] \in 0 .. k
    OBVIOUS
  <2> QED
    BY <2>1, OpenAfter DEF Counted
<1>3. ASSUME NEW j \in 1 .. k + 1, IsDir(records[j]), StillOpen(records, j, (k + 1) + 1)
      PROVE  \E i \in 2 .. Len(o) : o[i] = j
  <2>1. j \in 1 .. k /\ j \in 0 .. k
    BY <1>3 DEF IsDir
  <2>2. StillOpen(records, j, k + 1)
    BY <1>3, <2>1, ClosedStays
  <2> QED
    BY <1>3, <2>1, <2>2 DEF OthersClosed
<1> QED
  BY <1>1, <1>2, <1>3 DEF Counted, OthersClosed

(* After the end of the root nothing is open. *)
LEMMA AfterAll ==
    ASSUME NEW records, NEW c, NEW k \in Nat, OthersClosed(records, k, <<>>)
    PROVE  /\ Stacked(records, c, k + 1, <<>>) /\ Counted(records, k + 1, <<>>)
           /\ OthersClosed(records, k + 1, <<>>)
<1>1. ~StillOpen(records, Root, (k + 1) + 1)
  <2>1. Root \in 0 .. k /\ ~StillOpen(records, Root, k + 1)
    BY DEF OthersClosed, Root
  <2> QED
    BY <2>1, ClosedStays
<1>2. <<>> \in Seq(0 .. k + 1) /\ 1 .. Len(<<>>) = {} /\ 2 .. Len(<<>>) = {}
  OBVIOUS
<1> QED
  BY <1>1, <1>2 DEF OthersClosed, Stacked, Counted

(* A directory is entered. *)
LEMMA AfterDir ==
    ASSUME NEW records, NEW c, NEW k \in Nat, NEW o, o # <<>>, IsDir(records[k + 1]),
           c[k].open = o,
           Stacked(records, c, k, o), Counted(records, k, o), OthersClosed(records, k, o)
    PROVE  /\ Stacked(records, c, k + 1, Append(o, k + 1))
           /\ Counted(records, k + 1, Append(o, k + 1))
           /\ OthersClosed(records, k + 1, Append(o, k + 1))
<1> DEFINE a == Append(o, k + 1)
<1>0. /\ Len(o) \in Nat \ {0} /\ DOMAIN o = 1 .. Len(o) /\ 1 \in 1 .. Len(o)
      /\ \A i \in 1 .. Len(o) : o[i] \in 0 .. k
      /\ \A i \in 2 .. Len(o) : i - 1 \in 1 .. Len(o) /\ i \in 1 .. Len(o) /\ o[i] \in 1 .. k
  BY StackFacts
<1>1. /\ a \in Seq(0 .. k + 1) /\ Len(a) = Len(o) + 1 /\ a # <<>>
      /\ \A i \in 1 .. Len(o) : a[i] = o[i]
      /\ a[Len(o) + 1] = k + 1
  <2>1. o \in Seq(0 .. k + 1) /\ k + 1 \in 0 .. k + 1
    BY SeqMonotonic DEF Stacked
  <2> QED
    BY <2>1, AppendProperties
<1>2. \A i \in 1 .. Len(a) : i \in 1 .. Len(o) \/ i = Len(o) + 1
  BY <1>0, <1>1
<1>3. ASSUME NEW i \in 2 .. Len(o) PROVE SubSeq(a, 1, i - 1) = SubSeq(o, 1, i - 1)
  BY <1>0, <1>1
<1>4. SubSeq(a, 1, Len(o)) = o
  BY <1>0, <1>1 DEF Stacked
<1> HIDE DEF a
<1>5. Stacked(records, c, k + 1, a)
  <2>1. a[1] = Root
    BY <1>0, <1>1 DEF Stacked
  <2>2. ASSUME NEW i \in 2 .. Len(a)
        PROVE  IsDir(records[a[i]]) /\ a[i - 1] < a[i] /\ c[a[i] - 1].open = SubSeq(a, 1, i - 1)
    <3>1. CASE i \in 2 .. Len(o)
      <4>1. a[i] = o[i] /\ a[i - 1] = o[i - 1]
        BY <1>0, <1>1, <3>1
      <4> QED
        BY <1>3, <3>1, <4>1 DEF Stacked
    <3>2. CASE i = Len(o) + 1
      <4>1. a[i] = k + 1 /\ a[i - 1] = o[Len(o)] /\ i - 1 = Len(o) /\ o[Len(o)] \in 0 .. k
        BY <1>0, <1>1, <3>2
      <4>2. (k + 1) - 1 = k /\ \A x \in 0 .. k : x < k + 1
        OBVIOUS
      <4> QED
        BY <1>4, <4>1, <4>2
    <3> QED
      BY <1>0, <1>1, <3>1, <3>2
  <2> QED
    BY <1>1, <2>1, <2>2 DEF Stacked
<1>6. Counted(records, k + 1, a)
  <2> SUFFICES ASSUME NEW i \in 1 .. Len(a)
               PROVE  /\ StillOpen(records, a[i], (k + 1) + 1)
                      /\ Entered(records, a[i] + 1, k + 1) =
                             Left(records, a[i] + 1, k + 1) + (Len(a) - i)
    BY DEF Counted
  <2>1. CASE i \in 1 .. Len(o)
    <3>1. /\ Len(o) - i \in Nat /\ o[i] \in 0 .. k /\ a[i] = o[i]
          /\ Len(a) - i = (Len(o) - i) + 1
      BY <1>0, <1>1, <2>1
    <3>2. /\ StillOpen(records, o[i], (k + 1) + 1)
          /\ Entered(records, o[i] + 1, k + 1) =
                 Left(records, o[i] + 1, k + 1) + ((Len(o) - i) + 1)
      BY <2>1, <3>1, OpenAfter DEF Counted
    <3> QED
      BY <3>1, <3>2
  <2>2. CASE i = Len(o) + 1
    <3>1. a[i] = k + 1 /\ Len(a) - i = 0 /\ k + 1 \in Nat /\ k + 1 < (k + 1) + 1
      BY <1>0, <1>1, <2>2
    <3>2. Entered(records, (k + 1) + 1, k + 1) = 0 /\ Left(records, (k + 1) + 1, k + 1) = 0
      BY <3>1, EnteredNone
    <3>3. StillOpen(records, k + 1, (k + 1) + 1)
      BY <3>1, OpenedIs
    <3> QED
      BY <3>1, <3>2, <3>3
  <2> QED
    BY <1>2, <2>1, <2>2
<1>7. ASSUME NEW j \in 1 .. k + 1, IsDir(records[j]), StillOpen(records, j, (k + 1) + 1)
      PROVE  \E i \in 2 .. Len(a) : a[i] = j
  <2>1. CASE j = k + 1
    BY <1>0, <1>1, <2>1
  <2>2. CASE j # k + 1
    <3>1. j \in 1 .. k /\ j \in 0 .. k
      BY <2>2
    <3>2. StillOpen(records, j, k + 1)
      BY <1>7, <3>1, ClosedStays
    <3>3. PICK i \in 2 .. Len(o) : o[i] = j
      BY <1>7, <3>1, <3>2 DEF OthersClosed
    <3>4. i \in 2 .. Len(a) /\ a[i] = j
      BY <1>0, <1>1, <3>3
    <3> QED
      BY <3>4
  <2> QED
    BY <2>1, <2>2
<1> QED
  BY <1>1, <1>5, <1>6, <1>7 DEF OthersClosed, a

(* A directory is left, or the root. *)
LEMMA AfterEnd ==
    ASSUME NEW records, NEW c, NEW k \in Nat, NEW o, o # <<>>, IsEnd(records[k + 1]),
           Stacked(records, c, k, o), Counted(records, k, o), OthersClosed(records, k, o)
    PROVE  /\ Stacked(records, c, k + 1, Front(o)) /\ Counted(records, k + 1, Front(o))
           /\ OthersClosed(records, k + 1, Front(o))
<1> DEFINE f == Front(o)
<1>0. /\ Len(o) \in Nat \ {0} /\ DOMAIN o = 1 .. Len(o) /\ 1 \in 1 .. Len(o)
      /\ \A i \in 1 .. Len(o) : o[i] \in 0 .. k
      /\ \A i \in 2 .. Len(o) : i - 1 \in 1 .. Len(o) /\ i \in 1 .. Len(o) /\ o[i] \in 1 .. k
  BY StackFacts
<1>1. /\ f \in Seq(0 .. k + 1) /\ Len(f) = Len(o) - 1
      /\ \A i \in 1 .. Len(f) : i \in 1 .. Len(o) /\ f[i] = o[i]
  <2>1. \A i \in 1 .. Len(o) - 1 : o[i] \in 0 .. k + 1
    BY <1>0
  <2>2. 1 \in Int /\ Len(o) - 1 \in Int
    BY <1>0
  <2>3. /\ SubSeq(o, 1, Len(o) - 1) \in Seq(0 .. k + 1)
        /\ Len(SubSeq(o, 1, Len(o) - 1)) =
               IF 1 <= Len(o) - 1 THEN (Len(o) - 1) - 1 + 1 ELSE 0
        /\ \A i \in 1 .. (Len(o) - 1) - 1 + 1 : SubSeq(o, 1, Len(o) - 1)[i] = o[1 + i - 1]
    BY <2>1, <2>2, SubSeqProperties
  <2>4. \A i \in 1 .. Len(o) - 1 : 1 + i - 1 = i /\ i \in 1 .. Len(o)
    BY <1>0
  <2>5. (Len(o) - 1) - 1 + 1 = Len(o) - 1
    BY <1>0
  <2>6. Len(SubSeq(o, 1, Len(o) - 1)) = Len(o) - 1
    BY <1>0, <2>3
  <2>7. f = SubSeq(o, 1, Len(o) - 1)
    BY DEF Front
  <2> HIDE DEF f
  <2> QED
    BY <2>3, <2>4, <2>5, <2>6, <2>7
<1>2. ASSUME NEW i \in 2 .. Len(f) PROVE SubSeq(f, 1, i - 1) = SubSeq(o, 1, i - 1)
  BY <1>0, <1>1
<1> HIDE DEF f
<1>3. ASSUME NEW i \in 1 .. Len(o)
      PROVE  /\ StillOpen(records, o[i], (k + 1) + 1) <=> Len(o) - i > 0
             /\ Entered(records, o[i] + 1, k + 1) =
                    Left(records, o[i] + 1, k + 1) + ((Len(o) - i) - 1)
  <2>1. Len(o) - i \in Nat /\ o[i] \in 0 .. k
    BY <1>0
  <2> QED
    BY <2>1, OpenAfter DEF Counted
<1>4. Stacked(records, c, k + 1, f)
  <2>1. f # <<>> => f[1] = Root
    <3>1. f # <<>> => 1 \in 1 .. Len(f)
      BY <1>0, <1>1
    <3> QED
      BY <1>1, <3>1 DEF Stacked
  <2>2. ASSUME NEW i \in 2 .. Len(f)
        PROVE  IsDir(records[f[i]]) /\ f[i - 1] < f[i] /\ c[f[i] - 1].open = SubSeq(f, 1, i - 1)
    <3>1. i \in 2 .. Len(o) /\ f[i] = o[i] /\ f[i - 1] = o[i - 1]
      BY <1>0, <1>1
    <3> QED
      BY <1>2, <3>1 DEF Stacked
  <2> QED
    BY <1>1, <2>1, <2>2 DEF Stacked
<1>5. Counted(records, k + 1, f)
  <2> SUFFICES ASSUME NEW i \in 1 .. Len(f)
               PROVE  /\ StillOpen(records, f[i], (k + 1) + 1)
                      /\ Entered(records, f[i] + 1, k + 1) =
                             Left(records, f[i] + 1, k + 1) + (Len(f) - i)
    BY DEF Counted
  <2>1. i \in 1 .. Len(o) /\ f[i] = o[i] /\ Len(o) - i > 0 /\ Len(f) - i = (Len(o) - i) - 1
    BY <1>0, <1>1
  <2> QED
    BY <1>3, <2>1
<1>6. ASSUME f = <<>> PROVE ~StillOpen(records, Root, (k + 1) + 1)
  <2>1. Len(o) = 1
    <3>1. Len(f) = 0
      BY <1>6, EmptySeq
    <3>2. Len(o) \in Nat /\ Len(f) = Len(o) - 1
      BY <1>0, <1>1
    <3> QED
      BY <3>1, <3>2
  <2>2. o[1] = Root
    BY DEF Stacked
  <2> QED
    BY <1>0, <1>3, <2>1, <2>2
<1>7. ASSUME NEW j \in 1 .. k + 1, IsDir(records[j]), StillOpen(records, j, (k + 1) + 1)
      PROVE  \E i \in 2 .. Len(f) : f[i] = j
  <2>1. j \in 1 .. k /\ j \in 0 .. k
    BY <1>7 DEF IsDir, IsEnd
  <2>2. StillOpen(records, j, k + 1)
    BY <1>7, <2>1, ClosedStays
  <2>3. PICK i \in 2 .. Len(o) : o[i] = j
    BY <1>7, <2>1, <2>2 DEF OthersClosed
  <2>4. Len(o) - i > 0
    BY <1>0, <1>3, <1>7, <2>3
  <2>5. i \in 2 .. Len(f) /\ i \in 1 .. Len(f)
    BY <1>0, <1>1, <2>3, <2>4
  <2> QED
    BY <1>1, <2>3, <2>5
<1> QED
  BY <1>4, <1>5, <1>6, <1>7 DEF OthersClosed, f

(* The same for a file, for an end and for a directory. *)
LEMMA ParseFile ==
    ASSUME NEW records, NEW call, IsCall(call), NEW k, call.open # <<>>, IsFile(records[k])
    PROVE  /\ Parse(records, call, k).open = call.open
           /\ Parse(records, call, k).dir = Push(call.dir, Last(call.open), k)
BY ParseIs

LEMMA ParseEnd ==
    ASSUME NEW records, NEW call, IsCall(call), NEW k, call.open # <<>>, IsEnd(records[k])
    PROVE  /\ Parse(records, call, k).open = Front(call.open)
           /\ Parse(records, call, k).dir = call.dir
BY ParseIs

LEMMA ParseDir ==
    ASSUME NEW records, NEW call, IsCall(call), NEW k, call.open # <<>>, IsDir(records[k])
    PROVE  /\ Parse(records, call, k).open = Append(call.open, k)
           /\ Parse(records, call, k).dir = Push(call.dir, Last(call.open), k)
BY ParseIs

(* The next record keeps all that. *)
LEMMA ParsedStep ==
    ASSUME NEW records, NEW c, Through(records, c), NEW k \in Nat, k + 1 \in 1 .. Len(records),
           Parsed(records, c, k)
    PROVE  Parsed(records, c, k + 1)
<1> DEFINE o == c[k].open
           d == c[k].dir
           r == records[k + 1]
           pushed == Push(d, Last(o), k + 1)
<1>1. c[k + 1] = Parse(records, c[k], k + 1)
  BY DEF Through
<1>2. /\ IsCall(c[k + 1])
      /\ o = <<>> => c[k + 1] = c[k]
      /\ o # <<>> /\ IsFile(r) => c[k + 1].open = o /\ c[k + 1].dir = pushed
      /\ o # <<>> /\ IsEnd(r) => c[k + 1].open = Front(o) /\ c[k + 1].dir = d
      /\ o # <<>> /\ IsDir(r) => c[k + 1].open = Append(o, k + 1) /\ c[k + 1].dir = pushed
  <2>1. IsCall(c[k])
    BY DEF Parsed
  <2> DEFINE after == Parse(records, c[k], k + 1)
  <2>2. /\ IsCall(after)
        /\ o = <<>> => after = c[k]
        /\ o # <<>> /\ IsFile(r) => after.open = o /\ after.dir = pushed
        /\ o # <<>> /\ IsEnd(r) => after.open = Front(o) /\ after.dir = d
        /\ o # <<>> /\ IsDir(r) => after.open = Append(o, k + 1) /\ after.dir = pushed
    <3>1. IsCall(after)
      BY <2>1, ParseIs
    <3>2. o = <<>> => after = c[k]
      BY <2>1, ParseIs
    <3>3. ASSUME o # <<>>, IsFile(r) PROVE after.open = o /\ after.dir = pushed
      BY <2>1, <3>3, ParseFile
    <3>4. ASSUME o # <<>>, IsEnd(r) PROVE after.open = Front(o) /\ after.dir = d
      BY <2>1, <3>4, ParseEnd
    <3>5. ASSUME o # <<>>, IsDir(r) PROVE after.open = Append(o, k + 1) /\ after.dir = pushed
      BY <2>1, <3>5, ParseDir
    <3> HIDE DEF after, pushed, o, d, r
    <3> QED
      BY <3>1, <3>2, <3>3, <3>4, <3>5
  <2> QED
    BY <1>1, <2>2
<1>3. /\ Stacked(records, c, k, o) /\ Counted(records, k, o)
      /\ OthersClosed(records, k, o) /\ Treed(records, c, k, d)
  BY DEF Parsed
<1>4. o # <<>> <=> StillOpen(records, Root, k + 1)
  <2>1. o # <<>> => 1 \in 1 .. Len(o) /\ o[1] = Root
    BY <1>3, StackFacts DEF Stacked
  <2> QED
    BY <1>3, <2>1 DEF Counted, OthersClosed
<1>5. \A j : j \in 1 .. k + 1 <=> j \in 1 .. k \/ j = k + 1
  OBVIOUS
<1>6. ASSUME ~StillOpen(records, Root, k + 1) \/ ~(IsEntry(r))
      PROVE  Treed(records, c, k + 1, d)
  BY <1>3, <1>5, <1>6 DEF Treed
<1>7. ASSUME o # <<>>, IsEntry(r) PROVE Treed(records, c, k + 1, pushed)
  <2>1. /\ DOMAIN pushed = DOMAIN d \union {k + 1} /\ pushed[k + 1] = Last(o)
        /\ \A j \in DOMAIN d : j # k + 1 => pushed[j] = d[j]
    BY DEF Push
  <2>2. k + 1 \notin 1 .. k /\ (k + 1) - 1 = k
    OBVIOUS
  <2> HIDE DEF pushed
  <2>3. DOMAIN pushed = {j \in 1 .. k + 1 : StillOpen(records, Root, j) /\ IsEntry(records[j])}
    BY <1>3, <1>4, <1>5, <1>7, <2>1 DEF Treed
  <2>4. \A j \in DOMAIN pushed : pushed[j] = Last(c[j - 1].open)
    BY <1>3, <2>1, <2>2 DEF Treed
  <2> QED
    BY <2>3, <2>4 DEF Treed
<1> HIDE DEF pushed, d, o
<1>8. CASE o = <<>>
  <2>1. c[k + 1].open = <<>> /\ c[k + 1].dir = d
    BY <1>2, <1>8 DEF o, d
  <2> QED
    BY <1>2, <1>3, <1>4, <1>6, <1>8, <2>1, AfterAll DEF Parsed
<1>9. CASE o # <<>> /\ IsFile(r)
  BY <1>2, <1>3, <1>7, <1>9, AfterFile DEF Parsed, IsEntry
<1>10. CASE o # <<>> /\ IsEnd(r)
  <2>1. ~(IsEntry(r))
    BY <1>10 DEF IsEnd, IsDir, IsEntry
  <2> QED
    BY <1>2, <1>3, <1>6, <1>10, <2>1, AfterEnd DEF Parsed
<1>11. CASE o # <<>> /\ IsDir(r)
  <2>1. c[k].open = o
    BY DEF o
  <2> QED
    BY <1>2, <1>3, <1>7, <1>11, <2>1, AfterDir DEF Parsed, IsEntry
<1> QED
  BY <1>8, <1>9, <1>10, <1>11 DEF IsEnd, IsDir

(* So it holds after every record. *)
LEMMA AllParsed ==
    ASSUME NEW records, IsIndex(records), NEW c, Through(records, c)
    PROVE  \A k \in 0 .. Len(records) : Parsed(records, c, k)
<1> DEFINE B == {k \in 0 .. Len(records) : ~Parsed(records, c, k)}
<1> SUFFICES ASSUME B # {} PROVE FALSE
  OBVIOUS
<1>0. Len(records) \in Nat
  BY DEF IsIndex
<1>1. B \in SUBSET Nat
  BY <1>0
<1>2. PICK m \in B : \A k \in B : m <= k
  BY <1>1, LeastNumber
<1>3. m # 0
  BY <1>2, ParsedInit DEF Through
<1>4. m - 1 \in Nat /\ m - 1 \in 0 .. Len(records) /\ m \in 1 .. Len(records) /\ ~(m <= m - 1)
      /\ (m - 1) + 1 = m
  BY <1>0, <1>3
<1>5. m - 1 \notin B
  <2> HIDE DEF B
  <2> QED
    BY <1>2, <1>4
<1>6. Parsed(records, c, m - 1)
  BY <1>4, <1>5
<1>7. Parsed(records, c, (m - 1) + 1)
  BY <1>4, <1>6, ParsedStep
<1> QED
  BY <1>4, <1>7
-----------------------------------------------------------------------------
(* c: what the calls were after each record, the last of them the tree. *)
Builds(records, c) == Through(records, c) /\ VPDir(records) = c[Len(records)].dir

(* The directories around record k, from the root, and k. *)
Trail(c, k) == Append(c[k - 1].open, k)

(* The tree has the files and directories that come before the end of the  *)
(* root, each in the directory that was entered last.                      *)
LEMMA TreeIs ==
    ASSUME NEW records, IsIndex(records), NEW c, Builds(records, c)
    PROVE  /\ DOMAIN VPDir(records) =
                  {k \in 1 .. Len(records) : StillOpen(records, Root, k) /\ IsEntry(records[k])}
           /\ \A k \in DOMAIN VPDir(records) : VPDir(records)[k] = Last(c[k - 1].open)
<1>1. Len(records) \in 0 .. Len(records)
  BY DEF IsIndex
<1>2. Parsed(records, c, Len(records))
  BY <1>1, AllParsed DEF Builds
<1> QED
  BY <1>2 DEF Parsed, Treed, Builds

(* A trail begins at the root, ends with the record and increases; what is *)
(* in between are the directories that are open by counting.               *)
IsTrail(records, c, k, o, t) ==
    /\ o \in Seq(0 .. k - 1) /\ o # <<>>
    /\ Len(t) \in Nat /\ Len(t) >= 2 /\ Len(o) = Len(t) - 1
    /\ t \in Seq(0 .. k) /\ DOMAIN t = 1 .. Len(t)
    /\ \A i \in 1 .. Len(t) - 1 : t[i] = o[i]
    /\ t[1] = Root /\ t[Len(t)] = k
    /\ \A i \in 1 .. Len(t) : t[i] \in 0 .. k
    /\ \A i \in 2 .. Len(t) : t[i - 1] < t[i]
    /\ \A i \in 2 .. Len(t) - 1 : /\ IsDir(records[t[i]]) /\ t[i] \in 1 .. k - 1
                                  /\ StillOpen(records, t[i], k)
                                  /\ c[t[i] - 1].open = SubSeq(o, 1, i - 1)
    /\ \A j \in 1 .. k - 1 : IsDir(records[j]) /\ StillOpen(records, j, k)
                               => \E i \in 2 .. Len(t) - 1 : t[i] = j

(* Such is the trail of every record before the end of the root. *)
LEMMA TrailIs ==
    ASSUME NEW records, IsIndex(records), NEW c, Builds(records, c), NEW k \in 1 .. Len(records),
           StillOpen(records, Root, k)
    PROVE  IsTrail(records, c, k, c[k - 1].open, Trail(c, k))
<1> DEFINE o == c[k - 1].open
           t == Trail(c, k)
<1>1. Len(records) \in Nat /\ k \in Nat /\ k - 1 \in Nat /\ k - 1 \in 0 .. Len(records)
      /\ (k - 1) + 1 = k
  BY DEF IsIndex
<1>2. Parsed(records, c, k - 1)
  BY <1>1, AllParsed DEF Builds
<1>3. /\ Stacked(records, c, k - 1, o) /\ Counted(records, k - 1, o)
      /\ OthersClosed(records, k - 1, o)
  BY <1>2 DEF Parsed
<1> HIDE DEF o
<1>4. o # <<>>
  BY <1>1, <1>3 DEF OthersClosed
<1>5. /\ Len(o) \in Nat \ {0} /\ DOMAIN o = 1 .. Len(o) /\ 1 \in 1 .. Len(o)
      /\ \A i \in 1 .. Len(o) : o[i] \in 0 .. k - 1
      /\ \A i \in 2 .. Len(o) : i - 1 \in 1 .. Len(o) /\ i \in 1 .. Len(o) /\ o[i] \in 1 .. k - 1
  BY <1>1, <1>3, <1>4, StackFacts
<1>6. o \in Seq(0 .. k - 1) /\ o \in Seq(0 .. k) /\ k \in 0 .. k
  BY <1>1, <1>3, SeqMonotonic DEF Stacked
<1>7. t = Append(o, k)
  BY DEF Trail, o
<1> HIDE DEF t
<1>8. /\ t \in Seq(0 .. k) /\ Len(t) = Len(o) + 1
      /\ \A i \in 1 .. Len(o) : t[i] = o[i]
      /\ t[Len(o) + 1] = k
  BY <1>6, <1>7, AppendProperties
<1>9. /\ Len(t) \in Nat /\ Len(t) >= 2 /\ Len(o) = Len(t) - 1 /\ DOMAIN t = 1 .. Len(t)
      /\ t[Len(t)] = k
  BY <1>5, <1>8
<1>10. t[1] = Root
  BY <1>3, <1>4, <1>5, <1>8 DEF Stacked
<1>11. ASSUME NEW i \in 2 .. Len(t) - 1
       PROVE  /\ IsDir(records[t[i]]) /\ t[i] \in 1 .. k - 1 /\ StillOpen(records, t[i], k)
              /\ c[t[i] - 1].open = SubSeq(o, 1, i - 1) /\ t[i - 1] < t[i]
  <2>1. i \in 2 .. Len(o) /\ t[i] = o[i] /\ t[i - 1] = o[i - 1] /\ i \in 1 .. Len(o)
    BY <1>5, <1>8, <1>9
  <2> QED
    BY <1>1, <1>3, <1>5, <2>1 DEF Stacked, Counted
<1>12. t[Len(t) - 1] < k
  BY <1>1, <1>5, <1>8, <1>9
<1>13. ASSUME NEW i \in 2 .. Len(t) PROVE t[i - 1] < t[i]
  BY <1>9, <1>11, <1>12
<1>14. ASSUME NEW j \in 1 .. k - 1, IsDir(records[j]), StillOpen(records, j, k)
       PROVE  \E i \in 2 .. Len(t) - 1 : t[i] = j
  <2>1. PICK i \in 2 .. Len(o) : o[i] = j
    BY <1>1, <1>3, <1>4, <1>14 DEF OthersClosed
  <2>2. i \in 2 .. Len(t) - 1 /\ t[i] = j
    BY <1>5, <1>8, <1>9, <2>1
  <2> QED
    BY <2>2
<1>15. \A i \in 1 .. Len(t) : t[i] \in 0 .. k
  BY <1>8
<1> QED
  BY <1>4, <1>6, <1>8, <1>9, <1>10, <1>11, <1>13, <1>14, <1>15 DEF IsTrail, o, t

(* A trail leads through the tree, each its directory behind the last. *)
LedTo(records, c, t) ==
    \A i \in 2 .. Len(t) : /\ t[i] \in DOMAIN VPDir(records)
                           /\ VPDir(records)[t[i]] = t[i - 1]
                           /\ i < Len(t) => c[t[i] - 1].open = SubSeq(t, 1, i - 1)

LEMMA TrailLeads ==
    ASSUME NEW records, IsIndex(records), NEW c, Builds(records, c),
           NEW k \in DOMAIN VPDir(records)
    PROVE  LedTo(records, c, Trail(c, k))
<1> DEFINE dir == VPDir(records)
           o == c[k - 1].open
           t == Trail(c, k)
<1>1. /\ DOMAIN dir = {j \in 1 .. Len(records) : StillOpen(records, Root, j) /\ IsEntry(records[j])}
      /\ \A j \in DOMAIN dir : dir[j] = Last(c[j - 1].open)
  BY TreeIs
<1>2. k \in 1 .. Len(records) /\ StillOpen(records, Root, k) /\ Len(records) \in Nat
  BY <1>1 DEF IsIndex
<1>3. /\ o \in Seq(0 .. k - 1) /\ Len(t) \in Nat /\ Len(t) >= 2 /\ Len(o) = Len(t) - 1
      /\ t \in Seq(0 .. k)
      /\ \A i \in 1 .. Len(t) - 1 : t[i] = o[i]
      /\ t[Len(t)] = k
      /\ \A i \in 2 .. Len(t) - 1 : /\ IsDir(records[t[i]]) /\ t[i] \in 1 .. k - 1
                                    /\ c[t[i] - 1].open = SubSeq(o, 1, i - 1)
  <2>1. IsTrail(records, c, k, o, t)
    BY <1>2, TrailIs
  <2> HIDE DEF o, t
  <2> QED
    BY <2>1 DEF IsTrail
<1> HIDE DEF dir, o, t
<1> SUFFICES ASSUME NEW i \in 2 .. Len(t)
             PROVE  /\ t[i] \in DOMAIN dir /\ dir[t[i]] = t[i - 1]
                    /\ i < Len(t) => c[t[i] - 1].open = SubSeq(t, 1, i - 1)
  BY DEF dir, t, LedTo
<1>4. CASE i = Len(t)
  <2>1. t[i] = k /\ t[i - 1] = o[Len(o)]
    BY <1>3, <1>4
  <2>2. k \in DOMAIN dir /\ dir[k] = o[Len(o)]
    BY <1>1 DEF Last, dir, o
  <2> QED
    BY <1>3, <1>4, <2>1, <2>2
<1>5. CASE i # Len(t)
  <2>1. /\ i \in 2 .. Len(t) - 1 /\ i - 1 \in 1 .. Len(t) - 1 /\ i - 1 \in 0 .. Len(o)
        /\ i - 1 \in 1 .. i - 1 /\ i - 1 \in 0 .. Len(t) /\ i - 1 \in Nat
    BY <1>3, <1>5
  <2>2. t[i] \in 1 .. k - 1 /\ IsDir(records[t[i]]) /\ c[t[i] - 1].open = SubSeq(o, 1, i - 1)
    BY <1>3, <2>1
  <2>3. t[i] \in 1 .. Len(records) /\ StillOpen(records, Root, t[i])
    BY <1>2, <2>2 DEF StillOpen, Root
  <2>4. t[i] \in DOMAIN dir
    BY <1>1, <2>2, <2>3 DEF IsEntry
  <2>5. /\ SubSeq(o, 1, i - 1) \in Seq(0 .. k - 1) /\ Len(SubSeq(o, 1, i - 1)) = i - 1
        /\ \A j \in 1 .. i - 1 : SubSeq(o, 1, i - 1)[j] = o[j]
    BY <1>3, <2>1, Beginning
  <2>6. /\ SubSeq(t, 1, i - 1) \in Seq(0 .. k) /\ Len(SubSeq(t, 1, i - 1)) = i - 1
        /\ \A j \in 1 .. i - 1 : SubSeq(t, 1, i - 1)[j] = t[j]
    BY <1>3, <2>1, Beginning
  <2> DEFINE f == SubSeq(o, 1, i - 1)
  <2>7. dir[t[i]] = t[i - 1]
    <3>1. dir[t[i]] = Last(c[t[i] - 1].open)
      BY <1>1, <2>4
    <3>2. dir[t[i]] = Last(f) /\ Len(f) = i - 1 /\ f[i - 1] = o[i - 1]
      BY <2>1, <2>2, <2>5, <3>1
    <3> HIDE DEF f
    <3>3. Last(f) = f[Len(f)]
      BY DEF Last
    <3> QED
      BY <1>3, <2>1, <3>2, <3>3
  <2>8. SubSeq(o, 1, i - 1) \in Seq(0 .. k)
    <3>1. k \in Nat
      BY <1>2
    <3>2. (0 .. k - 1) \subseteq 0 .. k
      BY <3>1
    <3>3. f \in Seq(0 .. k - 1)
      BY <2>5
    <3> HIDE DEF f
    <3>4. f \in Seq(0 .. k)
      BY <3>2, <3>3, SeqMonotonic
    <3> QED
      BY <3>4 DEF f
  <2>9. SubSeq(o, 1, i - 1) = SubSeq(t, 1, i - 1)
    <3>1. \A j \in 1 .. i - 1 : o[j] = t[j]
      BY <1>3, <2>1
    <3> QED
      BY <2>5, <2>6, <2>8, <3>1, SeqEqual
  <2> QED
    BY <2>2, <2>4, <2>7, <2>9
<1> QED
  BY <1>4, <1>5

(* The names along a trail. *)
Names(records, t) == [n \in 1 .. Len(t) - 1 |-> records[t[n + 1]].name]

(* The names along the trail of an entry are those along the trail of its  *)
(* directory and its own.                                                  *)
LEMMA NamesAre ==
    ASSUME NEW records, IsIndex(records), NEW c, Builds(records, c),
           NEW k \in DOMAIN VPDir(records), NEW d, d = VPDir(records)[k]
    PROVE  /\ d = Root => Names(records, Trail(c, k)) = <<records[k].name>>
           /\ d # Root => /\ d \in DOMAIN VPDir(records) /\ d \in Nat /\ d < k
                          /\ Names(records, Trail(c, k)) =
                                 Append(Names(records, Trail(c, d)), records[k].name)
<1> DEFINE t == Trail(c, k)
           o == c[k - 1].open
           n == Len(t)
<1>1. k \in 1 .. Len(records) /\ StillOpen(records, Root, k) /\ Len(records) \in Nat
  BY TreeIs DEF IsIndex
<1>2. /\ o \in Seq(0 .. k - 1)
      /\ n \in Nat /\ n >= 2 /\ Len(o) = n - 1 /\ t \in Seq(0 .. k)
      /\ \A i \in 1 .. n - 1 : t[i] = o[i]
      /\ t[1] = Root /\ t[n] = k
      /\ \A i \in 2 .. n : t[i - 1] < t[i]
      /\ \A i \in 1 .. n : t[i] \in 0 .. k
      /\ \A i \in 2 .. n - 1 : t[i] \in 1 .. k - 1
  <2>1. IsTrail(records, c, k, o, t)
    BY <1>1, TrailIs
  <2> HIDE DEF o, t
  <2> QED
    BY <2>1 DEF IsTrail
<1>3. \A i \in 2 .. n : /\ t[i] \in DOMAIN VPDir(records) /\ VPDir(records)[t[i]] = t[i - 1]
                        /\ i < n => c[t[i] - 1].open = SubSeq(t, 1, i - 1)
  <2>1. LedTo(records, c, t)
    BY TrailLeads
  <2> HIDE DEF t
  <2> QED
    BY <2>1 DEF LedTo
<1> HIDE DEF t, o, n
<1>4. d = t[n - 1]
  <2>1. n \in 2 .. n
    BY <1>2
  <2> QED
    BY <1>2, <1>3, <2>1
<1>5. ASSUME n = 2 PROVE d = Root /\ Names(records, t) = <<records[k].name>>
  <2>1. Names(records, t) = [m \in 1 .. 1 |-> records[k].name]
    BY <1>2, <1>5 DEF Names, n
  <2>2. <<records[k].name>> = [m \in 1 .. 1 |-> records[k].name]
    OBVIOUS
  <2> QED
    BY <1>2, <1>4, <1>5, <2>1, <2>2
<1>6. ASSUME n # 2
      PROVE  /\ d # Root /\ d \in DOMAIN VPDir(records) /\ d \in Nat /\ d < k
             /\ Names(records, t) = Append(Names(records, Trail(c, d)), records[k].name)
  <2>1. n - 1 \in 2 .. n - 1 /\ n - 1 \in 2 .. n /\ n - 1 < n /\ n - 2 \in Nat
        /\ (n - 1) - 1 = n - 2 /\ n - 2 \in 0 .. n
    BY <1>2, <1>6
  <2>2. d \in 1 .. k - 1 /\ d \in DOMAIN VPDir(records) /\ c[d - 1].open = SubSeq(t, 1, n - 2)
    BY <1>2, <1>3, <1>4, <2>1
  <2>3. d # Root /\ d \in Nat /\ d < k /\ d \in 0 .. k
    BY <1>1, <2>2 DEF Root
  <2>4. /\ SubSeq(t, 1, n - 2) \in Seq(0 .. k) /\ Len(SubSeq(t, 1, n - 2)) = n - 2
        /\ \A i \in 1 .. n - 2 : SubSeq(t, 1, n - 2)[i] = t[i]
    BY <1>2, <2>1, Beginning DEF n
  <2> DEFINE u == Append(SubSeq(t, 1, n - 2), d)
  <2>5. /\ Len(u) = (n - 2) + 1 /\ \A i \in 1 .. n - 2 : u[i] = SubSeq(t, 1, n - 2)[i]
        /\ u[(n - 2) + 1] = d
    BY <2>3, <2>4, AppendProperties
  <2>6. (n - 2) + 1 = n - 1
    BY <1>2
  <2>7. Len(u) = n - 1 /\ \A i \in 1 .. n - 1 : u[i] = t[i]
    <3>1. \A i \in 1 .. n - 1 : i \in 1 .. n - 2 \/ i = n - 1
      BY <1>2
    <3> HIDE DEF u
    <3> QED
      BY <1>4, <2>4, <2>5, <2>6, <3>1
  <2>8. Trail(c, d) = u
    BY <2>2 DEF Trail
  <2> HIDE DEF u
  <2> DEFINE name(i) == records[t[i + 1]].name
             a == [i \in 1 .. n - 2 |-> name(i)]
  <2>9. Names(records, Trail(c, d)) = a
    <3>1. \A i \in 1 .. n - 2 : u[i + 1] = t[i + 1]
      BY <1>2, <2>7
    <3>2. Names(records, u) = [i \in 1 .. n - 2 |-> records[u[i + 1]].name]
      BY <2>7, <2>1 DEF Names
    <3> QED
      BY <2>8, <3>1, <3>2
  <2>10. Names(records, t) = [i \in 1 .. n - 1 |-> name(i)]
    BY DEF Names, n
  <2>11. name(n - 1) = records[k].name
    <3>1. (n - 1) + 1 = n
      BY <1>2
    <3> QED
      BY <1>2, <3>1
  <2> DEFINE V == {name(i) : i \in 1 .. n - 1}
  <2>12. \A i \in 1 .. n - 1 : name(i) \in V
    OBVIOUS
  <2>13. n - 1 \in 1 .. n - 1 /\ \A i \in 1 .. n - 2 : i \in 1 .. n - 1
    BY <1>2
  <2> HIDE DEF name, V
  <2>14. a \in Seq(V) /\ Len(a) = n - 2 /\ name(n - 1) \in V
    BY <2>1, <2>12, <2>13
  <2>15. /\ Len(Append(a, name(n - 1))) = (n - 2) + 1 /\ Append(a, name(n - 1)) \in Seq(V)
         /\ \A i \in 1 .. n - 2 : Append(a, name(n - 1))[i] = a[i]
         /\ Append(a, name(n - 1))[(n - 2) + 1] = name(n - 1)
    <3> HIDE DEF a
    <3> QED
      BY <2>14, AppendProperties
  <2>16. [i \in 1 .. n - 1 |-> name(i)] \in Seq(V) /\ Len([i \in 1 .. n - 1 |-> name(i)]) = n - 1
    BY <2>1, <2>6, <2>12
  <2>17. Append(a, name(n - 1)) = [i \in 1 .. n - 1 |-> name(i)]
    <3> DEFINE b == Append(a, name(n - 1))
               e == [i \in 1 .. n - 1 |-> name(i)]
    <3>1. \A i \in 1 .. n - 1 : i \in 1 .. n - 2 \/ i = n - 1
      BY <1>2
    <3>2. \A i \in 1 .. n - 2 : a[i] = name(i)
      OBVIOUS
    <3>3. \A i \in 1 .. n - 1 : e[i] = name(i)
      OBVIOUS
    <3>4. /\ b \in Seq(V) /\ e \in Seq(V) /\ Len(b) = n - 1 /\ Len(e) = n - 1
      BY <2>6, <2>15, <2>16
    <3>5. \A i \in 1 .. n - 1 : b[i] = e[i]
      <4> HIDE DEF a, e
      <4> QED
        BY <2>6, <2>15, <3>1, <3>2, <3>3
    <3> HIDE DEF a, b, e
    <3>6. b = e
      BY <3>4, <3>5, SeqEqual
    <3> QED
      BY <3>6 DEF b, e
  <2> QED
    BY <2>2, <2>3, <2>9, <2>10, <2>11, <2>17
<1> QED
  BY <1>5, <1>6 DEF t

(* The path of an entry is made of the names along its trail. *)
LEMMA PathsAre ==
    ASSUME NEW records, IsIndex(records), NEW c, Builds(records, c),
           NEW k \in DOMAIN VPDir(records)
    PROVE  Paths(records)[k] = Names(records, Trail(c, k))
<1> DEFINE dir == VPDir(records)
           Solves(f) == f = [j \in DOMAIN dir |->
                                IF dir[j] = Root THEN <<records[j].name>>
                                                 ELSE Append(f[dir[j]], records[j].name)]
           path == CHOOSE f : Solves(f)
           g == [j \in DOMAIN dir |-> Names(records, Trail(c, j))]
<1>1. Paths(records) = path
  BY DEF Paths
<1>2. Solves(g)
  <2>1. ASSUME NEW j \in DOMAIN dir
        PROVE  g[j] = IF dir[j] = Root THEN <<records[j].name>>
                                       ELSE Append(g[dir[j]], records[j].name)
    BY NamesAre
  <2> HIDE DEF dir
  <2> QED
    BY <2>1
<1>3. Solves(path)
  <2> HIDE DEF Solves, g
  <2> QED
    BY <1>2
<1>4. \A j \in DOMAIN dir : path[j] = g[j]
  <2> DEFINE B == {j \in DOMAIN dir : path[j] # g[j]}
  <2> SUFFICES ASSUME B # {} PROVE FALSE
    OBVIOUS
  <2>1. B \in SUBSET Nat
    BY TreeIs DEF IsIndex
  <2>2. PICK m \in B : \A j \in B : m <= j
    <3> HIDE DEF B
    <3> QED
      BY <2>1, LeastNumber
  <2>3. m \in DOMAIN dir /\ m \in Nat /\ path[m] # g[m]
    BY <2>1, <2>2
  <2>4. dir[m] # Root => dir[m] \in DOMAIN dir /\ dir[m] \in Nat /\ dir[m] < m
    BY <2>3, NamesAre
  <2>5. dir[m] # Root => path[dir[m]] = g[dir[m]]
    <3>1. dir[m] # Root => ~(m <= dir[m])
      BY <2>3, <2>4
    <3>2. dir[m] # Root => dir[m] \notin B
      <4> HIDE DEF B, dir, path, g
      <4> QED
        BY <2>2, <2>4, <3>1
    <3> HIDE DEF dir, path, g
    <3> QED
      BY <2>4, <3>2
  <2> HIDE DEF dir, path, g, B
  <2>6. path[m] = IF dir[m] = Root THEN <<records[m].name>>
                                   ELSE Append(path[dir[m]], records[m].name)
    BY <1>3, <2>3
  <2>7. g[m] = IF dir[m] = Root THEN <<records[m].name>>
                                ELSE Append(g[dir[m]], records[m].name)
    BY <1>2, <2>3
  <2> QED
    BY <2>3, <2>5, <2>6, <2>7
<1>5. g[k] = Names(records, Trail(c, k))
  OBVIOUS
<1> QED
  <2>1. k \in DOMAIN dir
    OBVIOUS
  <2> HIDE DEF dir, path, g
  <2> QED
    BY <1>1, <1>4, <1>5, <2>1

(* Counting finds the trail behind the root. *)
LEMMA AroundIs ==
    ASSUME NEW records, IsIndex(records), NEW c, Builds(records, c),
           NEW k \in DOMAIN VPDir(records), NEW t, t = Trail(c, k)
    PROVE  Around(records, k) = [i \in 1 .. Len(t) - 1 |-> t[i + 1]]
<1> DEFINE n == Len(t)
           q == [i \in 1 .. n - 1 |-> t[i + 1]]
           S == {j \in 1 .. k : \/ j = k
                                \/ /\ ~IsFile(records[j]) /\ records[j].name # ParentDir
                                   /\ StillOpen(records, j, k)}
<1>1. k \in 1 .. Len(records) /\ StillOpen(records, Root, k) /\ k \in Nat
  <2>1. k \in 1 .. Len(records) /\ StillOpen(records, Root, k)
    BY TreeIs
  <2> QED
    BY <2>1 DEF IsIndex
<1>2. /\ n \in Nat /\ n >= 2 /\ t[n] = k /\ t[1] = Root
      /\ \A i \in 2 .. n : t[i - 1] < t[i]
      /\ \A i \in 1 .. n : t[i] \in 0 .. k
      /\ \A i \in 2 .. n - 1 : /\ IsDir(records[t[i]]) /\ t[i] \in 1 .. k - 1
                               /\ StillOpen(records, t[i], k)
      /\ \A j \in 1 .. k - 1 : IsDir(records[j]) /\ StillOpen(records, j, k)
                                => \E i \in 2 .. n - 1 : t[i] = j
  <2>1. IsTrail(records, c, k, c[k - 1].open, t)
    BY <1>1, TrailIs
  <2> QED
    BY <2>1 DEF IsTrail
<1>3. S = {j \in 1 .. k : j = k \/ (IsDir(records[j]) /\ StillOpen(records, j, k))}
  BY DEF IsDir
<1> HIDE DEF n, S
<1>4. ASSUME NEW j \in S PROVE \E i \in 1 .. n - 1 : q[i] = j
  <2>1. \A i \in 2 .. n : i - 1 \in 1 .. n - 1 /\ q[i - 1] = t[i]
    BY <1>2
  <2>2. n \in 2 .. n /\ \A i \in 2 .. n - 1 : i \in 2 .. n
    BY <1>2
  <2>3. \E i \in 2 .. n : t[i] = j
    <3>1. CASE j = k
      BY <1>2, <2>2, <3>1
    <3>2. CASE j # k
      <4>1. j \in 1 .. k - 1 /\ IsDir(records[j]) /\ StillOpen(records, j, k)
        BY <1>1, <1>3, <3>2
      <4> QED
        BY <1>2, <2>2, <4>1
    <3> QED
      BY <3>1, <3>2
  <2> QED
    BY <2>1, <2>3
<1>5. ASSUME NEW i \in 1 .. n - 1 PROVE q[i] \in S /\ q[i] \in Nat
  <2>1. q[i] = t[i + 1] /\ (i + 1 = n \/ i + 1 \in 2 .. n - 1)
    BY <1>2
  <2>2. k \in 1 .. k
    BY <1>1
  <2>3. CASE i + 1 = n
    BY <1>1, <1>2, <1>3, <2>1, <2>2, <2>3
  <2>4. CASE i + 1 \in 2 .. n - 1
    <3>1. t[i + 1] \in 1 .. k - 1 /\ IsDir(records[t[i + 1]]) /\ StillOpen(records, t[i + 1], k)
      BY <1>2, <2>4
    <3>2. \A j \in 1 .. k - 1 : j \in 1 .. k /\ j \in Nat
      BY <1>1
    <3> QED
      BY <1>3, <2>1, <3>1, <3>2
  <2> QED
    BY <2>1, <2>3, <2>4
<1> HIDE DEF q
<1>6. S = {q[i] : i \in 1 .. n - 1}
  BY <1>4, <1>5
<1>7. \A i, j \in 1 .. n - 1 : i < j => q[i] < q[j]
  <2> DEFINE B == {m \in 1 .. n - 1 : \E l \in 1 .. n - 1 : l < m /\ ~(q[l] < q[m])}
  <2>1. B = {}
    <3> SUFFICES ASSUME B # {} PROVE FALSE
      OBVIOUS
    <3>1. B \in SUBSET Nat
      BY <1>2
    <3>2. PICK m \in B : \A j \in B : m <= j
      <4> HIDE DEF B
      <4> QED
        BY <3>1, LeastNumber
    <3>3. PICK l \in 1 .. n - 1 : l < m /\ ~(q[l] < q[m])
      BY <3>2
    <3>4. m \in 2 .. n - 1 /\ m - 1 \in 1 .. n - 1 /\ ~(m <= m - 1) /\ m + 1 \in 2 .. n
          /\ (m + 1) - 1 = m /\ (m - 1) + 1 = m
      BY <1>2, <3>2, <3>3
    <3>5. q[m - 1] < q[m]
      BY <1>2, <3>4 DEF q
    <3>6. l = m - 1 \/ l < m - 1
      BY <3>2, <3>3
    <3>7. q[l] \in Nat /\ q[m] \in Nat /\ q[m - 1] \in Nat
      BY <1>5, <3>3, <3>4
    <3>8. m - 1 \notin B
      <4> HIDE DEF B
      <4> QED
        BY <3>2, <3>4
    <3>9. l < m - 1 => q[l] < q[m - 1]
      BY <3>3, <3>4, <3>8
    <3> QED
      BY <3>3, <3>5, <3>6, <3>7, <3>9
  <2> QED
    BY <2>1
<1>8. n - 1 \in Nat /\ \A i \in 1 .. n - 1 : q[i] \in Nat
  BY <1>2, <1>5
<1>9. InOrder(S) = [i \in 1 .. n - 1 |-> q[i]]
  BY <1>6, <1>7, <1>8, InOrderIs
<1>10. [i \in 1 .. n - 1 |-> q[i]] = [i \in 1 .. n - 1 |-> t[i + 1]]
  BY DEF q
<1>11. Around(records, k) = InOrder(S)
  BY DEF Around, S
<1> QED
  BY <1>9, <1>10, <1>11 DEF n
-----------------------------------------------------------------------------
(* What is listed: the files of the tree, in the order of the records. *)
LEMMA FlattenIs ==
    ASSUME NEW records, IsIndex(records)
    PROVE  /\ Len(flatten(records)) \in Nat
           /\ DOMAIN flatten(records) = 1 .. Len(flatten(records))
           /\ {flatten(records)[i].record : i \in DOMAIN flatten(records)} =
                  {k \in DOMAIN VPDir(records) : IsFile(records[k])}
           /\ \A i, j \in DOMAIN flatten(records) :
                  i < j => flatten(records)[i].record < flatten(records)[j].record
           /\ \A i \in DOMAIN flatten(records) :
                  LET k == flatten(records)[i].record
                  IN  /\ k \in DOMAIN records /\ IsFile(records[k])
                      /\ flatten(records)[i].path = Paths(records)[k]
                      /\ flatten(records)[i].offset = records[k].offset
                      /\ flatten(records)[i].size = records[k].size
<1> DEFINE S == {k \in DOMAIN VPDir(records) : IsFile(records[k])}
           q == InOrder(S)
           n == Cardinality(S)
           listed == flatten(records)
<1>1. S \in SUBSET Nat /\ IsFiniteSet(S) /\ \A k \in S : k \in DOMAIN records /\ IsFile(records[k])
  <2>1. PICK c : Builds(records, c)
    BY Calls DEF Builds
  <2>2. /\ S \in SUBSET (1 .. Len(records)) /\ Len(records) \in Nat
        /\ DOMAIN records = 1 .. Len(records)
    BY <2>1, TreeIs DEF IsIndex
  <2>4. \A k \in S : IsFile(records[k])
    OBVIOUS
  <2> HIDE DEF S
  <2>3. IsFiniteSet(1 .. Len(records)) /\ (1 .. Len(records)) \in SUBSET Nat
    BY <2>2, FS_Interval
  <2> QED
    BY <2>2, <2>3, <2>4, FS_Subset
<1>2. /\ listed = [i \in DOMAIN q |->
                     [record |-> q[i], path |-> Paths(records)[q[i]],
                      offset |-> records[q[i]].offset, size |-> records[q[i]].size,
                      stubbed |-> records[q[i]].stubbed]]
  BY DEF flatten
<1> HIDE DEF S, q, n, listed
<1>3. /\ n \in Nat /\ DOMAIN q = 1 .. n
      /\ {q[i] : i \in 1 .. n} = S
      /\ \A i, j \in 1 .. n : i < j => q[i] < q[j]
  BY <1>1, InOrderLists DEF q, n
<1>4. DOMAIN listed = 1 .. n /\ Len(listed) = n
  BY <1>2, <1>3
<1>5. \A i \in 1 .. n : /\ listed[i].record = q[i]
                        /\ listed[i].path = Paths(records)[q[i]]
                        /\ listed[i].offset = records[q[i]].offset
                        /\ listed[i].size = records[q[i]].size
  BY <1>2, <1>3
<1>6. {listed[i].record : i \in 1 .. n} = S
  BY <1>3, <1>5
<1> QED
  BY <1>1, <1>3, <1>4, <1>5, <1>6 DEF listed, S

(* The calls build what counting the records gives. *)
LEMMA TheTree ==
    ASSUME NEW records, IsIndex(records)
    PROVE  ListsTheTree(records)
<1> DEFINE listed == flatten(records)
           dir == VPDir(records)
<1>1. PICK c : Builds(records, c)
  BY Calls DEF Builds
<1>2. /\ \A i, j \in DOMAIN listed : i < j => listed[i].record < listed[j].record
      /\ {listed[i].record : i \in DOMAIN listed} = {k \in DOMAIN dir : IsFile(records[k])}
      /\ \A i \in DOMAIN listed : listed[i].path = Paths(records)[listed[i].record]
  BY FlattenIs
<1>3. {k \in DOMAIN dir : IsFile(records[k])} =
          {k \in DOMAIN records : IsFile(records[k]) /\ StillOpen(records, Root, k)}
  BY <1>1, TreeIs DEF IsIndex, IsEntry
<1>4. ASSUME NEW k \in DOMAIN dir
      PROVE  Paths(records)[k] = [n \in DOMAIN Around(records, k) |->
                                      records[Around(records, k)[n]].name]
  <2> DEFINE t == Trail(c, k)
             m == Len(t) - 1
  <2>1. Paths(records)[k] = [n \in 1 .. m |-> records[t[n + 1]].name]
    BY <1>1, PathsAre DEF Names
  <2>2. Around(records, k) = [n \in 1 .. m |-> t[n + 1]]
    BY <1>1, AroundIs
  <2> HIDE DEF t, m
  <2>3. DOMAIN Around(records, k) = 1 .. m /\ \A n \in 1 .. m : Around(records, k)[n] = t[n + 1]
    BY <2>2
  <2> QED
    BY <2>1, <2>3
<1>5. \A i \in DOMAIN listed : listed[i].record \in DOMAIN dir
  BY <1>2
<1> HIDE DEF listed, dir
<1>6. \A i \in DOMAIN listed :
          listed[i].path = [n \in DOMAIN Around(records, listed[i].record) |->
                                records[Around(records, listed[i].record)[n]].name]
  BY <1>2, <1>4, <1>5
<1> QED
  BY <1>2, <1>3, <1>6 DEF ListsTheTree, listed, dir
-----------------------------------------------------------------------------
(* One name of a path, for locate or for the directories of read_entry. *)
Follow(by, records, at, name) ==
    IF by = "locate" /\ \E d \in at : d # Root /\ IsFile(records[d]) THEN at
    ELSE First({k \in UNION {Named(records, d, name) : d \in at} :
                   by = "locate" \/ ~IsFile(records[k])})

(* c[m]: where m names of the path lead. *)
Follows(by, records, path, n, c) ==
    /\ c[0] = {Root}
    /\ \A m \in 1 .. n : c[m] = Follow(by, records, c[m - 1], path[m])

(* The file of that name in the directory that was found. *)
FileNamed(records, at, name) ==
    First({k \in UNION {Named(records, d, name) : d \in at} : IsFile(records[k])})

(* f[s]: where the names in the set s lead. *)
Folds(by, records, path, n, f) ==
    f = [s \in SUBSET (1 .. n) |->
            IF s = {} THEN {Root}
                      ELSE Follow(by, records, f[s \ {Max(s)}], path[Max(s)])]

(* There is a function that folds the names of a path, as there is for VPDir. *)
LEMMA FoldExists ==
    ASSUME NEW by, NEW records, NEW path
    PROVE  \A n \in Nat : \E f : Folds(by, records, path, n, f)
<1> DEFINE F(n, f) == Folds(by, records, path, n, f)
           B == {n \in Nat : ~\E f : F(n, f)}
<1> SUFFICES ASSUME B # {} PROVE FALSE
  OBVIOUS
<1>1. PICK m \in B : \A k \in B : m <= k
  BY LeastNumber
<1>2. m # 0
  <2> DEFINE g == [s \in SUBSET (1 .. 0) |-> {Root}]
  <2>1. \A s \in SUBSET (1 .. 0) : s = {}
    OBVIOUS
  <2>2. F(0, g)
    BY <2>1 DEF Folds
  <2> QED
    BY <1>1, <2>2
<1>3. m - 1 \in Nat /\ m - 1 \notin B
  <2>1. m \in Nat /\ m - 1 \in Nat /\ ~(m <= m - 1)
    BY <1>2
  <2> HIDE DEF B
  <2> QED
    BY <1>1, <2>1
<1>4. PICK f : F(m - 1, f)
  BY <1>3
<1> DEFINE g == [s \in SUBSET (1 .. m) |->
                    IF m \in s THEN Follow(by, records, f[s \ {m}], path[m]) ELSE f[s]]
<1>5. ASSUME NEW s \in SUBSET (1 .. m)
      PROVE  g[s] = IF s = {} THEN {Root}
                              ELSE Follow(by, records, g[s \ {Max(s)}], path[Max(s)])
  <2>1. CASE m \in s
    <3>1. Max(s) = m
      BY <1>1, <2>1, MaxIs
    <3>2. s \ {m} \in SUBSET (1 .. m) /\ m \notin s \ {m}
      OBVIOUS
    <3>3. g[s \ {m}] = f[s \ {m}]
      BY <3>2
    <3> QED
      BY <2>1, <3>1, <3>3
  <2>2. CASE m \notin s
    <3>1. \A r \in SUBSET s : r \in SUBSET (1 .. m - 1) /\ r \in SUBSET (1 .. m) /\ m \notin r
      BY <2>2, <1>1
    <3>2. \A r \in SUBSET s : g[r] = f[r]
      BY <3>1
    <3>3. s \in SUBSET s /\ s \ {Max(s)} \in SUBSET s
      OBVIOUS
    <3>4. f[s] = IF s = {} THEN {Root}
                           ELSE Follow(by, records, f[s \ {Max(s)}], path[Max(s)])
      BY <1>4, <3>1, <3>3 DEF Folds
    <3> QED
      BY <3>2, <3>3, <3>4
  <2> QED
    BY <2>1, <2>2
<1>6. F(m, g)
  <2>1. g = [s \in SUBSET (1 .. m) |->
                IF s = {} THEN {Root}
                          ELSE Follow(by, records, g[s \ {Max(s)}], path[Max(s)])]
    <3>1. g = [s \in SUBSET (1 .. m) |-> g[s]]
      OBVIOUS
    <3> HIDE DEF B, F, g
    <3> QED
      BY <1>5, <3>1
  <2> HIDE DEF g
  <2> QED
    BY <2>1 DEF Folds
<1> QED
  BY <1>1, <1>6

(* A fold takes the names of the path from the first to the last. *)
LEMMA FoldFollows ==
    ASSUME NEW by, NEW records, NEW path, NEW n \in Nat, NEW f,
           Folds(by, records, path, n, f), NEW c, c = [m \in 0 .. n |-> f[1 .. m]]
    PROVE  Follows(by, records, path, n, c)
<1>1. c[0] = {Root}
  <2>1. c[0] = f[{}] /\ {} \in SUBSET (1 .. n)
    OBVIOUS
  <2> QED
    BY <2>1 DEF Folds
<1>2. ASSUME NEW m \in 1 .. n PROVE c[m] = Follow(by, records, c[m - 1], path[m])
  <2>1. /\ 1 .. m \in SUBSET (1 .. n) /\ 1 .. m # {} /\ m \in 1 .. m /\ m \in Nat
        /\ m \in 0 .. n /\ m - 1 \in 0 .. n
    <3>1. \A i \in 1 .. m : i \in 1 .. n
      OBVIOUS
    <3>2. m \in 1 .. m /\ m \in Nat /\ m \in 0 .. n /\ m - 1 \in 0 .. n
      OBVIOUS
    <3> QED
      BY <3>1, <3>2
  <2>2. (1 .. m) \ {m} = 1 .. m - 1
    BY <2>1
  <2>3. Max(1 .. m) = m
    BY <2>1, MaxIs
  <2>4. c[m] = f[1 .. m] /\ c[m - 1] = f[1 .. m - 1]
    BY <2>1
  <2>5. f[1 .. m] = Follow(by, records, f[(1 .. m) \ {Max(1 .. m)}], path[Max(1 .. m)])
    BY <2>1 DEF Folds
  <2> QED
    BY <2>2, <2>3, <2>4, <2>5
<1> QED
  BY <1>1, <1>2 DEF Follows

(* locate follows the whole path, if no file comes before its end. *)
LEMMA LocateFollows ==
    ASSUME NEW records, NEW path, NEW n \in Nat, DOMAIN path = 1 .. n
    PROVE  \E c : Follows("locate", records, path, n, c) /\ Followed(records, path) = c[n]
<1> DEFINE step(at, name) == IF \E d \in at : d # Root /\ IsFile(records[d]) THEN at
                             ELSE First(UNION {Named(records, d, name) : d \in at})
           G(f) == f = [s \in SUBSET DOMAIN path |->
                           IF s = {} THEN {Root}
                                     ELSE step(f[s \ {Max(s)}], path[Max(s)])]
           iter == CHOOSE f : G(f)
<1>1. Followed(records, path) = iter[1 .. n]
  <2>1. Followed(records, path) = iter[DOMAIN path]
    BY DEF Followed, FoldLeft, MapThenFoldSet
  <2> QED
    BY <2>1
<1>2. ASSUME NEW at, NEW name PROVE step(at, name) = Follow("locate", records, at, name)
  BY DEF Follow
<1> HIDE DEF step
<1>3. ASSUME NEW f PROVE G(f) <=> Folds("locate", records, path, n, f)
  BY <1>2 DEF Folds
<1> HIDE DEF G
<1>4. \E f : G(f)
  BY <1>3, FoldExists
<1>5. G(iter)
  BY <1>4
<1> HIDE DEF iter
<1> DEFINE c == [m \in 0 .. n |-> iter[1 .. m]]
<1>6. c[n] = iter[1 .. n]
  OBVIOUS
<1>7. Follows("locate", records, path, n, c)
  BY <1>3, <1>5, FoldFollows
<1> HIDE DEF c
<1> QED
  BY <1>1, <1>6, <1>7

(* read_entry follows the path up to the file. *)
LEMMA ReadFollows ==
    ASSUME NEW records, NEW path, NEW n \in Nat, DOMAIN Front(path) = 1 .. n
    PROVE  \E c : /\ Follows("read_entry", records, Front(path), n, c)
                  /\ read_entry(records, path) = FileNamed(records, c[n], Last(path))
<1> DEFINE step(at, name) == First({k \in UNION {Named(records, d, name) : d \in at} :
                                        ~IsFile(records[k])})
           front == Front(path)
           G(f) == f = [s \in SUBSET DOMAIN front |->
                           IF s = {} THEN {Root}
                                     ELSE step(f[s \ {Max(s)}], front[Max(s)])]
           iter == CHOOSE f : G(f)
<1>1. read_entry(records, path) = FileNamed(records, iter[1 .. n], Last(path))
  <2>1. read_entry(records, path) =
            First({k \in UNION {Named(records, d, Last(path)) : d \in iter[DOMAIN front]} :
                       IsFile(records[k])})
    BY DEF read_entry, FoldLeft, MapThenFoldSet
  <2> HIDE DEF iter
  <2> QED
    BY <2>1 DEF FileNamed
<1>2. ASSUME NEW at, NEW name PROVE step(at, name) = Follow("read_entry", records, at, name)
  BY DEF Follow
<1> HIDE DEF step
<1>3. ASSUME NEW f PROVE G(f) <=> Folds("read_entry", records, front, n, f)
  BY <1>2 DEF Folds
<1> HIDE DEF G
<1>4. \E f : G(f)
  BY <1>3, FoldExists
<1>5. G(iter)
  BY <1>4
<1> HIDE DEF iter
<1> DEFINE c == [m \in 0 .. n |-> iter[1 .. m]]
<1>6. c[n] = iter[1 .. n]
  OBVIOUS
<1>7. Follows("read_entry", records, front, n, c)
  BY <1>3, <1>5, FoldFollows
<1> HIDE DEF c
<1> QED
  BY <1>1, <1>6, <1>7

OneOfEachName(records) ==
    \A i, j \in DOMAIN VPDir(records) :
        VPDir(records)[i] = VPDir(records)[j] /\ records[i].name = records[j].name => i = j

(* A path that goes along a trail for n names. *)
Along(records, t, n, path) == \A m \in 1 .. n : path[m] = records[t[m + 1]].name

(* From the root through the tree, by directories up to the last. *)
Leads(records, t) ==
    /\ Len(t) \in Nat /\ t[1] = Root
    /\ \A i \in 2 .. Len(t) - 1 : IsDir(records[t[i]])
    /\ \A i \in 2 .. Len(t) : /\ t[i] \in DOMAIN VPDir(records) /\ t[i] \in Nat
                              /\ VPDir(records)[t[i]] = t[i - 1]

(* So does the trail of an entry. *)
LEMMA TrailOfEntry ==
    ASSUME NEW records, IsIndex(records), NEW c, Builds(records, c), NEW k \in DOMAIN VPDir(records)
    PROVE  Leads(records, Trail(c, k))
<1> DEFINE t == Trail(c, k)
<1>1. k \in 1 .. Len(records) /\ StillOpen(records, Root, k)
  BY TreeIs
<1>2. IsTrail(records, c, k, c[k - 1].open, t)
  BY <1>1, TrailIs
<1>3. DOMAIN VPDir(records) \in SUBSET Nat
  BY TreeIs DEF IsIndex
<1>4. LedTo(records, c, t)
  BY TrailLeads
<1> HIDE DEF t
<1>5. Leads(records, t)
  BY <1>2, <1>3, <1>4 DEF IsTrail, Leads, LedTo
<1> QED
  BY <1>5 DEF t

(* How much of a path is followed: read_entry leaves the name of the file. *)
Reaches(by, t, n) == n \in Nat /\ n <= Len(t) - (IF by = "locate" THEN 1 ELSE 2)

(* Both ways of following the names of a trail find what it leads to. *)
LEMMA FollowsTrail ==
    ASSUME NEW records, OneOfEachName(records), NEW t, Leads(records, t),
           NEW by, NEW n, Reaches(by, t, n),
           NEW path, Along(records, t, n, path),
           NEW a, Follows(by, records, path, n, a)
    PROVE  a[n] = {t[n + 1]}
<1> DEFINE dir == VPDir(records)
           B == {m \in 0 .. n : a[m] # {t[m + 1]}}
<1>2. /\ Len(t) \in Nat /\ t[1] = Root
      /\ \A i \in 2 .. Len(t) - 1 : IsDir(records[t[i]])
      /\ n \in Nat /\ n <= Len(t) - 1 /\ (by # "locate" => n <= Len(t) - 2)
  BY DEF Leads, Reaches
<1>3. \A i \in 2 .. Len(t) : t[i] \in DOMAIN dir /\ t[i] \in Nat /\ dir[t[i]] = t[i - 1]
  BY DEF Leads
<1> HIDE DEF dir
<1>5. ASSUME NEW m \in 1 .. n
      PROVE  Follow(by, records, {t[m]}, path[m]) = {t[m + 1]}
  <2>1. m \in Nat /\ m + 1 \in 2 .. Len(t) /\ (m = 1 \/ m \in 2 .. Len(t) - 1) /\ (m + 1) - 1 = m
        /\ (by # "locate" => m + 1 \in 2 .. Len(t) - 1)
    BY <1>2
  <2>2. t[m] = Root \/ ~IsFile(records[t[m]])
    BY <1>2, <2>1 DEF IsDir
  <2>3. t[m + 1] \in DOMAIN dir /\ t[m + 1] \in Nat /\ dir[t[m + 1]] = t[m]
        /\ path[m] = records[t[m + 1]].name
    BY <1>3, <2>1 DEF Along
  <2>4. by # "locate" => ~IsFile(records[t[m + 1]])
    BY <1>2, <2>1 DEF IsDir
  <2>5. Named(records, t[m], path[m]) = {t[m + 1]}
    <3>1. Named(records, t[m], path[m]) =
              {j \in DOMAIN dir : dir[j] = t[m] /\ records[j].name = path[m]}
      BY DEF Named, dir
    <3>2. \A j \in DOMAIN dir : dir[j] = t[m] /\ records[j].name = path[m] <=> j = t[m + 1]
      BY <2>3 DEF OneOfEachName, dir
    <3> QED
      BY <2>3, <3>1, <3>2
  <2>6. {j \in UNION {Named(records, d, path[m]) : d \in {t[m]}} :
             by = "locate" \/ ~IsFile(records[j])} = {t[m + 1]}
    BY <2>4, <2>5
  <2>7. First({t[m + 1]}) = {t[m + 1]}
    BY <2>3 DEF First
  <2> QED
    BY <2>2, <2>6, <2>7 DEF Follow
<1>6. ASSUME B # {} PROVE FALSE
  <2>1. B \in SUBSET Nat
    BY <1>2
  <2>2. PICK m \in B : \A j \in B : m <= j
    <3> HIDE DEF B
    <3> QED
      BY <1>6, <2>1, LeastNumber
  <2>3. m # 0
    BY <1>2, <2>2 DEF Follows
  <2>4. m \in 1 .. n /\ m - 1 \in 0 .. n /\ ~(m <= m - 1) /\ (m - 1) + 1 = m
    BY <1>2, <2>2, <2>3
  <2>5. a[m - 1] = {t[m]}
    <3>1. m - 1 \notin B
      <4> HIDE DEF B
      <4> QED
        BY <2>2, <2>4
    <3>2. a[m - 1] = {t[(m - 1) + 1]}
      BY <2>4, <3>1
    <3> QED
      BY <2>4, <3>2
  <2>6. a[m] = {t[m + 1]}
    BY <1>5, <2>4, <2>5 DEF Follows
  <2> QED
    BY <2>2, <2>6
<1>7. n \in 0 .. n
  BY <1>2
<1> QED
  BY <1>6, <1>7

(* What is listed is found under its path. *)
LEMMA TheLookups ==
    ASSUME NEW records, IsIndex(records)
    PROVE  FindsWhatIsListed(records)
<1> DEFINE listed == flatten(records)
           dir == VPDir(records)
<1>1. PICK c : Builds(records, c)
  BY Calls DEF Builds
<1> SUFFICES ASSUME OneOfEachName(records), NEW i \in DOMAIN listed
             PROVE  /\ locate(records, listed[i].path) = {listed[i].record}
                    /\ read_entry(records, listed[i].path) = {listed[i].record}
  BY DEF FindsWhatIsListed, OneOfEachName
<1> DEFINE k == listed[i].record
           t == Trail(c, k)
           p == Names(records, t)
<1>2. k \in DOMAIN dir /\ IsFile(records[k]) /\ listed[i].path = Paths(records)[k]
  BY FlattenIs
<1> HIDE DEF k
<1>3. listed[i].path = p
  BY <1>1, <1>2, PathsAre
<1>4. k \in 1 .. Len(records) /\ StillOpen(records, Root, k) /\ k \in Nat
  <2>1. k \in 1 .. Len(records) /\ StillOpen(records, Root, k)
    BY <1>1, <1>2, TreeIs
  <2> QED
    BY <2>1 DEF IsIndex
<1>5. /\ Len(t) \in Nat /\ Len(t) >= 2 /\ t[Len(t)] = k
  BY <1>1, <1>4, TrailIs DEF IsTrail
<1>6. t[Len(t)] \in DOMAIN dir /\ dir[t[Len(t)]] = t[Len(t) - 1]
  <2>1. Len(t) \in 2 .. Len(t)
    BY <1>5
  <2>2. LedTo(records, c, t)
    BY <1>1, <1>2, TrailLeads
  <2> HIDE DEF t
  <2> QED
    BY <2>1, <2>2 DEF LedTo
<1>14. Leads(records, t)
  BY <1>1, <1>2, TrailOfEntry
<1> HIDE DEF t
<1>15. PICK n \in Nat : n = Len(t) - 1
  BY <1>5
<1>7. n \in Nat /\ n >= 1 /\ n - 1 \in Nat /\ n - 1 \in 0 .. n /\ n <= Len(t) - 1
      /\ n - 1 <= Len(t) - 2 /\ n + 1 = Len(t) /\ (n - 1) + 1 = n /\ n \in 1 .. n
  BY <1>5, <1>15
<1> DEFINE V == {records[t[m + 1]].name : m \in 1 .. n}
<1>8. /\ p \in Seq(V) /\ Len(p) = n /\ DOMAIN p = 1 .. n
      /\ \A m \in 1 .. n : p[m] = records[t[m + 1]].name
  <2>1. p = [m \in 1 .. n |-> records[t[m + 1]].name]
    BY <1>15 DEF Names
  <2>2. \A m \in 1 .. n : records[t[m + 1]].name \in V
    OBVIOUS
  <2> HIDE DEF p, V
  <2> QED
    BY <1>7, <2>1, <2>2
<1> HIDE DEF p, V
<1>9. /\ SubSeq(p, 1, n - 1) \in Seq(V) /\ Len(SubSeq(p, 1, n - 1)) = n - 1
      /\ \A m \in 1 .. n - 1 : SubSeq(p, 1, n - 1)[m] = p[m]
  BY <1>7, <1>8, Beginning
<1> DEFINE f == Front(p)
<1>10. f = SubSeq(p, 1, n - 1)
  BY <1>8 DEF Front
<1> HIDE DEF f
<1>11. /\ DOMAIN f = 1 .. n - 1 /\ \A m \in 1 .. n - 1 : f[m] = records[t[m + 1]].name
  <2>1. f \in Seq(V) /\ Len(f) = n - 1
    BY <1>9, <1>10
  <2>2. \A m \in 1 .. n - 1 : m \in 1 .. n
    BY <1>7
  <2> QED
    BY <1>8, <1>9, <1>10, <2>1, <2>2
<1>12. locate(records, p) = {k}
  <2>1. PICK a : Follows("locate", records, p, n, a) /\ Followed(records, p) = a[n]
    BY <1>7, <1>8, LocateFollows
  <2>2. Along(records, t, n, p)
    BY <1>8 DEF Along
  <2>3. a[n] = {t[n + 1]}
    <3>1. Reaches("locate", t, n)
      BY <1>7 DEF Reaches
    <3>2. Follows("locate", records, p, n, a)
      BY <2>1
    <3> QED
      BY <1>14, <2>2, <3>1, <3>2, FollowsTrail
  <2>4. Followed(records, p) = {k} /\ k # Root
    <3>1. Followed(records, p) = {k}
      BY <1>5, <1>7, <2>1, <2>3
    <3>2. k # Root
      BY <1>4 DEF Root
    <3> QED
      BY <3>1, <3>2
  <2> QED
    BY <1>2, <2>4 DEF locate
<1>13. read_entry(records, p) = {k}
  <2>1. PICK a : /\ Follows("read_entry", records, f, n - 1, a)
                 /\ read_entry(records, p) = FileNamed(records, a[n - 1], Last(p))
    BY <1>7, <1>11, ReadFollows DEF f
  <2>2. Along(records, t, n - 1, f)
    BY <1>11 DEF Along
  <2>3. a[n - 1] = {t[(n - 1) + 1]}
    <3>1. Reaches("read_entry", t, n - 1)
      BY <1>7 DEF Reaches
    <3>2. Follows("read_entry", records, f, n - 1, a)
      BY <2>1
    <3> QED
      BY <1>14, <2>2, <3>1, <3>2, FollowsTrail
  <2>4. Last(p) = records[k].name
    BY <1>5, <1>7, <1>8 DEF Last
  <2>5. Named(records, t[n], Last(p)) = {k}
    <3>1. Named(records, t[n], Last(p)) =
              {j \in DOMAIN dir : dir[j] = t[n] /\ records[j].name = Last(p)}
      BY DEF Named
    <3>2. dir[k] = t[n]
      BY <1>5, <1>6, <1>15
    <3>3. \A j \in DOMAIN dir : dir[j] = t[n] /\ records[j].name = Last(p) <=> j = k
      BY <1>2, <2>4, <3>2 DEF OneOfEachName
    <3> QED
      BY <1>2, <3>1, <3>3
  <2>6. {j \in UNION {Named(records, d, Last(p)) : d \in {t[n]}} : IsFile(records[j])} = {k}
    BY <1>2, <2>5
  <2>7. First({k}) = {k}
    BY <1>4 DEF First
  <2> QED
    BY <1>7, <2>1, <2>3, <2>6, <2>7 DEF FileNamed
<1> QED
  BY <1>3, <1>12, <1>13 DEF k

(* What is read are files of the index. *)
LEMMA FilesInit == Init => FilesGiven
<1> SUFFICES ASSUME Init PROVE FilesGiven
  OBVIOUS
<1> DEFINE records == archive.records
           listed == flatten(records)
           order == Sorted(DOMAIN listed, [i \in DOMAIN listed |-> listed[i].offset])
<1>1. /\ archive \in Archives /\ files = ByOffset(listed) /\ IsIndex(records)
      /\ \A k \in DOMAIN records : records[k].offset \in Nat /\ records[k].size \in Nat
  BY VpAssumption DEF Init, IsIndex
<1>2. /\ Len(listed) \in Nat /\ DOMAIN listed = 1 .. Len(listed)
      /\ \A i \in DOMAIN listed :
             /\ listed[i].record \in DOMAIN records /\ IsFile(records[listed[i].record])
             /\ listed[i].offset = records[listed[i].record].offset
             /\ listed[i].size = records[listed[i].record].size
  BY <1>1, FlattenIs
<1>3. \A i \in DOMAIN listed : listed[i].offset \in Nat /\ listed[i].size \in Nat \ {0}
  <2> HIDE DEF listed, records
  <2> QED
    BY <1>1, <1>2 DEF IsFile
<1> HIDE DEF listed, records
<1>6. DOMAIN listed \in SUBSET Nat /\ IsFiniteSet(DOMAIN listed)
  BY <1>2, FS_Interval
<1>7. /\ Cardinality(DOMAIN listed) \in Nat
      /\ DOMAIN order = 1 .. Cardinality(DOMAIN listed)
      /\ \A n \in DOMAIN order : order[n] \in DOMAIN listed
  <2>1. \A i \in DOMAIN listed : [j \in DOMAIN listed |-> listed[j].offset][i] \in Nat
    BY <1>3
  <2> QED
    BY <1>6, <2>1, SortedLists
<1>8. files = [n \in DOMAIN order |-> listed[order[n]]]
  BY <1>1 DEF ByOffset
<1> HIDE DEF order
<1>9. DOMAIN files = 1 .. Cardinality(DOMAIN listed)
  BY <1>7, <1>8
<1>10. Len(files) = Cardinality(DOMAIN listed)
  BY <1>7, <1>9
<1> QED
  BY <1>1, <1>3, <1>7, <1>8, <1>9, <1>10 DEF FilesGiven
-----------------------------------------------------------------------------
(* Main awaits the savers, then the decoders, then the reader. *)
LEMMA TaskOrder ==
    /\ Len(Savers) \in Nat \ {0} /\ Len(Decoders) \in Nat \ {0}
    /\ DOMAIN Savers = 1 .. Len(Savers) /\ DOMAIN Decoders = 1 .. Len(Decoders)
    /\ Len(Tasks) = Len(Savers) + Len(Decoders) + 1 /\ DOMAIN Tasks = 1 .. Len(Tasks)
    /\ \A i \in 1 .. Len(Savers) : Tasks[i] = Savers[i]
    /\ \A i \in 1 .. Len(Decoders) : Tasks[Len(Savers) + i] = Decoders[i]
    /\ Tasks[Len(Tasks)] = Reader
<1>1. /\ Savers \in Seq(Range(Savers)) /\ Savers # <<>>
      /\ Decoders \in Seq(Range(Decoders)) /\ Decoders # <<>>
  BY VpAssumption
<1> QED
  BY <1>1 DEF Tasks

(* The tasks are the savers, the decoders and the reader, each one once. *)
LEMMA TheTasks ==
    /\ Reader \in TaskSet /\ DecoderSet \subseteq TaskSet /\ SaverSet \subseteq TaskSet
    /\ \A t \in TaskSet : t \in SaverSet \/ t \in DecoderSet \/ t = Reader
    /\ Reader \notin DecoderSet /\ Reader \notin SaverSet
    /\ \A d \in DecoderSet : d \notin SaverSet
    /\ SaverSet # {} /\ DecoderSet # {}
<1> DEFINE m == Len(Savers)
           n == Len(Decoders)
<1>1. \A i, j \in DOMAIN Tasks : Tasks[i] = Tasks[j] => i = j
  BY VpAssumption
<1>2. /\ m \in Nat \ {0} /\ n \in Nat \ {0}
      /\ DOMAIN Savers = 1 .. m /\ DOMAIN Decoders = 1 .. n
      /\ Len(Tasks) = m + n + 1 /\ DOMAIN Tasks = 1 .. m + n + 1
      /\ \A i \in 1 .. m : Tasks[i] = Savers[i]
      /\ \A i \in 1 .. n : Tasks[m + i] = Decoders[i]
      /\ Tasks[m + n + 1] = Reader
  BY TaskOrder
<1> HIDE DEF m, n
<1>3. \A s \in SaverSet : \E i \in 1 .. m : s = Tasks[i]
  BY <1>2 DEF SaverSet, ToSet
<1>4. \A d \in DecoderSet : \E i \in m + 1 .. m + n : d = Tasks[i]
  <2> SUFFICES ASSUME NEW i \in 1 .. n PROVE \E j \in m + 1 .. m + n : Decoders[i] = Tasks[j]
    BY <1>2 DEF DecoderSet, ToSet
  <2>1. m + i \in m + 1 .. m + n /\ Decoders[i] = Tasks[m + i]
    BY <1>2
  <2> QED
    BY <2>1
<1>5. m + n + 1 \in DOMAIN Tasks
  BY <1>2
<1>6. Reader \in TaskSet
  BY <1>2, <1>5 DEF TaskSet, ToSet
<1>7. DecoderSet \subseteq TaskSet /\ SaverSet \subseteq TaskSet
  <2>1. (1 .. m) \subseteq DOMAIN Tasks /\ (m + 1 .. m + n) \subseteq DOMAIN Tasks
    BY <1>2
  <2> QED
    BY <1>3, <1>4, <2>1 DEF TaskSet, ToSet
<1>8. \A t \in TaskSet : t \in SaverSet \/ t \in DecoderSet \/ t = Reader
  <2> SUFFICES ASSUME NEW i \in DOMAIN Tasks
               PROVE  Tasks[i] \in SaverSet \/ Tasks[i] \in DecoderSet \/ Tasks[i] = Reader
    BY DEF TaskSet, ToSet
  <2>1. CASE i \in 1 .. m
    BY <1>2, <2>1 DEF SaverSet, ToSet
  <2>2. CASE i \in m + 1 .. m + n
    <3>1. i - m \in 1 .. n /\ m + (i - m) = i
      BY <1>2, <2>2
    <3>2. Tasks[i] = Decoders[i - m]
      BY <1>2, <3>1
    <3> QED
      BY <1>2, <3>1, <3>2 DEF DecoderSet, ToSet
  <2>3. i \in 1 .. m \/ i \in m + 1 .. m + n \/ i = m + n + 1
    BY <1>2
  <2> QED
    BY <1>2, <2>1, <2>2, <2>3
<1>9. /\ \A i \in 1 .. m : i \in DOMAIN Tasks /\ i # m + n + 1 /\ i \notin m + 1 .. m + n
      /\ \A i \in m + 1 .. m + n : i \in DOMAIN Tasks /\ i # m + n + 1
  BY <1>2
<1>10. Reader \notin SaverSet
  BY <1>1, <1>2, <1>3, <1>5, <1>9
<1>11. Reader \notin DecoderSet
  BY <1>1, <1>2, <1>4, <1>5, <1>9
<1>12. \A d \in DecoderSet : d \notin SaverSet
  BY <1>1, <1>3, <1>4, <1>9
<1>13. SaverSet # {} /\ DecoderSet # {}
  <2>1. 1 \in DOMAIN Savers /\ 1 \in DOMAIN Decoders
    BY <1>2
  <2> QED
    BY <2>1 DEF SaverSet, DecoderSet, ToSet
<1> QED
  BY <1>6, <1>7, <1>8, <1>10, <1>11, <1>12, <1>13

(* What appending to a channel and taking from it do to what is in it. *)
LEMMA QueueOps ==
    ASSUME NEW E, NEW c \in Seq(E)
    PROVE  /\ \A e \in E : /\ Append(c, e) \in Seq(E) /\ Len(Append(c, e)) = Len(c) + 1
                           /\ ToSet(Append(c, e)) = ToSet(c) \union {e}
           /\ Len(c) \in Nat
           /\ c # <<>> => /\ Head(c) \in E /\ Tail(c) \in Seq(E)
                          /\ Len(Tail(c)) = Len(c) - 1
                          /\ ToSet(c) = ToSet(Tail(c)) \union {Head(c)}
<1>0. Len(c) \in Nat /\ DOMAIN c = 1 .. Len(c)
  OBVIOUS
<1>1. ASSUME NEW e \in E
      PROVE  /\ Append(c, e) \in Seq(E) /\ Len(Append(c, e)) = Len(c) + 1
             /\ ToSet(Append(c, e)) = ToSet(c) \union {e}
  <2> DEFINE a == Append(c, e)
  <2>1. /\ a \in Seq(E) /\ Len(a) = Len(c) + 1
        /\ \A i \in 1 .. Len(c) : a[i] = c[i]
        /\ a[Len(c) + 1] = e
    OBVIOUS
  <2>2. DOMAIN a = 1 .. Len(c) + 1
    BY <2>1
  <2> HIDE DEF a
  <2>3. \A i : i \in DOMAIN a <=> i \in DOMAIN c \/ i = Len(c) + 1
    BY <1>0, <2>2
  <2>4. ToSet(a) = ToSet(c) \union {e}
    BY <1>0, <2>1, <2>3 DEF ToSet
  <2> QED
    BY <2>1, <2>4 DEF a
<1>2. ASSUME c # <<>>
      PROVE  /\ Head(c) \in E /\ Tail(c) \in Seq(E) /\ Len(Tail(c)) = Len(c) - 1
             /\ ToSet(c) = ToSet(Tail(c)) \union {Head(c)}
  <2> DEFINE r == Tail(c)
  <2>1. /\ r \in Seq(E) /\ Len(r) = Len(c) - 1 /\ Head(c) \in E
        /\ \A i \in 1 .. Len(c) - 1 : r[i] = c[i + 1]
        /\ c[1] = Head(c)
    BY <1>2
  <2>2. Len(c) >= 1
    BY <1>2
  <2>3. DOMAIN r = 1 .. Len(c) - 1
    BY <2>1
  <2> HIDE DEF r
  <2>4. \A i \in DOMAIN r : i + 1 \in DOMAIN c /\ r[i] = c[i + 1]
    BY <1>0, <2>1, <2>2, <2>3
  <2>5. \A i \in DOMAIN c : i = 1 \/ (i - 1 \in DOMAIN r /\ r[i - 1] = c[i])
    BY <1>0, <2>1, <2>2, <2>3
  <2>6. 1 \in DOMAIN c
    BY <1>0, <2>2
  <2>7. \A x \in ToSet(r) : x \in ToSet(c)
    BY <2>4 DEF ToSet
  <2>8. \A x \in ToSet(c) : x = c[1] \/ x \in ToSet(r)
    BY <2>5 DEF ToSet
  <2>9. c[1] \in ToSet(c)
    BY <2>6 DEF ToSet
  <2> QED
    BY <2>1, <2>7, <2>8, <2>9 DEF r
<1> QED
  BY <1>0, <1>1, <1>2
-----------------------------------------------------------------------------
(* The state of one task changes, and it holds its own file or nothing. *)
LEMMA OneMoves ==
    ASSUME Holdings, UNCHANGED <<archive, files>>, NEW t \in TaskSet, NEW s \in States, NEW e,
           Becomes(t, s, e), IF s = "holding" THEN e \in OwnEntries ELSE e = None
    PROVE  /\ Holdings'
           /\ status'[t] = s /\ entry'[t] = e
           /\ \A u \in TaskSet \ {t} : status'[u] = status[u] /\ entry'[u] = entry[u]
<1>1. OwnEntries' = OwnEntries
  BY DEF OwnEntries, Contents, Fits
<1>2. /\ status' \in [TaskSet -> States] /\ entry' = [u \in TaskSet |-> entry'[u]]
      /\ status'[t] = s /\ entry'[t] = e
      /\ \A u \in TaskSet \ {t} : status'[u] = status[u] /\ entry'[u] = entry[u]
  BY DEF Holdings, Becomes
<1>3. \A u \in TaskSet : IF status'[u] = "holding" THEN entry'[u] \in OwnEntries
                                                   ELSE entry'[u] = None
  BY <1>2 DEF Holdings
<1> QED
  BY <1>1, <1>2, <1>3 DEF Holdings

LEMMA LengthOf == FilesGiven => archive.length \in Nat
BY VpAssumption DEF FilesGiven

(* What the reader reads is the next file: the handle is where it starts. *)
LEMMA ReadsItsOwn ==
    ASSUME FilesGiven, Cursor, Read, UNCHANGED <<archive, files>>
    PROVE  /\ next \in DOMAIN files /\ Becomes(Reader, "holding", Contents(next))
           /\ Contents(next) \in OwnEntries /\ Cursor'
<1>1. From(next) = files[next].offset /\ Currpos(next) = files[next].offset
  BY DEF From, Currpos, Cursor
<1>2. next \in DOMAIN files /\ Becomes(Reader, "holding", Contents(next))
  BY <1>1 DEF Read, Contents
<1>3. /\ Fits(next) /\ next' = next + 1 /\ handle' = currpos'
      /\ currpos' = files[next].offset + files[next].size
  <2>1. ~(files[next].offset + files[next].size > archive.length)
    BY <1>1 DEF Read, TooShort
  <2>2. files[next].offset + files[next].size \in Nat
    BY <1>2 DEF FilesGiven
  <2> QED
    BY <1>1, <2>1, <2>2, LengthOf DEF Read, Fits
<1>4. Contents(next) \in OwnEntries
  BY <1>2, <1>3 DEF OwnEntries
<1>5. Cursor'
  BY <1>2, <1>3, LengthOf DEF Cursor, FilesGiven, Fits
<1> QED
  BY <1>2, <1>4, <1>5

(* Each step of a task keeps the types, and passes on what is its own. *)
LEMMA TypesStep ==
    ASSUME Typed, TaskStep, UNCHANGED <<archive, files>>
    PROVE  Typed'
<1> USE TheTasks DEF States
<1>f. FilesGiven'
  BY DEF Typed, FilesGiven
<1>o. OwnEntries' = OwnEntries
  BY DEF OwnEntries, Contents, Fits
<1>c. Channels /\ Cursor /\ Holdings /\ FilesGiven /\ Capacity \in Nat
  BY VpAssumption DEF Typed
<1>q. /\ vp \in Seq(OwnEntries) /\ uc \in Seq(OwnEntries)
      /\ Len(vp) \in Nat /\ Len(uc) \in Nat /\ Len(vp) <= Capacity /\ Len(uc) <= Capacity
  BY <1>c, QueueOps DEF Channels
<1>u. UNCHANGED <<vp, uc>> => Channels'
  BY <1>o, <1>c DEF Channels
<1>n. UNCHANGED <<next, currpos, handle>> => Cursor'
  BY <1>c DEF Cursor
<1>h. \A t \in TaskSet : status[t] = "holding" => entry[t] \in OwnEntries
  BY <1>c DEF Holdings
<1>1. CASE Read
  BY <1>1, <1>c, <1>f, <1>u, ReadsItsOwn, OneMoves DEF Typed, Read
<1>2. CASE ReadFails \/ ReadEnds \/ SendReadFails
  <2>1. \E s \in {"failed", "done"} : Becomes(Reader, s, None)
    BY <1>2 DEF ReadFails, ReadEnds, SendReadFails
  <2>2. UNCHANGED <<next, currpos, handle, vp, uc>>
    BY <1>2 DEF ReadFails, ReadEnds, SendReadFails
  <2> QED
    BY <2>1, <2>2, <1>c, <1>f, <1>u, <1>n, OneMoves DEF Typed
<1>3. CASE SendRead
  <2>1. entry[Reader] \in OwnEntries /\ vp' = Append(vp, entry[Reader]) /\ Len(vp) < Capacity
    BY <1>3, <1>h DEF SendRead, HasRoom
  <2>2. vp' \in Seq(OwnEntries) /\ Len(vp') <= Capacity
    BY <1>c, <1>q, <2>1, QueueOps
  <2>3. Channels' /\ Cursor'
    BY <1>3, <1>n, <1>o, <1>q, <2>2 DEF SendRead, Channels
  <2>4. Holdings'
    BY <1>3, <1>c, OneMoves DEF SendRead
  <2> QED
    BY <1>f, <2>3, <2>4 DEF Typed
<1>4. ASSUME NEW d \in DecoderSet, Decode(d) PROVE Typed'
  <2>1. Head(vp) \in OwnEntries /\ vp' \in Seq(OwnEntries) /\ Len(vp') <= Capacity
    <3>1. vp # <<>> /\ vp' = Tail(vp)
      BY <1>4 DEF Decode
    <3> QED
      BY <1>c, <1>q, <3>1, QueueOps
  <2>2. Channels' /\ Cursor'
    BY <1>4, <1>n, <1>o, <1>q, <2>1 DEF Decode, Channels
  <2>3. Becomes(d, "failed", None) \/ Becomes(d, "holding", Head(vp))
    BY <1>4 DEF Decode
  <2>4. Holdings'
    BY <1>c, <2>1, <2>3, OneMoves
  <2> QED
    BY <1>f, <2>2, <2>4 DEF Typed
<1>5. ASSUME NEW d \in DecoderSet, DecodingEnds(d) \/ SendDecodedFails(d) PROVE Typed'
  <2>1. \E s \in {"failed", "done"} : Becomes(d, s, None)
    BY <1>5 DEF DecodingEnds, SendDecodedFails
  <2>2. UNCHANGED <<next, currpos, handle, vp, uc>>
    BY <1>5 DEF DecodingEnds, SendDecodedFails
  <2> QED
    BY <2>1, <2>2, <1>c, <1>f, <1>u, <1>n, OneMoves DEF Typed
<1>6. ASSUME NEW d \in DecoderSet, SendDecoded(d) PROVE Typed'
  <2>1. entry[d] \in OwnEntries /\ uc' = Append(uc, entry[d]) /\ Len(uc) < Capacity
    BY <1>6, <1>h DEF SendDecoded, HasRoom
  <2>2. uc' \in Seq(OwnEntries) /\ Len(uc') <= Capacity
    BY <1>c, <1>q, <2>1, QueueOps
  <2>3. Channels' /\ Cursor'
    BY <1>6, <1>n, <1>o, <1>q, <2>2 DEF SendDecoded, Channels
  <2>4. Holdings'
    BY <1>6, <1>c, OneMoves DEF SendDecoded
  <2> QED
    BY <1>f, <2>3, <2>4 DEF Typed
<1>7. ASSUME NEW s \in SaverSet, Take(s) PROVE Typed'
  <2>1. Head(uc) \in OwnEntries /\ uc' \in Seq(OwnEntries) /\ Len(uc') <= Capacity
    <3>1. uc # <<>> /\ uc' = Tail(uc)
      BY <1>7 DEF Take
    <3> QED
      BY <1>c, <1>q, <3>1, QueueOps
  <2>2. Channels' /\ Cursor'
    BY <1>7, <1>n, <1>o, <1>q, <2>1 DEF Take, Channels
  <2>3. Holdings'
    BY <1>7, <1>c, <2>1, OneMoves DEF Take
  <2> QED
    BY <1>f, <2>2, <2>3 DEF Typed
<1>8. ASSUME NEW s \in SaverSet, Save(s) \/ SaveFails(s) \/ SavingEnds(s) PROVE Typed'
  <2>1. \E state \in {"waiting", "failed", "done"} : Becomes(s, state, None)
    BY <1>8 DEF Save, SaveFails, SavingEnds
  <2>2. UNCHANGED <<next, currpos, handle, vp, uc>>
    BY <1>8 DEF Save, SaveFails, SavingEnds
  <2> QED
    BY <2>1, <2>2, <1>c, <1>f, <1>u, <1>n, OneMoves DEF Typed
<1> QED
  BY <1>1, <1>2, <1>3, <1>4, <1>5, <1>6, <1>7, <1>8
  DEF TaskStep, ReaderStep, DecoderStep, SaverStep, DecoderSet, SaverSet
-----------------------------------------------------------------------------
LEMMA Moved ==
    ASSUME Holdings, NEW t \in TaskSet, NEW s, NEW e, Becomes(t, s, e)
    PROVE  /\ status'[t] = s /\ entry'[t] = e
           /\ \A u \in TaskSet : u # t => status'[u] = status[u] /\ entry'[u] = entry[u]
BY DEF Holdings, Becomes

(* A task that has ended does nothing more. *)
LEMMA EndedStay ==
    ASSUME Holdings, TaskStep, NEW t \in TaskSet, Ended(t)
    PROVE  status'[t] = status[t]
<1> USE TheTasks DEF Ended
<1>1. CASE ReaderStep
  BY <1>1, Moved DEF ReaderStep, Read, ReadFails, ReadEnds, SendRead, SendReadFails
<1>2. ASSUME NEW d \in DecoderSet, DecoderStep(d) PROVE status'[t] = status[t]
  BY <1>2, Moved DEF DecoderStep, Decode, DecodingEnds, SendDecoded, SendDecodedFails
<1>3. ASSUME NEW s \in SaverSet, SaverStep(s) PROVE status'[t] = status[t]
  BY <1>3, Moved DEF SaverStep, Take, Save, SaveFails, SavingEnds
<1> QED
  BY <1>1, <1>2, <1>3 DEF TaskStep, DecoderSet, SaverSet

(* What is saved at the path of a file is that file's own. *)
LEMMA DiskStep ==
    ASSUME Typed, OnDisk, TaskStep, UNCHANGED <<archive, files>>
    PROVE  OnDisk'
<1> USE TheTasks
<1>1. Holdings
  BY DEF Typed
<1>2. Ruined => Ruined'
  BY <1>1, EndedStay DEF Ruined, Ended
<1>3. \A k : Contents(k)' = Contents(k) /\ Fits(k)' = Fits(k)
  BY DEF Contents, Fits
<1>4. CASE disk' = disk
  BY <1>2, <1>3, <1>4 DEF OnDisk, Contents, Fits, Absent, Partial
<1>5. ASSUME NEW s \in SaverSet, Save(s) PROVE OnDisk'
  <2>1. entry[s] \in OwnEntries
    BY <1>1, <1>5 DEF Save, Holdings
  <2>2. PICK k \in DOMAIN files : entry[s] = Contents(k) /\ Fits(k)
    BY <2>1 DEF OwnEntries
  <2>3. entry[s].file = k
    BY <2>2 DEF Contents
  <2>4. disk' = [disk EXCEPT ![k] = Contents(k)]
    BY <1>5, <2>2, <2>3 DEF Save
  <2> QED
    BY <1>2, <1>3, <2>2, <2>4 DEF OnDisk
<1>6. ASSUME NEW s \in SaverSet, SaveFails(s) PROVE OnDisk'
  <2>1. Ruined'
    BY <1>1, <1>6, Moved DEF SaveFails, Ruined
  <2>2. PICK left \in {disk[entry[s].file], Partial} :
            disk' = [disk EXCEPT ![entry[s].file] = left]
    BY <1>6 DEF SaveFails
  <2>3. disk' = [k \in DOMAIN files |-> disk'[k]] /\ files' = files
    BY <2>2 DEF OnDisk
  <2>4. \A k \in DOMAIN files : disk'[k] = disk[k] \/ disk'[k] = Partial
    BY <2>2 DEF OnDisk
  <2> QED
    BY <1>3, <2>1, <2>3, <2>4 DEF OnDisk, Absent, Partial
<1> QED
  BY <1>4, <1>5, <1>6
  DEF TaskStep, ReaderStep, DecoderStep, SaverStep, DecoderSet, SaverSet, Read, ReadFails,
      ReadEnds, SendRead, SendReadFails, Decode, DecodingEnds, SendDecoded,
      SendDecodedFails, Take, SavingEnds

(* A task is done only when nothing can come to it any more. *)
LEMMA OrderlyStep ==
    ASSUME Typed, Orderly, TaskStep, UNCHANGED <<archive, files>>
    PROVE  Orderly'
<1> USE TheTasks
<1>1. Holdings
  BY DEF Typed
<1>2. \A t \in TaskSet : Ended(t) => Ended(t)' /\ status'[t] = status[t]
  BY <1>1, EndedStay DEF Ended
<1>3. status'[Reader] = "done" => next' \notin DOMAIN files'
  <2>1. CASE ReaderStep
    BY <1>1, <2>1, Moved DEF ReaderStep, Read, ReadFails, ReadEnds, SendRead, SendReadFails
  <2>2. ASSUME NEW d \in DecoderSet, DecoderStep(d)
        PROVE  status'[Reader] = status[Reader] /\ next' = next
    BY <1>1, <2>2, Moved
    DEF DecoderStep, Decode, DecodingEnds, SendDecoded, SendDecodedFails
  <2>3. ASSUME NEW s \in SaverSet, SaverStep(s)
        PROVE  status'[Reader] = status[Reader] /\ next' = next
    BY <1>1, <2>3, Moved DEF SaverStep, Take, Save, SaveFails, SavingEnds
  <2> QED
    BY <2>1, <2>2, <2>3 DEF Orderly, TaskStep, DecoderSet, SaverSet
<1>4. ASSUME NEW d \in DecoderSet, status'[d] = "done"
      PROVE  vp' = <<>> /\ Ended(Reader)'
  <2>1. CASE status[d] = "done"
    <3>1. vp = <<>> /\ Ended(Reader)
      BY <2>1 DEF Orderly
    <3>2. vp' = vp
      BY <3>1 DEF TaskStep, ReaderStep, DecoderStep, SaverStep, Read, ReadFails,
         ReadEnds, SendRead, SendReadFails, Decode, DecodingEnds, SendDecoded,
         SendDecodedFails, Take, Save, SaveFails, SavingEnds, Ended
    <3> QED
      BY <1>2, <3>1, <3>2
  <2>2. CASE status[d] # "done"
    <3>1. ~ReaderStep
      BY <1>1, <1>4, <2>2, Moved
      DEF ReaderStep, Read, ReadFails, ReadEnds, SendRead, SendReadFails
    <3>2. \A s \in SaverSet : ~SaverStep(s)
      BY <1>1, <1>4, <2>2, Moved DEF SaverStep, Take, Save, SaveFails, SavingEnds
    <3>3. \A c \in DecoderSet : DecoderStep(c) => DecodingEnds(c)
      BY <1>1, <1>4, <2>2, Moved
      DEF DecoderStep, Decode, DecodingEnds, SendDecoded, SendDecodedFails
    <3>4. PICK c \in DecoderSet : DecodingEnds(c)
      BY <3>1, <3>2, <3>3 DEF TaskStep, DecoderSet, SaverSet
    <3> QED
      BY <1>2, <3>4 DEF DecodingEnds
  <2> QED
    BY <2>1, <2>2
<1>5. ASSUME NEW s \in SaverSet, status'[s] = "done"
      PROVE  uc' = <<>> /\ \A d \in DecoderSet : Ended(d)'
  <2>1. CASE status[s] = "done"
    <3>1. uc = <<>> /\ \A d \in DecoderSet : Ended(d)
      BY <2>1 DEF Orderly
    <3>2. uc' = uc
      BY <3>1 DEF TaskStep, ReaderStep, DecoderStep, SaverStep, Read, ReadFails,
         ReadEnds, SendRead, SendReadFails, Decode, DecodingEnds, SendDecoded,
         SendDecodedFails, Take, Save, SaveFails, SavingEnds, Ended, DecoderSet
    <3> QED
      BY <1>2, <3>1, <3>2
  <2>2. CASE status[s] # "done"
    <3>1. ~ReaderStep
      BY <1>1, <1>5, <2>2, Moved
      DEF ReaderStep, Read, ReadFails, ReadEnds, SendRead, SendReadFails
    <3>2. \A d \in DecoderSet : ~DecoderStep(d)
      BY <1>1, <1>5, <2>2, Moved
      DEF DecoderStep, Decode, DecodingEnds, SendDecoded, SendDecodedFails
    <3>3. \A c \in SaverSet : SaverStep(c) => SavingEnds(c)
      BY <1>1, <1>5, <2>2, Moved DEF SaverStep, Take, Save, SaveFails, SavingEnds
    <3>4. PICK c \in SaverSet : SavingEnds(c)
      BY <3>1, <3>2, <3>3 DEF TaskStep, DecoderSet, SaverSet
    <3> QED
      BY <1>2, <3>4 DEF SavingEnds, Closed, DecoderSet
  <2> QED
    BY <2>1, <2>2
<1> QED
  BY <1>3, <1>4, <1>5 DEF Orderly

(* A file leaves one place for the next, or a failure has lost it. *)
LEMMA AccountedStep ==
    ASSUME Typed, OnDisk, Orderly, Accounted, TaskStep, UNCHANGED <<archive, files>>
    PROVE  Accounted'
<1> SUFFICES ASSUME NEW k \in DOMAIN files
             PROVE  UnderWay(k)' \/ disk'[k] = Contents(k) \/ Lost(k)'
  BY DEF Accounted, Contents
<1> USE TheTasks
<1>1. /\ Holdings
      /\ vp \in Seq(OwnEntries) /\ uc \in Seq(OwnEntries)
      /\ \A t \in TaskSet : status[t] = "holding" => entry[t] \in OwnEntries
      /\ \A t \in TaskSet : status[t] # "holding" => entry[t] = None
  BY DEF Typed, Holdings, Channels
<1>2. Contents(k) # None /\ Contents(k)' = Contents(k) /\ Panics(Contents(k))' = Panics(Contents(k))
  BY DEF Contents, None, Typed, FilesGiven, Panics
<1>3. Lost(k) => Lost(k)'
  BY <1>1, <1>2, EndedStay DEF Lost, Ruined, Ended
<1>4. next \in Nat /\ k \in Nat
  BY DEF Typed, Cursor, FilesGiven
<1>5. UnderWay(k) \/ disk[k] = Contents(k) \/ Lost(k)
  BY DEF Accounted
<1> HIDE DEF Lost, UnderWay
<1>6. ASSUME UNCHANGED <<next, vp, uc, disk>>, NEW u \in TaskSet, entry[u] = None,
             \A t \in TaskSet : t # u => entry'[t] = entry[t]
      PROVE  UnderWay(k)' \/ disk'[k] = Contents(k) \/ Lost(k)'
  BY <1>2, <1>3, <1>5, <1>6 DEF UnderWay
<1>7. CASE Read
  <2>1. /\ next' = next + 1 /\ UNCHANGED <<vp, uc, disk>> /\ entry[Reader] = None
        /\ Becomes(Reader, "holding", Contents(next))
    BY <1>1, <1>7, ReadsItsOwn DEF Read, Typed
  <2>2. /\ entry'[Reader] = Contents(next)
        /\ \A t \in TaskSet : t # Reader => entry'[t] = entry[t]
    BY <1>1, <2>1, Moved
  <2>3. next <= k => next + 1 <= k \/ k = next
    BY <1>4
  <2> QED
    BY <1>2, <1>3, <1>5, <2>1, <2>2, <2>3 DEF UnderWay
<1>8. CASE ReadFails \/ SendReadFails
  <2>1. status'[Reader] = "failed"
    BY <1>1, <1>8, Moved DEF ReadFails, SendReadFails
  <2> QED
    BY <2>1 DEF Lost
<1>9. CASE ReadEnds
  BY <1>1, <1>6, <1>9, Moved DEF ReadEnds
<1>10. CASE SendRead
  <2>1. /\ entry[Reader] \in OwnEntries /\ vp' = Append(vp, entry[Reader])
        /\ UNCHANGED <<next, uc, disk>>
    BY <1>1, <1>10 DEF SendRead
  <2>2. ToSet(vp') = ToSet(vp) \union {entry[Reader]}
    BY <1>1, <2>1, QueueOps
  <2>3. \A t \in TaskSet : t # Reader => entry'[t] = entry[t]
    BY <1>1, <1>10, Moved DEF SendRead
  <2> QED
    BY <1>2, <1>3, <1>5, <2>1, <2>2, <2>3 DEF UnderWay
<1>11. ASSUME NEW d \in DecoderSet, Decode(d)
       PROVE  UnderWay(k)' \/ disk'[k] = Contents(k) \/ Lost(k)'
  <2>1. /\ vp # <<>> /\ vp' = Tail(vp) /\ UNCHANGED <<next, uc, disk>> /\ entry[d] = None
        /\ IF Panics(Head(vp)) THEN Becomes(d, "failed", None)
                               ELSE Becomes(d, "holding", Head(vp))
    BY <1>1, <1>11 DEF Decode
  <2>2. ToSet(vp) = ToSet(vp') \union {Head(vp)}
    BY <1>1, <2>1, QueueOps
  <2>3. \A t \in TaskSet : t # d => entry'[t] = entry[t]
    BY <1>1, <2>1, Moved
  <2>4. Head(vp) = Contents(k) => UnderWay(k)' \/ Lost(k)'
    <3>1. CASE Panics(Head(vp))
      BY <1>1, <1>2, <2>1, <3>1, Moved DEF Lost
    <3>2. CASE ~Panics(Head(vp))
      BY <1>1, <1>2, <2>1, <3>2, Moved DEF UnderWay
    <3> QED
      BY <3>1, <3>2
  <2> QED
    BY <1>2, <1>3, <1>5, <2>1, <2>2, <2>3, <2>4 DEF UnderWay
<1>12. ASSUME NEW d \in DecoderSet, DecodingEnds(d)
       PROVE  UnderWay(k)' \/ disk'[k] = Contents(k) \/ Lost(k)'
  BY <1>1, <1>6, <1>12, Moved DEF DecodingEnds
<1>13. ASSUME NEW d \in DecoderSet, SendDecoded(d)
       PROVE  UnderWay(k)' \/ disk'[k] = Contents(k) \/ Lost(k)'
  <2>1. /\ entry[d] \in OwnEntries /\ uc' = Append(uc, entry[d])
        /\ UNCHANGED <<next, vp, disk>>
    BY <1>1, <1>13 DEF SendDecoded
  <2>2. ToSet(uc') = ToSet(uc) \union {entry[d]}
    BY <1>1, <2>1, QueueOps
  <2>3. \A t \in TaskSet : t # d => entry'[t] = entry[t]
    BY <1>1, <1>13, Moved DEF SendDecoded
  <2> QED
    BY <1>2, <1>3, <1>5, <2>1, <2>2, <2>3 DEF UnderWay
(* The savers are all gone while a decoder still holds a file: they failed. *)
<1>14. ASSUME NEW d \in DecoderSet, SendDecodedFails(d)
       PROVE  UnderWay(k)' \/ disk'[k] = Contents(k) \/ Lost(k)'
  <2>1. ~Ended(d) /\ \A s \in SaverSet : Ended(s)
    BY <1>14 DEF SendDecodedFails, Closed, SaverSet, Ended
  <2>2. \A s \in SaverSet : status[s] # "done"
    BY <2>1 DEF Orderly
  <2>3. Ruined
    BY <2>1, <2>2 DEF Ended, Ruined
  <2> QED
    BY <1>3, <2>3 DEF Lost
<1>15. ASSUME NEW s \in SaverSet, Take(s)
       PROVE  UnderWay(k)' \/ disk'[k] = Contents(k) \/ Lost(k)'
  <2>1. /\ uc # <<>> /\ uc' = Tail(uc) /\ UNCHANGED <<next, vp, disk>>
        /\ entry[s] = None /\ Becomes(s, "holding", Head(uc))
    BY <1>1, <1>15 DEF Take
  <2>2. ToSet(uc) = ToSet(uc') \union {Head(uc)}
    BY <1>1, <2>1, QueueOps
  <2>3. entry'[s] = Head(uc) /\ \A t \in TaskSet : t # s => entry'[t] = entry[t]
    BY <1>1, <2>1, Moved
  <2> QED
    BY <1>2, <1>3, <1>5, <2>1, <2>2, <2>3 DEF UnderWay
<1>16. ASSUME NEW s \in SaverSet, Save(s)
       PROVE  UnderWay(k)' \/ disk'[k] = Contents(k) \/ Lost(k)'
  <2>1. /\ disk' = [disk EXCEPT ![entry[s].file] = entry[s]] /\ UNCHANGED <<next, vp, uc>>
        /\ entry[s] \in OwnEntries
    BY <1>1, <1>16 DEF Save
  <2>2. PICK j \in DOMAIN files : entry[s] = Contents(j)
    BY <2>1 DEF OwnEntries
  <2>3. entry[s].file = j
    BY <2>2 DEF Contents
  <2>4. disk'[k] = IF j = k THEN Contents(k) ELSE disk[k]
    BY <2>1, <2>2, <2>3 DEF OnDisk
  <2>5. \A t \in TaskSet : t # s => entry'[t] = entry[t]
    BY <1>1, <1>16, Moved DEF Save
  <2>6. entry[s] = Contents(k) => j = k
    BY <2>3 DEF Contents
  <2> QED
    BY <1>2, <1>3, <1>5, <2>1, <2>4, <2>5, <2>6 DEF UnderWay
<1>17. ASSUME NEW s \in SaverSet, SaveFails(s)
       PROVE  UnderWay(k)' \/ disk'[k] = Contents(k) \/ Lost(k)'
  <2>1. Ruined'
    BY <1>1, <1>17, Moved DEF SaveFails, Ruined
  <2> QED
    BY <2>1 DEF Lost
<1>18. ASSUME NEW s \in SaverSet, SavingEnds(s)
       PROVE  UnderWay(k)' \/ disk'[k] = Contents(k) \/ Lost(k)'
  BY <1>1, <1>6, <1>18, Moved DEF SavingEnds
<1> QED
  BY <1>7, <1>8, <1>9, <1>10, <1>11, <1>12, <1>13, <1>14, <1>15, <1>16, <1>17, <1>18
  DEF TaskStep, ReaderStep, DecoderStep, SaverStep, DecoderSet, SaverSet

(* Main has seen tasks end, all well but perhaps the last. *)
LEMMA AwaitedStep ==
    ASSUME Typed, Awaited, Next
    PROVE  Awaited'
<1>1. Holdings /\ result = "none"
  BY DEF Typed, Next
<1>2. Len(Tasks) \in Nat /\ \A i \in 1 .. Len(Tasks) : Tasks[i] \in TaskSet
  BY TaskOrder DEF TaskSet, ToSet
<1>3. CASE TaskStep /\ UNCHANGED <<awaited, result>>
  <2>1. \A i \in 1 .. awaited : Ended(Tasks[i]) /\ i \in 1 .. Len(Tasks)
    BY <1>2 DEF Awaited
  <2>2. \A i \in 1 .. awaited : status'[Tasks[i]] = status[Tasks[i]]
    BY <1>1, <1>2, <1>3, <2>1, EndedStay
  <2> QED
    BY <1>1, <1>3, <2>1, <2>2 DEF Awaited, Ended
<1>4. CASE Await
  <2> DEFINE t == Tasks[awaited + 1]
  <2>1. Ended(t) /\ awaited' = awaited + 1 /\ result' = Outcome(t) /\ status' = status
    BY <1>4 DEF Await
  <2>2. awaited + 1 \in 1 .. Len(Tasks)
    BY <1>1, <1>2 DEF Awaited
  <2>3. t = Last(Tasks) <=> awaited + 1 = Len(Tasks)
    <3>1. \A i, j \in DOMAIN Tasks : Tasks[i] = Tasks[j] => i = j
      BY VpAssumption
    <3>2. DOMAIN Tasks = 1 .. Len(Tasks) /\ Len(Tasks) \in DOMAIN Tasks
      BY <1>2, <2>2, TaskOrder
    <3> QED
      BY <2>2, <3>1, <3>2 DEF Last
  <2>4. /\ status[t] = "failed" => result' = "error"
        /\ status[t] # "failed" => result' = IF awaited + 1 = Len(Tasks) THEN "ok" ELSE "none"
    <3>1. CASE status[t] = "failed"
      BY <2>1, <3>1 DEF Outcome
    <3>2. CASE status[t] # "failed" /\ t = Last(Tasks)
      BY <2>1, <2>3, <3>2 DEF Outcome
    <3>3. CASE status[t] # "failed" /\ t # Last(Tasks)
      BY <2>1, <2>3, <3>3 DEF Outcome
    <3> QED
      BY <3>1, <3>2, <3>3
  <2> HIDE DEF t
  <2>5. \A i \in 1 .. awaited + 1 : i \in 1 .. awaited \/ i = awaited + 1
    BY <1>1 DEF Awaited
  <2>6. /\ \A i \in 1 .. awaited' : Ended(Tasks[i])'
        /\ result' # "error" => \A i \in 1 .. awaited' : status'[Tasks[i]] # "failed"
    BY <1>1, <2>1, <2>4, <2>5 DEF Awaited, Ended, t
  <2>7. /\ awaited' \in 0 .. Len(Tasks) /\ result' \in {"none", "ok", "error"}
        /\ result' = "none" => awaited' < Len(Tasks)
        /\ result' = "ok" => awaited' = Len(Tasks)
        /\ result' = "error" => awaited' > 0
    BY <1>2, <2>1, <2>2, <2>4
  <2>8. result' = "error" => status'[Tasks[awaited']] = "failed"
    BY <2>1, <2>4 DEF t
  <2> QED
    BY <2>6, <2>7, <2>8 DEF Awaited
<1> QED
  BY <1>3, <1>4 DEF Next

LEMMA IInvInit == Init => IInv
<1> SUFFICES ASSUME Init PROVE IInv
  OBVIOUS
<1>1. FilesGiven
  BY FilesInit
<1>2. TaskSet = DOMAIN status /\ \A t \in TaskSet : status[t] = "waiting" /\ entry[t] = None
  BY DEF Init, TaskSet
<1>3. Holdings
  BY <1>2 DEF Init, TaskSet, Holdings, States
<1>4. Channels /\ Cursor
  BY <1>1, LengthOf, VpAssumption DEF Init, Channels, Cursor, FilesGiven
<1>5. OnDisk
  BY DEF Init, OnDisk
<1>6. Orderly
  BY <1>2, TheTasks DEF Orderly
<1>7. Awaited
  BY TaskOrder DEF Init, Awaited
<1>8. Accounted
  BY <1>1 DEF Init, Accounted, UnderWay, FilesGiven
<1> QED
  BY <1>1, <1>3, <1>4, <1>5, <1>6, <1>7, <1>8 DEF IInv, Typed

LEMMA IInvStep == IInv /\ [Next]_vars => IInv'
<1> SUFFICES ASSUME IInv, [Next]_vars PROVE IInv'
  OBVIOUS
<1>1. CASE Next /\ TaskStep
  BY <1>1, TypesStep, DiskStep, OrderlyStep, AccountedStep, AwaitedStep DEF IInv, Next
<1>u. ASSUME UNCHANGED <<archive, files, next, currpos, handle, vp, uc, status, entry, disk>>
      PROVE  Typed' /\ OnDisk' /\ Orderly' /\ Accounted'
  <2>1. Typed'
    BY <1>u DEF IInv, Typed, FilesGiven, Holdings, Channels, Cursor, OwnEntries, Contents, Fits
  <2>2. OnDisk'
    BY <1>u DEF IInv, OnDisk, Contents, Fits, Ruined, Absent, Partial
  <2>3. Orderly'
    BY <1>u DEF IInv, Orderly, Ended
  <2>4. Accounted'
    BY <1>u DEF IInv, Accounted, UnderWay, Lost, Contents, Panics, Ruined
  <2> QED
    BY <2>1, <2>2, <2>3, <2>4
<1>2. CASE Next /\ Await
  BY <1>2, <1>u, AwaitedStep DEF IInv, Next, Await
<1>3. CASE UNCHANGED vars
  <2>1. UNCHANGED <<archive, files, next, currpos, handle, vp, uc, status, entry, disk>>
    BY <1>3 DEF vars
  <2>2. Awaited'
    BY <1>3 DEF vars, IInv, Awaited, Ended
  <2> QED
    BY <1>u, <2>1, <2>2 DEF IInv
<1> QED
  BY <1>1, <1>2, <1>3 DEF Next

LEMMA IInvHolds == Spec => []IInv
BY IInvInit, IInvStep, PTL DEF Spec
-----------------------------------------------------------------------------
(* Once main has got past the savers, no task and no channel holds a file. *)
LEMMA NothingUnderWay ==
    ASSUME IInv, \A s \in SaverSet : status[s] = "done",
           \E d \in DecoderSet : status[d] = "done", status[Reader] = "done"
    PROVE  \A k \in DOMAIN files : ~UnderWay(k)
<1>1. next \notin DOMAIN files /\ next \in 1 .. Len(files) + 1
  BY DEF IInv, Orderly, Typed, Cursor
<1>2. \A k \in DOMAIN files : ~(next <= k)
  BY <1>1 DEF IInv, Typed, FilesGiven
<1>3. vp = <<>> /\ uc = <<>> /\ \A d \in DecoderSet : Ended(d)
  BY TheTasks DEF IInv, Orderly
<1>4. \A t \in TaskSet : status[t] # "holding"
  BY <1>3, TheTasks DEF Ended
<1>5. \A t \in TaskSet : entry[t] = None
  BY <1>4 DEF IInv, Typed, Holdings
<1>6. \A k \in DOMAIN files : Contents(k) # None
  BY DEF Contents, None, IInv, Typed, FilesGiven
<1>7. ToSet(vp) = {} /\ ToSet(uc) = {}
  BY <1>3 DEF ToSet
<1> QED
  BY <1>2, <1>5, <1>6, <1>7 DEF UnderWay

(***************************************************************************)
(* The state of the extractor has its types: the reader stays inside the   *)
(* archive and no channel holds more than its capacity.                    *)
(***************************************************************************)
THEOREM TypesAreCorrect == Spec => []TypeOK
<1>1. IInv => TypeOK
  <2> SUFFICES ASSUME IInv PROVE TypeOK
    OBVIOUS
  <2>1. OwnEntries \subseteq Entries
    <3> SUFFICES ASSUME NEW k \in DOMAIN files, Fits(k) PROVE Contents(k) \in Entries
      BY DEF OwnEntries
    <3>1. /\ files[k].offset \in Nat /\ files[k].size \in Nat \ {0} /\ archive.length \in Nat
          /\ files[k].offset + files[k].size <= archive.length
      BY LengthOf DEF IInv, Typed, FilesGiven, Fits
    <3>2. files[k].offset \in 0 .. archive.length /\ files[k].size \in 1 .. archive.length
      BY <3>1
    <3> QED
      BY <3>2 DEF Contents, Entries
  <2>2. \A k \in DOMAIN files : Fits(k) => Contents(k) \in Entries
    BY <2>1 DEF OwnEntries
  <2>3. vp \in Seq(Entries) /\ uc \in Seq(Entries)
    BY <2>1 DEF IInv, Typed, Channels
  <2>4. /\ status \in [ToSet(Tasks) -> {"waiting", "holding", "done", "failed"}]
        /\ entry \in [ToSet(Tasks) -> Entries \union {None}]
    BY <2>1 DEF IInv, Typed, Holdings, TaskSet, States
  <2>5. disk \in [DOMAIN files -> Entries \union {Absent, Partial}]
    BY <2>2 DEF IInv, OnDisk
  <2> QED
    BY <2>3, <2>4, <2>5 DEF TypeOK, IInv, Typed, FilesGiven, Channels, Cursor, Awaited
<1> QED
  BY <1>1, IInvHolds, PTL

(***************************************************************************)
(* Success is complete: when the tool reports success, every file of the   *)
(* archive is on disk with its own bytes.                                  *)
(***************************************************************************)
THEOREM SuccessMeansAll == Spec => []SuccessIsComplete
<1>1. IInv => SuccessIsComplete
  <2> SUFFICES ASSUME IInv, result = "ok" PROVE \A k \in DOMAIN files : disk[k] = Contents(k)
    BY DEF SuccessIsComplete
  <2>1. \A i \in DOMAIN Tasks : status[Tasks[i]] = "done"
    BY TaskOrder DEF IInv, Awaited, Ended
  <2>2. \A t \in TaskSet : status[t] = "done"
    BY <2>1 DEF TaskSet, ToSet
  <2>3. \A k \in DOMAIN files : ~UnderWay(k)
    BY <2>2, TheTasks, NothingUnderWay
  <2>4. \A k \in DOMAIN files : ~Lost(k)
    BY <2>2, TheTasks DEF Lost, Ruined
  <2> QED
    BY <2>3, <2>4 DEF IInv, Accounted
<1> QED
  BY <1>1, IInvHolds, PTL

(***************************************************************************)
(* Whatever fails, at the path of a file are its own bytes, or nothing, or *)
(* what a failed write left, for files that overlap or leave gaps too.     *)
(***************************************************************************)
THEOREM BytesAreOwn == Spec => []OwnBytes
<1>1. IInv => OwnBytes
  BY DEF IInv, OnDisk, OwnBytes, Ruined, SaverSet
<1> QED
  BY <1>1, IInvHolds, PTL

(***************************************************************************)
(* As long as one decompressing task is left and no write has failed, all  *)
(* files that can be decompressed have been saved when main reports.       *)
(***************************************************************************)
THEOREM OthersAreSaved == Spec => []BadFileCostsItself
<1>1. IInv => BadFileCostsItself
  <2> SUFFICES ASSUME IInv, result # "none", \A s \in SaverSet : status[s] # "failed",
                      \E d \in DecoderSet : status[d] = "done", status[Reader] = "done",
                      NEW k \in DOMAIN files
               PROVE  Panics(Contents(k)) \/ disk[k] = Contents(k)
    BY DEF BadFileCostsItself, SaverSet, DecoderSet
  <2>1. \A i \in 1 .. Len(Savers) : i <= awaited
    <3>1. CASE result = "ok"
      BY <3>1, TaskOrder DEF IInv, Awaited
    <3>2. CASE result = "error"
      <4>1. awaited \in 1 .. Len(Tasks) /\ status[Tasks[awaited]] = "failed"
        BY <3>2, TaskOrder DEF IInv, Awaited
      <4>2. awaited \notin 1 .. Len(Savers)
        <5> SUFFICES ASSUME awaited \in 1 .. Len(Savers) PROVE FALSE
          OBVIOUS
        <5>1. Tasks[awaited] \in SaverSet
          BY TaskOrder DEF SaverSet, ToSet
        <5> QED
          BY <4>1, <5>1
      <4> QED
        BY <4>1, <4>2, TaskOrder
    <3> QED
      BY <3>1, <3>2 DEF IInv, Awaited
  <2>2. \A i \in 1 .. Len(Savers) : Ended(Savers[i])
    <3>1. \A i \in 1 .. Len(Savers) : i \in 1 .. awaited /\ Tasks[i] = Savers[i]
      BY <2>1, TaskOrder DEF IInv, Awaited
    <3> QED
      BY <3>1 DEF IInv, Awaited
  <2>3. \A s \in SaverSet : status[s] = "done"
    BY <2>2, TaskOrder DEF SaverSet, ToSet, Ended
  <2>4. ~UnderWay(k)
    BY <2>3, NothingUnderWay
  <2> QED
    BY <2>3, <2>4 DEF IInv, Accounted, Lost, Ruined
<1> QED
  BY <1>1, IInvHolds, PTL

(***************************************************************************)
(* For every index, of whatever length and however its directories are     *)
(* nested or left open: VPDir::from and flatten list what counting the     *)
(* records gives, and locate and read_entry find what is listed.           *)
(***************************************************************************)
THEOREM IndexIsRight == Spec => []IndexAgrees
<1>1. ASSUME NEW records, IsIndex(records)
      PROVE  ListsTheTree(records) /\ FindsWhatIsListed(records)
  BY <1>1, TheTree, TheLookups
<1>2. Typed => IndexAgrees
  <2>1. Typed => IsIndex(archive.records)
    BY VpAssumption DEF Typed, FilesGiven, IsIndex
  <2> QED
    BY <1>1, <2>1 DEF IndexAgrees
<1>3. IInv => IndexAgrees
  BY <1>2 DEF IInv
<1> QED
  BY <1>3, IInvHolds, PTL
=============================================================================
