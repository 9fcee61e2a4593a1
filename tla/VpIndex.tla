------------------------------- MODULE VpIndex -------------------------------
(***************************************************************************)
(* The index of a VP archive (vp/src/parser.rs, types.rs, fs.rs): a list   *)
(* of records from which VPDir::from builds a tree by calling itself, what *)
(* flatten makes of the tree, and how locate and read_entry search it.     *)
(*                                                                         *)
(* A record is a file, or a directory when its size is 0, or the end of    *)
(* one when its name is "..".  The records are all there are from the      *)
(* index to the end of the archive: the count in the header is not used.   *)
(*                                                                         *)
(* The tree is the function `dir' from the numbers of its records to those *)
(* of their directories; a directory holds its entries in their order.  An *)
(* Option is a set of at most one number.                                  *)
(***************************************************************************)
EXTENDS Naturals, Sequences, SequencesExt

CONSTANT ParentDir   \* the name ".."

Root == 0

IsFile(r) == r.size # 0

(* Mutant: an end that belongs to no directory is passed over. *)
CloseInside(open) == IF open = <<Root>> THEN open ELSE Front(open)

(* break: the call returns and its caller goes on. *)
Close(open) == Front(open)

(* contents.push: the record k becomes an entry of the directory d. *)
Push(dir, d, k) == [j \in DOMAIN dir \union {k} |-> IF j = k THEN d ELSE dir[j]]

(***************************************************************************)
(* VPDir::from: `open' are the directories whose calls have not returned.  *)
(* They share one iterator, so each goes on where the other stopped; once  *)
(* the call for the root has returned the rest of the records is not read. *)
(***************************************************************************)
Parse(records, call, k) ==
    LET r == records[k]
        pushed == Push(call.dir, Last(call.open), k)
    IN  CASE call.open = <<>> -> call
          [] call.open # <<>> /\ IsFile(r) -> [call EXCEPT !.dir = pushed]
          [] call.open # <<>> /\ ~IsFile(r) /\ r.name = ParentDir ->
                 [call EXCEPT !.open = Close(@)]
          [] OTHER -> [open |-> Append(call.open, k), dir |-> pushed]

VPDir(records) ==
    FoldLeft(LAMBDA call, k : Parse(records, call, k),
             [open |-> <<Root>>, dir |-> << >>],
             [k \in DOMAIN records |-> k]).dir

(* The numbers in S by their weight, those of one weight in their order. *)
Place(S, weight, k) ==
    Cardinality({j \in S : \/ weight[j] < weight[k]
                           \/ weight[j] = weight[k] /\ j <= k})

Sorted(S, weight) ==
    [n \in 1 .. Cardinality(S) |-> CHOOSE k \in S : Place(S, weight, k) = n]

InOrder(S) == Sorted(S, [k \in S |-> 0])

(* The names of the directories around each entry, and its own. *)
Paths(records) ==
    LET dir == VPDir(records)
        path[k \in DOMAIN dir] ==
            IF dir[k] = Root THEN <<records[k].name>>
                             ELSE Append(path[dir[k]], records[k].name)
    IN  path

(* flatten: depth first, which is the order of the records. *)
flatten(records) ==
    LET listed == InOrder({k \in DOMAIN VPDir(records) : IsFile(records[k])})
    IN  [i \in DOMAIN listed |->
            LET r == records[listed[i]]
            IN  [record |-> listed[i], path |-> Paths(records)[listed[i]],
                 offset |-> r.offset, size |-> r.size, stubbed |-> r.stubbed]]

(* Iterator::find. *)
First(S) == {k \in S : \A j \in S : k <= j}

(* The entries of a directory that have a name. *)
Named(records, d, name) ==
    LET dir == VPDir(records)
    IN  {k \in DOMAIN dir : dir[k] = d /\ records[k].name = name}

(* VPDir::locate follows the path to a file, however much of it is left. *)
Followed(records, path) ==
    FoldLeft(LAMBDA at, name :
                 IF \E d \in at : d # Root /\ IsFile(records[d]) THEN at
                 ELSE First(UNION {Named(records, d, name) : d \in at}),
             {Root}, path)

(***************************************************************************)
(* VPDir::locate.  No file is Err(NotFound) where a name is missing, and a *)
(* panic where the path ends at a directory: filepath[0] of an empty rest. *)
(***************************************************************************)
locate(records, path) ==
    {k \in Followed(records, path) : k # Root /\ IsFile(records[k])}

(* read_entry: directories along the path, and a file at its end. *)
read_entry(records, path) ==
    LET Folder(at, name) ==
            First({k \in UNION {Named(records, d, name) : d \in at} : ~IsFile(records[k])})
    IN  First({k \in UNION {Named(records, d, Last(path)) :
                                d \in FoldLeft(Folder, {Root}, Front(path))} :
                   IsFile(records[k])})
-----------------------------------------------------------------------------
(* How many directories have been entered and left in a stretch of records. *)
Entered(records, from, to) ==
    Cardinality({j \in from .. to : ~IsFile(records[j]) /\ records[j].name # ParentDir})

Left(records, from, to) ==
    Cardinality({j \in from .. to : ~IsFile(records[j]) /\ records[j].name = ParentDir})

(* Nothing between record d and record k has left the directory of d. *)
StillOpen(records, d, k) ==
    \A j \in d + 1 .. k - 1 : Left(records, d + 1, j) <= Entered(records, d + 1, j)

(* The directories around record k, and k, by counting. *)
Around(records, k) ==
    InOrder({j \in 1 .. k : \/ j = k
                           \/ /\ ~IsFile(records[j]) /\ records[j].name # ParentDir
                              /\ StillOpen(records, j, k)})

(***************************************************************************)
(* The calls that build the tree by sharing an iterator give what counting *)
(* the records gives: each file once, under the directories that are open  *)
(* where it stands, and none behind the end of the root.                   *)
(***************************************************************************)
ListsTheTree(records) ==
    LET files == flatten(records)
    IN  /\ \A i, j \in DOMAIN files : i < j => files[i].record < files[j].record
        /\ {files[i].record : i \in DOMAIN files} =
               {k \in DOMAIN records : IsFile(records[k]) /\ StillOpen(records, Root, k)}
        /\ \A i \in DOMAIN files :
               files[i].path = [n \in DOMAIN Around(records, files[i].record) |->
                                    records[Around(records, files[i].record)[n]].name]

(***************************************************************************)
(* What flatten lists, locate and read_entry find under its path, when no  *)
(* two entries of one directory have the same name.                        *)
(***************************************************************************)
FindsWhatIsListed(records) ==
    LET dir == VPDir(records)
        files == flatten(records)
    IN  (\A i, j \in DOMAIN dir :
            dir[i] = dir[j] /\ records[i].name = records[j].name => i = j)
        => \A i \in DOMAIN files :
               /\ locate(records, files[i].path) = {files[i].record}
               /\ read_entry(records, files[i].path) = {files[i].record}
=============================================================================
