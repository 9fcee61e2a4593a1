---------------------------- MODULE ModCatalogue ----------------------------
(***************************************************************************)
(* What the modlist update promises, without saying how: the catalogue is  *)
(* a set of mods with at most one mod per key (id, version).  It only      *)
(* grows, and it grows by whole published lists: an update adds at once    *)
(* every mod of one list whose key the catalogue did not have.             *)
(***************************************************************************)
EXTENDS Sequences

CONSTANT RepoLists   \* the mod lists a repository may publish

VARIABLE catalogue    \* the mods the program knows

Key(m) == <<m.name, m.version>>

Keys(S) == {Key(m) : m \in S}

Listed(L) == {L[k] : k \in DOMAIN L}

(* A list publishes each key once; nothing in the wire format enforces it. *)
DuplicateFree(L) ==
    \A j, k \in DOMAIN L : Key(L[j]) = Key(L[k]) => j = k

Unknown(L) == {m \in Listed(L) : Key(m) \notin Keys(catalogue)}

CatalogueInit == catalogue = {}

Ingest(L) == catalogue' = catalogue \union Unknown(L)

CatalogueNext == \E L \in RepoLists : Ingest(L)

CatalogueSpec == CatalogueInit /\ [][CatalogueNext]_catalogue

(* A key never names two different mods of the catalogue. *)
OneModPerKey == \A m, n \in catalogue : Key(m) = Key(n) => m = n
=============================================================================
