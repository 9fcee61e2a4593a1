------------------------------- MODULE MCFsnDb -------------------------------
(* Small instances of FsnDb: a handful of mods, with and without packages. *)
EXTENDS FsnDb

CONSTANTS h1, h2
MCHandlers == {h1, h2}

Pkg(arc, files) == [archives |-> [a \in {"arc"} |-> arc], offered |-> {"arc"},
                    filelist |-> {[hash |-> f, archive |-> "arc"] : f \in files}]
(* A package whose file names an archive it does not list. *)
BadPkg == [archives |-> [a \in {"arc"} |-> "z0"], offered |-> {"arc"},
           filelist |-> {[hash |-> "f0", archive |-> "other"]}]
(* A package of two archives, one of which lists no url. *)
HalfOffered == [archives |-> [a \in {"arc", "alt"} |-> IF a = "arc" THEN "z3" ELSE "z4"],
                offered |-> {"arc"},
                filelist |-> {[hash |-> "f1", archive |-> "arc"],
                              [hash |-> "f3", archive |-> "alt"]}]

ModRec(n, v, ps) == [name |-> n, version |-> v, kind |-> "mod",
                     stability |-> FALSE, packs |-> ps]
Build(n, v, s) == [name |-> n, version |-> v, kind |-> "build",
                   stability |-> s, packs |-> <<Pkg("z5", {"f5"})>>]

A1 == ModRec("a", 1, <<Pkg("z1", {"f1"}), Pkg("z2", {"f2"})>>)
A2 == ModRec("a", 2, <<Pkg("z1", {"f1"})>>)
A2b == ModRec("a", 2, <<>>)
B1 == ModRec("b", 1, <<HalfOffered>>)
Empty == ModRec("e", 1, <<>>)
Broken == ModRec("x", 1, <<BadPkg>>)

MCMods == {A1, A2, A2b, B1, Empty, Broken, Build("n", 1, TRUE), Build("n", 2, FALSE)}

(* Lists that overlap, arrive out of order, break in each way, or whose    *)
(* second release gets an id no package has (the foreign key fails).       *)
MCLists == {<<A1, A2>>, <<A1, B1, Build("n", 1, TRUE)>>, <<Empty, B1>>,
            <<A1, Build("n", 2, FALSE)>>, <<A2, Broken>>}

(* A list that publishes (a, 2) twice, in different bytes. *)
DupLists == {<<A1>>, <<A2, A2b, B1>>}

(* One list: the first mod has two packages, the second an archive without *)
(* a url.                                                                  *)
TwoPackages == {<<A1, B1>>}
=============================================================================
