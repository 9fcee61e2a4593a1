---------------------------- MODULE MCFsnUpdate ----------------------------
(* Instances of FsnUpdate: the list of a mirror grows with each version. *)
EXTENDS FsnUpdate

ModRec(n, v) == [name |-> n, version |-> v, kind |-> "mod", stability |-> FALSE,
    packs |-> <<[archives |-> [a \in {"arc"} |-> n], offered |-> {"arc"},
                 filelist |-> {[hash |-> v, archive |-> "arc"]}]>>]

MCMods == {ModRec("a", 1), ModRec("a", 2), ModRec("b", 1)}

MCLists == <<<<ModRec("a", 1)>>,
             <<ModRec("a", 1), ModRec("a", 2)>>,
             <<ModRec("a", 2), ModRec("b", 1)>>>>
TwoLists == SubSeq(MCLists, 1, 2)

MCTagged == 1 .. NRepos
NoFault == {}
NetOnly == {"net"}
AllFaults == {"net", "body", "disk", "cancel", "crash"}
=============================================================================
