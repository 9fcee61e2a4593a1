---------------------------- MODULE MCFetchTasks ----------------------------
(***************************************************************************)
(* Two archives that share /extract, and a single file; the first archive  *)
(* brings a VP, the second a compressed VP, which ends the call with a     *)
(* panic unless the walk of the directory does not see it.                 *)
(***************************************************************************)
EXTENDS FetchTasks

CONSTANTS zip1, zip2, one, v, w, b

MCSources == {zip1, zip2, one}
MCArchives == {zip1, zip2}
MCFiles == {v, w, b}
MCContents == [s \in MCSources |-> CASE s = zip1 -> {v}
                                     [] s = zip2 -> {w}
                                     [] OTHER -> {b}]
MCJobs == MCSources \X MCFiles
MCVps == MCArchives \X {v}
MCVpcs == MCArchives \X {w}
MCEntries == [j \in MCVps |-> 1]

(* Without faults, the first archive and the single file. *)
FewSources == {zip1, one}
FewContents == [s \in FewSources |-> IF s = zip1 THEN {v} ELSE {b}]
FewJobs == FewSources \X MCFiles
FewVps == {<<zip1, v>>}
FewEntries == [j \in FewVps |-> 1]

NoFault == {}
AllFaults == FaultKinds
=============================================================================
