-------------------------------- MODULE Solver --------------------------------
(***************************************************************************)
(* solve_files (files/solver.rs): the cheapest set of sources that holds   *)
(* every wanted hash some source holds, by branch and bound.               *)
(*                                                                         *)
(* minilp is external.  A relaxed problem is known by its fixed variables: *)
(* solving it fails iff no choice covers; otherwise its optimum is either  *)
(* integral, hence a cheapest cover, or fractional in some free variable,  *)
(* and costs at least what its parent problem cost and at most what the    *)
(* cheapest cover does.                                                    *)
(***************************************************************************)
EXTENDS Integers, Sequences, FiniteSets, FiniteSetsExt

CONSTANTS Sources,   \* the keys of the argument
          Hashes,    \* the wanted hashes
          Inputs     \* the arguments: <<size, holds>> pairs

ASSUME SolverAssumption ==
    /\ IsFiniteSet(Sources)
    /\ Inputs \subseteq [Sources -> Nat] \X [Sources -> SUBSET Hashes]

VARIABLES
    size,          \* the sizes of the sources
    holds,         \* the argument: the wanted hashes each source holds
    phase,         \* "solve", "search" or "done"
    dfs_stack,     \* the steps of the depth first search
    best_cost,
    best_sources   \* {} for None, {S} for Some(S)

vars == <<size, holds, phase, dfs_stack, best_cost, best_sources>>

Cost(S) == MapThenSumSet(LAMBDA s : size[s], S)

(* f64::INFINITY: more than all sources together. *)
Infinity == Cost(Sources) + 1

(* A constraint for each hash that some source holds. *)
Constraints == UNION {holds[s] : s \in Sources}

Covers(S) == Constraints \subseteq UNION {holds[s] : s \in S}

(* A problem: the sources fixed to 1, and those fixed to 0. *)
Root == [in |-> {}, out |-> {}]

Free(p) == Sources \ (p.in \union p.out)

Allowed(p) == {S \in SUBSET Sources : p.in \subseteq S /\ S \intersect p.out = {} /\ Covers(S)}

Feasible(p) == Covers(Sources \ p.out)

Cheapest(p) == Min({Cost(S) : S \in Allowed(p)})

(* fix_var *)
Fixed(p, var, val) ==
    IF val = 1 THEN [p EXCEPT !.in = @ \union {var}] ELSE [p EXCEPT !.out = @ \union {var}]

(***************************************************************************)
(* The objective values a fractional optimum may have, given its parent's. *)
(* They are only ever compared to costs of covers, and stand for the least *)
(* such cost that is not below them.                                       *)
(***************************************************************************)
Bounds(p, bound) == {Cost(S) : S \in Allowed(Root)} \intersect bound .. Cheapest(p)

Integral(p, S, bound) == S \in Allowed(p) /\ Cost(S) = Cheapest(p) /\ bound <= Cost(S)

(* Mutant: the variable to branch on may be one that is fixed already. *)
StepsOnAnyVariable(p, bound) ==
    [problem : {p}, bound : {bound}, var : Sources, start_val : {0, 1}, cur_val : {-1}]

(* choose_branch_var and new_step: a fractional variable, so a free one. *)
Steps(p, bound) ==
    [problem : {p}, bound : {bound}, var : Free(p), start_val : {0, 1}, cur_val : {-1}]

Init ==
    /\ \E input \in Inputs : size = input[1] /\ holds = input[2]
    /\ phase = "solve"
    /\ dfs_stack = <<>>
    /\ best_cost = Infinity
    /\ best_sources = {}

(* The first solution is integral: the early out. *)
SolveAtOnce ==
    /\ phase = "solve"
    /\ \E S \in SUBSET Sources : Integral(Root, S, 0) /\ best_sources' = {S}
    /\ phase' = "done"
    /\ UNCHANGED <<size, holds, dfs_stack, best_cost>>

StartSearch ==
    /\ phase = "solve"
    /\ \E b \in Bounds(Root, 0) : \E step \in Steps(Root, b) : dfs_stack' = <<step>>
    /\ phase' = "search"
    /\ UNCHANGED <<size, holds, best_cost, best_sources>>

Top == dfs_stack[Len(dfs_stack)]

(* The value the step tries next: start_val, then the other one. *)
NextVal(step) == IF step.cur_val = -1 THEN step.start_val ELSE 1 - step.start_val

(* Mutant: each variable is tried with its rounded value only. *)
OneValueTried(step) == step.cur_val = step.start_val

(* Mutant: the value is flipped for ever. *)
NeverExhausted(step) == FALSE

(* Both values have been tried. *)
Exhausted(step) == step.cur_val \notin {-1, step.start_val}

Tried == Fixed(Top.problem, Top.var, NextVal(Top))

StackWithVal ==
    [dfs_stack EXCEPT ![Len(dfs_stack)].cur_val = NextVal(Top)]

Trying == phase = "search" /\ ~Exhausted(Top)

(* Both values are explored: back to the previous step, or out. *)
Backtrack ==
    /\ phase = "search" /\ Exhausted(Top)
    /\ dfs_stack' = SubSeq(dfs_stack, 1, Len(dfs_stack) - 1)
    /\ phase' = IF Len(dfs_stack) = 1 THEN "done" ELSE "search"
    /\ UNCHANGED <<size, holds, best_cost, best_sources>>

(* fix_var returns an error. *)
Infeasible ==
    /\ Trying
    /\ ~Feasible(Tried)
    /\ dfs_stack' = StackWithVal
    /\ UNCHANGED <<size, holds, phase, best_cost, best_sources>>

(* Mutant: a branch is cut unless it is at least two cheaper. *)
PrunedTooEarly(bound) == bound + 1 >= best_cost

Pruned(bound) == bound > best_cost

(* The relaxed optimum is above the best cost: nothing better below it. *)
Prune ==
    /\ Trying
    /\ Feasible(Tried)
    /\ \E b \in Bounds(Tried, Top.bound) : Pruned(b)
    /\ dfs_stack' = StackWithVal
    /\ UNCHANGED <<size, holds, phase, best_cost, best_sources>>

(* A fractional optimum: branch on one of its variables. *)
Deepen ==
    /\ Trying
    /\ Feasible(Tried)
    /\ \E b \in Bounds(Tried, Top.bound) :
         /\ ~Pruned(b)
         /\ \E step \in Steps(Tried, b) : dfs_stack' = Append(StackWithVal, step)
    /\ UNCHANGED <<size, holds, phase, best_cost, best_sources>>

(* An integral optimum; it is kept if it is better. *)
Improve ==
    /\ Trying
    /\ Feasible(Tried)
    /\ \E S \in SUBSET Sources :
         /\ Integral(Tried, S, Top.bound) /\ ~Pruned(Cost(S))
         /\ IF Cost(S) < best_cost
            THEN best_cost' = Cost(S) /\ best_sources' = {S}
            ELSE UNCHANGED <<best_cost, best_sources>>
    /\ dfs_stack' = StackWithVal
    /\ UNCHANGED <<size, holds, phase>>

Next == \/ SolveAtOnce \/ StartSearch
        \/ Backtrack \/ Infeasible \/ Prune \/ Deepen \/ Improve

Spec == Init /\ [][Next]_vars

(* The loop runs on its own thread without waiting for anything. *)
FairSpec == Spec /\ WF_vars(Next)
-----------------------------------------------------------------------------
Problems == {p \in [in : SUBSET Sources, out : SUBSET Sources] : p.in \intersect p.out = {}}

TypeOK ==
    /\ phase \in {"solve", "search", "done"}
    /\ best_cost \in 0 .. Infinity
    /\ best_sources \subseteq SUBSET Sources /\ Cardinality(best_sources) <= 1
    /\ Len(dfs_stack) <= Cardinality(Sources)
    /\ \A k \in DOMAIN dfs_stack :
         /\ dfs_stack[k].problem \in Problems
         /\ dfs_stack[k].var \in Free(dfs_stack[k].problem)
         /\ dfs_stack[k].cur_val \in {-1, 0, 1}

(***************************************************************************)
(* What solve_files returns covers every hash that some source holds, and  *)
(* nothing that does is smaller: pruning and early exits lose no optimum,  *)
(* and the final unwrap never meets None.                                  *)
(***************************************************************************)
ResultIsOptimal ==
    phase = "done" =>
        \E S \in best_sources : Covers(S) /\ Cost(S) = Cheapest(Root)

(* The problems the search has still to visit. *)
Unvisited ==
    UNION {LET step == dfs_stack[k]
           IN  {Fixed(step.problem, step.var, v) : v \in
                  IF step.cur_val = -1 THEN {0, 1}
                  ELSE IF step.cur_val = step.start_val THEN {1 - step.start_val}
                  ELSE {}}
           : k \in DOMAIN dfs_stack}

(***************************************************************************)
(* The branch and bound argument: as long as no optimum has been found, an *)
(* optimal cover lies in a problem that is still to be visited.            *)
(***************************************************************************)
OptimumInReach ==
    phase = "search" =>
        \/ best_cost = Cheapest(Root)
        \/ \E p \in Unvisited : \E S \in Allowed(p) : Cost(S) = Cheapest(Root)

(***************************************************************************)
(* "This can loop for a very long time, but not forever": whatever optima  *)
(* the relaxations return, the search ends.                                *)
(***************************************************************************)
SearchEnds == <>(phase = "done")
=============================================================================
