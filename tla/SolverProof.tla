----------------------------- MODULE SolverProof -----------------------------
(***************************************************************************)
(* solve_files returns a cheapest cover, for any sources, sizes and        *)
(* hashes and whatever optima the relaxed problems return.                 *)
(*                                                                         *)
(* The search is right because of what the costs of sets of sources are:   *)
(* sums that do not depend on the order they are added up in and grow with *)
(* the set.  So the first part shows what MapThenSumSet computes, by       *)
(* taking a smallest set for which it would be wrong.                      *)
(***************************************************************************)
EXTENDS Solver, FiniteSetTheorems, WellFoundedInduction, TLAPS

(* Of the subsets of a finite set with some property, one is smallest. *)
LEMMA Smallest ==
    ASSUME NEW S, IsFiniteSet(S), NEW B \in SUBSET SUBSET S, B # {}
    PROVE  \E m \in B : \A k \in B : k \subseteq m => k = m
<1>1. B \subseteq FiniteSubsetsOf(S)
  BY FS_FiniteSubsetsOfFinite
<1>2. PICK m \in B : \A k \in B : ~(<<k, m>> \in StrictSubsetOrdering(S))
  BY <1>1, FS_StrictSubsetOrderingWellFounded, WFMin
<1> QED
  BY <1>2 DEF StrictSubsetOrdering
-----------------------------------------------------------------------------
(* MapThenSumSet, for a function: its element is chosen, not given. *)
Pick(s) == CHOOSE x \in s : TRUE

SumsUp(f, S, g) ==
    g = [s \in SUBSET S |-> IF s = {} THEN 0 ELSE f[Pick(s)] + g[s \ {Pick(s)}]]

Sums(f, S) == CHOOSE g : SumsUp(f, S, g)

Total(f, S) == Sums(f, S)[S]

LEMMA CostIsTotal == \A S : Cost(S) = Total(size, S)
BY DEF Cost, MapThenSumSet, MapThenFoldSet, Total, Sums, SumsUp, Pick

LEMMA PickInside == \A s : s # {} => Pick(s) \in s
BY DEF Pick

LEMMA SumsUpAt ==
    ASSUME NEW f, NEW S, NEW g, SumsUp(f, S, g), NEW s \in SUBSET S
    PROVE  g[s] = IF s = {} THEN 0 ELSE f[Pick(s)] + g[s \ {Pick(s)}]
BY DEF SumsUp

(* Two such functions agree where both are defined. *)
LEMMA SumsAgree ==
    ASSUME NEW f, NEW S, IsFiniteSet(S), NEW g, SumsUp(f, S, g),
           NEW T \in SUBSET S, NEW h, SumsUp(f, T, h), NEW s \in SUBSET T
    PROVE  g[s] = h[s]
<1> DEFINE B == {t \in SUBSET T : g[t] # h[t]}
<1>1. SUFFICES ASSUME B # {} PROVE FALSE
  OBVIOUS
<1>2. PICK m \in B : \A k \in B : k \subseteq m => k = m
  <2>1. IsFiniteSet(T) /\ B \in SUBSET SUBSET T
    BY FS_Subset
  <2> HIDE DEF B
  <2> QED
    BY <1>1, <2>1, Smallest
<1>3. /\ g[m] = IF m = {} THEN 0 ELSE f[Pick(m)] + g[m \ {Pick(m)}]
      /\ h[m] = IF m = {} THEN 0 ELSE f[Pick(m)] + h[m \ {Pick(m)}]
  BY SumsUpAt
<1>4. m # {}
  BY <1>3
<1>5. m \ {Pick(m)} \in SUBSET T /\ m \ {Pick(m)} \notin B
  BY <1>2, <1>4, PickInside
<1> QED
  BY <1>3, <1>4, <1>5

Summable(f, t) == SumsUp(f, t, Sums(f, t)) /\ Total(f, t) \in Nat

(***************************************************************************)
(* The sums of all subsets exist: those of the smaller sets together are   *)
(* a function on the subsets of the next.                                  *)
(***************************************************************************)
LEMMA SumsExist ==
    ASSUME NEW S, IsFiniteSet(S), NEW f \in [S -> Nat]
    PROVE  \A t \in SUBSET S : Summable(f, t)
<1> DEFINE B == {t \in SUBSET S : ~Summable(f, t)}
<1>1. SUFFICES ASSUME B # {} PROVE FALSE
  OBVIOUS
<1>2. PICK m \in B : \A k \in B : k \subseteq m => k = m
  <2>1. B \in SUBSET SUBSET S
    OBVIOUS
  <2> HIDE DEF B
  <2> QED
    BY <1>1, <2>1, Smallest
<1>3. \A t \in SUBSET m : t # m => Summable(f, t)
  BY <1>2
<1> DEFINE Rest(s) == s \ {Pick(s)}
           g == [s \in SUBSET m |-> IF s = {} THEN 0 ELSE f[Pick(s)] + Total(f, Rest(s))]
<1>4. ASSUME NEW s \in SUBSET m, s # m PROVE g[s] = Total(f, s)
  <2>1. Summable(f, s)
    BY <1>3, <1>4
  <2>2. Total(f, s) = IF s = {} THEN 0 ELSE f[Pick(s)] + Sums(f, s)[Rest(s)]
    BY <2>1, SumsUpAt DEF Summable, Total
  <2>3. CASE s = {}
    BY <2>2, <2>3
  <2>4. CASE s # {}
    <3>1. Pick(s) \in s /\ Rest(s) \in SUBSET s /\ Rest(s) \in SUBSET m /\ Rest(s) # m
      BY <2>4, PickInside
    <3>2. Summable(f, Rest(s)) /\ IsFiniteSet(s)
      BY <1>3, <3>1, FS_Subset
    <3>3. Sums(f, s)[Rest(s)] = Total(f, Rest(s))
      BY <2>1, <3>1, <3>2, SumsAgree DEF Summable, Total
    <3> QED
      BY <2>2, <2>4, <3>3
  <2> QED
    BY <2>3, <2>4
<1>5. ASSUME NEW s \in SUBSET m, s # {} PROVE g[s] = f[Pick(s)] + g[Rest(s)]
  <2>1. Pick(s) \in s /\ Rest(s) \in SUBSET m /\ Rest(s) # m
    BY <1>5, PickInside
  <2> QED
    BY <1>4, <1>5, <2>1
<1>6. SumsUp(f, m, g)
  BY <1>5 DEF SumsUp
<1>7. SumsUp(f, m, Sums(f, m))
  BY <1>6 DEF Sums
<1>8. Total(f, m) \in Nat
  <2>1. Total(f, m) = g[m]
    BY <1>6, <1>7, FS_Subset, SumsAgree DEF Total
  <2>2. CASE m = {}
    BY <2>1, <2>2
  <2>3. CASE m # {}
    <3>1. Pick(m) \in S /\ Rest(m) \in SUBSET m /\ Rest(m) # m
      BY <2>3, PickInside
    <3>2. Total(f, Rest(m)) \in Nat
      BY <1>3, <3>1 DEF Summable
    <3> QED
      BY <2>1, <2>3, <3>1, <3>2
  <2> QED
    BY <2>2, <2>3
<1> QED
  BY <1>7, <1>8 DEF Summable

LEMMA TotalOfNone == \A f : Summable(f, {}) => Total(f, {}) = 0
<1> SUFFICES ASSUME NEW f, SumsUp(f, {}, Sums(f, {})) PROVE Total(f, {}) = 0
  BY DEF Summable
<1> QED
  BY SumsUpAt DEF Total

LEMMA TotalOfPick ==
    ASSUME NEW S, IsFiniteSet(S), NEW f \in [S -> Nat], NEW t \in SUBSET S, t # {}
    PROVE  Total(f, t) = f[Pick(t)] + Total(f, t \ {Pick(t)})
<1> DEFINE r == t \ {Pick(t)}
<1>1. r \in SUBSET t /\ r \in SUBSET S /\ IsFiniteSet(t)
  BY FS_Subset
<1>2. Summable(f, t) /\ Summable(f, r)
  BY <1>1, SumsExist
<1>3. Sums(f, t)[r] = Total(f, r)
  <2> HIDE DEF r
  <2>1. SumsUp(f, t, Sums(f, t)) /\ SumsUp(f, r, Sums(f, r)) /\ r \in SUBSET r
    BY <1>2 DEF Summable
  <2> QED
    BY <1>1, <2>1, SumsAgree DEF Total
<1>4. Total(f, t) = f[Pick(t)] + Sums(f, t)[r]
  BY <1>2, SumsUpAt DEF Summable, Total
<1> QED
  BY <1>3, <1>4

(* The order does not matter: any element may be added last. *)
LEMMA TotalOf ==
    ASSUME NEW S, IsFiniteSet(S), NEW f \in [S -> Nat]
    PROVE  \A t \in SUBSET S : \A x \in t : Total(f, t) = f[x] + Total(f, t \ {x})
<1> DEFINE Right(t) == \A x \in t : Total(f, t) = f[x] + Total(f, t \ {x})
           B == {t \in SUBSET S : ~Right(t)}
<1>1. SUFFICES ASSUME B # {} PROVE FALSE
  OBVIOUS
<1>2. PICK m \in B : \A k \in B : k \subseteq m => k = m
  <2>1. B \in SUBSET SUBSET S
    OBVIOUS
  <2> HIDE DEF B
  <2> QED
    BY <1>1, <2>1, Smallest
<1>3. PICK x \in m : Total(f, m) # f[x] + Total(f, m \ {x})
  BY <1>2
<1> DEFINE p == Pick(m)
<1>4. p \in m /\ m \in SUBSET S /\ m # {}
  BY <1>3, PickInside
<1>5. Total(f, m) = f[p] + Total(f, m \ {p})
  BY <1>4, TotalOfPick
<1>6. x # p
  BY <1>3, <1>5
<1>7. m \ {p} \in SUBSET S /\ m \ {x} \in SUBSET S /\ (m \ {p}) \ {x} \in SUBSET S
  BY <1>4
<1>8. Right(m \ {p}) /\ Right(m \ {x})
  <2>1. m \ {p} # m /\ m \ {x} # m /\ m \ {p} \subseteq m /\ m \ {x} \subseteq m
    BY <1>3, <1>4
  <2> HIDE DEF Right
  <2> QED
    BY <1>2, <1>7, <2>1
<1>9. Total(f, m \ {p}) = f[x] + Total(f, (m \ {p}) \ {x})
  <2>1. x \in m \ {p}
    BY <1>3, <1>6
  <2> QED
    BY <1>8, <2>1
<1>10. Total(f, m \ {x}) = f[p] + Total(f, (m \ {p}) \ {x})
  <2>1. p \in m \ {x} /\ (m \ {x}) \ {p} = (m \ {p}) \ {x}
    BY <1>4, <1>6
  <2> QED
    BY <1>8, <2>1
<1>11. Total(f, (m \ {p}) \ {x}) \in Nat
  BY <1>7, SumsExist DEF Summable
<1>12. f[x] \in Nat /\ f[p] \in Nat
  BY <1>3, <1>4
<1> QED
  BY <1>3, <1>5, <1>9, <1>10, <1>11, <1>12

(* More sources never cost less. *)
LEMMA TotalGrows ==
    ASSUME NEW S, IsFiniteSet(S), NEW f \in [S -> Nat], NEW u \in SUBSET S
    PROVE  \A t \in SUBSET S : u \subseteq t => Total(f, u) <= Total(f, t)
<1> DEFINE B == {t \in SUBSET S : u \subseteq t /\ ~(Total(f, u) <= Total(f, t))}
<1>1. SUFFICES ASSUME B # {} PROVE FALSE
  OBVIOUS
<1>2. PICK m \in B : \A k \in B : k \subseteq m => k = m
  <2>1. B \in SUBSET SUBSET S
    OBVIOUS
  <2> HIDE DEF B
  <2> QED
    BY <1>1, <2>1, Smallest
<1>3. Total(f, u) \in Nat /\ Total(f, m) \in Nat
  BY <1>2, SumsExist DEF Summable
<1>4. PICK x \in m : x \notin u
  <2>1. m # u
    BY <1>2, <1>3
  <2> QED
    BY <1>2, <2>1
<1>5. m \ {x} \in SUBSET S /\ u \subseteq m \ {x} /\ m \ {x} # m /\ f[x] \in Nat
  BY <1>2, <1>4
<1>6. Total(f, u) <= Total(f, m \ {x}) /\ Total(f, m \ {x}) \in Nat
  BY <1>2, <1>5, SumsExist DEF Summable
<1>7. Total(f, m) = f[x] + Total(f, m \ {x})
  BY <1>2, <1>4, TotalOf
<1> QED
  BY <1>2, <1>3, <1>5, <1>6, <1>7

(* A set of numbers that is not empty has a least one, which Min chooses. *)
LEMMA LeastIsMin ==
    ASSUME NEW N \in SUBSET Nat, N # {}
    PROVE  Min(N) \in N /\ \A k \in N : Min(N) <= k
<1> DEFINE Less == {ss \in Nat \X Nat : ss[1] < ss[2]}
<1>1. IsWellFoundedOn(Less, Nat)
  BY NatLessThanWellFounded DEF OpToRel
<1> HIDE DEF Less
<1>2. PICK n \in N : \A k \in N : <<k, n>> \notin Less
  BY <1>1, WFMin
<1>3. \A k \in N : ~(k < n)
  BY <1>2 DEF Less
<1>4. \A k \in N : n <= k
  BY <1>3
<1> QED
  BY <1>2, <1>4 DEF Min
-----------------------------------------------------------------------------
(* The argument of solve_files. *)
Given == size \in [Sources -> Nat] /\ holds \in [Sources -> SUBSET Hashes]

(* A step of the search. *)
SearchSteps ==
    [problem : Problems, bound : Nat, var : Sources,
     start_val : {0, 1}, cur_val : {-1, 0, 1}]

(* The k-th step of the stack has fixed k - 1 sources, and not its own. *)
StepOK(step, k) ==
    /\ step.var \in Free(step.problem)
    /\ Cardinality(step.problem.in \union step.problem.out) = k - 1

StackOK ==
    /\ dfs_stack \in Seq(SearchSteps)
    /\ \A k \in DOMAIN dfs_stack : StepOK(dfs_stack[k], k)
    /\ phase \in {"solve", "search", "done"}
    /\ phase = "search" <=> dfs_stack # <<>>

NothingFound == best_sources = {} /\ best_cost = Infinity

CoverFound ==
    \E S \in SUBSET Sources : best_sources = {S} /\ Covers(S) /\ best_cost = Cost(S)

BestOK ==
    /\ phase = "solve" => NothingFound
    /\ phase = "search" => NothingFound \/ CoverFound
    /\ best_cost \in 0 .. Infinity
    /\ best_sources = {} \/ \E S \in SUBSET Sources : best_sources = {S}

IInv == Given /\ StackOK /\ BestOK /\ ResultIsOptimal /\ OptimumInReach
-----------------------------------------------------------------------------
(* The argument never changes, so neither does what is computed from it. *)
LEMMA SameArgument ==
    ASSUME UNCHANGED <<size, holds>>
    PROVE  /\ \A S : Cost(S)' = Cost(S)
           /\ \A S : Covers(S)' <=> Covers(S)
           /\ \A p : Allowed(p)' = Allowed(p)
           /\ \A p : Cheapest(p)' = Cheapest(p)
           /\ Infinity' = Infinity
<1>1. \A S : Cost(S)' = Cost(S)
  BY DEF Cost, MapThenSumSet, MapThenFoldSet
<1>2. \A S : Covers(S)' <=> Covers(S)
  BY DEF Covers, Constraints
<1>3. \A p : Allowed(p)' = Allowed(p)
  BY <1>2 DEF Allowed
<1>4. \A p : Cheapest(p)' = Cheapest(p)
  BY <1>1, <1>3 DEF Cheapest, Min
<1> QED
  BY <1>1, <1>2, <1>3, <1>4 DEF Infinity

LEMMA CostFacts ==
    ASSUME Given
    PROVE  /\ \A S \in SUBSET Sources : Cost(S) \in Nat /\ Cost(S) < Infinity
           /\ Infinity \in Nat
<1>1. \A S \in SUBSET Sources : Cost(S) \in Nat
  BY SolverAssumption, CostIsTotal, SumsExist DEF Given, Summable
<1>2. \A S \in SUBSET Sources : Cost(S) <= Cost(Sources)
  BY SolverAssumption, CostIsTotal, TotalGrows DEF Given
<1> QED
  BY <1>1, <1>2 DEF Infinity

LEMMA CheapestIs ==
    ASSUME Given, NEW p, Allowed(p) # {}
    PROVE  /\ Cheapest(p) \in Nat
           /\ \E S \in Allowed(p) : Cost(S) = Cheapest(p)
           /\ \A S \in Allowed(p) : Cheapest(p) <= Cost(S)
<1> DEFINE N == {Cost(S) : S \in Allowed(p)}
<1>1. N \in SUBSET Nat /\ N # {}
  BY CostFacts DEF Allowed
<1>2. Min(N) \in N /\ \A k \in N : Min(N) <= k
  <2> HIDE DEF N
  <2> QED
    BY <1>1, LeastIsMin
<1> QED
  BY <1>1, <1>2 DEF Cheapest

(* A problem is feasible iff there is a cover within it. *)
LEMMA FeasibleIs ==
    ASSUME NEW p \in Problems
    PROVE  Feasible(p) <=> Allowed(p) # {}
<1>1. ASSUME Feasible(p) PROVE Sources \ p.out \in Allowed(p)
  BY <1>1 DEF Feasible, Allowed, Problems
<1>2. ASSUME NEW S \in Allowed(p) PROVE Feasible(p)
  <2>1. S \subseteq Sources \ p.out /\ Covers(S)
    BY DEF Allowed
  <2> QED
    BY <2>1 DEF Feasible, Covers
<1> QED
  BY <1>1, <1>2

LEMMA RootIs ==
    /\ Root \in Problems
    /\ Sources \in Allowed(Root)
    /\ \A p : Allowed(p) \subseteq Allowed(Root)
    /\ Root.in \union Root.out = {}
BY DEF Root, Problems, Allowed, Covers, Constraints

(* Fixing a free source splits the covers in two. *)
LEMMA SplitOn ==
    ASSUME NEW p \in Problems, NEW x \in Free(p)
    PROVE  /\ \A v \in {0, 1} : Fixed(p, x, v) \in Problems
           /\ \A v \in {0, 1} : Fixed(p, x, v).in \union Fixed(p, x, v).out
                                    = (p.in \union p.out) \union {x}
           /\ \A S \in Allowed(p) : \E v \in {0, 1} : S \in Allowed(Fixed(p, x, v))
<1>1. /\ Fixed(p, x, 1) = [in |-> p.in \union {x}, out |-> p.out]
      /\ Fixed(p, x, 0) = [in |-> p.in, out |-> p.out \union {x}]
  BY DEF Problems, Fixed
<1>2. x \in Sources /\ x \notin p.in /\ x \notin p.out
  BY DEF Free
<1>3. \A v \in {0, 1} : Fixed(p, x, v) \in Problems
  BY <1>1, <1>2 DEF Problems
<1>4. ASSUME NEW S \in Allowed(p) PROVE \E v \in {0, 1} : S \in Allowed(Fixed(p, x, v))
  <2>1. CASE x \in S
    BY <1>1, <1>2, <2>1 DEF Allowed, Problems
  <2>2. CASE x \notin S
    BY <1>1, <1>2, <2>2 DEF Allowed, Problems
  <2> QED
    BY <2>1, <2>2
<1> QED
  BY <1>1, <1>3, <1>4

(* An optimum of a problem that is allowed to be fractional is in bounds. *)
LEMMA BoundsIn ==
    ASSUME Given, NEW p, Allowed(p) # {}, NEW bound \in Nat, NEW b \in Bounds(p, bound)
    PROVE  b \in Nat /\ b <= Cheapest(p)
BY CheapestIs, CostFacts DEF Bounds, Allowed
-----------------------------------------------------------------------------
(* The values a step has still to try, and the problems of a stack. *)
Left(step) ==
    IF step.cur_val = -1 THEN {0, 1}
    ELSE IF step.cur_val = step.start_val THEN {1 - step.start_val}
    ELSE {}

Holds(step, v) ==
    \E S \in Allowed(Fixed(step.problem, step.var, v)) : Cost(S) = Cheapest(Root)

InReach(stack) == \E k \in DOMAIN stack : \E v \in Left(stack[k]) : Holds(stack[k], v)

UnvisitedOf(stack) ==
    UNION {{Fixed(stack[k].problem, stack[k].var, v) : v \in Left(stack[k])}
           : k \in DOMAIN stack}

LEMMA InReachIs ==
    \A stack : InReach(stack) <=>
        \E p \in UnvisitedOf(stack) : \E S \in Allowed(p) : Cost(S) = Cheapest(Root)
BY DEF UnvisitedOf, InReach, Holds

LEMMA ReachIs ==
    OptimumInReach <=>
        (phase = "search" => best_cost = Cheapest(Root) \/ InReach(dfs_stack))
<1>1. Unvisited = UnvisitedOf(dfs_stack)
  BY DEF Unvisited, UnvisitedOf, Left
<1> QED
  BY <1>1, InReachIs DEF OptimumInReach

LEMMA TopIs ==
    ASSUME StackOK, phase = "search"
    PROVE  /\ Len(dfs_stack) \in DOMAIN dfs_stack /\ Len(dfs_stack) \in Nat \ {0}
           /\ DOMAIN dfs_stack = 1 .. Len(dfs_stack)
           /\ Top \in SearchSteps /\ StepOK(Top, Len(dfs_stack))
           /\ NextVal(Top) \in {0, 1}
<1>1. /\ Len(dfs_stack) \in DOMAIN dfs_stack /\ Len(dfs_stack) \in Nat \ {0}
      /\ DOMAIN dfs_stack = 1 .. Len(dfs_stack)
  BY DEF StackOK
<1>2. Top \in SearchSteps /\ StepOK(Top, Len(dfs_stack))
  BY <1>1 DEF StackOK, Top
<1> QED
  BY <1>1, <1>2 DEF NextVal, SearchSteps

(* Another value for the top of the stack leaves the rest as it is. *)
LEMMA StackWithValIs ==
    ASSUME StackOK, Trying
    PROVE  /\ StackWithVal \in Seq(SearchSteps)
           /\ Len(StackWithVal) = Len(dfs_stack)
           /\ \A k \in 1 .. Len(dfs_stack) - 1 : StackWithVal[k] = dfs_stack[k]
           /\ StackWithVal[Len(dfs_stack)] = [Top EXCEPT !.cur_val = NextVal(Top)]
           /\ \A k \in 1 .. Len(dfs_stack) : StepOK(StackWithVal[k], k)
<1> DEFINE n == Len(dfs_stack)
           new == [Top EXCEPT !.cur_val = NextVal(Top)]
<1>1. /\ n \in 1 .. n /\ n \in Nat /\ dfs_stack \in Seq(SearchSteps)
      /\ Top \in SearchSteps /\ NextVal(Top) \in {0, 1} /\ DOMAIN dfs_stack = 1 .. n
  BY TopIs DEF Trying, StackOK
<1>2. new \in SearchSteps /\ new.var = Top.var /\ new.problem = Top.problem
  BY <1>1 DEF SearchSteps
<1>3. StackWithVal = [dfs_stack EXCEPT ![n] = new]
  BY DEF StackWithVal, Top
<1> HIDE DEF new
<1>4. StackWithVal \in Seq(SearchSteps) /\ Len(StackWithVal) = n
  BY <1>1, <1>2, <1>3
<1>5. StackWithVal[n] = new /\ \A k \in 1 .. n - 1 : StackWithVal[k] = dfs_stack[k]
  <2>1. \A k \in 1 .. n : StackWithVal[k] = IF k = n THEN new ELSE dfs_stack[k]
    BY <1>1, <1>3
  <2>2. n \in Nat /\ n \in 1 .. n
    BY <1>1
  <2> HIDE DEF n, new
  <2>3. \A k \in 1 .. n - 1 : k \in 1 .. n /\ k # n
    BY <2>2
  <2> QED
    BY <2>1, <2>2, <2>3
<1>6. StepOK(StackWithVal[n], n)
  BY <1>2, <1>5, TopIs DEF StepOK, Trying
<1>7. \A k \in 1 .. n - 1 : StepOK(StackWithVal[k], k)
  BY <1>1, <1>5 DEF StackOK
<1> QED
  BY <1>1, <1>4, <1>5, <1>6, <1>7 DEF new

(* The problem that is tried is the only one the step no longer has left. *)
LEMMA TriedIs ==
    ASSUME StackOK, Trying
    PROVE  /\ Tried \in Problems
           /\ Cardinality(Tried.in \union Tried.out) = Len(dfs_stack)
           /\ InReach(dfs_stack) =>
                InReach(StackWithVal) \/ \E S \in Allowed(Tried) : Cost(S) = Cheapest(Root)
<1> DEFINE n == Len(dfs_stack)
<1>1. /\ n \in 1 .. n /\ n \in Nat /\ DOMAIN dfs_stack = 1 .. n /\ Top = dfs_stack[n]
      /\ Top \in SearchSteps /\ NextVal(Top) \in {0, 1} /\ StepOK(Top, n)
  BY TopIs DEF Trying, Top
<1>2. Top.problem \in Problems /\ Top.var \in Free(Top.problem)
  BY <1>1 DEF SearchSteps, StepOK
<1>3. /\ Tried \in Problems
      /\ Tried.in \union Tried.out
            = (Top.problem.in \union Top.problem.out) \union {Top.var}
  BY <1>1, <1>2, SplitOn DEF Tried
<1>4. Cardinality(Tried.in \union Tried.out) = n
  <2> DEFINE c == Top.problem.in \union Top.problem.out
  <2>1. IsFiniteSet(c) /\ Top.var \notin c
    BY <1>2, SolverAssumption, FS_Subset DEF Problems, Free
  <2>2. Cardinality(c) = n - 1
    BY <1>1 DEF StepOK
  <2> HIDE DEF c
  <2>3. Cardinality(c \union {Top.var}) = Cardinality(c) + 1
    BY <2>1, FS_AddElement
  <2>4. Tried.in \union Tried.out = c \union {Top.var}
    BY <1>3 DEF c
  <2>5. Cardinality(Tried.in \union Tried.out) = Cardinality(c) + 1
    BY <2>3, <2>4
  <2>6. n \in Nat /\ (n - 1) + 1 = n
    BY <1>1
  <2> HIDE DEF n
  <2> QED
    BY <2>2, <2>5, <2>6
<1>5. ASSUME NEW k \in DOMAIN dfs_stack, NEW v \in Left(dfs_stack[k]),
             Holds(dfs_stack[k], v)
      PROVE  InReach(StackWithVal) \/ \E S \in Allowed(Tried) : Cost(S) = Cheapest(Root)
  <2>1. DOMAIN StackWithVal = 1 .. n
    BY StackWithValIs
  <2>2. CASE k # n
    <3>1. k \in 1 .. n - 1
      BY <1>1, <2>2
    <3> QED
      BY <1>1, <1>5, <2>1, <3>1, StackWithValIs DEF InReach
  <2>3. CASE k = n /\ v = NextVal(Top)
    BY <1>1, <1>5, <2>3 DEF Holds, Tried
  <2>4. CASE k = n /\ v # NextVal(Top)
    <3> DEFINE new == [Top EXCEPT !.cur_val = NextVal(Top)]
    <3>1. /\ new.cur_val = NextVal(Top) /\ new.start_val = Top.start_val
          /\ new.problem = Top.problem /\ new.var = Top.var
      BY <1>1 DEF SearchSteps
    <3>2. v \in Left(new)
      BY <1>1, <1>5, <2>4, <3>1 DEF Left, NextVal, SearchSteps
    <3>3. Holds(new, v)
      BY <1>1, <1>5, <2>4, <3>1 DEF Holds
    <3>4. StackWithVal[n] = new /\ n \in DOMAIN StackWithVal
      BY <1>1, <2>1, StackWithValIs
    <3> HIDE DEF new
    <3> QED
      BY <3>2, <3>3, <3>4 DEF InReach
  <2> QED
    BY <2>2, <2>3, <2>4
<1> QED
  BY <1>3, <1>4, <1>5 DEF InReach
-----------------------------------------------------------------------------
(* The stack holds steps, and one more than the sources its top has fixed. *)
LEMMA StackStep ==
    ASSUME Given, StackOK, [Next]_vars PROVE StackOK'
<1>1. CASE SolveAtOnce
  BY <1>1 DEF SolveAtOnce, StackOK
<1>2. CASE StartSearch
  <2>1. PICK b \in Bounds(Root, 0) : \E step \in Steps(Root, b) : dfs_stack' = <<step>>
    BY <1>2 DEF StartSearch
  <2>0. PICK step \in Steps(Root, b) : dfs_stack' = <<step>>
    BY <2>1
  <2>2. b \in Nat
    BY BoundsIn, RootIs
  <2>3. step \in SearchSteps /\ step.var \in Free(Root) /\ step.problem = Root
    BY <2>2, RootIs DEF Steps, SearchSteps, Free
  <2>4. StepOK(step, 1)
    BY <2>3, RootIs, FS_EmptySet DEF StepOK
  <2> HIDE DEF SearchSteps, StepOK
  <2> QED
    BY <1>2, <2>0, <2>3, <2>4 DEF StartSearch, StackOK
<1>3. CASE Backtrack
  <2> DEFINE n == Len(dfs_stack)
  <2>1. n \in Nat \ {0} /\ dfs_stack \in Seq(SearchSteps) /\ DOMAIN dfs_stack = 1 .. n
    BY <1>3, TopIs DEF Backtrack, StackOK
  <2>2. /\ dfs_stack' = SubSeq(dfs_stack, 1, n - 1)
        /\ phase' = IF n = 1 THEN "done" ELSE "search"
    BY <1>3 DEF Backtrack
  <2>3. /\ dfs_stack' \in Seq(SearchSteps) /\ Len(dfs_stack') = n - 1
        /\ DOMAIN dfs_stack' = 1 .. n - 1
        /\ \A k \in 1 .. n - 1 : dfs_stack'[k] = dfs_stack[k]
    BY <2>1, <2>2
  <2>4. \A k \in 1 .. n - 1 : StepOK(dfs_stack'[k], k)
    BY <2>1, <2>3 DEF StackOK
  <2>5. phase' = "search" <=> dfs_stack' # <<>>
    <3>1. dfs_stack' = <<>> <=> Len(dfs_stack') = 0
      BY <2>3
    <3>2. n - 1 = 0 <=> n = 1
      BY <2>1
    <3> QED
      BY <2>2, <2>3, <3>1, <3>2
  <2> QED
    BY <2>2, <2>3, <2>4, <2>5 DEF StackOK
<1>4. CASE Infeasible \/ Prune \/ Improve
  <2>1. Trying /\ dfs_stack' = StackWithVal /\ UNCHANGED phase
    BY <1>4 DEF Infeasible, Prune, Improve
  <2>2. /\ dfs_stack' \in Seq(SearchSteps) /\ Len(dfs_stack') \in Nat \ {0}
        /\ \A k \in 1 .. Len(dfs_stack') : StepOK(dfs_stack'[k], k)
    BY <2>1, StackWithValIs, TopIs DEF Trying
  <2> QED
    BY <2>1, <2>2 DEF StackOK, Trying
<1>5. CASE Deepen
  <2>1. Trying /\ UNCHANGED phase /\ Feasible(Tried)
    BY <1>5 DEF Deepen
  <2>0. PICK b \in Bounds(Tried, Top.bound) :
             \E step \in Steps(Tried, b) : dfs_stack' = Append(StackWithVal, step)
    BY <1>5 DEF Deepen
  <2>2. PICK step \in Steps(Tried, b) : dfs_stack' = Append(StackWithVal, step)
    BY <2>0
  <2> DEFINE n == Len(dfs_stack)
  <2>3. n \in Nat /\ Top.bound \in Nat /\ Tried \in Problems
    BY <2>1, TopIs, TriedIs DEF Trying, SearchSteps
  <2>4. b \in Nat
    BY <2>1, <2>3, BoundsIn, FeasibleIs
  <2>5. step \in SearchSteps /\ step.var \in Free(Tried) /\ step.problem = Tried
    BY <2>3, <2>4 DEF Steps, SearchSteps, Free
  <2>6. StepOK(step, n + 1)
    <3>1. Cardinality(Tried.in \union Tried.out) = n /\ n = (n + 1) - 1
      BY <2>1, <2>3, TriedIs
    <3> QED
      BY <2>5, <3>1 DEF StepOK
  <2>7. /\ dfs_stack' \in Seq(SearchSteps) /\ Len(dfs_stack') = n + 1
        /\ dfs_stack'[n + 1] = step
        /\ \A k \in 1 .. n : dfs_stack'[k] = StackWithVal[k]
    BY <2>1, <2>2, <2>3, <2>5, StackWithValIs
  <2>8. \A k \in 1 .. n + 1 : StepOK(dfs_stack'[k], k)
    BY <2>1, <2>3, <2>6, <2>7, StackWithValIs
  <2> QED
    BY <2>1, <2>3, <2>7, <2>8 DEF StackOK, Trying
<1>6. CASE UNCHANGED vars
  BY <1>6 DEF vars, StackOK
<1> QED
  BY <1>1, <1>2, <1>3, <1>4, <1>5, <1>6 DEF Next

LEMMA ArgumentKept == [Next]_vars => UNCHANGED <<size, holds>>
BY DEF Next, SolveAtOnce, StartSearch, Backtrack, Infeasible, Prune, Deepen, Improve, vars

(* What has been found is a cover, and its cost the best cost. *)
LEMMA BestStep ==
    ASSUME Given, StackOK, BestOK, [Next]_vars PROVE BestOK'
<1>1. UNCHANGED <<size, holds>>
  BY ArgumentKept
<1>2. /\ NothingFound' <=> (best_sources' = {} /\ best_cost' = Infinity)
      /\ CoverFound' <=> \E S \in SUBSET Sources :
                           best_sources' = {S} /\ Covers(S) /\ best_cost' = Cost(S)
      /\ Infinity' = Infinity
  BY <1>1, SameArgument DEF NothingFound, CoverFound
<1>3. CASE SolveAtOnce
  BY <1>2, <1>3 DEF SolveAtOnce, BestOK, NothingFound
<1>4. CASE Improve
  <2>1. PICK C \in SUBSET Sources :
          /\ Integral(Tried, C, Top.bound)
          /\ IF Cost(C) < best_cost
             THEN best_cost' = Cost(C) /\ best_sources' = {C}
             ELSE UNCHANGED <<best_cost, best_sources>>
    BY <1>4 DEF Improve
  <2>2. Covers(C) /\ phase = "search" /\ phase' = "search"
    BY <1>4, <2>1 DEF Improve, Trying, Integral, Allowed
  <2>3. CASE Cost(C) < best_cost
    <3>1. Cost(C) \in 0 .. Infinity
      BY CostFacts
    <3>2. CoverFound'
      BY <1>2, <2>1, <2>2, <2>3
    <3> QED
      BY <1>2, <2>1, <2>2, <2>3, <3>1, <3>2 DEF BestOK
  <2>4. CASE ~(Cost(C) < best_cost)
    BY <1>2, <2>1, <2>2, <2>4 DEF BestOK, NothingFound, CoverFound
  <2> QED
    BY <2>3, <2>4
<1>5. CASE UNCHANGED <<best_cost, best_sources>> /\ (phase' = "solve" => phase = "solve")
           /\ (phase' = "search" => phase \in {"solve", "search"})
  BY <1>2, <1>5 DEF BestOK, NothingFound, CoverFound
<1>6. SolveAtOnce \/ Improve
      \/ (UNCHANGED <<best_cost, best_sources>> /\ (phase' = "solve" => phase = "solve")
           /\ (phase' = "search" => phase \in {"solve", "search"}))
  BY DEF Next, StartSearch, Backtrack, Infeasible, Prune, Deepen, Trying, vars
<1> QED
  BY <1>3, <1>4, <1>5, <1>6

(* Reaching an optimum, seen from the next stack. *)
LEMMA ReachNext ==
    ASSUME UNCHANGED <<size, holds>>
    PROVE  OptimumInReach' <=>
             (phase' = "search" => best_cost' = Cheapest(Root) \/ InReach(dfs_stack'))
<1>1. /\ \A p : Allowed(p)' = Allowed(p)
      /\ \A S : Cost(S)' = Cost(S)
      /\ Cheapest(Root)' = Cheapest(Root)
  BY SameArgument DEF Root
<1>2. Unvisited' = UnvisitedOf(dfs_stack')
  BY DEF Unvisited, UnvisitedOf, Left
<1> QED
  BY <1>1, <1>2, InReachIs DEF OptimumInReach

(* Until the search is over nothing found is cheaper than the cheapest. *)
LEMMA BestBound ==
    ASSUME Given, BestOK, phase \in {"solve", "search"}
    PROVE  /\ Cheapest(Root) \in Nat /\ Cheapest(Root) < Infinity
           /\ best_cost \in Nat /\ Cheapest(Root) <= best_cost
           /\ best_cost = Cheapest(Root) => CoverFound
<1>1. Cheapest(Root) \in Nat /\ Cheapest(Root) < Infinity
  BY RootIs, CheapestIs, CostFacts DEF Allowed
<1>2. CoverFound => Cheapest(Root) <= best_cost
  <2>1. \A S \in SUBSET Sources : Covers(S) => S \in Allowed(Root)
    BY DEF Allowed, Root
  <2> QED
    BY <2>1, RootIs, CheapestIs DEF CoverFound
<1>3. NothingFound \/ CoverFound
  BY DEF BestOK
<1>4. Infinity \in Nat /\ best_cost \in Nat
  BY CostFacts DEF BestOK
<1> QED
  BY <1>1, <1>2, <1>3, <1>4 DEF NothingFound

(***************************************************************************)
(* No step loses the optima: what is cut off costs more than something     *)
(* that has been found, and what is tried is searched below.               *)
(***************************************************************************)
LEMMA ReachStep ==
    ASSUME Given, StackOK, BestOK, OptimumInReach, [Next]_vars PROVE OptimumInReach'
<1> SUFFICES ASSUME phase' = "search"
             PROVE  best_cost' = Cheapest(Root) \/ InReach(dfs_stack')
  BY ArgumentKept, ReachNext
<1>1. phase = "search" => best_cost = Cheapest(Root) \/ InReach(dfs_stack)
  BY ReachIs
<1>2. Sources \in Allowed(Root) /\ \E S \in Allowed(Root) : Cost(S) = Cheapest(Root)
  BY RootIs, CheapestIs
<1>3. CASE StartSearch
  <2>1. PICK b \in Bounds(Root, 0) : \E step \in Steps(Root, b) : dfs_stack' = <<step>>
    BY <1>3 DEF StartSearch
  <2>2. PICK step \in Steps(Root, b) : dfs_stack' = <<step>>
    BY <2>1
  <2>3. Left(step) = {0, 1} /\ step.problem = Root /\ step.var \in Free(Root)
    BY DEF Steps, Left
  <2>4. \E v \in Left(step) : Holds(step, v)
    BY <1>2, <2>3, RootIs, SplitOn DEF Holds
  <2>5. 1 \in DOMAIN dfs_stack' /\ dfs_stack'[1] = step
    BY <2>2
  <2> QED
    BY <2>4, <2>5 DEF InReach
<1>4. CASE Backtrack
  <2>1. phase = "search" /\ Left(Top) = {} /\ UNCHANGED best_cost
    BY <1>4, TopIs DEF Backtrack, Exhausted, Left
  <2> DEFINE n == Len(dfs_stack)
  <2>2. n \in Nat \ {0} /\ DOMAIN dfs_stack = 1 .. n /\ Top = dfs_stack[n]
    BY <2>1, TopIs DEF Top
  <2>3. dfs_stack' = SubSeq(dfs_stack, 1, n - 1) /\ dfs_stack \in Seq(SearchSteps)
    BY <1>4 DEF Backtrack, StackOK
  <2>4. DOMAIN dfs_stack' = 1 .. n - 1 /\ \A k \in 1 .. n - 1 : dfs_stack'[k] = dfs_stack[k]
    BY <2>2, <2>3
  <2>5. ASSUME NEW k \in DOMAIN dfs_stack, Left(dfs_stack[k]) # {}
        PROVE  k \in DOMAIN dfs_stack' /\ dfs_stack'[k] = dfs_stack[k]
    BY <2>1, <2>2, <2>4, <2>5
  <2>6. InReach(dfs_stack) => InReach(dfs_stack')
    BY <2>5 DEF InReach
  <2> QED
    BY <1>1, <2>1, <2>6
<1>5. CASE Infeasible
  <2>1. Trying /\ dfs_stack' = StackWithVal /\ UNCHANGED best_cost /\ phase = "search"
    BY <1>5 DEF Infeasible, Trying
  <2>2. Allowed(Tried) = {}
    BY <1>5, <2>1, TriedIs, FeasibleIs DEF Infeasible
  <2> QED
    BY <1>1, <2>1, <2>2, TriedIs
<1>6. CASE Prune
  <2>1. Trying /\ dfs_stack' = StackWithVal /\ UNCHANGED best_cost /\ phase = "search"
    BY <1>6 DEF Prune, Trying
  <2>2. PICK b \in Bounds(Tried, Top.bound) : b > best_cost
    BY <1>6 DEF Prune, Pruned
  <2>3. ASSUME NEW S \in Allowed(Tried), Cost(S) = Cheapest(Root) PROVE FALSE
    <3>1. Top.bound \in Nat
      BY <2>1, TopIs DEF SearchSteps
    <3>2. /\ b \in Nat /\ b <= Cheapest(Tried)
          /\ Cheapest(Tried) \in Nat /\ Cheapest(Tried) <= Cost(S)
      BY <2>3, <3>1, BoundsIn, CheapestIs
    <3> QED
      BY <2>1, <2>2, <2>3, <3>2, BestBound
  <2> QED
    BY <1>1, <2>1, <2>3, TriedIs
<1>7. CASE Deepen
  <2>1. Trying /\ UNCHANGED best_cost /\ phase = "search"
    BY <1>7 DEF Deepen, Trying
  <2>2. PICK b \in Bounds(Tried, Top.bound) :
             \E step \in Steps(Tried, b) : dfs_stack' = Append(StackWithVal, step)
    BY <1>7 DEF Deepen
  <2>3. PICK step \in Steps(Tried, b) : dfs_stack' = Append(StackWithVal, step)
    BY <2>2
  <2> DEFINE n == Len(dfs_stack)
  <2>4. n \in Nat /\ StackWithVal \in Seq(SearchSteps) /\ Len(StackWithVal) = n
    BY <2>1, TopIs, StackWithValIs
  <2>5. /\ DOMAIN StackWithVal = 1 .. n /\ DOMAIN dfs_stack' = 1 .. n + 1
        /\ dfs_stack'[n + 1] = step
        /\ \A k \in 1 .. n : dfs_stack'[k] = StackWithVal[k]
    BY <2>3, <2>4
  <2>6. ASSUME NEW k \in DOMAIN StackWithVal
        PROVE  k \in DOMAIN dfs_stack' /\ dfs_stack'[k] = StackWithVal[k]
    BY <2>4, <2>5
  <2>7. InReach(StackWithVal) => InReach(dfs_stack')
    BY <2>6 DEF InReach
  <2>8. ASSUME NEW S \in Allowed(Tried), Cost(S) = Cheapest(Root) PROVE InReach(dfs_stack')
    <3>1. Left(step) = {0, 1} /\ step.problem = Tried /\ step.var \in Free(Tried)
      BY DEF Steps, Left
    <3>2. \E v \in Left(step) : Holds(step, v)
      BY <2>1, <2>8, <3>1, TriedIs, SplitOn DEF Holds
    <3>3. n + 1 \in DOMAIN dfs_stack'
      BY <2>4, <2>5
    <3> QED
      BY <2>5, <3>2, <3>3 DEF InReach
  <2> QED
    BY <1>1, <2>1, <2>7, <2>8, TriedIs
<1>8. CASE Improve
  <2>1. Trying /\ dfs_stack' = StackWithVal /\ phase = "search"
    BY <1>8 DEF Improve, Trying
  <2>2. PICK C \in SUBSET Sources :
          /\ Integral(Tried, C, Top.bound)
          /\ IF Cost(C) < best_cost
             THEN best_cost' = Cost(C) /\ best_sources' = {C}
             ELSE UNCHANGED <<best_cost, best_sources>>
    BY <1>8 DEF Improve
  <2>3. /\ C \in Allowed(Tried) /\ C \in Allowed(Root)
        /\ Cost(C) \in Nat /\ Cost(C) = Cheapest(Tried) /\ Cheapest(Root) <= Cost(C)
    BY <2>2, RootIs, CheapestIs, CostFacts DEF Integral
  <2>4. CASE best_cost = Cheapest(Root)
    BY <2>1, <2>2, <2>3, <2>4, BestBound
  <2>5. ASSUME NEW S \in Allowed(Tried), Cost(S) = Cheapest(Root)
        PROVE  best_cost' = Cheapest(Root)
    <3>1. Cost(C) <= Cost(S)
      BY <2>3, CheapestIs
    <3> QED
      BY <2>1, <2>2, <2>3, <2>5, <3>1, BestBound
  <2> QED
    BY <1>1, <2>1, <2>4, <2>5, TriedIs
<1>9. CASE UNCHANGED vars
  BY <1>1, <1>9 DEF vars
<1>10. ~SolveAtOnce
  BY DEF SolveAtOnce
<1> QED
  BY <1>3, <1>4, <1>5, <1>6, <1>7, <1>8, <1>9, <1>10 DEF Next

(* The search ends with nothing left, hence with an optimum. *)
LEMMA ResultStep ==
    ASSUME Given, StackOK, BestOK, OptimumInReach, ResultIsOptimal, [Next]_vars
    PROVE  ResultIsOptimal'
<1> SUFFICES ASSUME phase' = "done"
             PROVE  \E S \in best_sources' : Covers(S) /\ Cost(S) = Cheapest(Root)
  BY ArgumentKept, SameArgument DEF ResultIsOptimal, Root
<1>1. CASE SolveAtOnce
  <2>1. PICK S \in SUBSET Sources : Integral(Root, S, 0) /\ best_sources' = {S}
    BY <1>1 DEF SolveAtOnce
  <2> QED
    BY <2>1 DEF Integral, Allowed
<1>2. CASE Backtrack
  <2>1. /\ phase = "search" /\ Len(dfs_stack) = 1 /\ Left(Top) = {}
        /\ UNCHANGED <<best_cost, best_sources>>
    BY <1>2, TopIs DEF Backtrack, Exhausted, Left
  <2>2. DOMAIN dfs_stack = {1} /\ Top = dfs_stack[1]
    BY <2>1, TopIs DEF Top
  <2>3. ~InReach(dfs_stack)
    BY <2>1, <2>2 DEF InReach
  <2>4. best_cost = Cheapest(Root) /\ CoverFound
    BY <2>1, <2>3, ReachIs, BestBound
  <2> QED
    BY <2>1, <2>4 DEF CoverFound
<1>3. CASE UNCHANGED vars
  BY <1>3 DEF vars, ResultIsOptimal
<1>4. ~StartSearch /\ ~Infeasible /\ ~Prune /\ ~Deepen /\ ~Improve
  BY DEF StartSearch, Infeasible, Prune, Deepen, Improve, Trying
<1> QED
  BY <1>1, <1>2, <1>3, <1>4 DEF Next

LEMMA InvInit == Init => IInv
<1> SUFFICES ASSUME Init PROVE IInv
  OBVIOUS
<1>1. Given
  BY SolverAssumption DEF Init, Given
<1>2. StackOK
  BY DEF Init, StackOK
<1>3. BestOK
  BY <1>1, CostFacts DEF Init, BestOK, NothingFound
<1>4. ResultIsOptimal /\ OptimumInReach
  BY DEF Init, ResultIsOptimal, OptimumInReach
<1> QED
  BY <1>1, <1>2, <1>3, <1>4 DEF IInv

LEMMA InvStep == IInv /\ [Next]_vars => IInv'
<1> SUFFICES ASSUME IInv, [Next]_vars PROVE IInv'
  OBVIOUS
<1>1. Given'
  BY ArgumentKept DEF IInv, Given
<1> QED
  BY <1>1, StackStep, BestStep, ReachStep, ResultStep DEF IInv

LEMMA InvAlways == Spec => []IInv
BY InvInit, InvStep, PTL DEF Spec

(***************************************************************************)
(* The types; in particular the stack is never deeper than there are       *)
(* sources, since each step fixes one more of them.                        *)
(***************************************************************************)
THEOREM TypeCorrect == Spec => []TypeOK
<1>1. IInv => TypeOK
  <2> SUFFICES ASSUME IInv PROVE TypeOK
    OBVIOUS
  <2> DEFINE n == Len(dfs_stack)
  <2>1. n \in Nat /\ DOMAIN dfs_stack = 1 .. n /\ dfs_stack \in Seq(SearchSteps)
    BY DEF IInv, StackOK
  <2>2. ASSUME NEW k \in DOMAIN dfs_stack
        PROVE  /\ dfs_stack[k].problem \in Problems
               /\ dfs_stack[k].var \in Free(dfs_stack[k].problem)
               /\ dfs_stack[k].cur_val \in {-1, 0, 1}
               /\ Cardinality(dfs_stack[k].problem.in \union dfs_stack[k].problem.out)
                     = k - 1
    <3>1. dfs_stack[k] \in SearchSteps /\ StepOK(dfs_stack[k], k)
      BY <2>1, <2>2 DEF IInv, StackOK
    <3> QED
      BY <3>1 DEF SearchSteps, StepOK
  <2>3. n <= Cardinality(Sources)
    <3>1. CASE n = 0
      BY <3>1, SolverAssumption, FS_CardinalityType
    <3>2. CASE n # 0
      <4> DEFINE p == dfs_stack[n].problem
                 c == p.in \union p.out
      <4>1. n \in DOMAIN dfs_stack
        BY <2>1, <3>2
      <4>2. p \in Problems /\ dfs_stack[n].var \in Free(p) /\ Cardinality(c) = n - 1
        BY <2>2, <4>1
      <4>3. c \in SUBSET Sources /\ c # Sources
        BY <4>2 DEF Problems, Free
      <4> HIDE DEF c
      <4>4. /\ Cardinality(c) \in Nat /\ Cardinality(Sources) \in Nat
            /\ Cardinality(c) <= Cardinality(Sources)
            /\ Cardinality(c) # Cardinality(Sources)
        BY <4>3, SolverAssumption, FS_Subset, FS_CardinalityType
      <4>5. n \in Nat /\ Cardinality(c) = n - 1
        BY <2>1, <4>2 DEF c
      <4> HIDE DEF n
      <4> QED
        BY <4>4, <4>5
    <3> QED
      BY <3>1, <3>2
  <2>4. best_sources \subseteq SUBSET Sources /\ Cardinality(best_sources) <= 1
    BY FS_EmptySet, FS_Singleton DEF IInv, BestOK
  <2> QED
    BY <2>2, <2>3, <2>4 DEF TypeOK, IInv, StackOK, BestOK
<1> QED
  BY <1>1, InvAlways, PTL

(* As long as no optimum has been found, one is in what is left to visit. *)
THEOREM Reachability == Spec => []OptimumInReach
BY InvAlways, PTL DEF IInv

(***************************************************************************)
(* What solve_files returns covers all that can be covered, and nothing    *)
(* that does is smaller.                                                   *)
(***************************************************************************)
THEOREM Optimality == Spec => []ResultIsOptimal
BY InvAlways, PTL DEF IInv
=============================================================================
