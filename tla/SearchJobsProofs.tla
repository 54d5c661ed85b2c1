-------------------------- MODULE SearchJobsProofs ---------------------------
(***************************************************************************)
(* Proofs about the search, for any number of workers, groups, expressions *)
(* and stages: groups are merged by one job alone, what is recorded of a   *)
(* group is true, and the best plan is not overlooked.                     *)
(***************************************************************************)
EXTENDS SearchJobs, SequenceTheorems, WellFoundedInduction, TLAPS

-----------------------------------------------------------------------------
(* Numbers and sums                                                        *)

\* A set of numbers has a least element.
LEMMA LeastElement ==
  ASSUME NEW S, S \subseteq Nat, S # {}
  PROVE  \E m \in S : \A k \in S : m <= k
<1>. DEFINE less == {p \in Nat \X Nat : p[1] < p[2]}
<1>1. IsWellFoundedOn(less, Nat)
  BY NatLessThanWellFounded DEF OpToRel
<1>2. \E m \in S : \A k \in S : <<k, m>> \notin less
  <2>. HIDE DEF less
  <2>. QED
    BY <1>1, WFMin, Zenon
<1>3. PICK m \in S : \A k \in S : <<k, m>> \notin less
  BY <1>2
<1>4. ASSUME NEW k \in S PROVE m <= k
  <2>1. m \in Nat /\ k \in Nat
    OBVIOUS
  <2>2. ~(k < m)
    BY <1>3, <2>1
  <2>. QED
    BY <2>1, <2>2
<1>. HIDE DEF less
<1>. QED
  BY <1>4

LEMMA Upwards ==
  ASSUME NEW n \in Nat, NEW S, 0 \in S, \A k \in 0..n : k \in S /\ k < n => k + 1 \in S
  PROVE  0..n \subseteq S
<1>. DEFINE rest == (0..n) \ S
<1>. SUFFICES ASSUME rest # {} PROVE FALSE
  OBVIOUS
<1>1. rest \subseteq Nat
  OBVIOUS
<1>2. PICK m \in rest : \A k \in rest : m <= k
  <2>. HIDE DEF rest
  <2>. QED
    BY <1>1, LeastElement
<1>3. m \in 0..n /\ m \notin S /\ m # 0
  BY <1>2
<1>4. m - 1 \in 0..n /\ m - 1 < n /\ ~(m <= m - 1)
  BY <1>3
<1>5. m - 1 \in S
  BY <1>2, <1>4
<1>6. (m - 1) + 1 \in S
  BY <1>4, <1>5
<1>. QED
  BY <1>3, <1>6

\* f sums up a and the numbers of c.
SumsUp(f, n, a, c) == f = [i \in 0..n |-> IF i = 0 THEN a ELSE f[i - 1] + c[i]]

LEMMA SumExists ==
  ASSUME NEW n \in Nat, NEW a, NEW c
  PROVE  \E f : SumsUp(f, n, a, c)
<1>. DEFINE S == {k \in 0..n : \E f : SumsUp(f, k, a, c)}
<1>1. 0 \in S
  <2>. DEFINE f == [i \in 0..0 |-> a]
  <2>1. SumsUp(f, 0, a, c)
    BY DEF SumsUp
  <2>. HIDE DEF f
  <2>. QED
    BY <2>1
<1>2. ASSUME NEW k \in 0..n, k \in S, k < n PROVE k + 1 \in S
  <2>1. PICK g : SumsUp(g, k, a, c)
    BY <1>2
  <2>. DEFINE f == [i \in 0..(k + 1) |-> IF i = 0 THEN a ELSE g[i - 1] + c[i]]
  <2>2. \A i \in 0..k : f[i] = g[i]
    BY <2>1 DEF SumsUp
  <2>3. \A i \in 0..(k + 1) : i # 0 => i - 1 \in 0..k
    OBVIOUS
  <2>4. SumsUp(f, k + 1, a, c)
    BY <2>2, <2>3 DEF SumsUp
  <2>. HIDE DEF f
  <2>. QED
    BY <1>2, <2>4
<1>3. 0..n \subseteq S
  <2>. HIDE DEF S
  <2>. QED
    BY <1>1, <1>2, Upwards
<1>. QED
  BY <1>3

LEMMA SumBounds ==
  ASSUME NEW n \in Nat, NEW a \in Nat, NEW c \in [1..n -> Nat], NEW f, SumsUp(f, n, a, c)
  PROVE  f[n] \in Nat /\ f[n] >= a /\ \A i \in 1..n : f[n] >= a + c[i]
<1>. DEFINE S == {k \in 0..n : f[k] \in Nat /\ f[k] >= a /\ \A i \in 1..k : f[k] >= a + c[i]}
<1>1. 0 \in S
  BY DEF SumsUp
<1>2. ASSUME NEW k \in 0..n, k \in S, k < n PROVE k + 1 \in S
  <2>1. f[k + 1] = f[k] + c[k + 1] /\ c[k + 1] \in Nat
    BY <1>2 DEF SumsUp
  <2>2. f[k + 1] \in Nat /\ f[k + 1] >= a /\ f[k + 1] >= f[k] /\ f[k + 1] >= a + c[k + 1]
    BY <1>2, <2>1
  <2>3. ASSUME NEW i \in 1..(k + 1) PROVE f[k + 1] >= a + c[i]
    <3>1. CASE i = k + 1
      BY <2>2, <3>1
    <3>2. CASE i # k + 1
      <4>1. i \in 1..k /\ i \in 1..n
        BY <3>2
      <4>2. f[k] >= a + c[i] /\ c[i] \in Nat /\ f[k] \in Nat
        BY <1>2, <4>1
      <4>. QED
        BY <2>2, <4>2
    <3>. QED
      BY <3>1, <3>2
  <2>. QED
    BY <1>2, <2>2, <2>3
<1>3. 0..n \subseteq S
  <2>. HIDE DEF S
  <2>. QED
    BY <1>1, <1>2, Upwards
<1>. QED
  BY <1>3

LEMMA SumGrows ==
  ASSUME NEW n \in Nat, NEW a \in Nat, NEW c \in [1..n -> Nat], NEW d \in [1..n -> Nat],
         \A i \in 1..n : c[i] <= d[i],
         NEW f, SumsUp(f, n, a, c), NEW g, SumsUp(g, n, a, d)
  PROVE  f[n] <= g[n]
<1>. DEFINE S == {k \in 0..n : f[k] \in Nat /\ g[k] \in Nat /\ f[k] <= g[k]}
<1>1. 0 \in S
  BY DEF SumsUp
<1>2. ASSUME NEW k \in 0..n, k \in S, k < n PROVE k + 1 \in S
  <2>1. f[k + 1] = f[k] + c[k + 1] /\ g[k + 1] = g[k] + d[k + 1]
    BY <1>2 DEF SumsUp
  <2>2. c[k + 1] \in Nat /\ d[k + 1] \in Nat /\ c[k + 1] <= d[k + 1]
    BY <1>2
  <2>. QED
    BY <1>2, <2>1, <2>2
<1>3. 0..n \subseteq S
  <2>. HIDE DEF S
  <2>. QED
    BY <1>1, <1>2, Upwards
<1>. QED
  BY <1>3

-----------------------------------------------------------------------------
(* What a plan costs                                                       *)

KidContext(x, r, i) == <<Kids[x][i], KidReq[x][r][i]>>
KidCosts(cost, x, r) == [i \in 1..Len(Kids[x]) |-> cost[KidContext(x, r, i)]]

LEMMA KidsOf ==
  ASSUME NEW x \in Exprs
  PROVE  /\ Kids[x] \in Seq(Groups) /\ Len(Kids[x]) \in Nat
         /\ DOMAIN Kids[x] = 1..Len(Kids[x])
         /\ Range(Kids[x]) = {Kids[x][i] : i \in DOMAIN Kids[x]}
         /\ Range(Kids[x]) \subseteq Groups
         /\ \A r \in Reqs : \A i \in 1..Len(Kids[x]) : KidContext(x, r, i) \in Contexts
<1>1. Kids[x] \in Seq(Groups)
  BY MemoAssumption
<1>2. Len(Kids[x]) \in Nat /\ DOMAIN Kids[x] = 1..Len(Kids[x])
  BY <1>1
<1>3. \A i \in 1..Len(Kids[x]) : Kids[x][i] \in Groups
  BY <1>1
<1>4. \A r \in Reqs : \A i \in 1..Len(Kids[x]) : KidReq[x][r][i] \in Reqs
  BY <1>2, PropertiesAssumption
<1>. QED
  BY <1>1, <1>2, <1>3, <1>4 DEF Range, KidContext, Contexts

LEMMA TotalSum ==
  ASSUME NEW x \in Exprs, NEW r \in Reqs, NEW cost
  PROVE  \E f : SumsUp(f, Len(Kids[x]), Cost[x], KidCosts(cost, x, r))
                /\ TotalCost(cost, x, r) = f[Len(Kids[x])]
<1>. DEFINE n == Len(Kids[x])
            Same(f) == f = [i \in 0..n |-> IF i = 0 THEN Cost[x]
                                ELSE f[i - 1] + cost[<<Kids[x][i], KidReq[x][r][i]>>]]
            sum == CHOOSE f : Same(f)
<1>1. n \in Nat
  BY KidsOf
<1>2. \A f : Same(f) <=> SumsUp(f, n, Cost[x], KidCosts(cost, x, r))
  <2>1. \A i \in 0..n : i # 0 =>
            KidCosts(cost, x, r)[i] = cost[<<Kids[x][i], KidReq[x][r][i]>>]
    BY <1>1 DEF KidCosts, KidContext
  <2>. QED
    BY <2>1 DEF SumsUp
<1>3. \E f : Same(f)
  <2>1. PICK f : SumsUp(f, n, Cost[x], KidCosts(cost, x, r))
    BY <1>1, SumExists
  <2>. HIDE DEF Same
  <2>. QED
    BY <1>2, <2>1
<1>4. Same(sum)
  <2>. HIDE DEF Same
  <2>. QED
    BY <1>3
<1>5. TotalCost(cost, x, r) = sum[n]
  BY DEF TotalCost
<1>. HIDE DEF Same, sum
<1>. QED
  BY <1>2, <1>4, <1>5

LEMMA TotalBounds ==
  ASSUME NEW x \in Exprs, NEW r \in Reqs, NEW cost \in [Contexts -> Nat]
  PROVE  /\ TotalCost(cost, x, r) \in Nat /\ TotalCost(cost, x, r) >= Cost[x]
         /\ \A i \in 1..Len(Kids[x]) :
               TotalCost(cost, x, r) >= Cost[x] + cost[KidContext(x, r, i)]
<1>1. KidCosts(cost, x, r) \in [1..Len(Kids[x]) -> Nat]
  BY KidsOf DEF KidCosts
<1>2. PICK f : SumsUp(f, Len(Kids[x]), Cost[x], KidCosts(cost, x, r))
               /\ TotalCost(cost, x, r) = f[Len(Kids[x])]
  BY TotalSum
<1>3. Cost[x] \in Nat /\ Len(Kids[x]) \in Nat
  BY CostsAssumption, KidsOf
<1>4. \A i \in 1..Len(Kids[x]) : KidCosts(cost, x, r)[i] = cost[KidContext(x, r, i)]
  BY DEF KidCosts
<1>. QED
  BY <1>1, <1>2, <1>3, <1>4, SumBounds

LEMMA TotalGrows ==
  ASSUME NEW x \in Exprs, NEW r \in Reqs,
         NEW cost \in [Contexts -> Nat], NEW dear \in [Contexts -> Nat],
         \A i \in 1..Len(Kids[x]) : cost[KidContext(x, r, i)] <= dear[KidContext(x, r, i)]
  PROVE  TotalCost(cost, x, r) <= TotalCost(dear, x, r)
<1>. DEFINE c == KidCosts(cost, x, r)
            d == KidCosts(dear, x, r)
            n == Len(Kids[x])
<1>1. c \in [1..n -> Nat] /\ d \in [1..n -> Nat] /\ \A i \in 1..n : c[i] <= d[i]
  BY KidsOf DEF KidCosts
<1>2. PICK f : SumsUp(f, n, Cost[x], c) /\ TotalCost(cost, x, r) = f[n]
  BY TotalSum
<1>3. PICK g : SumsUp(g, n, Cost[x], d) /\ TotalCost(dear, x, r) = g[n]
  BY TotalSum
<1>4. Cost[x] \in Nat /\ n \in Nat
  BY CostsAssumption, KidsOf
<1>. HIDE DEF c, d, n
<1>. QED
  BY <1>1, <1>2, <1>3, <1>4, SumGrows

-----------------------------------------------------------------------------
(* Jobs                                                                    *)

PhaseTypes == {"GroupExpressionExploration", "GroupExpressionImplementation"}

\* What a job's type says of it.
LEMMA JobShape ==
  ASSUME NEW j \in Jobs
  PROVE  /\ j.type \in {"GroupExploration", "GroupImplementation", "GroupOptimization",
                        "GroupExpressionExploration", "GroupExpressionImplementation",
                        "GroupExpressionOptimization", "Transformation"}
         /\ j = [type |-> j.type, on |-> j.on, for |-> j.for]
         /\ j.type = "GroupExploration" => j.on \in Groups /\ j = Exploration(j.on)
         /\ j.type = "GroupImplementation" => j.on \in Groups /\ j = Implementation(j.on)
         /\ j.type = "GroupOptimization" =>
               j.on \in Groups /\ j.for \in Reqs /\ j = Optimization(j.on, j.for)
         /\ j.type \in PhaseTypes => j.on \in Logical /\ j = ExprJob(j.type, j.on, "-")
         /\ j.type = "GroupExpressionOptimization" =>
               j.on \in Exprs \ Logical /\ j.for \in Reqs /\ j = ExprJob(j.type, j.on, j.for)
         /\ j.type = "Transformation" =>
               /\ j.on \in Logical /\ j.for \in DOMAIN Result
               /\ j = ExprJob(j.type, j.on, j.for)
BY DEF Jobs, PhaseTypes, Exploration, Implementation, Optimization, ExprJob, GroupJob

LEMMA JobsMade ==
  /\ \A g \in Groups : Exploration(g) \in Jobs /\ Implementation(g) \in Jobs
  /\ \A g \in Groups, r \in Reqs : Optimization(g, r) \in Jobs
  /\ \A x \in Logical : \A t \in PhaseTypes : ExprJob(t, x, "-") \in Jobs
  /\ \A x \in Exprs \ Logical : \A r \in Reqs :
        ExprJob("GroupExpressionOptimization", x, r) \in Jobs
  /\ \A x \in Logical : \A xf \in DOMAIN Result : ExprJob("Transformation", x, xf) \in Jobs
  /\ RootJob \in Jobs
BY MemoAssumption, PropertiesAssumption
   DEF Jobs, PhaseTypes, Exploration, Implementation, Optimization, ExprJob, GroupJob, RootJob

\* Jobs are told apart by what they are made of.
LEMMA JobNames ==
  /\ \A g : /\ Exploration(g).type = "GroupExploration" /\ Exploration(g).on = g
            /\ Implementation(g).type = "GroupImplementation" /\ Implementation(g).on = g
  /\ \A g, r : /\ Optimization(g, r).type = "GroupOptimization"
               /\ Optimization(g, r).on = g /\ Optimization(g, r).for = r
  /\ \A t, x, f : ExprJob(t, x, f).type = t /\ ExprJob(t, x, f).on = x /\ ExprJob(t, x, f).for = f
  /\ RootJob.type = "GroupOptimization" /\ RootJob.on = Root /\ RootJob.for = RootReq
BY DEF Exploration, Implementation, Optimization, ExprJob, GroupJob, RootJob

-----------------------------------------------------------------------------
(* Who waits for whom                                                      *)

Alive == DOMAIN job
Added == {e.job : e \in scheduled}

LogicalOf(E, g) == {x \in E \intersect Logical : GroupOf[x] = g}
PhysicalOf(E, g) == {x \in E \ Logical : GroupOf[x] = g}

Phase(j) == IF Explores(j) THEN "explore" ELSE "implement"

\* What job p may wait for in its state J, over the expressions E in stage n.
Awaits(p, J, c, E, n) ==
    \/ /\ p.type = "GroupExploration" /\ J.est = "children"
       /\ \E x \in LogicalOf(E, p.on) : c = ExprJob("GroupExpressionExploration", x, "-")
    \/ /\ p.type = "GroupImplementation" /\ J.est = "initialized"
       /\ c = Exploration(p.on)
    \/ /\ p.type = "GroupImplementation" /\ J.est = "children"
       /\ \E x \in LogicalOf(E, p.on) : c = ExprJob("GroupExpressionImplementation", x, "-")
    \/ /\ p.type = "GroupOptimization" /\ J.est = "initialized"
       /\ c = Implementation(p.on)
    \/ /\ p.type = "GroupOptimization" /\ J.est = "children"
       /\ \E x \in PhysicalOf(E, p.on) :
             c = ExprJob("GroupExpressionOptimization", x, p.for)
    \/ /\ p.type \in PhaseTypes /\ J.est = "children"
       /\ c \in KidJobs(p)
    \/ /\ p.type \in PhaseTypes /\ J.est = "self"
       /\ \E xf \in Xforms[Phase(p)][n][p.on] : c = ExprJob("Transformation", p.on, xf)
    \/ /\ p.type = "GroupExpressionOptimization" /\ J.est = "children"
       /\ J.child - 1 \in DOMAIN Kids[p.on]
       /\ c = Optimization(Kids[p.on][J.child - 1], KidReq[p.on][p.for][J.child - 1])

WaitsFor == \A p \in Alive : \A c \in job[p].waits : Awaits(p, job[p], c, exprs, stage)

\* A child one waits for is still to run or knows its parent, and not both.
WaitsOK ==
    /\ \A p \in Alive : \A c \in job[p].waits :
          Child(c, p) \in scheduled \/ (c \in Alive /\ p \in job[c].parents)
    /\ \A e \in scheduled : e.parent # NoJob =>
          e.parent \in Alive /\ e.job \in job[e.parent].waits
    /\ \A c \in Alive : \A p \in job[c].parents : p # NoJob =>
          p \in Alive /\ c \in job[p].waits /\ Child(c, p) \notin scheduled
    /\ \A c \in Alive : job[c].parents # {}

\* Only the root job has no parent, and it comes first.
RootOK ==
    /\ \A e \in scheduled : e.parent = NoJob =>
          /\ e.job = RootJob /\ scheduled = {e} /\ Alive = {} /\ completed = {}
          /\ \A w \in Workers : at[w] = NoJob
    /\ \A c \in Alive : NoJob \in job[c].parents => c = RootJob

\* A job is with one worker, and then waits for nothing.
HandsOK ==
    /\ \A w \in Workers : at[w] # NoJob => at[w] \in Alive /\ job[at[w]].waits = {}
    /\ \A v, w \in Workers : at[v] = at[w] /\ at[w] # NoJob => v = w
    /\ \A c \in completed : c \notin Alive /\ c.type \in Queued
    /\ \A e \in scheduled : e.job.type \notin Queued => e.job \notin Alive
    /\ Alive \union scheduled # {} => stage <= MaxStages

\* Every job is waited for by one that is waited for ... by the root job.
FromRoot ==
    \A S \in SUBSET Alive :
        /\ RootJob \in Alive => RootJob \in S
        /\ \A p \in S : job[p].waits \intersect Alive \subseteq S
        => S = Alive

Wired == WaitsFor /\ WaitsOK /\ RootOK /\ HandsOK /\ FromRoot

\* A job that is not queued has one parent.
LEMMA OneAwaits ==
  ASSUME NEW p \in Jobs, NEW q \in Jobs, NEW J, NEW K, NEW c, NEW E, NEW n \in 1..MaxStages,
         Awaits(p, J, c, E, n), Awaits(q, K, c, E, n), c.type \notin Queued
  PROVE  p = q
<1>1. CASE c.type = "GroupExpressionExploration"
  <2>1. ASSUME NEW d \in Jobs, NEW D, Awaits(d, D, c, E, n)
        PROVE  d = Exploration(GroupOf[c.on])
    BY <1>1, <2>1, JobShape, JobNames DEF Awaits, LogicalOf, PhysicalOf, KidJobs, PhaseTypes
  <2>. QED
    BY <2>1
<1>2. CASE c.type = "GroupExpressionImplementation"
  <2>1. ASSUME NEW d \in Jobs, NEW D, Awaits(d, D, c, E, n)
        PROVE  d = Implementation(GroupOf[c.on])
    BY <1>2, <2>1, JobShape, JobNames DEF Awaits, LogicalOf, PhysicalOf, KidJobs, PhaseTypes
  <2>. QED
    BY <2>1
<1>3. CASE c.type = "GroupExpressionOptimization"
  <2>1. ASSUME NEW d \in Jobs, NEW D, Awaits(d, D, c, E, n)
        PROVE  d = Optimization(GroupOf[c.on], c.for)
    BY <1>3, <2>1, JobShape, JobNames DEF Awaits, LogicalOf, PhysicalOf, KidJobs, PhaseTypes
  <2>. QED
    BY <2>1
<1>4. CASE c.type = "Transformation"
  <2>1. ASSUME NEW d \in Jobs, NEW D, Awaits(d, D, c, E, n)
        PROVE  /\ d.type \in PhaseTypes /\ d.on = c.on
               /\ c.for \in Xforms[Phase(d)][n][c.on]
    BY <1>4, <2>1, JobShape, JobNames DEF Awaits, LogicalOf, PhysicalOf, KidJobs, PhaseTypes
  <2>2. p.type = q.type
    BY <2>1, XformsAssumption, JobShape DEF Phase, Explores, PhaseTypes
  <2>. QED
    BY <2>1, <2>2, JobShape
<1>5. c.type \in {"GroupExpressionExploration", "GroupExpressionImplementation",
                  "GroupExpressionOptimization", "Transformation"}
  BY JobShape, JobNames
     DEF Awaits, LogicalOf, PhysicalOf, KidJobs, PhaseTypes, Queued
<1>. QED
  BY <1>1, <1>2, <1>3, <1>4, <1>5

-----------------------------------------------------------------------------
(* What the steps do to the jobs                                           *)

\* The worker's job is in a new state.
Going(w, J) ==
    /\ w \in Workers /\ at[w] # NoJob
    /\ Alive' = Alive /\ job'[at[w]] = J
    /\ \A k \in Alive : k # at[w] => job'[k] = job[k]
    /\ J.waits = job[at[w]].waits /\ J.parents = job[at[w]].parents
    /\ UNCHANGED <<scheduled, completed, at, stage>>

\* It schedules children and lets go of the worker.
Forking(w, J) ==
    /\ w \in Workers /\ at[w] # NoJob
    /\ Alive' = Alive /\ job'[at[w]] = J
    /\ \A k \in Alive : k # at[w] => job'[k] = job[k]
    /\ J.parents = job[at[w]].parents
    /\ \A c \in J.waits : Awaits(at[w], J, c, exprs', stage)
    /\ scheduled' = scheduled \union {Child(c, at[w]) : c \in J.waits}
    /\ at' = [at EXCEPT ![w] = NoJob]
    /\ UNCHANGED <<completed, stage>>

\* A job is retrieved for the first time.
Starting(w, e) ==
    /\ w \in Workers /\ at[w] = NoJob
    /\ e \in scheduled /\ e.job \notin completed /\ e.job \notin Alive
    /\ scheduled' = scheduled \ {e}
    /\ Alive' = Alive \union {e.job}
    /\ \A k \in Alive : job'[k] = job[k]
    /\ job'[e.job].waits = {} /\ job'[e.job].parents = {e.parent}
    /\ at' = [at EXCEPT ![w] = e.job]
    /\ UNCHANGED <<completed, stage>>

\* All but the parents, and of these all but what they wait for.
Otherwise(J, K, parents, c, k) ==
    IF k \in parents THEN K[k] = [J[k] EXCEPT !.waits = @ \ {c}] ELSE K[k] = J[k]

\* A job ends.
Ending(w) ==
    LET j == at[w]
    IN  /\ w \in Workers /\ at[w] # NoJob
        /\ Alive' = Alive \ {j}
        /\ \A k \in Alive' : Otherwise(job, job', job[j].parents, j, k)
        /\ completed' = IF j.type \in Queued THEN completed \union {j} ELSE completed
        /\ at' = [at EXCEPT ![w] = NoJob]
        /\ UNCHANGED <<scheduled, stage>>

LEMMA AwaitsMore ==
  ASSUME NEW p, NEW J, NEW c, NEW E, NEW n, NEW F, E \subseteq F, Awaits(p, J, c, E, n)
  PROVE  Awaits(p, J, c, F, n)
BY DEF Awaits, LogicalOf, PhysicalOf

LEMMA GoingKeeps ==
  ASSUME TypeOK, Wired, NEW w, NEW J, Going(w, J), exprs \subseteq exprs'
  PROVE  Wired'
<1>1. job[at[w]].waits = {} /\ at[w] \in Alive
  BY DEF Wired, HandsOK, Going
<1>2. WaitsFor'
  <2>. SUFFICES ASSUME NEW p \in Alive', NEW c \in job'[p].waits
                PROVE  Awaits(p, job'[p], c, exprs', stage')
    BY DEF WaitsFor, Alive
  <2>1. p # at[w] /\ p \in Alive /\ job'[p] = job[p]
    BY <1>1 DEF Going
  <2>2. Awaits(p, job[p], c, exprs, stage)
    BY <2>1 DEF Wired, WaitsFor
  <2>. QED
    BY <2>1, <2>2, AwaitsMore DEF Going
<1>. DEFINE W(k) == job[k].waits
            P(k) == job[k].parents
<1>3. \A k \in Alive : job'[k].waits = job[k].waits /\ job'[k].parents = job[k].parents
  BY <1>1 DEF Going
<1>4. WaitsOK'
  BY <1>3 DEF Wired, WaitsOK, Going, Alive
<1>5. RootOK'
  BY <1>3 DEF Wired, RootOK, Going, Alive
<1>6. HandsOK'
  BY <1>3 DEF Wired, HandsOK, Going, Alive
<1>7. FromRoot'
  BY <1>3 DEF Wired, FromRoot, Going, Alive
<1>. QED
  BY <1>2, <1>4, <1>5, <1>6, <1>7 DEF Wired

LEMMA ForkingKeeps ==
  ASSUME TypeOK, Wired, NEW w, NEW J, Forking(w, J), exprs \subseteq exprs'
  PROVE  Wired'
<1>. DEFINE j == at[w]
<1>1. job[j].waits = {} /\ j \in Alive /\ j \in Jobs /\ stage \in 1..MaxStages
  BY StagesAssumption DEF Wired, HandsOK, Forking, TypeOK, Alive, MaxStages
<1>2. WaitsFor'
  <2>. SUFFICES ASSUME NEW p \in Alive', NEW c \in job'[p].waits
                PROVE  Awaits(p, job'[p], c, exprs', stage')
    BY DEF WaitsFor, Alive
  <2>1. CASE p # j
    <3>1. p \in Alive /\ job'[p] = job[p]
      BY <2>1 DEF Forking
    <3>2. Awaits(p, job[p], c, exprs, stage)
      BY <3>1 DEF Wired, WaitsFor
    <3>. QED
      BY <3>1, <3>2, AwaitsMore DEF Forking
  <2>2. CASE p = j
    BY <2>2 DEF Forking
  <2>. QED
    BY <2>1, <2>2
<1>3. /\ \A k \in Alive : job'[k].parents = job[k].parents
      /\ \A k \in Alive : k # j => job'[k].waits = job[k].waits
      /\ \A k \in Alive : j \notin job[k].parents
  <2>1. j # NoJob
    BY DEF Forking
  <2>. QED
    BY <1>1, <2>1 DEF Forking, Wired, WaitsOK
<1>4. WaitsOK'
  <2>1. ASSUME NEW p \in Alive, NEW c \in job'[p].waits
        PROVE  Child(c, p) \in scheduled' \/ (c \in Alive /\ p \in job'[c].parents)
    BY <1>1, <1>3, <2>1 DEF Wired, WaitsOK, Forking, Child
  <2>2. ASSUME NEW e \in scheduled', e.parent # NoJob
        PROVE  e.parent \in Alive /\ e.job \in job'[e.parent].waits
    <3>1. CASE e \in scheduled
      BY <1>1, <1>3, <2>2, <3>1 DEF Wired, WaitsOK
    <3>2. CASE e \notin scheduled
      <4>1. PICK c \in J.waits : e = Child(c, j)
        BY <3>2 DEF Forking
      <4>. QED
        BY <1>1, <4>1 DEF Child, Forking
    <3>. QED
      BY <3>1, <3>2
  <2>3. ASSUME NEW c \in Alive, NEW p \in job'[c].parents, p # NoJob
        PROVE  p \in Alive /\ c \in job'[p].waits /\ Child(c, p) \notin scheduled'
    <3>1. p \in Alive /\ c \in job[p].waits /\ Child(c, p) \notin scheduled /\ p # j
      BY <1>1, <1>3, <2>3 DEF Wired, WaitsOK
    <3>2. \A d : Child(c, p) # Child(d, j)
      BY <3>1 DEF Child
    <3>3. Child(c, p) \notin scheduled'
      BY <3>1, <3>2 DEF Forking
    <3>. QED
      BY <1>3, <3>1, <3>3
  <2>4. ASSUME NEW c \in Alive
        PROVE  job'[c].parents # {}
    BY <1>3 DEF Wired, WaitsOK
  <2>5. Alive' = Alive
    BY DEF Forking
  <2>. QED
    BY <2>1, <2>2, <2>3, <2>4, <2>5 DEF WaitsOK, Alive
<1>5. RootOK'
  <2>1. \A e \in scheduled : e.parent # NoJob
    BY <1>1 DEF Wired, RootOK
  <2>2. ASSUME NEW e \in scheduled' PROVE e.parent # NoJob
    BY <2>1 DEF Forking, Child
  <2>. QED
    BY <1>3, <2>2 DEF Wired, RootOK, Forking, Alive
<1>6. HandsOK'
  <2>1. \A v \in Workers : at'[v] # NoJob => v # w /\ at'[v] = at[v] /\ at[v] # j
    BY DEF Forking, Wired, HandsOK, TypeOK
  <2>2. ASSUME NEW v \in Workers, at'[v] # NoJob PROVE at'[v] \in Alive' /\ job'[at'[v]].waits = {}
    BY <2>1, <2>2 DEF Forking, Wired, HandsOK
  <2>3. ASSUME NEW u \in Workers, NEW v \in Workers, at'[u] = at'[v], at'[v] # NoJob
        PROVE  u = v
    BY <2>1, <2>3 DEF Wired, HandsOK
  <2>4. ASSUME NEW e \in scheduled', e.job.type \notin Queued, e.job \in Alive'
        PROVE  FALSE
    <3>1. e \notin scheduled /\ e.job \in Alive
      BY <2>4 DEF Wired, HandsOK, Forking
    <3>2. PICK c \in J.waits : e = Child(c, j)
      BY <3>1 DEF Forking
    <3>3. e.job = c
      BY <3>2 DEF Child
    <3>4. PICK p \in job[c].parents : TRUE
      BY <3>1, <3>3 DEF Wired, WaitsOK
    <3>5. p # NoJob
      BY <2>4, <3>1, <3>3, <3>4, JobNames DEF Wired, RootOK, Queued
    <3>6. p \in Alive /\ c \in job[p].waits /\ p # j
      BY <1>1, <3>1, <3>3, <3>4, <3>5 DEF Wired, WaitsOK
    <3>7. p \in Alive' /\ j \in Alive' /\ c \in job'[p].waits /\ c \in job'[j].waits
      BY <1>1, <1>3, <3>2, <3>6 DEF Forking
    <3>8. p \in Jobs
      BY <3>6 DEF TypeOK, Alive
    <3>9. Awaits(p, job'[p], c, exprs', stage') /\ Awaits(j, job'[j], c, exprs', stage')
      BY <1>2, <3>7 DEF WaitsFor, Alive
    <3>. QED
      BY <1>1, <2>4, <3>3, <3>6, <3>8, <3>9, OneAwaits DEF Forking
  <2>5. \A c \in completed' : c \notin Alive' /\ c.type \in Queued
    BY DEF Forking, Wired, HandsOK
  <2>6. stage' <= MaxStages
    BY <1>1, StagesAssumption DEF Forking, MaxStages
  <2>. QED
    BY <2>2, <2>3, <2>4, <2>5, <2>6 DEF HandsOK, Alive
<1>7. FromRoot'
  <2>. SUFFICES ASSUME NEW S \in SUBSET Alive', RootJob \in Alive' => RootJob \in S,
                       \A p \in S : job'[p].waits \intersect Alive' \subseteq S
                PROVE  S = Alive'
    BY DEF FromRoot, Alive
  <2>1. Alive' = Alive
    BY DEF Forking
  <2>2. \A p \in S : job[p].waits \intersect Alive \subseteq S
    BY <1>1, <1>3, <2>1
  <2>. QED
    BY <2>1, <2>2 DEF Wired, FromRoot
<1>. QED
  BY <1>2, <1>4, <1>5, <1>6, <1>7 DEF Wired

LEMMA StartingKeeps ==
  ASSUME TypeOK, Wired, NEW w, NEW e, Starting(w, e), exprs' = exprs
  PROVE  Wired'
<1>1. /\ e.job \in Jobs /\ e = Child(e.job, e.parent)
      /\ \A d \in scheduled : d = Child(d.job, d.parent)
      /\ stage \in 1..MaxStages
  BY StagesAssumption DEF Starting, TypeOK, Child, Wired, HandsOK, MaxStages
<1>2. WaitsFor'
  BY DEF Wired, WaitsFor, Starting, Alive
<1>3. WaitsOK'
  <2>1. ASSUME NEW p \in Alive', NEW c \in job'[p].waits
        PROVE  Child(c, p) \in scheduled' \/ (c \in Alive' /\ p \in job'[c].parents)
    <3>1. p \in Alive /\ c \in job[p].waits
      BY <2>1 DEF Starting
    <3>2. CASE Child(c, p) = e
      <4>1. c = e.job /\ p = e.parent
        BY <3>2 DEF Child
      <4>. QED
        BY <4>1 DEF Starting
    <3>3. CASE Child(c, p) # e
      BY <3>1, <3>3 DEF Wired, WaitsOK, Starting
    <3>. QED
      BY <3>2, <3>3
  <2>2. ASSUME NEW d \in scheduled', d.parent # NoJob
        PROVE  d.parent \in Alive' /\ d.job \in job'[d.parent].waits
    BY <2>2 DEF Wired, WaitsOK, Starting
  <2>3. ASSUME NEW c \in Alive', NEW p \in job'[c].parents, p # NoJob
        PROVE  p \in Alive' /\ c \in job'[p].waits /\ Child(c, p) \notin scheduled'
    <3>1. CASE c = e.job
      BY <1>1, <2>3, <3>1 DEF Wired, WaitsOK, Starting
    <3>2. CASE c # e.job
      BY <2>3, <3>2 DEF Wired, WaitsOK, Starting
    <3>. QED
      BY <3>1, <3>2
  <2>4. ASSUME NEW c \in Alive' PROVE job'[c].parents # {}
    BY DEF Wired, WaitsOK, Starting
  <2>. QED
    BY <2>1, <2>2, <2>3, <2>4 DEF WaitsOK, Alive
<1>4. RootOK'
  <2>1. ASSUME NEW d \in scheduled' PROVE d.parent # NoJob
    BY DEF Wired, RootOK, Starting
  <2>2. ASSUME NEW c \in Alive', NoJob \in job'[c].parents PROVE c = RootJob
    BY <2>2 DEF Wired, RootOK, Starting
  <2>. QED
    BY <2>1, <2>2 DEF RootOK, Alive
<1>5. HandsOK'
  <2>1. ASSUME NEW v \in Workers, at'[v] # NoJob
        PROVE  (v = w /\ at'[v] = e.job) \/ (v # w /\ at'[v] = at[v] /\ at[v] \in Alive)
    BY <2>1 DEF Starting, Wired, HandsOK, TypeOK
  <2>2. \A v \in Workers : at'[v] # NoJob => at'[v] \in Alive' /\ job'[at'[v]].waits = {}
    BY <2>1 DEF Starting, Wired, HandsOK
  <2>3. \A u, v \in Workers : at'[u] = at'[v] /\ at'[v] # NoJob => u = v
    BY <2>1 DEF Starting, Wired, HandsOK
  <2>4. ASSUME NEW d \in scheduled', d.job.type \notin Queued, d.job \in Alive'
        PROVE  FALSE
    <3>1. d \in scheduled /\ d # e /\ d.job \notin Alive /\ d.job = e.job
      BY <2>4 DEF Wired, HandsOK, Starting
    <3>2. d.parent # NoJob /\ e.parent # NoJob
      BY <2>4, <3>1, JobNames DEF Wired, RootOK, Queued, Starting
    <3>3. /\ d.parent \in Alive /\ e.parent \in Alive
          /\ e.job \in job[d.parent].waits /\ e.job \in job[e.parent].waits
      BY <3>1, <3>2 DEF Wired, WaitsOK, Starting
    <3>4. d.parent \in Jobs /\ e.parent \in Jobs
      BY <3>3 DEF TypeOK, Alive
    <3>5. d.parent = e.parent
      BY <1>1, <2>4, <3>1, <3>3, <3>4, OneAwaits DEF Wired, WaitsFor
    <3>. QED
      BY <1>1, <3>1, <3>5
  <2>5. /\ \A c \in completed' : c \notin Alive' /\ c.type \in Queued
        /\ stage' <= MaxStages
    BY DEF Starting, Wired, HandsOK
  <2>. QED
    BY <2>2, <2>3, <2>4, <2>5 DEF HandsOK, Alive
<1>6. FromRoot'
  <2>. SUFFICES ASSUME NEW S \in SUBSET Alive', RootJob \in Alive' => RootJob \in S,
                       \A p \in S : job'[p].waits \intersect Alive' \subseteq S
                PROVE  S = Alive'
    BY DEF FromRoot, Alive
  <2>1. CASE e.parent = NoJob
    BY <2>1 DEF Wired, RootOK, Starting
  <2>2. CASE e.parent # NoJob
    <3>1. S \ {e.job} \in SUBSET Alive /\ (RootJob \in Alive => RootJob \in S \ {e.job})
      BY DEF Starting
    <3>2. \A p \in S \ {e.job} : job[p].waits \intersect Alive \subseteq S \ {e.job}
      BY <3>1 DEF Starting
    <3>3. S \ {e.job} = Alive
      BY <3>1, <3>2 DEF Wired, FromRoot
    <3>4. e.parent \in S /\ e.parent \in Alive /\ e.job \in job[e.parent].waits
      BY <2>2, <3>3 DEF Wired, WaitsOK, Starting
    <3>5. e.job \in S
      BY <3>4 DEF Starting
    <3>. QED
      BY <3>3, <3>5 DEF Starting
  <2>. QED
    BY <2>1, <2>2
<1>. QED
  BY <1>2, <1>3, <1>4, <1>5, <1>6 DEF Wired

\* A job waits in the queue of another.
Queueing(e) ==
    /\ e \in scheduled /\ e.job.type \in Queued /\ e.job \in Alive
    /\ scheduled' = scheduled \ {e}
    /\ Alive' = Alive
    /\ \A k \in Alive : k # e.job => job'[k] = job[k]
    /\ job'[e.job] = [job[e.job] EXCEPT !.parents = @ \union {e.parent}]
    /\ UNCHANGED <<completed, at, stage>>

LEMMA QueueingKeeps ==
  ASSUME TypeOK, Wired, NEW e, Queueing(e), exprs' = exprs
  PROVE  Wired'
<1>1. /\ e.job \in Jobs /\ e = Child(e.job, e.parent)
      /\ e.parent # NoJob
      /\ \A k \in Alive : job[k] \in JobStates
  BY DEF Queueing, TypeOK, Child, Wired, RootOK, Alive
<1>2. /\ \A k \in Alive : job'[k].waits = job[k].waits
      /\ \A k \in Alive : job'[k].est = job[k].est /\ job'[k].child = job[k].child
      /\ \A k \in Alive : k # e.job => job'[k].parents = job[k].parents
      /\ job'[e.job].parents = job[e.job].parents \union {e.parent}
  BY <1>1 DEF Queueing, JobStates
<1>3. WaitsFor'
  <2>. SUFFICES ASSUME NEW p \in Alive', NEW c \in job'[p].waits
                PROVE  Awaits(p, job'[p], c, exprs', stage')
    BY DEF WaitsFor, Alive
  <2>1. Awaits(p, job[p], c, exprs, stage)
    BY <1>2 DEF Wired, WaitsFor, Queueing
  <2>2. job'[p].est = job[p].est /\ job'[p].child = job[p].child
    BY <1>2 DEF Queueing
  <2>. QED
    BY <2>1, <2>2 DEF Awaits, Queueing
<1>4. WaitsOK'
  <2>1. ASSUME NEW p \in Alive, NEW c \in job'[p].waits
        PROVE  Child(c, p) \in scheduled' \/ (c \in Alive /\ p \in job'[c].parents)
    <3>1. CASE Child(c, p) = e
      <4>1. c = e.job /\ p = e.parent
        BY <3>1 DEF Child
      <4>. QED
        BY <1>2, <4>1 DEF Queueing
    <3>2. CASE Child(c, p) # e
      BY <1>2, <3>2 DEF Wired, WaitsOK, Queueing
    <3>. QED
      BY <3>1, <3>2
  <2>2. ASSUME NEW d \in scheduled', d.parent # NoJob
        PROVE  d.parent \in Alive /\ d.job \in job'[d.parent].waits
    BY <1>2, <2>2 DEF Wired, WaitsOK, Queueing
  <2>3. ASSUME NEW c \in Alive, NEW p \in job'[c].parents, p # NoJob
        PROVE  p \in Alive /\ c \in job'[p].waits /\ Child(c, p) \notin scheduled'
    <3>1. CASE p \in job[c].parents
      BY <1>2, <2>3, <3>1 DEF Wired, WaitsOK, Queueing
    <3>2. CASE p \notin job[c].parents
      <4>1. c = e.job /\ p = e.parent
        BY <1>2, <2>3, <3>2
      <4>. QED
        BY <1>1, <1>2, <4>1 DEF Wired, WaitsOK, Queueing
    <3>. QED
      BY <3>1, <3>2
  <2>4. ASSUME NEW c \in Alive PROVE job'[c].parents # {}
    BY <1>2 DEF Wired, WaitsOK
  <2>. QED
    BY <2>1, <2>2, <2>3, <2>4 DEF WaitsOK, Alive, Queueing
<1>5. RootOK'
  BY <1>1, <1>2 DEF Wired, RootOK, Queueing, Alive
<1>6. HandsOK'
  BY <1>2 DEF Wired, HandsOK, Queueing, Alive
<1>7. FromRoot'
  BY <1>2 DEF Wired, FromRoot, Queueing, Alive
<1>. QED
  BY <1>3, <1>4, <1>5, <1>6, <1>7 DEF Wired

\* A job finds its queue completed.
Finding(e) ==
    /\ e \in scheduled /\ e.job \in completed
    /\ scheduled' = scheduled \ {e}
    /\ Alive' = Alive
    /\ \A k \in Alive : Otherwise(job, job', {e.parent}, e.job, k)
    /\ UNCHANGED <<completed, at, stage>>

LEMMA FindingKeeps ==
  ASSUME TypeOK, Wired, NEW e, Finding(e), exprs' = exprs
  PROVE  Wired'
<1>1. /\ e.job \in Jobs /\ e = Child(e.job, e.parent)
      /\ e.parent # NoJob /\ e.parent \in Alive /\ e.job \notin Alive
      /\ \A k \in Alive : job[k] \in JobStates
      /\ \A d \in scheduled : d = Child(d.job, d.parent)
  BY DEF Finding, TypeOK, Child, Wired, RootOK, HandsOK, WaitsOK, Alive
<1>2. /\ \A k \in Alive : job'[k].parents = job[k].parents
      /\ \A k \in Alive : job'[k].est = job[k].est /\ job'[k].child = job[k].child
      /\ \A k \in Alive : k # e.parent => job'[k].waits = job[k].waits
      /\ job'[e.parent].waits = job[e.parent].waits \ {e.job}
  BY <1>1 DEF Finding, JobStates, Otherwise
<1>3. WaitsFor'
  <2>. SUFFICES ASSUME NEW p \in Alive', NEW c \in job'[p].waits
                PROVE  Awaits(p, job'[p], c, exprs', stage')
    BY DEF WaitsFor, Alive
  <2>1. Awaits(p, job[p], c, exprs, stage)
    BY <1>2 DEF Wired, WaitsFor, Finding
  <2>2. job'[p].est = job[p].est /\ job'[p].child = job[p].child
    BY <1>2 DEF Finding
  <2>. QED
    BY <2>1, <2>2 DEF Awaits, Finding
<1>4. WaitsOK'
  <2>1. ASSUME NEW p \in Alive, NEW c \in job'[p].waits
        PROVE  Child(c, p) \in scheduled' \/ (c \in Alive /\ p \in job'[c].parents)
    <3>1. CASE Child(c, p) = e
      <4>1. c = e.job /\ p = e.parent
        BY <3>1 DEF Child
      <4>. QED
        BY <1>2, <2>1, <4>1
    <3>2. CASE Child(c, p) # e
      BY <1>2, <3>2 DEF Wired, WaitsOK, Finding
    <3>. QED
      BY <3>1, <3>2
  <2>2. ASSUME NEW d \in scheduled', d.parent # NoJob
        PROVE  d.parent \in Alive /\ d.job \in job'[d.parent].waits
    <3>1. d \in scheduled /\ d # e
      BY <2>2 DEF Finding
    <3>. QED
      BY <1>1, <1>2, <2>2, <3>1 DEF Wired, WaitsOK
  <2>3. ASSUME NEW c \in Alive, NEW p \in job'[c].parents, p # NoJob
        PROVE  p \in Alive /\ c \in job'[p].waits /\ Child(c, p) \notin scheduled'
    BY <1>1, <1>2, <2>3 DEF Wired, WaitsOK, Finding
  <2>4. ASSUME NEW c \in Alive PROVE job'[c].parents # {}
    BY <1>2 DEF Wired, WaitsOK
  <2>. QED
    BY <2>1, <2>2, <2>3, <2>4 DEF WaitsOK, Alive, Finding
<1>5. RootOK'
  BY <1>1, <1>2 DEF Wired, RootOK, Finding, Alive
<1>6. HandsOK'
  <2>1. \A v \in Workers : at[v] # NoJob => at[v] \in Alive /\ job'[at[v]].waits = {}
    BY <1>2 DEF Wired, HandsOK
  <2>. QED
    BY <2>1 DEF Wired, HandsOK, Finding, Alive
<1>7. FromRoot'
  <2>1. \A k \in Alive : job'[k].waits \intersect Alive = job[k].waits \intersect Alive
    BY <1>1, <1>2
  <2>. QED
    BY <2>1 DEF Wired, FromRoot, Finding, Alive
<1>. QED
  BY <1>3, <1>4, <1>5, <1>6, <1>7 DEF Wired

LEMMA EndingKeeps ==
  ASSUME TypeOK, Wired, NEW w, Ending(w), exprs' = exprs
  PROVE  Wired'
<1>. DEFINE j == at[w]
            P == job[j].parents
<1>1. /\ j \in Alive /\ job[j].waits = {} /\ j \in Jobs /\ j # NoJob
      /\ \A k \in Alive : job[k] \in JobStates
      /\ \A d \in scheduled : d = Child(d.job, d.parent)
  BY DEF Ending, TypeOK, Child, Wired, HandsOK, Alive
<1>2. /\ Alive' = Alive \ {j} /\ scheduled' = scheduled
      /\ \A k \in Alive' : job'[k].parents = job[k].parents
      /\ \A k \in Alive' : job'[k].est = job[k].est /\ job'[k].child = job[k].child
      /\ \A k \in Alive' : k \notin P => job'[k].waits = job[k].waits
      /\ \A k \in Alive' : k \in P => job'[k].waits = job[k].waits \ {j}
  BY <1>1 DEF Ending, JobStates, Otherwise
<1>3. /\ \A p \in P : p # NoJob => p \in Alive' /\ j \in job[p].waits
                                   /\ Child(j, p) \notin scheduled
      /\ \A c \in Alive : j \notin job[c].parents
      /\ \A d \in scheduled : d.parent # NoJob /\ d.parent \in Alive'
  BY <1>1, <1>2 DEF Wired, WaitsOK, RootOK
<1>4. WaitsFor'
  <2>. SUFFICES ASSUME NEW p \in Alive', NEW c \in job'[p].waits
                PROVE  Awaits(p, job'[p], c, exprs', stage')
    BY DEF WaitsFor, Alive
  <2>1. Awaits(p, job[p], c, exprs, stage)
    BY <1>2 DEF Wired, WaitsFor
  <2>2. job'[p].est = job[p].est /\ job'[p].child = job[p].child
    BY <1>2
  <2>. QED
    BY <2>1, <2>2 DEF Awaits, Ending
<1>5. WaitsOK'
  <2>1. ASSUME NEW p \in Alive', NEW c \in job'[p].waits
        PROVE  Child(c, p) \in scheduled' \/ (c \in Alive' /\ p \in job'[c].parents)
    <3>1. p \in Alive /\ c \in job[p].waits
      BY <1>2, <2>1
    <3>2. CASE c = j
      BY <1>2, <2>1, <3>1, <3>2 DEF Wired, WaitsOK
    <3>3. CASE c # j
      BY <1>2, <3>1, <3>3 DEF Wired, WaitsOK
    <3>. QED
      BY <3>2, <3>3
  <2>2. ASSUME NEW d \in scheduled', d.parent # NoJob
        PROVE  d.parent \in Alive' /\ d.job \in job'[d.parent].waits
    <3>1. d \in scheduled /\ d.parent \in Alive' /\ d.job \in job[d.parent].waits
      BY <1>2, <1>3, <2>2 DEF Wired, WaitsOK
    <3>2. CASE d.job = j
      BY <1>1, <1>2, <1>3, <2>2, <3>1, <3>2
    <3>3. CASE d.job # j
      BY <1>2, <3>1, <3>3
    <3>. QED
      BY <3>2, <3>3
  <2>3. ASSUME NEW c \in Alive', NEW p \in job'[c].parents, p # NoJob
        PROVE  p \in Alive' /\ c \in job'[p].waits /\ Child(c, p) \notin scheduled'
    <3>1. p \in Alive /\ c \in job[p].waits /\ Child(c, p) \notin scheduled
      BY <1>2, <2>3 DEF Wired, WaitsOK
    <3>2. p # j /\ c # j
      BY <1>1, <1>2, <3>1
    <3>. QED
      BY <1>2, <3>1, <3>2
  <2>4. ASSUME NEW c \in Alive' PROVE job'[c].parents # {}
    BY <1>2 DEF Wired, WaitsOK
  <2>. QED
    BY <2>1, <2>2, <2>3, <2>4 DEF WaitsOK, Alive
<1>6. RootOK'
  <2>1. \A c \in Alive' : NoJob \in job'[c].parents => c = RootJob
    BY <1>2 DEF Wired, RootOK
  <2>. QED
    BY <1>2, <1>3, <2>1 DEF RootOK, Alive
<1>7. HandsOK'
  <2>1. ASSUME NEW v \in Workers, at'[v] # NoJob
        PROVE  v # w /\ at'[v] = at[v] /\ at[v] \in Alive' /\ job'[at[v]].waits = {}
    <3>1. v # w /\ at'[v] = at[v]
      BY <2>1 DEF Ending, TypeOK
    <3>2. at[v] # j /\ at[v] \in Alive /\ job[at[v]].waits = {}
      BY <2>1, <3>1 DEF Ending, Wired, HandsOK
    <3>. QED
      BY <1>2, <3>1, <3>2
  <2>2. \A u, v \in Workers : at'[u] = at'[v] /\ at'[v] # NoJob => u = v
    BY <2>1 DEF Wired, HandsOK
  <2>3. \A c \in completed' : c \notin Alive' /\ c.type \in Queued
    BY <1>2 DEF Wired, HandsOK, Ending
  <2>4. /\ \A d \in scheduled' : d.job.type \notin Queued => d.job \notin Alive'
        /\ Alive' \union scheduled' # {} => stage' <= MaxStages
    BY <1>2 DEF Wired, HandsOK, Ending
  <2>. QED
    BY <2>1, <2>2, <2>3, <2>4 DEF HandsOK, Alive
<1>8. FromRoot'
  <2>. SUFFICES ASSUME NEW S \in SUBSET Alive', RootJob \in Alive' => RootJob \in S,
                       \A p \in S : job'[p].waits \intersect Alive' \subseteq S
                PROVE  S = Alive'
    BY DEF FromRoot, Alive
  <2>1. \A p \in S \union {j} : job[p].waits \intersect Alive \subseteq S \union {j}
    BY <1>1, <1>2
  <2>2. RootJob \in Alive => RootJob \in S \union {j}
    BY <1>2
  <2>3. S \union {j} \in SUBSET Alive
    BY <1>1, <1>2
  <2>4. S \union {j} = Alive
    BY <2>1, <2>2, <2>3 DEF Wired, FromRoot
  <2>. QED
    BY <1>1, <1>2, <2>4
<1>. QED
  BY <1>4, <1>5, <1>6, <1>7, <1>8 DEF Wired

\* A worker picks up a job.
LEMMA ResumingKeeps ==
  ASSUME TypeOK, Wired, NEW w \in Workers, NEW j, Resume(w, j)
  PROVE  Wired'
<1>1. /\ j \in Alive /\ job[j].waits = {} /\ \A v \in Workers : at[v] # j
      /\ at' = [at EXCEPT ![w] = j]
      /\ UNCHANGED <<exprs, scheduled, job, completed, stage>> /\ Alive' = Alive
  BY DEF Resume, memo, Held, Alive
<1>2. WaitsFor' /\ WaitsOK' /\ FromRoot'
  BY <1>1 DEF Wired, WaitsFor, WaitsOK, FromRoot
<1>3. RootOK'
  BY <1>1 DEF Wired, RootOK
<1>4. HandsOK'
  <2>1. ASSUME NEW v \in Workers, at'[v] # NoJob
        PROVE  (v = w /\ at'[v] = j) \/ (v # w /\ at'[v] = at[v])
    BY <1>1, <2>1 DEF TypeOK
  <2>. QED
    BY <1>1, <2>1 DEF Wired, HandsOK
<1>. QED
  BY <1>2, <1>3, <1>4 DEF Wired

LEMMA SameKeeps ==
  ASSUME Wired, UNCHANGED <<exprs, scheduled, job, completed, at, stage>>
  PROVE  Wired'
<1>1. Alive' = Alive
  BY DEF Alive
<1>. QED
  BY <1>1 DEF Wired, WaitsFor, WaitsOK, RootOK, HandsOK, FromRoot

LEMMA NextStageKeeps ==
  ASSUME TypeOK, Wired, FinalizeSearchStage
  PROVE  Wired'
<1>1. /\ scheduled = {} /\ Alive = {} /\ completed' = {} /\ Alive' = {}
      /\ \A w \in Workers : at'[w] = NoJob
      /\ scheduled' = {} \/ (scheduled' = {Child(RootJob, NoJob)} /\ ~FSearchTerminated')
  BY DEF FinalizeSearchStage, Idle, Free, Alive, ResetGroupStates
<1>2. WaitsFor' /\ FromRoot'
  BY <1>1 DEF WaitsFor, FromRoot, Alive
<1>3. WaitsOK' /\ RootOK'
  BY <1>1 DEF WaitsOK, RootOK, Child, Alive
<1>4. HandsOK'
  <2>1. scheduled' # {} => stage' <= MaxStages
    <3>1. stage \in Nat /\ stage' = stage + 1 /\ MaxStages \in Nat
      BY StagesAssumption DEF TypeOK, FinalizeSearchStage, MaxStages
    <3>2. scheduled' # {} => ~(stage' > MaxStages)
      BY <1>1 DEF FSearchTerminated
    <3>. QED
      BY <3>1, <3>2
  <2>. QED
    BY <1>1, <2>1, JobNames DEF HandsOK, Child, Alive, Queued
<1>. QED
  BY <1>2, <1>3, <1>4 DEF Wired

LEMMA WiredFirst ==
  ASSUME Init
  PROVE  Wired
<1>1. /\ scheduled = {Child(RootJob, NoJob)} /\ Alive = {} /\ completed = {}
      /\ \A w \in Workers : at[w] = NoJob
  BY DEF Init, Alive, Child
<1>2. WaitsFor /\ FromRoot /\ WaitsOK /\ RootOK
  BY <1>1 DEF WaitsFor, FromRoot, WaitsOK, RootOK, Child
<1>3. stage <= MaxStages
  BY StagesAssumption DEF Init, MaxStages
<1>4. HandsOK
  BY <1>1, <1>3, JobNames DEF HandsOK, Child, Queued
<1>. QED
  BY <1>2, <1>4 DEF Wired

-----------------------------------------------------------------------------
(* Types, and what each action does to the jobs                            *)

Ests == {"initialized", "children", "merging", "damp", "optimized", "self", "update", "done"}

JobsTyped ==
    /\ scheduled \subseteq [job : Jobs, parent : Jobs \union {NoJob}]
    /\ Alive \subseteq Jobs /\ job \in [Alive -> JobStates]
    /\ completed \subseteq Jobs
    /\ at \in [Workers -> Jobs \union {NoJob}]
    /\ stage \in 1..(MaxStages + 1)

MemoTyped ==
    /\ exprs \subseteq Exprs
    /\ gest \in [Groups -> GroupStates] /\ xest \in [Logical -> GroupStates]
    /\ best \in [Contexts -> Nat] /\ past \in [Contexts -> Nat]
    /\ DOMAIN offered \subseteq Contexts
    /\ offered \in [DOMAIN offered -> SUBSET Exprs]
    /\ timedOut \in BOOLEAN
    /\ overlapped \subseteq Contexts

LEMMA TypesSplit == TypeOK <=> JobsTyped /\ MemoTyped
BY DEF TypeOK, JobsTyped, MemoTyped, Alive

LEMMA TypesSplitNext == TypeOK' <=> JobsTyped' /\ MemoTyped'
BY DEF TypeOK, JobsTyped, MemoTyped, Alive

\* What is known of the job a worker runs.
LEMMA InHand ==
  ASSUME TypeOK, HandsOK, NEW w \in Workers, at[w] # NoJob
  PROVE  /\ at[w] \in Alive /\ at[w] \in Jobs /\ job[at[w]] \in JobStates
         /\ job[at[w]].waits = {} /\ at[w] \notin completed
         /\ stage \in 1..MaxStages
BY StagesAssumption DEF TypeOK, HandsOK, Alive, MaxStages

LEMMA ChangeDoes ==
  ASSUME TypeOK, HandsOK, NEW w \in Workers, at[w] # NoJob, NEW J \in JobStates,
         job' = [job EXCEPT ![at[w]] = J],
         J.waits = job[at[w]].waits, J.parents = job[at[w]].parents,
         UNCHANGED <<scheduled, completed, at, stage>>
  PROVE  Going(w, J) /\ JobsTyped'
<1>1. at[w] \in Alive /\ job \in [Alive -> JobStates] /\ Alive \subseteq Jobs
  BY InHand DEF TypeOK, Alive
<1>2. Alive' = Alive /\ job' \in [Alive -> JobStates]
  BY <1>1 DEF Alive
<1>3. Going(w, J)
  BY <1>1, <1>2 DEF Going, Alive
<1>. QED
  BY <1>1, <1>2, <1>3 DEF JobsTyped, TypeOK, Alive

LEMMA AdvanceDoes ==
  ASSUME TypeOK, HandsOK, NEW w \in Workers, at[w] # NoJob, NEW est \in Ests,
         Advance(at[w], est), UNCHANGED <<completed, stage>>
  PROVE  Going(w, [job[at[w]] EXCEPT !.est = est]) /\ JobsTyped'
<1>1. job[at[w]] \in JobStates
  BY InHand
<1>. DEFINE J == [job[at[w]] EXCEPT !.est = est]
<1>2. J \in JobStates /\ J.waits = job[at[w]].waits /\ J.parents = job[at[w]].parents
  BY <1>1 DEF JobStates, Ests
<1>3. job' = [job EXCEPT ![at[w]] = J]
  BY DEF Advance
<1>4. UNCHANGED <<scheduled, completed, at, stage>>
  BY DEF Advance
<1>. HIDE DEF J
<1>5. Going(w, J) /\ JobsTyped'
  BY <1>2, <1>3, <1>4, ChangeDoes
<1>. QED
  BY <1>5 DEF J

LEMMA ScheduleDoes ==
  ASSUME TypeOK, HandsOK, NEW w \in Workers, at[w] # NoJob, NEW kids \in SUBSET Jobs,
         NEW new \in JobStates, new.parents = job[at[w]].parents,
         Schedule(w, at[w], kids, new), UNCHANGED <<completed, stage>>,
         \A c \in kids : Awaits(at[w], new, c, exprs', stage)
  PROVE  Forking(w, [new EXCEPT !.waits = kids]) /\ JobsTyped'
<1>. DEFINE J == [new EXCEPT !.waits = kids]
<1>1. at[w] \in Alive /\ job \in [Alive -> JobStates] /\ Alive \subseteq Jobs
  BY InHand DEF TypeOK, Alive
<1>2. /\ J \in JobStates /\ J.waits = kids /\ J.parents = job[at[w]].parents
      /\ J.est = new.est /\ J.child = new.child
  BY DEF JobStates
<1>3. /\ job' = [job EXCEPT ![at[w]] = J]
      /\ scheduled' = scheduled \union {Child(c, at[w]) : c \in kids}
      /\ at' = [at EXCEPT ![w] = NoJob]
  BY DEF Schedule
<1>. HIDE DEF J
<1>4. Alive' = Alive /\ job' \in [Alive -> JobStates]
  BY <1>1, <1>2, <1>3 DEF Alive
<1>5. \A c \in kids : Awaits(at[w], J, c, exprs', stage)
  BY <1>2 DEF Awaits
<1>6. Forking(w, J)
  BY <1>1, <1>2, <1>3, <1>4, <1>5 DEF Forking, Alive
<1>7. JobsTyped'
  <2>1. scheduled' \subseteq [job : Jobs, parent : Jobs \union {NoJob}]
    BY <1>1, <1>3 DEF TypeOK, Child
  <2>2. at' \in [Workers -> Jobs \union {NoJob}]
    BY <1>3 DEF TypeOK
  <2>. QED
    BY <1>1, <1>4, <2>1, <2>2 DEF JobsTyped, TypeOK, Alive
<1>. QED
  BY <1>6, <1>7 DEF J

LEMMA RetrieveDoes ==
  ASSUME TypeOK, HandsOK, NEW w \in Workers, NEW e \in scheduled, Retrieve(w, e)
  PROVE  /\ Starting(w, e) /\ JobsTyped'
         /\ job'[e.job] \in JobStates
         /\ job'[e.job].est = "initialized" /\ job'[e.job].eol = "low"
         /\ job'[e.job].seen = {} /\ job'[e.job].child = 1
         /\ job'[e.job].origin = IF e.parent # NoJob
                                    /\ e.parent.type = "GroupExpressionOptimization"
                                 THEN e.parent.on ELSE NoExpr
<1>. DEFINE J == [est |-> "initialized", waits |-> {}, parents |-> {e.parent},
                  origin |-> IF e.parent # NoJob
                                /\ e.parent.type = "GroupExpressionOptimization"
                             THEN e.parent.on ELSE NoExpr,
                  eol |-> "low", seen |-> {}, child |-> 1,
                  cost |-> Infinity, read |-> Infinity]
<1>1. e.job \in Jobs /\ e.parent \in Jobs \union {NoJob} /\ Infinity \in Nat
  BY CostsAssumption DEF TypeOK
<1>2. J \in JobStates
  <2>1. e.parent # NoJob /\ e.parent.type = "GroupExpressionOptimization" =>
            e.parent.on \in Exprs
    BY <1>1, JobShape
  <2>. QED
    BY <1>1, <2>1 DEF JobStates
<1>3. /\ job' = [j \in Alive \union {e.job} |-> IF j # e.job THEN job[j] ELSE J]
      /\ at' = [at EXCEPT ![w] = e.job] /\ scheduled' = scheduled \ {e}
      /\ at[w] = NoJob /\ e.job \notin completed /\ e.job \notin Alive
      /\ UNCHANGED <<completed, stage>>
  BY DEF Retrieve, Alive, Free, NewJob
<1>4. job \in [Alive -> JobStates] /\ Alive \subseteq Jobs
  BY DEF TypeOK, Alive
<1>. HIDE DEF J
<1>5. Alive' = Alive \union {e.job} /\ job' \in [Alive' -> JobStates]
  BY <1>2, <1>3, <1>4 DEF Alive
<1>6. job'[e.job] = J /\ \A k \in Alive : job'[k] = job[k]
  BY <1>3
<1>7. J.waits = {} /\ J.parents = {e.parent}
  BY DEF J
<1>8. Starting(w, e)
  BY <1>3, <1>5, <1>6, <1>7 DEF Starting
<1>9. JobsTyped'
  BY <1>1, <1>3, <1>4, <1>5 DEF JobsTyped, TypeOK
<1>. QED
  BY <1>2, <1>6, <1>8, <1>9 DEF J

LEMMA QueueDoes ==
  ASSUME TypeOK, HandsOK, NEW w \in Workers, NEW e \in scheduled, Queue(w, e)
  PROVE  Queueing(e) /\ JobsTyped'
<1>. DEFINE J == [job[e.job] EXCEPT !.parents = @ \union {e.parent}]
<1>1. /\ e.job \in Jobs /\ e.parent \in Jobs \union {NoJob} /\ e.job \in Alive
      /\ job[e.job] \in JobStates /\ job \in [Alive -> JobStates] /\ Alive \subseteq Jobs
  BY DEF TypeOK, Queue, Alive
<1>2. J \in JobStates
  BY <1>1 DEF JobStates
<1>3. job' = [job EXCEPT ![e.job] = J] /\ scheduled' = scheduled \ {e}
      /\ UNCHANGED <<completed, at, stage>> /\ e.job.type \in Queued
  BY DEF Queue
<1>. HIDE DEF J
<1>4. Alive' = Alive /\ job' \in [Alive -> JobStates] /\ job'[e.job] = J
      /\ \A k \in Alive : k # e.job => job'[k] = job[k]
  BY <1>1, <1>2, <1>3 DEF Alive
<1>5. Queueing(e)
  BY <1>1, <1>3, <1>4 DEF Queueing, J
<1>. QED
  BY <1>1, <1>3, <1>4, <1>5 DEF JobsTyped, TypeOK

\* What the end of a child does to the jobs.
LEMMA ResumedDoes ==
  ASSUME NEW S \in SUBSET Jobs, NEW J \in [S -> JobStates], NEW parents, NEW c
  PROVE  /\ Resumed(J, parents, c) \in [S -> JobStates]
         /\ \A k \in S : Otherwise(J, Resumed(J, parents, c), parents, c, k)
<1>1. DOMAIN J = S /\ \A k \in S : J[k] \in JobStates
  OBVIOUS
<1>2. Resumed(J, parents, c) =
        [k \in S |-> IF k \in parents THEN [J[k] EXCEPT !.waits = @ \ {c}] ELSE J[k]]
  BY <1>1 DEF Resumed
<1>3. \A k \in S : [J[k] EXCEPT !.waits = @ \ {c}] \in JobStates
  BY <1>1 DEF JobStates
<1>. QED
  BY <1>1, <1>2, <1>3 DEF Otherwise

LEMMA FindDoes ==
  ASSUME TypeOK, HandsOK, NEW w \in Workers, NEW e \in scheduled, FindCompleted(w, e)
  PROVE  Finding(e) /\ JobsTyped'
<1>1. job \in [Alive -> JobStates] /\ Alive \subseteq Jobs
  BY DEF TypeOK, Alive
<1>2. /\ job' = Resumed(job, {e.parent}, e.job) /\ scheduled' = scheduled \ {e}
      /\ e.job \in completed /\ UNCHANGED <<completed, at, stage>>
  BY DEF FindCompleted
<1>3. /\ job' \in [Alive -> JobStates]
      /\ \A k \in Alive : Otherwise(job, job', {e.parent}, e.job, k)
  BY <1>1, <1>2, ResumedDoes
<1>4. Alive' = Alive
  BY <1>3 DEF Alive
<1>. QED
  BY <1>1, <1>2, <1>3, <1>4 DEF Finding, JobsTyped, TypeOK

LEMMA CompleteDoes ==
  ASSUME TypeOK, HandsOK, NEW w \in Workers, Complete(w)
  PROVE  Ending(w) /\ JobsTyped' /\ job[at[w]].est = "done"
<1>. DEFINE j == at[w]
            J == [k \in Alive \ {j} |-> job[k]]
<1>1. /\ at[w] # NoJob /\ job[j].est = "done"
      /\ completed' = IF j.type \in Queued THEN completed \union {j} ELSE completed
      /\ job' = Resumed(J, job[j].parents, j)
      /\ at' = [at EXCEPT ![w] = NoJob]
      /\ UNCHANGED <<scheduled, stage>>
  BY DEF Complete, Working, Alive
<1>2. j \in Alive /\ job \in [Alive -> JobStates] /\ Alive \subseteq Jobs
  BY <1>1, InHand DEF TypeOK, Alive
<1>3. J \in [Alive \ {j} -> JobStates] /\ \A k \in Alive \ {j} : J[k] = job[k]
  BY <1>2
<1>. HIDE DEF J
<1>4. /\ job' \in [Alive \ {j} -> JobStates]
      /\ \A k \in Alive \ {j} : Otherwise(J, job', job[j].parents, j, k)
  BY <1>1, <1>2, <1>3, ResumedDoes
<1>5. Alive' = Alive \ {j}
  BY <1>4 DEF Alive
<1>6. \A k \in Alive \ {j} : Otherwise(job, job', job[j].parents, j, k)
  BY <1>3, <1>4 DEF Otherwise
<1>7. Ending(w)
  BY <1>1, <1>5, <1>6 DEF Ending
<1>. QED
  BY <1>1, <1>2, <1>4, <1>5, <1>7 DEF JobsTyped, TypeOK

\* What is in the hands of a worker in an action of a job's state machine.
LEMMA InDoes ==
  ASSUME TypeOK, HandsOK, NEW w \in Workers, NEW type, NEW est, In(w, type, est)
  PROVE  /\ at[w] # NoJob /\ at[w].type = type /\ job[at[w]].est = est
         /\ at[w] \in Alive /\ at[w] \in Jobs /\ job[at[w]] \in JobStates
         /\ job[at[w]].waits = {} /\ at[w] \notin completed
         /\ stage \in 1..MaxStages
<1>1. at[w] # NoJob
  BY DEF In, Working
<1>. QED
  BY <1>1, InHand DEF In

LEMMA StartExplorationDoes ==
  ASSUME TypeOK, HandsOK, NEW w \in Workers, EevtStartExploration(w)
  PROVE  /\ Going(w, [job[at[w]] EXCEPT !.est = "children"])
         /\ JobsTyped' /\ MemoTyped'
<1>1. In(w, "GroupExploration", "initialized")
  BY DEF EevtStartExploration, Runs
<1>2. at[w] # NoJob
  BY <1>1, InDoes
<1>3. Advance(at[w], "children") /\ UNCHANGED <<completed, stage>>
  BY DEF EevtStartExploration, Unchanging
<1>4. Going(w, [job[at[w]] EXCEPT !.est = "children"]) /\ JobsTyped'
  BY <1>2, <1>3, AdvanceDoes DEF Ests
<1>5. MemoTyped'
  BY DEF EevtStartExploration, Unchanging, TypeOK, MemoTyped, GroupStates
<1>. QED
  BY <1>4, <1>5

PassKids(type, X, for) == {ExprJob(type, x, for) : x \in X}

LEMMA ExploreChildrenDoes ==
  ASSUME TypeOK, HandsOK, NEW w \in Workers, EevtExploreChildren(w)
  PROVE  LET new == Unexplored(at[w].on)
             kids == PassKids("GroupExpressionExploration", new, "-")
         IN  /\ \/ /\ new # {} /\ UNCHANGED gest
                   /\ Forking(w, [[job[at[w]] EXCEPT !.seen = @ \union new] EXCEPT !.waits = kids])
                \/ /\ new = {} /\ gest' = [gest EXCEPT ![at[w].on] = "explored"]
                   /\ Going(w, [job[at[w]] EXCEPT
                                  !.est = IF at[w].on = Root THEN "merging" ELSE "done"])
             /\ JobsTyped' /\ MemoTyped'
<1>. DEFINE g == at[w].on
            new == Unexplored(g)
            kids == PassKids("GroupExpressionExploration", new, "-")
            J == [job[at[w]] EXCEPT !.seen = @ \union new]
<1>1. In(w, "GroupExploration", "children")
  BY DEF EevtExploreChildren, Runs
<1>2. /\ at[w] # NoJob /\ at[w].type = "GroupExploration" /\ job[at[w]].est = "children"
      /\ at[w] \in Jobs /\ job[at[w]] \in JobStates
  BY <1>1, InDoes
<1>3. /\ UNCHANGED <<completed, stage, exprs, xest, best, past, offered, overlapped, timedOut>>
      /\ \/ /\ new # {} /\ UNCHANGED gest
            /\ Schedule(w, at[w], kids, J)
         \/ /\ new = {} /\ gest' = [gest EXCEPT ![g] = "explored"]
            /\ Advance(at[w], IF g = Root THEN "merging" ELSE "done")
  BY DEF EevtExploreChildren, Unchanging, Pending, PassKids
<1>4. new \subseteq Logical /\ new \subseteq LogicalOf(exprs, g) /\ new \subseteq Exprs
  BY DEF Unexplored, LogicalIn, LogicalOf, TypeOK
<1>5. MemoTyped'
  BY <1>3 DEF TypeOK, MemoTyped, GroupStates
<1>6. CASE new # {}
  <2>1. kids \in SUBSET Jobs
    BY <1>4, JobsMade DEF PassKids, PhaseTypes
  <2>2. J \in JobStates /\ J.parents = job[at[w]].parents /\ J.est = "children"
    BY <1>2, <1>4 DEF JobStates
  <2>3. \A c \in kids : Awaits(at[w], J, c, exprs', stage)
    BY <1>2, <1>3, <1>4, <2>2 DEF PassKids, Awaits
  <2>4. Schedule(w, at[w], kids, J)
    BY <1>3, <1>6
  <2>. HIDE DEF J, kids, new
  <2>5. Forking(w, [J EXCEPT !.waits = kids]) /\ JobsTyped'
    BY <1>2, <1>3, <2>1, <2>2, <2>3, <2>4, ScheduleDoes
  <2>. QED
    BY <1>3, <1>5, <1>6, <2>5 DEF J, kids, new
<1>7. CASE new = {}
  <2>1. (IF g = Root THEN "merging" ELSE "done") \in Ests
    BY DEF Ests
  <2>. QED
    BY <1>2, <1>3, <1>5, <1>7, <2>1, AdvanceDoes
<1>. QED
  BY <1>6, <1>7

LEMMA FinalizeExplorationDoes ==
  ASSUME TypeOK, HandsOK, NEW w \in Workers, FinalizeExploration(w)
  PROVE  /\ Going(w, [job[at[w]] EXCEPT !.est = "done"])
         /\ JobsTyped' /\ MemoTyped'
<1>1. In(w, "GroupExploration", "merging")
  BY DEF FinalizeExploration
<1>2. at[w] # NoJob
  BY <1>1, InDoes
<1>3. Advance(at[w], "done") /\ UNCHANGED <<completed, stage>>
  BY DEF FinalizeExploration, Unchanging
<1>4. Going(w, [job[at[w]] EXCEPT !.est = "done"]) /\ JobsTyped'
  BY <1>2, <1>3, AdvanceDoes DEF Ests
<1>5. MemoTyped'
  BY DEF FinalizeExploration, Unchanging, TypeOK, MemoTyped
<1>. QED
  BY <1>4, <1>5

LEMMA StartImplementationDoes ==
  ASSUME TypeOK, HandsOK, NEW w \in Workers, EevtStartImplementation(w)
  PROVE  LET g == at[w].on
         IN  /\ \/ /\ gest[g] \notin Explored /\ UNCHANGED gest
                   /\ Forking(w, [job[at[w]] EXCEPT !.waits = {Exploration(g)}])
                \/ /\ gest[g] \in Explored
                   /\ gest' = [gest EXCEPT ![g] = "implementing"]
                   /\ Going(w, [job[at[w]] EXCEPT !.est = "children"])
             /\ JobsTyped' /\ MemoTyped'
<1>. DEFINE g == at[w].on
<1>1. In(w, "GroupImplementation", "initialized")
  BY DEF EevtStartImplementation, Runs
<1>2. /\ at[w] # NoJob /\ at[w].type = "GroupImplementation" /\ job[at[w]].est = "initialized"
      /\ at[w] \in Jobs /\ job[at[w]] \in JobStates
  BY <1>1, InDoes
<1>3. /\ UNCHANGED <<completed, stage, exprs, xest, best, past, offered, overlapped, timedOut>>
      /\ \/ /\ gest[g] \notin Explored /\ UNCHANGED gest
            /\ Schedule(w, at[w], {Exploration(g)}, job[at[w]])
         \/ /\ gest[g] \in Explored /\ gest' = [gest EXCEPT ![g] = "implementing"]
            /\ job' = [job EXCEPT ![at[w]].est = "children"]
            /\ UNCHANGED <<scheduled, at>>
  BY DEF EevtStartImplementation, Unchanging
<1>4. MemoTyped'
  BY <1>3 DEF TypeOK, MemoTyped, GroupStates
<1>5. CASE gest[g] \notin Explored
  <2>1. {Exploration(g)} \in SUBSET Jobs
    BY <1>2, JobsMade, JobShape
  <2>2. \A c \in {Exploration(g)} : Awaits(at[w], job[at[w]], c, exprs', stage)
    BY <1>2 DEF Awaits
  <2>3. Schedule(w, at[w], {Exploration(g)}, job[at[w]])
    BY <1>3, <1>5
  <2>4. Forking(w, [job[at[w]] EXCEPT !.waits = {Exploration(g)}]) /\ JobsTyped'
    BY <1>2, <1>3, <2>1, <2>2, <2>3, ScheduleDoes
  <2>. QED
    BY <1>3, <1>4, <1>5, <2>4
<1>6. CASE gest[g] \in Explored
  <2>. DEFINE J == [job[at[w]] EXCEPT !.est = "children"]
  <2>1. J \in JobStates /\ J.waits = job[at[w]].waits /\ J.parents = job[at[w]].parents
    BY <1>2 DEF JobStates
  <2>2. job' = [job EXCEPT ![at[w]] = J]
    BY <1>3, <1>6
  <2>. HIDE DEF J
  <2>3. Going(w, J) /\ JobsTyped'
    BY <1>2, <1>3, <1>6, <2>1, <2>2, ChangeDoes
  <2>. QED
    BY <1>3, <1>4, <1>6, <2>3 DEF J
<1>. QED
  BY <1>5, <1>6

LEMMA ImplementChildrenDoes ==
  ASSUME TypeOK, HandsOK, NEW w \in Workers, EevtImplementChildren(w)
  PROVE  LET new == Unimplemented(at[w].on)
             kids == PassKids("GroupExpressionImplementation", new, "-")
         IN  /\ \/ /\ new # {} /\ UNCHANGED gest
                   /\ Forking(w, [[job[at[w]] EXCEPT !.seen = @ \union new] EXCEPT !.waits = kids])
                \/ /\ new = {} /\ gest' = [gest EXCEPT ![at[w].on] = "implemented"]
                   /\ Going(w, [job[at[w]] EXCEPT !.est = "done"])
             /\ JobsTyped' /\ MemoTyped'
<1>. DEFINE g == at[w].on
            new == Unimplemented(g)
            kids == PassKids("GroupExpressionImplementation", new, "-")
            J == [job[at[w]] EXCEPT !.seen = @ \union new]
<1>1. In(w, "GroupImplementation", "children")
  BY DEF EevtImplementChildren, Runs
<1>2. /\ at[w] # NoJob /\ at[w].type = "GroupImplementation" /\ job[at[w]].est = "children"
      /\ at[w] \in Jobs /\ job[at[w]] \in JobStates
  BY <1>1, InDoes
<1>3. /\ UNCHANGED <<completed, stage, exprs, xest, best, past, offered, overlapped, timedOut>>
      /\ \/ /\ new # {} /\ UNCHANGED gest
            /\ Schedule(w, at[w], kids, J)
         \/ /\ new = {} /\ gest' = [gest EXCEPT ![g] = "implemented"]
            /\ Advance(at[w], "done")
  BY DEF EevtImplementChildren, Unchanging, Pending, PassKids
<1>4. new \subseteq Logical /\ new \subseteq LogicalOf(exprs, g) /\ new \subseteq Exprs
  BY DEF Unimplemented, LogicalIn, LogicalOf, TypeOK
<1>5. MemoTyped'
  BY <1>3 DEF TypeOK, MemoTyped, GroupStates
<1>6. CASE new # {}
  <2>1. kids \in SUBSET Jobs
    BY <1>4, JobsMade DEF PassKids, PhaseTypes
  <2>2. J \in JobStates /\ J.parents = job[at[w]].parents /\ J.est = "children"
    BY <1>2, <1>4 DEF JobStates
  <2>3. \A c \in kids : Awaits(at[w], J, c, exprs', stage)
    BY <1>2, <1>3, <1>4, <2>2 DEF PassKids, Awaits
  <2>4. Schedule(w, at[w], kids, J)
    BY <1>3, <1>6
  <2>. HIDE DEF J, kids, new
  <2>5. Forking(w, [J EXCEPT !.waits = kids]) /\ JobsTyped'
    BY <1>2, <1>3, <2>1, <2>2, <2>3, <2>4, ScheduleDoes
  <2>. QED
    BY <1>3, <1>5, <1>6, <2>5 DEF J, kids, new
<1>7. CASE new = {}
  <2>1. "done" \in Ests
    BY DEF Ests
  <2>. QED
    BY <1>2, <1>3, <1>5, <1>7, <2>1, AdvanceDoes
<1>. QED
  BY <1>6, <1>7

LEMMA PhaseIn ==
  ASSUME TypeOK, HandsOK, NEW w \in Workers, NEW est, PhaseJob(w, est)
  PROVE  /\ at[w] # NoJob /\ at[w].type \in PhaseTypes /\ job[at[w]].est = est
         /\ at[w] \in Alive /\ at[w] \in Jobs /\ job[at[w]] \in JobStates
         /\ at[w].on \in Logical
         /\ stage \in 1..MaxStages /\ ~timedOut
<1>1. PICK type \in PhaseTypes : In(w, type, est) /\ ~timedOut
  BY DEF PhaseJob, PhaseTypes, Runs
<1>. QED
  BY <1>1, InDoes, JobShape

LEMMA ScheduleKidsDoes ==
  ASSUME TypeOK, HandsOK, NEW w \in Workers, ScheduleChildGroupsJobs(w)
  PROVE  /\ Forking(w, [[job[at[w]] EXCEPT !.est = "children"] EXCEPT !.waits = KidJobs(at[w])])
         /\ JobsTyped' /\ MemoTyped'
<1>. DEFINE j == at[w]
            J == [job[j] EXCEPT !.est = "children"]
<1>1. PhaseJob(w, "initialized")
  BY DEF ScheduleChildGroupsJobs
<1>2. /\ at[w] # NoJob /\ j.type \in PhaseTypes /\ job[j] \in JobStates /\ j.on \in Logical
  BY <1>1, PhaseIn
<1>3. KidJobs(j) \in SUBSET Jobs
  BY <1>2, KidsOf, JobsMade, MemoAssumption DEF KidJobs
<1>4. J \in JobStates /\ J.parents = job[j].parents /\ J.est = "children"
  BY <1>2 DEF JobStates
<1>5. \A c \in KidJobs(j) : Awaits(j, J, c, exprs', stage)
  BY <1>2, <1>4 DEF Awaits
<1>6. Schedule(w, j, KidJobs(j), J) /\ UNCHANGED <<completed, stage>>
  BY DEF ScheduleChildGroupsJobs, Unchanging
<1>7. MemoTyped'
  BY DEF ScheduleChildGroupsJobs, Unchanging, TypeOK, MemoTyped, GroupStates
<1>. HIDE DEF J
<1>8. Forking(w, [J EXCEPT !.waits = KidJobs(at[w])]) /\ JobsTyped'
  BY <1>2, <1>3, <1>4, <1>5, <1>6, ScheduleDoes
<1>. QED
  BY <1>7, <1>8 DEF J

TransformationsOf(j, n) ==
    {ExprJob("Transformation", j.on, xf) : xf \in Xforms[Phase(j)][n][j.on]}

LEMMA ScheduleTransformationsDoes ==
  ASSUME TypeOK, HandsOK, NEW w \in Workers, ScheduleApplicableTransformations(w)
  PROVE  /\ Forking(w, [[job[at[w]] EXCEPT !.est = "self"]
                            EXCEPT !.waits = TransformationsOf(at[w], stage)])
         /\ JobsTyped' /\ MemoTyped'
<1>. DEFINE j == at[w]
            J == [job[j] EXCEPT !.est = "self"]
            kids == TransformationsOf(j, stage)
<1>1. PhaseJob(w, "children")
  BY DEF ScheduleApplicableTransformations
<1>2. /\ at[w] # NoJob /\ j.type \in PhaseTypes /\ job[j] \in JobStates /\ j.on \in Logical
      /\ stage \in 1..MaxStages
  BY <1>1, PhaseIn
<1>3. kids \in SUBSET Jobs
  <2>1. \A xf \in Xforms[Phase(j)][stage][j.on] : xf \in DOMAIN Result
    BY <1>2, XformsAssumption DEF Phase, Phases
  <2>. QED
    BY <1>2, <2>1, JobsMade DEF TransformationsOf
<1>4. J \in JobStates /\ J.parents = job[j].parents /\ J.est = "self"
  BY <1>2 DEF JobStates
<1>5. \A c \in kids : Awaits(j, J, c, exprs', stage)
  BY <1>2, <1>4 DEF Awaits, TransformationsOf
<1>6. Schedule(w, j, kids, J) /\ UNCHANGED <<completed, stage>>
  BY DEF ScheduleApplicableTransformations, Unchanging, TransformationsOf, Transformations,
         Phase
<1>7. MemoTyped'
  BY DEF ScheduleApplicableTransformations, Unchanging, TypeOK, MemoTyped
<1>. HIDE DEF J, kids
<1>8. Forking(w, [J EXCEPT !.waits = kids]) /\ JobsTyped'
  BY <1>2, <1>3, <1>4, <1>5, <1>6, ScheduleDoes
<1>. QED
  BY <1>7, <1>8 DEF J, kids

LEMMA FinalizeExpressionDoes ==
  ASSUME TypeOK, HandsOK, NEW w \in Workers, FinalizeExpression(w)
  PROVE  /\ Going(w, [job[at[w]] EXCEPT !.est = "done"])
         /\ JobsTyped' /\ MemoTyped'
<1>1. at[w] # NoJob
  BY PhaseIn DEF FinalizeExpression
<1>2. Advance(at[w], "done") /\ UNCHANGED <<completed, stage>>
  BY DEF FinalizeExpression, Unchanging
<1>3. Going(w, [job[at[w]] EXCEPT !.est = "done"]) /\ JobsTyped'
  BY <1>1, <1>2, AdvanceDoes DEF Ests
<1>4. MemoTyped'
  BY DEF FinalizeExpression, Unchanging, TypeOK, MemoTyped, GroupStates
<1>. QED
  BY <1>3, <1>4

LEMMA TransformDoes ==
  ASSUME TypeOK, HandsOK, NEW w \in Workers, EevtTransform(w)
  PROVE  /\ Going(w, [job[at[w]] EXCEPT !.est = "done"])
         /\ JobsTyped' /\ MemoTyped'
<1>1. In(w, "Transformation", "initialized")
  BY DEF EevtTransform, Runs
<1>2. at[w] # NoJob /\ at[w] \in Jobs /\ at[w].type = "Transformation"
  BY <1>1, InDoes
<1>3. Advance(at[w], "done") /\ UNCHANGED <<completed, stage>>
  BY DEF EevtTransform, Unchanging
<1>4. Going(w, [job[at[w]] EXCEPT !.est = "done"]) /\ JobsTyped'
  BY <1>2, <1>3, AdvanceDoes DEF Ests
<1>5. Result[at[w].for] \subseteq Exprs
  BY <1>2, JobShape, XformsAssumption
<1>6. MemoTyped'
  BY <1>5 DEF EevtTransform, Unchanging, TypeOK, MemoTyped
<1>. QED
  BY <1>4, <1>6

LEMMA StartOptimizationDoes ==
  ASSUME TypeOK, HandsOK, NEW w \in Workers, EevtStartOptimization(w)
  PROVE  LET g == at[w].on
         IN  /\ \/ /\ gest[g] # "implemented"
                   /\ Forking(w, [job[at[w]] EXCEPT !.waits = {Implementation(g)}])
                \/ /\ gest[g] = "implemented"
                   /\ Going(w, [job[at[w]] EXCEPT !.est = "children", !.eol = MaxLevel(g)])
             /\ UNCHANGED memo
             /\ JobsTyped' /\ MemoTyped'
<1>. DEFINE g == at[w].on
<1>1. In(w, "GroupOptimization", "initialized")
  BY DEF EevtStartOptimization, Runs
<1>2. /\ at[w] # NoJob /\ at[w].type = "GroupOptimization" /\ job[at[w]].est = "initialized"
      /\ at[w] \in Jobs /\ job[at[w]] \in JobStates
  BY <1>1, InDoes
<1>3. /\ UNCHANGED <<completed, stage, overlapped, timedOut>>
      /\ UNCHANGED memo
      /\ \/ /\ gest[g] # "implemented"
            /\ Schedule(w, at[w], {Implementation(g)}, job[at[w]])
         \/ /\ gest[g] = "implemented"
            /\ job' = [job EXCEPT ![at[w]].est = "children", ![at[w]].eol = MaxLevel(g)]
            /\ UNCHANGED <<scheduled, at>>
  BY DEF EevtStartOptimization, Unchanging, memo
<1>4. MemoTyped'
  BY <1>3 DEF TypeOK, MemoTyped, memo
<1>5. CASE gest[g] # "implemented"
  <2>1. {Implementation(g)} \in SUBSET Jobs
    BY <1>2, JobsMade, JobShape
  <2>2. \A c \in {Implementation(g)} : Awaits(at[w], job[at[w]], c, exprs', stage)
    BY <1>2 DEF Awaits
  <2>3. Schedule(w, at[w], {Implementation(g)}, job[at[w]])
    BY <1>3, <1>5
  <2>4. Forking(w, [job[at[w]] EXCEPT !.waits = {Implementation(g)}]) /\ JobsTyped'
    BY <1>2, <1>3, <2>1, <2>2, <2>3, ScheduleDoes
  <2>. QED
    BY <1>3, <1>4, <1>5, <2>4
<1>6. CASE gest[g] = "implemented"
  <2>. DEFINE J == [job[at[w]] EXCEPT !.est = "children", !.eol = MaxLevel(g)]
  <2>1. J \in JobStates /\ J.waits = job[at[w]].waits /\ J.parents = job[at[w]].parents
    BY <1>2 DEF JobStates, MaxLevel
  <2>2. job' = [job EXCEPT ![at[w]] = J]
    <3>1. job \in [Alive -> JobStates] /\ at[w] \in Alive
      BY <1>1, InDoes DEF TypeOK, Alive
    <3>. QED
      BY <1>3, <1>6, <3>1
  <2>. HIDE DEF J
  <2>3. Going(w, J) /\ JobsTyped'
    BY <1>2, <1>3, <1>6, <2>1, <2>2, ChangeDoes
  <2>. QED
    BY <1>3, <1>4, <1>6, <2>3 DEF J
<1>. QED
  BY <1>5, <1>6

LEMMA OptimizeChildrenDoes ==
  ASSUME TypeOK, HandsOK, NEW w \in Workers, EevtOptimizeChildren(w)
  PROVE  LET j == at[w]
             new == PhysicalIn(j.on) \ job[j].seen
             X == {x \in new : FOptimizeChild(j, x)}
             kids == PassKids("GroupExpressionOptimization", X, j.for)
         IN  /\ \/ /\ new # {} /\ UNCHANGED offered
                   /\ Forking(w, [[job[j] EXCEPT !.seen = @ \union new] EXCEPT !.waits = kids])
                \/ /\ new = {}
                   /\ offered' = IF job[j].eol = "high" THEN offered
                                 ELSE [c \in DOMAIN offered \union {<<j.on, j.for>>} |->
                                         IF c = <<j.on, j.for>> THEN PhysicalIn(j.on)
                                         ELSE offered[c]]
                   /\ Going(w, [job[j] EXCEPT !.est = "damp"])
             /\ JobsTyped' /\ MemoTyped'
<1>. DEFINE j == at[w]
            new == PhysicalIn(j.on) \ job[j].seen
            X == {x \in new : FOptimizeChild(j, x)}
            kids == PassKids("GroupExpressionOptimization", X, j.for)
            J == [job[j] EXCEPT !.seen = @ \union new]
<1>1. In(w, "GroupOptimization", "children")
  BY DEF EevtOptimizeChildren, Runs
<1>2. /\ j # NoJob /\ j.type = "GroupOptimization" /\ job[j].est = "children"
      /\ j \in Jobs /\ job[j] \in JobStates
      /\ j.on \in Groups /\ j.for \in Reqs
  BY <1>1, InDoes, JobShape
<1>3. /\ UNCHANGED <<completed, stage, exprs, gest, xest, best, past, overlapped, timedOut>>
      /\ \/ /\ new # {} /\ UNCHANGED offered
            /\ Schedule(w, j, kids, J)
         \/ /\ new = {}
            /\ offered' = IF job[j].eol = "high" THEN offered
                          ELSE [c \in DOMAIN offered \union {<<j.on, j.for>>} |->
                                  IF c = <<j.on, j.for>> THEN PhysicalIn(j.on)
                                  ELSE offered[c]]
            /\ Advance(j, "damp")
  BY DEF EevtOptimizeChildren, Unchanging, PassKids
<1>4. /\ PhysicalIn(j.on) \subseteq Exprs \ Logical
      /\ new \subseteq Exprs \ Logical /\ new \subseteq PhysicalOf(exprs, j.on)
  BY DEF PhysicalIn, PhysicalOf, TypeOK
<1>5. MemoTyped'
  <2>1. DOMAIN offered' \subseteq Contexts /\ offered' \in [DOMAIN offered' -> SUBSET Exprs]
    <3>1. <<j.on, j.for>> \in Contexts /\ PhysicalIn(j.on) \in SUBSET Exprs
      BY <1>2, <1>4 DEF Contexts
    <3>2. CASE offered' = offered
      BY <3>2 DEF TypeOK
    <3>3. CASE offered' = [c \in DOMAIN offered \union {<<j.on, j.for>>} |->
                                  IF c = <<j.on, j.for>> THEN PhysicalIn(j.on)
                                  ELSE offered[c]]
      BY <3>1, <3>3 DEF TypeOK
    <3>. QED
      BY <1>3, <3>2, <3>3
  <2>. QED
    BY <1>3, <2>1 DEF TypeOK, MemoTyped
<1>6. CASE new # {}
  <2>1. kids \in SUBSET Jobs
    BY <1>2, <1>4, JobsMade DEF PassKids
  <2>2. J \in JobStates /\ J.parents = job[j].parents /\ J.est = "children"
    BY <1>2, <1>4 DEF JobStates
  <2>3. \A c \in kids : Awaits(j, J, c, exprs', stage)
    BY <1>2, <1>3, <1>4, <2>2 DEF PassKids, Awaits
  <2>4. Schedule(w, j, kids, J) /\ UNCHANGED offered
    BY <1>3, <1>6
  <2>. HIDE DEF J, kids, new, X
  <2>5. Forking(w, [J EXCEPT !.waits = kids]) /\ JobsTyped'
    BY <1>2, <1>3, <2>1, <2>2, <2>3, <2>4, ScheduleDoes
  <2>. QED
    BY <1>5, <1>6, <2>4, <2>5 DEF J, kids, new, X
<1>7. CASE new = {}
  <2>1. Advance(j, "damp")
    BY <1>3, <1>7
  <2>2. Going(w, [job[j] EXCEPT !.est = "damp"]) /\ JobsTyped'
    BY <1>2, <1>3, <2>1, AdvanceDoes DEF Ests
  <2>. QED
    BY <1>3, <1>5, <1>7, <2>2
<1>. QED
  BY <1>6, <1>7

LEMMA CompleteOptimizationDoes ==
  ASSUME TypeOK, HandsOK, NEW w \in Workers, EevtCompleteOptimization(w)
  PROVE  /\ Going(w, IF job[at[w]].eol = "high" THEN Damp(job[at[w]])
                     ELSE [job[at[w]] EXCEPT !.est = "done"])
         /\ UNCHANGED memo /\ JobsTyped' /\ MemoTyped'
<1>. DEFINE J == IF job[at[w]].eol = "high" THEN Damp(job[at[w]])
                 ELSE [job[at[w]] EXCEPT !.est = "done"]
<1>1. In(w, "GroupOptimization", "damp")
  BY DEF EevtCompleteOptimization, Runs
<1>2. /\ at[w] # NoJob /\ at[w] \in Alive /\ job[at[w]] \in JobStates
      /\ job \in [Alive -> JobStates]
  BY <1>1, InDoes DEF TypeOK, Alive
<1>3. J \in JobStates /\ J.waits = job[at[w]].waits /\ J.parents = job[at[w]].parents
  BY <1>2 DEF JobStates, Damp
<1>4. /\ job' = [job EXCEPT ![at[w]] = J]
      /\ UNCHANGED <<scheduled, completed, at, stage>>
  BY <1>2 DEF EevtCompleteOptimization, Unchanging
<1>. HIDE DEF J
<1>5. Going(w, J) /\ JobsTyped'
  BY <1>2, <1>3, <1>4, ChangeDoes
<1>6. MemoTyped' /\ UNCHANGED memo
  BY DEF EevtCompleteOptimization, Unchanging, TypeOK, MemoTyped, memo
<1>. QED
  BY <1>5, <1>6 DEF J

LEMMA InitializeDoes ==
  ASSUME TypeOK, HandsOK, NEW w \in Workers, EevtInitialize(w)
  PROVE  LET x == at[w].on
             r == at[w].for
             give_up == <<x, r>> \notin Accepts \/ FSafeToPrune(x, r, Cost[x])
         IN  /\ Going(w, [job[at[w]] EXCEPT !.est = IF give_up THEN "done" ELSE "children"])
             /\ UNCHANGED memo /\ JobsTyped' /\ MemoTyped'
<1>. DEFINE x == at[w].on
            r == at[w].for
            give_up == <<x, r>> \notin Accepts \/ FSafeToPrune(x, r, Cost[x])
            est == IF give_up THEN "done" ELSE "children"
<1>1. In(w, "GroupExpressionOptimization", "initialized")
  BY DEF EevtInitialize, Runs
<1>2. at[w] # NoJob
  BY <1>1, InDoes
<1>3. Advance(at[w], est) /\ UNCHANGED <<completed, stage>>
  BY DEF EevtInitialize, Unchanging
<1>4. est \in Ests
  BY DEF Ests
<1>5. MemoTyped' /\ UNCHANGED memo
  BY DEF EevtInitialize, Unchanging, TypeOK, MemoTyped, memo
<1>. HIDE DEF est
<1>6. Going(w, [job[at[w]] EXCEPT !.est = est]) /\ JobsTyped'
  BY <1>2, <1>3, <1>4, AdvanceDoes
<1>. QED
  BY <1>5, <1>6 DEF est

NextKid(x, r, i) == Optimization(Kids[x][i], KidReq[x][r][i])

LEMMA OptimizeChildDoes ==
  ASSUME TypeOK, HandsOK, NEW w \in Workers, EevtOptimizeChild(w)
  PROVE  LET j == at[w]
             x == j.on
             r == j.for
             i == job[j].child
         IN  /\ \/ i > Len(Kids[x]) /\ Going(w, [job[j] EXCEPT !.est = "optimized"])
                \/ /\ i <= Len(Kids[x]) /\ FChildOptimizationFailed(x, r, i)
                   /\ Going(w, [job[j] EXCEPT !.est = "done"])
                \/ /\ i <= Len(Kids[x]) /\ ~FChildOptimizationFailed(x, r, i)
                   /\ Forking(w, [[job[j] EXCEPT !.child = i + 1]
                                    EXCEPT !.waits = {NextKid(x, r, i)}])
             /\ UNCHANGED memo /\ JobsTyped' /\ MemoTyped'
<1>. DEFINE j == at[w]
            x == j.on
            r == j.for
            i == job[j].child
            J == [job[j] EXCEPT !.child = i + 1]
<1>1. In(w, "GroupExpressionOptimization", "children")
  BY DEF EevtOptimizeChild, Runs
<1>2. /\ at[w] # NoJob /\ j.type = "GroupExpressionOptimization" /\ job[j].est = "children"
      /\ job[j] \in JobStates /\ j \in Jobs /\ x \in Exprs /\ r \in Reqs /\ i \in Nat \ {0}
  BY <1>1, InDoes, JobShape DEF JobStates
<1>3. /\ UNCHANGED <<completed, stage>>
      /\ \/ i > Len(Kids[x]) /\ Advance(j, "optimized")
         \/ /\ i <= Len(Kids[x]) /\ FChildOptimizationFailed(x, r, i)
            /\ Advance(j, "done")
         \/ /\ i <= Len(Kids[x]) /\ ~FChildOptimizationFailed(x, r, i)
            /\ Schedule(w, j, {NextKid(x, r, i)}, J)
  BY DEF EevtOptimizeChild, Unchanging, NextKid
<1>4. MemoTyped' /\ UNCHANGED memo
  BY DEF EevtOptimizeChild, Unchanging, TypeOK, MemoTyped, memo
<1>5. CASE i > Len(Kids[x]) /\ Advance(j, "optimized")
  BY <1>2, <1>3, <1>4, <1>5, AdvanceDoes DEF Ests
<1>6. CASE i <= Len(Kids[x]) /\ FChildOptimizationFailed(x, r, i) /\ Advance(j, "done")
  BY <1>2, <1>3, <1>4, <1>6, AdvanceDoes DEF Ests
<1>7. CASE i <= Len(Kids[x]) /\ ~FChildOptimizationFailed(x, r, i)
           /\ Schedule(w, j, {NextKid(x, r, i)}, J)
  <2>1. i \in DOMAIN Kids[x] /\ Kids[x][i] \in Groups /\ KidReq[x][r][i] \in Reqs
    BY <1>2, <1>7, KidsOf, PropertiesAssumption
  <2>2. {NextKid(x, r, i)} \in SUBSET Jobs
    BY <2>1, JobsMade DEF NextKid
  <2>3. J \in JobStates /\ J.parents = job[j].parents /\ J.est = "children" /\ J.child = i + 1
    BY <1>2 DEF JobStates
  <2>4. J.child - 1 = i
    BY <1>2, <2>3
  <2>. HIDE DEF J, i
  <2>5. \A c \in {NextKid(x, r, i)} : Awaits(j, J, c, exprs', stage)
    BY <1>2, <2>1, <2>3, <2>4 DEF Awaits, NextKid
  <2>6. Forking(w, [J EXCEPT !.waits = {NextKid(x, r, i)}]) /\ JobsTyped'
    BY <1>2, <1>3, <1>7, <2>2, <2>3, <2>5, ScheduleDoes
  <2>. QED
    BY <1>4, <1>7, <2>6 DEF J, i
<1>. QED
  BY <1>3, <1>5, <1>6, <1>7

LEMMA AddEnforcersDoes ==
  ASSUME TypeOK, HandsOK, NEW w \in Workers, EevtAddEnforcers(w)
  PROVE  LET x == at[w].on
             r == at[w].for
             good == FChildrenOptimized(x, r) /\ Enforcing[x][r] # "required"
         IN  /\ Going(w, [job[at[w]] EXCEPT !.est = IF good THEN "self" ELSE "done"])
             /\ exprs \subseteq exprs' /\ exprs' \subseteq exprs \union Enforcers[GroupOf[x]][r]
             /\ JobsTyped' /\ MemoTyped'
<1>. DEFINE x == at[w].on
            r == at[w].for
            good == FChildrenOptimized(x, r) /\ Enforcing[x][r] # "required"
            est == IF good THEN "self" ELSE "done"
<1>1. In(w, "GroupExpressionOptimization", "optimized")
  BY DEF EevtAddEnforcers, Runs
<1>2. at[w] # NoJob /\ x \in Exprs /\ r \in Reqs
  BY <1>1, InDoes, JobShape
<1>3. Advance(at[w], est) /\ UNCHANGED <<completed, stage>>
  BY DEF EevtAddEnforcers, Unchanging
<1>4. est \in Ests
  BY DEF Ests
<1>5. exprs \subseteq exprs' /\ exprs' \subseteq exprs \union Enforcers[GroupOf[x]][r]
  BY DEF EevtAddEnforcers
<1>6. Enforcers[GroupOf[x]][r] \subseteq Exprs
  BY <1>2, EnforcersAssumption, MemoAssumption
<1>7. MemoTyped'
  <2>1. exprs' \subseteq Exprs
    BY <1>5, <1>6 DEF TypeOK
  <2>. QED
    BY <2>1 DEF EevtAddEnforcers, Unchanging, TypeOK, MemoTyped
<1>. HIDE DEF est
<1>8. Going(w, [job[at[w]] EXCEPT !.est = est]) /\ JobsTyped'
  BY <1>2, <1>3, <1>4, AdvanceDoes
<1>. QED
  BY <1>5, <1>7, <1>8 DEF est

\* The costs of all contexts.
BestCosts == [c \in Contexts |-> PocLookupBest(c[1], c[2])]

LEMMA BestCostsTyped ==
  ASSUME TypeOK
  PROVE  /\ BestCosts \in [Contexts -> Nat]
         /\ \A c \in Contexts : BestCosts[c] = Least(past[c], best[c])
<1>1. \A c \in Contexts : c = <<c[1], c[2]>> /\ best[c] \in Nat /\ past[c] \in Nat
  BY DEF Contexts, TypeOK
<1>. QED
  BY <1>1 DEF BestCosts, PocLookupBest, Least

LEMMA PlanCostTyped ==
  ASSUME TypeOK, NEW x \in Exprs, NEW r \in Reqs
  PROVE  PlanCost(x, r) = TotalCost(BestCosts, x, r) /\ PlanCost(x, r) \in Nat
<1>1. PlanCost(x, r) = TotalCost(BestCosts, x, r)
  BY DEF PlanCost, BestCosts
<1>. QED
  BY <1>1, BestCostsTyped, TotalBounds

LEMMA OptimizeSelfDoes ==
  ASSUME TypeOK, HandsOK, NEW w \in Workers, EevtOptimizeSelf(w)
  PROVE  LET j == at[w]
             c == <<GroupOf[j.on], j.for>>
         IN  /\ Going(w, [job[j] EXCEPT !.est = "update", !.read = best[c],
                                        !.cost = PlanCost(j.on, j.for)])
             /\ UNCHANGED memo /\ JobsTyped' /\ MemoTyped'
<1>. DEFINE j == at[w]
            c == <<GroupOf[j.on], j.for>>
            J == [job[j] EXCEPT !.est = "update", !.read = best[c],
                                !.cost = PlanCost(j.on, j.for)]
<1>1. In(w, "GroupExpressionOptimization", "self")
  BY DEF EevtOptimizeSelf, Runs
<1>2. /\ at[w] # NoJob /\ j \in Alive /\ job[j] \in JobStates
      /\ job \in [Alive -> JobStates] /\ j.on \in Exprs /\ j.for \in Reqs
  BY <1>1, InDoes, JobShape DEF TypeOK, Alive
<1>3. c \in Contexts
  BY <1>2, MemoAssumption DEF Contexts
<1>4. best[c] \in Nat /\ PlanCost(j.on, j.for) \in Nat
  BY <1>2, <1>3, PlanCostTyped DEF TypeOK
<1>5. J \in JobStates /\ J.waits = job[j].waits /\ J.parents = job[j].parents
  BY <1>2, <1>4 DEF JobStates
<1>6. /\ job' = [job EXCEPT ![j] = J]
      /\ UNCHANGED <<scheduled, completed, at, stage>>
  BY <1>2 DEF EevtOptimizeSelf, Unchanging
<1>7. UNCHANGED memo
  BY DEF EevtOptimizeSelf, Unchanging, memo
<1>8. MemoTyped'
  BY <1>3 DEF EevtOptimizeSelf, Unchanging, TypeOK, MemoTyped
<1>. HIDE DEF J
<1>9. Going(w, J) /\ JobsTyped'
  BY <1>2, <1>5, <1>6, ChangeDoes
<1>. QED
  BY <1>7, <1>8, <1>9 DEF J

LEMMA UpdateBestCostDoes ==
  ASSUME TypeOK, HandsOK, NEW w \in Workers, UpdateBestCost(w)
  PROVE  /\ Going(w, [job[at[w]] EXCEPT !.est = "done"])
         /\ JobsTyped' /\ MemoTyped'
<1>1. In(w, "GroupExpressionOptimization", "update")
  BY DEF UpdateBestCost
<1>2. at[w] # NoJob /\ job[at[w]] \in JobStates
  BY <1>1, InDoes
<1>3. Advance(at[w], "done") /\ UNCHANGED <<completed, stage>>
  BY DEF UpdateBestCost, Unchanging
<1>4. Going(w, [job[at[w]] EXCEPT !.est = "done"]) /\ JobsTyped'
  BY <1>2, <1>3, AdvanceDoes DEF Ests
<1>5. job[at[w]].cost \in Nat
  BY <1>2 DEF JobStates
<1>6. MemoTyped'
  BY <1>5 DEF UpdateBestCost, Unchanging, TypeOK, MemoTyped
<1>. QED
  BY <1>4, <1>6

LEMMA EndJobDoes ==
  ASSUME TypeOK, HandsOK, NEW w \in Workers, EndJob(w)
  PROVE  /\ Going(w, [job[at[w]] EXCEPT !.est = "done"])
         /\ UNCHANGED memo /\ JobsTyped' /\ MemoTyped'
<1>1. at[w] # NoJob /\ Advance(at[w], "done") /\ UNCHANGED <<completed, stage>>
  BY DEF EndJob, Working
<1>2. Going(w, [job[at[w]] EXCEPT !.est = "done"]) /\ JobsTyped'
  BY <1>1, AdvanceDoes DEF Ests
<1>3. MemoTyped' /\ UNCHANGED memo
  BY DEF EndJob, TypeOK, MemoTyped, memo
<1>. QED
  BY <1>2, <1>3

\* An action of a state machine changes the state of one job, and may add children.
LEMMA WorkDoes ==
  ASSUME TypeOK, HandsOK, NEW w \in Workers, GroupStep(w) \/ ExprStep(w) \/ EndJob(w)
  PROVE  /\ \E J : Going(w, J) \/ Forking(w, J)
         /\ exprs \subseteq exprs' /\ JobsTyped' /\ MemoTyped'
<1>1. CASE EevtStartExploration(w)
  BY <1>1, StartExplorationDoes DEF EevtStartExploration
<1>2. CASE EevtExploreChildren(w)
  BY <1>2, ExploreChildrenDoes DEF EevtExploreChildren
<1>3. CASE FinalizeExploration(w)
  BY <1>3, FinalizeExplorationDoes DEF FinalizeExploration
<1>4. CASE EevtStartImplementation(w)
  BY <1>4, StartImplementationDoes DEF EevtStartImplementation
<1>5. CASE EevtImplementChildren(w)
  BY <1>5, ImplementChildrenDoes DEF EevtImplementChildren
<1>6. CASE EevtStartOptimization(w)
  BY <1>6, StartOptimizationDoes DEF memo
<1>7. CASE EevtOptimizeChildren(w)
  BY <1>7, OptimizeChildrenDoes DEF EevtOptimizeChildren
<1>8. CASE EevtCompleteOptimization(w)
  BY <1>8, CompleteOptimizationDoes DEF memo
<1>9. CASE ScheduleChildGroupsJobs(w)
  BY <1>9, ScheduleKidsDoes DEF ScheduleChildGroupsJobs
<1>10. CASE ScheduleApplicableTransformations(w)
  BY <1>10, ScheduleTransformationsDoes DEF ScheduleApplicableTransformations
<1>11. CASE FinalizeExpression(w)
  BY <1>11, FinalizeExpressionDoes DEF FinalizeExpression
<1>12. CASE EevtTransform(w)
  BY <1>12, TransformDoes DEF EevtTransform
<1>13. CASE EevtInitialize(w)
  BY <1>13, InitializeDoes DEF memo
<1>14. CASE EevtOptimizeChild(w)
  BY <1>14, OptimizeChildDoes DEF memo
<1>15. CASE EevtAddEnforcers(w)
  BY <1>15, AddEnforcersDoes
<1>16. CASE EevtOptimizeSelf(w)
  BY <1>16, OptimizeSelfDoes DEF memo
<1>17. CASE UpdateBestCost(w)
  BY <1>17, UpdateBestCostDoes DEF UpdateBestCost
<1>18. CASE EndJob(w)
  BY <1>18, EndJobDoes DEF memo
<1>. QED
  BY <1>1, <1>2, <1>3, <1>4, <1>5, <1>6, <1>7, <1>8, <1>9, <1>10, <1>11, <1>12, <1>13,
     <1>14, <1>15, <1>16, <1>17, <1>18 DEF GroupStep, ExprStep

LEMMA TypeFirst ==
  ASSUME Init
  PROVE  TypeOK
<1>1. JobsTyped
  <2>1. stage \in 1..(MaxStages + 1)
    <3>1. MaxStages \in Nat
      BY StagesAssumption DEF MaxStages
    <3>. QED
      BY <3>1 DEF Init
  <2>2. Alive = {} /\ job \in [Alive -> JobStates]
    BY DEF Init, Alive
  <2>. QED
    BY <2>1, <2>2, JobsMade DEF Init, JobsTyped
<1>2. MemoTyped
  <2>1. DOMAIN offered = {} /\ offered \in [DOMAIN offered -> SUBSET Exprs]
    BY DEF Init
  <2>2. exprs \subseteq Exprs /\ timedOut \in BOOLEAN /\ overlapped \subseteq Contexts
    BY MemoAssumption DEF Init
  <2>3. best \in [Contexts -> Nat] /\ past \in [Contexts -> Nat]
    BY CostsAssumption DEF Init
  <2>4. gest \in [Groups -> GroupStates] /\ xest \in [Logical -> GroupStates]
    BY DEF Init, GroupStates
  <2>. QED
    BY <2>1, <2>2, <2>3, <2>4 DEF MemoTyped
<1>. QED
  BY <1>1, <1>2, TypesSplit

LEMMA TypeNextStage ==
  ASSUME TypeOK, FinalizeSearchStage
  PROVE  TypeOK'
<1>1. stage' \in 1..(MaxStages + 1)
  <2>1. MaxStages \in Nat /\ stage \in Nat /\ stage >= 1
    BY StagesAssumption DEF MaxStages, TypeOK
  <2>2. stage' = stage + 1 /\ ~(stage > MaxStages)
    BY DEF FinalizeSearchStage, FSearchTerminated
  <2>. QED
    BY <2>1, <2>2
<1>2. past' \in [Contexts -> Nat] /\ best' \in [Contexts -> Nat]
  BY CostsAssumption DEF FinalizeSearchStage, TypeOK, Least
<1>3. scheduled' \subseteq [job : Jobs, parent : Jobs \union {NoJob}]
  <2>1. Child(RootJob, NoJob) \in [job : Jobs, parent : Jobs \union {NoJob}]
    BY JobsMade DEF Child
  <2>2. scheduled' = {} \/ scheduled' = {Child(RootJob, NoJob)}
    BY DEF FinalizeSearchStage
  <2>. QED
    BY <2>1, <2>2
<1>4. JobsTyped'
  BY <1>1, <1>3 DEF FinalizeSearchStage, ResetGroupStates, JobsTyped, TypeOK, Alive
<1>5. MemoTyped'
  <2>1. DOMAIN offered' = {} /\ offered' \in [DOMAIN offered' -> SUBSET Exprs]
    BY DEF FinalizeSearchStage
  <2>2. exprs' \subseteq Exprs /\ timedOut' \in BOOLEAN /\ overlapped' \subseteq Contexts
    BY DEF FinalizeSearchStage, TypeOK
  <2>3. gest' \in [Groups -> GroupStates] /\ xest' \in [Logical -> GroupStates]
    BY DEF FinalizeSearchStage, ResetGroupStates, GroupStates
  <2>. QED
    BY <1>2, <2>1, <2>2, <2>3 DEF MemoTyped
<1>. QED
  BY <1>4, <1>5, TypesSplitNext

LEMMA WiredStep ==
  ASSUME TypeOK, Wired, [Next]_vars
  PROVE  TypeOK' /\ Wired'
<1>1. HandsOK
  BY DEF Wired
<1>2. ASSUME NEW w \in Workers, NEW e \in scheduled, Retrieve(w, e)
      PROVE  TypeOK' /\ Wired'
  <2>1. MemoTyped' /\ exprs' = exprs
    BY <1>2 DEF Retrieve, memo, TypeOK, MemoTyped
  <2>. QED
    BY <1>1, <1>2, <2>1, RetrieveDoes, StartingKeeps, TypesSplitNext
<1>3. ASSUME NEW w \in Workers, NEW e \in scheduled, Queue(w, e)
      PROVE  TypeOK' /\ Wired'
  <2>1. MemoTyped' /\ exprs' = exprs
    BY <1>3 DEF Queue, memo, TypeOK, MemoTyped
  <2>. QED
    BY <1>1, <1>3, <2>1, QueueDoes, QueueingKeeps, TypesSplitNext
<1>4. ASSUME NEW w \in Workers, NEW e \in scheduled, FindCompleted(w, e)
      PROVE  TypeOK' /\ Wired'
  <2>1. MemoTyped' /\ exprs' = exprs
    BY <1>4 DEF FindCompleted, memo, TypeOK, MemoTyped
  <2>. QED
    BY <1>1, <1>4, <2>1, FindDoes, FindingKeeps, TypesSplitNext
<1>5. ASSUME NEW w \in Workers, NEW j \in DOMAIN job, Resume(w, j)
      PROVE  TypeOK' /\ Wired'
  <2>1. TypeOK'
    BY <1>5 DEF Resume, memo, TypeOK
  <2>. QED
    BY <1>5, <2>1, ResumingKeeps
<1>6. ASSUME NEW w \in Workers, GroupStep(w) \/ ExprStep(w) \/ EndJob(w)
      PROVE  TypeOK' /\ Wired'
  BY <1>1, <1>6, WorkDoes, GoingKeeps, ForkingKeeps, TypesSplitNext
<1>7. ASSUME NEW w \in Workers, Complete(w)
      PROVE  TypeOK' /\ Wired'
  <2>1. MemoTyped' /\ exprs' = exprs
    BY <1>7 DEF Complete, memo, TypeOK, MemoTyped
  <2>. QED
    BY <1>1, <1>7, <2>1, CompleteDoes, EndingKeeps, TypesSplitNext
<1>8. ASSUME NEW w \in Workers, Release(w)
      PROVE  TypeOK' /\ Wired'
  <2>1. TypeOK' /\ UNCHANGED <<exprs, scheduled, job, completed, at, stage>>
    BY <1>8 DEF Release, memo, TypeOK
  <2>. QED
    BY <2>1, SameKeeps
<1>9. CASE TimeOut
  <2>1. TypeOK' /\ UNCHANGED <<exprs, scheduled, job, completed, at, stage>>
    BY <1>9 DEF TimeOut, memo, TypeOK
  <2>. QED
    BY <2>1, SameKeeps
<1>10. CASE FinalizeSearchStage
  BY <1>10, TypeNextStage, NextStageKeeps
<1>11. CASE UNCHANGED vars
  <2>1. TypeOK' /\ UNCHANGED <<exprs, scheduled, job, completed, at, stage>>
    BY <1>11 DEF vars, TypeOK
  <2>. QED
    BY <2>1, SameKeeps
<1>. QED
  BY <1>2, <1>3, <1>4, <1>5, <1>6, <1>7, <1>8, <1>9, <1>10, <1>11
     DEF Next, Take, Work

(***************************************************************************)
(* The search keeps its types, for all values of the constants: no action  *)
(* of a job leads to a group, expression or job there is not.              *)
(***************************************************************************)
THEOREM SearchTyping == Spec => []TypeOK
<1>1. Init => TypeOK /\ Wired
  BY TypeFirst, WiredFirst
<1>2. TypeOK /\ Wired /\ [Next]_vars => (TypeOK /\ Wired)'
  BY WiredStep
<1>. QED
  BY <1>1, <1>2, PTL DEF Spec

-----------------------------------------------------------------------------
(* Nothing runs beside the exploration of the root group                   *)

ExploreRoot == Exploration(Root)
ImplementRoot == Implementation(Root)

RootBusy ==
    /\ RootJob \in Alive /\ job[RootJob].est = "initialized"
    /\ ImplementRoot \in job[RootJob].waits

\* Until the root group has been explored any job but its implementation and
\* optimization is there for the one, and that for the other.
RootAlone ==
    /\ ExploreRoot \notin completed /\ (Alive \union Added) \ {RootJob, ImplementRoot} # {} =>
          /\ ImplementRoot \in Alive /\ job[ImplementRoot].est = "initialized"
          /\ ExploreRoot \in job[ImplementRoot].waits
          /\ RootBusy
    /\ ExploreRoot \notin completed /\ ImplementRoot \in Alive \union Added => RootBusy
    /\ ImplementRoot \in Alive /\ job[ImplementRoot].est = "children" =>
          ExploreRoot \in completed
    /\ RootJob \in Alive /\ job[RootJob].est \in {"children", "damp"} =>
          ExploreRoot \in completed

\* What is marked in a group its jobs have done.
Marked ==
    \A g \in Groups :
        /\ gest[g] # "unexplored" =>
              \/ Exploration(g) \in completed
              \/ Exploration(g) \in Alive /\ job[Exploration(g)].est # "initialized"
        /\ Implementation(g) \in Alive /\ job[Implementation(g)].est = "children" =>
              gest[g] # "unexplored"
        /\ Exploration(g) \in Alive /\ job[Exploration(g)].est = "merging" => g = Root

\* The root group's jobs are different ones.
LEMMA RootNames ==
  /\ ExploreRoot # ImplementRoot /\ ExploreRoot # RootJob /\ ImplementRoot # RootJob
  /\ ExploreRoot \in Jobs /\ ImplementRoot \in Jobs /\ RootJob \in Jobs
  /\ ExploreRoot.type \in Queued /\ ImplementRoot.type \in Queued
  /\ ExploreRoot # NoJob /\ ImplementRoot # NoJob /\ RootJob # NoJob
BY JobNames, JobsMade, MemoAssumption, NamesAssumption DEF ExploreRoot, ImplementRoot, Queued

LEMMA RootGoing ==
  ASSUME TypeOK, Wired, RootAlone, NEW w, NEW J, Going(w, J),
         at[w] = ImplementRoot /\ J.est = "children" => ExploreRoot \in completed,
         at[w] = RootJob /\ J.est \in {"children", "damp"} => ExploreRoot \in completed
  PROVE  RootAlone'
<1>1. job[at[w]].waits = {}
  BY DEF Wired, HandsOK, Going
<1>2. RootBusy => RootBusy'
  BY <1>1 DEF RootBusy, Going, Alive
<1>3. Added' = Added
  BY DEF Added, Going
<1>. QED
  BY <1>1, <1>2, <1>3 DEF RootAlone, Going, Alive

LEMMA ForkingAdds ==
  ASSUME NEW w, NEW J, Forking(w, J)
  PROVE  Added' = Added \union J.waits
<1>1. scheduled' = scheduled \union {Child(c, at[w]) : c \in J.waits}
  BY DEF Forking
<1>2. \A c : Child(c, at[w]).job = c
  BY DEF Child
<1>3. ASSUME NEW k \in Added' PROVE k \in Added \union J.waits
  BY <1>1, <1>2, <1>3 DEF Added
<1>4. ASSUME NEW k \in Added PROVE k \in Added'
  BY <1>1, <1>4 DEF Added
<1>5. ASSUME NEW k \in J.waits PROVE k \in Added'
  <2>1. Child(k, at[w]) \in scheduled' /\ Child(k, at[w]).job = k
    BY <1>1, <1>2
  <2>. QED
    BY <2>1 DEF Added
<1>. QED
  BY <1>3, <1>4, <1>5

LEMMA RootForking ==
  ASSUME TypeOK, Wired, RootAlone, NEW w, NEW J, Forking(w, J),
         at[w] \in {RootJob, ImplementRoot} =>
            J.est = job[at[w]].est /\ J.est \in {"initialized", "children"},
         at[w] \in {RootJob, ImplementRoot} /\ J.est = "initialized" =>
            J.waits = IF at[w] = RootJob THEN {ImplementRoot} ELSE {ExploreRoot}
  PROVE  RootAlone'
<1>. DEFINE j == at[w]
<1>1. j \in Alive /\ job[j].waits = {} /\ j # NoJob
  BY DEF Wired, HandsOK, Forking
<1>2. Added' = Added \union J.waits
  BY ForkingAdds
<1>3. CASE ExploreRoot \in completed
  <2>1. ExploreRoot \in completed'
    BY <1>3 DEF Forking
  <2>. QED
    BY <2>1 DEF RootAlone
<1>4. CASE ExploreRoot \notin completed /\ j \notin {RootJob, ImplementRoot}
  <2>1. /\ ImplementRoot \in Alive /\ job[ImplementRoot].est = "initialized"
        /\ ExploreRoot \in job[ImplementRoot].waits
        /\ RootBusy
    BY <1>1, <1>4 DEF RootAlone
  <2>. QED
    BY <1>1, <1>2, <1>4, <2>1 DEF RootAlone, RootBusy, Forking, Alive
<1>5. CASE ExploreRoot \notin completed /\ j = ImplementRoot
  <2>1. job[j].est = "initialized" /\ RootBusy
    BY <1>1, <1>5 DEF RootAlone
  <2>2. J.est = "initialized" /\ J.waits = {ExploreRoot}
    BY <1>5, <2>1, RootNames
  <2>. QED
    BY <1>1, <1>2, <1>5, <2>1, <2>2, RootNames DEF RootAlone, RootBusy, Forking, Alive
<1>6. CASE ExploreRoot \notin completed /\ j = RootJob
  <2>1. job[j].est = "initialized"
    BY <1>1, <1>6 DEF RootAlone
  <2>2. J.est = "initialized" /\ J.waits = {ImplementRoot}
    BY <1>6, <2>1, RootNames
  <2>3. ~RootBusy
    BY <1>1, <1>6 DEF RootBusy
  <2>4. Alive \union Added \subseteq {RootJob} /\ Alive' = Alive /\ Added' = Added \union {ImplementRoot}
    <3>1. Alive \union Added \subseteq {RootJob}
      BY <1>6, <2>3 DEF RootAlone
    <3>. QED
      BY <1>2, <2>2, <3>1 DEF Forking
  <2>5. RootBusy' /\ ImplementRoot \notin Alive'
    BY <1>1, <1>6, <2>2, <2>4, RootNames DEF RootBusy, Forking, Alive
  <2>. QED
    BY <1>6, <2>2, <2>4, <2>5 DEF RootAlone, RootBusy, Forking, Alive
<1>. QED
  BY <1>3, <1>4, <1>5, <1>6

LEMMA RootStarting ==
  ASSUME TypeOK, Wired, RootAlone, NEW w, NEW e, Starting(w, e),
         job'[e.job].est = "initialized"
  PROVE  RootAlone'
<1>1. Alive' \union Added' \subseteq Alive \union Added
  BY DEF Starting, Added
<1>2. RootBusy => RootBusy'
  BY DEF RootBusy, Starting, Alive
<1>. QED
  BY <1>1, <1>2 DEF RootAlone, Starting, Alive

LEMMA RootQueueing ==
  ASSUME TypeOK, Wired, RootAlone, NEW e, Queueing(e)
  PROVE  RootAlone'
<1>1. Alive' = Alive /\ Added' \subseteq Added
  BY DEF Queueing, Added
<1>2. \A k \in Alive : job'[k].waits = job[k].waits /\ job'[k].est = job[k].est
  BY DEF Queueing, TypeOK, JobStates, Alive
<1>3. RootBusy => RootBusy'
  BY <1>1, <1>2 DEF RootBusy, Alive
<1>. QED
  BY <1>1, <1>2, <1>3 DEF RootAlone, Queueing, Alive

\* Who has added the implementation of the root group.
LEMMA RootAdded ==
  ASSUME TypeOK, Wired, RootAlone, ExploreRoot \notin completed, NEW e \in scheduled,
         e.job = ImplementRoot,
         ImplementRoot \notin Alive \/ ExploreRoot \notin job[ImplementRoot].waits
  PROVE  e = Child(ImplementRoot, RootJob)
<1>1. e.parent # NoJob
  BY RootNames DEF Wired, RootOK
<1>2. e.parent \in Alive /\ ImplementRoot \in job[e.parent].waits
  BY <1>1 DEF Wired, WaitsOK
<1>3. Alive \subseteq {RootJob, ImplementRoot}
  BY DEF RootAlone
<1>4. e.parent # ImplementRoot
  <2>. SUFFICES ASSUME e.parent = ImplementRoot PROVE FALSE
    OBVIOUS
  <2>1. Awaits(ImplementRoot, job[ImplementRoot], ImplementRoot, exprs, stage)
    BY <1>2 DEF Wired, WaitsFor
  <2>. QED
    BY <2>1, JobNames DEF Awaits, ImplementRoot, PhaseTypes
<1>5. e = Child(e.job, e.parent)
  BY DEF TypeOK, Child
<1>. QED
  BY <1>2, <1>3, <1>4, <1>5

LEMMA RootFinding ==
  ASSUME TypeOK, Wired, RootAlone, NEW e, Finding(e)
  PROVE  RootAlone'
<1>1. Alive' = Alive /\ Added' \subseteq Added /\ e \in scheduled /\ e = Child(e.job, e.parent)
  BY DEF Finding, Added, TypeOK, Child
<1>2. /\ \A k \in Alive : job'[k].est = job[k].est
      /\ \A k \in Alive : job[k].waits \ {e.job} \subseteq job'[k].waits
      /\ \A k \in Alive : k # e.parent => job'[k].waits = job[k].waits
  BY DEF Finding, Otherwise, TypeOK, JobStates, Alive
<1>3. e.job \in completed /\ e.job \notin Alive /\ completed' = completed
  BY DEF Finding, Wired, HandsOK
<1>4. ASSUME ExploreRoot \notin completed, (Alive' \union Added') \ {RootJob, ImplementRoot} # {}
      PROVE  /\ ImplementRoot \in Alive' /\ job'[ImplementRoot].est = "initialized"
             /\ ExploreRoot \in job'[ImplementRoot].waits /\ RootBusy'
  BY <1>1, <1>2, <1>3, <1>4 DEF RootAlone, RootBusy, Alive
<1>5. ASSUME ExploreRoot \notin completed, ImplementRoot \in Alive' \union Added'
      PROVE  RootBusy'
  <2>1. RootBusy
    BY <1>1, <1>5 DEF RootAlone
  <2>2. CASE e.job = ImplementRoot
    <3>1. PICK d \in scheduled' : d.job = ImplementRoot
      BY <1>1, <1>3, <1>5, <2>2 DEF Added
    <3>2. d \in scheduled /\ d # e
      BY <3>1 DEF Finding
    <3>. QED
      BY <1>1, <1>3, <1>5, <2>2, <3>1, <3>2, RootAdded
  <2>3. CASE e.job # ImplementRoot
    BY <1>1, <1>2, <2>1, <2>3 DEF RootBusy, Alive
  <2>. QED
    BY <2>2, <2>3
<1>. QED
  BY <1>1, <1>2, <1>3, <1>4, <1>5 DEF RootAlone, Alive

LEMMA RootEnding ==
  ASSUME TypeOK, Wired, RootAlone, NEW w, Ending(w)
  PROVE  RootAlone'
<1>. DEFINE j == at[w]
<1>1. /\ j \in Alive /\ job[j].waits = {} /\ Alive' = Alive \ {j} /\ Added' = Added
      /\ completed \subseteq completed' /\ (j = ExploreRoot => ExploreRoot \in completed')
  BY RootNames DEF Ending, Added, Wired, HandsOK
<1>2. /\ \A k \in Alive' : job'[k].est = job[k].est
      /\ \A k \in Alive' : job[k].waits \ {j} \subseteq job'[k].waits
      /\ \A k \in Alive' : k \notin job[j].parents => job'[k].waits = job[k].waits
  BY <1>1 DEF Ending, Otherwise, TypeOK, JobStates, Alive
<1>3. ASSUME ExploreRoot \notin completed', (Alive' \union Added') \ {RootJob, ImplementRoot} # {}
      PROVE  /\ ImplementRoot \in Alive' /\ job'[ImplementRoot].est = "initialized"
             /\ ExploreRoot \in job'[ImplementRoot].waits /\ RootBusy'
  <2>1. /\ ImplementRoot \in Alive /\ job[ImplementRoot].est = "initialized"
        /\ ExploreRoot \in job[ImplementRoot].waits /\ RootBusy
    BY <1>1, <1>3 DEF RootAlone
  <2>2. j # ImplementRoot /\ j # RootJob /\ j # ExploreRoot
    BY <1>1, <1>3, <2>1 DEF RootBusy
  <2>. QED
    BY <1>1, <1>2, <2>1, <2>2 DEF RootBusy, Alive
<1>4. ASSUME ExploreRoot \notin completed', ImplementRoot \in Alive' \union Added'
      PROVE  RootBusy'
  <2>1. RootBusy /\ ExploreRoot \notin completed
    BY <1>1, <1>4 DEF RootAlone
  <2>2. j # RootJob
    BY <1>1, <2>1 DEF RootBusy
  <2>3. CASE j = ImplementRoot
    <3>1. PICK e \in scheduled : e.job = ImplementRoot
      BY <1>1, <1>4, <2>3 DEF Added
    <3>2. e = Child(ImplementRoot, RootJob)
      BY <1>1, <2>1, <2>3, <3>1, RootAdded
    <3>3. RootJob \notin job[j].parents
      BY <1>1, <2>3, <3>2, RootNames DEF Wired, WaitsOK
    <3>. QED
      BY <1>1, <1>2, <2>1, <2>2, <3>3 DEF RootBusy, Alive
  <2>4. CASE j # ImplementRoot
    BY <1>1, <1>2, <2>1, <2>2, <2>4 DEF RootBusy, Alive
  <2>. QED
    BY <2>3, <2>4
<1>. QED
  BY <1>1, <1>2, <1>3, <1>4 DEF RootAlone, Alive

LEMMA MarkedWork ==
  ASSUME TypeOK, Wired, Marked, NEW w, NEW J, Going(w, J) \/ Forking(w, J),
         J.est = "initialized" => job[at[w]].est = "initialized",
         \A g \in Groups : gest'[g] # gest[g] =>
            /\ gest'[g] # "unexplored"
            /\ gest[g] # "unexplored" \/ (at[w] = Exploration(g) /\ J.est # "initialized"),
         \A g \in Groups : at[w] = Implementation(g) /\ J.est = "children" =>
            gest'[g] # "unexplored",
         \A g \in Groups : at[w] = Exploration(g) /\ J.est = "merging" => g = Root
  PROVE  Marked'
<1>1. /\ at[w] \in Alive /\ Alive' = Alive /\ completed' = completed /\ job'[at[w]] = J
      /\ \A k \in Alive : k # at[w] => job'[k] = job[k]
  BY DEF Going, Forking, Wired, HandsOK
<1>2. ASSUME NEW g \in Groups, gest'[g] # "unexplored"
      PROVE  \/ Exploration(g) \in completed
             \/ Exploration(g) \in Alive /\ job'[Exploration(g)].est # "initialized"
  <2>1. CASE gest[g] # "unexplored"
    BY <1>1, <2>1 DEF Marked
  <2>2. CASE gest[g] = "unexplored"
    BY <1>1, <1>2, <2>2
  <2>. QED
    BY <2>1, <2>2
<1>3. ASSUME NEW g \in Groups, Implementation(g) \in Alive,
             job'[Implementation(g)].est = "children"
      PROVE  gest'[g] # "unexplored"
  BY <1>1, <1>3 DEF Marked
<1>4. ASSUME NEW g \in Groups, Exploration(g) \in Alive,
             job'[Exploration(g)].est = "merging"
      PROVE  g = Root
  BY <1>1, <1>4 DEF Marked
<1>. QED
  BY <1>1, <1>2, <1>3, <1>4 DEF Marked, Alive

\* The other steps leave the groups alone and take no job back to its start.
LEMMA MarkedElse ==
  ASSUME Marked, gest' = gest, completed \subseteq completed',
         \A k \in Alive : k \in completed' \/ (k \in Alive' /\ job'[k].est = job[k].est)
                          \/ k.type \notin Queued,
         \A k \in Alive' : (k \in Alive /\ job'[k].est = job[k].est)
                           \/ job'[k].est = "initialized"
  PROVE  Marked'
<1>1. \A g : Exploration(g).type \in Queued
  BY JobNames DEF Queued
<1>. QED
  BY <1>1 DEF Marked, Alive

LEMMA MarkedStarting ==
  ASSUME TypeOK, Wired, Marked, NEW w, NEW e, Starting(w, e), gest' = gest,
         job'[e.job].est = "initialized"
  PROVE  Marked'
<1>1. completed' = completed /\ Alive \subseteq Alive' /\ Alive' = Alive \union {e.job}
      /\ \A k \in Alive : job'[k] = job[k]
  BY DEF Starting
<1>. QED
  BY <1>1, MarkedElse

LEMMA MarkedQueueing ==
  ASSUME TypeOK, Wired, Marked, NEW e, Queueing(e), gest' = gest
  PROVE  Marked'
<1>1. \A k \in Alive : job'[k].est = job[k].est
  BY DEF Queueing, TypeOK, JobStates, Alive
<1>2. completed' = completed /\ Alive' = Alive
  BY DEF Queueing
<1>. QED
  BY <1>1, <1>2, MarkedElse

LEMMA MarkedFinding ==
  ASSUME TypeOK, Wired, Marked, NEW e, Finding(e), gest' = gest
  PROVE  Marked'
<1>1. \A k \in Alive : job'[k].est = job[k].est
  BY DEF Finding, Otherwise, TypeOK, JobStates, Alive
<1>2. completed' = completed /\ Alive' = Alive
  BY DEF Finding
<1>. QED
  BY <1>1, <1>2, MarkedElse

LEMMA MarkedEnding ==
  ASSUME TypeOK, Wired, Marked, NEW w, Ending(w), gest' = gest
  PROVE  Marked'
<1>1. Alive' = Alive \ {at[w]} /\ \A k \in Alive' : job'[k].est = job[k].est
  BY DEF Ending, Otherwise, TypeOK, JobStates, Alive
<1>2. completed \subseteq completed' /\ (at[w].type \in Queued => at[w] \in completed')
  BY DEF Ending
<1>. QED
  BY <1>1, <1>2, MarkedElse

LEMMA RootWork ==
  ASSUME TypeOK, Wired, RootAlone, Marked, NEW w \in Workers,
         GroupStep(w) \/ ExprStep(w) \/ EndJob(w)
  PROVE  RootAlone' /\ Marked'
<1>. DEFINE j == at[w]
            g == at[w].on
<1>0. HandsOK
  BY DEF Wired
\* A job of another group, or at another point, has no bearing on the root's.
<1>1. ASSUME NEW J, Going(w, J), gest' = gest, J.est \notin {"initialized", "children", "merging"},
             J.est = "damp" => job[j].est \in {"children", "damp"}
      PROVE  RootAlone' /\ Marked'
  <2>1. j \in Alive
    BY <1>0, <1>1 DEF Going, HandsOK
  <2>2. j = RootJob /\ J.est \in {"children", "damp"} => ExploreRoot \in completed
    BY <1>1, <2>1 DEF RootAlone
  <2>3. RootAlone'
    BY <1>1, <2>2, RootGoing
  <2>4. Marked'
    BY <1>1, MarkedWork
  <2>. QED
    BY <2>3, <2>4
<1>2. ASSUME NEW J, Forking(w, J), gest' = gest, j \in Jobs,
             j.type \notin {"GroupImplementation", "GroupOptimization"},
             J.est \notin {"initialized", "merging"}
      PROVE  RootAlone' /\ Marked'
  <2>1. j # RootJob /\ \A k : j # Implementation(k)
    BY <1>2, JobNames
  <2>2. RootAlone'
    BY <1>2, <2>1, RootForking DEF ImplementRoot
  <2>3. Marked'
    BY <1>2, <2>1, MarkedWork
  <2>. QED
    BY <2>2, <2>3
<1>3. ASSUME NEW J, Forking(w, J), gest' = gest, J.est = "children", job[j].est = "children"
      PROVE  RootAlone' /\ Marked'
  <2>1. j \in Alive
    BY <1>0, <1>3 DEF Forking, HandsOK
  <2>2. \A k \in Groups : j = Implementation(k) => gest'[k] # "unexplored"
    BY <1>3, <2>1 DEF Marked
  <2>3. RootAlone'
    BY <1>3, RootForking
  <2>4. Marked'
    BY <1>3, <2>2, MarkedWork
  <2>. QED
    BY <2>3, <2>4
<1>4. CASE EevtStartExploration(w)
  <2>1. In(w, "GroupExploration", "initialized") /\ gest' = [gest EXCEPT ![g] = "exploring"]
    BY <1>4 DEF EevtStartExploration, Runs
  <2>2. /\ j \in Jobs /\ j.type = "GroupExploration" /\ job[j] \in JobStates
        /\ g \in Groups /\ j = Exploration(g) /\ j \in Alive
    BY <1>0, <2>1, InDoes, JobShape
  <2>. DEFINE J == [job[j] EXCEPT !.est = "children"]
  <2>3. J.est = "children"
    BY <2>2 DEF JobStates
  <2>4. Going(w, J)
    BY <1>0, <1>4, StartExplorationDoes
  <2>. HIDE DEF J
  <2>5. j # ImplementRoot /\ j # RootJob /\ \A k : j # Implementation(k)
    BY <2>2, JobNames DEF ImplementRoot
  <2>6. RootAlone'
    BY <2>4, <2>5, RootGoing
  <2>7. \A k \in Groups : gest'[k] # gest[k] => k = g /\ gest'[k] = "exploring"
    BY <2>1 DEF TypeOK
  <2>8. Marked'
    BY <2>2, <2>3, <2>4, <2>5, <2>7, MarkedWork
  <2>. QED
    BY <2>6, <2>8
<1>5. CASE EevtExploreChildren(w)
  <2>1. In(w, "GroupExploration", "children")
    BY <1>5 DEF EevtExploreChildren, Runs
  <2>2. /\ j \in Jobs /\ j.type = "GroupExploration" /\ job[j] \in JobStates
        /\ g \in Groups /\ j = Exploration(g) /\ j \in Alive /\ job[j].est = "children"
    BY <1>0, <2>1, InDoes, JobShape
  <2>. DEFINE new == Unexplored(g)
              kids == PassKids("GroupExpressionExploration", new, "-")
              J1 == [[job[j] EXCEPT !.seen = @ \union new] EXCEPT !.waits = kids]
              J2 == [job[j] EXCEPT !.est = IF g = Root THEN "merging" ELSE "done"]
  <2>3. J1.est = "children" /\ J2.est \in {"merging", "done"}
    BY <2>2 DEF JobStates
  <2>4. \/ gest' = gest /\ Forking(w, J1)
        \/ gest' = [gest EXCEPT ![g] = "explored"] /\ Going(w, J2)
    BY <1>0, <1>5, ExploreChildrenDoes
  <2>. HIDE DEF J1, J2
  <2>5. CASE gest' = gest /\ Forking(w, J1)
    BY <1>2, <2>2, <2>3, <2>5
  <2>6. CASE gest' = [gest EXCEPT ![g] = "explored"] /\ Going(w, J2)
    <3>1. j # ImplementRoot /\ j # RootJob /\ \A k : j # Implementation(k)
      BY <2>2, JobNames DEF ImplementRoot
    <3>2. RootAlone'
      BY <2>6, <3>1, RootGoing
    <3>3. \A k \in Groups : gest'[k] # gest[k] => k = g /\ gest'[k] = "explored"
      BY <2>6 DEF TypeOK
    <3>4. J2.est = "merging" => g = Root
      BY <2>2 DEF J2, JobStates
    <3>5. \A k : j = Exploration(k) => k = g
      BY <2>2, JobNames
    <3>6. Marked'
      BY <2>2, <2>3, <2>6, <3>1, <3>3, <3>4, <3>5, MarkedWork
    <3>. QED
      BY <3>2, <3>6
  <2>. QED
    BY <2>4, <2>5, <2>6
<1>6. CASE FinalizeExploration(w)
  <2>1. In(w, "GroupExploration", "merging") /\ gest' = gest
    BY <1>6 DEF FinalizeExploration
  <2>2. [job[j] EXCEPT !.est = "done"].est = "done"
    BY <1>0, <2>1, InDoes DEF JobStates
  <2>. QED
    BY <1>0, <1>1, <1>6, <2>1, <2>2, FinalizeExplorationDoes
<1>7. CASE EevtStartImplementation(w)
  <2>1. In(w, "GroupImplementation", "initialized")
    BY <1>7 DEF EevtStartImplementation, Runs
  <2>2. /\ j \in Jobs /\ j.type = "GroupImplementation" /\ job[j] \in JobStates
        /\ g \in Groups /\ j = Implementation(g) /\ j \in Alive /\ job[j].est = "initialized"
        /\ job[j].waits = {}
    BY <1>0, <2>1, InDoes, JobShape
  <2>3. j # RootJob /\ (\A k : j # Exploration(k)) /\ (j = ImplementRoot => g = Root)
        /\ \A k : j = Implementation(k) => k = g
    BY <2>2, JobNames DEF ImplementRoot
  <2>. DEFINE J1 == [job[j] EXCEPT !.waits = {Exploration(g)}]
              J2 == [job[j] EXCEPT !.est = "children"]
  <2>4. J1.est = "initialized" /\ J1.waits = {Exploration(g)} /\ J2.est = "children"
    BY <2>2 DEF JobStates
  <2>5. \/ gest' = gest /\ Forking(w, J1)
        \/ gest[g] \in Explored /\ gest' = [gest EXCEPT ![g] = "implementing"] /\ Going(w, J2)
    BY <1>0, <1>7, StartImplementationDoes
  <2>. HIDE DEF J1, J2
  <2>6. CASE gest' = gest /\ Forking(w, J1)
    <3>1. RootAlone'
      BY <2>2, <2>3, <2>4, <2>6, RootForking, RootNames DEF ExploreRoot
    <3>2. Marked'
      BY <2>2, <2>4, <2>6, MarkedWork
    <3>. QED
      BY <3>1, <3>2
  <2>7. CASE gest[g] \in Explored /\ gest' = [gest EXCEPT ![g] = "implementing"] /\ Going(w, J2)
    <3>1. gest[g] # "unexplored"
      BY <2>7 DEF Explored
    <3>2. ASSUME j = ImplementRoot PROVE ExploreRoot \in completed
      <4>1. ExploreRoot \in completed \/ ExploreRoot \in Alive
        BY <2>2, <2>3, <3>1, <3>2 DEF Marked, ExploreRoot
      <4>. QED
        BY <2>2, <3>2, <4>1, RootNames DEF RootAlone
    <3>3. RootAlone'
      BY <2>3, <2>7, <3>2, RootGoing
    <3>4. \A k \in Groups : k # g => gest'[k] = gest[k]
      BY <2>7 DEF TypeOK
    <3>5. gest'[g] = "implementing"
      BY <2>2, <2>7 DEF TypeOK
    <3>6. Marked'
      BY <2>2, <2>3, <2>4, <2>7, <3>1, <3>4, <3>5, MarkedWork
    <3>. QED
      BY <3>3, <3>6
  <2>. QED
    BY <2>5, <2>6, <2>7
<1>8. CASE EevtImplementChildren(w)
  <2>1. In(w, "GroupImplementation", "children")
    BY <1>8 DEF EevtImplementChildren, Runs
  <2>2. /\ j \in Jobs /\ j.type = "GroupImplementation" /\ job[j] \in JobStates
        /\ g \in Groups /\ j = Implementation(g) /\ j \in Alive /\ job[j].est = "children"
    BY <1>0, <2>1, InDoes, JobShape
  <2>. DEFINE new == Unimplemented(g)
              kids == PassKids("GroupExpressionImplementation", new, "-")
              J1 == [[job[j] EXCEPT !.seen = @ \union new] EXCEPT !.waits = kids]
              J2 == [job[j] EXCEPT !.est = "done"]
  <2>3. J1.est = "children" /\ J2.est = "done"
    BY <2>2 DEF JobStates
  <2>4. \/ gest' = gest /\ Forking(w, J1)
        \/ gest' = [gest EXCEPT ![g] = "implemented"] /\ Going(w, J2)
    BY <1>0, <1>8, ImplementChildrenDoes
  <2>. HIDE DEF J1, J2
  <2>5. CASE gest' = gest /\ Forking(w, J1)
    BY <1>3, <2>2, <2>3, <2>5
  <2>6. CASE gest' = [gest EXCEPT ![g] = "implemented"] /\ Going(w, J2)
    <3>1. RootAlone'
      BY <2>3, <2>6, RootGoing
    <3>2. gest[g] # "unexplored"
      BY <2>2 DEF Marked
    <3>3. \A k \in Groups : gest'[k] # gest[k] => k = g /\ gest'[k] = "implemented"
      BY <2>6 DEF TypeOK
    <3>4. Marked'
      BY <2>3, <2>6, <3>2, <3>3, MarkedWork
    <3>. QED
      BY <3>1, <3>4
  <2>. QED
    BY <2>4, <2>5, <2>6
<1>9. CASE EevtStartOptimization(w)
  <2>1. In(w, "GroupOptimization", "initialized")
    BY <1>9 DEF EevtStartOptimization, Runs
  <2>2. /\ j \in Jobs /\ j.type = "GroupOptimization" /\ job[j] \in JobStates
        /\ g \in Groups /\ j \in Alive /\ job[j].est = "initialized" /\ job[j].waits = {}
    BY <1>0, <2>1, InDoes, JobShape
  <2>3. /\ j # ImplementRoot /\ (\A k : j # Implementation(k)) /\ (j = RootJob => g = Root)
        /\ (\A k : j # Exploration(k))
    BY <2>2, JobNames DEF ImplementRoot
  <2>. DEFINE J1 == [job[j] EXCEPT !.waits = {Implementation(g)}]
              J2 == [job[j] EXCEPT !.est = "children", !.eol = MaxLevel(g)]
  <2>4. J1.est = "initialized" /\ J1.waits = {Implementation(g)} /\ J2.est = "children"
    BY <2>2 DEF JobStates
  <2>5. /\ gest' = gest
        /\ Forking(w, J1) \/ (gest[g] = "implemented" /\ Going(w, J2))
    BY <1>0, <1>9, StartOptimizationDoes DEF memo
  <2>. HIDE DEF J1, J2
  <2>6. Marked'
    BY <2>2, <2>3, <2>4, <2>5, MarkedWork
  <2>7. CASE Forking(w, J1)
    <3>1. RootAlone'
      BY <2>2, <2>3, <2>4, <2>7, RootForking, RootNames DEF ImplementRoot
    <3>. QED
      BY <2>6, <3>1
  <2>8. CASE gest[g] = "implemented" /\ Going(w, J2)
    <3>1. ASSUME j = RootJob PROVE ExploreRoot \in completed
      <4>1. ExploreRoot \in completed \/ ExploreRoot \in Alive
        BY <2>2, <2>3, <2>8, <3>1 DEF Marked, ExploreRoot
      <4>. QED
        BY <2>2, <3>1, <4>1, RootNames DEF RootAlone, RootBusy
    <3>2. RootAlone'
      BY <2>3, <2>8, <3>1, RootGoing
    <3>. QED
      BY <2>6, <3>2
  <2>. QED
    BY <2>5, <2>7, <2>8
<1>10. CASE EevtOptimizeChildren(w)
  <2>1. In(w, "GroupOptimization", "children") /\ gest' = gest
    BY <1>10 DEF EevtOptimizeChildren, Runs
  <2>2. job[j] \in JobStates /\ job[j].est = "children"
    BY <1>0, <2>1, InDoes
  <2>. DEFINE new == PhysicalIn(g) \ job[j].seen
              kids == PassKids("GroupExpressionOptimization",
                               {x \in new : FOptimizeChild(j, x)}, j.for)
              J1 == [[job[j] EXCEPT !.seen = @ \union new] EXCEPT !.waits = kids]
              J2 == [job[j] EXCEPT !.est = "damp"]
  <2>3. J1.est = "children" /\ J2.est = "damp"
    BY <2>2 DEF JobStates
  <2>4. Forking(w, J1) \/ Going(w, J2)
    BY <1>0, <1>10, OptimizeChildrenDoes
  <2>. HIDE DEF J1, J2
  <2>5. CASE Forking(w, J1)
    BY <1>3, <2>1, <2>2, <2>3, <2>5
  <2>6. CASE Going(w, J2)
    BY <1>1, <2>1, <2>2, <2>3, <2>6
  <2>. QED
    BY <2>4, <2>5, <2>6
<1>11. CASE EevtCompleteOptimization(w)
  <2>1. In(w, "GroupOptimization", "damp")
    BY <1>11 DEF EevtCompleteOptimization, Runs
  <2>2. /\ j \in Jobs /\ j.type = "GroupOptimization" /\ job[j] \in JobStates
        /\ j \in Alive /\ job[j].est = "damp"
    BY <1>0, <2>1, InDoes
  <2>. DEFINE J == IF job[j].eol = "high" THEN Damp(job[j]) ELSE [job[j] EXCEPT !.est = "done"]
  <2>3. J.est \in {"children", "done"}
    BY <2>2 DEF JobStates, Damp
  <2>4. Going(w, J) /\ gest' = gest
    BY <1>0, <1>11, CompleteOptimizationDoes DEF memo
  <2>. HIDE DEF J
  <2>5. j # ImplementRoot /\ \A k : j # Implementation(k)
    BY <2>2, JobNames DEF ImplementRoot
  <2>6. j = RootJob => ExploreRoot \in completed
    BY <2>2 DEF RootAlone
  <2>7. RootAlone'
    BY <2>4, <2>5, <2>6, RootGoing
  <2>8. Marked'
    BY <2>3, <2>4, <2>5, MarkedWork
  <2>. QED
    BY <2>7, <2>8
<1>12. CASE ScheduleChildGroupsJobs(w)
  <2>1. PhaseJob(w, "initialized") /\ gest' = gest
    BY <1>12 DEF ScheduleChildGroupsJobs
  <2>2. /\ j \in Jobs /\ j.type \in PhaseTypes
        /\ [[job[j] EXCEPT !.est = "children"] EXCEPT !.waits = KidJobs(j)].est = "children"
    BY <1>0, <2>1, PhaseIn DEF JobStates
  <2>3. j.type \notin {"GroupImplementation", "GroupOptimization"}
    BY <2>2 DEF PhaseTypes
  <2>. QED
    BY <1>0, <1>2, <1>12, <2>1, <2>2, <2>3, ScheduleKidsDoes
<1>13. CASE ScheduleApplicableTransformations(w)
  <2>1. PhaseJob(w, "children") /\ gest' = gest
    BY <1>13 DEF ScheduleApplicableTransformations
  <2>2. /\ j \in Jobs /\ j.type \in PhaseTypes
        /\ [[job[j] EXCEPT !.est = "self"] EXCEPT !.waits = TransformationsOf(j, stage)].est
             = "self"
    BY <1>0, <2>1, PhaseIn DEF JobStates
  <2>3. j.type \notin {"GroupImplementation", "GroupOptimization"}
    BY <2>2 DEF PhaseTypes
  <2>. QED
    BY <1>0, <1>2, <1>13, <2>1, <2>2, <2>3, ScheduleTransformationsDoes
<1>14. CASE FinalizeExpression(w)
  <2>1. PhaseJob(w, "self") /\ gest' = gest
    BY <1>14 DEF FinalizeExpression
  <2>2. [job[j] EXCEPT !.est = "done"].est = "done"
    BY <1>0, <2>1, PhaseIn DEF JobStates
  <2>. QED
    BY <1>0, <1>1, <1>14, <2>1, <2>2, FinalizeExpressionDoes
<1>15. CASE EevtTransform(w)
  <2>1. In(w, "Transformation", "initialized") /\ gest' = gest
    BY <1>15 DEF EevtTransform, Runs
  <2>2. [job[j] EXCEPT !.est = "done"].est = "done"
    BY <1>0, <2>1, InDoes DEF JobStates
  <2>. QED
    BY <1>0, <1>1, <1>15, <2>1, <2>2, TransformDoes
\* Optimization of an expression leaves the groups alone.
<1>16. ASSUME NEW J, Going(w, J) \/ Forking(w, J),
              gest' = gest, j \in Jobs, j.type = "GroupExpressionOptimization",
              J.est \notin {"initialized", "merging"}
       PROVE  RootAlone' /\ Marked'
  <2>1. j # RootJob /\ j # ImplementRoot /\ (\A k : j # Implementation(k))
        /\ \A k : j # Exploration(k)
    BY <1>16, JobNames DEF ImplementRoot
  <2>2. CASE Going(w, J)
    BY <1>16, <2>1, <2>2, RootGoing, MarkedWork
  <2>3. CASE Forking(w, J)
    BY <1>2, <1>16, <2>3
  <2>. QED
    BY <1>16, <2>2, <2>3
<1>17. CASE EevtInitialize(w)
  <2>1. In(w, "GroupExpressionOptimization", "initialized")
    BY <1>17 DEF EevtInitialize, Runs
  <2>2. j \in Jobs /\ j.type = "GroupExpressionOptimization" /\ job[j] \in JobStates
    BY <1>0, <2>1, InDoes
  <2>3. PICK est \in {"done", "children"} : Going(w, [job[j] EXCEPT !.est = est])
    BY <1>0, <1>17, InitializeDoes
  <2>4. gest' = gest
    BY <1>17 DEF EevtInitialize
  <2>5. [job[j] EXCEPT !.est = est].est = est
    BY <2>2 DEF JobStates
  <2>. QED
    BY <1>16, <2>2, <2>3, <2>4, <2>5
<1>18. CASE EevtOptimizeChild(w)
  <2>1. In(w, "GroupExpressionOptimization", "children")
    BY <1>18 DEF EevtOptimizeChild, Runs
  <2>2. j \in Jobs /\ j.type = "GroupExpressionOptimization" /\ job[j] \in JobStates
        /\ job[j].est = "children"
    BY <1>0, <2>1, InDoes
  <2>. DEFINE i == job[j].child
              J1 == [job[j] EXCEPT !.est = "optimized"]
              J2 == [job[j] EXCEPT !.est = "done"]
              J3 == [[job[j] EXCEPT !.child = i + 1] EXCEPT !.waits = {NextKid(j.on, j.for, i)}]
  <2>3. J1.est = "optimized" /\ J2.est = "done" /\ J3.est = "children"
    BY <2>2 DEF JobStates
  <2>4. Going(w, J1) \/ Going(w, J2) \/ Forking(w, J3)
    BY <1>0, <1>18, OptimizeChildDoes
  <2>5. gest' = gest
    BY <1>18 DEF EevtOptimizeChild
  <2>. HIDE DEF J1, J2, J3
  <2>. QED
    BY <1>16, <2>2, <2>3, <2>4, <2>5
<1>19. CASE EevtAddEnforcers(w)
  <2>1. In(w, "GroupExpressionOptimization", "optimized")
    BY <1>19 DEF EevtAddEnforcers, Runs
  <2>2. j \in Jobs /\ j.type = "GroupExpressionOptimization" /\ job[j] \in JobStates
    BY <1>0, <2>1, InDoes
  <2>3. PICK est \in {"done", "self"} : Going(w, [job[j] EXCEPT !.est = est])
    BY <1>0, <1>19, AddEnforcersDoes
  <2>4. gest' = gest
    BY <1>19 DEF EevtAddEnforcers
  <2>5. [job[j] EXCEPT !.est = est].est = est
    BY <2>2 DEF JobStates
  <2>. QED
    BY <1>16, <2>2, <2>3, <2>4, <2>5
<1>20. CASE EevtOptimizeSelf(w)
  <2>1. In(w, "GroupExpressionOptimization", "self")
    BY <1>20 DEF EevtOptimizeSelf, Runs
  <2>2. j \in Jobs /\ j.type = "GroupExpressionOptimization" /\ job[j] \in JobStates
    BY <1>0, <2>1, InDoes
  <2>. DEFINE J == [job[j] EXCEPT !.est = "update", !.read = best[<<GroupOf[j.on], j.for>>],
                                  !.cost = PlanCost(j.on, j.for)]
  <2>3. J.est = "update"
    BY <2>2 DEF JobStates
  <2>4. Going(w, J)
    BY <1>0, <1>20, OptimizeSelfDoes
  <2>5. gest' = gest
    BY <1>20 DEF EevtOptimizeSelf
  <2>. HIDE DEF J
  <2>. QED
    BY <1>16, <2>2, <2>3, <2>4, <2>5
<1>21. CASE UpdateBestCost(w)
  <2>1. In(w, "GroupExpressionOptimization", "update") /\ gest' = gest
    BY <1>21 DEF UpdateBestCost
  <2>2. [job[j] EXCEPT !.est = "done"].est = "done"
    BY <1>0, <2>1, InDoes DEF JobStates
  <2>. QED
    BY <1>0, <1>1, <1>21, <2>1, <2>2, UpdateBestCostDoes
<1>22. CASE EndJob(w)
  <2>1. at[w] # NoJob
    BY <1>22 DEF EndJob, Working
  <2>2. [job[j] EXCEPT !.est = "done"].est = "done"
    BY <1>0, <2>1, InHand DEF JobStates
  <2>. QED
    BY <1>0, <1>1, <1>22, <2>2, EndJobDoes DEF memo
<1>. QED
  BY <1>4, <1>5, <1>6, <1>7, <1>8, <1>9, <1>10, <1>11, <1>12, <1>13, <1>14, <1>15, <1>17,
     <1>18, <1>19, <1>20, <1>21, <1>22 DEF GroupStep, ExprStep

LEMMA RootStep ==
  ASSUME TypeOK, Wired, RootAlone, Marked, [Next]_vars
  PROVE  RootAlone' /\ Marked'
<1>1. HandsOK
  BY DEF Wired
<1>2. ASSUME NEW w \in Workers, NEW e \in scheduled, Retrieve(w, e)
      PROVE  RootAlone' /\ Marked'
  <2>1. Starting(w, e) /\ job'[e.job].est = "initialized" /\ gest' = gest
    BY <1>1, <1>2, RetrieveDoes DEF Retrieve, memo
  <2>. QED
    BY <2>1, RootStarting, MarkedStarting
<1>3. ASSUME NEW w \in Workers, NEW e \in scheduled, Queue(w, e)
      PROVE  RootAlone' /\ Marked'
  <2>1. Queueing(e) /\ gest' = gest
    BY <1>1, <1>3, QueueDoes DEF Queue, memo
  <2>. QED
    BY <2>1, RootQueueing, MarkedQueueing
<1>4. ASSUME NEW w \in Workers, NEW e \in scheduled, FindCompleted(w, e)
      PROVE  RootAlone' /\ Marked'
  <2>1. Finding(e) /\ gest' = gest
    BY <1>1, <1>4, FindDoes DEF FindCompleted, memo
  <2>. QED
    BY <2>1, RootFinding, MarkedFinding
<1>5. ASSUME NEW w \in Workers, GroupStep(w) \/ ExprStep(w) \/ EndJob(w)
      PROVE  RootAlone' /\ Marked'
  BY <1>5, RootWork
<1>6. ASSUME NEW w \in Workers, Complete(w)
      PROVE  RootAlone' /\ Marked'
  <2>1. Ending(w) /\ gest' = gest
    BY <1>1, <1>6, CompleteDoes DEF Complete, memo
  <2>. QED
    BY <2>1, RootEnding, MarkedEnding
<1>7. CASE UNCHANGED <<gest, scheduled, job, completed>>
  BY <1>7 DEF RootAlone, RootBusy, Marked, Alive, Added
<1>8. CASE FinalizeSearchStage
  <2>1. /\ Alive' = {} /\ completed' = {} /\ Added' \subseteq {RootJob}
        /\ \A g \in Groups : gest'[g] = "unexplored"
    <3>1. /\ DOMAIN job = {} /\ job' = job
          /\ scheduled' = {} \/ scheduled' = {Child(RootJob, NoJob)}
          /\ gest' = [g \in Groups |-> "unexplored"] /\ completed' = {}
      BY <1>8 DEF FinalizeSearchStage, ResetGroupStates, Idle
    <3>. QED
      BY <3>1 DEF Alive, Added, Child
  <2>. QED
    BY <2>1, RootNames DEF RootAlone, RootBusy, Marked, Alive
<1>9. ASSUME NEW w \in Workers, (\E k \in DOMAIN job : Resume(w, k)) \/ Release(w)
      PROVE  UNCHANGED <<gest, scheduled, job, completed>>
  BY <1>9 DEF Resume, Release, memo
<1>10. TimeOut \/ UNCHANGED vars => UNCHANGED <<gest, scheduled, job, completed>>
  BY DEF TimeOut, memo, vars
<1>. QED
  BY <1>2, <1>3, <1>4, <1>5, <1>6, <1>7, <1>8, <1>9, <1>10 DEF Next, Take, Work

LEMMA RootFirst ==
  ASSUME Init
  PROVE  RootAlone /\ Marked
<1>1. /\ Alive = {} /\ completed = {} /\ Added = {RootJob}
      /\ \A g \in Groups : gest[g] = "unexplored"
  BY DEF Init, Alive, Added
<1>. QED
  BY <1>1, RootNames DEF RootAlone, RootBusy, Marked

\* While the root's exploration has no children and is not completed.
LEMMA AloneInMerge ==
  ASSUME TypeOK, Wired, RootAlone, Marked
  PROVE  MergeAlone
<1>. SUFFICES ASSUME NEW w \in Workers, In(w, "GroupExploration", "merging")
              PROVE  /\ Alive = {ExploreRoot, ImplementRoot, RootJob}
                     /\ scheduled = {}
  BY DEF MergeAlone, ExploreRoot, ImplementRoot, Alive
<1>. DEFINE E == ExploreRoot
            I == ImplementRoot
<1>1. /\ at[w] # NoJob /\ at[w].type = "GroupExploration" /\ job[at[w]].est = "merging"
      /\ at[w] \in Alive /\ at[w] \in Jobs /\ job[at[w]].waits = {} /\ at[w] \notin completed
  BY InDoes DEF Wired
<1>2. at[w] = E
  BY <1>1, JobShape DEF Marked, ExploreRoot
<1>3. /\ I \in Alive /\ job[I].est = "initialized" /\ E \in job[I].waits
      /\ RootJob \in Alive /\ job[RootJob].est = "initialized" /\ I \in job[RootJob].waits
  BY <1>1, <1>2, RootNames DEF RootAlone, RootBusy
<1>4. \A c \in job[RootJob].waits : c = I
  <2>1. \A c \in job[RootJob].waits : Awaits(RootJob, job[RootJob], c, exprs, stage)
    BY <1>3 DEF Wired, WaitsFor
  <2>. QED
    BY <1>3, <2>1, JobNames DEF Awaits, ImplementRoot, PhaseTypes
<1>5. \A c \in job[I].waits : c = E
  <2>1. \A c \in job[I].waits : Awaits(I, job[I], c, exprs, stage)
    BY <1>3 DEF Wired, WaitsFor
  <2>2. I.type = "GroupImplementation" /\ I.on = Root
    BY JobNames DEF ImplementRoot
  <2>. QED
    BY <1>3, <2>1, <2>2 DEF Awaits, ExploreRoot, PhaseTypes
<1>6. Alive = {E, I, RootJob}
  <2>. DEFINE S == {E, I, RootJob}
  <2>1. S \in SUBSET Alive /\ \A p \in S : job[p].waits \intersect Alive \subseteq S
    BY <1>1, <1>2, <1>3, <1>4, <1>5
  <2>. QED
    BY <2>1 DEF Wired, FromRoot
<1>7. ASSUME NEW e \in scheduled PROVE FALSE
  <2>1. e.parent # NoJob /\ e = Child(e.job, e.parent)
    BY <1>3 DEF Wired, RootOK, TypeOK, Child
  <2>2. e.parent \in Alive /\ e.job \in job[e.parent].waits
    BY <2>1 DEF Wired, WaitsOK
  <2>3. e = Child(I, RootJob) \/ e = Child(E, I)
    BY <1>1, <1>2, <1>4, <1>5, <1>6, <2>1, <2>2
  <2>4. PICK p \in job[I].parents : TRUE
    BY <1>3 DEF Wired, WaitsOK
  <2>5. PICK q \in job[E].parents : TRUE
    BY <1>6 DEF Wired, WaitsOK
  <2>6. p # NoJob /\ q # NoJob
    BY <1>6, <2>4, <2>5, RootNames DEF Wired, RootOK
  <2>7. /\ p \in Alive /\ I \in job[p].waits /\ Child(I, p) \notin scheduled
        /\ q \in Alive /\ E \in job[q].waits /\ Child(E, q) \notin scheduled
    BY <1>6, <2>4, <2>5, <2>6 DEF Wired, WaitsOK
  <2>8. p = RootJob /\ q = I
    BY <1>1, <1>2, <1>4, <1>5, <1>6, <2>7, RootNames
  <2>. QED
    BY <2>3, <2>7, <2>8
<1>. QED
  BY <1>6, <1>7

(***************************************************************************)
(* Groups are merged by one job alone: while the root group's exploration  *)
(* job merges groups and derives statistics no job is alive but it and the *)
(* two that wait for it, and none is scheduled, for any number of workers. *)
(* The children of the exploration are then done, and every job there is   *)
(* one waits for who is waited for, up to the root's optimization.         *)
(***************************************************************************)
THEOREM SearchMergeAlone == Spec => []MergeAlone
<1>1. Init => TypeOK /\ Wired /\ RootAlone /\ Marked
  BY TypeFirst, WiredFirst, RootFirst
<1>2. TypeOK /\ Wired /\ RootAlone /\ Marked /\ [Next]_vars
        => (TypeOK /\ Wired /\ RootAlone /\ Marked)'
  BY WiredStep, RootStep
<1>3. TypeOK /\ Wired /\ RootAlone /\ Marked => MergeAlone
  BY AloneInMerge
<1>. QED
  BY <1>1, <1>2, <1>3, PTL DEF Spec

-----------------------------------------------------------------------------
(* What is recorded of a group is true                                     *)

\* The state of a group's jobs is that of the group, while there is time.
Stated ==
    \A g \in Groups :
        /\ gest[g] \in {"implementing", "implemented"} =>
              \/ Implementation(g) \in completed
              \/ Implementation(g) \in Alive /\ job[Implementation(g)].est # "initialized"
        /\ ~timedOut =>
              /\ Exploration(g) \in completed => gest[g] \in Explored
              /\ Exploration(g) \in Alive =>
                    /\ job[Exploration(g)].est = "children" => gest[g] = "exploring"
                    /\ job[Exploration(g)].est \in {"merging", "done"} => gest[g] \in Explored
              /\ Implementation(g) \in completed => gest[g] = "implemented"
              /\ Implementation(g) \in Alive =>
                    /\ job[Implementation(g)].est = "children" => gest[g] = "implementing"
                    /\ job[Implementation(g)].est = "done" => gest[g] = "implemented"

MadeJob(j, E) == IF j.type \in Queued THEN MadeWith[j.on] \in E ELSE j.on \in E

\* What is worked on is in the memo, and all it mentions.
Made ==
    /\ Initial \subseteq exprs /\ Whole(exprs)
    /\ \A j \in Alive \union Added : MadeJob(j, exprs)
    /\ \A g \in Groups : gest[g] # "unexplored" => MadeWith[g] \in exprs

KidJob(j, k) == IF Explores(j) THEN Exploration(k) ELSE Implementation(k)

PhaseDone(j, k, G) == IF Explores(j) THEN G[k] \in Explored ELSE G[k] = "implemented"

\* What the job of an expression has done it waits for, or it is done.
ProgressOf(j, J, G, E, n) ==
    /\ j.type \in PhaseTypes /\ J.est \in {"children", "self"} =>
          \A k \in Range(Kids[j.on]) : PhaseDone(j, k, G) \/ KidJob(j, k) \in J.waits
    /\ j.type \in PhaseTypes /\ J.est = "self" =>
          \A xf \in Xforms[Phase(j)][n][j.on] :
              Result[xf] \subseteq E \/ ExprJob("Transformation", j.on, xf) \in J.waits
    /\ j.type = "Transformation" /\ J.est = "done" => Result[j.for] \subseteq E

Progress == ~timedOut => \A j \in Alive : ProgressOf(j, job[j], gest, exprs, stage)

ExploreDone(x, G, E, n) ==
    /\ \A k \in Range(Kids[x]) : G[k] \in Explored
    /\ \A xf \in Xforms["explore"][n][x] : Result[xf] \subseteq E

ImplementDone(x, G, E, n) ==
    /\ \A k \in Range(Kids[x]) : G[k] = "implemented"
    /\ \A xf \in Xforms["implement"][n][x] : Result[xf] \subseteq E

\* What is recorded of an expression is true.
XDone ==
    \A x \in Logical :
        /\ xest[x] \in Explored => ExploreDone(x, gest, exprs, stage)
        /\ xest[x] = "implemented" => ImplementDone(x, gest, exprs, stage)

\* What is recorded of a group is recorded of its expressions.
GDone ==
    \A x \in exprs \intersect Logical :
        /\ gest[GroupOf[x]] \in Explored => xest[x] \in Explored
        /\ gest[GroupOf[x]] = "implemented" => xest[x] = "implemented"

Truth == Stated /\ Made /\ Progress /\ XDone /\ GDone

\* A job but the root's has a parent that waits for it.
LEMMA ParentOf ==
  ASSUME TypeOK, Wired, NEW j \in Alive, j # RootJob
  PROVE  \E p \in Alive : /\ p \in Jobs /\ j \in job[p].waits
                          /\ Awaits(p, job[p], j, exprs, stage)
<1>1. PICK p \in job[j].parents : TRUE
  BY DEF Wired, WaitsOK
<1>2. p # NoJob
  BY DEF Wired, RootOK
<1>3. p \in Alive /\ j \in job[p].waits
  BY <1>2 DEF Wired, WaitsOK
<1>. QED
  BY <1>3 DEF Wired, WaitsFor, TypeOK, Alive

LEMMA PhaseParent ==
  ASSUME TypeOK, Wired, NEW j \in Alive, j.type \in PhaseTypes
  PROVE  /\ j.on \in exprs /\ j.on \in Logical /\ GroupOf[j.on] \in Groups
         /\ IF Explores(j)
            THEN /\ Exploration(GroupOf[j.on]) \in Alive
                 /\ job[Exploration(GroupOf[j.on])].est = "children"
            ELSE /\ Implementation(GroupOf[j.on]) \in Alive
                 /\ job[Implementation(GroupOf[j.on])].est = "children"
<1>1. j \in Jobs /\ j # RootJob
  BY JobNames DEF TypeOK, Alive, PhaseTypes
<1>2. PICK p \in Alive : p \in Jobs /\ Awaits(p, job[p], j, exprs, stage)
  BY <1>1, ParentOf
<1>3. j.on \in Logical /\ GroupOf[j.on] \in Groups
  BY <1>1, JobShape, MemoAssumption
<1>4. CASE j.type = "GroupExpressionExploration"
  <2>1. /\ p.type = "GroupExploration" /\ job[p].est = "children"
        /\ j.on \in LogicalOf(exprs, p.on)
    BY <1>2, <1>4, JobNames DEF Awaits, KidJobs, PhaseTypes
  <2>. QED
    BY <1>2, <1>3, <1>4, <2>1, JobShape DEF Explores, LogicalOf
<1>5. CASE j.type = "GroupExpressionImplementation"
  <2>1. /\ p.type = "GroupImplementation" /\ job[p].est = "children"
        /\ j.on \in LogicalOf(exprs, p.on)
    BY <1>2, <1>5, JobNames DEF Awaits, KidJobs, PhaseTypes
  <2>. QED
    BY <1>2, <1>3, <1>5, <2>1, JobShape DEF Explores, LogicalOf
<1>. QED
  BY <1>4, <1>5 DEF PhaseTypes

LEMMA TransformationParent ==
  ASSUME TypeOK, Wired, NEW j \in Alive, j.type = "Transformation"
  PROVE  \E p \in Alive : /\ p \in Jobs /\ p.type \in PhaseTypes /\ p.on = j.on
                          /\ job[p].est = "self" /\ j \in job[p].waits
                          /\ j.for \in Xforms[Phase(p)][stage][j.on]
<1>1. j \in Jobs /\ j # RootJob
  BY JobNames DEF TypeOK, Alive
<1>2. PICK p \in Alive : p \in Jobs /\ j \in job[p].waits /\ Awaits(p, job[p], j, exprs, stage)
  BY <1>1, ParentOf
<1>3. /\ p.type \in PhaseTypes /\ p.on = j.on /\ job[p].est = "self"
      /\ j.for \in Xforms[Phase(p)][stage][j.on]
  BY <1>1, <1>2, JobNames DEF Awaits, KidJobs, PhaseTypes
<1>. QED
  BY <1>2, <1>3

LEMMA OptimizationParent ==
  ASSUME TypeOK, Wired, NEW j \in Alive, j.type = "GroupExpressionOptimization"
  PROVE  /\ Optimization(GroupOf[j.on], j.for) \in Alive
         /\ job[Optimization(GroupOf[j.on], j.for)].est = "children"
         /\ j.on \in exprs
<1>1. j \in Jobs /\ j # RootJob
  BY JobNames DEF TypeOK, Alive
<1>2. PICK p \in Alive : p \in Jobs /\ Awaits(p, job[p], j, exprs, stage)
  BY <1>1, ParentOf
<1>3. /\ p.type = "GroupOptimization" /\ job[p].est = "children"
      /\ j.on \in PhysicalOf(exprs, p.on) /\ j.for = p.for
  BY <1>2, JobNames DEF Awaits, KidJobs, PhaseTypes
<1>4. p = Optimization(p.on, p.for) /\ p.on = GroupOf[j.on]
  BY <1>2, <1>3, JobShape DEF PhysicalOf
<1>. QED
  BY <1>3, <1>4 DEF PhysicalOf

\* How a step moves a group on.
Move(w, J, g) ==
    \/ gest'[g] = gest[g]
    \/ at[w] = Exploration(g) /\ gest[g] = "unexplored" /\ gest'[g] = "exploring"
    \/ at[w] = Exploration(g) /\ gest[g] = "exploring" /\ gest'[g] = "explored"
    \/ /\ at[w] = Implementation(g) /\ J.est # "initialized"
       /\ gest[g] = "explored" /\ gest'[g] = "implementing"
    \/ /\ at[w] = Implementation(g) /\ J.est # "initialized"
       /\ gest[g] = "implementing" /\ gest'[g] = "implemented"

\* The job's new state is that of the group.
Fits(w, J, g) ==
    /\ at[w] = Exploration(g) /\ ~timedOut =>
          /\ J.est = "children" => gest'[g] = "exploring"
          /\ J.est \in {"merging", "done"} => gest'[g] \in Explored
    /\ at[w] = Implementation(g) /\ ~timedOut =>
          /\ J.est = "children" => gest'[g] = "implementing"
          /\ J.est = "done" => gest'[g] = "implemented"
    /\ at[w] = Implementation(g) /\ J.est = "initialized" => job[at[w]].est = "initialized"

LEMMA StatedWork ==
  ASSUME TypeOK, Wired, Stated, NEW w, NEW J, Going(w, J) \/ Forking(w, J),
         \A g \in Groups : Move(w, J, g) /\ Fits(w, J, g), timedOut' = timedOut
  PROVE  Stated'
<1>1. /\ at[w] \in Alive /\ Alive' = Alive /\ completed' = completed /\ job'[at[w]] = J
      /\ \A k \in Alive : k # at[w] => job'[k] = job[k]
      /\ at[w] \notin completed
  BY DEF Going, Forking, Wired, HandsOK
<1>2. \A g, h : Exploration(g) # Implementation(h)
  BY JobNames
<1>3. ASSUME NEW g \in Groups, gest'[g] \in {"implementing", "implemented"}
      PROVE  \/ Implementation(g) \in completed
             \/ Implementation(g) \in Alive /\ job'[Implementation(g)].est # "initialized"
  BY <1>1, <1>3 DEF Stated, Move, Fits
<1>4. ASSUME NEW g \in Groups, ~timedOut, Exploration(g) \in completed
      PROVE  gest'[g] \in Explored
  BY <1>1, <1>2, <1>4 DEF Stated, Move, Explored
<1>5. ASSUME NEW g \in Groups, ~timedOut, Exploration(g) \in Alive
      PROVE  /\ job'[Exploration(g)].est = "children" => gest'[g] = "exploring"
             /\ job'[Exploration(g)].est \in {"merging", "done"} => gest'[g] \in Explored
  <2>1. CASE Exploration(g) = at[w]
    BY <1>1, <1>5, <2>1 DEF Fits
  <2>2. CASE Exploration(g) # at[w]
    BY <1>1, <1>2, <1>5, <2>2 DEF Stated, Move, Explored
  <2>. QED
    BY <2>1, <2>2
<1>6. ASSUME NEW g \in Groups, ~timedOut, Implementation(g) \in completed
      PROVE  gest'[g] = "implemented"
  BY <1>1, <1>2, <1>6 DEF Stated, Move, Explored
<1>7. ASSUME NEW g \in Groups, ~timedOut, Implementation(g) \in Alive
      PROVE  /\ job'[Implementation(g)].est = "children" => gest'[g] = "implementing"
             /\ job'[Implementation(g)].est = "done" => gest'[g] = "implemented"
  <2>1. CASE Implementation(g) = at[w]
    BY <1>1, <1>7, <2>1 DEF Fits
  <2>2. CASE Implementation(g) # at[w]
    BY <1>1, <1>2, <1>7, <2>2 DEF Stated, Move, Explored
  <2>. QED
    BY <2>1, <2>2
<1>. QED
  BY <1>1, <1>3, <1>4, <1>5, <1>6, <1>7 DEF Stated, Alive

LEMMA AwaitsMade ==
  ASSUME NEW E \in SUBSET Exprs, Whole(E), NEW p \in Jobs, MadeJob(p, E),
         NEW J, NEW c, NEW n, Awaits(p, J, c, E, n)
  PROVE  MadeJob(c, E)
<1>1. CASE p.type \in Queued
  BY <1>1, JobNames, JobShape DEF Awaits, MadeJob, Queued, LogicalOf, PhysicalOf, PhaseTypes
<1>2. CASE p.type \in PhaseTypes
  <2>1. p.on \in E
    BY <1>2 DEF MadeJob, Queued, PhaseTypes
  <2>2. CASE c \in KidJobs(p)
    <3>1. PICK g \in Range(Kids[p.on]) : c = Exploration(g) \/ c = Implementation(g)
      BY <2>2 DEF KidJobs
    <3>2. c.type \in Queued /\ c.on = g
      BY <3>1, JobNames DEF Queued
    <3>. QED
      BY <2>1, <3>1, <3>2 DEF MadeJob, Whole
  <2>3. CASE \E xf : c = ExprJob("Transformation", p.on, xf)
    BY <2>1, <2>3, JobNames DEF MadeJob, Queued
  <2>. QED
    BY <1>2, <2>2, <2>3 DEF Awaits, PhaseTypes
<1>3. CASE p.type = "GroupExpressionOptimization"
  <2>1. p.on \in E /\ p.on \in Exprs
    BY <1>3 DEF MadeJob, Queued
  <2>2. PICK i \in DOMAIN Kids[p.on] : c = Optimization(Kids[p.on][i], KidReq[p.on][p.for][i])
    BY <1>3 DEF Awaits, PhaseTypes
  <2>3. Kids[p.on][i] \in Range(Kids[p.on])
    BY <2>1, KidsOf
  <2>. QED
    BY <2>1, <2>2, <2>3, JobNames DEF MadeJob, Whole, Queued
<1>. QED
  BY <1>1, <1>2, <1>3 DEF Awaits, Queued, PhaseTypes

LEMMA MadeWork ==
  ASSUME TypeOK, Wired, Made, NEW w, NEW J, Going(w, J) \/ Forking(w, J),
         exprs \subseteq exprs', exprs' \subseteq Exprs, Whole(exprs'),
         \A g \in Groups : Move(w, J, g)
  PROVE  Made'
<1>1. at[w] \in Alive /\ at[w] \in Jobs /\ Alive' = Alive
  BY DEF Going, Forking, Wired, HandsOK, TypeOK, Alive
<1>2. \A j : MadeJob(j, exprs) => MadeJob(j, exprs')
  BY DEF MadeJob
<1>3. MadeJob(at[w], exprs')
  BY <1>1, <1>2 DEF Made
<1>4. ASSUME NEW j \in Alive' \union Added' PROVE MadeJob(j, exprs')
  <2>1. CASE j \in Alive \union Added
    BY <1>2, <2>1 DEF Made
  <2>2. CASE j \notin Alive \union Added
    <3>1. Forking(w, J) /\ j \in J.waits
      BY <1>1, <1>4, <2>2, ForkingAdds DEF Going, Added
    <3>2. Awaits(at[w], J, j, exprs', stage)
      BY <3>1 DEF Forking
    <3>. QED
      BY <1>1, <1>3, <3>2, AwaitsMade
  <2>. QED
    BY <2>1, <2>2
<1>5. ASSUME NEW g \in Groups, gest'[g] # "unexplored" PROVE MadeWith[g] \in exprs'
  <2>1. CASE gest'[g] = gest[g]
    BY <1>5, <2>1 DEF Made
  <2>2. CASE at[w] = Exploration(g) \/ at[w] = Implementation(g)
    BY <1>3, <2>2, JobNames DEF MadeJob, Queued
  <2>. QED
    BY <2>1, <2>2 DEF Move
<1>. QED
  BY <1>4, <1>5 DEF Made

LEMMA MadeElse ==
  ASSUME Made, Alive' \union Added' \subseteq Alive \union Added, exprs' = exprs, gest' = gest
  PROVE  Made'
BY DEF Made, Alive, Added

\* A group stays explored, and implemented, in the course of a stage.
Advancing == \A g \in Groups :
    /\ gest[g] \in Explored => gest'[g] \in Explored
    /\ gest[g] = "implemented" => gest'[g] = "implemented"

LEMMA ProgressKept ==
  ASSUME NEW j \in Jobs, NEW J, NEW G, NEW H, NEW E, NEW F, NEW n,
         E \subseteq F,
         \A g \in Groups : /\ G[g] \in Explored => H[g] \in Explored
                           /\ G[g] = "implemented" => H[g] = "implemented",
         ProgressOf(j, J, G, E, n)
  PROVE  ProgressOf(j, J, H, F, n)
<1>1. j.type \in PhaseTypes => Range(Kids[j.on]) \subseteq Groups
  BY JobShape, MemoAssumption, KidsOf
<1>. QED
  BY <1>1 DEF ProgressOf, PhaseDone

LEMMA ProgressWork ==
  ASSUME TypeOK, Wired, Progress, NEW w, NEW J, Going(w, J) \/ Forking(w, J),
         exprs \subseteq exprs', Advancing, timedOut' = timedOut,
         ~timedOut => ProgressOf(at[w], J, gest', exprs', stage)
  PROVE  Progress'
<1>1. /\ Alive' = Alive /\ job'[at[w]] = J /\ stage' = stage
      /\ \A k \in Alive : k # at[w] => job'[k] = job[k]
  BY DEF Going, Forking
<1>2. ASSUME ~timedOut, NEW j \in Alive
      PROVE  ProgressOf(j, job'[j], gest', exprs', stage')
  <2>1. CASE j = at[w]
    BY <1>1, <1>2, <2>1
  <2>2. CASE j # at[w]
    <3>1. ProgressOf(j, job[j], gest, exprs, stage) /\ j \in Jobs
      BY <1>2 DEF Progress, TypeOK, Alive
    <3>. QED
      BY <1>1, <2>2, <3>1, ProgressKept DEF Advancing
  <2>. QED
    BY <2>1, <2>2
<1>. QED
  BY <1>1, <1>2 DEF Progress, Alive

LEMMA ProgressStarting ==
  ASSUME TypeOK, Progress, NEW w, NEW e, Starting(w, e), UNCHANGED <<gest, exprs, timedOut>>,
         job'[e.job].est = "initialized"
  PROVE  Progress'
<1>1. ASSUME ~timedOut, NEW j \in Alive'
      PROVE  ProgressOf(j, job'[j], gest', exprs', stage')
  <2>1. CASE j \in Alive
    BY <1>1, <2>1 DEF Progress, Starting
  <2>2. CASE j = e.job
    BY <2>2 DEF ProgressOf
  <2>. QED
    BY <1>1, <2>1, <2>2 DEF Starting
<1>. QED
  BY <1>1 DEF Progress, Alive

\* What the end of a child has to show.
Proves(c, G, E) ==
    /\ \A k \in Groups : c = Exploration(k) => G[k] \in Explored
    /\ \A k \in Groups : c = Implementation(k) => G[k] = "implemented"
    /\ c.type = "Transformation" => Result[c.for] \subseteq E

LEMMA ProgressResumed ==
  ASSUME NEW j \in Jobs, NEW J \in JobStates, NEW K, NEW c, NEW G, NEW E, NEW n,
         ProgressOf(j, J, G, E, n), Proves(c, G, E),
         K.est = J.est, J.waits \ {c} \subseteq K.waits
  PROVE  ProgressOf(j, K, G, E, n)
<1>1. ASSUME j.type \in PhaseTypes, K.est \in {"children", "self"}, NEW k \in Range(Kids[j.on])
      PROVE  PhaseDone(j, k, G) \/ KidJob(j, k) \in K.waits
  <2>1. PhaseDone(j, k, G) \/ KidJob(j, k) \in J.waits
    BY <1>1 DEF ProgressOf
  <2>2. k \in Groups
    BY <1>1, JobShape, MemoAssumption, KidsOf
  <2>3. KidJob(j, k) = c => PhaseDone(j, k, G)
    BY <2>2 DEF KidJob, PhaseDone, Proves
  <2>. QED
    BY <2>1, <2>3
<1>2. ASSUME j.type \in PhaseTypes, K.est = "self", NEW xf \in Xforms[Phase(j)][n][j.on]
      PROVE  Result[xf] \subseteq E \/ ExprJob("Transformation", j.on, xf) \in K.waits
  <2>1. Result[xf] \subseteq E \/ ExprJob("Transformation", j.on, xf) \in J.waits
    BY <1>2 DEF ProgressOf
  <2>2. ExprJob("Transformation", j.on, xf) = c => Result[xf] \subseteq E
    BY JobNames DEF Proves
  <2>. QED
    BY <2>1, <2>2
<1>3. j.type = "Transformation" /\ K.est = "done" => Result[j.for] \subseteq E
  BY DEF ProgressOf
<1>. QED
  BY <1>1, <1>2, <1>3 DEF ProgressOf

LEMMA ProgressQueueing ==
  ASSUME TypeOK, Progress, NEW e, Queueing(e), UNCHANGED <<gest, exprs, timedOut>>
  PROVE  Progress'
<1>1. \A k \in Alive : job'[k].waits = job[k].waits /\ job'[k].est = job[k].est
  BY DEF Queueing, TypeOK, JobStates, Alive
<1>2. \A k \in Alive : ProgressOf(k, job[k], gest, exprs, stage)
                          => ProgressOf(k, job'[k], gest', exprs', stage')
  BY <1>1 DEF ProgressOf, Queueing
<1>. QED
  BY <1>2 DEF Progress, Queueing, Alive

LEMMA ProgressFinding ==
  ASSUME TypeOK, Wired, Stated, Progress, NEW e, Finding(e), UNCHANGED <<gest, exprs, timedOut>>
  PROVE  Progress'
<1>1. Alive' = Alive /\ stage' = stage /\ e.job \in completed /\ e.job.type \in Queued
  BY DEF Finding, Wired, HandsOK
<1>2. ASSUME ~timedOut PROVE Proves(e.job, gest, exprs)
  BY <1>1, <1>2 DEF Proves, Stated, Queued
<1>3. ASSUME ~timedOut, NEW j \in Alive PROVE ProgressOf(j, job'[j], gest', exprs', stage')
  <2>1. j \in Jobs /\ job[j] \in JobStates
    BY DEF TypeOK, Alive
  <2>2. job'[j].est = job[j].est /\ job[j].waits \ {e.job} \subseteq job'[j].waits
    BY <2>1 DEF Finding, Otherwise, JobStates
  <2>3. ProgressOf(j, job[j], gest, exprs, stage)
    BY <1>3 DEF Progress
  <2>. QED
    BY <1>1, <1>2, <1>3, <2>1, <2>2, <2>3, ProgressResumed
<1>. QED
  BY <1>1, <1>3 DEF Progress, Alive

LEMMA ProgressEnding ==
  ASSUME TypeOK, Wired, Stated, Progress, NEW w, Ending(w), job[at[w]].est = "done",
         UNCHANGED <<gest, exprs, timedOut>>
  PROVE  Progress'
<1>1. Alive' = Alive \ {at[w]} /\ stage' = stage /\ at[w] \in Alive
  BY DEF Ending, Wired, HandsOK
<1>2. ASSUME ~timedOut PROVE Proves(at[w], gest, exprs)
  <2>1. at[w].type = "Transformation" => Result[at[w].for] \subseteq exprs
    BY <1>1, <1>2 DEF Progress, ProgressOf
  <2>. QED
    BY <1>1, <1>2, <2>1 DEF Proves, Stated
<1>3. ASSUME ~timedOut, NEW j \in Alive' PROVE ProgressOf(j, job'[j], gest', exprs', stage')
  <2>1. j \in Alive /\ j \in Jobs /\ job[j] \in JobStates
    BY <1>1, <1>3 DEF TypeOK, Alive
  <2>2. job'[j].est = job[j].est /\ job[j].waits \ {at[w]} \subseteq job'[j].waits
    BY <1>3, <2>1 DEF Ending, Otherwise, JobStates
  <2>3. ProgressOf(j, job[j], gest, exprs, stage)
    BY <1>3, <2>1 DEF Progress
  <2>. QED
    BY <1>1, <1>2, <1>3, <2>1, <2>2, <2>3, ProgressResumed
<1>. QED
  BY <1>1, <1>3 DEF Progress, Alive

LEMMA StatedStarting ==
  ASSUME TypeOK, Stated, NEW w, NEW e, Starting(w, e), UNCHANGED <<gest, timedOut>>,
         job'[e.job].est = "initialized"
  PROVE  Stated'
<1>1. /\ Alive' = Alive \union {e.job} /\ completed' = completed
      /\ e.job \notin Alive /\ e.job \notin completed
      /\ \A k \in Alive : job'[k] = job[k]
  BY DEF Starting
<1>. QED
  BY <1>1 DEF Stated, Alive

LEMMA StatedQueueing ==
  ASSUME TypeOK, Stated, NEW e, Queueing(e), UNCHANGED <<gest, timedOut>>
  PROVE  Stated'
<1>1. Alive' = Alive /\ completed' = completed /\ \A k \in Alive : job'[k].est = job[k].est
  BY DEF Queueing, TypeOK, JobStates, Alive
<1>. QED
  BY <1>1 DEF Stated, Alive

LEMMA StatedFinding ==
  ASSUME TypeOK, Stated, NEW e, Finding(e), UNCHANGED <<gest, timedOut>>
  PROVE  Stated'
<1>1. Alive' = Alive /\ completed' = completed /\ \A k \in Alive : job'[k].est = job[k].est
  BY DEF Finding, Otherwise, TypeOK, JobStates, Alive
<1>. QED
  BY <1>1 DEF Stated, Alive

LEMMA StatedEnding ==
  ASSUME TypeOK, Wired, Stated, NEW w, Ending(w), job[at[w]].est = "done",
         UNCHANGED <<gest, timedOut>>
  PROVE  Stated'
<1>1. /\ Alive' = Alive \ {at[w]} /\ at[w] \in Alive
      /\ \A k \in Alive' : job'[k].est = job[k].est
  BY DEF Ending, Otherwise, TypeOK, JobStates, Alive, Wired, HandsOK
<1>2. \A k : k \in completed' <=> k \in completed \/ (k = at[w] /\ k.type \in Queued)
  BY DEF Ending
<1>3. \A g : Exploration(g).type \in Queued /\ Implementation(g).type \in Queued
  BY JobNames DEF Queued
<1>. QED
  BY <1>1, <1>2, <1>3 DEF Stated, Alive

LEMMA MoveAdvances ==
  ASSUME NEW w, NEW J, \A g \in Groups : Move(w, J, g)
  PROVE  Advancing
BY DEF Move, Advancing, Explored

LEMMA FitsOther ==
  ASSUME NEW w, NEW J, at[w].type \notin {"GroupExploration", "GroupImplementation"}
  PROVE  \A g \in Groups : Fits(w, J, g)
BY JobNames DEF Fits

LEMMA XDoneWork ==
  ASSUME TypeOK, XDone, Advancing, exprs \subseteq exprs', stage' = stage,
         \A x \in Logical :
            \/ xest'[x] = xest[x]
            \/ /\ xest'[x] \in Explored => ExploreDone(x, gest', exprs', stage)
               /\ xest'[x] = "implemented" => ImplementDone(x, gest', exprs', stage)
  PROVE  XDone'
<1>1. \A x \in Logical : Range(Kids[x]) \subseteq Groups
  BY MemoAssumption, KidsOf
<1>2. ASSUME NEW x \in Logical
      PROVE  /\ ExploreDone(x, gest, exprs, stage) => ExploreDone(x, gest', exprs', stage)
             /\ ImplementDone(x, gest, exprs, stage) => ImplementDone(x, gest', exprs', stage)
  BY <1>1 DEF ExploreDone, ImplementDone, Advancing
<1>. QED
  BY <1>2 DEF XDone

\* All that a step of a job's state machine has to keep.
LEMMA TruthWork ==
  ASSUME TypeOK, Wired, Truth, NEW w, NEW J, Going(w, J) \/ Forking(w, J),
         exprs \subseteq exprs', exprs' \subseteq Exprs, Whole(exprs'), timedOut' = timedOut,
         \A g \in Groups : Move(w, J, g) /\ Fits(w, J, g),
         ~timedOut => ProgressOf(at[w], J, gest', exprs', stage),
         \A x \in Logical :
            \/ xest'[x] = xest[x]
            \/ /\ xest'[x] \in Explored => ExploreDone(x, gest', exprs', stage)
               /\ xest'[x] = "implemented" => ImplementDone(x, gest', exprs', stage),
         GDone'
  PROVE  Truth'
<1>1. Advancing
  BY MoveAdvances
<1>2. Stated'
  BY StatedWork DEF Truth
<1>3. Made'
  BY MadeWork DEF Truth
<1>4. Progress'
  BY <1>1, ProgressWork DEF Truth
<1>5. stage' = stage
  BY DEF Going, Forking
<1>6. XDone'
  BY <1>1, <1>5, XDoneWork DEF Truth
<1>. QED
  BY <1>2, <1>3, <1>4, <1>6 DEF Truth

\* A job that leaves the memo alone, and its group.
LEMMA TruthQuiet ==
  ASSUME TypeOK, Wired, Truth, NEW w, NEW J, Going(w, J) \/ Forking(w, J),
         exprs' = exprs, gest' = gest, xest' = xest, timedOut' = timedOut,
         \A g \in Groups : Fits(w, J, g),
         ~timedOut => ProgressOf(at[w], J, gest, exprs, stage)
  PROVE  Truth'
<1>1. \A g \in Groups : Move(w, J, g)
  BY DEF Move
<1>2. GDone'
  BY DEF Truth, GDone
<1>3. Whole(exprs') /\ exprs' \subseteq Exprs
  BY DEF Truth, Made, TypeOK
<1>. QED
  BY <1>1, <1>2, <1>3, TruthWork

LEMMA OptimizationTrue ==
  ASSUME TypeOK, Wired, Truth, NEW w \in Workers, GroupStep(w) \/ ExprStep(w) \/ EndJob(w),
         at[w].type \in {"GroupOptimization", "GroupExpressionOptimization"},
         exprs' = exprs, gest' = gest, xest' = xest, timedOut' = timedOut
  PROVE  Truth'
<1>1. PICK J : Going(w, J) \/ Forking(w, J)
  BY WorkDoes DEF Wired
<1>2. \A g \in Groups : Fits(w, J, g)
  BY FitsOther
<1>3. ProgressOf(at[w], J, gest, exprs, stage)
  BY DEF ProgressOf, PhaseTypes
<1>. QED
  BY <1>1, <1>2, <1>3, TruthQuiet

LEMMA EndJobTrue ==
  ASSUME TypeOK, Wired, Truth, NEW w \in Workers, EndJob(w)
  PROVE  Truth'
<1>. DEFINE J == [job[at[w]] EXCEPT !.est = "done"]
<1>1. /\ at[w] # NoJob /\ timedOut /\ timedOut' = timedOut
      /\ exprs' = exprs /\ gest' = gest /\ xest' = xest
  BY DEF EndJob, Working, memo
<1>2. job[at[w]] \in JobStates
  BY <1>1, InHand DEF Wired
<1>3. J.est = "done"
  BY <1>2 DEF JobStates
<1>4. Going(w, J)
  BY EndJobDoes DEF Wired
<1>. HIDE DEF J
<1>5. \A g \in Groups : Fits(w, J, g)
  BY <1>1, <1>3 DEF Fits
<1>. QED
  BY <1>1, <1>4, <1>5, TruthQuiet

LEMMA StartExplorationTrue ==
  ASSUME TypeOK, Wired, Marked, Truth, NEW w \in Workers, EevtStartExploration(w)
  PROVE  Truth'
<1>. DEFINE g == at[w].on
            J == [job[at[w]] EXCEPT !.est = "children"]
<1>1. In(w, "GroupExploration", "initialized")
  BY DEF EevtStartExploration, Runs
<1>2. /\ at[w] \in Jobs /\ at[w].type = "GroupExploration" /\ job[at[w]] \in JobStates
      /\ g \in Groups /\ at[w] = Exploration(g) /\ at[w] \in Alive
      /\ at[w] \notin completed /\ job[at[w]].est = "initialized"
  BY <1>1, InDoes, JobShape DEF Wired
<1>3. /\ gest' = [gest EXCEPT ![g] = "exploring"]
      /\ exprs' = exprs /\ xest' = xest /\ timedOut' = timedOut
  BY DEF EevtStartExploration, Unchanging
<1>4. J.est = "children"
  BY <1>2 DEF JobStates
<1>5. Going(w, J)
  BY StartExplorationDoes DEF Wired
<1>. HIDE DEF J
<1>6. gest[g] = "unexplored"
  BY <1>2 DEF Marked
<1>7. gest'[g] = "exploring" /\ \A k \in Groups : k # g => gest'[k] = gest[k]
  BY <1>2, <1>3 DEF TypeOK
<1>8. \A k : at[w] = Exploration(k) => k = g
  BY <1>2, JobNames
<1>9. \A k : at[w] # Implementation(k)
  BY <1>2, JobNames
<1>10. \A k \in Groups : Move(w, J, k) /\ Fits(w, J, k)
  BY <1>2, <1>4, <1>6, <1>7, <1>8, <1>9 DEF Move, Fits
<1>11. ProgressOf(at[w], J, gest', exprs', stage)
  BY <1>2 DEF ProgressOf, PhaseTypes
<1>12. GDone'
  <2>1. \A x \in exprs \intersect Logical : GroupOf[x] \in Groups
    BY MemoAssumption
  <2>. QED
    BY <1>3, <1>7, <2>1 DEF Truth, GDone, Explored
<1>13. Whole(exprs') /\ exprs' \subseteq Exprs
  BY <1>3 DEF Truth, Made, TypeOK
<1>. QED
  BY <1>3, <1>5, <1>10, <1>11, <1>12, <1>13, TruthWork

LEMMA ExploreChildrenTrue ==
  ASSUME TypeOK, Wired, Truth, NEW w \in Workers, EevtExploreChildren(w)
  PROVE  Truth'
<1>. DEFINE g == at[w].on
            new == Unexplored(g)
            kids == PassKids("GroupExpressionExploration", new, "-")
            J1 == [[job[at[w]] EXCEPT !.seen = @ \union new] EXCEPT !.waits = kids]
            J2 == [job[at[w]] EXCEPT !.est = IF at[w].on = Root THEN "merging" ELSE "done"]
<1>1. In(w, "GroupExploration", "children") /\ ~timedOut
  BY DEF EevtExploreChildren, Runs
<1>2. /\ at[w] \in Jobs /\ at[w].type = "GroupExploration" /\ job[at[w]] \in JobStates
      /\ g \in Groups /\ at[w] = Exploration(g) /\ at[w] \in Alive
      /\ at[w] \notin completed /\ job[at[w]].est = "children"
  BY <1>1, InDoes, JobShape DEF Wired
<1>3. exprs' = exprs /\ xest' = xest /\ timedOut' = timedOut
  BY DEF EevtExploreChildren, Unchanging
<1>4. gest[g] = "exploring"
  BY <1>1, <1>2 DEF Truth, Stated
<1>5. J1.est = "children" /\ J2.est \in {"merging", "done"}
  BY <1>2 DEF JobStates
<1>6. \/ gest' = gest /\ Forking(w, J1)
      \/ new = {} /\ gest' = [gest EXCEPT ![g] = "explored"] /\ Going(w, J2)
  BY ExploreChildrenDoes DEF Wired
<1>. HIDE DEF J1, J2
<1>7. (\A k : at[w] = Exploration(k) => k = g) /\ \A k : at[w] # Implementation(k)
  BY <1>2, JobNames
<1>8. \A G, J : ProgressOf(at[w], J, G, exprs, stage)
  BY <1>2 DEF ProgressOf, PhaseTypes
<1>9. CASE gest' = gest /\ Forking(w, J1)
  <2>1. \A k \in Groups : Fits(w, J1, k)
    BY <1>4, <1>5, <1>7, <1>9 DEF Fits
  <2>. QED
    BY <1>3, <1>8, <1>9, <2>1, TruthQuiet
<1>10. CASE new = {} /\ gest' = [gest EXCEPT ![g] = "explored"] /\ Going(w, J2)
  <2>1. gest'[g] = "explored" /\ \A k \in Groups : k # g => gest'[k] = gest[k]
    BY <1>2, <1>10 DEF TypeOK
  <2>2. \A k \in Groups : Move(w, J2, k) /\ Fits(w, J2, k)
    BY <1>2, <1>4, <1>5, <1>7, <2>1 DEF Move, Fits, Explored
  <2>3. \A x \in exprs \intersect Logical : GroupOf[x] = g => xest[x] \in Explored
    BY <1>10 DEF Unexplored, LogicalIn
  <2>4. \A x \in exprs \intersect Logical : GroupOf[x] \in Groups
    BY MemoAssumption
  <2>5. GDone'
    BY <1>3, <2>1, <2>3, <2>4 DEF Truth, GDone
  <2>6. Whole(exprs') /\ exprs' \subseteq Exprs
    BY <1>3 DEF Truth, Made, TypeOK
  <2>. QED
    BY <1>3, <1>8, <1>10, <2>2, <2>5, <2>6, TruthWork
<1>. QED
  BY <1>6, <1>9, <1>10

LEMMA FinalizeExplorationTrue ==
  ASSUME TypeOK, Wired, Truth, NEW w \in Workers, FinalizeExploration(w)
  PROVE  Truth'
<1>. DEFINE J == [job[at[w]] EXCEPT !.est = "done"]
<1>1. In(w, "GroupExploration", "merging")
  BY DEF FinalizeExploration
<1>2. /\ at[w].type = "GroupExploration" /\ job[at[w]] \in JobStates
      /\ at[w] \in Alive /\ job[at[w]].est = "merging"
  BY <1>1, InDoes DEF Wired
<1>3. J.est = "done"
  BY <1>2 DEF JobStates
<1>4. /\ Going(w, J)
      /\ exprs' = exprs /\ gest' = gest /\ xest' = xest /\ timedOut' = timedOut
  BY FinalizeExplorationDoes DEF Wired, FinalizeExploration, Unchanging
<1>. HIDE DEF J
<1>5. \A k : at[w] # Implementation(k)
  BY <1>2, JobNames
<1>6. \A k \in Groups : Fits(w, J, k)
  BY <1>2, <1>3, <1>4, <1>5 DEF Fits, Truth, Stated
<1>7. ProgressOf(at[w], J, gest, exprs, stage)
  BY <1>2 DEF ProgressOf, PhaseTypes
<1>. QED
  BY <1>4, <1>6, <1>7, TruthQuiet

LEMMA StartImplementationTrue ==
  ASSUME TypeOK, Wired, Truth, NEW w \in Workers, EevtStartImplementation(w)
  PROVE  Truth'
<1>. DEFINE g == at[w].on
            J1 == [job[at[w]] EXCEPT !.waits = {Exploration(g)}]
            J2 == [job[at[w]] EXCEPT !.est = "children"]
<1>1. In(w, "GroupImplementation", "initialized") /\ ~timedOut
  BY DEF EevtStartImplementation, Runs
<1>2. /\ at[w] \in Jobs /\ at[w].type = "GroupImplementation" /\ job[at[w]] \in JobStates
      /\ g \in Groups /\ at[w] = Implementation(g) /\ at[w] \in Alive
      /\ at[w] \notin completed /\ job[at[w]].est = "initialized"
  BY <1>1, InDoes, JobShape DEF Wired
<1>3. exprs' = exprs /\ xest' = xest /\ timedOut' = timedOut
  BY DEF EevtStartImplementation, Unchanging
<1>4. J1.est = "initialized" /\ J2.est = "children"
  BY <1>2 DEF JobStates
<1>5. \/ gest' = gest /\ Forking(w, J1)
      \/ gest[g] \in Explored /\ gest' = [gest EXCEPT ![g] = "implementing"] /\ Going(w, J2)
  BY StartImplementationDoes DEF Wired
<1>. HIDE DEF J1, J2
<1>6. (\A k : at[w] = Implementation(k) => k = g) /\ \A k : at[w] # Exploration(k)
  BY <1>2, JobNames
<1>7. \A G, J : ProgressOf(at[w], J, G, exprs, stage)
  BY <1>2 DEF ProgressOf, PhaseTypes
<1>8. CASE gest' = gest /\ Forking(w, J1)
  <2>1. \A k \in Groups : Fits(w, J1, k)
    BY <1>2, <1>4, <1>6 DEF Fits
  <2>. QED
    BY <1>3, <1>7, <1>8, <2>1, TruthQuiet
<1>9. CASE gest[g] \in Explored /\ gest' = [gest EXCEPT ![g] = "implementing"] /\ Going(w, J2)
  <2>1. gest'[g] = "implementing" /\ \A k \in Groups : k # g => gest'[k] = gest[k]
    BY <1>2, <1>9 DEF TypeOK
  <2>2. gest[g] = "explored"
    BY <1>2, <1>9 DEF Truth, Stated, Explored
  <2>3. \A k \in Groups : Move(w, J2, k) /\ Fits(w, J2, k)
    BY <1>2, <1>4, <1>6, <2>1, <2>2 DEF Move, Fits, Explored
  <2>4. \A x \in exprs \intersect Logical : GroupOf[x] \in Groups
    BY MemoAssumption
  <2>5. GDone'
    BY <1>3, <1>9, <2>1, <2>4 DEF Truth, GDone
  <2>6. Whole(exprs') /\ exprs' \subseteq Exprs
    BY <1>3 DEF Truth, Made, TypeOK
  <2>. QED
    BY <1>3, <1>7, <1>9, <2>3, <2>5, <2>6, TruthWork
<1>. QED
  BY <1>5, <1>8, <1>9

LEMMA ImplementChildrenTrue ==
  ASSUME TypeOK, Wired, Truth, NEW w \in Workers, EevtImplementChildren(w)
  PROVE  Truth'
<1>. DEFINE g == at[w].on
            new == Unimplemented(g)
            kids == PassKids("GroupExpressionImplementation", new, "-")
            J1 == [[job[at[w]] EXCEPT !.seen = @ \union new] EXCEPT !.waits = kids]
            J2 == [job[at[w]] EXCEPT !.est = "done"]
<1>1. In(w, "GroupImplementation", "children") /\ ~timedOut
  BY DEF EevtImplementChildren, Runs
<1>2. /\ at[w] \in Jobs /\ at[w].type = "GroupImplementation" /\ job[at[w]] \in JobStates
      /\ g \in Groups /\ at[w] = Implementation(g) /\ at[w] \in Alive
      /\ at[w] \notin completed /\ job[at[w]].est = "children"
  BY <1>1, InDoes, JobShape DEF Wired
<1>3. exprs' = exprs /\ xest' = xest /\ timedOut' = timedOut
  BY DEF EevtImplementChildren, Unchanging
<1>4. gest[g] = "implementing"
  BY <1>1, <1>2 DEF Truth, Stated
<1>5. J1.est = "children" /\ J2.est = "done"
  BY <1>2 DEF JobStates
<1>6. \/ gest' = gest /\ Forking(w, J1)
      \/ new = {} /\ gest' = [gest EXCEPT ![g] = "implemented"] /\ Going(w, J2)
  BY ImplementChildrenDoes DEF Wired
<1>. HIDE DEF J1, J2
<1>7. (\A k : at[w] = Implementation(k) => k = g) /\ \A k : at[w] # Exploration(k)
  BY <1>2, JobNames
<1>8. \A G, J : ProgressOf(at[w], J, G, exprs, stage)
  BY <1>2 DEF ProgressOf, PhaseTypes
<1>9. CASE gest' = gest /\ Forking(w, J1)
  <2>1. \A k \in Groups : Fits(w, J1, k)
    BY <1>4, <1>5, <1>7, <1>9 DEF Fits
  <2>. QED
    BY <1>3, <1>8, <1>9, <2>1, TruthQuiet
<1>10. CASE new = {} /\ gest' = [gest EXCEPT ![g] = "implemented"] /\ Going(w, J2)
  <2>1. gest'[g] = "implemented" /\ \A k \in Groups : k # g => gest'[k] = gest[k]
    BY <1>2, <1>10 DEF TypeOK
  <2>2. \A k \in Groups : Move(w, J2, k) /\ Fits(w, J2, k)
    BY <1>2, <1>4, <1>5, <1>7, <2>1 DEF Move, Fits, Explored
  <2>3. \A x \in exprs \intersect Logical : GroupOf[x] = g => xest[x] = "implemented"
    BY <1>10 DEF Unimplemented, LogicalIn
  <2>4. \A x \in exprs \intersect Logical : GroupOf[x] \in Groups
    BY MemoAssumption
  <2>5. GDone'
    BY <1>3, <2>1, <2>3, <2>4 DEF Truth, GDone, Explored
  <2>6. Whole(exprs') /\ exprs' \subseteq Exprs
    BY <1>3 DEF Truth, Made, TypeOK
  <2>. QED
    BY <1>3, <1>8, <1>10, <2>2, <2>5, <2>6, TruthWork
<1>. QED
  BY <1>6, <1>9, <1>10

\* Where the job of an expression is, its group is.
LEMMA PhaseGroup ==
  ASSUME TypeOK, Wired, Stated, GDone, ~timedOut, NEW j \in Alive, j.type \in PhaseTypes
  PROVE  /\ j.on \in exprs \intersect Logical /\ GroupOf[j.on] \in Groups
         /\ IF Explores(j) THEN gest[GroupOf[j.on]] = "exploring"
            ELSE gest[GroupOf[j.on]] = "implementing" /\ xest[j.on] \in Explored
<1>1. /\ j.on \in exprs \intersect Logical /\ GroupOf[j.on] \in Groups
      /\ IF Explores(j) THEN gest[GroupOf[j.on]] = "exploring"
         ELSE gest[GroupOf[j.on]] = "implementing"
  BY PhaseParent DEF Stated
<1>. QED
  BY <1>1 DEF GDone, Explored

LEMMA ScheduleKidsTrue ==
  ASSUME TypeOK, Wired, Truth, NEW w \in Workers, ScheduleChildGroupsJobs(w)
  PROVE  Truth'
<1>. DEFINE j == at[w]
            x == at[w].on
            J == [[job[j] EXCEPT !.est = "children"] EXCEPT !.waits = KidJobs(j)]
<1>1. PhaseJob(w, "initialized")
  BY DEF ScheduleChildGroupsJobs
<1>2. /\ j \in Jobs /\ j.type \in PhaseTypes /\ job[j] \in JobStates /\ j \in Alive
      /\ x \in Logical /\ ~timedOut
  BY <1>1, PhaseIn DEF Wired
<1>3. /\ xest' = [xest EXCEPT ![x] = IF Explores(j) THEN "exploring" ELSE "implementing"]
      /\ exprs' = exprs /\ gest' = gest /\ timedOut' = timedOut
  BY DEF ScheduleChildGroupsJobs, Unchanging
<1>4. J.est = "children" /\ J.waits = KidJobs(j)
  BY <1>2 DEF JobStates
<1>5. Forking(w, J)
  BY ScheduleKidsDoes DEF Wired
<1>. HIDE DEF J
<1>6. \A g \in Groups : Move(w, J, g) /\ Fits(w, J, g)
  BY <1>2, <1>3, FitsOther DEF Move, PhaseTypes
<1>7. ProgressOf(j, J, gest', exprs', stage)
  <2>1. \A k \in Range(Kids[x]) : KidJob(j, k) \in KidJobs(j)
    BY DEF KidJob, KidJobs
  <2>. QED
    BY <1>2, <1>4, <2>1 DEF ProgressOf, PhaseTypes
<1>8. /\ x \in exprs \intersect Logical /\ GroupOf[x] \in Groups
      /\ IF Explores(j) THEN gest[GroupOf[x]] = "exploring"
         ELSE gest[GroupOf[x]] = "implementing" /\ xest[x] \in Explored
  BY <1>2, PhaseGroup DEF Truth
<1>9. /\ xest'[x] = IF Explores(j) THEN "exploring" ELSE "implementing"
      /\ \A y \in Logical : y # x => xest'[y] = xest[y]
  BY <1>2, <1>3 DEF TypeOK
<1>10. ASSUME NEW y \in Logical
       PROVE  \/ xest'[y] = xest[y]
              \/ /\ xest'[y] \in Explored => ExploreDone(y, gest', exprs', stage)
                 /\ xest'[y] = "implemented" => ImplementDone(y, gest', exprs', stage)
  <2>1. CASE y = x
    BY <1>2, <1>3, <1>8, <1>9, <2>1 DEF Truth, XDone, Explored
  <2>2. CASE y # x
    BY <1>9, <2>2
  <2>. QED
    BY <2>1, <2>2
<1>11. GDone'
  BY <1>3, <1>8, <1>9 DEF Truth, GDone, Explored
<1>12. Whole(exprs') /\ exprs' \subseteq Exprs
  BY <1>3 DEF Truth, Made, TypeOK
<1>. QED
  BY <1>3, <1>5, <1>6, <1>7, <1>10, <1>11, <1>12, TruthWork

LEMMA ScheduleTransformationsTrue ==
  ASSUME TypeOK, Wired, Truth, NEW w \in Workers, ScheduleApplicableTransformations(w)
  PROVE  Truth'
<1>. DEFINE j == at[w]
            J == [[job[j] EXCEPT !.est = "self"] EXCEPT !.waits = TransformationsOf(j, stage)]
<1>1. PhaseJob(w, "children")
  BY DEF ScheduleApplicableTransformations
<1>2. /\ j \in Jobs /\ j.type \in PhaseTypes /\ job[j] \in JobStates /\ j \in Alive
      /\ job[j].est = "children" /\ ~timedOut /\ j # NoJob
  BY <1>1, PhaseIn DEF Wired
<1>3. exprs' = exprs /\ gest' = gest /\ xest' = xest /\ timedOut' = timedOut
  BY DEF ScheduleApplicableTransformations, Unchanging
<1>4. J.est = "self" /\ J.waits = TransformationsOf(j, stage)
  BY <1>2 DEF JobStates
<1>5. Forking(w, J)
  BY ScheduleTransformationsDoes DEF Wired
<1>. HIDE DEF J
<1>6. \A g \in Groups : Fits(w, J, g)
  BY <1>2, FitsOther DEF PhaseTypes
<1>7. ProgressOf(j, J, gest, exprs, stage)
  <2>1. job[j].waits = {}
    BY <1>2, InHand DEF Wired
  <2>2. \A k \in Range(Kids[j.on]) : PhaseDone(j, k, gest)
    BY <1>2, <2>1 DEF Truth, Progress, ProgressOf
  <2>3. \A xf \in Xforms[Phase(j)][stage][j.on] :
            ExprJob("Transformation", j.on, xf) \in TransformationsOf(j, stage)
    BY DEF TransformationsOf
  <2>. QED
    BY <1>2, <1>4, <2>2, <2>3 DEF ProgressOf, PhaseTypes
<1>. QED
  BY <1>3, <1>5, <1>6, <1>7, TruthQuiet

LEMMA FinalizeExpressionTrue ==
  ASSUME TypeOK, Wired, Truth, NEW w \in Workers, FinalizeExpression(w)
  PROVE  Truth'
<1>. DEFINE j == at[w]
            x == at[w].on
            J == [job[j] EXCEPT !.est = "done"]
<1>1. PhaseJob(w, "self")
  BY DEF FinalizeExpression
<1>2. /\ j \in Jobs /\ j.type \in PhaseTypes /\ job[j] \in JobStates /\ j \in Alive
      /\ job[j].est = "self" /\ x \in Logical /\ ~timedOut /\ j # NoJob
  BY <1>1, PhaseIn DEF Wired
<1>3. /\ xest' = [xest EXCEPT ![x] = IF Explores(j) THEN "explored" ELSE "implemented"]
      /\ exprs' = exprs /\ gest' = gest /\ timedOut' = timedOut
  BY DEF FinalizeExpression, Unchanging
<1>4. J.est = "done"
  BY <1>2 DEF JobStates
<1>5. Going(w, J)
  BY FinalizeExpressionDoes DEF Wired
<1>. HIDE DEF J
<1>6. \A g \in Groups : Move(w, J, g) /\ Fits(w, J, g)
  BY <1>2, <1>3, FitsOther DEF Move, PhaseTypes
<1>7. ProgressOf(j, J, gest', exprs', stage)
  BY <1>2, <1>4 DEF ProgressOf, PhaseTypes
<1>8. /\ x \in exprs \intersect Logical /\ GroupOf[x] \in Groups
      /\ IF Explores(j) THEN gest[GroupOf[x]] = "exploring"
         ELSE gest[GroupOf[x]] = "implementing" /\ xest[x] \in Explored
  BY <1>2, PhaseGroup DEF Truth
<1>9. /\ xest'[x] = IF Explores(j) THEN "explored" ELSE "implemented"
      /\ \A y \in Logical : y # x => xest'[y] = xest[y]
  BY <1>2, <1>3 DEF TypeOK
<1>10. job[j].waits = {}
  BY <1>2, InHand DEF Wired
<1>11. /\ \A k \in Range(Kids[x]) : PhaseDone(j, k, gest)
       /\ \A xf \in Xforms[Phase(j)][stage][x] : Result[xf] \subseteq exprs
  BY <1>2, <1>10 DEF Truth, Progress, ProgressOf
<1>12. IF Explores(j) THEN ExploreDone(x, gest, exprs, stage)
       ELSE ImplementDone(x, gest, exprs, stage) /\ ExploreDone(x, gest, exprs, stage)
  <2>1. CASE Explores(j)
    BY <1>11, <2>1 DEF ExploreDone, PhaseDone, Phase
  <2>2. CASE ~Explores(j)
    <3>1. ImplementDone(x, gest, exprs, stage)
      BY <1>11, <2>2 DEF ImplementDone, PhaseDone, Phase
    <3>2. ExploreDone(x, gest, exprs, stage)
      BY <1>2, <1>8, <2>2 DEF Truth, XDone
    <3>. QED
      BY <2>2, <3>1, <3>2
  <2>. QED
    BY <2>1, <2>2
<1>13. ASSUME NEW y \in Logical
       PROVE  \/ xest'[y] = xest[y]
              \/ /\ xest'[y] \in Explored => ExploreDone(y, gest', exprs', stage)
                 /\ xest'[y] = "implemented" => ImplementDone(y, gest', exprs', stage)
  <2>1. CASE y = x
    BY <1>3, <1>9, <1>12, <2>1
  <2>2. CASE y # x
    BY <1>9, <2>2
  <2>. QED
    BY <2>1, <2>2
<1>14. GDone'
  BY <1>3, <1>8, <1>9 DEF Truth, GDone, Explored
<1>15. Whole(exprs') /\ exprs' \subseteq Exprs
  BY <1>3 DEF Truth, Made, TypeOK
<1>. QED
  BY <1>3, <1>5, <1>6, <1>7, <1>13, <1>14, <1>15, TruthWork

\* The groups that are explored, by what is recorded of them.
LEMMA ExploredGroups ==
  ASSUME TypeOK, GDone, XDone
  PROVE  ExploredIn(exprs, {g \in Groups : gest[g] \in Explored}, stage)
<1>1. ASSUME NEW x \in exprs \intersect Logical, gest[GroupOf[x]] \in Explored
      PROVE  /\ Range(Kids[x]) \subseteq {g \in Groups : gest[g] \in Explored}
             /\ \A xf \in Xforms["explore"][stage][x] : Result[xf] \subseteq exprs
  <2>1. ExploreDone(x, gest, exprs, stage)
    BY <1>1 DEF GDone, XDone
  <2>2. Range(Kids[x]) \subseteq Groups
    BY KidsOf DEF TypeOK
  <2>. QED
    BY <2>1, <2>2 DEF ExploreDone
<1>. QED
  BY <1>1 DEF ExploredIn

LEMMA TransformTrue ==
  ASSUME TypeOK, Wired, Truth, NEW w \in Workers, EevtTransform(w)
  PROVE  Truth'
<1>. DEFINE j == at[w]
            x == at[w].on
            xf == at[w].for
            J == [job[j] EXCEPT !.est = "done"]
            D == {g \in Groups : gest[g] \in Explored}
<1>1. In(w, "Transformation", "initialized") /\ ~timedOut
  BY DEF EevtTransform, Runs
<1>2. /\ j \in Jobs /\ j.type = "Transformation" /\ job[j] \in JobStates /\ j \in Alive
      /\ x \in Logical /\ stage \in 1..MaxStages
  BY <1>1, InDoes, JobShape DEF Wired
<1>3. /\ exprs' = exprs \union Result[xf]
      /\ gest' = gest /\ xest' = xest /\ timedOut' = timedOut
  BY DEF EevtTransform, Unchanging
<1>4. J.est = "done"
  BY <1>2 DEF JobStates
<1>5. Going(w, J) /\ MemoTyped'
  BY TransformDoes DEF Wired
<1>. HIDE DEF J
<1>6. \A g \in Groups : Move(w, J, g) /\ Fits(w, J, g)
  BY <1>2, <1>3, FitsOther DEF Move
<1>7. ProgressOf(j, J, gest', exprs', stage)
  BY <1>2, <1>3 DEF ProgressOf, PhaseTypes
<1>8. PICK p \in Alive : /\ p \in Jobs /\ p.type \in PhaseTypes /\ p.on = x
                         /\ job[p].est = "self" /\ xf \in Xforms[Phase(p)][stage][x]
  BY <1>2, TransformationParent
<1>9. /\ x \in exprs \intersect Logical /\ GroupOf[x] \in Groups
      /\ IF Explores(p) THEN gest[GroupOf[x]] = "exploring"
         ELSE gest[GroupOf[x]] = "implementing"
  BY <1>1, <1>8, PhaseGroup DEF Truth
<1>10. Phase(p) \in Phases
  BY DEF Phase, Phases
<1>11. Range(Kids[x]) \subseteq D
  <2>1. ASSUME NEW k \in Range(Kids[x]) PROVE KidJob(p, k) \notin job[p].waits
    <3>. SUFFICES ASSUME KidJob(p, k) \in job[p].waits PROVE FALSE
      OBVIOUS
    <3>1. Awaits(p, job[p], KidJob(p, k), exprs, stage)
      BY <1>8 DEF Wired, WaitsFor
    <3>2. KidJob(p, k).type \in Queued
      BY JobNames DEF KidJob, Queued
    <3>. QED
      BY <1>8, <3>1, <3>2, JobNames DEF Awaits, PhaseTypes, Queued
  <2>2. \A k \in Range(Kids[x]) : PhaseDone(p, k, gest)
    BY <1>1, <1>8, <2>1 DEF Truth, Progress, ProgressOf
  <2>3. Range(Kids[x]) \subseteq Groups
    BY <1>9, KidsOf DEF TypeOK
  <2>. QED
    BY <2>2, <2>3 DEF PhaseDone, Explored
<1>12. Whole(exprs')
  <2>1. ExploredIn(exprs, D, stage)
    BY ExploredGroups DEF Truth
  <2>2. exprs \in SUBSET Exprs /\ D \in SUBSET Groups
    BY DEF TypeOK
  <2>3. Initial \subseteq exprs /\ Whole(exprs)
    BY DEF Truth, Made
  <2>. HIDE DEF D, x, xf
  <2>4. Whole(exprs \union Result[xf])
    BY <1>2, <1>8, <1>9, <1>10, <1>11, <2>1, <2>2, <2>3, XformsAssumption
  <2>. QED
    BY <1>3, <2>4
<1>13. GDone'
  <2>1. ASSUME NEW y \in Result[xf], y \in Logical, y \notin exprs
        PROVE  gest[GroupOf[y]] \notin Explored
    <3>1. \/ y = MadeWith[GroupOf[y]]
          \/ GroupOf[y] = GroupOf[x] /\ (Phase(p) = "implement" => y \notin Logical)
      BY <1>2, <1>8, <1>10, XformsAssumption
    <3>2. CASE y = MadeWith[GroupOf[y]]
      <4>1. GroupOf[y] \in Groups
        BY <2>1, MemoAssumption
      <4>2. gest[GroupOf[y]] = "unexplored"
        BY <2>1, <3>2, <4>1 DEF Truth, Made
      <4>. QED
        BY <4>2 DEF Explored
    <3>3. CASE GroupOf[y] = GroupOf[x] /\ Phase(p) # "implement"
      BY <1>9, <3>3 DEF Phase, Explored
    <3>. QED
      BY <2>1, <3>1, <3>2, <3>3
  <2>. QED
    BY <1>3, <2>1 DEF Truth, GDone, Explored
<1>14. exprs' \subseteq Exprs
  BY <1>5 DEF MemoTyped
<1>15. exprs \subseteq exprs'
  BY <1>3
<1>. QED
  BY <1>3, <1>5, <1>6, <1>7, <1>12, <1>13, <1>14, <1>15, TruthWork

LEMMA AddEnforcersTrue ==
  ASSUME TypeOK, Wired, Truth, NEW w \in Workers, EevtAddEnforcers(w)
  PROVE  Truth'
<1>. DEFINE j == at[w]
            g == GroupOf[at[w].on]
            r == at[w].for
<1>1. In(w, "GroupExpressionOptimization", "optimized")
  BY DEF EevtAddEnforcers, Runs
<1>2. /\ j \in Jobs /\ j.type = "GroupExpressionOptimization" /\ j \in Alive
      /\ g \in Groups /\ r \in Reqs
  BY <1>1, InDoes, JobShape, MemoAssumption DEF Wired
<1>3. PICK J : Going(w, J)
  BY AddEnforcersDoes DEF Wired
<1>4. /\ exprs \subseteq exprs' /\ exprs' \subseteq exprs \union Enforcers[g][r]
      /\ MemoTyped'
  BY AddEnforcersDoes DEF Wired
<1>5. gest' = gest /\ xest' = xest /\ timedOut' = timedOut
  BY DEF EevtAddEnforcers, Unchanging
<1>6. \A k \in Groups : Move(w, J, k) /\ Fits(w, J, k)
  BY <1>2, <1>5, FitsOther DEF Move
<1>7. ProgressOf(j, J, gest', exprs', stage)
  BY <1>2 DEF ProgressOf, PhaseTypes
<1>8. MadeWith[g] \in exprs
  <2>1. Optimization(g, r) \in Alive
    BY <1>2, OptimizationParent
  <2>2. MadeJob(Optimization(g, r), exprs)
    BY <2>1 DEF Truth, Made
  <2>. QED
    BY <2>2, JobNames DEF MadeJob, Queued
<1>9. Whole(exprs')
  <2>1. \A y \in Enforcers[g][r] : Range(Kids[y]) \subseteq {g}
    BY <1>2, EnforcersAssumption
  <2>2. Whole(exprs)
    BY DEF Truth, Made
  <2>. QED
    BY <1>4, <1>8, <2>1, <2>2 DEF Whole
<1>10. GDone'
  <2>1. exprs' \intersect Logical = exprs \intersect Logical
    BY <1>2, <1>4, EnforcersAssumption
  <2>. QED
    BY <1>5, <2>1 DEF Truth, GDone
<1>11. exprs' \subseteq Exprs
  BY <1>4 DEF MemoTyped
<1>. QED
  BY <1>3, <1>4, <1>5, <1>6, <1>7, <1>9, <1>10, <1>11, TruthWork

LEMMA TruthActions ==
  ASSUME TypeOK, Wired, Marked, Truth, NEW w \in Workers,
         GroupStep(w) \/ ExprStep(w) \/ EndJob(w)
  PROVE  Truth'
<1>1. \A type, est : In(w, type, est) => at[w].type = type
  BY DEF In
<1>2. CASE \/ EevtStartOptimization(w) \/ EevtOptimizeChildren(w)
           \/ EevtCompleteOptimization(w) \/ EevtInitialize(w) \/ EevtOptimizeChild(w)
           \/ EevtOptimizeSelf(w) \/ UpdateBestCost(w)
  <2>1. at[w].type \in {"GroupOptimization", "GroupExpressionOptimization"}
    BY <1>1, <1>2 DEF EevtStartOptimization, EevtOptimizeChildren, EevtCompleteOptimization,
       EevtInitialize, EevtOptimizeChild, EevtOptimizeSelf, UpdateBestCost, Runs
  <2>2. UNCHANGED <<exprs, gest, xest, timedOut>>
    BY <1>2 DEF EevtStartOptimization, EevtOptimizeChildren, EevtCompleteOptimization,
       EevtInitialize, EevtOptimizeChild, EevtOptimizeSelf, UpdateBestCost, Unchanging
  <2>. QED
    BY <2>1, <2>2, OptimizationTrue
<1>3. CASE EevtStartExploration(w)
  BY <1>3, StartExplorationTrue
<1>4. CASE EevtExploreChildren(w)
  BY <1>4, ExploreChildrenTrue
<1>5. CASE FinalizeExploration(w)
  BY <1>5, FinalizeExplorationTrue
<1>6. CASE EevtStartImplementation(w)
  BY <1>6, StartImplementationTrue
<1>7. CASE EevtImplementChildren(w)
  BY <1>7, ImplementChildrenTrue
<1>8. CASE ScheduleChildGroupsJobs(w)
  BY <1>8, ScheduleKidsTrue
<1>9. CASE ScheduleApplicableTransformations(w)
  BY <1>9, ScheduleTransformationsTrue
<1>10. CASE FinalizeExpression(w)
  BY <1>10, FinalizeExpressionTrue
<1>11. CASE EevtTransform(w)
  BY <1>11, TransformTrue
<1>12. CASE EevtAddEnforcers(w)
  BY <1>12, AddEnforcersTrue
<1>13. CASE EndJob(w)
  BY <1>13, EndJobTrue
<1>. QED
  BY <1>2, <1>3, <1>4, <1>5, <1>6, <1>7, <1>8, <1>9, <1>10, <1>11, <1>12, <1>13
     DEF GroupStep, ExprStep

\* The memo alone, when the jobs are moved about.
LEMMA RecordsKept ==
  ASSUME Truth, UNCHANGED <<exprs, gest, xest, stage>>
  PROVE  XDone' /\ GDone'
BY DEF Truth, XDone, GDone

LEMMA TruthStep ==
  ASSUME TypeOK, Wired, Marked, Truth, [Next]_vars
  PROVE  Truth'
<1>1. HandsOK /\ Stated /\ Made /\ Progress
  BY DEF Wired, Truth
<1>2. ASSUME NEW w \in Workers, NEW e \in scheduled, Retrieve(w, e)
      PROVE  Truth'
  <2>1. /\ Starting(w, e) /\ job'[e.job].est = "initialized"
        /\ UNCHANGED <<exprs, gest, xest, stage, timedOut>>
    BY <1>1, <1>2, RetrieveDoes DEF Retrieve, memo
  <2>2. Alive' \union Added' \subseteq Alive \union Added
    BY <2>1 DEF Starting, Added
  <2>. QED
    BY <1>1, <2>1, <2>2, StatedStarting, MadeElse, ProgressStarting, RecordsKept DEF Truth
<1>3. ASSUME NEW w \in Workers, NEW e \in scheduled, Queue(w, e)
      PROVE  Truth'
  <2>1. Queueing(e) /\ UNCHANGED <<exprs, gest, xest, stage, timedOut>>
    BY <1>1, <1>3, QueueDoes DEF Queue, memo
  <2>2. Alive' \union Added' \subseteq Alive \union Added
    BY <2>1 DEF Queueing, Added
  <2>. QED
    BY <1>1, <2>1, <2>2, StatedQueueing, MadeElse, ProgressQueueing, RecordsKept DEF Truth
<1>4. ASSUME NEW w \in Workers, NEW e \in scheduled, FindCompleted(w, e)
      PROVE  Truth'
  <2>1. Finding(e) /\ UNCHANGED <<exprs, gest, xest, stage, timedOut>>
    BY <1>1, <1>4, FindDoes DEF FindCompleted, memo
  <2>2. Alive' \union Added' \subseteq Alive \union Added
    BY <2>1 DEF Finding, Added
  <2>. QED
    BY <1>1, <2>1, <2>2, StatedFinding, MadeElse, ProgressFinding, RecordsKept DEF Truth
<1>5. ASSUME NEW w \in Workers, Complete(w)
      PROVE  Truth'
  <2>1. /\ Ending(w) /\ job[at[w]].est = "done"
        /\ UNCHANGED <<exprs, gest, xest, stage, timedOut>>
    BY <1>1, <1>5, CompleteDoes DEF Complete, memo
  <2>2. Alive' \union Added' \subseteq Alive \union Added
    BY <2>1 DEF Ending, Added
  <2>. QED
    BY <1>1, <2>1, <2>2, StatedEnding, MadeElse, ProgressEnding, RecordsKept DEF Truth
<1>6. CASE UNCHANGED <<exprs, gest, xest, scheduled, job, completed, stage>>
           /\ (timedOut => timedOut')
  <2>1. Stated' /\ Progress'
    BY <1>1, <1>6 DEF Stated, Progress, Alive
  <2>2. Made'
    BY <1>1, <1>6, MadeElse DEF Alive, Added
  <2>. QED
    BY <1>6, <2>1, <2>2, RecordsKept DEF Truth
<1>7. CASE FinalizeSearchStage
  <2>1. /\ Alive' = {} /\ completed' = {} /\ Added' \subseteq {RootJob} /\ exprs' = exprs
        /\ \A g \in Groups : gest'[g] = "unexplored"
        /\ \A x \in Logical : xest'[x] = "unexplored"
    <3>1. /\ DOMAIN job = {} /\ job' = job /\ exprs' = exprs
          /\ scheduled' = {} \/ scheduled' = {Child(RootJob, NoJob)}
          /\ gest' = [g \in Groups |-> "unexplored"] /\ completed' = {}
          /\ xest' = [x \in Logical |-> "unexplored"]
      BY <1>7 DEF FinalizeSearchStage, ResetGroupStates, Idle
    <3>. QED
      BY <3>1 DEF Alive, Added, Child
  <2>2. Stated' /\ Progress'
    BY <2>1 DEF Stated, Progress, Alive
  <2>3. MadeJob(RootJob, exprs)
    BY <1>1, QueryAssumption, JobNames DEF MadeJob, Made, Queued
  <2>4. Made'
    BY <1>1, <2>1, <2>3 DEF Made, MadeJob, Alive, Added
  <2>5. XDone' /\ GDone'
    BY <2>1, MemoAssumption DEF XDone, GDone, Explored
  <2>. QED
    BY <2>2, <2>4, <2>5 DEF Truth
<1>8. ASSUME NEW w \in Workers, GroupStep(w) \/ ExprStep(w) \/ EndJob(w)
      PROVE  Truth'
  BY <1>8, TruthActions
<1>9. ASSUME NEW w \in Workers, (\E k \in DOMAIN job : Resume(w, k)) \/ Release(w)
      PROVE  UNCHANGED <<exprs, gest, xest, scheduled, job, completed, stage, timedOut>>
  BY <1>9 DEF Resume, Release, memo
<1>10. /\ TimeOut => /\ UNCHANGED <<exprs, gest, xest, scheduled, job, completed, stage>>
                     /\ timedOut'
       /\ UNCHANGED vars
            => UNCHANGED <<exprs, gest, xest, scheduled, job, completed, stage, timedOut>>
  BY DEF TimeOut, memo, vars
<1>. QED
  BY <1>2, <1>3, <1>4, <1>5, <1>6, <1>7, <1>8, <1>9, <1>10 DEF Next, Take, Work

LEMMA TruthFirst ==
  ASSUME Init
  PROVE  Truth
<1>1. /\ Alive = {} /\ completed = {} /\ Added = {RootJob} /\ exprs = Initial
      /\ \A g \in Groups : gest[g] = "unexplored"
      /\ \A x \in Logical : xest[x] = "unexplored"
  BY DEF Init, Alive, Added
<1>2. MadeJob(RootJob, exprs)
  BY <1>1, QueryAssumption, JobNames DEF MadeJob, Queued
<1>3. Made
  BY <1>1, <1>2, QueryAssumption DEF Made
<1>4. Stated /\ Progress
  BY <1>1 DEF Stated, Progress
<1>5. XDone /\ GDone
  BY <1>1, MemoAssumption DEF XDone, GDone, Explored
<1>. QED
  BY <1>3, <1>4, <1>5 DEF Truth

LEMMA TruthTells ==
  ASSUME TypeOK, Truth
  PROVE  TransitionsComplete
<1>. SUFFICES ASSUME NEW g \in Groups, NEW x \in LogicalIn(g)
              PROVE  /\ gest[g] \in Explored =>
                           xest[x] \in Explored /\ ExploreDone(x, gest, exprs, stage)
                     /\ gest[g] = "implemented" =>
                           xest[x] = "implemented" /\ ImplementDone(x, gest, exprs, stage)
  BY DEF TransitionsComplete, ExploreDone, ImplementDone
<1>1. x \in exprs \intersect Logical /\ GroupOf[x] = g
  BY DEF LogicalIn
<1>. QED
  BY <1>1 DEF Truth, GDone, XDone, Explored

(***************************************************************************)
(* What is recorded of a group is true, for any number of workers: when it *)
(* is marked explored or implemented, so is every logical expression it    *)
(* has by then and every child group of those, and the transformations of  *)
(* the stage have been applied, timed out or not.  A pass over a group     *)
(* ends only when it finds nothing new, a job waits for what it has        *)
(* scheduled, and no transformation adds a logical expression to a group   *)
(* that is done with.                                                      *)
(***************************************************************************)
THEOREM SearchTransitionsComplete == Spec => []TransitionsComplete
<1>1. Init => TypeOK /\ Wired /\ RootAlone /\ Marked /\ Truth
  BY TypeFirst, WiredFirst, RootFirst, TruthFirst
<1>2. TypeOK /\ Wired /\ RootAlone /\ Marked /\ Truth /\ [Next]_vars
        => (TypeOK /\ Wired /\ RootAlone /\ Marked /\ Truth)'
  BY WiredStep, RootStep, TruthStep
<1>3. TypeOK /\ Wired /\ RootAlone /\ Marked /\ Truth => TransitionsComplete
  BY TruthTells
<1>. QED
  BY <1>1, <1>2, <1>3, PTL DEF Spec


-----------------------------------------------------------------------------
(* The cheapest plan                                                       *)

OwnContext(x, r) == <<GroupOf[x], r>>
AskedContexts(x, r) == {KidContext(x, r, i) : i \in DOMAIN Kids[x]}

\* The operator is a plan for the properties.
IsPlan(x, r) ==
    /\ <<x, r>> \in Accepts /\ Enforcing[x][r] # "required"
    /\ OwnContext(x, r) \notin AskedContexts(x, r)

PlanCosts(F, X, r) == {Least(Infinity, TotalCost(F, x, r)) : x \in X} \union {Infinity}
CheapestOf(F, X, r) == Min(PlanCosts(F, X, r))

\* The plans of a context.
PlansOf(X, c) == {x \in X : GroupOf[x] = c[1] /\ IsPlan(x, c[2])}

LEMMA ContextPair ==
  ASSUME NEW c \in Contexts
  PROVE  c = <<c[1], c[2]>> /\ c[1] \in Groups /\ c[2] \in Reqs
BY DEF Contexts

LEMMA AskedTyped ==
  ASSUME NEW x \in Exprs, NEW r \in Reqs
  PROVE  /\ OwnContext(x, r) \in Contexts /\ AskedContexts(x, r) \subseteq Contexts
         /\ \A i \in DOMAIN Kids[x] : i \in 1..Len(Kids[x])
         /\ \A i \in 1..Len(Kids[x]) : i \in DOMAIN Kids[x]
                                       /\ KidContext(x, r, i) \in AskedContexts(x, r)
BY KidsOf, MemoAssumption DEF OwnContext, AskedContexts, Contexts

LEMMA CheapestFound ==
  ASSUME NEW F \in [Contexts -> Nat], NEW X \in SUBSET Exprs, NEW r \in Reqs
  PROVE  /\ CheapestOf(F, X, r) \in Nat /\ CheapestOf(F, X, r) <= Infinity
         /\ \A x \in X : CheapestOf(F, X, r) <= TotalCost(F, x, r)
         /\ \/ CheapestOf(F, X, r) = Infinity
            \/ \E x \in X : CheapestOf(F, X, r) = TotalCost(F, x, r)
<1>. DEFINE S == PlanCosts(F, X, r)
            m == CheapestOf(F, X, r)
<1>1. Infinity \in Nat /\ \A x \in X : TotalCost(F, x, r) \in Nat
  BY CostsAssumption, TotalBounds
<1>2. /\ \A x \in X : Least(Infinity, TotalCost(F, x, r)) \in Nat
      /\ \A x \in X : Least(Infinity, TotalCost(F, x, r)) <= TotalCost(F, x, r)
      /\ \A x \in X : Least(Infinity, TotalCost(F, x, r)) \in {Infinity, TotalCost(F, x, r)}
  BY <1>1 DEF Least
<1>3. S \subseteq Nat /\ Infinity \in S
  BY <1>1, <1>2 DEF PlanCosts
<1>4. \E k \in S : \A l \in S : k <= l
  <2>. HIDE DEF S
  <2>. QED
    BY <1>3, LeastElement
<1>5. m \in S /\ \A l \in S : m <= l
  BY <1>4 DEF CheapestOf, Min
<1>6. m \in Nat /\ m <= Infinity
  BY <1>3, <1>5
<1>7. ASSUME NEW x \in X PROVE m <= TotalCost(F, x, r)
  <2>1. Least(Infinity, TotalCost(F, x, r)) \in S
    BY DEF PlanCosts
  <2>. HIDE DEF m, S
  <2>. QED
    BY <1>1, <1>2, <1>5, <1>6, <2>1
<1>8. m = Infinity \/ \E x \in X : m = TotalCost(F, x, r)
  BY <1>2, <1>5 DEF PlanCosts
<1>. QED
  BY <1>6, <1>7, <1>8

LEMMA SumOnce ==
  ASSUME NEW n \in Nat, NEW a, NEW c, NEW f, SumsUp(f, n, a, c), NEW g, SumsUp(g, n, a, c)
  PROVE  f[n] = g[n]
<1>. DEFINE S == {k \in 0..n : f[k] = g[k]}
<1>1. 0 \in S
  BY DEF SumsUp
<1>2. ASSUME NEW k \in 0..n, k \in S, k < n PROVE k + 1 \in S
  <2>1. f[k + 1] = f[k] + c[k + 1] /\ g[k + 1] = g[k] + c[k + 1]
    BY <1>2 DEF SumsUp
  <2>. QED
    BY <1>2, <2>1
<1>3. 0..n \subseteq S
  <2>. HIDE DEF S
  <2>. QED
    BY <1>1, <1>2, Upwards
<1>. QED
  BY <1>3

LEMMA TotalSame ==
  ASSUME NEW x \in Exprs, NEW r \in Reqs, NEW F, NEW G, \A d \in AskedContexts(x, r) : F[d] = G[d]
  PROVE  TotalCost(F, x, r) = TotalCost(G, x, r)
<1>. DEFINE n == Len(Kids[x])
<1>1. \A i \in 1..n : F[KidContext(x, r, i)] = G[KidContext(x, r, i)]
  BY AskedTyped
<1>2. KidCosts(F, x, r) = KidCosts(G, x, r)
  BY <1>1 DEF KidCosts
<1>3. PICK f : SumsUp(f, n, Cost[x], KidCosts(F, x, r)) /\ TotalCost(F, x, r) = f[n]
  BY TotalSum
<1>4. PICK g : SumsUp(g, n, Cost[x], KidCosts(G, x, r)) /\ TotalCost(G, x, r) = g[n]
  BY TotalSum
<1>. QED
  BY <1>2, <1>3, <1>4, SumOnce, KidsOf

\* What a plan asks for is below it.
LEMMA PlanDescends ==
  ASSUME NEW c \in Contexts, NEW X \in SUBSET (Exprs \ Logical), NEW x \in PlansOf(X, c),
         NEW d \in AskedContexts(x, c[2])
  PROVE  d \in Contexts /\ Height[d] \in Nat /\ Height[c] \in Nat /\ Height[d] < Height[c]
<1>1. x \in Exprs \ Logical /\ GroupOf[x] = c[1] /\ IsPlan(x, c[2]) /\ c[2] \in Reqs
      /\ c = <<c[1], c[2]>>
  BY ContextPair DEF PlansOf
<1>2. PICK i \in DOMAIN Kids[x] : d = KidContext(x, c[2], i)
  BY DEF AskedContexts
<1>3. d # <<GroupOf[x], c[2]>> /\ <<x, c[2]>> \in Accepts
  BY <1>1, <1>2 DEF IsPlan, OwnContext
<1>4. Height[d] < Height[<<GroupOf[x], c[2]>>]
  BY <1>1, <1>2, <1>3, AcyclicAssumption DEF KidContext
<1>5. d \in Contexts
  BY <1>1, AskedTyped
<1>. QED
  BY <1>1, <1>4, <1>5, CostsAssumption

LEMMA CheapestSame ==
  ASSUME NEW c \in Contexts, NEW X \in SUBSET (Exprs \ Logical), NEW F, NEW G,
         \A d \in Contexts : Height[d] < Height[c] => F[d] = G[d]
  PROVE  CheapestOf(F, PlansOf(X, c), c[2]) = CheapestOf(G, PlansOf(X, c), c[2])
<1>1. c[2] \in Reqs /\ PlansOf(X, c) \subseteq Exprs
  BY ContextPair DEF PlansOf
<1>2. \A x \in PlansOf(X, c) : TotalCost(F, x, c[2]) = TotalCost(G, x, c[2])
  BY <1>1, PlanDescends, TotalSame
<1>3. PlanCosts(F, PlansOf(X, c), c[2]) = PlanCosts(G, PlansOf(X, c), c[2])
  BY <1>2 DEF PlanCosts
<1>. QED
  BY <1>3 DEF CheapestOf

\* F is right for the contexts below a height.
Right(F, P, n) ==
    \A c \in Contexts : Height[c] < n => F[c] = CheapestOf(F, PlansOf(P[c], c), c[2])

RightBelow(F, P, n) == F \in [Contexts -> Nat] /\ Right(F, P, n)

LEMMA RightAlike ==
  ASSUME NEW P \in [Contexts -> SUBSET (Exprs \ Logical)], NEW n \in Nat, NEW m \in Nat,
         NEW F, Right(F, P, n), NEW G, Right(G, P, m),
         NEW c \in Contexts, Height[c] < n, Height[c] < m
  PROVE  F[c] = G[c]
<1>. DEFINE T == {Height[d] : d \in {e \in Contexts : Height[e] < n /\ Height[e] < m
                                                       /\ F[e] # G[e]}}
<1>. SUFFICES ASSUME F[c] # G[c] PROVE FALSE
  OBVIOUS
<1>2. T \subseteq Nat /\ T # {}
  BY CostsAssumption
<1>3. PICK k \in T : \A l \in T : k <= l
  <2>. HIDE DEF T
  <2>. QED
    BY <1>2, LeastElement
<1>4. PICK d \in Contexts : Height[d] = k /\ Height[d] < n /\ Height[d] < m /\ F[d] # G[d]
  BY <1>3
<1>5. ASSUME NEW e \in Contexts, Height[e] < Height[d] PROVE F[e] = G[e]
  <2>1. Height[e] \in Nat /\ Height[d] \in Nat
    BY CostsAssumption
  <2>2. Height[e] < n /\ Height[e] < m /\ ~(Height[d] <= Height[e])
    BY <1>4, <1>5, <2>1
  <2>. QED
    BY <1>3, <1>4, <2>2
<1>6. CheapestOf(F, PlansOf(P[d], d), d[2]) = CheapestOf(G, PlansOf(P[d], d), d[2])
  BY <1>5, CheapestSame
<1>7. F[d] = CheapestOf(F, PlansOf(P[d], d), d[2]) /\ G[d] = CheapestOf(G, PlansOf(P[d], d), d[2])
  BY <1>4 DEF Right
<1>. QED
  BY <1>4, <1>6, <1>7

LEMMA RightExists ==
  ASSUME NEW P \in [Contexts -> SUBSET (Exprs \ Logical)], NEW n \in Nat
  PROVE  \E F : RightBelow(F, P, n)
<1>. DEFINE S == {k \in Nat : \E F : RightBelow(F, P, k)}
<1>1. 0 \in S
  <2>. DEFINE F == [c \in Contexts |-> 0]
  <2>1. F \in [Contexts -> Nat] /\ \A c \in Contexts : Height[c] \in Nat /\ ~(Height[c] < 0)
    BY CostsAssumption
  <2>2. RightBelow(F, P, 0)
    BY <2>1 DEF RightBelow, Right
  <2>. HIDE DEF F
  <2>. QED
    BY <2>2
<1>2. ASSUME NEW k \in 0..n, k \in S, k < n PROVE k + 1 \in S
  <2>1. PICK F : RightBelow(F, P, k)
    BY <1>2
  <2>. DEFINE G == [c \in Contexts |->
                      IF Height[c] = k THEN CheapestOf(F, PlansOf(P[c], c), c[2]) ELSE F[c]]
  <2>2. F \in [Contexts -> Nat]
    BY <2>1 DEF RightBelow, Right
  <2>3. G \in [Contexts -> Nat]
    <3>1. ASSUME NEW c \in Contexts PROVE CheapestOf(F, PlansOf(P[c], c), c[2]) \in Nat
      <4>1. PlansOf(P[c], c) \in SUBSET Exprs /\ c[2] \in Reqs
        BY ContextPair DEF PlansOf
      <4>. QED
        BY <2>2, <4>1, CheapestFound
    <3>. QED
      BY <2>2, <3>1
  <2>4. ASSUME NEW c \in Contexts, Height[c] < k + 1
        PROVE  G[c] = CheapestOf(G, PlansOf(P[c], c), c[2])
    <3>1. Height[c] \in Nat
      BY CostsAssumption
    <3>2. ASSUME NEW d \in Contexts, Height[d] < Height[c] PROVE F[d] = G[d]
      <4>1. Height[d] \in Nat
        BY CostsAssumption
      <4>2. Height[d] # k
        BY <2>4, <3>1, <3>2, <4>1
      <4>. QED
        BY <4>2
    <3>3. G[c] = CheapestOf(F, PlansOf(P[c], c), c[2])
      BY <2>1, <2>4, <3>1 DEF RightBelow, Right
    <3>. HIDE DEF G
    <3>4. CheapestOf(F, PlansOf(P[c], c), c[2]) = CheapestOf(G, PlansOf(P[c], c), c[2])
      BY <2>2, <2>3, <3>2, CheapestSame
    <3>. QED
      BY <3>3, <3>4
  <2>. HIDE DEF G
  <2>5. RightBelow(G, P, k + 1)
    BY <2>3, <2>4 DEF RightBelow, Right
  <2>. QED
    BY <1>2, <2>5
<1>3. 0..n \subseteq S
  <2>. HIDE DEF S
  <2>. QED
    BY <1>1, <1>2, Upwards
<1>. QED
  BY <1>3

LEMMA RightEverywhere ==
  ASSUME NEW P \in [Contexts -> SUBSET (Exprs \ Logical)]
  PROVE  \E F \in [Contexts -> Nat] :
            \A c \in Contexts : F[c] = CheapestOf(F, PlansOf(P[c], c), c[2])
<1>. DEFINE R(c) == CHOOSE F : RightBelow(F, P, Height[c] + 1)
            F == [c \in Contexts |-> R(c)[c]]
<1>1. ASSUME NEW c \in Contexts PROVE RightBelow(R(c), P, Height[c] + 1) /\ Height[c] \in Nat
  <2>1. Height[c] \in Nat /\ Height[c] + 1 \in Nat
    BY CostsAssumption
  <2>. QED
    BY <2>1, RightExists
<1>. HIDE DEF R
<1>2. F \in [Contexts -> Nat]
  BY <1>1 DEF RightBelow, Right
<1>3. ASSUME NEW c \in Contexts PROVE F[c] = CheapestOf(F, PlansOf(P[c], c), c[2])
  <2>1. ASSUME NEW d \in Contexts, Height[d] < Height[c] PROVE F[d] = R(c)[d]
    <3>1. /\ Height[d] \in Nat /\ Height[c] \in Nat
          /\ Height[d] < Height[d] + 1 /\ Height[d] < Height[c] + 1
          /\ Height[d] + 1 \in Nat /\ Height[c] + 1 \in Nat
      BY <1>1, <2>1
    <3>2. R(d)[d] = R(c)[d]
      BY <1>1, <3>1, RightAlike DEF RightBelow
    <3>. QED
      BY <3>2
  <2>2. R(c) \in [Contexts -> Nat] /\ Height[c] < Height[c] + 1
    BY <1>1 DEF RightBelow, Right
  <2>3. R(c)[c] = CheapestOf(R(c), PlansOf(P[c], c), c[2])
    BY <1>1, <2>2 DEF RightBelow, Right
  <2>4. F[c] = R(c)[c]
    OBVIOUS
  <2>. HIDE DEF F
  <2>5. CheapestOf(R(c), PlansOf(P[c], c), c[2]) = CheapestOf(F, PlansOf(P[c], c), c[2])
    BY <1>2, <2>1, <2>2, CheapestSame
  <2>. QED
    BY <2>3, <2>4, <2>5
<1>. HIDE DEF F
<1>. QED
  BY <1>2, <1>3

-----------------------------------------------------------------------------
(* Who asks for what                                                       *)

OptimizationOf(c) == Optimization(c[1], c[2])

\* The plans of an optimized context are of its group, and it is done with them.
Offers ==
    \A c \in DOMAIN offered :
        /\ offered[c] \subseteq PhysicalIn(c[1])
        /\ \/ OptimizationOf(c) \in completed
           \/ /\ OptimizationOf(c) \in Alive
              /\ job[OptimizationOf(c)].est \in {"damp", "done"}
              /\ job[OptimizationOf(c)].eol = "low"

LEMMA OptimumIs ==
  ASSUME TypeOK, Offers
  PROVE  /\ Optimum \in [Contexts -> Nat]
         /\ \A c \in Contexts : Optimum[c] = CheapestOf(Optimum, Plans(c), c[2])
<1>. DEFINE P == [c \in Contexts |-> IF c \in DOMAIN offered THEN offered[c] ELSE PhysicalIn(c[1])]
            Is(F) == F = [c \in Contexts |->
                Min({Least(Infinity, TotalCost(F, x, c[2])) : x \in Plans(c)} \union {Infinity})]
<1>1. P \in [Contexts -> SUBSET (Exprs \ Logical)]
  BY DEF TypeOK, Offers, PhysicalIn
<1>2. ASSUME NEW c \in Contexts PROVE Plans(c) = PlansOf(P[c], c)
  <2>1. P[c] = IF c \in DOMAIN offered THEN offered[c] ELSE PhysicalIn(c[1])
    OBVIOUS
  <2>2. \A x \in P[c] : GroupOf[x] = c[1]
    BY <2>1 DEF Offers, PhysicalIn
  <2>3. \A x \in P[c] : OwnContext(x, c[2]) = c
    BY <2>2, ContextPair DEF OwnContext
  <2>4. \A x \in P[c] :
            OwnContext(x, c[2]) \notin AskedContexts(x, c[2])
              <=> \A i \in DOMAIN Kids[x] : <<Kids[x][i], KidReq[x][c[2]][i]>> # c
    BY <2>3 DEF AskedContexts, KidContext
  <2>. HIDE DEF P
  <2>. QED
    BY <2>1, <2>2, <2>4 DEF Plans, PlansOf, IsPlan
<1>. HIDE DEF P
<1>3. \E F : Is(F)
  <2>1. PICK F \in [Contexts -> Nat] :
            \A c \in Contexts : F[c] = CheapestOf(F, PlansOf(P[c], c), c[2])
    BY <1>1, RightEverywhere
  <2>2. Is(F)
    BY <1>2, <2>1 DEF CheapestOf, PlanCosts
  <2>. QED
    BY <2>2
<1>4. Is(Optimum)
  <2>1. Optimum = CHOOSE F : Is(F)
    BY DEF Optimum
  <2>. HIDE DEF Is
  <2>. QED
    BY <1>3, <2>1
<1>5. \A c \in Contexts : Optimum[c] = CheapestOf(Optimum, Plans(c), c[2])
  BY <1>4 DEF CheapestOf, PlanCosts
<1>6. Optimum \in [Contexts -> Nat]
  <2>1. PICK F \in [Contexts -> Nat] :
            \A c \in Contexts : F[c] = CheapestOf(F, PlansOf(P[c], c), c[2])
    BY <1>1, RightEverywhere
  <2>2. ASSUME NEW c \in Contexts PROVE Optimum[c] = F[c]
    <3>1. Height[c] \in Nat /\ Height[c] + 1 \in Nat /\ Height[c] < Height[c] + 1
      BY CostsAssumption
    <3>2. Right(F, P, Height[c] + 1) /\ Right(Optimum, P, Height[c] + 1)
      BY <1>2, <1>5, <2>1 DEF Right
    <3>. QED
      BY <1>1, <3>1, <3>2, RightAlike
  <2>3. Optimum = [c \in Contexts |-> Optimum[c]]
    BY <1>4
  <2>. QED
    BY <2>1, <2>2, <2>3
<1>. QED
  BY <1>5, <1>6

Optimizes(j) == j.type = "GroupExpressionOptimization"

\* What a plan's optimization has asked for is completed, or it waits for that.
AskingOf(j, J, B, D) ==
    LET x == j.on
        r == j.for
    IN  /\ J.est = "initialized" => J.child = 1
        /\ J.est \in {"children", "optimized", "self", "update"} => <<x, r>> \in Accepts
        /\ J.est = "children" =>
              \A i \in DOMAIN Kids[x] : i < J.child =>
                  /\ KidContext(x, r, i) # OwnContext(x, r)
                  /\ OptimizationOf(KidContext(x, r, i)) \in D \union J.waits
        /\ J.est \in {"optimized", "self", "update"} =>
              \A d \in AskedContexts(x, r) : d # OwnContext(x, r) /\ OptimizationOf(d) \in D
        /\ J.est \in {"self", "update"} => Enforcing[x][r] # "required"
        /\ J.est = "update" => J.cost = TotalCost(B, x, r)

Asking == \A j \in Alive : Optimizes(j) => AskingOf(j, job[j], BestCosts, completed)

\* An expression that its own group is optimized for is not a plan of that context.
Origins ==
    \A j \in Alive : j.type = "GroupOptimization" =>
        (job[j].origin \in Exprs /\ GroupOf[job[j].origin] = j.on
            => ~IsPlan(job[j].origin, j.for))

\* Between read and write of a best plan nothing happens to it.
Reading ==
    overlapped = {} =>
        \A j \in Alive : Optimizes(j) /\ job[j].est = "update" =>
            /\ job[j].read = best[OwnContext(j.on, j.for)]
            /\ \A k \in Alive :
                  Optimizes(k) /\ job[k].est = "update"
                  /\ OwnContext(k.on, k.for) = OwnContext(j.on, j.for) => k = j

LEMMA OptimizesShape ==
  ASSUME NEW j \in Jobs, Optimizes(j)
  PROVE  /\ j.on \in Exprs \ Logical /\ j.on \in Exprs /\ j.for \in Reqs
         /\ OwnContext(j.on, j.for) \in Contexts
         /\ j = ExprJob("GroupExpressionOptimization", j.on, j.for)
BY JobShape, AskedTyped DEF Optimizes

LEMMA OptimizationJob ==
  ASSUME NEW c \in Contexts
  PROVE  /\ OptimizationOf(c) \in Jobs /\ OptimizationOf(c).type = "GroupOptimization"
         /\ OptimizationOf(c).type \in Queued /\ ~Optimizes(OptimizationOf(c))
         /\ OptimizationOf(c).on = c[1] /\ OptimizationOf(c).for = c[2]
         /\ \A d \in Contexts : OptimizationOf(d) = OptimizationOf(c) => d = c
BY ContextPair, JobsMade, JobNames DEF OptimizationOf, Queued, Optimizes

\* What has been asked for stays so.
LEMMA AskingMoved ==
  ASSUME NEW j \in Jobs, Optimizes(j), NEW J, NEW K, NEW B, NEW C, NEW D, NEW E,
         AskingOf(j, J, B, D), D \subseteq E,
         K.est = J.est, K.child = J.child, K.cost = J.cost,
         \A d \in Contexts : OptimizationOf(d) \in J.waits =>
                                OptimizationOf(d) \in E \union K.waits,
         \A d \in Contexts : OptimizationOf(d) \in D => C[d] = B[d]
  PROVE  AskingOf(j, K, C, E)
<1>. DEFINE x == j.on
            r == j.for
<1>1. x \in Exprs /\ r \in Reqs /\ AskedContexts(x, r) \subseteq Contexts
      /\ \A i \in DOMAIN Kids[x] : KidContext(x, r, i) \in Contexts
  BY OptimizesShape, AskedTyped, KidsOf
<1>2. ASSUME K.est = "update" PROVE K.cost = TotalCost(C, x, r)
  <2>1. J.cost = TotalCost(B, x, r) /\ \A d \in AskedContexts(x, r) : OptimizationOf(d) \in D
    BY <1>2 DEF AskingOf
  <2>2. TotalCost(C, x, r) = TotalCost(B, x, r)
    BY <1>1, <2>1, TotalSame
  <2>. QED
    BY <2>1, <2>2
<1>3. ASSUME K.est = "children", NEW i \in DOMAIN Kids[x], i < K.child
      PROVE  /\ KidContext(x, r, i) # OwnContext(x, r)
             /\ OptimizationOf(KidContext(x, r, i)) \in E \union K.waits
  BY <1>1, <1>3 DEF AskingOf
<1>. QED
  BY <1>2, <1>3 DEF AskingOf

\* The best plan changes only of the context that the worker's job is for.
BestOf(w) ==
    /\ past' = past
    /\ \A c \in Contexts : best'[c] # best[c] =>
          Optimizes(at[w]) /\ c = OwnContext(at[w].on, at[w].for)

LEMMA OwnOptimized ==
  ASSUME TypeOK, Wired, NEW j \in Alive, Optimizes(j)
  PROVE  LET c == OwnContext(j.on, j.for)
         IN  /\ c \in Contexts /\ OptimizationOf(c) \in Alive /\ OptimizationOf(c) \notin completed
             /\ job[OptimizationOf(c)].est = "children"
             /\ j.on \in PhysicalIn(c[1])
<1>1. j \in Jobs
  BY DEF TypeOK, Alive
<1>2. /\ Optimization(GroupOf[j.on], j.for) \in Alive
      /\ job[Optimization(GroupOf[j.on], j.for)].est = "children"
      /\ j.on \in exprs
  BY OptimizationParent DEF Optimizes
<1>3. OwnContext(j.on, j.for) \in Contexts /\ j.on \in Exprs \ Logical
  BY <1>1, OptimizesShape
<1>. QED
  BY <1>2, <1>3 DEF OptimizationOf, OwnContext, Wired, HandsOK, PhysicalIn

LEMMA KnownKept ==
  ASSUME TypeOK, TypeOK', Wired, NEW w \in Workers, at[w] # NoJob, BestOf(w),
         NEW c \in Contexts, OptimizationOf(c) \in completed
  PROVE  BestCosts'[c] = BestCosts[c] /\ best'[c] = best[c]
<1>1. at[w] \in Alive
  BY DEF Wired, HandsOK
<1>2. best'[c] = best[c]
  BY <1>1, OwnOptimized DEF BestOf
<1>3. BestCosts[c] = Least(past[c], best[c]) /\ BestCosts'[c] = Least(past'[c], best'[c])
  BY ContextPair DEF BestCosts, PocLookupBest, Contexts
<1>. QED
  BY <1>2, <1>3 DEF BestOf

LEMMA BestSame ==
  ASSUME past' = past, best' = best
  PROVE  BestCosts' = BestCosts
BY DEF BestCosts, PocLookupBest

LEMMA AskingWork ==
  ASSUME TypeOK, TypeOK', Wired, Asking, NEW w, NEW J, Going(w, J) \/ Forking(w, J), BestOf(w),
         Optimizes(at[w]) => AskingOf(at[w], J, BestCosts', completed)
  PROVE  Asking'
<1>1. /\ w \in Workers /\ at[w] # NoJob
      /\ Alive' = Alive /\ job'[at[w]] = J /\ completed' = completed
      /\ \A k \in Alive : k # at[w] => job'[k] = job[k]
  BY DEF Going, Forking
<1>2. ASSUME NEW j \in Alive, Optimizes(j) PROVE AskingOf(j, job'[j], BestCosts', completed')
  <2>1. CASE j = at[w]
    BY <1>1, <1>2, <2>1
  <2>2. CASE j # at[w]
    <3>1. j \in Jobs /\ AskingOf(j, job[j], BestCosts, completed)
      BY <1>2 DEF Asking, TypeOK, Alive
    <3>2. \A d \in Contexts : OptimizationOf(d) \in completed => BestCosts'[d] = BestCosts[d]
      BY <1>1, KnownKept
    <3>. QED
      BY <1>1, <1>2, <2>2, <3>1, <3>2, AskingMoved
  <2>. QED
    BY <2>1, <2>2
<1>. QED
  BY <1>1, <1>2 DEF Asking, Alive

\* The jobs are moved about, and some are done with.
LEMMA AskingElse ==
  ASSUME TypeOK, Asking, past' = past, best' = best, completed \subseteq completed',
         \A j \in Alive' : Optimizes(j) =>
            \/ job'[j].est = "initialized" /\ job'[j].child = 1
            \/ /\ j \in Alive
               /\ job'[j].est = job[j].est /\ job'[j].child = job[j].child
               /\ job'[j].cost = job[j].cost
               /\ \A c \in job[j].waits : c.type \in Queued => c \in completed' \union job'[j].waits
  PROVE  Asking'
<1>1. ASSUME NEW j \in Alive', Optimizes(j) PROVE AskingOf(j, job'[j], BestCosts', completed')
  <2>1. CASE job'[j].est = "initialized" /\ job'[j].child = 1
    BY <2>1 DEF AskingOf
  <2>2. CASE /\ j \in Alive
             /\ job'[j].est = job[j].est /\ job'[j].child = job[j].child
             /\ job'[j].cost = job[j].cost
             /\ \A c \in job[j].waits : c.type \in Queued => c \in completed' \union job'[j].waits
    <3>1. j \in Jobs /\ AskingOf(j, job[j], BestCosts, completed)
      BY <1>1, <2>2 DEF Asking, TypeOK, Alive
    <3>2. \A d \in Contexts : OptimizationOf(d) \in job[j].waits =>
              OptimizationOf(d) \in completed' \union job'[j].waits
      BY <2>2, OptimizationJob
    <3>3. BestCosts' = BestCosts
      BY BestSame
    <3>. HIDE DEF Alive
    <3>. QED
      BY <1>1, <2>2, <3>1, <3>2, <3>3, AskingMoved
  <2>. QED
    BY <1>1, <2>1, <2>2
<1>. QED
  BY <1>1 DEF Asking, Alive

LEMMA OriginsWork ==
  ASSUME Origins, NEW w, NEW J, Going(w, J) \/ Forking(w, J),
         at[w].type = "GroupOptimization" => J.origin = job[at[w]].origin
  PROVE  Origins'
<1>1. /\ Alive' = Alive /\ job'[at[w]] = J
      /\ \A k \in Alive : k # at[w] => job'[k] = job[k]
  BY DEF Going, Forking
<1>2. \A j \in Alive' : j.type = "GroupOptimization" => job'[j].origin = job[j].origin
  BY <1>1
<1>. QED
  BY <1>1, <1>2 DEF Origins, Alive

LEMMA OriginsElse ==
  ASSUME Origins, Alive' \subseteq Alive, \A j \in Alive' : job'[j].origin = job[j].origin
  PROVE  Origins'
BY DEF Origins, Alive

\* A job that has an origin was asked for by it.
LEMMA OriginsStarting ==
  ASSUME TypeOK, Wired, Asking, Origins, NEW w, NEW e, Starting(w, e),
         job'[e.job].origin = IF e.parent # NoJob
                                 /\ e.parent.type = "GroupExpressionOptimization"
                              THEN e.parent.on ELSE NoExpr
  PROVE  Origins'
<1>. DEFINE p == e.parent
            y == job'[e.job].origin
<1>1. SUFFICES ASSUME e.job.type = "GroupOptimization", y \in Exprs, GroupOf[y] = e.job.on
               PROVE  ~IsPlan(y, e.job.for)
  BY DEF Origins, Starting, Alive
<1>2. p # NoJob /\ p.type = "GroupExpressionOptimization" /\ y = p.on
  BY <1>1, NamesAssumption
<1>3. p \in Alive /\ e.job \in job[p].waits /\ p \in Jobs
  BY <1>2 DEF Starting, Wired, WaitsOK, TypeOK, Alive
<1>4. Awaits(p, job[p], e.job, exprs, stage)
  BY <1>3 DEF Wired, WaitsFor
<1>. DEFINE i == job[p].child - 1
            r == p.for
<1>5. /\ job[p].est = "children" /\ i \in DOMAIN Kids[y]
      /\ e.job = Optimization(Kids[y][i], KidReq[y][r][i])
  BY <1>2, <1>4 DEF Awaits, PhaseTypes
<1>6. <<y, r>> \in Accepts
  BY <1>2, <1>3, <1>5 DEF Asking, AskingOf, Optimizes
<1>7. r \in Reqs /\ y \in Exprs
  BY <1>2, <1>3, OptimizesShape DEF Optimizes
<1>8. e.job.on = Kids[y][i] /\ e.job.for = KidReq[y][r][i]
  BY <1>5, JobNames
<1>9. KidReq[y][e.job.for][i] = e.job.for
  BY <1>1, <1>5, <1>6, <1>7, <1>8, RemainderAssumption
<1>10. KidContext(y, e.job.for, i) = OwnContext(y, e.job.for)
  BY <1>1, <1>8, <1>9 DEF KidContext, OwnContext
<1>. QED
  BY <1>5, <1>10 DEF IsPlan, AskedContexts

LEMMA OffersElse ==
  ASSUME TypeOK, Offers, offered' = offered, exprs \subseteq exprs', completed \subseteq completed',
         \A j \in Alive : j.type = "GroupOptimization" =>
            \/ j \in completed'
            \/ /\ j \in Alive'
               /\ job'[j].eol = job[j].eol /\ job'[j].est = job[j].est
            \/ /\ j \in Alive' /\ job'[j].est \in {"damp", "done"}
               /\ job'[j].eol = job[j].eol
            \/ job[j].est \notin {"damp", "done"} \/ job[j].eol # "low"
  PROVE  Offers'
<1>1. ASSUME NEW c \in DOMAIN offered
      PROVE  /\ offered[c] \subseteq PhysicalIn(c[1])'
             /\ \/ OptimizationOf(c) \in completed'
                \/ /\ OptimizationOf(c) \in Alive'
                   /\ job'[OptimizationOf(c)].est \in {"damp", "done"}
                   /\ job'[OptimizationOf(c)].eol = "low"
  <2>1. OptimizationOf(c).type = "GroupOptimization"
    BY OptimizationJob DEF TypeOK
  <2>2. offered[c] \subseteq PhysicalIn(c[1])'
    BY DEF Offers, PhysicalIn
  <2>3. CASE OptimizationOf(c) \in completed
    BY <2>2, <2>3
  <2>4. CASE /\ OptimizationOf(c) \in Alive
             /\ job[OptimizationOf(c)].est \in {"damp", "done"}
             /\ job[OptimizationOf(c)].eol = "low"
    <3>. HIDE DEF Alive
    <3>. QED
      BY <2>1, <2>2, <2>4
  <2>. QED
    BY <2>3, <2>4 DEF Offers
<1>. QED
  BY <1>1 DEF Offers, Alive

LEMMA ReadingElse ==
  ASSUME Reading, overlapped' = overlapped, best' = best,
         \A j \in Alive' : Optimizes(j) /\ job'[j].est = "update" =>
            j \in Alive /\ job[j].est = "update" /\ job'[j].read = job[j].read
  PROVE  Reading'
<1>. SUFFICES ASSUME overlapped' = {}, NEW j \in Alive', Optimizes(j), job'[j].est = "update"
              PROVE  /\ job'[j].read = best'[OwnContext(j.on, j.for)]
                     /\ \A k \in Alive' :
                           Optimizes(k) /\ job'[k].est = "update"
                           /\ OwnContext(k.on, k.for) = OwnContext(j.on, j.for) => k = j
  BY DEF Reading, Alive
<1>1. /\ j \in Alive /\ job[j].est = "update" /\ job'[j].read = job[j].read
      /\ \A k \in Alive' : Optimizes(k) /\ job'[k].est = "update" =>
            k \in Alive /\ job[k].est = "update"
  OBVIOUS
<1>2. /\ job[j].read = best[OwnContext(j.on, j.for)]
      /\ \A k \in Alive :
            Optimizes(k) /\ job[k].est = "update"
            /\ OwnContext(k.on, k.for) = OwnContext(j.on, j.for) => k = j
  BY <1>1 DEF Reading
<1>3. job'[j].read = best'[OwnContext(j.on, j.for)]
  BY <1>1, <1>2
<1>4. ASSUME NEW k \in Alive', Optimizes(k), job'[k].est = "update",
             OwnContext(k.on, k.for) = OwnContext(j.on, j.for)
      PROVE  k = j
  <2>1. k \in Alive /\ job[k].est = "update"
    BY <1>1, <1>4
  <2>. QED
    BY <1>2, <1>4, <2>1
<1>. QED
  BY <1>3, <1>4

-----------------------------------------------------------------------------
(* A plan that has been looked at is no better than the best one           *)

\* The best plan known costs no more than this one can: the costs of completed contexts
\* are final, and a plan costs at least what its operator and any one child do.
Settled(x, r, B, D) ==
    LET c == OwnContext(x, r)
    IN  \/ B[c] <= Cost[x]
        \/ \E d \in AskedContexts(x, r) :
              OptimizationOf(d) \in D /\ (B[d] >= Infinity \/ B[c] <= Cost[x] + B[d])
        \/ /\ \A d \in AskedContexts(x, r) : OptimizationOf(d) \in D
           /\ B[c] <= TotalCost(B, x, r)

Tried(x, r, B, D) == IsPlan(x, r) => Settled(x, r, B, D)

\* An expression's optimization has been scheduled by now or has no need to be.
Passed(x, r, J, B, D) ==
    Tried(x, r, B, D) \/ ExprJob("GroupExpressionOptimization", x, r) \in J.waits

\* What the passes of a group's optimization have left behind, with the expressions E,
\* the groups in the states G and the contexts O optimized: one level after the other.
PassesOf(j, J, E, G, O, B, D) ==
    LET P == PhysicalOf(E, j.on)
    IN  /\ J.est = "initialized" => J.seen = {}
        /\ J.est # "initialized" =>
              /\ G[j.on] = "implemented" /\ J.seen \subseteq P
              /\ J.eol = "high" => \A y \in J.seen \intersect High : Passed(y, j.for, J, B, D)
              /\ J.eol = "low" => \A y \in (P \intersect High) \union (J.seen \ High) :
                                     Passed(y, j.for, J, B, D)
              /\ J.est = "damp" /\ J.eol = "high" => P \intersect High \subseteq J.seen
              /\ J.est = "done" \/ (J.est = "damp" /\ J.eol = "low") => <<j.on, j.for>> \in O

\* The stage has not timed out, and best plans are updated one at a time.
Clean == ~timedOut /\ overlapped = {}

Settling ==
    Clean =>
        /\ \A j \in Alive : Optimizes(j) /\ job[j].est = "done" =>
              Tried(j.on, j.for, BestCosts, completed)
        /\ \A j \in Alive : j.type = "GroupOptimization" =>
              PassesOf(j, job[j], exprs, gest, DOMAIN offered, BestCosts, completed)
        /\ \A c \in DOMAIN offered : \A x \in offered[c] : Tried(x, c[2], BestCosts, completed)
        /\ \A c \in Contexts : OptimizationOf(c) \in completed => c \in DOMAIN offered

\* Costs get better, and those of completed contexts are final.
Improving(B, C, D, E) ==
    /\ B \in [Contexts -> Nat] /\ C \in [Contexts -> Nat] /\ D \subseteq E
    /\ \A c \in Contexts : C[c] <= B[c]
    /\ \A c \in Contexts : OptimizationOf(c) \in D => C[c] = B[c]

LEMMA TriedKept ==
  ASSUME NEW x \in Exprs, NEW r \in Reqs, NEW B, NEW C, NEW D, NEW E, Improving(B, C, D, E),
         Tried(x, r, B, D)
  PROVE  Tried(x, r, C, E)
<1>. DEFINE c == OwnContext(x, r)
<1>. SUFFICES ASSUME IsPlan(x, r), Settled(x, r, B, D) PROVE Settled(x, r, C, E)
  BY DEF Tried
<1>1. /\ c \in Contexts /\ AskedContexts(x, r) \subseteq Contexts /\ Cost[x] \in Nat
      /\ B[c] \in Nat /\ C[c] \in Nat /\ C[c] <= B[c]
  BY AskedTyped, CostsAssumption DEF Improving
<1>2. CASE B[c] <= Cost[x]
  <2>1. C[c] <= Cost[x]
    BY <1>1, <1>2
  <2>. QED
    BY <2>1 DEF Settled
<1>3. CASE \E d \in AskedContexts(x, r) :
              OptimizationOf(d) \in D /\ (B[d] >= Infinity \/ B[c] <= Cost[x] + B[d])
  <2>1. PICK d \in AskedContexts(x, r) :
              OptimizationOf(d) \in D /\ (B[d] >= Infinity \/ B[c] <= Cost[x] + B[d])
    BY <1>3
  <2>2. OptimizationOf(d) \in E /\ C[d] = B[d] /\ B[d] \in Nat
    BY <1>1, <2>1 DEF Improving
  <2>3. C[d] >= Infinity \/ C[c] <= Cost[x] + C[d]
    BY <1>1, <2>1, <2>2
  <2>. QED
    BY <2>2, <2>3 DEF Settled
<1>4. CASE /\ \A d \in AskedContexts(x, r) : OptimizationOf(d) \in D
           /\ B[c] <= TotalCost(B, x, r)
  <2>1. \A d \in AskedContexts(x, r) : OptimizationOf(d) \in E /\ B[d] = C[d]
    BY <1>1, <1>4 DEF Improving
  <2>2. TotalCost(B, x, r) = TotalCost(C, x, r) /\ TotalCost(B, x, r) \in Nat
    BY <2>1, TotalSame, TotalBounds DEF Improving
  <2>3. C[c] <= TotalCost(C, x, r)
    BY <1>1, <1>4, <2>2
  <2>. QED
    BY <2>1, <2>3 DEF Settled
<1>. QED
  BY <1>2, <1>3, <1>4 DEF Settled

\* The memo moves on and takes nothing back.
Holding(E, F, G, H, O, Q) ==
    /\ E \subseteq F /\ F \subseteq Exprs /\ O \subseteq Q
    /\ \A g \in Groups : G[g] = "implemented" =>
          H[g] = "implemented" /\ PhysicalOf(F, g) \intersect High \subseteq PhysicalOf(E, g)

LEMMA PassesKept ==
  ASSUME NEW j \in Jobs, j.type = "GroupOptimization", NEW J, NEW K,
         NEW E, NEW F, NEW G, NEW H, NEW O, NEW Q, Holding(E, F, G, H, O, Q),
         NEW B, NEW C, NEW D, NEW L, Improving(B, C, D, L),
         PassesOf(j, J, E, G, O, B, D),
         K.est = J.est, K.eol = J.eol, K.seen = J.seen,
         \A y \in Exprs : ExprJob("GroupExpressionOptimization", y, j.for) \in J.waits =>
            Passed(y, j.for, K, C, L)
  PROVE  PassesOf(j, K, F, H, Q, C, L)
<1>1. j.on \in Groups /\ j.for \in Reqs
  BY JobShape
<1>2. \A y \in Exprs : Passed(y, j.for, J, B, D) => Passed(y, j.for, K, C, L)
  BY <1>1, TriedKept DEF Passed
<1>3. PhysicalOf(E, j.on) \subseteq PhysicalOf(F, j.on) /\ PhysicalOf(F, j.on) \subseteq Exprs
  BY DEF Holding, PhysicalOf
<1>4. SUFFICES ASSUME K.est # "initialized"
               PROVE  /\ H[j.on] = "implemented" /\ K.seen \subseteq PhysicalOf(F, j.on)
                      /\ K.eol = "high" =>
                            \A y \in K.seen \intersect High : Passed(y, j.for, K, C, L)
                      /\ K.eol = "low" =>
                            \A y \in (PhysicalOf(F, j.on) \intersect High) \union (K.seen \ High) :
                                Passed(y, j.for, K, C, L)
                      /\ K.est = "damp" /\ K.eol = "high" =>
                            PhysicalOf(F, j.on) \intersect High \subseteq K.seen
                      /\ K.est = "done" \/ (K.est = "damp" /\ K.eol = "low") =>
                            <<j.on, j.for>> \in Q
  BY DEF PassesOf
<1>5. G[j.on] = "implemented" /\ J.seen \subseteq PhysicalOf(E, j.on)
  BY <1>4 DEF PassesOf
<1>6. H[j.on] = "implemented"
      /\ PhysicalOf(F, j.on) \intersect High \subseteq PhysicalOf(E, j.on)
  BY <1>1, <1>5 DEF Holding
<1>7. K.eol = "high" => \A y \in K.seen \intersect High : Passed(y, j.for, K, C, L)
  BY <1>2, <1>3, <1>4, <1>5 DEF PassesOf
<1>8. K.eol = "low" =>
        \A y \in (PhysicalOf(F, j.on) \intersect High) \union (K.seen \ High) :
            Passed(y, j.for, K, C, L)
  BY <1>2, <1>3, <1>4, <1>5, <1>6 DEF PassesOf
<1>9. K.est = "damp" /\ K.eol = "high" => PhysicalOf(F, j.on) \intersect High \subseteq K.seen
  BY <1>4, <1>6 DEF PassesOf
<1>10. K.est = "done" \/ (K.est = "damp" /\ K.eol = "low") => <<j.on, j.for>> \in Q
  BY <1>4 DEF PassesOf, Holding
<1>. QED
  BY <1>3, <1>5, <1>6, <1>7, <1>8, <1>9, <1>10

LEMMA ImprovingSame ==
  ASSUME TypeOK, TypeOK', past' = past, best' = best, completed \subseteq completed'
  PROVE  Improving(BestCosts, BestCosts', completed, completed')
<1>1. BestCosts' = BestCosts /\ BestCosts \in [Contexts -> Nat]
  BY BestSame, BestCostsTyped
<1>. QED
  BY <1>1 DEF Improving

\* All that a step of a job's state machine has to keep.
LEMMA SettlingWork ==
  ASSUME TypeOK, TypeOK', Wired, Settling, NEW w, NEW J, Going(w, J) \/ Forking(w, J),
         Clean' =>
            /\ Clean
            /\ Improving(BestCosts, BestCosts', completed, completed')
            /\ Holding(exprs, exprs', gest, gest', DOMAIN offered, DOMAIN offered')
            /\ Optimizes(at[w]) /\ J.est = "done" =>
                  Tried(at[w].on, at[w].for, BestCosts', completed')
            /\ at[w].type = "GroupOptimization" =>
                  PassesOf(at[w], J, exprs', gest', DOMAIN offered', BestCosts', completed')
            /\ \A c \in DOMAIN offered' :
                  \/ c \in DOMAIN offered /\ offered'[c] = offered[c]
                  \/ \A x \in offered'[c] : Tried(x, c[2], BestCosts', completed')
  PROVE  Settling'
<1>. SUFFICES ASSUME Clean'
     PROVE  /\ \A j \in Alive' : Optimizes(j) /\ job'[j].est = "done" =>
                  Tried(j.on, j.for, BestCosts', completed')
            /\ \A j \in Alive' : j.type = "GroupOptimization" =>
                  PassesOf(j, job'[j], exprs', gest', DOMAIN offered', BestCosts', completed')
            /\ \A c \in DOMAIN offered' : \A x \in offered'[c] :
                  Tried(x, c[2], BestCosts', completed')
            /\ \A c \in Contexts : OptimizationOf(c) \in completed' => c \in DOMAIN offered'
  BY DEF Settling, Alive
<1>1. /\ w \in Workers /\ at[w] # NoJob /\ completed' = completed
      /\ Alive' = Alive /\ job'[at[w]] = J
      /\ \A k \in Alive : k # at[w] => job'[k] = job[k]
  BY DEF Going, Forking
<1>2. Alive \subseteq Jobs
  BY DEF TypeOK, Alive
<1>3. /\ \A j \in Alive : Optimizes(j) /\ job[j].est = "done" =>
            Tried(j.on, j.for, BestCosts, completed)
      /\ \A j \in Alive : j.type = "GroupOptimization" =>
            PassesOf(j, job[j], exprs, gest, DOMAIN offered, BestCosts, completed)
      /\ \A c \in DOMAIN offered : \A x \in offered[c] : Tried(x, c[2], BestCosts, completed)
      /\ \A c \in Contexts : OptimizationOf(c) \in completed => c \in DOMAIN offered
  BY DEF Settling
<1>4. /\ Improving(BestCosts, BestCosts', completed, completed')
      /\ Holding(exprs, exprs', gest, gest', DOMAIN offered, DOMAIN offered')
  OBVIOUS
<1>5. ASSUME NEW j \in Alive, Optimizes(j), job'[j].est = "done"
      PROVE  Tried(j.on, j.for, BestCosts', completed')
  <2>1. CASE j = at[w]
    BY <1>1, <1>5, <2>1
  <2>2. CASE j # at[w]
    <3>1. j.on \in Exprs /\ j.for \in Reqs
      BY <1>2, <1>5, OptimizesShape
    <3>2. Tried(j.on, j.for, BestCosts, completed)
      BY <1>1, <1>3, <1>5, <2>2
    <3>. QED
      BY <1>4, <3>1, <3>2, TriedKept
  <2>. QED
    BY <2>1, <2>2
<1>6. ASSUME NEW j \in Alive, j.type = "GroupOptimization"
      PROVE  PassesOf(j, job'[j], exprs', gest', DOMAIN offered', BestCosts', completed')
  <2>1. CASE j = at[w]
    BY <1>1, <1>6, <2>1
  <2>2. CASE j # at[w]
    <3>1. PassesOf(j, job[j], exprs, gest, DOMAIN offered, BestCosts, completed)
      BY <1>3, <1>6
    <3>2. job'[j] = job[j] /\ j \in Jobs
      BY <1>1, <1>2, <2>2
    <3>3. \A y \in Exprs : ExprJob("GroupExpressionOptimization", y, j.for) \in job[j].waits =>
            Passed(y, j.for, job[j], BestCosts', completed')
      BY DEF Passed
    <3>4. PassesOf(j, job[j], exprs', gest', DOMAIN offered', BestCosts', completed')
      BY <1>4, <1>6, <3>1, <3>2, <3>3, PassesKept
    <3>. QED
      BY <3>2, <3>4
  <2>. QED
    BY <2>1, <2>2
<1>7. ASSUME NEW c \in DOMAIN offered', NEW x \in offered'[c]
      PROVE  Tried(x, c[2], BestCosts', completed')
  <2>1. CASE c \in DOMAIN offered /\ offered'[c] = offered[c]
    <3>1. Tried(x, c[2], BestCosts, completed)
      BY <1>3, <1>7, <2>1
    <3>2. x \in Exprs /\ c \in Contexts
      BY <1>7, <2>1 DEF TypeOK
    <3>. QED
      BY <1>4, <3>1, <3>2, ContextPair, TriedKept
  <2>. QED
    BY <1>7, <2>1
<1>8. \A c \in Contexts : OptimizationOf(c) \in completed' => c \in DOMAIN offered'
  BY <1>1, <1>3 DEF Holding
<1>. QED
  BY <1>1, <1>5, <1>6, <1>7, <1>8

\* The jobs are moved about, and some are done with.
LEMMA SettlingElse ==
  ASSUME TypeOK, TypeOK', Settling, UNCHANGED <<exprs, gest, best, past, offered>>,
         Clean' => Clean, completed \subseteq completed',
         \A j \in Alive' : j.type \in {"GroupOptimization", "GroupExpressionOptimization"} =>
            \/ job'[j].est = "initialized" /\ job'[j].seen = {}
            \/ /\ j \in Alive
               /\ job'[j].est = job[j].est /\ job'[j].eol = job[j].eol
               /\ job'[j].seen = job[j].seen
               /\ \A c \in job[j].waits : Optimizes(c) =>
                     c \in job'[j].waits \/ (c \in Alive /\ job[c].est = "done"),
         \A c \in completed' : c \in completed \/ (c \in Alive /\ job[c].est = "done")
  PROVE  Settling'
<1>. SUFFICES ASSUME Clean'
     PROVE  /\ \A j \in Alive' : Optimizes(j) /\ job'[j].est = "done" =>
                  Tried(j.on, j.for, BestCosts', completed')
            /\ \A j \in Alive' : j.type = "GroupOptimization" =>
                  PassesOf(j, job'[j], exprs', gest', DOMAIN offered', BestCosts', completed')
            /\ \A c \in DOMAIN offered' : \A x \in offered'[c] :
                  Tried(x, c[2], BestCosts', completed')
            /\ \A c \in Contexts : OptimizationOf(c) \in completed' => c \in DOMAIN offered'
  BY DEF Settling, Alive
<1>2. Alive \subseteq Jobs /\ Alive' \subseteq Jobs
  BY DEF TypeOK, Alive
<1>3. /\ \A j \in Alive : Optimizes(j) /\ job[j].est = "done" =>
            Tried(j.on, j.for, BestCosts, completed)
      /\ \A j \in Alive : j.type = "GroupOptimization" =>
            PassesOf(j, job[j], exprs, gest, DOMAIN offered, BestCosts, completed)
      /\ \A c \in DOMAIN offered : \A x \in offered[c] : Tried(x, c[2], BestCosts, completed)
      /\ \A c \in Contexts : OptimizationOf(c) \in completed => c \in DOMAIN offered
  BY DEF Settling
<1>4. Improving(BestCosts, BestCosts', completed, completed')
  BY ImprovingSame
<1>5. Holding(exprs, exprs, gest, gest, DOMAIN offered, DOMAIN offered)
  BY DEF Holding, TypeOK
<1>6. ASSUME NEW j \in Alive', Optimizes(j), job'[j].est = "done"
      PROVE  Tried(j.on, j.for, BestCosts', completed')
  <2>1. j \in Alive /\ job[j].est = "done"
    BY <1>6 DEF Optimizes
  <2>2. Tried(j.on, j.for, BestCosts, completed) /\ j.on \in Exprs /\ j.for \in Reqs
    BY <1>2, <1>3, <1>6, <2>1, OptimizesShape
  <2>. QED
    BY <1>4, <2>2, TriedKept
<1>7. ASSUME NEW j \in Alive', j.type = "GroupOptimization"
      PROVE  PassesOf(j, job'[j], exprs, gest, DOMAIN offered, BestCosts', completed')
  <2>1. CASE job'[j].est = "initialized" /\ job'[j].seen = {}
    BY <2>1 DEF PassesOf
  <2>2. CASE /\ j \in Alive
             /\ job'[j].est = job[j].est /\ job'[j].eol = job[j].eol
             /\ job'[j].seen = job[j].seen
             /\ \A c \in job[j].waits : Optimizes(c) =>
                   c \in job'[j].waits \/ (c \in Alive /\ job[c].est = "done")
    <3>1. PassesOf(j, job[j], exprs, gest, DOMAIN offered, BestCosts, completed)
      BY <1>3, <1>7, <2>2
    <3>2. ASSUME NEW y \in Exprs,
                 ExprJob("GroupExpressionOptimization", y, j.for) \in job[j].waits
          PROVE  Passed(y, j.for, job'[j], BestCosts', completed')
      <4>. DEFINE c == ExprJob("GroupExpressionOptimization", y, j.for)
      <4>1. c.type = "GroupExpressionOptimization" /\ c.on = y /\ c.for = j.for
        BY JobNames
      <4>2. CASE c \in job'[j].waits
        BY <4>2 DEF Passed
      <4>3. CASE c \in Alive /\ job[c].est = "done"
        <5>1. Tried(y, j.for, BestCosts, completed)
          BY <1>3, <4>1, <4>3 DEF Optimizes
        <5>2. Tried(y, j.for, BestCosts', completed')
          BY <1>2, <1>4, <1>7, <5>1, JobShape, TriedKept
        <5>. QED
          BY <5>2 DEF Passed
      <4>. QED
        BY <2>2, <3>2, <4>1, <4>2, <4>3 DEF Optimizes
    <3>. HIDE DEF Alive
    <3>. QED
      BY <1>2, <1>4, <1>5, <1>7, <2>2, <3>1, <3>2, PassesKept
  <2>. QED
    BY <1>7, <2>1, <2>2
<1>8. ASSUME NEW c \in DOMAIN offered, NEW x \in offered[c]
      PROVE  Tried(x, c[2], BestCosts', completed')
  <2>1. Tried(x, c[2], BestCosts, completed)
    BY <1>3
  <2>2. x \in Exprs /\ c \in Contexts
    BY <1>8 DEF TypeOK
  <2>. QED
    BY <1>4, <2>1, <2>2, ContextPair, TriedKept
<1>9. ASSUME NEW c \in Contexts, OptimizationOf(c) \in completed' PROVE c \in DOMAIN offered
  <2>1. CASE OptimizationOf(c) \in completed
    BY <1>3, <2>1
  <2>2. CASE OptimizationOf(c) \in Alive /\ job[OptimizationOf(c)].est = "done"
    <3>1. <<OptimizationOf(c).on, OptimizationOf(c).for>> \in DOMAIN offered
      BY <1>3, <2>2, OptimizationJob DEF PassesOf
    <3>. QED
      BY <3>1, ContextPair, OptimizationJob
  <2>. QED
    BY <1>9, <2>1, <2>2
<1>. QED
  BY <1>6, <1>7, <1>8, <1>9

\* A group that is implemented stays so and has got its expressions of the higher level.
LEMMA TransformHolds ==
  ASSUME TypeOK, Wired, Truth, NEW w \in Workers, EevtTransform(w), NEW g \in Groups,
         gest[g] = "implemented"
  PROVE  PhysicalOf(exprs', g) \subseteq PhysicalOf(exprs, g)
<1>. DEFINE j == at[w]
            x == at[w].on
            xf == at[w].for
<1>1. In(w, "Transformation", "initialized") /\ ~timedOut /\ exprs' = exprs \union Result[xf]
  BY DEF EevtTransform, Runs
<1>2. j \in Jobs /\ j.type = "Transformation" /\ j \in Alive /\ x \in Logical
      /\ stage \in 1..MaxStages
  BY <1>1, InDoes, JobShape DEF Wired
<1>3. PICK p \in Alive : /\ p \in Jobs /\ p.type \in PhaseTypes /\ p.on = x
                         /\ xf \in Xforms[Phase(p)][stage][x]
  BY <1>2, TransformationParent
<1>4. gest[GroupOf[x]] # "implemented"
  BY <1>1, <1>3, PhaseGroup DEF Truth
<1>5. Phase(p) \in Phases
  BY DEF Phase, Phases
<1>6. ASSUME NEW y \in Result[xf], y \notin exprs PROVE GroupOf[y] # g
  <2>1. y = MadeWith[GroupOf[y]] \/ GroupOf[y] = GroupOf[x]
    BY <1>2, <1>3, <1>5, XformsAssumption
  <2>2. MadeWith[g] \in exprs
    BY DEF Truth, Made
  <2>. QED
    BY <1>4, <1>6, <2>1, <2>2
<1>. QED
  BY <1>1, <1>6 DEF PhysicalOf

LEMMA GroupsHold ==
  ASSUME TypeOK, Wired, Marked, Truth, ~timedOut, NEW w \in Workers,
         GroupStep(w) \/ ExprStep(w), NEW g \in Groups, gest[g] = "implemented"
  PROVE  /\ gest'[g] = "implemented"
         /\ PhysicalOf(exprs', g) \intersect High \subseteq PhysicalOf(exprs, g)
<1>1. /\ Exploration(g) \in Alive => job[Exploration(g)].est \notin {"initialized", "children"}
      /\ Implementation(g) \in Alive => job[Implementation(g)].est # "initialized"
      /\ Exploration(g) \notin completed => job[Exploration(g)].est # "initialized"
  BY DEF Truth, Stated, Marked, Wired, HandsOK
<1>2. ASSUME NEW type, NEW est, In(w, type, est)
      PROVE  /\ at[w] \in Jobs /\ at[w] \in Alive /\ at[w].type = type /\ job[at[w]].est = est
             /\ type = "GroupExploration" => at[w] = Exploration(at[w].on)
             /\ type = "GroupImplementation" => at[w] = Implementation(at[w].on)
  BY <1>2, InDoes, JobShape DEF Wired
<1>3. CASE EevtStartExploration(w)
  <2>1. In(w, "GroupExploration", "initialized") /\ exprs' = exprs
        /\ gest' = [gest EXCEPT ![at[w].on] = "exploring"]
    BY <1>3 DEF EevtStartExploration, Runs
  <2>2. at[w].on # g
    BY <1>1, <1>2, <2>1
  <2>. QED
    BY <2>1, <2>2 DEF TypeOK
<1>4. CASE EevtExploreChildren(w)
  <2>1. In(w, "GroupExploration", "children") /\ exprs' = exprs
        /\ (gest' = gest \/ gest' = [gest EXCEPT ![at[w].on] = "explored"])
    BY <1>4 DEF EevtExploreChildren, Runs
  <2>2. at[w].on # g
    BY <1>1, <1>2, <2>1
  <2>. QED
    BY <2>1, <2>2 DEF TypeOK
<1>5. CASE EevtStartImplementation(w)
  <2>1. In(w, "GroupImplementation", "initialized") /\ exprs' = exprs
        /\ (gest' = gest \/ gest' = [gest EXCEPT ![at[w].on] = "implementing"])
    BY <1>5 DEF EevtStartImplementation, Runs
  <2>2. at[w].on # g
    BY <1>1, <1>2, <2>1
  <2>. QED
    BY <2>1, <2>2 DEF TypeOK
<1>6. CASE EevtImplementChildren(w)
  <2>1. exprs' = exprs /\ (gest' = gest \/ gest' = [gest EXCEPT ![at[w].on] = "implemented"])
    BY <1>6 DEF EevtImplementChildren
  <2>. QED
    BY <2>1 DEF TypeOK
<1>7. CASE EevtTransform(w)
  <2>1. gest' = gest
    BY <1>7 DEF EevtTransform
  <2>. QED
    BY <1>7, <2>1, TransformHolds
<1>8. CASE EevtAddEnforcers(w)
  <2>1. gest' = gest /\ In(w, "GroupExpressionOptimization", "optimized")
    BY <1>8 DEF EevtAddEnforcers, Runs
  <2>2. /\ at[w].on \in Exprs /\ at[w].for \in Reqs /\ GroupOf[at[w].on] \in Groups
        /\ exprs' \subseteq exprs \union Enforcers[GroupOf[at[w].on]][at[w].for]
    BY <1>2, <1>8, <2>1, AddEnforcersDoes, JobShape, MemoAssumption DEF Wired
  <2>3. Enforcers[GroupOf[at[w].on]][at[w].for] \intersect High = {}
    BY <2>2, EnforcersAssumption
  <2>. QED
    BY <2>1, <2>2, <2>3 DEF PhysicalOf
<1>9. CASE gest' = gest /\ exprs' = exprs
  BY <1>9
<1>. QED
  BY <1>3, <1>4, <1>5, <1>6, <1>7, <1>8, <1>9
     DEF GroupStep, ExprStep, FinalizeExploration, EevtStartOptimization, EevtOptimizeChildren,
         EevtCompleteOptimization, ScheduleChildGroupsJobs, ScheduleApplicableTransformations,
         FinalizeExpression, EevtInitialize, EevtOptimizeChild, EevtOptimizeSelf, UpdateBestCost

LEMMA Holds ==
  ASSUME TypeOK, TypeOK', Wired, Marked, Truth, ~timedOut, NEW w \in Workers,
         GroupStep(w) \/ ExprStep(w), exprs \subseteq exprs', DOMAIN offered \subseteq DOMAIN offered'
  PROVE  Holding(exprs, exprs', gest, gest', DOMAIN offered, DOMAIN offered')
<1>1. exprs' \subseteq Exprs
  BY DEF TypeOK
<1>. QED
  BY <1>1, GroupsHold DEF Holding

\* No best plan is touched, and none read.
LEMMA ReadingWork ==
  ASSUME Reading, NEW w, NEW J, Going(w, J) \/ Forking(w, J),
         overlapped' = overlapped, best' = best, Optimizes(at[w]) => J.est # "update"
  PROVE  Reading'
<1>1. /\ Alive' = Alive /\ job'[at[w]] = J
      /\ \A k \in Alive : k # at[w] => job'[k] = job[k]
  BY DEF Going, Forking
<1>2. \A j \in Alive' : Optimizes(j) /\ job'[j].est = "update" =>
            j \in Alive /\ job[j].est = "update" /\ job'[j].read = job[j].read
  BY <1>1
<1>. QED
  BY <1>2, ReadingElse

-----------------------------------------------------------------------------
(* The steps of the state machines                                         *)

Chosen == Asking /\ Origins /\ Offers /\ Reading /\ Settling

\* A job that neither looks for plans nor at them.
LEMMA OtherChosen ==
  ASSUME TypeOK, TypeOK', Wired, Marked, Truth, Chosen, NEW w \in Workers,
         GroupStep(w) \/ ExprStep(w), at[w] # NoJob,
         at[w].type \notin {"GroupOptimization", "GroupExpressionOptimization"},
         UNCHANGED <<best, past, offered, overlapped, timedOut>>
  PROVE  Chosen'
<1>1. PICK J : Going(w, J) \/ Forking(w, J)
  BY WorkDoes DEF Wired
<1>2. exprs \subseteq exprs'
  BY WorkDoes DEF Wired
<1>3. /\ Alive' = Alive /\ job'[at[w]] = J /\ completed' = completed
      /\ \A k \in Alive : k # at[w] => job'[k] = job[k]
  BY <1>1 DEF Going, Forking
<1>4. ~Optimizes(at[w]) /\ at[w].type # "GroupOptimization"
  BY DEF Optimizes
<1>5. Asking'
  BY <1>1, <1>4, AskingWork DEF Chosen, BestOf
<1>6. Origins'
  BY <1>1, <1>4, OriginsWork DEF Chosen
<1>7. Offers'
  <2>1. \A j \in Alive : j.type = "GroupOptimization" => j \in Alive' /\ job'[j] = job[j]
    BY <1>3, <1>4
  <2>. HIDE DEF Alive
  <2>. QED
    BY <1>2, <1>3, <2>1, OffersElse DEF Chosen
<1>8. Reading'
  BY <1>1, <1>4, ReadingWork DEF Chosen
<1>9. Settling'
  <2>1. Clean' => Clean
    BY DEF Clean
  <2>2. Improving(BestCosts, BestCosts', completed, completed')
    BY <1>3, ImprovingSame
  <2>3. Clean' => Holding(exprs, exprs', gest, gest', DOMAIN offered, DOMAIN offered')
    BY <1>2, <2>1, Holds DEF Clean
  <2>. QED
    BY <1>1, <1>4, <2>1, <2>2, <2>3, SettlingWork DEF Chosen
<1>. QED
  BY <1>5, <1>6, <1>7, <1>8, <1>9 DEF Chosen

LEMMA EndJobChosen ==
  ASSUME TypeOK, TypeOK', Wired, Chosen, NEW w \in Workers, EndJob(w)
  PROVE  Chosen'
<1>. DEFINE J == [job[at[w]] EXCEPT !.est = "done"]
<1>1. /\ Going(w, J) /\ at[w] # NoJob /\ timedOut /\ timedOut' = timedOut
      /\ UNCHANGED <<exprs, gest, best, past, offered, overlapped>>
  <2>1. at[w] # NoJob /\ timedOut /\ UNCHANGED <<memo, timedOut, overlapped>>
    BY DEF EndJob, Working
  <2>. QED
    BY <2>1, EndJobDoes DEF Wired, memo
<1>2. job[at[w]] \in JobStates
  BY <1>1, InHand DEF Wired
<1>3. J.est = "done" /\ J.origin = job[at[w]].origin /\ J.eol = job[at[w]].eol
  BY <1>2 DEF JobStates
<1>. HIDE DEF J
<1>4. /\ Alive' = Alive /\ job'[at[w]] = J /\ completed' = completed
      /\ \A k \in Alive : k # at[w] => job'[k] = job[k]
  BY <1>1 DEF Going
<1>5. Asking'
  BY <1>1, <1>3, AskingWork DEF Chosen, BestOf, AskingOf
<1>6. Origins'
  BY <1>1, <1>3, OriginsWork DEF Chosen
<1>7. Offers'
  <2>1. \A j \in Alive :
            /\ j \in Alive' /\ job'[j].eol = job[j].eol
            /\ job'[j].est = job[j].est \/ job'[j].est = "done"
    BY <1>3, <1>4
  <2>. HIDE DEF Alive
  <2>. QED
    BY <1>1, <1>4, <2>1, OffersElse DEF Chosen
<1>8. Reading'
  BY <1>1, <1>3, ReadingWork DEF Chosen
<1>9. Settling'
  BY <1>1 DEF Settling, Clean
<1>. QED
  BY <1>5, <1>6, <1>7, <1>8, <1>9 DEF Chosen

LEMMA StartOptimizationChosen ==
  ASSUME TypeOK, TypeOK', Wired, Marked, Truth, Chosen, NEW w \in Workers,
         EevtStartOptimization(w)
  PROVE  Chosen'
<1>. DEFINE g == at[w].on
            W == [job[at[w]] EXCEPT !.waits = {Implementation(g)}]
            S == [job[at[w]] EXCEPT !.est = "children", !.eol = MaxLevel(g)]
<1>1. In(w, "GroupOptimization", "initialized") /\ ~timedOut
  BY DEF EevtStartOptimization, Runs
<1>2. /\ at[w] # NoJob /\ at[w].type = "GroupOptimization" /\ at[w] \in Alive /\ at[w] \in Jobs
      /\ job[at[w]] \in JobStates /\ job[at[w]].est = "initialized"
      /\ ~Optimizes(at[w]) /\ g \in Groups
  BY <1>1, InDoes, JobShape DEF Wired, Optimizes
<1>3. UNCHANGED <<exprs, gest, best, past, offered, overlapped, timedOut>>
  BY DEF EevtStartOptimization, Unchanging
<1>4. \/ Forking(w, W)
      \/ gest[g] = "implemented" /\ Going(w, S)
  BY StartOptimizationDoes DEF Wired
<1>5. /\ W.est = "initialized" /\ W.origin = job[at[w]].origin /\ W.seen = job[at[w]].seen
      /\ W.eol = job[at[w]].eol
      /\ S.est = "children" /\ S.origin = job[at[w]].origin /\ S.seen = job[at[w]].seen
      /\ S.eol = MaxLevel(g)
  BY <1>2 DEF JobStates
<1>. HIDE DEF W, S
<1>6. PICK J : /\ J = W \/ (J = S /\ gest[g] = "implemented")
               /\ Going(w, J) \/ Forking(w, J)
  BY <1>4
<1>7. /\ Alive' = Alive /\ job'[at[w]] = J /\ completed' = completed
      /\ \A k \in Alive : k # at[w] => job'[k] = job[k]
  BY <1>6 DEF Going, Forking
<1>8. Asking'
  BY <1>2, <1>3, <1>6, AskingWork DEF Chosen, BestOf
<1>9. Origins'
  BY <1>5, <1>6, OriginsWork DEF Chosen
<1>10. Offers'
  <2>1. \A j \in Alive :
            \/ j \in Alive' /\ job'[j].eol = job[j].eol /\ job'[j].est = job[j].est
            \/ job[j].est \notin {"damp", "done"}
    BY <1>2, <1>7
  <2>. HIDE DEF Alive
  <2>. QED
    BY <1>3, <1>7, <2>1, OffersElse DEF Chosen
<1>11. Reading'
  BY <1>2, <1>3, <1>6, ReadingWork DEF Chosen
<1>12. Settling'
  <2>1. Clean' => Clean
    BY <1>3 DEF Clean
  <2>2. Improving(BestCosts, BestCosts', completed, completed')
    BY <1>3, <1>7, ImprovingSame
  <2>3. Holding(exprs, exprs', gest, gest', DOMAIN offered, DOMAIN offered')
    BY <1>3 DEF Holding, TypeOK
  <2>4. ASSUME Clean
        PROVE  PassesOf(at[w], J, exprs, gest, DOMAIN offered, BestCosts', completed')
    <3>1. J.seen = {}
      BY <1>2, <1>5, <1>6, <2>4 DEF Chosen, Settling, PassesOf
    <3>2. CASE J = W
      BY <1>5, <3>1, <3>2 DEF PassesOf
    <3>3. CASE J = S /\ gest[g] = "implemented"
      <4>1. J.eol = "low" => PhysicalOf(exprs, g) \intersect High = {}
        BY <1>5, <3>3 DEF MaxLevel, PhysicalIn, PhysicalOf
      <4>. QED
        BY <1>5, <3>1, <3>3, <4>1 DEF PassesOf
    <3>. QED
      BY <1>6, <3>2, <3>3
  <2>. QED
    BY <1>2, <1>3, <1>6, <2>1, <2>2, <2>3, <2>4, SettlingWork DEF Chosen
<1>. QED
  BY <1>8, <1>9, <1>10, <1>11, <1>12 DEF Chosen

\* What a group's optimization knows of an expression when it waits for nothing.
LEMMA PassedTried ==
  ASSUME NEW x, NEW r, NEW J, J.waits = {}, NEW B, NEW D, Passed(x, r, J, B, D)
  PROVE  Tried(x, r, B, D)
BY DEF Passed

LEMMA CompleteOptimizationChosen ==
  ASSUME TypeOK, TypeOK', Wired, Marked, Truth, Chosen, NEW w \in Workers,
         EevtCompleteOptimization(w)
  PROVE  Chosen'
<1>. DEFINE j == at[w]
            N == [job[j] EXCEPT !.est = "done"]
            J == IF job[j].eol = "high" THEN Damp(job[j]) ELSE N
<1>1. In(w, "GroupOptimization", "damp") /\ ~timedOut
  BY DEF EevtCompleteOptimization, Runs
<1>2. /\ j # NoJob /\ j.type = "GroupOptimization" /\ j \in Alive /\ j \in Jobs
      /\ job[j] \in JobStates /\ job[j].est = "damp" /\ job[j].waits = {}
      /\ ~Optimizes(j) /\ j.on \in Groups /\ j.for \in Reqs
  BY <1>1, InDoes, JobShape DEF Wired, Optimizes
<1>3. UNCHANGED <<exprs, gest, best, past, offered, overlapped, timedOut>>
  BY DEF EevtCompleteOptimization, Unchanging
<1>4. Going(w, J)
  BY CompleteOptimizationDoes DEF Wired
<1>5. /\ J.origin = job[j].origin
      /\ job[j].eol = "high" => J.est = "children" /\ J.eol = "low" /\ J.seen = {}
      /\ job[j].eol # "high" => J.est = "done" /\ J.eol = "low" /\ J.seen = job[j].seen
      /\ job[j].eol \in {"low", "high"}
  BY <1>2 DEF JobStates, Damp
<1>. HIDE DEF J, N
<1>6. /\ Alive' = Alive /\ job'[j] = J /\ completed' = completed
      /\ \A k \in Alive : k # j => job'[k] = job[k]
  BY <1>4 DEF Going
<1>8. Asking'
  BY <1>2, <1>3, <1>4, AskingWork DEF Chosen, BestOf
<1>9. Origins'
  BY <1>4, <1>5, OriginsWork DEF Chosen
<1>10. Offers'
  <2>1. \A k \in Alive :
            \/ k \in Alive' /\ job'[k].eol = job[k].eol /\ job'[k].est = job[k].est
            \/ k \in Alive' /\ job'[k].eol = job[k].eol /\ job'[k].est \in {"damp", "done"}
            \/ job[k].est \notin {"damp", "done"} \/ job[k].eol # "low"
    BY <1>2, <1>5, <1>6
  <2>. HIDE DEF Alive
  <2>. QED
    BY <1>3, <1>6, <2>1, OffersElse DEF Chosen
<1>11. Reading'
  BY <1>2, <1>3, <1>4, ReadingWork DEF Chosen
<1>12. Settling'
  <2>1. Clean' => Clean
    BY <1>3 DEF Clean
  <2>2. Improving(BestCosts, BestCosts', completed, completed') /\ BestCosts' = BestCosts
    BY <1>3, <1>6, ImprovingSame, BestSame
  <2>3. Holding(exprs, exprs', gest, gest', DOMAIN offered, DOMAIN offered')
    BY <1>3 DEF Holding, TypeOK
  <2>4. ASSUME Clean
        PROVE  PassesOf(j, J, exprs, gest, DOMAIN offered, BestCosts, completed)
    <3>1. PassesOf(j, job[j], exprs, gest, DOMAIN offered, BestCosts, completed)
      BY <1>2, <2>4 DEF Chosen, Settling
    <3>2. \A y \in Exprs : Passed(y, j.for, job[j], BestCosts, completed) =>
                              Passed(y, j.for, J, BestCosts, completed)
      BY <1>2 DEF Passed
    <3>3. PhysicalOf(exprs, j.on) \subseteq Exprs
      BY DEF PhysicalOf, TypeOK
    <3>4. CASE job[j].eol = "high"
      <4>1. \A y \in PhysicalOf(exprs, j.on) \intersect High :
                Passed(y, j.for, J, BestCosts, completed)
        BY <1>2, <3>1, <3>2, <3>3, <3>4 DEF PassesOf
      <4>2. gest[j.on] = "implemented"
        BY <1>2, <3>1 DEF PassesOf
      <4>. QED
        BY <1>5, <3>4, <4>1, <4>2 DEF PassesOf
    <3>5. CASE job[j].eol # "high"
      <4>1. job[j].eol = "low"
        BY <1>5, <3>5
      <4>. QED
        BY <1>2, <1>5, <3>1, <3>2, <3>3, <3>5, <4>1 DEF PassesOf
    <3>. QED
      BY <3>4, <3>5
  <2>. QED
    BY <1>2, <1>3, <1>4, <1>6, <2>1, <2>2, <2>3, <2>4, SettlingWork DEF Chosen
<1>. QED
  BY <1>8, <1>9, <1>10, <1>11, <1>12 DEF Chosen

\* A pass that finds nothing new ends: all there is has been tried.
LEMMA PassEnds ==
  ASSUME TypeOK, Settling, Clean, NEW j \in Alive, j.type = "GroupOptimization",
         job[j].est = "children", job[j].waits = {}, PhysicalIn(j.on) \subseteq job[j].seen
  PROVE  /\ \A y \in PhysicalIn(j.on) : y \in High \/ job[j].eol = "low" =>
                Tried(y, j.for, BestCosts, completed)
         /\ gest[j.on] = "implemented" /\ job[j].seen \subseteq PhysicalIn(j.on)
<1>1. PassesOf(j, job[j], exprs, gest, DOMAIN offered, BestCosts, completed)
  BY DEF Settling
<1>2. PhysicalIn(j.on) = PhysicalOf(exprs, j.on)
  BY DEF PhysicalIn, PhysicalOf
<1>3. job[j].eol \in {"low", "high"}
  BY DEF TypeOK, JobStates, Alive
<1>4. \A y \in PhysicalIn(j.on) : y \in High \/ job[j].eol = "low" =>
          Passed(y, j.for, job[j], BestCosts, completed)
  BY <1>1, <1>2, <1>3 DEF PassesOf
<1>. QED
  BY <1>1, <1>2, <1>4, PassedTried DEF PassesOf

LEMMA PassEndsChosen ==
  ASSUME TypeOK, TypeOK', Wired, Chosen, NEW w \in Workers,
         EevtOptimizeChildren(w), PhysicalIn(at[w].on) \subseteq job[at[w]].seen,
         Going(w, [job[at[w]] EXCEPT !.est = "damp"])
  PROVE  Chosen'
<1>. DEFINE j == at[w]
            o == <<j.on, j.for>>
            J == [job[j] EXCEPT !.est = "damp"]
<1>1. In(w, "GroupOptimization", "children") /\ ~timedOut
  BY DEF EevtOptimizeChildren, Runs
<1>2. /\ j # NoJob /\ j.type = "GroupOptimization" /\ j \in Alive /\ j \in Jobs
      /\ job[j] \in JobStates /\ job[j].est = "children" /\ job[j].waits = {}
      /\ ~Optimizes(j) /\ j.on \in Groups /\ j.for \in Reqs /\ j = OptimizationOf(o)
      /\ o \in Contexts /\ o[1] = j.on /\ o[2] = j.for
  BY <1>1, InDoes, JobShape DEF Wired, Optimizes, OptimizationOf, Contexts
<1>3. UNCHANGED <<exprs, gest, best, past, overlapped, timedOut>>
  BY DEF EevtOptimizeChildren, Unchanging
<1>4. /\ J.origin = job[j].origin /\ J.est = "damp" /\ J.eol = job[j].eol
      /\ J.seen = job[j].seen /\ J.waits = {} /\ job[j].eol \in {"low", "high"}
  BY <1>2 DEF JobStates
<1>. HIDE DEF J
<1>5. Going(w, J)
  BY DEF J
<1>6. /\ Alive' = Alive /\ job'[j] = J /\ completed' = completed
      /\ \A k \in Alive : k # j => job'[k] = job[k]
  BY <1>5 DEF Going
<1>7. offered' = IF job[j].eol = "high" THEN offered
                 ELSE [c \in DOMAIN offered \union {o} |->
                         IF c = o THEN PhysicalIn(j.on) ELSE offered[c]]
  <2>1. PhysicalIn(j.on) \ job[j].seen = {}
    OBVIOUS
  <2>. QED
    BY <2>1, OptimizeChildrenDoes, <1>6, <1>4, <1>2 DEF EevtOptimizeChildren
<1>8. Asking'
  BY <1>2, <1>3, <1>5, AskingWork DEF Chosen, BestOf
<1>9. Origins'
  BY <1>4, <1>5, OriginsWork DEF Chosen
<1>10. Offers'
  <2>1. ASSUME NEW c \in DOMAIN offered, c # o
        PROVE  /\ offered[c] \subseteq PhysicalIn(c[1])
               /\ \/ OptimizationOf(c) \in completed'
                  \/ /\ OptimizationOf(c) \in Alive'
                     /\ job'[OptimizationOf(c)].est \in {"damp", "done"}
                     /\ job'[OptimizationOf(c)].eol = "low"
    <3>1. OptimizationOf(c) # j
      BY <1>2, <2>1, OptimizationJob DEF TypeOK
    <3>2. /\ offered[c] \subseteq PhysicalIn(c[1])
          /\ \/ OptimizationOf(c) \in completed
             \/ /\ OptimizationOf(c) \in Alive
                /\ job[OptimizationOf(c)].est \in {"damp", "done"}
                /\ job[OptimizationOf(c)].eol = "low"
      BY DEF Chosen, Offers
    <3>. HIDE DEF Alive
    <3>. QED
      BY <1>6, <3>1, <3>2
  <2>2. o \notin DOMAIN offered
    <3>1. j \notin completed
      BY <1>2 DEF Wired, HandsOK
    <3>. QED
      BY <1>2, <3>1 DEF Chosen, Offers
  <2>3. \A c : PhysicalIn(c[1])' = PhysicalIn(c[1])
    BY <1>3 DEF PhysicalIn
  <2>4. CASE job[j].eol = "high"
    BY <1>7, <2>1, <2>2, <2>3, <2>4 DEF Offers, Alive
  <2>5. CASE job[j].eol = "low"
    <3>1. /\ DOMAIN offered' = DOMAIN offered \union {o} /\ offered'[o] = PhysicalIn(j.on)
          /\ \A c \in DOMAIN offered : c # o => offered'[c] = offered[c]
      BY <1>7, <2>5
    <3>2. OptimizationOf(o) \in Alive' /\ job'[OptimizationOf(o)].est = "damp"
          /\ job'[OptimizationOf(o)].eol = "low"
      BY <1>2, <1>4, <1>6, <2>5
    <3>3. ASSUME NEW c \in DOMAIN offered'
          PROVE  /\ offered'[c] \subseteq PhysicalIn(c[1])
                 /\ \/ OptimizationOf(c) \in completed'
                    \/ /\ OptimizationOf(c) \in Alive'
                       /\ job'[OptimizationOf(c)].est \in {"damp", "done"}
                       /\ job'[OptimizationOf(c)].eol = "low"
      <4>1. CASE c = o
        BY <1>2, <3>1, <3>2, <4>1
      <4>2. CASE c # o
        <5>1. c \in DOMAIN offered /\ offered'[c] = offered[c]
          BY <3>1, <3>3, <4>2
        <5>. QED
          BY <2>1, <4>2, <5>1
      <4>. QED
        BY <4>1, <4>2
    <3>. QED
      BY <2>3, <3>3 DEF Offers, Alive
  <2>. QED
    BY <1>4, <2>4, <2>5
<1>11. Reading'
  BY <1>2, <1>3, <1>5, ReadingWork DEF Chosen
<1>12. Settling'
  <2>1. Clean' => Clean
    BY <1>3 DEF Clean
  <2>2. Improving(BestCosts, BestCosts', completed, completed') /\ BestCosts' = BestCosts
    BY <1>3, <1>6, ImprovingSame, BestSame
  <2>3. /\ DOMAIN offered \subseteq DOMAIN offered'
        /\ job[j].eol = "low" => o \in DOMAIN offered'
        /\ \A c \in DOMAIN offered' :
              \/ c \in DOMAIN offered /\ offered'[c] = offered[c]
              \/ c = o /\ job[j].eol = "low" /\ offered'[c] = PhysicalIn(j.on)
    BY <1>4, <1>7
  <2>4. Holding(exprs, exprs', gest, gest', DOMAIN offered, DOMAIN offered')
    BY <1>3, <2>3 DEF Holding, TypeOK
  <2>5. ASSUME Clean
        PROVE  /\ PassesOf(j, J, exprs, gest, DOMAIN offered', BestCosts, completed)
               /\ job[j].eol = "low" =>
                     \A x \in PhysicalIn(j.on) : Tried(x, j.for, BestCosts, completed)
    <3>1. /\ \A y \in PhysicalIn(j.on) : y \in High \/ job[j].eol = "low" =>
                Tried(y, j.for, BestCosts, completed)
          /\ gest[j.on] = "implemented" /\ job[j].seen \subseteq PhysicalIn(j.on)
      BY <1>2, <2>5, PassEnds DEF Chosen
    <3>2. PhysicalIn(j.on) = PhysicalOf(exprs, j.on)
      BY DEF PhysicalIn, PhysicalOf
    <3>3. \A y \in PhysicalIn(j.on) : y \in High \/ job[j].eol = "low" =>
              Passed(y, j.for, J, BestCosts, completed)
      BY <3>1 DEF Passed
    <3>4. PassesOf(j, J, exprs, gest, DOMAIN offered', BestCosts, completed)
      BY <1>4, <2>3, <3>1, <3>2, <3>3 DEF PassesOf
    <3>. QED
      BY <3>1, <3>4
  <2>6. Clean' => \A c \in DOMAIN offered' :
              \/ c \in DOMAIN offered /\ offered'[c] = offered[c]
              \/ \A x \in offered'[c] : Tried(x, c[2], BestCosts', completed')
    BY <1>2, <1>6, <2>1, <2>2, <2>3, <2>5
  <2>. QED
    BY <1>2, <1>3, <1>5, <1>6, <2>1, <2>2, <2>4, <2>5, <2>6, SettlingWork DEF Chosen
<1>. QED
  BY <1>8, <1>9, <1>10, <1>11, <1>12 DEF Chosen

LEMMA PassSchedulesChosen ==
  ASSUME TypeOK, TypeOK', Wired, Chosen, NEW w \in Workers,
         EevtOptimizeChildren(w),
         LET j == at[w]
             new == PhysicalIn(j.on) \ job[j].seen
             X == {x \in new : FOptimizeChild(j, x)}
         IN  /\ UNCHANGED offered
             /\ Forking(w, [[job[j] EXCEPT !.seen = @ \union new] EXCEPT
                              !.waits = PassKids("GroupExpressionOptimization", X, j.for)])
  PROVE  Chosen'
<1>. DEFINE j == at[w]
            new == PhysicalIn(j.on) \ job[j].seen
            X == {x \in new : FOptimizeChild(j, x)}
            kids == PassKids("GroupExpressionOptimization", X, j.for)
            J == [[job[j] EXCEPT !.seen = @ \union new] EXCEPT !.waits = kids]
<1>1. In(w, "GroupOptimization", "children") /\ ~timedOut
  BY DEF EevtOptimizeChildren, Runs
<1>2. /\ j # NoJob /\ j.type = "GroupOptimization" /\ j \in Alive /\ j \in Jobs
      /\ job[j] \in JobStates /\ job[j].est = "children" /\ job[j].waits = {}
      /\ ~Optimizes(j) /\ j.on \in Groups /\ j.for \in Reqs
  BY <1>1, InDoes, JobShape DEF Wired, Optimizes
<1>3. UNCHANGED <<exprs, gest, best, past, offered, overlapped, timedOut>>
  BY DEF EevtOptimizeChildren, Unchanging
<1>4. /\ J.origin = job[j].origin /\ J.est = "children" /\ J.eol = job[j].eol
      /\ J.seen = job[j].seen \union PhysicalIn(j.on) /\ J.waits = kids
      /\ job[j].eol \in {"low", "high"}
  BY <1>2 DEF JobStates
<1>5. Forking(w, J)
  OBVIOUS
<1>. HIDE DEF J
<1>6. /\ Alive' = Alive /\ job'[j] = J /\ completed' = completed
      /\ \A k \in Alive : k # j => job'[k] = job[k]
  BY <1>5 DEF Forking
<1>8. Asking'
  BY <1>2, <1>3, <1>5, AskingWork DEF Chosen, BestOf
<1>9. Origins'
  BY <1>4, <1>5, OriginsWork DEF Chosen
<1>10. Offers'
  <2>1. \A k \in Alive :
            \/ k \in Alive' /\ job'[k].eol = job[k].eol /\ job'[k].est = job[k].est
            \/ job[k].est \notin {"damp", "done"}
    BY <1>2, <1>6
  <2>. HIDE DEF Alive
  <2>. QED
    BY <1>3, <1>6, <2>1, OffersElse DEF Chosen
<1>11. Reading'
  BY <1>2, <1>3, <1>5, ReadingWork DEF Chosen
<1>12. Settling'
  <2>1. Clean' => Clean
    BY <1>3 DEF Clean
  <2>2. Improving(BestCosts, BestCosts', completed, completed') /\ BestCosts' = BestCosts
    BY <1>3, <1>6, ImprovingSame, BestSame
  <2>3. Holding(exprs, exprs', gest, gest', DOMAIN offered, DOMAIN offered')
    BY <1>3 DEF Holding, TypeOK
  <2>4. ASSUME Clean
        PROVE  PassesOf(j, J, exprs, gest, DOMAIN offered, BestCosts, completed)
    <3>1. PassesOf(j, job[j], exprs, gest, DOMAIN offered, BestCosts, completed)
      BY <1>2, <2>4 DEF Chosen, Settling
    <3>2. PhysicalOf(exprs, j.on) = PhysicalIn(j.on) /\ PhysicalIn(j.on) \subseteq Exprs
      BY DEF PhysicalOf, PhysicalIn, TypeOK
    <3>3. \A y : Passed(y, j.for, job[j], BestCosts, completed) =>
                    Passed(y, j.for, J, BestCosts, completed)
      BY <1>2 DEF Passed
    <3>4. ASSUME NEW y \in new, (y \in High) = (job[j].eol = "high")
          PROVE  Passed(y, j.for, J, BestCosts, completed)
      <4>1. CASE y = job[j].origin
        <5>1. y \in Exprs /\ GroupOf[y] = j.on
          BY <3>2, <3>4 DEF PhysicalIn
        <5>2. ~IsPlan(y, j.for)
          BY <1>2, <4>1, <5>1 DEF Chosen, Origins
        <5>. QED
          BY <5>2 DEF Passed, Tried
      <4>2. CASE y # job[j].origin
        <5>1. y \in X
          BY <3>4, <4>2 DEF FOptimizeChild
        <5>2. ExprJob("GroupExpressionOptimization", y, j.for) \in kids
          BY <5>1 DEF PassKids
        <5>. QED
          BY <1>4, <5>2 DEF Passed
      <4>. QED
        BY <4>1, <4>2
    <3>5. gest[j.on] = "implemented" /\ job[j].seen \subseteq PhysicalIn(j.on)
      BY <1>2, <3>1, <3>2 DEF PassesOf
    <3>6. J.seen \subseteq PhysicalIn(j.on)
          /\ \A y \in J.seen : y \in job[j].seen \/ y \in new
      BY <1>4, <3>5
    <3>7. CASE job[j].eol = "high"
      <4>1. ASSUME NEW y \in J.seen \intersect High
            PROVE  Passed(y, j.for, J, BestCosts, completed)
        <5>1. CASE y \in job[j].seen
          BY <1>2, <3>1, <3>3, <3>7, <4>1, <5>1 DEF PassesOf
        <5>2. CASE y \in new
          BY <3>4, <3>7, <4>1, <5>2
        <5>. QED
          BY <3>6, <4>1, <5>1, <5>2
      <4>. QED
        BY <1>4, <3>2, <3>5, <3>6, <3>7, <4>1 DEF PassesOf
    <3>8. CASE job[j].eol = "low"
      <4>1. ASSUME NEW y \in (PhysicalIn(j.on) \intersect High) \union (J.seen \ High)
            PROVE  Passed(y, j.for, J, BestCosts, completed)
        <5>1. CASE y \in (PhysicalIn(j.on) \intersect High) \union (job[j].seen \ High)
          BY <1>2, <3>1, <3>2, <3>3, <3>8, <5>1 DEF PassesOf
        <5>2. CASE y \in new /\ y \notin High
          BY <3>4, <3>8, <5>2
        <5>. QED
          BY <3>6, <4>1, <5>1, <5>2
      <4>. QED
        BY <1>4, <3>2, <3>5, <3>6, <3>8, <4>1 DEF PassesOf
    <3>. QED
      BY <1>4, <3>7, <3>8
  <2>. QED
    BY <1>2, <1>3, <1>5, <1>6, <2>1, <2>2, <2>3, <2>4, SettlingWork DEF Chosen
<1>. QED
  BY <1>8, <1>9, <1>10, <1>11, <1>12 DEF Chosen

LEMMA OptimizeChildrenChosen ==
  ASSUME TypeOK, TypeOK', Wired, Chosen, NEW w \in Workers, EevtOptimizeChildren(w)
  PROVE  Chosen'
<1>. DEFINE j == at[w]
            new == PhysicalIn(j.on) \ job[j].seen
            X == {x \in new : FOptimizeChild(j, x)}
            J == [[job[j] EXCEPT !.seen = @ \union new] EXCEPT
                     !.waits = PassKids("GroupExpressionOptimization", X, j.for)]
<1>1. \/ UNCHANGED offered /\ Forking(w, J)
      \/ new = {} /\ Going(w, [job[j] EXCEPT !.est = "damp"])
  BY OptimizeChildrenDoes DEF Wired
<1>2. CASE UNCHANGED offered /\ Forking(w, J)
  BY <1>2, PassSchedulesChosen
<1>3. CASE new = {} /\ Going(w, [job[j] EXCEPT !.est = "damp"])
  <2>1. PhysicalIn(at[w].on) \subseteq job[at[w]].seen
    BY <1>3
  <2>. QED
    BY <1>3, <2>1, PassEndsChosen
<1>. QED
  BY <1>1, <1>2, <1>3

\* An expression's optimization that leaves the best plan alone.
LEMMA QuietChosen ==
  ASSUME TypeOK, TypeOK', Wired, Marked, Truth, Chosen, NEW w \in Workers,
         GroupStep(w) \/ ExprStep(w), Optimizes(at[w]),
         NEW J, Going(w, J) \/ Forking(w, J),
         UNCHANGED <<best, past, offered, overlapped, timedOut>>, J.est # "update",
         AskingOf(at[w], J, BestCosts, completed),
         J.est = "done" => Tried(at[w].on, at[w].for, BestCosts, completed)
  PROVE  Chosen'
<1>1. /\ Alive' = Alive /\ job'[at[w]] = J /\ completed' = completed /\ at[w] # NoJob
      /\ \A k \in Alive : k # at[w] => job'[k] = job[k]
  BY DEF Going, Forking
<1>2. at[w].type # "GroupOptimization" /\ exprs \subseteq exprs'
  BY WorkDoes DEF Wired, Optimizes
<1>3. BestCosts' = BestCosts
  BY BestSame
<1>4. Asking'
  BY <1>3, AskingWork DEF Chosen, BestOf
<1>5. Origins'
  BY <1>2, OriginsWork DEF Chosen
<1>6. Offers'
  <2>1. \A j \in Alive : j.type = "GroupOptimization" => j \in Alive' /\ job'[j] = job[j]
    BY <1>1, <1>2
  <2>. HIDE DEF Alive
  <2>. QED
    BY <1>1, <1>2, <2>1, OffersElse DEF Chosen
<1>7. Reading'
  BY ReadingWork DEF Chosen
<1>8. Settling'
  <2>1. Clean' => Clean
    BY DEF Clean
  <2>2. Improving(BestCosts, BestCosts', completed, completed')
    BY <1>1, ImprovingSame
  <2>3. Clean' => Holding(exprs, exprs', gest, gest', DOMAIN offered, DOMAIN offered')
    BY <1>2, <2>1, Holds DEF Clean
  <2>. QED
    BY <1>1, <1>2, <1>3, <2>1, <2>2, <2>3, SettlingWork DEF Chosen
<1>. QED
  BY <1>4, <1>5, <1>6, <1>7, <1>8 DEF Chosen

LEMMA InitializeChosen ==
  ASSUME TypeOK, TypeOK', Wired, Marked, Truth, Chosen, NEW w \in Workers, EevtInitialize(w)
  PROVE  Chosen'
<1>. DEFINE j == at[w]
            x == at[w].on
            r == at[w].for
            give_up == <<x, r>> \notin Accepts \/ FSafeToPrune(x, r, Cost[x])
            J == [job[j] EXCEPT !.est = IF give_up THEN "done" ELSE "children"]
<1>1. In(w, "GroupExpressionOptimization", "initialized")
  BY DEF EevtInitialize, Runs
<1>2. /\ Optimizes(j) /\ j \in Alive /\ j \in Jobs /\ job[j] \in JobStates
      /\ job[j].est = "initialized" /\ x \in Exprs /\ r \in Reqs
  BY <1>1, InDoes, OptimizesShape DEF Wired, Optimizes
<1>3. UNCHANGED <<best, past, offered, overlapped, timedOut>>
  BY DEF EevtInitialize, Unchanging
<1>4. Going(w, J)
  BY InitializeDoes DEF Wired
<1>5. J.est = (IF give_up THEN "done" ELSE "children") /\ J.child = job[j].child
  BY <1>2 DEF JobStates
<1>6. J.child = 1
  BY <1>2, <1>5 DEF Chosen, Asking, AskingOf
<1>. HIDE DEF J
<1>7. AskingOf(j, J, BestCosts, completed)
  <2>1. \A i \in DOMAIN Kids[x] : ~(i < 1)
    BY <1>2, KidsOf
  <2>. QED
    BY <1>5, <1>6, <2>1 DEF AskingOf
<1>8. J.est = "done" => Tried(x, r, BestCosts, completed)
  <2>1. CASE <<x, r>> \notin Accepts
    BY <2>1 DEF Tried, IsPlan
  <2>2. CASE FSafeToPrune(x, r, Cost[x])
    <3>1. OwnContext(x, r) \in Contexts /\ Cost[x] \in Nat
      BY <1>2, AskedTyped, CostsAssumption
    <3>2. BestCosts[OwnContext(x, r)] = PocLookupBest(GroupOf[x], r)
      BY <3>1 DEF BestCosts, OwnContext
    <3>3. BestCosts[OwnContext(x, r)] \in Nat
      BY <3>1, BestCostsTyped
    <3>4. BestCosts[OwnContext(x, r)] <= Cost[x]
      BY <2>2, <3>1, <3>2, <3>3 DEF FSafeToPrune
    <3>. QED
      BY <3>4 DEF Tried, Settled
  <2>. QED
    BY <1>5, <2>1, <2>2
<1>9. GroupStep(w) \/ ExprStep(w)
  BY DEF ExprStep
<1>10. J.est # "update"
  BY <1>5
<1>. QED
  BY <1>2, <1>3, <1>4, <1>7, <1>8, <1>9, <1>10, QuietChosen

LEMMA OptimizeChildChosen ==
  ASSUME TypeOK, TypeOK', Wired, Marked, Truth, Chosen, NEW w \in Workers, EevtOptimizeChild(w)
  PROVE  Chosen'
<1>. DEFINE j == at[w]
            x == at[w].on
            r == at[w].for
            i == job[j].child
            c == OwnContext(x, r)
            A == [job[j] EXCEPT !.est = "optimized"]
            F == [job[j] EXCEPT !.est = "done"]
            K == [[job[j] EXCEPT !.child = i + 1] EXCEPT !.waits = {NextKid(x, r, i)}]
<1>1. In(w, "GroupExpressionOptimization", "children")
  BY DEF EevtOptimizeChild, Runs
<1>2. /\ Optimizes(j) /\ j \in Alive /\ j \in Jobs /\ job[j] \in JobStates
      /\ job[j].est = "children" /\ job[j].waits = {} /\ x \in Exprs /\ r \in Reqs
      /\ i \in Nat \ {0}
  BY <1>1, InDoes, OptimizesShape DEF Wired, Optimizes, JobStates
<1>3. UNCHANGED <<best, past, offered, overlapped, timedOut>>
  BY DEF EevtOptimizeChild, Unchanging
<1>4. GroupStep(w) \/ ExprStep(w)
  BY DEF ExprStep
<1>5. /\ A.est = "optimized" /\ F.est = "done" /\ K.est = "children"
      /\ K.child = i + 1 /\ K.waits = {NextKid(x, r, i)}
  BY <1>2 DEF JobStates
<1>6. \/ i > Len(Kids[x]) /\ Going(w, A)
      \/ i <= Len(Kids[x]) /\ FChildOptimizationFailed(x, r, i) /\ Going(w, F)
      \/ i <= Len(Kids[x]) /\ ~FChildOptimizationFailed(x, r, i) /\ Forking(w, K)
  BY OptimizeChildDoes DEF Wired
<1>. HIDE DEF A, F, K
<1>7. /\ <<x, r>> \in Accepts
      /\ \A k \in DOMAIN Kids[x] : k < i =>
            /\ KidContext(x, r, k) # OwnContext(x, r)
            /\ OptimizationOf(KidContext(x, r, k)) \in completed
  BY <1>2 DEF Chosen, Asking, AskingOf
<1>8. /\ DOMAIN Kids[x] = 1..Len(Kids[x]) /\ Len(Kids[x]) \in Nat
      /\ \A k \in 1..Len(Kids[x]) : /\ KidContext(x, r, k) \in AskedContexts(x, r)
                                    /\ KidContext(x, r, k) \in Contexts
                                    /\ BestCosts[KidContext(x, r, k)] = ChildCost(x, r, k)
                                    /\ BestCosts[KidContext(x, r, k)] \in Nat
  <2>1. \A k \in 1..Len(Kids[x]) : /\ KidContext(x, r, k) \in AskedContexts(x, r)
                                   /\ KidContext(x, r, k) \in Contexts
    BY <1>2, KidsOf, AskedTyped
  <2>2. \A k \in 1..Len(Kids[x]) : BestCosts[KidContext(x, r, k)] = ChildCost(x, r, k)
    BY <2>1 DEF BestCosts, ChildCost, KidContext
  <2>. QED
    BY <1>2, <2>1, <2>2, KidsOf, BestCostsTyped
<1>9. CASE i > Len(Kids[x]) /\ Going(w, A)
  <2>1. \A d \in AskedContexts(x, r) : d # OwnContext(x, r) /\ OptimizationOf(d) \in completed
    BY <1>2, <1>7, <1>8, <1>9 DEF AskedContexts
  <2>2. AskingOf(j, A, BestCosts, completed)
    BY <1>5, <1>7, <2>1 DEF AskingOf
  <2>3. A.est # "update" /\ A.est # "done"
    BY <1>5
  <2>. QED
    BY <1>2, <1>3, <1>4, <1>9, <2>2, <2>3, QuietChosen
<1>10. CASE i <= Len(Kids[x]) /\ FChildOptimizationFailed(x, r, i) /\ Going(w, F)
  <2>1. Tried(x, r, BestCosts, completed)
    <3>1. CASE i > 1 /\ ChildCost(x, r, i - 1) = Infinity
      <4>1. i - 1 \in DOMAIN Kids[x] /\ i - 1 < i
        BY <1>2, <1>8, <1>10, <3>1
      <4>2. /\ OptimizationOf(KidContext(x, r, i - 1)) \in completed
            /\ KidContext(x, r, i - 1) \in AskedContexts(x, r)
            /\ BestCosts[KidContext(x, r, i - 1)] = Infinity
        BY <1>7, <1>8, <3>1, <4>1
      <4>3. BestCosts[KidContext(x, r, i - 1)] >= Infinity
        BY <4>2, CostsAssumption
      <4>. QED
        BY <4>2, <4>3 DEF Tried, Settled
    <3>2. CASE i > 1 /\ FSafeToPrune(x, r, Cost[x] + ChildCost(x, r, i - 1))
      <4>1. i - 1 \in DOMAIN Kids[x] /\ i - 1 < i
        BY <1>2, <1>8, <1>10, <3>2
      <4>2. /\ OptimizationOf(KidContext(x, r, i - 1)) \in completed
            /\ KidContext(x, r, i - 1) \in AskedContexts(x, r)
            /\ BestCosts[KidContext(x, r, i - 1)] = ChildCost(x, r, i - 1)
            /\ BestCosts[KidContext(x, r, i - 1)] \in Nat
        BY <1>7, <1>8, <4>1
      <4>3. c \in Contexts /\ BestCosts[c] \in Nat /\ Cost[x] \in Nat
        BY <1>2, AskedTyped, BestCostsTyped, CostsAssumption
      <4>4. BestCosts[c] = PocLookupBest(GroupOf[x], r)
        BY <4>3 DEF BestCosts, OwnContext
      <4>5. BestCosts[c] <= Cost[x] + BestCosts[KidContext(x, r, i - 1)]
        BY <3>2, <4>2, <4>3, <4>4 DEF FSafeToPrune
      <4>. QED
        BY <4>2, <4>5 DEF Tried, Settled
    <3>3. CASE Kids[x][i] = GroupOf[x] /\ KidReq[x][r][i] = r
      <4>1. KidContext(x, r, i) = OwnContext(x, r) /\ i \in 1..Len(Kids[x])
        BY <1>2, <1>10, <3>3 DEF KidContext, OwnContext
      <4>2. OwnContext(x, r) \in AskedContexts(x, r)
        BY <1>8, <4>1
      <4>. QED
        BY <4>2 DEF Tried, IsPlan
    <3>. QED
      BY <1>10, <3>1, <3>2, <3>3 DEF FChildOptimizationFailed
  <2>2. AskingOf(j, F, BestCosts, completed)
    BY <1>5 DEF AskingOf
  <2>3. F.est # "update"
    BY <1>5
  <2>. QED
    BY <1>2, <1>3, <1>4, <1>10, <2>1, <2>2, <2>3, QuietChosen
<1>11. CASE i <= Len(Kids[x]) /\ ~FChildOptimizationFailed(x, r, i) /\ Forking(w, K)
  <2>1. ASSUME NEW k \in DOMAIN Kids[x], k < i + 1
        PROVE  /\ KidContext(x, r, k) # OwnContext(x, r)
               /\ OptimizationOf(KidContext(x, r, k)) \in completed \union K.waits
    <3>1. CASE k < i
      BY <1>7, <3>1
    <3>2. CASE k = i
      <4>1. KidContext(x, r, i) # OwnContext(x, r)
        BY <1>11 DEF FChildOptimizationFailed, KidContext, OwnContext
      <4>2. OptimizationOf(KidContext(x, r, i)) = NextKid(x, r, i)
        BY DEF OptimizationOf, KidContext, NextKid
      <4>. QED
        BY <1>5, <3>2, <4>1, <4>2
    <3>. QED
      BY <1>2, <1>8, <2>1, <3>1, <3>2
  <2>2. AskingOf(j, K, BestCosts, completed)
    BY <1>5, <1>7, <2>1 DEF AskingOf
  <2>3. K.est # "update" /\ K.est # "done"
    BY <1>5
  <2>. QED
    BY <1>2, <1>3, <1>4, <1>11, <2>2, <2>3, QuietChosen
<1>. QED
  BY <1>6, <1>9, <1>10, <1>11

LEMMA AddEnforcersChosen ==
  ASSUME TypeOK, TypeOK', Wired, Marked, Truth, Chosen, NEW w \in Workers, EevtAddEnforcers(w)
  PROVE  Chosen'
<1>. DEFINE j == at[w]
            x == at[w].on
            r == at[w].for
            good == FChildrenOptimized(x, r) /\ Enforcing[x][r] # "required"
            J == [job[j] EXCEPT !.est = IF good THEN "self" ELSE "done"]
<1>1. In(w, "GroupExpressionOptimization", "optimized")
  BY DEF EevtAddEnforcers, Runs
<1>2. /\ Optimizes(j) /\ j \in Alive /\ j \in Jobs /\ job[j] \in JobStates
      /\ job[j].est = "optimized" /\ x \in Exprs /\ r \in Reqs
  BY <1>1, InDoes, OptimizesShape DEF Wired, Optimizes
<1>3. UNCHANGED <<best, past, offered, overlapped, timedOut>>
  BY DEF EevtAddEnforcers, Unchanging
<1>4. Going(w, J) /\ (GroupStep(w) \/ ExprStep(w))
  BY AddEnforcersDoes DEF Wired, ExprStep
<1>5. J.est = IF good THEN "self" ELSE "done"
  BY <1>2 DEF JobStates
<1>6. /\ <<x, r>> \in Accepts
      /\ \A d \in AskedContexts(x, r) : d # OwnContext(x, r) /\ OptimizationOf(d) \in completed
  BY <1>2 DEF Chosen, Asking, AskingOf
<1>. HIDE DEF J
<1>7. AskingOf(j, J, BestCosts, completed)
  BY <1>5, <1>6 DEF AskingOf
<1>8. ~good => Tried(x, r, BestCosts, completed)
  <2>1. CASE Enforcing[x][r] = "required"
    BY <2>1 DEF Tried, IsPlan
  <2>2. CASE ~FChildrenOptimized(x, r)
    <3>1. PICK i \in DOMAIN Kids[x] : ~(ChildCost(x, r, i) < Infinity)
      BY <2>2 DEF FChildrenOptimized
    <3>2. KidContext(x, r, i) \in AskedContexts(x, r) /\ KidContext(x, r, i) \in Contexts
      BY <1>2, AskedTyped
    <3>3. BestCosts[KidContext(x, r, i)] = ChildCost(x, r, i)
      BY <3>2 DEF BestCosts, ChildCost, KidContext
    <3>4. BestCosts[KidContext(x, r, i)] \in Nat /\ Infinity \in Nat
      BY <3>2, BestCostsTyped, CostsAssumption
    <3>5. BestCosts[KidContext(x, r, i)] >= Infinity
      BY <3>1, <3>3, <3>4
    <3>. QED
      BY <1>6, <3>2, <3>5 DEF Tried, Settled
  <2>. QED
    BY <2>1, <2>2
<1>9. J.est = "done" => Tried(x, r, BestCosts, completed)
  BY <1>5, <1>8
<1>10. J.est # "update"
  BY <1>5
<1>. QED
  BY <1>2, <1>3, <1>4, <1>7, <1>9, <1>10, QuietChosen

\* The cost is computed and the best plan read: from now on no other job may do so.
LEMMA OptimizeSelfChosen ==
  ASSUME TypeOK, TypeOK', Wired, Marked, Truth, Chosen, NEW w \in Workers, EevtOptimizeSelf(w)
  PROVE  Chosen'
<1>. DEFINE j == at[w]
            x == at[w].on
            r == at[w].for
            c == OwnContext(x, r)
            J == [job[j] EXCEPT !.est = "update", !.read = best[c], !.cost = PlanCost(x, r)]
<1>1. In(w, "GroupExpressionOptimization", "self")
  BY DEF EevtOptimizeSelf, Runs
<1>2. /\ Optimizes(j) /\ j \in Alive /\ j \in Jobs /\ job[j] \in JobStates
      /\ j.type # "GroupOptimization"
      /\ job[j].est = "self" /\ x \in Exprs /\ r \in Reqs
  BY <1>1, InDoes, OptimizesShape DEF Wired, Optimizes
<1>3. /\ UNCHANGED <<exprs, gest, best, past, offered, timedOut>>
      /\ overlapped' = IF Overlapping(j) # {} THEN overlapped \union {c} ELSE overlapped
  BY DEF EevtOptimizeSelf, Unchanging, OwnContext
<1>4. Going(w, J)
  BY OptimizeSelfDoes DEF Wired, OwnContext
<1>5. /\ J.est = "update" /\ J.read = best[c] /\ J.cost = PlanCost(x, r)
      /\ PlanCost(x, r) = TotalCost(BestCosts, x, r)
  BY <1>2, PlanCostTyped DEF JobStates
<1>. HIDE DEF J
<1>6. /\ Alive' = Alive /\ job'[j] = J /\ completed' = completed
      /\ \A k \in Alive : k # j => job'[k] = job[k]
  BY <1>4 DEF Going
<1>7. BestCosts' = BestCosts
  BY <1>3, BestSame
<1>8. Asking'
  <2>1. /\ <<x, r>> \in Accepts /\ Enforcing[x][r] # "required"
        /\ \A d \in AskedContexts(x, r) :
              d # OwnContext(x, r) /\ OptimizationOf(d) \in completed
    BY <1>2 DEF Chosen, Asking, AskingOf
  <2>2. AskingOf(j, J, BestCosts, completed)
    BY <1>5, <2>1 DEF AskingOf
  <2>. QED
    BY <1>3, <1>4, <1>7, <2>2, AskingWork DEF Chosen, BestOf
<1>9. Origins'
  BY <1>2, <1>4, OriginsWork DEF Chosen
<1>10. Offers'
  <2>1. \A k \in Alive : k.type = "GroupOptimization" => k \in Alive' /\ job'[k] = job[k]
    BY <1>2, <1>6
  <2>. HIDE DEF Alive
  <2>. QED
    BY <1>3, <1>6, <2>1, OffersElse DEF Chosen
<1>11. Reading'
  <2>. SUFFICES ASSUME overlapped' = {} PROVE Reading'
    BY DEF Reading
  <2>1. overlapped = {} /\ Overlapping(j) = {}
    BY <1>3
  <2>2. \A k \in Alive : Optimizes(k) /\ job[k].est = "update" /\ k # j =>
            OwnContext(k.on, k.for) # c
    BY <1>2, <2>1 DEF Overlapping, OwnContext, Optimizes, Alive
  <2>3. \A k \in Alive : Optimizes(k) /\ job[k].est = "update" =>
            /\ job[k].read = best[OwnContext(k.on, k.for)]
            /\ \A l \in Alive :
                  Optimizes(l) /\ job[l].est = "update"
                  /\ OwnContext(l.on, l.for) = OwnContext(k.on, k.for) => l = k
    BY <2>1 DEF Chosen, Reading
  <2>4. ASSUME NEW k \in Alive, Optimizes(k), job'[k].est = "update"
        PROVE  /\ job'[k].read = best[OwnContext(k.on, k.for)]
               /\ \A l \in Alive :
                     Optimizes(l) /\ job'[l].est = "update"
                     /\ OwnContext(l.on, l.for) = OwnContext(k.on, k.for) => l = k
    <3>1. CASE k = j
      BY <1>5, <1>6, <2>2, <3>1
    <3>2. CASE k # j
      BY <1>6, <2>2, <2>3, <2>4, <3>2
    <3>. QED
      BY <3>1, <3>2
  <2>. QED
    BY <1>3, <1>6, <2>4 DEF Reading, Alive
<1>12. Settling'
  <2>1. Clean' => Clean
    BY <1>3 DEF Clean
  <2>2. Improving(BestCosts, BestCosts', completed, completed')
    BY <1>3, <1>6, ImprovingSame
  <2>3. Holding(exprs, exprs', gest, gest', DOMAIN offered, DOMAIN offered')
    BY <1>3 DEF Holding, TypeOK
  <2>. QED
    BY <1>2, <1>3, <1>4, <1>5, <2>1, <2>2, <2>3, SettlingWork DEF Chosen
<1>. QED
  BY <1>8, <1>9, <1>10, <1>11, <1>12 DEF Chosen

\* What the update of a best plan writes.
LEMMA UpdateWrites ==
  ASSUME TypeOK, Wired, Asking, NEW w \in Workers, UpdateBestCost(w)
  PROVE  LET j == at[w]
             c == OwnContext(j.on, j.for)
         IN  /\ Optimizes(j) /\ j \in Alive /\ j \in Jobs /\ job[j] \in JobStates
             /\ job[j].est = "update" /\ j.on \in Exprs /\ j.for \in Reqs /\ c \in Contexts
             /\ IsPlan(j.on, j.for)
             /\ \A d \in AskedContexts(j.on, j.for) : OptimizationOf(d) \in completed
             /\ job[j].cost = TotalCost(BestCosts, j.on, j.for)
             /\ UNCHANGED <<exprs, gest, past, offered, overlapped, timedOut>>
             /\ best' = IF job[j].cost < job[j].read
                        THEN [best EXCEPT ![c] = job[j].cost] ELSE best
             /\ Going(w, [job[j] EXCEPT !.est = "done"])
<1>. DEFINE j == at[w]
<1>1. In(w, "GroupExpressionOptimization", "update")
  BY DEF UpdateBestCost
<1>2. /\ Optimizes(j) /\ j \in Alive /\ j \in Jobs /\ job[j] \in JobStates
      /\ job[j].est = "update" /\ j.on \in Exprs /\ j.for \in Reqs
      /\ OwnContext(j.on, j.for) \in Contexts
  BY <1>1, InDoes, OptimizesShape DEF Wired, Optimizes
<1>3. /\ UNCHANGED <<exprs, gest, past, offered, overlapped, timedOut>>
      /\ best' = IF job[j].cost < job[j].read
                 THEN [best EXCEPT ![OwnContext(j.on, j.for)] = job[j].cost] ELSE best
  BY DEF UpdateBestCost, Unchanging, OwnContext, FBetterThan
<1>4. Going(w, [job[j] EXCEPT !.est = "done"])
  BY UpdateBestCostDoes DEF Wired
<1>5. /\ <<j.on, j.for>> \in Accepts /\ Enforcing[j.on][j.for] # "required"
      /\ job[j].cost = TotalCost(BestCosts, j.on, j.for)
      /\ \A d \in AskedContexts(j.on, j.for) :
            d # OwnContext(j.on, j.for) /\ OptimizationOf(d) \in completed
  BY <1>2 DEF Asking, AskingOf
<1>6. IsPlan(j.on, j.for)
  BY <1>5 DEF IsPlan
<1>. QED
  BY <1>2, <1>3, <1>4, <1>5, <1>6

\* The cheaper of the best plan and this one is the best plan from now on.
LEMMA UpdateImproves ==
  ASSUME TypeOK, TypeOK', Wired, Asking, Reading, Clean, NEW w \in Workers, UpdateBestCost(w)
  PROVE  /\ Improving(BestCosts, BestCosts', completed, completed')
         /\ Tried(at[w].on, at[w].for, BestCosts', completed')
<1>. DEFINE j == at[w]
            x == at[w].on
            r == at[w].for
            c == OwnContext(x, r)
<1>1. /\ Optimizes(j) /\ j \in Alive /\ job[j] \in JobStates /\ job[j].est = "update"
      /\ x \in Exprs /\ r \in Reqs /\ c \in Contexts
      /\ \A d \in AskedContexts(x, r) : OptimizationOf(d) \in completed
      /\ job[j].cost = TotalCost(BestCosts, x, r) /\ past' = past
      /\ best' = IF job[j].cost < job[j].read THEN [best EXCEPT ![c] = job[j].cost] ELSE best
      /\ Going(w, [job[j] EXCEPT !.est = "done"])
  BY UpdateWrites
<1>2. job[j].cost \in Nat /\ job[j].read = best[c] /\ best[c] \in Nat /\ past[c] \in Nat
  BY <1>1 DEF Clean, Reading, JobStates, TypeOK
<1>3. /\ best' \in [Contexts -> Nat] /\ past' \in [Contexts -> Nat]
      /\ best \in [Contexts -> Nat] /\ past \in [Contexts -> Nat]
  BY DEF TypeOK
<1>4. /\ best'[c] <= best[c] /\ best'[c] <= job[j].cost
      /\ \A d \in Contexts : d # c => best'[d] = best[d]
  BY <1>1, <1>2, <1>3
<1>5. /\ BestCosts \in [Contexts -> Nat] /\ BestCosts' \in [Contexts -> Nat]
      /\ \A d \in Contexts : BestCosts[d] = Least(past[d], best[d])
      /\ \A d \in Contexts : BestCosts'[d] = Least(past[d], best'[d])
  <2>1. BestCosts' = [d \in Contexts |-> Least(past'[d], best'[d])]
    <3>1. \A d \in Contexts : PocLookupBest(d[1], d[2])' = Least(past'[d], best'[d])
      BY ContextPair DEF PocLookupBest
    <3>. QED
      BY <3>1 DEF BestCosts
  <2>2. \A a, b \in Nat : Least(a, b) \in Nat
    BY DEF Least
  <2>3. BestCosts' \in [Contexts -> Nat]
    BY <1>3, <2>1, <2>2
  <2>. QED
    BY <1>1, <2>1, <2>3, BestCostsTyped
<1>6. \A d \in Contexts : BestCosts'[d] <= BestCosts[d]
  <2>1. \A a, b, e \in Nat : b <= e => Least(a, b) <= Least(a, e)
    BY DEF Least
  <2>2. \A d \in Contexts : best'[d] \in Nat /\ best[d] \in Nat /\ past[d] \in Nat
                            /\ best'[d] <= best[d]
    BY <1>3, <1>4
  <2>. QED
    BY <1>5, <2>1, <2>2
<1>7. completed' = completed /\ at[w] # NoJob
  BY <1>1 DEF Going
<1>8. BestOf(w)
  BY <1>1, <1>4 DEF BestOf
<1>9. \A d \in Contexts : OptimizationOf(d) \in completed => BestCosts'[d] = BestCosts[d]
  BY <1>7, <1>8, KnownKept
<1>10. Improving(BestCosts, BestCosts', completed, completed')
  BY <1>5, <1>6, <1>7, <1>9 DEF Improving
<1>11. Tried(x, r, BestCosts', completed')
  <2>1. TotalCost(BestCosts, x, r) = TotalCost(BestCosts', x, r)
    <3>1. \A d \in AskedContexts(x, r) : BestCosts[d] = BestCosts'[d]
      BY <1>1, <1>9, AskedTyped
    <3>. QED
      BY <1>1, <3>1, TotalSame
  <2>2. BestCosts'[c] <= job[j].cost
    <3>1. \A a, b, e \in Nat : b <= e => Least(a, b) <= e
      BY DEF Least
    <3>2. best'[c] \in Nat
      BY <1>1, <1>3
    <3>. QED
      BY <1>1, <1>2, <1>4, <1>5, <3>1, <3>2
  <2>. QED
    BY <1>1, <1>7, <2>1, <2>2 DEF Tried, Settled
<1>. QED
  BY <1>10, <1>11

LEMMA UpdateBestCostChosen ==
  ASSUME TypeOK, TypeOK', Wired, Marked, Truth, Chosen, NEW w \in Workers, UpdateBestCost(w)
  PROVE  Chosen'
<1>. DEFINE j == at[w]
            c == OwnContext(j.on, j.for)
            J == [job[j] EXCEPT !.est = "done"]
<1>1. /\ Optimizes(j) /\ j \in Alive /\ job[j] \in JobStates /\ job[j].est = "update"
      /\ c \in Contexts
      /\ UNCHANGED <<exprs, gest, past, offered, overlapped, timedOut>>
      /\ best' = IF job[j].cost < job[j].read THEN [best EXCEPT ![c] = job[j].cost] ELSE best
      /\ Going(w, J)
  BY UpdateWrites DEF Chosen
<1>2. J.est = "done" /\ j.type # "GroupOptimization"
  BY <1>1 DEF JobStates, Optimizes
<1>. HIDE DEF J
<1>3. /\ Alive' = Alive /\ job'[j] = J /\ completed' = completed
      /\ \A k \in Alive : k # j => job'[k] = job[k]
  BY <1>1 DEF Going
<1>4. \A d \in Contexts : d # c => best'[d] = best[d]
  BY <1>1 DEF TypeOK
<1>5. Asking'
  <2>1. BestOf(w)
    BY <1>1, <1>4 DEF BestOf
  <2>2. AskingOf(j, J, BestCosts', completed)
    BY <1>2 DEF AskingOf
  <2>. QED
    BY <1>1, <2>1, <2>2, AskingWork DEF Chosen
<1>6. Origins'
  BY <1>1, <1>2, OriginsWork DEF Chosen
<1>7. Offers'
  <2>1. \A k \in Alive : k.type = "GroupOptimization" => k \in Alive' /\ job'[k] = job[k]
    BY <1>2, <1>3
  <2>. HIDE DEF Alive
  <2>. QED
    BY <1>1, <1>3, <2>1, OffersElse DEF Chosen
<1>8. Reading'
  <2>. SUFFICES ASSUME overlapped' = {} PROVE Reading'
    BY DEF Reading
  <2>1. \A k \in Alive : Optimizes(k) /\ job[k].est = "update" =>
            /\ job[k].read = best[OwnContext(k.on, k.for)]
            /\ \A l \in Alive :
                  Optimizes(l) /\ job[l].est = "update"
                  /\ OwnContext(l.on, l.for) = OwnContext(k.on, k.for) => l = k
    BY <1>1 DEF Chosen, Reading
  <2>2. ASSUME NEW k \in Alive, Optimizes(k), job'[k].est = "update"
        PROVE  /\ job'[k].read = best'[OwnContext(k.on, k.for)]
               /\ \A l \in Alive :
                     Optimizes(l) /\ job'[l].est = "update"
                     /\ OwnContext(l.on, l.for) = OwnContext(k.on, k.for) => l = k
    <3>1. k # j /\ job'[k] = job[k] /\ job[k].est = "update"
      BY <1>2, <1>3, <2>2
    <3>2. OwnContext(k.on, k.for) # c
      BY <1>1, <2>1, <2>2, <3>1
    <3>3. OwnContext(k.on, k.for) \in Contexts
      BY <2>2, OptimizesShape DEF TypeOK, Alive
    <3>4. \A l \in Alive : job'[l].est = "update" => job[l].est = "update"
      BY <1>2, <1>3
    <3>. QED
      BY <1>4, <2>1, <2>2, <3>1, <3>2, <3>3, <3>4
  <2>. QED
    BY <1>3, <2>2 DEF Reading, Alive
<1>9. Settling'
  <2>1. Clean' => Clean
    BY <1>1 DEF Clean
  <2>2. Holding(exprs, exprs', gest, gest', DOMAIN offered, DOMAIN offered')
    BY <1>1 DEF Holding, TypeOK
  <2>3. Clean' => /\ Improving(BestCosts, BestCosts', completed, completed')
                  /\ Tried(j.on, j.for, BestCosts', completed')
    BY <2>1, UpdateImproves DEF Chosen
  <2>. QED
    BY <1>1, <1>2, <2>1, <2>2, <2>3, SettlingWork DEF Chosen
<1>. QED
  BY <1>5, <1>6, <1>7, <1>8, <1>9 DEF Chosen

LEMMA ChosenActions ==
  ASSUME TypeOK, TypeOK', Wired, Marked, Truth, Chosen, NEW w \in Workers,
         GroupStep(w) \/ ExprStep(w) \/ EndJob(w)
  PROVE  Chosen'
<1>1. \A type, est : In(w, type, est) => at[w].type = type /\ at[w] # NoJob
  BY DEF In, Working
<1>2. CASE \/ EevtStartExploration(w) \/ EevtExploreChildren(w) \/ FinalizeExploration(w)
           \/ EevtStartImplementation(w) \/ EevtImplementChildren(w)
           \/ ScheduleChildGroupsJobs(w) \/ ScheduleApplicableTransformations(w)
           \/ FinalizeExpression(w) \/ EevtTransform(w)
  <2>1. at[w] # NoJob /\ at[w].type \notin {"GroupOptimization", "GroupExpressionOptimization"}
    BY <1>1, <1>2 DEF EevtStartExploration, EevtExploreChildren, FinalizeExploration,
       EevtStartImplementation, EevtImplementChildren, ScheduleChildGroupsJobs,
       ScheduleApplicableTransformations, FinalizeExpression, EevtTransform, Runs, PhaseJob
  <2>2. UNCHANGED <<best, past, offered, overlapped, timedOut>>
    BY <1>2 DEF EevtStartExploration, EevtExploreChildren, FinalizeExploration,
       EevtStartImplementation, EevtImplementChildren, ScheduleChildGroupsJobs,
       ScheduleApplicableTransformations, FinalizeExpression, EevtTransform, Unchanging
  <2>3. GroupStep(w) \/ ExprStep(w)
    BY <1>2 DEF GroupStep, ExprStep
  <2>. QED
    BY <2>1, <2>2, <2>3, OtherChosen
<1>3. CASE EevtStartOptimization(w)
  BY <1>3, StartOptimizationChosen
<1>4. CASE EevtOptimizeChildren(w)
  BY <1>4, OptimizeChildrenChosen
<1>5. CASE EevtCompleteOptimization(w)
  BY <1>5, CompleteOptimizationChosen
<1>6. CASE EevtInitialize(w)
  BY <1>6, InitializeChosen
<1>7. CASE EevtOptimizeChild(w)
  BY <1>7, OptimizeChildChosen
<1>8. CASE EevtAddEnforcers(w)
  BY <1>8, AddEnforcersChosen
<1>9. CASE EevtOptimizeSelf(w)
  BY <1>9, OptimizeSelfChosen
<1>10. CASE UpdateBestCost(w)
  BY <1>10, UpdateBestCostChosen
<1>11. CASE EndJob(w)
  BY <1>11, EndJobChosen
<1>. QED
  BY <1>2, <1>3, <1>4, <1>5, <1>6, <1>7, <1>8, <1>9, <1>10, <1>11 DEF GroupStep, ExprStep

\* The parts of a job that only its own steps change.
SameJob(J, K) ==
    /\ K.est = J.est /\ K.eol = J.eol /\ K.seen = J.seen /\ K.child = J.child
    /\ K.cost = J.cost /\ K.read = J.read /\ K.origin = J.origin

\* A child that is no longer waited for is completed or, if not queued, done with.
WaitsLess(J, K) ==
    \A c \in J.waits \ K.waits :
        /\ c.type \in Queued => c \in completed'
        /\ c.type \notin Queued => c \in Alive /\ job[c].est = "done"

LEMMA MovedChosen ==
  ASSUME TypeOK, TypeOK', Chosen, Alive' \subseteq Alive,
         UNCHANGED <<exprs, gest, best, past, offered, overlapped>>,
         Clean' => Clean, completed \subseteq completed',
         \A j \in Alive' : SameJob(job[j], job'[j]) /\ WaitsLess(job[j], job'[j]),
         \A j \in Alive : j \in Alive' \/ j.type \notin Queued \/ j \in completed',
         \A c \in completed' : c \in completed \/ (c \in Alive /\ job[c].est = "done")
  PROVE  Chosen'
<1>1. Asking'
  <2>1. \A j \in Alive' :
            /\ j \in Alive
            /\ job'[j].est = job[j].est /\ job'[j].child = job[j].child
            /\ job'[j].cost = job[j].cost
            /\ \A c \in job[j].waits : c.type \in Queued => c \in completed' \union job'[j].waits
    BY DEF SameJob, WaitsLess
  <2>. HIDE DEF Alive
  <2>. QED
    BY <2>1, AskingElse DEF Chosen
<1>2. Origins'
  <2>1. \A j \in Alive' : job'[j].origin = job[j].origin
    BY DEF SameJob
  <2>. QED
    BY <2>1, OriginsElse DEF Chosen
<1>3. Offers'
  <2>1. \A j \in Alive : j.type = "GroupOptimization" =>
            \/ j \in completed'
            \/ j \in Alive' /\ job'[j].eol = job[j].eol /\ job'[j].est = job[j].est
    BY DEF SameJob, Queued
  <2>2. exprs \subseteq exprs'
    OBVIOUS
  <2>. HIDE DEF Alive
  <2>. QED
    BY <2>1, <2>2, OffersElse DEF Chosen
<1>4. Reading'
  <2>1. \A j \in Alive' : Optimizes(j) /\ job'[j].est = "update" =>
            j \in Alive /\ job[j].est = "update" /\ job'[j].read = job[j].read
    BY DEF SameJob
  <2>. QED
    BY <2>1, ReadingElse DEF Chosen
<1>5. Settling'
  <2>1. \A j \in Alive' :
            /\ j \in Alive
            /\ job'[j].est = job[j].est /\ job'[j].eol = job[j].eol
            /\ job'[j].seen = job[j].seen
            /\ \A c \in job[j].waits : Optimizes(c) =>
                  c \in job'[j].waits \/ (c \in Alive /\ job[c].est = "done")
    BY DEF SameJob, WaitsLess, Optimizes, Queued
  <2>. HIDE DEF Alive
  <2>. QED
    BY <2>1, SettlingElse DEF Chosen
<1>. QED
  BY <1>1, <1>2, <1>3, <1>4, <1>5 DEF Chosen

LEMMA StartingChosen ==
  ASSUME TypeOK, TypeOK', Wired, Chosen, NEW w \in Workers, NEW e \in scheduled, Retrieve(w, e)
  PROVE  Chosen'
<1>1. /\ Starting(w, e) /\ job'[e.job].est = "initialized"
      /\ job'[e.job].seen = {} /\ job'[e.job].child = 1
      /\ job'[e.job].origin = IF e.parent # NoJob
                                 /\ e.parent.type = "GroupExpressionOptimization"
                              THEN e.parent.on ELSE NoExpr
  BY RetrieveDoes DEF Wired
<1>2. UNCHANGED <<exprs, gest, best, past, offered, overlapped, timedOut, completed>>
  BY DEF Retrieve, memo
<1>3. /\ \A j \in Alive' : j = e.job \/ (j \in Alive /\ job'[j] = job[j])
      /\ \A j \in Alive : j \in Alive' /\ job'[j] = job[j]
  BY <1>1 DEF Starting
<1>4. Asking'
  <2>1. \A j \in Alive' :
            \/ job'[j].est = "initialized" /\ job'[j].child = 1
            \/ /\ j \in Alive
               /\ job'[j].est = job[j].est /\ job'[j].child = job[j].child
               /\ job'[j].cost = job[j].cost
               /\ \A c \in job[j].waits : c.type \in Queued => c \in completed' \union job'[j].waits
    BY <1>1, <1>3
  <2>. HIDE DEF Alive
  <2>. QED
    BY <1>2, <2>1, AskingElse DEF Chosen
<1>5. Origins'
  BY <1>1, OriginsStarting DEF Chosen
<1>6. Offers'
  <2>1. exprs \subseteq exprs' /\ completed \subseteq completed'
    BY <1>2
  <2>. HIDE DEF Alive
  <2>. QED
    BY <1>2, <1>3, <2>1, OffersElse DEF Chosen
<1>7. Reading'
  <2>1. \A j \in Alive' : Optimizes(j) /\ job'[j].est = "update" =>
            j \in Alive /\ job[j].est = "update" /\ job'[j].read = job[j].read
    BY <1>1, <1>3
  <2>. QED
    BY <1>2, <2>1, ReadingElse DEF Chosen
<1>8. Settling'
  <2>1. Clean' => Clean
    BY <1>2 DEF Clean
  <2>2. \A j \in Alive' :
            \/ job'[j].est = "initialized" /\ job'[j].seen = {}
            \/ /\ j \in Alive
               /\ job'[j].est = job[j].est /\ job'[j].eol = job[j].eol
               /\ job'[j].seen = job[j].seen
               /\ \A c \in job[j].waits : Optimizes(c) =>
                     c \in job'[j].waits \/ (c \in Alive /\ job[c].est = "done")
    BY <1>1, <1>3
  <2>3. completed \subseteq completed' /\ \A c \in completed' : c \in completed
    BY <1>2
  <2>. HIDE DEF Alive
  <2>. QED
    BY <1>2, <2>1, <2>2, <2>3, SettlingElse DEF Chosen
<1>. QED
  BY <1>4, <1>5, <1>6, <1>7, <1>8 DEF Chosen

LEMMA QueueingChosen ==
  ASSUME TypeOK, TypeOK', Wired, Chosen, NEW w \in Workers, NEW e \in scheduled, Queue(w, e)
  PROVE  Chosen'
<1>1. Queueing(e)
  BY QueueDoes DEF Wired
<1>2. UNCHANGED <<exprs, gest, best, past, offered, overlapped, timedOut, completed>>
  BY DEF Queue, memo
<1>3. \A j \in Alive : SameJob(job[j], job'[j]) /\ job'[j].waits = job[j].waits
  BY <1>1 DEF Queueing, SameJob, TypeOK, JobStates, Alive
<1>4. Alive' = Alive
  BY <1>1 DEF Queueing
<1>5. \A j \in Alive : WaitsLess(job[j], job'[j])
  BY <1>3 DEF WaitsLess
<1>6. Clean' => Clean
  BY <1>2 DEF Clean
<1>. HIDE DEF Alive
<1>. QED
  BY <1>2, <1>3, <1>4, <1>5, <1>6, MovedChosen

\* What the end of a child leaves of its parents.
LEMMA OtherwiseSame ==
  ASSUME NEW J, NEW K, NEW parents, NEW c, NEW k, J[k] \in JobStates,
         Otherwise(J, K, parents, c, k)
  PROVE  SameJob(J[k], K[k]) /\ J[k].waits \ K[k].waits \subseteq {c}
BY DEF Otherwise, SameJob, JobStates

LEMMA FindingChosen ==
  ASSUME TypeOK, TypeOK', Wired, Chosen, NEW w \in Workers, NEW e \in scheduled,
         FindCompleted(w, e)
  PROVE  Chosen'
<1>1. Finding(e)
  BY FindDoes DEF Wired
<1>2. UNCHANGED <<exprs, gest, best, past, offered, overlapped, timedOut, completed>>
  BY DEF FindCompleted, memo
<1>3. \A j \in Alive : SameJob(job[j], job'[j]) /\ job[j].waits \ job'[j].waits \subseteq {e.job}
  <2>1. \A j \in Alive : job[j] \in JobStates
    BY DEF TypeOK, Alive
  <2>. QED
    BY <1>1, <2>1, OtherwiseSame DEF Finding
<1>4. Alive' = Alive /\ e.job \in completed /\ e.job.type \in Queued
  BY <1>1 DEF Finding, Wired, HandsOK
<1>5. \A j \in Alive : WaitsLess(job[j], job'[j])
  BY <1>2, <1>3, <1>4 DEF WaitsLess
<1>6. Clean' => Clean
  BY <1>2 DEF Clean
<1>. HIDE DEF Alive
<1>. QED
  BY <1>2, <1>3, <1>4, <1>5, <1>6, MovedChosen

LEMMA EndingChosen ==
  ASSUME TypeOK, TypeOK', Wired, Chosen, NEW w \in Workers, Complete(w)
  PROVE  Chosen'
<1>1. Ending(w) /\ job[at[w]].est = "done"
  BY CompleteDoes DEF Wired
<1>2. UNCHANGED <<exprs, gest, best, past, offered, overlapped, timedOut>>
  BY DEF Complete, memo
<1>3. /\ Alive' = Alive \ {at[w]} /\ at[w] \in Alive
      /\ completed' = IF at[w].type \in Queued THEN completed \union {at[w]} ELSE completed
  BY <1>1 DEF Ending, Wired, HandsOK
<1>4. \A j \in Alive' : SameJob(job[j], job'[j]) /\ job[j].waits \ job'[j].waits \subseteq {at[w]}
  <2>1. \A j \in Alive' : job[j] \in JobStates
    BY <1>3 DEF TypeOK, Alive
  <2>. QED
    BY <1>1, <2>1, OtherwiseSame DEF Ending
<1>5. \A j \in Alive' : WaitsLess(job[j], job'[j])
  BY <1>1, <1>3, <1>4 DEF WaitsLess
<1>6. Clean' => Clean
  BY <1>2 DEF Clean
<1>. HIDE DEF Alive
<1>. QED
  BY <1>1, <1>2, <1>3, <1>4, <1>5, <1>6, MovedChosen

LEMMA ChosenStep ==
  ASSUME TypeOK, TypeOK', Wired, Marked, Truth, Chosen, [Next]_vars
  PROVE  Chosen'
<1>1. ASSUME NEW w \in Workers, NEW e \in scheduled,
             Retrieve(w, e) \/ Queue(w, e) \/ FindCompleted(w, e)
      PROVE  Chosen'
  BY <1>1, StartingChosen, QueueingChosen, FindingChosen
<1>2. ASSUME NEW w \in Workers, GroupStep(w) \/ ExprStep(w) \/ EndJob(w)
      PROVE  Chosen'
  BY <1>2, ChosenActions
<1>3. ASSUME NEW w \in Workers, Complete(w) PROVE Chosen'
  BY <1>3, EndingChosen
<1>4. CASE UNCHANGED <<exprs, gest, best, past, offered, overlapped, job, completed>>
           /\ (timedOut => timedOut')
  <2>1. Clean' => Clean
    BY <1>4 DEF Clean
  <2>2. Alive' = Alive /\ \A j \in Alive : SameJob(job[j], job'[j]) /\ WaitsLess(job[j], job'[j])
    BY <1>4 DEF SameJob, WaitsLess, Alive
  <2>. HIDE DEF Alive
  <2>. QED
    BY <1>4, <2>1, <2>2, MovedChosen
<1>5. CASE FinalizeSearchStage
  <2>1. Alive' = {} /\ completed' = {} /\ offered' = <<>>
    BY <1>5 DEF FinalizeSearchStage, ResetGroupStates, Idle, Alive
  <2>2. DOMAIN offered' = {}
    BY <2>1
  <2>. QED
    BY <2>1, <2>2 DEF Chosen, Asking, Origins, Offers, Reading, Settling, Alive
<1>6. ASSUME NEW w \in Workers, (\E k \in DOMAIN job : Resume(w, k)) \/ Release(w)
      PROVE  UNCHANGED <<exprs, gest, best, past, offered, overlapped, job, completed, timedOut>>
  BY <1>6 DEF Resume, Release, memo
<1>7. /\ TimeOut =>
            /\ UNCHANGED <<exprs, gest, best, past, offered, overlapped, job, completed>>
            /\ timedOut'
      /\ UNCHANGED vars =>
            UNCHANGED <<exprs, gest, best, past, offered, overlapped, job, completed, timedOut>>
  BY DEF TimeOut, memo, vars
<1>. QED
  BY <1>1, <1>2, <1>3, <1>4, <1>5, <1>6, <1>7 DEF Next, Take, Work

LEMMA ChosenFirst ==
  ASSUME Init
  PROVE  Chosen
<1>1. Alive = {} /\ completed = {} /\ DOMAIN offered = {}
  BY DEF Init, Alive
<1>. QED
  BY <1>1 DEF Chosen, Asking, Origins, Offers, Reading, Settling

-----------------------------------------------------------------------------
(* No cost is recorded that no plan has                                    *)

\* V promises nothing below what a plan costs.
BelowPlans(V) ==
    \A c \in Contexts : V[c] <= Infinity /\ \A x \in Plans(c) : V[c] <= TotalCost(V, x, c[2])

Bounded ==
    /\ \A c \in Contexts : past[c] <= Infinity
    /\ \A V \in [Contexts -> Nat] : BelowPlans(V) =>
          \A c \in Contexts : V[c] <= best[c] /\ V[c] <= past[c]

\* Plans are only added, from one stage to the next as well.
PlansGrow == \A c \in Contexts : Plans(c) \subseteq Plans(c)'

LEMMA PlansAdded ==
  ASSUME Offers, exprs \subseteq exprs',
         \A c \in DOMAIN offered' : \/ c \in DOMAIN offered /\ offered'[c] = offered[c]
                                    \/ PhysicalIn(c[1]) \subseteq offered'[c]
  PROVE  PlansGrow
<1>. DEFINE P(c) == IF c \in DOMAIN offered THEN offered[c] ELSE PhysicalIn(c[1])
            Q(c) == IF c \in DOMAIN offered' THEN offered'[c] ELSE PhysicalIn(c[1])'
<1>1. \A c : PhysicalIn(c[1]) \subseteq PhysicalIn(c[1])'
  BY DEF PhysicalIn
<1>2. \A c : P(c) \subseteq PhysicalIn(c[1])
  BY DEF Offers
<1>3. \A c : P(c) \subseteq Q(c)
  BY <1>1, <1>2
<1>4. \A c \in Contexts : Plans(c) \subseteq Plans(c)'
  BY <1>3 DEF Plans
<1>. QED
  BY <1>4 DEF PlansGrow

LEMMA BelowBefore ==
  ASSUME PlansGrow, NEW V, BelowPlans(V)'
  PROVE  BelowPlans(V)
<1>1. ASSUME NEW c \in Contexts
      PROVE  V[c] <= Infinity /\ \A x \in Plans(c)' : V[c] <= TotalCost(V, x, c[2])
  BY DEF BelowPlans
<1>2. \A c \in Contexts : Plans(c) \subseteq Plans(c)'
  BY DEF PlansGrow
<1>. QED
  BY <1>1, <1>2 DEF BelowPlans

LEMMA BoundedElse ==
  ASSUME PlansGrow, Bounded, past' = past, best' = best
  PROVE  Bounded'
<1>1. ASSUME NEW V \in [Contexts -> Nat], BelowPlans(V)', NEW c \in Contexts
      PROVE  V[c] <= best'[c] /\ V[c] <= past'[c]
  BY <1>1, BelowBefore DEF Bounded
<1>. QED
  BY <1>1 DEF Bounded

LEMMA BoundedUpdate ==
  ASSUME TypeOK, TypeOK', Wired, Chosen, Bounded, NEW w \in Workers, UpdateBestCost(w)
  PROVE  Bounded'
<1>. DEFINE j == at[w]
            x == j.on
            r == j.for
            c == OwnContext(x, r)
<1>1. /\ Optimizes(j) /\ j \in Alive /\ x \in Exprs /\ r \in Reqs /\ c \in Contexts
      /\ IsPlan(x, r) /\ job[j].cost = TotalCost(BestCosts, x, r)
      /\ UNCHANGED <<exprs, past, offered>>
      /\ best' = IF job[j].cost < job[j].read THEN [best EXCEPT ![c] = job[j].cost] ELSE best
  BY UpdateWrites DEF Chosen
<1>2. PlansGrow
  BY <1>1, PlansAdded DEF Chosen
<1>3. x \in Plans(c) /\ c[2] = r /\ c[1] = GroupOf[x]
  <2>1. /\ OptimizationOf(c) \in Alive /\ OptimizationOf(c) \notin completed
        /\ job[OptimizationOf(c)].est = "children" /\ x \in PhysicalIn(c[1])
    BY <1>1, OwnOptimized
  <2>2. c \notin DOMAIN offered
    BY <2>1 DEF Chosen, Offers
  <2>3. c[2] = r /\ c[1] = GroupOf[x]
    BY DEF OwnContext
  <2>4. \A i \in DOMAIN Kids[x] : <<Kids[x][i], KidReq[x][r][i]>> # c
    BY <1>1 DEF IsPlan, AskedContexts, KidContext
  <2>. HIDE DEF c
  <2>. QED
    BY <1>1, <2>1, <2>2, <2>3, <2>4 DEF Plans, IsPlan
<1>. HIDE DEF c
<1>4. ASSUME NEW V \in [Contexts -> Nat], BelowPlans(V)', NEW d \in Contexts
      PROVE  V[d] <= best'[d] /\ V[d] <= past'[d]
  <2>1. BelowPlans(V)
    BY <1>2, <1>4, BelowBefore
  <2>2. \A e \in Contexts : V[e] <= best[e] /\ V[e] <= past[e]
    BY <2>1 DEF Bounded
  <2>3. \A e \in Contexts : V[e] <= BestCosts[e]
    BY <2>2, BestCostsTyped DEF Least
  <2>4. V[c] <= job[j].cost
    <3>1. BestCosts \in [Contexts -> Nat]
      BY BestCostsTyped
    <3>2. TotalCost(V, x, r) <= TotalCost(BestCosts, x, r)
      BY <1>1, <2>3, <3>1, KidsOf, TotalGrows
    <3>3. V[c] <= TotalCost(V, x, r)
      BY <1>1, <1>3, <2>1 DEF BelowPlans
    <3>4. V[c] \in Nat /\ TotalCost(V, x, r) \in Nat /\ TotalCost(BestCosts, x, r) \in Nat
      BY <1>1, <3>1, TotalBounds
    <3>. QED
      BY <1>1, <3>2, <3>3, <3>4
  <2>5. best'[d] = best[d] \/ (d = c /\ best'[d] = job[j].cost)
    BY <1>1 DEF TypeOK
  <2>. QED
    BY <1>1, <2>2, <2>4, <2>5
<1>5. \A d \in Contexts : past'[d] <= Infinity
  BY <1>1 DEF Bounded
<1>. QED
  BY <1>4, <1>5 DEF Bounded

LEMMA BoundedNextStage ==
  ASSUME TypeOK, Chosen, Bounded, FinalizeSearchStage
  PROVE  Bounded'
<1>1. /\ exprs' = exprs /\ offered' = <<>>
      /\ past' = [c \in Contexts |-> Least(past[c], best[c])]
      /\ best' = [c \in Contexts |-> Infinity]
  BY DEF FinalizeSearchStage
<1>2. PlansGrow
  <2>1. DOMAIN offered' = {}
    BY <1>1
  <2>. QED
    BY <1>1, <2>1, PlansAdded DEF Chosen
<1>3. ASSUME NEW V \in [Contexts -> Nat], BelowPlans(V)', NEW c \in Contexts
      PROVE  V[c] <= best'[c] /\ V[c] <= past'[c]
  <2>1. BelowPlans(V)
    BY <1>2, <1>3, BelowBefore
  <2>2. V[c] <= best[c] /\ V[c] <= past[c] /\ V[c] <= Infinity
    BY <2>1 DEF Bounded, BelowPlans
  <2>. QED
    BY <1>1, <2>2 DEF Least
<1>4. \A c \in Contexts : past'[c] <= Infinity
  <2>1. \A c \in Contexts : past[c] \in Nat /\ best[c] \in Nat /\ past[c] <= Infinity
    BY DEF Bounded, TypeOK
  <2>. QED
    BY <1>1, <2>1, CostsAssumption DEF Least
<1>. QED
  BY <1>3, <1>4 DEF Bounded

LEMMA BoundedFirst ==
  ASSUME Init
  PROVE  Bounded
<1>1. \A c \in Contexts : best[c] = Infinity /\ past[c] = Infinity
  BY DEF Init
<1>. QED
  BY <1>1, CostsAssumption DEF Bounded, BelowPlans

\* What the steps but those of the best plan do to the memo.
LEMMA MemoGrows ==
  ASSUME TypeOK, Wired, Chosen, NEW w \in Workers, GroupStep(w) \/ ExprStep(w) \/ EndJob(w)
  PROVE  PlansGrow /\ (UpdateBestCost(w) \/ (best' = best /\ past' = past))
<1>1. exprs \subseteq exprs'
  BY WorkDoes DEF Wired
<1>2. CASE EevtOptimizeChildren(w)
  <2>1. best' = best /\ past' = past /\ exprs' = exprs
    BY <1>2 DEF EevtOptimizeChildren, Unchanging
  <2>2. \/ offered' = offered
        \/ offered' = [c \in DOMAIN offered \union {<<at[w].on, at[w].for>>} |->
                          IF c = <<at[w].on, at[w].for>> THEN PhysicalIn(at[w].on)
                          ELSE offered[c]]
    BY <1>2 DEF EevtOptimizeChildren
  <2>3. \A c \in DOMAIN offered' : \/ c \in DOMAIN offered /\ offered'[c] = offered[c]
                                   \/ PhysicalIn(c[1]) \subseteq offered'[c]
    BY <2>2
  <2>. QED
    BY <1>1, <2>1, <2>3, PlansAdded DEF Chosen
<1>3. CASE UpdateBestCost(w)
  <2>1. offered' = offered
    BY <1>3 DEF UpdateBestCost
  <2>. QED
    BY <1>1, <1>3, <2>1, PlansAdded DEF Chosen
<1>4. CASE UNCHANGED <<best, past, offered>>
  BY <1>1, <1>4, PlansAdded DEF Chosen
<1>5. EndJob(w) => UNCHANGED <<best, past, offered>>
  BY DEF EndJob, memo
<1>6. \/ EevtOptimizeChildren(w) \/ UpdateBestCost(w) \/ EndJob(w)
      \/ UNCHANGED <<best, past, offered>>
  BY DEF GroupStep, ExprStep, EevtStartExploration, EevtExploreChildren, FinalizeExploration,
     EevtStartImplementation, EevtImplementChildren, EevtStartOptimization,
     EevtCompleteOptimization, ScheduleChildGroupsJobs, ScheduleApplicableTransformations,
     FinalizeExpression, EevtTransform, EevtInitialize, EevtOptimizeChild, EevtAddEnforcers,
     EevtOptimizeSelf, Unchanging
<1>. QED
  BY <1>2, <1>3, <1>4, <1>5, <1>6

LEMMA BoundedStep ==
  ASSUME TypeOK, TypeOK', Wired, Chosen, Bounded, [Next]_vars
  PROVE  Bounded'
<1>1. CASE UNCHANGED <<exprs, offered, best, past>>
  <2>1. PlansGrow
    BY <1>1, PlansAdded DEF Chosen
  <2>. QED
    BY <1>1, <2>1, BoundedElse
<1>2. ASSUME NEW w \in Workers, GroupStep(w) \/ ExprStep(w) \/ EndJob(w)
      PROVE  Bounded'
  BY <1>2, MemoGrows, BoundedUpdate, BoundedElse
<1>3. ASSUME NEW w \in Workers, Take(w) \/ Complete(w) \/ Release(w)
      PROVE  UNCHANGED <<exprs, offered, best, past>>
  BY <1>3 DEF Take, Retrieve, Queue, FindCompleted, Resume, Complete, Release, memo
<1>4. TimeOut \/ UNCHANGED vars => UNCHANGED <<exprs, offered, best, past>>
  BY DEF TimeOut, memo, vars
<1>5. FinalizeSearchStage => Bounded'
  BY BoundedNextStage
<1>. QED
  BY <1>1, <1>2, <1>3, <1>4, <1>5 DEF Next, Work

-----------------------------------------------------------------------------
(* The best plan                                                           *)

\* Nothing recorded is below the optimum.
LEMMA OptimumBounds ==
  ASSUME TypeOK, Offers, Bounded
  PROVE  /\ Optimum \in [Contexts -> Nat]
         /\ \A c \in Contexts : Optimum[c] <= BestCosts[c] /\ BestCosts[c] <= Infinity
<1>1. /\ Optimum \in [Contexts -> Nat]
      /\ \A c \in Contexts : Optimum[c] = CheapestOf(Optimum, Plans(c), c[2])
  BY OptimumIs
<1>2. BelowPlans(Optimum)
  <2>1. ASSUME NEW c \in Contexts
        PROVE  /\ Optimum[c] <= Infinity
               /\ \A x \in Plans(c) : Optimum[c] <= TotalCost(Optimum, x, c[2])
    <3>1. Plans(c) \in SUBSET Exprs /\ c[2] \in Reqs
      BY ContextPair DEF Plans, PhysicalIn, TypeOK
    <3>. QED
      BY <1>1, <3>1, CheapestFound
  <2>. QED
    BY <2>1 DEF BelowPlans
<1>3. \A c \in Contexts : Optimum[c] <= best[c] /\ Optimum[c] <= past[c] /\ past[c] <= Infinity
  BY <1>1, <1>2 DEF Bounded
<1>4. \A c \in Contexts : best[c] \in Nat /\ past[c] \in Nat /\ Optimum[c] \in Nat
  BY <1>1 DEF TypeOK
<1>. QED
  BY <1>1, <1>3, <1>4, BestCostsTyped, CostsAssumption DEF Least

\* A plan that has been looked at costs no less than the best one, if the contexts
\* that are completed have got their optimum.
LEMMA SettledTells ==
  ASSUME NEW x \in Exprs, NEW r \in Reqs, NEW D,
         NEW B \in [Contexts -> Nat], NEW F \in [Contexts -> Nat],
         Settled(x, r, B, D), B[OwnContext(x, r)] <= Infinity,
         \A d \in AskedContexts(x, r) : OptimizationOf(d) \in D => B[d] = F[d]
  PROVE  B[OwnContext(x, r)] <= TotalCost(F, x, r)
<1>. DEFINE c == OwnContext(x, r)
<1>1. /\ c \in Contexts /\ B[c] \in Nat /\ Cost[x] \in Nat /\ Infinity \in Nat
      /\ TotalCost(F, x, r) \in Nat /\ TotalCost(F, x, r) >= Cost[x]
  BY AskedTyped, TotalBounds, CostsAssumption
<1>2. CASE B[c] <= Cost[x]
  BY <1>1, <1>2
<1>3. CASE \E d \in AskedContexts(x, r) :
              OptimizationOf(d) \in D /\ (B[d] >= Infinity \/ B[c] <= Cost[x] + B[d])
  <2>1. PICK d \in AskedContexts(x, r) :
              OptimizationOf(d) \in D /\ (B[d] >= Infinity \/ B[c] <= Cost[x] + B[d])
    BY <1>3
  <2>2. PICK i \in 1..Len(Kids[x]) : d = KidContext(x, r, i)
    BY <2>1, AskedTyped DEF AskedContexts
  <2>3. TotalCost(F, x, r) >= Cost[x] + F[d]
    BY <2>2, TotalBounds
  <2>4. B[d] = F[d] /\ F[d] \in Nat
    BY <2>1, AskedTyped
  <2>. QED
    BY <1>1, <2>1, <2>3, <2>4
<1>4. CASE /\ \A d \in AskedContexts(x, r) : OptimizationOf(d) \in D
           /\ B[c] <= TotalCost(B, x, r)
  <2>1. TotalCost(B, x, r) = TotalCost(F, x, r)
    BY <1>4, TotalSame
  <2>. QED
    BY <1>4, <2>1
<1>. QED
  BY <1>2, <1>3, <1>4 DEF Settled

LEMMA BestTells ==
  ASSUME TypeOK, Chosen, Bounded
  PROVE  BestApart
<1>. SUFFICES ASSUME Clean
              PROVE  \A c \in Contexts : OptimizationOf(c) \in completed =>
                                            BestCosts[c] = Optimum[c]
  <2>1. \A g \in Groups, r \in Reqs :
            /\ <<g, r>> \in Contexts /\ OptimizationOf(<<g, r>>) = Optimization(g, r)
            /\ BestCosts[<<g, r>>] = PocLookupBest(g, r)
    BY DEF Contexts, OptimizationOf, BestCosts
  <2>. QED
    BY <2>1 DEF BestApart, Clean
<1>1. /\ Optimum \in [Contexts -> Nat] /\ BestCosts \in [Contexts -> Nat]
      /\ \A c \in Contexts : Optimum[c] <= BestCosts[c] /\ BestCosts[c] <= Infinity
      /\ \A c \in Contexts : Optimum[c] = CheapestOf(Optimum, Plans(c), c[2])
  BY OptimumBounds, OptimumIs, BestCostsTyped DEF Chosen
<1>. DEFINE Wrong == {c \in Contexts : OptimizationOf(c) \in completed /\ BestCosts[c] # Optimum[c]}
            Heights == {Height[c] : c \in Wrong}
<1>2. SUFFICES ASSUME Heights # {} PROVE FALSE
  OBVIOUS
<1>3. Heights \subseteq Nat
  BY CostsAssumption
<1>4. PICK k \in Heights : \A l \in Heights : k <= l
  <2>. HIDE DEF Heights
  <2>. QED
    BY <1>2, <1>3, LeastElement
<1>5. PICK c \in Contexts : /\ OptimizationOf(c) \in completed /\ BestCosts[c] # Optimum[c]
                            /\ Height[c] = k
  BY <1>4
\* The contexts below have got their optimum.
<1>6. ASSUME NEW d \in Contexts, OptimizationOf(d) \in completed, Height[d] < Height[c]
      PROVE  BestCosts[d] = Optimum[d]
  <2>1. Height[d] \in Nat /\ Height[c] \in Nat
    BY CostsAssumption
  <2>2. Height[d] \notin Heights
    BY <1>4, <1>5, <1>6, <2>1
  <2>. QED
    BY <1>6, <2>2
<1>7. /\ c \in DOMAIN offered
      /\ \A x \in offered[c] : Tried(x, c[2], BestCosts, completed)
      /\ offered[c] \subseteq PhysicalIn(c[1])
  BY <1>5 DEF Chosen, Settling, Offers
<1>8. /\ PhysicalIn(c[1]) \subseteq Exprs \ Logical /\ \A x \in PhysicalIn(c[1]) : GroupOf[x] = c[1]
      /\ c[2] \in Reqs /\ c = <<c[1], c[2]>>
  BY ContextPair DEF PhysicalIn, TypeOK
<1>9. ASSUME NEW x \in Plans(c) PROVE BestCosts[c] <= TotalCost(Optimum, x, c[2])
  <2>1. /\ x \in offered[c] /\ <<x, c[2]>> \in Accepts /\ Enforcing[x][c[2]] # "required"
        /\ \A i \in DOMAIN Kids[x] : KidContext(x, c[2], i) # c
    BY <1>7 DEF Plans, KidContext
  <2>2. x \in Exprs \ Logical /\ GroupOf[x] = c[1] /\ OwnContext(x, c[2]) = c
    BY <1>7, <1>8, <2>1 DEF OwnContext
  <2>3. IsPlan(x, c[2])
    BY <2>1, <2>2 DEF IsPlan, AskedContexts
  <2>4. Settled(x, c[2], BestCosts, completed)
    BY <1>7, <2>1, <2>3 DEF Tried
  <2>5. x \in PlansOf(Exprs \ Logical, c)
    BY <2>2, <2>3 DEF PlansOf
  <2>6. \A d \in AskedContexts(x, c[2]) : d \in Contexts /\ Height[d] < Height[c]
    BY <2>5, PlanDescends
  <2>7. \A d \in AskedContexts(x, c[2]) :
            OptimizationOf(d) \in completed => BestCosts[d] = Optimum[d]
    BY <1>6, <2>6
  <2>. QED
    BY <1>1, <1>8, <2>2, <2>4, <2>7, SettledTells
<1>10. BestCosts[c] <= Optimum[c]
  <2>1. Plans(c) \in SUBSET Exprs
    BY <1>7, <1>8 DEF Plans
  <2>2. \/ Optimum[c] = Infinity
        \/ \E x \in Plans(c) : Optimum[c] = TotalCost(Optimum, x, c[2])
    <3>. DEFINE m == CheapestOf(Optimum, Plans(c), c[2])
    <3>1. m = Infinity \/ \E x \in Plans(c) : m = TotalCost(Optimum, x, c[2])
      BY <1>1, <1>8, <2>1, CheapestFound
    <3>2. Optimum[c] = m
      BY <1>1
    <3>. HIDE DEF m
    <3>. QED
      BY <3>1, <3>2
  <2>. QED
    BY <1>1, <1>9, <2>2
<1>. QED
  BY <1>1, <1>5, <1>10

(***************************************************************************)
(* The best plan is not overlooked, for any memo, costs and number of      *)
(* workers: when the optimization of a group under required properties is  *)
(* completed the plan recorded is a cheapest one of those the group had,   *)
(* unless the stage timed out or two workers updated one context at once.  *)
(* A plan has been looked at or given up when its group's optimization     *)
(* ends, level by level and with the enforcers that turned up meanwhile; a *)
(* plan given up is no better than the best one then known, for which only *)
(* costs of completed contexts count; and no plan has a part that needs it.*)
(***************************************************************************)
THEOREM SearchFindsBest == Spec => []BestApart
<1>1. Init => TypeOK /\ Wired /\ RootAlone /\ Marked /\ Truth /\ Chosen /\ Bounded
  BY TypeFirst, WiredFirst, RootFirst, TruthFirst, ChosenFirst, BoundedFirst
<1>2. TypeOK /\ Wired /\ RootAlone /\ Marked /\ Truth /\ Chosen /\ Bounded /\ [Next]_vars
        => (TypeOK /\ Wired /\ RootAlone /\ Marked /\ Truth /\ Chosen /\ Bounded)'
  BY WiredStep, RootStep, TruthStep, ChosenStep, BoundedStep
<1>3. TypeOK /\ Wired /\ RootAlone /\ Marked /\ Truth /\ Chosen /\ Bounded => BestApart
  BY BestTells
<1>. QED
  BY <1>1, <1>2, <1>3, PTL DEF Spec
=============================================================================
