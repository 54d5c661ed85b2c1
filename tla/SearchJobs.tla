---------------------------- MODULE SearchJobs -----------------------------
(***************************************************************************)
(* The search: the state machines of the optimizer's jobs, run by several  *)
(* workers over the memo.  A group is explored, implemented and, for each  *)
(* set of required properties, optimized; each of its group expressions is *)
(* too; transformations add group expressions.  A job lets go of its       *)
(* worker when it has scheduled children and runs on when they are done;   *)
(* jobs of one operation share a job queue, whose first job is the main    *)
(* one.  Lists, reference counters and threads are those of Scheduler, the *)
(* insertion in the memo and the merge of groups those of Memo.            *)
(***************************************************************************)
EXTENDS Integers, Sequences, FiniteSets, Functions, FiniteSetsExt

CONSTANTS
    Workers, Groups, Root,
    Exprs,          \* the group expressions that may ever exist
    Initial,        \* those of the query
    Logical,        \* logical ones; the others are physical
    High,           \* physical ones of the higher optimization level
    GroupOf, Kids,  \* of an expression: its group, its child groups
    Xforms,         \* Xforms[phase][stage][x]: the transformations to apply
    Result,         \* of a transformation: the expressions it adds
    MadeWith,       \* of a group: the expression it is created with
    Reqs, RootReq,  \* required plan properties; those of the query
    Accepts,        \* pairs whose operator may be asked for the properties
    KidReq,         \* KidReq[x][r]: what it asks of its children in turn
    Enforcing,      \* Enforcing[x][r]: "unnecessary", "optional", "required"
    Enforcers,      \* Enforcers[g][r]: the expressions that enforce r in g
    Height,         \* of a group and properties: above all that its plans ask for
    Cost,           \* of the operator alone
    Infinity,       \* the cost of no plan
    Thresholds,     \* a stage ends the search at this cost or below
    Prunes,         \* space pruning is enabled
    TimeOuts,       \* the stages that may exceed their time threshold
    NoJob, NoExpr

ASSUME KidsAssumption ==
    \A x \in Exprs : \A i, k \in DOMAIN Kids[x] : i # k => Kids[x][i] # Kids[x][k]

MaxStages == Len(Thresholds)
Phases == {"explore", "implement"}
Contexts == Groups \X Reqs

ASSUME MemoAssumption ==
    /\ Initial \subseteq Exprs /\ Logical \subseteq Exprs
    /\ GroupOf \in [Exprs -> Groups] /\ Kids \in [Exprs -> Seq(Groups)]
    /\ Root \in Groups /\ MadeWith \in [Groups -> Exprs]

ASSUME StagesAssumption == Thresholds \in Seq(Nat) /\ Thresholds # <<>>

ASSUME CostsAssumption ==
    /\ Infinity \in Nat /\ Cost \in [Exprs -> Nat]
    /\ Height \in [Contexts -> Nat]

ASSUME PropertiesAssumption ==
    /\ RootReq \in Reqs
    /\ \A x \in Exprs : \A r \in Reqs : \A i \in DOMAIN Kids[x] : KidReq[x][r][i] \in Reqs

\* Every group that is mentioned has been created.
Whole(E) == \A x \in E : \A k \in Range(Kids[x]) : MadeWith[k] \in E

\* The groups D, and with them all below, are explored.
ExploredIn(E, D, n) ==
    \A x \in E \intersect Logical : GroupOf[x] \in D =>
        /\ Range(Kids[x]) \subseteq D
        /\ \A xf \in Xforms["explore"][n][x] : Result[xf] \subseteq E

\* The query is one tree.
ASSUME QueryAssumption == Whole(Initial) /\ MadeWith[Root] \in Initial

\* A transformation explores or implements.  Its result goes to the group of the
\* expression, the rest of it to groups created for that, above what is there.
ASSUME XformsAssumption ==
    /\ \A xf \in DOMAIN Result : Result[xf] \subseteq Exprs
    /\ \A n \in 1..MaxStages : \A x \in Logical :
          Xforms["explore"][n][x] \intersect Xforms["implement"][n][x] = {}
    /\ \A phase \in Phases : \A n \in 1..MaxStages : \A x \in Logical :
        \A xf \in Xforms[phase][n][x] :
            /\ xf \in DOMAIN Result
            /\ \A y \in Result[xf] :
                  \/ y = MadeWith[GroupOf[y]]
                  \/ GroupOf[y] = GroupOf[x] /\ (phase = "implement" => y \notin Logical)
            /\ \A E \in SUBSET Exprs : \A D \in SUBSET Groups :
                  /\ x \in E /\ Initial \subseteq E /\ Whole(E)
                  /\ Range(Kids[x]) \subseteq D /\ ExploredIn(E, D, n)
                  => Whole(E \union Result[xf])

\* Enforcers are physical, of the lower level and on top of their own group.
ASSUME EnforcersAssumption ==
    \A g \in Groups : \A r \in Reqs :
        /\ Enforcers[g][r] \subseteq Exprs \ (Logical \union High)
        /\ \A x \in Enforcers[g][r] : GroupOf[x] = g /\ Range(Kids[x]) \subseteq {g}

\* No plan has a part that in turn may have the plan as a part.
ASSUME AcyclicAssumption ==
    \A x \in Exprs \ Logical : \A r \in Reqs : \A i \in DOMAIN Kids[x] :
        LET c == <<GroupOf[x], r>>
            d == <<Kids[x][i], KidReq[x][r][i]>>
        IN  <<x, r>> \in Accepts /\ d # c => Height[d] < Height[c]

\* What an enforcer leaves to its group needs nothing more from the enforcer.
ASSUME RemainderAssumption ==
    \A x \in Exprs : \A r \in Reqs : \A i \in DOMAIN Kids[x] :
        <<x, r>> \in Accepts /\ Kids[x][i] = GroupOf[x] =>
            KidReq[x][KidReq[x][r][i]][i] = KidReq[x][r][i]

\* The jobs: what is done, to which group or expression, and for which properties or
\* by which transformation.
Jobs ==
    [type : {"GroupExploration", "GroupImplementation"}, on : Groups, for : {"-"}]
    \union [type : {"GroupOptimization"}, on : Groups, for : Reqs]
    \union [type : {"GroupExpressionExploration", "GroupExpressionImplementation"},
            on : Logical, for : {"-"}]
    \union [type : {"GroupExpressionOptimization"}, on : Exprs \ Logical, for : Reqs]
    \union [type : {"Transformation"}, on : Logical, for : DOMAIN Result]

ASSUME NamesAssumption == NoJob \notin Jobs /\ NoExpr \notin Exprs

VARIABLES
    exprs,      \* the group expressions of the memo
    gest,       \* state of a group
    xest,       \* state of a logical group expression
    best,       \* cost of a context's best plan, in the current stage
    past,       \* the least of the earlier stages
    offered,    \* the physical expressions a context was optimized with
    scheduled,  \* jobs not run yet, each with its parent
    job,        \* the jobs that have run and are not completed
    completed,  \* the jobs whose job queue is completed
    at,         \* the job a worker runs
    releasing,  \* the type of the completed job it has still to release
    pools,      \* the job types whose pool is allocated
    stage, timedOut,
    overlapped  \* the contexts two workers have updated at the same time

memo == <<exprs, gest, xest, best, past, offered>>
vars == <<exprs, gest, xest, best, past, offered, scheduled, job, completed, at,
          releasing, pools, stage, timedOut, overlapped>>

GroupJob(type, g, for) == [type |-> type, on |-> g, for |-> for]
Exploration(g) == GroupJob("GroupExploration", g, "-")
Implementation(g) == GroupJob("GroupImplementation", g, "-")
Optimization(g, r) == GroupJob("GroupOptimization", g, r)
ExprJob(type, x, for) == GroupJob(type, x, for)

RootJob == Optimization(Root, RootReq)

\* Jobs of these types share a job queue.
Queued == {"GroupExploration", "GroupImplementation", "GroupOptimization"}

LogicalIn(g) == {x \in exprs \intersect Logical : GroupOf[x] = g}
PhysicalIn(g) == {x \in exprs \ Logical : GroupOf[x] = g}
Explored == {"explored", "implementing", "implemented"}
MaxLevel(g) == IF PhysicalIn(g) \intersect High # {} THEN "high" ELSE "low"

Least(a, b) == IF a < b THEN a ELSE b

\* The best of all stages so far.
PocLookupBest(g, r) == Least(past[<<g, r>>], best[<<g, r>>])

Init ==
    /\ exprs = Initial
    /\ gest = [g \in Groups |-> "unexplored"]
    /\ xest = [x \in Logical |-> "unexplored"]
    /\ best = [c \in Contexts |-> Infinity]
    /\ past = [c \in Contexts |-> Infinity]
    /\ offered = <<>>
    /\ scheduled = {[job |-> RootJob, parent |-> NoJob]}
    /\ job = <<>>
    /\ completed = {}
    /\ at = [w \in Workers |-> NoJob]
    /\ releasing = [w \in Workers |-> "none"]
    /\ pools = {"GroupOptimization"}
    /\ stage = 1
    /\ timedOut = FALSE
    /\ overlapped = {}

-----------------------------------------------------------------------------
Working(w) == at[w] # NoJob
Free(w) == at[w] = NoJob /\ releasing[w] = "none"
Held == {at[w] : w \in Workers}

\* A child of each of these jobs has completed.
Resumed(J, parents, c) ==
    [j \in DOMAIN J |->
        IF j \in parents THEN [J[j] EXCEPT !.waits = @ \ {c}] ELSE J[j]]

\* A job queue is completed, or a job has started in it already.
NewJob(e) == e.job \notin completed /\ e.job \notin DOMAIN job

\* A worker retrieves a job that has not run and becomes its main job.
Retrieve(w, e) ==
    /\ Free(w) /\ e \in scheduled /\ NewJob(e)
    /\ scheduled' = scheduled \ {e}
    /\ job' = [j \in DOMAIN job \union {e.job} |->
                IF j # e.job THEN job[j]
                ELSE [est |-> "initialized", waits |-> {}, parents |-> {e.parent},
                      origin |-> IF e.parent # NoJob
                                    /\ e.parent.type = "GroupExpressionOptimization"
                                 THEN e.parent.on ELSE NoExpr,
                      eol |-> "low", seen |-> {}, child |-> 1,
                      cost |-> Infinity, read |-> Infinity]]
    /\ at' = [at EXCEPT ![w] = e.job]
    /\ UNCHANGED <<memo, completed, releasing, pools, stage, timedOut, overlapped>>

\* The queue has a main job: the job waits in the queue.
Queue(w, e) ==
    /\ Free(w) /\ e \in scheduled
    /\ e.job.type \in Queued /\ e.job \in DOMAIN job /\ e.job \notin completed
    /\ scheduled' = scheduled \ {e}
    /\ job' = [job EXCEPT ![e.job].parents = @ \union {e.parent}]
    /\ UNCHANGED <<memo, completed, at, releasing, pools, stage, timedOut, overlapped>>

\* The queue is completed, and so is the job.
FindCompleted(w, e) ==
    /\ Free(w) /\ e \in scheduled /\ e.job \in completed
    /\ scheduled' = scheduled \ {e}
    /\ job' = Resumed(job, {e.parent}, e.job)
    /\ releasing' = [releasing EXCEPT ![w] = e.job.type]
    /\ UNCHANGED <<memo, completed, at, pools, stage, timedOut, overlapped>>

\* A worker picks up a job with no outstanding children.
Resume(w, j) ==
    /\ Free(w)
    /\ j \in DOMAIN job /\ j \notin Held
    /\ job[j].waits = {}
    /\ at' = [at EXCEPT ![w] = j]
    /\ UNCHANGED <<memo, scheduled, job, completed, releasing, pools, stage, timedOut,
                   overlapped>>

-----------------------------------------------------------------------------
\* The job is in a new state and its worker goes on with it.
Advance(j, est) ==
    /\ job' = [job EXCEPT ![j].est = est]
    /\ UNCHANGED <<scheduled, at, pools>>

Child(kid, parent) == [job |-> kid, parent |-> parent]

\* Mutant of Schedule: the children are added without their parent.
Schedule_NoParent(w, j, kids, new) ==
    /\ job' = [job EXCEPT ![j] = new]
    /\ scheduled' = scheduled \union
        {Child(k, IF k.type = "Transformation" THEN NoJob ELSE j) : k \in kids}
    /\ pools' = pools \union {k.type : k \in kids}
    /\ at' = [at EXCEPT ![w] = NoJob]

\* The job schedules children and, its state unchanged, lets go of the worker.
Schedule(w, j, kids, new) ==
    /\ job' = [job EXCEPT ![j] = [new EXCEPT !.waits = kids]]
    /\ scheduled' = scheduled \union {Child(k, j) : k \in kids}
    /\ pools' = pools \union {k.type : k \in kids}
    /\ at' = [at EXCEPT ![w] = NoJob]

In(w, type, est) == Working(w) /\ at[w].type = type /\ job[at[w]].est = est

Runs(w, type, est) == In(w, type, est) /\ ~timedOut

Unchanging == UNCHANGED <<past, completed, releasing, stage, timedOut>>

-----------------------------------------------------------------------------
(* Exploration of a group. *)

EevtStartExploration(w) ==
    LET g == at[w].on
    IN  /\ Runs(w, "GroupExploration", "initialized")
        /\ gest' = [gest EXCEPT ![g] = "exploring"]
        /\ Advance(at[w], "children")
        /\ UNCHANGED <<exprs, xest, best, offered, overlapped>> /\ Unchanging

Unexplored(g) == {x \in LogicalIn(g) : xest[x] \notin Explored}

\* Mutant of Pending: an expression is scheduled by the first pass only.
Pending_Once(j, X) == IF job[j].seen = {} THEN X ELSE {}

\* The expressions a pass over the group schedules.
Pending(j, X) == X

EevtExploreChildren(w) ==
    LET g == at[w].on
        new == Pending(at[w], Unexplored(g))
    IN  /\ Runs(w, "GroupExploration", "children")
        /\ \/ /\ new # {}
              /\ Schedule(w, at[w],
                    {ExprJob("GroupExpressionExploration", x, "-") : x \in new},
                    [job[at[w]] EXCEPT !.seen = @ \union new])
              /\ UNCHANGED gest
           \/ /\ new = {}
              /\ gest' = [gest EXCEPT ![g] = "explored"]
              /\ Advance(at[w], IF g = Root THEN "merging" ELSE "done")
        /\ UNCHANGED <<exprs, xest, best, offered, overlapped>> /\ Unchanging

\* Groups are merged and statistics derived, while the job is running.
FinalizeExploration(w) ==
    /\ In(w, "GroupExploration", "merging")
    /\ Advance(at[w], "done")
    /\ UNCHANGED <<exprs, gest, xest, best, offered, overlapped>> /\ Unchanging

(* Implementation of a group. *)

EevtStartImplementation(w) ==
    LET g == at[w].on
    IN  /\ Runs(w, "GroupImplementation", "initialized")
        /\ \/ /\ gest[g] \notin Explored
              /\ Schedule(w, at[w], {Exploration(g)}, job[at[w]])
              /\ UNCHANGED gest
           \/ /\ gest[g] \in Explored
              /\ gest' = [gest EXCEPT ![g] = "implementing"]
              /\ job' = [job EXCEPT ![at[w]].est = "children"]
              /\ pools' = IF g = Root
                          THEN pools \ {"GroupExploration", "GroupExpressionExploration"}
                          ELSE pools
              /\ UNCHANGED <<scheduled, at>>
        /\ UNCHANGED <<exprs, xest, best, offered, overlapped>> /\ Unchanging

Unimplemented(g) == {x \in LogicalIn(g) : xest[x] # "implemented"}

EevtImplementChildren(w) ==
    LET g == at[w].on
        new == Pending(at[w], Unimplemented(g))
    IN  /\ Runs(w, "GroupImplementation", "children")
        /\ \/ /\ new # {}
              /\ Schedule(w, at[w],
                    {ExprJob("GroupExpressionImplementation", x, "-") : x \in new},
                    [job[at[w]] EXCEPT !.seen = @ \union new])
              /\ UNCHANGED gest
           \/ /\ new = {}
              /\ gest' = [gest EXCEPT ![g] = "implemented"]
              /\ Advance(at[w], "done")
        /\ UNCHANGED <<exprs, xest, best, offered, overlapped>> /\ Unchanging

-----------------------------------------------------------------------------
(* Exploration and implementation of a group expression, alike. *)

Explores(j) == j.type = "GroupExpressionExploration"

KidJobs(j) ==
    {IF Explores(j) THEN Exploration(g) ELSE Implementation(g) : g \in Range(Kids[j.on])}

\* The transformations that apply to an expression in the current stage.
Transformations(j) ==
    Xforms[IF Explores(j) THEN "explore" ELSE "implement"][stage][j.on]

PhaseJob(w, est) ==
    \E type \in {"GroupExpressionExploration", "GroupExpressionImplementation"} :
        Runs(w, type, est)

\* First the child groups.
ScheduleChildGroupsJobs(w) ==
    LET j == at[w]
    IN  /\ PhaseJob(w, "initialized")
        /\ xest' = [xest EXCEPT ![j.on] = IF Explores(j) THEN "exploring" ELSE "implementing"]
        /\ Schedule(w, j, KidJobs(j), [job[j] EXCEPT !.est = "children"])
        /\ UNCHANGED <<exprs, gest, best, offered, overlapped>> /\ Unchanging

\* Then the expression itself, by the transformations of the stage.
ScheduleApplicableTransformations(w) ==
    LET j == at[w]
    IN  /\ PhaseJob(w, "children")
        /\ Schedule(w, j, {ExprJob("Transformation", j.on, xf) : xf \in Transformations(j)},
                    [job[j] EXCEPT !.est = "self"])
        /\ UNCHANGED <<exprs, gest, xest, best, offered, overlapped>> /\ Unchanging

FinalizeExpression(w) ==
    /\ PhaseJob(w, "self")
    /\ xest' = [xest EXCEPT ![at[w].on] = IF Explores(at[w]) THEN "explored" ELSE "implemented"]
    /\ Advance(at[w], "done")
    /\ UNCHANGED <<exprs, gest, best, offered, overlapped>> /\ Unchanging

EevtTransform(w) ==
    /\ Runs(w, "Transformation", "initialized")
    /\ exprs' = exprs \union Result[at[w].for]
    /\ Advance(at[w], "done")
    /\ UNCHANGED <<gest, xest, best, offered, overlapped>> /\ Unchanging

-----------------------------------------------------------------------------
(* Optimization of a group under required properties. *)

EevtStartOptimization(w) ==
    LET g == at[w].on
    IN  /\ Runs(w, "GroupOptimization", "initialized")
        /\ \/ /\ gest[g] # "implemented"
              /\ Schedule(w, at[w], {Implementation(g)}, job[at[w]])
           \/ /\ gest[g] = "implemented"
              /\ job' = [job EXCEPT ![at[w]].est = "children", ![at[w]].eol = MaxLevel(g)]
              /\ pools' = IF g = Root
                          THEN pools \ {"GroupImplementation", "GroupExpressionImplementation"}
                          ELSE pools
              /\ UNCHANGED <<scheduled, at>>
        /\ UNCHANGED <<exprs, gest, xest, best, offered, overlapped>> /\ Unchanging

FOptimizeChild(j, x) ==
    /\ x # job[j].origin
    /\ (x \in High) = (job[j].eol = "high")

\* A pass over the expressions not seen at this level.
EevtOptimizeChildren(w) ==
    LET j == at[w]
        new == PhysicalIn(j.on) \ job[j].seen
    IN  /\ Runs(w, "GroupOptimization", "children")
        /\ \/ /\ new # {}
              /\ Schedule(w, j,
                    {ExprJob("GroupExpressionOptimization", x, j.for) :
                        x \in {y \in new : FOptimizeChild(j, y)}},
                    [job[j] EXCEPT !.seen = @ \union new])
              /\ UNCHANGED offered
           \/ /\ new = {}
              /\ Advance(j, "damp")
              /\ offered' = IF job[j].eol = "high" THEN offered
                            ELSE [c \in DOMAIN offered \union {<<j.on, j.for>>} |->
                                    IF c = <<j.on, j.for>> THEN PhysicalIn(j.on)
                                    ELSE offered[c]]
        /\ UNCHANGED <<exprs, gest, xest, best, overlapped>> /\ Unchanging

\* Mutant of Damp: the expressions seen at the higher level are not visited again.
Damp_KeepsSeen(J) == [J EXCEPT !.est = "children", !.eol = "low"]

Damp(J) == [J EXCEPT !.est = "children", !.eol = "low", !.seen = {}]

EevtCompleteOptimization(w) ==
    LET j == at[w]
    IN  /\ Runs(w, "GroupOptimization", "damp")
        /\ job' = [job EXCEPT ![j] =
                    IF @.eol = "high" THEN Damp(@) ELSE [@ EXCEPT !.est = "done"]]
        /\ UNCHANGED <<exprs, gest, xest, best, offered, scheduled, at, pools, overlapped>>
        /\ Unchanging

-----------------------------------------------------------------------------
(* Optimization of a group expression under required properties. *)

\* A plan of this cost or more cannot improve on the plan known.
FSafeToPrune(x, r, cost) ==
    Prunes /\ PocLookupBest(GroupOf[x], r) < cost

ChildCost(x, r, i) == PocLookupBest(Kids[x][i], KidReq[x][r][i])

EevtInitialize(w) ==
    LET x == at[w].on
        r == at[w].for
        give_up == <<x, r>> \notin Accepts \/ FSafeToPrune(x, r, Cost[x])
    IN  /\ Runs(w, "GroupExpressionOptimization", "initialized")
        /\ Advance(at[w], IF give_up THEN "done" ELSE "children")
        /\ UNCHANGED <<exprs, gest, xest, best, offered, overlapped>> /\ Unchanging

\* The child before has no plan, or too expensive a one.
FChildOptimizationFailed(x, r, i) ==
    \/ i > 1 /\ \/ ChildCost(x, r, i - 1) = Infinity
                \/ FSafeToPrune(x, r, Cost[x] + ChildCost(x, r, i - 1))
    \/ Kids[x][i] = GroupOf[x] /\ KidReq[x][r][i] = r

\* Child groups are optimized one after another.
EevtOptimizeChild(w) ==
    LET j == at[w]
        x == j.on
        r == j.for
        i == job[j].child
    IN  /\ Runs(w, "GroupExpressionOptimization", "children")
        /\ \/ i > Len(Kids[x]) /\ Advance(j, "optimized")
           \/ /\ i <= Len(Kids[x]) /\ FChildOptimizationFailed(x, r, i)
              /\ Advance(j, "done")
           \/ /\ i <= Len(Kids[x]) /\ ~FChildOptimizationFailed(x, r, i)
              /\ Schedule(w, j, {Optimization(Kids[x][i], KidReq[x][r][i])},
                          [job[j] EXCEPT !.child = i + 1])
        /\ UNCHANGED <<exprs, gest, xest, best, offered, overlapped>> /\ Unchanging

FChildrenOptimized(x, r) == \A i \in DOMAIN Kids[x] : ChildCost(x, r, i) < Infinity

EevtAddEnforcers(w) ==
    LET j == at[w]
        x == j.on
        how == Enforcing[x][j.for]
        valid == FChildrenOptimized(x, j.for)
    IN  /\ Runs(w, "GroupExpressionOptimization", "optimized")
        /\ exprs' = IF valid /\ how # "unnecessary"
                    THEN exprs \union Enforcers[GroupOf[x]][j.for] ELSE exprs
        /\ Advance(j, IF valid /\ how # "required" THEN "self" ELSE "done")
        /\ UNCHANGED <<gest, xest, best, offered, overlapped>> /\ Unchanging

\* The cost of a plan, given what its children's contexts cost.
TotalCost(cost, x, r) ==
    LET upTo[i \in 0..Len(Kids[x])] ==
            IF i = 0 THEN Cost[x] ELSE upTo[i - 1] + cost[<<Kids[x][i], KidReq[x][r][i]>>]
    IN  upTo[Len(Kids[x])]

PlanCost(x, r) == TotalCost([c \in Contexts |-> PocLookupBest(c[1], c[2])], x, r)

\* Another job has read the best plan of the context and not yet written it.
Overlapping(j) ==
    {k \in DOMAIN job : k # j /\ job[k].est = "update" /\ k.for = j.for
                        /\ k.type = j.type /\ GroupOf[k.on] = GroupOf[j.on]}

\* The cost of the plan is computed and the best plan of the context read.
EevtOptimizeSelf(w) ==
    LET j == at[w]
        c == <<GroupOf[j.on], j.for>>
    IN  /\ Runs(w, "GroupExpressionOptimization", "self")
        /\ job' = [job EXCEPT ![j].est = "update", ![j].read = best[c],
                              ![j].cost = PlanCost(j.on, j.for)]
        /\ overlapped' = IF Overlapping(j) # {} THEN overlapped \union {c} ELSE overlapped
        /\ UNCHANGED <<exprs, gest, xest, best, offered, scheduled, at, pools>>
        /\ Unchanging

FBetterThan(cost, read) == cost < read

\* Then the best plan is replaced, if it was worse when read.
UpdateBestCost(w) ==
    LET j == at[w]
        c == <<GroupOf[j.on], j.for>>
    IN  /\ In(w, "GroupExpressionOptimization", "update")
        /\ best' = IF FBetterThan(job[j].cost, job[j].read)
                   THEN [best EXCEPT ![c] = job[j].cost] ELSE best
        /\ Advance(j, "done")
        /\ UNCHANGED <<exprs, gest, xest, offered, overlapped>> /\ Unchanging

-----------------------------------------------------------------------------
\* The search stage is found timed out before an action: the job ends as it is.
EndJob(w) ==
    /\ Working(w) /\ timedOut /\ job[at[w]].est \notin {"merging", "update", "done"}
    /\ Advance(at[w], "done")
    /\ UNCHANGED <<memo, completed, releasing, stage, timedOut, overlapped>>

\* The queue is completed and the parents hear of it, before the job is released.
Complete(w) ==
    LET j == at[w]
    IN  /\ Working(w) /\ job[j].est = "done"
        /\ completed' = IF j.type \in Queued THEN completed \union {j} ELSE completed
        /\ job' = Resumed([k \in DOMAIN job \ {j} |-> job[k]], job[j].parents, j)
        /\ at' = [at EXCEPT ![w] = NoJob]
        /\ releasing' = [releasing EXCEPT ![w] = j.type]
        /\ UNCHANGED <<memo, scheduled, pools, stage, timedOut, overlapped>>

Release(w) ==
    /\ releasing[w] # "none"
    /\ releasing' = [releasing EXCEPT ![w] = "none"]
    /\ UNCHANGED <<memo, scheduled, job, completed, at, pools, stage, timedOut, overlapped>>

Idle == scheduled = {} /\ DOMAIN job = {} /\ \A w \in Workers : Free(w)

\* The search stage takes longer than its time threshold.
TimeOut ==
    /\ stage \in TimeOuts /\ ~timedOut /\ ~Idle
    /\ timedOut' = TRUE
    /\ UNCHANGED <<memo, scheduled, job, completed, at, releasing, pools, stage, overlapped>>

FSearchTerminated ==
    stage > MaxStages \/ (stage > 1 /\ past[<<Root, RootReq>>] <= Thresholds[stage - 1])

\* Mutant of ResetGroupStates: the job queues of the groups stay completed.
ResetGroupStates_KeepsQueues ==
    /\ gest' = [g \in Groups |-> "unexplored"]
    /\ xest' = [x \in Logical |-> "unexplored"]
    /\ completed' = {j \in completed : j.type # "GroupOptimization"}

\* The contexts of the next stage are new: their queues are not completed.
ResetGroupStates ==
    /\ gest' = [g \in Groups |-> "unexplored"]
    /\ xest' = [x \in Logical |-> "unexplored"]
    /\ completed' = {}

\* All workers have ended: the next stage starts, unless the search ends.
FinalizeSearchStage ==
    /\ Idle /\ ~FSearchTerminated
    /\ stage' = stage + 1
    /\ past' = [c \in Contexts |-> Least(past[c], best[c])]
    /\ best' = [c \in Contexts |-> Infinity]
    /\ offered' = <<>>
    /\ ResetGroupStates
    /\ scheduled' = IF FSearchTerminated' THEN {} ELSE {Child(RootJob, NoJob)}
    /\ pools' = pools \union {"GroupOptimization"}
    /\ timedOut' = FALSE
    /\ overlapped' = {}
    /\ UNCHANGED <<exprs, job, at, releasing>>

-----------------------------------------------------------------------------
Take(w) ==
    \/ \E e \in scheduled : Retrieve(w, e) \/ Queue(w, e) \/ FindCompleted(w, e)
    \/ \E j \in DOMAIN job : Resume(w, j)

GroupStep(w) ==
    \/ EevtStartExploration(w) \/ EevtExploreChildren(w) \/ FinalizeExploration(w)
    \/ EevtStartImplementation(w) \/ EevtImplementChildren(w)
    \/ EevtStartOptimization(w) \/ EevtOptimizeChildren(w) \/ EevtCompleteOptimization(w)

ExprStep(w) ==
    \/ ScheduleChildGroupsJobs(w) \/ ScheduleApplicableTransformations(w)
    \/ FinalizeExpression(w) \/ EevtTransform(w)
    \/ EevtInitialize(w) \/ EevtOptimizeChild(w) \/ EevtAddEnforcers(w)
    \/ EevtOptimizeSelf(w) \/ UpdateBestCost(w)

Work(w) == GroupStep(w) \/ ExprStep(w) \/ EndJob(w) \/ Complete(w) \/ Release(w)

Next ==
    \/ \E w \in Workers : Take(w) \/ Work(w)
    \/ TimeOut \/ FinalizeSearchStage

Spec == Init /\ [][Next]_vars

\* A free worker takes jobs while there are any, and a job's code runs on.
Fairness ==
    /\ WF_vars(\E w \in Workers : Take(w))
    /\ \A w \in Workers : WF_vars(Work(w))
    /\ WF_vars(FinalizeSearchStage)

FairSpec == Spec /\ Fairness

-----------------------------------------------------------------------------
GroupStates == {"unexplored", "exploring", "explored", "implementing", "implemented"}

\* The types of the variables.
JobStates ==
    [est : {"initialized", "children", "merging", "damp", "optimized", "self", "update",
            "done"},
     waits : SUBSET Jobs, parents : SUBSET (Jobs \union {NoJob}),
     origin : Exprs \union {NoExpr}, eol : {"low", "high"}, seen : SUBSET Exprs,
     child : Nat \ {0}, cost : Nat, read : Nat]

TypeOK ==
    /\ exprs \subseteq Exprs
    /\ gest \in [Groups -> GroupStates] /\ xest \in [Logical -> GroupStates]
    /\ best \in [Contexts -> Nat] /\ past \in [Contexts -> Nat]
    /\ DOMAIN offered \subseteq Contexts
    /\ offered \in [DOMAIN offered -> SUBSET Exprs]
    /\ scheduled \subseteq [job : Jobs, parent : Jobs \union {NoJob}]
    /\ DOMAIN job \subseteq Jobs /\ job \in [DOMAIN job -> JobStates]
    /\ completed \subseteq Jobs
    /\ at \in [Workers -> Jobs \union {NoJob}]
    /\ stage \in 1..(MaxStages + 1) /\ timedOut \in BOOLEAN
    /\ overlapped \subseteq Contexts

(***************************************************************************)
(* What is recorded of a group is true: when it is marked explored or      *)
(* implemented, so is every logical expression it has by then and every    *)
(* child group of those, and the transformations of the stage have been    *)
(* applied to them, however the jobs of several workers interleaved, and   *)
(* whichever of them first turned up for a shared child group.             *)
(***************************************************************************)
TransitionsComplete ==
    \A g \in Groups : \A x \in LogicalIn(g) :
        /\ gest[g] \in Explored =>
              /\ xest[x] \in Explored
              /\ \A k \in Range(Kids[x]) : gest[k] \in Explored
              /\ \A xf \in Xforms["explore"][stage][x] : Result[xf] \subseteq exprs
        /\ gest[g] = "implemented" =>
              /\ xest[x] = "implemented"
              /\ \A k \in Range(Kids[x]) : gest[k] = "implemented"
              /\ \A xf \in Xforms["implement"][stage][x] : Result[xf] \subseteq exprs

(***************************************************************************)
(* "must not be called while exploration is undergoing", CMemo says of the *)
(* rehash: while the root group's exploration job merges groups no other   *)
(* job is alive but the two that wait for it.                              *)
(***************************************************************************)
MergeAlone ==
    (\E w \in Workers : In(w, "GroupExploration", "merging")) =>
        /\ DOMAIN job = {Exploration(Root), Implementation(Root), RootJob}
        /\ scheduled = {}

\* The plans a context has, or had when it was optimized: operators that may be asked
\* for the properties, and do not need what they are asked for.
Plans(c) ==
    {x \in IF c \in DOMAIN offered THEN offered[c] ELSE PhysicalIn(c[1]) :
        /\ <<x, c[2]>> \in Accepts /\ Enforcing[x][c[2]] # "required"
        /\ \A i \in DOMAIN Kids[x] : <<Kids[x][i], KidReq[x][c[2]][i]>> # c}

\* The cost of the cheapest one.
Optimum[c \in Contexts] ==
    Min({Least(Infinity, TotalCost(Optimum, x, c[2])) : x \in Plans(c)} \union {Infinity})

(***************************************************************************)
(* No plan is overlooked: once the optimization of a group is completed    *)
(* the plan recorded for it is a cheapest one, in spite of pruning, levels,*)
(* enforcers that turn up late and contexts shared by several parents.     *)
(* This needs a stage that does not time out, and no two workers between   *)
(* the read and the write of the best plan of one context.                 *)
(***************************************************************************)
BestApart ==
    ~timedOut /\ overlapped = {} =>
        \A g \in Groups, r \in Reqs :
            Optimization(g, r) \in completed => PocLookupBest(g, r) = Optimum[<<g, r>>]

(***************************************************************************)
(* The search comes to an end: no job waits for itself through a shared    *)
(* group or context, timed out or not, in every stage.                     *)
(***************************************************************************)
SearchEnds == <>[](Idle /\ FSearchTerminated)

(***************************************************************************)
(* CJobFactory.h asserts that the pool a job is released to is there.      *)
(***************************************************************************)
ReleaseHasPool ==
    \A w \in Workers :
        releasing[w] # "none" => releasing[w] \in pools
=============================================================================
