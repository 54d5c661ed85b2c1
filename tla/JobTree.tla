------------------------------ MODULE JobTree -------------------------------
(***************************************************************************)
(* What the scheduler promises the optimizer.  Jobs form a tree: a job may *)
(* fork children and does not complete before they have.  Jobs that stand  *)
(* for the same operation on the same object (explore, implement, optimize *)
(* a group) share a job queue: one of them, the main job, performs the     *)
(* operation, once per search stage, and all of them complete after it.    *)
(* Threads, reference counters and lists do not appear at this level.      *)
(***************************************************************************)
EXTENDS Naturals

CONSTANTS
    Jobs,
    Queues,     \* numbers: an operation depends only on lower ones
    NoJob

NoQueue == 0

VARIABLES
    status,     \* of a job: "unborn", "active" or "done"
    up,         \* the parent of a job
    op,         \* the job queue of a job
    below,      \* the queues that the descendants of a job may join
    main,       \* the main job of a queue, once it has one
    performed   \* the operation of the queue has been performed

treeVars == <<status, up, op, below, main, performed>>

TypeOK ==
    /\ status \in [Jobs -> {"unborn", "active", "done"}]
    /\ up \in [Jobs -> Jobs \union {NoJob}]
    /\ op \in [Jobs -> Queues \union {NoQueue}]
    /\ below \in [Jobs -> SUBSET Queues]
    /\ main \in [Queues -> Jobs \union {NoJob}]
    /\ performed \in [Queues -> BOOLEAN]

\* The memo is acyclic: what an operation waits for does not wait for it.
LowerQueues(S, q) == IF q = NoQueue THEN S ELSE {k \in S : k < q}

\* A search stage starts with one root job and fresh queues.
StartStage(root, q) ==
    /\ status' = [j \in Jobs |-> IF j = root THEN "active" ELSE "unborn"]
    /\ up' = [j \in Jobs |-> NoJob]
    /\ op' = [j \in Jobs |-> IF j = root THEN q ELSE NoQueue]
    /\ below' = [j \in Jobs |-> IF j = root THEN LowerQueues(Queues, q) ELSE {}]
    /\ main' = [k \in Queues |-> NoJob]
    /\ performed' = [k \in Queues |-> FALSE]

Init ==
    \E root \in Jobs, q \in Queues \union {NoQueue} :
        /\ status = [j \in Jobs |-> IF j = root THEN "active" ELSE "unborn"]
        /\ up = [j \in Jobs |-> NoJob]
        /\ op = [j \in Jobs |-> IF j = root THEN q ELSE NoQueue]
        /\ below = [j \in Jobs |-> IF j = root THEN LowerQueues(Queues, q) ELSE {}]
        /\ main = [k \in Queues |-> NoJob]
        /\ performed = [k \in Queues |-> FALSE]

-----------------------------------------------------------------------------
ActiveChildren(j) == {c \in Jobs : up[c] = j /\ status[c] = "active"}

\* A job may run its own operation: it has none to share, or is the main job.
MayRun(j) == op[j] # NoQueue => main[op[j]] = j /\ ~performed[op[j]]

\* A running job forks a child, in a slot that is free.
Fork(p, c, q) ==
    /\ status[p] = "active" /\ MayRun(p)
    /\ status[c] = "unborn"
    /\ q \in below[p] \union {NoQueue}
    /\ status' = [status EXCEPT ![c] = "active"]
    /\ up' = [up EXCEPT ![c] = p]
    /\ op' = [op EXCEPT ![c] = q]
    /\ below' = [below EXCEPT ![c] = LowerQueues(below[p], q)]
    /\ UNCHANGED <<main, performed>>

\* The first job that turns up becomes the main job of its queue.
BecomeMain(j) ==
    /\ status[j] = "active" /\ op[j] \in Queues
    /\ main[op[j]] = NoJob /\ ~performed[op[j]]
    /\ main' = [main EXCEPT ![op[j]] = j]
    /\ UNCHANGED <<status, up, op, below, performed>>

\* The main job, its children done, has performed the operation.
Perform(j) ==
    /\ status[j] = "active" /\ op[j] \in Queues
    /\ MayRun(j)
    /\ ActiveChildren(j) = {}
    /\ performed' = [performed EXCEPT ![op[j]] = TRUE]
    /\ UNCHANGED <<status, up, op, below, main>>

\* A job completes: no child is active and its operation is performed.
Finish(j) ==
    /\ status[j] = "active"
    /\ ActiveChildren(j) = {}
    /\ op[j] # NoQueue => performed[op[j]]
    /\ status' = [status EXCEPT ![j] = "done"]
    /\ UNCHANGED <<up, op, below, main, performed>>

\* The slot of a completed job is recycled.
Recycle(j) ==
    /\ status[j] = "done"
    /\ status' = [status EXCEPT ![j] = "unborn"]
    /\ up' = [up EXCEPT ![j] = NoJob]
    /\ op' = [op EXCEPT ![j] = NoQueue]
    /\ below' = [below EXCEPT ![j] = {}]
    /\ UNCHANGED <<main, performed>>

\* The next search stage begins when nothing is left of the last one.
NextStage ==
    /\ \A j \in Jobs : status[j] = "unborn"
    /\ \E root \in Jobs, q \in Queues \union {NoQueue} : StartStage(root, q)

Next ==
    \/ \E p, c \in Jobs, q \in Queues \union {NoQueue} : Fork(p, c, q)
    \/ \E j \in Jobs : BecomeMain(j) \/ Perform(j) \/ Finish(j) \/ Recycle(j)
    \/ NextStage

Spec == Init /\ [][Next]_treeVars

-----------------------------------------------------------------------------
\* Fork/join: while a job is active so is every ancestor of it.
AncestorsActive ==
    \A j \in Jobs :
        status[j] = "active" /\ up[j] # NoJob => status[up[j]] = "active"
=============================================================================
