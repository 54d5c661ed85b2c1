-------------------------------- MODULE Memo --------------------------------
(***************************************************************************)
(* The memo: CMemo with its groups and its hash table of group expressions.*)
(* While a stage explores, transformation jobs of several workers insert   *)
(* the expressions they produce (CEngine::InsertXformResult); when the     *)
(* root is explored, one worker merges the groups found to be duplicates   *)
(* and all that are so in consequence (CMemo::GroupMerge).                 *)
(*                                                                         *)
(* A group is its id.  A scope of the hash table's accessor is one step.   *)
(* The race of two MarkDuplicates is the subject of GroupDuplicates; here  *)
(* a call is one step.  Operators have at most one child.                  *)
(***************************************************************************)
EXTENDS Naturals, Sequences, FiniteSets

CONSTANTS
    Workers,
    InitialMemo,  \* the expressions of the query, one per group: <<op, kids>>
    Results,      \* what xforms may produce, see ResultsAssumption
    ScalarOps,    \* the operators of scalar groups
    MaxGroups, MaxExprs, MaxResults, MaxStages,   \* bounds
    NoGroup

Groups == 1..MaxGroups
Exprs == 1..MaxExprs
GroupOrNone == Groups \union {NoGroup}
Links == [Groups -> GroupOrNone]

ASSUME BoundsAssumption ==
    {MaxGroups, MaxExprs, MaxResults, MaxStages} \subseteq Nat /\ MaxStages > 0
ASSUME NoGroupAssumption == NoGroup \notin Nat
\* The query is inserted like any other expression: none is there twice.
ASSUME MemoAssumption ==
    /\ Len(InitialMemo) \in 1..MaxGroups /\ Len(InitialMemo) <= MaxExprs
    /\ InitialMemo \in Seq([op : STRING, kids : {<<>>} \union {<<g>> : g \in 1..Len(InitialMemo)}])
    /\ \A i, j \in 1..Len(InitialMemo) : InitialMemo[i] = InitialMemo[j] => i = j

\* The xform of an expression in "group" yields a tree: the operators "ops" one
\* above the other, over the group "base" of the binding or over nothing.
ASSUME ResultsAssumption ==
    \A r \in Results :
        /\ r.group \in 1..Len(InitialMemo)
        /\ r.base \in 1..Len(InitialMemo) \union {NoGroup}
        /\ r.ops \in Seq(STRING) \ {<<>>}

VARIABLES
    gexpr,      \* operator and child groups of each expression inserted
    pgroup,     \* m_pgroup
    table,      \* m_sht: the expressions in the hash table ...
    hash,       \* ... and the hash value each was inserted under
    listGExprs, \* m_listGExprs of each group; m_ulGExprs is its size
    duplicate,  \* m_pgroupDuplicate
    scalars,    \* groups whose m_pexprScalar is made
    groups,     \* number of groups, the last id given
    root,       \* m_pgroupRoot
    phase, stage,
    unmerged,   \* GroupMerge: groups not yet visited in this round
    dumped,     \* FRehash: expressions not yet inserted again
    fNewDupGroups,
    at,         \* where each worker is in InsertXformResult
    result, pos,\* the tree it inserts, the operator it has come to
    kid,        \* the group below that operator
    origin,     \* pgroupOrigin
    container,  \* pgroupContainer
    results,    \* bound: trees inserted
    marked,     \* history: the pairs given to MarkDuplicates by xforms
    home        \* history: the group an expression was first inserted in

exprVars == <<gexpr, pgroup, home>>
tableVars == <<table, hash>>
groupVars == <<listGExprs, duplicate, scalars, groups>>
mergeVars == <<unmerged, dumped, fNewDupGroups>>
workerVars == <<at, result, pos, kid, origin, container>>
vars == <<exprVars, tableVars, groupVars, root, phase, stage, mergeVars, workerVars,
          results, marked>>

Present == 1..groups
Free == <<>>

-----------------------------------------------------------------------------
(* Operators of the code                                                   *)

\* A mutant that follows the link as soon as it is there.
HashId_Eager(g) == IF duplicate[g] # NoGroup THEN duplicate[g] ELSE g

\* CGroup::UlHash: a group merged into another has that one's hash value.
HashId(g) == IF duplicate[g] # NoGroup /\ listGExprs[g] = {} THEN duplicate[g] ELSE g

\* CGroupExpression::UlHash
UlHash(c) == <<c.op, [i \in DOMAIN c.kids |-> HashId(c.kids[i])]>>

\* CGroup::FDuplicateGroups
FDuplicateGroups(g, h) ==
    \/ g = h \/ g = duplicate[h] \/ h = duplicate[g]
    \/ (duplicate[g] # NoGroup /\ duplicate[g] = duplicate[h])

\* CGroupExpression::FMatch
FMatch(c, d) ==
    /\ c.op = d.op /\ Len(c.kids) = Len(d.kids)
    /\ \A i \in DOMAIN c.kids : FDuplicateGroups(c.kids[i], d.kids[i])

\* What a lookup may find: matches are looked for in one bucket, which holds all
\* expressions of that hash value and possibly others.
Matches(c) == {x \in table : FMatch(gexpr[x], c)}
Missed(c) == \A x \in Matches(c) : hash[x] # UlHash(c)

\* CGroupExpression::operator[], the accessor of children: "during optimization
\* the operator returns the duplicate group".
Child(g) == IF listGExprs[g] = {} THEN duplicate[g] ELSE g

\* AddDuplicateGrp: the end of the walk from two groups, where the link is set.
LinkEnd(d, g, h) ==
    LET from[p \in Groups \X Groups] ==
            LET src == IF p[1] > p[2] THEN p[2] ELSE p[1]
                dest == IF p[1] > p[2] THEN p[1] ELSE p[2]
            IN  IF d[src] \in {dest, NoGroup} THEN <<src, dest>> ELSE from[<<d[src], dest>>]
    IN  from[<<g, h>>]

\* ResolveDuplicateMaster: the end of the chain.
Master(d, g) ==
    LET from[x \in Groups] == IF d[x] = NoGroup THEN x ELSE from[d[x]]
    IN  from[g]

Resolve(d, g) == IF d[g] = NoGroup THEN d ELSE [d EXCEPT ![g] = Master(d, g)]

\* CMemo::MarkDuplicates
MarkedDuplicates(g, h) ==
    LET end == LinkEnd(duplicate, g, h)
        linked == [duplicate EXCEPT ![end[1]] = end[2]]
    IN  Resolve(Resolve(linked, g), h)

-----------------------------------------------------------------------------
Stages == {"idle", "lookup", "insert", "mark", "materialize"}
NoResult == [group |-> 1, ops |-> <<"none">>, base |-> NoGroup]

Contents == [op : STRING, kids : {<<>>} \union {<<g>> : g \in Groups}]

TypeOK ==
    /\ gexpr \in [Exprs -> Contents \union {Free}]
    /\ pgroup \in [Exprs -> GroupOrNone] /\ home \in [Exprs -> GroupOrNone]
    /\ table \subseteq Exprs /\ dumped \subseteq Exprs
    /\ listGExprs \in [Groups -> SUBSET Exprs]
    /\ duplicate \in Links
    /\ scalars \subseteq Groups
    /\ groups \in 1..MaxGroups /\ root \in Groups
    /\ phase \in {"explore", "merge", "rehash", "merged"}
    /\ stage \in 1..MaxStages
    /\ unmerged \subseteq Groups /\ fNewDupGroups \in BOOLEAN
    /\ at \in [Workers -> Stages]
    /\ result \in [Workers -> Results \union {NoResult}]
    /\ pos \in [Workers -> Nat]
    /\ kid \in [Workers -> GroupOrNone] /\ origin \in [Workers -> GroupOrNone]
    /\ container \in [Workers -> GroupOrNone]
    /\ results \in 0..MaxResults
    /\ marked \subseteq Groups \X Groups

\* The memo of the query: an expression in a group of its own, the root last.
Init ==
    LET n == Len(InitialMemo)
    IN  /\ gexpr = [x \in Exprs |-> IF x <= n THEN InitialMemo[x] ELSE Free]
        /\ pgroup = [x \in Exprs |-> IF x <= n THEN x ELSE NoGroup]
        /\ home = pgroup
        /\ table = 1..n
        /\ hash = [x \in Exprs |-> IF x <= n THEN <<InitialMemo[x].op, InitialMemo[x].kids>>
                                             ELSE <<>>]
        /\ listGExprs = [g \in Groups |-> IF g <= n THEN {g} ELSE {}]
        /\ duplicate = [g \in Groups |-> NoGroup]
        /\ scalars = {g \in 1..n : InitialMemo[g].op \in ScalarOps}
        /\ groups = n /\ root = n
        /\ phase = "explore" /\ stage = 1
        /\ unmerged = {} /\ dumped = {} /\ fNewDupGroups = FALSE
        /\ at = [w \in Workers |-> "idle"]
        /\ result = [w \in Workers |-> NoResult]
        /\ pos = [w \in Workers |-> 0]
        /\ kid = [w \in Workers |-> NoGroup]
        /\ origin = kid /\ container = kid
        /\ results = 0 /\ marked = {}

Goto(w, place) == at' = [at EXCEPT ![w] = place]

-----------------------------------------------------------------------------
(* Exploration: InsertXformResult of one tree                              *)

\* A transformation job applies an xform to a binding.
StartResult(w, r) ==
    /\ phase = "explore" /\ at[w] = "idle"
    /\ results < MaxResults
    /\ results' = results + 1
    /\ result' = [result EXCEPT ![w] = r]
    /\ pos' = [pos EXCEPT ![w] = 1]
    /\ origin' = [origin EXCEPT ![w] = Child(r.group)]
    /\ kid' = [kid EXCEPT ![w] = IF r.base = NoGroup THEN NoGroup ELSE Child(r.base)]
    /\ Goto(w, "lookup")
    /\ UNCHANGED <<exprVars, tableVars, groupVars, root, phase, stage, mergeVars, container, marked>>

\* The group expression for the operator the worker has come to.
Expression(w) ==
    [op |-> result[w].ops[pos[w]], kids |-> IF kid[w] = NoGroup THEN <<>> ELSE <<kid[w]>>]

IsTop(w) == pos[w] = Len(result[w].ops)

Done(w) ==
    /\ Goto(w, "idle")
    /\ result' = [result EXCEPT ![w] = NoResult]
    /\ pos' = [pos EXCEPT ![w] = 0]
    /\ kid' = [kid EXCEPT ![w] = NoGroup]
    /\ origin' = [origin EXCEPT ![w] = NoGroup]
    /\ container' = [container EXCEPT ![w] = NoGroup]

\* PgroupInsert returns group g: the next operator goes above it; after the last,
\* InsertXformResult compares it with the origin.
Returns(w, g) ==
    IF ~IsTop(w)
    THEN /\ pos' = [pos EXCEPT ![w] = @ + 1]
         /\ kid' = [kid EXCEPT ![w] = g]
         /\ Goto(w, "lookup")
         /\ UNCHANGED <<result, origin, container>>
    ELSE IF g = origin[w]
    THEN Done(w)
    ELSE /\ container' = [container EXCEPT ![w] = g]
         /\ Goto(w, "mark")
         /\ UNCHANGED <<result, pos, kid, origin>>

unchangedByLookup ==
    <<exprVars, tableVars, groupVars, root, phase, stage, mergeVars, results, marked>>

\* The first scope of PgroupInsert finds the expression ...
LookupFinds(w) ==
    /\ at[w] = "lookup"
    /\ \E x \in Matches(Expression(w)) : Returns(w, pgroup[x])
    /\ UNCHANGED unchangedByLookup

\* ... or not.
LookupMisses(w) ==
    /\ at[w] = "lookup"
    /\ Missed(Expression(w))
    /\ Goto(w, "insert")
    /\ UNCHANGED <<result, pos, kid, origin, container, unchangedByLookup>>

\* "we do a lookup since group expression may have been already inserted": the
\* second scope.  A new group made for the expression is released.
InsertFinds(w) ==
    /\ at[w] = "insert"
    /\ \E x \in Matches(Expression(w)) : Returns(w, pgroup[x])
    /\ UNCHANGED unchangedByLookup

NewExpr == CHOOSE x \in Exprs : gexpr[x] = Free
Room == \E x \in Exprs : gexpr[x] = Free

\* The expression goes to the table, and to the origin or a new group, which Add
\* gives an id; all under the spinlock of the bucket.
InsertNew(w, g) ==
    LET x == NewExpr
        c == Expression(w)
    IN  /\ gexpr' = [gexpr EXCEPT ![x] = c]
        /\ pgroup' = [pgroup EXCEPT ![x] = g]
        /\ home' = [home EXCEPT ![x] = g]
        /\ table' = table \union {x}
        /\ hash' = [hash EXCEPT ![x] = UlHash(c)]
        /\ listGExprs' = [listGExprs EXCEPT ![g] = @ \union {x}]
        /\ UNCHANGED <<duplicate, scalars, root, phase, stage, mergeVars, results, marked>>

\* Mutant of InsertInOrigin: no second lookup.
InsertInOrigin_Unasked(w) ==
    /\ at[w] = "insert" /\ IsTop(w) /\ Room
    /\ InsertNew(w, origin[w])
    /\ Returns(w, origin[w])
    /\ UNCHANGED groups

InsertInOrigin(w) ==
    /\ at[w] = "insert" /\ IsTop(w) /\ Room
    /\ Missed(Expression(w))
    /\ InsertNew(w, origin[w])
    /\ Returns(w, origin[w])
    /\ UNCHANGED groups

InsertInNewGroup(w) ==
    /\ at[w] = "insert" /\ ~IsTop(w) /\ Room /\ groups < MaxGroups
    /\ Missed(Expression(w))
    /\ InsertNew(w, groups + 1)
    /\ groups' = groups + 1
    /\ IF Expression(w).op \in ScalarOps
       THEN /\ container' = [container EXCEPT ![w] = groups + 1]
            /\ Goto(w, "materialize")
            /\ UNCHANGED <<result, pos, kid, origin>>
       ELSE Returns(w, groups + 1)

\* CreateScalarExpression, after the scope in which others find the group.
Materialize(w) ==
    /\ at[w] = "materialize"
    /\ scalars' = scalars \union {container[w]}
    /\ pos' = [pos EXCEPT ![w] = @ + 1]
    /\ kid' = [kid EXCEPT ![w] = container[w]]
    /\ container' = [container EXCEPT ![w] = NoGroup]
    /\ Goto(w, "lookup")
    /\ UNCHANGED <<exprVars, tableVars, listGExprs, duplicate, groups, root, phase, stage,
                   mergeVars, result, origin, results, marked>>

\* The result was in another group.
MarkDuplicates(w) ==
    /\ at[w] = "mark"
    /\ duplicate' = MarkedDuplicates(origin[w], container[w])
    /\ marked' = marked \union {<<origin[w], container[w]>>}
    /\ Done(w)
    /\ UNCHANGED <<exprVars, tableVars, listGExprs, scalars, groups, root, phase, stage,
                   mergeVars, results>>

\* FPossibleDuplicateGroups: their output columns differ.
NotDuplicates(w) ==
    /\ at[w] = "mark"
    /\ Done(w)
    /\ UNCHANGED unchangedByLookup

-----------------------------------------------------------------------------
(* GroupMerge, by the job of the root group                                *)

\* FinalizeExploration, when no job of the exploration is left.
StartMerge ==
    /\ phase = "explore"
    /\ \A w \in Workers : at[w] = "idle"
    /\ phase' = "merge"
    /\ unmerged' = Present
    /\ UNCHANGED <<exprVars, tableVars, groupVars, root, stage, dumped, fNewDupGroups,
                   workerVars, results, marked>>

\* CGroup::MergeGroup: the expressions of a duplicate move to its master.
MergeGroup(g) ==
    /\ phase = "merge" /\ g \in unmerged
    /\ unmerged' = unmerged \ {g}
    /\ IF duplicate[g] = NoGroup
       THEN UNCHANGED <<duplicate, listGExprs, pgroup>>
       ELSE LET target == Master(duplicate, g)
            IN  /\ duplicate' = [duplicate EXCEPT ![g] = target]
                /\ listGExprs' = [listGExprs EXCEPT ![g] = {}, ![target] = @ \union listGExprs[g]]
                /\ pgroup' = [x \in Exprs |-> IF x \in listGExprs[g] THEN target ELSE pgroup[x]]
    /\ UNCHANGED <<gexpr, home, tableVars, scalars, groups, root, phase, stage, dumped,
                   fNewDupGroups, workerVars, results, marked>>

\* Mutant of Dump: the root stays.
Dump_KeepsRoot ==
    /\ phase = "merge" /\ unmerged = {}
    /\ dumped' = table /\ table' = {}
    /\ fNewDupGroups' = FALSE
    /\ phase' = "rehash"
    /\ UNCHANGED <<exprVars, root, hash, groupVars, stage, unmerged, workerVars, results, marked>>

\* Mutant of Dump: a round that follows one with duplicates has duplicates.
Dump_NoReset ==
    /\ phase = "merge" /\ unmerged = {}
    /\ root' = IF duplicate[root] = NoGroup THEN root ELSE duplicate[root]
    /\ dumped' = table /\ table' = {}
    /\ phase' = "rehash"
    /\ UNCHANGED <<exprVars, hash, groupVars, fNewDupGroups, stage, unmerged, workerVars,
                   results, marked>>

\* "check if root has been merged"; FRehash empties the table.
Dump ==
    /\ phase = "merge" /\ unmerged = {}
    /\ root' = IF duplicate[root] = NoGroup THEN root ELSE duplicate[root]
    /\ dumped' = table /\ table' = {}
    /\ fNewDupGroups' = FALSE
    /\ phase' = "rehash"
    /\ UNCHANGED <<exprVars, hash, groupVars, stage, unmerged, workerVars, results, marked>>

\* FRehash: an expression that has no duplicate goes back to the table ...
Reinsert(x) ==
    /\ phase = "rehash" /\ x \in dumped
    /\ Missed(gexpr[x])
    /\ table' = table \union {x}
    /\ hash' = [hash EXCEPT ![x] = UlHash(gexpr[x])]
    /\ dumped' = dumped \ {x}
    /\ UNCHANGED <<exprVars, groupVars, root, phase, stage, unmerged, fNewDupGroups,
                   workerVars, results, marked>>

\* "check if we need also to mark duplicate groups"
NeedsMark(g, h) ==
    /\ g # h
    /\ \/ duplicate[g] = NoGroup /\ duplicate[h] = NoGroup
       \/ duplicate[g] # duplicate[h]

\* Mutant of DropDuplicate: groups that become duplicates start no new round.
DropDuplicate_OneRound(x, y) ==
    /\ phase = "rehash" /\ x \in dumped /\ y \in Matches(gexpr[x])
    /\ dumped' = dumped \ {x}
    /\ listGExprs' = [listGExprs EXCEPT ![pgroup[x]] = @ \ {x}]
    /\ IF NeedsMark(pgroup[x], pgroup[y])
       THEN duplicate' = MarkedDuplicates(pgroup[x], pgroup[y])
       ELSE UNCHANGED duplicate
    /\ UNCHANGED <<exprVars, tableVars, scalars, groups, root, phase, stage, unmerged,
                   fNewDupGroups, workerVars, results, marked>>

\* ... one that has moves to the duplicates of its group; the groups of the two
\* are duplicates too.
DropDuplicate(x, y) ==
    /\ phase = "rehash" /\ x \in dumped /\ y \in Matches(gexpr[x])
    /\ dumped' = dumped \ {x}
    /\ listGExprs' = [listGExprs EXCEPT ![pgroup[x]] = @ \ {x}]
    /\ IF NeedsMark(pgroup[x], pgroup[y])
       THEN /\ duplicate' = MarkedDuplicates(pgroup[x], pgroup[y])
            /\ fNewDupGroups' = TRUE
       ELSE UNCHANGED <<duplicate, fNewDupGroups>>
    /\ UNCHANGED <<exprVars, tableVars, scalars, groups, root, phase, stage, unmerged,
                   workerVars, results, marked>>

\* "keep merging groups until we have no new duplicates"
EndRound ==
    /\ phase = "rehash" /\ dumped = {}
    /\ phase' = IF fNewDupGroups THEN "merge" ELSE "merged"
    /\ unmerged' = IF fNewDupGroups THEN Present ELSE {}
    /\ UNCHANGED <<exprVars, tableVars, groupVars, root, stage, dumped, fNewDupGroups,
                   workerVars, results, marked>>

\* The rest of the stage leaves the groups as they are; the next one explores.
NextStage ==
    /\ phase = "merged" /\ stage < MaxStages
    /\ stage' = stage + 1
    /\ phase' = "explore"
    /\ UNCHANGED <<exprVars, tableVars, groupVars, root, mergeVars, workerVars, results, marked>>

-----------------------------------------------------------------------------
InsertStep(w) ==
    \/ LookupFinds(w) \/ LookupMisses(w) \/ InsertFinds(w) \/ InsertInOrigin(w)
    \/ InsertInNewGroup(w) \/ Materialize(w) \/ MarkDuplicates(w) \/ NotDuplicates(w)

MergeStep ==
    \/ \E g \in Groups : MergeGroup(g)
    \/ Dump \/ EndRound
    \/ \E x \in Exprs : Reinsert(x)
    \/ \E x, y \in Exprs : DropDuplicate(x, y)

Next ==
    \/ \E w \in Workers : InsertStep(w) \/ \E r \in Results : StartResult(w, r)
    \/ StartMerge \/ MergeStep \/ NextStage

Spec == Init /\ [][Next]_vars

\* The worker that merges keeps running.
FairSpec == Spec /\ WF_vars(MergeStep)

-----------------------------------------------------------------------------
(* Properties                                                              *)

\* The hash values in the table are those their expressions have now, whatever
\* groups were marked meanwhile: CGroup::UlHash leaves a group its own value
\* until it is empty, and the round of GroupMerge that empties one is followed by
\* a rehash that finds no new duplicates.  A lookup in a bucket that moved away
\* would miss what is there.
HashStable ==
    phase \in {"explore", "merged"} => \A x \in table : hash[x] = UlHash(gexpr[x])

\* PgroupInsert and FRehash keep one expression of an operator over the same
\* groups, though the two scopes of an insertion interleave with others', and
\* two groups may become one after expressions over both were inserted.
NoTwins ==
    phase \in {"explore", "merged"} =>
        \A x, y \in table : UlHash(gexpr[x]) = UlHash(gexpr[y]) => x = y

\* Two groups must be one if a transformation showed it, or if they hold the same
\* operator over groups that must be one: the least congruence, as the map from
\* a group to the one that stands for its class.
Congruent(r, g, h) ==
    \/ <<g, h>> \in marked
    \/ \E x, y \in Exprs :
          /\ gexpr[x] # Free /\ gexpr[y] # Free
          /\ home[x] = g /\ home[y] = h
          /\ gexpr[x].op = gexpr[y].op /\ Len(gexpr[x].kids) = Len(gexpr[y].kids)
          /\ \A i \in DOMAIN gexpr[x].kids : r[gexpr[x].kids[i]] = r[gexpr[y].kids[i]]

Closure[r \in [Groups -> Groups]] ==
    LET apart == {p \in Present \X Present : r[p[1]] # r[p[2]] /\ Congruent(r, p[1], p[2])}
    IN  IF apart = {} THEN r
        ELSE LET p == CHOOSE p \in apart : TRUE
             IN  Closure[[g \in Groups |-> IF r[g] = r[p[1]] THEN r[p[2]] ELSE r[g]]]

\* GroupMerge finds all duplicates and no others: after it, two groups stand for
\* the same live group just when they are congruent, in whatever order groups
\* were merged and expressions inserted again.
MergesExactly ==
    phase = "merged" =>
        LET class == Closure[[g \in Groups |-> g]]
        IN  \A g, h \in Present : Child(g) = Child(h) <=> class[g] = class[h]

\* No one is sent to a group that was emptied: operator[] follows one link, which
\* must lead to a group with expressions, and so must m_pgroupRoot.
ChildLive ==
    phase \in {"explore", "merged"} =>
        /\ listGExprs[root] # {}
        /\ \A x \in table : \A i \in DOMAIN gexpr[x].kids :
              listGExprs[Child(gexpr[x].kids[i])] # {}

\* The rounds of GroupMerge come to an end.
MergeEnds == phase = "merge" ~> phase = "merged"
=============================================================================
