-------------------------- MODULE GroupDuplicates ---------------------------
(***************************************************************************)
(* Duplicate groups of the memo: CMemo::MarkDuplicates, which links two    *)
(* groups found to hold the same expressions (CGroup::AddDuplicateGrp) and *)
(* shortens the links of both to their master (ResolveDuplicateMaster).    *)
(* Transformation jobs call it from CEngine::InsertXformResult while other *)
(* workers do the same; there is no lock, only one compare-and-swap.       *)
(*                                                                         *)
(* A group is its id (CGroup::UlId), so the order of groups is that of     *)
(* numbers.  A step is one access to a m_pgroupDuplicate.                  *)
(***************************************************************************)
EXTENDS Naturals

CONSTANTS
    Workers,
    Groups,     \* ids of the groups of the memo
    NoGroup,
    MaxMarks    \* bound on the calls of MarkDuplicates

ASSUME GroupsAssumption == Groups \subseteq Nat /\ NoGroup \notin Nat
ASSUME MaxMarksAssumption == MaxMarks \in Nat

VARIABLES
    duplicate,  \* m_pgroupDuplicate of each group
    pc,
    src, dest,  \* pgroupSrc, pgroupDest
    fst, snd,   \* the arguments of MarkDuplicates
    this,       \* the group ResolveDuplicateMaster works on
    target,     \* pgroupTarget
    marks,      \* calls of MarkDuplicates so far
    merged,     \* history: the pairs of the calls that have returned
    overlapped  \* history: two calls have been in progress at a time

callVars == <<fst, snd>>
addVars == <<src, dest>>
resolveVars == <<this, target>>
history == <<marks, merged, overlapped>>
vars == <<duplicate, pc, addVars, callVars, resolveVars, history>>

Labels == {"idle", "test", "swap", "advance", "resolve", "walk", "write"}
GroupOrNone == Groups \union {NoGroup}

TypeOK ==
    /\ duplicate \in [Groups -> GroupOrNone]
    /\ pc \in [Workers -> Labels]
    /\ src \in [Workers -> GroupOrNone] /\ dest \in [Workers -> GroupOrNone]
    /\ fst \in [Workers -> GroupOrNone] /\ snd \in [Workers -> GroupOrNone]
    /\ this \in [Workers -> GroupOrNone] /\ target \in [Workers -> GroupOrNone]
    /\ marks \in 0..MaxMarks
    /\ merged \subseteq Groups \X Groups
    /\ overlapped \in BOOLEAN

Nothing == [w \in Workers |-> NoGroup]

Init ==
    /\ duplicate = [g \in Groups |-> NoGroup]
    /\ pc = [w \in Workers |-> "idle"]
    /\ src = Nothing /\ dest = Nothing
    /\ fst = Nothing /\ snd = Nothing
    /\ this = Nothing /\ target = Nothing
    /\ marks = 0 /\ merged = {} /\ overlapped = FALSE

Goto(w, label) == pc' = [pc EXCEPT ![w] = label]

\* The mutant of Orient keeps the groups as they come.
Orient_Unordered(w, a, b) ==
    /\ src' = [src EXCEPT ![w] = a]
    /\ dest' = [dest EXCEPT ![w] = b]

\* "Add link following monotonic ordering of group IDs": the smaller id links
\* to the larger one.
Orient(w, a, b) ==
    /\ src' = [src EXCEPT ![w] = IF a > b THEN b ELSE a]
    /\ dest' = [dest EXCEPT ![w] = IF a > b THEN a ELSE b]

-----------------------------------------------------------------------------
\* InsertXformResult found the expression of one group in another group.
MarkDuplicates(w, a, b) ==
    /\ pc[w] = "idle" /\ a # b
    /\ marks < MaxMarks
    /\ fst' = [fst EXCEPT ![w] = a]
    /\ snd' = [snd EXCEPT ![w] = b]
    /\ Orient(w, a, b)
    /\ marks' = marks + 1
    /\ overlapped' = (overlapped \/ \E v \in Workers : pc[v] # "idle")
    /\ Goto(w, "test")
    /\ UNCHANGED <<duplicate, resolveVars, merged>>

AddLinkDone(w) ==
    /\ this' = [this EXCEPT ![w] = fst[w]]
    /\ Goto(w, "resolve")

\* AddDuplicateGrp: the link is there already ...
FindLink(w) ==
    /\ pc[w] = "test" /\ duplicate[src[w]] = dest[w]
    /\ AddLinkDone(w)
    /\ UNCHANGED <<duplicate, addVars, callVars, target, history>>

MissLink(w) ==
    /\ pc[w] = "test" /\ duplicate[src[w]] # dest[w]
    /\ Goto(w, "swap")
    /\ UNCHANGED <<duplicate, addVars, callVars, resolveVars, history>>

\* The mutant of SwapSucceeds overwrites a link instead of comparing first.
SwapSucceeds_Always(w) ==
    /\ pc[w] = "swap"
    /\ duplicate' = [duplicate EXCEPT ![src[w]] = dest[w]]
    /\ AddLinkDone(w)
    /\ UNCHANGED <<addVars, callVars, target, history>>

\* ... or the compare-and-swap installs it in place of NULL ...
SwapSucceeds(w) ==
    /\ pc[w] = "swap" /\ duplicate[src[w]] = NoGroup
    /\ duplicate' = [duplicate EXCEPT ![src[w]] = dest[w]]
    /\ AddLinkDone(w)
    /\ UNCHANGED <<addVars, callVars, target, history>>

\* The mutant of SwapFails may fail on a free link, as a weak instruction does.
SwapFails_Spurious(w) ==
    /\ pc[w] = "swap"
    /\ Goto(w, "advance")
    /\ UNCHANGED <<duplicate, addVars, callVars, resolveVars, history>>

SwapFails(w) ==
    /\ pc[w] = "swap" /\ duplicate[src[w]] # NoGroup
    /\ Goto(w, "advance")
    /\ UNCHANGED <<duplicate, addVars, callVars, resolveVars, history>>

\* The mutant of Advance only tries again.
Advance_KeepsSource(w) ==
    /\ pc[w] = "advance"
    /\ Goto(w, "test")
    /\ UNCHANGED <<duplicate, addVars, callVars, resolveVars, history>>

\* ... or the loop goes on from the group that src links to.
Advance(w) ==
    /\ pc[w] = "advance"
    /\ Orient(w, duplicate[src[w]], dest[w])
    /\ Goto(w, "test")
    /\ UNCHANGED <<duplicate, callVars, resolveVars, history>>

\* ResolveDuplicateMaster of fst, then of snd, then MarkDuplicates returns.
ResolveNext(w) ==
    IF this[w] = fst[w]
    THEN /\ this' = [this EXCEPT ![w] = snd[w]]
         /\ target' = [target EXCEPT ![w] = NoGroup]
         /\ Goto(w, "resolve")
         /\ UNCHANGED <<addVars, callVars, history>>
    ELSE /\ merged' = merged \union {<<fst[w], snd[w]>>}
         /\ src' = [src EXCEPT ![w] = NoGroup]
         /\ dest' = [dest EXCEPT ![w] = NoGroup]
         /\ fst' = [fst EXCEPT ![w] = NoGroup]
         /\ snd' = [snd EXCEPT ![w] = NoGroup]
         /\ this' = [this EXCEPT ![w] = NoGroup]
         /\ target' = [target EXCEPT ![w] = NoGroup]
         /\ Goto(w, "idle")
         /\ UNCHANGED <<marks, overlapped>>

NotDuplicate(w) ==
    /\ pc[w] = "resolve" /\ duplicate[this[w]] = NoGroup
    /\ ResolveNext(w)
    /\ UNCHANGED duplicate

StartWalk(w) ==
    /\ pc[w] = "resolve" /\ duplicate[this[w]] # NoGroup
    /\ target' = [target EXCEPT ![w] = duplicate[this[w]]]
    /\ Goto(w, "walk")
    /\ UNCHANGED <<duplicate, addVars, callVars, this, history>>

Walk(w) ==
    /\ pc[w] = "walk" /\ duplicate[target[w]] # NoGroup
    /\ target' = [target EXCEPT ![w] = duplicate[target[w]]]
    /\ UNCHANGED <<duplicate, pc, addVars, callVars, this, history>>

WalkEnds(w) ==
    /\ pc[w] = "walk" /\ duplicate[target[w]] = NoGroup
    /\ Goto(w, "write")
    /\ UNCHANGED <<duplicate, addVars, callVars, resolveVars, history>>

\* A plain store, not a compare-and-swap.
WriteTarget(w) ==
    /\ pc[w] = "write"
    /\ duplicate' = [duplicate EXCEPT ![this[w]] = target[w]]
    /\ ResolveNext(w)

Step(w) ==
    \/ FindLink(w) \/ MissLink(w) \/ SwapSucceeds(w) \/ SwapFails(w) \/ Advance(w)
    \/ NotDuplicate(w) \/ StartWalk(w) \/ Walk(w) \/ WalkEnds(w) \/ WriteTarget(w)

Next == \E w \in Workers : Step(w) \/ \E a, b \in Groups : MarkDuplicates(w, a, b)

Spec == Init /\ [][Next]_vars

\* A worker that has called MarkDuplicates keeps running.
FairSpec == Spec /\ \A w \in Workers : WF_vars(Step(w))

-----------------------------------------------------------------------------
\* "Monotonic ordering of group IDs" (AddDuplicateGrp, and the assertion of
\* ResolveDuplicateMaster): a link leads to a larger id, so there is no cycle.
MonotoneLinks == \A g \in Groups : duplicate[g] # NoGroup => g < duplicate[g]

\* The same as long as no two calls have overlapped, as with the one worker of
\* MainThreadOptimize, or when calls of several workers do not meet.
MonotoneApart == ~overlapped => MonotoneLinks

\* The loops follow m_pgroupDuplicate without a test for NULL: a link that has
\* defeated the compare-and-swap, or was found set by ResolveDuplicateMaster,
\* is never seen empty again, and every group they visit is a real one.
NoNullDereference ==
    \A w \in Workers :
        /\ pc[w] \in {"test", "swap", "advance"} => src[w] \in Groups /\ dest[w] \in Groups
        /\ pc[w] # "idle" => fst[w] \in Groups /\ snd[w] \in Groups
        /\ pc[w] \in {"resolve", "walk", "write"} => this[w] \in Groups
        /\ pc[w] \in {"walk", "write"} => target[w] \in Groups /\ duplicate[this[w]] # NoGroup
        /\ pc[w] = "advance" => duplicate[src[w]] # NoGroup

\* What is left of the order when workers race: no link leads to a smaller id.
NoDescendingLink == \A g \in Groups : duplicate[g] # NoGroup => g <= duplicate[g]

ClosedUnderLinks(S) ==
    \A g \in Groups : duplicate[g] # NoGroup => (g \in S <=> duplicate[g] \in S)

ClosedUnder(S, pairs) == \A p \in pairs : p[1] \in S <=> p[2] \in S

\* No union is lost: two groups marked as duplicates stay connected by links,
\* whatever other workers link, overwrite and shorten meanwhile.
UnionKept == \A S \in SUBSET Groups : ClosedUnderLinks(S) => ClosedUnder(S, merged)

\* Every call of MarkDuplicates that meets no other returns: neither loop runs
\* for ever.
MarkReturns == \A w \in Workers : pc[w] # "idle" ~> pc[w] = "idle" \/ overlapped
=============================================================================
