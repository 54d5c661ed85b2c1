----------------------- MODULE GroupDuplicatesProofs ------------------------
(***************************************************************************)
(* Proofs about duplicate groups.  As long as calls do not overlap links   *)
(* ascend strictly, so there is no cycle and both loops of the code end.   *)
(* When they do, only the weaker order is left.                            *)
(***************************************************************************)
EXTENDS GroupDuplicates, TLAPS

Typed == TypeOK /\ NoNullDereference

\* The first groups are well typed.
LEMMA TypedInit == Init => Typed
<1>. SUFFICES ASSUME Init PROVE Typed
  OBVIOUS
<1>. DEFINE Rest == duplicate = [g \in Groups |-> NoGroup] /\ pc = [w \in Workers |-> "idle"]
                  /\ src = Nothing /\ dest = Nothing /\ fst = Nothing /\ snd = Nothing
                  /\ this = Nothing /\ target = Nothing /\ marks = 0 /\ merged = {}
<1>0. Rest /\ overlapped \in BOOLEAN
  BY Zenon DEF Init
<1>1. TypeOK
  BY <1>0, MaxMarksAssumption, GroupsAssumption DEF TypeOK, Labels, GroupOrNone, Nothing
<1>2. NoNullDereference
  BY DEF Init, NoNullDereference
<1>. QED
  BY <1>1, <1>2 DEF Typed

\* Each step keeps the types.
LEMMA TypedNext == Typed /\ [Next]_vars => Typed'
<1>. SUFFICES ASSUME Typed, [Next]_vars PROVE Typed'
  OBVIOUS
<1>. USE MaxMarksAssumption, GroupsAssumption
     DEF Typed, TypeOK, NoNullDereference, Labels, GroupOrNone, Goto, addVars, callVars,
         resolveVars, history
<1>1. ASSUME NEW w \in Workers, NEW a \in Groups, NEW b \in Groups, MarkDuplicates(w, a, b)
      PROVE Typed'
  BY <1>1 DEF MarkDuplicates, Orient
<1>2. ASSUME NEW w \in Workers, FindLink(w) PROVE Typed'
  BY <1>2 DEF FindLink, AddLinkDone
<1>3. ASSUME NEW w \in Workers, MissLink(w) PROVE Typed'
  BY <1>3 DEF MissLink
<1>4. ASSUME NEW w \in Workers, SwapSucceeds(w) PROVE Typed'
  BY <1>4 DEF SwapSucceeds, AddLinkDone
<1>5. ASSUME NEW w \in Workers, SwapFails(w) PROVE Typed'
  BY <1>5 DEF SwapFails
<1>6. ASSUME NEW w \in Workers, Advance(w) PROVE Typed'
  BY <1>6 DEF Advance, Orient
<1>7. ASSUME NEW w \in Workers, NotDuplicate(w) PROVE Typed'
  BY <1>7 DEF NotDuplicate, ResolveNext
<1>8. ASSUME NEW w \in Workers, StartWalk(w) PROVE Typed'
  BY <1>8 DEF StartWalk
<1>9. ASSUME NEW w \in Workers, Walk(w) PROVE Typed'
  BY <1>9 DEF Walk
<1>10. ASSUME NEW w \in Workers, WalkEnds(w) PROVE Typed'
  BY <1>10 DEF WalkEnds
<1>11. ASSUME NEW w \in Workers, WriteTarget(w) PROVE Typed'
  <2>1. /\ target[w] \in Groups
        /\ duplicate' = [duplicate EXCEPT ![this[w]] = target[w]]
        /\ \A g \in Groups : duplicate[g] # NoGroup => duplicate'[g] # NoGroup
    BY <1>11 DEF WriteTarget
  <2>2. TypeOK'
    BY <1>11, <2>1 DEF WriteTarget, ResolveNext
  <2>3. NoNullDereference'
    <3>. SUFFICES ASSUME NEW v \in Workers PROVE NoNullDereference!(v)'
      OBVIOUS
    <3>1. CASE v = w
      BY <1>11, <2>1, <3>1 DEF WriteTarget, ResolveNext
    <3>2. CASE v # w
      <4>1. /\ pc'[v] = pc[v] /\ src'[v] = src[v] /\ dest'[v] = dest[v]
            /\ fst'[v] = fst[v] /\ snd'[v] = snd[v]
            /\ this'[v] = this[v] /\ target'[v] = target[v]
        BY <1>11, <3>2 DEF WriteTarget, ResolveNext
      <4>. QED
        BY <2>1, <4>1
    <3>. QED
      BY <3>1, <3>2
  <2>. QED
    BY <2>2, <2>3
<1>12. CASE UNCHANGED vars
  BY <1>12 DEF vars
<1>. QED
  BY <1>1, <1>2, <1>3, <1>4, <1>5, <1>6, <1>7, <1>8, <1>9, <1>10, <1>11, <1>12
  DEF Next, Step

\* The state of MarkDuplicates keeps its types.
THEOREM DuplicatesTyping == Spec => []TypeOK
<1>1. Typed => TypeOK
  BY DEF Typed
<1>. QED
  BY <1>1, TypedInit, TypedNext, PTL DEF Spec

\* No loop of AddDuplicateGrp or ResolveDuplicateMaster follows a NULL link,
\* with any number of workers.
THEOREM LinksNotNull == Spec => []NoNullDereference
<1>1. Typed => NoNullDereference
  BY DEF Typed
<1>. QED
  BY <1>1, TypedInit, TypedNext, PTL DEF Spec

-----------------------------------------------------------------------------
\* The order that survives races: the link about to be installed, and the path
\* ResolveDuplicateMaster has walked, do not descend.
Ascending ==
    /\ NoDescendingLink
    /\ \A w \in Workers :
         /\ pc[w] \in {"test", "swap", "advance"} => src[w] <= dest[w]
         /\ pc[w] \in {"walk", "write"} => this[w] <= target[w]

\* Each step keeps links and walks going up.
LEMMA AscendingNext == Typed /\ Ascending /\ [Next]_vars => Ascending'
<1>. SUFFICES ASSUME Typed, Ascending, [Next]_vars PROVE Ascending'
  OBVIOUS
<1>. USE GroupsAssumption
     DEF Typed, TypeOK, NoNullDereference, Labels, GroupOrNone, Goto, addVars, callVars,
         resolveVars, history, Ascending, NoDescendingLink
<1>1. ASSUME NEW w \in Workers, NEW a \in Groups, NEW b \in Groups, MarkDuplicates(w, a, b)
      PROVE Ascending'
  BY <1>1 DEF MarkDuplicates, Orient
<1>2. ASSUME NEW w \in Workers, FindLink(w) PROVE Ascending'
  BY <1>2 DEF FindLink, AddLinkDone
<1>3. ASSUME NEW w \in Workers, MissLink(w) PROVE Ascending'
  BY <1>3 DEF MissLink
<1>4. ASSUME NEW w \in Workers, SwapSucceeds(w) PROVE Ascending'
  BY <1>4 DEF SwapSucceeds, AddLinkDone
<1>5. ASSUME NEW w \in Workers, SwapFails(w) PROVE Ascending'
  BY <1>5 DEF SwapFails
<1>6. ASSUME NEW w \in Workers, Advance(w) PROVE Ascending'
  <2>1. /\ duplicate[src[w]] \in Nat /\ dest[w] \in Nat
        /\ UNCHANGED <<duplicate, this, target>>
        /\ pc' = [pc EXCEPT ![w] = "test"]
    BY <1>6 DEF Advance
  <2>2. src'[w] <= dest'[w]
    BY <1>6, <2>1 DEF Advance, Orient
  <2>3. ASSUME NEW v \in Workers, v # w PROVE src'[v] = src[v] /\ dest'[v] = dest[v]
    BY <1>6, <2>3 DEF Advance, Orient
  <2>. QED
    BY <2>1, <2>2, <2>3
<1>7. ASSUME NEW w \in Workers, NotDuplicate(w) PROVE Ascending'
  BY <1>7 DEF NotDuplicate, ResolveNext
<1>8. ASSUME NEW w \in Workers, StartWalk(w) PROVE Ascending'
  BY <1>8 DEF StartWalk
<1>9. ASSUME NEW w \in Workers, Walk(w) PROVE Ascending'
  <2>1. /\ this[w] \in Nat /\ target[w] \in Groups /\ target[w] \in Nat
        /\ duplicate[target[w]] \in Nat
        /\ this[w] <= target[w] /\ target[w] <= duplicate[target[w]]
        /\ UNCHANGED <<duplicate, pc, src, dest, this>>
    BY <1>9 DEF Walk
  <2>2. target'[w] = duplicate[target[w]] /\ \A v \in Workers \ {w} : target'[v] = target[v]
    BY <1>9 DEF Walk
  <2>3. this'[w] <= target'[w]
    BY <2>1, <2>2
  <2>. QED
    BY <2>1, <2>2, <2>3
<1>10. ASSUME NEW w \in Workers, WalkEnds(w) PROVE Ascending'
  BY <1>10 DEF WalkEnds
<1>11. ASSUME NEW w \in Workers, WriteTarget(w) PROVE Ascending'
  BY <1>11 DEF WriteTarget, ResolveNext
<1>12. CASE UNCHANGED vars
  BY <1>12 DEF vars
<1>. QED
  BY <1>1, <1>2, <1>3, <1>4, <1>5, <1>6, <1>7, <1>8, <1>9, <1>10, <1>11, <1>12 DEF Next, Step

\* Whatever the workers do, no link leads from a larger id to a smaller one.
THEOREM LinksNeverDescend == Spec => []NoDescendingLink
<1>1. Init => Ascending
  BY DEF Init, Ascending, NoDescendingLink
<1>2. Ascending => NoDescendingLink
  BY DEF Ascending
<1>. QED
  BY <1>1, <1>2, TypedInit, TypedNext, AscendingNext, PTL DEF Spec

-----------------------------------------------------------------------------
\* As long as calls do not overlap, what a worker has read of src is still true
\* when it moves on, so src and dest never meet.  This last conjunct is the one
\* a second worker breaks.
StrictlyAscending ==
    /\ MonotoneLinks
    /\ \A w \in Workers :
         /\ pc[w] \in {"test", "swap", "advance"} => src[w] < dest[w]
         /\ pc[w] \in {"walk", "write"} => this[w] < target[w]
         /\ pc[w] \in {"swap", "advance"} => duplicate[src[w]] # dest[w]

OneBusy == \A v, w \in Workers : pc[v] # "idle" /\ pc[w] # "idle" => v = w

\* Only a call that begins beside another one makes two workers busy.
LEMMA OneBusyNext ==
  Typed /\ (~overlapped => OneBusy) /\ [Next]_vars => (~overlapped' => OneBusy')
<1>. SUFFICES ASSUME Typed, ~overlapped => OneBusy, [Next]_vars, ~overlapped'
              PROVE OneBusy'
  OBVIOUS
<1>. USE DEF OneBusy, Typed, TypeOK, Goto, history
<1>1. ASSUME NEW w \in Workers, NEW a \in Groups, NEW b \in Groups, MarkDuplicates(w, a, b)
      PROVE OneBusy'
  BY <1>1 DEF MarkDuplicates
<1>2. ASSUME NEW w \in Workers, Step(w) PROVE OneBusy'
  <2>1. pc[w] # "idle" /\ overlapped' = overlapped
        /\ \A v \in Workers : v # w => pc'[v] = pc[v]
    BY <1>2 DEF Step, FindLink, MissLink, SwapSucceeds, SwapFails, Advance, NotDuplicate,
                StartWalk, Walk, WalkEnds, WriteTarget, AddLinkDone, ResolveNext
  <2>. QED
    BY <2>1
<1>3. CASE UNCHANGED vars
  BY <1>3 DEF vars
<1>. QED
  BY <1>1, <1>2, <1>3 DEF Next

\* One call at a time never links a group to itself or back.
LEMMA StrictlyAscendingNext ==
  OneBusy /\ OneBusy' /\ Typed /\ StrictlyAscending /\ [Next]_vars => StrictlyAscending'
<1>. SUFFICES ASSUME OneBusy, OneBusy', Typed, StrictlyAscending, [Next]_vars
              PROVE StrictlyAscending'
  OBVIOUS
<1>. USE GroupsAssumption
     DEF OneBusy, Typed, TypeOK, NoNullDereference, Labels, GroupOrNone, Goto, addVars,
         callVars, resolveVars, history, StrictlyAscending, MonotoneLinks
<1>1. ASSUME NEW w \in Workers, NEW a \in Groups, NEW b \in Groups, MarkDuplicates(w, a, b)
      PROVE StrictlyAscending'
  BY <1>1 DEF MarkDuplicates, Orient
<1>2. ASSUME NEW w \in Workers, FindLink(w) PROVE StrictlyAscending'
  BY <1>2 DEF FindLink, AddLinkDone
<1>3. ASSUME NEW w \in Workers, MissLink(w) PROVE StrictlyAscending'
  BY <1>3 DEF MissLink
<1>4. ASSUME NEW w \in Workers, SwapSucceeds(w) PROVE StrictlyAscending'
  BY <1>4 DEF SwapSucceeds, AddLinkDone
<1>5. ASSUME NEW w \in Workers, SwapFails(w) PROVE StrictlyAscending'
  BY <1>5 DEF SwapFails
<1>6. ASSUME NEW w \in Workers, Advance(w) PROVE StrictlyAscending'
  <2>0. /\ pc[w] = "advance" /\ pc' = [pc EXCEPT ![w] = "test"]
        /\ UNCHANGED <<duplicate, this, target>>
    BY <1>6 DEF Advance
  <2>1. /\ duplicate[src[w]] \in Nat /\ dest[w] \in Nat
        /\ duplicate[src[w]] # dest[w]
    <3>1. src[w] \in Groups /\ dest[w] \in Groups /\ duplicate[src[w]] # NoGroup
      BY <2>0 DEF NoNullDereference
    <3>2. duplicate[src[w]] # dest[w]
      BY <2>0 DEF StrictlyAscending
    <3>3. duplicate \in [Groups -> Groups \union {NoGroup}]
      BY DEF TypeOK, GroupOrNone
    <3>. HIDE DEF Typed, TypeOK, StrictlyAscending, NoNullDereference, OneBusy
    <3>. QED
      BY <3>1, <3>2, <3>3
  <2>2. src'[w] < dest'[w]
    BY <1>6, <2>1 DEF Advance, Orient
  <2>3. ASSUME NEW v \in Workers, v # w PROVE src'[v] = src[v] /\ dest'[v] = dest[v]
    BY <1>6, <2>3 DEF Advance, Orient
  <2>. QED
    BY <2>0, <2>1, <2>2, <2>3
<1>7. ASSUME NEW w \in Workers, NotDuplicate(w) PROVE StrictlyAscending'
  BY <1>7 DEF NotDuplicate, ResolveNext
<1>8. ASSUME NEW w \in Workers, StartWalk(w) PROVE StrictlyAscending'
  BY <1>8 DEF StartWalk
<1>9. ASSUME NEW w \in Workers, Walk(w) PROVE StrictlyAscending'
  <2>0. /\ pc[w] = "walk" /\ duplicate[target[w]] # NoGroup
        /\ target' = [target EXCEPT ![w] = duplicate[target[w]]]
        /\ UNCHANGED <<duplicate, pc, src, dest, this>>
    BY <1>9 DEF Walk
  <2>1. /\ this[w] \in Nat /\ target[w] \in Groups /\ target[w] \in Nat
        /\ duplicate[target[w]] \in Nat
        /\ this[w] < target[w] /\ target[w] < duplicate[target[w]]
    <3>1. this[w] \in Groups /\ target[w] \in Groups
      BY <2>0 DEF NoNullDereference
    <3>2. this[w] < target[w] /\ target[w] < duplicate[target[w]]
      BY <2>0, <3>1 DEF StrictlyAscending, MonotoneLinks
    <3>3. duplicate \in [Groups -> Groups \union {NoGroup}]
      BY DEF TypeOK, GroupOrNone
    <3>. HIDE DEF Typed, TypeOK, StrictlyAscending, NoNullDereference, OneBusy
    <3>. QED
      BY <2>0, <3>1, <3>2, <3>3
  <2>2. target'[w] = duplicate[target[w]] /\ \A v \in Workers \ {w} : target'[v] = target[v]
    BY <2>0
  <2>3. this'[w] < target'[w]
    BY <2>0, <2>1, <2>2
  <2>. QED
    BY <2>0, <2>1, <2>2, <2>3
<1>10. ASSUME NEW w \in Workers, WalkEnds(w) PROVE StrictlyAscending'
  BY <1>10 DEF WalkEnds
<1>11. ASSUME NEW w \in Workers, WriteTarget(w) PROVE StrictlyAscending'
  BY <1>11 DEF WriteTarget, ResolveNext
<1>12. CASE UNCHANGED vars
  BY <1>12 DEF vars
<1>. QED
  BY <1>1, <1>2, <1>3, <1>4, <1>5, <1>6, <1>7, <1>8, <1>9, <1>10, <1>11, <1>12 DEF Next, Step

Apart == ~overlapped => OneBusy /\ StrictlyAscending

\* An overlap is never forgotten.
LEMMA ApartNext == Typed /\ Apart /\ [Next]_vars => Apart'
<1>. SUFFICES ASSUME Typed, Apart, [Next]_vars, ~overlapped'
              PROVE OneBusy' /\ StrictlyAscending'
  BY DEF Apart
<1>1. ~overlapped
  BY DEF Next, Step, MarkDuplicates, FindLink, MissLink, SwapSucceeds, SwapFails, Advance,
         NotDuplicate, StartWalk, Walk, WalkEnds, WriteTarget, ResolveNext, vars, history
<1>. QED
  BY <1>1, OneBusyNext, StrictlyAscendingNext DEF Apart

\* Calls that do not overlap, and so those of a single worker (the optimizer's
\* default, MainThreadOptimize), keep the monotonic ordering that
\* AddDuplicateGrp promises: links form no cycle.
THEOREM LinksAscendApart == Spec => []MonotoneApart
<1>1. Init => Apart
  BY DEF Init, Apart, OneBusy, StrictlyAscending, MonotoneLinks
<1>2. Apart => MonotoneApart
  BY DEF Apart, MonotoneApart, StrictlyAscending
<1>. QED
  BY <1>1, <1>2, ApartNext, TypedInit, TypedNext, PTL DEF Spec

-----------------------------------------------------------------------------
(* No union is lost.  That groups are connected by links is said by the sets *)
(* that links do not leave: a connected pair is inside or outside of each.   *)

\* The links of groups above g do not leave S.
ClosedAbove(S, g) ==
    \A h \in Groups : g < h /\ duplicate[h] # NoGroup => (h \in S <=> duplicate[h] \in S)

Busy(w) == pc[w] # "idle"
Linking(w) == pc[w] \in {"test", "swap", "advance"}

\* Whoever connects the ends of the link that a worker is about to set connects
\* the groups it was called for; once it is set, they are connected.
PairConnected(w) ==
    \A S \in SUBSET Groups : ClosedUnderLinks(S) =>
        /\ Linking(w) /\ (src[w] \in S <=> dest[w] \in S) => (fst[w] \in S <=> snd[w] \in S)
        /\ Busy(w) /\ ~Linking(w) => (fst[w] \in S <=> snd[w] \in S)

\* The target a worker has walked to is connected to the link it will overwrite
\* by links above that one; what other workers overwrite has the same property.
WalkConnected(w) ==
    pc[w] \in {"walk", "write"} =>
        \A S \in SUBSET Groups : ClosedAbove(S, this[w]) =>
            (duplicate[this[w]] \in S <=> target[w] \in S)

Connected == UnionKept /\ \A w \in Workers : PairConnected(w) /\ WalkConnected(w)

\* Adding a link, or none, and moving one worker.
LEMMA LinkAdded ==
  ASSUME Typed, Connected, NEW w \in Workers,
         \A g \in Groups : duplicate[g] # NoGroup => duplicate'[g] = duplicate[g],
         \A v \in Workers \ {w} : /\ pc'[v] = pc[v] /\ src'[v] = src[v] /\ dest'[v] = dest[v]
                                  /\ fst'[v] = fst[v] /\ snd'[v] = snd[v]
                                  /\ this'[v] = this[v] /\ target'[v] = target[v],
         PairConnected(w)', WalkConnected(w)',
         \A p \in merged' : p \in merged \/ \A S \in SUBSET Groups :
                              ClosedUnderLinks(S)' => (p[1] \in S <=> p[2] \in S)
  PROVE  Connected'
<1>1. ASSUME NEW S \in SUBSET Groups, ClosedUnderLinks(S)' PROVE ClosedUnderLinks(S)
  BY <1>1 DEF ClosedUnderLinks
<1>2. ASSUME NEW S \in SUBSET Groups, NEW g \in Groups, ClosedAbove(S, g)'
      PROVE  ClosedAbove(S, g)
  BY <1>2 DEF ClosedAbove
<1>3. UnionKept'
  BY <1>1 DEF Connected, UnionKept, ClosedUnder
<1>4. ASSUME NEW v \in Workers \ {w} PROVE PairConnected(v)'
  BY <1>1, <1>4 DEF Connected, PairConnected, Linking, Busy
<1>5. ASSUME NEW v \in Workers \ {w} PROVE WalkConnected(v)'
  <2>. SUFFICES ASSUME pc[v] \in {"walk", "write"}, NEW S \in SUBSET Groups,
                       ClosedAbove(S, this[v])'
                PROVE  duplicate'[this[v]] \in S <=> target[v] \in S
    BY <1>5 DEF WalkConnected, ClosedAbove
  <2>1. this[v] \in Groups /\ duplicate[this[v]] # NoGroup
    BY DEF Typed, NoNullDereference
  <2>. QED
    BY <1>2, <2>1 DEF Connected, WalkConnected
<1>. QED
  BY <1>3, <1>4, <1>5 DEF Connected

\* The locals of the other workers stay.
OthersStay(w) ==
    \A v \in Workers \ {w} : /\ pc'[v] = pc[v] /\ src'[v] = src[v] /\ dest'[v] = dest[v]
                             /\ fst'[v] = fst[v] /\ snd'[v] = snd[v]
                             /\ this'[v] = this[v] /\ target'[v] = target[v]

\* A step of one worker leaves the locals of the others alone.
LEMMA StepStays ==
  ASSUME Typed, NEW w \in Workers,
         Step(w) \/ \E a, b \in Groups : MarkDuplicates(w, a, b)
  PROVE  OthersStay(w)
<1>. USE DEF OthersStay, addVars, callVars, resolveVars, history, Goto, Typed, TypeOK
<1>1. ASSUME NEW a \in Groups, NEW b \in Groups, MarkDuplicates(w, a, b) PROVE OthersStay(w)
  BY <1>1 DEF MarkDuplicates, Orient
<1>2. CASE FindLink(w) \/ MissLink(w) \/ SwapSucceeds(w) \/ SwapFails(w) \/ Advance(w)
  BY <1>2 DEF FindLink, MissLink, SwapSucceeds, SwapFails, Advance, AddLinkDone, Orient
<1>3. CASE NotDuplicate(w)
  BY <1>3 DEF NotDuplicate, ResolveNext
<1>4. CASE WriteTarget(w)
  BY <1>4 DEF WriteTarget, ResolveNext
<1>5. CASE StartWalk(w) \/ Walk(w) \/ WalkEnds(w)
  BY <1>5 DEF StartWalk, Walk, WalkEnds
<1>. QED
  BY <1>1, <1>2, <1>3, <1>4, <1>5 DEF Step

\* MarkDuplicates returns, or goes on with the second group.
LEMMA NextConnected ==
  ASSUME Typed, Connected, NEW w \in Workers, pc[w] \in {"resolve", "write"}, ResolveNext(w)
  PROVE  /\ PairConnected(w)' <=>
              \A S \in SUBSET Groups : ClosedUnderLinks(S)' /\ this[w] = fst[w] =>
                                        (fst[w] \in S <=> snd[w] \in S)
         /\ WalkConnected(w)'
         /\ \A p \in merged' : p \in merged \/ p = <<fst[w], snd[w]>>
<1>. USE DEF Typed, TypeOK
<1>1. CASE this[w] = fst[w]
  <2>1. pc'[w] = "resolve" /\ UNCHANGED <<src, dest, fst, snd, merged>>
    BY <1>1 DEF ResolveNext, Goto, addVars, callVars, history
  <2>. QED
    BY <1>1, <2>1 DEF PairConnected, WalkConnected, Linking, Busy
<1>2. CASE this[w] # fst[w]
  <2>1. pc'[w] = "idle" /\ merged' = merged \union {<<fst[w], snd[w]>>}
    BY <1>2 DEF ResolveNext, Goto
  <2>. QED
    BY <1>2, <2>1 DEF PairConnected, WalkConnected, Linking, Busy
<1>. QED
  BY <1>1, <1>2

\* Overwriting the link of a group with the target found for it connects what
\* was connected before.
LEMMA TargetWritten ==
  ASSUME Typed, Connected, NEW w \in Workers, WriteTarget(w)
  PROVE  /\ \A S \in SUBSET Groups : ClosedUnderLinks(S)' => ClosedUnderLinks(S)
         /\ \A v \in Workers \ {w} : WalkConnected(v)'
<1>. DEFINE x == this[w]
            t == target[w]
<1>1. /\ pc[w] = "write" /\ x \in Groups /\ t \in Groups /\ duplicate[x] # NoGroup
      /\ duplicate' = [duplicate EXCEPT ![x] = t]
  BY DEF WriteTarget, Typed, NoNullDereference
<1>2. /\ duplicate'[x] = t /\ t # NoGroup
      /\ \A g \in Groups : g # x => duplicate'[g] = duplicate[g]
  BY <1>1, GroupsAssumption DEF Typed, TypeOK
<1>3. \A S \in SUBSET Groups : ClosedAbove(S, x) => (duplicate[x] \in S <=> t \in S)
  BY <1>1 DEF Connected, WalkConnected
<1>. HIDE DEF x, t
<1>4. ASSUME NEW S \in SUBSET Groups, ClosedUnderLinks(S)' PROVE ClosedUnderLinks(S)
  <2>1. ClosedAbove(S, x)
    BY <1>1, <1>2, <1>4, GroupsAssumption DEF ClosedAbove, ClosedUnderLinks
  <2>2. (x \in S <=> t \in S) /\ (duplicate[x] \in S <=> t \in S)
    BY <1>1, <1>2, <1>3, <1>4, <2>1 DEF ClosedUnderLinks
  <2>. QED
    BY <1>2, <1>4, <2>2 DEF ClosedUnderLinks
<1>5. ASSUME NEW v \in Workers \ {w} PROVE WalkConnected(v)'
  <2>1. pc'[v] = pc[v] /\ this'[v] = this[v] /\ target'[v] = target[v]
    BY <1>5, StepStays DEF OthersStay, Step
  <2>. SUFFICES ASSUME pc[v] \in {"walk", "write"}, NEW S \in SUBSET Groups,
                       ClosedAbove(S, this[v])'
                PROVE  duplicate'[this[v]] \in S <=> target[v] \in S
    BY <2>1 DEF WalkConnected, ClosedAbove
  <2>2. this[v] \in Groups
    BY DEF Typed, NoNullDereference
  <2>3. \A h \in Groups : this[v] < h /\ duplicate'[h] # NoGroup =>
                            (h \in S <=> duplicate'[h] \in S)
    BY <2>1 DEF ClosedAbove
  <2>4. ClosedAbove(S, this[v])
    <3>1. CASE this[v] < x
      <4>1. ClosedAbove(S, x)
        <5>. SUFFICES ASSUME NEW h \in Groups, x < h, duplicate[h] # NoGroup
                      PROVE  h \in S <=> duplicate[h] \in S
          BY DEF ClosedAbove
        <5>0. this[v] \in Nat /\ x \in Nat /\ h \in Nat
          BY <1>1, <2>2, GroupsAssumption
        <5>1. this[v] < h /\ h # x
          BY <3>1, <5>0
        <5>. QED
          BY <1>2, <2>3, <5>1
      <4>2. (x \in S <=> t \in S) /\ (duplicate[x] \in S <=> t \in S)
        BY <1>1, <1>2, <1>3, <2>3, <3>1, <4>1
      <4>. QED
        BY <1>2, <2>3, <4>2 DEF ClosedAbove
    <3>2. CASE ~(this[v] < x)
      BY <1>2, <2>3, <3>2 DEF ClosedAbove
    <3>. QED
      BY <3>1, <3>2
  <2>5. duplicate[this[v]] \in S <=> target[v] \in S
    BY <2>4 DEF Connected, WalkConnected
  <2>6. CASE this[v] = x
    <3>1. duplicate[x] \in S <=> t \in S
      BY <1>3, <2>4, <2>6
    <3>. QED
      BY <1>2, <2>5, <2>6, <3>1
  <2>7. CASE this[v] # x
    BY <1>2, <2>2, <2>5, <2>7
  <2>. QED
    BY <2>6, <2>7
<1>. QED
  BY <1>4, <1>5

\* Each step keeps the united groups connected.
LEMMA ConnectedNext == Typed /\ Ascending /\ Connected /\ [Next]_vars => Connected'
<1>. SUFFICES ASSUME Typed, Ascending, Connected, [Next]_vars PROVE Connected'
  OBVIOUS
<1>. DEFINE Added(w) ==
       /\ PairConnected(w)' /\ WalkConnected(w)'
       /\ \A g \in Groups : duplicate[g] # NoGroup => duplicate'[g] = duplicate[g]
       /\ \A p \in merged' : p \in merged \/ \A S \in SUBSET Groups :
                               ClosedUnderLinks(S)' => (p[1] \in S <=> p[2] \in S)
<1>0. ASSUME NEW w \in Workers, Step(w) \/ \E a, b \in Groups : MarkDuplicates(w, a, b), Added(w)
      PROVE  Connected'
  BY <1>0, StepStays, LinkAdded DEF OthersStay
<1>. USE GroupsAssumption
     DEF Goto, Linking, Busy, PairConnected, WalkConnected, addVars, callVars, resolveVars, history
<1>1. ASSUME NEW w \in Workers, NEW a \in Groups, NEW b \in Groups, MarkDuplicates(w, a, b)
      PROVE  Connected'
  <2>1. /\ pc'[w] = "test" /\ fst'[w] = a /\ snd'[w] = b /\ {src'[w], dest'[w]} = {a, b}
        /\ UNCHANGED <<duplicate, merged>>
    BY <1>1 DEF MarkDuplicates, Orient, Typed, TypeOK
  <2>. QED
    BY <1>0, <1>1, <2>1
<1>2. ASSUME NEW w \in Workers, FindLink(w) PROVE Connected'
  <2>1. /\ pc[w] = "test" /\ pc'[w] = "resolve" /\ duplicate[src[w]] = dest[w]
        /\ src[w] \in Groups /\ dest[w] \in Groups
        /\ UNCHANGED <<duplicate, merged, src, dest, fst, snd>>
    BY <1>2 DEF FindLink, AddLinkDone, Typed, TypeOK, NoNullDereference
  <2>3. ASSUME NEW S \in SUBSET Groups, ClosedUnderLinks(S)'
        PROVE  ClosedUnderLinks(S) /\ (src[w] \in S <=> dest[w] \in S)
    <3>1. ClosedUnderLinks(S)
      BY <2>1, <2>3 DEF ClosedUnderLinks
    <3>2. duplicate[src[w]] # NoGroup
      BY <2>1
    <3>. QED
      BY <2>1, <3>1, <3>2 DEF ClosedUnderLinks
  <2>2. PairConnected(w)'
    BY <2>1, <2>3 DEF Connected
  <2>. QED
    BY <1>0, <1>2, <2>1, <2>2 DEF Step
<1>3. ASSUME NEW w \in Workers, MissLink(w) \/ SwapFails(w) PROVE Connected'
  <2>1. /\ Linking(w) /\ pc'[w] \in {"swap", "advance"}
        /\ UNCHANGED <<duplicate, merged, src, dest, fst, snd>>
    BY <1>3 DEF MissLink, SwapFails, Typed, TypeOK
  <2>3. \A S \in SUBSET Groups : ClosedUnderLinks(S)' <=> ClosedUnderLinks(S)
    BY <2>1 DEF ClosedUnderLinks
  <2>2. PairConnected(w)'
    BY <2>1, <2>3 DEF Connected
  <2>. QED
    BY <1>0, <1>3, <2>1, <2>2 DEF Step
<1>4. ASSUME NEW w \in Workers, SwapSucceeds(w) PROVE Connected'
  <2>1. /\ pc[w] = "swap" /\ pc'[w] = "resolve" /\ duplicate[src[w]] = NoGroup
        /\ src[w] \in Groups /\ dest[w] \in Groups /\ duplicate'[src[w]] = dest[w]
        /\ UNCHANGED <<merged, src, dest, fst, snd>>
        /\ \A g \in Groups : duplicate[g] # NoGroup => duplicate'[g] = duplicate[g]
    BY <1>4 DEF SwapSucceeds, AddLinkDone, Typed, TypeOK, NoNullDereference
  <2>2. ASSUME NEW S \in SUBSET Groups, ClosedUnderLinks(S)' PROVE ClosedUnderLinks(S)
    BY <2>1, <2>2 DEF ClosedUnderLinks
  <2>3. PairConnected(w)'
    BY <2>1, <2>2 DEF Connected, ClosedUnderLinks
  <2>. QED
    BY <1>0, <1>4, <2>1, <2>3 DEF Step
<1>5. ASSUME NEW w \in Workers, Advance(w) PROVE Connected'
  <2>1. /\ pc[w] = "advance" /\ pc'[w] = "test"
        /\ src[w] \in Groups /\ duplicate[src[w]] # NoGroup
        /\ {src'[w], dest'[w]} = {duplicate[src[w]], dest[w]}
        /\ UNCHANGED <<duplicate, merged, fst, snd>>
    BY <1>5 DEF Advance, Orient, Typed, TypeOK, NoNullDereference
  <2>3. ASSUME NEW S \in SUBSET Groups, ClosedUnderLinks(S)'
        PROVE  ClosedUnderLinks(S) /\ (src[w] \in S <=> duplicate[src[w]] \in S)
    BY <2>1, <2>3 DEF ClosedUnderLinks
  <2>2. PairConnected(w)'
    BY <2>1, <2>3 DEF Connected
  <2>. QED
    BY <1>0, <1>5, <2>1, <2>2 DEF Step
<1>6. ASSUME NEW w \in Workers, NotDuplicate(w) PROVE Connected'
  <2>1. pc[w] = "resolve" /\ ResolveNext(w) /\ UNCHANGED duplicate
    BY <1>6 DEF NotDuplicate
  <2>2. \A S \in SUBSET Groups : ClosedUnderLinks(S)' => (fst[w] \in S <=> snd[w] \in S)
    BY <2>1 DEF Connected, ClosedUnderLinks
  <2>. HIDE DEF PairConnected, WalkConnected, Linking, Busy
  <2>3. /\ PairConnected(w)' /\ WalkConnected(w)'
        /\ \A p \in merged' : p \in merged \/ p = <<fst[w], snd[w]>>
    BY <2>1, <2>2, NextConnected
  <2>4. \A p \in merged' : p \in merged \/ \A S \in SUBSET Groups :
                              ClosedUnderLinks(S)' => (p[1] \in S <=> p[2] \in S)
    BY <2>2, <2>3
  <2>. QED
    BY <1>0, <1>6, <2>1, <2>3, <2>4 DEF Step
<1>7. ASSUME NEW w \in Workers, StartWalk(w) PROVE Connected'
  <2>1. /\ pc[w] = "resolve" /\ pc'[w] = "walk" /\ target'[w] = duplicate[this[w]]
        /\ UNCHANGED <<duplicate, merged, src, dest, fst, snd, this>>
    BY <1>7 DEF StartWalk, Typed, TypeOK
  <2>2. PairConnected(w)' /\ WalkConnected(w)'
    BY <2>1 DEF Connected, ClosedUnderLinks
  <2>. QED
    BY <1>0, <1>7, <2>1, <2>2 DEF Step
<1>8. ASSUME NEW w \in Workers, Walk(w) PROVE Connected'
  <2>1. /\ pc[w] = "walk" /\ target'[w] = duplicate[target[w]]
        /\ this[w] \in Groups /\ target[w] \in Groups /\ duplicate[target[w]] # NoGroup
        /\ this[w] <= target[w]
        /\ UNCHANGED <<duplicate, merged, pc, src, dest, fst, snd, this>>
    BY <1>8 DEF Walk, Typed, TypeOK, NoNullDereference, Ascending
  <2>2. PairConnected(w)'
    BY <2>1 DEF Connected, ClosedUnderLinks
  <2>3. WalkConnected(w)'
    <3>. SUFFICES ASSUME NEW S \in SUBSET Groups, ClosedAbove(S, this[w])'
                  PROVE  duplicate[this[w]] \in S <=> duplicate[target[w]] \in S
      BY <2>1
    <3>1. ClosedAbove(S, this[w])
      BY <2>1 DEF ClosedAbove
    <3>2. duplicate[this[w]] \in S <=> target[w] \in S
      BY <2>1, <3>1 DEF Connected
    <3>3. CASE this[w] = target[w]
      BY <3>3
    <3>4. CASE this[w] < target[w]
      BY <2>1, <3>1, <3>2, <3>4 DEF ClosedAbove
    <3>5. this[w] \in Nat /\ target[w] \in Nat /\ this[w] <= target[w]
      BY <2>1, GroupsAssumption
    <3>. QED
      BY <3>3, <3>4, <3>5
  <2>. QED
    BY <1>0, <1>8, <2>1, <2>2, <2>3 DEF Step
<1>9. ASSUME NEW w \in Workers, WalkEnds(w) PROVE Connected'
  <2>1. /\ pc[w] = "walk" /\ pc'[w] = "write"
        /\ UNCHANGED <<duplicate, merged, src, dest, fst, snd, this, target>>
    BY <1>9 DEF WalkEnds, Typed, TypeOK
  <2>2. PairConnected(w)' /\ WalkConnected(w)'
    BY <2>1 DEF Connected, ClosedUnderLinks, ClosedAbove
  <2>. QED
    BY <1>0, <1>9, <2>1, <2>2 DEF Step
<1>10. ASSUME NEW w \in Workers, WriteTarget(w) PROVE Connected'
  <2>. HIDE DEF WalkConnected
  <2>1. pc[w] = "write" /\ ResolveNext(w)
    BY <1>10 DEF WriteTarget
  <2>2. \A S \in SUBSET Groups : ClosedUnderLinks(S)' => ClosedUnderLinks(S)
    BY <1>10, TargetWritten
  <2>3. \A S \in SUBSET Groups : ClosedUnderLinks(S)' => (fst[w] \in S <=> snd[w] \in S)
    BY <2>1, <2>2 DEF Connected
  <2>4. PairConnected(w)' /\ WalkConnected(w)'
        /\ \A p \in merged' : p \in merged \/ p = <<fst[w], snd[w]>>
    <3>. HIDE DEF PairConnected
    <3>. QED
      BY <2>1, <2>3, NextConnected
  <2>5. UnionKept'
    <3>. SUFFICES ASSUME NEW S \in SUBSET Groups, ClosedUnderLinks(S)', NEW p \in merged'
                  PROVE  p[1] \in S <=> p[2] \in S
      BY DEF UnionKept, ClosedUnder
    <3>1. CASE p \in merged
      BY <2>2, <3>1 DEF Connected, UnionKept, ClosedUnder
    <3>2. CASE p = <<fst[w], snd[w]>>
      BY <2>3, <3>2
    <3>. QED
      BY <2>4, <3>1, <3>2
  <2>6. ASSUME NEW v \in Workers \ {w} PROVE PairConnected(v)' /\ WalkConnected(v)'
    <3>1. pc'[v] = pc[v] /\ src'[v] = src[v] /\ dest'[v] = dest[v] /\ fst'[v] = fst[v] /\ snd'[v] = snd[v]
      BY <1>10, <2>6, StepStays DEF OthersStay, Step
    <3>2. PairConnected(v)'
      BY <2>2, <3>1 DEF Connected
    <3>. QED
      BY <1>10, <2>6, <3>2, TargetWritten
  <2>. HIDE DEF PairConnected
  <2>. QED
    BY <2>4, <2>5, <2>6 DEF Connected
<1>11. CASE UNCHANGED vars
  BY <1>11 DEF vars, Connected, UnionKept, ClosedUnderLinks, ClosedAbove
<1>. QED
  BY <1>1, <1>2, <1>3, <1>4, <1>5, <1>6, <1>7, <1>8, <1>9, <1>10, <1>11 DEF Next, Step

\* No union is lost, with any number of workers and groups: two groups marked as
\* duplicates stay connected by links, though AddDuplicateGrp sets links with a
\* compare-and-swap while ResolveDuplicateMaster overwrites them with plain
\* stores.
THEOREM UnionsKept == Spec => []UnionKept
<1>. DEFINE Inv == Typed /\ Ascending /\ Connected
<1>1. Init => Inv
  <2>. SUFFICES ASSUME Init PROVE Inv
    OBVIOUS
  <2>1. merged = {} /\ \A w \in Workers : pc[w] = "idle"
    BY DEF Init
  <2>2. Ascending
    BY <2>1 DEF Init, Ascending, NoDescendingLink
  <2>3. Connected
    BY <2>1 DEF Connected, UnionKept, ClosedUnder, PairConnected, WalkConnected, Linking, Busy
  <2>. QED
    BY <2>2, <2>3, TypedInit
<1>2. Inv /\ [Next]_vars => Inv'
  BY TypedNext, AscendingNext, ConnectedNext
<1>3. Inv => UnionKept
  BY DEF Connected
<1>. QED
  BY <1>1, <1>2, <1>3, PTL DEF Spec
=============================================================================
