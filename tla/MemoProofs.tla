----------------------------- MODULE MemoProofs ------------------------------
(***************************************************************************)
(* Proofs about the memo, for any number of workers, initial memo and      *)
(* results of transformations: stored hash values are those lookups use,   *)
(* no expression is in the table twice, no one is sent to an emptied       *)
(* group, and GroupMerge unites exactly the groups that have to be one.    *)
(*                                                                         *)
(* The library's induction theorems take an operator; these proofs use the *)
(* least element of a set instead.                                         *)
(***************************************************************************)
EXTENDS Memo, SequenceTheorems, FiniteSetTheorems, WellFoundedInduction, TLAPS

-----------------------------------------------------------------------------
(* Induction, and functions that are defined by recursion                  *)

\* A set of numbers has a least element.
LEMMA LeastElement ==
  ASSUME NEW S, S \subseteq Nat, S # {}
  PROVE  \E m \in S : \A k \in S : m <= k
<1>. DEFINE less == {p \in Nat \X Nat : p[1] < p[2]}
<1>1. IsWellFoundedOn(less, Nat)
  BY NatLessThanWellFounded DEF OpToRel
<1>2. \E m \in S : \A k \in S : <<k, m>> \notin less
  <2>. HIDE DEF less
  <2>. QED
    BY <1>1, WFMin, Zenon
<1>3. PICK m \in S : \A k \in S : <<k, m>> \notin less
  BY <1>2
<1>4. ASSUME NEW k \in S PROVE m <= k
  <2>1. m \in Nat /\ k \in Nat
    OBVIOUS
  <2>2. ~(k < m)
    BY <1>3, <2>1
  <2>. QED
    BY <2>1, <2>2
<1>. HIDE DEF less
<1>. QED
  BY <1>4

\* A set from every element of which one gets to another with a greater measure,
\* where measures are bounded, is empty.
LEMMA Climbing ==
  ASSUME NEW B, NEW N \in Nat, NEW m, \A p \in B : m[p] \in 0..N,
         \A p \in B : \E q \in B : m[q] > m[p]
  PROVE  B = {}
<1>. SUFFICES ASSUME B # {} PROVE FALSE
  OBVIOUS
<1>. DEFINE rest == {N - m[p] : p \in B}
<1>1. rest \subseteq Nat /\ rest # {}
  OBVIOUS
<1>2. PICK k \in rest : \A l \in rest : k <= l
  <2>. HIDE DEF rest
  <2>. QED
    BY <1>1, LeastElement
<1>3. PICK p \in B : k = N - m[p]
  BY <1>2
<1>4. PICK q \in B : m[q] > m[p]
  BY <1>3
<1>5. N - m[q] \in rest /\ N - m[q] < k
  BY <1>3, <1>4
<1>6. N - m[q] \in Nat /\ k \in Nat
  BY <1>1, <1>5
<1>7. k <= N - m[q]
  BY <1>2, <1>5
<1>. HIDE DEF rest
<1>. QED
  BY <1>5, <1>6, <1>7

\* f is defined by a recursion that ends at the arguments in stop.
Recursive(f, S, stop, base, step) ==
    f = [p \in S |-> IF p \in stop THEN base[p] ELSE f[step[p]]]

\* A recursion whose measure grows and is bounded defines a function.
LEMMA Recursion ==
  ASSUME NEW S, NEW stop, NEW base, NEW step, NEW m, NEW N \in Nat,
         \A p \in S : m[p] \in 0..N,
         \A p \in S \ stop : step[p] \in S /\ m[step[p]] > m[p]
  PROVE  \E f : Recursive(f, S, stop, base, step)
<1>. DEFINE Top(n) == {p \in S : N - m[p] <= n}
            Solves(f, n) == f = [p \in Top(n) |-> IF p \in stop THEN base[p] ELSE f[step[p]]]
            unsolved == {n \in Nat : \A f : ~Solves(f, n)}
<1>1. unsolved = {}
  <2>. SUFFICES ASSUME unsolved # {} PROVE FALSE
    OBVIOUS
  <2>1. PICK n \in unsolved : \A k \in unsolved : n <= k
    <3>1. unsolved \subseteq Nat
      OBVIOUS
    <3>. HIDE DEF unsolved
    <3>. QED
      BY <3>1, LeastElement
  <2>2. CASE n = 0
    <3>. DEFINE f == [p \in Top(0) |-> base[p]]
    <3>1. \A p \in Top(0) : p \in stop
      OBVIOUS
    <3>2. f = [p \in Top(0) |-> IF p \in stop THEN base[p] ELSE f[step[p]]]
      BY <3>1
    <3>. QED
      BY <2>1, <2>2, <3>2
  <2>3. CASE n > 0
    <3>1. n - 1 \in Nat /\ n - 1 \notin unsolved
      BY <2>1, <2>3
    <3>2. PICK g : Solves(g, n - 1)
      BY <3>1
    <3>. DEFINE f == [p \in Top(n) |-> IF p \in stop THEN base[p] ELSE g[step[p]]]
    <3>3. ASSUME NEW p \in Top(n), p \notin stop PROVE f[step[p]] = g[step[p]]
      <4>1. step[p] \in Top(n - 1) /\ step[p] \in Top(n)
        BY <2>1, <3>1, <3>3
      <4>2. g[step[p]] = IF step[p] \in stop THEN base[step[p]] ELSE g[step[step[p]]]
        BY <3>2, <4>1
      <4>3. f[step[p]] = IF step[p] \in stop THEN base[step[p]] ELSE g[step[step[p]]]
        BY <4>1
      <4>. QED
        BY <4>2, <4>3
    <3>4. Solves(f, n)
      BY <3>3
    <3>. QED
      BY <2>1, <3>4
  <2>. QED
    BY <2>1, <2>2, <2>3
<1>2. N \in Nat /\ Top(N) = S
  OBVIOUS
<1>3. \E f : Solves(f, N)
  <2>1. N \notin unsolved
    BY <1>1
  <2>. HIDE DEF Solves, Top
  <2>. QED
    BY <2>1
<1>4. ASSUME NEW f, Solves(f, N)
      PROVE  Recursive(f, S, stop, base, step)
  BY <1>2, <1>4 DEF Recursive
<1>. HIDE DEF Top, Solves, unsolved
<1>. QED
  BY <1>3, <1>4

-----------------------------------------------------------------------------
(* Links: where the loops of the code end                                  *)

Ascending(d) == \A g \in Groups : d[g] # NoGroup => d[g] > g

\* S is not connected with the rest.
Joined(d, S) == \A g \in Groups : d[g] # NoGroup => (g \in S <=> d[g] \in S)

\* The group a worker comes to when it follows one link more.
LEMMA MasterStep ==
  ASSUME NEW d \in Links, Ascending(d), NEW g \in Groups
  PROVE  Master(d, g) = IF d[g] = NoGroup THEN g ELSE Master(d, d[g])
<1>. DEFINE Eq(f) == f = [x \in Groups |-> IF d[x] = NoGroup THEN x ELSE f[d[x]]]
            from == CHOOSE f : Eq(f)
            last == {x \in Groups : d[x] = NoGroup}
            self == [x \in Groups |-> x]
<1>1. \E f : Recursive(f, Groups, last, self, d)
  <2>1. \A x \in Groups : self[x] \in 0..MaxGroups
    BY BoundsAssumption DEF Groups
  <2>2. \A x \in Groups \ last : d[x] \in Groups /\ self[d[x]] > self[x]
    BY DEF Links, GroupOrNone, Ascending
  <2>3. MaxGroups \in Nat
    BY BoundsAssumption
  <2>. HIDE DEF last, self
  <2>. QED
    BY <2>1, <2>2, <2>3, Recursion
<1>2. \E f : Eq(f)
  <2>1. ASSUME NEW f, Recursive(f, Groups, last, self, d) PROVE Eq(f)
    <3>1. [x \in Groups |-> IF x \in last THEN self[x] ELSE f[d[x]]]
          = [x \in Groups |-> IF d[x] = NoGroup THEN x ELSE f[d[x]]]
      OBVIOUS
    <3>. HIDE DEF last, self
    <3>. QED
      BY <2>1, <3>1 DEF Recursive
  <2>. HIDE DEF Eq
  <2>. QED
    BY <1>1, <2>1
<1>3. Eq(from)
  <2>. HIDE DEF Eq
  <2>. QED
    BY <1>2
<1>4. \A x \in Groups : Master(d, x) = from[x]
  BY DEF Master
<1>5. d[g] # NoGroup => d[g] \in Groups
  BY DEF Links, GroupOrNone
<1>6. from[g] = IF d[g] = NoGroup THEN g ELSE from[d[g]]
  <2>. HIDE DEF from
  <2>. QED
    BY <1>3
<1>. HIDE DEF from, Eq
<1>. QED
  BY <1>4, <1>5, <1>6

\* A property of all groups without a link, and of a group if the one it is linked
\* to has it, is one of all groups.
LEMMA LinkInduction ==
  ASSUME NEW d \in Links, Ascending(d), NEW P,
         \A g \in Groups : d[g] = NoGroup => g \in P,
         \A g \in Groups : d[g] # NoGroup /\ d[g] \in P => g \in P
  PROVE  Groups \subseteq P
<1>. DEFINE B == Groups \ P
            self == [x \in Groups |-> x]
<1>1. \A p \in B : self[p] \in 0..MaxGroups
  BY BoundsAssumption DEF Groups
<1>2. \A p \in B : \E q \in B : self[q] > self[p]
  <2>. SUFFICES ASSUME NEW p \in B PROVE d[p] \in B /\ self[d[p]] > self[p]
    OBVIOUS
  <2>1. d[p] # NoGroup /\ d[p] \in Groups /\ d[p] > p
    BY DEF Links, GroupOrNone, Ascending
  <2>. QED
    BY <2>1
<1>3. MaxGroups \in Nat
  BY BoundsAssumption
<1>4. B = {}
  <2>. HIDE DEF B, self
  <2>. QED
    BY <1>1, <1>2, <1>3, Climbing
<1>. QED
  BY <1>4

\* ResolveDuplicateMaster ends at a group without a link.
LEMMA MasterLast ==
  ASSUME NEW d \in Links, Ascending(d), NEW g \in Groups
  PROVE  /\ Master(d, g) \in Groups /\ d[Master(d, g)] = NoGroup /\ Master(d, g) >= g
         /\ d[g] # NoGroup => Master(d, g) > g
<1>. DEFINE P == {x \in Groups : /\ Master(d, x) \in Groups /\ d[Master(d, x)] = NoGroup
                                 /\ Master(d, x) >= x}
<1>1. \A x \in Groups : x \in Nat
  BY BoundsAssumption DEF Groups
<1>2. \A x \in Groups : d[x] = NoGroup => x \in P
  BY <1>1, MasterStep
<1>3. ASSUME NEW x \in Groups, d[x] # NoGroup
      PROVE  d[x] > x /\ d[x] \in Groups /\ Master(d, x) = Master(d, d[x])
  BY <1>3, MasterStep DEF Ascending, Links, GroupOrNone
<1>4. \A x \in Groups : d[x] # NoGroup /\ d[x] \in P => x \in P /\ Master(d, x) > x
  BY <1>1, <1>3
<1>5. Groups \subseteq P
  <2>. HIDE DEF P
  <2>. QED
    BY <1>2, <1>4, LinkInduction
<1>. QED
  BY <1>3, <1>4, <1>5

\* It stays among the groups connected by links, for which only links from it on
\* matter.
LEMMA MasterJoined ==
  ASSUME NEW d \in Links, Ascending(d), NEW g \in Groups, NEW S,
         \A k \in Groups : k >= g /\ d[k] # NoGroup => (k \in S <=> d[k] \in S)
  PROVE  g \in S <=> Master(d, g) \in S
<1>. DEFINE P == {x \in Groups : x >= g => (x \in S <=> Master(d, x) \in S)}
<1>1. \A x \in Groups : x \in Nat
  BY BoundsAssumption DEF Groups
<1>2. \A x \in Groups : d[x] = NoGroup => x \in P
  BY MasterStep
<1>3. ASSUME NEW x \in Groups, d[x] # NoGroup, d[x] \in P PROVE x \in P
  <2>1. d[x] > x /\ d[x] \in Groups /\ Master(d, x) = Master(d, d[x])
    BY <1>3, MasterStep DEF Ascending, Links, GroupOrNone
  <2>. QED
    BY <1>1, <1>3, <2>1
<1>4. Groups \subseteq P
  <2>. HIDE DEF P
  <2>. QED
    BY <1>2, <1>3, LinkInduction
<1>. QED
  BY <1>1, <1>4

\* The walk of AddDuplicateGrp takes the lower group of a pair.
Low(g, h) == IF g > h THEN h ELSE g
High(g, h) == IF g > h THEN g ELSE h

LinksHere(d, g, h) == d[Low(g, h)] \in {High(g, h), NoGroup}

\* One round of that walk.
LEMMA LinkEndStep ==
  ASSUME NEW d \in Links, Ascending(d), NEW g \in Groups, NEW h \in Groups
  PROVE  LinkEnd(d, g, h) = IF LinksHere(d, g, h) THEN <<Low(g, h), High(g, h)>>
                            ELSE LinkEnd(d, d[Low(g, h)], High(g, h))
<1>. DEFINE Pairs == Groups \X Groups
            Eq(f) == f = [p \in Groups \X Groups |->
                            LET src == IF p[1] > p[2] THEN p[2] ELSE p[1]
                                dest == IF p[1] > p[2] THEN p[1] ELSE p[2]
                            IN  IF d[src] \in {dest, NoGroup} THEN <<src, dest>> ELSE f[<<d[src], dest>>]]
            from == CHOOSE f : Eq(f)
            stop == {p \in Pairs : LinksHere(d, p[1], p[2])}
            base == [p \in Pairs |-> <<Low(p[1], p[2]), High(p[1], p[2])>>]
            step == [p \in Pairs |-> <<d[Low(p[1], p[2])], High(p[1], p[2])>>]
            sum == [p \in Pairs |-> p[1] + p[2]]
<1>0. MaxGroups \in Nat /\ \A x \in Groups : x \in Nat /\ x <= MaxGroups
  BY BoundsAssumption DEF Groups
<1>1. \E f : Recursive(f, Pairs, stop, base, step)
  <2>1. \A p \in Pairs : sum[p] \in 0..(MaxGroups + MaxGroups)
    BY <1>0
  <2>2. ASSUME NEW p \in Pairs \ stop PROVE step[p] \in Pairs /\ sum[step[p]] > sum[p]
    <3>1. /\ Low(p[1], p[2]) \in Groups /\ High(p[1], p[2]) \in Groups
          /\ Low(p[1], p[2]) + High(p[1], p[2]) = p[1] + p[2]
      BY <1>0 DEF Low, High
    <3>2. d[Low(p[1], p[2])] \in Groups /\ d[Low(p[1], p[2])] > Low(p[1], p[2])
      BY <3>1 DEF Links, GroupOrNone, Ascending, LinksHere
    <3>3. step[p] = <<d[Low(p[1], p[2])], High(p[1], p[2])>>
      OBVIOUS
    <3>4. sum[step[p]] = d[Low(p[1], p[2])] + High(p[1], p[2])
      BY <3>1, <3>2
    <3>. QED
      BY <1>0, <3>1, <3>2, <3>3, <3>4
  <2>3. MaxGroups + MaxGroups \in Nat
    BY <1>0
  <2>. HIDE DEF Pairs, stop, base, step, sum
  <2>. QED
    BY <2>1, <2>2, <2>3, Recursion
<1>2. \E f : Eq(f)
  <2>1. ASSUME NEW f, Recursive(f, Pairs, stop, base, step) PROVE Eq(f)
    <3>1. [p \in Pairs |-> IF p \in stop THEN base[p] ELSE f[step[p]]]
          = [p \in Pairs |->
               LET src == IF p[1] > p[2] THEN p[2] ELSE p[1]
                   dest == IF p[1] > p[2] THEN p[1] ELSE p[2]
               IN  IF d[src] \in {dest, NoGroup} THEN <<src, dest>> ELSE f[<<d[src], dest>>]]
      BY DEF LinksHere, Low, High
    <3>2. f = [p \in Pairs |-> IF p \in stop THEN base[p] ELSE f[step[p]]]
      <4>. HIDE DEF Pairs, stop, base, step
      <4>. QED
        BY <2>1 DEF Recursive
    <3>. HIDE DEF stop, base, step
    <3>. QED
      BY <3>1, <3>2
  <2>. HIDE DEF Eq, Pairs, stop, base, step
  <2>. QED
    BY <1>1, <2>1
<1>3. Eq(from)
  <2>. HIDE DEF Eq
  <2>. QED
    BY <1>2
<1>4. \A x, y \in Groups : LinkEnd(d, x, y) = from[<<x, y>>]
  BY DEF LinkEnd
<1>5. LinkEnd(d, g, h) = IF LinksHere(d, g, h) THEN <<Low(g, h), High(g, h)>>
                         ELSE from[<<d[Low(g, h)], High(g, h)>>]
  <2>1. ASSUME NEW p \in Groups \X Groups
        PROVE  from[p] = IF LinksHere(d, p[1], p[2]) THEN <<Low(p[1], p[2]), High(p[1], p[2])>>
                         ELSE from[<<d[Low(p[1], p[2])], High(p[1], p[2])>>]
    <3>. HIDE DEF from
    <3>. QED
      BY <1>3 DEF LinksHere, Low, High
  <2>2. <<g, h>> \in Groups \X Groups /\ <<g, h>>[1] = g /\ <<g, h>>[2] = h
    OBVIOUS
  <2>3. LinkEnd(d, g, h) = from[<<g, h>>]
    BY <1>4
  <2>. HIDE DEF from
  <2>. QED
    BY <2>1, <2>2, <2>3
<1>6. High(g, h) \in Groups /\ (~LinksHere(d, g, h) => d[Low(g, h)] \in Groups)
  BY DEF Links, GroupOrNone, LinksHere, Low, High
<1>. HIDE DEF from, Eq
<1>. QED
  BY <1>4, <1>5, <1>6

\* A property of the pairs where the walk ends, and of a pair if the next one has
\* it, is one of all pairs.
LEMMA WalkInduction ==
  ASSUME NEW d \in Links, Ascending(d), NEW P,
         \A g, h \in Groups : LinksHere(d, g, h) => <<g, h>> \in P,
         \A g, h \in Groups :
            ~LinksHere(d, g, h) /\ <<d[Low(g, h)], High(g, h)>> \in P => <<g, h>> \in P
  PROVE  \A g, h \in Groups : <<g, h>> \in P
<1>. DEFINE B == (Groups \X Groups) \ P
            sum == [p \in Groups \X Groups |-> p[1] + p[2]]
<1>0. MaxGroups \in Nat /\ \A x \in Groups : x \in Nat /\ x <= MaxGroups
  BY BoundsAssumption DEF Groups
<1>1. \A p \in B : sum[p] \in 0..(MaxGroups + MaxGroups)
  BY <1>0
<1>2. ASSUME NEW p \in B PROVE \E q \in B : sum[q] > sum[p]
  <2>1. PICK g \in Groups, h \in Groups : p = <<g, h>>
    OBVIOUS
  <2>2. ~LinksHere(d, g, h)
    BY <2>1
  <2>3. /\ Low(g, h) \in Groups /\ High(g, h) \in Groups
        /\ Low(g, h) + High(g, h) = g + h
    BY <1>0 DEF Low, High
  <2>4. d[Low(g, h)] \in Groups /\ d[Low(g, h)] > Low(g, h)
    BY <2>2, <2>3 DEF Links, GroupOrNone, Ascending, LinksHere
  <2>5. <<d[Low(g, h)], High(g, h)>> \in B
    BY <2>1, <2>2, <2>3, <2>4
  <2>6. sum[<<d[Low(g, h)], High(g, h)>>] = d[Low(g, h)] + High(g, h) /\ sum[p] = g + h
    BY <2>1, <2>3, <2>4
  <2>7. sum[<<d[Low(g, h)], High(g, h)>>] > sum[p]
    BY <1>0, <2>3, <2>4, <2>6
  <2>. QED
    BY <2>5, <2>7
<1>3. MaxGroups + MaxGroups \in Nat
  BY <1>0
<1>4. B = {}
  <2>. HIDE DEF B, sum
  <2>. QED
    BY <1>1, <1>2, <1>3, Climbing
<1>. QED
  BY <1>4

\* AddDuplicateGrp links a group that has no link, or this one, to a later one.
LEMMA LinkEndPlace ==
  ASSUME NEW d \in Links, Ascending(d), NEW g \in Groups, NEW h \in Groups, g # h
  PROVE  \E s, t \in Groups : LinkEnd(d, g, h) = <<s, t>> /\ s < t /\ d[s] \in {t, NoGroup}
<1>. DEFINE Ends(x, y) == \E s, t \in Groups :
                LinkEnd(d, x, y) = <<s, t>> /\ s < t /\ d[s] \in {t, NoGroup}
            P == {p \in Groups \X Groups : p[1] # p[2] => Ends(p[1], p[2])}
<1>0. \A x \in Groups : x \in Nat
  BY BoundsAssumption DEF Groups
<1>1. ASSUME NEW x \in Groups, NEW y \in Groups, LinksHere(d, x, y), x # y PROVE Ends(x, y)
  <2>1. /\ Low(x, y) \in Groups /\ High(x, y) \in Groups
        /\ Low(x, y) < High(x, y) /\ d[Low(x, y)] \in {High(x, y), NoGroup}
    BY <1>0, <1>1 DEF Low, High, LinksHere
  <2>. QED
    BY <1>1, <2>1, LinkEndStep
<1>2. ASSUME NEW x \in Groups, NEW y \in Groups, ~LinksHere(d, x, y),
             <<d[Low(x, y)], High(x, y)>> \in P
      PROVE  Ends(x, y)
  <2>1. d[Low(x, y)] # High(x, y)
    BY <1>2 DEF LinksHere
  <2>2. Ends(d[Low(x, y)], High(x, y))
    BY <1>2, <2>1
  <2>3. LinkEnd(d, x, y) = LinkEnd(d, d[Low(x, y)], High(x, y))
    BY <1>2, LinkEndStep
  <2>. QED
    BY <2>2, <2>3
<1>3. \A x, y \in Groups : <<x, y>> \in P
  <2>1. \A x, y \in Groups : LinksHere(d, x, y) => <<x, y>> \in P
    BY <1>1
  <2>2. \A x, y \in Groups :
           ~LinksHere(d, x, y) /\ <<d[Low(x, y)], High(x, y)>> \in P => <<x, y>> \in P
    BY <1>2
  <2>. HIDE DEF P
  <2>. QED
    BY <2>1, <2>2, WalkInduction
<1>4. <<g, h>> \in P
  BY <1>3
<1>. QED
  BY <1>4

\* It stays among the groups that links of this set lead to.
LEMMA LinkEndWithin ==
  ASSUME NEW d \in Links, Ascending(d), NEW G \in SUBSET Groups,
         \A k \in G : d[k] # NoGroup => d[k] \in G, NEW g \in G, NEW h \in G
  PROVE  LinkEnd(d, g, h) \in G \X G
<1>. DEFINE P == {p \in Groups \X Groups : p \in G \X G => LinkEnd(d, p[1], p[2]) \in G \X G}
<1>1. \A x, y \in Groups : LinksHere(d, x, y) => <<x, y>> \in P
  <2>. SUFFICES ASSUME NEW x \in Groups, NEW y \in Groups, LinksHere(d, x, y), x \in G, y \in G
                PROVE  LinkEnd(d, x, y) \in G \X G
    OBVIOUS
  <2>1. LinkEnd(d, x, y) = <<Low(x, y), High(x, y)>>
    BY LinkEndStep
  <2>. QED
    BY <2>1 DEF Low, High
<1>2. \A x, y \in Groups :
         ~LinksHere(d, x, y) /\ <<d[Low(x, y)], High(x, y)>> \in P => <<x, y>> \in P
  <2>. SUFFICES ASSUME NEW x \in Groups, NEW y \in Groups, ~LinksHere(d, x, y), x \in G, y \in G,
                       <<d[Low(x, y)], High(x, y)>> \in P
                PROVE  LinkEnd(d, x, y) \in G \X G
    OBVIOUS
  <2>1. LinkEnd(d, x, y) = LinkEnd(d, d[Low(x, y)], High(x, y))
    BY LinkEndStep
  <2>2. d[Low(x, y)] \in G /\ High(x, y) \in G
    BY DEF Low, High, LinksHere
  <2>. QED
    BY <2>1, <2>2
<1>3. \A x, y \in Groups : <<x, y>> \in P
  <2>. HIDE DEF P
  <2>. QED
    BY <1>1, <1>2, WalkInduction
<1>4. <<g, h>> \in P
  BY <1>3
<1>. QED
  BY <1>4

\* The two groups that are linked are connected just when the two given are.
LEMMA LinkEndJoined ==
  ASSUME NEW d \in Links, Ascending(d), NEW S, Joined(d, S), NEW g \in Groups, NEW h \in Groups
  PROVE  (LinkEnd(d, g, h)[1] \in S <=> LinkEnd(d, g, h)[2] \in S) <=> (g \in S <=> h \in S)
<1>. DEFINE Same(p) == p[1] \in S <=> p[2] \in S
            P == {p \in Groups \X Groups : Same(LinkEnd(d, p[1], p[2])) <=> Same(p)}
<1>1. \A x, y \in Groups : LinksHere(d, x, y) => <<x, y>> \in P
  <2>. SUFFICES ASSUME NEW x \in Groups, NEW y \in Groups, LinksHere(d, x, y)
                PROVE  Same(LinkEnd(d, x, y)) <=> Same(<<x, y>>)
    OBVIOUS
  <2>1. LinkEnd(d, x, y) = <<Low(x, y), High(x, y)>>
    BY LinkEndStep
  <2>. QED
    BY <2>1 DEF Low, High
<1>2. \A x, y \in Groups :
         ~LinksHere(d, x, y) /\ <<d[Low(x, y)], High(x, y)>> \in P => <<x, y>> \in P
  <2>. SUFFICES ASSUME NEW x \in Groups, NEW y \in Groups, ~LinksHere(d, x, y),
                       <<d[Low(x, y)], High(x, y)>> \in P
                PROVE  Same(LinkEnd(d, x, y)) <=> Same(<<x, y>>)
    OBVIOUS
  <2>1. LinkEnd(d, x, y) = LinkEnd(d, d[Low(x, y)], High(x, y))
    BY LinkEndStep
  <2>2. Same(LinkEnd(d, x, y)) <=> Same(<<d[Low(x, y)], High(x, y)>>)
    BY <2>1
  <2>3. d[Low(x, y)] # NoGroup /\ Low(x, y) \in Groups
    BY DEF Low, LinksHere
  <2>4. d[Low(x, y)] \in S <=> Low(x, y) \in S
    BY <2>3 DEF Joined
  <2>5. Same(<<d[Low(x, y)], High(x, y)>>) <=> (Low(x, y) \in S <=> High(x, y) \in S)
    BY <2>4
  <2>6. Same(<<x, y>>) <=> (Low(x, y) \in S <=> High(x, y) \in S)
    BY DEF Low, High
  <2>. QED
    BY <2>2, <2>5, <2>6
<1>3. \A x, y \in Groups : <<x, y>> \in P
  <2>. HIDE DEF P
  <2>. QED
    BY <1>1, <1>2, WalkInduction
<1>4. <<g, h>> \in P
  BY <1>3
<1>. QED
  BY <1>4

\* All links are between groups of G.
Within(d, G) == \A k \in Groups : d[k] # NoGroup => k \in G /\ d[k] \in G

\* ResolveDuplicateMaster moves a link along the chain and connects nothing new.
LEMMA Resolving ==
  ASSUME NEW d \in Links, Ascending(d), NEW g \in Groups
  PROVE  LET e == Resolve(d, g)
         IN  /\ e \in Links /\ Ascending(e)
             /\ \A k \in Groups : e[k] = NoGroup <=> d[k] = NoGroup
             /\ \A k \in Groups \ {g} : e[k] = d[k]
<1>1. CASE d[g] = NoGroup
  BY <1>1 DEF Resolve
<1>2. CASE d[g] # NoGroup
  <2>1. /\ Master(d, g) \in Groups /\ Master(d, g) > g
        /\ Resolve(d, g) = [d EXCEPT ![g] = Master(d, g)]
    BY <1>2, MasterLast DEF Resolve
  <2>2. Master(d, g) # NoGroup /\ g # NoGroup
    BY <2>1, NoGroupAssumption, BoundsAssumption DEF Groups
  <2>. HIDE DEF Resolve
  <2>. QED
    BY <1>2, <2>1, <2>2 DEF Links, GroupOrNone, Ascending
<1>. QED
  BY <1>1, <1>2

\* The sets it leaves connected.
LEMMA ResolvingJoined ==
  ASSUME NEW d \in Links, Ascending(d), NEW g \in Groups, NEW S
  PROVE  Joined(Resolve(d, g), S) <=> Joined(d, S)
<1>. DEFINE e == Resolve(d, g)
<1>1. CASE d[g] = NoGroup
  BY <1>1 DEF Resolve
<1>2. CASE d[g] # NoGroup
  <2>1. /\ e \in Links /\ \A k \in Groups : e[k] = NoGroup <=> d[k] = NoGroup
        /\ \A k \in Groups \ {g} : e[k] = d[k]
    BY Resolving
  <2>2. e[g] = Master(d, g) /\ d[g] \in Groups /\ d[g] > g /\ Master(d, g) = Master(d, d[g])
    BY <1>2, MasterStep DEF Resolve, Links, GroupOrNone, Ascending
  <2>3. ASSUME Joined(d, S) PROVE Joined(e, S)
    <3>1. g \in S <=> Master(d, g) \in S
      BY <2>3, MasterJoined DEF Joined
    <3>. HIDE DEF e
    <3>. QED
      BY <2>1, <2>2, <2>3, <3>1 DEF Joined
  <2>4. ASSUME Joined(e, S) PROVE Joined(d, S)
    <3>1. ASSUME NEW k \in Groups, k >= d[g], d[k] # NoGroup PROVE k \in S <=> d[k] \in S
      <4>1. k # g
        BY <2>2, <3>1, BoundsAssumption DEF Groups
      <4>. HIDE DEF e
      <4>. QED
        BY <2>1, <2>4, <3>1, <4>1 DEF Joined
    <3>2. d[g] \in S <=> Master(d, d[g]) \in S
      BY <2>2, <3>1, MasterJoined
    <3>3. g \in S <=> e[g] \in S
      <4>. HIDE DEF e
      <4>. QED
        BY <1>2, <2>1, <2>4 DEF Joined
    <3>. HIDE DEF e
    <3>. QED
      BY <2>1, <2>2, <2>4, <3>2, <3>3 DEF Joined
  <2>. QED
    BY <2>3, <2>4
<1>. QED
  BY <1>1, <1>2

\* It stays within the groups that have links or are linked to.
LEMMA ResolvingWithin ==
  ASSUME NEW d \in Links, Ascending(d), NEW g \in Groups, NEW G, Within(d, G)
  PROVE  Within(Resolve(d, g), G)
<1>1. CASE d[g] = NoGroup
  BY <1>1 DEF Resolve
<1>2. CASE d[g] # NoGroup
  <2>1. g \in G /\ Joined(d, G)
    BY <1>2 DEF Within, Joined
  <2>2. Master(d, g) \in G
    BY <2>1, MasterJoined DEF Joined
  <2>. QED
    BY <1>2, <2>1, <2>2, Resolving DEF Within, Resolve, Links
<1>. QED
  BY <1>1, <1>2

\* The groups that MarkDuplicates connects, the links it may set.
LEMMA Marking ==
  ASSUME duplicate \in Links, Ascending(duplicate), NEW g \in Groups, NEW h \in Groups, g # h
  PROVE  LET e == MarkedDuplicates(g, h)
         IN  /\ e \in Links /\ Ascending(e)
             /\ \A k \in Groups : duplicate[k] # NoGroup => e[k] # NoGroup
             /\ \A k \in Groups : e[k] # duplicate[k] => k \in {g, h} \/ duplicate[k] = NoGroup
<1>. DEFINE end == LinkEnd(duplicate, g, h)
            linked == [duplicate EXCEPT ![end[1]] = end[2]]
            once == Resolve(linked, g)
            e == Resolve(once, h)
<1>1. PICK s \in Groups, t \in Groups :
         end = <<s, t>> /\ s < t /\ duplicate[s] \in {t, NoGroup}
  BY LinkEndPlace
<1>2. linked = [duplicate EXCEPT ![s] = t] /\ t # NoGroup
  BY <1>1, NoGroupAssumption, BoundsAssumption DEF Groups
<1>3. /\ linked \in Links /\ Ascending(linked)
      /\ \A k \in Groups : duplicate[k] # NoGroup => linked[k] = duplicate[k]
  <2>. HIDE DEF linked
  <2>. QED
    BY <1>1, <1>2 DEF Links, GroupOrNone, Ascending
<1>4. /\ once \in Links /\ Ascending(once)
      /\ \A k \in Groups : once[k] = NoGroup <=> linked[k] = NoGroup
      /\ \A k \in Groups \ {g} : once[k] = linked[k]
  <2>. HIDE DEF linked
  <2>. QED
    BY <1>3, Resolving
<1>5. /\ e \in Links /\ Ascending(e)
      /\ \A k \in Groups : e[k] = NoGroup <=> once[k] = NoGroup
      /\ \A k \in Groups \ {h} : e[k] = once[k]
  <2>. HIDE DEF once
  <2>. QED
    BY <1>4, Resolving
<1>6. MarkedDuplicates(g, h) = e
  BY DEF MarkedDuplicates
<1>. HIDE DEF linked, once, e
<1>. QED
  BY <1>3, <1>4, <1>5, <1>6

\* It connects the two groups given and no others.
LEMMA MarkingJoined ==
  ASSUME duplicate \in Links, Ascending(duplicate), NEW g \in Groups, NEW h \in Groups, g # h,
         NEW S
  PROVE  Joined(MarkedDuplicates(g, h), S) <=> Joined(duplicate, S) /\ (g \in S <=> h \in S)
<1>. DEFINE end == LinkEnd(duplicate, g, h)
            linked == [duplicate EXCEPT ![end[1]] = end[2]]
            once == Resolve(linked, g)
            e == Resolve(once, h)
<1>1. PICK s \in Groups, t \in Groups :
         end = <<s, t>> /\ s < t /\ duplicate[s] \in {t, NoGroup}
  BY LinkEndPlace
<1>2. linked = [duplicate EXCEPT ![s] = t] /\ t # NoGroup
  BY <1>1, NoGroupAssumption, BoundsAssumption DEF Groups
<1>3. linked \in Links /\ Ascending(linked)
  <2>. HIDE DEF linked
  <2>. QED
    BY <1>1, <1>2 DEF Links, GroupOrNone, Ascending
<1>4. Joined(once, S) <=> Joined(linked, S)
  <2>. HIDE DEF linked
  <2>. QED
    BY <1>3, ResolvingJoined
<1>5. Joined(e, S) <=> Joined(once, S)
  <2>1. once \in Links /\ Ascending(once)
    <3>. HIDE DEF linked
    <3>. QED
      BY <1>3, Resolving
  <2>. HIDE DEF once
  <2>. QED
    BY <2>1, ResolvingJoined
<1>6. Joined(linked, S) <=> Joined(duplicate, S) /\ (s \in S <=> t \in S)
  <2>1. linked[s] = t /\ \A k \in Groups \ {s} : linked[k] = duplicate[k]
    BY <1>2 DEF Links
  <2>. HIDE DEF linked
  <2>. QED
    BY <1>1, <1>2, <2>1 DEF Joined
<1>7. Joined(duplicate, S) => ((s \in S <=> t \in S) <=> (g \in S <=> h \in S))
  <2>. SUFFICES ASSUME Joined(duplicate, S)
                PROVE  (s \in S <=> t \in S) <=> (g \in S <=> h \in S)
    OBVIOUS
  <2>1. (end[1] \in S <=> end[2] \in S) <=> (g \in S <=> h \in S)
    BY LinkEndJoined
  <2>. QED
    BY <1>1, <2>1
<1>8. MarkedDuplicates(g, h) = e
  BY DEF MarkedDuplicates
<1>. HIDE DEF linked, once, e
<1>. QED
  BY <1>4, <1>5, <1>6, <1>7, <1>8

\* It links groups of the memo only.
LEMMA MarkingWithin ==
  ASSUME duplicate \in Links, Ascending(duplicate), NEW g \in Groups, NEW h \in Groups, g # h,
         NEW G \in SUBSET Groups, Within(duplicate, G), g \in G, h \in G
  PROVE  Within(MarkedDuplicates(g, h), G)
<1>. DEFINE end == LinkEnd(duplicate, g, h)
            linked == [duplicate EXCEPT ![end[1]] = end[2]]
            once == Resolve(linked, g)
            e == Resolve(once, h)
<1>1. PICK s \in Groups, t \in Groups :
         end = <<s, t>> /\ s < t /\ duplicate[s] \in {t, NoGroup}
  BY LinkEndPlace
<1>2. s \in G /\ t \in G
  <2>1. end \in G \X G
    BY LinkEndWithin DEF Within
  <2>. QED
    BY <1>1, <2>1
<1>3. linked = [duplicate EXCEPT ![s] = t] /\ t # NoGroup
  BY <1>1, NoGroupAssumption, BoundsAssumption DEF Groups
<1>4. linked \in Links /\ Ascending(linked) /\ Within(linked, G)
  <2>. HIDE DEF linked
  <2>. QED
    BY <1>1, <1>2, <1>3 DEF Links, GroupOrNone, Ascending, Within
<1>5. once \in Links /\ Ascending(once) /\ Within(once, G)
  <2>. HIDE DEF linked
  <2>. QED
    BY <1>4, Resolving, ResolvingWithin
<1>6. Within(e, G)
  <2>. HIDE DEF once
  <2>. QED
    BY <1>5, ResolvingWithin
<1>7. MarkedDuplicates(g, h) = e
  BY DEF MarkedDuplicates
<1>. HIDE DEF linked, once, e
<1>. QED
  BY <1>6, <1>7

-----------------------------------------------------------------------------
(* The invariant                                                           *)

Used(x) == gexpr[x] # Free

Live(g) == g \in Present /\ listGExprs[g] # {}

\* An expression refers to groups of the memo.
ExprsOK ==
    \A x \in Exprs : Used(x) =>
      /\ home[x] \in Present /\ pgroup[x] \in Present
      /\ \A i \in DOMAIN gexpr[x].kids : gexpr[x].kids[i] \in Present

\* The lists of the groups hold the expressions of the table and those that wait
\* to be inserted again, each in its group.
ListsOK ==
    /\ hash = [x \in Exprs |-> hash[x]]
    /\ \A x \in table \union dumped : Used(x) /\ x \in listGExprs[pgroup[x]]
    /\ \A g \in Groups : \A x \in listGExprs[g] : pgroup[x] = g /\ x \in table \union dumped
    /\ table \intersect dumped = {}
    /\ phase # "rehash" => dumped = {}

LinksOK == Ascending(duplicate) /\ Within(duplicate, Present)

\* Among groups that are connected there is one with expressions: merging and
\* dropping never lose the last one.
Covered ==
    \A S \in SUBSET Present :
        S # {} /\ Joined(duplicate, S) => \E g \in S : listGExprs[g] # {}

\* The groups of G that have a link are merged, all at the end of their chain.
Flat(G) ==
    \A g \in G : duplicate[g] # NoGroup => listGExprs[g] = {} /\ duplicate[duplicate[g]] = NoGroup

\* The link of an emptied group leads to a live one.
Settled == \A g \in Present : listGExprs[g] = {} => duplicate[g] # NoGroup /\ Live(duplicate[g])

PhasesOK ==
    /\ root \in Present /\ Len(InitialMemo) <= groups
    /\ phase = "merge" => Flat(Present \ unmerged)
    /\ phase = "rehash" /\ ~fNewDupGroups => Flat(Present) /\ duplicate[root] = NoGroup
    /\ phase = "merged" => Flat(Present)
    /\ phase \in {"explore", "merged"} => Settled /\ Live(root)

\* The table of a round that has found no new duplicates so far is in order.
TableOK ==
    phase \in {"explore", "merged"} \/ (phase = "rehash" /\ ~fNewDupGroups) =>
      /\ \A x \in table : hash[x] = UlHash(gexpr[x])
      /\ \A x, y \in table : UlHash(gexpr[x]) = UlHash(gexpr[y]) => x = y

\* The groups a worker has in hand are live: lists do not shrink while jobs explore.
WorkersOK ==
    \A w \in Workers : at[w] # "idle" =>
      /\ phase = "explore"
      /\ result[w] \in Results /\ pos[w] \in 1..Len(result[w].ops)
      /\ Live(origin[w]) /\ (kid[w] # NoGroup => Live(kid[w]))
      /\ at[w] \in {"mark", "materialize"} => Live(container[w])
      /\ at[w] = "mark" => container[w] # origin[w]
      /\ at[w] = "materialize" => ~IsTop(w)

IInv ==
    TypeOK /\ ExprsOK /\ ListsOK /\ LinksOK /\ Covered /\ PhasesOK /\ TableOK /\ WorkersOK

-----------------------------------------------------------------------------
(* The query                                                               *)

\* What the bounds are.
LEMMA Numbers ==
  /\ MaxGroups \in Nat /\ MaxExprs \in Nat /\ MaxResults \in Nat /\ MaxStages \in Nat \ {0}
  /\ \A g \in Groups : g \in Nat /\ g # NoGroup
  BY BoundsAssumption, NoGroupAssumption DEF Groups

\* The expressions of the query.
LEMMA QueryTypes ==
  /\ Len(InitialMemo) \in 1..MaxGroups /\ Len(InitialMemo) <= MaxExprs
  /\ \A i \in 1..Len(InitialMemo) :
       /\ InitialMemo[i] \in Contents /\ InitialMemo[i] # Free
       /\ \A k \in DOMAIN InitialMemo[i].kids : InitialMemo[i].kids[k] \in 1..Len(InitialMemo)
       /\ InitialMemo[i].kids = [k \in DOMAIN InitialMemo[i].kids |-> InitialMemo[i].kids[k]]
<1>1. Len(InitialMemo) \in 1..MaxGroups /\ Len(InitialMemo) <= MaxExprs
  BY MemoAssumption
<1>2. ASSUME NEW i \in 1..Len(InitialMemo)
      PROVE  /\ InitialMemo[i] \in Contents /\ InitialMemo[i] # Free
             /\ \A k \in DOMAIN InitialMemo[i].kids : InitialMemo[i].kids[k] \in 1..Len(InitialMemo)
             /\ InitialMemo[i].kids = [k \in DOMAIN InitialMemo[i].kids |-> InitialMemo[i].kids[k]]
  <2>1. InitialMemo[i] \in [op : STRING, kids : {<<>>} \union {<<g>> : g \in 1..Len(InitialMemo)}]
    BY MemoAssumption, ElementOfSeq
  <2>2. 1..Len(InitialMemo) \subseteq Groups
    BY <1>1, Numbers DEF Groups
  <2>3. InitialMemo[i] \in Contents
    BY <2>1, <2>2 DEF Contents
  <2>4. InitialMemo[i] # Free
    BY <2>1 DEF Free
  <2>5. \/ InitialMemo[i].kids = <<>>
        \/ \E g \in 1..Len(InitialMemo) : InitialMemo[i].kids = <<g>>
    BY <2>1
  <2>6. \A k \in DOMAIN InitialMemo[i].kids : InitialMemo[i].kids[k] \in 1..Len(InitialMemo)
    BY <2>5
  <2>7. InitialMemo[i].kids = [k \in DOMAIN InitialMemo[i].kids |-> InitialMemo[i].kids[k]]
    BY <2>5
  <2>. QED
    BY <2>3, <2>4, <2>6, <2>7
<1>. QED
  BY <1>1, <1>2

\* At first the groups and expressions are those of the query.
LEMMA IInvInit == Init => IInv
<1>. SUFFICES ASSUME Init PROVE IInv
  OBVIOUS
<1>. DEFINE n == Len(InitialMemo)
<1>1. n \in 1..MaxGroups /\ n \in 1..MaxExprs /\ groups = n /\ Present = 1..n
  BY QueryTypes, Numbers DEF Init, Present
<1>2. /\ \A x \in 1..n : x \in Exprs /\ x \in Groups
      /\ \A x \in Exprs : x <= n => x \in 1..n
      /\ \A x \in Groups : x <= n => x \in 1..n
  BY <1>1, Numbers DEF Exprs, Groups
<1>3. \A x \in 1..n : gexpr[x] = InitialMemo[x] /\ pgroup[x] = x /\ home[x] = x /\ listGExprs[x] = {x}
  BY <1>1, <1>2 DEF Init
<1>4. \A x \in Exprs : Used(x) => x \in 1..n
  BY <1>1, <1>2 DEF Init, Used, Free
<1>5. TypeOK
  <2>1. /\ gexpr \in [Exprs -> Contents \union {Free}]
        /\ pgroup \in [Exprs -> GroupOrNone] /\ home \in [Exprs -> GroupOrNone]
    BY <1>1, <1>2, QueryTypes DEF Init, GroupOrNone
  <2>2. table \subseteq Exprs /\ dumped \subseteq Exprs /\ listGExprs \in [Groups -> SUBSET Exprs]
    BY <1>1, <1>2 DEF Init
  <2>3. duplicate \in Links /\ scalars \subseteq Groups /\ groups \in 1..MaxGroups /\ root \in Groups
    BY <1>1, <1>2 DEF Init, Links, GroupOrNone
  <2>4. /\ phase \in {"explore", "merge", "rehash", "merged"} /\ stage \in 1..MaxStages
        /\ unmerged \subseteq Groups /\ fNewDupGroups \in BOOLEAN /\ results \in 0..MaxResults
        /\ marked \subseteq Groups \X Groups
    <3>1. 1 \in 1..MaxStages /\ 0 \in 0..MaxResults
      BY Numbers
    <3>. QED
      BY <3>1 DEF Init
  <2>5. /\ at \in [Workers -> Stages] /\ result \in [Workers -> Results \union {NoResult}]
        /\ pos \in [Workers -> Nat] /\ kid \in [Workers -> GroupOrNone]
        /\ origin \in [Workers -> GroupOrNone] /\ container \in [Workers -> GroupOrNone]
    BY DEF Init, Stages, GroupOrNone
  <2>. QED
    BY <2>1, <2>2, <2>3, <2>4, <2>5 DEF TypeOK
<1>6. ExprsOK
  <2>1. ASSUME NEW x \in 1..n
        PROVE  /\ home[x] \in 1..n /\ pgroup[x] \in 1..n
               /\ \A i \in DOMAIN gexpr[x].kids : gexpr[x].kids[i] \in 1..n
    <3>1. gexpr[x] = InitialMemo[x] /\ pgroup[x] = x /\ home[x] = x
      BY <1>3
    <3>2. \A i \in DOMAIN InitialMemo[x].kids : InitialMemo[x].kids[i] \in 1..n
      BY QueryTypes
    <3>. QED
      BY <3>1, <3>2
  <2>. HIDE DEF n
  <2>. QED
    BY <1>1, <1>4, <2>1 DEF ExprsOK
<1>7. ListsOK
  <2>1. table = 1..n /\ dumped = {} /\ hash = [x \in Exprs |-> hash[x]]
    BY DEF Init
  <2>2. \A x \in 1..n : Used(x)
    BY <1>3, QueryTypes DEF Used
  <2>3. \A g \in Groups : listGExprs[g] = IF g <= n THEN {g} ELSE {}
    BY DEF Init
  <2>4. ASSUME NEW g \in Groups, NEW x \in listGExprs[g] PROVE pgroup[x] = g /\ x \in table \union dumped
    <3>1. g <= n /\ x = g
      BY <2>3, <2>4
    <3>. QED
      BY <1>2, <1>3, <2>1, <3>1
  <2>. HIDE DEF n
  <2>. QED
    BY <1>2, <1>3, <2>1, <2>2, <2>4 DEF ListsOK
<1>8. LinksOK
  BY DEF Init, LinksOK, Ascending, Within
<1>9. Covered
  BY <1>1, <1>3 DEF Covered
<1>10. PhasesOK
  <2>1. root \in Present /\ Live(root)
    <3>1. root = n /\ n \in 1..n
      BY <1>1 DEF Init
    <3>2. listGExprs[n] = {n}
      BY <1>3, <3>1
    <3>. QED
      BY <1>1, <3>1, <3>2 DEF Live
  <2>2. Settled
    BY <1>1, <1>3 DEF Settled
  <2>. QED
    BY <1>1, <2>1, <2>2 DEF PhasesOK, Init
<1>11. TableOK
  <2>1. ASSUME NEW x \in 1..n
        PROVE  /\ UlHash(gexpr[x]) = <<InitialMemo[x].op, InitialMemo[x].kids>>
               /\ hash[x] = <<InitialMemo[x].op, InitialMemo[x].kids>>
    <3>1. \A g \in Groups : HashId(g) = g
      BY DEF HashId, Init
    <3>2. \A k \in DOMAIN InitialMemo[x].kids : HashId(InitialMemo[x].kids[k]) = InitialMemo[x].kids[k]
      BY <1>1, <1>2, <3>1, QueryTypes
    <3>3. [k \in DOMAIN InitialMemo[x].kids |-> HashId(InitialMemo[x].kids[k])] = InitialMemo[x].kids
      BY <3>2, QueryTypes
    <3>4. UlHash(gexpr[x]) = <<InitialMemo[x].op, InitialMemo[x].kids>>
      BY <1>3, <3>3 DEF UlHash
    <3>5. hash[x] = <<InitialMemo[x].op, InitialMemo[x].kids>>
      BY <1>1, <1>2 DEF Init
    <3>. QED
      BY <3>4, <3>5
  <2>2. ASSUME NEW x \in 1..n, NEW y \in 1..n, UlHash(gexpr[x]) = UlHash(gexpr[y]) PROVE x = y
    <3>1. InitialMemo[x].op = InitialMemo[y].op /\ InitialMemo[x].kids = InitialMemo[y].kids
      BY <2>1, <2>2
    <3>2. ASSUME NEW c \in Contents, NEW d \in Contents, c.op = d.op, c.kids = d.kids PROVE c = d
      BY <3>2 DEF Contents
    <3>3. InitialMemo[x] \in Contents /\ InitialMemo[y] \in Contents
      BY QueryTypes
    <3>4. InitialMemo[x] = InitialMemo[y]
      BY <3>1, <3>2, <3>3
    <3>. QED
      BY <3>4, MemoAssumption
  <2>3. table = 1..n
    BY DEF Init
  <2>. QED
    BY <2>1, <2>2, <2>3 DEF TableOK
<1>12. WorkersOK
  BY DEF Init, WorkersOK
<1>. QED
  BY <1>5, <1>6, <1>7, <1>8, <1>9, <1>10, <1>11, <1>12 DEF IInv

-----------------------------------------------------------------------------
(* Steps that leave the groups and the table as they are                   *)

Core == ExprsOK /\ ListsOK /\ LinksOK /\ Covered /\ PhasesOK /\ TableOK

MemoTypes ==
    /\ gexpr \in [Exprs -> Contents \union {Free}]
    /\ pgroup \in [Exprs -> GroupOrNone] /\ home \in [Exprs -> GroupOrNone]
    /\ table \subseteq Exprs /\ dumped \subseteq Exprs
    /\ listGExprs \in [Groups -> SUBSET Exprs]
    /\ duplicate \in Links
    /\ scalars \subseteq Groups
    /\ groups \in 1..MaxGroups /\ root \in Groups
    /\ phase \in {"explore", "merge", "rehash", "merged"}
    /\ stage \in 1..MaxStages
    /\ unmerged \subseteq Groups /\ fNewDupGroups \in BOOLEAN
    /\ results \in 0..MaxResults
    /\ marked \subseteq Groups \X Groups

WorkerTypes ==
    /\ at \in [Workers -> Stages]
    /\ result \in [Workers -> Results \union {NoResult}]
    /\ pos \in [Workers -> Nat]
    /\ kid \in [Workers -> GroupOrNone] /\ origin \in [Workers -> GroupOrNone]
    /\ container \in [Workers -> GroupOrNone]

\* The invariant in three parts.
LEMMA Parts == IInv <=> MemoTypes /\ WorkerTypes /\ Core /\ WorkersOK
  BY DEF IInv, Core, TypeOK, MemoTypes, WorkerTypes

\* The same of the next state.
LEMMA PartsNext == MemoTypes' /\ WorkerTypes' /\ Core' /\ WorkersOK' => IInv'
  BY DEF IInv, Core, TypeOK, MemoTypes, WorkerTypes

\* Groups of the memo are groups.
LEMMA PresentGroups ==
  ASSUME MemoTypes
  PROVE  Present \subseteq Groups /\ \A g \in Present : Live(g) <=> listGExprs[g] # {}
  BY Numbers DEF MemoTypes, Present, Groups, Live

memoState == <<gexpr, pgroup, home, tableVars, listGExprs, duplicate, groups, root, phase,
               unmerged, dumped, fNewDupGroups>>

\* What the groups, the table and the round are is all that Core is about.
LEMMA CoreFrame ==
  ASSUME Core, UNCHANGED memoState
  PROVE  Core'
<1>. USE DEF memoState, tableVars, Present
<1>1. ExprsOK' /\ ListsOK' /\ LinksOK'
  BY DEF Core, ExprsOK, ListsOK, LinksOK, Used, Within, Ascending
<1>2. Covered'
  BY DEF Core, Covered, Joined
<1>3. PhasesOK'
  BY DEF Core, PhasesOK, Flat, Settled, Live
<1>4. TableOK'
  <2>1. \A x \in table : UlHash(gexpr[x])' = UlHash(gexpr[x])
    BY DEF UlHash, HashId
  <2>. QED
    BY <2>1 DEF Core, TableOK
<1>. QED
  BY <1>1, <1>2, <1>3, <1>4 DEF Core

\* A step of worker w that gives it these locals.
Sets(w, place, r, p, k, o, c) ==
    /\ at' = [at EXCEPT ![w] = place] /\ result' = [result EXCEPT ![w] = r]
    /\ pos' = [pos EXCEPT ![w] = p] /\ kid' = [kid EXCEPT ![w] = k]
    /\ origin' = [origin EXCEPT ![w] = o] /\ container' = [container EXCEPT ![w] = c]

\* What they have to be, for a worker that goes on.
LEMMA WorkerKeeps ==
  ASSUME WorkerTypes, WorkersOK, NEW w \in Workers,
         NEW place \in Stages, NEW r \in Results \union {NoResult}, NEW p \in Nat,
         NEW k \in GroupOrNone, NEW o \in GroupOrNone, NEW c \in GroupOrNone,
         Sets(w, place, r, p, k, o, c), phase' = phase,
         \A g \in Groups : Live(g) => Live(g)',
         place # "idle" =>
           /\ phase = "explore" /\ r \in Results /\ p \in 1..Len(r.ops)
           /\ Live(o)' /\ (k # NoGroup => Live(k)')
           /\ place \in {"mark", "materialize"} => Live(c)'
           /\ place = "mark" => c # o
           /\ place = "materialize" => p # Len(r.ops)
  PROVE  WorkerTypes' /\ WorkersOK'
<1>1. WorkerTypes'
  BY DEF WorkerTypes, Sets
<1>2. ASSUME NEW v \in Workers, at'[v] # "idle"
      PROVE  /\ phase' = "explore"
             /\ result'[v] \in Results /\ pos'[v] \in 1..Len(result'[v].ops)
             /\ Live(origin[v])' /\ (kid'[v] # NoGroup => Live(kid[v])')
             /\ at'[v] \in {"mark", "materialize"} => Live(container[v])'
             /\ at'[v] = "mark" => container'[v] # origin'[v]
             /\ at'[v] = "materialize" => ~IsTop(v)'
  <2>1. CASE v = w
    <3>1. /\ at'[v] = place /\ result'[v] = r /\ pos'[v] = p /\ kid'[v] = k /\ origin'[v] = o
          /\ container'[v] = c
      BY <2>1 DEF WorkerTypes, Sets
    <3>. QED
      BY <1>2, <3>1 DEF IsTop, Live
  <2>2. CASE v # w
    <3>1. /\ at'[v] = at[v] /\ result'[v] = result[v] /\ pos'[v] = pos[v] /\ kid'[v] = kid[v]
          /\ origin'[v] = origin[v] /\ container'[v] = container[v]
      BY <2>2 DEF WorkerTypes, Sets
    <3>2. /\ phase = "explore" /\ result[v] \in Results /\ pos[v] \in 1..Len(result[v].ops)
          /\ Live(origin[v]) /\ (kid[v] # NoGroup => Live(kid[v]))
          /\ at[v] \in {"mark", "materialize"} => Live(container[v])
          /\ at[v] = "mark" => container[v] # origin[v]
          /\ at[v] = "materialize" => ~IsTop(v)
      BY <1>2, <3>1 DEF WorkersOK
    <3>3. \A g \in GroupOrNone : g # NoGroup /\ Live(g) => Live(g)'
      BY DEF GroupOrNone
    <3>4. origin[v] # NoGroup /\ container[v] \in GroupOrNone /\ kid[v] \in GroupOrNone
          /\ origin[v] \in GroupOrNone /\ (at[v] \in {"mark", "materialize"} => container[v] # NoGroup)
      BY <3>2, NoGroupAssumption DEF WorkerTypes, Live, Present
    <3>5. Live(origin[v])' /\ (kid'[v] # NoGroup => Live(kid[v])')
          /\ (at'[v] \in {"mark", "materialize"} => Live(container[v])')
      BY <3>1, <3>2, <3>3, <3>4 DEF Live
    <3>. QED
      BY <3>1, <3>2, <3>5 DEF IsTop
  <2>. QED
    BY <2>1, <2>2
<1>. QED
  BY <1>1, <1>2 DEF WorkersOK

-----------------------------------------------------------------------------
(* Lookups                                                                 *)

\* The results of transformations.
LEMMA ResultTypes ==
  ASSUME NEW r \in Results
  PROVE  /\ r.group \in 1..Len(InitialMemo) /\ r.base \in 1..Len(InitialMemo) \union {NoGroup}
         /\ r.ops \in Seq(STRING) /\ Len(r.ops) \in Nat /\ Len(r.ops) >= 1
         /\ \A i \in 1..Len(r.ops) : r.ops[i] \in STRING
<1>1. /\ r.group \in 1..Len(InitialMemo) /\ r.base \in 1..Len(InitialMemo) \union {NoGroup}
      /\ r.ops \in Seq(STRING) /\ r.ops # <<>>
  BY ResultsAssumption
<1>2. Len(r.ops) \in Nat /\ Len(r.ops) # 0
  BY <1>1, LenProperties, EmptySeq
<1>3. \A i \in 1..Len(r.ops) : r.ops[i] \in STRING
  BY <1>1, ElementOfSeq
<1>. QED
  BY <1>1, <1>2, <1>3

\* Operator[] leads to a live group.
LEMMA ChildIsLive ==
  ASSUME MemoTypes, Settled, NEW g \in Present
  PROVE  Live(Child(g)) /\ Child(g) \in Groups
  BY PresentGroups DEF Settled, Child, Live

\* A worker that inserts is one of a stage that explores.
LEMMA Exploring ==
  ASSUME IInv, NEW w \in Workers, at[w] # "idle"
  PROVE  /\ MemoTypes /\ WorkerTypes /\ Core /\ WorkersOK
         /\ phase = "explore" /\ dumped = {} /\ Settled
         /\ result[w] \in Results /\ pos[w] \in 1..Len(result[w].ops)
         /\ Live(origin[w]) /\ origin[w] \in Groups
  BY Parts, PresentGroups DEF WorkersOK, Core, ListsOK, PhasesOK, Live

\* The expression it inserts.
LEMMA ExpressionType ==
  ASSUME IInv, NEW w \in Workers, at[w] # "idle"
  PROVE  /\ Expression(w) \in Contents /\ Expression(w) # Free
         /\ \A i \in DOMAIN Expression(w).kids : Expression(w).kids[i] \in Present
<1>1. /\ result[w] \in Results /\ pos[w] \in 1..Len(result[w].ops)
      /\ kid[w] # NoGroup => kid[w] \in Present /\ kid[w] \in Groups
  BY Exploring, PresentGroups DEF WorkersOK, Live
<1>. DEFINE o == result[w].ops[pos[w]]
            ks == IF kid[w] = NoGroup THEN <<>> ELSE <<kid[w]>>
<1>2. o \in STRING
  BY <1>1, ResultTypes
<1>3. ks \in {<<>>} \union {<<g>> : g \in Groups} /\ \A i \in DOMAIN ks : ks[i] \in Present
  BY <1>1
<1>4. Expression(w) = [op |-> o, kids |-> ks]
  BY DEF Expression
<1>. HIDE DEF o, ks
<1>. QED
  BY <1>2, <1>3, <1>4 DEF Contents, Free

\* PgroupInsert returns a live group.
LEMMA ReturnsKeeps ==
  ASSUME WorkerTypes, WorkersOK, NEW w \in Workers, at[w] \in {"lookup", "insert"},
         NEW g \in Groups, Live(g)', Returns(w, g), phase' = phase,
         \A k \in Groups : Live(k) => Live(k)', Present \subseteq Groups
  PROVE  WorkerTypes' /\ WorkersOK'
<1>1. PICK r, p, k, o, c : /\ r = result[w] /\ p = pos[w] /\ k = kid[w] /\ o = origin[w]
                           /\ c = container[w]
  OBVIOUS
<1>2. /\ phase = "explore" /\ r \in Results /\ p \in 1..Len(r.ops)
      /\ Live(o) /\ (k # NoGroup => Live(k))
  BY <1>1 DEF WorkersOK
<1>3. /\ Len(r.ops) \in Nat /\ p \in Nat /\ o \in Groups /\ c \in GroupOrNone /\ k \in GroupOrNone
      /\ g \in GroupOrNone /\ o \in GroupOrNone /\ NoGroup \in GroupOrNone
      /\ Live(o)' /\ (k # NoGroup => Live(k)')
  BY <1>1, <1>2, ResultTypes DEF WorkerTypes, GroupOrNone, Live
<1>4. CASE ~IsTop(w)
  <2>1. Sets(w, "lookup", r, p + 1, g, o, c)
    BY <1>1, <1>4 DEF Returns, Sets, Goto, WorkerTypes
  <2>2. p + 1 \in 1..Len(r.ops) /\ p + 1 \in Nat
    BY <1>1, <1>2, <1>3, <1>4 DEF IsTop
  <2>. QED
    BY <1>2, <1>3, <2>1, <2>2, WorkerKeeps DEF Stages
<1>5. CASE IsTop(w) /\ g = o
  <2>1. Sets(w, "idle", NoResult, 0, NoGroup, NoGroup, NoGroup)
    BY <1>1, <1>5 DEF Returns, Sets, Done, Goto
  <2>. QED
    BY <1>3, <2>1, WorkerKeeps DEF Stages
<1>6. CASE IsTop(w) /\ g # o
  <2>1. Sets(w, "mark", r, p, k, o, g)
    BY <1>1, <1>6 DEF Returns, Sets, Goto, WorkerTypes
  <2>. QED
    BY <1>2, <1>3, <1>6, <2>1, WorkerKeeps DEF Stages
<1>. QED
  BY <1>4, <1>5, <1>6

\* The steps of a worker that change nothing but its locals, or the scalars.
LEMMA LocalStep ==
  ASSUME IInv, NEW w \in Workers,
         \/ \E r \in Results : StartResult(w, r)
         \/ LookupFinds(w) \/ LookupMisses(w) \/ InsertFinds(w) \/ NotDuplicates(w) \/ Materialize(w)
  PROVE  IInv'
<1>0. MemoTypes /\ WorkerTypes /\ Core /\ WorkersOK /\ Present \subseteq Groups
  BY Parts, PresentGroups
<1>. USE DEF exprVars, tableVars, groupVars, mergeVars
<1>1. UNCHANGED memoState
  BY DEF StartResult, LookupFinds, LookupMisses, InsertFinds, NotDuplicates, Materialize,
     unchangedByLookup, memoState
<1>2. Core' /\ phase' = phase /\ \A g : Live(g) => Live(g)'
  BY <1>0, <1>1, CoreFrame DEF memoState, Live, Present
<1>3. MemoTypes'
  <2>1. scalars' \subseteq Groups
    <3>1. CASE Materialize(w)
      <4>1. container[w] \in Groups
        BY <1>0, <3>1 DEF Materialize, WorkersOK, Live
      <4>. QED
        BY <1>0, <3>1, <4>1 DEF Materialize, MemoTypes
    <3>. QED
      BY <1>0, <3>1 DEF MemoTypes, StartResult, LookupFinds, LookupMisses, InsertFinds,
                        NotDuplicates, unchangedByLookup
  <2>2. results' \in 0..MaxResults
    <3>1. CASE \E r \in Results : StartResult(w, r)
      BY <1>0, <3>1, Numbers DEF StartResult, MemoTypes
    <3>. QED
      BY <1>0, <3>1 DEF MemoTypes, LookupFinds, LookupMisses, InsertFinds,
                        NotDuplicates, Materialize, unchangedByLookup
  <2>3. UNCHANGED <<stage, marked>>
    BY DEF StartResult, LookupFinds, LookupMisses, InsertFinds, NotDuplicates, Materialize,
       unchangedByLookup
  <2>. QED
    BY <1>0, <1>1, <2>1, <2>2, <2>3 DEF MemoTypes, memoState
<1>4. ASSUME NEW r \in Results, StartResult(w, r) PROVE WorkerTypes' /\ WorkersOK'
  <2>1. phase = "explore" /\ Settled /\ r.group \in Present
        /\ (r.base # NoGroup => r.base \in Present)
    <3>1. phase = "explore" /\ Settled /\ Len(InitialMemo) <= groups
      BY <1>0, <1>4 DEF StartResult, Core, PhasesOK
    <3>2. Len(InitialMemo) \in Nat /\ groups \in Nat
      BY <1>0, QueryTypes, Numbers DEF MemoTypes
    <3>. QED
      BY <3>1, <3>2, ResultTypes DEF Present
  <2>2. PICK k, o, c : /\ o = Child(r.group) /\ c = container[w]
                       /\ k = IF r.base = NoGroup THEN NoGroup ELSE Child(r.base)
    OBVIOUS
  <2>3. Live(o) /\ o \in Groups /\ (k # NoGroup => Live(k)) /\ k \in GroupOrNone
    BY <1>0, <2>1, <2>2, ChildIsLive DEF GroupOrNone
  <2>4. Sets(w, "lookup", r, 1, k, o, c)
    BY <1>0, <1>4, <2>2 DEF StartResult, Sets, Goto, WorkerTypes
  <2>5. 1 \in 1..Len(r.ops) /\ c \in GroupOrNone /\ o \in GroupOrNone
    BY <1>0, <2>2, <2>3, ResultTypes DEF WorkerTypes, GroupOrNone
  <2>. QED
    BY <1>0, <1>2, <2>1, <2>3, <2>4, <2>5, WorkerKeeps DEF Stages
<1>5. ASSUME LookupFinds(w) \/ InsertFinds(w) PROVE WorkerTypes' /\ WorkersOK'
  <2>1. PICK x \in table : Returns(w, pgroup[x]) /\ at[w] \in {"lookup", "insert"}
    BY <1>5 DEF LookupFinds, InsertFinds, Matches
  <2>2. PICK g : g = pgroup[x]
    OBVIOUS
  <2>3. Live(g) /\ g \in Groups
    <3>1. x \in Exprs /\ Used(x) /\ x \in listGExprs[pgroup[x]]
      BY <1>0, <2>1 DEF Core, ListsOK, MemoTypes
    <3>. QED
      BY <1>0, <2>2, <3>1 DEF Core, ExprsOK, Live
  <2>4. Live(g)' /\ Returns(w, g)
    BY <1>2, <2>1, <2>2, <2>3
  <2>. QED
    BY <1>0, <1>2, <2>1, <2>3, <2>4, ReturnsKeeps
<1>6. ASSUME LookupMisses(w) \/ NotDuplicates(w) \/ Materialize(w)
      PROVE  WorkerTypes' /\ WorkersOK'
  <2>1. PICK r, p, k, o, c : /\ r = result[w] /\ p = pos[w] /\ k = kid[w] /\ o = origin[w]
                             /\ c = container[w]
    OBVIOUS
  <2>2. at[w] # "idle"
    BY <1>6 DEF LookupMisses, NotDuplicates, Materialize
  <2>3. /\ phase = "explore" /\ r \in Results /\ p \in 1..Len(r.ops) /\ p \in Nat
        /\ Live(o) /\ (k # NoGroup => Live(k)) /\ Len(r.ops) \in Nat
        /\ k \in GroupOrNone /\ o \in GroupOrNone /\ c \in GroupOrNone
        /\ NoGroup \in GroupOrNone
    <3>1. /\ phase = "explore" /\ r \in Results /\ p \in 1..Len(r.ops)
          /\ Live(o) /\ (k # NoGroup => Live(k))
      BY <1>0, <2>1, <2>2 DEF WorkersOK
    <3>2. k \in GroupOrNone /\ o \in GroupOrNone /\ c \in GroupOrNone /\ p \in Nat
      BY <1>0, <2>1 DEF WorkerTypes
    <3>. QED
      BY <3>1, <3>2, ResultTypes DEF GroupOrNone
  <2>9. Live(o)' /\ (k # NoGroup => Live(k)')
    BY <1>2, <2>3 DEF GroupOrNone, Live
  <2>4. CASE LookupMisses(w)
    <3>1. Sets(w, "insert", r, p, k, o, c)
      BY <1>0, <2>1, <2>4 DEF LookupMisses, Sets, Goto, WorkerTypes
    <3>. QED
      BY <1>0, <1>2, <2>3, <2>9, <3>1, WorkerKeeps DEF Stages
  <2>5. CASE NotDuplicates(w)
    <3>1. Sets(w, "idle", NoResult, 0, NoGroup, NoGroup, NoGroup)
      BY <2>5 DEF NotDuplicates, Sets, Done, Goto
    <3>. QED
      BY <1>0, <1>2, <2>3, <2>9, <3>1, WorkerKeeps DEF Stages
  <2>6. CASE Materialize(w)
    <3>1. Live(c) /\ p # Len(r.ops)
      BY <1>0, <2>1, <2>6 DEF Materialize, WorkersOK, IsTop
    <3>2. Sets(w, "lookup", r, p + 1, c, o, NoGroup)
      BY <1>0, <2>1, <2>6 DEF Materialize, Sets, Goto, WorkerTypes
    <3>3. p + 1 \in 1..Len(r.ops) /\ p + 1 \in Nat
      BY <2>3, <3>1
    <3>. QED
      BY <1>0, <1>2, <2>3, <2>9, <3>1, <3>2, <3>3, WorkerKeeps DEF Stages
  <2>. QED
    BY <1>6, <2>4, <2>5, <2>6
<1>7. WorkerTypes' /\ WorkersOK'
  BY <1>4, <1>5, <1>6
<1>. QED
  BY <1>2, <1>3, <1>7, PartsNext

-----------------------------------------------------------------------------
(* Insertion                                                               *)

\* Groups have the hash value of one they are a duplicate of.
LEMMA HashIdsAgree ==
  ASSUME NEW g, NEW h, HashId(g) = HashId(h)
  PROVE  FDuplicateGroups(g, h)
  BY DEF HashId, FDuplicateGroups

\* Expressions with one hash value match: the hash table never keeps apart in one
\* bucket what a lookup would not take for the same.
LEMMA HashesAgree ==
  ASSUME NEW c \in Contents, NEW d \in Contents, UlHash(c) = UlHash(d)
  PROVE  FMatch(c, d)
<1>1. /\ c.op = d.op
      /\ [i \in DOMAIN c.kids |-> HashId(c.kids[i])] = [i \in DOMAIN d.kids |-> HashId(d.kids[i])]
  BY DEF UlHash
<1>2. DOMAIN c.kids = DOMAIN d.kids
  BY <1>1
<1>3. \A i \in DOMAIN c.kids : HashId(c.kids[i]) = HashId(d.kids[i])
  BY <1>1, <1>2
<1>4. ASSUME NEW e \in Contents PROVE e.kids \in Seq(Groups)
  <2>1. CASE e.kids = <<>>
    BY <2>1, EmptySeq
  <2>2. CASE e.kids # <<>>
    <3>1. PICK g \in Groups : e.kids = <<g>>
      BY <2>2 DEF Contents
    <3>2. <<g>> \in Seq(Groups)
      OBVIOUS
    <3>. QED
      BY <3>1, <3>2
  <2>. QED
    BY <2>1, <2>2
<1>5. Len(c.kids) = Len(d.kids)
  BY <1>2, <1>4, LenProperties
<1>. QED
  BY <1>1, <1>3, <1>5, HashIdsAgree DEF FMatch

\* So an expression that no lookup finds has a hash value of its own.
LEMMA MissedIsNew ==
  ASSUME MemoTypes, ListsOK, \A x \in table : hash[x] = UlHash(gexpr[x]),
         NEW c \in Contents, Missed(c), NEW x \in table
  PROVE  UlHash(gexpr[x]) # UlHash(c)
<1>. SUFFICES ASSUME UlHash(gexpr[x]) = UlHash(c) PROVE FALSE
  OBVIOUS
<1>1. gexpr[x] \in Contents
  BY DEF MemoTypes, ListsOK, Used
<1>2. FMatch(gexpr[x], c)
  BY <1>1, HashesAgree
<1>. QED
  BY <1>2 DEF Missed, Matches

\* A new expression goes to a live group or to one of its own.
LEMMA Inserting ==
  ASSUME IInv, NEW w \in Workers, at[w] = "insert", Room, Missed(Expression(w)),
         NEW g \in Groups, InsertNew(w, g),
         \/ Live(g) /\ groups' = groups
         \/ g = groups + 1 /\ groups' = g
  PROVE  MemoTypes' /\ Core' /\ Live(g)' /\ \A k \in Groups : Live(k) => Live(k)'
<1>0. /\ MemoTypes /\ WorkerTypes /\ Core /\ WorkersOK /\ Present \subseteq Groups
      /\ phase = "explore" /\ dumped = {} /\ Settled /\ Live(root)
  BY Exploring, PresentGroups DEF Core, PhasesOK
<1>. USE DEF exprVars, tableVars, mergeVars
<1>1. PICK x, c : x = NewExpr /\ c = Expression(w)
  OBVIOUS
<1>2. x \in Exprs /\ gexpr[x] = Free
  BY <1>1 DEF NewExpr, Room
<1>3. c \in Contents /\ c # Free /\ \A i \in DOMAIN c.kids : c.kids[i] \in Present
  BY <1>1, ExpressionType
<1>4. /\ gexpr' = [gexpr EXCEPT ![x] = c]
      /\ pgroup' = [pgroup EXCEPT ![x] = g] /\ home' = [home EXCEPT ![x] = g]
      /\ table' = table \union {x} /\ hash' = [hash EXCEPT ![x] = UlHash(c)]
      /\ listGExprs' = [listGExprs EXCEPT ![g] = @ \union {x}]
      /\ UNCHANGED <<duplicate, scalars, root, phase, stage, unmerged, dumped, fNewDupGroups,
                     results, marked>>
  BY <1>1 DEF InsertNew
<1>5. groups \in Nat /\ groups' \in 1..MaxGroups /\ Present \subseteq Present' /\ g \in Present'
      /\ Present' \subseteq Present \union {g} /\ (g \in Present => Live(g))
  BY <1>0, Numbers DEF MemoTypes, Present, Groups, Live
<1>6. MemoTypes'
  BY <1>0, <1>2, <1>3, <1>4, <1>5 DEF MemoTypes, GroupOrNone
<1>7. /\ x \notin table
      /\ \A y \in table : /\ y \in Exprs /\ y # x /\ gexpr'[y] = gexpr[y]
                         /\ pgroup'[y] = pgroup[y] /\ home'[y] = home[y]
      /\ \A k \in Groups : x \notin listGExprs[k]
  BY <1>0, <1>2, <1>4 DEF Core, ListsOK, Used, MemoTypes
<1>8. /\ gexpr'[x] = c /\ pgroup'[x] = g /\ home'[x] = g
      /\ \A y \in Exprs \ {x} : gexpr'[y] = gexpr[y] /\ pgroup'[y] = pgroup[y] /\ home'[y] = home[y]
      /\ listGExprs'[g] = listGExprs[g] \union {x}
      /\ \A k \in Groups \ {g} : listGExprs'[k] = listGExprs[k]
  BY <1>0, <1>2, <1>4 DEF MemoTypes
<1>9. Live(g)' /\ \A k \in Groups : Live(k) => Live(k)'
  BY <1>5, <1>8 DEF Live
<1>10. ExprsOK'
  BY <1>0, <1>3, <1>5, <1>8 DEF Core, ExprsOK, Used
<1>11. ListsOK'
  <2>1. hash' = [y \in Exprs |-> hash'[y]]
    BY <1>0, <1>4 DEF Core, ListsOK
  <2>2. ASSUME NEW y \in (table \union dumped)' PROVE Used(y)' /\ y \in listGExprs'[pgroup'[y]]
    <3>1. CASE y = x
      BY <1>3, <1>8, <3>1 DEF Used
    <3>2. CASE y # x
      <4>1. y \in table /\ Used(y) /\ y \in listGExprs[pgroup[y]] /\ pgroup[y] \in Groups
        BY <1>0, <1>4, <2>2, <3>2 DEF Core, ListsOK, ExprsOK, MemoTypes
      <4>. QED
        BY <1>7, <1>8, <4>1 DEF Used
    <3>. QED
      BY <3>1, <3>2
  <2>3. ASSUME NEW k \in Groups, NEW y \in listGExprs'[k]
        PROVE  pgroup'[y] = k /\ y \in (table \union dumped)'
    <3>1. CASE y = x
      BY <1>4, <1>7, <1>8, <2>3, <3>1
    <3>2. CASE y # x
      <4>1. y \in listGExprs[k] /\ y \in Exprs
        BY <1>0, <1>8, <2>3, <3>2 DEF MemoTypes
      <4>. QED
        BY <1>0, <1>4, <1>8, <3>2, <4>1 DEF Core, ListsOK
    <3>. QED
      BY <3>1, <3>2
  <2>4. (table \intersect dumped = {})' /\ dumped' = {}
    BY <1>0, <1>4
  <2>. QED
    BY <2>1, <2>2, <2>3, <2>4 DEF ListsOK
<1>12. LinksOK'
  BY <1>0, <1>4, <1>5 DEF Core, LinksOK, Ascending, Within
<1>13. Covered'
  <2>. SUFFICES ASSUME NEW S \in SUBSET Present', S # {}, Joined(duplicate, S)
                PROVE  \E k \in S : listGExprs'[k] # {}
    BY <1>4 DEF Covered, Joined
  <2>1. CASE S \intersect Present = {}
    BY <1>5, <1>8, <2>1
  <2>2. CASE S \intersect Present # {}
    <3>1. Joined(duplicate, S \intersect Present)
      BY <1>0 DEF Joined, Core, LinksOK, Within
    <3>2. PICK k \in S \intersect Present : listGExprs[k] # {}
      BY <1>0, <2>2, <3>1 DEF Core, Covered
    <3>. QED
      BY <1>0, <1>8, <3>2
  <2>. QED
    BY <2>1, <2>2
<1>14. PhasesOK'
  <2>1. root \in Present /\ Len(InitialMemo) <= groups /\ root \in Groups
    BY <1>0 DEF Core, PhasesOK
  <2>2. root \in Present' /\ Len(InitialMemo) <= groups' /\ Live(root)'
    <3>1. groups <= groups' /\ Len(InitialMemo) \in Nat
      BY <1>5, QueryTypes
    <3>2. PICK r : r = root
      OBVIOUS
    <3>3. Live(r)'
      BY <1>0, <1>9, <2>1, <3>2
    <3>. QED
      BY <1>4, <1>5, <2>1, <3>1, <3>2, <3>3 DEF Live
  <2>3. Settled'
    <3>. SUFFICES ASSUME NEW k \in Present', listGExprs'[k] = {}
                  PROVE  duplicate[k] # NoGroup /\ duplicate[k] \in Present' /\ listGExprs'[duplicate[k]] # {}
      BY <1>4 DEF Settled, Live
    <3>1. k \in Present /\ listGExprs[k] = {}
      BY <1>0, <1>5, <1>8
    <3>2. duplicate[k] # NoGroup /\ duplicate[k] \in Present /\ listGExprs[duplicate[k]] # {}
      BY <1>0, <3>1 DEF Settled, Live
    <3>. QED
      BY <1>0, <1>5, <1>8, <3>2
  <2>. QED
    BY <1>0, <1>4, <2>2, <2>3 DEF PhasesOK
<1>15. TableOK'
  <2>1. /\ \A y \in table : hash[y] = UlHash(gexpr[y])
        /\ \A y, z \in table : UlHash(gexpr[y]) = UlHash(gexpr[z]) => y = z
    BY <1>0 DEF Core, TableOK
  <2>2. \A k \in Present : HashId(k)' = HashId(k)
    BY <1>0, <1>4, <1>5, <1>8 DEF HashId, Live
  <2>3. UlHash(c)' = UlHash(c)
    BY <1>3, <2>2 DEF UlHash
  <2>4. ASSUME NEW y \in table PROVE (UlHash(gexpr[y]))' = UlHash(gexpr[y])
    <3>1. \A i \in DOMAIN gexpr[y].kids : gexpr[y].kids[i] \in Present
      BY <1>0, <1>7 DEF Core, ListsOK, ExprsOK
    <3>2. gexpr'[y] = gexpr[y]
      BY <1>7
    <3>. QED
      BY <2>2, <3>1, <3>2 DEF UlHash
  <2>5. (UlHash(gexpr[x]))' = UlHash(c)
    BY <1>8, <2>3 DEF UlHash
  <2>6. \A y \in table : UlHash(gexpr[y]) # UlHash(c)
    BY <1>0, <1>1, <1>3, <2>1, MissedIsNew DEF Core
  <2>7. /\ hash'[x] = UlHash(c) /\ \A y \in table : hash'[y] = hash[y]
    BY <1>0, <1>2, <1>4, <1>7 DEF Core, ListsOK
  <2>8. \A y \in table' : hash'[y] = (UlHash(gexpr[y]))'
    BY <1>4, <2>1, <2>4, <2>5, <2>7
  <2>9. ASSUME NEW y \in table', NEW z \in table', (UlHash(gexpr[y]))' = (UlHash(gexpr[z]))'
        PROVE  y = z
    BY <1>4, <2>1, <2>4, <2>5, <2>6, <2>9
  <2>. QED
    BY <2>8, <2>9 DEF TableOK
<1>. QED
  BY <1>6, <1>9, <1>10, <1>11, <1>12, <1>13, <1>14, <1>15 DEF Core

\* The insertions of PgroupInsert.
LEMMA InsertStepKeeps ==
  ASSUME IInv, NEW w \in Workers, InsertInOrigin(w) \/ InsertInNewGroup(w)
  PROVE  IInv'
<1>0. /\ MemoTypes /\ WorkerTypes /\ WorkersOK /\ Present \subseteq Groups /\ at[w] = "insert"
      /\ Live(origin[w]) /\ origin[w] \in Groups /\ Room /\ Missed(Expression(w))
  BY Exploring, PresentGroups DEF InsertInOrigin, InsertInNewGroup
<1>1. ASSUME InsertInOrigin(w) PROVE IInv'
  <2>1. PICK g : g = origin[w]
    OBVIOUS
  <2>2. InsertNew(w, g) /\ Returns(w, g) /\ groups' = groups /\ g \in Groups /\ Live(g)
    BY <1>0, <1>1, <2>1 DEF InsertInOrigin
  <2>3. MemoTypes' /\ Core' /\ Live(g)' /\ \A k \in Groups : Live(k) => Live(k)'
    BY <1>0, <2>2, Inserting
  <2>4. phase' = phase
    BY <2>2 DEF InsertNew
  <2>5. WorkerTypes' /\ WorkersOK'
    BY <1>0, <2>2, <2>3, <2>4, ReturnsKeeps
  <2>. QED
    BY <2>3, <2>5, PartsNext
<1>2. ASSUME InsertInNewGroup(w) PROVE IInv'
  <2>1. PICK g : g = groups + 1
    OBVIOUS
  <2>2. /\ InsertNew(w, g) /\ groups' = g /\ g \in Groups /\ ~IsTop(w)
        /\ Expression(w).op \notin ScalarOps => Returns(w, g)
    BY <1>0, <1>2, <2>1, Numbers DEF InsertInNewGroup, MemoTypes, Groups
  <2>3. MemoTypes' /\ Core' /\ Live(g)' /\ \A k \in Groups : Live(k) => Live(k)'
    BY <1>0, <2>1, <2>2, Inserting
  <2>4. phase' = phase
    BY <2>2 DEF InsertNew
  <2>5. CASE Expression(w).op \notin ScalarOps
    <3>1. WorkerTypes' /\ WorkersOK'
      BY <1>0, <2>2, <2>3, <2>4, <2>5, ReturnsKeeps
    <3>. QED
      BY <2>3, <3>1, PartsNext
  <2>6. CASE Expression(w).op \in ScalarOps
    <3>1. PICK r, p, k, o : r = result[w] /\ p = pos[w] /\ k = kid[w] /\ o = origin[w]
      OBVIOUS
    <3>2. Sets(w, "materialize", r, p, k, o, g)
      BY <1>0, <1>2, <2>1, <2>6, <3>1 DEF InsertInNewGroup, Sets, Goto, WorkerTypes
    <3>3. /\ phase = "explore" /\ r \in Results /\ p \in 1..Len(r.ops)
          /\ Live(o) /\ (k # NoGroup => Live(k))
      BY <1>0, <3>1 DEF WorkersOK
    <3>4. /\ k \in GroupOrNone /\ o \in GroupOrNone /\ g \in GroupOrNone /\ p \in Nat
          /\ p # Len(r.ops)
      BY <1>0, <2>2, <3>1 DEF WorkerTypes, GroupOrNone, IsTop
    <3>5. Live(o)' /\ (k # NoGroup => Live(k)')
      BY <1>0, <2>3, <3>3 DEF Live
    <3>6. WorkerTypes' /\ WorkersOK'
      BY <1>0, <2>3, <2>4, <3>2, <3>3, <3>4, <3>5, WorkerKeeps DEF Stages
    <3>. QED
      BY <2>3, <3>6, PartsNext
  <2>. QED
    BY <2>5, <2>6
<1>. QED
  BY <1>1, <1>2

\* Two live groups are marked: no link of an emptied group is touched.
LEMMA MarkStepKeeps ==
  ASSUME IInv, NEW w \in Workers, MarkDuplicates(w)
  PROVE  IInv'
<1>0. /\ MemoTypes /\ WorkerTypes /\ Core /\ WorkersOK /\ Present \subseteq Groups /\ at[w] = "mark"
      /\ phase = "explore" /\ Settled
  BY Exploring, PresentGroups DEF MarkDuplicates
<1>1. PICK g, h : g = origin[w] /\ h = container[w]
  OBVIOUS
<1>2. g \in Groups /\ h \in Groups /\ g # h /\ Live(g) /\ Live(h) /\ g \in Present /\ h \in Present
  BY <1>0, <1>1 DEF WorkersOK, Live
<1>3. /\ duplicate' = MarkedDuplicates(g, h) /\ marked' = marked \union {<<g, h>>} /\ Done(w)
      /\ UNCHANGED <<gexpr, pgroup, home, table, hash, listGExprs, scalars, groups, root, phase,
                     stage, unmerged, dumped, fNewDupGroups, results>>
  BY <1>1 DEF MarkDuplicates, exprVars, tableVars, mergeVars
<1>4. duplicate \in Links /\ Ascending(duplicate) /\ Within(duplicate, Present)
  BY <1>0 DEF MemoTypes, Core, LinksOK
<1>5. /\ duplicate' \in Links /\ Ascending(duplicate')
      /\ \A k \in Groups : duplicate[k] # NoGroup => duplicate'[k] # NoGroup
      /\ \A k \in Groups : duplicate'[k] # duplicate[k] => k \in {g, h} \/ duplicate[k] = NoGroup
  BY <1>2, <1>3, <1>4, Marking
<1>6. Within(duplicate', Present)
  BY <1>0, <1>2, <1>3, <1>4, MarkingWithin
<1>7. MemoTypes'
  BY <1>0, <1>2, <1>3, <1>5 DEF MemoTypes
<1>8. Present' = Present /\ \A k : Live(k)' <=> Live(k)
  BY <1>3 DEF Present, Live
<1>9. \A k \in Present : listGExprs[k] = {} => duplicate'[k] = duplicate[k]
  BY <1>0, <1>2, <1>5 DEF Settled, Live
<1>10. ExprsOK' /\ ListsOK' /\ LinksOK'
  <2>1. ExprsOK' /\ ListsOK'
    BY <1>0, <1>3, <1>8 DEF Core, ExprsOK, ListsOK, Used
  <2>2. LinksOK'
    BY <1>5, <1>6, <1>8 DEF LinksOK, Ascending, Within
  <2>. QED
    BY <2>1, <2>2
<1>11. Covered'
  <2>. SUFFICES ASSUME NEW S \in SUBSET Present, S # {}, Joined(duplicate', S)
                PROVE  \E k \in S : listGExprs[k] # {}
    BY <1>3, <1>8 DEF Covered, Joined
  <2>1. Joined(duplicate, S)
    BY <1>2, <1>3, <1>4, MarkingJoined
  <2>. QED
    BY <1>0, <2>1 DEF Core, Covered
<1>12. PhasesOK'
  <2>1. root \in Present /\ Len(InitialMemo) <= groups /\ Live(root)
    BY <1>0 DEF Core, PhasesOK
  <2>2. Settled'
    BY <1>0, <1>3, <1>8, <1>9 DEF Settled, Live
  <2>3. Live(root)'
    BY <1>3, <2>1 DEF Live, Present
  <2>. QED
    BY <1>0, <1>3, <1>8, <2>1, <2>2, <2>3 DEF PhasesOK
<1>13. TableOK'
  <2>1. \A k \in Present : HashId(k)' = HashId(k)
    BY <1>3, <1>9 DEF HashId
  <2>2. ASSUME NEW y \in table PROVE (UlHash(gexpr[y]))' = UlHash(gexpr[y])
    <3>1. \A i \in DOMAIN gexpr[y].kids : gexpr[y].kids[i] \in Present
      BY <1>0 DEF Core, ListsOK, ExprsOK, MemoTypes
    <3>2. gexpr'[y] = gexpr[y]
      BY <1>3
    <3>. QED
      BY <2>1, <3>1, <3>2 DEF UlHash
  <2>. QED
    BY <1>0, <1>3, <2>2 DEF Core, TableOK
<1>14. WorkerTypes' /\ WorkersOK'
  <2>1. Sets(w, "idle", NoResult, 0, NoGroup, NoGroup, NoGroup)
    BY <1>3 DEF Done, Sets, Goto
  <2>2. phase' = phase /\ \A k \in Groups : Live(k) => Live(k)'
    BY <1>3, <1>8
  <2>3. NoGroup \in GroupOrNone
    BY DEF GroupOrNone
  <2>. QED
    BY <1>0, <2>1, <2>2, <2>3, WorkerKeeps DEF Stages
<1>. QED
  BY <1>7, <1>10, <1>11, <1>12, <1>13, <1>14, PartsNext DEF Core

-----------------------------------------------------------------------------
(* Merging                                                                 *)

\* While groups are merged no job inserts.
LEMMA Resting ==
  ASSUME IInv, phase # "explore" \/ \A w \in Workers : at[w] = "idle", UNCHANGED workerVars
  PROVE  WorkerTypes' /\ WorkersOK'
<1>1. WorkerTypes /\ \A w \in Workers : at[w] = "idle"
  BY Parts DEF WorkersOK
<1>2. WorkerTypes'
  BY <1>1 DEF WorkerTypes, workerVars
<1>. QED
  BY <1>1, <1>2 DEF WorkersOK, workerVars

\* Another phase begins with the same groups and expressions.
LEMMA PhaseFrame ==
  ASSUME Core, UNCHANGED <<gexpr, pgroup, home, table, hash, listGExprs, duplicate, groups, dumped>>,
         dumped = {}
  PROVE  ExprsOK' /\ ListsOK' /\ LinksOK' /\ Covered'
<1>. USE DEF Present
<1>1. ExprsOK' /\ ListsOK' /\ LinksOK'
  BY DEF Core, ExprsOK, ListsOK, LinksOK, Used, Within, Ascending
<1>2. Covered'
  BY DEF Core, Covered, Joined
<1>. QED
  BY <1>1, <1>2

\* The exploration of a stage ends.
LEMMA StartMergeKeeps == IInv /\ StartMerge => IInv'
<1>. SUFFICES ASSUME IInv, StartMerge PROVE IInv'
  OBVIOUS
<1>. USE DEF exprVars, tableVars, groupVars
<1>0. MemoTypes /\ Core /\ dumped = {} /\ Present \subseteq Groups
  BY Parts, PresentGroups DEF StartMerge, Core, ListsOK
<1>1. MemoTypes'
  BY <1>0 DEF StartMerge, MemoTypes
<1>2. WorkerTypes' /\ WorkersOK'
  BY Resting DEF StartMerge
<1>3. ExprsOK' /\ ListsOK' /\ LinksOK' /\ Covered'
  BY <1>0, PhaseFrame DEF StartMerge
<1>4. PhasesOK' /\ TableOK'
  BY <1>0 DEF StartMerge, Core, PhasesOK, TableOK, Flat, Present
<1>. QED
  BY <1>1, <1>2, <1>3, <1>4, PartsNext DEF Core

\* MergeGroup: the emptied group leads straight to the master, which stays one.
LEMMA MergeGroupKeeps ==
  ASSUME IInv, NEW g \in Groups, MergeGroup(g)
  PROVE  IInv'
<1>0. /\ MemoTypes /\ Core /\ Present \subseteq Groups /\ phase = "merge" /\ dumped = {}
      /\ duplicate \in Links /\ Ascending(duplicate) /\ Within(duplicate, Present)
  BY Parts, PresentGroups DEF MergeGroup, Core, ListsOK, LinksOK, MemoTypes
<1>. USE DEF tableVars
<1>1. /\ unmerged' = unmerged \ {g}
      /\ UNCHANGED <<gexpr, home, table, hash, scalars, groups, root, phase, stage, dumped,
                     fNewDupGroups, workerVars, results, marked>>
  BY DEF MergeGroup
<1>2. WorkerTypes' /\ WorkersOK'
  BY <1>0, <1>1, Resting
<1>3. root \in Present' /\ Len(InitialMemo) <= groups' /\ TableOK' /\ phase' = "merge" /\ Present' = Present
  BY <1>0, <1>1 DEF Core, PhasesOK, TableOK, Present
<1>4. Flat(Present \ unmerged)
  BY <1>0 DEF Core, PhasesOK
<1>5. CASE duplicate[g] = NoGroup
  <2>1. UNCHANGED <<duplicate, listGExprs, pgroup>>
    BY <1>5 DEF MergeGroup
  <2>2. MemoTypes'
    BY <1>0, <1>1, <2>1 DEF MemoTypes
  <2>3. ExprsOK' /\ ListsOK' /\ LinksOK' /\ Covered'
    BY <1>0, <1>1, <2>1, PhaseFrame
  <2>4. Flat(Present \ unmerged)'
    BY <1>1, <1>3, <1>4, <1>5, <2>1 DEF Flat
  <2>. QED
    BY <1>1, <1>2, <1>3, <2>2, <2>3, <2>4, PartsNext DEF Core, PhasesOK
<1>6. CASE duplicate[g] # NoGroup
  <2>1. PICK target : target = Master(duplicate, g)
    OBVIOUS
  <2>2. /\ target \in Groups /\ target > g /\ target # g /\ duplicate[target] = NoGroup
        /\ duplicate[g] \in Groups /\ g \in Present
    BY <1>0, <1>6, <2>1, MasterLast, Numbers DEF Links, GroupOrNone, Within
  <2>3. /\ duplicate' = [duplicate EXCEPT ![g] = target]
        /\ listGExprs' = [listGExprs EXCEPT ![g] = {}, ![target] = @ \union listGExprs[g]]
        /\ pgroup' = [x \in Exprs |-> IF x \in listGExprs[g] THEN target ELSE pgroup[x]]
    BY <1>6, <2>1 DEF MergeGroup
  <2>4. duplicate' = Resolve(duplicate, g)
    BY <1>6, <2>1, <2>3 DEF Resolve
  <2>5. duplicate' \in Links /\ Ascending(duplicate') /\ Within(duplicate', Present)
    BY <1>0, <2>4, Resolving, ResolvingWithin
  <2>6. duplicate'[g] = target /\ \A k \in Groups \ {g} : duplicate'[k] = duplicate[k]
    BY <1>0, <2>3 DEF Links
  <2>7. target \in Present /\ target # NoGroup
    BY <2>2, <2>5, <2>6, Numbers DEF Within
  <2>8. /\ listGExprs'[g] = {} /\ listGExprs'[target] = listGExprs[target] \union listGExprs[g]
        /\ \A k \in Groups \ {g, target} : listGExprs'[k] = listGExprs[k]
    BY <1>0, <2>2, <2>3 DEF MemoTypes
  <2>9. MemoTypes'
    <3>1. listGExprs' \in [Groups -> SUBSET Exprs]
      BY <1>0, <2>2, <2>3 DEF MemoTypes
    <3>2. pgroup' \in [Exprs -> GroupOrNone]
      BY <1>0, <2>2, <2>3 DEF MemoTypes, GroupOrNone
    <3>. QED
      BY <1>0, <1>1, <2>5, <3>1, <3>2 DEF MemoTypes
  <2>10. ExprsOK'
    BY <1>0, <1>1, <1>3, <2>3, <2>7 DEF Core, ExprsOK, Used
  <2>11. ListsOK'
    <3>1. ASSUME NEW x \in table PROVE gexpr'[x] # Free /\ x \in listGExprs'[pgroup'[x]]
      <4>1. x \in Exprs /\ gexpr[x] # Free /\ pgroup[x] \in Groups /\ x \in listGExprs[pgroup[x]]
        BY <1>0 DEF Core, ListsOK, ExprsOK, Used, MemoTypes
      <4>2. CASE x \in listGExprs[g]
        BY <1>1, <2>3, <2>8, <4>1, <4>2
      <4>3. CASE x \notin listGExprs[g]
        BY <1>1, <2>3, <2>8, <4>1, <4>3
      <4>. QED
        BY <4>2, <4>3
    <3>2. ASSUME NEW k \in Groups, NEW x \in listGExprs'[k] PROVE pgroup'[x] = k /\ x \in table
      <4>1. \A j \in Groups : x \in listGExprs[j] => x \in Exprs /\ pgroup[x] = j /\ x \in table
        BY <1>0 DEF Core, ListsOK, MemoTypes
      <4>2. CASE k = g
        BY <2>8, <3>2, <4>2
      <4>3. CASE k = target
        BY <2>2, <2>3, <2>8, <3>2, <4>1, <4>3
      <4>4. CASE k \notin {g, target}
        BY <2>3, <2>8, <3>2, <4>1, <4>4
      <4>. QED
        BY <4>2, <4>3, <4>4
    <3>3. hash = [x \in Exprs |-> hash[x]]
      BY <1>0 DEF Core, ListsOK
    <3>. QED
      BY <1>0, <1>1, <3>1, <3>2, <3>3 DEF ListsOK, Used
  <2>12. LinksOK'
    BY <1>3, <2>5 DEF LinksOK, Ascending, Within
  <2>13. Covered'
    <3>. SUFFICES ASSUME NEW S \in SUBSET Present, S # {}, Joined(duplicate', S)
                  PROVE  \E k \in S : listGExprs'[k] # {}
      BY <1>3 DEF Covered, Joined
    <3>1. Joined(duplicate, S)
      BY <1>0, <2>4, ResolvingJoined
    <3>2. PICK k \in S : listGExprs[k] # {}
      BY <1>0, <3>1 DEF Core, Covered
    <3>3. g \in S => target \in S
      BY <2>6, <2>7 DEF Joined
    <3>. QED
      BY <1>0, <2>8, <3>2, <3>3
  <2>14. Flat(Present \ unmerged)'
    <3>. SUFFICES ASSUME NEW k \in Present, k \notin unmerged \ {g}, duplicate'[k] # NoGroup
                  PROVE  listGExprs'[k] = {} /\ duplicate'[duplicate'[k]] = NoGroup
      BY <1>1, <1>3 DEF Flat
    <3>1. CASE k = g
      BY <2>2, <2>6, <2>8, <3>1
    <3>2. CASE k # g
      <4>1. duplicate'[k] = duplicate[k] /\ k \in Groups
        BY <1>0, <2>6, <3>2
      <4>2. listGExprs[k] = {} /\ duplicate[duplicate[k]] = NoGroup
        BY <1>4, <3>2, <4>1 DEF Flat
      <4>3. duplicate[k] \in Groups /\ duplicate[k] # g
        BY <1>0, <1>6, <4>1, <4>2 DEF Within
      <4>4. k # target
        BY <2>2, <4>1
      <4>. QED
        BY <2>6, <2>8, <3>2, <4>1, <4>2, <4>3, <4>4
    <3>. QED
      BY <3>1, <3>2
  <2>15. PhasesOK'
    BY <1>0, <1>1, <1>3, <2>14 DEF PhasesOK
  <2>. QED
    BY <1>2, <1>3, <2>9, <2>10, <2>11, <2>12, <2>13, <2>15, PartsNext DEF Core
<1>. QED
  BY <1>5, <1>6

\* The root is its master after every group is merged; the table is emptied.
LEMMA DumpKeeps == IInv /\ Dump => IInv'
<1>. SUFFICES ASSUME IInv, Dump PROVE IInv'
  OBVIOUS
<1>. USE DEF exprVars, groupVars
<1>0. /\ MemoTypes /\ Core /\ Present \subseteq Groups /\ phase = "merge" /\ dumped = {}
      /\ unmerged = {}
  BY Parts, PresentGroups DEF Dump, Core, ListsOK
<1>1. PICK r : r = IF duplicate[root] = NoGroup THEN root ELSE duplicate[root]
  OBVIOUS
<1>2. /\ root' = r /\ dumped' = table /\ table' = {} /\ fNewDupGroups' = FALSE /\ phase' = "rehash"
      /\ UNCHANGED <<gexpr, pgroup, home, hash, listGExprs, duplicate, scalars, groups, stage,
                     unmerged, workerVars, results, marked>>
  BY <1>1 DEF Dump
<1>3. WorkerTypes' /\ WorkersOK'
  BY <1>0, <1>2, Resting
<1>4. Flat(Present) /\ Present' = Present /\ root \in Present
  BY <1>0, <1>2 DEF Core, PhasesOK, Present
<1>5. r \in Present /\ duplicate[r] = NoGroup
  BY <1>0, <1>1, <1>4 DEF Flat, Core, LinksOK, Within
<1>6. MemoTypes'
  BY <1>0, <1>2, <1>5 DEF MemoTypes
<1>7. ExprsOK' /\ LinksOK' /\ Covered'
  BY <1>0, <1>2, <1>4 DEF Core, ExprsOK, LinksOK, Ascending, Within, Covered, Joined, Used
<1>8. ListsOK'
  BY <1>0, <1>2 DEF Core, ListsOK, Used
<1>9. PhasesOK'
  BY <1>0, <1>2, <1>4, <1>5 DEF Core, PhasesOK, Flat
<1>10. TableOK'
  BY <1>2 DEF TableOK
<1>. QED
  BY <1>3, <1>6, <1>7, <1>8, <1>9, <1>10, PartsNext DEF Core

\* An expression that goes back to the table differs from all that are there.
LEMMA ReinsertKeeps ==
  ASSUME IInv, NEW x \in Exprs, Reinsert(x)
  PROVE  IInv'
<1>. USE DEF exprVars, groupVars
<1>0. /\ MemoTypes /\ Core /\ phase = "rehash" /\ x \in dumped /\ Missed(gexpr[x])
  BY Parts DEF Reinsert
<1>1. /\ table' = table \union {x} /\ hash' = [hash EXCEPT ![x] = UlHash(gexpr[x])]
      /\ dumped' = dumped \ {x}
      /\ UNCHANGED <<gexpr, pgroup, home, listGExprs, duplicate, scalars, groups, root, phase, stage,
                     unmerged, fNewDupGroups, workerVars, results, marked>>
  BY DEF Reinsert
<1>2. WorkerTypes' /\ WorkersOK'
  BY <1>0, <1>1, Resting
<1>3. MemoTypes'
  BY <1>0, <1>1 DEF MemoTypes
<1>4. Present' = Present
  BY <1>1 DEF Present
<1>5. ExprsOK' /\ LinksOK' /\ Covered'
  BY <1>0, <1>1, <1>4 DEF Core, ExprsOK, LinksOK, Ascending, Within, Covered, Joined, Used
<1>6. ListsOK'
  <2>1. (table \union dumped)' = table \union dumped /\ (table \intersect dumped = {})'
    BY <1>0, <1>1 DEF Core, ListsOK
  <2>2. hash' = [y \in Exprs |-> hash'[y]]
    BY <1>0, <1>1 DEF Core, ListsOK
  <2>. QED
    BY <1>0, <1>1, <2>1, <2>2 DEF Core, ListsOK, Used
<1>7. PhasesOK'
  BY <1>0, <1>1, <1>4 DEF Core, PhasesOK, Flat
<1>8. TableOK'
  <2>. SUFFICES ASSUME ~fNewDupGroups
                PROVE  /\ \A y \in table' : hash'[y] = UlHash(gexpr[y])
                       /\ \A y, z \in table' : UlHash(gexpr[y]) = UlHash(gexpr[z]) => y = z
    <3>1. ASSUME NEW y \in Exprs PROVE (UlHash(gexpr[y]))' = UlHash(gexpr[y])
      BY <1>1 DEF UlHash, HashId
    <3>2. phase' = "rehash" /\ fNewDupGroups' = fNewDupGroups /\ table' \subseteq Exprs
      BY <1>0, <1>1 DEF MemoTypes
    <3>. QED
      BY <3>1, <3>2 DEF TableOK
  <2>1. /\ \A y \in table : hash[y] = UlHash(gexpr[y])
        /\ \A y, z \in table : UlHash(gexpr[y]) = UlHash(gexpr[z]) => y = z
    BY <1>0 DEF Core, TableOK
  <2>2. gexpr[x] \in Contents /\ x \notin table
    BY <1>0 DEF MemoTypes, Core, ListsOK, Used
  <2>3. \A y \in table : UlHash(gexpr[y]) # UlHash(gexpr[x])
    BY <1>0, <2>1, <2>2, MissedIsNew DEF Core
  <2>4. hash'[x] = UlHash(gexpr[x]) /\ \A y \in table : hash'[y] = hash[y]
    BY <1>0, <1>1, <2>2 DEF Core, ListsOK, MemoTypes
  <2>. QED
    BY <1>1, <2>1, <2>3, <2>4
<1>. QED
  BY <1>2, <1>3, <1>5, <1>6, <1>7, <1>8, PartsNext DEF Core

\* A dropped expression leaves its group, one equal to it remains in a group that
\* is or becomes connected with it.
LEMMA DropDuplicateKeeps ==
  ASSUME IInv, NEW x \in Exprs, NEW y \in Exprs, DropDuplicate(x, y)
  PROVE  IInv'
<1>. USE DEF exprVars, tableVars
<1>0. /\ MemoTypes /\ Core /\ phase = "rehash" /\ x \in dumped /\ y \in table /\ x # y
      /\ Present \subseteq Groups
      /\ duplicate \in Links /\ Ascending(duplicate) /\ Within(duplicate, Present)
  BY Parts, PresentGroups DEF DropDuplicate, Matches, Core, ListsOK, LinksOK, MemoTypes
<1>1. PICK g, h : g = pgroup[x] /\ h = pgroup[y]
  OBVIOUS
<1>2. /\ dumped' = dumped \ {x} /\ listGExprs' = [listGExprs EXCEPT ![g] = @ \ {x}]
      /\ IF NeedsMark(g, h)
         THEN duplicate' = MarkedDuplicates(g, h) /\ fNewDupGroups' = TRUE
         ELSE UNCHANGED <<duplicate, fNewDupGroups>>
      /\ UNCHANGED <<gexpr, pgroup, home, table, hash, scalars, groups, root, phase, stage,
                     unmerged, workerVars, results, marked>>
  BY <1>1 DEF DropDuplicate
<1>3. /\ g \in Present /\ h \in Present /\ g \in Groups /\ h \in Groups
      /\ x \in listGExprs[g] /\ y \in listGExprs[h]
  BY <1>0, <1>1 DEF Core, ListsOK, ExprsOK
<1>4. /\ Present' = Present /\ listGExprs'[g] = listGExprs[g] \ {x}
      /\ \A k \in Groups \ {g} : listGExprs'[k] = listGExprs[k]
      /\ y \in listGExprs'[h]
  BY <1>0, <1>2, <1>3 DEF MemoTypes, Present
<1>5. WorkerTypes' /\ WorkersOK'
  BY <1>0, <1>2, Resting
<1>6. /\ duplicate' \in Links /\ Ascending(duplicate') /\ Within(duplicate', Present)
      /\ fNewDupGroups' \in BOOLEAN
  <2>1. CASE NeedsMark(g, h)
    <3>1. g # h /\ duplicate' = MarkedDuplicates(g, h)
      BY <1>2, <2>1 DEF NeedsMark
    <3>2. duplicate' \in Links /\ Ascending(duplicate')
      BY <1>0, <1>3, <3>1, Marking
    <3>3. Within(duplicate', Present)
      BY <1>0, <1>3, <3>1, MarkingWithin
    <3>. QED
      BY <1>2, <2>1, <3>2, <3>3
  <2>2. CASE ~NeedsMark(g, h)
    BY <1>0, <1>2, <2>2 DEF MemoTypes
  <2>. QED
    BY <2>1, <2>2
<1>7. MemoTypes'
  BY <1>0, <1>2, <1>6 DEF MemoTypes
<1>8. ExprsOK' /\ LinksOK'
  BY <1>0, <1>2, <1>4, <1>6 DEF Core, ExprsOK, LinksOK, Ascending, Within, Used
<1>9. ListsOK'
  <2>1. ASSUME NEW z \in (table \union dumped)' PROVE Used(z)' /\ z \in listGExprs'[pgroup'[z]]
    <3>1. z \in table \union dumped /\ z # x /\ z \in listGExprs[pgroup[z]] /\ Used(z) /\ pgroup[z] \in Groups
      BY <1>0, <1>2, <2>1 DEF Core, ListsOK, ExprsOK, MemoTypes
    <3>. QED
      BY <1>2, <1>4, <3>1 DEF Used
  <2>2. ASSUME NEW k \in Groups, NEW z \in listGExprs'[k]
        PROVE  pgroup'[z] = k /\ z \in (table \union dumped)'
    <3>1. z \in listGExprs[k] /\ pgroup[z] = k /\ z \in table \union dumped
      BY <1>0, <1>4, <2>2 DEF Core, ListsOK
    <3>2. z # x
      BY <1>1, <1>4, <2>2, <3>1
    <3>. QED
      BY <1>2, <3>1, <3>2
  <2>. QED
    BY <1>0, <1>2, <2>1, <2>2 DEF Core, ListsOK
<1>10. g # h /\ ~NeedsMark(g, h) => duplicate[g] # NoGroup /\ duplicate[g] = duplicate[h]
  BY <1>3 DEF NeedsMark
<1>11. Covered'
  <2>. SUFFICES ASSUME NEW S \in SUBSET Present, S # {}, Joined(duplicate', S)
                PROVE  \E k \in S : listGExprs'[k] # {}
    BY <1>4 DEF Covered, Joined
  <2>1. Joined(duplicate, S) /\ (g \in S <=> h \in S)
    <3>1. CASE NeedsMark(g, h)
      <4>1. g # h /\ duplicate' = MarkedDuplicates(g, h)
        BY <1>2, <3>1 DEF NeedsMark
      <4>. QED
        BY <1>0, <1>3, <4>1, MarkingJoined
    <3>2. CASE ~NeedsMark(g, h)
      <4>1. Joined(duplicate, S)
        BY <1>2, <3>2
      <4>2. g # h => (g \in S <=> h \in S)
        BY <1>3, <1>10, <3>2, <4>1 DEF Joined
      <4>. QED
        BY <4>1, <4>2
    <3>. QED
      BY <3>1, <3>2
  <2>2. PICK k \in S : listGExprs[k] # {}
    BY <1>0, <2>1 DEF Core, Covered
  <2>. QED
    BY <1>0, <1>4, <2>1, <2>2
<1>12. ASSUME ~fNewDupGroups'
       PROVE  /\ ~fNewDupGroups /\ duplicate' = duplicate /\ g = h /\ Flat(Present)
              /\ \A k \in Groups : listGExprs'[k] = {} <=> listGExprs[k] = {}
  <2>1. ~fNewDupGroups /\ duplicate' = duplicate /\ ~NeedsMark(g, h)
    BY <1>2, <1>12
  <2>2. Flat(Present)
    BY <1>0, <2>1 DEF Core, PhasesOK
  <2>3. g = h
    BY <1>3, <1>10, <2>1, <2>2 DEF Flat
  <2>. QED
    BY <1>3, <1>4, <2>1, <2>2, <2>3
<1>13. PhasesOK'
  <2>1. ASSUME ~fNewDupGroups' PROVE Flat(Present)' /\ duplicate'[root'] = NoGroup
    BY <1>0, <1>2, <1>4, <1>12, <2>1 DEF Flat, Core, PhasesOK
  <2>2. root' \in Present' /\ Len(InitialMemo) <= groups' /\ phase' = "rehash"
    BY <1>0, <1>2, <1>4 DEF Core, PhasesOK
  <2>. QED
    BY <2>1, <2>2 DEF PhasesOK
<1>14. TableOK'
  <2>1. ASSUME ~fNewDupGroups', NEW z \in table PROVE (UlHash(gexpr[z]))' = UlHash(gexpr[z])
    <3>1. \A k \in Present : HashId(k)' = HashId(k)
      BY <1>0, <1>12, <2>1 DEF HashId
    <3>2. \A i \in DOMAIN gexpr[z].kids : gexpr[z].kids[i] \in Present
      BY <1>0 DEF Core, ListsOK, ExprsOK, MemoTypes
    <3>3. gexpr'[z] = gexpr[z]
      BY <1>2
    <3>. QED
      BY <3>1, <3>2, <3>3 DEF UlHash
  <2>2. ~fNewDupGroups' => /\ \A z \in table : hash[z] = UlHash(gexpr[z])
                           /\ \A z, v \in table : UlHash(gexpr[z]) = UlHash(gexpr[v]) => z = v
    BY <1>0, <1>12 DEF Core, TableOK
  <2>3. table' = table /\ hash' = hash /\ phase' = "rehash"
    BY <1>0, <1>2
  <2>. QED
    BY <2>1, <2>2, <2>3 DEF TableOK
<1>. QED
  BY <1>5, <1>7, <1>8, <1>9, <1>11, <1>13, <1>14, PartsNext DEF Core

\* A round without new duplicates ends with an expression in every group that has
\* no link.
LEMMA MastersLive ==
  ASSUME MemoTypes, LinksOK, Covered, Flat(Present), NEW g \in Present, duplicate[g] = NoGroup
  PROVE  Live(g)
<1>. DEFINE S == {k \in Present : k = g \/ duplicate[k] = g}
<1>1. g \in Groups /\ g # NoGroup
  BY PresentGroups, Numbers
<1>2. Joined(duplicate, S)
  <2>. SUFFICES ASSUME NEW k \in Groups, duplicate[k] # NoGroup
                PROVE  k \in S <=> duplicate[k] \in S
    BY DEF Joined
  <2>1. k \in Present /\ duplicate[k] \in Present /\ duplicate[duplicate[k]] = NoGroup /\ k # g
    BY DEF LinksOK, Within, Flat
  <2>. QED
    BY <1>1, <2>1
<1>3. PICK k \in S : listGExprs[k] # {}
  BY <1>2 DEF Covered
<1>4. k = g
  BY <1>1, <1>3 DEF Flat
<1>. QED
  BY <1>3, <1>4 DEF Live

\* The next round, or the end of GroupMerge, where no one is sent to an emptied
\* group.
LEMMA EndRoundKeeps == IInv /\ EndRound => IInv'
<1>. SUFFICES ASSUME IInv, EndRound PROVE IInv'
  OBVIOUS
<1>. USE DEF exprVars, tableVars, groupVars
<1>0. MemoTypes /\ Core /\ phase = "rehash" /\ dumped = {} /\ Present \subseteq Groups
  BY Parts, PresentGroups DEF EndRound
<1>1. /\ phase' = IF fNewDupGroups THEN "merge" ELSE "merged"
      /\ unmerged' = IF fNewDupGroups THEN Present ELSE {}
      /\ UNCHANGED <<gexpr, pgroup, home, table, hash, listGExprs, duplicate, scalars, groups, root,
                     stage, dumped, fNewDupGroups, workerVars, results, marked>>
  BY DEF EndRound
<1>2. MemoTypes'
  BY <1>0, <1>1 DEF MemoTypes
<1>3. WorkerTypes' /\ WorkersOK'
  BY <1>0, <1>1, Resting
<1>4. ExprsOK' /\ ListsOK' /\ LinksOK' /\ Covered'
  BY <1>0, <1>1, PhaseFrame
<1>5. Present' = Present /\ root' \in Present' /\ Len(InitialMemo) <= groups'
  BY <1>0, <1>1 DEF Core, PhasesOK, Present
<1>6. CASE fNewDupGroups
  <2>1. phase' = "merge" /\ unmerged' = Present'
    BY <1>1, <1>5, <1>6
  <2>2. PhasesOK' /\ TableOK'
    BY <1>5, <2>1 DEF PhasesOK, TableOK, Flat
  <2>. QED
    BY <1>2, <1>3, <1>4, <2>2, PartsNext DEF Core
<1>7. CASE ~fNewDupGroups
  <2>1. phase' = "merged"
    BY <1>1, <1>7
  <2>2. Flat(Present) /\ duplicate[root] = NoGroup /\ root \in Present /\ LinksOK /\ Covered
    BY <1>0, <1>7 DEF Core, PhasesOK
  <2>3. \A k \in Present : duplicate[k] = NoGroup => Live(k)
    BY <1>0, <2>2, MastersLive
  <2>4. Settled
    BY <1>0, <2>2, <2>3 DEF Settled, Live, Flat, LinksOK, Within
  <2>5. Flat(Present)' /\ Settled' /\ Live(root)'
    BY <1>1, <1>5, <2>2, <2>3, <2>4 DEF Flat, Settled, Live
  <2>6. PhasesOK'
    BY <1>5, <2>1, <2>5 DEF PhasesOK
  <2>7. TableOK'
    <3>1. ASSUME NEW z \in table PROVE (UlHash(gexpr[z]))' = UlHash(gexpr[z])
      BY <1>1 DEF UlHash, HashId
    <3>2. /\ \A z \in table : hash[z] = UlHash(gexpr[z])
          /\ \A z, v \in table : UlHash(gexpr[z]) = UlHash(gexpr[v]) => z = v
      BY <1>0, <1>7 DEF Core, TableOK
    <3>. QED
      BY <1>1, <3>1, <3>2 DEF TableOK
  <2>. QED
    BY <1>2, <1>3, <1>4, <2>6, <2>7, PartsNext DEF Core
<1>. QED
  BY <1>6, <1>7

\* The next stage explores the groups as they are.
LEMMA NextStageKeeps == IInv /\ NextStage => IInv'
<1>. SUFFICES ASSUME IInv, NextStage PROVE IInv'
  OBVIOUS
<1>. USE DEF exprVars, tableVars, groupVars, mergeVars
<1>0. MemoTypes /\ Core /\ phase = "merged" /\ dumped = {}
  BY Parts DEF NextStage, Core, ListsOK
<1>1. /\ phase' = "explore" /\ stage < MaxStages /\ stage' = stage + 1
      /\ UNCHANGED <<gexpr, pgroup, home, table, hash, listGExprs, duplicate, scalars, groups, root,
                     unmerged, dumped, fNewDupGroups, workerVars, results, marked>>
  BY DEF NextStage
<1>2. MemoTypes'
  BY <1>0, <1>1, Numbers DEF MemoTypes
<1>3. WorkerTypes' /\ WorkersOK'
  BY <1>0, <1>1, Resting
<1>4. ExprsOK' /\ ListsOK' /\ LinksOK' /\ Covered'
  BY <1>0, <1>1, PhaseFrame
<1>5. PhasesOK'
  BY <1>0, <1>1 DEF Core, PhasesOK, Settled, Live, Present
<1>6. TableOK'
  <2>1. ASSUME NEW z \in table PROVE (UlHash(gexpr[z]))' = UlHash(gexpr[z])
    BY <1>1 DEF UlHash, HashId
  <2>2. /\ \A z \in table : hash[z] = UlHash(gexpr[z])
        /\ \A z, v \in table : UlHash(gexpr[z]) = UlHash(gexpr[v]) => z = v
    BY <1>0 DEF Core, TableOK
  <2>. QED
    BY <1>1, <2>1, <2>2 DEF TableOK
<1>. QED
  BY <1>2, <1>3, <1>4, <1>5, <1>6, PartsNext DEF Core

-----------------------------------------------------------------------------
(* The theorems                                                            *)

\* Every step of a worker and of GroupMerge keeps the invariant.
LEMMA IInvNext == IInv /\ [Next]_vars => IInv'
<1>. SUFFICES ASSUME IInv, [Next]_vars PROVE IInv'
  OBVIOUS
<1>1. ASSUME NEW w \in Workers, NEW r \in Results, StartResult(w, r) PROVE IInv'
  BY <1>1, LocalStep
<1>2. ASSUME NEW w \in Workers, InsertStep(w) PROVE IInv'
  <2>1. CASE LookupFinds(w) \/ LookupMisses(w) \/ InsertFinds(w) \/ NotDuplicates(w) \/ Materialize(w)
    BY <2>1, LocalStep
  <2>2. CASE InsertInOrigin(w) \/ InsertInNewGroup(w)
    BY <2>2, InsertStepKeeps
  <2>3. CASE MarkDuplicates(w)
    BY <2>3, MarkStepKeeps
  <2>. QED
    BY <1>2, <2>1, <2>2, <2>3 DEF InsertStep
<1>3. CASE MergeStep
  BY <1>3, MergeGroupKeeps, DumpKeeps, EndRoundKeeps, ReinsertKeeps, DropDuplicateKeeps DEF MergeStep
<1>4. CASE StartMerge \/ NextStage
  BY <1>4, StartMergeKeeps, NextStageKeeps
<1>5. CASE UNCHANGED vars
  <2>. USE DEF vars, exprVars, tableVars, groupVars, mergeVars
  <2>1. MemoTypes' /\ UNCHANGED memoState
    BY <1>5, Parts DEF MemoTypes, memoState
  <2>2. Core'
    BY <2>1, Parts, CoreFrame
  <2>3. WorkerTypes' /\ WorkersOK'
    BY <1>5, Parts DEF WorkerTypes, WorkersOK, workerVars, Live, Present, IsTop
  <2>. QED
    BY <2>1, <2>2, <2>3, PartsNext
<1>. QED
  BY <1>1, <1>2, <1>3, <1>4, <1>5 DEF Next

\* CMemo: the groups, the lists, the links and the table fit together in every
\* state, while jobs insert and while groups are merged.
THEOREM MemoInvariant == Spec => []IInv
<1>. QED
  BY IInvInit, IInvNext, PTL DEF Spec

\* Groups and expressions of the memo, and what workers hold, are of their types.
THEOREM MemoTyping == Spec => []TypeOK
<1>1. IInv => TypeOK
  BY DEF IInv
<1>. QED
  BY <1>1, MemoInvariant, PTL

\* Outside GroupMerge a lookup goes to the bucket an expression was inserted in.
THEOREM HashesStable == Spec => []HashStable
<1>1. IInv => HashStable
  BY DEF IInv, TableOK, HashStable
<1>. QED
  BY <1>1, MemoInvariant, PTL

\* PgroupInsert and FRehash leave no two expressions of one operator over the same
\* groups in the table.
THEOREM TwinsNever == Spec => []NoTwins
<1>1. IInv => NoTwins
  BY DEF IInv, TableOK, NoTwins
<1>. QED
  BY <1>1, MemoInvariant, PTL

\* CGroupExpression::operator[] and the root lead to groups with expressions.
THEOREM ChildrenLive == Spec => []ChildLive
<1>1. ASSUME IInv PROVE ChildLive
  <2>. SUFFICES ASSUME phase \in {"explore", "merged"}
                PROVE  /\ listGExprs[root] # {}
                       /\ \A x \in table : \A i \in DOMAIN gexpr[x].kids :
                             listGExprs[Child(gexpr[x].kids[i])] # {}
    BY DEF ChildLive
  <2>1. MemoTypes /\ Core /\ Settled /\ Live(root)
    BY <1>1, Parts DEF Core, PhasesOK
  <2>2. ASSUME NEW x \in table, NEW i \in DOMAIN gexpr[x].kids
        PROVE  listGExprs[Child(gexpr[x].kids[i])] # {}
    <3>1. gexpr[x].kids[i] \in Present
      BY <2>1 DEF Core, ExprsOK, ListsOK, MemoTypes
    <3>. QED
      BY <2>1, <3>1, ChildIsLive DEF Live
  <2>. QED
    BY <2>1, <2>2 DEF Live
<1>. QED
  BY <1>1, MemoInvariant, PTL

-----------------------------------------------------------------------------
(* GroupMerge finds all duplicates and no others                           *)

\* g and h are connected by links.
Tied(d, g, h) == \A S \in SUBSET Groups : Joined(d, S) => (g \in S <=> h \in S)

\* Classes of groups in which those are together that have to be.
Congruence(r) == \A g, h \in Present : Congruent(r, g, h) => r[g] = r[h]

LinksRespect(d, r) == \A g \in Groups : d[g] # NoGroup => r[d[g]] = r[g]

\* No others: links, and the moves of expressions, stay in the classes.
Sound ==
    \A r \in [Groups -> Groups] : Congruence(r) =>
      LinksRespect(duplicate, r) /\ \A x \in Exprs : Used(x) => r[pgroup[x]] = r[home[x]]

\* Expression z is what is left of x.
StandsFor(z, x) ==
    /\ gexpr[z].op = gexpr[x].op /\ Len(gexpr[z].kids) = Len(gexpr[x].kids)
    /\ \A i \in DOMAIN gexpr[x].kids : Tied(duplicate, gexpr[x].kids[i], gexpr[z].kids[i])
    /\ Tied(duplicate, home[x], pgroup[z])

\* All: what transformations showed is connected, and no expression is lost, unless
\* another says the same.
Complete ==
    /\ \A p \in marked : Tied(duplicate, p[1], p[2])
    /\ \A x \in Exprs : Used(x) => \E z \in table \union dumped : StandsFor(z, x)

\* To be connected is an equivalence.
LEMMA TiedSame ==
  ASSUME NEW d
  PROVE  /\ \A g : Tied(d, g, g)
         /\ \A g, h : Tied(d, g, h) => Tied(d, h, g)
         /\ \A f, g, h : Tied(d, f, g) /\ Tied(d, g, h) => Tied(d, f, h)
  BY DEF Tied

\* Groups that count as duplicates in a lookup are connected.
LEMMA DuplicatesTied ==
  ASSUME NEW g \in Groups, NEW h \in Groups, FDuplicateGroups(g, h)
  PROVE  Tied(duplicate, g, h)
  BY Numbers DEF FDuplicateGroups, Tied, Joined

\* Connected groups are in one class if linked ones are.
LEMMA TiedRespect ==
  ASSUME NEW d \in Links, NEW r \in [Groups -> Groups], LinksRespect(d, r),
         NEW g \in Groups, NEW h \in Groups, Tied(d, g, h)
  PROVE  r[g] = r[h]
<1>. DEFINE S == {k \in Groups : r[k] = r[g]}
<1>1. Joined(d, S)
  BY DEF LinksRespect, Joined, Links, GroupOrNone
<1>2. g \in S <=> h \in S
  BY <1>1 DEF Tied
<1>. QED
  BY <1>2

\* The children of an expression.
LEMMA KidsType ==
  ASSUME NEW c \in Contents
  PROVE  /\ c.kids \in Seq(Groups) /\ Len(c.kids) \in Nat /\ DOMAIN c.kids = 1..Len(c.kids)
         /\ \A i \in DOMAIN c.kids : c.kids[i] \in Groups
<1>1. CASE c.kids = <<>>
  BY <1>1, EmptySeq
<1>2. CASE c.kids # <<>>
  <2>1. PICK g \in Groups : c.kids = <<g>>
    BY <1>2 DEF Contents
  <2>2. <<g>> \in Seq(Groups)
    OBVIOUS
  <2>. QED
    BY <2>1, <2>2
<1>. QED
  BY <1>1, <1>2

\* Links that connect two groups of one class more respect the classes too.
LEMMA RespectJoined ==
  ASSUME NEW d \in Links, NEW e \in Links, NEW r \in [Groups -> Groups], LinksRespect(d, r),
         NEW g \in Groups, NEW h \in Groups, r[g] = r[h],
         \A S : Joined(d, S) /\ (g \in S <=> h \in S) => Joined(e, S)
  PROVE  LinksRespect(e, r)
<1>. SUFFICES ASSUME NEW k \in Groups, e[k] # NoGroup PROVE r[e[k]] = r[k]
  BY DEF LinksRespect
<1>. DEFINE S == {j \in Groups : r[j] = r[k]}
<1>1. Joined(d, S)
  BY DEF LinksRespect, Joined, Links, GroupOrNone
<1>2. g \in S <=> h \in S
  OBVIOUS
<1>3. Joined(e, S)
  <2>. HIDE DEF S
  <2>. QED
    BY <1>1, <1>2
<1>4. k \in S <=> e[k] \in S
  <2>. HIDE DEF S
  <2>. QED
    BY <1>3 DEF Joined
<1>. QED
  BY <1>4

\* Classes of the next state are classes of this one.
LEMMA CongruenceBack ==
  ASSUME NEW r, Congruence(r)', Present \subseteq Present', marked \subseteq marked',
         \A x \in Exprs : Used(x) => Used(x)' /\ gexpr'[x] = gexpr[x] /\ home'[x] = home[x]
  PROVE  Congruence(r)
<1>. SUFFICES ASSUME NEW g \in Present, NEW h \in Present, Congruent(r, g, h)
              PROVE  r[g] = r[h]
  BY DEF Congruence
<1>1. g \in Present' /\ h \in Present'
  OBVIOUS
<1>2. Congruent(r, g, h)'
  <2>1. CASE <<g, h>> \in marked
    BY <2>1 DEF Congruent
  <2>2. CASE <<g, h>> \notin marked
    <3>1. PICK x \in Exprs, y \in Exprs :
             /\ gexpr[x] # Free /\ gexpr[y] # Free
             /\ home[x] = g /\ home[y] = h
             /\ gexpr[x].op = gexpr[y].op /\ Len(gexpr[x].kids) = Len(gexpr[y].kids)
             /\ \A i \in DOMAIN gexpr[x].kids : r[gexpr[x].kids[i]] = r[gexpr[y].kids[i]]
      BY <2>2 DEF Congruent
    <3>2. /\ gexpr'[x] # Free /\ gexpr'[x] = gexpr[x] /\ home'[x] = home[x]
          /\ gexpr'[y] # Free /\ gexpr'[y] = gexpr[y] /\ home'[y] = home[y]
      BY <3>1 DEF Used
    <3>. QED
      BY <3>1, <3>2 DEF Congruent
  <2>. QED
    BY <2>1, <2>2
<1>. QED
  BY <1>1, <1>2 DEF Congruence

\* Expressions that match, over connected groups.
LEMMA MatchTied ==
  ASSUME NEW c \in Contents, NEW e \in Contents, FMatch(c, e)
  PROVE  /\ c.op = e.op /\ Len(c.kids) = Len(e.kids) /\ DOMAIN c.kids = DOMAIN e.kids
         /\ \A i \in DOMAIN c.kids : Tied(duplicate, c.kids[i], e.kids[i])
<1>1. c.op = e.op /\ Len(c.kids) = Len(e.kids) /\ DOMAIN c.kids = DOMAIN e.kids
  BY KidsType DEF FMatch
<1>2. ASSUME NEW i \in DOMAIN c.kids PROVE Tied(duplicate, c.kids[i], e.kids[i])
  <2>1. c.kids[i] \in Groups /\ e.kids[i] \in Groups /\ FDuplicateGroups(c.kids[i], e.kids[i])
    BY <1>1, KidsType DEF FMatch
  <2>. QED
    BY <2>1, DuplicatesTied
<1>. QED
  BY <1>1, <1>2

\* What a step may do to groups and expressions: connect more, move an expression to
\* a group that is connected, add one, drop one that matches another.
LEMMA ExactStep ==
  ASSUME IInv, Sound, Complete, MemoTypes', ExprsOK', Present \subseteq Present', marked \subseteq marked',
         \A x \in Exprs : Used(x) =>
            /\ Used(x)' /\ gexpr'[x] = gexpr[x] /\ home'[x] = home[x]
            /\ Tied(duplicate', pgroup[x], pgroup'[x]),
         \A S \in SUBSET Groups : Joined(duplicate', S) => Joined(duplicate, S),
         \A r \in [Groups -> Groups] :
            Congruence(r)' /\ Congruence(r) /\ LinksRespect(duplicate, r) => LinksRespect(duplicate', r),
         \A p \in marked' : p \in marked \/ Tied(duplicate', p[1], p[2]),
         \A x \in Exprs : Used(x)' /\ ~Used(x) => pgroup'[x] = home'[x] /\ x \in (table \union dumped)',
         \A z \in table \union dumped :
            z \in (table \union dumped)' \/
            \E y \in table \union dumped : /\ y \in (table \union dumped)'
                                           /\ FMatch(gexpr[y], gexpr[z])
                                           /\ Tied(duplicate', pgroup[y], pgroup[z])
  PROVE  Sound' /\ Complete'
<1>0. /\ MemoTypes /\ ExprsOK /\ ListsOK
  BY Parts DEF Core
<1>1. \A g, h : Tied(duplicate, g, h) => Tied(duplicate', g, h)
  BY DEF Tied
<1>2. ASSUME NEW r \in [Groups -> Groups], Congruence(r)'
      PROVE  /\ LinksRespect(duplicate', r)
             /\ \A x \in Exprs : Used(x)' => r[pgroup'[x]] = r[home'[x]]
  <2>1. Congruence(r)
    BY <1>2, CongruenceBack
  <2>2. LinksRespect(duplicate, r) /\ \A x \in Exprs : Used(x) => r[pgroup[x]] = r[home[x]]
    BY <2>1 DEF Sound
  <2>3. LinksRespect(duplicate', r)
    BY <1>2, <2>1, <2>2
  <2>4. ASSUME NEW x \in Exprs, Used(x)' PROVE r[pgroup'[x]] = r[home'[x]]
    <3>1. CASE Used(x)
      <4>1. pgroup[x] \in Groups /\ pgroup'[x] \in Groups
        <5>1. pgroup[x] \in Present /\ pgroup'[x] \in Present'
          BY <1>0, <2>4, <3>1 DEF ExprsOK
        <5>2. Present \subseteq Groups /\ Present' \subseteq Groups
          BY <1>0, Numbers DEF MemoTypes, Present, Groups
        <5>. QED
          BY <5>1, <5>2
      <4>2. duplicate' \in Links /\ Tied(duplicate', pgroup[x], pgroup'[x])
        BY <3>1 DEF MemoTypes
      <4>3. r[pgroup[x]] = r[pgroup'[x]]
        BY <2>3, <4>1, <4>2, TiedRespect
      <4>. QED
        BY <2>2, <3>1, <4>3
    <3>2. CASE ~Used(x)
      BY <2>4, <3>2
    <3>. QED
      BY <3>1, <3>2
  <2>. QED
    BY <2>3, <2>4
<1>3. Sound'
  BY <1>2 DEF Sound
<1>4. ASSUME NEW p \in marked' PROVE Tied(duplicate', p[1], p[2])
  BY <1>1 DEF Complete
<1>5. ASSUME NEW x \in Exprs, Used(x)'
      PROVE  \E z \in (table \union dumped)' : StandsFor(z, x)'
  <2>1. CASE ~Used(x)
    <3>1. x \in (table \union dumped)' /\ pgroup'[x] = home'[x]
      BY <1>5, <2>1
    <3>2. StandsFor(x, x)'
      BY <3>1, TiedSame DEF StandsFor
    <3>. QED
      BY <3>1, <3>2
  <2>2. CASE Used(x)
    <3>1. PICK z \in table \union dumped : StandsFor(z, x)
      BY <2>2 DEF Complete
    <3>2. /\ z \in Exprs /\ Used(z) /\ gexpr[z] \in Contents /\ gexpr[x] \in Contents
          /\ gexpr'[x] = gexpr[x] /\ home'[x] = home[x]
      BY <1>0, <2>2 DEF ListsOK, MemoTypes, Used
    <3>3. \A y \in table \union dumped :
             /\ y \in Exprs /\ gexpr[y] \in Contents /\ gexpr'[y] = gexpr[y]
             /\ Tied(duplicate', pgroup[y], pgroup'[y])
      BY <1>0 DEF ListsOK, MemoTypes, Used
    <3>4. CASE z \in (table \union dumped)'
      <4>1. Tied(duplicate', home[x], pgroup'[z])
        BY <1>1, <3>1, <3>3, TiedSame DEF StandsFor
      <4>2. StandsFor(z, x)'
        BY <1>1, <3>1, <3>2, <3>3, <4>1 DEF StandsFor
      <4>. QED
        BY <3>4, <4>2
    <3>5. CASE z \notin (table \union dumped)'
      <4>1. PICK y \in table \union dumped : /\ y \in (table \union dumped)'
                                             /\ FMatch(gexpr[y], gexpr[z])
                                             /\ Tied(duplicate', pgroup[y], pgroup[z])
        BY <3>5
      <4>2. /\ gexpr[y].op = gexpr[z].op /\ Len(gexpr[y].kids) = Len(gexpr[z].kids)
            /\ DOMAIN gexpr[y].kids = DOMAIN gexpr[z].kids
            /\ \A i \in DOMAIN gexpr[y].kids : Tied(duplicate, gexpr[y].kids[i], gexpr[z].kids[i])
        BY <3>2, <3>3, <4>1, MatchTied
      <4>3. DOMAIN gexpr[x].kids = DOMAIN gexpr[z].kids
        BY <3>1, <3>2, KidsType DEF StandsFor
      <4>4. ASSUME NEW i \in DOMAIN gexpr[x].kids
            PROVE  Tied(duplicate', gexpr[x].kids[i], gexpr[y].kids[i])
        <5>1. Tied(duplicate, gexpr[x].kids[i], gexpr[z].kids[i])
          BY <3>1 DEF StandsFor
        <5>2. Tied(duplicate, gexpr[y].kids[i], gexpr[z].kids[i])
          BY <4>2, <4>3
        <5>. QED
          BY <1>1, <5>1, <5>2, TiedSame
      <4>5. Tied(duplicate', home[x], pgroup'[y])
        <5>1. Tied(duplicate', home[x], pgroup[z])
          BY <1>1, <3>1 DEF StandsFor
        <5>2. Tied(duplicate', pgroup[z], pgroup[y])
          BY <4>1, TiedSame
        <5>3. Tied(duplicate', pgroup[y], pgroup'[y])
          BY <3>3
        <5>. QED
          BY <5>1, <5>2, <5>3, TiedSame
      <4>6. gexpr[y].op = gexpr[x].op /\ Len(gexpr[y].kids) = Len(gexpr[x].kids)
        BY <3>1, <4>2 DEF StandsFor
      <4>7. StandsFor(y, x)'
        BY <3>2, <3>3, <4>4, <4>5, <4>6 DEF StandsFor
      <4>. QED
        BY <4>1, <4>7
    <3>. QED
      BY <3>4, <3>5
  <2>. QED
    BY <2>1, <2>2
<1>6. Complete'
  BY <1>4, <1>5 DEF Complete
<1>. QED
  BY <1>3, <1>6

\* At first no group is connected with another.
LEMMA ExactInit == Init => Sound /\ Complete
<1>. SUFFICES ASSUME Init PROVE Sound /\ Complete
  OBVIOUS
<1>1. /\ \A g \in Groups : duplicate[g] = NoGroup
      /\ pgroup = home /\ marked = {} /\ table = 1..Len(InitialMemo)
  BY DEF Init
<1>2. Sound
  BY <1>1 DEF Sound, LinksRespect
<1>3. ASSUME NEW x \in Exprs, Used(x) PROVE x \in table /\ StandsFor(x, x)
  <2>1. x <= Len(InitialMemo)
    BY <1>3 DEF Init, Used
  <2>2. x \in 1..Len(InitialMemo)
    BY <2>1, QueryTypes DEF Exprs
  <2>. QED
    BY <1>1, <2>2, TiedSame DEF StandsFor
<1>4. Complete
  BY <1>1, <1>3 DEF Complete
<1>. QED
  BY <1>2, <1>4

\* Steps that leave groups and expressions as they are, as those of the table.
LEMMA ExactFrame ==
  ASSUME IInv, IInv', Sound, Complete, UNCHANGED <<gexpr, pgroup, home, duplicate, groups, marked>>,
         (table \union dumped)' = table \union dumped
  PROVE  Sound' /\ Complete'
<1>1. MemoTypes' /\ ExprsOK'
  BY DEF IInv, TypeOK, MemoTypes
<1>2. Present' = Present /\ \A x \in Exprs : Used(x)' <=> Used(x)
  BY DEF Present, Used
<1>. QED
  BY <1>1, <1>2, TiedSame, ExactStep

\* A new expression stands for itself.
LEMMA ExactInsert ==
  ASSUME IInv, IInv', Sound, Complete, NEW w \in Workers, InsertInOrigin(w) \/ InsertInNewGroup(w)
  PROVE  Sound' /\ Complete'
<1>. USE DEF exprVars, tableVars, mergeVars
<1>0. MemoTypes /\ MemoTypes' /\ ExprsOK'
  BY DEF IInv, TypeOK, MemoTypes
<1>1. PICK g : /\ InsertNew(w, g) /\ Room
               /\ groups' = groups \/ groups' = groups + 1
  BY DEF InsertInOrigin, InsertInNewGroup
<1>2. PICK x, c : x = NewExpr /\ c = Expression(w)
  OBVIOUS
<1>3. x \in Exprs /\ gexpr[x] = Free
  BY <1>1, <1>2 DEF NewExpr, Room
<1>4. /\ gexpr' = [gexpr EXCEPT ![x] = c]
      /\ pgroup' = [pgroup EXCEPT ![x] = g] /\ home' = [home EXCEPT ![x] = g]
      /\ table' = table \union {x} /\ UNCHANGED <<duplicate, dumped, marked>>
  BY <1>1, <1>2 DEF InsertNew
<1>5. Present \subseteq Present'
  BY <1>0, <1>1, Numbers DEF MemoTypes, Present
<1>6. /\ pgroup'[x] = g /\ home'[x] = g /\ x \in (table \union dumped)'
      /\ \A y \in Exprs \ {x} : gexpr'[y] = gexpr[y] /\ pgroup'[y] = pgroup[y] /\ home'[y] = home[y]
  BY <1>0, <1>3, <1>4 DEF MemoTypes
<1>7. \A y \in Exprs : Used(y) => /\ Used(y)' /\ gexpr'[y] = gexpr[y] /\ home'[y] = home[y]
                                  /\ Tied(duplicate', pgroup[y], pgroup'[y])
  BY <1>3, <1>6, TiedSame DEF Used
<1>8. \A y \in Exprs : Used(y)' /\ ~Used(y) => pgroup'[y] = home'[y] /\ y \in (table \union dumped)'
  BY <1>6 DEF Used
<1>9. \A z \in table \union dumped : z \in (table \union dumped)'
  BY <1>4
<1>. QED
  BY <1>0, <1>4, <1>5, <1>7, <1>8, <1>9, ExactStep

\* MarkDuplicates of a job connects two groups that have to be one.
LEMMA ExactMark ==
  ASSUME IInv, IInv', Sound, Complete, NEW w \in Workers, MarkDuplicates(w)
  PROVE  Sound' /\ Complete'
<1>. USE DEF exprVars, tableVars, mergeVars
<1>0. /\ MemoTypes /\ WorkersOK /\ MemoTypes' /\ ExprsOK' /\ at[w] = "mark" /\ Present \subseteq Groups
      /\ duplicate \in Links /\ Ascending(duplicate) /\ Within(duplicate, Present)
  BY Parts, PresentGroups DEF IInv, TypeOK, MemoTypes, MarkDuplicates, LinksOK
<1>1. PICK g, h : g = origin[w] /\ h = container[w]
  OBVIOUS
<1>2. g \in Groups /\ h \in Groups /\ g # h /\ g \in Present /\ h \in Present
  BY <1>0, <1>1 DEF WorkersOK, Live
<1>3. /\ duplicate' = MarkedDuplicates(g, h) /\ marked' = marked \union {<<g, h>>}
      /\ UNCHANGED <<gexpr, pgroup, home, table, groups, dumped>>
  BY <1>1 DEF MarkDuplicates
<1>4. \A S : Joined(duplicate', S) <=> Joined(duplicate, S) /\ (g \in S <=> h \in S)
  BY <1>0, <1>2, <1>3, MarkingJoined
<1>5. Tied(duplicate', g, h)
  BY <1>4 DEF Tied
<1>6. ASSUME NEW r \in [Groups -> Groups], Congruence(r)', LinksRespect(duplicate, r)
      PROVE  LinksRespect(duplicate', r)
  <2>1. Present' = Present
    BY <1>3 DEF Present
  <2>2. Congruent(r, g, h)'
    BY <1>3 DEF Congruent
  <2>3. r[g] = r[h]
    BY <1>2, <1>6, <2>1, <2>2 DEF Congruence
  <2>. QED
    BY <1>0, <1>2, <1>4, <1>6, <2>3, RespectJoined DEF MemoTypes
<1>7. Present' = Present /\ marked \subseteq marked' /\ (table \union dumped)' = table \union dumped
  BY <1>3 DEF Present
<1>8. \A x \in Exprs : /\ Used(x)' <=> Used(x)
                       /\ gexpr'[x] = gexpr[x] /\ home'[x] = home[x]
                       /\ Tied(duplicate', pgroup[x], pgroup'[x])
  BY <1>3, TiedSame DEF Used
<1>9. \A p \in marked' : p \in marked \/ Tied(duplicate', p[1], p[2])
  BY <1>3, <1>5
<1>. QED
  BY <1>0, <1>4, <1>6, <1>7, <1>8, <1>9, ExactStep

\* MergeGroup moves expressions, and a link, along links.
LEMMA ExactMerge ==
  ASSUME IInv, IInv', Sound, Complete, NEW g \in Groups, MergeGroup(g)
  PROVE  Sound' /\ Complete'
<1>. USE DEF tableVars
<1>0. /\ MemoTypes /\ ExprsOK /\ ListsOK /\ MemoTypes' /\ ExprsOK' /\ Present \subseteq Groups
      /\ duplicate \in Links /\ Ascending(duplicate) /\ Within(duplicate, Present)
  BY Parts, PresentGroups DEF IInv, TypeOK, MemoTypes, LinksOK
<1>1. /\ Present' = Present /\ (table \union dumped)' = table \union dumped
      /\ UNCHANGED <<gexpr, home, table, dumped, groups, marked>>
  BY DEF MergeGroup, Present
<1>2. CASE duplicate[g] = NoGroup
  <2>1. UNCHANGED <<duplicate, pgroup>>
    BY <1>2 DEF MergeGroup
  <2>. QED
    BY <1>1, <2>1, ExactFrame
<1>3. CASE duplicate[g] # NoGroup
  <2>1. PICK target : target = Master(duplicate, g)
    OBVIOUS
  <2>2. target \in Groups /\ target # NoGroup
    BY <1>0, <2>1, MasterLast, Numbers
  <2>3. /\ duplicate' = [duplicate EXCEPT ![g] = target]
        /\ pgroup' = [x \in Exprs |-> IF x \in listGExprs[g] THEN target ELSE pgroup[x]]
    BY <1>3, <2>1 DEF MergeGroup
  <2>4. \A S : Joined(duplicate', S) <=> Joined(duplicate, S)
    <3>1. duplicate' = Resolve(duplicate, g)
      BY <1>3, <2>1, <2>3 DEF Resolve
    <3>. QED
      BY <1>0, <3>1, ResolvingJoined
  <2>5. Tied(duplicate', g, target)
    BY <1>0, <2>2, <2>3 DEF Tied, Joined, Links
  <2>6. ASSUME NEW x \in Exprs PROVE Tied(duplicate', pgroup[x], pgroup'[x])
    <3>1. CASE x \in listGExprs[g]
      <4>1. pgroup[x] = g /\ pgroup'[x] = target
        BY <1>0, <2>3, <3>1 DEF ListsOK
      <4>. QED
        BY <2>5, <4>1
    <3>2. CASE x \notin listGExprs[g]
      BY <2>3, <3>2, TiedSame
    <3>. QED
      BY <3>1, <3>2
  <2>7. ASSUME NEW r \in [Groups -> Groups], LinksRespect(duplicate, r)
        PROVE  LinksRespect(duplicate', r)
    <3>1. duplicate' \in Links
      BY <1>0 DEF MemoTypes
    <3>. QED
      BY <1>0, <2>4, <2>7, <3>1, RespectJoined
  <2>8. \A x \in Exprs : Used(x)' <=> Used(x)
    BY <1>1 DEF Used
  <2>. QED
    BY <1>0, <1>1, <2>4, <2>6, <2>7, <2>8, ExactStep
<1>. QED
  BY <1>2, <1>3

\* FRehash drops an expression for one over groups that are connected with those it
\* is over, so the groups of the two have to be one.
LEMMA ExactDrop ==
  ASSUME IInv, IInv', Sound, Complete, NEW x \in Exprs, NEW y \in Exprs, DropDuplicate(x, y)
  PROVE  Sound' /\ Complete'
<1>. USE DEF exprVars, tableVars
<1>0. /\ MemoTypes /\ ExprsOK /\ ListsOK /\ MemoTypes' /\ ExprsOK' /\ Present \subseteq Groups
      /\ duplicate \in Links /\ Ascending(duplicate) /\ Within(duplicate, Present)
      /\ x \in dumped /\ y \in table /\ FMatch(gexpr[y], gexpr[x])
  BY Parts, PresentGroups DEF IInv, TypeOK, MemoTypes, LinksOK, DropDuplicate, Matches
<1>1. PICK g, h : g = pgroup[x] /\ h = pgroup[y]
  OBVIOUS
<1>2. /\ dumped' = dumped \ {x}
      /\ IF NeedsMark(g, h) THEN duplicate' = MarkedDuplicates(g, h) ELSE UNCHANGED duplicate
      /\ UNCHANGED <<gexpr, pgroup, home, table, groups, marked>>
  BY <1>1 DEF DropDuplicate
<1>3. /\ Used(x) /\ Used(y) /\ gexpr[x] \in Contents /\ gexpr[y] \in Contents
      /\ home[x] \in Present /\ home[y] \in Present
      /\ g \in Groups /\ h \in Groups
  BY <1>0, <1>1 DEF ListsOK, ExprsOK, MemoTypes, Used
<1>4. Present' = Present /\ marked' = marked /\ \A z \in Exprs : Used(z)' <=> Used(z)
  BY <1>2 DEF Present, Used
<1>5. /\ \A S : Joined(duplicate', S) => Joined(duplicate, S)
      /\ \A S : Joined(duplicate, S) /\ (g \in S <=> h \in S) => Joined(duplicate', S)
      /\ Tied(duplicate', h, g)
  <2>1. CASE NeedsMark(g, h)
    <3>1. g # h /\ duplicate' = MarkedDuplicates(g, h)
      BY <1>2, <2>1 DEF NeedsMark
    <3>2. \A S : Joined(duplicate', S) <=> Joined(duplicate, S) /\ (g \in S <=> h \in S)
      BY <1>0, <1>3, <3>1, MarkingJoined
    <3>. QED
      BY <3>2 DEF Tied
  <2>2. CASE ~NeedsMark(g, h)
    <3>1. duplicate' = duplicate
      BY <1>2, <2>2
    <3>2. FDuplicateGroups(h, g)
      BY <2>2 DEF NeedsMark, FDuplicateGroups
    <3>. QED
      BY <1>3, <3>1, <3>2, DuplicatesTied
  <2>. QED
    BY <2>1, <2>2
<1>6. ASSUME NEW r \in [Groups -> Groups], Congruence(r), LinksRespect(duplicate, r)
      PROVE  LinksRespect(duplicate', r)
  <2>1. /\ gexpr[y].op = gexpr[x].op /\ Len(gexpr[y].kids) = Len(gexpr[x].kids)
        /\ DOMAIN gexpr[y].kids = DOMAIN gexpr[x].kids
        /\ \A i \in DOMAIN gexpr[y].kids : Tied(duplicate, gexpr[y].kids[i], gexpr[x].kids[i])
    BY <1>0, <1>3, MatchTied
  <2>2. \A i \in DOMAIN gexpr[y].kids : r[gexpr[y].kids[i]] = r[gexpr[x].kids[i]]
    <3>1. \A i \in DOMAIN gexpr[y].kids : gexpr[y].kids[i] \in Groups /\ gexpr[x].kids[i] \in Groups
      BY <1>3, <2>1, KidsType
    <3>. QED
      BY <1>0, <1>6, <2>1, <3>1, TiedRespect
  <2>3. Congruent(r, home[y], home[x])
    BY <1>3, <2>1, <2>2 DEF Congruent, Used
  <2>4. r[home[y]] = r[home[x]]
    BY <1>3, <1>6, <2>3 DEF Congruence
  <2>5. r[g] = r[h]
    BY <1>1, <1>3, <1>6, <2>4 DEF Sound
  <2>6. duplicate' \in Links
    BY <1>0 DEF MemoTypes
  <2>. QED
    BY <1>0, <1>3, <1>5, <1>6, <2>5, <2>6, RespectJoined
<1>7. \A z \in Exprs : Tied(duplicate', pgroup[z], pgroup'[z])
  BY <1>2, TiedSame
<1>8. ASSUME NEW z \in table \union dumped, z \notin (table \union dumped)'
      PROVE  /\ y \in table \union dumped /\ y \in (table \union dumped)'
             /\ FMatch(gexpr[y], gexpr[z]) /\ Tied(duplicate', pgroup[y], pgroup[z])
  <2>1. z = x
    BY <1>2, <1>8
  <2>. QED
    BY <1>0, <1>1, <1>2, <1>5, <2>1
<1>. QED
  BY <1>0, <1>2, <1>4, <1>5, <1>6, <1>7, <1>8, ExactStep

\* Every step keeps the links sound and complete.
LEMMA ExactNext == IInv /\ IInv' /\ Sound /\ Complete /\ [Next]_vars => Sound' /\ Complete'
<1>. SUFFICES ASSUME IInv, IInv', Sound, Complete, [Next]_vars PROVE Sound' /\ Complete'
  OBVIOUS
<1>. DEFINE Same == UNCHANGED <<gexpr, pgroup, home, duplicate, groups, marked, table, dumped>>
<1>0. ASSUME Same PROVE Sound' /\ Complete'
  BY <1>0, ExactFrame
<1>1. ASSUME NEW w \in Workers, NEW r \in Results, StartResult(w, r) PROVE Same
  BY <1>1 DEF StartResult, exprVars, tableVars, groupVars, mergeVars
<1>2. ASSUME NEW w \in Workers, InsertStep(w) PROVE Sound' /\ Complete'
  <2>1. CASE LookupFinds(w) \/ LookupMisses(w) \/ InsertFinds(w) \/ NotDuplicates(w) \/ Materialize(w)
    <3>1. Same
      BY <2>1 DEF LookupFinds, LookupMisses, InsertFinds, NotDuplicates, Materialize,
                  unchangedByLookup, exprVars, tableVars, groupVars, mergeVars
    <3>. QED
      BY <1>0, <3>1
  <2>2. CASE InsertInOrigin(w) \/ InsertInNewGroup(w)
    BY <2>2, ExactInsert
  <2>3. CASE MarkDuplicates(w)
    BY <2>3, ExactMark
  <2>. QED
    BY <1>2, <2>1, <2>2, <2>3 DEF InsertStep
<1>3. CASE MergeStep
  <2>1. ASSUME NEW g \in Groups, MergeGroup(g) PROVE Sound' /\ Complete'
    BY <2>1, ExactMerge
  <2>2. ASSUME Dump PROVE Sound' /\ Complete'
    <3>1. /\ UNCHANGED <<gexpr, pgroup, home, duplicate, groups, marked>>
          /\ dumped' = table /\ table' = {} /\ phase = "merge"
      BY <2>2 DEF Dump, exprVars, groupVars
    <3>2. dumped = {}
      BY <3>1, Parts DEF Core, ListsOK
    <3>. QED
      BY <3>1, <3>2, ExactFrame
  <2>3. ASSUME EndRound PROVE Same
    BY <2>3 DEF EndRound, exprVars, tableVars, groupVars
  <2>4. ASSUME NEW x \in Exprs, Reinsert(x) PROVE Sound' /\ Complete'
    <3>1. /\ UNCHANGED <<gexpr, pgroup, home, duplicate, groups, marked>>
          /\ dumped' = dumped \ {x} /\ table' = table \union {x} /\ x \in dumped
      BY <2>4 DEF Reinsert, exprVars, groupVars
    <3>2. (table \union dumped)' = table \union dumped
      BY <3>1
    <3>. QED
      BY <3>1, <3>2, ExactFrame
  <2>5. ASSUME NEW x \in Exprs, NEW y \in Exprs, DropDuplicate(x, y) PROVE Sound' /\ Complete'
    BY <2>5, ExactDrop
  <2>. QED
    BY <1>0, <1>3, <2>1, <2>2, <2>3, <2>4, <2>5 DEF MergeStep
<1>4. CASE StartMerge \/ NextStage
  <2>1. Same
    BY <1>4 DEF StartMerge, NextStage, exprVars, tableVars, groupVars, mergeVars
  <2>. QED
    BY <1>0, <2>1
<1>5. CASE UNCHANGED vars
  <2>1. Same
    BY <1>5 DEF vars, exprVars, tableVars, groupVars, mergeVars
  <2>. QED
    BY <1>0, <2>1
<1>. QED
  BY <1>0, <1>1, <1>2, <1>3, <1>4, <1>5 DEF Next

\* The pairs that the closure has to unite, and how it unites one.
Maps == [Groups -> Groups]

Apart(r) == {p \in Present \X Present : r[p[1]] # r[p[2]] /\ Congruent(r, p[1], p[2])}

Unite(r, p) == [g \in Groups |-> IF r[g] = r[p[1]] THEN r[p[2]] ELSE r[g]]

Picked(r) == CHOOSE p \in Apart(r) : TRUE

Values(r) == {r[g] : g \in Groups}

\* The fewer classes, the greater.
Rank == [r \in Maps |-> MaxGroups - Cardinality(Values(r))]

\* Uniting two classes leaves one less.
LEMMA UniteClimbs ==
  ASSUME Present \subseteq Groups
  PROVE  /\ \A r \in Maps : Rank[r] \in 0..MaxGroups
         /\ \A r \in Maps : Apart(r) # {} =>
              /\ Picked(r) \in Apart(r) /\ Unite(r, Picked(r)) \in Maps
              /\ Rank[Unite(r, Picked(r))] > Rank[r]
<1>1. IsFiniteSet(Groups) /\ Cardinality(Groups) = MaxGroups /\ MaxGroups \in Nat
  BY FS_Interval, BoundsAssumption DEF Groups
<1>2. ASSUME NEW r \in Maps
      PROVE  /\ IsFiniteSet(Values(r)) /\ Cardinality(Values(r)) \in Nat
             /\ Cardinality(Values(r)) <= MaxGroups
  <2>1. Values(r) \in SUBSET Groups
    BY DEF Values, Maps
  <2>. QED
    BY <1>1, <2>1, FS_Subset, FS_CardinalityType
<1>3. \A r \in Maps : Rank[r] \in 0..MaxGroups
  BY <1>1, <1>2 DEF Rank
<1>4. ASSUME NEW r \in Maps, Apart(r) # {}
      PROVE  /\ Picked(r) \in Apart(r) /\ Unite(r, Picked(r)) \in Maps
             /\ Rank[Unite(r, Picked(r))] > Rank[r]
  <2>1. Picked(r) \in Apart(r)
    BY <1>4 DEF Picked
  <2>2. PICK g \in Groups, h \in Groups : Picked(r)[1] = g /\ Picked(r)[2] = h /\ r[g] # r[h]
    BY <2>1 DEF Apart
  <2>3. PICK u : u = Unite(r, Picked(r))
    OBVIOUS
  <2>4. u = [k \in Groups |-> IF r[k] = r[g] THEN r[h] ELSE r[k]]
    BY <2>2, <2>3 DEF Unite
  <2>5. u \in Maps
    BY <2>4 DEF Maps
  <2>6. Values(u) \in SUBSET (Values(r) \ {r[g]})
    BY <2>2, <2>4 DEF Values
  <2>7. r[g] \in Values(r)
    BY DEF Values
  <2>8. Cardinality(Values(u)) <= Cardinality(Values(r)) - 1
    <3>1. PICK V, v : V = Values(r) /\ v = r[g]
      OBVIOUS
    <3>2. IsFiniteSet(V \ {v}) /\ Cardinality(V \ {v}) = Cardinality(V) - 1
      BY <1>2, <2>7, <3>1, FS_RemoveElement
    <3>3. Cardinality(Values(u)) <= Cardinality(V \ {v})
      BY <2>6, <3>1, <3>2, FS_Subset
    <3>. QED
      BY <3>1, <3>2, <3>3
  <2>9. Rank[u] > Rank[r]
    BY <1>1, <1>2, <2>5, <2>8 DEF Rank
  <2>. QED
    BY <2>1, <2>3, <2>5, <2>9
<1>. QED
  BY <1>3, <1>4

\* One step of the closure.
LEMMA ClosureStep ==
  ASSUME Present \subseteq Groups, NEW r \in Maps
  PROVE  Closure[r] = IF Apart(r) = {} THEN r ELSE Closure[Unite(r, Picked(r))]
<1>. DEFINE Eq(f) == f = [s \in [Groups -> Groups] |->
                LET apart == {p \in Present \X Present : s[p[1]] # s[p[2]] /\ Congruent(s, p[1], p[2])}
                IN  IF apart = {} THEN s
                    ELSE LET p == CHOOSE p \in apart : TRUE
                         IN  f[[g \in Groups |-> IF s[g] = s[p[1]] THEN s[p[2]] ELSE s[g]]]]
            stop == {s \in Maps : Apart(s) = {}}
            self == [s \in Maps |-> s]
            next == [s \in Maps |-> Unite(s, Picked(s))]
<1>1. \E f : Recursive(f, Maps, stop, self, next)
  <2>1. \A s \in Maps : Rank[s] \in 0..MaxGroups
    BY UniteClimbs
  <2>2. \A s \in Maps \ stop : next[s] \in Maps /\ Rank[next[s]] > Rank[s]
    BY UniteClimbs
  <2>3. MaxGroups \in Nat
    BY BoundsAssumption
  <2>. HIDE DEF stop, self, next
  <2>. QED
    BY <2>1, <2>2, <2>3, Recursion
<1>2. ASSUME NEW f, Recursive(f, Maps, stop, self, next) PROVE Eq(f)
  <2>1. [s \in Maps |-> IF s \in stop THEN self[s] ELSE f[next[s]]]
        = [s \in Maps |-> IF Apart(s) = {} THEN s ELSE f[Unite(s, Picked(s))]]
    OBVIOUS
  <2>2. f = [s \in Maps |-> IF Apart(s) = {} THEN s ELSE f[Unite(s, Picked(s))]]
    <3>. HIDE DEF stop, self, next
    <3>. QED
      BY <1>2, <2>1 DEF Recursive
  <2>. QED
    BY <2>2 DEF Maps, Apart, Unite, Picked
<1>3. \E f : Eq(f)
  <2>. HIDE DEF Eq, stop, self, next
  <2>. QED
    BY <1>1, <1>2
<1>4. Eq(Closure)
  <2>1. Closure = CHOOSE f : Eq(f)
    BY DEF Closure
  <2>. HIDE DEF Eq
  <2>. QED
    BY <1>3, <2>1
<1>5. Closure = [s \in Maps |-> IF Apart(s) = {} THEN s ELSE Closure[Unite(s, Picked(s))]]
  BY <1>4 DEF Maps, Apart, Unite, Picked
<1>. QED
  BY <1>5, Zenon

\* The classes of r are within those of q.
Finer(r, q) == \A g, h \in Groups : r[g] = r[h] => q[g] = q[h]

\* What has to be united under smaller classes has to be under larger ones.
LEMMA CongruentGrows ==
  ASSUME MemoTypes, NEW r \in Maps, NEW q \in Maps, Finer(r, q),
         NEW g \in Groups, NEW h \in Groups, Congruent(r, g, h)
  PROVE  Congruent(q, g, h)
<1>1. CASE <<g, h>> \in marked
  BY <1>1 DEF Congruent
<1>2. CASE <<g, h>> \notin marked
  <2>1. PICK x \in Exprs, y \in Exprs :
           /\ gexpr[x] # Free /\ gexpr[y] # Free
           /\ home[x] = g /\ home[y] = h
           /\ gexpr[x].op = gexpr[y].op /\ Len(gexpr[x].kids) = Len(gexpr[y].kids)
           /\ \A i \in DOMAIN gexpr[x].kids : r[gexpr[x].kids[i]] = r[gexpr[y].kids[i]]
    BY <1>2 DEF Congruent
  <2>2. gexpr[x] \in Contents /\ gexpr[y] \in Contents
    BY <2>1 DEF MemoTypes
  <2>3. \A i \in DOMAIN gexpr[x].kids : gexpr[x].kids[i] \in Groups /\ gexpr[y].kids[i] \in Groups
    BY <2>1, <2>2, KidsType
  <2>4. \A i \in DOMAIN gexpr[x].kids : q[gexpr[x].kids[i]] = q[gexpr[y].kids[i]]
    BY <2>1, <2>3 DEF Finer
  <2>. QED
    BY <2>1, <2>4 DEF Congruent
<1>. QED
  BY <1>1, <1>2

\* The closure is a congruence, the least one.
LEMMA ClosureLeast ==
  ASSUME MemoTypes, Present \subseteq Groups, NEW r \in Maps
  PROVE  /\ Closure[r] \in Maps /\ Congruence(Closure[r])
         /\ \A q \in Maps : Finer(r, q) /\ Congruence(q) => Finer(Closure[r], q)
<1>. DEFINE Least(s) == /\ Closure[s] \in Maps /\ Congruence(Closure[s])
                        /\ \A q \in Maps : Finer(s, q) /\ Congruence(q) => Finer(Closure[s], q)
            B == {s \in Maps : ~Least(s)}
<1>1. ASSUME NEW s \in Maps, Apart(s) = {} PROVE Least(s)
  <2>1. Closure[s] = s
    BY <1>1, ClosureStep
  <2>2. Congruence(s)
    <3>. SUFFICES ASSUME NEW g \in Present, NEW h \in Present, Congruent(s, g, h)
                  PROVE  s[g] = s[h]
      BY DEF Congruence
    <3>1. <<g, h>> \notin Apart(s)
      BY <1>1
    <3>. QED
      BY <3>1 DEF Apart
  <2>. QED
    BY <2>1, <2>2
<1>2. ASSUME NEW s \in Maps, Apart(s) # {}, Least(Unite(s, Picked(s))) PROVE Least(s)
  <2>1. /\ Closure[s] = Closure[Unite(s, Picked(s))]
        /\ Picked(s) \in Apart(s) /\ Unite(s, Picked(s)) \in Maps
    BY <1>2, ClosureStep, UniteClimbs
  <2>2. PICK g \in Present, h \in Present : /\ Picked(s)[1] = g /\ Picked(s)[2] = h
                                            /\ Congruent(s, g, h)
    BY <2>1 DEF Apart
  <2>3. ASSUME NEW q \in Maps, Finer(s, q), Congruence(q) PROVE Finer(Unite(s, Picked(s)), q)
    <3>1. q[g] = q[h]
      <4>1. Congruent(q, g, h)
        BY <2>2, <2>3, CongruentGrows
      <4>. QED
        BY <2>3, <4>1 DEF Congruence
    <3>2. \A k \in Groups : Unite(s, Picked(s))[k] = IF s[k] = s[g] THEN s[h] ELSE s[k]
      BY <2>2 DEF Unite
    <3>. QED
      BY <2>2, <2>3, <3>1, <3>2 DEF Finer
  <2>. QED
    BY <1>2, <2>1, <2>3
<1>3. \A p \in B : Rank[p] \in 0..MaxGroups
  BY UniteClimbs
<1>4. ASSUME NEW p \in B PROVE \E q \in B : Rank[q] > Rank[p]
  <2>1. p \in Maps /\ Apart(p) # {} /\ ~Least(Unite(p, Picked(p)))
    <3>. HIDE DEF Least
    <3>. QED
      BY <1>1, <1>2
  <2>2. Unite(p, Picked(p)) \in Maps /\ Rank[Unite(p, Picked(p))] > Rank[p]
    BY <2>1, UniteClimbs
  <2>. HIDE DEF Least
  <2>. QED
    BY <2>1, <2>2
<1>5. B = {}
  <2>1. MaxGroups \in Nat
    BY BoundsAssumption
  <2>. HIDE DEF B
  <2>. QED
    BY <1>3, <1>4, <2>1, Climbing
<1>. HIDE DEF Least
<1>6. Least(r)
  BY <1>5
<1>. QED
  BY <1>6 DEF Least

\* After GroupMerge the group of a child is the class of the congruence.
LEMMA MergedExactly == IInv /\ Sound /\ Complete => MergesExactly
<1>. SUFFICES ASSUME IInv, Sound, Complete, phase = "merged" PROVE
              LET class == Closure[[g \in Groups |-> g]]
              IN  \A g, h \in Present : Child(g) = Child(h) <=> class[g] = class[h]
  BY DEF MergesExactly
<1>0. /\ MemoTypes /\ ExprsOK /\ ListsOK /\ LinksOK /\ Covered /\ Present \subseteq Groups
      /\ Settled /\ Flat(Present) /\ dumped = {}
      /\ \A x, y \in table : UlHash(gexpr[x]) = UlHash(gexpr[y]) => x = y
  BY Parts, PresentGroups DEF Core, PhasesOK, TableOK, ListsOK
<1>. DEFINE self == [g \in Groups |-> g]
            class == Closure[self]
            q == [g \in Groups |-> IF g \in Present THEN Child(g) ELSE g]
<1>1. self \in Maps
  BY DEF Maps
<1>2. class \in Maps /\ Congruence(class)
      /\ \A s \in Maps : Finer(self, s) /\ Congruence(s) => Finer(class, s)
  <2>. HIDE DEF self
  <2>. QED
    BY <1>0, <1>1, ClosureLeast
<1>. HIDE DEF self, class
<1>3. ASSUME NEW g \in Present
      PROVE  /\ Child(g) \in Present /\ HashId(g) = Child(g)
             /\ Child(g) = IF duplicate[g] = NoGroup THEN g ELSE duplicate[g]
             /\ duplicate[g] # NoGroup => duplicate[g] \in Present /\ Child(duplicate[g]) = duplicate[g]
  <2>1. duplicate[g] = NoGroup => listGExprs[g] # {}
    BY <1>0 DEF Settled
  <2>2. duplicate[g] # NoGroup => /\ listGExprs[g] = {} /\ duplicate[duplicate[g]] = NoGroup
                                  /\ duplicate[g] \in Present
    BY <1>0 DEF Flat, LinksOK, Within
  <2>3. duplicate[g] # NoGroup => listGExprs[duplicate[g]] # {}
    BY <1>0, <2>2 DEF Settled
  <2>. QED
    BY <2>1, <2>2, <2>3 DEF Child, HashId
<1>4. ASSUME NEW g \in Present, NEW h \in Present, Tied(duplicate, g, h)
      PROVE  Child(g) = Child(h)
  <2>. DEFINE S == {k \in Present : Child(k) = Child(g)}
  <2>1. Joined(duplicate, S)
    <3>. SUFFICES ASSUME NEW k \in Groups, duplicate[k] # NoGroup
                  PROVE  k \in S <=> duplicate[k] \in S
      BY DEF Joined
    <3>1. k \in Present
      BY <1>0 DEF LinksOK, Within
    <3>2. /\ duplicate[k] \in Present /\ Child(duplicate[k]) = duplicate[k]
          /\ Child(k) = duplicate[k]
      BY <1>3, <3>1
    <3>. QED
      BY <3>1, <3>2
  <2>2. S \in SUBSET Groups
    BY <1>0
  <2>3. g \in S <=> h \in S
    <3>. HIDE DEF S
    <3>. QED
      BY <1>4, <2>1, <2>2 DEF Tied
  <2>. QED
    BY <2>3
<1>5. ASSUME NEW g \in Present, NEW h \in Present, Child(g) = Child(h) PROVE class[g] = class[h]
  <2>1. LinksRespect(duplicate, class)
    BY <1>2 DEF Sound, Maps
  <2>2. class[Child(g)] = class[g] /\ class[Child(h)] = class[h]
    BY <1>0, <1>3, <2>1 DEF LinksRespect
  <2>. QED
    BY <1>5, <2>2
<1>6. q \in Maps /\ \A g \in Present : q[g] = Child(g)
  BY <1>0, <1>3 DEF Maps
<1>7. Congruence(q)
  <2>. SUFFICES ASSUME NEW g \in Present, NEW h \in Present, Congruent(q, g, h)
                PROVE  Child(g) = Child(h)
    <3>. HIDE DEF q
    <3>. QED
      BY <1>6 DEF Congruence
  <2>1. CASE <<g, h>> \in marked
    BY <1>4, <2>1 DEF Complete
  <2>2. CASE <<g, h>> \notin marked
    <3>. HIDE DEF q
    <3>1. PICK x \in Exprs, y \in Exprs :
             /\ gexpr[x] # Free /\ gexpr[y] # Free
             /\ home[x] = g /\ home[y] = h
             /\ gexpr[x].op = gexpr[y].op /\ Len(gexpr[x].kids) = Len(gexpr[y].kids)
             /\ \A i \in DOMAIN gexpr[x].kids : q[gexpr[x].kids[i]] = q[gexpr[y].kids[i]]
      BY <2>2 DEF Congruent
    <3>2. PICK u \in table, v \in table : StandsFor(u, x) /\ StandsFor(v, y)
      BY <1>0, <3>1 DEF Complete, Used
    <3>3. /\ gexpr[x] \in Contents /\ gexpr[y] \in Contents
          /\ gexpr[u] \in Contents /\ gexpr[v] \in Contents
          /\ Used(x) /\ Used(y) /\ Used(u) /\ Used(v) /\ u \in Exprs /\ v \in Exprs
      BY <1>0, <3>1 DEF ListsOK, MemoTypes, Used
    <3>4. /\ DOMAIN gexpr[u].kids = DOMAIN gexpr[x].kids /\ DOMAIN gexpr[v].kids = DOMAIN gexpr[x].kids
          /\ DOMAIN gexpr[y].kids = DOMAIN gexpr[x].kids
      BY <3>1, <3>2, <3>3, KidsType DEF StandsFor
    <3>5. ASSUME NEW i \in DOMAIN gexpr[x].kids
          PROVE  HashId(gexpr[u].kids[i]) = HashId(gexpr[v].kids[i])
      <4>1. PICK a, b, c, d : /\ a = gexpr[x].kids[i] /\ b = gexpr[y].kids[i]
                              /\ c = gexpr[u].kids[i] /\ d = gexpr[v].kids[i]
        OBVIOUS
      <4>2. a \in Present /\ b \in Present /\ c \in Present /\ d \in Present
        BY <1>0, <3>3, <3>4, <4>1 DEF ExprsOK
      <4>3. Child(a) = Child(c) /\ Child(b) = Child(d)
        <5>1. Tied(duplicate, a, c) /\ Tied(duplicate, b, d)
          BY <3>2, <3>4, <4>1 DEF StandsFor
        <5>. QED
          BY <1>4, <4>2, <5>1
      <4>4. Child(a) = Child(b)
        BY <1>6, <3>1, <4>1, <4>2
      <4>5. HashId(c) = Child(c) /\ HashId(d) = Child(d)
        BY <1>3, <4>2
      <4>. QED
        BY <4>1, <4>3, <4>4, <4>5
    <3>6. UlHash(gexpr[u]) = UlHash(gexpr[v])
      <4>1. [i \in DOMAIN gexpr[u].kids |-> HashId(gexpr[u].kids[i])]
            = [i \in DOMAIN gexpr[v].kids |-> HashId(gexpr[v].kids[i])]
        BY <3>4, <3>5
      <4>2. gexpr[u].op = gexpr[v].op
        BY <3>1, <3>2 DEF StandsFor
      <4>. QED
        BY <4>1, <4>2 DEF UlHash
    <3>7. u = v
      BY <1>0, <3>6
    <3>8. Tied(duplicate, g, h)
      <4>1. Tied(duplicate, g, pgroup[u]) /\ Tied(duplicate, h, pgroup[u])
        BY <3>1, <3>2, <3>7 DEF StandsFor
      <4>. QED
        BY <4>1, TiedSame
    <3>. QED
      BY <1>4, <3>8
  <2>. QED
    BY <2>1, <2>2
<1>8. Finer(class, q)
  <2>1. Finer(self, q)
    BY DEF Finer, self
  <2>. HIDE DEF q
  <2>. QED
    BY <1>2, <1>6, <1>7, <2>1
<1>9. ASSUME NEW g \in Present, NEW h \in Present, class[g] = class[h] PROVE Child(g) = Child(h)
  <2>. HIDE DEF q
  <2>. QED
    BY <1>0, <1>6, <1>8, <1>9 DEF Finer
<1>. QED
  BY <1>5, <1>9 DEF class, self

\* CMemo::GroupMerge: when it ends, two groups stand for the same live group just
\* when they are congruent, in whatever order it merged groups, dropped and inserted
\* expressions.
THEOREM MergedExact == Spec => []MergesExactly
<1>1. Init => IInv /\ Sound /\ Complete
  BY IInvInit, ExactInit
<1>2. IInv /\ Sound /\ Complete /\ [Next]_vars => (IInv /\ Sound /\ Complete)'
  BY IInvNext, ExactNext
<1>3. IInv /\ Sound /\ Complete => MergesExactly
  BY MergedExactly
<1>. QED
  BY <1>1, <1>2, <1>3, PTL DEF Spec

=============================================================================
