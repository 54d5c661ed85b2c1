------------------------------ MODULE CacheProofs ------------------------------
(***************************************************************************)
(* Proof that the reference counts and the size of a cache are exact, that *)
(* pinned entries stay in the table, and that the clock hand shows no      *)
(* entry twice in a pass, for any finite number of workers and entries,    *)
(* any number of buckets and any keys and quotas.                          *)
(***************************************************************************)
EXTENDS Cache, FiniteSetTheorems, SequenceTheorems, TLAPS

Evicting == {"evictTest", "budget", "round", "insertHand", "look", "unlock"}

\* Which of its locals a worker has set, by its place.
StagesOK ==
    \A w \in Workers :
      /\ at[w] = "insert" => new[w] # None
      /\ at[w] = "customer" => accessor[w] # None /\ customer[w] = None
      /\ at[w] = "releaseOld" => accessor[w] # None
      /\ previous[w] # None <=> at[w] = "releaseOld"
      /\ new[w] # None => at[w] \in {"insert", "tryEvict"} \union Evicting /\ accessor[w] = None

\* The eviction lock is held by the worker that evicts, whose rounds are
\* bounded, and the hand is in a bucket when it has something to show.
EvictionOK ==
    /\ \A w \in Workers : at[w] \in Evicting <=> evictor = w
    /\ \A w \in Workers : at[w] \in {"round", "insertHand", "look"} => round <= GClockInit
    /\ \A w \in Workers : at[w] = "look" => HandInserted /\ ~handAdvanced
    /\ \A w \in Workers : at[w] = "insertHand" => ~HandInserted /\ ~handAdvanced
    /\ handAdvanced => HandInserted
    /\ hand = Buckets => \E w \in Workers : at[w] = "insertHand"

\* A chain holds nothing twice, an entry in the bucket of its key only, and the
\* hand where the iterator says.
Distinct(s) == \A i, j \in 1..Len(s) : s[i] = s[j] => i = j

Once == \A b \in BucketIndexes : Distinct(chain[b])

Home ==
    \A b \in BucketIndexes :
      /\ \A e \in Entries : Contains(chain[b], e) => keyOf[e] # None /\ BucketOf(keyOf[e]) = b
      /\ HandIn(b) => b = hand

\* An entry has a key while it is in the table or on its way there, and is held
\* then only; its maker alone knows one that is on its way.
EntriesOK ==
    /\ \A e \in Entries : keyOf[e] # None => InTable(e) \/ \E w \in Workers : new[w] = e
    /\ \A w \in Workers : accessor[w] # None => InTable(accessor[w])
    /\ \A w \in Workers : previous[w] # None => InTable(previous[w])
    /\ \A w \in Workers : customer[w] # None => keyOf[customer[w]] # None
    /\ \A w \in Workers : new[w] # None =>
         /\ ~InTable(new[w]) /\ keyOf[new[w]] # None
         /\ customer[w] = new[w]
         /\ \A v \in Workers \ {w} : customer[v] # new[w] /\ new[v] # new[w]
    /\ ~kind.mayMark => marked = {}

Looking == \E w \in Workers : at[w] = "look"

\* What the hand has shown in this pass is in a bucket it has left or before it
\* in its own; the entry it has just been asked for may still be behind it.
Before(s, x, y) == \E i, j \in 1..Len(s) : i < j /\ s[i] = x /\ s[j] = y

Adjacent(s, x, y) == \E i \in 1..Len(s) : s[i] = x /\ i < Len(s) /\ s[i + 1] = y

Passed(e) ==
    \/ BucketOf(keyOf[e]) < hand
    \/ Before(chain[hand], e, Marker)
    \/ Pointed(e) /\ ~Looking /\ ~handAdvanced

ShownPassed == \A e \in shown : InTable(e) /\ Passed(e)

IInv ==
    TypeOK /\ StagesOK /\ EvictionOK /\ Once /\ Home /\ EntriesOK /\ ShownPassed
    /\ RefsExact /\ SizeExact
-----------------------------------------------------------------------------
Elements == Entries \union {Marker}
Chains == [BucketIndexes -> Seq(Elements)]

\* UlBucketIndex names a bucket.
LEMMA BucketType == \A k \in Keys : BucketOf(k) \in BucketIndexes
  BY KeysAssumption DEF BucketOf, BucketIndexes

\* The number of bytes to free is a number.
LEMMA BudgetType ==
  ASSUME NEW s \in Nat, NEW q \in Nat, 10 * s >= 9 * q
  PROVE  (10 * s - 9 * q) \div 10 \in Nat
  OBVIOUS

\* Chains are sequences.
LEMMA ChainShape ==
  ASSUME TypeOK
  PROVE  \A b \in BucketIndexes :
           /\ chain[b] \in Seq(Elements) /\ Len(chain[b]) \in Nat
           /\ DOMAIN chain[b] = 1..Len(chain[b])
           /\ \A i \in 1..Len(chain[b]) : chain[b][i] \in Elements
  BY LenProperties, ElementOfSeq DEF TypeOK, Elements

\* Prepend: everything moves on by one place.
LEMMA Prepending ==
  ASSUME NEW S, NEW s \in Seq(S), NEW x \in S
  PROVE  LET r == <<x>> \o s
         IN  /\ r \in Seq(S) /\ Len(r) = Len(s) + 1 /\ r[1] = x
             /\ \A i \in 1..Len(s) : r[i + 1] = s[i]
             /\ \A i \in 2..Len(r) : r[i] = s[i - 1]
<1>1. <<x>> \in Seq(S) /\ Len(<<x>>) = 1 /\ <<x>>[1] = x
  OBVIOUS
<1>2. Len(s) \in Nat
  BY LenProperties
<1>. QED
  BY <1>1, <1>2, ConcatProperties

\* Remove: what comes after moves up by one place.
LEMMA Removal ==
  ASSUME NEW S, NEW s \in Seq(S), NEW k \in 1..Len(s)
  PROVE  LET r == RemoveAt(s, k)
         IN  /\ r \in Seq(S) /\ Len(r) = Len(s) - 1
             /\ \A j \in 1..Len(r) : r[j] = IF j < k THEN s[j] ELSE s[j + 1]
<1>. DEFINE front == SubSeq(s, 1, k - 1)
            rest == SubSeq(s, k + 1, Len(s))
<1>1. front \in Seq(S) /\ Len(front) = k - 1 /\ \A j \in 1..(k - 1) : front[j] = s[j]
  OBVIOUS
<1>2. rest \in Seq(S) /\ Len(rest) = Len(s) - k /\ \A j \in 1..(Len(s) - k) : rest[j] = s[k + j]
  OBVIOUS
<1>3. Len(s) \in Nat /\ RemoveAt(s, k) = front \o rest
  BY LenProperties DEF RemoveAt
<1>. HIDE DEF front, rest
<1>4. /\ front \o rest \in Seq(S)
      /\ Len(front \o rest) = Len(front) + Len(rest)
      /\ \A j \in 1..(Len(front) + Len(rest)) :
            (front \o rest)[j] = IF j <= Len(front) THEN front[j] ELSE rest[j - Len(front)]
  BY <1>1, <1>2, ConcatProperties
<1>5. Len(front \o rest) = Len(s) - 1
  BY <1>1, <1>2, <1>3, <1>4
<1>6. \A j \in 1..(Len(s) - 1) :
         (front \o rest)[j] = IF j < k THEN s[j] ELSE s[j + 1]
  <2> TAKE j \in 1..(Len(s) - 1)
  <2>1. (front \o rest)[j] = IF j <= Len(front) THEN front[j] ELSE rest[j - Len(front)]
    BY <1>1, <1>2, <1>3, <1>4
  <2>2. CASE j < k
    BY <1>1, <1>3, <2>1, <2>2
  <2>3. CASE ~(j < k)
    <3>1. j - (k - 1) \in 1..(Len(s) - k) /\ k + (j - (k - 1)) = j + 1
      BY <1>3, <2>3
    <3>. QED
      BY <1>1, <1>2, <1>3, <2>1, <2>3, <3>1
  <2>. QED
    BY <2>2, <2>3
<1>. QED
  BY <1>3, <1>4, <1>5, <1>6

\* Prepend keeps the order of a chain and what it holds.
LEMMA PrependOrder ==
  ASSUME NEW S, NEW s \in Seq(S), NEW x \in S
  PROVE  LET r == <<x>> \o s
         IN  /\ \A y : Contains(r, y) <=> y = x \/ Contains(s, y)
             /\ Distinct(s) /\ ~Contains(s, x) => Distinct(r)
             /\ \A y, z : Before(s, y, z) => Before(r, y, z)
             /\ \A y, z : Adjacent(s, y, z) => Adjacent(r, y, z)
<1>. DEFINE r == <<x>> \o s
<1>1. /\ Len(s) \in Nat /\ Len(r) = Len(s) + 1 /\ r[1] = x
      /\ \A i \in 1..Len(s) : r[i + 1] = s[i]
      /\ \A i \in 2..Len(r) : r[i] = s[i - 1]
  BY Prepending, LenProperties
<1>. HIDE DEF r
<1>2. ASSUME NEW y PROVE Contains(r, y) <=> y = x \/ Contains(s, y)
  <2>1. ASSUME NEW i \in 1..Len(s), s[i] = y PROVE Contains(r, y)
    BY <1>1, <2>1, i + 1 \in 1..Len(r) DEF Contains
  <2>2. Contains(r, x)
    BY <1>1, 1 \in 1..Len(r) DEF Contains
  <2>3. ASSUME NEW i \in 1..Len(r), r[i] = y, y # x PROVE Contains(s, y)
    BY <1>1, <2>3, i \in 2..Len(r), i - 1 \in 1..Len(s) DEF Contains
  <2>. QED
    BY <2>1, <2>2, <2>3 DEF Contains
<1>3. ASSUME Distinct(s), ~Contains(s, x) PROVE Distinct(r)
  <2>. SUFFICES ASSUME NEW i \in 1..Len(r), NEW j \in 1..Len(r), r[i] = r[j] PROVE i = j
    BY DEF Distinct
  <2>1. ASSUME NEW l \in 2..Len(r) PROVE r[l] # x /\ l - 1 \in 1..Len(s) /\ r[l] = s[l - 1]
    BY <1>1, <1>3 DEF Contains
  <2>2. i = 1 <=> j = 1
    <3>1. (i # 1 => i \in 2..Len(r)) /\ (j # 1 => j \in 2..Len(r))
      BY <1>1
    <3>2. (i # 1 => r[i] # x) /\ (j # 1 => r[j] # x)
      BY <2>1, <3>1
    <3>3. r[1] = x
      BY <1>1
    <3>. QED
      BY <3>2, <3>3
  <2>3. CASE i # 1 /\ j # 1
    <3>1. i \in 2..Len(r) /\ j \in 2..Len(r)
      BY <1>1, <2>3
    <3>2. i - 1 \in 1..Len(s) /\ j - 1 \in 1..Len(s) /\ s[i - 1] = s[j - 1]
      BY <2>1, <3>1
    <3>3. i - 1 = j - 1
      BY <1>3, <3>2 DEF Distinct
    <3>. QED
      BY <3>1, <3>3
  <2>. QED
    BY <2>2, <2>3
<1>4. ASSUME NEW y, NEW z, Before(s, y, z) PROVE Before(r, y, z)
  <2>1. PICK i \in 1..Len(s), j \in 1..Len(s) : i < j /\ s[i] = y /\ s[j] = z
    BY <1>4 DEF Before
  <2>. QED
    BY <1>1, <2>1, i + 1 \in 1..Len(r), j + 1 \in 1..Len(r) DEF Before
<1>5. ASSUME NEW y, NEW z, Adjacent(s, y, z) PROVE Adjacent(r, y, z)
  <2>1. PICK i \in 1..Len(s) : s[i] = y /\ i < Len(s) /\ s[i + 1] = z
    BY <1>5 DEF Adjacent
  <2>. QED
    BY <1>1, <2>1, i + 1 \in 1..Len(r), i + 1 \in 1..Len(s) DEF Adjacent
<1>. QED
  BY <1>2, <1>3, <1>4, <1>5 DEF r

\* Remove keeps the order of the rest of a chain.
LEMMA RemovalOrder ==
  ASSUME NEW S, NEW s \in Seq(S), NEW k \in 1..Len(s), Distinct(s)
  PROVE  LET r == RemoveAt(s, k)
         IN  /\ Distinct(r)
             /\ \A y : Contains(r, y) <=> Contains(s, y) /\ y # s[k]
             /\ \A y, z : Before(s, y, z) /\ s[k] \notin {y, z} => Before(r, y, z)
             /\ \A y, z : Adjacent(s, y, z) /\ s[k] \notin {y, z} => Adjacent(r, y, z)
<1>. DEFINE r == RemoveAt(s, k)
            old(j) == IF j < k THEN j ELSE j + 1
            now(i) == IF i < k THEN i ELSE i - 1
<1>1. /\ Len(s) \in Nat /\ Len(r) = Len(s) - 1
      /\ \A j \in 1..Len(r) : r[j] = IF j < k THEN s[j] ELSE s[j + 1]
  BY Removal, LenProperties
<1>. HIDE DEF r
<1>2. ASSUME NEW j \in 1..Len(r) PROVE old(j) \in 1..Len(s) /\ old(j) # k /\ r[j] = s[old(j)]
  BY <1>1
<1>3. ASSUME NEW i \in 1..Len(s), i # k PROVE now(i) \in 1..Len(r) /\ r[now(i)] = s[i]
  BY <1>1, <1>3
<1>4. Distinct(r)
  <2>. SUFFICES ASSUME NEW i \in 1..Len(r), NEW j \in 1..Len(r), r[i] = r[j] PROVE i = j
    BY DEF Distinct
  <2>1. old(i) = old(j)
    BY <1>2 DEF Distinct
  <2>. QED
    BY <1>1, <2>1
<1>5. ASSUME NEW y PROVE Contains(r, y) <=> Contains(s, y) /\ y # s[k]
  <2>1. ASSUME NEW j \in 1..Len(r), r[j] = y PROVE Contains(s, y) /\ y # s[k]
    BY <1>2, <2>1 DEF Contains, Distinct
  <2>2. ASSUME NEW i \in 1..Len(s), s[i] = y, y # s[k] PROVE Contains(r, y)
    BY <1>3, <2>2, i # k DEF Contains
  <2>. QED
    BY <2>1, <2>2 DEF Contains
<1>6. ASSUME NEW y, NEW z, Before(s, y, z), s[k] \notin {y, z} PROVE Before(r, y, z)
  <2>1. PICK i \in 1..Len(s), j \in 1..Len(s) : i < j /\ s[i] = y /\ s[j] = z
    BY <1>6 DEF Before
  <2>2. i # k /\ j # k /\ now(i) < now(j)
    BY <1>1, <1>6, <2>1
  <2>. QED
    BY <1>3, <2>1, <2>2 DEF Before
<1>7. ASSUME NEW y, NEW z, Adjacent(s, y, z), s[k] \notin {y, z} PROVE Adjacent(r, y, z)
  <2>1. PICK i \in 1..Len(s) : s[i] = y /\ i < Len(s) /\ s[i + 1] = z
    BY <1>7 DEF Adjacent
  <2>2. i # k /\ i + 1 # k /\ i + 1 \in 1..Len(s) /\ now(i + 1) = now(i) + 1
    BY <1>1, <1>7, <2>1
  <2>3. /\ now(i) \in 1..Len(r) /\ r[now(i)] = y
        /\ now(i) + 1 \in 1..Len(r) /\ r[now(i) + 1] = z
    BY <1>3, <2>1, <2>2
  <2>. HIDE DEF now
  <2>. QED
    BY <1>1, <2>3 DEF Adjacent
<1>. QED
  BY <1>4, <1>5, <1>6, <1>7 DEF r

\* The hand that steps over an entry has it behind itself, as all it had before.
LEMMA SwapOrder ==
  ASSUME NEW S, NEW s \in Seq(S), NEW p \in 1..Len(s), p < Len(s), Distinct(s)
  PROVE  LET r == [s EXCEPT ![p] = s[p + 1], ![p + 1] = s[p]]
         IN  /\ r \in Seq(S) /\ Distinct(r)
             /\ \A y : Contains(r, y) <=> Contains(s, y)
             /\ Before(r, s[p + 1], s[p])
             /\ \A y : Before(s, y, s[p]) => Before(r, y, s[p])
<1>. DEFINE r == [s EXCEPT ![p] = s[p + 1], ![p + 1] = s[p]]
            to(i) == IF i = p THEN p + 1 ELSE IF i = p + 1 THEN p ELSE i
<1>1. /\ Len(s) \in Nat /\ p + 1 \in 1..Len(s) /\ s[p] \in S /\ s[p + 1] \in S
  BY LenProperties, ElementOfSeq
<1>2. r \in Seq(S) /\ Len(r) = Len(s) /\ \A i \in 1..Len(s) : r[to(i)] = s[i] /\ r[i] = s[to(i)]
  <2>. DEFINE q == [s EXCEPT ![p] = s[p + 1]]
  <2>1. q \in Seq(S) /\ Len(q) = Len(s) /\ \A j \in 1..Len(s) : q[j] = IF j = p THEN s[p + 1] ELSE s[j]
    BY <1>1, ExceptSeq
  <2>2. r = [q EXCEPT ![p + 1] = s[p]]
    OBVIOUS
  <2>. HIDE DEF q, r
  <2>3. r \in Seq(S) /\ Len(r) = Len(q) /\ \A j \in 1..Len(q) : r[j] = IF j = p + 1 THEN s[p] ELSE q[j]
    BY <1>1, <2>1, <2>2, ExceptSeq
  <2>. QED
    BY <1>1, <2>1, <2>3
<1>. HIDE DEF r
<1>3. \A i \in 1..Len(s) : to(i) \in 1..Len(s) /\ to(to(i)) = i
  BY <1>1
<1>4. Distinct(r)
  <2>. SUFFICES ASSUME NEW i \in 1..Len(s), NEW j \in 1..Len(s), r[i] = r[j] PROVE i = j
    BY <1>2 DEF Distinct
  <2>1. to(i) = to(j)
    BY <1>2, <1>3 DEF Distinct
  <2>. QED
    BY <1>3, <2>1
<1>5. ASSUME NEW y PROVE Contains(r, y) <=> Contains(s, y)
  <2>. HIDE DEF to
  <2>. QED
    BY <1>2, <1>3 DEF Contains
<1>6. Before(r, s[p + 1], s[p])
  BY <1>1, <1>2, p < p + 1 DEF Before
<1>7. ASSUME NEW y, Before(s, y, s[p]) PROVE Before(r, y, s[p])
  <2>1. PICK i \in 1..Len(s), j \in 1..Len(s) : i < j /\ s[i] = y /\ s[j] = s[p]
    BY <1>7 DEF Before
  <2>2. j = p /\ i < p + 1
    BY <1>1, <2>1 DEF Distinct
  <2>3. r[i] = y /\ r[p + 1] = s[p]
    BY <1>1, <1>2, <2>1, <2>2
  <2>. QED
    BY <1>1, <1>2, <2>2, <2>3 DEF Before
<1>. QED
  BY <1>2, <1>4, <1>5, <1>6, <1>7 DEF r

-----------------------------------------------------------------------------
\* Remove of an entry leaves all else where it is, in its order.
LEMMA Unlinked ==
  ASSUME TypeOK, Once, Home, NEW e \in Entries, keyOf[e] # None, Unlink(e)
  PROVE  /\ chain' \in Chains /\ Once' /\ InTable(e)
         /\ \A b \in BucketIndexes : \A y : Contains(chain[b], y)' <=> Contains(chain[b], y) /\ y # e
         /\ \A b \in BucketIndexes : \A y, z : e \notin {y, z} =>
              /\ Before(chain[b], y, z) => Before(chain[b], y, z)'
              /\ Adjacent(chain[b], y, z) => Adjacent(chain[b], y, z)'
<1>. DEFINE h == BucketOf(keyOf[e])
<1>1. h \in BucketIndexes
  BY BucketType DEF TypeOK
<1>2. PICK k \in 1..Len(chain[h]) :
        chain[h][k] = e /\ chain' = [chain EXCEPT ![h] = RemoveAt(@, k)]
  BY <1>1, ChainShape DEF Unlink
<1>. HIDE DEF h
<1>. DEFINE r == RemoveAt(chain[h], k)
<1>3. /\ r \in Seq(Elements) /\ Distinct(r)
      /\ \A y : Contains(r, y) <=> Contains(chain[h], y) /\ y # e
      /\ \A y, z : Before(chain[h], y, z) /\ e \notin {y, z} => Before(r, y, z)
      /\ \A y, z : Adjacent(chain[h], y, z) /\ e \notin {y, z} => Adjacent(r, y, z)
  BY <1>1, <1>2, ChainShape, Removal, RemovalOrder DEF Once
<1>. HIDE DEF r
<1>4. chain[h] \in Seq(Elements) /\ chain \in Chains
  BY <1>1, ChainShape DEF TypeOK, Chains, Elements
<1>5. /\ chain' \in Chains /\ chain'[h] = r
      /\ \A b \in BucketIndexes \ {h} : chain'[b] = chain[b]
  BY <1>1, <1>2, <1>3, <1>4 DEF Chains, r
<1>6. Contains(chain[h], e)
  BY <1>2 DEF Contains
<1>7. \A b \in BucketIndexes \ {h} : ~Contains(chain[b], e)
  BY <1>1, <1>6 DEF Home
<1>8. ASSUME NEW b \in BucketIndexes
      PROVE  /\ Distinct(chain'[b])
             /\ \A y : Contains(chain'[b], y) <=> Contains(chain[b], y) /\ y # e
             /\ \A y, z : e \notin {y, z} =>
                  /\ Before(chain[b], y, z) => Before(chain'[b], y, z)
                  /\ Adjacent(chain[b], y, z) => Adjacent(chain'[b], y, z)
  <2>1. CASE b = h
    BY <1>3, <1>5, <2>1
  <2>2. CASE b # h
    BY <1>5, <1>7, <2>2 DEF Once
  <2>. QED
    BY <2>1, <2>2
<1>9. Once'
  BY <1>8 DEF Once, Distinct
<1>10. InTable(e)
  BY <1>1, <1>6 DEF InTable
<1>11. \A b \in BucketIndexes : \A y, z : e \notin {y, z} =>
              /\ Before(chain[b], y, z) => Before(chain[b], y, z)'
              /\ Adjacent(chain[b], y, z) => Adjacent(chain[b], y, z)'
  BY <1>8 DEF Before, Adjacent
<1>12. \A b \in BucketIndexes : \A y : Contains(chain[b], y)' <=> Contains(chain[b], y) /\ y # e
  BY <1>8 DEF Contains
<1>. QED
  BY <1>5, <1>9, <1>10, <1>11, <1>12

\* Prepend of an entry or of the hand.
LEMMA Prepended ==
  ASSUME TypeOK, Once, NEW h \in BucketIndexes, NEW x \in Elements, ~Contains(chain[h], x),
         chain' = [chain EXCEPT ![h] = <<x>> \o @]
  PROVE  /\ chain' \in Chains /\ Once'
         /\ \A b \in BucketIndexes : \A y :
              Contains(chain[b], y)' <=> Contains(chain[b], y) \/ (b = h /\ y = x)
         /\ \A b \in BucketIndexes : \A y, z :
              /\ Before(chain[b], y, z) => Before(chain[b], y, z)'
              /\ Adjacent(chain[b], y, z) => Adjacent(chain[b], y, z)'
<1>. DEFINE r == <<x>> \o chain[h]
<1>1. chain[h] \in Seq(Elements) /\ chain \in Chains
  BY ChainShape DEF TypeOK, Chains, Elements
<1>2. /\ r \in Seq(Elements) /\ Distinct(r)
      /\ \A y : Contains(r, y) <=> y = x \/ Contains(chain[h], y)
      /\ \A y, z : Before(chain[h], y, z) => Before(r, y, z)
      /\ \A y, z : Adjacent(chain[h], y, z) => Adjacent(r, y, z)
  BY <1>1, Prepending, PrependOrder DEF Once
<1>. HIDE DEF r
<1>3. /\ chain' \in Chains /\ chain'[h] = r
      /\ \A b \in BucketIndexes \ {h} : chain'[b] = chain[b]
  BY <1>1, <1>2 DEF Chains, r
<1>4. ASSUME NEW b \in BucketIndexes
      PROVE  /\ Distinct(chain'[b])
             /\ \A y : Contains(chain'[b], y) <=> Contains(chain[b], y) \/ (b = h /\ y = x)
             /\ \A y, z :
                  /\ Before(chain[b], y, z) => Before(chain'[b], y, z)
                  /\ Adjacent(chain[b], y, z) => Adjacent(chain'[b], y, z)
  <2>1. CASE b = h
    BY <1>2, <1>3, <2>1
  <2>2. CASE b # h
    BY <1>3, <2>2 DEF Once
  <2>. QED
    BY <2>1, <2>2
<1>5. Once'
  BY <1>4 DEF Once, Distinct
<1>6. \A b \in BucketIndexes : \A y, z :
              /\ Before(chain[b], y, z) => Before(chain[b], y, z)'
              /\ Adjacent(chain[b], y, z) => Adjacent(chain[b], y, z)'
  BY <1>4 DEF Before, Adjacent
<1>7. \A b \in BucketIndexes : \A y :
         Contains(chain[b], y)' <=> Contains(chain[b], y) \/ (b = h /\ y = x)
  BY <1>4 DEF Contains
<1>. QED
  BY <1>3, <1>5, <1>6, <1>7

\* AdvanceInvalidElement changes the place of the hand alone: what it stood before
\* is behind it, or it has left the bucket.
LEMMA HandMoved ==
  ASSUME TypeOK, Once, Home, NEW w \in Workers, FAdvance(w), HandInserted
  PROVE  /\ chain' \in Chains /\ Once' /\ hand \in BucketIndexes
         /\ \A b \in BucketIndexes : \A e \in Entries : Contains(chain[b], e)' <=> Contains(chain[b], e)
         /\ \/ /\ hand' = hand /\ at' = [at EXCEPT ![w] = "look"]
               /\ \A b \in BucketIndexes : HandIn(b)' <=> HandIn(b)
               /\ \A e \in Entries : Before(chain[hand], e, Marker) \/ Pointed(e)
                                       => Before(chain[hand], e, Marker)'
            \/ /\ hand' = hand + 1 /\ at' = [at EXCEPT ![w] = "insertHand"]
               /\ ~HandInserted'
<1>1. hand \in BucketIndexes /\ HandIn(hand)
  BY DEF HandInserted, Home
<1>2. PICK p \in 1..Len(chain[hand]) :
        /\ chain[hand][p] = Marker
        /\ IF p + 1 < Len(chain[hand])
           THEN /\ chain' = [chain EXCEPT ![hand] =
                               [@ EXCEPT ![p] = chain[hand][p + 1], ![p + 1] = Marker]]
                /\ Goto(w, "look") /\ UNCHANGED hand
           ELSE /\ chain' = [chain EXCEPT ![hand] = RemoveAt(@, p)]
                /\ hand' = hand + 1
                /\ Goto(w, "insertHand")
  BY <1>1, ChainShape DEF FAdvance
<1>3. /\ chain \in Chains /\ chain[hand] \in Seq(Elements) /\ Len(chain[hand]) \in Nat
      /\ Distinct(chain[hand])
  BY <1>1, ChainShape DEF TypeOK, Chains, Elements, Once
<1>4. \A b \in BucketIndexes \ {hand} : ~Contains(chain[b], Marker)
  BY DEF Home, HandIn
<1>5. CASE p + 1 < Len(chain[hand])
  <2>. DEFINE r == [chain[hand] EXCEPT ![p] = chain[hand][p + 1], ![p + 1] = chain[hand][p]]
  <2>0. /\ p \in 1..Len(chain[hand]) /\ p < Len(chain[hand])
        /\ chain[hand] \in Seq(Elements) /\ Distinct(chain[hand])
    BY <1>3, <1>5
  <2>1. /\ r \in Seq(Elements) /\ Distinct(r)
        /\ \A y : Contains(r, y) <=> Contains(chain[hand], y)
        /\ Before(r, chain[hand][p + 1], chain[hand][p])
        /\ \A y : Before(chain[hand], y, chain[hand][p]) => Before(r, y, chain[hand][p])
    BY <2>0, SwapOrder
  <2>. HIDE DEF r
  <2>2. /\ chain' \in Chains /\ chain'[hand] = r /\ hand' = hand
        /\ \A b \in BucketIndexes \ {hand} : chain'[b] = chain[b]
    BY <1>1, <1>2, <1>3, <1>5, <2>1 DEF Chains, r
  <2>3. \A b \in BucketIndexes : Distinct(chain'[b])
    BY <2>1, <2>2 DEF Once
  <2>4. \A b \in BucketIndexes : \A y : Contains(chain'[b], y) <=> Contains(chain[b], y)
    BY <2>1, <2>2
  <2>5. ASSUME NEW e \in Entries, Before(chain[hand], e, Marker) \/ Pointed(e)
        PROVE  Before(chain'[hand], e, Marker)
    <3>1. CASE Pointed(e)
      <4>1. PICK q \in 1..Len(chain[hand]) : chain[hand][q] = Marker /\ chain[hand][q + 1] = e
        BY <1>1, <3>1, ChainShape DEF Pointed
      <4>2. q = p
        BY <1>2, <1>3, <4>1 DEF Distinct
      <4>. QED
        BY <2>1, <2>2, <4>1, <4>2
    <3>. QED
      BY <1>2, <2>1, <2>2, <2>5, <3>1
  <2>6. at' = [at EXCEPT ![w] = "look"]
    BY <1>2, <1>5 DEF Goto
  <2>7. Once'
    BY <2>3 DEF Once, Distinct
  <2>8. \A b \in BucketIndexes : \A e \in Entries : Contains(chain[b], e)' <=> Contains(chain[b], e)
    BY <2>4 DEF Contains
  <2>9. \A b \in BucketIndexes : HandIn(b)' <=> HandIn(b)
    BY <2>4 DEF HandIn, Contains
  <2>10. \A e \in Entries : Before(chain[hand], e, Marker) \/ Pointed(e)
                             => Before(chain[hand], e, Marker)'
    BY <2>2, <2>5 DEF Before
  <2>. QED
    BY <1>1, <2>2, <2>6, <2>7, <2>8, <2>9, <2>10
<1>6. CASE ~(p + 1 < Len(chain[hand]))
  <2>. DEFINE r == RemoveAt(chain[hand], p)
  <2>1. /\ r \in Seq(Elements) /\ Distinct(r)
        /\ \A y : Contains(r, y) <=> Contains(chain[hand], y) /\ y # Marker
    BY <1>2, <1>3, Removal, RemovalOrder
  <2>. HIDE DEF r
  <2>2. /\ chain' \in Chains /\ chain'[hand] = r /\ hand' = hand + 1
        /\ \A b \in BucketIndexes \ {hand} : chain'[b] = chain[b]
    BY <1>1, <1>2, <1>3, <1>6, <2>1 DEF Chains, r
  <2>3. \A b \in BucketIndexes : Distinct(chain'[b])
    BY <2>1, <2>2 DEF Once
  <2>4. \A b \in BucketIndexes : \A e \in Entries : Contains(chain'[b], e) <=> Contains(chain[b], e)
    BY <2>1, <2>2, ElementsAssumption
  <2>5. \A b \in BucketIndexes : ~Contains(chain'[b], Marker)
    BY <1>4, <2>1, <2>2
  <2>6. at' = [at EXCEPT ![w] = "insertHand"]
    BY <1>2, <1>6 DEF Goto
  <2>7. Once'
    BY <2>3 DEF Once, Distinct
  <2>8. \A b \in BucketIndexes : \A e \in Entries : Contains(chain[b], e)' <=> Contains(chain[b], e)
    BY <2>4 DEF Contains
  <2>9. ~HandInserted'
    BY <2>5 DEF HandInserted, HandIn, Contains
  <2>. QED
    BY <1>1, <2>2, <2>6, <2>7, <2>8, <2>9
<1>. QED
  BY <1>5, <1>6

-----------------------------------------------------------------------------
\* Counting.
LEMMA HoldersCount ==
  ASSUME NEW held, NEW e \in Entries
  PROVE  /\ Holders(held, e) \in Nat
         /\ Holders(held, e) = 0 <=> \A w \in Workers : held[w] # e
<1>. DEFINE H == {w \in Workers : held[w] = e}
<1>1. IsFiniteSet(H)
  BY FiniteAssumption, FS_Subset
<1>. QED
  BY <1>1, FS_CardinalityType, FS_EmptySet DEF Holders

\* A worker that changes what it holds changes the number of holders by itself.
LEMMA HoldersUpdate ==
  ASSUME NEW held, NEW now, NEW e \in Entries, NEW w \in Workers,
         \A v \in Workers \ {w} : now[v] = held[v]
  PROVE  Holders(now, e)
           = Holders(held, e) - (IF held[w] = e THEN 1 ELSE 0) + (IF now[w] = e THEN 1 ELSE 0)
<1>. DEFINE H == {v \in Workers : held[v] = e}
            G == {v \in Workers : now[v] = e}
<1>1. IsFiniteSet(H) /\ Cardinality(H) \in Nat
  BY FiniteAssumption, FS_Subset, FS_CardinalityType
<1>4. w \in H <=> held[w] = e
  OBVIOUS
<1>5. Holders(held, e) = Cardinality(H) /\ Holders(now, e) = Cardinality(G)
  BY DEF Holders
<1>. HIDE DEF H, G
<1>2. CASE now[w] = e
  <2>1. G = H \union {w}
    BY <1>2 DEF H, G
  <2>2. Cardinality(H \union {w}) =
          IF w \in H THEN Cardinality(H) ELSE Cardinality(H) + 1
    BY <1>1, FS_AddElement
  <2>. QED
    BY <1>1, <1>2, <1>4, <1>5, <2>1, <2>2
<1>3. CASE now[w] # e
  <2>1. G = H \ {w}
    BY <1>3 DEF H, G
  <2>2. Cardinality(H \ {w}) = IF w \in H THEN Cardinality(H) - 1 ELSE Cardinality(H)
    BY <1>1, FS_RemoveElement
  <2>. QED
    BY <1>1, <1>3, <1>4, <1>5, <2>1, <2>2
<1>. QED
  BY <1>2, <1>3

\* Two holders are counted twice.
LEMMA HoldersTwo ==
  ASSUME NEW held \in [Workers -> EntryOrNone], NEW e \in Entries,
         NEW v \in Workers, NEW w \in Workers, v # w, held[v] = e, held[w] = e
  PROVE  Holders(held, e) >= 2
<1>. DEFINE less == [held EXCEPT ![w] = None]
<1>1. /\ less[v] = e /\ less[w] # e
      /\ \A x \in Workers \ {w} : less[x] = held[x]
  BY ElementsAssumption DEF EntryOrNone
<1>. HIDE DEF less
<1>2. Holders(less, e) = Holders(held, e) - 1
  BY <1>1, HoldersUpdate, HoldersCount
<1>. QED
  BY <1>1, <1>2, HoldersCount

\* The cache owns an entry in its table or on its way there.
Owned(e) == InTable(e) \/ \E w \in Workers : new[w] = e

\* RefsExact, by who owns and holds the entry.
LEMMA Counts ==
  ASSUME RefsExact, NEW e \in Entries
  PROVE  /\ refs[e] = (IF Owned(e) THEN 1 ELSE 0)
                       + Holders(accessor, e) + Holders(previous, e) + Holders(customer, e)
         /\ Holders(accessor, e) \in Nat /\ Holders(previous, e) \in Nat
         /\ Holders(customer, e) \in Nat
  BY HoldersCount DEF RefsExact, Owned

\* An entry in the table with its own reference only is held by nobody.
LEMMA Unheld ==
  ASSUME RefsExact, EntriesOK, NEW e \in Entries, InTable(e), refs[e] = 1
  PROVE  \A w \in Workers : accessor[w] # e /\ previous[w] # e /\ customer[w] # e /\ new[w] # e
<1>1. /\ Holders(accessor, e) = 0 /\ Holders(previous, e) = 0 /\ Holders(customer, e) = 0
  BY Counts DEF Owned
<1>2. \A w \in Workers : new[w] # e
  BY ElementsAssumption DEF EntriesOK
<1>. QED
  BY <1>1, <1>2, HoldersCount

\* Who finds one more reference beside its own knows the holder: itself.
LEMMA LastHolder ==
  ASSUME RefsExact, TypeOK, EntriesOK, NEW e \in Entries, refs[e] = 2,
         NEW w \in Workers, accessor[w] = e \/ previous[w] = e
  PROVE  /\ \A v \in Workers \ {w} : accessor[v] # e /\ previous[v] # e
         /\ \A v \in Workers : customer[v] # e /\ new[v] # e
         /\ accessor[w] # e \/ previous[w] # e
<1>1. InTable(e)
  BY ElementsAssumption DEF EntriesOK
<1>2. Holders(accessor, e) + Holders(previous, e) + Holders(customer, e) = 1
  BY <1>1, Counts DEF Owned
<1>3. \A v \in Workers : new[v] # e
  BY <1>1, ElementsAssumption DEF EntriesOK
<1>4. /\ Holders(accessor, e) = 0 <=> \A v \in Workers : accessor[v] # e
      /\ Holders(previous, e) = 0 <=> \A v \in Workers : previous[v] # e
      /\ Holders(customer, e) = 0 <=> \A v \in Workers : customer[v] # e
  BY HoldersCount
<1>5. /\ Holders(accessor, e) \in Nat /\ Holders(previous, e) \in Nat
      /\ Holders(customer, e) \in Nat
  BY HoldersCount
<1>6. /\ Holders(accessor, e) < 2 => \A u, v \in Workers : accessor[u] = e /\ accessor[v] = e => u = v
      /\ Holders(previous, e) < 2 => \A u, v \in Workers : previous[u] = e /\ previous[v] = e => u = v
  <2>1. ASSUME NEW held \in [Workers -> EntryOrNone], Holders(held, e) < 2,
               NEW u \in Workers, NEW v \in Workers, held[u] = e, held[v] = e
        PROVE  u = v
    BY <2>1, HoldersTwo, HoldersCount
  <2>. QED
    BY <2>1 DEF TypeOK
<1>. QED
  BY <1>2, <1>3, <1>4, <1>5, <1>6

\* A held entry has the reference of the cache and that of the holder.
LEMMA Held ==
  ASSUME RefsExact, EntriesOK, NEW e \in Entries, NEW w \in Workers,
         e \in {accessor[w], previous[w], customer[w]}
  PROVE  Owned(e) /\ refs[e] >= 2
<1>1. Owned(e)
  BY ElementsAssumption DEF EntriesOK, Owned
<1>2. Holders(accessor, e) # 0 \/ Holders(previous, e) # 0 \/ Holders(customer, e) # 0
  BY HoldersCount
<1>. QED
  BY <1>1, <1>2, Counts

\* The size of an entry in the table can be taken off.
LEMMA SizeLeft ==
  ASSUME TypeOK, SizeExact, NEW e \in Entries, InTable(e)
  PROVE  size - EntrySize \in Nat
<1>1. IsFiniteSet(Cached) /\ e \in Cached
  BY FiniteAssumption, FS_Subset DEF Cached
<1>2. Cardinality(Cached) \in Nat /\ Cardinality(Cached) # 0
  BY <1>1, FS_CardinalityType, FS_EmptySet
<1>3. EntrySize * Cardinality(Cached) >= EntrySize
  <2>1. PICK n \in Nat : Cardinality(Cached) = n + 1
    BY <1>2, Cardinality(Cached) - 1 \in Nat
  <2>2. EntrySize * (n + 1) = EntrySize * n + EntrySize /\ EntrySize * n \in Nat
    BY SizesAssumption
  <2>. QED
    BY <2>1, <2>2, SizesAssumption
<1>4. EntrySize * Cardinality(Cached) \in Nat
  BY <1>2, SizesAssumption
<1>. QED
  BY <1>3, <1>4, SizesAssumption DEF SizeExact, TypeOK

-----------------------------------------------------------------------------
\* ReleaseEntry destroys an entry that only the table and the caller refer to.
Destroyed(e) == Unlink(e) /\ DestroyCacheEntry(e)

\* Either the entry stays, or nobody but the caller and the table referred to it.
LEMMA Releasing ==
  ASSUME IInv, NEW w \in Workers, NEW e \in Entries,
         accessor[w] = e \/ previous[w] = e, ReleaseEntry(e)
  PROVE  /\ InTable(e) /\ keyOf[e] # None /\ refs[e] \in Nat /\ refs[e] >= 2
         /\ \/ e \in marked /\ refs[e] = 2 /\ Destroyed(e)
            \/ DecRefCount(e)
<1>1. refs[e] \in Nat /\ refs[e] >= 2
  BY Held DEF IInv, TypeOK
<1>2. InTable(e)
  BY ElementsAssumption DEF IInv, EntriesOK
<1>3. keyOf[e] # None
  BY <1>2 DEF IInv, Home, InTable
<1>. QED
  BY <1>1, <1>2, <1>3 DEF ReleaseEntry, Destroyed, EXPECTED_REF_COUNT_FOR_DELETE

\* The destroyed entry's fields keep their types.
LEMMA DestroyedTypes ==
  ASSUME TypeOK, Once, Home, NEW e \in Entries, keyOf[e] # None, Destroyed(e)
  PROVE  /\ chain' \in [BucketIndexes -> Seq(Entries \union {Marker})]
         /\ keyOf' \in [Entries -> Keys \union {None}]
         /\ refs' \in [Entries -> Nat]
         /\ gclock' \in [Entries -> 0..GClockInit]
         /\ marked' \subseteq Entries /\ shown' \subseteq Entries
<1>1. chain' \in [BucketIndexes -> Seq(Entries \union {Marker})]
  BY Unlinked DEF Destroyed, Chains, Elements
<1>. QED
  BY <1>1, SizesAssumption DEF Destroyed, DestroyCacheEntry, TypeOK

\* ReleaseEntry keeps the types.
LEMMA ReleasedTypes ==
  ASSUME IInv, NEW w \in Workers, NEW e \in Entries,
         accessor[w] = e \/ previous[w] = e, ReleaseEntry(e)
  PROVE  /\ chain' \in [BucketIndexes -> Seq(Entries \union {Marker})]
         /\ keyOf' \in [Entries -> Keys \union {None}]
         /\ refs' \in [Entries -> Nat]
         /\ gclock' \in [Entries -> 0..GClockInit]
         /\ marked' \subseteq Entries /\ shown' \subseteq Entries
<1>1. keyOf[e] # None /\ refs[e] \in Nat /\ refs[e] >= 2 /\ (Destroyed(e) \/ DecRefCount(e))
  BY Releasing
<1>2. CASE Destroyed(e)
  BY <1>1, <1>2, DestroyedTypes DEF IInv
<1>3. CASE DecRefCount(e)
  BY <1>1, <1>3 DEF DecRefCount, entryVars, IInv, TypeOK
<1>. QED
  BY <1>1, <1>2, <1>3

-----------------------------------------------------------------------------
\* What the searches of a chain find is an entry of the table.
Found(e) == InTable(e) /\ keyOf[e] # None

\* A place of a chain without the hand has an entry of the table.
LEMMA PlaceFound ==
  ASSUME TypeOK, Home, NEW b \in BucketIndexes, NEW j \in 1..Len(chain[b]), chain[b][j] # Marker
  PROVE  chain[b][j] \in Entries /\ Found(chain[b][j])
<1>1. chain[b][j] \in Entries
  BY ChainShape DEF Elements
<1>2. Contains(chain[b], chain[b][j])
  BY DEF Contains
<1>. QED
  BY <1>1, <1>2 DEF Home, InTable, Found

FoundUnmarked(w, e) ==
  /\ Found(e)
  /\ refs' = [refs EXCEPT ![e] = @ + 1]
  /\ gclock' = [gclock EXCEPT ![e] = GClockInit]
  /\ accessor' = [accessor EXCEPT ![w] = e]

\* Lookup pins an entry of the table.
LEMMA Finds ==
  ASSUME IInv, NEW w \in Workers, NEW k \in kind.keys, Lookup(w, k)
  PROVE  \E e \in Entries : FoundUnmarked(w, e)
<1>1. BucketOf(k) \in BucketIndexes
  BY KindsAssumption, BucketType DEF IInv, TypeOK
<1>2. PICK j \in 1..Len(chain[BucketOf(k)]) :
        LET e == chain[BucketOf(k)][j]
        IN  /\ e # Marker
            /\ refs' = [refs EXCEPT ![e] = @ + 1]
            /\ gclock' = [gclock EXCEPT ![e] = GClockInit]
            /\ accessor' = [accessor EXCEPT ![w] = e]
  BY DEF Lookup, Unmarked, Matches, IsFirst
<1>. QED
  BY <1>1, <1>2, PlaceFound DEF IInv, FoundUnmarked

FoundNext(w, e) ==
  /\ Found(e) /\ e # accessor[w]
  /\ refs' = [refs EXCEPT ![e] = @ + 1]
  /\ accessor' = [accessor EXCEPT ![w] = e]

\* PceNext pins an entry of the table other than the one it leaves.
LEMMA FindsNext ==
  ASSUME IInv, NEW w \in Workers, AccessNext(w)
  PROVE  \E e \in Entries : FoundNext(w, e)
<1>. DEFINE b == BucketOf(keyOf[accessor[w]])
<1>1. accessor[w] \in Entries /\ Owned(accessor[w])
  BY Held DEF IInv, TypeOK, AccessNext, EntryOrNone
<1>2. keyOf[accessor[w]] \in Keys
  BY <1>1 DEF IInv, EntriesOK, TypeOK, InTable, Home, AccessNext
<1>3. b \in BucketIndexes
  BY <1>2, BucketType
<1>. HIDE DEF b
<1>4. PICK i \in DOMAIN chain[b] :
        /\ chain[b][i] = accessor[w]
        /\ \E j \in (i + 1)..Len(chain[b]) :
            /\ chain[b][j] # Marker
            /\ refs' = [refs EXCEPT ![chain[b][j]] = @ + 1]
            /\ accessor' = [accessor EXCEPT ![w] = chain[b][j]]
  BY DEF AccessNext, Unmarked, Matches, IsFirst, b
<1>5. i \in 1..Len(chain[b]) /\ Len(chain[b]) \in Nat
  BY <1>3, ChainShape DEF IInv
<1>6. PICK j \in 1..Len(chain[b]) :
            /\ i # j /\ chain[b][j] # Marker
            /\ refs' = [refs EXCEPT ![chain[b][j]] = @ + 1]
            /\ accessor' = [accessor EXCEPT ![w] = chain[b][j]]
  <2>1. PICK j \in (i + 1)..Len(chain[b]) :
            /\ chain[b][j] # Marker
            /\ refs' = [refs EXCEPT ![chain[b][j]] = @ + 1]
            /\ accessor' = [accessor EXCEPT ![w] = chain[b][j]]
    BY <1>4
  <2>2. j \in 1..Len(chain[b]) /\ i # j
    BY <1>5
  <2>. QED
    BY <2>1, <2>2
<1>7. chain[b][j] # accessor[w]
  BY <1>3, <1>4, <1>5, <1>6 DEF IInv, Once, Distinct
<1>. QED
  BY <1>3, <1>6, <1>7, PlaceFound DEF IInv, FoundNext

FoundOther(w, other) ==
  LET e == new[w]
  IN  /\ e \in Entries /\ Found(other) /\ other # e
      /\ ~InTable(e) /\ keyOf[e] # None /\ customer[w] = e
      /\ refs' = [refs EXCEPT ![e] = 0, ![other] = @ + 1]
      /\ gclock' = [gclock EXCEPT ![e] = 0, ![other] = GClockInit]
      /\ accessor' = [accessor EXCEPT ![w] = other]

\* An insertion that finds its key pins the entry of the table, not its own.
LEMMA FindsOther ==
  ASSUME IInv, NEW w \in Workers, InsertFindsOther(w)
  PROVE  \E other \in Entries : FoundOther(w, other)
<1>. DEFINE e == new[w]
            b == BucketOf(keyOf[e])
<1>1. e \in Entries /\ ~InTable(e) /\ keyOf[e] # None /\ customer[w] = e
  BY DEF IInv, TypeOK, EntryOrNone, InsertFindsOther, StagesOK, EntriesOK
<1>2. b \in BucketIndexes
  BY <1>1, BucketType DEF IInv, TypeOK
<1>. HIDE DEF b
<1>3. PICK j \in 1..Len(chain[b]) :
            /\ chain[b][j] # Marker
            /\ refs' = [refs EXCEPT ![e] = 0, ![chain[b][j]] = @ + 1]
            /\ gclock' = [gclock EXCEPT ![e] = 0, ![chain[b][j]] = GClockInit]
            /\ accessor' = [accessor EXCEPT ![w] = chain[b][j]]
  BY DEF InsertFindsOther, Matches, IsFirst, b
<1>4. chain[b][j] \in Entries /\ Found(chain[b][j])
  BY <1>2, <1>3, PlaceFound DEF IInv
<1>5. chain[b][j] # e
  BY <1>1, <1>4 DEF Found
<1>. QED
  BY <1>1, <1>3, <1>4, <1>5 DEF FoundOther

\* A new entry comes to the head of the chain of its key.
LEMMA InsertedTable ==
  ASSUME IInv, NEW w \in Workers, InsertNew(w)
  PROVE  /\ new[w] \in Entries /\ ~InTable(new[w]) /\ keyOf[new[w]] # None
         /\ customer[w] = new[w]
         /\ \A v \in Workers \ {w} : customer[v] # new[w] /\ new[v] # new[w]
         /\ BucketOf(keyOf[new[w]]) \in BucketIndexes
         /\ chain' \in Chains /\ Once'
         /\ \A b \in BucketIndexes : \A y :
              Contains(chain[b], y)' <=>
                Contains(chain[b], y) \/ (b = BucketOf(keyOf[new[w]]) /\ y = new[w])
         /\ \A b \in BucketIndexes : \A y, z :
              /\ Before(chain[b], y, z) => Before(chain[b], y, z)'
              /\ Adjacent(chain[b], y, z) => Adjacent(chain[b], y, z)'
<1>. DEFINE e == new[w]
            h == BucketOf(keyOf[e])
<1>1. /\ e \in Entries /\ ~InTable(e) /\ keyOf[e] # None /\ customer[w] = e
      /\ \A v \in Workers \ {w} : customer[v] # e /\ new[v] # e
  BY DEF IInv, TypeOK, EntryOrNone, InsertNew, StagesOK, EntriesOK
<1>2. h \in BucketIndexes
  BY <1>1, BucketType DEF IInv, TypeOK
<1>3. ~Contains(chain[h], e) /\ e \in Elements
  BY <1>1, <1>2 DEF InTable, Elements
<1>4. chain' = [chain EXCEPT ![h] = <<e>> \o @]
  BY DEF InsertNew
<1>. HIDE DEF e, h
<1>5. TypeOK /\ Once
  BY DEF IInv
<1>6. /\ chain' \in Chains /\ Once'
      /\ \A b \in BucketIndexes : \A y :
           Contains(chain[b], y)' <=> Contains(chain[b], y) \/ (b = h /\ y = e)
      /\ \A b \in BucketIndexes : \A y, z :
           /\ Before(chain[b], y, z) => Before(chain[b], y, z)'
           /\ Adjacent(chain[b], y, z) => Adjacent(chain[b], y, z)'
  BY <1>2, <1>3, <1>4, <1>5, Prepended
<1>. QED
  BY <1>1, <1>2, <1>6 DEF e, h

\* The hand comes to the head of a chain.
LEMMA HandInsertion ==
  ASSUME IInv, NEW w \in Workers, InsertHand(w)
  PROVE  \/ /\ chain' \in Chains /\ Once' /\ hand \in BucketIndexes
            /\ \A b \in BucketIndexes : \A y :
                 Contains(chain[b], y)' <=> Contains(chain[b], y) \/ (b = hand /\ y = Marker)
            /\ at' = [at EXCEPT ![w] = "look"] /\ UNCHANGED <<hand, round, shown>>
         \/ /\ chain' = chain
            /\ \/ hand < Buckets /\ hand' = hand + 1 /\ UNCHANGED <<at, round, shown>>
               \/ /\ hand' = 0 /\ shown' = {} /\ round' = round + 1
                  /\ at' = [at EXCEPT ![w] = IF round = GClockInit THEN "unlock" ELSE "round"]
<1>0. TypeOK /\ Once /\ ~HandInserted
  BY DEF IInv, EvictionOK, InsertHand
<1>1. CASE hand < Buckets /\ chain[hand] # <<>>
  <2>1. hand \in BucketIndexes /\ Marker \in Elements
    BY <1>0, <1>1, KeysAssumption DEF TypeOK, BucketIndexes, Elements
  <2>2. ~Contains(chain[hand], Marker)
    BY <1>0, <2>1 DEF HandInserted, HandIn
  <2>3. /\ chain' = [chain EXCEPT ![hand] = <<Marker>> \o @]
        /\ at' = [at EXCEPT ![w] = "look"] /\ UNCHANGED <<hand, round, shown>>
    BY <1>1 DEF InsertHand, Goto
  <2>4. /\ chain' \in Chains /\ Once'
        /\ \A b \in BucketIndexes : \A y :
             Contains(chain[b], y)' <=> Contains(chain[b], y) \/ (b = hand /\ y = Marker)
    BY <1>0, <2>1, <2>2, <2>3, Prepended
  <2>. QED
    BY <2>1, <2>3, <2>4
<1>2. CASE ~(hand < Buckets /\ chain[hand] # <<>>)
  BY <1>2 DEF InsertHand, Goto
<1>. QED
  BY <1>1, <1>2

\* The hand shows an entry of the table, in its bucket.
LEMMA PointedInTable ==
  ASSUME IInv, NEW w \in Workers, at[w] = "look"
  PROVE  /\ hand \in BucketIndexes /\ HandIn(hand)
         /\ \A e \in Entries : Pointed(e) =>
              /\ InTable(e) /\ Contains(chain[hand], e)
              /\ keyOf[e] # None /\ BucketOf(keyOf[e]) = hand
<1>1. hand \in BucketIndexes /\ HandIn(hand)
  BY DEF IInv, EvictionOK, HandInserted, Home
<1>2. ASSUME NEW e \in Entries, Pointed(e) PROVE Contains(chain[hand], e)
  <2>1. PICK p \in 1..Len(chain[hand]) : p < Len(chain[hand]) /\ chain[hand][p + 1] = e
    BY <1>1, <1>2, ChainShape DEF Pointed, IInv
  <2>. QED
    BY <1>1, <2>1, ChainShape, p + 1 \in 1..Len(chain[hand]) DEF Contains, IInv
<1>. QED
  BY <1>1, <1>2 DEF InTable, IInv, Home

\* A worker that evicts does so alone, with the hand in a bucket or at the start.
LEMMA EvictsAlone ==
  ASSUME IInv, NEW w \in Workers, at[w] \in Evicting
  PROVE  /\ evictor = w /\ \A v \in Workers \ {w} : at[v] \notin Evicting
         /\ at[w] # "insertHand" => hand \in BucketIndexes
<1>1. evictor = w /\ \A v \in Workers \ {w} : at[v] \notin Evicting
  BY DEF IInv, EvictionOK
<1>2. at[w] # "insertHand" => hand # Buckets
  BY <1>1 DEF IInv, EvictionOK, Evicting
<1>. QED
  BY <1>1, <1>2, KeysAssumption DEF IInv, TypeOK, BucketIndexes

\* The hand is inserted where it stands or nowhere.
LEMMA HandStep ==
  ASSUME IInv, NEW w \in Workers, FAdvance(w)
  PROVE  /\ hand \in BucketIndexes
         /\ ~HandInserted => Goto(w, "insertHand") /\ UNCHANGED <<chain, hand>>
<1>1. hand \in BucketIndexes
  BY EvictsAlone DEF FAdvance, Evicting
<1>2. ~HandInserted => ~(\E p \in DOMAIN chain[hand] : chain[hand][p] = Marker)
  BY <1>1, ChainShape DEF HandInserted, HandIn, Contains, IInv
<1>. QED
  BY <1>1, <1>2 DEF FAdvance

USE DEF EntryOrNone, Goto
\* Each step keeps the types; above all no count or size goes below zero.
LEMMA TypesNext == IInv /\ [Next]_vars => TypeOK'
<1>. SUFFICES ASSUME IInv, [Next]_vars PROVE TypeOK'
  OBVIOUS
<1>0. TypeOK /\ Once /\ Home
  BY DEF IInv
<1>1. ASSUME UNCHANGED vars PROVE TypeOK'
  BY <1>0, <1>1 DEF TypeOK, vars, entryVars, sizeVars, handVars, evictVars, workerVars
<1>2. ASSUME NEW w \in Workers, UserStep(w) PROVE TypeOK'
  <2>. USE DEF entryVars, sizeVars, handVars, evictVars, workerVars, Stages
  <2>0. kind' = kind /\ kind \in Kinds
    BY <1>0, <1>2 DEF UserStep, TypeOK
  <2>1. ASSUME NEW e \in kind.entries, NEW k \in kind.keys, StartInsert(w, e, k) PROVE TypeOK'
    <3>1. e \in Entries /\ k \in Keys
      BY <2>0, KindsAssumption
    <3>. QED
      BY <1>0, <2>0, <2>1, <3>1, SizesAssumption DEF StartInsert, TypeOK
  <2>2. ASSUME NEW k \in kind.keys, Lookup(w, k) PROVE TypeOK'
    <3>1. PICK e \in Entries : FoundUnmarked(w, e)
      BY <2>0, <2>2, Finds
    <3>. QED
      BY <1>0, <2>0, <2>2, <3>1, SizesAssumption DEF FoundUnmarked, Lookup, TypeOK
  <2>3. ASSUME NEW q \in kind.quotas, SetCacheQuota(w, q) PROVE TypeOK'
    BY <1>0, <2>0, <2>3 DEF SetCacheQuota, TypeOK
  <2>4. CASE InsertNew(w)
    <3>1. new[w] \in Entries
      BY <1>0, <2>4 DEF IInv, StagesOK, TypeOK, InsertNew
    <3>2. chain' \in [BucketIndexes -> Seq(Entries \union {Marker})]
      BY <2>4, InsertedTable DEF Chains, Elements
    <3>. QED
      BY <1>0, <2>0, <2>4, <3>1, <3>2, SizesAssumption DEF InsertNew, TypeOK
  <2>5. CASE InsertFindsOther(w)
    <3>1. PICK other \in Entries : FoundOther(w, other)
      BY <2>5, FindsOther
    <3>2. /\ refs' \in [Entries -> Nat] /\ gclock' \in [Entries -> 0..GClockInit]
          /\ accessor' \in [Workers -> EntryOrNone]
      <4>1. refs \in [Entries -> Nat] /\ gclock \in [Entries -> 0..GClockInit]
            /\ accessor \in [Workers -> EntryOrNone] /\ GClockInit \in Nat
        BY <1>0, SizesAssumption DEF TypeOK
      <4>2. /\ new[w] \in Entries /\ other # new[w]
            /\ refs' = [refs EXCEPT ![new[w]] = 0, ![other] = @ + 1]
            /\ gclock' = [gclock EXCEPT ![new[w]] = 0, ![other] = GClockInit]
            /\ accessor' = [accessor EXCEPT ![w] = other]
        BY <3>1 DEF FoundOther
      <4>3. refs' \in [Entries -> Nat]
        BY <4>1, <4>2
      <4>4. gclock' \in [Entries -> 0..GClockInit]
        BY <4>1, <4>2
      <4>. QED
        BY <4>1, <4>2, <4>3, <4>4
    <3>. QED
      BY <1>0, <2>0, <2>5, <3>2 DEF InsertFindsOther, TypeOK
  <2>6. CASE AddCustomer(w)
    <3>1. accessor[w] \in Entries
      BY <1>0, <2>6 DEF IInv, StagesOK, TypeOK, AddCustomer
    <3>. QED
      BY <1>0, <2>0, <2>6, <3>1 DEF AddCustomer, TypeOK
  <2>7. CASE CustomerRelease(w)
    <3>1. customer[w] \in Entries /\ refs[customer[w]] >= 2
      BY <1>0, <2>7, Held DEF IInv, TypeOK, CustomerRelease
    <3>. QED
      BY <1>0, <2>0, <2>7, <3>1 DEF CustomerRelease, TypeOK
  <2>8. CASE MarkForDeletion(w)
    BY <1>0, <2>0, <2>8 DEF MarkForDeletion, TypeOK
  <2>9. CASE AccessNext(w)
    <3>1. PICK e \in Entries : FoundNext(w, e)
      BY <2>9, FindsNext
    <3>2. refs' \in [Entries -> Nat] /\ accessor' \in [Workers -> EntryOrNone]
      BY <1>0, <3>1 DEF FoundNext, TypeOK
    <3>3. /\ at' = [at EXCEPT ![w] = "releaseOld"]
          /\ previous' = [previous EXCEPT ![w] = accessor[w]]
          /\ UNCHANGED <<chain, entryVars, sizeVars, evictor, handVars, evictVars, new, customer>>
      BY <2>9 DEF AccessNext
    <3>. QED
      BY <1>0, <2>0, <3>2, <3>3 DEF TypeOK
  <2>10. CASE Release(w)
    <3>1. accessor[w] \in Entries
      BY <1>0, <2>10 DEF Release, TypeOK
    <3>2. /\ chain' \in [BucketIndexes -> Seq(Entries \union {Marker})]
          /\ keyOf' \in [Entries -> Keys \union {None}]
          /\ refs' \in [Entries -> Nat]
          /\ gclock' \in [Entries -> 0..GClockInit]
          /\ marked' \subseteq Entries /\ shown' \subseteq Entries
      BY <2>10, <3>1, ReleasedTypes DEF Release
    <3>. QED
      BY <1>0, <2>0, <2>10, <3>2 DEF Release, TypeOK
  <2>11. CASE ReleaseOld(w)
    <3>1. previous[w] \in Entries
      BY <1>0, <2>11 DEF ReleaseOld, TypeOK, IInv, StagesOK
    <3>2. /\ chain' \in [BucketIndexes -> Seq(Entries \union {Marker})]
          /\ keyOf' \in [Entries -> Keys \union {None}]
          /\ refs' \in [Entries -> Nat]
          /\ gclock' \in [Entries -> 0..GClockInit]
          /\ marked' \subseteq Entries /\ shown' \subseteq Entries
      BY <2>11, <3>1, ReleasedTypes DEF ReleaseOld
    <3>. QED
      BY <1>0, <2>0, <2>11, <3>2 DEF ReleaseOld, TypeOK
  <2>12. CASE TryEvict(w)
    BY <1>0, <2>0, <2>12 DEF TryEvict, AfterEviction, TypeOK
  <2>. QED
    BY <1>2, <2>1, <2>2, <2>3, <2>4, <2>5, <2>6, <2>7, <2>8, <2>9, <2>10, <2>11, <2>12
    DEF UserStep
<1>3. ASSUME NEW w \in Workers, EvictStep(w) PROVE TypeOK'
  <2>. USE DEF entryVars, sizeVars, handVars, evictVars, workerVars, Stages
  <2>0. kind' = kind /\ kind \in Kinds /\ quota \in Nat
    BY <1>0, <1>3, KindsAssumption DEF EvictStep, TypeOK
  <2>1. CASE EvictTest(w)
    BY <1>0, <2>0, <2>1 DEF EvictTest, TypeOK
  <2>2. CASE EvictBudget(w)
    <3>1. toFree' \in Nat
      BY <1>0, <2>0, <2>2, BudgetType, SizesAssumption DEF EvictBudget, TypeOK, Huge
    <3>. QED
      BY <1>0, <2>0, <2>2, <3>1, SizesAssumption DEF EvictBudget, TypeOK
  <2>3. CASE EnoughFreed(w)
    BY <1>0, <2>0, <2>3 DEF EnoughFreed, TypeOK
  <2>4. CASE HandIsThere(w)
    BY <1>0, <2>0, <2>4 DEF HandIsThere, TypeOK
  <2>5. CASE FAdvance(w)
    <3>1. CASE HandInserted
      <4>0. hand \in BucketIndexes /\ chain' \in Chains /\ (hand' = hand \/ hand' = hand + 1)
        BY <1>0, <2>5, <3>1, HandMoved
      <4>1. chain' \in [BucketIndexes -> Seq(Entries \union {Marker})] /\ hand' \in 0..Buckets
        BY <4>0, KeysAssumption DEF Chains, Elements, BucketIndexes
      <4>2. at' \in [Workers -> Stages]
        BY <1>0, <2>5, <3>1, HandMoved DEF TypeOK
      <4>. QED
        BY <1>0, <2>0, <2>5, <4>1, <4>2 DEF FAdvance, TypeOK
    <3>2. CASE ~HandInserted
      <4>1. Goto(w, "insertHand") /\ UNCHANGED <<chain, hand>>
        BY <2>5, <3>2, HandStep
      <4>. QED
        BY <1>0, <2>0, <2>5, <4>1 DEF FAdvance, TypeOK
    <3>. QED
      BY <3>1, <3>2
  <2>6. CASE InsertHand(w)
    <3>1. round <= GClockInit
      BY <2>6 DEF IInv, EvictionOK, InsertHand
    <3>2. chain' \in [BucketIndexes -> Seq(Entries \union {Marker})]
      BY <1>0, <2>6, HandInsertion DEF Chains, Elements, TypeOK
    <3>3. /\ hand' \in 0..Buckets /\ round' \in 0..(GClockInit + 1)
          /\ at' \in [Workers -> Stages] /\ shown' \subseteq Entries
      <4>1. \/ UNCHANGED <<hand, round, shown>> /\ at' = [at EXCEPT ![w] = "look"]
            \/ hand < Buckets /\ hand' = hand + 1 /\ UNCHANGED <<at, round, shown>>
            \/ /\ hand' = 0 /\ shown' = {} /\ round' = round + 1
               /\ at' = [at EXCEPT ![w] = IF round = GClockInit THEN "unlock" ELSE "round"]
        BY <2>6, HandInsertion
      <4>2. /\ hand \in 0..Buckets /\ Buckets \in Nat /\ round \in Nat /\ GClockInit \in Nat
            /\ round <= GClockInit + 1
        BY <1>0, KeysAssumption, SizesAssumption DEF TypeOK
      <4>3. hand' \in 0..Buckets
        BY <4>1, <4>2
      <4>4. round' \in 0..(GClockInit + 1)
        BY <3>1, <4>1, <4>2
      <4>5. at' \in [Workers -> Stages] /\ shown' \subseteq Entries
        BY <1>0, <4>1 DEF TypeOK
      <4>. QED
        BY <4>3, <4>4, <4>5
    <3>. QED
      BY <1>0, <2>0, <2>6, <3>2, <3>3 DEF InsertHand, TypeOK
  <2>7. CASE Evict(w)
    <3>1. PICK e \in Entries : Pointed(e) /\ Evictable(e) /\ Destroyed(e)
      BY <2>7 DEF Evict, Destroyed
    <3>2. keyOf[e] # None /\ InTable(e)
      BY <2>7, <3>1, PointedInTable DEF Evict
    <3>3. size' \in Nat
      BY <1>0, <2>7, <3>2, SizeLeft DEF Evict, SizeAfterEviction, IInv
    <3>4. /\ chain' \in [BucketIndexes -> Seq(Entries \union {Marker})]
          /\ keyOf' \in [Entries -> Keys \union {None}]
          /\ refs' \in [Entries -> Nat]
          /\ gclock' \in [Entries -> 0..GClockInit]
          /\ marked' \subseteq Entries /\ shown' \subseteq Entries
      BY <1>0, <3>1, <3>2, DestroyedTypes
    <3>5. /\ freed' = freed + EntrySize /\ handAdvanced' = TRUE
          /\ at' = [at EXCEPT ![w] = "round"]
          /\ UNCHANGED <<quota, evictor, hand, toFree, round, workerVars>>
      BY <2>7 DEF Evict
    <3>6. freed' \in Nat /\ at' \in [Workers -> Stages]
      <4>1. freed \in Nat /\ EntrySize \in Nat /\ at \in [Workers -> Stages] /\ "round" \in Stages
        BY <1>0, SizesAssumption DEF TypeOK
      <4>. QED
        BY <3>5, <4>1
    <3>7. handAdvanced' \in BOOLEAN /\ toFree' \in Nat
      BY <1>0, <3>5 DEF TypeOK
    <3>. QED
      BY <1>0, <2>0, <3>3, <3>4, <3>5, <3>6, <3>7 DEF TypeOK
  <2>8. CASE PassBy(w)
    <3>1. gclock' \in [Entries -> 0..GClockInit]
      <4>1. GClockInit \in Nat /\ gclock \in [Entries -> 0..GClockInit]
        BY <1>0, SizesAssumption DEF TypeOK
      <4>2. \A e \in Entries : Cooler(e) \in 0..GClockInit
        BY <4>1 DEF Cooler
      <4>3. gclock' = gclock \/ \E e \in Entries : gclock' = [gclock EXCEPT ![e] = Cooler(e)]
        BY <2>8 DEF PassBy
      <4>. QED
        BY <4>1, <4>2, <4>3
    <3>2. shown' \subseteq Entries
      BY <1>0, <2>8 DEF PassBy, TypeOK
    <3>3. /\ at' = [at EXCEPT ![w] = "round"]
          /\ UNCHANGED <<chain, refs, keyOf, marked, sizeVars, evictor, handVars, evictVars, workerVars>>
      BY <2>8 DEF PassBy
    <3>. QED
      BY <1>0, <2>0, <3>1, <3>2, <3>3 DEF TypeOK
  <2>9. CASE Unlock(w)
    BY <1>0, <2>0, <2>9, SizesAssumption DEF Unlock, AfterEviction, TypeOK
  <2>. QED
    BY <1>3, <2>1, <2>2, <2>3, <2>4, <2>5, <2>6, <2>7, <2>8, <2>9 DEF EvictStep
<1>. QED
  BY <1>1, <1>2, <1>3 DEF Next

-----------------------------------------------------------------------------
\* What a step does to the table: nothing, except that an entry comes or goes, or
\* that the hand moves.
LEMMA TableSteps ==
  ASSUME IInv, NEW w \in Workers, UserStep(w) \/ EvictStep(w)
  PROVE  \/ chain' = chain
         \/ InsertNew(w)
         \/ \E e \in Entries : Found(e) /\ Destroyed(e)
         \/ FAdvance(w) /\ HandInserted
         \/ InsertHand(w)
<1>1. CASE UserStep(w)
  <2>1. CASE Release(w)
    <3>1. accessor[w] \in Entries /\ ReleaseEntry(accessor[w])
      BY <2>1 DEF Release, IInv, TypeOK
    <3>. QED
      BY <3>1, Releasing DEF Found, DecRefCount
  <2>2. CASE ReleaseOld(w)
    <3>1. previous[w] \in Entries /\ ReleaseEntry(previous[w])
      BY <2>2 DEF ReleaseOld, IInv, TypeOK, StagesOK
    <3>. QED
      BY <3>1, Releasing DEF Found, DecRefCount
  <2>. QED
    BY <1>1, <2>1, <2>2
    DEF UserStep, StartInsert, Lookup, SetCacheQuota, InsertFindsOther, AddCustomer,
        CustomerRelease, MarkForDeletion, AccessNext, TryEvict
<1>2. CASE EvictStep(w)
  <2>1. CASE Evict(w)
    <3>1. PICK e \in Entries : Pointed(e) /\ Destroyed(e)
      BY <2>1 DEF Evict, Destroyed
    <3>. QED
      BY <2>1, <3>1, PointedInTable DEF Evict, Found
  <2>2. CASE FAdvance(w)
    BY <2>2, HandStep
  <2>. QED
    BY <1>2, <2>1, <2>2
    DEF EvictStep, EvictTest, EvictBudget, EnoughFreed, HandIsThere, PassBy, Unlock
<1>. QED
  BY <1>1, <1>2

\* Other steps than those of the hand leave it where it is.
LEMMA HandKept ==
  ASSUME IInv, NEW w \in Workers, UserStep(w) \/ EvictStep(w), ~FAdvance(w), ~InsertHand(w)
  PROVE  /\ \A b \in BucketIndexes : HandIn(b)' <=> HandIn(b)
         /\ HandInserted' <=> HandInserted
<1>1. \A b \in BucketIndexes : HandIn(b)' <=> HandIn(b)
  <2>1. CASE chain' = chain
    BY <2>1 DEF HandIn, Contains
  <2>2. CASE InsertNew(w)
    BY <2>2, InsertedTable, ElementsAssumption DEF HandIn
  <2>3. ASSUME NEW e \in Entries, Found(e), Destroyed(e)
        PROVE  \A b \in BucketIndexes : HandIn(b)' <=> HandIn(b)
    BY <2>3, Unlinked, ElementsAssumption DEF HandIn, Found, Destroyed, IInv
  <2>. QED
    BY <2>1, <2>2, <2>3, TableSteps
<1>. QED
  BY <1>1 DEF HandInserted

\* Each worker goes its way, and one alone evicts.
LEMMA StagesNext == IInv /\ [Next]_vars => StagesOK'
<1>. SUFFICES ASSUME IInv, [Next]_vars PROVE StagesOK'
  OBVIOUS
<1>0. TypeOK /\ StagesOK
  BY DEF IInv
<1>. USE <1>0 DEF workerVars, StagesOK, TypeOK, Evicting
<1>1. ASSUME UNCHANGED vars PROVE StagesOK'
  BY <1>1 DEF vars
<1>2. ASSUME NEW w \in Workers, UserStep(w) PROVE StagesOK'
  <2>1. ASSUME NEW e \in kind.entries, NEW k \in kind.keys, StartInsert(w, e, k) PROVE StagesOK'
    <3>1. e # None
      BY KindsAssumption, ElementsAssumption
    <3>2. /\ at[w] = "idle" /\ accessor[w] = None /\ new' = [new EXCEPT ![w] = e]
          /\ customer' = [customer EXCEPT ![w] = e] /\ UNCHANGED <<accessor, previous>>
          /\ \E place \in {"tryEvict", "insert"} : at' = [at EXCEPT ![w] = place]
      BY <2>1 DEF StartInsert
    <3>. QED
      BY <3>1, <3>2
  <2>2. ASSUME NEW k \in kind.keys, Lookup(w, k) PROVE StagesOK'
    <3>1. PICK e \in Entries : FoundUnmarked(w, e)
      BY <2>2, Finds
    <3>2. /\ accessor' = [accessor EXCEPT ![w] = e] /\ at' = [at EXCEPT ![w] = "customer"]
          /\ at[w] = "idle" /\ customer[w] = None /\ UNCHANGED <<new, previous, customer>>
      BY <2>2, <3>1 DEF FoundUnmarked, Lookup
    <3>. QED
      BY <3>2, ElementsAssumption
  <2>3. ASSUME NEW q \in kind.quotas, SetCacheQuota(w, q) PROVE StagesOK'
    BY <2>3 DEF SetCacheQuota
  <2>4. CASE InsertNew(w)
    BY <2>4 DEF InsertNew
  <2>5. CASE InsertFindsOther(w)
    <3>1. PICK e \in Entries : FoundOther(w, e)
      BY <2>5, FindsOther
    <3>2. /\ accessor' = [accessor EXCEPT ![w] = e] /\ at' = [at EXCEPT ![w] = "idle"]
          /\ at[w] = "insert" /\ new' = [new EXCEPT ![w] = None] /\ UNCHANGED previous
          /\ customer' = [customer EXCEPT ![w] = None]
      BY <2>5, <3>1 DEF FoundOther, InsertFindsOther
    <3>. QED
      BY <3>2, ElementsAssumption
  <2>6. CASE AddCustomer(w)
    BY <2>6 DEF AddCustomer
  <2>7. CASE CustomerRelease(w)
    BY <2>7 DEF CustomerRelease
  <2>8. CASE MarkForDeletion(w)
    BY <2>8 DEF MarkForDeletion
  <2>9. CASE AccessNext(w)
    <3>1. PICK e \in Entries : FoundNext(w, e)
      BY <2>9, FindsNext
    <3>2. /\ accessor' = [accessor EXCEPT ![w] = e] /\ at' = [at EXCEPT ![w] = "releaseOld"]
          /\ previous' = [previous EXCEPT ![w] = accessor[w]]
          /\ at[w] = "idle" /\ accessor[w] # None /\ UNCHANGED <<new, customer>>
      BY <2>9, <3>1 DEF FoundNext, AccessNext
    <3>. QED
      BY <3>2, ElementsAssumption
  <2>10. CASE Release(w)
    BY <2>10 DEF Release
  <2>11. CASE ReleaseOld(w)
    BY <2>11 DEF ReleaseOld
  <2>12. CASE TryEvict(w)
    BY <2>12 DEF TryEvict, AfterEviction
  <2>. QED
    BY <1>2, <2>1, <2>2, <2>3, <2>4, <2>5, <2>6, <2>7, <2>8, <2>9, <2>10, <2>11, <2>12
    DEF UserStep
<1>3. ASSUME NEW w \in Workers, EvictStep(w) PROVE StagesOK'
  <2>1. CASE EvictTest(w) \/ EvictBudget(w) \/ EnoughFreed(w) \/ HandIsThere(w)
    BY <2>1 DEF EvictTest, EvictBudget, EnoughFreed, HandIsThere
  <2>2. CASE FAdvance(w)
    <3>1. /\ at[w] = "round" /\ UNCHANGED workerVars
          /\ \E place \in {"look", "insertHand"} : at' = [at EXCEPT ![w] = place]
      BY <2>2 DEF FAdvance
    <3>2. PICK place \in {"look", "insertHand"} : at' = [at EXCEPT ![w] = place]
      BY <3>1
    <3>. QED
      BY <3>1, <3>2
  <2>3. CASE InsertHand(w)
    <3>1. /\ at[w] = "insertHand" /\ UNCHANGED workerVars
          /\ at' = at \/ \E place \in {"look", "round", "unlock"} : at' = [at EXCEPT ![w] = place]
      BY <2>3 DEF InsertHand
    <3>2. PICK place \in {"insertHand", "look", "round", "unlock"} : at' = [at EXCEPT ![w] = place]
      BY <3>1
    <3>. QED
      BY <3>1, <3>2
  <2>4. CASE Evict(w) \/ PassBy(w)
    BY <2>4 DEF Evict, PassBy
  <2>5. CASE Unlock(w)
    BY <2>5 DEF Unlock, AfterEviction
  <2>. QED
    BY <1>3, <2>1, <2>2, <2>3, <2>4, <2>5 DEF EvictStep
<1>. QED
  BY <1>1, <1>2, <1>3 DEF Next

\* The eviction lock keeps the others out, and the hand is where its owner needs it.
LEMMA EvictionNext == IInv /\ [Next]_vars => EvictionOK'
<1>. SUFFICES ASSUME IInv, [Next]_vars PROVE EvictionOK'
  OBVIOUS
<1>0. TypeOK /\ EvictionOK /\ StagesOK
  BY DEF IInv
<1>1. ASSUME UNCHANGED vars PROVE EvictionOK'
  BY <1>0, <1>1
  DEF vars, EvictionOK, HandInserted, HandIn, Contains, handVars, evictVars, Evicting
<1>2. ASSUME NEW w \in Workers, UserStep(w) PROVE EvictionOK'
  <2>1. at[w] \notin Evicting
    BY <1>2
    DEF UserStep, StartInsert, Lookup, SetCacheQuota, InsertNew, InsertFindsOther, AddCustomer,
        CustomerRelease, MarkForDeletion, AccessNext, Release, ReleaseOld, TryEvict, Evicting
  <2>2. HandInserted' <=> HandInserted
    <3>1. ~FAdvance(w) /\ ~InsertHand(w)
      BY <2>1 DEF FAdvance, InsertHand, Evicting
    <3>. QED
      BY <1>2, <3>1, HandKept
  <2>3. UNCHANGED <<hand, handAdvanced, round>>
    BY <1>2
    DEF UserStep, StartInsert, Lookup, SetCacheQuota, InsertNew, InsertFindsOther, AddCustomer,
        CustomerRelease, MarkForDeletion, AccessNext, Release, ReleaseOld, TryEvict,
        handVars, evictVars
  <2>4. CASE TryEvict(w) /\ evictor = None
    <3>1. evictor' = w /\ at' = [at EXCEPT ![w] = "evictTest"]
      BY <2>4 DEF TryEvict
    <3>. QED
      BY <1>0, <2>1, <2>2, <2>3, <2>4, <3>1, ElementsAssumption
      DEF EvictionOK, Evicting, TypeOK
  <2>5. CASE ~(TryEvict(w) /\ evictor = None)
    <3>1. evictor' = evictor
      BY <1>2, <2>5
      DEF UserStep, StartInsert, Lookup, SetCacheQuota, InsertNew, InsertFindsOther, AddCustomer,
          CustomerRelease, MarkForDeletion, AccessNext, Release, ReleaseOld, TryEvict
    <3>2. \E place \in Stages \ Evicting : at' = [at EXCEPT ![w] = place]
      <4>1. at[w] \in Stages \ Evicting /\ at = [at EXCEPT ![w] = at[w]]
        BY <1>0, <2>1 DEF TypeOK
      <4>. QED
        BY <1>2, <2>5, <4>1
        DEF UserStep, StartInsert, Lookup, SetCacheQuota, InsertNew, InsertFindsOther, AddCustomer,
            CustomerRelease, MarkForDeletion, AccessNext, Release, ReleaseOld, TryEvict,
            AfterEviction, Evicting, Stages, workerVars
    <3>. QED
      BY <1>0, <2>1, <2>2, <2>3, <3>1, <3>2 DEF EvictionOK, Evicting, TypeOK
  <2>. QED
    BY <2>4, <2>5
<1>3. ASSUME NEW w \in Workers, EvictStep(w) PROVE EvictionOK'
  <2>1. at[w] \in Evicting
    BY <1>3 DEF EvictStep, EvictTest, EvictBudget, EnoughFreed, HandIsThere, FAdvance,
                InsertHand, Evict, PassBy, Unlock, Evicting
  <2>2. evictor = w /\ \A v \in Workers \ {w} : at[v] \notin Evicting
    BY <2>1, EvictsAlone
  <2>3. ASSUME evictor' = w, NEW place \in Evicting, at' = [at EXCEPT ![w] = place],
               place \in {"round", "insertHand", "look"} => round' <= GClockInit,
               place = "look" => HandInserted' /\ ~handAdvanced',
               place = "insertHand" => ~HandInserted' /\ ~handAdvanced',
               handAdvanced' => HandInserted',
               hand' = Buckets => place = "insertHand"
        PROVE  EvictionOK'
    BY <1>0, <2>2, <2>3 DEF EvictionOK, Evicting, TypeOK
  <2>4. ~FAdvance(w) /\ ~InsertHand(w) => (HandInserted' <=> HandInserted)
    BY <1>3, HandKept
  <2>5. hand = Buckets => at[w] = "insertHand"
    BY <1>0, <2>2 DEF EvictionOK, Evicting
  <2>6. CASE EvictTest(w) \/ EvictBudget(w) \/ EnoughFreed(w)
    <3>1. ~FAdvance(w) /\ ~InsertHand(w) /\ at[w] # "insertHand"
      BY <1>0, <2>6 DEF FAdvance, InsertHand, EvictTest, EvictBudget, EnoughFreed, TypeOK
    <3>2. PICK place \in {"budget", "unlock", "round"} :
            /\ at' = [at EXCEPT ![w] = place] /\ (place = "round" => round' = 0)
            /\ evictor' = w /\ UNCHANGED <<hand, handAdvanced>>
      BY <2>2, <2>6 DEF EvictTest, EvictBudget, EnoughFreed, handVars
    <3>3. handAdvanced => HandInserted
      BY <1>0 DEF EvictionOK
    <3>. QED
      <4>1. place \in Evicting /\ (place = "round" => round' <= GClockInit)
        BY <3>2, SizesAssumption DEF Evicting
      <4>2. hand' # Buckets /\ (handAdvanced' => HandInserted')
        BY <2>4, <2>5, <3>1, <3>2, <3>3
      <4>. QED
        BY <2>3, <3>2, <4>1, <4>2
  <2>7. CASE HandIsThere(w)
    <3>1. /\ at[w] = "round" /\ handAdvanced /\ handAdvanced' = FALSE /\ evictor' = w
          /\ UNCHANGED <<hand, round>> /\ at' = [at EXCEPT ![w] = "look"]
          /\ ~FAdvance(w) /\ ~InsertHand(w)
      BY <2>2, <2>7 DEF HandIsThere, FAdvance, InsertHand, evictVars
    <3>2. HandInserted' /\ round <= GClockInit
      BY <1>0, <2>4, <3>1 DEF EvictionOK
    <3>. QED
      BY <2>3, <2>5, <3>1, <3>2 DEF Evicting
  <2>8. CASE FAdvance(w)
    <3>1. /\ at[w] = "round" /\ evictor' = w /\ ~handAdvanced /\ ~handAdvanced' /\ round' = round
          /\ hand \in BucketIndexes /\ round <= GClockInit
      BY <1>0, <2>2, <2>8, HandStep DEF FAdvance, evictVars, EvictionOK
    <3>2. CASE HandInserted
      <4>1. \/ /\ hand' = hand /\ at' = [at EXCEPT ![w] = "look"]
               /\ \A b \in BucketIndexes : HandIn(b)' <=> HandIn(b)
            \/ /\ hand' = hand + 1 /\ at' = [at EXCEPT ![w] = "insertHand"]
               /\ ~HandInserted'
        BY <2>8, <3>2, HandMoved DEF IInv
      <4>2. hand' = hand => HandInserted'
        BY <3>1, <3>2, <4>1, KeysAssumption DEF HandInserted, BucketIndexes
      <4>. QED
        BY <2>3, <2>5, <3>1, <4>1, <4>2, KeysAssumption DEF Evicting, BucketIndexes
    <3>3. CASE ~HandInserted
      <4>1. at' = [at EXCEPT ![w] = "insertHand"] /\ UNCHANGED <<chain, hand>>
        BY <2>8, <3>3, HandStep
      <4>2. ~HandInserted'
        BY <3>3, <4>1 DEF HandInserted, HandIn, Contains
      <4>. QED
        BY <2>3, <3>1, <4>1, <4>2 DEF Evicting
    <3>. QED
      BY <3>2, <3>3
  <2>9. CASE InsertHand(w)
    <3>1. /\ at[w] = "insertHand" /\ evictor' = w /\ ~handAdvanced' /\ ~HandInserted
          /\ round <= GClockInit
      BY <1>0, <2>2, <2>9 DEF InsertHand, EvictionOK
    <3>2. ASSUME hand \in BucketIndexes, at' = [at EXCEPT ![w] = "look"], UNCHANGED <<hand, round>>,
                 \A b \in BucketIndexes : \A y :
                   Contains(chain[b], y)' <=> Contains(chain[b], y) \/ (b = hand /\ y = Marker)
          PROVE  EvictionOK'
      <4>1. HandInserted'
        BY <3>2 DEF HandInserted, HandIn
      <4>. QED
        BY <2>3, <3>1, <3>2, <4>1, KeysAssumption DEF Evicting, BucketIndexes
    <3>3. ASSUME chain' = chain,
                 \/ hand < Buckets /\ hand' = hand + 1 /\ UNCHANGED <<at, round, shown>>
                 \/ /\ hand' = 0 /\ shown' = {} /\ round' = round + 1
                    /\ at' = [at EXCEPT ![w] = IF round = GClockInit THEN "unlock" ELSE "round"]
          PROVE  EvictionOK'
      <4>1. ~HandInserted'
        BY <3>1, <3>3 DEF HandInserted, HandIn, Contains
      <4>2. CASE hand < Buckets /\ hand' = hand + 1 /\ UNCHANGED <<at, round>>
        <5>1. at' = [at EXCEPT ![w] = "insertHand"]
          BY <1>0, <3>1, <4>2 DEF TypeOK
        <5>. QED
          BY <2>3, <3>1, <4>1, <4>2, <5>1 DEF Evicting
      <4>3. CASE /\ hand' = 0 /\ round' = round + 1
                 /\ at' = [at EXCEPT ![w] = IF round = GClockInit THEN "unlock" ELSE "round"]
        <5>1. \E place \in {"unlock", "round"} :
                at' = [at EXCEPT ![w] = place] /\ (place = "round" => round # GClockInit)
          BY <4>3
        <5>2. round # GClockInit => round' <= GClockInit
          BY <1>0, <3>1, <4>3, SizesAssumption DEF TypeOK
        <5>3. hand' # Buckets
          BY <4>3, KeysAssumption
        <5>. QED
          BY <2>3, <3>1, <4>1, <5>1, <5>2, <5>3 DEF Evicting
      <4>. QED
        BY <3>3, <4>2, <4>3
    <3>. QED
      BY <2>9, <3>2, <3>3, HandInsertion
  <2>10. CASE Evict(w) \/ PassBy(w)
    <3>1. /\ at[w] = "look" /\ evictor' = w /\ UNCHANGED <<hand, round>>
          /\ at' = [at EXCEPT ![w] = "round"] /\ ~FAdvance(w) /\ ~InsertHand(w)
      BY <2>2, <2>10 DEF Evict, PassBy, FAdvance, InsertHand, handVars, evictVars
    <3>2. HandInserted' /\ round <= GClockInit
      BY <1>0, <2>4, <3>1 DEF EvictionOK
    <3>. QED
      BY <2>3, <2>5, <3>1, <3>2 DEF Evicting
  <2>11. CASE Unlock(w)
    <3>1. evictor' = None /\ \E place \in Stages \ Evicting : at' = [at EXCEPT ![w] = place]
      <4>1. {"idle", "insert"} \subseteq Stages \ Evicting
        BY DEF Stages, Evicting
      <4>2. evictor' = None /\ \E place \in {"idle", "insert"} : at' = [at EXCEPT ![w] = place]
        BY <2>11 DEF Unlock, AfterEviction
      <4>. QED
        BY <4>1, <4>2
    <3>2. UNCHANGED <<hand, handAdvanced>> /\ (HandInserted' <=> HandInserted)
      BY <2>4, <2>11 DEF Unlock, handVars, FAdvance, InsertHand
    <3>. QED
      BY <1>0, <2>2, <2>5, <2>11, <3>1, <3>2, ElementsAssumption
      DEF EvictionOK, Evicting, TypeOK, Unlock
  <2>. QED
    BY <1>3, <2>6, <2>7, <2>8, <2>9, <2>10, <2>11 DEF EvictStep
<1>. QED
  BY <1>1, <1>2, <1>3 DEF Next

-----------------------------------------------------------------------------
\* Which entries the table holds after a step.
LEMMA TableKept ==
  ASSUME chain' = chain
  PROVE  /\ \A e \in Entries : InTable(e)' <=> InTable(e)
         /\ \A b \in BucketIndexes : \A y : Contains(chain[b], y)' <=> Contains(chain[b], y)
  BY DEF InTable, Contains

\* An insertion adds its entry to the table.
LEMMA TableGains ==
  ASSUME IInv, NEW w \in Workers, InsertNew(w)
  PROVE  \A e \in Entries : InTable(e)' <=> InTable(e) \/ e = new[w]
  BY InsertedTable DEF InTable

\* A destroyed entry is the only one to leave the table.
LEMMA TableLoses ==
  ASSUME IInv, NEW x \in Entries, keyOf[x] # None, Destroyed(x)
  PROVE  \A e \in Entries : InTable(e)' <=> InTable(e) /\ e # x
<1>1. \A b \in BucketIndexes : \A y : Contains(chain[b], y)' <=> Contains(chain[b], y) /\ y # x
  BY Unlinked DEF Destroyed, IInv
<1>. QED
  BY <1>1 DEF InTable

\* The moves of the hand change no entry's bucket.
LEMMA HandPasses ==
  ASSUME IInv, NEW w \in Workers, FAdvance(w) \/ InsertHand(w)
  PROVE  /\ \A b \in BucketIndexes : \A e \in Entries : Contains(chain[b], e)' <=> Contains(chain[b], e)
         /\ \A e \in Entries : InTable(e)' <=> InTable(e)
<1>1. \A b \in BucketIndexes : \A e \in Entries : Contains(chain[b], e)' <=> Contains(chain[b], e)
  <2>1. CASE FAdvance(w) /\ HandInserted
    BY <2>1, HandMoved DEF IInv
  <2>2. CASE FAdvance(w) /\ ~HandInserted
    BY <2>2, HandStep, TableKept
  <2>3. CASE InsertHand(w)
    <3>1. CASE chain' = chain
      BY <3>1, TableKept
    <3>2. CASE chain' # chain
      BY <2>3, <3>2, HandInsertion, ElementsAssumption
    <3>. QED
      BY <3>1, <3>2
  <2>. QED
    BY <2>1, <2>2, <2>3
<1>. QED
  BY <1>1 DEF InTable

\* The steps that change a key do so for an entry outside the table, or destroy it.
LEMMA KeyStays ==
  ASSUME IInv, NEW w \in Workers, UserStep(w) \/ EvictStep(w), NEW e \in Entries, InTable(e),
         ~Destroyed(e)
  PROVE  keyOf'[e] = keyOf[e]
<1>0. keyOf \in [Entries -> Keys \union {None}] /\ keyOf[e] # None
  BY DEF IInv, TypeOK, Home, InTable
<1>1. ASSUME NEW x \in Entries, x # e, keyOf' = [keyOf EXCEPT ![x] = None] PROVE keyOf'[e] = keyOf[e]
  BY <1>0, <1>1
<1>2. CASE UserStep(w)
  <2>1. ASSUME NEW x \in kind.entries, NEW k \in kind.keys, StartInsert(w, x, k)
        PROVE  keyOf'[e] = keyOf[e]
    BY <1>0, <2>1 DEF StartInsert
  <2>2. CASE InsertFindsOther(w)
    <3>1. new[w] \in Entries /\ new[w] # e
      BY <2>2, FindsOther DEF FoundOther
    <3>. QED
      BY <1>1, <2>2, <3>1 DEF InsertFindsOther
  <2>3. CASE Release(w)
    <3>1. accessor[w] \in Entries /\ ReleaseEntry(accessor[w])
      BY <2>3 DEF Release, IInv, TypeOK
    <3>2. DecRefCount(accessor[w]) \/ Destroyed(accessor[w])
      BY <3>1, Releasing
    <3>. QED
      BY <1>1, <3>1, <3>2 DEF DecRefCount, entryVars, Destroyed, DestroyCacheEntry
  <2>4. CASE ReleaseOld(w)
    <3>1. previous[w] \in Entries /\ ReleaseEntry(previous[w])
      BY <2>4 DEF ReleaseOld, IInv, TypeOK, StagesOK
    <3>2. DecRefCount(previous[w]) \/ Destroyed(previous[w])
      BY <3>1, Releasing
    <3>. QED
      BY <1>1, <3>1, <3>2 DEF DecRefCount, entryVars, Destroyed, DestroyCacheEntry
  <2>. QED
    BY <1>2, <2>1, <2>2, <2>3, <2>4
    DEF UserStep, Lookup, SetCacheQuota, InsertNew, AddCustomer, CustomerRelease,
        MarkForDeletion, AccessNext, TryEvict, entryVars
<1>3. CASE EvictStep(w)
  <2>1. CASE Evict(w)
    <3>1. PICK x \in Entries : Destroyed(x)
      BY <2>1 DEF Evict, Destroyed
    <3>. QED
      BY <1>1, <3>1 DEF Destroyed, DestroyCacheEntry
  <2>. QED
    BY <1>3, <2>1
    DEF EvictStep, EvictTest, EvictBudget, EnoughFreed, HandIsThere, FAdvance, InsertHand,
        PassBy, Unlock, entryVars
<1>. QED
  BY <1>2, <1>3

\* Chains hold what they should.
LEMMA ChainsNext == IInv /\ [Next]_vars => Once' /\ Home'
<1>. SUFFICES ASSUME IInv, [Next]_vars PROVE Once' /\ Home'
  OBVIOUS
<1>0. TypeOK /\ Once /\ Home
  BY DEF IInv
<1>1. ASSUME UNCHANGED vars PROVE Once' /\ Home'
  BY <1>0, <1>1 DEF vars, entryVars, handVars, Once, Distinct, Home, Contains, HandIn
<1>2. ASSUME NEW w \in Workers, UserStep(w) \/ EvictStep(w) PROVE Once' /\ Home'
  <2>1. Once'
    <3>1. CASE chain' = chain
      BY <1>0, <3>1 DEF Once, Distinct
    <3>2. CASE InsertNew(w)
      BY <3>2, InsertedTable
    <3>3. ASSUME NEW e \in Entries, Found(e), Destroyed(e) PROVE Once'
      BY <1>0, <3>3, Unlinked DEF Found, Destroyed
    <3>4. CASE FAdvance(w) /\ HandInserted
      BY <1>0, <3>4, HandMoved
    <3>5. CASE InsertHand(w) /\ chain' # chain
      BY <3>5, HandInsertion
    <3>. QED
      BY <1>2, <3>1, <3>2, <3>3, <3>4, <3>5, TableSteps
  <2>2. ASSUME NEW b \in BucketIndexes, NEW e \in Entries, Contains(chain[b], e)'
        PROVE  keyOf'[e] # None /\ (BucketOf(keyOf[e]))' = b
    <3>1. ASSUME Contains(chain[b], e), ~Destroyed(e) PROVE keyOf'[e] # None /\ (BucketOf(keyOf[e]))' = b
      <4>1. InTable(e)
        BY <3>1 DEF InTable
      <4>. QED
        BY <1>0, <1>2, <3>1, <4>1, KeyStays DEF Home, BucketOf
    <3>2. CASE Destroyed(e) /\ keyOf[e] # None
      BY <1>0, <2>2, <3>2, Unlinked DEF Destroyed
    <3>3. CASE InsertNew(w)
      <4>1. keyOf' = keyOf
        BY <3>3 DEF InsertNew, entryVars
      <4>. QED
        BY <1>0, <2>2, <3>3, <4>1, InsertedTable DEF Home, BucketOf
    <3>4. ASSUME ~InsertNew(w) PROVE Contains(chain[b], e)
      <4>1. ASSUME NEW x \in Entries, Found(x), Destroyed(x) PROVE Contains(chain[b], e)
        BY <1>0, <2>2, <4>1, Unlinked DEF Found, Destroyed
      <4>. QED
        BY <1>2, <2>2, <3>4, <4>1, TableSteps, TableKept, HandPasses
    <3>5. Contains(chain[b], e) => keyOf[e] # None
      BY <1>0 DEF Home
    <3>. QED
      BY <3>1, <3>2, <3>3, <3>4, <3>5
  <2>3. ASSUME NEW b \in BucketIndexes, HandIn(b)' PROVE b = hand'
    <3>1. CASE FAdvance(w)
      <4>1. CASE HandInserted
        <5>1. CASE hand' = hand /\ (HandIn(b)' <=> HandIn(b))
          BY <1>0, <2>3, <5>1 DEF Home
        <5>2. CASE ~HandInserted'
          BY <2>3, <5>2 DEF HandInserted
        <5>. QED
          BY <1>0, <3>1, <4>1, <5>1, <5>2, HandMoved
      <4>2. CASE ~HandInserted
        BY <1>0, <2>3, <3>1, <4>2, HandStep, TableKept DEF HandIn, HandInserted
      <4>. QED
        BY <4>1, <4>2
    <3>2. CASE InsertHand(w)
      <4>1. ~HandIn(b)
        BY <3>2 DEF IInv, EvictionOK, InsertHand, HandInserted
      <4>2. CASE chain' = chain
        BY <2>3, <4>1, <4>2, TableKept DEF HandIn
      <4>3. CASE chain' # chain
        BY <2>3, <3>2, <4>1, <4>3, HandInsertion DEF HandIn
      <4>. QED
        BY <4>2, <4>3
    <3>3. CASE ~FAdvance(w) /\ ~InsertHand(w)
      <4>1. hand' = hand
        BY <1>2, <3>3
        DEF UserStep, StartInsert, Lookup, SetCacheQuota, InsertNew, InsertFindsOther, AddCustomer,
            CustomerRelease, MarkForDeletion, AccessNext, Release, ReleaseOld, TryEvict,
            EvictStep, EvictTest, EvictBudget, EnoughFreed, HandIsThere, Evict, PassBy, Unlock,
            handVars
      <4>. QED
        BY <1>0, <1>2, <2>3, <3>3, <4>1, HandKept DEF Home
    <3>. QED
      BY <3>1, <3>2, <3>3
  <2>. QED
    BY <2>1, <2>2, <2>3 DEF Home
<1>. QED
  BY <1>1, <1>2 DEF Next

\* Whoever else holds an entry goes on doing so when one is destroyed that nobody
\* holds any more.
LEMMA HeldStay ==
  ASSUME IInv, NEW x \in Entries, InTable(x), keyOf[x] # None, kind' = kind,
         UNCHANGED new,
         \A v \in Workers :
           /\ accessor'[v] \in {accessor[v], None} /\ previous'[v] \in {previous[v], None}
           /\ customer'[v] = customer[v],
         \/ DecRefCount(x)
         \/ /\ Destroyed(x)
            /\ \A v \in Workers : x \notin {accessor'[v], previous'[v], customer[v], new[v]}
  PROVE  EntriesOK'
<1>0. TypeOK /\ EntriesOK
  BY DEF IInv
<1>1. CASE DecRefCount(x)
  <2>1. UNCHANGED <<keyOf, marked>> /\ \A e \in Entries : InTable(e)' <=> InTable(e)
    BY <1>1, TableKept DEF DecRefCount, entryVars
  <2>. QED
    BY <1>0, <2>1, ElementsAssumption DEF EntriesOK, TypeOK
<1>2. ASSUME Destroyed(x), \A v \in Workers : x \notin {accessor'[v], previous'[v], customer[v], new[v]}
      PROVE  EntriesOK'
  <2>1. /\ keyOf' = [keyOf EXCEPT ![x] = None] /\ marked' = marked \ {x}
        /\ \A e \in Entries : InTable(e)' <=> InTable(e) /\ e # x
    BY <1>2, TableLoses DEF Destroyed, DestroyCacheEntry
  <2>. QED
    BY <1>0, <1>2, <2>1, ElementsAssumption DEF EntriesOK, TypeOK
<1>. QED
  BY <1>1, <1>2

\* Held entries are in the table, and new ones with their makers.
LEMMA EntriesNext == IInv /\ [Next]_vars => EntriesOK'
<1>. SUFFICES ASSUME IInv, [Next]_vars PROVE EntriesOK'
  OBVIOUS
<1>0. TypeOK /\ EntriesOK /\ StagesOK /\ Home
  BY DEF IInv
<1>a. \A e \in Entries : InTable(e) => keyOf[e] # None
  BY <1>0 DEF Home, InTable
<1>1. ASSUME UNCHANGED vars PROVE EntriesOK'
  BY <1>0, <1>1, TableKept DEF vars, entryVars, workerVars, EntriesOK, TypeOK
<1>2. ASSUME NEW w \in Workers, UserStep(w) PROVE EntriesOK'
  <2>0. kind' = kind
    BY <1>2 DEF UserStep
  <2>1. ASSUME NEW e \in kind.entries, NEW k \in kind.keys, StartInsert(w, e, k) PROVE EntriesOK'
    <3>1. e \in Entries /\ k \in Keys /\ k # None /\ e # None
      BY <1>0, KindsAssumption, ElementsAssumption DEF TypeOK
    <3>2. /\ keyOf[e] = None /\ at[w] = "idle" /\ customer[w] = None
          /\ keyOf' = [keyOf EXCEPT ![e] = k]
          /\ new' = [new EXCEPT ![w] = e] /\ customer' = [customer EXCEPT ![w] = e]
          /\ UNCHANGED <<chain, accessor, previous, marked>>
      BY <2>1 DEF StartInsert
    <3>3. new[w] = None
      BY <1>0, <3>2 DEF StagesOK, Evicting
    <3>4. ~InTable(e) /\ \A v \in Workers : customer[v] # e /\ new[v] # e
      BY <1>0, <1>a, <3>1, <3>2 DEF EntriesOK
    <3>. QED
      <4>1. /\ \A x \in Entries : InTable(x)' <=> InTable(x)
            /\ keyOf'[e] = k /\ \A x \in Entries \ {e} : keyOf'[x] = keyOf[x]
            /\ new'[w] = e /\ \A v \in Workers \ {w} : new'[v] = new[v]
            /\ customer'[w] = e /\ \A v \in Workers \ {w} : customer'[v] = customer[v]
        BY <1>0, <3>1, <3>2, TableKept DEF TypeOK
      <4>2. \A x \in Entries : keyOf'[x] # None => InTable(x)' \/ \E v \in Workers : new'[v] = x
        BY <1>0, <3>3, <4>1, ElementsAssumption DEF EntriesOK
      <4>3. /\ \A v \in Workers : accessor'[v] # None => InTable(accessor[v])'
            /\ \A v \in Workers : previous'[v] # None => InTable(previous[v])'
        BY <1>0, <3>2, <4>1 DEF EntriesOK, TypeOK
      <4>4. \A v \in Workers : customer'[v] # None => (keyOf[customer[v]] # None)'
        <5>1. ASSUME NEW v \in Workers, customer'[v] # None PROVE keyOf'[customer'[v]] # None
          <6>1. CASE v = w
            BY <3>1, <4>1, <6>1
          <6>2. CASE v # w
            BY <1>0, <3>4, <4>1, <5>1, <6>2 DEF EntriesOK, TypeOK
          <6>. QED
            BY <6>1, <6>2
        <5>. QED
          BY <5>1
      <4>5. \A v \in Workers : new'[v] # None =>
              /\ ~InTable(new[v])' /\ (keyOf[new[v]] # None)'
              /\ customer'[v] = new'[v]
              /\ \A u \in Workers \ {v} : customer'[u] # new'[v] /\ new'[u] # new'[v]
        BY <1>0, <3>1, <3>2, <3>4, <4>1 DEF EntriesOK, TypeOK
      <4>6. ~kind'.mayMark => marked' = {}
        BY <1>0, <2>0, <3>2 DEF EntriesOK
      <4>. QED
        BY <4>2, <4>3, <4>4, <4>5, <4>6 DEF EntriesOK
  <2>2. ASSUME NEW k \in kind.keys, Lookup(w, k) PROVE EntriesOK'
    <3>1. PICK e \in Entries : FoundUnmarked(w, e)
      BY <2>2, Finds
    <3>2. /\ InTable(e) /\ accessor' = [accessor EXCEPT ![w] = e]
          /\ UNCHANGED <<chain, keyOf, marked, new, previous, customer>>
      BY <2>2, <3>1 DEF FoundUnmarked, Found, Lookup
    <3>. QED
      BY <1>0, <2>0, <3>2, TableKept DEF EntriesOK, TypeOK
  <2>3. ASSUME NEW q \in kind.quotas, SetCacheQuota(w, q) PROVE EntriesOK'
    BY <1>0, <2>0, <2>3, TableKept DEF SetCacheQuota, entryVars, workerVars, EntriesOK, TypeOK
  <2>4. CASE InsertNew(w)
    <3>1. \A e \in Entries : InTable(e)' <=> InTable(e) \/ e = new[w]
      BY <2>4, TableGains
    <3>2. /\ accessor' = [accessor EXCEPT ![w] = new[w]] /\ new' = [new EXCEPT ![w] = None]
          /\ UNCHANGED <<keyOf, marked, previous, customer>>
      BY <2>4 DEF InsertNew, entryVars
    <3>3. new[w] \in Entries /\ \A v \in Workers \ {w} : new[v] # new[w]
      BY <2>4, InsertedTable
    <3>. QED
      BY <1>0, <2>0, <3>1, <3>2, <3>3, ElementsAssumption DEF EntriesOK, TypeOK
  <2>5. CASE InsertFindsOther(w)
    <3>1. PICK o \in Entries : FoundOther(w, o)
      BY <2>5, FindsOther
    <3>2. /\ new[w] \in Entries /\ InTable(o) /\ ~InTable(new[w])
          /\ accessor' = [accessor EXCEPT ![w] = o]
          /\ keyOf' = [keyOf EXCEPT ![new[w]] = None]
          /\ new' = [new EXCEPT ![w] = None] /\ customer' = [customer EXCEPT ![w] = None]
          /\ UNCHANGED <<chain, marked, previous>>
      BY <2>5, <3>1 DEF FoundOther, Found, InsertFindsOther
    <3>3. \A v \in Workers \ {w} : customer[v] # new[w] /\ new[v] # new[w]
      BY <1>0, <3>2, ElementsAssumption DEF EntriesOK
    <3>. QED
      BY <1>0, <2>0, <3>2, <3>3, TableKept, ElementsAssumption DEF EntriesOK, TypeOK
  <2>6. CASE AddCustomer(w)
    <3>1. /\ accessor[w] # None /\ at[w] = "customer"
          /\ customer' = [customer EXCEPT ![w] = accessor[w]]
          /\ UNCHANGED <<chain, keyOf, marked, new, accessor, previous>>
      BY <1>0, <2>6 DEF AddCustomer, entryVars, StagesOK
    <3>2. accessor[w] \in Entries /\ InTable(accessor[w]) /\ keyOf[accessor[w]] # None /\ new[w] = None
      <4>1. accessor[w] \in Entries /\ InTable(accessor[w])
        BY <1>0, <3>1 DEF EntriesOK, TypeOK
      <4>2. new[w] = None
        BY <1>0, <3>1 DEF StagesOK, Evicting
      <4>. QED
        BY <1>a, <4>1, <4>2
    <3>. QED
      BY <1>0, <2>0, <3>1, <3>2, TableKept DEF EntriesOK, TypeOK
  <2>7. CASE CustomerRelease(w)
    <3>1. /\ at[w] = "idle" /\ customer' = [customer EXCEPT ![w] = None]
          /\ UNCHANGED <<chain, keyOf, marked, new, accessor, previous>>
      BY <2>7 DEF CustomerRelease, entryVars
    <3>2. new[w] = None
      BY <1>0, <3>1 DEF StagesOK, Evicting
    <3>. QED
      BY <1>0, <2>0, <3>1, <3>2, TableKept DEF EntriesOK, TypeOK
  <2>8. CASE MarkForDeletion(w)
    BY <1>0, <2>0, <2>8, TableKept DEF MarkForDeletion, workerVars, EntriesOK, TypeOK
  <2>9. CASE AccessNext(w)
    <3>1. PICK e \in Entries : FoundNext(w, e)
      BY <2>9, FindsNext
    <3>2. /\ InTable(e) /\ accessor' = [accessor EXCEPT ![w] = e]
          /\ previous' = [previous EXCEPT ![w] = accessor[w]] /\ accessor[w] # None
          /\ UNCHANGED <<chain, keyOf, marked, new, customer>>
      BY <2>9, <3>1 DEF FoundNext, Found, AccessNext, entryVars
    <3>. QED
      BY <1>0, <2>0, <3>2, TableKept DEF EntriesOK, TypeOK
  <2>10. CASE Release(w)
    <3>1. /\ accessor[w] \in Entries /\ ReleaseEntry(accessor[w])
          /\ accessor' = [accessor EXCEPT ![w] = None]
          /\ UNCHANGED <<new, previous, customer>>
      BY <1>0, <2>10 DEF Release, TypeOK
    <3>. DEFINE x == accessor[w]
    <3>2. /\ InTable(x) /\ keyOf[x] # None
          /\ (refs[x] = 2 /\ Destroyed(x)) \/ DecRefCount(x)
      BY <3>1, Releasing
    <3>3. \A v \in Workers :
            /\ accessor'[v] \in {accessor[v], None} /\ previous'[v] = previous[v]
            /\ customer'[v] = customer[v]
      BY <1>0, <3>1 DEF TypeOK
    <3>4. refs[x] = 2 => \A v \in Workers : x \notin {accessor'[v], previous'[v], customer[v], new[v]}
      BY <1>0, <3>1, LastHolder, ElementsAssumption DEF IInv, TypeOK
    <3>. HIDE DEF x
    <3>. QED
      BY <2>0, <3>1, <3>2, <3>3, <3>4, HeldStay DEF x
  <2>11. CASE ReleaseOld(w)
    <3>1. /\ previous[w] \in Entries /\ ReleaseEntry(previous[w])
          /\ previous' = [previous EXCEPT ![w] = None]
          /\ UNCHANGED <<new, accessor, customer>>
      BY <1>0, <2>11 DEF ReleaseOld, TypeOK, StagesOK
    <3>. DEFINE x == previous[w]
    <3>2. /\ InTable(x) /\ keyOf[x] # None
          /\ (refs[x] = 2 /\ Destroyed(x)) \/ DecRefCount(x)
      BY <3>1, Releasing
    <3>3. \A v \in Workers :
            /\ accessor'[v] = accessor[v] /\ previous'[v] \in {previous[v], None}
            /\ customer'[v] = customer[v]
      BY <1>0, <3>1 DEF TypeOK
    <3>4. refs[x] = 2 => \A v \in Workers : x \notin {accessor'[v], previous'[v], customer[v], new[v]}
      BY <1>0, <3>1, LastHolder, ElementsAssumption DEF IInv, TypeOK
    <3>. HIDE DEF x
    <3>. QED
      BY <2>0, <3>1, <3>2, <3>3, <3>4, HeldStay DEF x
  <2>12. CASE TryEvict(w)
    BY <1>0, <2>0, <2>12, TableKept DEF TryEvict, entryVars, workerVars, EntriesOK, TypeOK
  <2>. QED
    BY <1>2, <2>1, <2>2, <2>3, <2>4, <2>5, <2>6, <2>7, <2>8, <2>9, <2>10, <2>11, <2>12
    DEF UserStep
<1>3. ASSUME NEW w \in Workers, EvictStep(w) PROVE EntriesOK'
  <2>0. kind' = kind /\ UNCHANGED workerVars
    BY <1>3 DEF EvictStep, EvictTest, EvictBudget, EnoughFreed, HandIsThere, FAdvance,
                InsertHand, Evict, PassBy, Unlock
  <2>1. CASE Evict(w)
    <3>1. PICK e \in Entries : Pointed(e) /\ Evictable(e) /\ Destroyed(e)
      BY <2>1 DEF Evict, Destroyed
    <3>2. InTable(e) /\ keyOf[e] # None /\ refs[e] = 1
      BY <2>1, <3>1, PointedInTable DEF Evict, Evictable, EXPECTED_REF_COUNT_FOR_DELETE
    <3>3. \A v \in Workers : accessor[v] # e /\ previous[v] # e /\ customer[v] # e /\ new[v] # e
      BY <1>0, <3>2, Unheld DEF IInv
    <3>. QED
      BY <2>0, <3>1, <3>2, <3>3, HeldStay DEF workerVars
  <2>2. CASE ~Evict(w)
    <3>1. UNCHANGED <<keyOf, marked>>
      BY <1>3, <2>2
      DEF EvictStep, EvictTest, EvictBudget, EnoughFreed, HandIsThere, FAdvance,
          InsertHand, PassBy, Unlock, entryVars
    <3>2. \A e \in Entries : InTable(e)' <=> InTable(e)
      BY <1>3, <2>2, TableKept, HandPasses
      DEF EvictStep, EvictTest, EvictBudget, EnoughFreed, HandIsThere, PassBy, Unlock
    <3>. QED
      BY <1>0, <2>0, <3>1, <3>2 DEF EntriesOK, TypeOK, workerVars
  <2>. QED
    BY <2>1, <2>2
<1>. QED
  BY <1>1, <1>2, <1>3 DEF Next

-----------------------------------------------------------------------------
\* The count of an entry after a step of a worker: it follows what the worker does
\* to its own holders, or nobody is left.
CountOK(e) ==
  refs[e] = (IF Owned(e) THEN 1 ELSE 0)
            + Holders(accessor, e) + Holders(previous, e) + Holders(customer, e)

\* RefsExact is the count of each entry.
LEMMA AllCounted ==
  ASSUME \A e \in Entries : CountOK(e)'
  PROVE  RefsExact'
<1>. SUFFICES ASSUME NEW e \in Entries
     PROVE  refs'[e] = (IF InTable(e)' \/ Holders(new', e) > 0 THEN 1 ELSE 0)
                       + Holders(accessor', e) + Holders(previous', e) + Holders(customer', e)
  BY DEF RefsExact
<1>1. Owned(e)' <=> InTable(e)' \/ Holders(new', e) > 0
  BY HoldersCount DEF Owned
<1>. QED
  BY <1>1 DEF CountOK

One(b) == IF b THEN 1 ELSE 0

\* The count that follows the holders of the worker that moves is right again.
LEMMA CountFollows ==
  ASSUME IInv, NEW w \in Workers, NEW e \in Entries,
         \A v \in Workers \ {w} :
           /\ accessor'[v] = accessor[v] /\ previous'[v] = previous[v]
           /\ customer'[v] = customer[v],
         refs'[e] = refs[e] + One(Owned(e)') - One(Owned(e))
                    + One(accessor'[w] = e) - One(accessor[w] = e)
                    + One(previous'[w] = e) - One(previous[w] = e)
                    + One(customer'[w] = e) - One(customer[w] = e)
  PROVE  CountOK(e)'
<1>1. /\ Holders(accessor', e) = Holders(accessor, e) - One(accessor[w] = e) + One(accessor'[w] = e)
      /\ Holders(previous', e) = Holders(previous, e) - One(previous[w] = e) + One(previous'[w] = e)
      /\ Holders(customer', e) = Holders(customer, e) - One(customer[w] = e) + One(customer'[w] = e)
  BY HoldersUpdate DEF One
<1>2. /\ refs[e] = One(Owned(e)) + Holders(accessor, e) + Holders(previous, e) + Holders(customer, e)
      /\ Holders(accessor, e) \in Nat /\ Holders(previous, e) \in Nat
      /\ Holders(customer, e) \in Nat
  BY Counts DEF IInv, One
<1>3. \A b \in BOOLEAN : One(b) \in Nat
  BY DEF One
<1>4. /\ One(Owned(e)') \in Nat /\ One(Owned(e)) \in Nat
      /\ One(accessor'[w] = e) \in Nat /\ One(accessor[w] = e) \in Nat
      /\ One(previous'[w] = e) \in Nat /\ One(previous[w] = e) \in Nat
      /\ One(customer'[w] = e) \in Nat /\ One(customer[w] = e) \in Nat
  BY DEF One
<1>5. refs'[e] = One(Owned(e)') + Holders(accessor', e) + Holders(previous', e) + Holders(customer', e)
  BY <1>1, <1>2, <1>4
<1>. QED
  BY <1>5 DEF CountOK, One

\* So is that of a destroyed entry nobody holds.
LEMMA NobodyLeft ==
  ASSUME NEW e \in Entries, refs'[e] = 0, ~InTable(e)',
         \A v \in Workers : e \notin {accessor'[v], previous'[v], customer'[v], new'[v]}
  PROVE  CountOK(e)'
<1>1. Holders(accessor', e) = 0 /\ Holders(previous', e) = 0 /\ Holders(customer', e) = 0
  BY HoldersCount
<1>2. ~Owned(e)'
  BY DEF Owned
<1>. QED
  BY <1>1, <1>2 DEF CountOK

\* An entry without a key has no reference.
LEMMA UnusedCount ==
  ASSUME IInv, NEW e \in Entries, keyOf[e] = None
  PROVE  /\ refs[e] = 0 /\ ~Owned(e)
         /\ \A v \in Workers : e \notin {accessor[v], previous[v], customer[v], new[v]}
<1>1. ~InTable(e)
  BY DEF IInv, Home, InTable
<1>2. \A v \in Workers : e \notin {accessor[v], previous[v], customer[v], new[v]}
  BY <1>1, ElementsAssumption DEF IInv, EntriesOK
<1>3. Holders(accessor, e) = 0 /\ Holders(previous, e) = 0 /\ Holders(customer, e) = 0
  BY <1>2, HoldersCount
<1>. QED
  BY <1>1, <1>2, <1>3, Counts DEF IInv, Owned

\* ReleaseEntry keeps the counts.
LEMMA ReleaseCounts ==
  ASSUME IInv, NEW w \in Workers, NEW x \in Entries, InTable(x), keyOf[x] # None,
         refs[x] \in Nat, new' = new,
         \/ DecRefCount(x)
         \/ /\ Destroyed(x)
            /\ \A v \in Workers : x \notin {accessor'[v], previous'[v], customer'[v], new[v]},
         \A v \in Workers \ {w} :
           /\ accessor'[v] = accessor[v] /\ previous'[v] = previous[v]
           /\ customer'[v] = customer[v],
         customer'[w] = customer[w],
         \/ accessor[w] = x /\ accessor'[w] = None /\ previous'[w] = previous[w]
         \/ previous[w] = x /\ previous'[w] = None /\ accessor'[w] = accessor[w]
  PROVE  RefsExact'
<1>. SUFFICES ASSUME NEW e \in Entries PROVE CountOK(e)'
  BY AllCounted
<1>0. refs \in [Entries -> Nat]
  BY DEF IInv, TypeOK
<1>1. CASE DecRefCount(x)
  <2>1. Owned(e)' <=> Owned(e)
    BY <1>1, TableKept DEF DecRefCount, Owned
  <2>2. refs'[e] = refs[e] - One(e = x)
    BY <1>0, <1>1 DEF DecRefCount, One
  <2>3. /\ One(Owned(e)') = One(Owned(e)) /\ One(Owned(e)) \in Nat
        /\ One(customer'[w] = e) = One(customer[w] = e) /\ One(customer[w] = e) \in Nat
    BY <2>1 DEF One
  <2>4. One(accessor'[w] = e) - One(accessor[w] = e) + One(previous'[w] = e) - One(previous[w] = e)
          = 0 - One(e = x)
    BY ElementsAssumption DEF One
  <2>5. /\ One(accessor'[w] = e) \in Nat /\ One(accessor[w] = e) \in Nat
        /\ One(previous'[w] = e) \in Nat /\ One(previous[w] = e) \in Nat /\ One(e = x) \in Nat
    BY DEF One
  <2>6. refs'[e] = refs[e] + One(Owned(e)') - One(Owned(e))
                    + One(accessor'[w] = e) - One(accessor[w] = e)
                    + One(previous'[w] = e) - One(previous[w] = e)
                    + One(customer'[w] = e) - One(customer[w] = e)
    BY <1>0, <2>2, <2>3, <2>4, <2>5
  <2>. QED
    BY <2>6, CountFollows
<1>2. ASSUME Destroyed(x), \A v \in Workers : x \notin {accessor'[v], previous'[v], customer'[v], new[v]}
      PROVE  CountOK(e)'
  <2>1. /\ refs' = [refs EXCEPT ![x] = 0]
        /\ \A y \in Entries : InTable(y)' <=> InTable(y) /\ y # x
    BY <1>2, TableLoses DEF Destroyed, DestroyCacheEntry
  <2>2. CASE e = x
    BY <1>0, <1>2, <2>1, <2>2, NobodyLeft
  <2>3. CASE e # x
    <3>1. Owned(e)' <=> Owned(e)
      BY <2>1, <2>3 DEF Owned
    <3>2. refs'[e] = refs[e]
      BY <1>0, <2>1, <2>3
    <3>3. /\ One(Owned(e)') = One(Owned(e)) /\ One(Owned(e)) \in Nat
          /\ One(customer'[w] = e) = One(customer[w] = e) /\ One(customer[w] = e) \in Nat
          /\ One(accessor'[w] = e) = One(accessor[w] = e) /\ One(accessor[w] = e) \in Nat
          /\ One(previous'[w] = e) = One(previous[w] = e) /\ One(previous[w] = e) \in Nat
      BY <2>3, <3>1, ElementsAssumption DEF One
    <3>. QED
      BY <1>0, <3>2, <3>3, CountFollows
  <2>. QED
    BY <2>2, <2>3
<1>. QED
  BY <1>1, <1>2

\* And that of an entry the step does not concern.
LEMMA CountStays ==
  ASSUME IInv, NEW e \in Entries, refs'[e] = refs[e], Owned(e)' <=> Owned(e),
         \A v \in Workers :
           /\ accessor'[v] = e <=> accessor[v] = e
           /\ previous'[v] = e <=> previous[v] = e
           /\ customer'[v] = e <=> customer[v] = e
  PROVE  CountOK(e)'
<1>1. /\ Holders(accessor', e) = Holders(accessor, e)
      /\ Holders(previous', e) = Holders(previous, e)
      /\ Holders(customer', e) = Holders(customer, e)
  BY DEF Holders
<1>. QED
  BY <1>1, Counts DEF IInv, CountOK

\* The reference counts stay exact.
LEMMA RefsNext == IInv /\ [Next]_vars => RefsExact'
<1>. SUFFICES ASSUME IInv, [Next]_vars PROVE RefsExact'
  OBVIOUS
<1>0. /\ refs \in [Entries -> Nat] /\ at \in [Workers -> Stages]
      /\ new \in [Workers -> EntryOrNone] /\ accessor \in [Workers -> EntryOrNone]
      /\ previous \in [Workers -> EntryOrNone] /\ customer \in [Workers -> EntryOrNone]
      /\ StagesOK
  BY DEF IInv, TypeOK
<1>1. ASSUME UNCHANGED <<chain, refs, workerVars>> PROVE RefsExact'
  <2>. SUFFICES ASSUME NEW e \in Entries PROVE CountOK(e)'
    BY AllCounted
  <2>1. Owned(e)' <=> Owned(e)
    BY <1>1, TableKept DEF Owned, workerVars
  <2>. QED
    BY <1>1, <2>1, CountStays DEF workerVars
<1>2. ASSUME NEW w \in Workers, UserStep(w) PROVE RefsExact'
  <2>1. ASSUME NEW x \in kind.entries, NEW k \in kind.keys, StartInsert(w, x, k) PROVE RefsExact'
    <3>1. x \in Entries
      BY KindsAssumption DEF IInv, TypeOK
    <3>2. /\ at[w] = "idle" /\ customer[w] = None /\ keyOf[x] = None
          /\ refs' = [refs EXCEPT ![x] = 2] /\ new' = [new EXCEPT ![w] = x]
          /\ customer' = [customer EXCEPT ![w] = x]
          /\ UNCHANGED <<chain, accessor, previous>>
      BY <2>1 DEF StartInsert
    <3>3. new[w] = None
      BY <1>0, <3>2 DEF StagesOK, Evicting
    <3>. SUFFICES ASSUME NEW e \in Entries PROVE CountOK(e)'
      BY AllCounted
    <3>4. CASE e = x
      <4>1. refs[x] = 0 /\ ~Owned(x) /\ \A v \in Workers : x \notin {accessor[v], previous[v], customer[v], new[v]}
        BY <3>1, <3>2, UnusedCount
      <4>2. Owned(x)' /\ refs'[x] = 2
        BY <1>0, <3>1, <3>2 DEF Owned
      <4>3. /\ One(Owned(e)') = 1 /\ One(Owned(e)) = 0
            /\ One(accessor'[w] = e) = 0 /\ One(accessor[w] = e) = 0
            /\ One(previous'[w] = e) = 0 /\ One(previous[w] = e) = 0
            /\ One(customer'[w] = e) = 1 /\ One(customer[w] = e) = 0
        BY <1>0, <3>2, <3>4, <4>1, <4>2 DEF One
      <4>4. \A v \in Workers \ {w} :
              /\ accessor'[v] = accessor[v] /\ previous'[v] = previous[v]
              /\ customer'[v] = customer[v]
        BY <1>0, <3>2
      <4>5. refs'[e] = refs[e] + One(Owned(e)') - One(Owned(e))
                            + One(accessor'[w] = e) - One(accessor[w] = e)
                            + One(previous'[w] = e) - One(previous[w] = e)
                            + One(customer'[w] = e) - One(customer[w] = e)
        <5>1. refs'[e] = 2 /\ refs[e] = 0
          BY <3>4, <4>1, <4>2
        <5>. QED
          BY <4>3, <5>1
      <4>. QED
        BY <4>4, <4>5, CountFollows
    <3>5. CASE e # x
      <4>1. Owned(e)' <=> Owned(e)
        BY <1>0, <3>2, <3>3, <3>5, TableKept, ElementsAssumption DEF Owned
      <4>. QED
        BY <1>0, <3>1, <3>2, <3>5, <4>1, CountStays, ElementsAssumption
    <3>. QED
      BY <3>4, <3>5
  \* A new accessor to an entry of the table, with its reference.
  <2>a. ASSUME NEW x \in Entries, UNCHANGED <<chain, new, customer>>,
               refs' = [refs EXCEPT ![x] = @ + 1],
               accessor' = [accessor EXCEPT ![w] = x],
               \/ accessor[w] = None /\ previous' = previous
               \/ /\ accessor[w] \in Entries /\ accessor[w] # x /\ previous[w] = None
                  /\ previous' = [previous EXCEPT ![w] = accessor[w]]
        PROVE  RefsExact'
    <3>. SUFFICES ASSUME NEW e \in Entries PROVE CountOK(e)'
      BY AllCounted
    <3>1. One(Owned(e)') = One(Owned(e)) /\ One(Owned(e)) \in Nat
      BY <2>a, TableKept DEF Owned, One
    <3>2. refs'[e] = refs[e] + One(e = x)
      BY <1>0, <2>a DEF One
    <3>3. One(customer'[w] = e) = One(customer[w] = e) /\ One(customer[w] = e) \in Nat
      BY <2>a DEF One
    <3>4. One(accessor'[w] = e) - One(accessor[w] = e) + One(previous'[w] = e) - One(previous[w] = e)
            = One(e = x)
      BY <1>0, <2>a, ElementsAssumption DEF One
    <3>5. /\ One(accessor'[w] = e) \in Nat /\ One(accessor[w] = e) \in Nat
          /\ One(previous'[w] = e) \in Nat /\ One(previous[w] = e) \in Nat /\ One(e = x) \in Nat
      BY DEF One
    <3>6. refs'[e] = refs[e] + One(Owned(e)') - One(Owned(e))
                    + One(accessor'[w] = e) - One(accessor[w] = e)
                    + One(previous'[w] = e) - One(previous[w] = e)
                    + One(customer'[w] = e) - One(customer[w] = e)
      BY <1>0, <3>1, <3>2, <3>3, <3>4, <3>5
    <3>7. \A v \in Workers \ {w} :
              /\ accessor'[v] = accessor[v] /\ previous'[v] = previous[v]
              /\ customer'[v] = customer[v]
      BY <1>0, <2>a
    <3>. QED
      BY <3>6, <3>7, CountFollows
  <2>2. ASSUME NEW k \in kind.keys, Lookup(w, k) PROVE RefsExact'
    <3>1. PICK e \in Entries : FoundUnmarked(w, e)
      BY <2>2, Finds
    <3>2. /\ refs' = [refs EXCEPT ![e] = @ + 1] /\ accessor' = [accessor EXCEPT ![w] = e]
          /\ accessor[w] = None /\ UNCHANGED <<chain, new, customer, previous>>
      BY <2>2, <3>1 DEF FoundUnmarked, Lookup
    <3>. QED
      BY <2>a, <3>2
  <2>3. ASSUME NEW q \in kind.quotas, SetCacheQuota(w, q) PROVE RefsExact'
    BY <1>1, <2>3 DEF SetCacheQuota
  <2>4. CASE InsertNew(w)
    <3>1. /\ at[w] = "insert" /\ new[w] \in Entries
          /\ refs' = [refs EXCEPT ![new[w]] = @ + 1] /\ accessor' = [accessor EXCEPT ![w] = new[w]]
          /\ new' = [new EXCEPT ![w] = None]
          /\ UNCHANGED <<previous, customer>>
      BY <2>4, InsertedTable DEF InsertNew
    <3>. SUFFICES ASSUME NEW e \in Entries PROVE CountOK(e)'
      BY AllCounted
    <3>2. Owned(e)' <=> Owned(e)
      BY <1>0, <2>4, <3>1, TableGains, ElementsAssumption DEF Owned
    <3>3. CASE e = new[w]
      <4>1. accessor[w] # e
        BY <1>0, <2>4, <3>3, InsertedTable, ElementsAssumption DEF IInv, EntriesOK
      <4>2. /\ One(Owned(e)') = One(Owned(e)) /\ One(Owned(e)) \in Nat
            /\ One(accessor'[w] = e) = 1 /\ One(accessor[w] = e) = 0
            /\ One(previous'[w] = e) = One(previous[w] = e) /\ One(previous[w] = e) \in Nat
            /\ One(customer'[w] = e) = One(customer[w] = e) /\ One(customer[w] = e) \in Nat
        BY <1>0, <3>1, <3>2, <3>3, <4>1 DEF One
      <4>3. refs'[e] = refs[e] + 1 /\ refs[e] \in Nat
        BY <1>0, <3>1, <3>3
      <4>4. \A v \in Workers \ {w} :
              /\ accessor'[v] = accessor[v] /\ previous'[v] = previous[v]
              /\ customer'[v] = customer[v]
        BY <1>0, <3>1
      <4>5. refs'[e] = refs[e] + One(Owned(e)') - One(Owned(e))
                            + One(accessor'[w] = e) - One(accessor[w] = e)
                            + One(previous'[w] = e) - One(previous[w] = e)
                            + One(customer'[w] = e) - One(customer[w] = e)
        BY <4>2, <4>3
      <4>. QED
        BY <4>4, <4>5, CountFollows
    <3>4. CASE e # new[w]
      <4>1. accessor[w] # e
        BY <1>0, <3>1, ElementsAssumption DEF StagesOK
      <4>. QED
        BY <1>0, <3>1, <3>2, <3>4, <4>1, CountStays
    <3>. QED
      BY <3>3, <3>4
  <2>5. CASE InsertFindsOther(w)
    <3>1. PICK o \in Entries : FoundOther(w, o)
      BY <2>5, FindsOther
    <3>2. /\ at[w] = "insert" /\ new[w] \in Entries /\ o # new[w] /\ customer[w] = new[w]
          /\ InTable(o) /\ ~InTable(new[w])
          /\ accessor' = [accessor EXCEPT ![w] = o]
          /\ refs' = [refs EXCEPT ![new[w]] = 0, ![o] = @ + 1]
          /\ new' = [new EXCEPT ![w] = None] /\ customer' = [customer EXCEPT ![w] = None]
          /\ UNCHANGED <<chain, previous>>
      BY <2>5, <3>1 DEF FoundOther, Found, InsertFindsOther
    <3>3. /\ \A v \in Workers \ {w} : customer[v] # new[w] /\ new[v] # new[w]
          /\ \A v \in Workers : accessor[v] # new[w] /\ previous[v] # new[w]
          /\ accessor[w] = None
      BY <1>0, <3>2, ElementsAssumption DEF IInv, EntriesOK, StagesOK
    <3>. SUFFICES ASSUME NEW e \in Entries PROVE CountOK(e)'
      BY AllCounted
    <3>4. CASE e = new[w]
      <4>1. refs'[e] = 0 /\ ~InTable(e)'
        BY <1>0, <3>2, <3>4, TableKept
      <4>2. \A v \in Workers : e \notin {accessor'[v], previous'[v], customer'[v], new'[v]}
        BY <1>0, <3>2, <3>3, <3>4, ElementsAssumption
      <4>. QED
        BY <4>1, <4>2, NobodyLeft
    <3>5. CASE e # new[w]
      <4>1. Owned(e)' <=> Owned(e)
        BY <1>0, <3>2, <3>5, TableKept, ElementsAssumption DEF Owned
      <4>2. CASE e # o
        BY <1>0, <3>2, <3>3, <3>5, <4>1, <4>2, CountStays, ElementsAssumption
      <4>3. CASE e = o
        <5>1. /\ One(Owned(e)') = One(Owned(e)) /\ One(Owned(e)) \in Nat
              /\ One(accessor'[w] = e) = 1 /\ One(accessor[w] = e) = 0
              /\ One(previous'[w] = e) = One(previous[w] = e) /\ One(previous[w] = e) \in Nat
              /\ One(customer'[w] = e) = 0 /\ One(customer[w] = e) = 0
          BY <1>0, <3>2, <3>3, <3>5, <4>1, <4>3, ElementsAssumption DEF One
        <5>2. refs'[e] = refs[e] + 1 /\ refs[e] \in Nat
          BY <1>0, <3>2, <3>5, <4>3
        <5>3. \A v \in Workers \ {w} :
                /\ accessor'[v] = accessor[v] /\ previous'[v] = previous[v]
                /\ customer'[v] = customer[v]
          BY <1>0, <3>2
        <5>4. refs'[e] = refs[e] + One(Owned(e)') - One(Owned(e))
                              + One(accessor'[w] = e) - One(accessor[w] = e)
                              + One(previous'[w] = e) - One(previous[w] = e)
                              + One(customer'[w] = e) - One(customer[w] = e)
          BY <5>1, <5>2
        <5>. QED
          BY <5>3, <5>4, CountFollows
      <4>. QED
        BY <4>2, <4>3
    <3>. QED
      BY <3>4, <3>5
  \* One reference more or less for the customer.
  <2>b. ASSUME UNCHANGED <<chain, new, accessor, previous>>,
               NEW x \in Entries,
               \/ /\ customer[w] = None /\ customer' = [customer EXCEPT ![w] = x]
                  /\ refs' = [refs EXCEPT ![x] = @ + 1]
               \/ /\ customer[w] = x /\ customer' = [customer EXCEPT ![w] = None]
                  /\ refs' = [refs EXCEPT ![x] = @ - 1]
        PROVE  RefsExact'
    <3>. SUFFICES ASSUME NEW e \in Entries PROVE CountOK(e)'
      BY AllCounted
    <3>1. /\ One(Owned(e)') = One(Owned(e)) /\ One(Owned(e)) \in Nat
          /\ One(accessor'[w] = e) = One(accessor[w] = e) /\ One(accessor[w] = e) \in Nat
          /\ One(previous'[w] = e) = One(previous[w] = e) /\ One(previous[w] = e) \in Nat
          /\ One(customer'[w] = e) \in Nat /\ One(customer[w] = e) \in Nat
      BY <2>b, TableKept DEF Owned, One
    <3>2. refs'[e] = refs[e] + One(customer'[w] = e) - One(customer[w] = e)
      <4>1. CASE e = x
        BY <1>0, <2>b, <4>1, ElementsAssumption DEF One
      <4>2. CASE e # x
        BY <1>0, <2>b, <4>2, ElementsAssumption DEF One
      <4>. QED
        BY <4>1, <4>2
    <3>3. refs'[e] = refs[e] + One(Owned(e)') - One(Owned(e))
                          + One(accessor'[w] = e) - One(accessor[w] = e)
                          + One(previous'[w] = e) - One(previous[w] = e)
                          + One(customer'[w] = e) - One(customer[w] = e)
      BY <1>0, <3>1, <3>2
    <3>4. \A v \in Workers \ {w} :
              /\ accessor'[v] = accessor[v] /\ previous'[v] = previous[v]
              /\ customer'[v] = customer[v]
      BY <1>0, <2>b
    <3>. QED
      BY <3>3, <3>4, CountFollows
  <2>6. CASE AddCustomer(w)
    <3>1. /\ accessor[w] \in Entries /\ customer[w] = None
          /\ customer' = [customer EXCEPT ![w] = accessor[w]]
          /\ refs' = [refs EXCEPT ![accessor[w]] = @ + 1]
          /\ UNCHANGED <<chain, new, accessor, previous>>
      BY <1>0, <2>6 DEF AddCustomer, StagesOK
    <3>. QED
      BY <2>b, <3>1
  <2>7. CASE CustomerRelease(w)
    <3>1. /\ customer[w] \in Entries
          /\ customer' = [customer EXCEPT ![w] = None]
          /\ refs' = [refs EXCEPT ![customer[w]] = @ - 1]
          /\ UNCHANGED <<chain, new, accessor, previous>>
      BY <1>0, <2>7 DEF CustomerRelease
    <3>. QED
      BY <2>b, <3>1
  <2>8. CASE MarkForDeletion(w)
    BY <1>1, <2>8 DEF MarkForDeletion
  <2>9. CASE AccessNext(w)
    <3>1. PICK e \in Entries : FoundNext(w, e)
      BY <2>9, FindsNext
    <3>2. /\ refs' = [refs EXCEPT ![e] = @ + 1] /\ accessor' = [accessor EXCEPT ![w] = e]
          /\ accessor[w] # e /\ accessor[w] \in Entries
          /\ previous' = [previous EXCEPT ![w] = accessor[w]]
          /\ at[w] = "idle" /\ UNCHANGED <<chain, new, customer>>
      BY <1>0, <2>9, <3>1 DEF FoundNext, AccessNext
    <3>3. previous[w] = None
      BY <1>0, <3>2 DEF StagesOK
    <3>. QED
      BY <2>a, <3>2, <3>3
  <2>10. CASE Release(w)
    <3>1. /\ accessor[w] \in Entries /\ ReleaseEntry(accessor[w])
          /\ accessor' = [accessor EXCEPT ![w] = None]
          /\ UNCHANGED <<new, previous, customer>>
      BY <1>0, <2>10 DEF Release
    <3>. DEFINE x == accessor[w]
    <3>2. /\ InTable(x) /\ keyOf[x] # None /\ refs[x] \in Nat
          /\ (refs[x] = 2 /\ Destroyed(x)) \/ DecRefCount(x)
      BY <3>1, Releasing
    <3>3. /\ \A v \in Workers \ {w} :
               /\ accessor'[v] = accessor[v] /\ previous'[v] = previous[v]
               /\ customer'[v] = customer[v]
          /\ customer'[w] = customer[w] /\ accessor[w] = x /\ accessor'[w] = None
          /\ previous'[w] = previous[w]
      BY <1>0, <3>1
    <3>4. refs[x] = 2 => \A v \in Workers : x \notin {accessor'[v], previous'[v], customer'[v], new[v]}
      BY <1>0, <3>1, LastHolder, ElementsAssumption DEF IInv
    <3>. HIDE DEF x
    <3>. QED
      BY <3>1, <3>2, <3>3, <3>4, ReleaseCounts DEF x
  <2>11. CASE ReleaseOld(w)
    <3>1. /\ previous[w] \in Entries /\ ReleaseEntry(previous[w])
          /\ previous' = [previous EXCEPT ![w] = None]
          /\ UNCHANGED <<new, accessor, customer>>
      BY <1>0, <2>11 DEF ReleaseOld, StagesOK
    <3>. DEFINE x == previous[w]
    <3>2. /\ InTable(x) /\ keyOf[x] # None /\ refs[x] \in Nat
          /\ (refs[x] = 2 /\ Destroyed(x)) \/ DecRefCount(x)
      BY <3>1, Releasing
    <3>3. /\ \A v \in Workers \ {w} :
               /\ accessor'[v] = accessor[v] /\ previous'[v] = previous[v]
               /\ customer'[v] = customer[v]
          /\ customer'[w] = customer[w] /\ previous[w] = x /\ previous'[w] = None
          /\ accessor'[w] = accessor[w]
      BY <1>0, <3>1
    <3>4. refs[x] = 2 => \A v \in Workers : x \notin {accessor'[v], previous'[v], customer'[v], new[v]}
      BY <1>0, <3>1, LastHolder, ElementsAssumption DEF IInv
    <3>. HIDE DEF x
    <3>. QED
      BY <3>1, <3>2, <3>3, <3>4, ReleaseCounts DEF x
  <2>12. CASE TryEvict(w)
    BY <1>1, <2>12 DEF TryEvict
  <2>. QED
    BY <1>2, <2>1, <2>2, <2>3, <2>4, <2>5, <2>6, <2>7, <2>8, <2>9, <2>10, <2>11, <2>12
    DEF UserStep
<1>3. ASSUME NEW w \in Workers, EvictStep(w) PROVE RefsExact'
  <2>0. UNCHANGED workerVars
    BY <1>3 DEF EvictStep, EvictTest, EvictBudget, EnoughFreed, HandIsThere, FAdvance,
                InsertHand, Evict, PassBy, Unlock
  <2>. SUFFICES ASSUME NEW e \in Entries PROVE CountOK(e)'
    BY AllCounted
  <2>1. CASE Evict(w)
    <3>1. PICK x \in Entries : Pointed(x) /\ Evictable(x) /\ Destroyed(x)
      BY <2>1 DEF Evict, Destroyed
    <3>2. InTable(x) /\ keyOf[x] # None /\ refs[x] = 1
      BY <2>1, <3>1, PointedInTable DEF Evict, Evictable, EXPECTED_REF_COUNT_FOR_DELETE
    <3>3. \A v \in Workers : accessor[v] # x /\ previous[v] # x /\ customer[v] # x /\ new[v] # x
      BY <3>2, Unheld DEF IInv
    <3>4. /\ refs' = [refs EXCEPT ![x] = 0]
          /\ \A y \in Entries : InTable(y)' <=> InTable(y) /\ y # x
      BY <3>1, <3>2, TableLoses DEF Destroyed, DestroyCacheEntry
    <3>5. CASE e = x
      BY <1>0, <2>0, <3>3, <3>4, <3>5, NobodyLeft DEF workerVars
    <3>6. CASE e # x
      <4>1. Owned(e)' <=> Owned(e)
        BY <2>0, <3>4, <3>6 DEF Owned, workerVars
      <4>. QED
        BY <1>0, <2>0, <3>4, <3>6, <4>1, CountStays DEF workerVars
    <3>. QED
      BY <3>5, <3>6
  <2>2. CASE ~Evict(w)
    <3>1. refs' = refs
      BY <1>3, <2>2
      DEF EvictStep, EvictTest, EvictBudget, EnoughFreed, HandIsThere, FAdvance,
          InsertHand, PassBy, Unlock
    <3>2. InTable(e)' <=> InTable(e)
      BY <1>3, <2>2, TableKept, HandPasses
      DEF EvictStep, EvictTest, EvictBudget, EnoughFreed, HandIsThere, PassBy, Unlock
    <3>3. Owned(e)' <=> Owned(e)
      BY <2>0, <3>2 DEF Owned, workerVars
    <3>. QED
      BY <2>0, <3>1, <3>3, CountStays DEF workerVars
  <2>. QED
    BY <2>1, <2>2
<1>. QED
  BY <1>1, <1>2, <1>3 DEF Next, vars
-----------------------------------------------------------------------------
\* The hand stands before an entry when its place is the one before.
LEMMA Adjacency ==
  ASSUME NEW S, NEW s \in Seq(S), NEW x, NEW y
  PROVE  Adjacent(s, x, y) <=> \E p \in DOMAIN s : s[p] = x /\ p < Len(s) /\ s[p + 1] = y
<1>1. DOMAIN s = 1..Len(s)
  BY LenProperties
<1>. QED
  BY <1>1 DEF Adjacent

\* The entry the hand stands before, by the order of its chain.
LEMMA PointsTo ==
  ASSUME chain \in Chains, hand \in BucketIndexes, NEW e
  PROVE  Pointed(e) <=> Adjacent(chain[hand], Marker, e)
<1>1. chain[hand] \in Seq(Elements)
  BY DEF Chains
<1>. QED
  BY <1>1, Adjacency DEF Pointed

\* Where the hand has passed an entry that it has shown.
LEMMA PlacePassed ==
  ASSUME IInv, NEW e \in shown
  PROVE  /\ e \in Entries /\ InTable(e) /\ keyOf[e] # None /\ BucketOf(keyOf[e]) \in BucketIndexes
         /\ \/ BucketOf(keyOf[e]) < hand
            \/ /\ hand \in BucketIndexes /\ HandInserted /\ BucketOf(keyOf[e]) = hand
               /\ \/ Before(chain[hand], e, Marker)
                  \/ Pointed(e) /\ ~Looking /\ ~handAdvanced
<1>1. e \in Entries /\ InTable(e) /\ keyOf[e] # None /\ BucketOf(keyOf[e]) \in BucketIndexes
  BY BucketType DEF IInv, ShownPassed, TypeOK, Home, InTable
<1>2. CASE BucketOf(keyOf[e]) < hand
  BY <1>1, <1>2
<1>3. CASE ~(BucketOf(keyOf[e]) < hand)
  <2>1. hand \in BucketIndexes
    BY <1>1, <1>3, KeysAssumption DEF IInv, TypeOK, BucketIndexes
  <2>2. /\ chain[hand] \in Seq(Elements) /\ Len(chain[hand]) \in Nat
        /\ DOMAIN chain[hand] = 1..Len(chain[hand])
    BY <2>1, ChainShape DEF IInv
  <2>3. Before(chain[hand], e, Marker) \/ (Pointed(e) /\ ~Looking /\ ~handAdvanced)
    BY <1>3 DEF IInv, ShownPassed, Passed
  <2>4. Contains(chain[hand], e) /\ Contains(chain[hand], Marker)
    <3>1. CASE Before(chain[hand], e, Marker)
      BY <3>1 DEF Before, Contains
    <3>2. CASE Pointed(e)
      <4>1. PICK p \in 1..Len(chain[hand]) :
              chain[hand][p] = Marker /\ p < Len(chain[hand]) /\ chain[hand][p + 1] = e
        BY <2>2, <3>2 DEF Pointed
      <4>2. p + 1 \in 1..Len(chain[hand])
        BY <2>2, <4>1
      <4>. QED
        BY <4>1, <4>2 DEF Contains
    <3>. QED
      BY <2>3, <3>1, <3>2
  <2>5. BucketOf(keyOf[e]) = hand /\ HandInserted
    BY <1>1, <2>1, <2>4 DEF IInv, Home, HandInserted, HandIn
  <2>. QED
    BY <1>1, <2>1, <2>3, <2>5
<1>. QED
  BY <1>2, <1>3

\* What a step beside the hand leaves of an entry that stays shown: its bucket and
\* its order with the hand.
LEMMA ShownKept ==
  ASSUME IInv, NEW w \in Workers, UserStep(w) \/ EvictStep(w), ~FAdvance(w), ~InsertHand(w),
         NEW e \in Entries, InTable(e), ~Destroyed(e)
  PROVE  /\ InTable(e)' /\ keyOf'[e] = keyOf[e]
         /\ chain' \in Chains /\ hand' = hand
         /\ \A b \in BucketIndexes :
              /\ Before(chain[b], e, Marker) => Before(chain[b], e, Marker)'
              /\ Adjacent(chain[b], Marker, e) => Adjacent(chain[b], Marker, e)'
<1>1. keyOf'[e] = keyOf[e]
  BY KeyStays
<1>2. hand' = hand
  BY DEF UserStep, StartInsert, Lookup, SetCacheQuota, InsertNew, InsertFindsOther, AddCustomer,
         CustomerRelease, MarkForDeletion, AccessNext, Release, ReleaseOld, TryEvict,
         EvictStep, EvictTest, EvictBudget, EnoughFreed, HandIsThere, Evict, PassBy, Unlock,
         handVars
<1>3. CASE chain' = chain
  BY <1>1, <1>2, <1>3 DEF InTable, Contains, Before, Adjacent, IInv, TypeOK, Chains, Elements
<1>4. CASE InsertNew(w)
  BY <1>1, <1>2, <1>4, InsertedTable, TableGains
<1>5. ASSUME NEW x \in Entries, Found(x), Destroyed(x)
      PROVE  /\ InTable(e)' /\ chain' \in Chains
             /\ \A b \in BucketIndexes :
                  /\ Before(chain[b], e, Marker) => Before(chain[b], e, Marker)'
                  /\ Adjacent(chain[b], Marker, e) => Adjacent(chain[b], Marker, e)'
  <2>1. x # e /\ x # Marker
    BY <1>5, ElementsAssumption
  <2>2. InTable(e)'
    BY <1>5, <2>1, TableLoses DEF Found
  <2>. QED
    BY <1>5, <2>1, <2>2, Unlinked DEF Found, Destroyed, IInv
<1>. QED
  BY <1>1, <1>2, <1>3, <1>4, <1>5, TableSteps

\* Only the hand shows entries, the one it points to.
LEMMA ShownSteps ==
  ASSUME NEW w \in Workers, UserStep(w) \/ EvictStep(w), ~PassBy(w)
  PROVE  /\ shown' \subseteq shown
         /\ \A e \in Entries : e \in shown' => ~Destroyed(e)
<1>1. shown' \subseteq shown
  BY DEF UserStep, StartInsert, Lookup, SetCacheQuota, InsertNew, InsertFindsOther, AddCustomer,
         CustomerRelease, MarkForDeletion, AccessNext, Release, ReleaseOld, TryEvict, ReleaseEntry,
         EvictStep, EvictTest, EvictBudget, EnoughFreed, HandIsThere, FAdvance, InsertHand, Evict,
         Unlock, DecRefCount, DestroyCacheEntry, entryVars
<1>2. \A e \in Entries : Destroyed(e) => e \notin shown'
  BY DEF Destroyed, DestroyCacheEntry
<1>. QED
  BY <1>1, <1>2

\* What the hand has shown stays behind it.
LEMMA ShownNext == IInv /\ [Next]_vars => ShownPassed'
<1>. SUFFICES ASSUME IInv, [Next]_vars PROVE ShownPassed'
  OBVIOUS
<1>0. TypeOK /\ EvictionOK /\ shown \subseteq Entries /\ hand \in Nat
  BY DEF IInv, TypeOK
<1>1. ASSUME UNCHANGED vars PROVE ShownPassed'
  BY <1>1 DEF vars, entryVars, handVars, IInv, ShownPassed, Passed, Looking, InTable, Contains,
              Before, Pointed
<1>2. ASSUME NEW w \in Workers, UserStep(w) \/ EvictStep(w), NEW e \in shown'
      PROVE  InTable(e)' /\ Passed(e)'
  <2>1. CASE InsertHand(w)
    <3>1. ~PassBy(w) /\ ~HandInserted /\ at[w] = "insertHand"
      BY <1>0, <2>1 DEF InsertHand, PassBy, EvictionOK
    <3>2. e \in shown /\ keyOf' = keyOf
      BY <1>2, <2>1, <3>1, ShownSteps DEF InsertHand
    <3>3. InTable(e)' /\ BucketOf(keyOf[e]) < hand
      BY <1>0, <2>1, <3>1, <3>2, PlacePassed, HandPasses
    <3>4. BucketOf(keyOf[e]) \in Nat
      BY <3>2, PlacePassed DEF BucketIndexes
    <3>5. hand' = hand \/ hand' = hand + 1
      BY <1>2, <2>1, HandInsertion
    <3>. QED
      BY <1>0, <3>2, <3>3, <3>4, <3>5 DEF Passed, BucketOf
  <2>2. CASE FAdvance(w)
    <3>1. ~PassBy(w) /\ at[w] = "round" /\ ~handAdvanced
      BY <2>2 DEF FAdvance, PassBy
    <3>2. e \in shown /\ keyOf' = keyOf
      BY <1>2, <2>2, <3>1, ShownSteps DEF FAdvance, entryVars
    <3>3. /\ e \in Entries /\ InTable(e)' /\ BucketOf(keyOf[e]) \in Nat
          /\ (BucketOf(keyOf[e]))' = BucketOf(keyOf[e])
      BY <1>0, <2>2, <3>2, PlacePassed, HandPasses DEF BucketIndexes, BucketOf
    <3>4. CASE HandInserted
      <4>1. \/ hand' = hand + 1
            \/ /\ hand' = hand
               /\ Before(chain[hand], e, Marker) \/ Pointed(e) => Before(chain[hand], e, Marker)'
        BY <2>2, <3>3, <3>4, HandMoved DEF IInv
      <4>2. CASE hand' = hand + 1
        BY <1>0, <3>2, <3>3, <4>2, PlacePassed DEF Passed
      <4>3. CASE hand' = hand /\ BucketOf(keyOf[e]) < hand
        BY <3>3, <4>3 DEF Passed
      <4>4. CASE hand' = hand /\ ~(BucketOf(keyOf[e]) < hand)
        <5>1. Before(chain[hand], e, Marker) \/ Pointed(e)
          BY <3>2, <4>4, PlacePassed
        <5>2. Before(chain[hand], e, Marker)'
          BY <1>0, <4>1, <4>4, <5>1
        <5>. QED
          BY <3>3, <5>2 DEF Passed
      <4>. QED
        BY <4>1, <4>2, <4>3, <4>4
    <3>5. CASE ~HandInserted
      <4>1. BucketOf(keyOf[e]) < hand /\ hand' = hand
        BY <2>2, <3>2, <3>5, PlacePassed, HandStep
      <4>. QED
        BY <3>3, <4>1 DEF Passed
    <3>. QED
      BY <3>4, <3>5
  <2>3. CASE PassBy(w)
    <3>1. /\ at[w] = "look" /\ at' = [at EXCEPT ![w] = "round"] /\ UNCHANGED <<chain, keyOf, hand, handAdvanced>>
          /\ e \in shown \/ (e \in Entries /\ Pointed(e))
      BY <1>2, <2>3 DEF PassBy, handVars
    <3>2. \A v \in Workers \ {w} : at[v] # "look"
      BY <3>1, EvictsAlone DEF Evicting
    <3>3. Looking /\ ~Looking' /\ ~handAdvanced
      BY <1>0, <3>1, <3>2 DEF Looking, EvictionOK, TypeOK
    <3>4. CASE e \in shown
      <4>1. InTable(e) /\ (BucketOf(keyOf[e]) < hand \/ Before(chain[hand], e, Marker))
        BY <3>3, <3>4, PlacePassed
      <4>. QED
        BY <3>1, <4>1 DEF InTable, Contains, Passed, Before, BucketOf
    <3>5. CASE e \in Entries /\ Pointed(e)
      <4>1. InTable(e)
        BY <3>1, <3>5, PointedInTable
      <4>2. InTable(e)' /\ Pointed(e)'
        BY <3>1, <3>5, <4>1 DEF InTable, Contains, Pointed
      <4>. QED
        BY <3>1, <3>3, <4>2 DEF Passed
    <3>. QED
      BY <3>1, <3>4, <3>5
  <2>4. CASE ~InsertHand(w) /\ ~FAdvance(w) /\ ~PassBy(w)
    <3>1. e \in shown /\ e \in Entries /\ ~Destroyed(e)
      BY <1>0, <1>2, <2>4, ShownSteps
    <3>2. InTable(e)
      BY <3>1, PlacePassed
    <3>3. /\ InTable(e)' /\ keyOf'[e] = keyOf[e] /\ chain' \in Chains /\ hand' = hand
          /\ hand \in BucketIndexes =>
               /\ Before(chain[hand], e, Marker) => Before(chain[hand], e, Marker)'
               /\ Adjacent(chain[hand], Marker, e) => Adjacent(chain[hand], Marker, e)'
      <4>1. /\ InTable(e)' /\ keyOf'[e] = keyOf[e] /\ chain' \in Chains /\ hand' = hand
            /\ \A b \in BucketIndexes :
                 /\ Before(chain[b], e, Marker) => Before(chain[b], e, Marker)'
                 /\ Adjacent(chain[b], Marker, e) => Adjacent(chain[b], Marker, e)'
        BY <1>2, <2>4, <3>1, <3>2, ShownKept
      <4>. QED
        BY <4>1 DEF Before, Adjacent
    <3>4. CASE BucketOf(keyOf[e]) < hand
      BY <3>3, <3>4 DEF Passed, BucketOf
    <3>5. CASE hand \in BucketIndexes /\ Before(chain[hand], e, Marker)
      BY <3>3, <3>5 DEF Passed
    <3>6. CASE hand \in BucketIndexes /\ Pointed(e) /\ ~Looking /\ ~handAdvanced
      <4>1. Adjacent(chain[hand], Marker, e)
        BY <1>0, <3>6, PointsTo DEF TypeOK, Chains, Elements
      <4>2. Pointed(e)'
        <5>1. chain'[hand'] \in Seq(Elements)
          BY <3>3, <3>6 DEF Chains
        <5>2. Adjacent(chain'[hand'], Marker, e)
          BY <3>3, <3>6, <4>1 DEF Adjacent
        <5>. QED
          BY <5>1, <5>2, Adjacency DEF Pointed
      <4>3. at'[w] # "look" /\ ~handAdvanced' /\ \A v \in Workers \ {w} : at'[v] = at[v]
        <5>1. ~HandIsThere(w) /\ ~Evict(w) /\ handAdvanced = FALSE /\ at[w] # "look"
          BY <3>6 DEF HandIsThere, Evict, Looking
        <5>2. CASE UserStep(w)
          <6>1. handAdvanced' = handAdvanced
            BY <5>2
            DEF UserStep, StartInsert, Lookup, SetCacheQuota, InsertNew, InsertFindsOther,
                AddCustomer, CustomerRelease, MarkForDeletion, AccessNext, Release, ReleaseOld,
                TryEvict, handVars
          <6>2. \/ at' = at
                \/ \E place \in Stages \ {"look"} : at' = [at EXCEPT ![w] = place]
            BY <5>2
            DEF UserStep, StartInsert, Lookup, SetCacheQuota, InsertNew, InsertFindsOther,
                AddCustomer, CustomerRelease, MarkForDeletion, AccessNext, Release, ReleaseOld,
                TryEvict, AfterEviction, Stages
          <6>. QED
            BY <1>0, <5>1, <6>1, <6>2 DEF TypeOK
        <5>3. CASE EvictStep(w)
          <6>1. handAdvanced' = handAdvanced
            BY <2>4, <5>1, <5>3
            DEF EvictStep, EvictTest, EvictBudget, EnoughFreed, Unlock, handVars
          <6>2. \E place \in Stages \ {"look"} : at' = [at EXCEPT ![w] = place]
            BY <2>4, <5>1, <5>3
            DEF EvictStep, EvictTest, EvictBudget, EnoughFreed, Unlock, AfterEviction, Stages
          <6>. QED
            BY <1>0, <5>1, <6>1, <6>2 DEF TypeOK
        <5>. QED
          BY <1>2, <5>2, <5>3
      <4>4. ~Looking'
        BY <3>6, <4>3 DEF Looking
      <4>. QED
        BY <3>3, <4>2, <4>3, <4>4 DEF Passed
    <3>. QED
      BY <3>1, <3>4, <3>5, <3>6, PlacePassed
  <2>. QED
    BY <2>1, <2>2, <2>3, <2>4
<1>3. ASSUME NEW w \in Workers, UserStep(w) \/ EvictStep(w) PROVE ShownPassed'
  BY <1>2, <1>3 DEF ShownPassed
<1>. QED
  BY <1>1, <1>3 DEF Next

-----------------------------------------------------------------------------
\* One entry more is its size more.
LEMMA EntryTimes ==
  ASSUME NEW n \in Nat
  PROVE  EntrySize * (n + 1) = EntrySize * n + EntrySize /\ EntrySize * n \in Nat
  BY SizesAssumption

\* The table is finite.
LEMMA CachedCount == IsFiniteSet(Cached) /\ Cardinality(Cached) \in Nat
<1>1. IsFiniteSet(Cached)
  BY FiniteAssumption, FS_Subset DEF Cached
<1>. QED
  BY <1>1, FS_CardinalityType

\* The table has one entry less when one is destroyed.
LEMMA OneLess ==
  ASSUME IInv, NEW x \in Entries, InTable(x), keyOf[x] # None, Destroyed(x)
  PROVE  \E n \in Nat : Cardinality(Cached) = n + 1 /\ Cardinality(Cached') = n
<1>1. x \in Cached /\ Cached' = Cached \ {x}
  BY TableLoses DEF Cached
<1>2. Cardinality(Cached \ {x}) = Cardinality(Cached) - 1
  BY <1>1, CachedCount, FS_RemoveElement
<1>3. Cardinality(Cached \ {x}) \in Nat
  BY CachedCount, FS_Subset, FS_CardinalityType
<1>. QED
  BY <1>1, <1>2, <1>3, CachedCount

\* What is accounted is the size of what the table holds.
LEMMA SizeNext == IInv /\ [Next]_vars => SizeExact'
<1>. SUFFICES ASSUME IInv, [Next]_vars PROVE SizeExact'
  OBVIOUS
<1>. DEFINE n == Cardinality(Cached)
<1>0. /\ size \in Nat /\ n \in Nat /\ EntrySize \in Nat /\ EntrySize * n \in Nat
      /\ size >= EntrySize * n /\ (~kind.mayMark => size = EntrySize * n)
  BY CachedCount, EntryTimes, SizesAssumption DEF IInv, TypeOK, SizeExact
<1>. HIDE DEF n
<1>1. ASSUME kind' = kind, size' = size, \A e \in Entries : InTable(e)' <=> InTable(e)
      PROVE  SizeExact'
  <2>1. Cached' = Cached
    BY <1>1 DEF Cached
  <2>. QED
    BY <1>0, <1>1, <2>1 DEF SizeExact, n
<1>2. CASE UNCHANGED vars
  BY <1>1, <1>2, TableKept DEF vars, sizeVars
<1>3. ASSUME NEW w \in Workers, UserStep(w) PROVE SizeExact'
  <2>0. kind' = kind
    BY <1>3 DEF UserStep
  <2>1. CASE InsertNew(w)
    <3>1. new[w] \in Entries /\ ~InTable(new[w]) /\ size' = size + EntrySize
      BY <2>1, InsertedTable DEF InsertNew
    <3>2. Cached' = Cached \union {new[w]} /\ new[w] \notin Cached
      BY <2>1, <3>1, TableGains DEF Cached
    <3>3. Cardinality(Cached') = n + 1
      BY <3>2, CachedCount, FS_AddElement DEF n
    <3>4. EntrySize * (n + 1) = EntrySize * n + EntrySize
      BY <1>0, EntryTimes
    <3>. QED
      BY <1>0, <2>0, <3>1, <3>3, <3>4 DEF SizeExact
  <2>2. ASSUME NEW x \in Entries, accessor[w] = x \/ previous[w] = x, ReleaseEntry(x), size' = size
        PROVE  SizeExact'
    <3>1. CASE DecRefCount(x)
      BY <1>1, <2>0, <2>2, <3>1, TableKept DEF DecRefCount
    <3>2. CASE x \in marked /\ Destroyed(x)
      <4>1. InTable(x) /\ keyOf[x] # None
        BY <2>2, Releasing
      <4>2. PICK m \in Nat : n = m + 1 /\ Cardinality(Cached') = m
        BY <3>2, <4>1, OneLess DEF n
      <4>3. EntrySize * (m + 1) = EntrySize * m + EntrySize /\ EntrySize * m \in Nat
        BY EntryTimes
      <4>4. kind.mayMark
        BY <3>2 DEF IInv, EntriesOK
      <4>. QED
        BY <1>0, <2>0, <2>2, <4>2, <4>3, <4>4 DEF SizeExact
    <3>. QED
      BY <2>2, <3>1, <3>2, Releasing
  <2>3. CASE Release(w)
    BY <2>2, <2>3 DEF Release, IInv, TypeOK, sizeVars
  <2>4. CASE ReleaseOld(w)
    BY <2>2, <2>4 DEF ReleaseOld, IInv, TypeOK, StagesOK, sizeVars
  <2>5. CASE ~InsertNew(w) /\ ~Release(w) /\ ~ReleaseOld(w)
    <3>1. chain' = chain /\ size' = size
      BY <1>3, <2>5
      DEF UserStep, StartInsert, Lookup, SetCacheQuota, InsertFindsOther, AddCustomer,
          CustomerRelease, MarkForDeletion, AccessNext, TryEvict, sizeVars
    <3>. QED
      BY <1>1, <2>0, <3>1, TableKept
  <2>. QED
    BY <2>1, <2>3, <2>4, <2>5
<1>4. ASSUME NEW w \in Workers, EvictStep(w) PROVE SizeExact'
  <2>0. kind' = kind
    BY <1>4 DEF EvictStep
  <2>1. CASE Evict(w)
    <3>1. PICK x \in Entries : Pointed(x) /\ Destroyed(x)
      BY <2>1 DEF Evict, Destroyed
    <3>2. InTable(x) /\ keyOf[x] # None /\ size' = size - EntrySize
      BY <2>1, <3>1, PointedInTable DEF Evict, SizeAfterEviction
    <3>3. PICK m \in Nat : n = m + 1 /\ Cardinality(Cached') = m
      BY <3>1, <3>2, OneLess DEF n
    <3>4. EntrySize * (m + 1) = EntrySize * m + EntrySize /\ EntrySize * m \in Nat
      BY EntryTimes
    <3>. QED
      BY <1>0, <2>0, <3>2, <3>3, <3>4 DEF SizeExact
  <2>2. CASE FAdvance(w) \/ InsertHand(w)
    <3>1. size' = size
      BY <2>2 DEF FAdvance, InsertHand, sizeVars
    <3>. QED
      BY <1>1, <2>0, <2>2, <3>1, HandPasses
  <2>3. CASE ~Evict(w) /\ ~FAdvance(w) /\ ~InsertHand(w)
    <3>1. chain' = chain /\ size' = size
      BY <1>4, <2>3
      DEF EvictStep, EvictTest, EvictBudget, EnoughFreed, HandIsThere, PassBy, Unlock, sizeVars
    <3>. QED
      BY <1>1, <2>0, <3>1, TableKept
  <2>. QED
    BY <2>1, <2>2, <2>3
<1>. QED
  BY <1>2, <1>3, <1>4 DEF Next

-----------------------------------------------------------------------------
\* The empty cache.
LEMMA InitOK == Init => IInv
<1>. SUFFICES ASSUME Init PROVE IInv
  OBVIOUS
<1>0. /\ \A b \in BucketIndexes : chain[b] = <<>>
      /\ \A e \in Entries : keyOf[e] = None /\ refs[e] = 0
      /\ \A w \in Workers : at[w] = "idle" /\ new[w] = None /\ accessor[w] = None
                            /\ previous[w] = None /\ customer[w] = None
      /\ hand = 0 /\ handAdvanced = FALSE /\ shown = {} /\ marked = {} /\ size = 0
      /\ evictor = None /\ toFree = 0 /\ freed = 0 /\ round = 0
  BY DEF Init, Nothing
<1>1. TypeOK
  <2>1. <<>> \in Seq(Elements)
    OBVIOUS
  <2>2. chain \in [BucketIndexes -> Seq(Entries \union {Marker})]
    BY <2>1 DEF Init, Elements
  <2>3. quota \in kind.quotas /\ kind \in Kinds
    BY DEF Init
  <2>4. /\ hand \in 0..Buckets /\ round \in 0..(GClockInit + 1) /\ {toFree, freed} \subseteq Nat
        /\ size \in Nat /\ quota \in kind.quotas /\ handAdvanced \in BOOLEAN
    <3>1. 0 \in 0..Buckets /\ 0 \in 0..(GClockInit + 1) /\ 0 \in Nat
      BY KeysAssumption, SizesAssumption
    <3>. QED
      BY <1>0, <2>3, <3>1
  <2>5. /\ keyOf \in [Entries -> Keys \union {None}] /\ refs \in [Entries -> Nat]
        /\ gclock \in [Entries -> 0..GClockInit]
    BY SizesAssumption DEF Init
  <2>6. /\ at \in [Workers -> Stages]
        /\ new \in [Workers -> EntryOrNone] /\ accessor \in [Workers -> EntryOrNone]
        /\ previous \in [Workers -> EntryOrNone] /\ customer \in [Workers -> EntryOrNone]
    BY DEF Init, Nothing, Stages
  <2>. QED
    BY <1>0, <2>2, <2>3, <2>4, <2>5, <2>6 DEF TypeOK
<1>2. \A b \in BucketIndexes : \A x : ~Contains(chain[b], x)
  BY <1>0 DEF Contains
<1>3. /\ \A e \in Entries : ~InTable(e)
      /\ ~HandInserted
  BY <1>2 DEF InTable, HandInserted, HandIn
<1>4. StagesOK
  BY <1>0 DEF StagesOK
<1>5. EvictionOK
  BY <1>0, <1>3, KeysAssumption, ElementsAssumption DEF EvictionOK, Evicting
<1>6. Once /\ Home
  <2>1. \A b \in BucketIndexes : chain[b] = <<>>
    BY <1>0
  <2>2. Once
    BY <2>1 DEF Once, Distinct
  <2>3. Home
    BY <1>2 DEF Home, HandIn
  <2>. QED
    BY <2>2, <2>3
<1>7. EntriesOK
  BY <1>0 DEF EntriesOK
<1>8. ShownPassed
  BY <1>0 DEF ShownPassed
<1>9. RefsExact
  <2>1. ASSUME NEW e \in Entries, NEW held, \A w \in Workers : held[w] = None
        PROVE  Holders(held, e) = 0
    BY <2>1, HoldersCount, ElementsAssumption
  <2>. QED
    BY <1>0, <1>3, <2>1 DEF RefsExact
<1>10. SizeExact
  <2>1. Cached = {}
    BY <1>3 DEF Cached
  <2>. QED
    BY <1>0, <2>1, FS_EmptySet, SizesAssumption DEF SizeExact
<1>. QED
  BY <1>1, <1>4, <1>5, <1>6, <1>7, <1>8, <1>9, <1>10 DEF IInv

\* The invariant is inductive.
THEOREM CacheInvariant == Spec => []IInv
<1>1. IInv /\ [Next]_vars => IInv'
  BY TypesNext, StagesNext, EvictionNext, ChainsNext, EntriesNext, ShownNext, RefsNext, SizeNext
  DEF IInv
<1>. QED
  BY InitOK, <1>1, PTL DEF Spec

\* Each variable keeps its type, whatever the sizes, the quotas and the number of
\* workers; the size never falls below zero.
THEOREM CacheTyping == Spec => []TypeOK
<1>1. IInv => TypeOK
  BY DEF IInv
<1>. QED
  BY CacheInvariant, <1>1, PTL

\* The counts that eviction and ReleaseEntry decide by are exact, though accessors
\* and customers change them without the lock of the bucket.
THEOREM CountsExact == Spec => []RefsExact
<1>1. IInv => RefsExact
  BY DEF IInv
<1>. QED
  BY CacheInvariant, <1>1, PTL

\* Neither eviction nor ReleaseEntry takes an entry from the table while an accessor
\* holds it.
THEOREM PinnedStays == Spec => []PinnedInTable
<1>1. IInv => PinnedInTable
  BY DEF IInv, TypeOK, EntriesOK, PinnedInTable, Cached
<1>. QED
  BY CacheInvariant, <1>1, PTL

\* m_ullCacheSize is the size of what the table holds, or more once a marked entry
\* has been destroyed.
THEOREM SizeStaysExact == Spec => []SizeExact
<1>1. IInv => SizeExact
  BY DEF IInv
<1>. QED
  BY CacheInvariant, <1>1, PTL

\* A pass of the clock hand comes to no entry twice, whatever other workers insert
\* and remove beside it.
THEOREM ShownOnce == Spec => []NoneTwice
<1>1. IInv => NoneTwice
  <2>. SUFFICES ASSUME IInv, NEW w \in Workers, at[w] = "look", NEW e \in shown, Pointed(e)
       PROVE FALSE
    BY DEF NoneTwice
  <2>1. e \in Entries /\ Looking
    BY PlacePassed DEF Looking
  <2>2. hand \in BucketIndexes /\ BucketOf(keyOf[e]) = hand
    BY <2>1, PointedInTable
  <2>3. Before(chain[hand], e, Marker)
    BY <2>1, <2>2, PlacePassed DEF BucketIndexes
  <2>4. /\ Len(chain[hand]) \in Nat /\ DOMAIN chain[hand] = 1..Len(chain[hand])
        /\ Distinct(chain[hand])
    BY <2>2, ChainShape DEF IInv, Once
  <2>5. PICK i \in 1..Len(chain[hand]), j \in 1..Len(chain[hand]) :
          i < j /\ chain[hand][i] = e /\ chain[hand][j] = Marker
    BY <2>3 DEF Before
  <2>6. PICK p \in 1..Len(chain[hand]) :
          chain[hand][p] = Marker /\ p < Len(chain[hand]) /\ chain[hand][p + 1] = e
    BY <2>4 DEF Pointed
  <2>7. p + 1 \in 1..Len(chain[hand])
    BY <2>4, <2>6
  <2>8. p = j /\ p + 1 = i
    BY <2>4, <2>5, <2>6, <2>7 DEF Distinct
  <2>. QED
    BY <2>5, <2>8
<1>. QED
  BY CacheInvariant, <1>1, PTL
=============================================================================
