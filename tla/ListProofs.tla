----------------------------- MODULE ListProofs -----------------------------
(***************************************************************************)
(* What Retain does to a sequence, without a look at its definition; and   *)
(* how to argue along a sequence, one element after the other.             *)
(***************************************************************************)
EXTENDS Lists, FiniteSetTheorems, WellFoundedInduction, TLAPS

\* Any set of indices of a sequence is finite.
LEMMA IndicesFinite ==
  ASSUME NEW S, NEW s \in Seq(S), NEW keep \in SUBSET DOMAIN s
  PROVE  /\ keep \in SUBSET Nat
         /\ IsFiniteSet(keep) /\ Cardinality(keep) \in Nat
<1>1. DOMAIN s = 1..Len(s) /\ Len(s) \in Nat
  OBVIOUS
<1>2. IsFiniteSet(DOMAIN s)
  BY <1>1, FS_Interval
<1>3. IsFiniteSet(keep)
  BY <1>2, FS_Subset
<1> QED
  BY <1>1, <1>3, FS_CardinalityType

\* The places of the kept indices are the numbers from 1 on, each taken once and
\* in the order of the indices.
LEMMA Places ==
  ASSUME NEW keep \in SUBSET Nat, IsFiniteSet(keep)
  PROVE  /\ \A i \in keep : Place(keep, i) \in 1..Cardinality(keep)
         /\ \A i, j \in keep : i < j => Place(keep, i) < Place(keep, j)
         /\ \A n \in 1..Cardinality(keep) : \E i \in keep : Place(keep, i) = n
<1> DEFINE K        == Cardinality(keep)
           upto(i)  == {j \in keep : j <= i}
           place    == [i \in keep |-> Place(keep, i)]
<1>1. K \in Nat
  BY FS_CardinalityType
<1>2. ASSUME NEW i \in keep
      PROVE  /\ IsFiniteSet(upto(i)) /\ Place(keep, i) = Cardinality(upto(i))
             /\ Place(keep, i) \in 1..K
  <2>1. upto(i) \in SUBSET keep
    OBVIOUS
  <2>2. IsFiniteSet(upto(i)) /\ Cardinality(upto(i)) <= K
    BY <2>1, FS_Subset
  <2>3. Cardinality(upto(i)) \in Nat
    BY <2>2, FS_CardinalityType
  <2>4. i \in upto(i)
    OBVIOUS
  <2>5. Cardinality(upto(i)) # 0
    BY <2>2, <2>4, FS_EmptySet
  <2> QED
    BY <1>1, <2>2, <2>3, <2>5 DEF Place
<1>3. ASSUME NEW i \in keep, NEW j \in keep, i < j
      PROVE  Place(keep, i) < Place(keep, j)
  <2>0. \A k \in keep : k \in Nat
    OBVIOUS
  <2>1. \A k \in keep : k <= i => k <= j
    BY <1>3, <2>0
  <2>2. upto(i) \in SUBSET upto(j)
    BY <2>1
  <2>3. j \in upto(j) /\ j \notin upto(i)
    BY <1>3, <2>0
  <2>4. upto(i) # upto(j)
    BY <2>3
  <2>5. Cardinality(upto(i)) <= Cardinality(upto(j)) /\ Cardinality(upto(j)) # Cardinality(upto(i))
    BY <1>2, <2>2, <2>4, FS_Subset
  <2>6. Place(keep, i) \in 1..K /\ Place(keep, j) \in 1..K
    BY <1>2
  <2>7. Place(keep, i) = Cardinality(upto(i)) /\ Place(keep, j) = Cardinality(upto(j))
    BY <1>2
  <2> HIDE DEF upto
  <2> QED
    BY <1>1, <2>5, <2>6, <2>7
<1>4. place \in Injection(keep, 1..K)
  <2>1. place \in [keep -> 1..K]
    BY <1>2
  <2>2. ASSUME NEW i \in keep, NEW j \in keep, place[i] = place[j]
        PROVE  i = j
    <3>1. Place(keep, i) = Place(keep, j)
      BY <2>2
    <3>2. Place(keep, i) \in 1..K /\ i \in Nat /\ j \in Nat
      BY <1>2
    <3> HIDE DEF place, upto
    <3>3. ~ (Place(keep, i) < Place(keep, j)) /\ ~ (Place(keep, j) < Place(keep, i))
      BY <1>1, <3>1, <3>2
    <3> QED
      BY <1>3, <3>2, <3>3
  <2> QED
    BY <2>1, <2>2 DEF Injection, IsInjective
<1>5. IsFiniteSet(1..K) /\ Cardinality(1..K) = K
  BY <1>1, FS_Interval
<1>6. place \in Surjection(keep, 1..K)
  BY <1>4, <1>5, FS_Injection
<1>7. \A n \in 1..K : \E i \in keep : Place(keep, i) = n
  BY <1>6 DEF Surjection
<1> QED
  BY <1>2, <1>3, <1>7

\* Retain keeps the elements at the given indices, each of them once, in their
\* order, and nothing else: `from' tells where each came from.
LEMMA RetainKeeps ==
  ASSUME NEW S, NEW s \in Seq(S), NEW keep \in SUBSET DOMAIN s
  PROVE  /\ Retain(s, keep) \in Seq(S)
         /\ Len(Retain(s, keep)) = Cardinality(keep)
         /\ DOMAIN Retain(s, keep) = 1..Cardinality(keep)
         /\ \E from \in [DOMAIN Retain(s, keep) -> keep] :
              /\ \A n \in DOMAIN Retain(s, keep) : Retain(s, keep)[n] = s[from[n]]
              /\ \A m, n \in DOMAIN Retain(s, keep) : m < n => from[m] < from[n]
              /\ \A m, n \in DOMAIN Retain(s, keep) : from[m] = from[n] => m = n
              /\ \A i \in keep : \E n \in DOMAIN Retain(s, keep) : from[n] = i
<1> DEFINE K    == Cardinality(keep)
           from == [n \in 1..K |-> CHOOSE i \in keep : Place(keep, i) = n]
<1>1. keep \in SUBSET Nat /\ IsFiniteSet(keep) /\ K \in Nat
  BY IndicesFinite
<1>2. /\ \A i \in keep : Place(keep, i) \in 1..K
      /\ \A i, j \in keep : i < j => Place(keep, i) < Place(keep, j)
      /\ \A n \in 1..K : \E i \in keep : Place(keep, i) = n
  BY <1>1, Places
<1>3. \A n \in 1..K : from[n] \in keep /\ Place(keep, from[n]) = n
  BY <1>2
<1>4. from \in [1..K -> keep]
  BY <1>3
<1>5. ASSUME NEW i \in keep
      PROVE  \E n \in 1..K : from[n] = i
  <2>1. Place(keep, i) \in 1..K
    BY <1>2
  <2>2. from[Place(keep, i)] \in keep /\ Place(keep, from[Place(keep, i)]) = Place(keep, i)
    BY <1>3, <2>1
  <2> HIDE DEF from
  <2>3. from[Place(keep, i)] = i
    BY <1>1, <1>2, <2>1, <2>2
  <2> QED
    BY <2>1, <2>3
<1>6. ASSUME NEW m \in 1..K, NEW n \in 1..K, m < n
      PROVE  from[m] < from[n]
  <2> HIDE DEF from
  <2>1. from[m] \in keep /\ from[n] \in keep /\ Place(keep, from[m]) = m /\ Place(keep, from[n]) = n
    BY <1>3
  <2>2. ~ (from[n] < from[m]) /\ from[n] # from[m]
    BY <1>1, <1>2, <1>6, <2>1
  <2> QED
    BY <1>1, <2>1, <2>2
<1>7. Retain(s, keep) = [n \in 1..K |-> s[from[n]]]
  BY DEF Retain
<1> HIDE DEF from
<1>8. DOMAIN Retain(s, keep) = 1..K /\ \A n \in 1..K : Retain(s, keep)[n] = s[from[n]]
  BY <1>7
<1>9. \A i \in keep : s[i] \in S
  OBVIOUS
<1>10. [n \in 1..K |-> s[from[n]]] \in [1..K -> S]
  BY <1>4, <1>9
<1>11. Retain(s, keep) \in Seq(S) /\ Len(Retain(s, keep)) = K
  BY <1>1, <1>7, <1>10
<1>12. \A m, n \in 1..K : from[m] = from[n] => m = n
  BY <1>3
<1>13. from \in [DOMAIN Retain(s, keep) -> keep]
  BY <1>4, <1>8
<1>14. \A m, n \in 1..K : m < n => from[m] < from[n]
  BY <1>6
<1>15. \E f \in [DOMAIN Retain(s, keep) -> keep] :
         /\ \A n \in DOMAIN Retain(s, keep) : Retain(s, keep)[n] = s[f[n]]
         /\ \A m, n \in DOMAIN Retain(s, keep) : m < n => f[m] < f[n]
         /\ \A m, n \in DOMAIN Retain(s, keep) : f[m] = f[n] => m = n
         /\ \A i \in keep : \E n \in DOMAIN Retain(s, keep) : f[n] = i
  <2> WITNESS from \in [DOMAIN Retain(s, keep) -> keep]
  <2> QED
    BY <1>5, <1>8, <1>12, <1>14
<1> QED
  BY <1>8, <1>11, <1>15

\* The elements of r are those of s at the indices kept, one after the other.
Picks(from, r, s, keep) ==
  /\ from \in [DOMAIN r -> keep]
  /\ \A n \in DOMAIN r : r[n] = s[from[n]]
  /\ \A m, n \in DOMAIN r : m < n => from[m] < from[n]
  /\ \A i \in keep : \E n \in DOMAIN r : from[n] = i

LEMMA RetainPicks ==
  ASSUME NEW S, NEW s \in Seq(S), NEW keep \in SUBSET DOMAIN s
  PROVE  Retain(s, keep) \in Seq(S) /\ \E from : Picks(from, Retain(s, keep), s, keep)
<1>1. PICK from \in [DOMAIN Retain(s, keep) -> keep] :
        /\ \A n \in DOMAIN Retain(s, keep) : Retain(s, keep)[n] = s[from[n]]
        /\ \A m, n \in DOMAIN Retain(s, keep) : m < n => from[m] < from[n]
        /\ \A m, n \in DOMAIN Retain(s, keep) : from[m] = from[n] => m = n
        /\ \A i \in keep : \E n \in DOMAIN Retain(s, keep) : from[n] = i
  BY RetainKeeps
<1>2. Picks(from, Retain(s, keep), s, keep)
  BY <1>1 DEF Picks
<1>3. Retain(s, keep) \in Seq(S)
  BY RetainKeeps
<1> QED
  BY <1>2, <1>3

\* The elements left are those at the indices kept, none twice that was not.
LEMMA RetainElements ==
  ASSUME NEW S, NEW s \in Seq(S), NEW keep \in SUBSET DOMAIN s
  PROVE  /\ Retain(s, keep) \in Seq(S)
         /\ \A k \in DOMAIN Retain(s, keep) : \E i \in keep : Retain(s, keep)[k] = s[i]
         /\ \A i \in keep : \E k \in DOMAIN Retain(s, keep) : Retain(s, keep)[k] = s[i]
         /\ (\A i, j \in DOMAIN s : s[i] = s[j] => i = j) =>
              \A i, j \in DOMAIN Retain(s, keep) :
                Retain(s, keep)[i] = Retain(s, keep)[j] => i = j
<1> DEFINE r == Retain(s, keep)
<1>1. PICK from \in [DOMAIN Retain(s, keep) -> keep] :
        /\ \A n \in DOMAIN Retain(s, keep) : Retain(s, keep)[n] = s[from[n]]
        /\ \A m, n \in DOMAIN Retain(s, keep) : m < n => from[m] < from[n]
        /\ \A m, n \in DOMAIN Retain(s, keep) : from[m] = from[n] => m = n
        /\ \A i \in keep : \E n \in DOMAIN Retain(s, keep) : from[n] = i
  BY RetainKeeps
<1>2. /\ \A n \in DOMAIN r : from[n] \in keep /\ from[n] \in DOMAIN s /\ r[n] = s[from[n]]
      /\ \A m, n \in DOMAIN r : from[m] = from[n] => m = n
      /\ \A i \in keep : \E n \in DOMAIN r : from[n] = i
  BY <1>1
<1>3. r \in Seq(S)
  BY RetainKeeps
<1> HIDE DEF r
<1>4. \A i \in keep : \E k \in DOMAIN r : r[k] = s[i]
  BY <1>2
<1>5. ASSUME \A i, j \in DOMAIN s : s[i] = s[j] => i = j,
             NEW i \in DOMAIN r, NEW j \in DOMAIN r, r[i] = r[j]
      PROVE  i = j
  <2>1. s[from[i]] = s[from[j]] /\ from[i] \in DOMAIN s /\ from[j] \in DOMAIN s
    BY <1>2, <1>5
  <2>2. from[i] = from[j]
    BY <1>5, <2>1
  <2> QED
    BY <1>2, <2>2
<1>6. \A k \in DOMAIN r : \E i \in keep : r[k] = s[i]
  BY <1>2
<1> QED
  BY <1>3, <1>4, <1>5, <1>6 DEF r

\* Only the first element goes.
LEMMA RetainAllButFirst ==
  ASSUME NEW S, NEW s \in Seq(S), s # <<>>
  PROVE  Retain(s, DOMAIN s \ {1}) = Tail(s)
<1> DEFINE keep == 2..Len(s)
<1>1. DOMAIN s = 1..Len(s) /\ Len(s) \in Nat /\ Len(s) > 0
  OBVIOUS
<1>2. DOMAIN s \ {1} = keep
  BY <1>1
<1>3. Cardinality(keep) = Len(s) - 1
  BY <1>1, FS_Interval
<1>4. ASSUME NEW i \in keep
      PROVE  Place(keep, i) = i - 1
  <2>1. {j \in keep : j <= i} = 2..i
    BY <1>1
  <2>2. Cardinality(2..i) = i - 1
    BY <1>1, FS_Interval
  <2> QED
    BY <2>1, <2>2 DEF Place
<1>5. ASSUME NEW n \in 1..(Len(s) - 1)
      PROVE  (CHOOSE i \in keep : Place(keep, i) = n) = n + 1
  <2>1. n + 1 \in keep /\ Place(keep, n + 1) = n
    BY <1>1, <1>4
  <2> DEFINE i == CHOOSE i \in keep : Place(keep, i) = n
  <2>2. i \in keep /\ Place(keep, i) = n
    BY <2>1
  <2> HIDE DEF i
  <2>3. i = n + 1
    BY <1>1, <1>4, <2>2
  <2> QED
    BY <2>3 DEF i
<1>6. Retain(s, keep) = [n \in 1..(Len(s) - 1) |-> s[CHOOSE i \in keep : Place(keep, i) = n]]
  BY <1>3 DEF Retain
<1>7. Retain(s, keep) = [n \in 1..(Len(s) - 1) |-> s[n + 1]]
  <2> HIDE DEF keep
  <2> QED
    BY <1>5, <1>6
<1>8. Tail(s) = [n \in 1..(Len(s) - 1) |-> s[n + 1]]
  <2>1. Tail(s) \in Seq(S) /\ Len(Tail(s)) = Len(s) - 1
    BY <1>1
  <2>2. Tail(s) \in [1..(Len(s) - 1) -> S]
    <3> DEFINE r == Tail(s)
    <3>1. r \in Seq(S) /\ Len(r) = Len(s) - 1
      BY <2>1
    <3> HIDE DEF r
    <3>2. r \in [1..Len(r) -> S]
      BY <3>1
    <3> QED
      BY <3>1, <3>2 DEF r
  <2>3. \A n \in 1..(Len(s) - 1) : Tail(s)[n] = s[n + 1]
    BY <1>1
  <2> QED
    BY <2>2, <2>3
<1> QED
  BY <1>2, <1>7, <1>8

\* Where the elements of s and of r are in q.
JoinsAt(q, s, r) ==
  /\ \A i \in DOMAIN q : i \in Nat
  /\ \A i \in DOMAIN q : \/ i <= Len(s) /\ i \in DOMAIN s /\ q[i] = s[i]
                         \/ Len(s) < i /\ i - Len(s) \in DOMAIN r /\ q[i] = r[i - Len(s)]
  /\ \A i \in DOMAIN s : i \in DOMAIN q /\ q[i] = s[i]
  /\ \A i \in DOMAIN r : Len(s) + i \in DOMAIN q /\ q[Len(s) + i] = r[i]

LEMMA JoinedAt ==
  ASSUME NEW S, NEW s \in Seq(S), NEW r \in Seq(S)
  PROVE  JoinsAt(s \o r, s, r)
<1>1. DOMAIN s = 1..Len(s) /\ DOMAIN r = 1..Len(r) /\ Len(s) \in Nat /\ Len(r) \in Nat
  OBVIOUS
<1>2. DOMAIN (s \o r) = 1..(Len(s) + Len(r))
  OBVIOUS
<1>3. \A i \in 1..(Len(s) + Len(r)) :
        (s \o r)[i] = IF i <= Len(s) THEN s[i] ELSE r[i - Len(s)]
  OBVIOUS
<1> QED
  BY <1>1, <1>2, <1>3 DEF JoinsAt

-----------------------------------------------------------------------------
(* Along a sequence.                                                       *)

\* A set of indices has a least one.
LEMMA LeastIndex ==
  ASSUME NEW T \in SUBSET Nat, T # {}
  PROVE  \E least \in T : \A n \in T : least <= n
<1>1. IsWellFoundedOn(OpToRel(<, Nat), Nat)
  BY NatLessThanWellFounded
<1>2. PICK least \in T : \A n \in T : ~ (<<n, least>> \in OpToRel(<, Nat))
  BY <1>1, WFMin
<1>3. \A n \in T : n \in Nat /\ ~ (n < least)
  BY <1>2 DEF OpToRel
<1>4. least \in Nat
  OBVIOUS
<1>5. \A n \in T : least <= n
  BY <1>3, <1>4
<1> QED
  BY <1>5

\* What holds at the start of a span, and of the next place whenever of one,
\* holds throughout.
LEMMA Onwards ==
  ASSUME NEW a \in Nat, NEW b \in Nat, NEW T, a \in T,
         \A i \in a..(b - 1) : i \in T => i + 1 \in T
  PROVE  \A i \in a..b : i \in T
<1> SUFFICES ASSUME NEW k \in a..b, k \notin T PROVE FALSE
  OBVIOUS
<1> DEFINE Missing == {i \in a..b : i \notin T}
<1>1. Missing \in SUBSET Nat /\ Missing # {}
  OBVIOUS
<1> HIDE DEF Missing
<1>2. PICK least \in Missing : \A n \in Missing : least <= n
  BY <1>1, LeastIndex
<1>3. least \in a..b /\ least \notin T /\ least # a
  BY <1>2 DEF Missing
<1>4. least - 1 \in a..(b - 1) /\ (least - 1) + 1 = least
  BY <1>3
<1>5. least - 1 \in T
  BY <1>2, <1>3, <1>4 DEF Missing
<1> QED
  BY <1>3, <1>4, <1>5

\* One of the steps R.
Leads(R, p, c, q) == <<p, c, q>> \in R

\* Where a walk ends.
EndOf(t) == t[Len(t)]

\* A walk along s: t[i] is where it stands before s[i], and R are the steps.
Walks(R, t, s) ==
  /\ Len(t) = Len(s) + 1
  /\ \A i \in 1..Len(s) : Leads(R, t[i], s[i], t[i + 1])

\* It starts and ends somewhere.
LEMMA WalkEnds ==
  ASSUME NEW R, NEW S, NEW T, NEW s \in Seq(S), NEW t \in Seq(T), Walks(R, t, s)
  PROVE  t[1] \in T /\ EndOf(t) \in T
<1>1. Len(t) = Len(s) + 1 /\ Len(s) \in Nat
  BY DEF Walks
<1> QED
  BY <1>1 DEF EndOf

\* Another element takes the walk one step further.
LEMMA WalkAppend ==
  ASSUME NEW R, NEW S, NEW T, NEW s \in Seq(S), NEW t \in Seq(T), Walks(R, t, s),
         NEW c \in S, NEW end \in T, Leads(R, EndOf(t), c, end)
  PROVE  \E u \in Seq(T) :
           /\ Walks(R, u, Append(s, c)) /\ u[1] = t[1] /\ EndOf(u) = end
<1> DEFINE u == Append(t, end)
           r == Append(s, c)
<1>1. /\ u \in Seq(T) /\ Len(u) = Len(t) + 1 /\ u[Len(u)] = end
      /\ \A i \in 1..Len(t) : u[i] = t[i]
  OBVIOUS
<1>2. /\ r \in Seq(S) /\ Len(r) = Len(s) + 1 /\ r[Len(r)] = c
      /\ \A i \in 1..Len(s) : r[i] = s[i]
  OBVIOUS
<1>3. Len(t) = Len(s) + 1 /\ \A i \in 1..Len(s) : Leads(R, t[i], s[i], t[i + 1])
  BY DEF Walks
<1>4. Len(s) \in Nat /\ Len(t) \in Nat /\ DOMAIN r = 1..Len(r)
  BY <1>2
<1> HIDE DEF u, r
<1>5. ASSUME NEW i \in DOMAIN r
      PROVE  Leads(R, u[i], r[i], u[i + 1])
  <2>1. CASE i \in 1..Len(s)
    <3>1. i \in 1..Len(t) /\ i + 1 \in 1..Len(t)
      BY <1>3, <1>4, <2>1
    <3>2. u[i] = t[i] /\ u[i + 1] = t[i + 1] /\ r[i] = s[i]
      BY <1>1, <1>2, <2>1, <3>1
    <3> QED
      BY <1>3, <2>1, <3>2
  <2>2. CASE i = Len(r)
    <3>1. u[i] = t[Len(t)] /\ u[i + 1] = end /\ r[i] = c
      BY <1>1, <1>2, <1>3, <1>4, <2>2
    <3> QED
      BY <3>1 DEF EndOf
  <2> QED
    BY <1>2, <1>4, <2>1, <2>2
<1>6. Walks(R, u, r) /\ u[1] = t[1]
  <2>1. 1 \in 1..Len(t) /\ Len(u) = Len(r) + 1
    BY <1>1, <1>2, <1>3, <1>4
  <2>2. u[1] = t[1]
    BY <1>1, <2>1
  <2>3. \A i \in 1..Len(r) : Leads(R, u[i], r[i], u[i + 1])
    BY <1>4, <1>5
  <2> QED
    BY <2>1, <2>2, <2>3 DEF Walks
<1> QED
  BY <1>1, <1>6 DEF r, EndOf

\* Without the first element it starts one step later.
LEMMA WalkTail ==
  ASSUME NEW R, NEW S, NEW T, NEW s \in Seq(S), NEW t \in Seq(T), Walks(R, t, s), s # <<>>
  PROVE  \E u \in Seq(T) :
           /\ Walks(R, u, Tail(s)) /\ Leads(R, t[1], s[1], u[1]) /\ EndOf(u) = EndOf(t)
<1> DEFINE u == Tail(t)
           r == Tail(s)
<1>1. Len(s) \in Nat /\ Len(s) > 0
  OBVIOUS
<1>2. Len(t) = Len(s) + 1 /\ \A i \in 1..Len(s) : Leads(R, t[i], s[i], t[i + 1])
  BY <1>1 DEF Walks
<1>3. u \in Seq(T) /\ Len(u) = Len(s) /\ \A i \in 1..Len(s) : u[i] = t[i + 1]
  BY <1>1, <1>2
<1>4. r \in Seq(S) /\ Len(r) = Len(s) - 1 /\ \A i \in 1..(Len(s) - 1) : r[i] = s[i + 1]
  BY <1>1
<1> HIDE DEF u, r
<1>5. DOMAIN r = 1..(Len(s) - 1)
  BY <1>4
<1>6. ASSUME NEW i \in DOMAIN r
      PROVE  Leads(R, u[i], r[i], u[i + 1])
  <2>1. /\ i \in 1..(Len(s) - 1) /\ i \in 1..Len(s) /\ i + 1 \in 1..Len(s)
    BY <1>1, <1>5
  <2>2. u[i] = t[i + 1] /\ u[i + 1] = t[(i + 1) + 1] /\ r[i] = s[i + 1]
    BY <1>3, <1>4, <2>1
  <2>3. Leads(R, t[i + 1], s[i + 1], t[(i + 1) + 1])
    BY <1>2, <2>1
  <2> QED
    BY <2>2, <2>3
<1>7. u[1] = t[2] /\ u[Len(u)] = t[Len(t)] /\ Leads(R, t[1], s[1], t[2])
  <2>1. Leads(R, t[1], s[1], t[1 + 1])
    BY <1>1, <1>2
  <2> QED
    BY <1>1, <1>2, <1>3, <2>1
<1> QED
  <2>1. Walks(R, u, r)
    <3>1. Len(u) = Len(r) + 1 /\ DOMAIN r = 1..Len(r)
      BY <1>1, <1>3, <1>4
    <3> QED
      BY <1>6, <3>1 DEF Walks
  <2>2. Leads(R, t[1], s[1], u[1]) /\ EndOf(u) = EndOf(t)
    BY <1>7 DEF EndOf
  <2> QED
    BY <1>3, <2>1, <2>2 DEF r

\* One walk goes on where another ends.
LEMMA WalkOn ==
  ASSUME NEW R, NEW S, NEW T, NEW s \in Seq(S), NEW t \in Seq(T), Walks(R, t, s),
         NEW r \in Seq(S), NEW u \in Seq(T), Walks(R, u, r), u[1] = EndOf(t)
  PROVE  \E w \in Seq(T) :
           /\ Walks(R, w, s \o r) /\ w[1] = t[1] /\ EndOf(w) = EndOf(u)
<1> DEFINE m == Len(s)
           n == Len(r)
           w == [i \in 1..(m + n + 1) |-> IF i <= m THEN t[i] ELSE u[i - m]]
           q == s \o r
<1>0. m \in Nat /\ n \in Nat /\ DOMAIN s = 1..m /\ DOMAIN r = 1..n
  OBVIOUS
<1>1. /\ m \in Nat /\ n \in Nat /\ Len(t) = m + 1 /\ Len(u) = n + 1
      /\ \A i \in 1..m : Leads(R, t[i], s[i], t[i + 1])
      /\ \A i \in 1..n : Leads(R, u[i], r[i], u[i + 1])
  <2> HIDE DEF m, n
  <2>1. Len(t) = m + 1 /\ Len(u) = n + 1
    BY DEF Walks, m, n
  <2> QED
    BY <1>0, <2>1 DEF Walks
<1>2. \A i \in 1..(m + n + 1) : w[i] \in T
  BY <1>1
<1>3. w \in [1..(m + n + 1) -> T]
  BY <1>2
<1>4. /\ q \in Seq(S) /\ Len(q) = m + n
      /\ \A i \in 1..m : q[i] = s[i]
      /\ \A i \in (m + 1)..(m + n) : q[i] = r[i - m]
  OBVIOUS
<1>5. \A i \in 1..(m + n + 1) : w[i] = IF i <= m THEN t[i] ELSE u[i - m]
  OBVIOUS
<1> HIDE DEF w, q
<1>6. w \in Seq(T) /\ Len(w) = m + n + 1 /\ DOMAIN q = 1..(m + n)
  <2> DEFINE k == m + n + 1
  <2>1. k \in Nat /\ w \in [1..k -> T]
    BY <1>1, <1>3
  <2> HIDE DEF k
  <2>2. w \in Seq(T) /\ Len(w) = k
    BY <2>1
  <2>3. DOMAIN q = 1..(m + n)
    BY <1>4
  <2> QED
    BY <2>2, <2>3 DEF k
<1>7. \A i \in 1..(m + 1) : w[i] = t[i]
  BY <1>1, <1>5 DEF EndOf
<1>8. ASSUME NEW i \in DOMAIN q
      PROVE  Leads(R, w[i], q[i], w[i + 1])
  <2>1. CASE i <= m
    <3>1. i \in 1..m /\ i \in 1..(m + 1) /\ i + 1 \in 1..(m + 1)
      BY <1>1, <1>6, <2>1
    <3>2. w[i] = t[i] /\ w[i + 1] = t[i + 1] /\ q[i] = s[i]
      BY <1>4, <1>7, <3>1
    <3> QED
      BY <1>1, <3>1, <3>2
  <2>2. CASE i > m
    <3>1. i - m \in 1..n /\ (i - m) + 1 = (i + 1) - m /\ i \in (m + 1)..(m + n) /\ i + 1 > m
      BY <1>1, <1>6, <2>2
    <3>2. i \in 1..(m + n + 1) /\ i + 1 \in 1..(m + n + 1) /\ ~ (i <= m) /\ ~ (i + 1 <= m)
      BY <1>1, <1>6, <2>2
    <3>3. w[i] = u[i - m] /\ w[i + 1] = u[(i + 1) - m] /\ q[i] = r[i - m]
      BY <1>4, <1>5, <3>1, <3>2
    <3> QED
      BY <1>1, <3>1, <3>3
  <2> QED
    BY <1>1, <1>6, <2>1, <2>2
<1>9. w[1] = t[1] /\ EndOf(w) = EndOf(u)
  <2>1. 1 \in 1..(m + 1) /\ w[1] = t[1]
    BY <1>1, <1>7
  <2>2. Len(w) = m + n + 1 /\ Len(w) - m = Len(u) /\ Len(w) \in 1..(m + n + 1) /\ ~ (Len(w) <= m)
    BY <1>1, <1>6
  <2>3. w[Len(w)] = u[Len(u)]
    BY <1>5, <2>2
  <2> QED
    BY <2>1, <2>3 DEF EndOf
<1>10. Len(w) = Len(q) + 1
  BY <1>4, <1>6
<1>11. Walks(R, w, q)
  BY <1>4, <1>6, <1>8, <1>10 DEF Walks
<1> QED
  BY <1>6, <1>9, <1>11 DEF q

\* r are the elements of s that stay; each leads from where the walk stood before
\* those left out in front of it to where it led.
Skips(R, t, s, r, from) ==
  /\ from \in [DOMAIN r -> DOMAIN s]
  /\ \A k \in DOMAIN r : r[k] = s[from[k]]
  /\ \A k, m \in DOMAIN r : k < m => from[k] < from[m]
  /\ \A a, b \in DOMAIN s :
       /\ a <= b /\ \E k \in DOMAIN r : from[k] = b
       /\ \A j \in a..(b - 1) : \A k \in DOMAIN r : from[k] # j
       => Leads(R, t[a], s[b], t[b + 1])

\* Then the walk may skip what is left out; what comes after its end is, too.
SkipsTo(R, u, end, t, s, r, from) ==
  /\ Walks(R, u, r) /\ u[1] = t[1] /\ EndOf(u) = t[end]
  /\ \A j \in end..Len(s) : \A k \in DOMAIN r : from[k] # j

LEMMA WalkOver ==
  ASSUME NEW R, NEW S, NEW T, NEW s \in Seq(S), NEW t \in Seq(T), Walks(R, t, s),
         NEW r \in Seq(S), NEW from, Skips(R, t, s, r, from)
  PROVE  \E u \in Seq(T), end \in 1..(Len(s) + 1) : SkipsTo(R, u, end, t, s, r, from)
<1> DEFINE n     == Len(s)
           m     == Len(r)
           place == [k \in 1..(m + 1) |-> IF k = 1 THEN 1 ELSE from[k - 1] + 1]
           u     == [k \in 1..(m + 1) |-> t[place[k]]]
<1>1. n \in Nat /\ m \in Nat /\ DOMAIN s = 1..n /\ DOMAIN r = 1..m
  OBVIOUS
<1>2. Len(t) = n + 1
  BY DEF Walks
<1>15. /\ from \in [DOMAIN r -> DOMAIN s]
       /\ \A k \in DOMAIN r : r[k] = s[from[k]]
       /\ \A k, i \in DOMAIN r : k < i => from[k] < from[i]
  BY DEF Skips
<1>16. ASSUME NEW a \in DOMAIN s, NEW b \in DOMAIN s, a <= b, \E k \in DOMAIN r : from[k] = b,
              \A j \in a..(b - 1) : \A k \in DOMAIN r : from[k] # j
       PROVE  Leads(R, t[a], s[b], t[b + 1])
  BY <1>16 DEF Skips
<1> HIDE DEF n, m
<1>3. /\ \A k \in 1..m : from[k] \in 1..n /\ r[k] = s[from[k]]
      /\ \A k, i \in 1..m : k < i => from[k] < from[i]
  BY <1>1, <1>15
<1>4. place[1] = 1 /\ \A k \in 1..m : place[k + 1] = from[k] + 1
  BY <1>1
<1>5. \A k \in 1..(m + 1) : place[k] \in 1..(n + 1)
  BY <1>1, <1>3
<1>6. \A k \in 1..(m + 1) : u[k] = t[place[k]]
  OBVIOUS
<1>7. u \in [1..(m + 1) -> T]
  <2>1. \A k \in 1..(n + 1) : t[k] \in T
    BY <1>2
  <2> QED
    BY <1>5, <2>1
<1> HIDE DEF place, u
<1>8. u \in Seq(T) /\ Len(u) = m + 1
  <2> DEFINE l == m + 1
  <2>1. l \in Nat /\ u \in [1..l -> T]
    BY <1>1, <1>7
  <2> HIDE DEF l
  <2>2. u \in Seq(T) /\ Len(u) = l
    BY <2>1
  <2> QED
    BY <2>2 DEF l
\* Nothing that stays lies between place[k] and the next that does.
<1>9. ASSUME NEW k \in 1..(m + 1), NEW i \in 1..m, from[i] >= place[k]
      PROVE  i >= k
  <2> SUFFICES ASSUME i < k PROVE FALSE
    BY <1>1
  <2>1. k - 1 \in 1..m /\ (k - 1) + 1 = k /\ (i = k - 1 \/ i < k - 1)
    BY <1>1
  <2>2. place[k] = from[k - 1] + 1
    BY <1>4, <2>1
  <2>3. from[i] <= from[k - 1]
    <3>1. from[i] \in 1..n /\ from[k - 1] \in 1..n
      BY <1>3, <2>1
    <3>2. i < k - 1 => from[i] < from[k - 1]
      BY <1>3, <2>1
    <3> QED
      BY <2>1, <3>1, <3>2
  <2> QED
    BY <1>3, <1>9, <2>1, <2>2, <2>3
<1>10. ASSUME NEW k \in 1..m
       PROVE  Leads(R, u[k], r[k], u[k + 1])
  <2> DEFINE a == place[k]
             b == from[k]
  <2>1. k \in 1..(m + 1) /\ k + 1 \in 1..(m + 1)
    BY <1>1
  <2>2. a \in 1..(n + 1) /\ b \in 1..n
    BY <1>3, <1>5, <2>1
  <2>3. a <= b
    <3>1. CASE k = 1
      BY <1>4, <2>2, <3>1
    <3>2. CASE k # 1
      <4>1. k - 1 \in 1..m /\ (k - 1) + 1 = k /\ k - 1 < k
        BY <1>1, <3>2
      <4>2. place[k] = from[k - 1] + 1 /\ from[k - 1] < from[k]
        BY <1>1, <1>3, <1>4, <4>1
      <4> QED
        BY <1>3, <4>1, <4>2
    <3> QED
      BY <3>1, <3>2
  <2>4. ASSUME NEW j \in a..(b - 1), NEW i \in 1..m PROVE from[i] # j
    <3> SUFFICES ASSUME from[i] = j PROVE FALSE
      OBVIOUS
    <3>1. i >= k
      BY <1>9, <2>1, <2>2
    <3>2. i = k \/ k < i
      BY <1>1, <3>1
    <3>3. from[i] = from[k] \/ from[k] < from[i]
      BY <1>3, <3>2
    <3> QED
      BY <2>2, <3>3
  <2>5. a \in 1..n
    BY <1>1, <2>2, <2>3
  <2>6. Leads(R, t[a], s[b], t[b + 1])
    <3> HIDE DEF a, b
    <3>1. \E i \in DOMAIN r : from[i] = b
      BY <1>1 DEF b
    <3> QED
      BY <1>1, <1>16, <2>2, <2>3, <2>4, <2>5, <3>1
  <2>7. u[k] = t[a] /\ r[k] = s[b] /\ u[k + 1] = t[b + 1]
    <3>1. u[k] = t[place[k]] /\ u[k + 1] = t[place[k + 1]]
      BY <1>6, <2>1
    <3>2. place[k + 1] = from[k] + 1 /\ r[k] = s[from[k]]
      BY <1>3, <1>4
    <3> QED
      BY <3>1, <3>2
  <2> HIDE DEF a, b
  <2> QED
    BY <2>6, <2>7
<1>11. Walks(R, u, r)
  <2>1. Len(u) = Len(r) + 1
    BY <1>8 DEF m
  <2> QED
    BY <1>1, <1>10, <2>1 DEF Walks
<1> DEFINE end == place[m + 1]
<1>12. m + 1 \in 1..(m + 1) /\ end \in 1..(n + 1)
  BY <1>1, <1>5
<1>13. ASSUME NEW j \in end..n, NEW i \in 1..m PROVE from[i] # j
  BY <1>1, <1>9, <1>12
<1>14. u[1] = t[1] /\ u[Len(u)] = t[end]
  BY <1>1, <1>4, <1>6, <1>8
<1> HIDE DEF end
<1> QED
  BY <1>1, <1>8, <1>11, <1>12, <1>13, <1>14 DEF n, m, EndOf, SkipsTo

\* Every step of the walk is one after f, too.
StepsUnder(R, t, s, f) ==
  \A i \in DOMAIN s : Leads(R, t[i], s[i], t[i + 1]) => Leads(R, f[t[i]], s[i], f[t[i + 1]])

\* Then there is the walk through the images of its places.
LEMMA WalkMapped ==
  ASSUME NEW R, NEW S, NEW T, NEW s \in Seq(S), NEW t \in Seq(T), Walks(R, t, s),
         NEW f \in [T -> T], StepsUnder(R, t, s, f)
  PROVE  \E u \in Seq(T) : Walks(R, u, s) /\ u[1] = f[t[1]] /\ EndOf(u) = f[EndOf(t)]
<1> DEFINE n == Len(s) + 1
           u == [i \in 1..n |-> f[t[i]]]
<1>1. Len(s) \in Nat /\ n \in Nat /\ DOMAIN s = 1..Len(s) /\ Len(t) = n
  BY DEF Walks
<1>2. \A i \in 1..n : t[i] \in T /\ f[t[i]] \in T
  BY <1>1
<1>3. u \in [1..n -> T] /\ \A i \in 1..n : u[i] = f[t[i]]
  BY <1>2
<1>4. \A i \in 1..Len(s) : i \in 1..n /\ i + 1 \in 1..n
  BY <1>1
<1>5. 1 \in 1..n /\ n \in 1..n
  BY <1>1
<1> HIDE DEF u
<1>6. \A i \in 1..Len(s) : Leads(R, u[i], s[i], u[i + 1])
  BY <1>1, <1>3, <1>4 DEF Walks, StepsUnder
<1>7. u \in Seq(T) /\ Len(u) = n
  <2> HIDE DEF n
  <2> QED
    BY <1>1, <1>3
<1>8. Walks(R, u, s)
  BY <1>6, <1>7 DEF Walks
<1>9. u[1] = f[t[1]] /\ EndOf(u) = f[EndOf(t)]
  BY <1>1, <1>3, <1>5, <1>7 DEF EndOf
<1> QED
  BY <1>7, <1>8, <1>9
=============================================================================
