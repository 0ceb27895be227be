-------------------- MODULE ObserverMessagingBrokerProofs --------------------
(***************************************************************************)
(* For every set of kinds, identifiers, values and subscribers and every   *)
(* capacity: the lock, the transactions and the broadcast channels of      *)
(* ResourceManager implement ResourceStore, and what an observer says of   *)
(* its peers is what the store said of them at one moment.                 *)
(***************************************************************************)
EXTENDS ObserverMessagingBroker, SequenceTheorems, WellFoundedInduction, TLAPS

----------------------------------------------------------------------------
(* Sequences of events and the table they lead to.                          *)

\* A set of indexes that is not empty has a largest element.
LEMMA LargestIndex ==
    ASSUME NEW n \in Nat, NEW S \in SUBSET (1 .. n), S # {}
    PROVE  \E m \in S : \A k \in S : k <= m
<1> DEFINE T == {n - m : m \in S}
<1>0. \A m \in S : n - m \in Nat
  OBVIOUS
<1>1. T \subseteq Nat /\ T # {}
  BY <1>0
<1>2. PICK x \in T : \A y \in T : ~ (<<y, x>> \in OpToRel(<, Nat))
  BY <1>1, NatLessThanWellFounded, WFMin
<1>3. \A y \in T : x <= y
  <2> TAKE y \in T
  <2>1. x \in Nat /\ y \in Nat
    BY <1>1
  <2> HIDE DEF T
  <2>2. ~ (y < x)
    BY <1>2, <2>1 DEF OpToRel
  <2> QED
    BY <2>1, <2>2
<1>4. PICK m \in S : x = n - m
  BY <1>2
<1>5. \A k \in S : n - m <= n - k
  BY <1>3, <1>4
<1> QED
  BY <1>4, <1>5

Announced(e) == IF e.type = "Inserted" THEN e.value ELSE NoValue

LEMMA AfterKeeps ==
    ASSUME NEW t, NEW ev, NEW i \in Ids, \A n \in DOMAIN ev : ev[n].id # i
    PROVE  Store!After(t, ev)[i] = t[i]
  BY DEF Store!After

LEMMA AfterLast ==
    ASSUME NEW t, NEW E, NEW ev \in Seq(E), NEW i \in Ids,
           NEW n \in 1 .. Len(ev), ev[n].id = i,
           \A m \in 1 .. Len(ev) : ev[m].id = i => m <= n
    PROVE  Store!After(t, ev)[i] = Announced(ev[n])
<1> DEFINE about == {m \in DOMAIN ev : ev[m].id = i}
           last  == CHOOSE m \in about : \A k \in about : k <= m
<1>1. DOMAIN ev = 1 .. Len(ev) /\ Len(ev) \in Nat
  OBVIOUS
<1>2. n \in about /\ \A k \in about : k <= n
  BY <1>1
<1>3. last \in about /\ \A k \in about : k <= last
  BY <1>2
<1>4. last = n
  <2>1. last <= n /\ n <= last
    BY <1>2, <1>3
  <2>2. last \in Int /\ n \in Int
    BY <1>1, <1>3
  <2> QED
    BY <2>1, <2>2
<1>5. about # {}
  BY <1>2
<1>6. Store!After(t, ev)[i] =
        IF about = {} THEN t[i]
        ELSE IF ev[last].type = "Inserted" THEN ev[last].value ELSE NoValue
  BY DEF Store!After
<1> QED
  BY <1>4, <1>5, <1>6 DEF Announced

\* Either nothing is said of an identifier or there is a last word on it.
LEMMA LastWord ==
    ASSUME NEW E, NEW ev \in Seq(E), NEW i
    PROVE  \/ \A n \in 1 .. Len(ev) : ev[n].id # i
           \/ \E n \in 1 .. Len(ev) :
                 ev[n].id = i /\ \A m \in 1 .. Len(ev) : ev[m].id = i => m <= n
<1> DEFINE about == {m \in 1 .. Len(ev) : ev[m].id = i}
<1>1. Len(ev) \in Nat /\ about \in SUBSET (1 .. Len(ev))
  OBVIOUS
<1>2. CASE about = {}
  BY <1>2
<1>3. CASE about # {}
  <2>1. \E m \in about : \A k \in about : k <= m
    BY <1>1, <1>3, LargestIndex
  <2> QED
    BY <2>1
<1> QED
  BY <1>2, <1>3

LEMMA AfterShape ==
    ASSUME NEW t, NEW ev
    PROVE  Store!After(t, ev) = [i \in Ids |-> Store!After(t, ev)[i]]
  BY DEF Store!After

LEMMA AfterNothing ==
    ASSUME NEW V, NEW t \in [Ids -> V]
    PROVE  Store!After(t, <<>>) = t
<1>1. \A i \in Ids : Store!After(t, <<>>)[i] = t[i]
  BY AfterKeeps
<1> QED
  BY <1>1, AfterShape

\* One more event decides about its own identifier and about no other.
LEMMA AfterOneMore ==
    ASSUME NEW t, NEW E, NEW ev \in Seq(E), NEW q \in Seq(E), NEW i \in Ids,
           Len(q) = Len(ev) + 1, \A n \in 1 .. Len(ev) : q[n] = ev[n]
    PROVE  /\ q[Len(q)].id = i => Store!After(t, q)[i] = Announced(q[Len(q)])
           /\ q[Len(q)].id # i => Store!After(t, q)[i] = Store!After(t, ev)[i]
<1> DEFINE e == q[Len(q)]
<1>1. Len(ev) \in Nat /\ q[Len(ev) + 1] = e
  OBVIOUS
<1> SUFFICES /\ e.id = i => Store!After(t, q)[i] = Announced(e)
             /\ e.id # i => Store!After(t, q)[i] = Store!After(t, ev)[i]
  OBVIOUS
<1> HIDE DEF e
<1>2. CASE e.id = i
  <2>1. Len(q) \in 1 .. Len(q) /\ q[Len(q)] = e /\ \A m \in 1 .. Len(q) : m <= Len(q)
    BY <1>1
  <2>2. Store!After(t, q)[i] = Announced(q[Len(q)])
    BY <1>1, <1>2, <2>1, AfterLast
  <2> QED
    BY <1>2, <2>1, <2>2
<1>3. CASE e.id # i
  <2>1. CASE \A n \in 1 .. Len(ev) : ev[n].id # i
    <3>1. \A n \in DOMAIN q : q[n].id # i
      BY <1>1, <1>3, <2>1
    <3>2. \A n \in DOMAIN ev : ev[n].id # i
      BY <2>1
    <3>3. Store!After(t, q)[i] = t[i]
      BY <3>1, AfterKeeps
    <3>4. Store!After(t, ev)[i] = t[i]
      BY <3>2, AfterKeeps
    <3> QED
      BY <1>3, <3>3, <3>4
  <2>2. ASSUME NEW n \in 1 .. Len(ev), ev[n].id = i,
               \A m \in 1 .. Len(ev) : ev[m].id = i => m <= n
        PROVE  Store!After(t, q)[i] = Store!After(t, ev)[i]
    <3>1. Store!After(t, ev)[i] = Announced(ev[n])
      BY <2>2, AfterLast
    <3>2. /\ n \in 1 .. Len(q) /\ q[n].id = i
          /\ \A m \in 1 .. Len(q) : q[m].id = i => m <= n
      <4>1. n \in 1 .. Len(q) /\ q[n] = ev[n]
        BY <1>1
      <4>2. ASSUME NEW m \in 1 .. Len(q), q[m].id = i
            PROVE  m <= n
        <5>1. m \in 1 .. Len(ev) \/ m = Len(ev) + 1
          BY <1>1
        <5>2. m \in 1 .. Len(ev) /\ ev[m].id = i
          BY <1>1, <1>3, <4>2, <5>1
        <5> QED
          BY <2>2, <5>2
      <4> QED
        BY <2>2, <4>1, <4>2
    <3>3. Store!After(t, q)[i] = Announced(q[n])
      BY <1>1, <3>2, AfterLast
    <3> QED
      BY <1>1, <2>2, <3>1, <3>3
  <2> QED
    BY <1>3, <2>1, <2>2, LastWord
<1> QED
  BY <1>2, <1>3

LEMMA AfterAppend ==
    ASSUME NEW t, NEW E, NEW ev \in Seq(E), NEW e \in E
    PROVE  Store!After(t, Append(ev, e)) = [Store!After(t, ev) EXCEPT ![e.id] = Announced(e)]
<1> DEFINE q == Append(ev, e)
<1>1. /\ q \in Seq(E) /\ Len(q) = Len(ev) + 1 /\ q[Len(q)] = e
      /\ \A n \in 1 .. Len(ev) : q[n] = ev[n]
  OBVIOUS
<1> HIDE DEF q
<1>2. \A i \in Ids : /\ e.id = i => Store!After(t, q)[i] = Announced(e)
                     /\ e.id # i => Store!After(t, q)[i] = Store!After(t, ev)[i]
  <2> TAKE i \in Ids
  <2>1. /\ q[Len(q)].id = i => Store!After(t, q)[i] = Announced(q[Len(q)])
        /\ q[Len(q)].id # i => Store!After(t, q)[i] = Store!After(t, ev)[i]
    <3>1. q \in Seq(E)
      BY <1>1
    <3>2. Len(q) = Len(ev) + 1 /\ \A n \in 1 .. Len(ev) : q[n] = ev[n]
      BY <1>1
    <3> QED
      BY <3>1, <3>2, AfterOneMore
  <2> QED
    BY <1>1, <2>1
<1>3. /\ Store!After(t, ev) = [i \in Ids |-> Store!After(t, ev)[i]]
      /\ Store!After(t, q) = [i \in Ids |-> Store!After(t, q)[i]]
  BY AfterShape
<1> DEFINE old == Store!After(t, ev)
           new == Store!After(t, q)
<1>5. /\ old = [i \in Ids |-> old[i]] /\ new = [i \in Ids |-> new[i]]
      /\ \A i \in Ids : new[i] = IF i = e.id THEN Announced(e) ELSE old[i]
  BY <1>2, <1>3
<1> HIDE DEF old, new
<1>6. new = [old EXCEPT ![e.id] = Announced(e)]
  BY <1>5
<1>4. Store!After(t, q) = [Store!After(t, ev) EXCEPT ![e.id] = Announced(e)]
  BY <1>6 DEF old, new
<1> QED
  BY <1>4 DEF q

\* The events of two transactions lead where one after the other leads.
LEMMA AfterConcat ==
    ASSUME NEW t, NEW E, NEW a \in Seq(E), NEW b \in Seq(E)
    PROVE  Store!After(Store!After(t, a), b) = Store!After(t, a \o b)
<1> DEFINE q == a \o b
<1>1. /\ q \in Seq(E) /\ Len(q) = Len(a) + Len(b) /\ Len(a) \in Nat /\ Len(b) \in Nat
      /\ \A n \in 1 .. Len(a) : q[n] = a[n]
      /\ \A n \in 1 .. Len(b) : q[Len(a) + n] = b[n]
  OBVIOUS
<1>2. \A n \in 1 .. Len(q) : n \in 1 .. Len(a) \/ n - Len(a) \in 1 .. Len(b)
  BY <1>1
<1>3. \A n \in 1 .. Len(q) : n \notin 1 .. Len(a) => q[n] = b[n - Len(a)]
  <2> TAKE n \in 1 .. Len(q)
  <2> HAVE n \notin 1 .. Len(a)
  <2> DEFINE k == n - Len(a)
  <2>1. k \in 1 .. Len(b) /\ n = Len(a) + k
    BY <1>1
  <2> HIDE DEF k
  <2>2. q[n] = b[k]
    BY <1>1, <2>1
  <2> QED
    BY <2>2 DEF k
<1> HIDE DEF q
<1>4. ASSUME NEW i \in Ids
      PROVE  Store!After(Store!After(t, a), b)[i] = Store!After(t, q)[i]
  <2>1. ASSUME NEW n \in 1 .. Len(b), b[n].id = i,
               \A m \in 1 .. Len(b) : b[m].id = i => m <= n
        PROVE  Store!After(Store!After(t, a), b)[i] = Store!After(t, q)[i]
    <3>1. Store!After(Store!After(t, a), b)[i] = Announced(b[n])
      BY <2>1, AfterLast
    <3>2. Len(a) + n \in 1 .. Len(q) /\ q[Len(a) + n] = b[n]
      <4>1. Len(a) + n \in 1 .. Len(q)
        BY <1>1
      <4> QED
        BY <1>1, <4>1
    <3>3. \A m \in 1 .. Len(q) : q[m].id = i => m <= Len(a) + n
      <4> TAKE m \in 1 .. Len(q)
      <4> HAVE q[m].id = i
      <4>1. CASE m \in 1 .. Len(a)
        BY <1>1, <4>1
      <4>2. CASE m \notin 1 .. Len(a)
        <5> DEFINE k == m - Len(a)
        <5>1. k \in 1 .. Len(b) /\ m = Len(a) + k
          BY <1>1, <4>2
        <5>2. b[k].id = i
          BY <1>3, <4>2
        <5> HIDE DEF k
        <5>3. k <= n
          BY <2>1, <5>1, <5>2
        <5> QED
          BY <1>1, <5>1, <5>3
      <4> QED
        BY <4>1, <4>2
    <3> DEFINE k == Len(a) + n
    <3>4. q \in Seq(E) /\ k \in 1 .. Len(q) /\ q[k].id = i
      BY <1>1, <2>1, <3>2
    <3>5. \A m \in 1 .. Len(q) : q[m].id = i => m <= k
      BY <3>3
    <3> HIDE DEF k
    <3>6. Store!After(t, q)[i] = Announced(q[k])
      BY <3>4, <3>5, AfterLast
    <3> QED
      BY <3>1, <3>2, <3>6 DEF k
  <2>2. CASE \A n \in 1 .. Len(b) : b[n].id # i
    <3>1. Store!After(Store!After(t, a), b)[i] = Store!After(t, a)[i]
      BY <2>2, AfterKeeps
    <3>2. CASE \A n \in 1 .. Len(a) : a[n].id # i
      <4>1. \A n \in 1 .. Len(q) : q[n].id # i
        BY <1>1, <1>2, <1>3, <2>2, <3>2
      <4>3. \A n \in DOMAIN q : q[n].id # i
        BY <1>1, <4>1
      <4>2. \A n \in DOMAIN a : a[n].id # i
        BY <3>2
      <4> QED
        BY <3>1, <4>3, <4>2, AfterKeeps
    <3>3. ASSUME NEW n \in 1 .. Len(a), a[n].id = i,
                 \A m \in 1 .. Len(a) : a[m].id = i => m <= n
          PROVE  Store!After(t, a)[i] = Store!After(t, q)[i]
      <4>1. Store!After(t, a)[i] = Announced(a[n])
        BY <3>3, AfterLast
      <4>2. n \in 1 .. Len(q) /\ q[n] = a[n]
        BY <1>1
      <4>3. \A m \in 1 .. Len(q) : q[m].id = i => m <= n
        <5> TAKE m \in 1 .. Len(q)
        <5> HAVE q[m].id = i
        <5>1. m \in 1 .. Len(a)
          BY <1>2, <1>3, <2>2
        <5> QED
          BY <1>1, <3>3, <5>1
      <4>4. q \in Seq(E) /\ q[n].id = i
        BY <1>1, <3>3, <4>2
      <4>5. Store!After(t, q)[i] = Announced(q[n])
        BY <4>2, <4>3, <4>4, AfterLast
      <4> QED
        BY <4>1, <4>2, <4>5
    <3> QED
      BY <3>1, <3>2, <3>3, LastWord
  <2> QED
    BY <2>1, <2>2, LastWord
<1> QED
  BY <1>4, AfterShape DEF q
LEMMA PrefixOfAppend ==
    ASSUME NEW E, NEW ev \in Seq(E), NEW e \in E, NEW n \in 0 .. Len(ev)
    PROVE  SubSeq(Append(ev, e), 1, n) = SubSeq(ev, 1, n)
<1> DEFINE q == Append(ev, e)
<1>1. /\ q \in Seq(E) /\ Len(q) = Len(ev) + 1 /\ Len(ev) \in Nat
      /\ \A m \in 1 .. Len(ev) : q[m] = ev[m]
  OBVIOUS
<1> HIDE DEF q
<1>2. n \in Nat /\ n <= Len(q) /\ n <= Len(ev)
  BY <1>1
<1>3. /\ SubSeq(q, 1, n) = [m \in 1 .. n |-> q[m]]
      /\ SubSeq(ev, 1, n) = [m \in 1 .. n |-> ev[m]]
  BY <1>1, <1>2
<1>4. \A m \in 1 .. n : q[m] = ev[m]
  BY <1>1, <1>2
<1> QED
  BY <1>3, <1>4 DEF q

LEMMA PrefixOfConcat ==
    ASSUME NEW E, NEW a \in Seq(E), NEW b \in Seq(E), NEW n \in 0 .. Len(a)
    PROVE  SubSeq(a \o b, 1, n) = SubSeq(a, 1, n)
<1> DEFINE q == a \o b
<1>1. /\ q \in Seq(E) /\ Len(q) = Len(a) + Len(b) /\ Len(a) \in Nat /\ Len(b) \in Nat
      /\ \A m \in 1 .. Len(a) : q[m] = a[m]
  OBVIOUS
<1> HIDE DEF q
<1>2. n \in Nat /\ n <= Len(q) /\ n <= Len(a)
  BY <1>1
<1>3. /\ SubSeq(q, 1, n) = [m \in 1 .. n |-> q[m]]
      /\ SubSeq(a, 1, n) = [m \in 1 .. n |-> a[m]]
  BY <1>1, <1>2
<1>4. \A m \in 1 .. n : q[m] = a[m]
  BY <1>1, <1>2
<1> QED
  BY <1>3, <1>4 DEF q

LEMMA SuffixOfConcat ==
    ASSUME NEW E, NEW a \in Seq(E), NEW b \in Seq(E)
    PROVE  SubSeq(a \o b, Len(a) + 1, Len(a \o b)) = b
<1> DEFINE q == a \o b
           u == SubSeq(q, Len(a) + 1, Len(q))
<1>1. /\ q \in Seq(E) /\ Len(q) = Len(a) + Len(b) /\ Len(a) \in Nat /\ Len(b) \in Nat
      /\ \A m \in 1 .. Len(b) : q[Len(a) + m] = b[m]
  OBVIOUS
<1> HIDE DEF q
<1>2. \A m \in Len(a) + 1 .. Len(q) : q[m] \in E
  BY <1>1
<1>3. /\ u \in Seq(E)
      /\ Len(u) = IF Len(a) + 1 <= Len(q) THEN Len(q) - (Len(a) + 1) + 1 ELSE 0
      /\ \A m \in 1 .. Len(q) - (Len(a) + 1) + 1 : u[m] = q[Len(a) + 1 + m - 1]
  BY <1>1, <1>2, SubSeqProperties
<1>4. Len(u) = Len(b) /\ Len(q) - (Len(a) + 1) + 1 = Len(b)
  BY <1>1, <1>3
<1>5. \A m \in 1 .. Len(b) : u[m] = b[m]
  <2> TAKE m \in 1 .. Len(b)
  <2>1. u[m] = q[Len(a) + 1 + m - 1]
    BY <1>3, <1>4
  <2>2. Len(a) + 1 + m - 1 = Len(a) + m
    BY <1>1
  <2> QED
    BY <1>1, <2>1, <2>2
<1> HIDE DEF u
<1>6. u = b
  BY <1>3, <1>4, <1>5, SeqEqual
<1> QED
  BY <1>6 DEF u, q

\* q is the newest of the events p, as many as fit.
Newest(q, p) ==
    /\ Len(q) = IF Len(p) > Capacity THEN Capacity ELSE Len(p)
    /\ \A n \in 1 .. Len(q) : q[n] = p[Len(p) - Len(q) + n]

\* A channel that keeps the newest of the events p also does after r was sent.
LEMMA KeepsNewest ==
    ASSUME NEW E, NEW p, NEW q, NEW r,
           p \in Seq(E), q \in Seq(E), r \in Seq(E), Newest(q, p)
    PROVE  Keep(q \o r) \in Seq(E) /\ Newest(Keep(q \o r), p \o r)
<1>0. /\ Len(q) = IF Len(p) > Capacity THEN Capacity ELSE Len(p)
      /\ \A n \in 1 .. Len(q) : q[n] = p[Len(p) - Len(q) + n]
      /\ Capacity \in Nat
  BY StoreAssumption DEF Newest
<1> DEFINE all == p \o r
           w   == q \o r
           f   == IF Len(w) > Capacity THEN Len(w) - Capacity + 1 ELSE 1
           new == SubSeq(w, f, Len(w))
<1>1. /\ all \in Seq(E) /\ Len(all) = Len(p) + Len(r) /\ Len(p) \in Nat /\ Len(r) \in Nat
      /\ \A n \in 1 .. Len(p) : all[n] = p[n]
      /\ \A n \in 1 .. Len(r) : all[Len(p) + n] = r[n]
  OBVIOUS
<1>2. /\ w \in Seq(E) /\ Len(w) = Len(q) + Len(r) /\ Len(q) \in Nat
      /\ \A n \in 1 .. Len(q) : w[n] = q[n]
      /\ \A n \in 1 .. Len(r) : w[Len(q) + n] = r[n]
  BY SMTT(30)
<1> HIDE DEF all, w
<1>3. \A j \in 1 .. Len(w) : w[j] = all[Len(p) - Len(q) + j]
  <2> TAKE j \in 1 .. Len(w)
  <2>1. CASE j \in 1 .. Len(q)
    <3>1. Len(p) - Len(q) + j \in 1 .. Len(p)
      BY <1>0, <1>1, <1>2, <2>1
    <3> QED
      BY <1>0, <1>1, <1>2, <2>1, <3>1
  <2>2. CASE j \notin 1 .. Len(q)
    <3> DEFINE n == j - Len(q)
    <3>1. n \in 1 .. Len(r) /\ j = Len(q) + n /\ Len(p) - Len(q) + j = Len(p) + n
      BY <1>1, <1>2, <2>2
    <3> HIDE DEF n
    <3> QED
      BY <1>1, <1>2, <3>1
  <2> QED
    BY <2>1, <2>2
<1>4. f \in Int /\ f >= 1 /\ Len(w) \in Nat
      /\ Len(w) - f + 1 = (IF Len(w) > Capacity THEN Capacity ELSE Len(w))
      /\ (f <= Len(w) \/ Len(w) - f + 1 = 0)
  BY <1>0, <1>2
<1>5. \A m \in f .. Len(w) : w[m] \in E
  BY <1>2, <1>4
<1> HIDE DEF f
<1>6. /\ new \in Seq(E)
      /\ Len(new) = IF f <= Len(w) THEN Len(w) - f + 1 ELSE 0
      /\ \A m \in 1 .. Len(w) - f + 1 : new[m] = w[f + m - 1]
  BY <1>4, <1>5, SubSeqProperties
<1> HIDE DEF new
<1>7. Len(new) = Len(w) - f + 1
  BY <1>4, <1>6
<1>8. Len(new) = IF Len(all) > Capacity THEN Capacity ELSE Len(all)
  BY <1>0, <1>1, <1>2, <1>4, <1>7
<1>9. \A n \in 1 .. Len(new) : new[n] = all[Len(all) - Len(new) + n]
  <2> TAKE n \in 1 .. Len(new)
  <2> DEFINE j == f + n - 1
  <2>1. j \in 1 .. Len(w) /\ new[n] = w[j]
    BY <1>4, <1>6, <1>7
  <2>2. Len(p) - Len(q) + j = Len(all) - Len(new) + n
    BY <1>0, <1>1, <1>2, <1>4, <1>7
  <2> HIDE DEF j
  <2> QED
    BY <1>3, <2>1, <2>2
<1>10. Keep(q \o r) = new
  BY DEF Keep, new, w, f
<1>11. Newest(new, all)
  BY <1>8, <1>9 DEF Newest
<1> QED
  BY <1>6, <1>10, <1>11 DEF all

\* A removal of what is stored can be announced truthfully.
LEMMA TruthfulAppend ==
    ASSUME NEW t, NEW E, NEW ev \in Seq(E), NEW e \in E, Store!Truthful(t, ev),
           e.type = "Removed" => Store!After(t, ev)[e.id] = e.value
    PROVE  Store!Truthful(t, Append(ev, e))
<1> DEFINE q == Append(ev, e)
<1>1. /\ DOMAIN q = 1 .. Len(ev) + 1 /\ DOMAIN ev = 1 .. Len(ev) /\ Len(ev) \in Nat
      /\ q[Len(ev) + 1] = e /\ \A m \in 1 .. Len(ev) : q[m] = ev[m]
  OBVIOUS
<1>2. ASSUME NEW n \in 1 .. Len(ev) + 1, q[n].type = "Removed"
      PROVE  Store!After(t, SubSeq(q, 1, n - 1))[q[n].id] = q[n].value
  <2>1. n - 1 \in 0 .. Len(ev)
    BY <1>1
  <2>2. SubSeq(q, 1, n - 1) = SubSeq(ev, 1, n - 1)
    BY <2>1, PrefixOfAppend
  <2> HIDE DEF q
  <2>3. CASE n = Len(ev) + 1
    <3>1. SubSeq(ev, 1, n - 1) = ev
      <4>1. n - 1 = Len(ev)
        BY <1>1, <2>3
      <4> QED
        BY <4>1, SubSeqFull
    <3> QED
      BY <1>1, <1>2, <2>2, <2>3, <3>1
  <2>4. CASE n # Len(ev) + 1
    <3>1. n \in 1 .. Len(ev) /\ q[n] = ev[n]
      BY <1>1, <2>4
    <3> QED
      BY <1>1, <1>2, <2>2, <3>1 DEF Store!Truthful
  <2> QED
    BY <2>3, <2>4
<1> QED
  BY <1>1, <1>2 DEF Store!Truthful

LEMMA TruthfulNothing ==
    ASSUME NEW t PROVE Store!Truthful(t, <<>>)
  BY DEF Store!Truthful

----------------------------------------------------------------------------
(* The inductive invariant.                                                 *)

\* What a table of kind k can hold, and the events of that kind: an old
\* database may hold any value of a persistent kind.
ValueOf(k) == IF k \in Persistent THEN Values ELSE ValuesOf[k]
TableOf(k) == [Ids -> ValueOf(k) \cup {NoValue}]
EventOf(k) == [type : {"Inserted", "Removed"}, id : Ids, value : ValueOf(k)]

IsTables(t) == t = [k \in Kinds |-> t[k]] /\ \A k \in Kinds : t[k] \in TableOf(k)
IsEvents(q) == q = [k \in Kinds |-> q[k]] /\ \A k \in Kinds : q[k] \in Seq(EventOf(k))

\* An open transaction has done to its view what its relay will tell.
Transaction ==
    \/ txn = NoTxn
    \/ /\ DOMAIN txn = {"open", "work", "relay"} /\ txn.open = TRUE
       /\ IsTables(txn.work) /\ IsEvents(txn.relay)
       /\ \A k \in Kinds : /\ txn.work[k] = Store!After(tables[k], txn.relay[k])
                           /\ Store!Truthful(tables[k], txn.relay[k])

\* A channel keeps the newest events, as many as fit.
Channel(k) ==
    /\ sent[k] = Len(published[k])
    /\ Len(kept[k]) = IF sent[k] > Capacity THEN Capacity ELSE sent[k]
    /\ \A n \in 1 .. Len(kept[k]) : kept[k][n] = published[k][sent[k] - Len(kept[k]) + n]

\* What a volatile kind holds is what was published since the start of CARL.
Explained(k) ==
    k \notin Persistent /\ k \notin lost =>
        tables[k] = Store!After(Store!EmptyTable, published[k])

StoreInv ==
    /\ IsTables(tables) /\ Transaction
    /\ IsEvents(published) /\ IsEvents(kept) /\ sent = [k \in Kinds |-> sent[k]]
    /\ lost \subseteq Kinds
    /\ \A k \in Kinds : Channel(k) /\ Explained(k)
    /\ next = [s \in Subscribers |-> next[s]]
    /\ \A s \in Subscribers : next[s] \in -1 .. sent[KindOf[s]]

\* What was listed is what is stored, unless a change was announced since.
ListedFits(s) ==
    At(s, "subscribe") =>
        /\ observer[s].listed <= sent[ConnStates]
        /\ observer[s].listed = sent[ConnStates] /\ ConnStates \notin lost =>
              \A i \in observer[s].ids : observer[s].view[i] = StateOf(tables[ConnStates][i])

Then(s) == Store!After(Store!EmptyTable, SubSeq(published[ConnStates], 1, next[s]))

Follows(s) ==
    observer[s].pc \in Watching =>
        /\ next[s] >= 0
        /\ s \notin missed /\ ConnStates \notin lost =>
              \A i \in observer[s].ids : observer[s].view[i] = StateOf(Then(s)[i])

ObserverTypeOK ==
    /\ observer \in [Subscribers -> Observer]
    /\ \A s \in Subscribers : Len(observer[s].outbox) <= OutCapacity
    /\ cleo \in [Subscribers -> {"idle", "waiting", "rejected", "ended", "disconnected"}]
    /\ missed \subseteq Subscribers

ObserverInv ==
    /\ ObserverTypeOK
    /\ \A s \in Subscribers : ListedFits(s) /\ Follows(s)

IInv == StoreInv /\ ObserverInv

----------------------------------------------------------------------------
(* The resource manager keeps its part.                                     *)

LEMMA EmptySeqFact == ASSUME NEW E PROVE <<>> \in Seq(E) /\ Len(<<>>) = 0
  OBVIOUS

LEMMA EmptyTableFact == \A k \in Kinds : Store!EmptyTable \in TableOf(k)
  BY DEF Store!EmptyTable, TableOf

LEMMA InitStoreInv == RMInit => StoreInv
<1> SUFFICES ASSUME RMInit PROVE StoreInv
  OBVIOUS
<1> USE DEF RMInit
<1>1. IsTables(tables)
  <2>1. ASSUME NEW k \in Kinds PROVE tables[k] \in TableOf(k)
    <3>1. tables[k] \in [Ids -> Values \cup {NoValue}]
      OBVIOUS
    <3>2. \A i \in Ids : tables[k][i] \in ValueOf(k) \cup {NoValue}
      BY StoreAssumption DEF ValueOf
    <3> QED
      BY <3>1, <3>2 DEF TableOf
  <2> QED
    BY <2>1 DEF IsTables
<1>2. IsEvents(published) /\ IsEvents(kept)
  BY EmptySeqFact DEF IsEvents
<1>3. ASSUME NEW k \in Kinds PROVE Channel(k)
  BY StoreAssumption, EmptySeqFact DEF Channel
<1>4. ASSUME NEW k \in Kinds PROVE Explained(k)
  <2>1. Store!After(Store!EmptyTable, <<>>) = Store!EmptyTable
    BY EmptyTableFact, AfterNothing DEF TableOf
  <2>2. k \notin Persistent => tables[k] = Store!EmptyTable
    BY DEF Store!EmptyTable
  <2> QED
    BY <2>1, <2>2 DEF Explained
<1>5. \A s \in Subscribers : next[s] \in -1 .. sent[KindOf[s]]
  BY StoreAssumption
<1> QED
  BY <1>1, <1>2, <1>3, <1>4, <1>5 DEF StoreInv, Transaction

LEMMA BeginInv == StoreInv /\ Begin => StoreInv'
<1> SUFFICES ASSUME StoreInv, Begin PROVE StoreInv'
  OBVIOUS
<1>1. UNCHANGED <<tables, kept, sent, published, lost, next>>
  BY DEF Begin, channelVars
<1>2. Transaction'
  <2>1. txn' = [open |-> TRUE, work |-> tables, relay |-> [k \in Kinds |-> <<>>]]
    BY DEF Begin
  <2>2. txn'.work = tables /\ txn'.relay = [k \in Kinds |-> <<>>]
        /\ DOMAIN txn' = {"open", "work", "relay"} /\ txn'.open = TRUE
    BY <2>1
  <2>3. IsTables(tables) /\ \A k \in Kinds : tables[k] \in TableOf(k)
    BY DEF StoreInv, IsTables
  <2>4. IsEvents(txn'.relay)
    BY <2>2, EmptySeqFact DEF IsEvents
  <2>5. \A k \in Kinds : /\ tables[k] = Store!After(tables[k], <<>>)
                         /\ Store!Truthful(tables[k], <<>>)
    BY <2>3, AfterNothing, TruthfulNothing DEF TableOf
  <2>6. IsTables(txn'.work)
    BY <2>2, <2>3
  <2>7. \A k \in Kinds : /\ txn'.work[k] = Store!After(tables'[k], txn'.relay[k])
                         /\ Store!Truthful(tables'[k], txn'.relay[k])
    BY <1>1, <2>2, <2>5
  <2> QED
    BY <2>2, <2>4, <2>6, <2>7 DEF Transaction
<1> QED
  BY <1>1, <1>2 DEF StoreInv, IsTables, IsEvents, Channel, Explained

LEMMA RollbackInv == StoreInv /\ Rollback => StoreInv'
  BY DEF StoreInv, IsTables, IsEvents, Channel, Explained, Rollback, channelVars, Transaction, NoTxn

\* A step of a subscription changes where its receiver stands and nothing else.
LEMMA CursorInv ==
    ASSUME StoreInv, UNCHANGED <<storeVars, channelVars>>, NEW s \in Subscribers,
           NEW n \in -1 .. sent[KindOf[s]], next' = [next EXCEPT ![s] = n]
    PROVE  StoreInv'
<1>1. UNCHANGED <<tables, txn, kept, sent, published, lost>>
  BY DEF storeVars, channelVars
<1>2. next = [x \in Subscribers |-> next[x]] /\ \A x \in Subscribers : next[x] \in -1 .. sent[KindOf[x]]
  BY DEF StoreInv
<1>3. next' = [x \in Subscribers |-> next'[x]] /\ \A x \in Subscribers : next'[x] = IF x = s THEN n ELSE next[x]
  BY <1>2
<1>4. \A x \in Subscribers : next'[x] \in -1 .. sent'[KindOf[x]]
  BY <1>1, <1>2, <1>3
<1> QED
  BY <1>1, <1>3, <1>4 DEF StoreInv, IsTables, IsEvents, Channel, Explained, Transaction

LEMMA TransactionStep ==
    ASSUME NEW t, NEW u, NEW k, NEW i, NEW v, NEW e, DOMAIN t = {"open", "work", "relay"},
           u = [t EXCEPT !.work[k][i] = v, !.relay[k] = Append(@, e)]
    PROVE  /\ DOMAIN u = {"open", "work", "relay"} /\ u.open = t.open
           /\ u.work = [t.work EXCEPT ![k] = [t.work[k] EXCEPT ![i] = v]]
           /\ u.relay = [t.relay EXCEPT ![k] = Append(t.relay[k], e)]
  OBVIOUS

LEMMA QueueInv ==
    ASSUME StoreInv, NEW k \in Kinds, NEW i \in Ids, NEW v, NEW value \in ValueOf(k),
           NEW type \in {"Inserted", "Removed"}, Queue(k, i, v, type, value),
           v = IF type = "Inserted" THEN value ELSE NoValue,
           type = "Removed" => txn.work[k][i] = value
    PROVE  StoreInv'
<1> DEFINE e == [type |-> type, id |-> i, value |-> value]
<1>1. UNCHANGED <<tables, kept, sent, published, lost, next>>
  BY DEF Queue, channelVars
<1>2. /\ DOMAIN txn = {"open", "work", "relay"} /\ txn.open = TRUE
      /\ IsTables(txn.work) /\ IsEvents(txn.relay)
      /\ \A c \in Kinds : /\ txn.work[c] = Store!After(tables[c], txn.relay[c])
                          /\ Store!Truthful(tables[c], txn.relay[c])
  <2>1. txn # NoTxn
    BY DEF Queue, NoTxn
  <2> QED
    BY <2>1 DEF StoreInv, Transaction
<1>3. /\ e \in EventOf(k) /\ e.id = i /\ Announced(e) = v /\ e.type = type /\ e.value = value
      /\ v \in ValueOf(k) \cup {NoValue}
  BY DEF EventOf, Announced
<1> HIDE DEF e
<1>4. txn' = [txn EXCEPT !.work[k][i] = v, !.relay[k] = Append(@, e)]
  BY DEF Queue, e
<1>5. /\ DOMAIN txn' = {"open", "work", "relay"} /\ txn'.open = TRUE
      /\ txn'.work = [txn.work EXCEPT ![k] = [txn.work[k] EXCEPT ![i] = v]]
      /\ txn'.relay = [txn.relay EXCEPT ![k] = Append(txn.relay[k], e)]
  BY <1>2, <1>4, TransactionStep
<1>6. /\ txn'.work = [c \in Kinds |-> txn'.work[c]]
      /\ \A c \in Kinds : txn'.work[c] =
            IF c = k THEN [txn.work[k] EXCEPT ![i] = v] ELSE txn.work[c]
  <2>1. txn.work = [c \in Kinds |-> txn.work[c]]
    BY <1>2 DEF IsTables
  <2> QED
    BY <1>5, <2>1
<1>7. /\ txn'.relay = [c \in Kinds |-> txn'.relay[c]]
      /\ \A c \in Kinds : txn'.relay[c] =
            IF c = k THEN Append(txn.relay[k], e) ELSE txn.relay[c]
  <2>1. txn.relay = [c \in Kinds |-> txn.relay[c]]
    BY <1>2 DEF IsEvents
  <2> QED
    BY <1>5, <2>1
<1>8. txn.work[k] \in TableOf(k) /\ txn.relay[k] \in Seq(EventOf(k))
  BY <1>2 DEF IsTables, IsEvents
<1>9. IsTables(txn'.work)
  <2>1. [txn.work[k] EXCEPT ![i] = v] \in TableOf(k)
    BY <1>3, <1>8 DEF TableOf
  <2> QED
    BY <1>2, <1>6, <2>1 DEF IsTables
<1>10. IsEvents(txn'.relay)
  <2>1. Append(txn.relay[k], e) \in Seq(EventOf(k))
    BY <1>3, <1>8
  <2> QED
    BY <1>2, <1>7, <2>1 DEF IsEvents
<1>11. Store!After(tables[k], Append(txn.relay[k], e)) = [txn.work[k] EXCEPT ![i] = v]
  <2>1. Store!After(tables[k], Append(txn.relay[k], e)) =
          [Store!After(tables[k], txn.relay[k]) EXCEPT ![e.id] = Announced(e)]
    BY <1>3, <1>8, AfterAppend
  <2> QED
    BY <1>2, <1>3, <2>1
<1>12. Store!Truthful(tables[k], Append(txn.relay[k], e))
  <2>1. e.type = "Removed" => Store!After(tables[k], txn.relay[k])[e.id] = e.value
    BY <1>2, <1>3
  <2> QED
    BY <1>2, <1>3, <1>8, <2>1, TruthfulAppend
<1>13. \A c \in Kinds : /\ txn'.work[c] = Store!After(tables'[c], txn'.relay[c])
                        /\ Store!Truthful(tables'[c], txn'.relay[c])
  BY <1>1, <1>2, <1>6, <1>7, <1>11, <1>12
<1>14. Transaction'
  BY <1>5, <1>9, <1>10, <1>13 DEF Transaction
<1> QED
  BY <1>1, <1>14 DEF StoreInv, IsTables, IsEvents, Channel, Explained

LEMMA InsertInv ==
    ASSUME StoreInv, NEW k \in Kinds, NEW i \in Ids, NEW v \in ValuesOf[k], Insert(k, i, v)
    PROVE  StoreInv'
<1>1. v \in ValueOf(k)
  BY StoreAssumption DEF ValueOf
<1>2. Queue(k, i, v, "Inserted", v)
  BY DEF Insert
<1> QED
  BY <1>1, <1>2, QueueInv

LEMMA RemoveInv ==
    ASSUME StoreInv, NEW k \in Kinds, NEW i \in Ids, Remove(k, i)
    PROVE  StoreInv'
<1>1. txn.open /\ txn.work[k][i] # NoValue /\ Queue(k, i, NoValue, "Removed", txn.work[k][i])
  BY DEF Remove
<1>2. txn.work[k] \in TableOf(k)
  <2>1. txn # NoTxn
    BY <1>1 DEF NoTxn
  <2>2. IsTables(txn.work)
    BY <2>1 DEF StoreInv, Transaction
  <2> QED
    BY <2>2 DEF IsTables
<1>3. txn.work[k][i] \in ValueOf(k)
  BY <1>1, <1>2 DEF TableOf
<1> QED
  BY <1>1, <1>3, QueueInv

\* What StoreInv says while a transaction is open.
LEMMA OpenFacts ==
    ASSUME StoreInv, txn.open
    PROVE  /\ IsTables(txn.work) /\ IsEvents(txn.relay)
           /\ \A k \in Kinds :
                /\ txn.work[k] \in TableOf(k) /\ txn.relay[k] \in Seq(EventOf(k))
                /\ Drained(k) \in Seq(EventOf(k)) /\ Len(Drained(k)) \in Nat
                /\ Len(Drained(k)) <= Capacity
                /\ txn.work[k] = Store!After(tables[k], txn.relay[k])
                /\ Store!Truthful(tables[k], txn.relay[k])
<1>1. txn # NoTxn
  BY DEF NoTxn
<1>2. /\ IsTables(txn.work) /\ IsEvents(txn.relay)
      /\ \A k \in Kinds : /\ txn.work[k] = Store!After(tables[k], txn.relay[k])
                          /\ Store!Truthful(tables[k], txn.relay[k])
  BY <1>1 DEF StoreInv, Transaction
<1>3. ASSUME NEW k \in Kinds
      PROVE  /\ txn.work[k] \in TableOf(k) /\ txn.relay[k] \in Seq(EventOf(k))
             /\ Drained(k) \in Seq(EventOf(k)) /\ Len(Drained(k)) \in Nat
             /\ Len(Drained(k)) <= Capacity
  <2>1. txn.work[k] \in TableOf(k) /\ txn.relay[k] \in Seq(EventOf(k))
    BY <1>2 DEF IsTables, IsEvents
  <2>2. CASE Len(txn.relay[k]) > Capacity
    BY <2>1, <2>2, EmptySeqFact, StoreAssumption DEF Drained
  <2>3. CASE ~ (Len(txn.relay[k]) > Capacity)
    BY <2>1, <2>3, StoreAssumption DEF Drained
  <2> QED
    BY <2>1, <2>2, <2>3
<1> QED
  BY <1>2, <1>3

LEMMA StoreFacts ==
    ASSUME StoreInv
    PROVE  /\ IsTables(tables) /\ IsEvents(published) /\ IsEvents(kept)
           /\ \A k \in Kinds :
                /\ tables[k] \in TableOf(k)
                /\ published[k] \in Seq(EventOf(k)) /\ Len(published[k]) \in Nat
                /\ kept[k] \in Seq(EventOf(k)) /\ Len(kept[k]) \in Nat
                /\ sent[k] = Len(published[k]) /\ sent[k] \in Nat
                /\ Channel(k) /\ Explained(k)
<1>1. /\ IsTables(tables) /\ IsEvents(published) /\ IsEvents(kept)
      /\ \A k \in Kinds : Channel(k) /\ Explained(k)
  BY DEF StoreInv
<1>2. ASSUME NEW k \in Kinds
      PROVE  /\ tables[k] \in TableOf(k)
             /\ published[k] \in Seq(EventOf(k)) /\ Len(published[k]) \in Nat
             /\ kept[k] \in Seq(EventOf(k)) /\ Len(kept[k]) \in Nat
             /\ sent[k] = Len(published[k]) /\ sent[k] \in Nat
  <2>1. /\ tables[k] \in TableOf(k)
        /\ published[k] \in Seq(EventOf(k)) /\ kept[k] \in Seq(EventOf(k))
    BY <1>1 DEF IsTables, IsEvents
  <2>2. sent[k] = Len(published[k])
    BY <1>1 DEF Channel
  <2> QED
    BY <2>1, <2>2
<1> QED
  BY <1>1, <1>2

LEMMA CommitInv == StoreInv /\ Commit => StoreInv'
<1> SUFFICES ASSUME StoreInv, Commit PROVE StoreInv'
  OBVIOUS
<1>1. /\ txn.open /\ tables' = txn.work /\ txn' = NoTxn /\ next' = next
      /\ published' = [k \in Kinds |-> published[k] \o Drained(k)]
      /\ sent' = [k \in Kinds |-> sent[k] + Len(Drained(k))]
      /\ kept' = [k \in Kinds |-> Keep(kept[k] \o Drained(k))]
      /\ lost' = lost \cup {k \in Kinds : Len(txn.relay[k]) > Capacity}
  BY DEF Commit
<1>2. IsTables(tables')
  BY <1>1, OpenFacts
<1>3. ASSUME NEW k \in Kinds
      PROVE  /\ published'[k] \in Seq(EventOf(k)) /\ kept'[k] \in Seq(EventOf(k))
             /\ Channel(k)' /\ sent'[k] >= sent[k] /\ sent'[k] \in Nat
  <2> DEFINE p == published[k]
             q == kept[k]
             r == Drained(k)
             E == EventOf(k)
  <2>1. /\ p \in Seq(E) /\ q \in Seq(E) /\ r \in Seq(E) /\ Capacity \in Nat
        /\ Len(p) \in Nat /\ Len(r) \in Nat
    BY <1>1, StoreFacts, OpenFacts, StoreAssumption
  <2>2. sent[k] = Len(p) /\ Newest(q, p)
    BY StoreFacts DEF Channel, Newest
  <2>3. published'[k] = p \o r /\ kept'[k] = Keep(q \o r) /\ sent'[k] = sent[k] + Len(r)
    BY <1>1
  <2> HIDE DEF p, q, r, E
  <2> DEFINE all == p \o r
             new == Keep(q \o r)
  <2>4. new \in Seq(E) /\ Newest(new, all)
    BY <2>1, <2>2, KeepsNewest
  <2>5. all \in Seq(E) /\ Len(all) = Len(p) + Len(r)
    BY <2>1
  <2>6. sent'[k] = Len(all) /\ published'[k] = all /\ kept'[k] = new
    BY <2>2, <2>3, <2>5
  <2> HIDE DEF all, new
  <2>7. Channel(k)'
    BY <2>4, <2>6 DEF Channel, Newest
  <2>8. published'[k] \in Seq(EventOf(k)) /\ kept'[k] \in Seq(EventOf(k))
    BY <2>4, <2>5, <2>6 DEF E
  <2>9. sent'[k] >= sent[k] /\ sent'[k] \in Nat
    BY <2>1, <2>2, <2>3
  <2> QED
    BY <2>7, <2>8, <2>9
<1>4. IsEvents(published') /\ IsEvents(kept') /\ sent' = [k \in Kinds |-> sent'[k]]
  BY <1>1, <1>3 DEF IsEvents
<1>5. ASSUME NEW k \in Kinds PROVE Explained(k)'
  <2> SUFFICES ASSUME k \notin Persistent, k \notin lost'
               PROVE  tables'[k] = Store!After(Store!EmptyTable, published'[k])
    BY DEF Explained
  <2>1. k \notin lost /\ ~ (Len(txn.relay[k]) > Capacity)
    BY <1>1
  <2>2. Drained(k) = txn.relay[k]
    BY <2>1 DEF Drained
  <2>3. tables[k] = Store!After(Store!EmptyTable, published[k])
    BY <2>1, StoreFacts DEF Explained
  <2>4. tables'[k] = Store!After(tables[k], txn.relay[k])
    BY <1>1, OpenFacts
  <2>5. published[k] \in Seq(EventOf(k)) /\ txn.relay[k] \in Seq(EventOf(k))
    BY <1>1, StoreFacts, OpenFacts
  <2>6. Store!After(Store!After(Store!EmptyTable, published[k]), txn.relay[k])
          = Store!After(Store!EmptyTable, published[k] \o txn.relay[k])
    BY <2>5, AfterConcat
  <2>7. published'[k] = published[k] \o txn.relay[k]
    BY <1>1, <2>2
  <2> QED
    BY <2>3, <2>4, <2>6, <2>7
<1>6. lost' \subseteq Kinds
  BY <1>1 DEF StoreInv
<1>7. \A s \in Subscribers : next'[s] \in -1 .. sent'[KindOf[s]]
  <2> TAKE s \in Subscribers
  <2>1. KindOf[s] \in Kinds
    BY StoreAssumption
  <2>2. next[s] \in -1 .. sent[KindOf[s]] /\ sent[KindOf[s]] \in Nat
    BY <2>1, StoreFacts DEF StoreInv
  <2>3. sent'[KindOf[s]] >= sent[KindOf[s]] /\ sent'[KindOf[s]] \in Nat
    BY <1>3, <2>1
  <2> QED
    BY <1>1, <2>2, <2>3
<1>8. Transaction' /\ next' = [s \in Subscribers |-> next'[s]]
  BY <1>1 DEF Transaction, StoreInv, NoTxn
<1> QED
  BY <1>2, <1>3, <1>4, <1>5, <1>6, <1>7, <1>8 DEF StoreInv

\* The migration does nothing, or adds the whole of the old database where
\* nothing was stored.
LEMMA MigratedFacts ==
    \/ Migrated = tables
    \/ \A k \in Persistent :
          /\ Migrated[k] = [i \in Ids |-> Migrated[k][i]]
          /\ \A i \in Ids :
                IF Legacy[k][i] = NoValue THEN Migrated[k][i] = tables[k][i]
                ELSE tables[k][i] = NoValue /\ Migrated[k][i] = Legacy[k][i]
<1> DEFINE rows == {x \in Persistent \X Ids : Legacy[x[1]][x[2]] # NoValue}
<1>1. CASE ~ (rows # {} /\ \A x \in rows : tables[x[1]][x[2]] = NoValue)
  BY <1>1 DEF Migrated
<1>2. CASE rows # {} /\ \A x \in rows : tables[x[1]][x[2]] = NoValue
  <2>1. Migrated = [k \in Kinds |-> [i \in Ids |->
                      IF <<k, i>> \in rows THEN Legacy[k][i] ELSE tables[k][i]]]
    BY <1>2 DEF Migrated
  <2>2. \A k \in Persistent : k \in Kinds
    BY StoreAssumption
  <2>3. \A k \in Persistent, i \in Ids :
           /\ <<k, i>> \in rows <=> Legacy[k][i] # NoValue
           /\ <<k, i>> \in rows => tables[k][i] = NoValue
    BY <1>2
  <2> HIDE DEF rows
  <2>4. \A k \in Persistent : Migrated[k] = [i \in Ids |->
                      IF <<k, i>> \in rows THEN Legacy[k][i] ELSE tables[k][i]]
    BY <2>1, <2>2
  <2> QED
    BY <2>3, <2>4
<1> QED
  BY <1>1, <1>2

LEMMA RestartInv == StoreInv /\ Restart => StoreInv'
<1> SUFFICES ASSUME StoreInv, Restart PROVE StoreInv'
  OBVIOUS
<1>1. PICK t \in {tables, Migrated} :
        tables' = [k \in Kinds |-> IF k \in Persistent THEN t[k] ELSE Store!EmptyTable]
  BY DEF Restart
<1>2. /\ txn' = NoTxn
      /\ kept' = [k \in Kinds |-> <<>>] /\ sent' = [k \in Kinds |-> 0]
      /\ next' = [s \in Subscribers |-> -1]
      /\ published' = [k \in Kinds |-> <<>>] /\ lost' = {}
  BY DEF Restart
<1>3. ASSUME NEW k \in Persistent PROVE t[k] \in TableOf(k)
  <2>1. tables[k] \in TableOf(k) /\ ValueOf(k) = Values
    BY StoreFacts, StoreAssumption DEF ValueOf
  <2>2. CASE t = tables
    BY <2>1, <2>2
  <2>3. CASE t # tables
    <3>1. /\ t[k] = [i \in Ids |-> t[k][i]]
          /\ \A i \in Ids : t[k][i] = tables[k][i] \/ t[k][i] = Legacy[k][i]
      BY <2>3, MigratedFacts
    <3>2. \A i \in Ids : Legacy[k][i] \in Values \cup {NoValue}
      BY StoreAssumption
    <3>3. \A i \in Ids : tables[k][i] \in Values \cup {NoValue}
      BY <2>1 DEF TableOf
    <3> QED
      BY <2>1, <3>1, <3>2, <3>3 DEF TableOf
  <2> QED
    BY <2>2, <2>3
<1>4. IsTables(tables')
  BY <1>1, <1>3, EmptyTableFact DEF IsTables
<1>5. IsEvents(published') /\ IsEvents(kept')
  BY <1>2, EmptySeqFact DEF IsEvents
<1>6. ASSUME NEW k \in Kinds PROVE Channel(k)'
  BY <1>2, StoreAssumption, EmptySeqFact DEF Channel
<1>7. ASSUME NEW k \in Kinds PROVE Explained(k)'
  <2>1. Store!After(Store!EmptyTable, <<>>) = Store!EmptyTable
    BY EmptyTableFact, AfterNothing DEF TableOf
  <2>2. k \notin Persistent => tables'[k] = Store!EmptyTable
    BY <1>1
  <2>3. published'[k] = <<>>
    BY <1>2
  <2> QED
    BY <2>1, <2>2, <2>3 DEF Explained
<1>8. \A s \in Subscribers : next'[s] \in -1 .. sent'[KindOf[s]]
  BY <1>2, StoreAssumption
<1> QED
  BY <1>2, <1>4, <1>5, <1>6, <1>7, <1>8 DEF StoreInv, Transaction

\* Where a receiver stands after it has received, and what it has received.
LEMMA AdvanceFacts ==
    ASSUME StoreInv, NEW s \in Subscribers, Advance(s)
    PROVE  LET k      == KindOf[s]
               behind == Len(published[k]) - next[s]
               n      == IF behind > Capacity THEN next[s] + (behind - Capacity) ELSE next[s] + 1
           IN  /\ next[s] >= 0 /\ behind > 0
               /\ n \in 0 .. sent[k] /\ next' = [next EXCEPT ![s] = n]
               /\ Lagging(s) > 0 <=> behind > Capacity
               /\ Lagging(s) <= 0 => Received(s) = published[k][next[s] + 1]
<1> DEFINE k      == KindOf[s]
           behind == Len(published[k]) - next[s]
<1>1. /\ k \in Kinds /\ Capacity \in Nat /\ Capacity > 0
  BY StoreAssumption
<1>2. /\ next[s] \in -1 .. sent[k] /\ next = [x \in Subscribers |-> next[x]]
      /\ sent[k] = Len(published[k]) /\ sent[k] \in Nat /\ Len(kept[k]) \in Nat
      /\ Len(kept[k]) = (IF sent[k] > Capacity THEN Capacity ELSE sent[k])
      /\ \A n \in 1 .. Len(kept[k]) : kept[k][n] = published[k][sent[k] - Len(kept[k]) + n]
  BY <1>1, StoreFacts DEF StoreInv, Channel
<1>3. /\ next[s] >= 0 /\ sent[k] > next[s] /\ Lagging(s) = sent[k] - Len(kept[k]) - next[s]
      /\ next' = [next EXCEPT ![s] = IF Lagging(s) > 0 THEN next[s] + Lagging(s) ELSE next[s] + 1]
      /\ Received(s) = kept[k][1 - Lagging(s)]
  BY DEF Advance, Waiting, Lagging, Received
<1>4. /\ Lagging(s) \in Int
      /\ Lagging(s) > 0 <=> Len(published[k]) - next[s] > Capacity
      /\ Lagging(s) > 0 => /\ Lagging(s) = (Len(published[k]) - next[s]) - Capacity
                           /\ next[s] + Lagging(s) \in 0 .. Len(published[k])
      /\ ~ (Lagging(s) > 0) => /\ 1 - Lagging(s) \in 1 .. Len(kept[k])
                               /\ Len(published[k]) - Len(kept[k]) + (1 - Lagging(s)) = next[s] + 1
                               /\ next[s] + 1 \in 0 .. Len(published[k])
  <2> DEFINE p == Len(published[k])
             q == Len(kept[k])
             x == next[s]
             lag == Lagging(s)
  <2>1. /\ p \in Nat /\ q \in Nat /\ x \in Int /\ Capacity \in Nat /\ x >= 0 /\ p > x
        /\ Capacity > 0 /\ q = (IF p > Capacity THEN Capacity ELSE p) /\ lag = p - q - x
    BY <1>1, <1>2, <1>3
  <2> HIDE DEF p, q, x, lag
  <2>2. /\ lag \in Int
        /\ lag > 0 <=> p - x > Capacity
        /\ lag > 0 => lag = (p - x) - Capacity /\ x + lag \in 0 .. p
        /\ ~ (lag > 0) => 1 - lag \in 1 .. q /\ p - q + (1 - lag) = x + 1 /\ x + 1 \in 0 .. p
    BY <2>1
  <2> QED
    BY <2>2 DEF p, q, x, lag
<1>5. behind > 0
  BY <1>2, <1>3
<1> HIDE DEF k
<1>6. CASE Lagging(s) > 0
  <2>1. behind > Capacity /\ Lagging(s) = behind - Capacity
    BY <1>4, <1>6
  <2>2. next[s] + (behind - Capacity) \in 0 .. sent[k]
    BY <1>2, <1>4, <1>6, <2>1
  <2>3. next' = [next EXCEPT ![s] = next[s] + (behind - Capacity)]
    BY <1>3, <1>6, <2>1
  <2>4. ~ (Lagging(s) <= 0)
    BY <1>4, <1>6
  <2> HIDE DEF behind
  <2> QED
    BY <1>3, <1>5, <1>6, <2>1, <2>2, <2>3, <2>4 DEF k, behind
<1>7. CASE ~ (Lagging(s) > 0)
  <2>1. kept[k][1 - Lagging(s)] = published[k][Len(published[k]) - Len(kept[k]) + (1 - Lagging(s))]
    BY <1>2, <1>4, <1>7
  <2>2. Received(s) = published[k][next[s] + 1]
    BY <1>3, <1>4, <1>7, <2>1
  <2> QED
    BY <1>2, <1>3, <1>4, <1>5, <1>7, <2>2 DEF k
<1> QED
  BY <1>6, <1>7

\* What a step of CARL, of a call or of CLEO does to the resource manager.
LEMMA StepKinds ==
    ASSUME [Next]_vars
    PROVE  \/ RMWrite \/ Restart \/ UNCHANGED rmVars
           \/ \E s \in Subscribers :
                \/ Subscribe(s)
                \/ /\ UNCHANGED <<storeVars, channelVars>>
                   /\ Advance(s) \/ next' = [next EXCEPT ![s] = -1]
<1>1. CASE UNCHANGED vars
  BY <1>1 DEF vars
<1>2. CASE RMWrite /\ UNCHANGED obVars
  BY <1>2
<1>3. CASE CarlRestart
  BY <1>3 DEF CarlRestart
<1>4. ASSUME NEW s \in Subscribers, NEW ids, NEW m, NEW d, Wait(s, ids, m, d)
      PROVE  UNCHANGED rmVars
  BY <1>4 DEF Wait
<1>5. ASSUME NEW s \in Subscribers,
             \/ ListStates(s) \/ FirstResponse(s) \/ Respond(s) \/ Elapse(s)
             \/ CleoReceive(s) \/ CleoDisconnected(s) \/ CleoStopped(s)
      PROVE  UNCHANGED rmVars
  BY <1>5 DEF ListStates, FirstResponse, Respond, Elapse, CleoReceive, CleoDisconnected, CleoStopped
<1>6. ASSUME NEW s \in Subscribers, SubscribeStates(s)
      PROVE  Subscribe(s)
  BY <1>6 DEF SubscribeStates
<1>7. ASSUME NEW s \in Subscribers, Observe(s)
      PROVE  \/ UNCHANGED rmVars
             \/ UNCHANGED <<storeVars, channelVars>> /\ Advance(s)
  BY <1>7 DEF Observe, rmVars
<1>8. ASSUME NEW s \in Subscribers, Leave(s)
      PROVE  UNCHANGED <<storeVars, channelVars>> /\ next' = [next EXCEPT ![s] = -1]
  BY <1>8 DEF Leave
<1> QED
  BY <1>1, <1>2, <1>3, <1>4, <1>5, <1>6, <1>7, <1>8 DEF Next, Call

LEMMA StoreStep == StoreInv /\ [Next]_vars => StoreInv'
<1> SUFFICES ASSUME StoreInv, [Next]_vars PROVE StoreInv'
  OBVIOUS
<1>1. CASE RMWrite
  BY <1>1, BeginInv, RemoveInv, InsertInv, CommitInv, RollbackInv DEF RMWrite
<1>2. CASE Restart
  BY <1>2, RestartInv
<1>3. CASE UNCHANGED rmVars
  BY <1>3 DEF rmVars, storeVars, channelVars, StoreInv, Transaction, IsTables, IsEvents, Channel, Explained
<1>4. ASSUME NEW s \in Subscribers, Subscribe(s) PROVE StoreInv'
  <2>1. sent[KindOf[s]] \in Nat
    BY StoreFacts, StoreAssumption
  <2>2. sent[KindOf[s]] \in -1 .. sent[KindOf[s]]
    BY <2>1
  <2> QED
    BY <1>4, <2>2, CursorInv DEF Subscribe
<1>5. ASSUME NEW s \in Subscribers, UNCHANGED <<storeVars, channelVars>>, Advance(s) PROVE StoreInv'
  <2>1. \E n \in 0 .. sent[KindOf[s]] : next' = [next EXCEPT ![s] = n]
    BY <1>5, AdvanceFacts
  <2>2. \A n \in 0 .. sent[KindOf[s]] : n \in -1 .. sent[KindOf[s]]
    BY StoreFacts, StoreAssumption
  <2> QED
    BY <1>5, <2>1, <2>2, CursorInv
<1>6. ASSUME NEW s \in Subscribers, UNCHANGED <<storeVars, channelVars>>, next' = [next EXCEPT ![s] = -1]
      PROVE  StoreInv'
  <2>1. -1 \in -1 .. sent[KindOf[s]]
    BY StoreFacts, StoreAssumption
  <2> QED
    BY <1>6, <2>1, CursorInv
<1> QED
  BY <1>1, <1>2, <1>3, <1>4, <1>5, <1>6, StepKinds

----------------------------------------------------------------------------
(* The calls keep their part.                                               *)

\* Another call than s is not touched.
Others(s) ==
    /\ UNCHANGED <<storeVars, channelVars>>
    /\ observer' = [x \in Subscribers |-> observer'[x]]
    /\ \A x \in Subscribers \ {s} : /\ observer'[x] = observer[x] /\ next'[x] = next[x]
                                    /\ x \in missed' <=> x \in missed

LEMMA CallStep ==
    ASSUME ObserverInv, NEW s \in Subscribers, Others(s),
           observer'[s] \in Observer, Len(observer'[s].outbox) <= OutCapacity,
           cleo' \in [Subscribers -> {"idle", "waiting", "rejected", "ended", "disconnected"}],
           missed' \subseteq Subscribers, ListedFits(s)', Follows(s)'
    PROVE  ObserverInv'
<1>1. UNCHANGED <<tables, sent, published, lost>>
  BY DEF Others, storeVars, channelVars
<1>2. ASSUME NEW x \in Subscribers \ {s} PROVE ListedFits(x)' /\ Follows(x)'
  <2>1. ListedFits(x) /\ Follows(x)
    BY DEF ObserverInv
  <2>2. observer'[x] = observer[x] /\ next'[x] = next[x] /\ (x \in missed' <=> x \in missed)
    BY DEF Others
  <2>3. ListedFits(x)'
    BY <1>1, <2>1, <2>2 DEF ListedFits, At
  <2>4. Follows(x)'
    BY <1>1, <2>1, <2>2 DEF Follows, Then
  <2> QED
    BY <2>3, <2>4
<1>3. ASSUME NEW x \in Subscribers
      PROVE  observer'[x] \in Observer /\ Len(observer'[x].outbox) <= OutCapacity
  BY DEF ObserverInv, ObserverTypeOK, Others
<1>4. observer' \in [Subscribers -> Observer]
  BY <1>3 DEF Others
<1> QED
  BY <1>2, <1>3, <1>4 DEF ObserverInv, ObserverTypeOK

\* A step that moves a call on without a word on its peers.
LEMMA SameView ==
    ASSUME ObserverInv, NEW s \in Subscribers, UNCHANGED rmVars, missed' = missed,
           observer'[s].ids = observer[s].ids, observer'[s].view = observer[s].view,
           observer'[s].listed = observer[s].listed,
           observer'[s].pc \in Watching => observer[s].pc \in Watching,
           observer'[s].pc = "subscribe" => observer[s].pc = "subscribe"
    PROVE  ListedFits(s)' /\ Follows(s)'
<1>1. UNCHANGED <<tables, sent, published, lost, next>>
  BY DEF rmVars, storeVars, channelVars
<1>2. ListedFits(s) /\ Follows(s)
  BY DEF ObserverInv
<1> QED
  BY <1>1, <1>2 DEF ListedFits, Follows, Then, At

\* Nor does one after which the call is not watching.
LEMMA NoView ==
    ASSUME NEW s \in Subscribers, observer'[s].pc \in {"idle", "list", "linger", "done"}
    PROVE  ListedFits(s)' /\ Follows(s)'
  BY DEF ListedFits, Follows, At, Watching

LEMMA ObserverFacts ==
    ASSUME ObserverInv, NEW s \in Subscribers
    PROVE  /\ observer[s] \in Observer /\ observer = [x \in Subscribers |-> observer[x]]
           /\ observer[s].pc \in {"idle", "list", "subscribe", "linger", "done"} \cup Watching
           /\ observer[s].ids \in SUBSET Ids
           /\ observer[s].view \in [Ids -> {"Online", "Offline"}]
           /\ observer[s].listed \in Nat
           /\ observer[s].outbox \in Seq(Status) /\ Len(observer[s].outbox) \in Nat
           /\ Len(observer[s].outbox) <= OutCapacity
           /\ cleo \in [Subscribers -> {"idle", "waiting", "rejected", "ended", "disconnected"}]
           /\ missed \subseteq Subscribers
<1>1. /\ observer \in [Subscribers -> Observer] /\ observer[s] \in Observer
      /\ Len(observer[s].outbox) <= OutCapacity
      /\ cleo \in [Subscribers -> {"idle", "waiting", "rejected", "ended", "disconnected"}]
      /\ missed \subseteq Subscribers
  BY DEF ObserverInv, ObserverTypeOK
<1>2. /\ observer[s].pc \in {"idle", "list", "subscribe", "linger", "done"} \cup Watching
      /\ observer[s].ids \in SUBSET Ids
      /\ observer[s].view \in [Ids -> {"Online", "Offline"}]
      /\ observer[s].listed \in Nat
      /\ observer[s].outbox \in Seq(Status)
  BY <1>1 DEF Observer
<1>3. Len(observer[s].outbox) \in Nat
  BY <1>2
<1> QED
  BY <1>1, <1>2, <1>3

LEMMA IdleFact == Idle \in Observer /\ Idle.pc = "idle" /\ Len(Idle.outbox) = 0
  BY EmptySeqFact DEF Idle, Observer

LEMMA InitObserverInv == Init => ObserverInv
<1> SUFFICES ASSUME Init PROVE ObserverInv
  OBVIOUS
<1>1. ObserverTypeOK
  BY IdleFact, ObserverAssumption DEF Init, ObserverTypeOK
<1>2. \A s \in Subscribers : observer[s].pc = "idle"
  BY IdleFact DEF Init
<1> QED
  BY <1>1, <1>2 DEF ObserverInv, ListedFits, Follows, At, Watching

LEMMA WaitInv ==
    ASSUME ObserverInv, NEW s \in Subscribers, NEW ids \in SUBSET Ids,
           NEW m \in BOOLEAN, NEW d \in Durations, Wait(s, ids, m, d)
    PROVE  ObserverInv'
<1>1. UNCHANGED <<rmVars, missed>>
  BY DEF Wait
<1>2. CASE observer' = observer /\ cleo' = [cleo EXCEPT ![s] = "rejected"]
  <2>1. Others(s)
    BY <1>1, <1>2, ObserverFacts DEF Others, rmVars
  <2>2. ListedFits(s)' /\ Follows(s)'
    BY <1>1, <1>2, SameView
  <2> QED
    BY <1>1, <1>2, <2>1, <2>2, ObserverFacts, CallStep
<1>3. CASE /\ observer' = [observer EXCEPT ![s].pc = "list", ![s].ids = ids]
           /\ cleo' = [cleo EXCEPT ![s] = "waiting"]
  <2>1. observer'[s] = [observer[s] EXCEPT !.pc = "list", !.ids = ids]
    BY <1>3, ObserverFacts
  <2>2. Others(s)
    BY <1>1, <1>3, ObserverFacts DEF Others, rmVars
  <2>3. observer'[s] \in Observer /\ observer'[s].pc = "list" /\ observer'[s].outbox = observer[s].outbox
    BY <2>1, ObserverFacts DEF Observer
  <2>4. ListedFits(s)' /\ Follows(s)'
    BY <2>3, NoView
  <2> QED
    BY <1>1, <1>3, <2>2, <2>3, <2>4, ObserverFacts, CallStep
<1> QED
  BY <1>2, <1>3 DEF Wait

\* A connection state is "Online", "Offline" or not stored.
LEMMA StateFacts ==
    ASSUME StoreInv
    PROVE  /\ ConnStates \in Kinds /\ ConnStates \notin Persistent
           /\ ValueOf(ConnStates) = {"Online", "Offline"}
           /\ \A i \in Ids : StateOf(tables[ConnStates][i]) \in {"Online", "Offline"}
           /\ \A s \in Subscribers : KindOf[s] = ConnStates
<1>1. /\ ConnStates \in Kinds /\ ConnStates \notin Persistent
      /\ ValueOf(ConnStates) = {"Online", "Offline"}
      /\ \A s \in Subscribers : KindOf[s] = ConnStates
  BY ObserverAssumption DEF ValueOf
<1>2. tables[ConnStates] \in TableOf(ConnStates)
  BY <1>1, StoreFacts
<1>3. \A i \in Ids : tables[ConnStates][i] \in {"Online", "Offline"} \cup {NoValue}
  BY <1>1, <1>2 DEF TableOf
<1> QED
  BY <1>1, <1>3 DEF StateOf

LEMMA ListStatesInv ==
    ASSUME StoreInv, ObserverInv, NEW s \in Subscribers, ListStates(s)
    PROVE  ObserverInv'
<1> DEFINE view == [i \in Ids |-> IF i \in observer[s].ids
                                  THEN StateOf(tables[ConnStates][i]) ELSE "Offline"]
<1>1. /\ UNCHANGED <<rmVars, missed>> /\ cleo' = cleo
      /\ observer' = [observer EXCEPT ![s].pc = "subscribe", ![s].view = view,
                                      ![s].listed = sent[ConnStates]]
  BY DEF ListStates
<1>2. view \in [Ids -> {"Online", "Offline"}] /\ sent[ConnStates] \in Nat
  BY StateFacts, StoreFacts
<1>3. \A i \in observer[s].ids : view[i] = StateOf(tables[ConnStates][i])
  BY ObserverFacts
<1> HIDE DEF view
<1>4. observer'[s] = [observer[s] EXCEPT !.pc = "subscribe", !.view = view, !.listed = sent[ConnStates]]
  BY <1>1, ObserverFacts
<1>5. Others(s)
  BY <1>1, ObserverFacts DEF Others, rmVars
<1>6. /\ observer'[s] \in Observer /\ observer'[s].pc = "subscribe" /\ observer'[s].view = view
      /\ observer'[s].listed = sent[ConnStates] /\ observer'[s].ids = observer[s].ids
      /\ observer'[s].outbox = observer[s].outbox
  BY <1>2, <1>4, ObserverFacts DEF Observer
<1>7. UNCHANGED <<tables, sent, lost>>
  BY <1>1 DEF rmVars, storeVars, channelVars
<1>8. ListedFits(s)'
  BY <1>2, <1>3, <1>6, <1>7 DEF ListedFits
<1>9. Follows(s)'
  BY <1>6 DEF Follows, Watching
<1> QED
  BY <1>1, <1>5, <1>6, <1>8, <1>9, ObserverFacts, CallStep

LEMMA SubscribeStatesInv ==
    ASSUME StoreInv, ObserverInv, NEW s \in Subscribers, SubscribeStates(s)
    PROVE  ObserverInv'
<1>1. /\ observer[s].pc = "subscribe" /\ UNCHANGED <<storeVars, channelVars>> /\ cleo' = cleo
      /\ next' = [next EXCEPT ![s] = sent[KindOf[s]]]
      /\ observer' = [observer EXCEPT ![s].pc = "first", ![s].listed = 0]
      /\ missed' = IF sent[ConnStates] = observer[s].listed THEN missed ELSE missed \cup {s}
  BY DEF SubscribeStates, Subscribe, At
<1>2. /\ observer'[s] = [observer[s] EXCEPT !.pc = "first", !.listed = 0]
      /\ \A x \in Subscribers \ {s} : observer'[x] = observer[x]
      /\ observer' = [x \in Subscribers |-> observer'[x]]
  BY <1>1, ObserverFacts
<1>3. /\ next = [x \in Subscribers |-> next[x]] /\ KindOf[s] = ConnStates
      /\ sent[ConnStates] = Len(published[ConnStates]) /\ sent[ConnStates] \in Nat
      /\ published[ConnStates] \in Seq(EventOf(ConnStates))
      /\ ConnStates \notin lost => tables[ConnStates] = Store!After(Store!EmptyTable, published[ConnStates])
  BY StateFacts, StoreFacts DEF StoreInv, Explained
<1>4. next'[s] = sent[ConnStates] /\ \A x \in Subscribers \ {s} : next'[x] = next[x]
  BY <1>1, <1>3
<1>5. Others(s)
  BY <1>1, <1>2, <1>4 DEF Others
<1>6. /\ observer'[s] \in Observer /\ observer'[s].pc = "first" /\ observer'[s].ids = observer[s].ids
      /\ observer'[s].view = observer[s].view /\ observer'[s].outbox = observer[s].outbox
  <2>1. "first" \in {"idle", "list", "subscribe", "linger", "done"} \cup Watching
    BY DEF Watching
  <2>2. PICK n \in Nat : n = 0
    OBVIOUS
  <2>3. observer'[s] = [observer[s] EXCEPT !.pc = "first", !.listed = n]
    BY <1>2, <2>2
  <2> QED
    BY <2>1, <2>3, ObserverFacts DEF Observer
<1>7. ListedFits(s)'
  BY <1>6 DEF ListedFits, At
<1>8. UNCHANGED <<tables, sent, lost, published>>
  BY <1>1 DEF storeVars, channelVars
<1>9. Follows(s)'
  <2>1. SubSeq(published[ConnStates], 1, sent[ConnStates]) = published[ConnStates]
    BY <1>3, SubSeqFull
  <2>2. Then(s)' = Store!After(Store!EmptyTable, published[ConnStates])
    BY <1>4, <1>8, <2>1 DEF Then
  <2>3. s \notin missed' => observer[s].listed = sent[ConnStates]
    BY <1>1
  <2>4. s \notin missed' /\ ConnStates \notin lost =>
           \A i \in observer[s].ids : observer[s].view[i] = StateOf(tables[ConnStates][i])
    BY <1>1, <2>3 DEF ObserverInv, ListedFits, At
  <2>5. s \notin missed' /\ ConnStates \notin lost' =>
           \A i \in observer'[s].ids : observer'[s].view[i] = StateOf(Then(s)'[i])
    BY <1>3, <1>6, <1>8, <2>2, <2>4
  <2>6. next'[s] >= 0
    BY <1>3, <1>4
  <2> QED
    BY <2>5, <2>6 DEF Follows
<1>10. missed' \subseteq Subscribers
  <2>1. missed \subseteq Subscribers
    BY ObserverFacts
  <2>2. missed' = missed \/ missed' = missed \cup {s}
    BY <1>1
  <2> QED
    BY <2>1, <2>2
<1>11. Len(observer'[s].outbox) <= OutCapacity
  BY <1>6, ObserverFacts
<1>12. cleo' \in [Subscribers -> {"idle", "waiting", "rejected", "ended", "disconnected"}]
  BY <1>1, ObserverFacts
<1> QED
  BY <1>5, <1>6, <1>7, <1>9, <1>10, <1>11, <1>12, CallStep

LEMMA SentFacts ==
    ASSUME NEW o \in Observer, Len(o.outbox) <= OutCapacity, HasRoom(o),
           NEW pc \in {"idle", "list", "subscribe", "linger", "done"} \cup Watching
    PROVE  /\ Sent(o, pc) \in Observer /\ Len(Sent(o, pc).outbox) <= OutCapacity
           /\ Sent(o, pc).pc = pc /\ Sent(o, pc).ids = o.ids /\ Sent(o, pc).view = o.view
           /\ Sent(o, pc).listed = o.listed
<1> DEFINE out == IF o.closed THEN o.outbox ELSE Append(o.outbox, DetermineResponse(o))
<1>1. Sent(o, pc) = [o EXCEPT !.pc = pc, !.outbox = out]
  BY DEF Sent
<1>2. o.outbox \in Seq(Status) /\ Len(o.outbox) \in Nat /\ OutCapacity \in Nat
  BY ObserverAssumption DEF Observer
<1>3. DetermineResponse(o) \in Status
  BY DEF DetermineResponse, Status
<1>4. out \in Seq(Status) /\ Len(out) <= OutCapacity
  <2>1. CASE o.closed
    BY <1>2, <2>1
  <2>2. CASE ~ o.closed
    <3>1. Len(o.outbox) < OutCapacity /\ out = Append(o.outbox, DetermineResponse(o))
      BY <2>2 DEF HasRoom
    <3> HIDE DEF out
    <3> QED
      BY <1>2, <1>3, <3>1
  <2> QED
    BY <2>1, <2>2
<1> HIDE DEF out
<1>5. /\ Sent(o, pc) \in Observer
      /\ Sent(o, pc).outbox = out
      /\ Sent(o, pc).pc = pc /\ Sent(o, pc).ids = o.ids /\ Sent(o, pc).view = o.view
      /\ Sent(o, pc).listed = o.listed
  BY <1>1, <1>4 DEF Observer
<1> QED
  BY <1>4, <1>5

\* A call that answers, or moves on without an answer.
LEMMA AnswerInv ==
    ASSUME ObserverInv, NEW s \in Subscribers, UNCHANGED <<rmVars, cleo, missed>>,
           observer[s].pc \in Watching,
           NEW pc \in {"linger"} \cup Watching,
           \/ observer' = [observer EXCEPT ![s].pc = pc]
           \/ HasRoom(observer[s]) /\ observer' = [observer EXCEPT ![s] = Sent(observer[s], pc)]
    PROVE  ObserverInv'
<1>1. /\ observer'[s] \in Observer /\ Len(observer'[s].outbox) <= OutCapacity
      /\ observer'[s].pc = pc /\ observer'[s].ids = observer[s].ids
      /\ observer'[s].view = observer[s].view /\ observer'[s].listed = observer[s].listed
  <2>1. CASE observer' = [observer EXCEPT ![s].pc = pc]
    <3>1. observer'[s] = [observer[s] EXCEPT !.pc = pc]
      BY <2>1, ObserverFacts
    <3>2. pc \in {"idle", "list", "subscribe", "linger", "done"} \cup Watching
      OBVIOUS
    <3> QED
      BY <3>1, <3>2, ObserverFacts DEF Observer
  <2>2. CASE HasRoom(observer[s]) /\ observer' = [observer EXCEPT ![s] = Sent(observer[s], pc)]
    <3>1. observer'[s] = Sent(observer[s], pc)
      BY <2>2, ObserverFacts
    <3> QED
      BY <2>2, <3>1, ObserverFacts, SentFacts
  <2> QED
    BY <2>1, <2>2
<1>2. Others(s)
  BY ObserverFacts DEF Others, rmVars
<1>3. ListedFits(s)' /\ Follows(s)'
  BY <1>1, SameView DEF Watching
<1> QED
  BY <1>1, <1>2, <1>3, ObserverFacts, CallStep

LEMMA FirstResponseInv ==
    ASSUME ObserverInv, NEW s \in Subscribers, FirstResponse(s)
    PROVE  ObserverInv'
  BY AnswerInv DEF FirstResponse, At, Watching

LEMMA RespondInv ==
    ASSUME ObserverInv, NEW s \in Subscribers, Respond(s)
    PROVE  ObserverInv'
<1>1. CASE observer[s].closed
  BY <1>1, AnswerInv DEF Respond, At, Watching
<1>2. CASE ~ observer[s].closed
  <2>1. PICK pc \in {"linger", "observe"} :
           HasRoom(observer[s]) /\ observer' = [observer EXCEPT ![s] = Sent(observer[s], pc)]
    BY <1>2 DEF Respond
  <2> QED
    BY <2>1, AnswerInv DEF Respond, At, Watching
<1> QED
  BY <1>1, <1>2

LEMMA LeaveInv ==
    ASSUME StoreInv, ObserverInv, NEW s \in Subscribers, Leave(s)
    PROVE  ObserverInv'
<1>1. /\ observer' = [observer EXCEPT ![s] = [Idle EXCEPT !.pc = "done", !.outbox = observer[s].outbox]]
      /\ next' = [next EXCEPT ![s] = -1] /\ cleo' = cleo /\ missed' = missed
      /\ UNCHANGED <<storeVars, channelVars>>
  BY DEF Leave
<1>2. observer'[s] = [Idle EXCEPT !.pc = "done", !.outbox = observer[s].outbox]
  BY <1>1, ObserverFacts
<1>3. /\ observer'[s] \in Observer /\ observer'[s].pc = "done"
      /\ observer'[s].outbox = observer[s].outbox
  BY <1>2, ObserverFacts, IdleFact DEF Observer
<1>4. Others(s)
  BY <1>1, ObserverFacts DEF Others, StoreInv
<1>5. ListedFits(s)' /\ Follows(s)'
  BY <1>3, NoView
<1> QED
  BY <1>1, <1>3, <1>4, <1>5, ObserverFacts, CallStep

LEMMA ElapseInv ==
    ASSUME ObserverInv, NEW s \in Subscribers, Elapse(s)
    PROVE  ObserverInv'
<1>1. observer' = [observer EXCEPT ![s].elapsed = TRUE] /\ UNCHANGED <<rmVars, cleo, missed>>
  BY DEF Elapse
<1>2. observer'[s] = [observer[s] EXCEPT !.elapsed = TRUE]
  BY <1>1, ObserverFacts
<1>3. /\ observer'[s] \in Observer /\ observer'[s].outbox = observer[s].outbox
      /\ observer'[s].pc = observer[s].pc /\ observer'[s].ids = observer[s].ids
      /\ observer'[s].view = observer[s].view /\ observer'[s].listed = observer[s].listed
  BY <1>2, ObserverFacts DEF Observer
<1>4. Others(s)
  BY <1>1, ObserverFacts DEF Others, rmVars
<1>5. ListedFits(s)' /\ Follows(s)'
  BY <1>1, <1>3, SameView
<1> QED
  BY <1>1, <1>3, <1>4, <1>5, ObserverFacts, CallStep

\* The view after an event is the view of the moment after it.
LEMMA AppliedFacts ==
    ASSUME NEW o \in Observer, NEW e \in EventOf(ConnStates), NEW t, NEW u,
           ValueOf(ConnStates) = {"Online", "Offline"}, NoValue \notin Values,
           {"Online", "Offline"} \subseteq Values,
           \A i \in Ids : (i = e.id => u[i] = Announced(e)) /\ (i # e.id => u[i] = t[i])
    PROVE  /\ Applied(o, e) \in [Ids -> {"Online", "Offline"}]
           /\ (\A i \in o.ids : o.view[i] = StateOf(t[i])) =>
                \A i \in o.ids : Applied(o, e)[i] = StateOf(u[i])
<1>1. /\ o.view \in [Ids -> {"Online", "Offline"}] /\ o.ids \in SUBSET Ids
      /\ e.id \in Ids /\ e.value \in {"Online", "Offline"}
  BY DEF Observer, EventOf
<1> DEFINE v == IF e.type = "Inserted" THEN e.value ELSE "Offline"
<1>2. v \in {"Online", "Offline"} /\ StateOf(Announced(e)) = v
  BY <1>1 DEF StateOf, Announced
<1>3. Applied(o, e) = IF e.id \notin o.ids THEN o.view ELSE [o.view EXCEPT ![e.id] = v]
  BY DEF Applied
<1> HIDE DEF v
<1>5. Applied(o, e) \in [Ids -> {"Online", "Offline"}]
  BY <1>1, <1>2, <1>3
<1>6. ASSUME \A i \in o.ids : o.view[i] = StateOf(t[i]), NEW i \in o.ids
      PROVE  Applied(o, e)[i] = StateOf(u[i])
  <2>1. CASE i = e.id
    BY <1>1, <1>2, <1>3, <2>1
  <2>2. CASE i # e.id
    <3>1. Applied(o, e)[i] = o.view[i]
      BY <1>1, <1>3, <2>2
    <3>2. u[i] = t[i]
      BY <1>1, <2>2
    <3> QED
      BY <1>6, <3>1, <3>2
  <2> QED
    BY <2>1, <2>2
<1> QED
  BY <1>5, <1>6

LEMMA ObserveInv ==
    ASSUME StoreInv, ObserverInv, NEW s \in Subscribers, Observe(s)
    PROVE  ObserverInv'
<1>1. /\ observer[s].pc = "observe" /\ observer[s].pc \in Watching
      /\ UNCHANGED <<storeVars, channelVars>> /\ cleo' = cleo
  BY DEF Observe, At, Watching
<1>2. UNCHANGED <<tables, sent, lost, published>>
  BY <1>1 DEF storeVars, channelVars
<1>3. Follows(s) /\ "respond" \in {"idle", "list", "subscribe", "linger", "done"} \cup Watching
  BY DEF ObserverInv, Watching
<1>4. next = [x \in Subscribers |-> next[x]]
  BY DEF StoreInv
<1>5. CASE /\ Lagging(s) <= 0 /\ Advance(s)
           /\ observer' = [observer EXCEPT ![s].pc = "respond",
                                           ![s].view = Applied(observer[s], Received(s))]
           /\ missed' = missed
  <2> DEFINE p == published[ConnStates]
             e == p[next[s] + 1]
  <2>1. /\ KindOf[s] = ConnStates /\ ConnStates \in Kinds /\ p \in Seq(EventOf(ConnStates))
        /\ sent[ConnStates] = Len(p) /\ Len(p) \in Nat
        /\ ValueOf(ConnStates) = {"Online", "Offline"} /\ NoValue \notin Values
        /\ {"Online", "Offline"} \subseteq Values
    <3>1. ValuesOf[ConnStates] \subseteq Values
      BY StateFacts, StoreAssumption
    <3> QED
      BY <3>1, StateFacts, StoreFacts, StoreAssumption, ObserverAssumption
  <2>2. /\ next[s] >= 0 /\ Len(p) - next[s] > 0 /\ ~ (Len(p) - next[s] > Capacity)
        /\ next' = [next EXCEPT ![s] = next[s] + 1] /\ Received(s) = e
    <3>1. /\ next[s] >= 0 /\ Len(p) - next[s] > 0 /\ (Lagging(s) > 0 <=> Len(p) - next[s] > Capacity)
          /\ next' = [next EXCEPT ![s] = IF Len(p) - next[s] > Capacity
                         THEN next[s] + (Len(p) - next[s] - Capacity) ELSE next[s] + 1]
          /\ Received(s) = e
      BY <1>5, <2>1, AdvanceFacts
    <3>2. ~ (Lagging(s) > 0)
      <4>1. KindOf[s] \in Kinds
        BY <2>1
      <4>2. sent[KindOf[s]] \in Nat /\ Len(kept[KindOf[s]]) \in Nat
        BY <4>1, StoreFacts
      <4>3. next[s] \in -1 .. sent[KindOf[s]]
        BY DEF StoreInv
      <4>4. Lagging(s) \in Int
        BY <4>2, <4>3 DEF Lagging
      <4> QED
        BY <1>5, <4>4
    <3> QED
      BY <3>1, <3>2
  <2>3. next[s] \in -1 .. Len(p)
    BY <2>1 DEF StoreInv
  <2>4. next[s] + 1 \in 1 .. Len(p) /\ next[s] \in 0 .. Len(p)
    BY <2>1, <2>2, <2>3
  <2>5. e \in EventOf(ConnStates)
    BY <2>1, <2>4
  <2>6. SubSeq(p, 1, next[s] + 1) = Append(SubSeq(p, 1, next[s]), e)
    <3> HIDE DEF p
    <3>1. SubSeq(p, 1, next[s]) \in Seq(EventOf(ConnStates))
      BY <2>1, <2>4
    <3> QED
      BY <2>1, <2>4, <3>1
  <2>7. /\ next'[s] = next[s] + 1 /\ \A x \in Subscribers \ {s} : next'[x] = next[x]
        /\ observer'[s] = [observer[s] EXCEPT !.pc = "respond", !.view = Applied(observer[s], e)]
    BY <1>4, <1>5, <2>2, ObserverFacts
  <2>8. Then(s)' = [Then(s) EXCEPT ![e.id] = Announced(e)]
    <3> DEFINE q == SubSeq(p, 1, next[s])
    <3>1. q \in Seq(EventOf(ConnStates))
      BY <2>1, <2>4
    <3>2. Then(s) = Store!After(Store!EmptyTable, q)
      BY DEF Then
    <3>3. Then(s)' = Store!After(Store!EmptyTable, SubSeq(p, 1, next[s] + 1))
      BY <1>2, <2>7 DEF Then
    <3> HIDE DEF q
    <3>4. Store!After(Store!EmptyTable, Append(q, e))
            = [Store!After(Store!EmptyTable, q) EXCEPT ![e.id] = Announced(e)]
      BY <2>5, <3>1, AfterAppend
    <3>5. SubSeq(p, 1, next[s] + 1) = Append(q, e)
      BY <2>6 DEF q
    <3> HIDE DEF e, p
    <3> QED
      BY <3>2, <3>3, <3>4, <3>5
  <2>9. Then(s) = [i \in Ids |-> Then(s)[i]]
    BY AfterShape DEF Then
  <2> HIDE DEF e, p
  <2>10. /\ Applied(observer[s], e) \in [Ids -> {"Online", "Offline"}]
         /\ (\A i \in observer[s].ids : observer[s].view[i] = StateOf(Then(s)[i])) =>
                \A i \in observer[s].ids : Applied(observer[s], e)[i] = StateOf(Then(s)'[i])
    <3> DEFINE t == Then(s)
               u == Then(s)'
    <3>1. /\ \A i \in Ids : (i = e.id => u[i] = Announced(e)) /\ (i # e.id => u[i] = t[i])
          /\ observer[s] \in Observer
      BY <2>8, <2>9, ObserverFacts
    <3> HIDE DEF t, u
    <3>3. /\ ValueOf(ConnStates) = {"Online", "Offline"} /\ NoValue \notin Values
          /\ {"Online", "Offline"} \subseteq Values
      BY <2>1
    <3>2. /\ Applied(observer[s], e) \in [Ids -> {"Online", "Offline"}]
          /\ (\A i \in observer[s].ids : observer[s].view[i] = StateOf(t[i])) =>
                \A i \in observer[s].ids : Applied(observer[s], e)[i] = StateOf(u[i])
      BY <2>5, <3>1, <3>3, AppliedFacts
    <3> QED
      BY <3>2 DEF t, u
  <2>11. /\ observer'[s] \in Observer /\ observer'[s].pc = "respond"
         /\ observer'[s].view = Applied(observer[s], e) /\ observer'[s].ids = observer[s].ids
         /\ observer'[s].outbox = observer[s].outbox
    BY <1>3, <2>7, <2>10, ObserverFacts, ZenonT(60) DEF Observer
  <2>12. next'[s] >= 0
    BY <2>2, <2>3, <2>7
  <2>13. Follows(s)'
    BY <1>1, <1>2, <1>3, <1>5, <2>10, <2>11, <2>12 DEF Follows
  <2>14. ListedFits(s)'
    BY <2>11 DEF ListedFits, At
  <2>15. Others(s)
    BY <1>1, <1>5, <2>7, ObserverFacts DEF Others
  <2>16. missed' \subseteq Subscribers /\ Len(observer'[s].outbox) <= OutCapacity
    BY <1>5, <2>11, ObserverFacts
  <2> QED
    BY <1>1, <2>11, <2>13, <2>14, <2>15, <2>16, ObserverFacts, CallStep
<1>6. CASE \/ Advance(s) /\ missed' = missed \cup {s} /\ observer' = [observer EXCEPT ![s].pc = "respond"]
           \/ next' = next /\ missed' = missed /\ observer' = [observer EXCEPT ![s].pc = "respond"]
  <2>1. observer'[s] = [observer[s] EXCEPT !.pc = "respond"]
    BY <1>6, ObserverFacts
  <2>2. /\ observer'[s] \in Observer /\ observer'[s].pc = "respond"
        /\ observer'[s].view = observer[s].view /\ observer'[s].ids = observer[s].ids
        /\ observer'[s].outbox = observer[s].outbox
    BY <1>3, <2>1, ObserverFacts DEF Observer
  <2>3. ListedFits(s)'
    BY <2>2 DEF ListedFits, At
  <2>4. /\ \A x \in Subscribers \ {s} : next'[x] = next[x] /\ (x \in missed' <=> x \in missed)
        /\ observer' = [x \in Subscribers |-> observer'[x]]
        /\ \A x \in Subscribers \ {s} : observer'[x] = observer[x]
    BY <1>4, <1>6, ObserverFacts DEF Advance
  <2>5. Others(s)
    BY <1>1, <2>4 DEF Others
  <2>6. Follows(s)'
    <3>1. CASE next' = next /\ missed' = missed
      <4>1. Then(s)' = Then(s)
        BY <1>2, <3>1 DEF Then
      <4> QED
        BY <1>1, <1>2, <1>3, <2>2, <3>1, <4>1 DEF Follows
    <3>2. CASE Advance(s) /\ missed' = missed \cup {s}
      <4>1. \E n \in 0 .. sent[KindOf[s]] : next' = [next EXCEPT ![s] = n]
        BY <3>2, AdvanceFacts
      <4>2. next'[s] >= 0
        BY <1>4, <4>1
      <4> QED
        BY <3>2, <4>2 DEF Follows
    <3> QED
      BY <1>6, <3>1, <3>2
  <2>7. missed' \subseteq Subscribers
    <3>1. missed \subseteq Subscribers
      BY ObserverFacts
    <3> QED
      BY <1>6, <3>1
  <2>8. Len(observer'[s].outbox) <= OutCapacity
    BY <2>2, ObserverFacts
  <2> QED
    BY <1>1, <2>2, <2>3, <2>5, <2>6, <2>7, <2>8, ObserverFacts, CallStep
<1> QED
  BY <1>5, <1>6 DEF Observe

LEMMA CleoReceiveInv ==
    ASSUME ObserverInv, NEW s \in Subscribers, CleoReceive(s)
    PROVE  ObserverInv'
<1> DEFINE answer == Head(observer[s].outbox)
           out    == IF answer = "Pending" THEN Tail(observer[s].outbox) ELSE <<>>
           closed == answer # "Pending"
<1>1. /\ observer[s].outbox # <<>> /\ UNCHANGED <<rmVars, missed>>
      /\ observer' = [observer EXCEPT ![s].outbox = out, ![s].closed = closed]
      /\ cleo' = [cleo EXCEPT ![s] = IF answer = "Pending" THEN @ ELSE "ended"]
  BY ObserverFacts DEF CleoReceive
<1>2. out \in Seq(Status) /\ Len(out) <= OutCapacity /\ closed \in BOOLEAN
  <2>1. ASSUME answer = "Pending" PROVE out \in Seq(Status) /\ Len(out) <= OutCapacity
    <3> DEFINE q == observer[s].outbox
    <3>1. q \in Seq(Status) /\ q # <<>> /\ Len(q) \in Nat /\ Len(q) <= OutCapacity
      BY <1>1, ObserverFacts
    <3> HIDE DEF q
    <3>2. Tail(q) \in Seq(Status) /\ Len(Tail(q)) = Len(q) - 1
      BY <3>1
    <3>3. out = Tail(q)
      BY <2>1 DEF q
    <3> HIDE DEF out
    <3>4. Len(Tail(q)) <= OutCapacity
      BY <3>1, <3>2, ObserverAssumption
    <3> QED
      BY <3>2, <3>3, <3>4
  <2>2. ASSUME answer # "Pending" PROVE out \in Seq(Status) /\ Len(out) <= OutCapacity
    BY <2>2, EmptySeqFact, ObserverAssumption
  <2>3. closed \in BOOLEAN
    OBVIOUS
  <2> QED
    BY <2>1, <2>2, <2>3
<1>3. cleo' \in [Subscribers -> {"idle", "waiting", "rejected", "ended", "disconnected"}]
  BY <1>1, ObserverFacts
<1> HIDE DEF answer, out, closed
<1>4. observer'[s] = [observer[s] EXCEPT !.outbox = out, !.closed = closed]
  BY <1>1, ObserverFacts
<1>5. /\ observer'[s] \in Observer /\ observer'[s].outbox = out
      /\ observer'[s].pc = observer[s].pc /\ observer'[s].ids = observer[s].ids
      /\ observer'[s].view = observer[s].view /\ observer'[s].listed = observer[s].listed
  BY <1>2, <1>4, ObserverFacts DEF Observer
<1>6. Others(s)
  BY <1>1, ObserverFacts DEF Others, rmVars
<1>7. ListedFits(s)' /\ Follows(s)'
  BY <1>1, <1>5, SameView
<1> QED
  BY <1>1, <1>2, <1>3, <1>5, <1>6, <1>7, ObserverFacts, CallStep

LEMMA CleoDisconnectedInv ==
    ASSUME ObserverInv, NEW s \in Subscribers, CleoDisconnected(s)
    PROVE  ObserverInv'
<1>1. UNCHANGED <<rmVars, observer, missed>> /\ cleo' = [cleo EXCEPT ![s] = "disconnected"]
  BY DEF CleoDisconnected
<1>2. Others(s)
  BY <1>1, ObserverFacts DEF Others, rmVars
<1>3. ListedFits(s)' /\ Follows(s)'
  BY <1>1, SameView
<1> QED
  BY <1>1, <1>2, <1>3, ObserverFacts, CallStep

LEMMA CleoStoppedInv ==
    ASSUME ObserverInv, NEW s \in Subscribers, CleoStopped(s)
    PROVE  ObserverInv'
<1>1. /\ UNCHANGED <<rmVars, missed>> /\ cleo' = [cleo EXCEPT ![s] = "ended"]
      /\ observer' = [observer EXCEPT
           ![s] = IF observer[s].pc \in {"list", "subscribe", "done"} THEN [Idle EXCEPT !.pc = "done"]
                  ELSE [observer[s] EXCEPT !.closed = TRUE, !.outbox = <<>>]]
  BY DEF CleoStopped
<1>2. Others(s)
  BY <1>1, ObserverFacts DEF Others, rmVars
<1>3. /\ observer'[s] \in Observer /\ Len(observer'[s].outbox) <= OutCapacity
      /\ ListedFits(s)' /\ Follows(s)'
  <2>1. CASE observer[s].pc \in {"list", "subscribe", "done"}
    <3>1. observer'[s] = [Idle EXCEPT !.pc = "done"]
      BY <1>1, <2>1, ObserverFacts
    <3>2. observer'[s] \in Observer /\ observer'[s].pc = "done" /\ observer'[s].outbox = Idle.outbox
      BY <3>1, IdleFact DEF Observer
    <3>3. Len(observer'[s].outbox) <= OutCapacity
      BY <3>2, IdleFact, ObserverAssumption
    <3> QED
      BY <3>2, <3>3, NoView
  <2>2. CASE observer[s].pc \notin {"list", "subscribe", "done"}
    <3>1. observer'[s] = [observer[s] EXCEPT !.closed = TRUE, !.outbox = <<>>]
      BY <1>1, <2>2, ObserverFacts
    <3> DEFINE q == <<>>
    <3>5. q \in Seq(Status) /\ Len(q) = 0
      BY EmptySeqFact
    <3>6. observer'[s] = [observer[s] EXCEPT !.closed = TRUE, !.outbox = q]
      BY <3>1
    <3> HIDE DEF q
    <3>2. /\ observer'[s] \in Observer /\ observer'[s].outbox = q
          /\ observer'[s].pc = observer[s].pc /\ observer'[s].ids = observer[s].ids
          /\ observer'[s].view = observer[s].view /\ observer'[s].listed = observer[s].listed
      BY <3>5, <3>6, ObserverFacts DEF Observer
    <3>3. Len(observer'[s].outbox) <= OutCapacity
      BY <3>2, <3>5, ObserverAssumption
    <3>4. ListedFits(s)' /\ Follows(s)'
      BY <1>1, <3>2, SameView
    <3> QED
      BY <3>2, <3>3, <3>4
  <2> QED
    BY <2>1, <2>2
<1> QED
  BY <1>1, <1>2, <1>3, ObserverFacts, CallStep

LEMMA CarlRestartInv == CarlRestart /\ ObserverInv => ObserverInv'
<1> SUFFICES ASSUME CarlRestart, ObserverInv PROVE ObserverInv'
  OBVIOUS
<1>1. observer' = [s \in Subscribers |-> Idle] /\ missed' = {} /\ cleo' = cleo
  BY DEF CarlRestart
<1>2. ObserverTypeOK'
  BY <1>1, IdleFact, ObserverAssumption DEF ObserverInv, ObserverTypeOK
<1>3. \A s \in Subscribers : ListedFits(s)' /\ Follows(s)'
  BY <1>1, IdleFact, NoView
<1> QED
  BY <1>2, <1>3 DEF ObserverInv

\* A write disturbs no view: what is announced comes after what was received,
\* and a table that changes without a word is lost.
LEMMA WriteKeepsViews ==
    ASSUME StoreInv, ObserverInv, RMWrite, UNCHANGED obVars
    PROVE  ObserverInv'
<1>1. observer' = observer /\ cleo' = cleo /\ missed' = missed
  BY DEF obVars
<1>2. ObserverTypeOK'
  BY <1>1 DEF ObserverInv, ObserverTypeOK
<1>3. ASSUME NEW s \in Subscribers, UNCHANGED <<tables, sent, published, lost, next>>
      PROVE  ListedFits(s)' /\ Follows(s)'
  <2>1. ListedFits(s) /\ Follows(s)
    BY DEF ObserverInv
  <2> QED
    BY <1>1, <1>3, <2>1 DEF ListedFits, Follows, Then, At
<1>4. ASSUME NEW s \in Subscribers, Commit
      PROVE  ListedFits(s)' /\ Follows(s)'
  <2> DEFINE k == ConnStates
  <2>1. /\ txn.open /\ tables' = txn.work /\ next' = next
        /\ published' = [c \in Kinds |-> published[c] \o Drained(c)]
        /\ sent' = [c \in Kinds |-> sent[c] + Len(Drained(c))]
        /\ lost' = lost \cup {c \in Kinds : Len(txn.relay[c]) > Capacity}
    BY <1>4 DEF Commit
  <2>2. /\ k \in Kinds /\ Drained(k) \in Seq(EventOf(k)) /\ Len(Drained(k)) \in Nat
        /\ published[k] \in Seq(EventOf(k)) /\ Len(published[k]) \in Nat
        /\ sent[k] = Len(published[k]) /\ tables[k] \in TableOf(k)
        /\ txn.relay[k] \in Seq(EventOf(k))
        /\ txn.work[k] = Store!After(tables[k], txn.relay[k])
    BY <2>1, OpenFacts, StoreFacts, StateFacts
  <2>3. ListedFits(s) /\ Follows(s) /\ observer[s].listed \in Nat
    BY ObserverFacts DEF ObserverInv
  <2>4. sent'[k] = sent[k] + Len(Drained(k)) /\ published'[k] = published[k] \o Drained(k)
    BY <2>1, <2>2
  <2>5. ListedFits(s)'
    <3> SUFFICES ASSUME observer[s].pc = "subscribe"
                 PROVE  /\ observer[s].listed <= sent'[k]
                        /\ observer[s].listed = sent'[k] /\ k \notin lost' =>
                             \A i \in observer[s].ids : observer[s].view[i] = StateOf(tables'[k][i])
      BY <1>1 DEF ListedFits, At
    <3>1. /\ observer[s].listed <= sent[k]
          /\ observer[s].listed = sent[k] /\ k \notin lost =>
                \A i \in observer[s].ids : observer[s].view[i] = StateOf(tables[k][i])
      BY <2>3 DEF ListedFits, At
    <3>2. observer[s].listed <= sent'[k] /\ (observer[s].listed = sent'[k] =>
             observer[s].listed = sent[k] /\ Len(Drained(k)) = 0)
      BY <2>2, <2>3, <2>4, <3>1
    <3>3. ASSUME Len(Drained(k)) = 0, k \notin lost'
          PROVE  tables'[k] = tables[k]
      <4>1. ~ (Len(txn.relay[k]) > Capacity)
        BY <2>1, <2>2, <3>3
      <4>2. Drained(k) = txn.relay[k]
        BY <4>1 DEF Drained
      <4>3. txn.relay[k] = <<>>
        BY <2>2, <3>3, <4>2
      <4>4. Store!After(tables[k], <<>>) = tables[k]
        BY <2>2, AfterNothing DEF TableOf
      <4> QED
        BY <2>1, <2>2, <4>3, <4>4
    <3>4. k \notin lost' => k \notin lost
      BY <2>1
    <3> QED
      BY <3>1, <3>2, <3>3, <3>4
  <2>6. Follows(s)'
    <3> SUFFICES ASSUME observer[s].pc \in Watching
                 PROVE  /\ next[s] >= 0
                        /\ s \notin missed /\ k \notin lost' =>
                             \A i \in observer[s].ids : observer[s].view[i] = StateOf(Then(s)'[i])
      BY <1>1, <2>1 DEF Follows
    <3>1. /\ next[s] >= 0
          /\ s \notin missed /\ k \notin lost =>
                \A i \in observer[s].ids : observer[s].view[i] = StateOf(Then(s)[i])
      BY <2>3 DEF Follows
    <3>2. next[s] \in 0 .. Len(published[k])
      <4>1. next[s] \in -1 .. sent[KindOf[s]] /\ KindOf[s] = k
        BY StateFacts DEF StoreInv
      <4> QED
        BY <2>2, <3>1, <4>1
    <3>3. SubSeq(published[k] \o Drained(k), 1, next[s]) = SubSeq(published[k], 1, next[s])
      BY <2>2, <3>2, PrefixOfConcat
    <3>4. Then(s)' = Then(s)
      BY <2>1, <2>4, <3>3 DEF Then
    <3>5. k \notin lost' => k \notin lost
      BY <2>1
    <3> QED
      BY <3>1, <3>4, <3>5
  <2> QED
    BY <2>5, <2>6
<1>5. ASSUME NEW s \in Subscribers
      PROVE  ListedFits(s)' /\ Follows(s)'
  <2>1. Commit \/ UNCHANGED <<tables, sent, published, lost, next>>
    BY ZenonT(60) DEF RMWrite, Begin, Remove, Insert, Queue, Rollback, channelVars
  <2> QED
    BY <1>3, <1>4, <2>1
<1> QED
  BY <1>2, <1>5 DEF ObserverInv

----------------------------------------------------------------------------
(* The theorems.                                                            *)

LEMMA IInvInit == Init => IInv
  BY InitStoreInv, InitObserverInv DEF Init, IInv

LEMMA IInvStep == IInv /\ [Next]_vars => IInv'
<1> SUFFICES ASSUME IInv, [Next]_vars PROVE IInv'
  OBVIOUS
<1>1. StoreInv /\ ObserverInv
  BY DEF IInv
<1>2. StoreInv'
  BY <1>1, StoreStep
<1>3. ObserverInv'
  <2>1. CASE UNCHANGED vars
    <3>1. UNCHANGED <<observer, cleo, missed, tables, sent, published, lost, next>>
      BY <2>1 DEF vars, rmVars, obVars, storeVars, channelVars
    <3>2. ObserverTypeOK'
      BY <1>1, <3>1 DEF ObserverInv, ObserverTypeOK
    <3>3. \A s \in Subscribers : ListedFits(s)' /\ Follows(s)'
      BY <1>1, <3>1 DEF ObserverInv, ListedFits, Follows, Then, At
    <3> QED
      BY <3>2, <3>3 DEF ObserverInv
  <2>2. CASE RMWrite /\ UNCHANGED obVars
    BY <1>1, <2>2, WriteKeepsViews
  <2>3. CASE CarlRestart
    BY <1>1, <2>3, CarlRestartInv
  <2>4. ASSUME NEW s \in Subscribers, NEW ids \in SUBSET Ids, NEW m \in BOOLEAN, NEW d \in Durations,
               Wait(s, ids, m, d)
        PROVE  ObserverInv'
    BY <1>1, <2>4, WaitInv
  <2>5. ASSUME NEW s \in Subscribers, Call(s)
        PROVE  ObserverInv'
    BY <1>1, <2>5, ListStatesInv, SubscribeStatesInv, FirstResponseInv, ObserveInv, RespondInv, LeaveInv
       DEF Call
  <2>6. ASSUME NEW s \in Subscribers, Elapse(s) \/ CleoReceive(s) \/ CleoDisconnected(s) \/ CleoStopped(s)
        PROVE  ObserverInv'
    BY <1>1, <2>6, ElapseInv, CleoReceiveInv, CleoDisconnectedInv, CleoStoppedInv
  <2> QED
    BY <2>1, <2>2, <2>3, <2>4, <2>5, <2>6 DEF Next
<1> QED
  BY <1>2, <1>3 DEF IInv

LEMMA EventsAreEvents == ASSUME NEW k \in Kinds PROVE EventOf(k) \subseteq Store!Event
<1>1. ValueOf(k) \subseteq Values
  BY StoreAssumption DEF ValueOf
<1> QED
  BY <1>1 DEF EventOf, Store!Event

LEMMA TablesAreTables == ASSUME NEW t, IsTables(t) PROVE t \in Store!Tables
<1>1. ASSUME NEW k \in Kinds PROVE t[k] \in [Ids -> Values \cup {NoValue}]
  <2>1. ValueOf(k) \subseteq Values /\ t[k] \in TableOf(k)
    BY StoreAssumption DEF ValueOf, IsTables
  <2> QED
    BY <2>1 DEF TableOf
<1> QED
  BY <1>1 DEF IsTables, Store!Tables

LEMMA IInvTypeOK == IInv => TypeOK
<1> SUFFICES ASSUME IInv PROVE TypeOK
  OBVIOUS
<1>1. StoreInv /\ ObserverInv
  BY DEF IInv
<1>2. tables \in Store!Tables
  BY <1>1, StoreFacts, TablesAreTables
<1>3. txn.open => txn.work \in Store!Tables /\ txn.relay \in [Kinds -> Seq(Store!Event)]
  <2> HAVE txn.open
  <2>1. IsTables(txn.work) /\ IsEvents(txn.relay)
    BY <1>1, OpenFacts
  <2>2. ASSUME NEW k \in Kinds PROVE txn.relay[k] \in Seq(Store!Event)
    <3>1. txn.relay[k] \in Seq(EventOf(k)) /\ EventOf(k) \subseteq Store!Event
      BY <2>1, EventsAreEvents DEF IsEvents
    <3> DEFINE E == EventOf(k)
               F == Store!Event
               q == txn.relay[k]
    <3> HIDE DEF E, F, q
    <3>2. q \in Seq(E) /\ E \subseteq F => q \in Seq(F)
      OBVIOUS
    <3> QED
      BY <3>1, <3>2 DEF E, F, q
  <2> QED
    BY <2>1, <2>2, TablesAreTables DEF IsEvents
<1>4. \A k \in Kinds : Len(kept[k]) <= Capacity /\ Len(kept[k]) <= sent[k]
  <2> TAKE k \in Kinds
  <2>1. /\ sent[k] \in Nat /\ Capacity \in Nat
        /\ Len(kept[k]) = IF sent[k] > Capacity THEN Capacity ELSE sent[k]
    BY <1>1, StoreFacts, StoreAssumption DEF Channel
  <2> QED
    BY <2>1
<1> QED
  BY <1>1, <1>2, <1>3, <1>4 DEF TypeOK, RMTypeOK, StoreInv, ObserverInv, ObserverTypeOK

\* What CLEO is told of the awaited peers is what the store said of all of them
\* at one moment, however listing, subscription, transactions and receptions
\* interleave; the state is well typed and no channel exceeds its capacity.
THEOREM ViewsFollowTheStore == Spec => []ObserverFollowsStore
<1>1. IInv => ObserverFollowsStore
  BY IInvTypeOK DEF IInv, ObserverInv, Follows, Then, ObserverFollowsStore
<1> QED
  BY <1>1, IInvInit, IInvStep, PTL DEF Spec

LEMMA InitImplements == RMInit => Store!AbstractInit
<1> SUFFICES ASSUME RMInit PROVE Store!AbstractInit
  OBVIOUS
<1>1. tables \in Store!Tables
  BY DEF RMInit, Store!Tables
<1>2. \A k \in Kinds \ Persistent : tables[k] = Store!EmptyTable
  BY DEF RMInit, Store!EmptyTable
<1>3. Store!Fresh
  BY DEF RMInit, Store!Fresh
<1> QED
  BY <1>1, <1>2, <1>3 DEF Store!AbstractInit

LEMMA CommitImplements == StoreInv /\ Commit => Store!Commit
<1> SUFFICES ASSUME StoreInv, Commit PROVE Store!Commit
  OBVIOUS
<1>1. /\ txn.open /\ tables' = txn.work /\ next' = next
      /\ published' = [k \in Kinds |-> published[k] \o Drained(k)]
      /\ lost' = lost \cup {k \in Kinds : Len(txn.relay[k]) > Capacity}
  BY DEF Commit
<1>2. ASSUME NEW k \in Kinds
      PROVE  /\ Len(published[k]) <= Len(published'[k])
             /\ SubSeq(published'[k], 1, Len(published[k])) = published[k]
             /\ Store!New(k) = Drained(k)
  <2> DEFINE E == EventOf(k)
             a == published[k]
             b == Drained(k)
  <2>1. a \in Seq(E) /\ b \in Seq(E) /\ published'[k] = a \o b /\ Len(a) \in Nat
    BY <1>1, StoreFacts, OpenFacts
  <2> HIDE DEF E, a, b
  <2>2. Len(a) <= Len(a \o b)
    BY <2>1
  <2>3. Len(a) \in 0 .. Len(a)
    BY <2>1
  <2>4. SubSeq(a \o b, 1, Len(a)) = SubSeq(a, 1, Len(a))
    BY <2>1, <2>3, PrefixOfConcat
  <2>5. SubSeq(a, 1, Len(a)) = a
    BY <2>1, SubSeqFull
  <2>6. SubSeq(a \o b, Len(a) + 1, Len(a \o b)) = b
    BY <2>1, SuffixOfConcat
  <2>7. Store!New(k) = SubSeq(published'[k], Len(a) + 1, Len(published'[k]))
    BY DEF Store!New, a
  <2>8. Store!New(k) = b
    BY <2>1, <2>6, <2>7
  <2> QED
    BY <2>1, <2>2, <2>4, <2>5, <2>8 DEF a, b
<1>3. ASSUME NEW k \in Kinds
      PROVE  /\ Len(Store!New(k)) <= Capacity
             /\ IF Store!New(k) = <<>> /\ k \in lost' THEN tables'[k] \in [Ids -> Values \cup {NoValue}]
                ELSE tables'[k] = Store!After(tables[k], Store!New(k)) /\ Store!Truthful(tables[k], Store!New(k))
  <2>1. /\ Len(Drained(k)) <= Capacity /\ txn.work[k] = Store!After(tables[k], txn.relay[k])
        /\ Store!Truthful(tables[k], txn.relay[k]) /\ Store!New(k) = Drained(k)
    BY <1>1, <1>2, OpenFacts
  <2>2. tables'[k] \in [Ids -> Values \cup {NoValue}]
    <3>1. txn.work \in Store!Tables
      BY <1>1, OpenFacts, TablesAreTables
    <3> QED
      BY <1>1, <3>1 DEF Store!Tables
  <2>3. CASE Len(txn.relay[k]) > Capacity
    <3>1. Drained(k) = <<>> /\ k \in lost'
      BY <1>1, <2>3 DEF Drained
    <3> QED
      BY <2>1, <2>2, <3>1
  <2>4. CASE ~ (Len(txn.relay[k]) > Capacity)
    <3>1. Drained(k) = txn.relay[k]
      BY <2>4 DEF Drained
    <3> QED
      BY <1>1, <2>1, <2>2, <3>1
  <2> QED
    BY <2>3, <2>4
<1>4. lost \subseteq lost'
  BY <1>1
<1> QED
  BY <1>1, <1>2, <1>3, <1>4 DEF Store!Commit

LEMMA ReceiveImplements ==
    ASSUME StoreInv, NEW s \in Subscribers, UNCHANGED <<storeVars, channelVars>>, Advance(s)
    PROVE  Store!Receive(s)
<1>1. UNCHANGED <<tables, published, lost>>
  BY DEF storeVars, channelVars
<1> DEFINE behind == Len(published[KindOf[s]]) - next[s]
<1>2. /\ next[s] >= 0 /\ behind > 0
      /\ next' = [next EXCEPT ![s] = IF behind > Capacity THEN next[s] + (behind - Capacity) ELSE next[s] + 1]
  BY AdvanceFacts
<1> QED
  BY <1>1, <1>2 DEF Store!Receive

LEMMA SubscribeImplements ==
    ASSUME StoreInv, NEW s \in Subscribers, UNCHANGED <<storeVars, channelVars>>,
           next' = [next EXCEPT ![s] = sent[KindOf[s]]] \/ next' = [next EXCEPT ![s] = -1]
    PROVE  Store!Subscribe(s)
<1>1. UNCHANGED <<tables, published, lost>>
  BY DEF storeVars, channelVars
<1>2. sent[KindOf[s]] = Len(published[KindOf[s]])
  BY StoreFacts, StoreAssumption
<1>3. \E n \in {Len(published[KindOf[s]]), -1} : next' = [next EXCEPT ![s] = n]
  BY <1>2
<1> QED
  BY <1>1, <1>3 DEF Store!Subscribe

LEMMA RestartImplements == Restart => Store!Restart
<1> SUFFICES ASSUME Restart PROVE Store!Restart
  OBVIOUS
<1>1. PICK t \in {tables, Migrated} :
        tables' = [k \in Kinds |-> IF k \in Persistent THEN t[k] ELSE Store!EmptyTable]
  BY DEF Restart
<1>2. Store!Fresh'
  BY DEF Restart, Store!Fresh
<1>3. /\ \A k \in Kinds \ Persistent : tables'[k] = Store!EmptyTable
      /\ \A k \in Persistent : tables'[k] = t[k]
  BY <1>1, StoreAssumption
<1>4. \/ \A k \in Persistent : tables'[k] = tables[k]
      \/ \A k \in Persistent, i \in Ids :
            IF Legacy[k][i] = NoValue THEN tables'[k][i] = tables[k][i]
            ELSE tables[k][i] = NoValue /\ tables'[k][i] = Legacy[k][i]
  <2>1. CASE t = tables
    BY <1>3, <2>1
  <2>2. CASE t = Migrated
    <3>1. CASE Migrated = tables
      BY <1>3, <2>2, <3>1
    <3>2. CASE \A k \in Persistent :
                 \A i \in Ids :
                    IF Legacy[k][i] = NoValue THEN Migrated[k][i] = tables[k][i]
                    ELSE tables[k][i] = NoValue /\ Migrated[k][i] = Legacy[k][i]
      <4>1. \A k \in Persistent : tables'[k] = Migrated[k]
        BY <1>3, <2>2
      <4> QED
        BY <3>2, <4>1
    <3> QED
      BY <3>1, <3>2, MigratedFacts
  <2> QED
    BY <2>1, <2>2
<1> QED
  BY <1>2, <1>3, <1>4 DEF Store!Restart

\* Every step of CARL and of CLEO is a step of the store or changes nothing of
\* it: a transaction appears at its commit, with all of its events, and not at
\* all if it is rolled back; a receiver gets the events in order and is told
\* where it has lagged; a restart keeps what is persistent.
THEOREM ResourceManagerImplementsStore == Spec => StoreImplemented
<1>1. Init => Store!AbstractInit
  BY InitImplements DEF Init
<1>2. IInv /\ [Next]_vars => [Store!AbstractNext]_<<tables, published, lost, next>>
  <2> SUFFICES ASSUME IInv, [Next]_vars
               PROVE  Store!AbstractNext \/ UNCHANGED <<tables, published, lost, next>>
    OBVIOUS
  <2>1. StoreInv
    BY DEF IInv
  <2>2. CASE RMWrite
    <3>1. Commit \/ UNCHANGED <<tables, published, lost, next>>
      BY <2>2 DEF RMWrite, Begin, Remove, Insert, Queue, Rollback, channelVars
    <3> QED
      BY <2>1, <3>1, CommitImplements DEF Store!AbstractNext
  <2>3. CASE Restart
    BY <2>3, RestartImplements DEF Store!AbstractNext
  <2>4. CASE UNCHANGED rmVars
    BY <2>4 DEF rmVars, storeVars, channelVars
  <2>5. ASSUME NEW s \in Subscribers,
               \/ Subscribe(s)
               \/ /\ UNCHANGED <<storeVars, channelVars>>
                  /\ Advance(s) \/ next' = [next EXCEPT ![s] = -1]
        PROVE  Store!AbstractNext
    BY <2>1, <2>5, SubscribeImplements, ReceiveImplements DEF Subscribe, Store!AbstractNext
  <2> QED
    BY <2>2, <2>3, <2>4, <2>5, StepKinds
<1> QED
  BY <1>1, <1>2, IInvInit, IInvStep, PTL DEF Spec, StoreImplemented, Store!AbstractSpec
=============================================================================
