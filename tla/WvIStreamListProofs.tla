------------------------ MODULE WvIStreamListProofs ------------------------
(***************************************************************************)
(* Proofs about WvIStreamList: for any streams and any program, reference  *)
(* counts are right and nothing refers to a stream that is gone, a stream  *)
(* that was taken off the list before its turn is not called, and no alarm *)
(* goes off early.                                                         *)
(*                                                                         *)
(* Most actions drop references, which may start destructors, so the       *)
(* invariant of a stream (Sound) takes the state as arguments and counts e *)
(* references that are about to be dropped: an action leaves every stream  *)
(* Sound with those, and ReleaseSound says that dropping them leaves it    *)
(* Sound without.                                                          *)
(***************************************************************************)
EXTENDS WvIStreamList, SequenceTheorems, WellFoundedInduction, FiniteSetTheorems, TLAPS

\* Every set of naturals has a least element.
LEMMA LeastNatural ==
    ASSUME NEW T, T \subseteq Nat, T # {}
    PROVE  \E x \in T : \A y \in T : x <= y
  <1> DEFINE R == OpToRel(<, Nat)
  <1>1. IsWellFoundedOn(R, Nat)
    BY NatLessThanWellFounded, Zenon
  <1>2. \A a, b \in Nat : a < b => <<a, b>> \in R
    BY DEF OpToRel
  <1> HIDE DEF R
  <1>3. PICK x \in T : \A y \in T : ~(<<y, x>> \in R)
    BY <1>1, WFMin
  <1>4. ASSUME NEW y \in T PROVE x <= y
    <2>1. x \in Nat /\ y \in Nat /\ <<y, x>> \notin R
      BY <1>3
    <2>2. ~(y < x)
      BY <1>2, <2>1
    <2> QED BY <2>1, <2>2
  <1> QED BY <1>4

\* Types.
Kinds == {"select", "execute", "callback", "destroy", "finish"}
OfStream == {"callback", "destroy", "finish"}
FrameRec == {f \in [kind : Kinds, stream : Streams \cup {None}, timeout : Int] :
                f.kind \in OfStream => f.stream \in Streams}
LinkRec == [stream : Streams, autofree : BOOLEAN]

\* What a list L, a sure_thing Q and a stack st have of a stream.
On(L, s) == \E i \in 1..Len(L) : L[i].stream = s
OwnedBy(L, s) == \E i \in 1..Len(L) : L[i].stream = s /\ L[i].autofree
CallsOf(st, s) == {i \in 1..Len(st) : st[i].kind = "callback" /\ st[i].stream = s}
Has(st, kind, s) == \E i \in 1..Len(st) : st[i].kind = kind /\ st[i].stream = s

Types ==
    /\ obj \in [Streams -> Stream] /\ list \in Seq(LinkRec) /\ sure \in Seq(Streams)
    /\ stack \in Seq(FrameRec) /\ clock \in Int /\ wvstime \in Int /\ budget \in Nat

\* A stream is on a list once.
Distinct(q) == \A i, j \in 1..Len(q) : q[i] = q[j] => i = j
DistinctLinks(L) == \A i, j \in 1..Len(L) : L[i].stream = L[j].stream => i = j

\* Above a select(), a destructor and a function that is run to its end there are
\* only destructors and such functions, and above the latter nothing.
Final == {"select", "destroy", "finish"}
Nested(st) ==
    \A i, j \in 1..Len(st) : i < j /\ st[i].kind \in Final =>
        st[i].kind # "finish" /\ st[j].kind \in {"destroy", "finish"}

\* A select() has zapped sure_thing.
Zapped(st, Q) == (\E i \in 1..Len(st) : st[i].kind = "select") => Q = << >>

\* The references to a stream: e more than the program, the list, sure_thing and the
\* calls under way have.
Counted(s, x, L, Q, st, e) ==
    x.refs = One(x.held) + One(OwnedBy(L, s)) + One(Contains(Q, s)) + Cardinality(CallsOf(st, s)) + e

\* A stream without references is being destroyed or gone.
Dead(s, x, L, st) ==
    /\ Has(st, "destroy", s) => x.refs = 0
    /\ x.refs = 0 /\ ~Has(st, "destroy", s) => ~On(L, s) /\ x.call_ctx = "null"
    /\ Has(st, "finish", s) => x.call_ctx = "finishing"

\* An alarm that is not stale has at least the time left that wvstime has not yet
\* gone forward; the correction for a clock that went back is yet to be made when
\* last_alarm_check is ahead of w.
Timely(x, w) ==
    /\ ~x.early
    /\ x.alarm_time # None /\ ~x.stale /\ x.waited < x.delay =>
          x.alarm_time - Larger(x.last_alarm_check, w) >= x.delay - x.waited

Sound(s, x, L, Q, st, w, e) ==
    /\ Counted(s, x, L, Q, st, e)
    /\ Dead(s, x, L, st)
    /\ Contains(Q, s) => On(L, s) \/ x.closed
    /\ Timely(x, w)

\* The inductive invariant.
ListInv ==
    /\ Types
    /\ DistinctLinks(list) /\ Distinct(sure) /\ Nested(stack) /\ Zapped(stack, sure)
    /\ \A s \in Streams : Sound(s, obj[s], list, sure, stack, wvstime, 0)

-----------------------------------------------------------------------------
(* Sequences.                                                              *)

\* A sequence with one more element.
LEMMA AppendFacts ==
    ASSUME NEW S, NEW q \in Seq(S), NEW x \in S, NEW p, p = Append(q, x)
    PROVE  /\ p \in Seq(S) /\ Len(q) \in Nat /\ Len(p) = Len(q) + 1
           /\ \A i \in 1..Len(q) : p[i] = q[i] /\ i \in 1..Len(p)
           /\ p[Len(p)] = x /\ Len(p) \in 1..Len(p)
           /\ \A i \in 1..Len(p) : i \in 1..Len(q) \/ i = Len(p)
  <1>1. /\ p \in Seq(S) /\ Len(p) = Len(q) + 1 /\ p[Len(q) + 1] = x
        /\ \A i \in 1..Len(q) : p[i] = q[i]
    BY AppendProperties
  <1>2. Len(q) \in Nat
    OBVIOUS
  <1> QED BY <1>1, <1>2

\* A sequence without its last element.
LEMMA FrontFacts ==
    ASSUME NEW S, NEW q \in Seq(S), q # << >>, NEW p, p = Front(q)
    PROVE  /\ p \in Seq(S) /\ Len(q) \in Nat /\ Len(p) = Len(q) - 1 /\ Len(q) \in 1..Len(q)
           /\ \A i \in 1..Len(p) : p[i] = q[i] /\ i \in 1..Len(q) /\ i < Len(q)
           /\ \A i \in 1..Len(q) : i \in 1..Len(p) \/ i = Len(q)
  <1>1. PICK l \in Nat : Len(q) = l
    OBVIOUS
  <1>2. l # 0
    BY <1>1
  <1>3. l - 1 \in Int /\ \A i \in 1..(l - 1) : q[i] \in S
    BY <1>1
  <1>4. PICK r : r = SubSeq(q, 1, l - 1)
    OBVIOUS
  <1>5. /\ r \in Seq(S) /\ Len(r) = (IF 1 <= l - 1 THEN (l - 1) - 1 + 1 ELSE 0)
        /\ \A i \in 1..((l - 1) - 1 + 1) : r[i] = q[1 + i - 1]
    BY <1>3, <1>4, SubSeqProperties
  <1>6. (l - 1) - 1 + 1 = l - 1 /\ \A i \in 1..(l - 1) : 1 + i - 1 = i
    OBVIOUS
  <1>7. r \in Seq(S) /\ Len(r) = l - 1 /\ \A i \in 1..(l - 1) : r[i] = q[i]
    BY <1>2, <1>5, <1>6
  <1>8. p = r
    BY <1>1, <1>4 DEF Front
  <1> QED BY <1>1, <1>2, <1>7, <1>8

\* A sequence followed by another one.
LEMMA ConcatFacts ==
    ASSUME NEW S, NEW q \in Seq(S), NEW r \in Seq(S), NEW p, p = q \o r
    PROVE  /\ p \in Seq(S) /\ Len(q) \in Nat /\ Len(r) \in Nat /\ Len(p) = Len(q) + Len(r)
           /\ \A i \in 1..Len(q) : p[i] = q[i] /\ i \in 1..Len(p)
           /\ \A i \in 1..Len(r) : p[Len(q) + i] = r[i] /\ Len(q) + i \in 1..Len(p)
           /\ \A i \in 1..Len(p) : i \in 1..Len(q) \/ (i - Len(q) \in 1..Len(r) /\ p[i] = r[i - Len(q)])
  <1>1. PICK l \in Nat, m \in Nat : Len(q) = l /\ Len(r) = m
    OBVIOUS
  <1>2. /\ p \in Seq(S) /\ Len(p) = l + m
        /\ \A i \in 1..(l + m) : p[i] = IF i <= l THEN q[i] ELSE r[i - l]
    BY <1>1, ConcatProperties
  <1>3. \A i \in 1..l : p[i] = q[i] /\ i \in 1..(l + m)
    BY <1>2
  <1>4. ASSUME NEW i \in 1..m PROVE p[l + i] = r[i] /\ l + i \in 1..(l + m)
    <2>1. l + i \in 1..(l + m) /\ ~(l + i <= l) /\ (l + i) - l = i
      OBVIOUS
    <2> QED BY <1>2, <2>1
  <1>5. ASSUME NEW i \in 1..(l + m), i \notin 1..l PROVE i - l \in 1..m /\ p[i] = r[i - l]
    <2>1. i - l \in 1..m /\ ~(i <= l)
      BY <1>5
    <2> QED BY <1>2, <2>1
  <1> QED BY <1>1, <1>2, <1>3, <1>4, <1>5

\* r has the elements of q at the places I, and no others.
Selected(q, I, r) ==
    /\ Len(r) \in Nat
    /\ \A n \in 1..Len(r) : \E i \in I : r[n] = q[i]
    /\ \A i \in I : \E n \in 1..Len(r) : r[n] = q[i]

\* Place() numbers the places of I.
LEMMA PlacesFacts ==
    ASSUME NEW l \in Nat, NEW I \in SUBSET (1..l)
    PROVE  /\ IsFiniteSet(I) /\ Cardinality(I) \in Nat
           /\ \A i \in I : Place(I, i) \in 1..Cardinality(I)
           /\ \A i, j \in I : Place(I, i) = Place(I, j) => i = j
           /\ \A n \in 1..Cardinality(I) : \E i \in I : Place(I, i) = n
  <1>1. IsFiniteSet(1..l)
    BY FS_Interval
  <1>2. IsFiniteSet(I)
    BY <1>1, FS_Subset
  <1>3. Cardinality(I) \in Nat
    BY <1>2, FS_CardinalityType
  <1> DEFINE B(i) == {j \in I : j <= i}
  <1>4. ASSUME NEW i \in I PROVE IsFiniteSet(B(i)) /\ Cardinality(B(i)) \in 1..Cardinality(I)
    <2>1. B(i) \in SUBSET I
      OBVIOUS
    <2>2. IsFiniteSet(B(i)) /\ Cardinality(B(i)) <= Cardinality(I)
      BY <1>2, <2>1, FS_Subset
    <2>3. Cardinality(B(i)) \in Nat
      BY <2>2, FS_CardinalityType
    <2>4. i \in Nat
      OBVIOUS
    <2>5. i \in B(i)
      BY <2>4
    <2>6. B(i) # {}
      BY <2>5
    <2> HIDE DEF B
    <2>7. Cardinality(B(i)) # 0
      BY <2>2, <2>6, FS_EmptySet
    <2> QED BY <1>3, <2>2, <2>3, <2>7
  <1>5. ASSUME NEW i \in I, NEW j \in I, i < j PROVE Cardinality(B(i)) # Cardinality(B(j))
    <2>1. i \in Nat /\ j \in Nat
      OBVIOUS
    <2>2. B(i) \in SUBSET B(j)
      <3>1. ASSUME NEW x \in B(i) PROVE x \in B(j)
        <4>1. x \in I /\ x \in Nat /\ x <= i
          OBVIOUS
        <4>2. x <= j
          BY <1>5, <2>1, <4>1
        <4> QED BY <4>1, <4>2
      <3> QED BY <3>1
    <2>3. j \in B(j) /\ j \notin B(i)
      BY <1>5, <2>1
    <2>4. B(i) # B(j)
      BY <2>3
    <2>5. IsFiniteSet(B(j))
      BY <1>4
    <2> HIDE DEF B
    <2> QED BY <2>2, <2>4, <2>5, FS_Subset
  <1>6. \A i \in I : Place(I, i) = Cardinality(B(i))
    BY DEF Place
  <1> HIDE DEF B
  <1>7. \A i \in I : Place(I, i) \in 1..Cardinality(I)
    BY <1>4, <1>6
  <1>8. ASSUME NEW i \in I, NEW j \in I, Place(I, i) = Place(I, j) PROVE i = j
    <2>1. i \in Nat /\ j \in Nat
      OBVIOUS
    <2>2. ~(i < j) /\ ~(j < i)
      BY <1>5, <1>6, <1>8
    <2> QED BY <2>1, <2>2
  <1>9. PICK T : T = 1..Cardinality(I)
    OBVIOUS
  <1>10. IsFiniteSet(T) /\ Cardinality(T) = Cardinality(I)
    <2>1. PICK n \in Nat : Cardinality(I) = n
      BY <1>3
    <2>2. IsFiniteSet(1..n) /\ Cardinality(1..n) = IF 1 > n THEN 0 ELSE n - 1 + 1
      BY FS_Interval
    <2> QED BY <1>9, <2>1, <2>2
  <1>11. PICK f : f = [i \in I |-> Place(I, i)]
    OBVIOUS
  <1>12. f \in Injection(I, T)
    <2>1. f \in [I -> T]
      BY <1>7, <1>9, <1>11
    <2>2. \A i, j \in I : f[i] = f[j] => i = j
      BY <1>8, <1>11
    <2> QED BY <2>1, <2>2 DEF Injection, IsInjective
  <1>13. f \in Surjection(I, T)
    BY <1>10, <1>12, FS_Injection
  <1>14. \A n \in T : \E i \in I : f[i] = n
    BY <1>13 DEF Surjection
  <1>15. \A n \in T : \E i \in I : Place(I, i) = n
    BY <1>11, <1>14
  <1> QED BY <1>2, <1>3, <1>7, <1>8, <1>9, <1>15

\* Subsequence() selects, and keeps elements apart that were.
LEMMA SubsequenceFacts ==
    ASSUME NEW S, NEW q \in Seq(S), NEW I \in SUBSET (1..Len(q)), NEW r, r = Subsequence(q, I)
    PROVE  r \in Seq(S) /\ Selected(q, I, r) /\ (Distinct(q) => Distinct(r))
  <1>1. PICK l \in Nat : Len(q) = l
    OBVIOUS
  <1>2. /\ Cardinality(I) \in Nat
        /\ \A i \in I : Place(I, i) \in 1..Cardinality(I)
        /\ \A i, j \in I : Place(I, i) = Place(I, j) => i = j
        /\ \A n \in 1..Cardinality(I) : \E i \in I : Place(I, i) = n
    BY <1>1, PlacesFacts
  <1>3. PICK m \in Nat : Cardinality(I) = m
    BY <1>2
  <1> DEFINE At(n) == CHOOSE i \in I : Place(I, i) = n
  <1>4. \A n \in 1..m : At(n) \in I /\ Place(I, At(n)) = n
    BY <1>2, <1>3
  <1>5. r = [n \in 1..m |-> q[At(n)]]
    BY <1>3 DEF Subsequence
  <1> HIDE DEF At
  <1>6. \A i \in I : q[i] \in S /\ i \in 1..Len(q)
    BY <1>1
  <1>7. r \in [1..m -> S]
    BY <1>4, <1>5, <1>6
  <1>8. r \in Seq(S) /\ Len(r) = m
    BY <1>7
  <1>9. \A n \in 1..m : r[n] = q[At(n)]
    BY <1>5
  <1>10. ASSUME NEW i \in I PROVE \E n \in 1..m : r[n] = q[i]
    <2>1. PICK n \in 1..m : n = Place(I, i)
      BY <1>2, <1>3
    <2>2. At(n) = i
      BY <1>2, <1>4, <2>1
    <2> QED BY <1>9, <2>2
  <1>11. Selected(q, I, r)
    BY <1>4, <1>8, <1>9, <1>10 DEF Selected
  <1>12. ASSUME Distinct(q), NEW n \in 1..m, NEW k \in 1..m, r[n] = r[k] PROVE n = k
    <2>1. q[At(n)] = q[At(k)] /\ At(n) \in 1..Len(q) /\ At(k) \in 1..Len(q)
      BY <1>4, <1>6, <1>9, <1>12
    <2>2. At(n) = At(k)
      BY <1>12, <2>1 DEF Distinct
    <2> QED BY <1>4, <2>2
  <1> QED BY <1>8, <1>11, <1>12 DEF Distinct

\* The same of a list: if each stream is on it once, it is on the selection once.
LEMMA SelectedLinks ==
    ASSUME NEW L \in Seq(LinkRec), NEW I \in SUBSET (1..Len(L)), NEW r, r = Subsequence(L, I), DistinctLinks(L)
    PROVE  r \in Seq(LinkRec) /\ Selected(L, I, r) /\ DistinctLinks(r)
  <1>1. Distinct(L)
    BY DEF Distinct, DistinctLinks
  <1>2. r \in Seq(LinkRec) /\ Selected(L, I, r) /\ Distinct(r)
    BY <1>1, SubsequenceFacts
  <1>3. ASSUME NEW m \in 1..Len(r), NEW n \in 1..Len(r), r[m].stream = r[n].stream PROVE m = n
    <2>1. PICK i \in I, j \in I : r[m] = L[i] /\ r[n] = L[j]
      BY <1>2 DEF Selected
    <2>2. i \in 1..Len(L) /\ j \in 1..Len(L) /\ L[i].stream = L[j].stream
      BY <1>3, <2>1
    <2>3. i = j
      BY <2>2 DEF DistinctLinks
    <2>4. r[m] = r[n]
      BY <2>1, <2>3
    <2> QED BY <1>2, <2>4 DEF Distinct
  <1> QED BY <1>2, <1>3 DEF DistinctLinks

\* unlink() takes one stream off a list, and leaves the others.
LEMMA WithoutFacts ==
    ASSUME NEW L \in Seq(LinkRec), DistinctLinks(L), NEW s, NEW r, r = Without(L, s)
    PROVE  /\ r \in Seq(LinkRec) /\ DistinctLinks(r) /\ ~On(r, s) /\ ~OwnedBy(r, s)
           /\ \A t : t # s => (On(r, t) <=> On(L, t)) /\ (OwnedBy(r, t) <=> OwnedBy(L, t))
  <1>1. PICK I : I = {i \in 1..Len(L) : L[i].stream # s}
    OBVIOUS
  <1>2. I \in SUBSET (1..Len(L)) /\ r = Subsequence(L, I)
    <2>1. DOMAIN L = 1..Len(L)
      OBVIOUS
    <2> QED BY <1>1, <2>1 DEF Without
  <1>3. r \in Seq(LinkRec) /\ Selected(L, I, r) /\ DistinctLinks(r)
    BY <1>2, SelectedLinks
  <1>4. \A n \in 1..Len(r) : \E i \in I : r[n] = L[i]
    BY <1>3 DEF Selected
  <1>5. \A i \in I : \E n \in 1..Len(r) : r[n] = L[i]
    BY <1>3 DEF Selected
  <1>6. ~On(r, s) /\ ~OwnedBy(r, s)
    BY <1>1, <1>4 DEF On, OwnedBy
  <1>7. ASSUME NEW t, t # s PROVE (On(r, t) <=> On(L, t)) /\ (OwnedBy(r, t) <=> OwnedBy(L, t))
    <2>1. \A i \in 1..Len(L) : L[i].stream = t => i \in I
      BY <1>1, <1>7
    <2>2. \A i \in I : i \in 1..Len(L)
      BY <1>2
    <2>3. ASSUME NEW n \in 1..Len(r) PROVE \E i \in 1..Len(L) : L[i] = r[n]
      BY <1>4, <2>2
    <2>4. ASSUME NEW i \in 1..Len(L), L[i].stream = t PROVE \E n \in 1..Len(r) : r[n] = L[i]
      BY <1>5, <2>1, <2>4
    <2>5. On(r, t) => On(L, t)
      BY <2>3 DEF On
    <2>6. On(L, t) => On(r, t)
      BY <2>4 DEF On
    <2>7. OwnedBy(r, t) => OwnedBy(L, t)
      BY <2>3 DEF OwnedBy
    <2>8. OwnedBy(L, t) => OwnedBy(r, t)
      BY <2>4 DEF OwnedBy
    <2> QED BY <2>5, <2>6, <2>7, <2>8
  <1> QED BY <1>3, <1>6, <1>7

\* The same of sure_thing.
LEMMA SureWithoutFacts ==
    ASSUME NEW q \in Seq(Streams), Distinct(q), NEW s, NEW r, r = SureWithout(q, s)
    PROVE  /\ r \in Seq(Streams) /\ Distinct(r) /\ ~Contains(r, s)
           /\ \A t : t # s => (Contains(r, t) <=> Contains(q, t))
  <1>1. PICK I : I = {i \in 1..Len(q) : q[i] # s}
    OBVIOUS
  <1>2. I \in SUBSET (1..Len(q)) /\ r = Subsequence(q, I)
    <2>1. DOMAIN q = 1..Len(q)
      OBVIOUS
    <2> QED BY <1>1, <2>1 DEF SureWithout
  <1>3. r \in Seq(Streams) /\ Selected(q, I, r) /\ Distinct(r)
    BY <1>2, SubsequenceFacts
  <1>4. \A n \in 1..Len(r) : \E i \in I : r[n] = q[i]
    BY <1>3 DEF Selected
  <1>5. \A i \in I : \E n \in 1..Len(r) : r[n] = q[i]
    BY <1>3 DEF Selected
  <1>6. ~Contains(r, s)
    BY <1>1, <1>4 DEF Contains
  <1>7. ASSUME NEW t, t # s PROVE Contains(r, t) <=> Contains(q, t)
    <2>1. \A i \in 1..Len(q) : q[i] = t => i \in I
      BY <1>1, <1>7
    <2>2. \A i \in I : i \in 1..Len(q)
      BY <1>2
    <2>3. ASSUME NEW n \in 1..Len(r) PROVE \E i \in 1..Len(q) : q[i] = r[n]
      BY <1>4, <2>2
    <2>4. ASSUME NEW i \in 1..Len(q), q[i] = t PROVE \E n \in 1..Len(r) : r[n] = q[i]
      BY <1>5, <2>1, <2>4
    <2>5. Contains(r, t) => Contains(q, t)
      BY <2>3 DEF Contains
    <2>6. Contains(q, t) => Contains(r, t)
      BY <2>4 DEF Contains
    <2> QED BY <2>5, <2>6
  <1> QED BY <1>3, <1>6, <1>7

-----------------------------------------------------------------------------
(* The stack.                                                              *)

\* The frames of kind and stream of a stack.
Pushed(p, st, f, s) ==
    /\ f.kind = "callback" /\ f.stream = s =>
          CallsOf(p, s) = CallsOf(st, s) \cup {Len(p)} /\ Len(p) \notin CallsOf(st, s)
    /\ ~(f.kind = "callback" /\ f.stream = s) => CallsOf(p, s) = CallsOf(st, s)
    /\ Has(p, "destroy", s) <=> Has(st, "destroy", s) \/ (f.kind = "destroy" /\ f.stream = s)
    /\ Has(p, "finish", s) <=> Has(st, "finish", s) \/ (f.kind = "finish" /\ f.stream = s)

LEMMA PushCounts ==
    ASSUME NEW st \in Seq(FrameRec), NEW f \in FrameRec, NEW p, p = Append(st, f), NEW s
    PROVE  Pushed(p, st, f, s)
  <1>1. /\ p \in Seq(FrameRec) /\ Len(st) \in Nat /\ Len(p) = Len(st) + 1
        /\ \A i \in 1..Len(st) : p[i] = st[i] /\ i \in 1..Len(p)
        /\ p[Len(p)] = f /\ Len(p) \in 1..Len(p)
        /\ \A i \in 1..Len(p) : i \in 1..Len(st) \/ i = Len(p)
    BY AppendFacts
  <1>2. ASSUME NEW i PROVE i \in CallsOf(p, s) <=>
              i \in CallsOf(st, s) \/ (i = Len(p) /\ f.kind = "callback" /\ f.stream = s)
    BY <1>1 DEF CallsOf
  <1>3. ASSUME NEW kind PROVE Has(p, kind, s) <=> Has(st, kind, s) \/ (f.kind = kind /\ f.stream = s)
    BY <1>1 DEF Has
  <1>4. Len(p) \notin CallsOf(st, s)
    BY <1>1 DEF CallsOf
  <1> QED BY <1>2, <1>3, <1>4 DEF Pushed

LEMMA PopCounts ==
    ASSUME NEW st \in Seq(FrameRec), st # << >>, NEW p, p = Front(st), NEW s
    PROVE  /\ CallsOf(p, s) = CallsOf(st, s) \ {Len(st)}
           /\ Has(st, "destroy", s) <=> Has(p, "destroy", s) \/ (st[Len(st)].kind = "destroy" /\ st[Len(st)].stream = s)
           /\ Has(st, "finish", s) <=> Has(p, "finish", s) \/ (st[Len(st)].kind = "finish" /\ st[Len(st)].stream = s)
  <1>1. /\ p \in Seq(FrameRec) /\ Len(st) \in Nat /\ Len(p) = Len(st) - 1 /\ Len(st) \in 1..Len(st)
        /\ \A i \in 1..Len(p) : p[i] = st[i] /\ i \in 1..Len(st) /\ i < Len(st)
        /\ \A i \in 1..Len(st) : i \in 1..Len(p) \/ i = Len(st)
    BY FrontFacts
  <1>2. ASSUME NEW i PROVE i \in CallsOf(p, s) <=> i \in CallsOf(st, s) /\ i # Len(st)
    BY <1>1 DEF CallsOf
  <1>3. ASSUME NEW kind
        PROVE Has(st, kind, s) <=> Has(p, kind, s) \/ (st[Len(st)].kind = kind /\ st[Len(st)].stream = s)
    BY <1>1 DEF Has
  <1> QED BY <1>2, <1>3

\* Calls under way are finitely many.
LEMMA CallsFinite ==
    ASSUME NEW st \in Seq(FrameRec), NEW s
    PROVE  IsFiniteSet(CallsOf(st, s)) /\ Cardinality(CallsOf(st, s)) \in Nat
  <1>1. PICK l \in Nat : Len(st) = l
    OBVIOUS
  <1>2. IsFiniteSet(1..l)
    BY FS_Interval
  <1>3. CallsOf(st, s) \in SUBSET (1..l)
    BY <1>1 DEF CallsOf
  <1>4. IsFiniteSet(CallsOf(st, s))
    BY <1>2, <1>3, FS_Subset
  <1> QED BY <1>4, FS_CardinalityType

-----------------------------------------------------------------------------
(* release().                                                              *)

\* The frames that start the destructors.
LEMMA FrameFacts ==
    ASSUME NEW kind \in Kinds, NEW s \in Streams \cup {None}, kind \in OfStream => s \in Streams
    PROVE  /\ Frame(kind, s) \in FrameRec /\ Frame(kind, s).kind = kind /\ Frame(kind, s).stream = s
  BY DEF Frame, FrameRec

LEMMA DestructorsFacts ==
    ASSUME NEW o, NEW q \in Seq(Streams), NEW D, D = Destructors(o, q)
    PROVE  /\ D \in Seq(FrameRec)
           /\ \A i \in 1..Len(D) :
                 D[i].kind = "destroy" /\ Contains(q, D[i].stream) /\ o[D[i].stream].refs = 1
           /\ \A s : Contains(q, s) /\ o[s].refs = 1 => \E i \in 1..Len(D) : D[i].stream = s
  <1>1. PICK I : I = {i \in 1..Len(q) : o[q[i]].refs = 1}
    OBVIOUS
  <1>2. PICK r : r = Dying(o, q)
    OBVIOUS
  <1>3. I \in SUBSET (1..Len(q)) /\ r = Subsequence(q, I)
    <2>1. DOMAIN q = 1..Len(q)
      OBVIOUS
    <2> QED BY <1>1, <1>2, <2>1 DEF Dying
  <1>4. r \in Seq(Streams) /\ Selected(q, I, r)
    BY <1>3, SubsequenceFacts
  <1>5. PICK m \in Nat : Len(r) = m
    BY <1>4
  <1>6. \A i \in 1..m : r[i] \in Streams /\ Contains(q, r[i]) /\ o[r[i]].refs = 1
    <2>1. ASSUME NEW i \in 1..m PROVE Contains(q, r[i]) /\ o[r[i]].refs = 1
      <3>1. PICK j \in I : r[i] = q[j]
        BY <1>4, <1>5 DEF Selected
      <3> QED BY <1>1, <3>1 DEF Contains
    <2> QED BY <1>4, <1>5, <2>1
  <1>7. D = [i \in 1..m |-> Frame("destroy", r[(m - i) + 1])]
    BY <1>2, <1>5 DEF Destructors, Reverse
  <1>8. \A i \in 1..m : (m - i) + 1 \in 1..m
    OBVIOUS
  <1>9. PICK kind \in Kinds : kind = "destroy"
    BY DEF Kinds
  <1>10. \A i \in 1..m : /\ D[i] = Frame(kind, r[(m - i) + 1])
                         /\ D[i] \in FrameRec /\ D[i].kind = kind /\ D[i].stream = r[(m - i) + 1]
    BY <1>6, <1>7, <1>8, <1>9, FrameFacts
  <1>11. D \in [1..m -> FrameRec]
    BY <1>7, <1>9, <1>10
  <1>12. D \in Seq(FrameRec) /\ Len(D) = m
    BY <1>11
  <1>13. ASSUME NEW s, Contains(q, s), o[s].refs = 1 PROVE \E i \in 1..m : D[i].stream = s
    <2>1. PICK j \in 1..Len(q) : q[j] = s
      BY <1>13 DEF Contains
    <2>2. j \in I
      BY <1>1, <1>13, <2>1
    <2>3. PICK n \in 1..m : r[n] = s
      BY <1>4, <1>5, <2>1, <2>2 DEF Selected
    <2>4. (m - n) + 1 \in 1..m /\ (m - ((m - n) + 1)) + 1 = n
      OBVIOUS
    <2> QED BY <1>10, <2>3, <2>4
  <1> QED BY <1>6, <1>8, <1>9, <1>10, <1>12, <1>13

\* A stack on top of another one.
LEMMA StackConcat ==
    ASSUME NEW st \in Seq(FrameRec), NEW D \in Seq(FrameRec), NEW p, p = st \o D
    PROVE  /\ p \in Seq(FrameRec) /\ Len(st) \in Nat /\ Len(D) \in Nat /\ Len(p) = Len(st) + Len(D)
           /\ \A i \in 1..Len(st) : p[i] = st[i] /\ i \in 1..Len(p)
           /\ \A i \in 1..Len(D) : p[Len(st) + i] = D[i] /\ Len(st) + i \in 1..Len(p)
           /\ \A i \in 1..Len(p) : i \in 1..Len(st) \/ (i - Len(st) \in 1..Len(D) /\ p[i] = D[i - Len(st)])
  BY ConcatFacts

\* Destructors on top of a stack.
AllDestroy(D) == \A i \in 1..Len(D) : D[i].kind = "destroy"

Ending(D, s) == \E i \in 1..Len(D) : D[i].stream = s

LEMMA DestructorsCounts ==
    ASSUME NEW st \in Seq(FrameRec), NEW D \in Seq(FrameRec), AllDestroy(D),
           NEW p, p = st \o D, NEW s
    PROVE  /\ CallsOf(p, s) = CallsOf(st, s)
           /\ Has(p, "destroy", s) <=> Has(st, "destroy", s) \/ Ending(D, s)
           /\ Has(p, "finish", s) <=> Has(st, "finish", s)
  <1>1. /\ p \in Seq(FrameRec) /\ Len(st) \in Nat /\ Len(D) \in Nat /\ Len(p) = Len(st) + Len(D)
        /\ \A i \in 1..Len(st) : p[i] = st[i] /\ i \in 1..Len(p)
        /\ \A i \in 1..Len(D) : p[Len(st) + i] = D[i] /\ Len(st) + i \in 1..Len(p)
        /\ \A i \in 1..Len(p) : i \in 1..Len(st) \/ (i - Len(st) \in 1..Len(D) /\ p[i] = D[i - Len(st)])
    BY StackConcat
  <1>2. \A i \in 1..Len(p) : i \in 1..Len(st) \/ p[i].kind = "destroy"
    BY <1>1 DEF AllDestroy
  <1>3. ASSUME NEW i PROVE i \in CallsOf(p, s) <=> i \in CallsOf(st, s)
    BY <1>1, <1>2 DEF CallsOf
  <1>4. ASSUME NEW kind, Has(p, kind, s)
        PROVE  Has(st, kind, s) \/ (kind = "destroy" /\ \E i \in 1..Len(D) : D[i].stream = s)
    <2>1. PICK i \in 1..Len(p) : p[i].kind = kind /\ p[i].stream = s
      BY <1>4 DEF Has
    <2>2. CASE i \in 1..Len(st)
      BY <1>1, <2>1, <2>2 DEF Has
    <2>3. CASE i \notin 1..Len(st)
      <3>1. PICK j \in 1..Len(D) : p[i] = D[j]
        BY <1>1, <2>3
      <3>2. p[i].kind = "destroy" /\ D[j].stream = s
        BY <2>1, <3>1 DEF AllDestroy
      <3> QED BY <2>1, <3>2
    <2> QED BY <2>2, <2>3
  <1>5. ASSUME NEW kind, Has(st, kind, s) PROVE Has(p, kind, s)
    BY <1>1, <1>5 DEF Has
  <1>6. ASSUME NEW i \in 1..Len(D), D[i].stream = s PROVE Has(p, "destroy", s)
    <2>1. PICK j \in 1..Len(p) : p[j] = D[i]
      BY <1>1
    <2>2. p[j].kind = "destroy" /\ p[j].stream = s
      BY <1>6, <2>1 DEF AllDestroy
    <2> QED BY <2>2 DEF Has
  <1>7. Has(p, "destroy", s) <=> Has(st, "destroy", s) \/ Ending(D, s)
    BY <1>4, <1>5, <1>6 DEF Ending
  <1>8. Has(p, "finish", s) <=> Has(st, "finish", s)
    BY <1>4, <1>5
  <1> QED BY <1>3, <1>7, <1>8

\* A stream after its reference, if q has one, is dropped.
LEMMA ReleasedOne ==
    ASSUME NEW o \in [Streams -> Stream], NEW q, NEW s \in Streams,
           Contains(q, s) => o[s].refs >= 1, NEW y, y = Released(o, q)[s]
    PROVE  /\ y \in Stream /\ y.refs = o[s].refs - One(Contains(q, s))
           /\ y.held = o[s].held /\ y.closed = o[s].closed /\ y.ready = o[s].ready /\ y.call_ctx = o[s].call_ctx
           /\ y.alarm_time = o[s].alarm_time /\ y.last_alarm_check = o[s].last_alarm_check
           /\ y.delay = o[s].delay /\ y.waited = o[s].waited /\ y.stale = o[s].stale /\ y.early = o[s].early
  <1>1. PICK x \in Stream : x = o[s]
    OBVIOUS
  <1>2. y = IF Contains(q, s) THEN [x EXCEPT !.refs = x.refs - 1] ELSE x
    BY <1>1 DEF Released
  <1>3. CASE Contains(q, s)
    <2>1. x.refs \in Nat /\ x.refs >= 1
      BY <1>1, <1>3 DEF Stream
    <2>2. PICK n \in Nat : n = x.refs - 1
      BY <2>1
    <2>3. y = [x EXCEPT !.refs = n]
      BY <1>2, <1>3, <2>2
    <2>4. y \in Stream /\ y.refs = n
      BY <2>3 DEF Stream
    <2>5. /\ y.held = x.held /\ y.closed = x.closed /\ y.ready = x.ready /\ y.call_ctx = x.call_ctx
          /\ y.alarm_time = x.alarm_time /\ y.last_alarm_check = x.last_alarm_check
          /\ y.delay = x.delay /\ y.waited = x.waited /\ y.stale = x.stale /\ y.early = x.early
      BY <2>3 DEF Stream
    <2>6. One(Contains(q, s)) = 1
      BY <1>3 DEF One
    <2> QED BY <1>1, <2>2, <2>4, <2>5, <2>6
  <1>4. CASE ~Contains(q, s)
    <2>1. y = x /\ One(Contains(q, s)) = 0 /\ x.refs \in Nat
      BY <1>2, <1>4 DEF One, Stream
    <2> QED BY <1>1, <2>1
  <1> QED BY <1>3, <1>4

\* The state is right but for the references that q has to streams.
NoFinish(st) == \A i \in 1..Len(st) : st[i].kind # "finish"
Before(o, L, Q, rest, q, w) ==
    /\ Nested(rest) /\ Zapped(rest, Q) /\ NoFinish(rest)
    /\ \A s \in Streams : Sound(s, o[s], L, Q, rest, w, One(Contains(q, s)))

\* Destructors may be put on any stack that has no function that is run to its end.
LEMMA DestructorsNest ==
    ASSUME NEW st \in Seq(FrameRec), NEW D \in Seq(FrameRec), AllDestroy(D),
           NEW p, p = st \o D, Nested(st), NoFinish(st), NEW Q, Zapped(st, Q)
    PROVE  p \in Seq(FrameRec) /\ Nested(p) /\ Zapped(p, Q)
  <1>1. /\ p \in Seq(FrameRec) /\ Len(st) \in Nat /\ Len(D) \in Nat /\ Len(p) = Len(st) + Len(D)
        /\ \A i \in 1..Len(st) : p[i] = st[i] /\ i \in 1..Len(p)
        /\ \A i \in 1..Len(D) : p[Len(st) + i] = D[i] /\ Len(st) + i \in 1..Len(p)
        /\ \A i \in 1..Len(p) : i \in 1..Len(st) \/ (i - Len(st) \in 1..Len(D) /\ p[i] = D[i - Len(st)])
    BY StackConcat
  <1>2. \A i \in 1..Len(p) : i \in 1..Len(st) \/ p[i].kind = "destroy"
    BY <1>1 DEF AllDestroy
  <1>3. \A i \in 1..Len(st) : p[i] = st[i] /\ p[i].kind # "finish"
    BY <1>1 DEF NoFinish
  <1>4. \A i, j \in 1..Len(st) : i < j /\ p[i].kind \in Final => p[j].kind \in {"destroy", "finish"}
    BY <1>1 DEF Nested
  <1>5. ASSUME NEW i \in 1..Len(p), NEW j \in 1..Len(p), i < j, p[i].kind \in Final
        PROVE  p[i].kind # "finish" /\ p[j].kind \in {"destroy", "finish"}
    <2>1. p[i].kind # "finish"
      BY <1>2, <1>3
    <2>2. CASE j \notin 1..Len(st)
      BY <1>2, <2>1, <2>2
    <2>3. CASE j \in 1..Len(st)
      <3>1. i \in 1..Len(st)
        BY <1>1, <1>5, <2>3
      <3> QED BY <1>4, <1>5, <2>1, <2>3, <3>1
    <2> QED BY <2>2, <2>3
  <1>6. ASSUME NEW i \in 1..Len(p), p[i].kind = "select" PROVE Q = << >>
    <2>1. i \in 1..Len(st) /\ st[i].kind = "select"
      BY <1>1, <1>2, <1>6
    <2> QED BY <2>1 DEF Zapped
  <1>7. Nested(p)
    BY <1>5 DEF Nested
  <1>8. Zapped(p, Q)
    BY <1>6 DEF Zapped
  <1> QED BY <1>1, <1>7, <1>8

\* The destructors D are those that dropping these references starts.
Starts(D, o, q) ==
    /\ D \in Seq(FrameRec)
    /\ \A i \in 1..Len(D) :
          D[i].kind = "destroy" /\ Contains(q, D[i].stream) /\ o[D[i].stream].refs = 1
    /\ \A s : Contains(q, s) /\ o[s].refs = 1 => \E i \in 1..Len(D) : D[i].stream = s

LEMMA DropSound ==
    ASSUME NEW o \in [Streams -> Stream], NEW L \in Seq(LinkRec), NEW Q \in Seq(Streams),
           NEW rest \in Seq(FrameRec), NEW q \in Seq(Streams), NEW w, Before(o, L, Q, rest, q, w),
           NEW o1, o1 = Released(o, q), NEW D, Starts(D, o, q), NEW p, p = rest \o D
    PROVE  /\ o1 \in [Streams -> Stream] /\ p \in Seq(FrameRec) /\ Nested(p) /\ Zapped(p, Q)
           /\ \A s \in Streams : Sound(s, o1[s], L, Q, p, w, 0)
  <1>2. /\ D \in Seq(FrameRec)
        /\ \A i \in 1..Len(D) :
              D[i].kind = "destroy" /\ Contains(q, D[i].stream) /\ o[D[i].stream].refs = 1
        /\ \A s : Contains(q, s) /\ o[s].refs = 1 => \E i \in 1..Len(D) : D[i].stream = s
    BY DEF Starts
  <1>3. p = rest \o D /\ AllDestroy(D)
    BY <1>2 DEF AllDestroy
  <1>counts. ASSUME NEW s
             PROVE  /\ CallsOf(p, s) = CallsOf(rest, s)
                    /\ Has(p, "destroy", s) <=> Has(rest, "destroy", s) \/ Ending(D, s)
                    /\ Has(p, "finish", s) <=> Has(rest, "finish", s)
    <2>1. D \in Seq(FrameRec)
      BY <1>2
    <2> QED BY <1>3, <2>1, DestructorsCounts
  <1>4. p \in Seq(FrameRec) /\ Nested(p) /\ Zapped(p, Q)
    <2>1. Nested(rest) /\ Zapped(rest, Q) /\ NoFinish(rest)
      BY DEF Before
    <2> QED BY <1>2, <1>3, <2>1, DestructorsNest
  <1>5. ASSUME NEW s \in Streams PROVE o1[s] \in Stream /\ Sound(s, o1[s], L, Q, p, w, 0)
    <2>1. PICK c \in Nat : c = Cardinality(CallsOf(rest, s))
      BY CallsFinite
    <2>2. PICK a \in {0, 1}, b \in {0, 1}, d \in {0, 1}, e \in {0, 1} :
              /\ a = One(o[s].held) /\ b = One(OwnedBy(L, s)) /\ d = One(Contains(Q, s)) /\ e = One(Contains(q, s))
      BY DEF One
    <2>3. Sound(s, o[s], L, Q, rest, w, One(Contains(q, s)))
      BY DEF Before
    <2>4. o[s].refs = a + b + d + c + e
      BY <2>1, <2>2, <2>3 DEF Sound, Counted
    <2>5. Contains(q, s) => o[s].refs >= 1
      BY <2>2, <2>4 DEF One
    <2>6. PICK y : y = o1[s] /\ y = Released(o, q)[s]
      OBVIOUS
    <2>7. /\ y \in Stream /\ y.refs = o[s].refs - One(Contains(q, s))
          /\ y.held = o[s].held /\ y.closed = o[s].closed /\ y.ready = o[s].ready /\ y.call_ctx = o[s].call_ctx
          /\ y.alarm_time = o[s].alarm_time /\ y.last_alarm_check = o[s].last_alarm_check
          /\ y.delay = o[s].delay /\ y.waited = o[s].waited /\ y.stale = o[s].stale /\ y.early = o[s].early
      BY <2>5, <2>6, ReleasedOne, SMTT(30)
    <2>8. /\ CallsOf(p, s) = CallsOf(rest, s)
          /\ Has(p, "destroy", s) <=> Has(rest, "destroy", s) \/ Ending(D, s)
          /\ Has(p, "finish", s) <=> Has(rest, "finish", s)
      BY <1>counts
    <2>9. y.refs = a + b + d + c
      BY <2>2, <2>4, <2>7
    <2>10. Counted(s, y, L, Q, p, 0)
      BY <2>1, <2>2, <2>7, <2>8, <2>9 DEF Counted
    <2>11. Dead(s, o[s], L, rest)
      BY <2>3 DEF Sound
    <2>12. Has(p, "destroy", s) => y.refs = 0
      <3>1. CASE Has(rest, "destroy", s)
        <4>1. o[s].refs = 0
          BY <2>11, <3>1 DEF Dead
        <4>2. a + b + d + c + e = 0
          BY <2>4, <4>1
        <4>3. a \in Nat /\ b \in Nat /\ d \in Nat /\ e \in Nat
          OBVIOUS
        <4>4. a + b + d + c = 0
          BY <4>2, <4>3
        <4> QED BY <2>9, <4>4
      <3>2. ASSUME NEW i \in 1..Len(D), D[i].stream = s PROVE y.refs = 0
        <4>1. Contains(q, s) /\ o[s].refs = 1
          BY <1>2, <3>2
        <4>2. One(Contains(q, s)) = 1
          BY <4>1 DEF One
        <4>3. y.refs = o[s].refs - One(Contains(q, s))
          BY <2>7
        <4> QED BY <4>1, <4>2, <4>3
      <3> QED BY <2>8, <3>1, <3>2 DEF Ending
    <2>13. y.refs = 0 /\ ~Has(p, "destroy", s) => ~On(L, s) /\ y.call_ctx = "null"
      <3>1. ASSUME y.refs = 0, ~Has(p, "destroy", s) PROVE ~On(L, s) /\ y.call_ctx = "null"
        <4>1. ~Has(rest, "destroy", s) /\ ~\E i \in 1..Len(D) : D[i].stream = s
          BY <2>8, <3>1 DEF Ending
        <4>2. ~(Contains(q, s) /\ o[s].refs = 1)
          BY <1>2, <4>1
        <4>3. o[s].refs = 0
          <5>1. CASE e = 0
            BY <2>2, <2>7, <3>1, <5>1, <2>4, <2>9
          <5>2. CASE e = 1
            <6>1. Contains(q, s)
              BY <2>2, <5>2 DEF One
            <6>2. o[s].refs = 1
              BY <2>4, <2>9, <3>1, <5>2
            <6> QED BY <4>2, <6>1, <6>2
          <5> QED BY <5>1, <5>2
        <4> QED BY <2>7, <2>11, <4>1, <4>3 DEF Dead
      <3> QED BY <3>1
    <2>14. Has(p, "finish", s) => y.call_ctx = "finishing"
      <3>1. ASSUME Has(p, "finish", s) PROVE y.call_ctx = "finishing"
        <4>1. Has(rest, "finish", s)
          BY <2>8, <3>1
        <4> QED BY <2>7, <2>11, <4>1 DEF Dead
      <3> QED BY <3>1
    <2>15. Dead(s, y, L, p)
      BY <2>12, <2>13, <2>14 DEF Dead
    <2>16. Contains(Q, s) => On(L, s) \/ y.closed
      BY <2>3, <2>7 DEF Sound
    <2>17. Timely(y, w)
      <3>1. Timely(o[s], w)
        BY <2>3 DEF Sound
      <3> QED BY <2>7, <3>1 DEF Timely
    <2> QED BY <2>6, <2>7, <2>10, <2>15, <2>16, <2>17 DEF Sound
  <1>6. o1 \in [Streams -> Stream]
    <2>1. o1 = [s \in Streams |-> o1[s]]
      BY DEF Released
    <2> QED BY <1>5, <2>1
  <1> QED BY <1>4, <1>5, <1>6

\* release() of the references that q has.
LEMMA ReleaseSound ==
    ASSUME NEW o \in [Streams -> Stream], NEW L \in Seq(LinkRec), NEW Q \in Seq(Streams),
           NEW rest \in Seq(FrameRec), NEW q \in Seq(Streams), NEW w, Before(o, L, Q, rest, q, w),
           NEW o1, o1 = Released(o, q), NEW p, p = rest \o Destructors(o, q)
    PROVE  /\ o1 \in [Streams -> Stream] /\ p \in Seq(FrameRec) /\ Nested(p) /\ Zapped(p, Q)
           /\ \A s \in Streams : Sound(s, o1[s], L, Q, p, w, 0)
  <1>1. PICK D : D = Destructors(o, q)
    OBVIOUS
  <1>2. Starts(D, o, q)
    BY <1>1, DestructorsFacts, SMTT(30) DEF Starts
  <1>3. p = rest \o D
    BY <1>1
  <1> QED BY <1>2, <1>3, DropSound

-----------------------------------------------------------------------------
(* Alarms.                                                                 *)

\* y differs from x in its alarm, in having data, or in being closed.
SameCore(x, y) ==
    /\ y \in Stream /\ y.refs = x.refs /\ y.held = x.held /\ (x.closed => y.closed)
    /\ y.call_ctx = x.call_ctx

\* What an alarm does not touch stays right.
LEMMA SoundCore ==
    ASSUME NEW s, NEW x, NEW L, NEW Q, NEW st, NEW w, NEW e, Sound(s, x, L, Q, st, w, e),
           NEW y, SameCore(x, y), NEW v, Timely(y, v)
    PROVE  Sound(s, y, L, Q, st, v, e)
  <1>1. Counted(s, x, L, Q, st, e) /\ Dead(s, x, L, st) /\ (Contains(Q, s) => On(L, s) \/ x.closed)
    BY DEF Sound
  <1>2. y.refs = x.refs /\ y.held = x.held /\ (x.closed => y.closed) /\ y.call_ctx = x.call_ctx
    BY DEF SameCore
  <1>3. Counted(s, y, L, Q, st, e)
    BY <1>1, <1>2 DEF Counted
  <1>4. Dead(s, y, L, st)
    BY <1>1, <1>2 DEF Dead
  <1> QED BY <1>1, <1>2, <1>3, <1>4 DEF Sound

\* alarm(-1).
LEMMA CancelledFacts ==
    ASSUME NEW x \in Stream, NEW y, y = Cancelled(x)
    PROVE  SameCore(x, y) /\ y.alarm_time = None /\ y.early = x.early
  <1>1. None \in Int \cup {None} /\ 0 \in Nat
    OBVIOUS
  <1>2. y = [x EXCEPT !.alarm_time = None, !.delay = 0, !.waited = 0, !.stale = FALSE]
    BY DEF Cancelled
  <1>3. y \in Stream
    BY <1>1, <1>2 DEF Stream
  <1>4. y.refs = x.refs /\ y.held = x.held /\ y.closed = x.closed /\ y.call_ctx = x.call_ctx
    BY <1>2 DEF Stream
  <1>5. y.alarm_time = None /\ y.early = x.early
    BY <1>2 DEF Stream
  <1> QED BY <1>3, <1>4, <1>5 DEF SameCore

\* A stream without an alarm has none that is early.
LEMMA NoAlarmTimely ==
    ASSUME NEW x, x.alarm_time = None, ~x.early, NEW w
    PROVE  Timely(x, w)
  BY DEF Timely

\* alarm(msec).
LEMMA WithAlarmFacts ==
    ASSUME NEW x \in Stream, NEW msec \in Nat, wvstime \in Int, ~x.early, NEW y, y = WithAlarm(x, msec)
    PROVE  SameCore(x, y) /\ Timely(y, wvstime)
  <1>1. PICK t \in Int : t = wvstime + msec
    OBVIOUS
  <1>2. x.last_alarm_check \in Int
    BY DEF Stream
  <1>3. PICK b \in BOOLEAN : b <=> x.last_alarm_check > wvstime
    <2>1. (x.last_alarm_check > wvstime) \in BOOLEAN
      OBVIOUS
    <2> QED BY <2>1, Zenon
  <1>4. b = (x.last_alarm_check > wvstime)
    <2>1. (x.last_alarm_check > wvstime) \in BOOLEAN
      BY <1>2
    <2> QED BY <1>3, <2>1
  <1>5. y = [x EXCEPT !.alarm_time = t, !.delay = msec, !.waited = 0, !.stale = b]
    BY <1>1, <1>4 DEF WithAlarm
  <1>6. t \in Int \cup {None} /\ 0 \in Nat
    OBVIOUS
  <1>7. y \in Stream
    BY <1>5, <1>6 DEF Stream
  <1>8. y.refs = x.refs /\ y.held = x.held /\ y.closed = x.closed /\ y.call_ctx = x.call_ctx
    BY <1>5 DEF Stream
  <1>9. y.alarm_time = t /\ y.delay = msec /\ y.waited = 0 /\ y.stale = b
    BY <1>5 DEF Stream
  <1>10. y.early = x.early /\ y.last_alarm_check = x.last_alarm_check
    BY <1>5 DEF Stream
  <1>11. ~y.stale => Larger(y.last_alarm_check, wvstime) = wvstime
    BY <1>2, <1>3, <1>9, <1>10 DEF Larger
  <1>12. ASSUME ~y.stale PROVE y.alarm_time - Larger(y.last_alarm_check, wvstime) >= y.delay - y.waited
    BY <1>1, <1>9, <1>11, <1>12
  <1> QED BY <1>7, <1>8, <1>10, <1>12 DEF SameCore, Timely

\* alarm_remaining() corrects the alarm by as much as the clock has gone back.
LEMMA CheckedFacts ==
    ASSUME NEW x \in Stream, NEW now \in Int, Timely(x, now), NEW y, y = Checked(x, now)
    PROVE  /\ SameCore(x, y) /\ Timely(y, now) /\ y.early = x.early
           /\ y.alarm_time # None => y.last_alarm_check = now
           /\ y.waited = x.waited /\ y.delay = x.delay /\ y.stale = x.stale
  <1>1. CASE x.alarm_time = None
    <2>1. y = x
      BY <1>1 DEF Checked
    <2> QED BY <1>1, <2>1 DEF SameCore
  <1>2. CASE x.alarm_time # None
    <2>1. PICK a \in Int, l \in Int : a = x.alarm_time /\ l = x.last_alarm_check
      BY <1>2 DEF Stream
    <2>2. PICK t \in Int : t = IF now < l THEN a - (l - now) ELSE a
      OBVIOUS
    <2>3. y = [x EXCEPT !.last_alarm_check = now, !.alarm_time = t]
      BY <1>2, <2>1, <2>2 DEF Checked
    <2>4. t \in Int \cup {None}
      OBVIOUS
    <2>5. y \in Stream
      BY <2>3, <2>4 DEF Stream
    <2>6. y.refs = x.refs /\ y.held = x.held /\ y.closed = x.closed /\ y.call_ctx = x.call_ctx
      BY <2>3 DEF Stream
    <2>7. y.alarm_time = t /\ y.last_alarm_check = now
      BY <2>3 DEF Stream
    <2>8. y.waited = x.waited /\ y.delay = x.delay /\ y.stale = x.stale /\ y.early = x.early
      BY <2>3 DEF Stream
    <2>9. t - Larger(now, now) = a - Larger(l, now)
      BY <2>2 DEF Larger
    <2>10. Timely(y, now)
      <3>1. ~y.early
        BY <2>8 DEF Timely
      <3>2. ASSUME ~y.stale, y.waited < y.delay
            PROVE  y.alarm_time - Larger(y.last_alarm_check, now) >= y.delay - y.waited
        <4>1. a - Larger(l, now) >= x.delay - x.waited
          BY <1>2, <2>1, <2>8, <3>2 DEF Timely
        <4> QED BY <2>7, <2>8, <2>9, <4>1
      <3> QED BY <3>1, <3>2 DEF Timely
    <2> QED BY <2>5, <2>6, <2>7, <2>8, <2>10 DEF SameCore
  <1> QED BY <1>1, <1>2

\* wvstime moves to t.
LEMMA SyncedFacts ==
    ASSUME NEW o \in [Streams -> Stream], wvstime \in Int, NEW t \in Int, NEW s \in Streams,
           Timely(o[s], wvstime), NEW y, y = Synced(o, t)[s]
    PROVE  SameCore(o[s], y) /\ Timely(y, t)
  <1>1. PICK x \in Stream : x = o[s]
    OBVIOUS
  <1>2. y = IF x.alarm_time = None \/ t < wvstime THEN x
            ELSE [x EXCEPT !.waited = Smaller(x.waited + (t - wvstime), x.delay)]
    BY <1>1 DEF Synced
  <1>3. x.last_alarm_check \in Int /\ x.waited \in Nat /\ x.delay \in Nat /\ Timely(x, wvstime)
    BY <1>1 DEF Stream
  <1>4. CASE x.alarm_time = None
    <2>1. y = x
      BY <1>2, <1>4
    <2> QED BY <1>1, <1>3, <1>4, <2>1 DEF SameCore, Timely
  <1>5. CASE x.alarm_time # None /\ t < wvstime
    <2>1. y = x
      BY <1>2, <1>5
    <2>2. Larger(x.last_alarm_check, t) <= Larger(x.last_alarm_check, wvstime)
      BY <1>3, <1>5 DEF Larger
    <2>3. x.alarm_time \in Int /\ Larger(x.last_alarm_check, t) \in Int /\ Larger(x.last_alarm_check, wvstime) \in Int
      BY <1>3, <1>5 DEF Stream, Larger
    <2>4. Timely(x, t)
      BY <1>3, <2>2, <2>3 DEF Timely
    <2> QED BY <1>1, <2>1, <2>4 DEF SameCore
  <1>6. CASE x.alarm_time # None /\ ~(t < wvstime)
    <2>1. PICK d \in Nat : t = wvstime + d
      <3>1. t - wvstime \in Nat /\ t = wvstime + (t - wvstime)
        BY <1>6
      <3> QED BY <3>1
    <2>2. PICK n \in Nat : n = Smaller(x.waited + d, x.delay)
      BY <1>3 DEF Smaller
    <2>3. t - wvstime = d
      BY <2>1
    <2>4. y = [x EXCEPT !.waited = n]
      BY <1>2, <1>6, <2>2, <2>3
    <2>5. y \in Stream
      BY <2>4 DEF Stream
    <2>6. y.refs = x.refs /\ y.held = x.held /\ y.closed = x.closed /\ y.call_ctx = x.call_ctx
      BY <2>4 DEF Stream
    <2>7. y.waited = n /\ y.alarm_time = x.alarm_time /\ y.last_alarm_check = x.last_alarm_check
      BY <2>4 DEF Stream
    <2>8. y.delay = x.delay /\ y.stale = x.stale /\ y.early = x.early
      BY <2>4 DEF Stream
    <2>9. PICK a \in Int, l \in Int, k \in Nat, m \in Nat :
              a = x.alarm_time /\ l = x.last_alarm_check /\ k = x.delay /\ m = x.waited
      BY <1>3, <1>6 DEF Stream
    <2>10. ASSUME ~y.stale, n < k PROVE a - Larger(l, t) >= k - n
      <3>1. n = m + d
        BY <2>2, <2>9, <2>10 DEF Smaller
      <3>2. m < k
        BY <2>10, <3>1
      <3>3. a - Larger(l, wvstime) >= k - m
        BY <1>3, <1>6, <2>8, <2>9, <2>10, <3>2 DEF Timely
      <3>4. Larger(l, t) <= Larger(l, wvstime) + d
        BY <2>1 DEF Larger
      <3>5. Larger(l, t) \in Int /\ Larger(l, wvstime) \in Int
        BY DEF Larger
      <3> QED BY <3>1, <3>3, <3>4, <3>5
    <2>11. ~y.early
      BY <1>3, <2>8 DEF Timely
    <2>12. Timely(y, t)
      BY <2>7, <2>8, <2>9, <2>10, <2>11 DEF Timely
    <2> QED BY <1>1, <2>5, <2>6, <2>12 DEF SameCore
  <1> QED BY <1>4, <1>5, <1>6

\* callback() takes an alarm for over only when it is.
LEMMA TickedFacts ==
    ASSUME NEW x \in Stream, wvstime \in Int, Timely(x, wvstime), NEW z, z = Ticked(x)
    PROVE  SameCore(x, z) /\ Timely(z, wvstime)
  <1>1. PICK y : y = Checked(x, wvstime)
    OBVIOUS
  <1>2. /\ SameCore(x, y) /\ Timely(y, wvstime) /\ y.early = x.early
        /\ y.alarm_time # None => y.last_alarm_check = wvstime
        /\ y.waited = x.waited /\ y.delay = x.delay /\ y.stale = x.stale
    BY <1>1, CheckedFacts
  <1>3. y \in Stream /\ y.waited \in Nat /\ y.delay \in Nat /\ y.stale \in BOOLEAN /\ ~y.early
    BY <1>2 DEF SameCore, Stream, Timely
  <1>4. (Remaining(y, wvstime) = 0) \in BOOLEAN
    OBVIOUS
  <1>5. PICK b \in BOOLEAN : b = (Remaining(y, wvstime) = 0)
    BY <1>4, Zenon
  <1>6. ASSUME b, y.waited < y.delay PROVE y.stale
    <2>1. Remaining(y, wvstime) = 0
      BY <1>5, <1>6
    <2>2. y.alarm_time # None
      BY <2>1 DEF Remaining
    <2>3. PICK a \in Int : a = y.alarm_time
      BY <1>3, <2>2 DEF Stream
    <2>4. a <= wvstime
      BY <2>1, <2>2, <2>3 DEF Remaining
    <2>5. Larger(y.last_alarm_check, wvstime) = wvstime
      BY <1>2, <2>2 DEF Larger
    <2>6. ~y.stale => a - wvstime >= y.delay - y.waited
      BY <1>2, <1>6, <2>2, <2>3, <2>5 DEF Timely
    <2>7. ~(a - wvstime >= y.delay - y.waited)
      BY <1>3, <1>6, <2>4
    <2> QED BY <2>6, <2>7
  <1>7. PICK v : v = IF b THEN Cancelled(y) ELSE y
    OBVIOUS
  <1>8. SameCore(x, v) /\ Timely(v, wvstime) /\ ~v.early /\ v \in Stream
    <2>1. CASE b
      <3>1. v = Cancelled(y)
        BY <1>7, <2>1
      <3>2. SameCore(y, v) /\ v.alarm_time = None /\ v.early = y.early
        BY <1>3, <3>1, CancelledFacts
      <3>3. Timely(v, wvstime)
        BY <1>3, <3>2, NoAlarmTimely
      <3> QED BY <1>2, <1>3, <3>2, <3>3 DEF SameCore
    <2>2. CASE ~b
      BY <1>2, <1>3, <1>7, <2>2
    <2> QED BY <2>1, <2>2
  <1>9. z = [v EXCEPT !.alarm_was_ticking = b, !.early = v.early \/ (b /\ y.waited < y.delay /\ ~y.stale)]
    BY <1>1, <1>5, <1>7 DEF Ticked
  <1>10. (v.early \/ (b /\ y.waited < y.delay /\ ~y.stale)) = FALSE
    BY <1>6, <1>8
  <1>11. z = [v EXCEPT !.alarm_was_ticking = b, !.early = FALSE]
    BY <1>9, <1>10
  <1>12. z \in Stream
    BY <1>8, <1>11 DEF Stream
  <1>13. z.refs = v.refs /\ z.held = v.held /\ z.closed = v.closed /\ z.call_ctx = v.call_ctx
    BY <1>8, <1>11 DEF Stream
  <1>14. /\ z.alarm_time = v.alarm_time /\ z.last_alarm_check = v.last_alarm_check /\ z.waited = v.waited
         /\ z.delay = v.delay /\ z.stale = v.stale /\ ~z.early
    BY <1>8, <1>11 DEF Stream
  <1>15. Timely(z, wvstime)
    BY <1>8, <1>14 DEF Timely
  <1> QED BY <1>8, <1>12, <1>13, <1>15 DEF SameCore

-----------------------------------------------------------------------------
(* The stack and the streams.                                              *)

\* What the invariant says of the variables.
LEMMA InvFacts ==
    ASSUME ListInv
    PROVE  /\ obj \in [Streams -> Stream] /\ list \in Seq(LinkRec) /\ sure \in Seq(Streams)
           /\ stack \in Seq(FrameRec) /\ clock \in Int /\ wvstime \in Int /\ budget \in Nat
           /\ DistinctLinks(list) /\ Distinct(sure) /\ Nested(stack) /\ Zapped(stack, sure)
  BY DEF ListInv, Types

LEMMA InvSound ==
    ASSUME ListInv, NEW s \in Streams
    PROVE  obj[s] \in Stream /\ Sound(s, obj[s], list, sure, stack, wvstime, 0) /\ Timely(obj[s], wvstime)
  <1>1. obj[s] \in Stream /\ Sound(s, obj[s], list, sure, stack, wvstime, 0)
    BY DEF ListInv, Types
  <1> QED BY <1>1 DEF Sound

\* A stack of callbacks and executes.
Plain(st) == \A i \in 1..Len(st) : st[i].kind \notin Final

LEMMA PlainFacts ==
    ASSUME NEW st, Plain(st), NEW Q
    PROVE  Nested(st) /\ Zapped(st, Q) /\ NoFinish(st)
  BY DEF Plain, Final, Nested, Zapped, NoFinish

LEMMA PlainPush ==
    ASSUME NEW st \in Seq(FrameRec), Plain(st), NEW f \in FrameRec, NEW p, p = Append(st, f)
    PROVE  /\ p \in Seq(FrameRec)
           /\ f.kind \notin Final => Plain(p)
           /\ Nested(p) /\ Zapped(p, << >>) /\ (f.kind # "finish" => NoFinish(p))
           /\ \A Q : f.kind # "select" => Zapped(p, Q)
  <1>1. /\ p \in Seq(FrameRec) /\ Len(st) \in Nat /\ Len(p) = Len(st) + 1
        /\ \A i \in 1..Len(st) : p[i] = st[i] /\ i \in 1..Len(p)
        /\ p[Len(p)] = f /\ Len(p) \in 1..Len(p)
        /\ \A i \in 1..Len(p) : i \in 1..Len(st) \/ i = Len(p)
    BY AppendFacts
  <1>2. \A i \in 1..Len(p) : p[i].kind \notin Final \/ (i = Len(p) /\ p[i] = f)
    BY <1>1 DEF Plain
  <1>3. f.kind \notin Final => Plain(p)
    BY <1>2 DEF Plain
  <1>4. ASSUME NEW i \in 1..Len(p), NEW j \in 1..Len(p), i < j PROVE p[i].kind \notin Final
    BY <1>1, <1>2, <1>4
  <1>5. Nested(p)
    BY <1>4 DEF Nested
  <1>6. Zapped(p, << >>)
    BY DEF Zapped
  <1>7. f.kind # "finish" => NoFinish(p)
    BY <1>2 DEF Final, NoFinish
  <1>8. ASSUME NEW Q, f.kind # "select" PROVE Zapped(p, Q)
    BY <1>2, <1>8 DEF Final, Zapped
  <1> QED BY <1>1, <1>3, <1>5, <1>6, <1>7, <1>8

\* Below a select(), an execute() and a callback.
LEMMA PlainBelow ==
    ASSUME NEW st \in Seq(FrameRec), st # << >>, Nested(st), st[Len(st)].kind \notin {"destroy", "finish"},
           NEW p, p = Front(st)
    PROVE  p \in Seq(FrameRec) /\ Plain(p) /\ (st[Len(st)].kind # "select" => Plain(st))
  <1>1. /\ p \in Seq(FrameRec) /\ Len(st) \in Nat /\ Len(p) = Len(st) - 1 /\ Len(st) \in 1..Len(st)
        /\ \A i \in 1..Len(p) : p[i] = st[i] /\ i \in 1..Len(st) /\ i < Len(st)
        /\ \A i \in 1..Len(st) : i \in 1..Len(p) \/ i = Len(st)
    BY FrontFacts
  <1>2. \A i \in 1..Len(p) : st[i].kind \notin Final
    BY <1>1 DEF Nested
  <1>3. Plain(p)
    BY <1>1, <1>2 DEF Plain
  <1>4. st[Len(st)].kind # "select" => Plain(st)
    BY <1>1, <1>2 DEF Plain, Final
  <1> QED BY <1>1, <1>3, <1>4

\* A select() or an execute() on top of the stack is nothing to a stream.
SameCalls(p, st, s) ==
    /\ CallsOf(p, s) = CallsOf(st, s)
    /\ Has(p, "destroy", s) <=> Has(st, "destroy", s)
    /\ Has(p, "finish", s) <=> Has(st, "finish", s)

LEMMA SameCallsSound ==
    ASSUME NEW p, NEW st, NEW s, SameCalls(p, st, s),
           NEW x, NEW L, NEW Q, NEW w, NEW e, Sound(s, x, L, Q, st, w, e)
    PROVE  Sound(s, x, L, Q, p, w, e)
  <1>1. Counted(s, x, L, Q, st, e) /\ Dead(s, x, L, st)
    BY DEF Sound
  <1>4. Counted(s, x, L, Q, p, e)
    BY <1>1 DEF SameCalls, Counted
  <1>5. Dead(s, x, L, p)
    BY <1>1 DEF SameCalls, Dead
  <1> QED BY <1>4, <1>5 DEF Sound

LEMMA PushOther ==
    ASSUME NEW st \in Seq(FrameRec), NEW f \in FrameRec, f.kind \in {"select", "execute"}, NEW p, p = Append(st, f),
           NEW s
    PROVE  SameCalls(p, st, s)
  <1>1. Pushed(p, st, f, s)
    BY PushCounts
  <1> QED BY <1>1 DEF Pushed, SameCalls

LEMMA PopOther ==
    ASSUME NEW st \in Seq(FrameRec), st # << >>, st[Len(st)].kind \in {"select", "execute"}, NEW p, p = Front(st),
           NEW s
    PROVE  SameCalls(p, st, s)
  <1>1. /\ CallsOf(p, s) = CallsOf(st, s) \ {Len(st)}
        /\ Has(st, "destroy", s) <=> Has(p, "destroy", s) \/ (st[Len(st)].kind = "destroy" /\ st[Len(st)].stream = s)
        /\ Has(st, "finish", s) <=> Has(p, "finish", s) \/ (st[Len(st)].kind = "finish" /\ st[Len(st)].stream = s)
    BY PopCounts
  <1>2. CallsOf(p, s) = CallsOf(st, s)
    BY <1>1 DEF CallsOf
  <1> QED BY <1>1, <1>2 DEF SameCalls

-----------------------------------------------------------------------------
(* The invariant of a state that is given by its parts.                    *)

Good(o, L, Q, st, w) ==
    /\ o \in [Streams -> Stream] /\ L \in Seq(LinkRec) /\ Q \in Seq(Streams) /\ st \in Seq(FrameRec) /\ w \in Int
    /\ DistinctLinks(L) /\ Distinct(Q) /\ Nested(st) /\ Zapped(st, Q)
    /\ \A s \in Streams : Sound(s, o[s], L, Q, st, w, 0)

LEMMA InvGood ==
    ASSUME ListInv
    PROVE  Good(obj, list, sure, stack, wvstime)
  BY DEF ListInv, Types, Good

LEMMA GoodInv ==
    ASSUME Good(obj', list', sure', stack', wvstime'), clock' \in Int, budget' \in Nat
    PROVE  ListInv'
  BY DEF ListInv, Types, Good

LEMMA ReleaseGood ==
    ASSUME NEW o \in [Streams -> Stream], NEW L \in Seq(LinkRec), NEW Q \in Seq(Streams),
           NEW rest \in Seq(FrameRec), NEW q \in Seq(Streams), NEW w \in Int, Before(o, L, Q, rest, q, w),
           DistinctLinks(L), Distinct(Q), NEW o1, o1 = Released(o, q), NEW p, p = rest \o Destructors(o, q)
    PROVE  Good(o1, L, Q, p, w)
  <1>1. /\ o1 \in [Streams -> Stream] /\ p \in Seq(FrameRec) /\ Nested(p) /\ Zapped(p, Q)
        /\ \A s \in Streams : Sound(s, o1[s], L, Q, p, w, 0)
    BY ReleaseSound
  <1> QED BY <1>1 DEF Good

\* One stream changes in what its counts do not depend on.
LEMMA OneSame ==
    ASSUME NEW o, NEW L, NEW Q, NEW st, NEW w, Good(o, L, Q, st, w),
           NEW s \in Streams, NEW y, SameCore(o[s], y), Timely(y, w), NEW o1, o1 = [o EXCEPT ![s] = y]
    PROVE  Good(o1, L, Q, st, w)
  <1>1. /\ o \in [Streams -> Stream] /\ L \in Seq(LinkRec) /\ Q \in Seq(Streams) /\ st \in Seq(FrameRec) /\ w \in Int
        /\ DistinctLinks(L) /\ Distinct(Q) /\ Nested(st) /\ Zapped(st, Q)
        /\ \A t \in Streams : Sound(t, o[t], L, Q, st, w, 0)
    BY DEF Good
  <1>2. y \in Stream
    BY DEF SameCore
  <1>3. o1 \in [Streams -> Stream] /\ o1[s] = y /\ \A t \in Streams : t # s => o1[t] = o[t]
    BY <1>1, <1>2
  <1>4. Sound(s, o[s], L, Q, st, w, 0)
    BY <1>1
  <1>5. Sound(s, y, L, Q, st, w, 0)
    BY <1>4, SoundCore
  <1>6. ASSUME NEW t \in Streams PROVE Sound(t, o1[t], L, Q, st, w, 0)
    BY <1>1, <1>3, <1>5
  <1> QED BY <1>1, <1>3, <1>6 DEF Good

\* The stack changes in nothing that concerns the streams.
LEMMA StackGood ==
    ASSUME NEW o, NEW L, NEW Q, NEW st, NEW w, Good(o, L, Q, st, w),
           NEW p \in Seq(FrameRec), Nested(p), Zapped(p, Q), \A s \in Streams : SameCalls(p, st, s)
    PROVE  Good(o, L, Q, p, w)
  <1>1. /\ o \in [Streams -> Stream] /\ L \in Seq(LinkRec) /\ Q \in Seq(Streams) /\ w \in Int
        /\ DistinctLinks(L) /\ Distinct(Q)
        /\ \A s \in Streams : Sound(s, o[s], L, Q, st, w, 0)
    BY DEF Good
  <1>2. ASSUME NEW s \in Streams PROVE Sound(s, o[s], L, Q, p, w, 0)
    <2>1. Sound(s, o[s], L, Q, st, w, 0) /\ SameCalls(p, st, s)
      BY <1>1
    <2> QED BY <2>1, SameCallsSound
  <1> QED BY <1>1, <1>2 DEF Good

\* The top of the stack.
LEMMA TopFacts ==
    ASSUME stack \in Seq(FrameRec), NEW kind \in Kinds, AtTop(kind)
    PROVE  /\ stack # << >> /\ TopFrame = stack[Len(stack)] /\ stack[Len(stack)].kind = kind
           /\ stack[Len(stack)] \in FrameRec /\ (kind \in OfStream => TopFrame.stream \in Streams)
           /\ Len(stack) \in 1..Len(stack)
  <1>1. stack # << >> /\ TopFrame = stack[Len(stack)] /\ stack[Len(stack)].kind = kind
    BY DEF AtTop, TopFrame, Last
  <1>2. Len(stack) \in 1..Len(stack)
    BY <1>1
  <1>3. stack[Len(stack)] \in FrameRec
    BY <1>2
  <1> QED BY <1>1, <1>2, <1>3 DEF FrameRec

\* User code runs where nothing is being destroyed.
LEMMA UserPlain ==
    ASSUME stack \in Seq(FrameRec), Nested(stack), UserCode
    PROVE  Plain(stack)
  <1>1. CASE stack = << >>
    BY <1>1 DEF Plain
  <1>2. CASE AtTop("callback")
    <2>1. "callback" \in Kinds
      BY DEF Kinds
    <2>2. stack # << >> /\ stack[Len(stack)].kind = "callback"
      BY <1>2, <2>1, TopFacts
    <2>3. PICK p : p = Front(stack)
      OBVIOUS
    <2>4. stack[Len(stack)].kind \notin {"destroy", "finish"} /\ stack[Len(stack)].kind # "select"
      BY <2>2
    <2> QED BY <2>2, <2>3, <2>4, PlainBelow
  <1> QED BY <1>1, <1>2 DEF UserCode

-----------------------------------------------------------------------------
(* The clock, the world, and what changes one stream.                      *)

LEMMA InterruptedStep ==
    ASSUME ListInv, interrupted
    PROVE  ListInv'
  <1>1. stack \in Seq(FrameRec) /\ Nested(stack) /\ clock \in Int /\ budget \in Nat
    BY InvFacts
  <1>2. AtTop("select") /\ stack' = Front(stack) /\ budget > 0 /\ budget' = budget - 1
    BY DEF interrupted
  <1>3. obj' = obj /\ list' = list /\ sure' = sure /\ clock' = clock /\ wvstime' = wvstime
    BY DEF interrupted
  <1>4. "select" \in Kinds
    BY DEF Kinds
  <1>5. stack # << >> /\ stack[Len(stack)].kind = "select"
    BY <1>1, <1>2, <1>4, TopFacts
  <1>6. PICK p : p = Front(stack)
    OBVIOUS
  <1>7. stack[Len(stack)].kind \notin {"destroy", "finish"} /\ stack[Len(stack)].kind \in {"select", "execute"}
    BY <1>5
  <1>8. p \in Seq(FrameRec) /\ Plain(p)
    BY <1>1, <1>5, <1>6, <1>7, PlainBelow
  <1>9. Nested(p) /\ Zapped(p, sure)
    BY <1>8, PlainFacts
  <1>10. \A s \in Streams : SameCalls(p, stack, s)
    BY <1>1, <1>5, <1>6, <1>7, PopOther
  <1>11. Good(obj, list, sure, stack, wvstime)
    BY InvGood
  <1>12. Good(obj, list, sure, p, wvstime)
    BY <1>8, <1>9, <1>10, <1>11, StackGood
  <1>13. budget' \in Nat
    BY <1>1, <1>2
  <1>14. Good(obj', list', sure', stack', wvstime') /\ clock' \in Int
    BY <1>1, <1>2, <1>3, <1>6, <1>12
  <1> QED BY <1>13, <1>14, GoodInv

LEMMA ExecuteDoneStep ==
    ASSUME ListInv, execute_done
    PROVE  ListInv'
  <1>1. stack \in Seq(FrameRec) /\ Nested(stack) /\ clock \in Int /\ budget \in Nat
    BY InvFacts
  <1>2. AtTop("execute") /\ stack' = Front(stack) /\ budget' = budget
    BY DEF execute_done
  <1>3. obj' = obj /\ list' = list /\ sure' = sure /\ clock' = clock /\ wvstime' = wvstime
    BY DEF execute_done
  <1>4. "execute" \in Kinds
    BY DEF Kinds
  <1>5. stack # << >> /\ stack[Len(stack)].kind = "execute"
    BY <1>1, <1>2, <1>4, TopFacts
  <1>6. PICK p : p = Front(stack)
    OBVIOUS
  <1>7. stack[Len(stack)].kind \notin {"destroy", "finish"} /\ stack[Len(stack)].kind \in {"select", "execute"}
    BY <1>5
  <1>8. p \in Seq(FrameRec) /\ Plain(p)
    BY <1>1, <1>5, <1>6, <1>7, PlainBelow
  <1>9. Nested(p) /\ Zapped(p, sure)
    BY <1>8, PlainFacts
  <1>10. \A s \in Streams : SameCalls(p, stack, s)
    BY <1>1, <1>5, <1>6, <1>7, PopOther
  <1>11. Good(obj, list, sure, stack, wvstime)
    BY InvGood
  <1>12. Good(obj, list, sure, p, wvstime)
    BY <1>8, <1>9, <1>10, <1>11, StackGood
  <1>14. Good(obj', list', sure', stack', wvstime') /\ clock' \in Int /\ budget' \in Nat
    BY <1>1, <1>2, <1>3, <1>6, <1>12
  <1> QED BY <1>14, GoodInv

LEMMA SetBackStep ==
    ASSUME ListInv, SetBack
    PROVE  ListInv'
  <1>1. clock \in Int /\ budget \in Nat
    BY InvFacts
  <1>2. budget' \in Nat /\ clock' \in Int
    BY <1>1 DEF SetBack
  <1>3. Good(obj, list, sure, stack, wvstime)
    BY InvGood
  <1>4. obj' = obj /\ list' = list /\ sure' = sure /\ stack' = stack /\ wvstime' = wvstime
    BY DEF SetBack
  <1>5. Good(obj', list', sure', stack', wvstime')
    BY <1>3, <1>4
  <1> QED BY <1>2, <1>5, GoodInv

\* A select() whose timeout shrinks.
LEMMA TickStep ==
    ASSUME ListInv, Tick
    PROVE  ListInv'
  <1>1. stack \in Seq(FrameRec) /\ Nested(stack) /\ Zapped(stack, sure) /\ clock \in Int /\ budget \in Nat
    BY InvFacts
  <1>2. clock' \in Int /\ budget' \in Nat
    BY <1>1 DEF Tick
  <1>3. obj' = obj /\ list' = list /\ sure' = sure /\ wvstime' = wvstime
    BY DEF Tick
  <1>4. Good(obj, list, sure, stack, wvstime)
    BY InvGood
  <1>5. CASE AtTop("select") /\ TopFrame.timeout > 0
    <2>1. "select" \in Kinds
      BY DEF Kinds
    <2>2. /\ stack # << >> /\ TopFrame = stack[Len(stack)] /\ stack[Len(stack)].kind = "select"
          /\ stack[Len(stack)] \in FrameRec /\ Len(stack) \in 1..Len(stack)
      BY <1>1, <1>5, <2>1, TopFacts
    <2>3. PICK g \in FrameRec : g = TopFrame /\ g.kind = "select"
      BY <2>2
    <2>4. g \in [kind : Kinds, stream : Streams \cup {None}, timeout : Int]
      BY DEF FrameRec
    <2>5. PICK t \in Int : t = g.timeout - 1
      BY <2>4
    <2>6. PICK f : f = [g EXCEPT !.timeout = t]
      OBVIOUS
    <2>7. f \in [kind : Kinds, stream : Streams \cup {None}, timeout : Int] /\ f.kind = "select"
      BY <2>3, <2>4, <2>6
    <2>8. f \in FrameRec
      BY <2>7 DEF FrameRec, OfStream
    <2>9. PICK r : r = Front(stack)
      OBVIOUS
    <2>10. PICK p : p = Append(r, f)
      OBVIOUS
    <2>11. stack' = p
      BY <1>5, <2>3, <2>5, <2>6, <2>9, <2>10 DEF Tick
    <2>12. stack[Len(stack)].kind \notin {"destroy", "finish"} /\ stack[Len(stack)].kind \in {"select", "execute"}
      BY <2>2
    <2>13. r \in Seq(FrameRec) /\ Plain(r)
      BY <1>1, <2>2, <2>9, <2>12, PlainBelow
    <2>14. p \in Seq(FrameRec) /\ Nested(p) /\ Zapped(p, << >>)
      BY <2>8, <2>10, <2>13, PlainPush
    <2>15. sure = << >>
      BY <1>1, <2>2 DEF Zapped
    <2>16. \A s \in Streams : SameCalls(r, stack, s)
      BY <1>1, <2>2, <2>9, <2>12, PopOther
    <2>17. f.kind \in {"select", "execute"}
      BY <2>7
    <2>18. \A s \in Streams : SameCalls(p, r, s)
      BY <2>8, <2>10, <2>13, <2>17, PushOther
    <2>19. \A s \in Streams : SameCalls(p, stack, s)
      BY <2>16, <2>18 DEF SameCalls
    <2>20. Good(obj, list, sure, p, wvstime)
      BY <1>4, <2>14, <2>15, <2>19, StackGood
    <2>21. Good(obj', list', sure', stack', wvstime')
      BY <1>3, <2>11, <2>20
    <2> QED BY <1>2, <2>21, GoodInv
  <1>6. CASE ~(AtTop("select") /\ TopFrame.timeout > 0)
    <2>1. stack' = stack
      BY <1>6 DEF Tick
    <2>2. Good(obj', list', sure', stack', wvstime')
      BY <1>3, <1>4, <2>1
    <2> QED BY <1>2, <2>2, GoodInv
  <1> QED BY <1>5, <1>6

\* User code does something to one stream only.
LEMMA OneStep ==
    ASSUME ListInv, NEW s \in Streams, NEW y, SameCore(obj[s], y), Timely(y, wvstime),
           obj' = [obj EXCEPT ![s] = y], list' = list, sure' = sure, stack' = stack, wvstime' = wvstime,
           clock' \in Int, budget' \in Nat
    PROVE  ListInv'
  <1>1. Good(obj, list, sure, stack, wvstime)
    BY InvGood
  <1>2. PICK o : o = [obj EXCEPT ![s] = y]
    OBVIOUS
  <1>3. Good(o, list, sure, stack, wvstime)
    BY <1>1, <1>2, OneSame
  <1>4. Good(obj', list', sure', stack', wvstime')
    BY <1>2, <1>3
  <1> QED BY <1>4, GoodInv

LEMMA ActsFacts ==
    ASSUME ListInv, Acts
    PROVE  /\ Plain(stack) /\ budget' \in Nat /\ clock' \in Int /\ wvstime' = wvstime /\ clock' = clock
  <1>1. stack \in Seq(FrameRec) /\ Nested(stack) /\ clock \in Int /\ budget \in Nat
    BY InvFacts
  <1>2. UserCode /\ budget > 0 /\ budget' = budget - 1 /\ clock' = clock /\ wvstime' = wvstime
    BY DEF Acts
  <1>3. Plain(stack)
    BY <1>1, <1>2, UserPlain
  <1>4. budget' \in Nat
    BY <1>1, <1>2
  <1> QED BY <1>1, <1>2, <1>3, <1>4

LEMMA AlarmStep ==
    ASSUME ListInv, NEW s \in Streams, NEW msec \in Delays \cup {None}, alarm(s, msec)
    PROVE  ListInv'
  <1>1. budget' \in Nat /\ clock' \in Int /\ wvstime' = wvstime
    BY ActsFacts DEF alarm
  <1>2. list' = list /\ sure' = sure /\ stack' = stack
    BY DEF alarm
  <1>3. wvstime \in Int /\ obj \in [Streams -> Stream]
    BY InvFacts
  <1>4. obj[s] \in Stream /\ Timely(obj[s], wvstime) /\ ~obj[s].early
    BY InvSound DEF Timely
  <1>5. PICK y : y = IF msec = None THEN Cancelled(obj[s]) ELSE WithAlarm(obj[s], msec)
    OBVIOUS
  <1>6. obj' = [obj EXCEPT ![s] = y]
    BY <1>3, <1>5 DEF alarm
  <1>7. SameCore(obj[s], y) /\ Timely(y, wvstime)
    <2>1. CASE msec = None
      <3>1. y = Cancelled(obj[s])
        BY <1>5, <2>1
      <3>2. SameCore(obj[s], y) /\ y.alarm_time = None /\ y.early = obj[s].early
        BY <1>4, <3>1, CancelledFacts
      <3> QED BY <1>4, <3>2, NoAlarmTimely
    <2>2. CASE msec # None
      <3>1. y = WithAlarm(obj[s], msec) /\ msec \in Nat
        BY <1>5, <2>2, BoundsAssumption
      <3> QED BY <1>3, <1>4, <3>1, WithAlarmFacts
    <2> QED BY <2>1, <2>2
  <1> QED BY <1>1, <1>2, <1>6, <1>7, OneStep

\* A change of closed and ready only.
LEMMA StateFacts ==
    ASSUME NEW x \in Stream, NEW w, Timely(x, w), NEW c \in BOOLEAN, NEW r \in BOOLEAN, x.closed => c,
           NEW y, y = [x EXCEPT !.closed = c, !.ready = r]
    PROVE  SameCore(x, y) /\ Timely(y, w)
  <1>1. y \in Stream
    BY DEF Stream
  <1>2. y.refs = x.refs /\ y.held = x.held /\ y.closed = c /\ y.call_ctx = x.call_ctx
    BY DEF Stream
  <1>3. y.alarm_time = x.alarm_time /\ y.last_alarm_check = x.last_alarm_check
    BY DEF Stream
  <1>4. y.waited = x.waited /\ y.delay = x.delay /\ y.stale = x.stale /\ y.early = x.early
    BY DEF Stream
  <1>5. Timely(y, w)
    BY <1>3, <1>4 DEF Timely
  <1> QED BY <1>1, <1>2, <1>5 DEF SameCore

LEMMA CloseStep ==
    ASSUME ListInv, NEW s \in Streams, close(s)
    PROVE  ListInv'
  <1>1. budget' \in Nat /\ clock' \in Int /\ wvstime' = wvstime
    BY ActsFacts DEF close
  <1>2. list' = list /\ sure' = sure /\ stack' = stack
    BY DEF close
  <1>3. obj \in [Streams -> Stream]
    BY InvFacts
  <1>4. obj[s] \in Stream /\ Timely(obj[s], wvstime)
    BY InvSound
  <1>5. PICK y : y = [obj[s] EXCEPT !.closed = TRUE, !.ready = FALSE]
    OBVIOUS
  <1>6. obj' = [obj EXCEPT ![s] = y]
    BY <1>3, <1>4, <1>5 DEF close, Stream
  <1>7. SameCore(obj[s], y) /\ Timely(y, wvstime)
    BY <1>4, <1>5, StateFacts
  <1> QED BY <1>1, <1>2, <1>6, <1>7, OneStep

\* Data arrives, or is read.
LEMMA ReadyStep ==
    ASSUME ListInv, NEW s \in Streams, NEW r \in BOOLEAN, obj' = [obj EXCEPT ![s].ready = r],
           list' = list, sure' = sure, stack' = stack, wvstime' = wvstime, clock' \in Int, budget' \in Nat
    PROVE  ListInv'
  <1>3. obj \in [Streams -> Stream]
    BY InvFacts
  <1>4. obj[s] \in Stream /\ Timely(obj[s], wvstime)
    BY InvSound
  <1>5. PICK c \in BOOLEAN : c = obj[s].closed
    BY <1>4 DEF Stream
  <1>6. PICK y : y = [obj[s] EXCEPT !.closed = c, !.ready = r]
    OBVIOUS
  <1>7. y = [obj[s] EXCEPT !.ready = r]
    BY <1>4, <1>5, <1>6 DEF Stream
  <1>8. obj' = [obj EXCEPT ![s] = y]
    BY <1>3, <1>7
  <1>9. SameCore(obj[s], y) /\ Timely(y, wvstime)
    BY <1>4, <1>5, <1>6, StateFacts
  <1> QED BY <1>8, <1>9, OneStep

LEMMA DrainStep ==
    ASSUME ListInv, NEW s \in Streams, drain(s)
    PROVE  ListInv'
  <1>1. budget' \in Nat /\ clock' \in Int /\ wvstime' = wvstime
    BY ActsFacts DEF drain
  <1>2. obj' = [obj EXCEPT ![s].ready = FALSE] /\ list' = list /\ sure' = sure /\ stack' = stack
    BY DEF drain
  <1>3. FALSE \in BOOLEAN
    OBVIOUS
  <1> QED BY <1>1, <1>2, <1>3, ReadyStep

LEMMA ArriveStep ==
    ASSUME ListInv, NEW s \in Streams, Arrive(s)
    PROVE  ListInv'
  <1>1. clock \in Int /\ budget \in Nat
    BY InvFacts
  <1>2. budget' \in Nat /\ clock' \in Int /\ wvstime' = wvstime
    BY <1>1 DEF Arrive
  <1>3. obj' = [obj EXCEPT ![s].ready = TRUE] /\ list' = list /\ sure' = sure /\ stack' = stack
    BY DEF Arrive
  <1>4. TRUE \in BOOLEAN
    OBVIOUS
  <1> QED BY <1>2, <1>3, <1>4, ReadyStep

-----------------------------------------------------------------------------
(* Contexts, and the end of a stream.                                      *)

Contexts == {"null", "idle", "active", "paused", "finishing"}

\* A change of the context only.
LEMMA ContextFacts ==
    ASSUME NEW x \in Stream, NEW c \in Contexts, NEW w, Timely(x, w), NEW y, y = [x EXCEPT !.call_ctx = c]
    PROVE  /\ y \in Stream /\ y.refs = x.refs /\ y.held = x.held /\ y.closed = x.closed
           /\ y.call_ctx = c /\ Timely(y, w)
  <1>1. y \in Stream /\ y.call_ctx = c
    BY DEF Stream, Contexts
  <1>2. y.refs = x.refs /\ y.held = x.held /\ y.closed = x.closed
    BY DEF Stream
  <1>3. y.alarm_time = x.alarm_time /\ y.last_alarm_check = x.last_alarm_check
    BY DEF Stream
  <1>4. y.waited = x.waited /\ y.delay = x.delay /\ y.stale = x.stale /\ y.early = x.early
    BY DEF Stream
  <1>5. Timely(y, w)
    BY <1>3, <1>4 DEF Timely
  <1> QED BY <1>1, <1>2, <1>5

\* The references to a stream, and what it says about those, on another stack with the
\* same calls.
LEMMA DropCounts ==
    ASSUME NEW s, NEW x, NEW L, NEW Q, NEW st, NEW w, NEW e, Sound(s, x, L, Q, st, w, e),
           NEW y, y.refs = x.refs, y.held = x.held, x.closed => y.closed, Timely(y, w),
           NEW p, CallsOf(p, s) = CallsOf(st, s), Dead(s, y, L, p)
    PROVE  Sound(s, y, L, Q, p, w, e)
  <1>1. Counted(s, x, L, Q, st, e) /\ (Contains(Q, s) => On(L, s) \/ x.closed)
    BY DEF Sound
  <1>2. Counted(s, y, L, Q, p, e)
    BY <1>1 DEF Counted
  <1> QED BY <1>1, <1>2 DEF Sound

\* A function that is run to its end may be put on any stack that has none.
LEMMA PushFinish ==
    ASSUME NEW st \in Seq(FrameRec), Nested(st), NoFinish(st), NEW Q, Zapped(st, Q),
           NEW f \in FrameRec, f.kind = "finish", NEW p, p = Append(st, f)
    PROVE  p \in Seq(FrameRec) /\ Nested(p) /\ Zapped(p, Q)
  <1>1. /\ p \in Seq(FrameRec) /\ Len(st) \in Nat /\ Len(p) = Len(st) + 1
        /\ \A i \in 1..Len(st) : p[i] = st[i] /\ i \in 1..Len(p)
        /\ p[Len(p)] = f /\ Len(p) \in 1..Len(p)
        /\ \A i \in 1..Len(p) : i \in 1..Len(st) \/ i = Len(p)
    BY AppendFacts
  <1>2. ASSUME NEW i \in 1..Len(p), NEW j \in 1..Len(p), i < j, p[i].kind \in Final
        PROVE  p[i].kind # "finish" /\ p[j].kind \in {"destroy", "finish"}
    <2>1. i \in 1..Len(st)
      BY <1>1, <1>2
    <2>2. p[i] = st[i] /\ p[i].kind # "finish"
      BY <1>1, <2>1 DEF NoFinish
    <2>3. CASE j \in 1..Len(st)
      BY <1>1, <1>2, <2>1, <2>2, <2>3 DEF Nested
    <2>4. CASE j = Len(p)
      BY <1>1, <2>2, <2>4
    <2> QED BY <1>1, <2>3, <2>4
  <1>3. Nested(p)
    BY <1>2 DEF Nested
  <1>4. ASSUME NEW i \in 1..Len(p), p[i].kind = "select" PROVE Q = << >>
    <2>1. i \in 1..Len(st) /\ st[i].kind = "select"
      BY <1>1, <1>4
    <2> QED BY <2>1 DEF Zapped
  <1>5. Zapped(p, Q)
    BY <1>4 DEF Zapped
  <1> QED BY <1>1, <1>3, <1>5

\* call_ctx = 0, of a stream that is not gone.
LEMMA DropGood ==
    ASSUME NEW o, Good(o, list, sure, stack, wvstime), NoFinish(stack), NEW s \in Streams,
           o[s].refs # 0 \/ Has(stack, "destroy", s), DropContext(o, stack, s)
    PROVE  Good(obj', list, sure, stack', wvstime)
  <1>1. /\ o \in [Streams -> Stream] /\ list \in Seq(LinkRec) /\ sure \in Seq(Streams)
        /\ stack \in Seq(FrameRec) /\ wvstime \in Int
        /\ DistinctLinks(list) /\ Distinct(sure) /\ Nested(stack) /\ Zapped(stack, sure)
        /\ \A t \in Streams : Sound(t, o[t], list, sure, stack, wvstime, 0)
    BY DEF Good
  <1>2. PICK x \in Stream : x = o[s]
    BY <1>1
  <1>3. Sound(s, x, list, sure, stack, wvstime, 0)
    BY <1>1, <1>2
  <1>4. Dead(s, x, list, stack) /\ Timely(x, wvstime) /\ ~x.early
    BY <1>3 DEF Sound, Timely
  <1>5. CASE x.call_ctx = "paused"
    <2>1. PICK v : v = Cancelled(x)
      OBVIOUS
    <2>2. SameCore(x, v) /\ v.alarm_time = None /\ v.early = x.early
      BY <2>1, CancelledFacts
    <2>3. v \in Stream /\ Timely(v, wvstime) /\ v.refs = x.refs /\ v.held = x.held /\ (x.closed => v.closed)
      BY <1>4, <2>2, NoAlarmTimely DEF SameCore
    <2>4. PICK c \in Contexts : c = "finishing"
      BY DEF Contexts
    <2>5. PICK y : y = [v EXCEPT !.call_ctx = c]
      OBVIOUS
    <2>6. /\ y \in Stream /\ y.refs = v.refs /\ y.held = v.held /\ y.closed = v.closed
          /\ y.call_ctx = c /\ Timely(y, wvstime)
      BY <2>3, <2>5, ContextFacts
    <2>7. obj' = [o EXCEPT ![s] = y] /\ stack' = Append(stack, Frame("finish", s))
      BY <1>1, <1>2, <1>5, <2>1, <2>4, <2>5 DEF DropContext, Resumed
    <2>8. PICK kind \in Kinds : kind = "finish"
      BY DEF Kinds
    <2>9. PICK f \in FrameRec : f = Frame("finish", s) /\ f.kind = "finish" /\ f.stream = s
      BY <2>8, FrameFacts
    <2>10. PICK p : p = Append(stack, f)
      OBVIOUS
    <2>11. p \in Seq(FrameRec) /\ Nested(p) /\ Zapped(p, sure)
      BY <1>1, <2>9, <2>10, PushFinish
    <2>12. \A t \in Streams : Pushed(p, stack, f, t)
      BY <1>1, <2>10, PushCounts
    <2>13. \A t \in Streams : t # s => SameCalls(p, stack, t)
      BY <2>9, <2>12 DEF Pushed, SameCalls
    <2>14. CallsOf(p, s) = CallsOf(stack, s) /\ (Has(p, "destroy", s) <=> Has(stack, "destroy", s))
      BY <2>9, <2>12 DEF Pushed
    <2>15. Dead(s, y, list, p)
      BY <1>2, <1>4, <2>3, <2>4, <2>6, <2>14 DEF Dead
    <2>16. y.refs = x.refs /\ y.held = x.held /\ (x.closed => y.closed)
      BY <2>3, <2>6
    <2>17. Sound(s, y, list, sure, p, wvstime, 0)
      BY <1>3, <2>6, <2>14, <2>15, <2>16, DropCounts
    <2>18. obj' \in [Streams -> Stream] /\ obj'[s] = y /\ \A t \in Streams : t # s => obj'[t] = o[t]
      BY <1>1, <2>6, <2>7
    <2>19. ASSUME NEW t \in Streams PROVE Sound(t, obj'[t], list, sure, p, wvstime, 0)
      <3>1. CASE t = s
        BY <2>17, <2>18, <3>1
      <3>2. CASE t # s
        <4>1. SameCalls(p, stack, t) /\ Sound(t, o[t], list, sure, stack, wvstime, 0)
          BY <1>1, <2>13, <3>2
        <4>2. Sound(t, o[t], list, sure, p, wvstime, 0)
          BY <4>1, SameCallsSound
        <4> QED BY <2>18, <3>2, <4>2
      <3> QED BY <3>1, <3>2
    <2>20. Good(obj', list, sure, p, wvstime)
      BY <1>1, <2>11, <2>18, <2>19 DEF Good
    <2> QED BY <2>7, <2>9, <2>10, <2>20
  <1>6. CASE x.call_ctx # "paused"
    <2>1. PICK c \in Contexts : c = IF x.call_ctx = "finishing" THEN x.call_ctx ELSE "null"
      BY DEF Contexts
    <2>2. PICK y : y = [x EXCEPT !.call_ctx = c]
      OBVIOUS
    <2>3. /\ y \in Stream /\ y.refs = x.refs /\ y.held = x.held /\ y.closed = x.closed
          /\ y.call_ctx = c /\ Timely(y, wvstime)
      BY <1>4, <2>2, ContextFacts
    <2>4. obj' = [o EXCEPT ![s] = y] /\ stack' = stack
      BY <1>1, <1>2, <1>6, <2>1, <2>2 DEF DropContext
    <2>5. ~Has(stack, "finish", s)
      BY DEF Has, NoFinish
    <2>6. Dead(s, y, list, stack)
      BY <1>2, <1>4, <2>3, <2>5 DEF Dead
    <2>7. x.closed => y.closed
      BY <2>3
    <2>8. Sound(s, y, list, sure, stack, wvstime, 0)
      BY <1>3, <2>3, <2>6, <2>7, DropCounts
    <2>9. obj' \in [Streams -> Stream] /\ obj'[s] = y /\ \A t \in Streams : t # s => obj'[t] = o[t]
      BY <1>1, <2>3, <2>4
    <2>10. ASSUME NEW t \in Streams PROVE Sound(t, obj'[t], list, sure, stack, wvstime, 0)
      BY <1>1, <2>8, <2>9
    <2>11. Good(obj', list, sure, stack, wvstime)
      BY <1>1, <2>9, <2>10 DEF Good
    <2> QED BY <2>4, <2>11
  <1> QED BY <1>5, <1>6

LEMMA SetcallbackStep ==
    ASSUME ListInv, NEW s \in Streams, setcallback(s)
    PROVE  ListInv'
  <1>1. Plain(stack) /\ budget' \in Nat /\ clock' \in Int /\ wvstime' = wvstime
    BY ActsFacts DEF setcallback
  <1>2. list' = list /\ sure' = sure /\ DropContext(obj, stack, s) /\ Exists(s)
    BY DEF setcallback
  <1>3. obj[s] \in Stream
    BY InvSound
  <1>4. obj[s].refs # 0
    BY <1>2, <1>3 DEF Exists, Stream
  <1>5. NoFinish(stack)
    BY <1>1 DEF Plain, NoFinish, Final
  <1>6. Good(obj, list, sure, stack, wvstime)
    BY InvGood
  <1>7. Good(obj', list, sure, stack', wvstime)
    BY <1>2, <1>4, <1>5, <1>6, DropGood
  <1>8. Good(obj', list', sure', stack', wvstime')
    BY <1>1, <1>2, <1>7
  <1> QED BY <1>1, <1>8, GoodInv

LEMMA TerminateStep ==
    ASSUME ListInv, NEW s \in Streams, terminate_continue_select(s)
    PROVE  ListInv'
  <1>1. Plain(stack) /\ budget' \in Nat /\ clock' \in Int /\ wvstime' = wvstime
    BY ActsFacts DEF terminate_continue_select
  <1>2. /\ list' = list /\ sure' = sure /\ Exists(s)
        /\ DropContext([obj EXCEPT ![s].closed = TRUE, ![s].ready = FALSE], stack, s)
    BY DEF terminate_continue_select
  <1>3. obj[s] \in Stream /\ Timely(obj[s], wvstime) /\ obj \in [Streams -> Stream]
    BY InvSound, InvFacts
  <1>4. obj[s].refs # 0
    BY <1>2, <1>3 DEF Exists, Stream
  <1>5. NoFinish(stack)
    BY <1>1 DEF Plain, NoFinish, Final
  <1>6. Good(obj, list, sure, stack, wvstime)
    BY InvGood
  <1>7. PICK y : y = [obj[s] EXCEPT !.closed = TRUE, !.ready = FALSE]
    OBVIOUS
  <1>8. PICK o : o = [obj EXCEPT ![s] = y]
    OBVIOUS
  <1>9. o = [obj EXCEPT ![s].closed = TRUE, ![s].ready = FALSE]
    BY <1>3, <1>7, <1>8 DEF Stream
  <1>10. SameCore(obj[s], y) /\ Timely(y, wvstime)
    BY <1>3, <1>7, StateFacts
  <1>11. Good(o, list, sure, stack, wvstime)
    BY <1>6, <1>8, <1>10, OneSame
  <1>12. o[s].refs # 0
    BY <1>3, <1>4, <1>8, <1>10 DEF SameCore
  <1>13. DropContext(o, stack, s)
    BY <1>2, <1>9
  <1>14. Good(obj', list, sure, stack', wvstime)
    BY <1>5, <1>11, <1>12, <1>13, DropGood
  <1>15. Good(obj', list', sure', stack', wvstime')
    BY <1>1, <1>2, <1>14
  <1> QED BY <1>1, <1>15, GoodInv

\* A destructor is on top: nothing is run to its end.
LEMMA TopDestroy ==
    ASSUME NEW st \in Seq(FrameRec), st # << >>, Nested(st), st[Len(st)].kind = "destroy"
    PROVE  NoFinish(st) /\ Has(st, "destroy", st[Len(st)].stream)
  <1>1. PICK l \in Nat : Len(st) = l
    OBVIOUS
  <1>2. l \in 1..Len(st) /\ l > 0
    BY <1>1
  <1>3. ASSUME NEW i \in 1..Len(st), st[i].kind = "finish" PROVE FALSE
    <2>1. i # l
      BY <1>1, <1>3
    <2>2. i < l
      BY <1>1, <2>1
    <2> QED BY <1>2, <1>3, <2>2 DEF Nested, Final
  <1>4. NoFinish(st)
    BY <1>3 DEF NoFinish
  <1>5. Has(st, "destroy", st[Len(st)].stream)
    BY <1>1, <1>2 DEF Has
  <1> QED BY <1>4, <1>5

LEMMA DestroyTerminateStep ==
    ASSUME ListInv, destroy_terminate
    PROVE  ListInv'
  <1>1. stack \in Seq(FrameRec) /\ Nested(stack) /\ clock \in Int /\ budget \in Nat /\ obj \in [Streams -> Stream]
    BY InvFacts
  <1>2. "destroy" \in Kinds /\ "destroy" \in OfStream
    BY DEF Kinds, OfStream
  <1>3. /\ stack # << >> /\ TopFrame = stack[Len(stack)] /\ stack[Len(stack)].kind = "destroy"
        /\ TopFrame.stream \in Streams
    BY <1>1, <1>2, TopFacts DEF destroy_terminate
  <1>4. PICK s \in Streams : s = TopFrame.stream
    BY <1>3
  <1>5. NoFinish(stack) /\ Has(stack, "destroy", s)
    BY <1>1, <1>3, <1>4, TopDestroy
  <1>6. DropContext([obj EXCEPT ![s].closed = TRUE], stack, s)
    BY <1>4 DEF destroy_terminate
  <1>7. list' = list /\ sure' = sure /\ clock' = clock /\ wvstime' = wvstime /\ budget' = budget
    BY DEF destroy_terminate
  <1>8. obj[s] \in Stream /\ Timely(obj[s], wvstime)
    BY InvSound
  <1>9. PICK r \in BOOLEAN : r = obj[s].ready
    BY <1>8 DEF Stream
  <1>10. PICK y : y = [obj[s] EXCEPT !.closed = TRUE, !.ready = r]
    OBVIOUS
  <1>11. y = [obj[s] EXCEPT !.closed = TRUE]
    BY <1>8, <1>9, <1>10 DEF Stream
  <1>12. PICK o : o = [obj EXCEPT ![s] = y]
    OBVIOUS
  <1>13. o = [obj EXCEPT ![s].closed = TRUE]
    BY <1>1, <1>11, <1>12
  <1>14. SameCore(obj[s], y) /\ Timely(y, wvstime)
    BY <1>8, <1>10, StateFacts
  <1>15. Good(obj, list, sure, stack, wvstime)
    BY InvGood
  <1>16. Good(o, list, sure, stack, wvstime)
    BY <1>12, <1>14, <1>15, OneSame
  <1>17. DropContext(o, stack, s)
    BY <1>6, <1>13
  <1>18. Good(obj', list, sure, stack', wvstime)
    BY <1>5, <1>16, <1>17, DropGood
  <1>19. Good(obj', list', sure', stack', wvstime') /\ clock' \in Int /\ budget' \in Nat
    BY <1>1, <1>7, <1>18
  <1> QED BY <1>19, GoodInv

\* The stack below its top.
LEMMA PopNests ==
    ASSUME NEW st \in Seq(FrameRec), st # << >>, Nested(st), NEW Q, Zapped(st, Q), NEW p, p = Front(st)
    PROVE  /\ p \in Seq(FrameRec) /\ Nested(p) /\ Zapped(p, Q)
           /\ st[Len(st)].kind \in {"destroy", "finish"} => NoFinish(p)
  <1>1. /\ p \in Seq(FrameRec) /\ Len(st) \in Nat /\ Len(p) = Len(st) - 1 /\ Len(st) \in 1..Len(st)
        /\ \A i \in 1..Len(p) : p[i] = st[i] /\ i \in 1..Len(st) /\ i < Len(st)
        /\ \A i \in 1..Len(st) : i \in 1..Len(p) \/ i = Len(st)
    BY FrontFacts
  <1>2. Nested(p)
    BY <1>1 DEF Nested
  <1>3. Zapped(p, Q)
    BY <1>1 DEF Zapped
  <1>4. NoFinish(p)
    <2>1. ASSUME NEW i \in 1..Len(p), p[i].kind = "finish" PROVE FALSE
      <3>1. i \in 1..Len(st) /\ i < Len(st) /\ st[i].kind = "finish" /\ Len(st) \in 1..Len(st)
        BY <1>1, <2>1
      <3> QED BY <3>1 DEF Nested, Final
    <2> QED BY <2>1 DEF NoFinish
  <1> QED BY <1>1, <1>2, <1>3, <1>4

LEMMA FinishReturnsStep ==
    ASSUME ListInv, finish_returns
    PROVE  ListInv'
  <1>1. /\ obj \in [Streams -> Stream] /\ list \in Seq(LinkRec) /\ sure \in Seq(Streams)
        /\ stack \in Seq(FrameRec) /\ clock \in Int /\ wvstime \in Int /\ budget \in Nat
        /\ DistinctLinks(list) /\ Distinct(sure) /\ Nested(stack) /\ Zapped(stack, sure)
    BY InvFacts
  <1>2. "finish" \in Kinds /\ "finish" \in OfStream
    BY DEF Kinds, OfStream
  <1>3. /\ stack # << >> /\ TopFrame = stack[Len(stack)] /\ stack[Len(stack)].kind = "finish"
        /\ TopFrame.stream \in Streams
    BY <1>1, <1>2, TopFacts DEF finish_returns
  <1>4. PICK s \in Streams : s = TopFrame.stream
    BY <1>3
  <1>5. PICK p : p = Front(stack)
    OBVIOUS
  <1>6. /\ p \in Seq(FrameRec) /\ Nested(p) /\ Zapped(p, sure)
        /\ stack[Len(stack)].kind \in {"destroy", "finish"} => NoFinish(p)
    BY <1>1, <1>3, <1>5, PopNests
  <1>7. NoFinish(p)
    BY <1>3, <1>6
  <1>8. PICK c \in Contexts : c = "null"
    BY DEF Contexts
  <1>9. PICK x \in Stream : x = obj[s]
    BY <1>1
  <1>10. Sound(s, x, list, sure, stack, wvstime, 0) /\ Timely(x, wvstime)
    BY <1>9, InvSound
  <1>11. PICK y : y = [x EXCEPT !.call_ctx = c]
    OBVIOUS
  <1>12. /\ y \in Stream /\ y.refs = x.refs /\ y.held = x.held /\ y.closed = x.closed
         /\ y.call_ctx = c /\ Timely(y, wvstime)
    BY <1>10, <1>11, ContextFacts
  <1>13. obj' = [obj EXCEPT ![s] = y] /\ stack' = p
    BY <1>1, <1>4, <1>5, <1>8, <1>9, <1>11 DEF finish_returns
  <1>14. list' = list /\ sure' = sure /\ clock' = clock /\ wvstime' = wvstime /\ budget' = budget
    BY DEF finish_returns
  <1>15. \A t : ~Has(p, "finish", t)
    BY <1>7 DEF NoFinish, Has
  <1>16. ASSUME NEW t
         PROVE  /\ CallsOf(p, t) = CallsOf(stack, t) \ {Len(stack)}
                /\ Has(stack, "destroy", t) <=> Has(p, "destroy", t) \/ (stack[Len(stack)].kind = "destroy" /\ stack[Len(stack)].stream = t)
                /\ Has(stack, "finish", t) <=> Has(p, "finish", t) \/ (stack[Len(stack)].kind = "finish" /\ stack[Len(stack)].stream = t)
    BY <1>1, <1>3, <1>5, PopCounts
  <1>17. ASSUME NEW t PROVE CallsOf(p, t) = CallsOf(stack, t) /\ (Has(stack, "destroy", t) <=> Has(p, "destroy", t))
    <2>1. Len(stack) \notin CallsOf(stack, t)
      BY <1>3 DEF CallsOf
    <2> QED BY <1>3, <1>16, <2>1
  <1>18. Dead(s, y, list, p)
    <2>1. Dead(s, x, list, stack)
      BY <1>10 DEF Sound
    <2> QED BY <1>8, <1>12, <1>15, <1>17, <2>1 DEF Dead
  <1>19. (x.closed => y.closed) /\ CallsOf(p, s) = CallsOf(stack, s)
    BY <1>12, <1>17
  <1>20. Sound(s, y, list, sure, p, wvstime, 0)
    BY <1>10, <1>12, <1>18, <1>19, DropCounts
  <1>21. obj' \in [Streams -> Stream] /\ obj'[s] = y /\ \A t \in Streams : t # s => obj'[t] = obj[t]
    BY <1>1, <1>12, <1>13
  <1>22. ASSUME NEW t \in Streams PROVE Sound(t, obj'[t], list, sure, p, wvstime, 0)
    <2>1. CASE t = s
      BY <1>20, <1>21, <2>1
    <2>2. CASE t # s
      <3>1. SameCalls(p, stack, t)
        BY <1>3, <1>4, <1>16, <1>17, <2>2 DEF SameCalls
      <3>2. Sound(t, obj[t], list, sure, stack, wvstime, 0)
        BY InvSound
      <3>3. Sound(t, obj[t], list, sure, p, wvstime, 0)
        BY <3>1, <3>2, SameCallsSound
      <3> QED BY <1>21, <2>2, <3>3
    <2> QED BY <2>1, <2>2
  <1>23. Good(obj', list, sure, p, wvstime)
    BY <1>1, <1>6, <1>21, <1>22 DEF Good
  <1>24. Good(obj', list', sure', stack', wvstime') /\ clock' \in Int /\ budget' \in Nat
    BY <1>1, <1>13, <1>14, <1>23
  <1> QED BY <1>24, GoodInv

\* Nobody refers to a stream without references.
LEMMA NoReferences ==
    ASSUME NEW s, NEW x \in Stream, NEW L, NEW Q, NEW st \in Seq(FrameRec), Counted(s, x, L, Q, st, 0), x.refs = 0
    PROVE  ~x.held /\ ~OwnedBy(L, s) /\ ~Contains(Q, s) /\ Cardinality(CallsOf(st, s)) = 0
  <1>1. PICK k \in Nat : k = Cardinality(CallsOf(st, s))
    BY CallsFinite
  <1>2. PICK a \in {0, 1}, b \in {0, 1}, d \in {0, 1} :
            a = One(x.held) /\ b = One(OwnedBy(L, s)) /\ d = One(Contains(Q, s))
    BY DEF One
  <1>3. x.refs = One(x.held) + One(OwnedBy(L, s)) + One(Contains(Q, s)) + Cardinality(CallsOf(st, s)) + 0
    BY DEF Counted
  <1>4. x.refs = a + b + d + k + 0
    BY <1>1, <1>2, <1>3
  <1>5. 0 = a + b + d + k
    BY <1>4
  <1>6. a = 0 /\ b = 0 /\ d = 0 /\ k = 0
    BY <1>5
  <1> QED BY <1>1, <1>2, <1>6 DEF One

LEMMA DestroyEndStep ==
    ASSUME ListInv, destroy_end
    PROVE  ListInv'
  <1>1. /\ obj \in [Streams -> Stream] /\ list \in Seq(LinkRec) /\ sure \in Seq(Streams)
        /\ stack \in Seq(FrameRec) /\ clock \in Int /\ wvstime \in Int /\ budget \in Nat
        /\ DistinctLinks(list) /\ Distinct(sure) /\ Nested(stack) /\ Zapped(stack, sure)
    BY InvFacts
  <1>2. "destroy" \in Kinds /\ "destroy" \in OfStream
    BY DEF Kinds, OfStream
  <1>3. /\ stack # << >> /\ TopFrame = stack[Len(stack)] /\ stack[Len(stack)].kind = "destroy"
        /\ TopFrame.stream \in Streams
    BY <1>1, <1>2, TopFacts DEF destroy_end
  <1>4. PICK s \in Streams : s = TopFrame.stream
    BY <1>3
  <1>5. PICK p, L, Q : p = Front(stack) /\ L = Without(list, s) /\ Q = SureWithout(sure, s)
    OBVIOUS
  <1>6. /\ stack' = p /\ list' = L /\ sure' = Q /\ obj' = [obj EXCEPT ![s].closed = TRUE]
        /\ obj[s].call_ctx = "null" /\ clock' = clock /\ wvstime' = wvstime /\ budget' = budget
    BY <1>4, <1>5 DEF destroy_end
  <1>7. /\ L \in Seq(LinkRec) /\ DistinctLinks(L) /\ ~On(L, s) /\ ~OwnedBy(L, s)
        /\ \A t : t # s => (On(L, t) <=> On(list, t)) /\ (OwnedBy(L, t) <=> OwnedBy(list, t))
    BY <1>1, <1>5, WithoutFacts
  <1>8. /\ Q \in Seq(Streams) /\ Distinct(Q) /\ ~Contains(Q, s)
        /\ \A t : t # s => (Contains(Q, t) <=> Contains(sure, t))
    BY <1>1, <1>5, SureWithoutFacts
  <1>9. /\ p \in Seq(FrameRec) /\ Nested(p) /\ Zapped(p, sure)
        /\ stack[Len(stack)].kind \in {"destroy", "finish"} => NoFinish(p)
    BY <1>1, <1>3, <1>5, PopNests
  <1>10. sure = << >> => Q = << >>
    <2>1. sure = << >> => \A t : ~Contains(sure, t)
      BY DEF Contains
    <2>2. sure = << >> => \A t : ~Contains(Q, t)
      BY <1>8, <2>1
    <2>3. ASSUME Q # << >> PROVE \E t : Contains(Q, t)
      <3>1. 1 \in 1..Len(Q)
        BY <1>8, <2>3
      <3>2. Contains(Q, Q[1])
        BY <3>1 DEF Contains
      <3> QED BY <3>2
    <2> QED BY <2>2, <2>3
  <1>11. Zapped(p, Q)
    BY <1>9, <1>10 DEF Zapped
  <1>12. ASSUME NEW t
         PROVE  /\ CallsOf(p, t) = CallsOf(stack, t) \ {Len(stack)}
                /\ Has(stack, "destroy", t) <=> Has(p, "destroy", t) \/ (stack[Len(stack)].kind = "destroy" /\ stack[Len(stack)].stream = t)
                /\ Has(stack, "finish", t) <=> Has(p, "finish", t) \/ (stack[Len(stack)].kind = "finish" /\ stack[Len(stack)].stream = t)
    BY <1>1, <1>3, <1>5, PopCounts
  <1>13. ASSUME NEW t PROVE CallsOf(p, t) = CallsOf(stack, t) /\ (Has(stack, "finish", t) <=> Has(p, "finish", t))
    <2>1. Len(stack) \notin CallsOf(stack, t)
      BY <1>3 DEF CallsOf
    <2> QED BY <1>3, <1>12, <2>1
  <1>14. PICK x \in Stream : x = obj[s]
    BY <1>1
  <1>15. Sound(s, x, list, sure, stack, wvstime, 0) /\ Timely(x, wvstime)
    BY <1>14, InvSound
  <1>16. Counted(s, x, list, sure, stack, 0) /\ Dead(s, x, list, stack)
    BY <1>15 DEF Sound
  <1>17. Has(stack, "destroy", s)
    BY <1>1, <1>3, <1>4, TopDestroy
  <1>18. x.refs = 0
    BY <1>16, <1>17 DEF Dead
  <1>19. ~x.held /\ ~OwnedBy(list, s) /\ ~Contains(sure, s) /\ Cardinality(CallsOf(stack, s)) = 0
    BY <1>1, <1>16, <1>18, NoReferences
  <1>20. PICK r \in BOOLEAN : r = x.ready
    BY DEF Stream
  <1>21. PICK y : y = [x EXCEPT !.closed = TRUE, !.ready = r]
    OBVIOUS
  <1>22. y = [x EXCEPT !.closed = TRUE]
    BY <1>20, <1>21 DEF Stream
  <1>23. SameCore(x, y) /\ Timely(y, wvstime)
    BY <1>15, <1>21, StateFacts
  <1>24. y \in Stream /\ y.refs = 0 /\ y.held = x.held /\ y.call_ctx = "null"
    BY <1>6, <1>14, <1>18, <1>23 DEF SameCore
  <1>25. obj' \in [Streams -> Stream] /\ obj'[s] = y /\ \A t \in Streams : t # s => obj'[t] = obj[t]
    BY <1>1, <1>6, <1>14, <1>22, <1>24
  <1>26. Sound(s, y, L, Q, p, wvstime, 0)
    <2>1. Counted(s, y, L, Q, p, 0)
      BY <1>7, <1>8, <1>13, <1>19, <1>24 DEF Counted, One
    <2>2. Dead(s, y, L, p)
      BY <1>6, <1>7, <1>13, <1>14, <1>16, <1>24 DEF Dead
    <2> QED BY <1>8, <1>23, <2>1, <2>2 DEF Sound
  <1>27. ASSUME NEW t \in Streams, t # s PROVE Sound(t, obj[t], L, Q, p, wvstime, 0)
    <2>1. Sound(t, obj[t], list, sure, stack, wvstime, 0)
      BY InvSound
    <2>2. Has(stack, "destroy", t) <=> Has(p, "destroy", t)
      BY <1>3, <1>4, <1>12, <1>27
    <2>3. (On(L, t) <=> On(list, t)) /\ (OwnedBy(L, t) <=> OwnedBy(list, t)) /\ (Contains(Q, t) <=> Contains(sure, t))
      BY <1>7, <1>8, <1>27
    <2>4. Counted(t, obj[t], L, Q, p, 0)
      BY <1>13, <2>1, <2>3 DEF Sound, Counted, One
    <2>5. Dead(t, obj[t], L, p)
      BY <1>13, <2>1, <2>2, <2>3 DEF Sound, Dead
    <2> QED BY <2>1, <2>3, <2>4, <2>5 DEF Sound
  <1>28. \A t \in Streams : Sound(t, obj'[t], L, Q, p, wvstime, 0)
    BY <1>25, <1>26, <1>27
  <1>29. Good(obj', L, Q, p, wvstime)
    BY <1>1, <1>7, <1>8, <1>9, <1>11, <1>25, <1>28 DEF Good
  <1>30. Good(obj', list', sure', stack', wvstime') /\ clock' \in Int /\ budget' \in Nat
    BY <1>1, <1>6, <1>29
  <1> QED BY <1>30, GoodInv

-----------------------------------------------------------------------------
(* References that are taken and dropped.                                  *)

LEMMA SingleFacts ==
    ASSUME NEW s \in Streams, NEW q, q = <<s>>
    PROVE  q \in Seq(Streams) /\ Contains(q, s) /\ \A t : t # s => ~Contains(q, t)
  <1>1. q \in Seq(Streams) /\ Len(q) = 1 /\ q[1] = s
    OBVIOUS
  <1> QED BY <1>1 DEF Contains

LEMMA NoneFacts ==
    ASSUME NEW q, q = << >>
    PROVE  q \in Seq(Streams) /\ \A t : ~Contains(q, t)
  BY DEF Contains

\* What ReleaseAll() leads to.
LEMMA ReleaseStep ==
    ASSUME NEW o \in [Streams -> Stream], list' \in Seq(LinkRec), sure' \in Seq(Streams),
           NEW rest \in Seq(FrameRec), NEW q \in Seq(Streams), wvstime' \in Int,
           Before(o, list', sure', rest, q, wvstime'), DistinctLinks(list'), Distinct(sure'),
           ReleaseAll(o, rest, q), clock' \in Int, budget' \in Nat
    PROVE  ListInv'
  <1>1. obj' = Released(o, q) /\ stack' = rest \o Destructors(o, q)
    BY DEF ReleaseAll
  <1>2. PICK o1, L, Q, p, w : o1 = obj' /\ L = list' /\ Q = sure' /\ p = stack' /\ w = wvstime'
    OBVIOUS
  <1>3. /\ L \in Seq(LinkRec) /\ Q \in Seq(Streams) /\ w \in Int /\ Before(o, L, Q, rest, q, w)
        /\ DistinctLinks(L) /\ Distinct(Q) /\ o1 = Released(o, q) /\ p = rest \o Destructors(o, q)
    BY <1>1, <1>2
  <1>4. Good(o1, L, Q, p, w)
    BY <1>3, ReleaseGood
  <1>5. Good(obj', list', sure', stack', wvstime')
    BY <1>2, <1>4
  <1> QED BY <1>5, GoodInv

\* The call on top returns.
LEMMA PopCall ==
    ASSUME NEW st \in Seq(FrameRec), st # << >>, st[Len(st)].kind = "callback", NEW s, st[Len(st)].stream = s,
           NEW p, p = Front(st)
    PROVE  Cardinality(CallsOf(st, s)) = Cardinality(CallsOf(p, s)) + 1 /\ Cardinality(CallsOf(p, s)) \in Nat
  <1>1. CallsOf(p, s) = CallsOf(st, s) \ {Len(st)}
    BY PopCounts
  <1>2. Len(st) \in CallsOf(st, s)
    BY DEF CallsOf
  <1>3. IsFiniteSet(CallsOf(st, s)) /\ Cardinality(CallsOf(st, s)) \in Nat
    BY CallsFinite
  <1>4. PICK C, n : C = CallsOf(st, s) /\ n = Len(st)
    OBVIOUS
  <1>5. IsFiniteSet(C \ {n}) /\ Cardinality(C \ {n}) = Cardinality(C) - 1
    BY <1>2, <1>3, <1>4, FS_RemoveElement
  <1>6. Cardinality(C \ {n}) \in Nat
    BY <1>5, FS_CardinalityType
  <1>7. CallsOf(p, s) = C \ {n}
    BY <1>1, <1>4
  <1> QED BY <1>3, <1>4, <1>5, <1>6, <1>7

\* Another stream's call on top returns.
LEMMA PopCallOther ==
    ASSUME NEW st \in Seq(FrameRec), st # << >>, st[Len(st)].kind = "callback", NEW t, st[Len(st)].stream # t,
           NEW p, p = Front(st)
    PROVE  SameCalls(p, st, t)
  <1>1. /\ CallsOf(p, t) = CallsOf(st, t) \ {Len(st)}
        /\ Has(st, "destroy", t) <=> Has(p, "destroy", t) \/ (st[Len(st)].kind = "destroy" /\ st[Len(st)].stream = t)
        /\ Has(st, "finish", t) <=> Has(p, "finish", t) \/ (st[Len(st)].kind = "finish" /\ st[Len(st)].stream = t)
    BY PopCounts
  <1>2. CallsOf(p, t) = CallsOf(st, t)
    BY <1>1 DEF CallsOf
  <1> QED BY <1>1, <1>2 DEF SameCalls

\* A stream of which one reference more is to be dropped than its state shows.
LEMMA EndsSound ==
    ASSUME NEW s, NEW x \in Stream, NEW L, NEW Q, NEW st, NEW w, Sound(s, x, L, Q, st, w, 0),
           NEW y, y.refs = x.refs, y.held = x.held, x.closed => y.closed, Timely(y, w),
           NEW p, Plain(p), Cardinality(CallsOf(st, s)) = Cardinality(CallsOf(p, s)) + 1, Cardinality(CallsOf(p, s)) \in Nat
    PROVE  Sound(s, y, L, Q, p, w, 1)
  <1>1. PICK k \in Nat : k = Cardinality(CallsOf(p, s))
    OBVIOUS
  <1>2. PICK a \in {0, 1}, b \in {0, 1}, d \in {0, 1} :
            a = One(x.held) /\ b = One(OwnedBy(L, s)) /\ d = One(Contains(Q, s))
    BY DEF One
  <1>3. Counted(s, x, L, Q, st, 0) /\ (Contains(Q, s) => On(L, s) \/ x.closed)
    BY DEF Sound
  <1>4. x.refs = One(x.held) + One(OwnedBy(L, s)) + One(Contains(Q, s)) + Cardinality(CallsOf(st, s)) + 0
    BY <1>3 DEF Counted
  <1>5. x.refs = a + b + d + (k + 1) + 0
    BY <1>1, <1>2, <1>4
  <1>6. y.refs = a + b + d + k + 1 /\ y.refs # 0
    <2>1. a \in Nat /\ b \in Nat /\ d \in Nat
      OBVIOUS
    <2>2. a + b + d + (k + 1) + 0 = a + b + d + k + 1 /\ a + b + d + k + 1 # 0
      BY <2>1
    <2> QED BY <1>5, <2>2
  <1>7. y.refs = One(y.held) + One(OwnedBy(L, s)) + One(Contains(Q, s)) + Cardinality(CallsOf(p, s)) + 1
    BY <1>1, <1>2, <1>6
  <1>8. Counted(s, y, L, Q, p, 1)
    BY <1>7 DEF Counted
  <1>9. ~Has(p, "destroy", s) /\ ~Has(p, "finish", s)
    BY DEF Plain, Has, Final
  <1>10. Dead(s, y, L, p)
    BY <1>6, <1>9 DEF Dead
  <1> QED BY <1>3, <1>8, <1>10 DEF Sound

LEMMA CallEnds ==
    ASSUME ListInv, AtTop("callback"), NEW s \in Streams, s = TopFrame.stream,
           NEW y \in Stream, y.refs = obj[s].refs, y.held = obj[s].held, y.closed = obj[s].closed, Timely(y, wvstime),
           NEW o, o = [obj EXCEPT ![s] = y], ReleaseAll(o, Front(stack), <<s>>),
           list' = list, sure' = sure, wvstime' = wvstime, clock' \in Int, budget' \in Nat
    PROVE  ListInv'
  <1>1. /\ obj \in [Streams -> Stream] /\ list \in Seq(LinkRec) /\ sure \in Seq(Streams)
        /\ stack \in Seq(FrameRec) /\ clock \in Int /\ wvstime \in Int /\ budget \in Nat
        /\ DistinctLinks(list) /\ Distinct(sure) /\ Nested(stack) /\ Zapped(stack, sure)
    BY InvFacts
  <1>2. "callback" \in Kinds
    BY DEF Kinds
  <1>3. stack # << >> /\ TopFrame = stack[Len(stack)] /\ stack[Len(stack)].kind = "callback"
    BY <1>1, <1>2, TopFacts
  <1>4. PICK p, q : p = Front(stack) /\ q = <<s>>
    OBVIOUS
  <1>5. q \in Seq(Streams) /\ Contains(q, s) /\ \A t : t # s => ~Contains(q, t)
    BY <1>4, SingleFacts
  <1>6. stack[Len(stack)].kind \notin {"destroy", "finish"}
    BY <1>3
  <1>7. p \in Seq(FrameRec) /\ Plain(p)
    BY <1>1, <1>3, <1>4, <1>6, PlainBelow
  <1>8. Nested(p) /\ Zapped(p, sure) /\ NoFinish(p)
    BY <1>7, PlainFacts
  <1>9. stack[Len(stack)].stream = s
    BY <1>3
  <1>10. Cardinality(CallsOf(stack, s)) = Cardinality(CallsOf(p, s)) + 1 /\ Cardinality(CallsOf(p, s)) \in Nat
    BY <1>1, <1>3, <1>4, <1>9, PopCall
  <1>11. PICK x \in Stream : x = obj[s]
    BY <1>1
  <1>12. Sound(s, x, list, sure, stack, wvstime, 0)
    BY <1>11, InvSound
  <1>13. y.refs = x.refs /\ y.held = x.held /\ (x.closed => y.closed)
    BY <1>11
  <1>14. Sound(s, y, list, sure, p, wvstime, 1)
    BY <1>7, <1>10, <1>12, <1>13, EndsSound
  <1>15. o \in [Streams -> Stream] /\ o[s] = y /\ \A t \in Streams : t # s => o[t] = obj[t]
    BY <1>1
  <1>16. ASSUME NEW t \in Streams PROVE Sound(t, o[t], list, sure, p, wvstime, One(Contains(q, t)))
    <2>1. CASE t = s
      <3>1. One(Contains(q, t)) = 1
        BY <1>5, <2>1 DEF One
      <3> QED BY <1>14, <1>15, <2>1, <3>1
    <2>2. CASE t # s
      <3>1. One(Contains(q, t)) = 0
        BY <1>5, <2>2 DEF One
      <3>2. stack[Len(stack)].stream # t
        BY <1>9, <2>2
      <3>3. SameCalls(p, stack, t)
        BY <1>1, <1>3, <1>4, <3>2, PopCallOther
      <3>4. Sound(t, obj[t], list, sure, stack, wvstime, 0)
        BY InvSound
      <3>5. Sound(t, obj[t], list, sure, p, wvstime, 0)
        BY <3>3, <3>4, SameCallsSound
      <3> QED BY <1>15, <2>2, <3>1, <3>5
    <2> QED BY <2>1, <2>2
  <1>17. Before(o, list, sure, p, q, wvstime)
    BY <1>8, <1>16 DEF Before
  <1>18. ReleaseAll(o, p, q)
    BY <1>4
  <1>19. /\ list' \in Seq(LinkRec) /\ sure' \in Seq(Streams) /\ wvstime' \in Int
         /\ Before(o, list', sure', p, q, wvstime') /\ DistinctLinks(list') /\ Distinct(sure')
    BY <1>1, <1>17
  <1> QED BY <1>5, <1>7, <1>15, <1>18, <1>19, ReleaseStep

LEMMA CallbackReturnsStep ==
    ASSUME ListInv, callback_returns
    PROVE  ListInv'
  <1>1. stack \in Seq(FrameRec) /\ obj \in [Streams -> Stream] /\ clock \in Int /\ budget \in Nat
    BY InvFacts
  <1>2. "callback" \in Kinds /\ "callback" \in OfStream
    BY DEF Kinds, OfStream
  <1>3. AtTop("callback")
    BY DEF callback_returns
  <1>4. TopFrame.stream \in Streams
    BY <1>1, <1>2, <1>3, TopFacts
  <1>5. PICK s \in Streams : s = TopFrame.stream
    BY <1>4
  <1>6. PICK x \in Stream : x = obj[s]
    BY <1>1
  <1>7. Timely(x, wvstime)
    BY <1>6, InvSound
  <1>8. PICK c \in Contexts : c = IF x.call_ctx = "active" THEN "idle" ELSE x.call_ctx
    BY DEF Contexts, Stream
  <1>9. PICK y : y = [x EXCEPT !.call_ctx = c]
    OBVIOUS
  <1>10. y \in Stream /\ y.refs = x.refs /\ y.held = x.held /\ y.closed = x.closed /\ Timely(y, wvstime)
    BY <1>7, <1>9, ContextFacts
  <1>11. PICK o : o = [obj EXCEPT ![s] = y]
    OBVIOUS
  <1>12. o = [obj EXCEPT ![s].call_ctx = c]
    BY <1>1, <1>6, <1>9, <1>11
  <1>13. ReleaseAll(o, Front(stack), <<s>>)
    BY <1>5, <1>6, <1>8, <1>12 DEF callback_returns
  <1>14. list' = list /\ sure' = sure /\ wvstime' = wvstime /\ clock' \in Int /\ budget' \in Nat
    BY <1>1 DEF callback_returns
  <1>15. y.refs = obj[s].refs /\ y.held = obj[s].held /\ y.closed = obj[s].closed
    BY <1>6, <1>10
  <1> QED BY <1>3, <1>5, <1>10, <1>11, <1>13, <1>14, <1>15, CallEnds

LEMMA ContinueSelectStep ==
    ASSUME ListInv, NEW msec \in Delays \cup {None}, continue_select(msec)
    PROVE  ListInv'
  <1>1. stack \in Seq(FrameRec) /\ obj \in [Streams -> Stream] /\ wvstime \in Int
    BY InvFacts
  <1>2. "callback" \in Kinds /\ "callback" \in OfStream
    BY DEF Kinds, OfStream
  <1>3. AtTop("callback") /\ Acts /\ list' = list /\ sure' = sure
    BY DEF continue_select
  <1>4. TopFrame.stream \in Streams
    BY <1>1, <1>2, <1>3, TopFacts
  <1>5. PICK s \in Streams : s = TopFrame.stream
    BY <1>4
  <1>6. PICK x \in Stream : x = obj[s]
    BY <1>1
  <1>7. Timely(x, wvstime) /\ ~x.early
    BY <1>6, InvSound DEF Timely
  <1>8. PICK v : v = IF msec = None THEN Cancelled(x) ELSE WithAlarm(x, msec)
    OBVIOUS
  <1>9. SameCore(x, v) /\ Timely(v, wvstime) /\ v.closed = x.closed
    <2>1. CASE msec = None
      <3>1. v = Cancelled(x)
        BY <1>8, <2>1
      <3>2. SameCore(x, v) /\ v.alarm_time = None /\ v.early = x.early
        BY <3>1, CancelledFacts
      <3>3. Timely(v, wvstime)
        BY <1>7, <3>2, NoAlarmTimely
      <3>4. v.closed = x.closed
        BY <3>1 DEF Cancelled, Stream
      <3> QED BY <3>2, <3>3, <3>4
    <2>2. CASE msec # None
      <3>1. v = WithAlarm(x, msec) /\ msec \in Nat
        BY <1>8, <2>2, BoundsAssumption
      <3>2. SameCore(x, v) /\ Timely(v, wvstime)
        BY <1>1, <1>7, <3>1, WithAlarmFacts
      <3>3. v.closed = x.closed
        BY <3>1 DEF WithAlarm, Stream
      <3> QED BY <3>2, <3>3
    <2> QED BY <2>1, <2>2
  <1>10. PICK c \in Contexts : c = "paused"
    BY DEF Contexts
  <1>11. PICK y : y = [v EXCEPT !.call_ctx = c]
    OBVIOUS
  <1>12. v \in Stream
    BY <1>9 DEF SameCore
  <1>13. y \in Stream /\ y.refs = v.refs /\ y.held = v.held /\ y.closed = v.closed /\ Timely(y, wvstime)
    BY <1>9, <1>11, <1>12, ContextFacts
  <1>14. PICK o : o = [obj EXCEPT ![s] = y]
    OBVIOUS
  <1>15. ReleaseAll(o, Front(stack), <<s>>)
    BY <1>5, <1>6, <1>8, <1>10, <1>11, <1>14 DEF continue_select
  <1>16. wvstime' = wvstime /\ clock' \in Int /\ budget' \in Nat
    BY <1>3, ActsFacts
  <1>17. y.refs = obj[s].refs /\ y.held = obj[s].held /\ y.closed = obj[s].closed
    BY <1>6, <1>9, <1>13 DEF SameCore
  <1> QED BY <1>3, <1>5, <1>13, <1>14, <1>15, <1>16, <1>17, CallEnds

-----------------------------------------------------------------------------
(* append(), unlink() and release().                                       *)

\* Other places of the stream's references, as many.
LEMMA OtherLists ==
    ASSUME NEW s, NEW x, NEW L, NEW Q, NEW st, NEW w, NEW e, Sound(s, x, L, Q, st, w, e),
           NEW L1, NEW Q1, On(L1, s) <=> On(L, s), OwnedBy(L1, s) <=> OwnedBy(L, s), Contains(Q1, s) <=> Contains(Q, s)
    PROVE  Sound(s, x, L1, Q1, st, w, e)
  <1>1. /\ Counted(s, x, L, Q, st, e) /\ Dead(s, x, L, st)
        /\ (Contains(Q, s) => On(L, s) \/ x.closed) /\ Timely(x, w)
    BY DEF Sound
  <1>2. Counted(s, x, L1, Q1, st, e)
    BY <1>1 DEF Counted, One
  <1>3. Dead(s, x, L1, st)
    BY <1>1 DEF Dead
  <1> QED BY <1>1, <1>2, <1>3 DEF Sound

\* On a stack of calls: a stream with counts that add up, and references or no place.
LEMMA PlainSound ==
    ASSUME NEW s, NEW x, NEW L, NEW Q, NEW st, Plain(st), NEW w, NEW e, Counted(s, x, L, Q, st, e), Timely(x, w),
           x.refs # 0 \/ (~On(L, s) /\ x.call_ctx = "null"), Contains(Q, s) => On(L, s) \/ x.closed
    PROVE  Sound(s, x, L, Q, st, w, e)
  <1>1. ~Has(st, "destroy", s) /\ ~Has(st, "finish", s)
    BY DEF Plain, Has, Final
  <1>2. Dead(s, x, L, st)
    BY <1>1 DEF Dead
  <1> QED BY <1>2 DEF Sound

LEMMA HeldFacts ==
    ASSUME NEW x \in Stream, NEW w, Timely(x, w), NEW b \in BOOLEAN, NEW y, y = [x EXCEPT !.held = b]
    PROVE  /\ y \in Stream /\ y.refs = x.refs /\ y.held = b /\ y.closed = x.closed
           /\ y.call_ctx = x.call_ctx /\ Timely(y, w)
  <1>1. y \in Stream /\ y.held = b
    BY DEF Stream
  <1>2. y.refs = x.refs /\ y.closed = x.closed /\ y.call_ctx = x.call_ctx
    BY DEF Stream
  <1>3. y.alarm_time = x.alarm_time /\ y.last_alarm_check = x.last_alarm_check
    BY DEF Stream
  <1>4. y.waited = x.waited /\ y.delay = x.delay /\ y.stale = x.stale /\ y.early = x.early
    BY DEF Stream
  <1>5. Timely(y, w)
    BY <1>3, <1>4 DEF Timely
  <1> QED BY <1>1, <1>2, <1>5

LEMMA RefsFacts ==
    ASSUME NEW x \in Stream, NEW w, Timely(x, w), NEW n \in Nat, NEW y, y = [x EXCEPT !.refs = n]
    PROVE  /\ y \in Stream /\ y.refs = n /\ y.held = x.held /\ y.closed = x.closed
           /\ y.call_ctx = x.call_ctx /\ Timely(y, w)
  <1>1. y \in Stream /\ y.refs = n
    BY DEF Stream
  <1>2. y.held = x.held /\ y.closed = x.closed /\ y.call_ctx = x.call_ctx
    BY DEF Stream
  <1>3. y.alarm_time = x.alarm_time /\ y.last_alarm_check = x.last_alarm_check
    BY DEF Stream
  <1>4. y.waited = x.waited /\ y.delay = x.delay /\ y.stale = x.stale /\ y.early = x.early
    BY DEF Stream
  <1>5. Timely(y, w)
    BY <1>3, <1>4 DEF Timely
  <1> QED BY <1>1, <1>2, <1>5

\* The references to a stream as numbers.
Adds(s, x, L, Q, st) ==
    /\ One(x.held) \in Nat /\ One(OwnedBy(L, s)) \in Nat /\ One(Contains(Q, s)) \in Nat
    /\ Cardinality(CallsOf(st, s)) \in Nat
    /\ x.refs = One(x.held) + One(OwnedBy(L, s)) + One(Contains(Q, s)) + Cardinality(CallsOf(st, s))

LEMMA CountFacts ==
    ASSUME NEW s, NEW x, NEW L, NEW Q, NEW st \in Seq(FrameRec), NEW w, Sound(s, x, L, Q, st, w, 0)
    PROVE  Adds(s, x, L, Q, st)
  <1>1. PICK k \in Nat : k = Cardinality(CallsOf(st, s))
    BY CallsFinite
  <1>2. PICK a \in Nat, b \in Nat, d \in Nat :
            a = One(x.held) /\ b = One(OwnedBy(L, s)) /\ d = One(Contains(Q, s))
    BY DEF One
  <1>3. x.refs = One(x.held) + One(OwnedBy(L, s)) + One(Contains(Q, s)) + Cardinality(CallsOf(st, s)) + 0
    BY DEF Sound, Counted
  <1>4. x.refs = a + b + d + k + 0
    BY <1>1, <1>2, <1>3
  <1>5. x.refs = a + b + d + k
    BY <1>4
  <1> QED BY <1>1, <1>2, <1>5 DEF Adds

LEMMA ReleaseOwnStep ==
    ASSUME ListInv, NEW s \in Streams, release(s)
    PROVE  ListInv'
  <1>1. /\ obj \in [Streams -> Stream] /\ list \in Seq(LinkRec) /\ sure \in Seq(Streams)
        /\ stack \in Seq(FrameRec) /\ wvstime \in Int /\ DistinctLinks(list) /\ Distinct(sure)
    BY InvFacts
  <1>2. Plain(stack) /\ budget' \in Nat /\ clock' \in Int /\ wvstime' = wvstime
    BY ActsFacts DEF release
  <1>3. /\ obj[s].held /\ list' = list /\ sure' = sure
        /\ ReleaseAll([obj EXCEPT ![s].held = FALSE], stack, <<s>>)
    BY DEF release
  <1>4. PICK x \in Stream : x = obj[s]
    BY <1>1
  <1>5. Sound(s, x, list, sure, stack, wvstime, 0) /\ Timely(x, wvstime)
    BY <1>4, InvSound
  <1>6. PICK y : y = [x EXCEPT !.held = FALSE]
    OBVIOUS
  <1>7. /\ y \in Stream /\ y.refs = x.refs /\ y.held = FALSE /\ y.closed = x.closed
        /\ y.call_ctx = x.call_ctx /\ Timely(y, wvstime)
    BY <1>5, <1>6, HeldFacts
  <1>8. PICK o : o = [obj EXCEPT ![s] = y]
    OBVIOUS
  <1>9. o = [obj EXCEPT ![s].held = FALSE]
    BY <1>1, <1>4, <1>6, <1>8
  <1>10. o \in [Streams -> Stream] /\ o[s] = y /\ \A t \in Streams : t # s => o[t] = obj[t]
    BY <1>1, <1>7, <1>8
  <1>11. Sound(s, y, list, sure, stack, wvstime, 1)
    <2>0. Adds(s, x, list, sure, stack)
      BY <1>1, <1>5, CountFacts
    <2>1. PICK a \in Nat, b \in Nat, d \in Nat, k \in Nat :
              /\ a = One(x.held) /\ b = One(OwnedBy(list, s)) /\ d = One(Contains(sure, s))
              /\ k = Cardinality(CallsOf(stack, s)) /\ x.refs = a + b + d + k
      BY <2>0 DEF Adds
    <2>2. a = 1 /\ One(y.held) = 0
      BY <1>3, <1>4, <1>7, <2>1 DEF One
    <2>3. x.refs = 0 + b + d + k + 1 /\ x.refs # 0
      BY <2>1, <2>2
    <2>4. y.refs = One(y.held) + One(OwnedBy(list, s)) + One(Contains(sure, s)) + Cardinality(CallsOf(stack, s)) + 1
      BY <1>7, <2>1, <2>2, <2>3
    <2>5. Counted(s, y, list, sure, stack, 1)
      BY <2>4 DEF Counted
    <2>6. y.refs # 0 /\ (Contains(sure, s) => On(list, s) \/ y.closed)
      BY <1>5, <1>7, <2>3 DEF Sound
    <2> QED BY <1>2, <1>7, <2>5, <2>6, PlainSound
  <1>12. PICK q : q = <<s>>
    OBVIOUS
  <1>13. q \in Seq(Streams) /\ Contains(q, s) /\ \A t : t # s => ~Contains(q, t)
    BY <1>12, SingleFacts
  <1>14. ASSUME NEW t \in Streams PROVE Sound(t, o[t], list, sure, stack, wvstime, One(Contains(q, t)))
    <2>1. CASE t = s
      <3>1. One(Contains(q, t)) = 1
        BY <1>13, <2>1 DEF One
      <3> QED BY <1>10, <1>11, <2>1, <3>1
    <2>2. CASE t # s
      <3>1. One(Contains(q, t)) = 0
        BY <1>13, <2>2 DEF One
      <3>2. Sound(t, obj[t], list, sure, stack, wvstime, 0)
        BY InvSound
      <3> QED BY <1>10, <2>2, <3>1, <3>2
    <2> QED BY <2>1, <2>2
  <1>15. Nested(stack) /\ Zapped(stack, sure) /\ NoFinish(stack)
    BY <1>2, PlainFacts
  <1>16. Before(o, list, sure, stack, q, wvstime)
    BY <1>14, <1>15 DEF Before
  <1>17. ReleaseAll(o, stack, q)
    BY <1>3, <1>9, <1>12
  <1>18. /\ list' \in Seq(LinkRec) /\ sure' \in Seq(Streams) /\ wvstime' \in Int
         /\ Before(o, list', sure', stack, q, wvstime') /\ DistinctLinks(list') /\ Distinct(sure')
    BY <1>1, <1>2, <1>3, <1>16
  <1> QED BY <1>1, <1>2, <1>10, <1>13, <1>17, <1>18, ReleaseStep

\* A link more.
LEMMA AppendLink ==
    ASSUME NEW L \in Seq(LinkRec), DistinctLinks(L), NEW s \in Streams, ~On(L, s), NEW b \in BOOLEAN,
           NEW L1, L1 = Append(L, Link(s, b))
    PROVE  /\ L1 \in Seq(LinkRec) /\ DistinctLinks(L1) /\ On(L1, s) /\ (OwnedBy(L1, s) <=> b)
           /\ \A t : t # s => (On(L1, t) <=> On(L, t)) /\ (OwnedBy(L1, t) <=> OwnedBy(L, t))
  <1>1. PICK l \in LinkRec : l = Link(s, b) /\ l.stream = s /\ l.autofree = b
    BY DEF Link, LinkRec
  <1>2. L1 = Append(L, l)
    BY <1>1
  <1>3. /\ L1 \in Seq(LinkRec) /\ Len(L) \in Nat /\ Len(L1) = Len(L) + 1
        /\ \A i \in 1..Len(L) : L1[i] = L[i] /\ i \in 1..Len(L1)
        /\ L1[Len(L1)] = l /\ Len(L1) \in 1..Len(L1)
        /\ \A i \in 1..Len(L1) : i \in 1..Len(L) \/ i = Len(L1)
    BY <1>2, AppendFacts
  <1>4. \A i \in 1..Len(L) : L1[i].stream # s
    BY <1>3 DEF On
  <1>5. ASSUME NEW i \in 1..Len(L1), NEW j \in 1..Len(L1), L1[i].stream = L1[j].stream PROVE i = j
    <2>1. CASE i \in 1..Len(L) /\ j \in 1..Len(L)
      BY <1>3, <1>5, <2>1 DEF DistinctLinks
    <2>2. CASE i = Len(L1) \/ j = Len(L1)
      BY <1>1, <1>3, <1>4, <1>5, <2>2
    <2> QED BY <1>3, <2>1, <2>2
  <1>6. DistinctLinks(L1)
    BY <1>5 DEF DistinctLinks
  <1>7. On(L1, s)
    BY <1>1, <1>3 DEF On
  <1>8. OwnedBy(L1, s) <=> b
    BY <1>1, <1>3, <1>4 DEF OwnedBy
  <1>9. ASSUME NEW t, t # s PROVE (On(L1, t) <=> On(L, t)) /\ (OwnedBy(L1, t) <=> OwnedBy(L, t))
    <2>1. L1[Len(L1)].stream # t
      BY <1>1, <1>3, <1>9
    <2>2. On(L1, t) <=> On(L, t)
      BY <1>3, <2>1 DEF On
    <2>3. OwnedBy(L1, t) <=> OwnedBy(L, t)
      BY <1>3, <2>1 DEF OwnedBy
    <2> QED BY <2>2, <2>3
  <1> QED BY <1>3, <1>6, <1>7, <1>8, <1>9

LEMMA AppendStep ==
    ASSUME ListInv, NEW s \in Streams, NEW autofree \in BOOLEAN, append(s, autofree)
    PROVE  ListInv'
  <1>1. /\ obj \in [Streams -> Stream] /\ list \in Seq(LinkRec) /\ sure \in Seq(Streams)
        /\ stack \in Seq(FrameRec) /\ wvstime \in Int /\ DistinctLinks(list) /\ Distinct(sure)
    BY InvFacts
  <1>2. Plain(stack) /\ budget' \in Nat /\ clock' \in Int /\ wvstime' = wvstime
    BY ActsFacts DEF append
  <1>3. /\ obj[s].held /\ ~Listed(s) /\ list' = Append(list, Link(s, autofree))
        /\ obj' = [obj EXCEPT ![s].held = ~autofree] /\ sure' = sure /\ stack' = stack
    BY DEF append
  <1>4. ~On(list, s)
    BY <1>1, <1>3 DEF Listed, On
  <1>5. PICK L : L = list'
    OBVIOUS
  <1>6. /\ L \in Seq(LinkRec) /\ DistinctLinks(L) /\ On(L, s) /\ (OwnedBy(L, s) <=> autofree)
        /\ \A t : t # s => (On(L, t) <=> On(list, t)) /\ (OwnedBy(L, t) <=> OwnedBy(list, t))
    BY <1>1, <1>3, <1>4, <1>5, AppendLink
  <1>7. PICK x \in Stream : x = obj[s]
    BY <1>1
  <1>8. Sound(s, x, list, sure, stack, wvstime, 0) /\ Timely(x, wvstime)
    BY <1>7, InvSound
  <1>9. PICK b \in BOOLEAN : b = ~autofree
    OBVIOUS
  <1>10. PICK y : y = [x EXCEPT !.held = b]
    OBVIOUS
  <1>11. /\ y \in Stream /\ y.refs = x.refs /\ y.held = b /\ y.closed = x.closed
         /\ y.call_ctx = x.call_ctx /\ Timely(y, wvstime)
    BY <1>8, <1>10, HeldFacts
  <1>12. obj' = [obj EXCEPT ![s] = y]
    BY <1>1, <1>3, <1>7, <1>9, <1>10
  <1>13. obj' \in [Streams -> Stream] /\ obj'[s] = y /\ \A t \in Streams : t # s => obj'[t] = obj[t]
    BY <1>1, <1>11, <1>12
  <1>14. Sound(s, y, L, sure, stack, wvstime, 0)
    <2>0. Adds(s, x, list, sure, stack)
      BY <1>1, <1>8, CountFacts
    <2>1. PICK a \in Nat, b0 \in Nat, d \in Nat, k \in Nat :
              /\ a = One(x.held) /\ b0 = One(OwnedBy(list, s)) /\ d = One(Contains(sure, s))
              /\ k = Cardinality(CallsOf(stack, s)) /\ x.refs = a + b0 + d + k
      BY <2>0 DEF Adds
    <2>2. a = 1 /\ b0 = 0
      BY <1>3, <1>4, <1>7, <2>1 DEF One, On, OwnedBy
    <2>3. One(y.held) + One(OwnedBy(L, s)) = 1
      <3>1. CASE autofree
        <4>1. ~y.held /\ OwnedBy(L, s)
          BY <1>6, <1>9, <1>11, <3>1, Zenon
        <4>2. One(y.held) = 0 /\ One(OwnedBy(L, s)) = 1
          BY <4>1 DEF One
        <4> QED BY <4>2
      <3>2. CASE ~autofree
        <4>1. y.held /\ ~OwnedBy(L, s)
          BY <1>6, <1>9, <1>11, <3>2, Zenon
        <4>2. One(y.held) = 1 /\ One(OwnedBy(L, s)) = 0
          BY <4>1 DEF One
        <4> QED BY <4>2
      <3> QED BY <3>1, <3>2
    <2>4. x.refs = 1 + d + k + 0 /\ x.refs # 0
      BY <2>1, <2>2
    <2>5. y.refs = One(y.held) + One(OwnedBy(L, s)) + One(Contains(sure, s)) + Cardinality(CallsOf(stack, s)) + 0
      BY <1>11, <2>1, <2>3, <2>4
    <2>6. Counted(s, y, L, sure, stack, 0)
      BY <2>5 DEF Counted
    <2>7. y.refs # 0 /\ (Contains(sure, s) => On(L, s) \/ y.closed)
      BY <1>6, <1>11, <2>4
    <2> QED BY <1>2, <1>11, <2>6, <2>7, PlainSound
  <1>15. ASSUME NEW t \in Streams PROVE Sound(t, obj'[t], L, sure, stack, wvstime, 0)
    <2>1. CASE t = s
      BY <1>13, <1>14, <2>1
    <2>2. CASE t # s
      <3>1. Sound(t, obj[t], list, sure, stack, wvstime, 0)
        BY InvSound
      <3>2. (On(L, t) <=> On(list, t)) /\ (OwnedBy(L, t) <=> OwnedBy(list, t)) /\ (Contains(sure, t) <=> Contains(sure, t))
        BY <1>6, <2>2
      <3>3. Sound(t, obj[t], L, sure, stack, wvstime, 0)
        BY <3>1, <3>2, OtherLists
      <3> QED BY <1>13, <2>2, <3>3
    <2> QED BY <2>1, <2>2
  <1>16. Nested(stack) /\ Zapped(stack, sure)
    BY <1>2, PlainFacts
  <1>17. Good(obj', L, sure, stack, wvstime)
    BY <1>1, <1>6, <1>13, <1>15, <1>16 DEF Good
  <1>18. Good(obj', list', sure', stack', wvstime')
    BY <1>2, <1>3, <1>5, <1>17
  <1> QED BY <1>2, <1>18, GoodInv

\* A stream that is on no list any more.
LEMMA OffSound ==
    ASSUME NEW s, NEW y, NEW L, NEW Q, NEW st \in Seq(FrameRec), Plain(st), NEW w, NEW e \in Nat, Timely(y, w),
           ~On(L, s), ~OwnedBy(L, s), ~Contains(Q, s), NEW a \in Nat, a = One(y.held),
           NEW k \in Nat, k = Cardinality(CallsOf(st, s)), y.refs = a + k + e, y.refs # 0 \/ y.call_ctx = "null"
    PROVE  Sound(s, y, L, Q, st, w, e)
  <1>1. One(OwnedBy(L, s)) = 0 /\ One(Contains(Q, s)) = 0
    BY DEF One
  <1>2. y.refs = a + 0 + 0 + k + e
    OBVIOUS
  <1>3. y.refs = One(y.held) + One(OwnedBy(L, s)) + One(Contains(Q, s)) + Cardinality(CallsOf(st, s)) + e
    BY <1>1, <1>2
  <1>4. Counted(s, y, L, Q, st, e)
    BY <1>3 DEF Counted
  <1>5. y.refs # 0 \/ (~On(L, s) /\ y.call_ctx = "null")
    OBVIOUS
  <1>6. Contains(Q, s) => On(L, s) \/ y.closed
    OBVIOUS
  <1> QED BY <1>4, <1>5, <1>6, PlainSound

\* unlink(), once it is known which references it drops.
LEMMA UnlinkEnds ==
    ASSUME ListInv, Plain(stack), NEW s \in Streams, list' = Without(list, s), sure' = SureWithout(sure, s),
           NEW y \in Stream, NEW o, o = [obj EXCEPT ![s] = y], NEW q \in Seq(Streams), \A t : t # s => ~Contains(q, t),
           Sound(s, y, list', sure', stack, wvstime, One(Contains(q, s))),
           ReleaseAll(o, stack, q), wvstime' = wvstime, clock' \in Int, budget' \in Nat
    PROVE  ListInv'
  <1>1. /\ obj \in [Streams -> Stream] /\ list \in Seq(LinkRec) /\ sure \in Seq(Streams)
        /\ stack \in Seq(FrameRec) /\ wvstime \in Int /\ DistinctLinks(list) /\ Distinct(sure)
    BY InvFacts
  <1>2. PICK L, Q : L = list' /\ Q = sure'
    OBVIOUS
  <1>3. /\ L \in Seq(LinkRec) /\ DistinctLinks(L) /\ ~On(L, s) /\ ~OwnedBy(L, s)
        /\ \A t : t # s => (On(L, t) <=> On(list, t)) /\ (OwnedBy(L, t) <=> OwnedBy(list, t))
    BY <1>1, <1>2, WithoutFacts
  <1>4. /\ Q \in Seq(Streams) /\ Distinct(Q) /\ ~Contains(Q, s)
        /\ \A t : t # s => (Contains(Q, t) <=> Contains(sure, t))
    BY <1>1, <1>2, SureWithoutFacts
  <1>5. o \in [Streams -> Stream] /\ o[s] = y /\ \A t \in Streams : t # s => o[t] = obj[t]
    BY <1>1
  <1>6. ASSUME NEW t \in Streams PROVE Sound(t, o[t], L, Q, stack, wvstime, One(Contains(q, t)))
    <2>1. CASE t = s
      BY <1>2, <1>5, <2>1
    <2>2. CASE t # s
      <3>1. One(Contains(q, t)) = 0
        BY <2>2 DEF One
      <3>2. Sound(t, obj[t], list, sure, stack, wvstime, 0)
        BY InvSound
      <3>3. (On(L, t) <=> On(list, t)) /\ (OwnedBy(L, t) <=> OwnedBy(list, t)) /\ (Contains(Q, t) <=> Contains(sure, t))
        BY <1>3, <1>4, <2>2
      <3>4. Sound(t, obj[t], L, Q, stack, wvstime, 0)
        BY <3>2, <3>3, OtherLists
      <3> QED BY <1>5, <2>2, <3>1, <3>4
    <2> QED BY <2>1, <2>2
  <1>7. Nested(stack) /\ Zapped(stack, Q) /\ NoFinish(stack)
    BY PlainFacts
  <1>8. Before(o, L, Q, stack, q, wvstime)
    BY <1>6, <1>7 DEF Before
  <1>9. /\ list' \in Seq(LinkRec) /\ sure' \in Seq(Streams) /\ wvstime' \in Int
        /\ Before(o, list', sure', stack, q, wvstime') /\ DistinctLinks(list') /\ Distinct(sure')
    BY <1>1, <1>2, <1>3, <1>4, <1>8
  <1> QED BY <1>1, <1>5, <1>9, ReleaseStep

LEMMA UnlinkStep ==
    ASSUME ListInv, NEW s \in Streams, unlink(s)
    PROVE  ListInv'
  <1>1. /\ obj \in [Streams -> Stream] /\ list \in Seq(LinkRec) /\ sure \in Seq(Streams)
        /\ stack \in Seq(FrameRec) /\ wvstime \in Int /\ DistinctLinks(list) /\ Distinct(sure)
    BY InvFacts
  <1>2. Plain(stack) /\ budget' \in Nat /\ clock' \in Int /\ wvstime' = wvstime
    BY ActsFacts DEF unlink
  <1>3. list' = Without(list, s) /\ sure' = SureWithout(sure, s)
    BY DEF unlink
  <1>4. Owned(s) <=> OwnedBy(list, s)
    BY <1>1 DEF Owned, OwnedBy
  <1>5. PICK L, Q : L = list' /\ Q = sure'
    OBVIOUS
  <1>6. ~On(L, s) /\ ~OwnedBy(L, s)
    BY <1>1, <1>3, <1>5, WithoutFacts
  <1>7. ~Contains(Q, s)
    BY <1>1, <1>3, <1>5, SureWithoutFacts
  <1>8. PICK x \in Stream : x = obj[s]
    BY <1>1
  <1>9. Sound(s, x, list, sure, stack, wvstime, 0) /\ Timely(x, wvstime)
    BY <1>8, InvSound
  <1>10. Adds(s, x, list, sure, stack)
    BY <1>1, <1>9, CountFacts
  <1>11. PICK a \in Nat, b \in Nat, d \in Nat, k \in Nat :
              /\ a = One(x.held) /\ b = One(OwnedBy(list, s)) /\ d = One(Contains(sure, s))
              /\ k = Cardinality(CallsOf(stack, s)) /\ x.refs = a + b + d + k
    BY <1>10 DEF Adds
  <1>12. PICK q1, q0 : q1 = <<s>> /\ q0 = << >>
    OBVIOUS
  <1>13. q1 \in Seq(Streams) /\ Contains(q1, s) /\ \A t : t # s => ~Contains(q1, t)
    BY <1>12, SingleFacts
  <1>14. q0 \in Seq(Streams) /\ \A t : ~Contains(q0, t)
    BY <1>12, NoneFacts
  <1>15. One(Contains(q1, s)) = 1 /\ One(Contains(q0, s)) = 0
    BY <1>13, <1>14 DEF One
  <1>16. obj = [obj EXCEPT ![s] = x]
    BY <1>1, <1>8
  <1>17. CASE Contains(sure, s) /\ Owned(s)
    <2>1. b = 1 /\ d = 1
      BY <1>4, <1>11, <1>17 DEF One
    <2>2. PICK n \in Nat : n = a + k + 1
      OBVIOUS
    <2>3. x.refs - 1 = n /\ n # 0
      BY <1>11, <2>1, <2>2
    <2>4. PICK y : y = [x EXCEPT !.refs = n]
      OBVIOUS
    <2>5. /\ y \in Stream /\ y.refs = n /\ y.held = x.held /\ y.closed = x.closed
          /\ y.call_ctx = x.call_ctx /\ Timely(y, wvstime)
      BY <1>9, <2>4, RefsFacts
    <2>6. a = One(y.held) /\ y.refs = a + k + 1 /\ y.refs # 0 /\ 1 \in Nat
      BY <1>11, <2>2, <2>3, <2>5
    <2>7. Sound(s, y, L, Q, stack, wvstime, 1)
      BY <1>1, <1>2, <1>6, <1>7, <1>11, <2>5, <2>6, OffSound
    <2>8. PICK o : o = [obj EXCEPT ![s] = y]
      OBVIOUS
    <2>9. o = [obj EXCEPT ![s].refs = @ - 1]
      BY <1>1, <1>8, <2>3, <2>4, <2>8
    <2>10. ReleaseAll(o, stack, q1)
      BY <1>12, <1>17, <2>9 DEF unlink
    <2>11. Sound(s, y, list', sure', stack, wvstime, One(Contains(q1, s)))
      BY <1>5, <1>15, <2>7
    <2> QED BY <1>2, <1>3, <1>13, <2>5, <2>8, <2>10, <2>11, UnlinkEnds
  <1>18. CASE ~(Contains(sure, s) /\ Owned(s)) /\ (Contains(sure, s) \/ Owned(s))
    <2>1. b + d = 1
      <3>1. CASE Contains(sure, s)
        BY <1>4, <1>11, <1>18, <3>1 DEF One
      <3>2. CASE ~Contains(sure, s)
        BY <1>4, <1>11, <1>18, <3>2 DEF One
      <3> QED BY <3>1, <3>2
    <2>2. x.refs = a + k + 1 /\ x.refs # 0 /\ 1 \in Nat
      BY <1>11, <2>1
    <2>3. Sound(s, x, L, Q, stack, wvstime, 1)
      BY <1>1, <1>2, <1>6, <1>7, <1>9, <1>11, <2>2, OffSound
    <2>4. ReleaseAll(obj, stack, q1)
      BY <1>12, <1>18 DEF unlink
    <2>5. Sound(s, x, list', sure', stack, wvstime, One(Contains(q1, s)))
      BY <1>5, <1>15, <2>3
    <2> QED BY <1>2, <1>3, <1>13, <1>16, <2>4, <2>5, UnlinkEnds
  <1>19. CASE ~Contains(sure, s) /\ ~Owned(s)
    <2>1. b = 0 /\ d = 0
      BY <1>4, <1>11, <1>19 DEF One
    <2>2. x.refs = a + k + 0 /\ 0 \in Nat
      BY <1>11, <2>1
    <2>3. x.refs # 0 \/ x.call_ctx = "null"
      <3>1. ~Has(stack, "destroy", s)
        BY <1>2 DEF Plain, Has, Final
      <3> QED BY <1>9, <3>1 DEF Sound, Dead
    <2>4. Sound(s, x, L, Q, stack, wvstime, 0)
      BY <1>1, <1>2, <1>6, <1>7, <1>9, <1>11, <2>2, <2>3, OffSound
    <2>5. ReleaseAll(obj, stack, q0)
      BY <1>12, <1>19 DEF unlink
    <2>6. Sound(s, x, list', sure', stack, wvstime, One(Contains(q0, s)))
      BY <1>5, <1>15, <2>4
    <2> QED BY <1>2, <1>3, <1>14, <1>16, <2>5, <2>6, UnlinkEnds
  <1> QED BY <1>17, <1>18, <1>19

-----------------------------------------------------------------------------
(* execute() on the list.                                                  *)

\* sure_thing without its head.
LEMMA TailFacts ==
    ASSUME NEW q \in Seq(Streams), q # << >>, Distinct(q), NEW s, s = Head(q), NEW r, r = Tail(q)
    PROVE  /\ s \in Streams /\ r \in Seq(Streams) /\ Distinct(r) /\ Contains(q, s) /\ ~Contains(r, s)
           /\ \A t : t # s => (Contains(r, t) <=> Contains(q, t))
  <1>1. PICK l \in Nat : Len(q) = l
    OBVIOUS
  <1>2. l > 0 /\ 1 \in 1..Len(q)
    BY <1>1
  <1>3. s = q[1] /\ s \in Streams /\ Contains(q, s)
    BY <1>2 DEF Contains
  <1>4. r \in Seq(Streams) /\ Len(r) = l - 1 /\ \A i \in 1..Len(r) : r[i] = q[i + 1]
    BY <1>1, <1>2
  <1>5. \A i \in 1..Len(r) : i + 1 \in 1..Len(q) /\ i + 1 # 1
    BY <1>1, <1>4
  <1>6. \A i \in 1..Len(q) : i = 1 \/ (i - 1 \in 1..Len(r) /\ i = (i - 1) + 1)
    BY <1>1, <1>4
  <1>7. ASSUME NEW i \in 1..Len(r), NEW j \in 1..Len(r), r[i] = r[j] PROVE i = j
    <2>1. i + 1 = j + 1
      BY <1>4, <1>5, <1>7 DEF Distinct
    <2> QED BY <2>1
  <1>8. Distinct(r)
    BY <1>7 DEF Distinct
  <1>9. ASSUME NEW i \in 1..Len(r), r[i] = s PROVE FALSE
    <2>1. q[i + 1] = q[1] /\ i + 1 \in 1..Len(q)
      BY <1>3, <1>4, <1>5, <1>9
    <2>2. i + 1 = 1
      BY <1>2, <2>1 DEF Distinct
    <2> QED BY <1>5, <2>2
  <1>10. ~Contains(r, s)
    BY <1>9 DEF Contains
  <1>11. ASSUME NEW t, t # s PROVE Contains(r, t) <=> Contains(q, t)
    <2>1. ASSUME NEW i \in 1..Len(r), r[i] = t PROVE Contains(q, t)
      BY <1>4, <1>5, <2>1 DEF Contains
    <2>2. ASSUME NEW i \in 1..Len(q), q[i] = t PROVE Contains(r, t)
      <3>1. i # 1
        BY <1>3, <1>11, <2>2
      <3>2. i - 1 \in 1..Len(r) /\ r[i - 1] = q[i]
        BY <1>4, <1>6, <3>1
      <3> QED BY <2>2, <3>2 DEF Contains
    <2> QED BY <2>1, <2>2 DEF Contains
  <1> QED BY <1>3, <1>4, <1>8, <1>10, <1>11

\* A call more.
LEMMA PushCall ==
    ASSUME NEW st \in Seq(FrameRec), NEW s, NEW f \in FrameRec, f.kind = "callback", f.stream = s, NEW p, p = Append(st, f)
    PROVE  /\ Cardinality(CallsOf(st, s)) \in Nat
           /\ Cardinality(CallsOf(p, s)) = Cardinality(CallsOf(st, s)) + 1
  <1>1. Pushed(p, st, f, s)
    BY PushCounts
  <1>2. PICK C, n : C = CallsOf(st, s) /\ n = Len(p)
    OBVIOUS
  <1>3. CallsOf(p, s) = C \cup {n} /\ n \notin C
    BY <1>1, <1>2 DEF Pushed
  <1>4. IsFiniteSet(C) /\ Cardinality(C) \in Nat
    BY <1>2, CallsFinite
  <1>5. Cardinality(C \cup {n}) = Cardinality(C) + 1
    BY <1>3, <1>4, FS_AddElement
  <1> QED BY <1>2, <1>3, <1>4, <1>5

LEMMA PushCallOther ==
    ASSUME NEW st \in Seq(FrameRec), NEW t, NEW f \in FrameRec, f.kind = "callback", f.stream # t, NEW p, p = Append(st, f)
    PROVE  SameCalls(p, st, t)
  <1>1. Pushed(p, st, f, t)
    BY PushCounts
  <1> QED BY <1>1 DEF Pushed, SameCalls

\* sure_thing's reference becomes execute()'s.
LEMMA CalledSound ==
    ASSUME NEW s, NEW x, NEW L, NEW Q, NEW st \in Seq(FrameRec), NEW w, Sound(s, x, L, Q, st, w, 0), Contains(Q, s),
           NEW y, y.refs = x.refs, y.held = x.held, Timely(y, w),
           NEW R, ~Contains(R, s), NEW p, Plain(p), Cardinality(CallsOf(st, s)) \in Nat,
           Cardinality(CallsOf(p, s)) = Cardinality(CallsOf(st, s)) + 1
    PROVE  Sound(s, y, L, R, p, w, 0)
  <1>1. Adds(s, x, L, Q, st)
    BY CountFacts
  <1>2. One(Contains(Q, s)) = 1 /\ One(Contains(R, s)) = 0
    BY DEF One
  <1>3. PICK a \in Nat, b \in Nat, k \in Nat :
            a = One(x.held) /\ b = One(OwnedBy(L, s)) /\ k = Cardinality(CallsOf(st, s)) /\ x.refs = a + b + 1 + k
    BY <1>1, <1>2 DEF Adds
  <1>4. x.refs = a + b + 0 + (k + 1) + 0 /\ x.refs # 0
    <2>1. a + b + 1 + k = a + b + 0 + (k + 1) + 0 /\ a + b + 1 + k # 0
      OBVIOUS
    <2> QED BY <1>3, <2>1
  <1>5. y.refs = One(y.held) + One(OwnedBy(L, s)) + One(Contains(R, s)) + Cardinality(CallsOf(p, s)) + 0
    BY <1>2, <1>3, <1>4
  <1>6. Counted(s, y, L, R, p, 0) /\ y.refs # 0
    BY <1>4, <1>5 DEF Counted
  <1>7. Contains(R, s) => On(L, s) \/ y.closed
    OBVIOUS
  <1> QED BY <1>6, <1>7, PlainSound

\* The stream as its callback starts.
AsResumed(u) == IF u.call_ctx = "paused" THEN Resumed(u) ELSE u
AsCalled(s, v) == IF s \in Suspending THEN [v EXCEPT !.call_ctx = "active"] ELSE v

LEMMA CalledFacts ==
    ASSUME NEW x \in Stream, wvstime \in Int, Timely(x, wvstime), NEW u, u = Ticked(x),
           NEW v, v = AsResumed(u), NEW s, NEW z, z = AsCalled(s, v)
    PROVE  z \in Stream /\ z.refs = x.refs /\ z.held = x.held /\ Timely(z, wvstime)
  <1>1. SameCore(x, u) /\ Timely(u, wvstime)
    BY TickedFacts
  <1>2. u \in Stream /\ u.refs = x.refs /\ u.held = x.held /\ ~u.early
    BY <1>1 DEF SameCore, Timely
  <1>3. v \in Stream /\ v.refs = x.refs /\ v.held = x.held /\ Timely(v, wvstime)
    <2>1. CASE u.call_ctx = "paused"
      <3>1. v = Cancelled(u)
        BY <2>1 DEF AsResumed, Resumed
      <3>2. SameCore(u, v) /\ v.alarm_time = None /\ v.early = u.early
        BY <1>2, <3>1, CancelledFacts
      <3>3. Timely(v, wvstime)
        BY <1>2, <3>2, NoAlarmTimely
      <3> QED BY <1>2, <3>2, <3>3 DEF SameCore
    <2>2. CASE u.call_ctx # "paused"
      <3>1. v = u
        BY <2>2 DEF AsResumed
      <3> QED BY <1>1, <1>2, <3>1
    <2> QED BY <2>1, <2>2
  <1>4. CASE s \in Suspending
    <2>1. PICK c \in Contexts : c = "active"
      BY DEF Contexts
    <2>2. z = [v EXCEPT !.call_ctx = c]
      BY <1>4, <2>1 DEF AsCalled
    <2>3. /\ z \in Stream /\ z.refs = v.refs /\ z.held = v.held /\ z.closed = v.closed
          /\ z.call_ctx = c /\ Timely(z, wvstime)
      BY <1>3, <2>2, ContextFacts
    <2> QED BY <1>3, <2>3
  <1>5. CASE s \notin Suspending
    <2>1. z = v
      BY <1>5 DEF AsCalled
    <2> QED BY <1>3, <2>1
  <1> QED BY <1>4, <1>5

\* wvstime moves, in a state that is right otherwise.
LEMMA SyncedGood ==
    ASSUME NEW o, NEW L, NEW Q, NEW st, Good(o, L, Q, st, wvstime), NEW t \in Int, NEW o1, o1 = Synced(o, t)
    PROVE  Good(o1, L, Q, st, t)
  <1>1. /\ o \in [Streams -> Stream] /\ L \in Seq(LinkRec) /\ Q \in Seq(Streams) /\ st \in Seq(FrameRec) /\ wvstime \in Int
        /\ DistinctLinks(L) /\ Distinct(Q) /\ Nested(st) /\ Zapped(st, Q)
        /\ \A s \in Streams : Sound(s, o[s], L, Q, st, wvstime, 0)
    BY DEF Good
  <1>2. ASSUME NEW s \in Streams PROVE o1[s] \in Stream /\ Sound(s, o1[s], L, Q, st, t, 0)
    <2>1. Sound(s, o[s], L, Q, st, wvstime, 0) /\ Timely(o[s], wvstime)
      BY <1>1 DEF Sound
    <2>2. PICK y : y = o1[s]
      OBVIOUS
    <2>3. y = Synced(o, t)[s]
      BY <2>2
    <2>4. SameCore(o[s], y) /\ Timely(y, t)
      BY <1>1, <2>1, <2>3, SyncedFacts
    <2>5. Sound(s, y, L, Q, st, t, 0)
      BY <2>1, <2>4, SoundCore
    <2> QED BY <2>2, <2>4, <2>5 DEF SameCore
  <1>3. o1 \in [Streams -> Stream]
    <2>1. o1 = [s \in Streams |-> o1[s]]
      BY DEF Synced
    <2> QED BY <1>2, <2>1
  <1> QED BY <1>1, <1>2, <1>3 DEF Good

LEMMA ExecuteNextStep ==
    ASSUME ListInv, execute_next
    PROVE  ListInv'
  <1>1. /\ obj \in [Streams -> Stream] /\ list \in Seq(LinkRec) /\ sure \in Seq(Streams)
        /\ stack \in Seq(FrameRec) /\ clock \in Int /\ wvstime \in Int /\ budget \in Nat
        /\ DistinctLinks(list) /\ Distinct(sure) /\ Nested(stack) /\ Zapped(stack, sure)
    BY InvFacts
  <1>2. AtTop("execute") /\ sure # << >> /\ list' = list /\ clock' = clock /\ budget' = budget
    BY DEF execute_next
  <1>3. PICK s, R : s = Head(sure) /\ R = Tail(sure)
    OBVIOUS
  <1>4. /\ s \in Streams /\ R \in Seq(Streams) /\ Distinct(R) /\ Contains(sure, s) /\ ~Contains(R, s)
        /\ \A t : t # s => (Contains(R, t) <=> Contains(sure, t))
    BY <1>1, <1>2, <1>3, TailFacts
  <1>5. PICK x \in Stream : x = obj[s]
    BY <1>1, <1>4
  <1>6. Sound(s, x, list, sure, stack, wvstime, 0) /\ Timely(x, wvstime)
    BY <1>4, <1>5, InvSound
  <1>7. PICK u : u = Ticked(x)
    OBVIOUS
  <1>8. PICK v : v = AsResumed(u)
    OBVIOUS
  <1>9. PICK z : z = AsCalled(s, v)
    OBVIOUS
  <1>10. z \in Stream /\ z.refs = x.refs /\ z.held = x.held /\ Timely(z, wvstime)
    BY <1>1, <1>6, <1>7, <1>8, <1>9, CalledFacts
  <1>11. PICK now \in Int : now = IF u.call_ctx = "paused" /\ u.alarm_was_ticking THEN clock ELSE wvstime
    BY <1>1
  <1>12. PICK o : o = [obj EXCEPT ![s] = z]
    OBVIOUS
  <1>13. obj' = Synced(o, now) /\ wvstime' = now /\ sure' = R /\ stack' = Append(stack, Frame("callback", s))
    BY <1>3, <1>5, <1>7, <1>8, <1>9, <1>11, <1>12 DEF execute_next, AsResumed, AsCalled
  <1>14. PICK kind \in Kinds : kind = "callback"
    BY DEF Kinds
  <1>15. PICK f \in FrameRec : f = Frame("callback", s) /\ f.kind = "callback" /\ f.stream = s
    BY <1>4, <1>14, FrameFacts
  <1>16. PICK p : p = Append(stack, f)
    OBVIOUS
  <1>17. "execute" \in Kinds
    BY DEF Kinds
  <1>18. stack # << >> /\ stack[Len(stack)].kind = "execute"
    BY <1>1, <1>2, <1>17, TopFacts
  <1>19. stack[Len(stack)].kind \notin {"destroy", "finish"} /\ stack[Len(stack)].kind # "select"
    BY <1>18
  <1>20. Plain(stack)
    <2>1. PICK r : r = Front(stack)
      OBVIOUS
    <2> QED BY <1>1, <1>18, <1>19, <2>1, PlainBelow
  <1>21. f.kind \notin Final
    BY <1>15 DEF Final
  <1>22. p \in Seq(FrameRec) /\ Plain(p)
    BY <1>1, <1>16, <1>20, <1>21, PlainPush
  <1>23. Nested(p) /\ Zapped(p, R)
    BY <1>22, PlainFacts
  <1>24. /\ Cardinality(CallsOf(stack, s)) \in Nat
         /\ Cardinality(CallsOf(p, s)) = Cardinality(CallsOf(stack, s)) + 1
    BY <1>1, <1>15, <1>16, PushCall
  <1>25. Sound(s, z, list, R, p, wvstime, 0)
    BY <1>1, <1>4, <1>6, <1>10, <1>22, <1>24, CalledSound
  <1>26. o \in [Streams -> Stream] /\ o[s] = z /\ \A t \in Streams : t # s => o[t] = obj[t]
    BY <1>1, <1>4, <1>10, <1>12
  <1>27. ASSUME NEW t \in Streams PROVE Sound(t, o[t], list, R, p, wvstime, 0)
    <2>1. CASE t = s
      BY <1>25, <1>26, <2>1
    <2>2. CASE t # s
      <3>1. Sound(t, obj[t], list, sure, stack, wvstime, 0)
        BY InvSound
      <3>2. (On(list, t) <=> On(list, t)) /\ (OwnedBy(list, t) <=> OwnedBy(list, t)) /\ (Contains(R, t) <=> Contains(sure, t))
        BY <1>4, <2>2
      <3>3. Sound(t, obj[t], list, R, stack, wvstime, 0)
        BY <3>1, <3>2, OtherLists
      <3>4. f.stream # t
        BY <1>15, <2>2
      <3>5. SameCalls(p, stack, t)
        BY <1>1, <1>15, <1>16, <3>4, PushCallOther
      <3>6. Sound(t, obj[t], list, R, p, wvstime, 0)
        BY <3>3, <3>5, SameCallsSound
      <3> QED BY <1>26, <2>2, <3>6
    <2> QED BY <2>1, <2>2
  <1>28. Good(o, list, R, p, wvstime)
    BY <1>1, <1>4, <1>22, <1>23, <1>26, <1>27 DEF Good
  <1>29. PICK o1 : o1 = Synced(o, now)
    OBVIOUS
  <1>30. Good(o1, list, R, p, now)
    BY <1>28, <1>29, SyncedGood
  <1>31. Good(obj', list', sure', stack', wvstime') /\ clock' \in Int /\ budget' \in Nat
    BY <1>1, <1>2, <1>13, <1>15, <1>16, <1>29, <1>30
  <1> QED BY <1>31, GoodInv

-----------------------------------------------------------------------------
(* select() on the list.                                                   *)

\* Every stream after wvstime_sync(), and after its alarm was looked at.
LEMMA LookedFacts ==
    ASSUME ListInv, NEW now \in Int, NEW s \in Streams, NEW z, z = SyncedAndChecked(now)[s]
    PROVE  SameCore(obj[s], z) /\ Timely(z, now)
  <1>1. obj \in [Streams -> Stream] /\ wvstime \in Int
    BY InvFacts
  <1>2. obj[s] \in Stream /\ Timely(obj[s], wvstime)
    BY InvSound
  <1>3. PICK y : y = Synced(obj, now)[s]
    OBVIOUS
  <1>4. SameCore(obj[s], y) /\ Timely(y, now)
    BY <1>1, <1>2, <1>3, SyncedFacts
  <1>5. z = IF Listed(s) THEN Checked(y, now) ELSE y
    BY <1>3 DEF SyncedAndChecked
  <1>6. CASE Listed(s)
    <2>1. z = Checked(y, now) /\ y \in Stream
      BY <1>4, <1>5, <1>6 DEF SameCore
    <2>2. SameCore(y, z) /\ Timely(z, now)
      BY <1>4, <2>1, CheckedFacts
    <2>3. SameCore(obj[s], z)
      BY <1>4, <2>2 DEF SameCore
    <2> QED BY <2>2, <2>3
  <1>7. CASE ~Listed(s)
    BY <1>4, <1>5, <1>7
  <1> QED BY <1>6, <1>7

LEMMA LookedType ==
    ASSUME ListInv, NEW now \in Int, NEW o, o = SyncedAndChecked(now)
    PROVE  o \in [Streams -> Stream]
  <1>1. ASSUME NEW s \in Streams PROVE o[s] \in Stream
    <2>1. PICK z : z = SyncedAndChecked(now)[s]
      OBVIOUS
    <2>2. SameCore(obj[s], z)
      BY <2>1, LookedFacts
    <2> QED BY <2>1, <2>2 DEF SameCore
  <1>2. o = [s \in Streams |-> o[s]]
    BY DEF SyncedAndChecked
  <1> QED BY <1>1, <1>2

LEMMA LookedSound ==
    ASSUME ListInv, NEW now \in Int, NEW s \in Streams, NEW z, z = SyncedAndChecked(now)[s]
    PROVE  Sound(s, z, list, sure, stack, now, 0)
  <1>1. SameCore(obj[s], z) /\ Timely(z, now)
    BY LookedFacts
  <1>2. Sound(s, obj[s], list, sure, stack, wvstime, 0)
    BY InvSound
  <1> QED BY <1>1, <1>2, SoundCore

\* A timeout is a number.
LEMMA TimeoutType ==
    ASSUME NEW o \in [Streams -> Stream], NEW T \in SUBSET Streams, NEW now \in Int
    PROVE  TimeoutOf(o, T, now) \in Int
  <1>1. PICK left : left = {Remaining(o[s], now) : s \in T} \ {-1}
    OBVIOUS
  <1>2. ASSUME NEW s \in T, Remaining(o[s], now) # -1 PROVE Remaining(o[s], now) \in Nat
    <2>1. PICK x \in Stream : x = o[s]
      OBVIOUS
    <2>2. x.alarm_time # None
      BY <1>2, <2>1 DEF Remaining
    <2>3. PICK a \in Int : a = x.alarm_time
      BY <2>2 DEF Stream
    <2>4. Remaining(x, now) = IF a < now THEN 0 ELSE a - now
      BY <2>2, <2>3 DEF Remaining
    <2>5. (IF a < now THEN 0 ELSE a - now) \in Nat
      OBVIOUS
    <2> QED BY <2>1, <2>4, <2>5
  <1>3. left \subseteq Nat
    BY <1>1, <1>2
  <1>4. TimeoutOf(o, T, now) = IF \E s \in T : o[s].closed THEN 0
                               ELSE IF left = {} THEN -1
                               ELSE CHOOSE d \in left : \A e \in left : d <= e
    BY <1>1 DEF TimeoutOf
  <1>5. ASSUME left # {} PROVE (CHOOSE d \in left : \A e \in left : d <= e) \in Int
    <2>1. \E d \in left : \A e \in left : d <= e
      BY <1>3, <1>5, LeastNatural
    <2>2. PICK m : m = CHOOSE d \in left : \A e \in left : d <= e
      OBVIOUS
    <2>3. m \in left
      BY <2>1, <2>2
    <2>4. m \in Int
      BY <1>3, <2>3
    <2> QED BY <2>2, <2>4, Zenon
  <1> QED BY <1>4, <1>5

\* Zapping sure_thing.
LEMMA ZapSound ==
    ASSUME NEW s, NEW x, NEW L, NEW Q, NEW st \in Seq(FrameRec), NEW w, Sound(s, x, L, Q, st, w, 0), NEW R, R = << >>
    PROVE  Sound(s, x, L, R, st, w, One(Contains(Q, s)))
  <1>1. Dead(s, x, L, st) /\ Timely(x, w)
    BY DEF Sound
  <1>2. Adds(s, x, L, Q, st)
    BY CountFacts
  <1>3. ~Contains(R, s)
    BY DEF Contains
  <1>4. One(Contains(R, s)) = 0
    BY <1>3 DEF One
  <1>5. PICK a \in Nat, b \in Nat, d \in Nat, k \in Nat :
            /\ a = One(x.held) /\ b = One(OwnedBy(L, s)) /\ d = One(Contains(Q, s)) /\ k = Cardinality(CallsOf(st, s))
            /\ x.refs = a + b + d + k
    BY <1>2 DEF Adds
  <1>6. x.refs = a + b + 0 + k + d
    BY <1>5
  <1>7. Counted(s, x, L, R, st, One(Contains(Q, s)))
    BY <1>4, <1>5, <1>6 DEF Counted
  <1> QED BY <1>1, <1>3, <1>7 DEF Sound

LEMMA PreSelectStep ==
    ASSUME ListInv, pre_select
    PROVE  ListInv'
  <1>1. /\ obj \in [Streams -> Stream] /\ list \in Seq(LinkRec) /\ sure \in Seq(Streams)
        /\ stack \in Seq(FrameRec) /\ clock \in Int /\ wvstime \in Int /\ budget \in Nat
        /\ DistinctLinks(list) /\ Distinct(sure) /\ Nested(stack) /\ Zapped(stack, sure)
    BY InvFacts
  <1>2. MayRunList /\ wvstime' = clock /\ sure' = << >> /\ list' = list /\ clock' = clock
    BY DEF pre_select
  <1>3. budget' \in Nat
    BY <1>1 DEF pre_select, MayRunList
  <1>4. UserCode
    BY <1>2 DEF MayRunList, UserCode
  <1>5. Plain(stack)
    BY <1>1, <1>4, UserPlain
  <1>6. PICK o : o = SyncedAndChecked(clock)
    OBVIOUS
  <1>7. o \in [Streams -> Stream]
    BY <1>1, <1>6, LookedType
  <1>8. PICK T \in SUBSET Streams : T = {s \in Streams : Listed(s)} \ ToSet(Dying(obj, sure))
    OBVIOUS
  <1>9. PICK t \in Int : t = TimeoutOf(o, T, clock)
    BY <1>1, <1>7, TimeoutType
  <1>10. PICK f : f = [Frame("select", None) EXCEPT !.timeout = t]
    OBVIOUS
  <1>11. f \in FrameRec /\ f.kind = "select"
    <2>1. f = [kind |-> "select", stream |-> None, timeout |-> t]
      BY <1>10 DEF Frame
    <2>2. f.kind = "select" /\ f \in [kind : Kinds, stream : Streams \cup {None}, timeout : Int]
      BY <2>1 DEF Kinds
    <2> QED BY <2>2 DEF FrameRec, OfStream
  <1>12. PICK p : p = Append(stack, f)
    OBVIOUS
  <1>13. PICK R : R = << >>
    OBVIOUS
  <1>14. ReleaseAll(o, p, sure)
    BY <1>6, <1>8, <1>9, <1>10, <1>12 DEF pre_select
  <1>15. p \in Seq(FrameRec) /\ Nested(p) /\ Zapped(p, << >>) /\ (f.kind # "finish" => NoFinish(p))
    BY <1>1, <1>5, <1>11, <1>12, PlainPush
  <1>16. NoFinish(p) /\ Zapped(p, R)
    BY <1>11, <1>13, <1>15
  <1>17. f.kind \in {"select", "execute"}
    BY <1>11
  <1>18. ASSUME NEW s \in Streams PROVE Sound(s, o[s], list, R, p, clock, One(Contains(sure, s)))
    <2>1. PICK z : z = SyncedAndChecked(clock)[s]
      OBVIOUS
    <2>2. Sound(s, z, list, sure, stack, clock, 0)
      BY <1>1, <2>1, LookedSound
    <2>3. Sound(s, z, list, R, stack, clock, One(Contains(sure, s)))
      BY <1>1, <1>13, <2>2, ZapSound
    <2>4. SameCalls(p, stack, s)
      BY <1>1, <1>11, <1>12, <1>17, PushOther
    <2>5. Sound(s, z, list, R, p, clock, One(Contains(sure, s)))
      BY <2>3, <2>4, SameCallsSound
    <2> QED BY <1>6, <2>1, <2>5
  <1>19. Before(o, list, R, p, sure, clock)
    BY <1>15, <1>16, <1>18 DEF Before
  <1>20. R \in Seq(Streams) /\ Distinct(R)
    BY <1>13 DEF Distinct
  <1>21. /\ list' \in Seq(LinkRec) /\ sure' \in Seq(Streams) /\ wvstime' \in Int
         /\ Before(o, list', sure', p, sure, wvstime') /\ DistinctLinks(list') /\ Distinct(sure') /\ clock' \in Int
    BY <1>1, <1>2, <1>13, <1>19, <1>20
  <1> QED BY <1>1, <1>3, <1>7, <1>14, <1>15, <1>21, ReleaseStep

\* What post_select() makes of a list with each stream once: the streams of some of its links.
StreamsIn(L) == [i \in DOMAIN L |-> L[i].stream]
StreamsAt(r, L, I) ==
    /\ r \in Seq(Streams) /\ Distinct(r)
    /\ \A s : Contains(r, s) <=> \E i \in I : L[i].stream = s

LEMMA StreamsOf ==
    ASSUME NEW L \in Seq(LinkRec), DistinctLinks(L), NEW q, q = StreamsIn(L),
           NEW I \in SUBSET (1..Len(L)), NEW r, r = Subsequence(q, I)
    PROVE  StreamsAt(r, L, I)
  <1>1. PICK l \in Nat : Len(L) = l /\ DOMAIN L = 1..l
    OBVIOUS
  <1>2. \A i \in 1..l : L[i] \in LinkRec /\ L[i].stream \in Streams
    <2>1. \A i \in 1..l : L[i] \in LinkRec
      BY <1>1
    <2>2. \A f \in LinkRec : f.stream \in Streams
      BY DEF LinkRec
    <2> QED BY <2>1, <2>2
  <1>3. q = [i \in 1..l |-> L[i].stream]
    BY <1>1 DEF StreamsIn
  <1>4. q \in [1..l -> Streams]
    BY <1>2, <1>3
  <1>5. q \in Seq(Streams) /\ Len(q) = l
    BY <1>4
  <1>6. \A i \in 1..l : q[i] = L[i].stream
    BY <1>3
  <1>7. Distinct(q)
    BY <1>1, <1>5, <1>6 DEF Distinct, DistinctLinks
  <1>8. I \in SUBSET (1..Len(q))
    BY <1>1, <1>5
  <1>9. r \in Seq(Streams) /\ Selected(q, I, r) /\ (Distinct(q) => Distinct(r))
    BY <1>5, <1>8, SubsequenceFacts
  <1>10. \A i \in I : q[i] = L[i].stream
    BY <1>1, <1>6
  <1>11. ASSUME NEW s PROVE Contains(r, s) <=> \E i \in I : L[i].stream = s
    <2>1. ASSUME NEW n \in 1..Len(r), r[n] = s PROVE \E i \in I : L[i].stream = s
      <3>1. PICK i \in I : r[n] = q[i]
        BY <1>9 DEF Selected
      <3> QED BY <1>10, <2>1, <3>1
    <2>2. ASSUME NEW i \in I, L[i].stream = s PROVE \E n \in 1..Len(r) : r[n] = s
      <3>1. PICK n \in 1..Len(r) : r[n] = q[i]
        BY <1>9 DEF Selected
      <3> QED BY <1>10, <2>2, <3>1
    <2> QED BY <2>1, <2>2 DEF Contains
  <1> QED BY <1>7, <1>9, <1>11 DEF StreamsAt

\* Pruning a list.
LinksAt(r, L, I) ==
    /\ r \in Seq(LinkRec) /\ DistinctLinks(r)
    /\ \A s : On(r, s) <=> \E i \in I : L[i].stream = s
    /\ \A s : OwnedBy(r, s) <=> \E i \in I : L[i].stream = s /\ L[i].autofree

LEMMA PrunedFacts ==
    ASSUME NEW L \in Seq(LinkRec), DistinctLinks(L), NEW I \in SUBSET (1..Len(L)), NEW r, r = Subsequence(L, I)
    PROVE  LinksAt(r, L, I)
  <1>1. r \in Seq(LinkRec) /\ Selected(L, I, r) /\ DistinctLinks(r)
    BY SelectedLinks
  <1>2. \A n \in 1..Len(r) : \E i \in I : r[n] = L[i]
    BY <1>1 DEF Selected
  <1>3. \A i \in I : \E n \in 1..Len(r) : r[n] = L[i]
    BY <1>1 DEF Selected
  <1>4. ASSUME NEW s PROVE On(r, s) <=> \E i \in I : L[i].stream = s
    <2>1. ASSUME NEW n \in 1..Len(r), r[n].stream = s PROVE \E i \in I : L[i].stream = s
      BY <1>2, <2>1
    <2>2. ASSUME NEW i \in I, L[i].stream = s PROVE \E n \in 1..Len(r) : r[n].stream = s
      <3>1. PICK n \in 1..Len(r) : r[n] = L[i]
        BY <1>3
      <3> QED BY <2>2, <3>1
    <2> QED BY <2>1, <2>2 DEF On
  <1>5. ASSUME NEW s PROVE OwnedBy(r, s) <=> \E i \in I : L[i].stream = s /\ L[i].autofree
    <2>1. ASSUME NEW n \in 1..Len(r), r[n].stream = s, r[n].autofree PROVE \E i \in I : L[i].stream = s /\ L[i].autofree
      BY <1>2, <2>1
    <2>2. ASSUME NEW i \in I, L[i].stream = s, L[i].autofree PROVE \E n \in 1..Len(r) : r[n].stream = s /\ r[n].autofree
      <3>1. PICK n \in 1..Len(r) : r[n] = L[i]
        BY <1>3
      <3> QED BY <2>2, <3>1
    <2> QED BY <2>1, <2>2 DEF OwnedBy
  <1> QED BY <1>1, <1>4, <1>5 DEF LinksAt

\* A stream that post_select() has found ready (g) or closed (c): x before, y after, on list L before,
\* M after, with R the new sure_thing and F the streams whose links were deleted.
Found(s, x, y, L, M, R, F, g, c) ==
    /\ g \in BOOLEAN /\ (Contains(R, s) <=> g) /\ (g => On(L, s))
    /\ c \in BOOLEAN /\ (c => y.closed)
    /\ On(M, s) <=> On(L, s) /\ ~c
    /\ OwnedBy(M, s) <=> OwnedBy(L, s) /\ ~c
    /\ Contains(F, s) <=> OwnedBy(L, s) /\ c
    /\ y.refs = x.refs + One(g) /\ y.held = x.held /\ y.call_ctx = x.call_ctx

\* The references to such a stream.
LEMMA SelectedSound ==
    ASSUME NEW s, NEW x \in Stream, NEW L, NEW Q, Q = << >>, NEW st \in Seq(FrameRec), Plain(st), NEW w,
           Sound(s, x, L, Q, st, w, 0), NEW R, NEW M, NEW F, NEW y \in Stream, NEW g, NEW c,
           Found(s, x, y, L, M, R, F, g, c), Timely(y, w)
    PROVE  Sound(s, y, M, R, st, w, One(Contains(F, s)))
  <1> g \in BOOLEAN /\ (Contains(R, s) <=> g) /\ (g => On(L, s)) /\ c \in BOOLEAN /\ (c => y.closed)
    BY DEF Found
  <1> On(M, s) <=> On(L, s) /\ ~c
    BY DEF Found
  <1> OwnedBy(M, s) <=> OwnedBy(L, s) /\ ~c
    BY DEF Found
  <1> Contains(F, s) <=> OwnedBy(L, s) /\ c
    BY DEF Found
  <1> y.refs = x.refs + One(g) /\ y.held = x.held /\ y.call_ctx = x.call_ctx
    BY DEF Found
  <1>1. Dead(s, x, L, st)
    BY DEF Sound
  <1>2. Adds(s, x, L, Q, st)
    BY CountFacts
  <1>3. ~Contains(Q, s)
    BY DEF Contains
  <1>4. One(Contains(Q, s)) = 0
    BY <1>3 DEF One
  <1>5. PICK a \in Nat, b \in Nat, k \in Nat :
            /\ a = One(x.held) /\ b = One(OwnedBy(L, s)) /\ k = Cardinality(CallsOf(st, s))
            /\ x.refs = a + b + 0 + k
    BY <1>2, <1>4 DEF Adds
  <1>6. PICK d \in Nat : d = One(g) /\ d = One(Contains(R, s))
    BY DEF One
  <1>7. PICK b1 \in Nat, f \in Nat : b1 = One(OwnedBy(M, s)) /\ f = One(Contains(F, s)) /\ b1 + f = b
    <2>1. CASE OwnedBy(L, s) /\ c
      <3>1. One(OwnedBy(M, s)) = 0 /\ One(Contains(F, s)) = 1 /\ b = 1
        BY <1>5, <2>1 DEF One
      <3> QED BY <3>1
    <2>2. CASE OwnedBy(L, s) /\ ~c
      <3>1. One(OwnedBy(M, s)) = 1 /\ One(Contains(F, s)) = 0 /\ b = 1
        BY <1>5, <2>2 DEF One
      <3> QED BY <3>1
    <2>3. CASE ~OwnedBy(L, s)
      <3>1. One(OwnedBy(M, s)) = 0 /\ One(Contains(F, s)) = 0 /\ b = 0
        BY <1>5, <2>3 DEF One
      <3> QED BY <3>1
    <2> QED BY <2>1, <2>2, <2>3
  <1>8. y.refs = a + b1 + d + k + f
    <2>1. y.refs = (a + b + 0 + k) + d
      BY <1>5, <1>6
    <2>2. (a + (b1 + f) + 0 + k) + d = a + b1 + d + k + f
      OBVIOUS
    <2> QED BY <1>7, <2>1, <2>2
  <1>9. y.refs = One(y.held) + One(OwnedBy(M, s)) + One(Contains(R, s)) + Cardinality(CallsOf(st, s)) + f
    BY <1>5, <1>6, <1>7, <1>8
  <1>10. Counted(s, y, M, R, st, f)
    BY <1>9 DEF Counted
  <1>11. y.refs # 0 \/ (~On(M, s) /\ y.call_ctx = "null")
    <2>1. ASSUME y.refs = 0 PROVE ~On(M, s) /\ y.call_ctx = "null"
      <3>1. x.refs = 0
        <4>1. PICK m \in Nat : m = x.refs
          BY DEF Stream
        <4>2. m + d = 0
          BY <1>6, <2>1, <4>1
        <4>3. m = 0
          BY <4>2
        <4> QED BY <4>1, <4>3
      <3>2. ~Has(st, "destroy", s)
        BY DEF Plain, Has, Final
      <3> QED BY <1>1, <3>1, <3>2 DEF Dead
    <2> QED BY <2>1
  <1>12. Contains(R, s) => On(M, s) \/ y.closed
    OBVIOUS
  <1>13. Sound(s, y, M, R, st, w, f)
    BY <1>10, <1>11, <1>12, PlainSound
  <1> QED BY <1>7, <1>13

\* A stream that is put on sure_thing gets a reference.
LEMMA ReferencedFacts ==
    ASSUME NEW x \in Stream, NEW w, Timely(x, w), NEW g \in BOOLEAN,
           NEW y, y = IF g THEN [x EXCEPT !.refs = @ + 1] ELSE x
    PROVE  /\ y \in Stream /\ y.refs = x.refs + One(g) /\ y.held = x.held /\ y.closed = x.closed
           /\ y.call_ctx = x.call_ctx /\ Timely(y, w)
  <1>1. x.refs \in Nat
    BY DEF Stream
  <1>2. CASE g
    <2>1. PICK n \in Nat : n = x.refs + 1
      BY <1>1
    <2>2. y = [x EXCEPT !.refs = n]
      BY <1>2, <2>1
    <2>3. /\ y \in Stream /\ y.refs = n /\ y.held = x.held /\ y.closed = x.closed
          /\ y.call_ctx = x.call_ctx /\ Timely(y, w)
      BY <2>2, RefsFacts
    <2>4. One(g) = 1
      BY <1>2 DEF One
    <2> QED BY <2>1, <2>3, <2>4
  <1>3. CASE ~g
    <2>1. One(g) = 0 /\ y = x
      BY <1>3 DEF One
    <2>2. x.refs = x.refs + 0
      BY <1>1
    <2> QED BY <2>1, <2>2
  <1> QED BY <1>2, <1>3

\* A stream, in what post_select() leaves before it drops references.
Ready(s, now) == On(list, s) /\ Selects(SyncedAndChecked(now)[s], now)

Referenced(now) ==
    [s \in Streams |-> IF Ready(s, now) THEN [SyncedAndChecked(now)[s] EXCEPT !.refs = @ + 1]
                       ELSE SyncedAndChecked(now)[s]]

LEMMA ReferencedOne ==
    ASSUME ListInv, NEW now \in Int, NEW s \in Streams, NEW y, y = Referenced(now)[s], sure = << >>,
           NEW p \in Seq(FrameRec), Plain(p), SameCalls(p, stack, s), NEW R, NEW M, NEW F,
           Contains(R, s) <=> Ready(s, now), On(M, s) <=> On(list, s) /\ ~obj[s].closed,
           OwnedBy(M, s) <=> OwnedBy(list, s) /\ ~obj[s].closed, Contains(F, s) <=> OwnedBy(list, s) /\ obj[s].closed
    PROVE  y \in Stream /\ Sound(s, y, M, R, p, now, One(Contains(F, s)))
  <1>1. PICK x : x = SyncedAndChecked(now)[s]
    OBVIOUS
  <1>2. SameCore(obj[s], x) /\ Timely(x, now)
    BY <1>1, LookedFacts
  <1>3. Sound(s, x, list, sure, stack, now, 0)
    BY <1>1, LookedSound
  <1>4. Sound(s, x, list, sure, p, now, 0)
    BY <1>3, SameCallsSound
  <1>5. PICK g \in BOOLEAN : g <=> Ready(s, now)
    OBVIOUS
  <1>6. y = IF g THEN [x EXCEPT !.refs = @ + 1] ELSE x
    BY <1>1, <1>5 DEF Referenced
  <1>7. x \in Stream
    BY <1>2 DEF SameCore
  <1>8. /\ y \in Stream /\ y.refs = x.refs + One(g) /\ y.held = x.held /\ y.closed = x.closed
        /\ y.call_ctx = x.call_ctx /\ Timely(y, now)
    BY <1>2, <1>6, <1>7, ReferencedFacts
  <1>9. PICK c \in BOOLEAN : c <=> obj[s].closed
    OBVIOUS
  <1>10. c => y.closed
    BY <1>2, <1>8, <1>9 DEF SameCore
  <1>11. (Contains(R, s) <=> g) /\ (g => On(list, s))
    BY <1>5 DEF Ready
  <1>12. /\ On(M, s) <=> On(list, s) /\ ~c
         /\ OwnedBy(M, s) <=> OwnedBy(list, s) /\ ~c
         /\ Contains(F, s) <=> OwnedBy(list, s) /\ c
    BY <1>9
  <1>13. Found(s, x, y, list, M, R, F, g, c)
    BY <1>8, <1>10, <1>11, <1>12 DEF Found
  <1>14. Timely(y, now) /\ y \in Stream
    BY <1>8
  <1>15. Sound(s, y, M, R, p, now, One(Contains(F, s)))
    BY <1>4, <1>7, <1>13, <1>14, SelectedSound
  <1> QED BY <1>14, <1>15

LEMMA PostSelectStep ==
    ASSUME ListInv, post_select
    PROVE  ListInv'
  <1>1. /\ obj \in [Streams -> Stream] /\ list \in Seq(LinkRec) /\ sure \in Seq(Streams)
        /\ stack \in Seq(FrameRec) /\ clock \in Int /\ wvstime \in Int /\ budget \in Nat
        /\ DistinctLinks(list) /\ Distinct(sure) /\ Nested(stack) /\ Zapped(stack, sure)
    BY InvFacts
  <1>2. AtTop("select") /\ clock' = clock /\ budget' = budget
    BY DEF post_select
  <1>3. PICK now \in Int : now = Larger(wvstime, clock)
    BY <1>1 DEF Larger
  <1>4. PICK checked : checked = SyncedAndChecked(now)
    OBVIOUS
  <1>5. PICK o : o = Referenced(now)
    OBVIOUS
  <1>6. PICK l \in Nat : Len(list) = l /\ DOMAIN list = 1..l
    BY <1>1
  <1>7. PICK q : q = StreamsIn(list)
    OBVIOUS
  <1>8. PICK A \in SUBSET (1..Len(list)) : A = {i \in 1..Len(list) : obj[list[i].stream].closed}
    OBVIOUS
  <1>9. PICK B \in SUBSET (1..Len(list)) : B = {i \in A : list[i].autofree}
    OBVIOUS
  <1>10. PICK C \in SUBSET (1..Len(list)) : C = {i \in 1..Len(list) : Selects(checked[list[i].stream], now)}
    OBVIOUS
  <1>11. PICK K \in SUBSET (1..Len(list)) : K = 1..Len(list) \ A
    OBVIOUS
  <1>12. PICK R, M, F : R = Subsequence(q, C) /\ M = Subsequence(list, K) /\ F = Subsequence(q, B)
    OBVIOUS
  <1>13. PICK rest : rest = IF R # << >> \/ A # {} THEN Append(Front(stack), Frame("execute", None)) ELSE Front(stack)
    OBVIOUS
  <1>14. \A s : Listed(s) <=> On(list, s)
    BY <1>6 DEF Listed, On
  <1>15. wvstime' = now /\ sure' = R /\ list' = M /\ ReleaseAll(o, rest, F)
    <2>1. DOMAIN list = 1..Len(list)
      BY <1>6
    <2>2. o = [s \in Streams |-> IF Listed(s) /\ Selects(checked[s], now)
                                 THEN [checked[s] EXCEPT !.refs = @ + 1] ELSE checked[s]]
      BY <1>4, <1>5, <1>14 DEF Referenced, Ready
    <2>3. wvstime' = now /\ sure' = R /\ list' = M
      BY <1>3, <1>4, <1>7, <1>8, <1>10, <1>11, <1>12, <2>1 DEF post_select, StreamsIn
    <2>4. ReleaseAll(o, IF sure' # << >> \/ A # {}
                        THEN Append(Front(stack), Frame("execute", None)) ELSE Front(stack), F)
      BY <1>3, <1>4, <1>7, <1>8, <1>9, <1>12, <2>1, <2>2 DEF post_select, StreamsIn
    <2> QED BY <1>13, <2>3, <2>4
  <1>16. R \in Seq(Streams) /\ Distinct(R) /\ \A s : Contains(R, s) <=> \E i \in C : list[i].stream = s
    <2>1. StreamsAt(R, list, C)
      BY <1>1, <1>7, <1>12, StreamsOf
    <2> QED BY <2>1 DEF StreamsAt
  <1>17. F \in Seq(Streams) /\ \A s : Contains(F, s) <=> \E i \in B : list[i].stream = s
    <2>1. StreamsAt(F, list, B)
      BY <1>1, <1>7, <1>12, StreamsOf
    <2> QED BY <2>1 DEF StreamsAt
  <1>18. /\ M \in Seq(LinkRec) /\ DistinctLinks(M)
         /\ \A s : On(M, s) <=> \E i \in K : list[i].stream = s
         /\ \A s : OwnedBy(M, s) <=> \E i \in K : list[i].stream = s /\ list[i].autofree
    <2>1. LinksAt(M, list, K)
      BY <1>1, <1>12, PrunedFacts
    <2> QED BY <2>1 DEF LinksAt
  <1>19. "select" \in Kinds
    BY DEF Kinds
  <1>20. stack # << >> /\ stack[Len(stack)].kind = "select" /\ Len(stack) \in 1..Len(stack)
    BY <1>1, <1>2, <1>19, TopFacts
  <1>21. sure = << >>
    BY <1>1, <1>20 DEF Zapped
  <1>22. PICK p : p = Front(stack)
    OBVIOUS
  <1>23. stack[Len(stack)].kind \notin {"destroy", "finish"} /\ stack[Len(stack)].kind \in {"select", "execute"}
    BY <1>20
  <1>24. p \in Seq(FrameRec) /\ Plain(p)
    BY <1>1, <1>20, <1>22, <1>23, PlainBelow
  <1>25. \A s \in Streams : SameCalls(p, stack, s)
    BY <1>1, <1>20, <1>22, <1>23, PopOther
  <1>26. rest \in Seq(FrameRec) /\ Plain(rest) /\ \A s \in Streams : SameCalls(rest, stack, s)
    <2>1. CASE R # << >> \/ A # {}
      <3>1. PICK kind \in Kinds : kind = "execute"
        BY DEF Kinds
      <3>2. kind \notin OfStream
        BY <3>1 DEF OfStream
      <3>3. PICK f \in FrameRec : f = Frame("execute", None) /\ f.kind = "execute"
        BY <3>1, <3>2, FrameFacts
      <3>4. rest = Append(p, f)
        BY <1>13, <1>22, <2>1, <3>3
      <3>5. f.kind \notin Final /\ f.kind \in {"select", "execute"}
        BY <3>3 DEF Final
      <3>6. rest \in Seq(FrameRec) /\ Plain(rest)
        BY <1>24, <3>4, <3>5, PlainPush
      <3>7. \A s \in Streams : SameCalls(rest, p, s)
        BY <1>24, <3>4, <3>5, PushOther
      <3>8. \A s \in Streams : SameCalls(rest, stack, s)
        BY <1>25, <3>7 DEF SameCalls
      <3> QED BY <3>6, <3>8
    <2>2. CASE ~(R # << >> \/ A # {})
      <3>1. rest = p
        BY <1>13, <1>22, <2>2
      <3> QED BY <1>24, <1>25, <3>1
    <2> QED BY <2>1, <2>2
  <1>27. ASSUME NEW s \in Streams
         PROVE  /\ Contains(R, s) <=> Ready(s, now)
                /\ On(M, s) <=> On(list, s) /\ ~obj[s].closed
                /\ OwnedBy(M, s) <=> OwnedBy(list, s) /\ ~obj[s].closed
                /\ Contains(F, s) <=> OwnedBy(list, s) /\ obj[s].closed
    <2>1. Contains(R, s) <=> Ready(s, now)
      BY <1>4, <1>10, <1>16 DEF Ready, On
    <2>2. On(M, s) <=> On(list, s) /\ ~obj[s].closed
      BY <1>8, <1>11, <1>18 DEF On
    <2>3. OwnedBy(M, s) <=> OwnedBy(list, s) /\ ~obj[s].closed
      BY <1>8, <1>11, <1>18 DEF OwnedBy
    <2>4. Contains(F, s) <=> OwnedBy(list, s) /\ obj[s].closed
      BY <1>8, <1>9, <1>17 DEF OwnedBy
    <2> QED BY <2>1, <2>2, <2>3, <2>4
  <1>28. ASSUME NEW s \in Streams PROVE o[s] \in Stream /\ Sound(s, o[s], M, R, rest, now, One(Contains(F, s)))
    <2>1. PICK y : y = Referenced(now)[s]
      OBVIOUS
    <2>2. SameCalls(rest, stack, s)
      BY <1>26
    <2>3. y \in Stream /\ Sound(s, y, M, R, rest, now, One(Contains(F, s)))
      BY <1>21, <1>26, <1>27, <2>1, <2>2, ReferencedOne
    <2> QED BY <1>5, <2>1, <2>3
  <1>29. o \in [Streams -> Stream]
    <2>1. o = [s \in Streams |-> o[s]]
      BY <1>5 DEF Referenced
    <2> QED BY <1>28, <2>1
  <1>30. Nested(rest) /\ Zapped(rest, R) /\ NoFinish(rest)
    BY <1>26, PlainFacts
  <1>31. Before(o, M, R, rest, F, now)
    BY <1>28, <1>30 DEF Before
  <1>32. /\ list' \in Seq(LinkRec) /\ sure' \in Seq(Streams) /\ wvstime' \in Int
         /\ Before(o, list', sure', rest, F, wvstime') /\ DistinctLinks(list') /\ Distinct(sure')
    BY <1>15, <1>16, <1>18, <1>31
  <1>33. clock' \in Int /\ budget' \in Nat
    BY <1>1, <1>2
  <1> QED BY <1>15, <1>17, <1>26, <1>29, <1>32, <1>33, ReleaseStep

-----------------------------------------------------------------------------
(* The invariant and the properties.                                       *)

\* The initial list has each of its streams once.
LEMMA InitialOrder ==
    ASSUME NEW S \in SUBSET Streams, NEW q \in SetToSeqs(S)
    PROVE  q \in Seq(Streams) /\ Distinct(q) /\ \A s : Contains(q, s) <=> s \in S
  <1>1. IsFiniteSet(S)
    BY FS_Subset, StreamsAssumption
  <1>2. PICK n \in Nat : n = Cardinality(S)
    BY <1>1, FS_CardinalityType
  <1>3. q \in [1..n -> S] /\ \A i, j \in 1..n : i # j => q[i] # q[j]
    BY <1>2 DEF SetToSeqs
  <1>4. q \in Seq(Streams) /\ Len(q) = n
    BY <1>3
  <1>5. Distinct(q)
    BY <1>3, <1>4 DEF Distinct
  <1>6. ASSUME NEW s \in S, \A i \in 1..n : q[i] # s PROVE FALSE
    <2>1. PICK T : T = S \ {s}
      OBVIOUS
    <2>2. IsFiniteSet(T) /\ Cardinality(T) = n - 1
      BY <1>1, <1>2, <2>1, FS_RemoveElement
    <2>3. IsFiniteSet(1..n) /\ Cardinality(1..n) = n
      BY FS_Interval
    <2>4. q \in [1..n -> T]
      BY <1>3, <1>6, <2>1
    <2>5. Cardinality(T) < Cardinality(1..n)
      BY <2>2, <2>3
    <2>6. \E i, j \in 1..n : i # j /\ q[i] = q[j]
      BY <2>2, <2>3, <2>4, <2>5, FS_PigeonHole
    <2> QED BY <1>3, <2>6
  <1>7. ASSUME NEW s PROVE Contains(q, s) <=> s \in S
    <2>1. Contains(q, s) <=> \E i \in 1..n : q[i] = s
      BY <1>4 DEF Contains
    <2> QED BY <1>3, <1>6, <2>1
  <1> QED BY <1>4, <1>5, <1>7

LEMMA InitInv == Init => ListInv
  <1> SUFFICES ASSUME Init PROVE ListInv
    OBVIOUS
  <1>1. PICK S \in SUBSET Streams, A \in SUBSET Streams :
          /\ A \subseteq S
          /\ \E q \in SetToSeqs(S) : list = [i \in DOMAIN q |-> Link(q[i], q[i] \in A)]
          /\ obj = [s \in Streams |-> [NewStream EXCEPT !.held = s \notin A]]
    BY DEF Init
  <1>2. PICK q \in SetToSeqs(S) : list = [i \in DOMAIN q |-> Link(q[i], q[i] \in A)]
    BY <1>1
  <1>3. sure = << >> /\ stack = << >> /\ clock = 1 /\ wvstime = 1 /\ budget \in Nat
    BY BoundsAssumption DEF Init
  <1>4. q \in Seq(Streams) /\ Distinct(q) /\ \A s : Contains(q, s) <=> s \in S
    BY InitialOrder
  <1>5. PICK l \in Nat : Len(q) = l /\ DOMAIN q = 1..l
    BY <1>4
  <1>6. \A i \in 1..l : q[i] \in Streams
    BY <1>4, <1>5
  <1>7. ASSUME NEW i \in 1..l
        PROVE  list[i] \in LinkRec /\ list[i].stream = q[i] /\ (list[i].autofree <=> q[i] \in A)
    <2>1. (q[i] \in A) \in BOOLEAN
      OBVIOUS
    <2>2. PICK b \in BOOLEAN : b = (q[i] \in A)
      BY <2>1, Zenon
    <2>3. list[i] = [stream |-> q[i], autofree |-> b]
      BY <1>2, <1>5, <2>2 DEF Link
    <2>4. list[i] \in LinkRec /\ list[i].stream = q[i] /\ list[i].autofree = b
      BY <1>6, <2>3 DEF LinkRec
    <2> QED BY <2>2, <2>4
  <1>8. list = [i \in 1..l |-> list[i]]
    BY <1>2, <1>5
  <1>9. list \in [1..l -> LinkRec]
    BY <1>7, <1>8
  <1>10. list \in Seq(LinkRec) /\ Len(list) = l
    BY <1>9
  <1>11. DistinctLinks(list)
    BY <1>4, <1>5, <1>7, <1>10 DEF Distinct, DistinctLinks
  <1>12. ASSUME NEW s PROVE OwnedBy(list, s) <=> s \in A
    <2>1. ASSUME NEW i \in 1..Len(list), list[i].stream = s, list[i].autofree PROVE s \in A
      BY <1>7, <1>10, <2>1
    <2>2. ASSUME s \in A PROVE \E i \in 1..Len(list) : list[i].stream = s /\ list[i].autofree
      <3>1. Contains(q, s)
        BY <1>1, <1>4, <2>2
      <3>2. PICK i \in 1..l : q[i] = s
        BY <1>5, <3>1 DEF Contains
      <3> QED BY <1>7, <1>10, <2>2, <3>2
    <2> QED BY <2>1, <2>2 DEF OwnedBy
  <1>13. ASSUME NEW s \in Streams PROVE obj[s] \in Stream /\ Sound(s, obj[s], list, sure, stack, wvstime, 0)
    <2>1. (s \notin A) \in BOOLEAN
      OBVIOUS
    <2>2. PICK b \in BOOLEAN : b = (s \notin A)
      BY <2>1, Zenon
    <2>3. obj[s] = [NewStream EXCEPT !.held = b]
      BY <1>1, <2>2
    <2>4. None \in Int \cup {None} /\ 0 \in Nat /\ 1 \in Nat /\ 0 \in Int
      OBVIOUS
    <2>5. NewStream \in Stream
      BY <2>4 DEF NewStream, Stream
    <2>6. obj[s] \in Stream
      BY <2>3, <2>5 DEF Stream
    <2>7. obj[s].refs = 1 /\ obj[s].held = b /\ obj[s].alarm_time = None /\ ~obj[s].early
      BY <2>3 DEF NewStream
    <2>8. Cardinality(CallsOf(stack, s)) = 0
      <3>1. CallsOf(stack, s) = {}
        BY <1>3 DEF CallsOf
      <3> QED BY <3>1, FS_EmptySet
    <2>9. ~Contains(sure, s)
      BY <1>3 DEF Contains
    <2>10. One(Contains(sure, s)) = 0
      BY <2>9 DEF One
    <2>11. One(obj[s].held) + One(OwnedBy(list, s)) = 1
      <3>1. CASE s \in A
        <4>1. ~obj[s].held /\ OwnedBy(list, s)
          BY <1>12, <2>2, <2>7, <3>1, Zenon
        <4>2. One(obj[s].held) = 0 /\ One(OwnedBy(list, s)) = 1
          BY <4>1 DEF One
        <4> QED BY <4>2
      <3>2. CASE s \notin A
        <4>1. obj[s].held /\ ~OwnedBy(list, s)
          BY <1>12, <2>2, <2>7, <3>2, Zenon
        <4>2. One(obj[s].held) = 1 /\ One(OwnedBy(list, s)) = 0
          BY <4>1 DEF One
        <4> QED BY <4>2
      <3> QED BY <3>1, <3>2
    <2>12. Counted(s, obj[s], list, sure, stack, 0)
      BY <2>7, <2>8, <2>10, <2>11 DEF Counted
    <2>13. Timely(obj[s], wvstime)
      BY <2>7, NoAlarmTimely
    <2>14. Plain(stack)
      BY <1>3 DEF Plain
    <2>15. obj[s].refs # 0 /\ (Contains(sure, s) => On(list, s) \/ obj[s].closed)
      BY <2>7, <2>9
    <2> QED BY <2>6, <2>12, <2>13, <2>14, <2>15, PlainSound
  <1>14. obj \in [Streams -> Stream]
    <2>1. obj = [s \in Streams |-> obj[s]]
      BY <1>1
    <2> QED BY <1>13, <2>1
  <1>15. sure \in Seq(Streams) /\ stack \in Seq(FrameRec) /\ clock \in Int /\ wvstime \in Int
    BY <1>3
  <1>16. Distinct(sure) /\ Nested(stack) /\ Zapped(stack, sure)
    BY <1>3 DEF Distinct, Nested, Zapped
  <1> QED BY <1>3, <1>10, <1>11, <1>13, <1>14, <1>15, <1>16 DEF ListInv, Types

LEMMA NextInv == ListInv /\ [Next]_vars => ListInv'
  <1> SUFFICES ASSUME ListInv, [Next]_vars PROVE ListInv'
    OBVIOUS
  <1>1. CASE UNCHANGED vars
    <2>1. /\ obj' = obj /\ list' = list /\ sure' = sure /\ stack' = stack
          /\ clock' = clock /\ wvstime' = wvstime /\ budget' = budget
      BY <1>1 DEF vars
    <2>2. Good(obj, list, sure, stack, wvstime) /\ clock \in Int /\ budget \in Nat
      BY InvGood, InvFacts
    <2>3. Good(obj', list', sure', stack', wvstime') /\ clock' \in Int /\ budget' \in Nat
      BY <2>1, <2>2
    <2> QED BY <2>3, GoodInv
  <1>2. CASE Loop
    <2>1. CASE post_select
      BY <2>1, PostSelectStep
    <2>2. CASE execute_next
      BY <2>2, ExecuteNextStep
    <2>3. CASE execute_done
      BY <2>3, ExecuteDoneStep
    <2>4. CASE callback_returns
      BY <2>4, CallbackReturnsStep
    <2>5. CASE finish_returns
      BY <2>5, FinishReturnsStep
    <2>6. CASE destroy_terminate
      BY <2>6, DestroyTerminateStep
    <2>7. CASE destroy_end
      BY <2>7, DestroyEndStep
    <2> QED BY <1>2, <2>1, <2>2, <2>3, <2>4, <2>5, <2>6, <2>7 DEF Loop
  <1>3. CASE User
    <2>1. ASSUME NEW msec \in Delays \cup {None}, continue_select(msec) PROVE ListInv'
      BY <2>1, ContinueSelectStep
    <2>2. ASSUME NEW msec \in Delays \cup {None}, NEW s \in Streams, alarm(s, msec) PROVE ListInv'
      BY <2>2, AlarmStep
    <2>3. ASSUME NEW s \in Streams, NEW af \in BOOLEAN, append(s, af) PROVE ListInv'
      BY <2>3, AppendStep
    <2>4. ASSUME NEW s \in Streams, close(s) PROVE ListInv'
      BY <2>4, CloseStep
    <2>5. ASSUME NEW s \in Streams, setcallback(s) PROVE ListInv'
      BY <2>5, SetcallbackStep
    <2>6. ASSUME NEW s \in Streams, terminate_continue_select(s) PROVE ListInv'
      BY <2>6, TerminateStep
    <2>7. ASSUME NEW s \in Streams, unlink(s) PROVE ListInv'
      BY <2>7, UnlinkStep
    <2>8. ASSUME NEW s \in Streams, release(s) PROVE ListInv'
      BY <2>8, ReleaseOwnStep
    <2>9. ASSUME NEW s \in Streams, drain(s) PROVE ListInv'
      BY <2>9, DrainStep
    <2> QED BY <1>3, <2>1, <2>2, <2>3, <2>4, <2>5, <2>6, <2>7, <2>8, <2>9 DEF User
  <1>4. CASE pre_select
    BY <1>4, PreSelectStep
  <1>5. CASE interrupted
    BY <1>5, InterruptedStep
  <1>6. CASE Tick
    BY <1>6, TickStep
  <1>7. CASE SetBack
    BY <1>7, SetBackStep
  <1>8. ASSUME NEW s \in Streams, Arrive(s) PROVE ListInv'
    BY <1>8, ArriveStep
  <1> QED BY <1>1, <1>2, <1>3, <1>4, <1>5, <1>6, <1>7, <1>8 DEF Next

\* The references to every stream are counted, calls nest, sure_thing is empty while a
\* select() waits, and every alarm has as much time left as it must have.
THEOREM ListInvariant == Spec => []ListInv
  BY InitInv, NextInv, PTL DEF Spec

\* Reference counts are right, and nothing refers to a stream that is gone: not the list,
\* not sure_thing, not a call under way (WvIStreamList::execute(), ~WvStream()).
THEOREM ListIsConsistent == Spec => []ListConsistent
  <1>1. ListInv => ListConsistent
    <2> SUFFICES ASSUME ListInv PROVE ListConsistent
      OBVIOUS
    <2>1. /\ obj \in [Streams -> Stream] /\ list \in Seq(LinkRec) /\ sure \in Seq(Streams) /\ stack \in Seq(FrameRec)
      BY InvFacts
    <2>2. DOMAIN list = 1..Len(list) /\ DOMAIN stack = 1..Len(stack)
      BY <2>1
    <2>3. ASSUME NEW s \in Streams
          PROVE  /\ Listed(s) <=> On(list, s)
                 /\ Owned(s) <=> OwnedBy(list, s)
                 /\ Frames("callback", s) = Cardinality(CallsOf(stack, s))
      BY <2>2 DEF Listed, On, Owned, OwnedBy, Frames, CallsOf
    <2>4. ASSUME NEW s \in Streams, NEW kind PROVE Frames(kind, s) = 0 <=> ~Has(stack, kind, s)
      <3>1. PICK C : C = {i \in 1..Len(stack) : stack[i].kind = kind /\ stack[i].stream = s}
        OBVIOUS
      <3>2. Frames(kind, s) = Cardinality(C)
        BY <2>2, <3>1 DEF Frames
      <3>3. C = {} <=> ~Has(stack, kind, s)
        BY <3>1 DEF Has
      <3>4. IsFiniteSet(C)
        <4>1. PICK l \in Nat : Len(stack) = l
          BY <2>1
        <4>2. IsFiniteSet(1..l) /\ C \in SUBSET (1..l)
          BY <3>1, <4>1, FS_Interval
        <4> QED BY <4>2, FS_Subset
      <3> QED BY <3>2, <3>3, <3>4, FS_EmptySet
    <2>5. ASSUME NEW s \in Streams
          PROVE  obj[s].refs = One(obj[s].held) + One(Owned(s)) + One(Contains(sure, s)) + Frames("callback", s)
      <3>1. Sound(s, obj[s], list, sure, stack, wvstime, 0)
        BY InvSound
      <3>2. Adds(s, obj[s], list, sure, stack)
        BY <2>1, <3>1, CountFacts
      <3>3. One(Owned(s)) = One(OwnedBy(list, s))
        BY <2>3 DEF One
      <3> QED BY <2>3, <3>2, <3>3 DEF Adds
    <2>6. TypeOK
      BY <2>1, <2>5 DEF TypeOK
    <2>7. ASSUME NEW s \in Streams, Gone(s)
          PROVE  /\ ~Listed(s) /\ ~Contains(sure, s)
                 /\ Frames("callback", s) = 0 /\ Frames("finish", s) = 0
                 /\ obj[s].call_ctx = "null"
      <3>1. obj[s].refs = 0 /\ ~Has(stack, "destroy", s)
        BY <2>4, <2>7 DEF Gone
      <3>2. obj[s] \in Stream /\ Sound(s, obj[s], list, sure, stack, wvstime, 0)
        BY InvSound
      <3>3. Counted(s, obj[s], list, sure, stack, 0) /\ Dead(s, obj[s], list, stack)
        BY <3>2 DEF Sound
      <3>4. ~Contains(sure, s) /\ Cardinality(CallsOf(stack, s)) = 0
        BY <2>1, <3>1, <3>2, <3>3, NoReferences
      <3>5. ~On(list, s) /\ obj[s].call_ctx = "null" /\ ~Has(stack, "finish", s)
        BY <3>1, <3>3 DEF Dead
      <3> QED BY <2>3, <2>4, <3>4, <3>5
    <2>8. NothingDangles
      BY <2>7 DEF NothingDangles
    <2> QED BY <2>6, <2>8 DEF ListConsistent
  <1> QED BY <1>1, ListInvariant, PTL

\* A stream that was taken off the list before its turn is not called any more, unless
\* post_select() itself pruned it (WvIStreamList::unlink(), execute()).
THEOREM RemovedDoNotRun == Spec => []RemovedStreamsDoNotRun
  <1>1. ListInv => RemovedStreamsDoNotRun
    <2> SUFFICES ASSUME ListInv, NEW s \in Streams, Contains(sure, s) PROVE Listed(s) \/ obj[s].closed
      BY DEF RemovedStreamsDoNotRun
    <2>1. Sound(s, obj[s], list, sure, stack, wvstime, 0)
      BY InvSound
    <2>2. On(list, s) \/ obj[s].closed
      BY <2>1 DEF Sound
    <2>3. list \in Seq(LinkRec)
      BY InvFacts
    <2>4. On(list, s) => Listed(s)
      BY <2>3 DEF On, Listed
    <2> QED BY <2>2, <2>4
  <1> QED BY <1>1, ListInvariant, PTL

\* No alarm goes off before wvstime has gone forward by what alarm() was asked for, however
\* often the clock is set back (WvStream::alarm_remaining()).
THEOREM AlarmsAreNotEarly == Spec => []AlarmNotEarly
  <1>1. ListInv => AlarmNotEarly
    <2> SUFFICES ASSUME ListInv, NEW s \in Streams PROVE ~obj[s].early
      BY DEF AlarmNotEarly
    <2>1. Timely(obj[s], wvstime)
      BY InvSound
    <2> QED BY <2>1 DEF Timely
  <1> QED BY <1>1, ListInvariant, PTL
=============================================================================
