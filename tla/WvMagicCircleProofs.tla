------------------------ MODULE WvMagicCircleProofs ------------------------
(***************************************************************************)
(* Proofs about WvMagicCircle for every capacity N and every set of bytes. *)
(*                                                                         *)
(* The inductive invariant is the type invariant, the order of the indices *)
(* relative to what each process has settled on, and the data each has     *)
(* copied so far.  The refinement of BoundedFifo follows from it.          *)
(***************************************************************************)
EXTENDS WvMagicCircle, SequenceTheorems, TLAPS

\* A sequence that starts like a and goes on like b is their concatenation.
LEMMA IsConcat ==
    ASSUME NEW S, NEW a \in Seq(S), NEW b \in Seq(S), NEW c \in Seq(S),
           Len(c) = Len(a) + Len(b),
           \A i \in 1..Len(a) : c[i] = a[i],
           \A i \in 1..Len(b) : c[Len(a) + i] = b[i]
    PROVE  c = a \o b
  <1>1. a \o b \in Seq(S) /\ Len(a \o b) = Len(c)
    BY ConcatProperties
  <1>2. ASSUME NEW i \in 1..Len(c) PROVE c[i] = (a \o b)[i]
    <2>1. (a \o b)[i] = IF i <= Len(a) THEN a[i] ELSE b[i - Len(a)]
      BY ConcatProperties
    <2>2. CASE i <= Len(a)
      BY <2>1, <2>2
    <2>3. CASE i > Len(a)
      <3>1. i - Len(a) \in 1..Len(b) /\ Len(a) + (i - Len(a)) = i
        BY <2>3
      <3> QED BY <2>1, <2>3, <3>1
    <2> QED BY <2>2, <2>3
  <1> QED BY <1>1, <1>2, SeqEqual

\* A sequence that holds the elements of a after the first n is that suffix.
LEMMA IsSuffixOf ==
    ASSUME NEW S, NEW a \in Seq(S), NEW c \in Seq(S), NEW n \in 0..Len(a),
           Len(c) = Len(a) - n,
           \A i \in 1..Len(c) : c[i] = a[n + i]
    PROVE  c = SubSeq(a, n + 1, Len(a))
  <1>1. SubSeq(a, n + 1, Len(a)) \in Seq(S) /\ Len(SubSeq(a, n + 1, Len(a))) = Len(c)
    BY SubSeqProperties
  <1>2. \A i \in 1..Len(c) : SubSeq(a, n + 1, Len(a))[i] = a[n + i]
    BY <1>1, SubSeqProperties
  <1> QED BY <1>1, <1>2, SeqEqual

\* A sequence that holds the first n elements of a is that prefix.
LEMMA IsPrefixOf ==
    ASSUME NEW S, NEW a \in Seq(S), NEW c \in Seq(S), NEW n \in 0..Len(a),
           Len(c) = n,
           \A i \in 1..n : c[i] = a[i]
    PROVE  c = SubSeq(a, 1, n)
  <1>1. SubSeq(a, 1, n) \in Seq(S) /\ Len(SubSeq(a, 1, n)) = n
    BY SubSeqProperties
  <1>2. \A i \in 1..n : SubSeq(a, 1, n)[i] = a[i]
    BY <1>1, SubSeqProperties
  <1> QED BY <1>1, <1>2, SeqEqual

IInv == TypeOK /\ IndicesNeverCross /\ CopiedDataStable

\* An index moved forward by less than the size is reduced by one subtraction:
\* the % of put(), get() and skip() is Wrap.
LEMMA ModIsWrap ==
    ASSUME NEW x \in Slots, NEW k \in 0..N
    PROVE  (x + k) % size = Wrap(x, k) /\ Wrap(x, k) \in Slots
  <1>1. size \in Nat \ {0} /\ size = N + 1
    BY NAssumption DEF size
  <1>2. x \in 0..(size - 1)
    BY DEF Slots
  <1>3. CASE x + k < size
    BY <1>1, <1>2, <1>3 DEF Wrap, Slots
  <1>4. CASE x + k >= size
    <2>1. x + k - size \in 0..(size - 1)
      BY <1>1, <1>2, <1>4, NAssumption
    <2>2. (x + k) % size = x + k - size
      <3> DEFINE r == x + k - size
      <3>1. x + k = size + r /\ r \in 0..(size - 1)
        BY <1>1, <1>2, <2>1
      <3> HIDE DEF r
      <3>2. (size + r) % size = r
        BY <3>1, <1>1
      <3> QED BY <3>1, <3>2 DEF r
    <2> QED BY <1>1, <1>2, <1>4, <2>1, <2>2 DEF Wrap, Slots
  <1> QED BY <1>1, <1>2, <1>3, <1>4

\* Wrap by itself, without %.
LEMMA WrapFacts ==
    ASSUME NEW x \in Slots, NEW i \in 0..N
    PROVE  Wrap(x, i) \in Slots
  BY NAssumption DEF Wrap, Slots, size

-----------------------------------------------------------------------------
(* The inductive invariant.                                                *)

LEMMA InitInv == Init => IInv
  BY NAssumption, ByteAssumption, SMTT(30)
  DEF Init, IInv, TypeOK, IndicesNeverCross, CopiedDataStable, Slots, size, used, left

\* What the invariant says of the numbers, for the arithmetic below.
LEMMA IndexFacts ==
    ASSUME IInv
    PROVE  /\ head \in 0..N /\ tail \in 0..N /\ size = N + 1 /\ Slots = 0..N
           /\ used \in 0..N
           /\ used = IF tail - head < 0 THEN tail - head + N + 1 ELSE tail - head
           /\ Len(wdata) \in 0..N /\ Len(wdata) <= N - used
           /\ rlen \in 0..N /\ rlen <= used
  <1>1. size = N + 1 /\ Slots = 0..N
    BY NAssumption DEF size, Slots
  <1>2. head \in 0..N /\ tail \in 0..N /\ rlen \in 0..N /\ Len(wdata) \in Nat
    BY <1>1 DEF IInv, TypeOK
  <1>3. used = IF tail - head < 0 THEN tail - head + N + 1 ELSE tail - head
    BY <1>1, <1>2, NAssumption DEF used
  <1>4. used \in 0..N
    BY <1>2, <1>3, NAssumption
  <1>5. Len(wdata) <= size - used - 1 /\ rlen <= used
    BY DEF IInv, IndicesNeverCross, left
  <1> HIDE DEF used
  <1> QED BY <1>1, <1>2, <1>3, <1>4, <1>5, NAssumption

\* Storing tail makes exactly the copied bytes visible.
LEMMA PublishGrows ==
    ASSUME IInv, PutPublish
    PROVE  used' = used + Len(wdata)
  <1>0. /\ head \in 0..N /\ tail \in 0..N /\ size = N + 1
        /\ used \in 0..N
        /\ used = IF tail - head < 0 THEN tail - head + N + 1 ELSE tail - head
        /\ Len(wdata) \in 0..N /\ Len(wdata) <= N - used
    BY IndexFacts
  <1>1. head' = head /\ tail' = (tail + Len(wdata)) % size
    BY DEF PutPublish, getVars
  <1>2. tail' = Wrap(tail, Len(wdata)) /\ tail' \in 0..N
    BY <1>1, IndexFacts, ModIsWrap
  <1>3. used' = IF tail' - head < 0 THEN tail' - head + N + 1 ELSE tail' - head
    BY <1>1, <1>2, <1>0, NAssumption DEF used, size
  <1>4. tail' = IF tail + Len(wdata) < N + 1 THEN tail + Len(wdata)
                                             ELSE tail + Len(wdata) - (N + 1)
    BY <1>2, <1>0 DEF Wrap
  <1> QED BY <1>3, <1>4, <1>0, NAssumption

\* Storing head takes away exactly the bytes that get() or skip() settled on.
LEMMA TakeShrinks ==
    ASSUME IInv, GetPublish \/ SkipPublish
    PROVE  head' = Wrap(head, rlen) /\ used' = used - rlen
  <1>0. /\ head \in 0..N /\ tail \in 0..N /\ size = N + 1
        /\ used \in 0..N
        /\ used = IF tail - head < 0 THEN tail - head + N + 1 ELSE tail - head
        /\ rlen \in 0..N /\ rlen <= used
    BY IndexFacts
  <1>1. tail' = tail /\ head' = (head + rlen) % size
    BY DEF GetPublish, SkipPublish, putVars
  <1>2. head' = Wrap(head, rlen) /\ head' \in 0..N
    BY <1>1, IndexFacts, ModIsWrap
  <1>3. used' = IF tail - head' < 0 THEN tail - head' + N + 1 ELSE tail - head'
    BY <1>1, <1>2, <1>0, NAssumption DEF used, size
  <1>4. head' = IF head + rlen < N + 1 THEN head + rlen ELSE head + rlen - (N + 1)
    BY <1>2, <1>0 DEF Wrap
  <1> QED BY <1>2, <1>3, <1>4, <1>0, NAssumption

\* put() touches nothing the getter has settled on.
LEMMA PutterInv == IInv /\ Putter => IInv'
  <1> SUFFICES ASSUME IInv, Putter PROVE IInv'
    OBVIOUS
  <1> USE NAssumption
  <1>0. /\ TypeOK /\ IndicesNeverCross /\ CopiedDataStable
        /\ Len(wdata) \in Nat /\ used \in 0..N /\ left \in 0..N
    BY DEF IInv, TypeOK, IndicesNeverCross, used, left, Slots, size
  <1>1. ASSUME NEW n \in Requests, NEW data \in [1..n -> Byte], PutBegin(data)
        PROVE  IInv'
    <2>1. n \in Nat /\ data \in Seq(Byte) /\ Len(data) = n
      BY DEF Requests
    <2> DEFINE m == Clamp(Len(data), left)
    <2>2. m \in 0..n /\ m <= left
      BY <2>1, <1>0 DEF Clamp
    <2>3. wdata' \in Seq(Byte) /\ Len(wdata') = m
      <3>1. wdata' = SubSeq(data, 1, m)
        BY <1>1 DEF PutBegin
      <3> HIDE DEF m
      <3> QED BY <3>1, <2>1, <2>2, SubSeqProperties
    <2>4. UNCHANGED <<circle, tail, getVars>> /\ wpc' = "copy1"
      BY <1>1 DEF PutBegin
    <2> HIDE DEF m
    <2>5. TypeOK'
      BY <1>0, <2>3, <2>4 DEF TypeOK, getVars
    <2>6. IndicesNeverCross'
      BY <1>0, <2>2, <2>3, <2>4 DEF IndicesNeverCross, used, left, getVars
    <2>7. CopiedDataStable'
      BY <1>0, <2>4 DEF CopiedDataStable, getVars, chunk1, Wrap
    <2> QED BY <2>5, <2>6, <2>7 DEF IInv
  <1>2. CASE PutCopy1
    <2> DEFINE c == chunk1(tail, Len(wdata))
    <2>1. /\ tail \in Slots /\ c \in 0..Len(wdata) /\ tail + c <= size
          /\ size = N + 1 /\ Len(wdata) \in Nat
      BY <1>0 DEF chunk1, TypeOK, Slots, size
    <2>2. /\ circle' = [s \in Slots |->
                IF s \in tail..(tail + c - 1) THEN wdata[s - tail + 1] ELSE circle[s]]
          /\ UNCHANGED <<tail, wdata, getVars>> /\ wpc' = "copy2" /\ wpc = "copy1"
      BY <1>2 DEF PutCopy1
    <2> HIDE DEF c
    <2>3. circle' \in [Slots -> Byte]
      BY <2>1, <2>2, <1>0 DEF TypeOK, Slots
    <2>4. TypeOK'
      BY <1>0, <2>2, <2>3 DEF TypeOK, getVars
    <2>5. IndicesNeverCross'
      BY <1>0, <2>2 DEF IndicesNeverCross, used, left, getVars
    <2>6. ASSUME NEW i \in 1..c
          PROVE  circle'[Wrap(tail, i - 1)] = wdata[i]
      <3>1. Wrap(tail, i - 1) = tail + i - 1 /\ tail + i - 1 \in Slots
        BY <2>1 DEF Wrap, Slots
      <3> QED BY <3>1, <2>1, <2>2 DEF Slots
    <2>7. ASSUME NEW i \in 1..rlen
          PROVE  circle'[Wrap(head, i - 1)] = circle[Wrap(head, i - 1)]
      <3>1. Wrap(head, i - 1) \in Slots
        BY <1>0 DEF TypeOK, Slots, Wrap, size
      <3>2. Wrap(head, i - 1) \notin tail..(tail + c - 1)
        BY <1>0, <2>1 DEF TypeOK, Slots, Wrap, size, IndicesNeverCross, used, left
      <3> QED BY <2>2, <3>1, <3>2
    <2>8. chunk1(head, rlen) \in 0..rlen
      BY <1>0 DEF TypeOK, chunk1, Slots, size
    <2>9. CopiedDataStable'
      BY <1>0, <2>1, <2>2, <2>6, <2>7, <2>8 DEF CopiedDataStable, getVars, chunk1, Wrap, TypeOK, c
    <2> QED BY <2>4, <2>5, <2>9 DEF IInv
  <1>3. CASE PutCopy2
    <2> DEFINE c == chunk1(tail, Len(wdata))
    <2>1. /\ tail \in Slots /\ c \in 0..Len(wdata) /\ tail + c <= size
          /\ size = N + 1 /\ Len(wdata) \in Nat
          /\ (c = Len(wdata) \/ c = size - tail)
      BY <1>0 DEF chunk1, TypeOK, Slots, size
    <2>2. /\ circle' = [s \in Slots |->
                IF s \in 0..(Len(wdata) - c - 1) THEN wdata[c + s + 1] ELSE circle[s]]
          /\ UNCHANGED <<tail, wdata, getVars>> /\ wpc' = "publish" /\ wpc = "copy2"
      BY <1>3 DEF PutCopy2
    <2>a. \A i \in 1..Len(wdata) : i <= c => circle[Wrap(tail, i - 1)] = wdata[i]
      BY <1>0, <2>2 DEF CopiedDataStable
    <2> HIDE DEF c
    <2>3. circle' \in [Slots -> Byte]
      BY <2>1, <2>2, <1>0 DEF TypeOK, Slots
    <2>4. TypeOK'
      BY <1>0, <2>2, <2>3 DEF TypeOK, getVars
    <2>5. IndicesNeverCross'
      BY <1>0, <2>2 DEF IndicesNeverCross, used, left, getVars
    <2>6. ASSUME NEW i \in 1..Len(wdata)
          PROVE  circle'[Wrap(tail, i - 1)] = wdata[i]
      <3>1. Wrap(tail, i - 1) \in Slots
        BY <2>1, <1>0 DEF Wrap, Slots, IndicesNeverCross
      <3>2. CASE i <= c
        <4>1. Wrap(tail, i - 1) \notin 0..(Len(wdata) - c - 1)
          BY <2>1, <3>2, <1>0 DEF Wrap, Slots, IndicesNeverCross, left
        <4> QED BY <3>1, <3>2, <4>1, <2>2, <2>a
      <3>3. CASE i > c
        <4>1. Wrap(tail, i - 1) = i - 1 - c /\ i - 1 - c \in 0..(Len(wdata) - c - 1)
          BY <2>1, <3>3, <1>0 DEF Wrap, Slots
        <4> QED BY <2>1, <3>1, <4>1, <2>2
      <3> QED BY <2>1, <3>2, <3>3
    <2>7. ASSUME NEW i \in 1..rlen
          PROVE  circle'[Wrap(head, i - 1)] = circle[Wrap(head, i - 1)]
      <3>1. Wrap(head, i - 1) \in Slots
        BY <1>0 DEF TypeOK, Slots, Wrap, size
      <3>2. Wrap(head, i - 1) \notin 0..(Len(wdata) - c - 1)
        BY <1>0, <2>1 DEF TypeOK, Slots, Wrap, size, IndicesNeverCross, used, left
      <3> QED BY <2>2, <3>1, <3>2
    <2>8. chunk1(head, rlen) \in 0..rlen
      BY <1>0 DEF TypeOK, chunk1, Slots, size
    <2>9. CopiedDataStable'
      BY <1>0, <2>1, <2>2, <2>6, <2>7, <2>8 DEF CopiedDataStable, getVars, chunk1, Wrap, TypeOK
    <2> QED BY <2>4, <2>5, <2>9 DEF IInv
  <1>4. CASE PutPublish
    <2>1. /\ tail' = Wrap(tail, Len(wdata)) /\ tail' \in Slots
          /\ wdata' = << >> /\ wpc' = "idle" /\ UNCHANGED <<circle, getVars>>
      BY <1>0, <1>4, ModIsWrap DEF PutPublish, TypeOK, IndicesNeverCross
    <2>2. used' = used + Len(wdata)
      BY <1>4, PublishGrows
    <2>3. TypeOK'
      BY <1>0, <2>1 DEF TypeOK, getVars
    <2>4. IndicesNeverCross'
      BY <1>0, <2>1, <2>2 DEF IndicesNeverCross, left, TypeOK, getVars, size
    <2>5. CopiedDataStable'
      BY <1>0, <2>1 DEF CopiedDataStable, getVars, chunk1, Wrap
    <2> QED BY <2>3, <2>4, <2>5 DEF IInv
  <1> QED BY <1>1, <1>2, <1>3, <1>4 DEF Putter

\* get() and skip() touch nothing the putter has settled on.
LEMMA GetterInv == IInv /\ Getter => IInv'
  <1> SUFFICES ASSUME IInv, Getter PROVE IInv'
    OBVIOUS
  <1> USE NAssumption
  <1>0. /\ TypeOK /\ IndicesNeverCross /\ CopiedDataStable
        /\ Len(wdata) \in Nat /\ used \in 0..N /\ left \in 0..N
        /\ chunk1(head, rlen) \in 0..rlen
        /\ (chunk1(head, rlen) = rlen \/ chunk1(head, rlen) = size - head)
        /\ head + chunk1(head, rlen) <= size
    BY DEF IInv, TypeOK, IndicesNeverCross, used, left, Slots, size, chunk1
  <1>1. ASSUME NEW n \in Requests, GetBegin(n) \/ SkipBegin(n) PROVE IInv'
    <2>1. /\ rlen' = Clamp(n, used) /\ rpc' \in {"copy1", "skip"}
          /\ UNCHANGED <<circle, head, lastGot, putVars>>
          /\ rdata' \in Seq(Byte)
      <3>1. CASE GetBegin(n)
        BY <1>0, <3>1 DEF GetBegin, TypeOK
      <3>2. CASE SkipBegin(n)
        BY <1>0, <3>2 DEF SkipBegin, TypeOK
      <3> QED BY <1>1, <3>1, <3>2
    <2>2. rlen' \in 0..N /\ rlen' <= used
      BY <1>0, <2>1 DEF Clamp, Requests
    <2>3. TypeOK'
      BY <1>0, <2>1, <2>2 DEF TypeOK, putVars
    <2>4. IndicesNeverCross'
      BY <1>0, <2>1, <2>2 DEF IndicesNeverCross, used, left, putVars
    <2>5. CopiedDataStable'
      BY <1>0, <2>1 DEF CopiedDataStable, putVars, chunk1, Wrap
    <2> QED BY <2>3, <2>4, <2>5 DEF IInv
  <1>2. CASE GetCopy1
    <2> DEFINE c == chunk1(head, rlen)
    <2>1. /\ rdata' = [i \in 1..c |-> circle[head + i - 1]]
          /\ rpc' = "copy2" /\ UNCHANGED <<circle, head, rlen, lastGot, putVars>>
      BY <1>2 DEF GetCopy1
    <2>2. \A i \in 1..c : head + i - 1 \in Slots /\ Wrap(head, i - 1) = head + i - 1
      BY <1>0 DEF TypeOK, Slots, Wrap, size
    <2>3. rdata' \in Seq(Byte) /\ Len(rdata') = c
      <3>1. c \in Nat /\ \A i \in 1..c : circle[head + i - 1] \in Byte
        BY <1>0, <2>2 DEF TypeOK
      <3> HIDE DEF c
      <3> QED BY <2>1, <3>1
    <2>4. TypeOK'
      BY <1>0, <2>1, <2>3 DEF TypeOK, putVars
    <2>5. IndicesNeverCross'
      BY <1>0, <2>1 DEF IndicesNeverCross, used, left, putVars
    <2>6. chunk1(head, rlen)' = c
      BY <2>1 DEF chunk1
    <2> HIDE DEF c
    <2>7. \A i \in 1..c : rdata'[i] = circle'[Wrap(head', i - 1)]
      BY <2>1, <2>2 DEF Wrap
    <2>8. CopiedDataStable'
      BY <1>0, <2>1, <2>3, <2>6, <2>7 DEF CopiedDataStable, putVars, chunk1, Wrap
    <2> QED BY <2>4, <2>5, <2>8 DEF IInv
  <1>3. CASE GetCopy2
    <2> DEFINE c == chunk1(head, rlen)
    <2>1. /\ rdata' = [i \in 1..rlen |-> IF i <= c THEN rdata[i] ELSE circle[i - c - 1]]
          /\ rpc = "copy2" /\ rpc' = "publish"
          /\ UNCHANGED <<circle, head, rlen, lastGot, putVars>>
      BY <1>3 DEF GetCopy2
    <2>2. /\ Len(rdata) = c
          /\ \A i \in 1..c : rdata[i] = circle[Wrap(head, i - 1)]
      BY <1>0, <2>1 DEF CopiedDataStable
    <2>3. \A i \in 1..rlen : i > c => Wrap(head, i - 1) = i - c - 1 /\ i - c - 1 \in Slots
      BY <1>0 DEF TypeOK, Slots, Wrap, size
    <2>4. rdata' \in Seq(Byte) /\ Len(rdata') = rlen
      <3> HIDE DEF c
      <3>1. \A i \in 1..rlen : rdata'[i] \in Byte
        BY <1>0, <2>1, <2>2, <2>3 DEF TypeOK, c
      <3> QED BY <1>0, <2>1, <3>1 DEF TypeOK
    <2>5. TypeOK'
      BY <1>0, <2>1, <2>4 DEF TypeOK, putVars
    <2>6. IndicesNeverCross'
      BY <1>0, <2>1 DEF IndicesNeverCross, used, left, putVars
    <2>7. \A i \in 1..rlen : rdata'[i] = circle'[Wrap(head', i - 1)]
      <3> HIDE DEF c
      <3> QED BY <1>0, <2>1, <2>2, <2>3 DEF Wrap, TypeOK, c
    <2>8. CopiedDataStable'
      BY <1>0, <2>1, <2>4, <2>7 DEF CopiedDataStable, putVars, chunk1, Wrap
    <2> QED BY <2>5, <2>6, <2>8 DEF IInv
  <1>4. CASE GetPublish \/ SkipPublish
    <2>1. /\ head' = Wrap(head, rlen) /\ head' \in Slots
          /\ rlen' = 0 /\ rpc' = "idle" /\ UNCHANGED <<circle, putVars>>
          /\ rdata' \in Seq(Byte) /\ lastGot' \in Seq(Byte)
      <3>1. CASE GetPublish
        BY <1>0, <3>1, ModIsWrap DEF GetPublish, TypeOK
      <3>2. CASE SkipPublish
        BY <1>0, <3>2, ModIsWrap DEF SkipPublish, TypeOK
      <3> QED BY <1>4, <3>1, <3>2
    <2>2. used' = used - rlen
      BY <1>4, TakeShrinks
    <2>3. TypeOK'
      BY <1>0, <2>1 DEF TypeOK, putVars
    <2>4. IndicesNeverCross'
      BY <1>0, <2>1, <2>2 DEF IndicesNeverCross, left, TypeOK, putVars, size
    <2>5. CopiedDataStable'
      BY <1>0, <2>1 DEF CopiedDataStable, putVars, chunk1, Wrap
    <2> QED BY <2>3, <2>4, <2>5 DEF IInv
  <1> QED BY <1>1, <1>2, <1>3, <1>4 DEF Getter

LEMMA StutterInv == IInv /\ UNCHANGED vars => IInv'
  BY DEF IInv, TypeOK, IndicesNeverCross, CopiedDataStable, vars, putVars, getVars,
         used, left, Wrap, chunk1

LEMMA Invariance == Spec => []IInv
  <1>1. IInv /\ [Next]_vars => IInv'
    BY PutterInv, GetterInv, StutterInv DEF Next
  <1> QED BY InitInv, <1>1, PTL DEF Spec

-----------------------------------------------------------------------------
(* The theorems.                                                           *)

\* Every variable keeps its type; in particular the indices stay inside the
\* array, whatever the two processes ask for (wvmagiccircle.cc, used()'s asserts).
THEOREM TypeCorrectness == Spec => []TypeOK
  BY Invariance, PTL DEF IInv

\* The room put() found in left() and the data get() found in used() are still
\* there when they publish their index.
THEOREM IndexOrder == Spec => []IndicesNeverCross
  BY Invariance, PTL DEF IInv

\* What put() stored and what get() copied is undisturbed until published.
THEOREM DataStability == Spec => []CopiedDataStable
  BY Invariance, PTL DEF IInv

\* The memcpy calls of put() and get() never touch the same byte.
THEOREM RaceFreedom == Spec => []RegionsDisjoint
  <1>1. IInv => RegionsDisjoint
    <2> SUFFICES ASSUME IInv,
                        NEW i \in 0..(Len(wdata) - 1), NEW j \in 0..(rlen - 1),
                        Wrap(tail, i) = Wrap(head, j)
                 PROVE  FALSE
      BY DEF RegionsDisjoint, PutRegion, GetRegion
    <2>1. /\ Len(wdata) \in Nat /\ head \in 0..N /\ tail \in 0..N /\ size = N + 1
          /\ rlen \in 0..N /\ Len(wdata) <= N - used /\ rlen <= used
      BY NAssumption DEF IInv, TypeOK, IndicesNeverCross, Slots, size, left, used
    <2> QED BY NAssumption, <2>1 DEF used, Wrap
  <1> QED BY Invariance, <1>1, PTL

-----------------------------------------------------------------------------
(* Refinement of BoundedFifo.                                              *)

\* Contents is a sequence of bytes, and says which.
ContentsOK ==
    /\ Contents \in Seq(Byte) /\ Len(Contents) = used /\ used \in 0..N
    /\ \A i \in 1..used : Contents[i] = circle[Wrap(head, i - 1)]

LEMMA ContentsType == IInv => ContentsOK
  <1> SUFFICES ASSUME IInv PROVE ContentsOK
    OBVIOUS
  <1>1. used \in 0..N
    BY NAssumption DEF IInv, TypeOK, used, Slots, size
  <1>2. \A i \in 1..used : circle[Wrap(head, i - 1)] \in Byte
    <2> SUFFICES ASSUME NEW i \in 1..used PROVE Wrap(head, i - 1) \in Slots
      BY DEF IInv, TypeOK
    <2> QED BY <1>1, WrapFacts, NAssumption DEF IInv, TypeOK
  <1> HIDE DEF used
  <1> QED BY <1>1, <1>2 DEF Contents, ContentsOK

\* Storing tail appends what put() copied.
LEMMA PublishAppends ==
    ASSUME IInv, ContentsOK, ContentsOK', PutPublish
    PROVE  Contents' = Contents \o wdata
  <1>1. /\ used' = used + Len(wdata) /\ Len(wdata) \in Nat /\ wdata \in Seq(Byte)
        /\ used \in 0..N /\ used' \in 0..N /\ head \in 0..N /\ tail \in 0..N
        /\ size = N + 1
    <2>1. Len(wdata) \in Nat /\ wdata \in Seq(Byte) /\ used' \in 0..N
      BY DEF IInv, TypeOK, ContentsOK
    <2> QED BY <2>1, PublishGrows, IndexFacts
  <1>2. \A i \in 1..used' : Contents'[i] = circle[Wrap(head, i - 1)]
    BY DEF ContentsOK, PutPublish, getVars, Wrap
  <1>3. \A i \in 1..used : Contents'[i] = Contents[i]
    BY <1>1, <1>2 DEF ContentsOK
  <1>4. ASSUME NEW k \in 1..Len(wdata) PROVE Contents'[used + k] = wdata[k]
    <2>2. Wrap(head, used + k - 1) = Wrap(tail, k - 1)
      BY <1>1, IndexFacts, NAssumption DEF Wrap
    <2>3. circle[Wrap(tail, k - 1)] = wdata[k]
      BY DEF IInv, CopiedDataStable, PutPublish
    <2> QED BY <1>1, <1>2, <2>2, <2>3
  <1>5. /\ Contents \in Seq(Byte) /\ Len(Contents) = used
        /\ Contents' \in Seq(Byte) /\ Len(Contents') = used'
    BY DEF ContentsOK
  <1> HIDE DEF Contents, used
  <1>6. /\ Len(Contents') = Len(Contents) + Len(wdata)
        /\ \A i \in 1..Len(Contents) : Contents'[i] = Contents[i]
        /\ \A i \in 1..Len(wdata) : Contents'[Len(Contents) + i] = wdata[i]
    BY <1>1, <1>3, <1>4, <1>5
  <1>7. wdata \in Seq(Byte) /\ Contents \in Seq(Byte) /\ Contents' \in Seq(Byte)
    BY <1>1, <1>5
  <1> QED BY ONLY <1>6, <1>7, IsConcat

\* Storing head removes the first rlen bytes.
LEMMA TakeRemoves ==
    ASSUME IInv, ContentsOK, ContentsOK', GetPublish \/ SkipPublish
    PROVE  Contents' = SubSeq(Contents, rlen + 1, Len(Contents))
  <1>1. /\ used' = used - rlen /\ head' = Wrap(head, rlen)
    BY TakeShrinks
  <1>2. /\ rlen \in 0..N /\ rlen <= used /\ used \in 0..N
        /\ size = N + 1 /\ head \in 0..N /\ circle' = circle
    BY IndexFacts DEF GetPublish, SkipPublish
  <1>3. ASSUME NEW i \in 1..used' PROVE Contents'[i] = Contents[rlen + i]
    <2>1. Contents'[i] = circle[Wrap(head', i - 1)]
      BY <1>2 DEF ContentsOK, Wrap
    <2>2. Wrap(head', i - 1) = Wrap(head, rlen + i - 1)
      BY <1>1, <1>2, NAssumption DEF Wrap
    <2>3. rlen + i \in 1..used
      BY <1>1, <1>2
    <2>4. Contents[rlen + i] = circle[Wrap(head, rlen + i - 1)]
      <3>1. \A j \in 1..used : Contents[j] = circle[Wrap(head, j - 1)]
        BY DEF ContentsOK
      <3> HIDE DEF Contents, used
      <3> QED BY <1>1, <1>2, <2>3, <3>1, NAssumption
    <2> QED BY <2>1, <2>2, <2>4
  <1>4. /\ Contents \in Seq(Byte) /\ Len(Contents) = used
        /\ Contents' \in Seq(Byte) /\ Len(Contents') = used'
    BY DEF ContentsOK
  <1> HIDE DEF Contents, used
  <1>5. /\ rlen \in 0..Len(Contents) /\ Len(Contents') = Len(Contents) - rlen
        /\ \A i \in 1..Len(Contents') : Contents'[i] = Contents[rlen + i]
    BY <1>1, <1>2, <1>3, <1>4
  <1> QED BY <1>4, <1>5, IsSuffixOf

\* get() returns the oldest rlen bytes.
LEMMA GetReturnsOldest ==
    ASSUME IInv, ContentsOK, GetPublish
    PROVE  lastGot' = SubSeq(Contents, 1, rlen)
  <1>1. /\ rlen \in 0..N /\ rlen <= used /\ lastGot' = rdata /\ Len(rdata) = rlen
        /\ rdata \in Seq(Byte)
        /\ \A i \in 1..rlen : rdata[i] = circle[Wrap(head, i - 1)]
    BY DEF IInv, TypeOK, IndicesNeverCross, CopiedDataStable, GetPublish
  <1>2. \A i \in 1..rlen : rdata[i] = Contents[i]
    BY <1>1, NAssumption DEF ContentsOK
  <1> HIDE DEF Contents, used
  <1> QED BY <1>1, <1>2, IsPrefixOf, NAssumption DEF ContentsOK

\* Copying in does not change what is stored between head and tail.
LEMMA CopyInvisible ==
    ASSUME IInv, PutCopy1 \/ PutCopy2
    PROVE  Contents' = Contents
  <1> DEFINE c == chunk1(tail, Len(wdata))
  <1>1. /\ Len(wdata) \in 0..N /\ c \in 0..Len(wdata) /\ tail + c <= size
        /\ (c = Len(wdata) \/ c = size - tail)
        /\ size = N + 1 /\ head \in 0..N /\ tail \in 0..N
        /\ Len(wdata) <= N - used /\ used \in 0..N
    BY IndexFacts, NAssumption DEF chunk1
  <1> HIDE DEF c
  <1>2. used = IF tail - head < 0 THEN tail - head + N + 1 ELSE tail - head
    BY IndexFacts
  <1>3. head' = head /\ tail' = tail
    BY DEF PutCopy1, PutCopy2, getVars
  <1>4. ASSUME NEW i \in 1..used PROVE circle'[Wrap(head, i - 1)] = circle[Wrap(head, i - 1)]
    <2>1. Wrap(head, i - 1) \in Slots
      <3>1. head \in Slots /\ i - 1 \in 0..N
        BY <1>1, IndexFacts, NAssumption
      <3> QED BY <3>1, WrapFacts
    <2>2. CASE PutCopy1
      <3>1. Wrap(head, i - 1) \notin tail..(tail + c - 1)
        BY <1>1, <1>2, NAssumption DEF Wrap
      <3> QED BY <2>1, <2>2, <3>1 DEF PutCopy1, c
    <2>3. CASE PutCopy2
      <3>1. Wrap(head, i - 1) \notin 0..(Len(wdata) - c - 1)
        BY <1>1, <1>2, NAssumption DEF Wrap
      <3> QED BY <2>1, <2>3, <3>1 DEF PutCopy2, c
    <2> QED BY <2>2, <2>3
  <1>5. used' = used
    BY <1>3 DEF used
  <1> HIDE DEF used
  <1> QED BY <1>3, <1>4, <1>5 DEF Contents, Wrap

\* The shared queue of put(), get() and skip() is a bounded FIFO.
THEOREM Refinement == Spec => ImplementsFifo
  <1>1. Init => Fifo!Init
    <2> SUFFICES ASSUME Init PROVE Contents = << >> /\ wdata = << >> /\ lastGot = << >>
      BY DEF Fifo!Init
    <2>1. used = 0
      BY DEF Init, used
    <2> QED BY <2>1 DEF Init, Contents
  <1>2. ASSUME IInv, ContentsOK, ContentsOK', [Next]_vars
        PROVE  [Fifo!Next]_Fifo!vars
    <2>1. /\ Contents \in Seq(Byte) /\ Len(Contents) = used /\ used \in 0..N
          /\ Len(Contents') = used' /\ used' \in 0..N
      BY <1>2 DEF ContentsOK
    <2>2. ASSUME NEW n \in Requests, NEW data \in [1..n -> Byte], PutBegin(data)
          PROVE  Fifo!Next
      <3> DEFINE m == Clamp(Len(data), left)
      <3>1. n \in Nat /\ Len(data) = n /\ data \in Seq(Byte)
        BY NAssumption DEF Requests
      <3>2. m \in 0..n /\ m <= N - Len(Contents)
        BY <3>1, <2>1, NAssumption DEF Clamp, left, size
      <3>3. wdata' = SubSeq(data, 1, m) /\ UNCHANGED <<circle, tail, getVars>>
        BY <2>2 DEF PutBegin
      <3> HIDE DEF m
      <3>4. wdata' \in [1..m -> Byte] /\ Len(wdata') = m
        <4>1. wdata' \in Seq(Byte) /\ Len(wdata') = m
          BY <3>1, <3>2, <3>3, SubSeqProperties
        <4> QED BY <4>1, LenProperties
      <3>5. UNCHANGED <<Contents, lastGot>>
        BY <3>3 DEF Contents, used, Wrap, getVars
      <3>6. Fifo!Offer(wdata')
        BY <2>1, <3>2, <3>4, <3>5, NAssumption DEF Fifo!Offer
      <3>7. m \in 0..(N - Len(Contents))
        BY <2>1, <3>2, NAssumption
      <3> QED BY <3>4, <3>6, <3>7 DEF Fifo!Next
    <2>3. CASE PutCopy1 \/ PutCopy2
      BY <1>2, <2>3, CopyInvisible DEF PutCopy1, PutCopy2, getVars, Fifo!vars
    <2>4. CASE PutPublish
      <3>1. Contents' = Contents \o wdata /\ lastGot' = lastGot
        BY <1>2, <2>4, PublishAppends DEF PutPublish, getVars
      <3> QED BY <2>4, <3>1 DEF Fifo!Next, Fifo!Put, PutPublish
    <2>5. ASSUME NEW n \in Requests, GetBegin(n) \/ SkipBegin(n)
          PROVE  UNCHANGED Fifo!vars
      BY <2>5 DEF GetBegin, SkipBegin, putVars, Fifo!vars, Contents, used, Wrap
    <2>6. CASE GetCopy1 \/ GetCopy2
      BY <2>6 DEF GetCopy1, GetCopy2, putVars, Fifo!vars, Contents, used, Wrap
    <2>7. CASE GetPublish \/ SkipPublish
      <3>1. Contents' = SubSeq(Contents, rlen + 1, Len(Contents))
        BY <1>2, <2>7, TakeRemoves
      <3>2. rlen \in 0..Len(Contents)
        BY <1>2, <2>1 DEF IInv, TypeOK, IndicesNeverCross
      <3>3. CASE GetPublish
        BY <1>2, <3>1, <3>2, <3>3, GetReturnsOldest DEF Fifo!Next, Fifo!Get, GetPublish, putVars
      <3>4. CASE SkipPublish
        BY <3>1, <3>2, <3>4 DEF Fifo!Next, Fifo!Skip, SkipPublish, putVars
      <3> QED BY <2>7, <3>3, <3>4
    <2>8. CASE UNCHANGED vars
      BY <2>8 DEF vars, putVars, getVars, Fifo!vars, Contents, used, Wrap
    <2> QED
      BY <1>2, <2>2, <2>3, <2>4, <2>5, <2>6, <2>7, <2>8 DEF Next, Putter, Getter
  <1> QED BY <1>1, <1>2, Invariance, ContentsType, PTL
          DEF Spec, ImplementsFifo, Fifo!Spec
=============================================================================
