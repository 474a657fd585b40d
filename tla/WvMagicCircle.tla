--------------------------- MODULE WvMagicCircle ---------------------------
(***************************************************************************)
(* utils/wvmagiccircle.cc: a circular queue in memory shared by the two    *)
(* processes of a fork().  One process puts, the other gets or skips, with *)
(* no lock: each index has one writer (tail the putter, head the getter)   *)
(* and a process publishes its index after it has finished copying.        *)
(*                                                                         *)
(* Every operation is cut where the other process can be seen to step in   *)
(* between: reading the foreign index, each memcpy, storing the own index. *)
(* A memcpy is one step; RegionsDisjoint is what makes that harmless.      *)
(* Stores become visible in program order (the code relies on volatile     *)
(* indices and on the memcpy calls not being moved across them).           *)
(***************************************************************************)
EXTENDS Integers, Sequences

CONSTANTS Byte,     \* the values of a byte; the shared pages start as zeros
          N         \* the constructor's _size: the capacity in bytes

ASSUME ByteAssumption == 0 \in Byte
ASSUME NAssumption == N \in Nat \ {0}

\* A circular queue uses one extra byte, so that full and empty differ.
size == N + 1

Slots == 0..(size - 1)

VARIABLES circle,   \* the shared bytes
          head,     \* next byte to get: stored by the getter only
          tail,     \* next byte to put: stored by the putter only
          wpc,      \* where the putter is in put()
          wdata,    \* the bytes put() will publish (already cut to len)
          rpc,      \* where the getter is in get()
          rlen,     \* the length get() settled on
          rdata,    \* what get() has copied out so far
          lastGot   \* what the most recent get() returned

putVars == <<tail, wpc, wdata>>
getVars == <<head, rpc, rlen, rdata, lastGot>>
vars == <<circle, putVars, getVars>>

-----------------------------------------------------------------------------
(* The arithmetic of the two indices.                                      *)

used_unwrapped == tail - head

\* used(): the signed difference, wrapped once.
used == IF tail - head < 0 THEN tail - head + size ELSE tail - head

left == size - used - 1

\* The slot i places after index x, for an index and a distance below size.
Wrap(x, i) == IF x + i < size THEN x + i ELSE x + i - size

\* How many of n bytes lie before the end of the array, from index x.
chunk1(x, n) == IF n < size - x THEN n ELSE size - x

Clamp(n, max) == IF n > max THEN max ELSE n

\* The bytes stored between head and tail, oldest first.
Contents == [i \in 1..used |-> circle[Wrap(head, i - 1)]]

-----------------------------------------------------------------------------

Init ==
    /\ circle = [i \in Slots |-> 0]
    /\ head = 0 /\ tail = 0
    /\ wpc = "idle" /\ wdata = << >>
    /\ rpc = "idle" /\ rlen = 0 /\ rdata = << >>
    /\ lastGot = << >>

PutBegin_unclamped(data) ==
    /\ wpc = "idle"
    /\ wdata' = data
    /\ wpc' = "copy1"
    /\ UNCHANGED <<circle, tail, getVars>>

\* put(data, len): len is cut to left(), for which head is read once.
PutBegin(data) ==
    /\ wpc = "idle"
    /\ wdata' = SubSeq(data, 1, Clamp(Len(data), left))
    /\ wpc' = "copy1"
    /\ UNCHANGED <<circle, tail, getVars>>

\* memcpy(circle + tail, data, chunk1)
PutCopy1 ==
    /\ wpc = "copy1"
    /\ LET c == chunk1(tail, Len(wdata))
       IN  circle' = [s \in Slots |->
                        IF s \in tail..(tail + c - 1) THEN wdata[s - tail + 1] ELSE circle[s]]
    /\ wpc' = "copy2"
    /\ UNCHANGED <<tail, wdata, getVars>>

PutCopy2_forgotten ==
    /\ wpc = "copy2"
    /\ wpc' = "publish"
    /\ UNCHANGED <<circle, tail, wdata, getVars>>

\* The rest of the data goes to the start of the array.
PutCopy2 ==
    /\ wpc = "copy2"
    /\ LET c == chunk1(tail, Len(wdata))
       IN  circle' = [s \in Slots |->
                        IF s \in 0..(Len(wdata) - c - 1) THEN wdata[c + s + 1] ELSE circle[s]]
    /\ wpc' = "publish"
    /\ UNCHANGED <<tail, wdata, getVars>>

PutPublish ==
    /\ wpc = "publish"
    /\ tail' = (tail + Len(wdata)) % size
    /\ wpc' = "idle"
    /\ wdata' = << >>
    /\ UNCHANGED <<circle, getVars>>

\* get(data, len): len is cut to used(), for which tail is read once.
GetBegin(len) ==
    /\ rpc = "idle"
    /\ rlen' = Clamp(len, used)
    /\ rdata' = << >>
    /\ rpc' = "copy1"
    /\ UNCHANGED <<circle, head, lastGot, putVars>>

\* memcpy(data, circle + head, chunk1)
GetCopy1 ==
    /\ rpc = "copy1"
    /\ rdata' = [i \in 1..chunk1(head, rlen) |-> circle[head + i - 1]]
    /\ rpc' = "copy2"
    /\ UNCHANGED <<circle, head, rlen, lastGot, putVars>>

GetCopy2 ==
    /\ rpc = "copy2"
    /\ LET c == chunk1(head, rlen)
       IN  rdata' = [i \in 1..rlen |-> IF i <= c THEN rdata[i] ELSE circle[i - c - 1]]
    /\ rpc' = "publish"
    /\ UNCHANGED <<circle, head, rlen, lastGot, putVars>>

GetPublish ==
    /\ rpc = "publish"
    /\ head' = (head + rlen) % size
    /\ lastGot' = rdata
    /\ rpc' = "idle"
    /\ rlen' = 0
    /\ rdata' = << >>
    /\ UNCHANGED <<circle, putVars>>

\* skip(len): the same process as get(); only indices are touched.
SkipBegin(len) ==
    /\ rpc = "idle"
    /\ rlen' = Clamp(len, used)
    /\ rpc' = "skip"
    /\ UNCHANGED <<circle, head, rdata, lastGot, putVars>>

SkipPublish ==
    /\ rpc = "skip"
    /\ head' = (head + rlen) % size
    /\ rpc' = "idle"
    /\ rlen' = 0
    /\ UNCHANGED <<circle, rdata, lastGot, putVars>>

\* Requests longer than the queue are cut like the longest that fits, so N + 1
\* bytes are enough to ask for.
Requests == 0..(N + 1)

Putter ==
    \/ \E n \in Requests : \E data \in [1..n -> Byte] : PutBegin(data)
    \/ PutCopy1 \/ PutCopy2 \/ PutPublish

Getter ==
    \/ \E n \in Requests : GetBegin(n) \/ SkipBegin(n)
    \/ GetCopy1 \/ GetCopy2 \/ GetPublish \/ SkipPublish

Next == Putter \/ Getter

Spec == Init /\ [][Next]_vars

-----------------------------------------------------------------------------
(* Properties                                                              *)

TypeOK ==
    /\ circle \in [Slots -> Byte]
    /\ head \in Slots /\ tail \in Slots
    /\ wpc \in {"idle", "copy1", "copy2", "publish"}
    /\ wdata \in Seq(Byte)
    /\ rpc \in {"idle", "copy1", "copy2", "publish", "skip"}
    /\ rlen \in 0..N
    /\ rdata \in Seq(Byte)
    /\ lastGot \in Seq(Byte)

\* The slots an unfinished put() may still store into, and the slots an
\* unfinished get() may still read.
PutRegion == {Wrap(tail, i) : i \in 0..(Len(wdata) - 1)}
GetRegion == {Wrap(head, i) : i \in 0..(rlen - 1)}

\* No byte is ever in the hands of both processes: what put() may still store
\* into and what get() may still read are disjoint, whatever the two have read
\* of each other's index and however stale that is (wvmagiccircle.cc takes no
\* lock between left()/used() and the memcpy calls).
RegionsDisjoint == PutRegion \cap GetRegion = {}

\* The room put() found and the data get() found are still there when it
\* publishes: neither index ever passes the other (the asserts of used()).
IndicesNeverCross == Len(wdata) <= left /\ rlen <= used

\* What has been copied stays true until it is published: the bytes put() has
\* stored are not disturbed before tail moves over them, and what get() has
\* copied out is still what the shared memory holds when head moves (a put()
\* that started later may run completely in between).
CopiedDataStable ==
    /\ \A i \in 1..Len(wdata) :
          \/ wpc = "copy2" /\ i <= chunk1(tail, Len(wdata))
          \/ wpc = "publish"
          => circle[Wrap(tail, i - 1)] = wdata[i]
    /\ rpc = "copy2" => Len(rdata) = chunk1(head, rlen)
    /\ rpc = "publish" => Len(rdata) = rlen
    /\ rpc \in {"copy2", "publish"} =>
          \A i \in 1..Len(rdata) : rdata[i] = circle[Wrap(head, i - 1)]

\* The queue is a FIFO of at most N bytes: every put() appears to take place
\* when tail is stored, with exactly the bytes it settled on, and every get() and
\* skip() when head is stored.
Fifo == INSTANCE BoundedFifo WITH
          queue <- Contents, pending <- wdata, Capacity <- N
ImplementsFifo == Fifo!Spec
=============================================================================
