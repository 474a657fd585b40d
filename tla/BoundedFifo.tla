---------------------------- MODULE BoundedFifo ----------------------------
(***************************************************************************)
(* What a shared-memory circular queue promises to the two processes that  *)
(* use it (include/wvmagiccircle.h): a bounded first-in first-out queue of *)
(* bytes.  The putter settles on the bytes it will store (Offer) and       *)
(* stores them all at once (Put); Get removes a prefix and hands it to the *)
(* reader, Skip drops a prefix.                                            *)
(***************************************************************************)
EXTENDS Integers, Sequences

CONSTANTS Byte,      \* the bytes that are stored
          Capacity   \* the number of bytes the queue may hold

VARIABLES queue,     \* the bytes put and not yet taken
          pending,   \* the bytes the putter is about to put
          lastGot    \* the bytes the most recent Get returned

vars == <<queue, pending, lastGot>>

Init == queue = << >> /\ pending = << >> /\ lastGot = << >>

\* A put that finds too little room offers a prefix of its argument only.
Offer(data) ==
    /\ Len(queue) + Len(data) <= Capacity
    /\ pending' = data
    /\ UNCHANGED <<queue, lastGot>>

Put ==
    /\ queue' = queue \o pending
    /\ pending' = << >>
    /\ UNCHANGED lastGot

Get(n) ==
    /\ lastGot' = SubSeq(queue, 1, n)
    /\ queue' = SubSeq(queue, n + 1, Len(queue))
    /\ UNCHANGED pending

Skip(n) ==
    /\ queue' = SubSeq(queue, n + 1, Len(queue))
    /\ UNCHANGED <<pending, lastGot>>

Next ==
    \/ \E n \in 0..(Capacity - Len(queue)) : \E data \in [1..n -> Byte] : Offer(data)
    \/ Put
    \/ \E n \in 0..Len(queue) : Get(n) \/ Skip(n)

Spec == Init /\ [][Next]_vars
=============================================================================
