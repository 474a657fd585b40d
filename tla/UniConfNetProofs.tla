-------------------------- MODULE UniConfNetProofs --------------------------
(***************************************************************************)
(* Proofs about UniConfNet: for any clients, keys and values, any program  *)
(* of calls and any faults.                                                *)
(*                                                                         *)
(* Sound is what holds of one client, g, the commands cq and the answers   *)
(* sq on the way, the daemon's end d of the connection, and the registry   *)
(* st.  It has parts that need nothing else (Shape, Seeing), and parts     *)
(* that hold for the programs that keep a rule: setv() is not called       *)
(* (Progress), nor by watchers anything that waits (Reported); if a cache  *)
(* loads its tree, both (Fresh).  A step of one connection leaves the      *)
(* others alone (LocalStep); a change of the registry does not             *)
(* (ChangeStep).                                                           *)
(***************************************************************************)
EXTENDS UniConfNet, SequenceTheorems, WellFoundedInduction, FiniteSetTheorems, TLAPS

\* A sequence that starts like a and goes on like b is their concatenation.
LEMMA IsConcat ==
    ASSUME NEW S, NEW a \in Seq(S), NEW b \in Seq(S), NEW c \in Seq(S),
           Len(c) = Len(a) + Len(b),
           \A i \in 1..Len(a) : c[i] = a[i],
           \A i \in 1..Len(b) : c[Len(a) + i] = b[i]
    PROVE  c = a \o b
  <1>1. a \o b \in Seq(S) /\ Len(a \o b) = Len(c)
    BY ConcatProperties
  <1>2. ASSUME NEW i \in 1..Len(c) PROVE c[i] = (a \o b)[i]
    <2>1. (a \o b)[i] = IF i <= Len(a) THEN a[i] ELSE b[i - Len(a)]
      BY ConcatProperties
    <2>2. CASE i <= Len(a)
      BY <2>1, <2>2
    <2>3. CASE i > Len(a)
      <3>1. i - Len(a) \in 1..Len(b) /\ Len(a) + (i - Len(a)) = i
        BY <2>3
      <3> QED BY <2>1, <2>3, <3>1
    <2> QED BY <2>2, <2>3
  <1> QED BY <1>1, <1>2, SeqEqual

\* Every set of naturals has a least element.
LEMMA LeastNatural ==
    ASSUME NEW T, T \subseteq Nat, T # {}
    PROVE  \E x \in T : \A y \in T : x <= y
  <1> DEFINE R == OpToRel(<, Nat)
  <1>1. IsWellFoundedOn(R, Nat)
    BY NatLessThanWellFounded, Zenon
  <1>2. \A a, b \in Nat : a < b => <<a, b>> \in R
    BY DEF OpToRel
  <1> HIDE DEF R
  <1>3. PICK x \in T : \A y \in T : ~(<<y, x>> \in R)
    BY <1>1, WFMin
  <1>4. ASSUME NEW y \in T PROVE x <= y
    <2>1. x \in Nat /\ y \in Nat /\ <<y, x>> \notin R
      BY <1>3
    <2>2. ~(y < x)
      BY <1>2, <2>1
    <2> QED BY <2>1, <2>2
  <1> QED BY <1>4

\* The rules.
NoSetv == "setv" \notin Ops \cup CallbackOps
WatchersDoNotWait == CallbackOps \subseteq {"set", "quit"}
NoLoading == "cache_refresh" \notin Ops \cup CallbackOps
LoadRule == NoLoading \/ (NoSetv /\ WatchersDoNotWait)

\* Types.
CallNames == {"get", "set", "setv", "haschildren", "commit", "refresh", "iterator", "cache_refresh",
              "loadtree", "notice"}
Listings == {"iterator", "loadtree"}
Loads == {"cache_refresh", "loadtree"}
Answer == Optional \cup {"TRUE", "FALSE"}
ToDaemon == {m \in [cmd : Commands, key : AnyKey, val : Optional] :
                m.cmd \in {"get", "set", "del"} => m.key \in Keys}
ToClient == {m \in [cmd : Replies \cup {"VAL", "NOTICE", "HELLO"}, key : AnyKey, val : Answer] :
                m.cmd \in {"VAL", "NOTICE"} => m.key \in Keys /\ m.val \in Optional}
Notice == {m \in ToClient : m.cmd = "NOTICE"}
Shown == {m \in ToClient : m.cmd = "VAL" /\ m.val # Null}
KeyValue == [key : Keys, val : Values]
Sightings == SUBSET (Keys \X Optional)
Call == [
    op : CallNames, key : AnyKey, pc : {"wait", "drain", "flush", "callback"}, todo : Seq(KeyValue),
    seen : Sightings]
Returns == [
    op : CallNames \cup {"none"}, key : AnyKey, val : Answer, list : Seq(Shown), ok : BOOLEAN,
    seen : Sightings]
Client == [
    ok : BOOLEAN, version : Nat, cmdinprogress : BOOLEAN, cmdsuccess : BOOLEAN, result_key : AnyKey,
    result : Answer, listing : BOOLEAN, result_list : Seq(Shown), hold_nesting : Nat,
    deltas : Seq(Notice), stack : Seq(Call), aborted : BOOLEAN, view : [Keys -> Optional],
    known : SUBSET Keys, refreshed_once : BOOLEAN, last : Returns]
Server == [open : BOOLEAN, busy : BOOLEAN, recursive : BOOLEAN, rest : Seq(KeyValue)]

Types ==
    /\ store \in [Keys -> Optional] /\ niceness \in 0..ContinueSelectAt
    /\ c2s \in [Clients -> Seq(ToDaemon)] /\ s2c \in [Clients -> Seq(ToClient)]
    /\ dconn \in [Clients -> Server] /\ cl \in [Clients -> Client] /\ budget \in Nat

-----------------------------------------------------------------------------
(* The calls of a client.                                                  *)

\* A call that has been interrupted is in a callback; a notice from the main loop is the
\* outermost one; set() does not wait; and every call but that for a notice holds the notices once.
Stacked(s, h) ==
    /\ \A i \in 1..Len(s) : i < Len(s) \/ s[i].op = "notice" => s[i].pc = "callback"
    /\ \A i \in 1..Len(s) : s[i].op = "notice" => i = 1
    /\ \A i \in 1..Len(s) : s[i].op = "set" => s[i].pc # "wait"
    /\ h = Len(s) - (IF Len(s) > 0 /\ s[1].op = "notice" THEN 1 ELSE 0)

\* result_list is there exactly during a listing, and for one listing.
Lists(s, listing) ==
    /\ \A i \in 1..Len(s) : s[i].op \in Listings => listing
    /\ \A i, j \in 1..Len(s) : s[i].op \in Listings /\ s[j].op \in Listings => i = j
    /\ listing => \E i \in 1..Len(s) : s[i].op \in Listings

Shape(g) ==
    /\ Stacked(g.stack, g.hold_nesting) /\ Lists(g.stack, g.listing)
    /\ g.hold_nesting = 0 => g.deltas = << >>

\* Every call under way has seen the present values.
Seeing(s, st) == \A i \in 1..Len(s), k \in Keys : <<k, st[k]>> \in s[i].seen

-----------------------------------------------------------------------------
(* What a client knows.                                                    *)

Tells(m, k) == m.cmd = "NOTICE" /\ m.key = k

\* After the notices of q, whoever had view has v for k.
Knows(view, q, k, v) ==
    \/ /\ view[k] = v
       /\ \A j \in 1..Len(q) : ~Tells(q[j], k)
    \/ \E i \in 1..Len(q) :
          /\ Tells(q[i], k) /\ q[i].val = v
          /\ \A j \in (i + 1)..Len(q) : ~Tells(q[j], k)

\* A cache loads once; until then it has nothing of the keys that it was not told of.
Loading(s, once) == \A i \in 1..Len(s) : s[i].op \in Loads => ~once /\ ~NoLoading
Within(q, S) == \A i \in 1..Len(q) : q[i].cmd = "NOTICE" => q[i].key \in S
Unaware(g, sq) ==
    ~g.refreshed_once =>
        /\ Within(g.deltas, g.known) /\ Within(sq, g.known)
        /\ \A k \in Keys : k \in g.known \/ g.view[k] = Null

Fresh(g, sq, d, st) ==
    /\ Loading(g.stack, g.refreshed_once) /\ Unaware(g, sq)
    /\ g.ok /\ d.open => \A k \in g.known : Knows(g.view, g.deltas \o sq, k, st[k])

-----------------------------------------------------------------------------
(* The request in progress.                                                *)

\* Waiting(c), as a predicate of the client.
Calling(g) ==
    /\ g.stack # << >> /\ g.stack[Len(g.stack)].pc = "wait" /\ ~g.aborted
    /\ g.ok /\ g.cmdinprogress

\* m is the command that the call f writes, and an answer to it.
RightAsk(f, m) ==
    /\ m.cmd \in {"get", "subt", "subtr", "hchild", "commit", "refresh"}
    /\ f.op = "get" => m.cmd = "get" /\ m.key = f.key
    /\ f.op \in Listings <=> m.cmd \in {"subt", "subtr"}
RightReply(f, m) ==
    /\ m.cmd \in Replies
    /\ f.op = "get" => \/ m.cmd = "ONEVAL" /\ m.key = f.key /\ <<f.key, m.val>> \in f.seen
                       \/ m.cmd = "FAIL" /\ <<f.key, Null>> \in f.seen
    /\ f.op \in Listings => m.cmd = "OK"

\* No question in q; no answer in q, or not even an entry of one.
Silent(q) == \A i \in 1..Len(q) : q[i].cmd \notin Asks
Unanswered(q) == \A i \in 1..Len(q) : q[i].cmd \notin Replies
Still(q) == \A i \in 1..Len(q) : q[i].cmd \in {"NOTICE", "HELLO"}

\* The entries of a listing f, those in got, those on the way in q and those to come in rest:
\* all are values that f has seen, and no key is missing that was there all the time.
Mentions(q, k) == \E i \in 1..Len(q) : q[i].key = k
Brings(q, k) == \E i \in 1..Len(q) : q[i].cmd = "VAL" /\ q[i].key = k /\ q[i].val # Null
Witnessed(f, q) == \A i \in 1..Len(q) : <<q[i].key, q[i].val>> \in f.seen
Shows(f, got, q, rest) ==
    /\ Witnessed(f, got) /\ Witnessed(f, rest)
    /\ \A i \in 1..Len(q) : q[i].cmd = "VAL" /\ q[i].val # Null => <<q[i].key, q[i].val>> \in f.seen
    /\ \A k \in Keys : <<k, Null>> \in f.seen \/ Mentions(got, k) \/ Brings(q, k) \/ Mentions(rest, k)

\* The command is on its way to the daemon, behind commands without an answer;
Asked(f, got, cq, sq, d) ==
    /\ d.open /\ ~d.busy /\ cq # << >> /\ RightAsk(f, cq[Len(cq)])
    /\ \A i \in 1..(Len(cq) - 1) : cq[i].cmd \notin Asks
    /\ Still(sq) /\ (f.op \in Listings => got = << >>)
\* or a listing has begun;
Begun(f, got, cq, sq, d) ==
    /\ d.open /\ d.busy /\ Silent(cq) /\ Unanswered(sq)
    /\ f.op \in Listings /\ Shows(f, got, sq, d.rest)
\* or the answer is on its way back, behind the entries;
Replied(f, sq) ==
    \E j \in 1..Len(sq) :
        /\ RightReply(f, sq[j])
        /\ \A i \in 1..Len(sq) : i # j => sq[i].cmd \notin Replies
        /\ \A i \in (j + 1)..Len(sq) : sq[i].cmd # "VAL"
Answered(f, got, cq, sq, d) ==
    /\ ~d.busy /\ Silent(cq) /\ Replied(f, sq)
    /\ IF f.op \in Listings THEN Shows(f, got, sq, << >>) ELSE \A i \in 1..Len(sq) : sq[i].cmd # "VAL"
\* or it will never come.
Cut(sq, d) == ~d.open /\ Unanswered(sq)

Idle(cq, sq, d) == ~d.busy /\ Silent(cq) /\ Still(sq)

Phase(f, got, cq, sq, d) ==
    Asked(f, got, cq, sq, d) \/ Begun(f, got, cq, sq, d) \/ Answered(f, got, cq, sq, d) \/ Cut(sq, d)

\* As long as the client is connected, what is on the way is the one request it waits for.
Progress(g, cq, sq, d) ==
    /\ g.ok /\ ~Calling(g) => Idle(cq, sq, d)
    /\ Calling(g) => ~g.cmdsuccess /\ Phase(g.stack[Len(g.stack)], g.result_list, cq, sq, d)

-----------------------------------------------------------------------------
(* The results.                                                            *)

\* What get(), or a listing, f will return is right.
GetRight(g, f) ==
    IF g.cmdsuccess /\ g.result_key = f.key THEN <<f.key, g.result>> \in f.seen ELSE <<f.key, Null>> \in f.seen
Collected(g) ==
    g.stack # << >> /\ ~(Len(g.stack) = 1 /\ Calling(g)) =>
        /\ g.stack[1].op = "get" /\ g.ok => GetRight(g, g.stack[1])
        /\ g.stack[1].op \in Listings /\ g.cmdsuccess => Shows(g.stack[1], g.result_list, << >>, << >>)

\* What the last call returned is right.
Right(r) ==
    /\ r.op = "get" /\ r.ok => <<r.key, r.val>> \in r.seen
    /\ r.op = "iterator" /\ r.val = "TRUE" => Shows(r, r.list, << >>, << >>)

Reported(g) ==
    /\ \A i \in 2..Len(g.stack) : g.stack[i].op = "set"
    /\ Collected(g) /\ Right(g.last)

-----------------------------------------------------------------------------

Sound(g, cq, sq, d, st) ==
    /\ Shape(g) /\ Seeing(g.stack, st)
    /\ LoadRule => Fresh(g, sq, d, st)
    /\ NoSetv => Progress(g, cq, sq, d)
    /\ NoSetv /\ WatchersDoNotWait => Reported(g)

\* The inductive invariant.
UniConfInv ==
    /\ Types
    /\ \A c \in Clients : Sound(cl[c], c2s[c], s2c[c], dconn[c], store)

-----------------------------------------------------------------------------
(* Steps.                                                                  *)

\* What the invariant says of a client.
LEMMA ClientFacts ==
    ASSUME UniConfInv, NEW c \in Clients
    PROVE  /\ cl[c] \in Client /\ c2s[c] \in Seq(ToDaemon) /\ s2c[c] \in Seq(ToClient)
           /\ dconn[c] \in Server /\ store \in [Keys -> Optional]
           /\ niceness \in 0..ContinueSelectAt /\ budget \in Nat
           /\ Sound(cl[c], c2s[c], s2c[c], dconn[c], store)
  BY DEF UniConfInv, Types

\* A step of the connection of c, which leaves the other connections alone.
LEMMA LocalStep ==
    ASSUME UniConfInv, NEW c \in Clients,
           NEW g \in Client, NEW cq \in Seq(ToDaemon), NEW sq \in Seq(ToClient), NEW d \in Server,
           cl' = [cl EXCEPT ![c] = g], c2s' = [c2s EXCEPT ![c] = cq],
           s2c' = [s2c EXCEPT ![c] = sq], dconn' = [dconn EXCEPT ![c] = d],
           store' = store, niceness' \in 0..ContinueSelectAt, budget' \in Nat,
           Sound(g, cq, sq, d, store)
    PROVE  UniConfInv'
  <1>t. Types
    BY DEF UniConfInv
  <1>1. Types'
    BY <1>t DEF Types
  <1>2. ASSUME NEW e \in Clients PROVE Sound(cl'[e], c2s'[e], s2c'[e], dconn'[e], store')
    <2>1. CASE e = c
      <3>1. cl'[e] = g /\ c2s'[e] = cq /\ s2c'[e] = sq /\ dconn'[e] = d
        BY <1>t, <2>1 DEF Types
      <3> QED BY <3>1
    <2>2. CASE e # c
      <3>1. cl'[e] = cl[e] /\ c2s'[e] = c2s[e] /\ s2c'[e] = s2c[e] /\ dconn'[e] = dconn[e]
        BY <1>t, <2>2 DEF Types
      <3> QED BY <3>1 DEF UniConfInv
    <2> QED BY <2>1, <2>2
  <1> QED BY <1>1, <1>2 DEF UniConfInv

\* Writing an element of a function back changes nothing.
LEMMA SameElement ==
    ASSUME NEW S, NEW T, NEW f \in [S -> T], NEW x \in S
    PROVE  [f EXCEPT ![x] = f[x]] = f
  OBVIOUS

\* Messages that do not tell of k do not change what a client will know of k.
LEMMA KnowsMore ==
    ASSUME NEW view, NEW q \in Seq(ToClient), NEW w \in Seq(ToClient), NEW k, NEW v,
           \A i \in 1..Len(w) : ~Tells(w[i], k),
           Knows(view, q, k, v)
    PROVE  Knows(view, q \o w, k, v)
  <1> DEFINE p == q \o w
  <1>1. /\ Len(p) = Len(q) + Len(w) /\ Len(q) \in Nat /\ Len(w) \in Nat
        /\ \A i \in 1..Len(q) : p[i] = q[i]
        /\ \A i \in (Len(q) + 1)..Len(p) : p[i] = w[i - Len(q)] /\ i - Len(q) \in 1..Len(w)
    <2>1. /\ Len(p) = Len(q) + Len(w)
          /\ \A i \in 1..(Len(q) + Len(w)) : p[i] = IF i <= Len(q) THEN q[i] ELSE w[i - Len(q)]
      BY ConcatProperties
    <2>2. Len(q) \in Nat /\ Len(w) \in Nat
      OBVIOUS
    <2> QED BY <2>1, <2>2
  <1> HIDE DEF p
  <1>2. \A j \in (Len(q) + 1)..Len(p) : ~Tells(p[j], k)
    BY <1>1
  <1>3. CASE view[k] = v /\ \A j \in 1..Len(q) : ~Tells(q[j], k)
    <2>1. \A j \in 1..Len(p) : ~Tells(p[j], k)
      BY <1>1, <1>2, <1>3
    <2> QED BY <1>3, <2>1 DEF Knows, p
  <1>4. ASSUME NEW i \in 1..Len(q), Tells(q[i], k), q[i].val = v,
               \A j \in (i + 1)..Len(q) : ~Tells(q[j], k)
        PROVE  Knows(view, q \o w, k, v)
    <2>1. i \in 1..Len(p) /\ Tells(p[i], k) /\ p[i].val = v
      BY <1>1, <1>4
    <2>2. \A j \in (i + 1)..Len(p) : ~Tells(p[j], k)
      BY <1>1, <1>2, <1>4, SMTT(30)
    <2> QED BY <2>1, <2>2 DEF Knows, p
  <1> QED BY <1>3, <1>4 DEF Knows

\* What joins two queues.
LEMMA JoinFacts ==
    ASSUME NEW S, NEW q \in Seq(S), NEW w \in Seq(S), NEW p, p = q \o w
    PROVE  /\ p \in Seq(S) /\ Len(q) \in Nat /\ Len(w) \in Nat /\ Len(p) = Len(q) + Len(w)
           /\ \A i \in 1..Len(q) : i \in 1..Len(p) /\ p[i] = q[i]
           /\ \A i \in 1..Len(w) : Len(q) + i \in 1..Len(p) /\ p[Len(q) + i] = w[i]
           /\ \A i \in 1..Len(p) : (i \in 1..Len(q)) \/ (i - Len(q) \in 1..Len(w) /\ p[i] = w[i - Len(q)] /\ i > Len(q))
  <1>1. /\ p \in Seq(S) /\ Len(p) = Len(q) + Len(w)
        /\ \A i \in 1..(Len(q) + Len(w)) : p[i] = IF i <= Len(q) THEN q[i] ELSE w[i - Len(q)]
    BY ConcatProperties
  <1>2. Len(q) \in Nat /\ Len(w) \in Nat
    OBVIOUS
  <1>3. \A i \in 1..Len(w) : Len(q) + i \in 1..Len(p) /\ p[Len(q) + i] = w[i]
    <2>1. ASSUME NEW i \in 1..Len(w) PROVE Len(q) + i \in 1..Len(p) /\ p[Len(q) + i] = w[i]
      <3>1. Len(q) + i \in 1..(Len(q) + Len(w)) /\ ~(Len(q) + i <= Len(q)) /\ (Len(q) + i) - Len(q) = i
        BY <1>2
      <3> QED BY <3>1, <1>1
    <2> QED BY <2>1
  <1>4. \A i \in 1..Len(q) : i \in 1..Len(p) /\ p[i] = q[i]
    BY <1>1, <1>2
  <1>5. \A i \in 1..Len(p) : (i \in 1..Len(q)) \/ (i - Len(q) \in 1..Len(w) /\ p[i] = w[i - Len(q)] /\ i > Len(q))
    BY <1>1, <1>2
  <1> QED BY <1>1, <1>2, <1>3, <1>4, <1>5

\* Joining is associative.
LEMMA JoinTwice ==
    ASSUME NEW S, NEW a \in Seq(S), NEW b \in Seq(S), NEW w \in Seq(S)
    PROVE  a \o (b \o w) = (a \o b) \o w
  BY ConcatAssociative, SMTT(30)

\* What the daemon appends behind the notices does not change what a view will know, when it tells
\* nothing about the key.
LEMMA KnowsMoreBehind ==
    ASSUME NEW view, NEW a \in Seq(ToClient), NEW q \in Seq(ToClient), NEW w \in Seq(ToClient),
           NEW k, NEW v, \A i \in 1..Len(w) : ~Tells(w[i], k),
           Knows(view, a \o q, k, v)
    PROVE  Knows(view, a \o (q \o w), k, v)
  <1>1. a \o (q \o w) = (a \o q) \o w
    BY JoinTwice
  <1>2. a \o q \in Seq(ToClient)
    BY ConcatProperties
  <1>3. Knows(view, (a \o q) \o w, k, v)
    BY <1>2, KnowsMore
  <1> QED BY <1>1, <1>3

\* The held notices are messages.
LEMMA DeltasAreMessages ==
    ASSUME NEW g \in Client
    PROVE  g.deltas \in Seq(Notice) /\ g.deltas \in Seq(ToClient)
  <1>1. g.deltas \in Seq(Notice)
    BY DEF Client
  <1> QED BY <1>1 DEF Notice

\* A step of the daemon that sends w to c, no notice.
LEMMA SendStep ==
    ASSUME UniConfInv, NEW c \in Clients,
           NEW cq \in Seq(ToDaemon), NEW w \in Seq(ToClient), NEW d \in Server,
           c2s' = [c2s EXCEPT ![c] = cq], s2c' = [s2c EXCEPT ![c] = s2c[c] \o w],
           dconn' = [dconn EXCEPT ![c] = d], cl' = cl, store' = store, budget' = budget,
           niceness' \in 0..ContinueSelectAt,
           d.open => dconn[c].open,
           \A i \in 1..Len(w) : w[i].cmd # "NOTICE",
           NoSetv => Progress(cl[c], cq, s2c[c] \o w, d)
    PROVE  UniConfInv'
  <1> DEFINE g == cl[c]
             q == s2c[c]
             sq == s2c[c] \o w
  <1>1. /\ g \in Client /\ q \in Seq(ToClient) /\ dconn[c] \in Server /\ budget \in Nat
        /\ Sound(g, c2s[c], q, dconn[c], store)
    BY ClientFacts
  <1>2. sq \in Seq(ToClient)
    BY <1>1, ConcatProperties
  <1>3. cl' = [cl EXCEPT ![c] = g]
    BY SameElement DEF UniConfInv, Types
  <1>5. Fresh(g, q, dconn[c], store) => Fresh(g, sq, d, store)
    <2>1. ASSUME NEW k \in Keys, Knows(g.view, g.deltas \o q, k, store[k])
          PROVE  Knows(g.view, g.deltas \o sq, k, store[k])
      <3>1. g.deltas \in Seq(ToClient)
        BY <1>1, DeltasAreMessages
      <3>2. \A i \in 1..Len(w) : ~Tells(w[i], k)
        BY DEF Tells
      <3> QED BY <1>1, <2>1, <3>1, <3>2, KnowsMoreBehind
    <2>2. g.known \subseteq Keys
      BY <1>1 DEF Client
    <2>3. Within(q, g.known) => Within(sq, g.known)
      <3>1. \A i \in 1..Len(sq) : (i \in 1..Len(q) /\ sq[i] = q[i]) \/ (\E j \in 1..Len(w) : sq[i] = w[j])
        <4>1. PICK x : x = sq
          OBVIOUS
        <4>2. /\ \A i \in 1..Len(q) : i \in 1..Len(x) /\ x[i] = q[i]
              /\ \A i \in 1..Len(x) : (i \in 1..Len(q)) \/ (i - Len(q) \in 1..Len(w) /\ x[i] = w[i - Len(q)] /\ i > Len(q))
          BY <1>1, <4>1, JoinFacts
        <4> QED BY <4>1, <4>2
      <3> HIDE DEF sq
      <3> QED BY <3>1 DEF Within
    <2> QED BY <2>1, <2>2, <2>3 DEF Fresh, Unaware
  <1>6. Sound(g, cq, sq, d, store)
    BY <1>1, <1>5 DEF Sound
  <1> HIDE DEF g, sq
  <1>7. s2c' = [s2c EXCEPT ![c] = sq]
    BY DEF sq
  <1> QED BY <1>1, <1>2, <1>3, <1>6, <1>7, LocalStep

-----------------------------------------------------------------------------
(* The daemon answers.                                                     *)

\* The last element.
LEMMA LastElement ==
    ASSUME NEW S, NEW q \in Seq(S), q # << >>
    PROVE  Len(q) \in Nat /\ Len(q) \in 1..Len(q) /\ q[Len(q)] \in S
  OBVIOUS

\* The first element and the others.
LEMMA FirstElement ==
    ASSUME NEW S, NEW q \in Seq(S), q # << >>
    PROVE  /\ Len(q) \in Nat /\ 1 \in 1..Len(q) /\ Head(q) = q[1] /\ Head(q) \in S
           /\ Tail(q) \in Seq(S) /\ Len(Tail(q)) = Len(q) - 1
           /\ \A i \in 1..Len(Tail(q)) : Tail(q)[i] = q[i + 1] /\ i + 1 \in 1..Len(q)
  OBVIOUS

\* A sequence of one message.
LEMMA OneMessage ==
    ASSUME NEW S, NEW q \in Seq(S), NEW m \in S
    PROVE  Append(q, m) = q \o <<m>> /\ <<m>> \in Seq(S) /\ Len(<<m>>) = 1 /\ <<m>>[1] = m
  <1>1. Append(q, m) = q \o <<m>>
    BY AppendIsConcat
  <1>2. <<m>> \in Seq(S) /\ Len(<<m>>) = 1 /\ <<m>>[1] = m
    OBVIOUS
  <1> QED BY <1>1, <1>2

\* Joining one message.
LEMMA JoinOne ==
    ASSUME NEW S, NEW q \in Seq(S), NEW m \in S
    PROVE  /\ q \o <<m>> \in Seq(S) /\ Len(q) \in Nat /\ Len(q \o <<m>>) = Len(q) + 1
           /\ \A i \in 1..Len(q) : i \in 1..Len(q \o <<m>>) /\ (q \o <<m>>)[i] = q[i]
           /\ (q \o <<m>>)[Len(q) + 1] = m
           /\ \A i \in 1..Len(q \o <<m>>) : i \in 1..Len(q) \/ i = Len(q) + 1
  <1>1. PICK p : p = q \o <<m>>
    OBVIOUS
  <1>2. p = Append(q, m)
    BY <1>1, OneMessage
  <1>3. /\ p \in Seq(S) /\ Len(p) = Len(q) + 1 /\ p[Len(q) + 1] = m
        /\ \A i \in 1..Len(q) : p[i] = q[i]
    BY <1>2, AppendProperties
  <1>4. Len(q) \in Nat
    OBVIOUS
  <1>5. /\ \A i \in 1..Len(q) : i \in 1..Len(p)
        /\ \A i \in 1..Len(p) : i \in 1..Len(q) \/ i = Len(q) + 1
    BY <1>3, <1>4
  <1> QED BY <1>1, <1>3, <1>4, <1>5

\* A question that the daemon reads is the one that the client waits for.
LEMMA OnlyQuestion ==
    ASSUME NEW g \in Client, NEW cq \in Seq(ToDaemon), NEW sq \in Seq(ToClient), NEW d \in Server,
           Progress(g, cq, sq, d), g.ok, d.open, ~d.busy, cq # << >>, Head(cq).cmd \in Asks
    PROVE  LET f == g.stack[Len(g.stack)]
           IN  /\ Calling(g) /\ ~g.cmdsuccess /\ Tail(cq) = << >> /\ f \in Call
               /\ RightAsk(f, Head(cq)) /\ Still(sq) /\ (f.op \in Listings => g.result_list = << >>)
  <1> DEFINE f == g.stack[Len(g.stack)]
  <1>1. Len(cq) \in Nat /\ 1 \in 1..Len(cq) /\ Head(cq) = cq[1]
    OBVIOUS
  <1>2. ~Silent(cq)
    BY <1>1 DEF Silent
  <1>3. Calling(g)
    BY <1>2 DEF Progress, Idle
  <1>4. ~g.cmdsuccess /\ Asked(f, g.result_list, cq, sq, d)
    BY <1>2, <1>3 DEF Progress, Phase, Begun, Answered, Cut
  <1>5. Len(cq) = 1
    <2>1. ASSUME Len(cq) # 1 PROVE FALSE
      <3>n. PICK n \in Nat : Len(cq) = n
        BY <1>1
      <3>1. 1 \in 1..(Len(cq) - 1)
        BY <1>1, <2>1, <3>n
      <3> QED BY <1>1, <1>4, <3>1 DEF Asked
    <2> QED BY <2>1
  <1>6. Tail(cq) = << >>
    <2>1. Tail(cq) \in Seq(ToDaemon) /\ Len(Tail(cq)) = Len(cq) - 1
      BY HeadTailProperties
    <2>2. Tail(cq) # << >> => Len(Tail(cq)) \in Nat \ {0}
      BY <2>1, EmptySeq
    <2> QED BY <1>5, <2>1, <2>2
  <1>7. f \in Call
    <2>1. g.stack \in Seq(Call) /\ g.stack # << >>
      BY <1>3 DEF Calling, Client
    <2> QED BY <2>1, LastElement
  <1> QED BY <1>1, <1>3, <1>4, <1>5, <1>6, <1>7 DEF Asked

\* The answer goes out.
LEMMA ReplyOnItsWay ==
    ASSUME NEW g \in Client, NEW sq \in Seq(ToClient), NEW d \in Server, NEW m \in ToClient, NEW f,
           f = g.stack[Len(g.stack)],
           Calling(g), ~g.cmdsuccess, Still(sq), ~d.busy, RightReply(f, m), f.op \notin Listings
    PROVE  Progress(g, << >>, sq \o <<m>>, d)
  <1> DEFINE w == <<m>>
             q == sq \o w
  <1>2. /\ q \in Seq(ToClient) /\ Len(sq) \in Nat /\ Len(q) = Len(sq) + 1
        /\ \A i \in 1..Len(sq) : i \in 1..Len(q) /\ q[i] = sq[i]
        /\ q[Len(sq) + 1] = m
        /\ \A i \in 1..Len(q) : i \in 1..Len(sq) \/ i = Len(sq) + 1
    BY JoinOne
  <1> HIDE DEF q
  <1>3. \A i \in 1..Len(sq) : q[i].cmd \notin Replies /\ q[i].cmd # "VAL"
    BY <1>2 DEF Still, Replies
  <1>4. m.cmd \in Replies /\ m.cmd # "VAL"
    BY DEF RightReply, Replies
  <1>5. Replied(f, q)
    <2>1. Len(sq) + 1 \in 1..Len(q) /\ RightReply(f, q[Len(sq) + 1])
      BY <1>2
    <2>2. \A i \in 1..Len(q) : i # Len(sq) + 1 => q[i].cmd \notin Replies
      BY <1>2, <1>3
    <2>3. \A i \in ((Len(sq) + 1) + 1)..Len(q) : q[i].cmd # "VAL"
      BY <1>2
    <2> QED BY <2>1, <2>2, <2>3 DEF Replied
  <1>6. \A i \in 1..Len(q) : q[i].cmd # "VAL"
    BY <1>2, <1>3, <1>4
  <1>7. Silent(<< >>)
    BY DEF Silent
  <1>8. Answered(f, g.result_list, << >>, q, d)
    BY <1>5, <1>6, <1>7 DEF Answered
  <1> QED BY <1>8 DEF Progress, Phase, q

\* What a daemon's handler finds when it reads its next command: the command is well formed and leaves
\* the queue.
LEMMA ReadFacts ==
    ASSUME UniConfInv, NEW c \in Clients, NEW cmd, Reads(c, cmd)
    PROVE  /\ dconn[c].open /\ ~dconn[c].busy /\ c2s[c] # << >> /\ budget' = budget
           /\ Head(c2s[c]) \in ToDaemon /\ Head(c2s[c]).cmd = cmd /\ Tail(c2s[c]) \in Seq(ToDaemon)
           /\ c2s' = [c2s EXCEPT ![c] = Tail(c2s[c])]
  <1>1. c2s[c] \in Seq(ToDaemon)
    BY ClientFacts
  <1> QED BY <1>1 DEF Reads

\* The daemon sends m in answer to a question.
LEMMA AnswerStep ==
    ASSUME UniConfInv, NEW c \in Clients, NEW cmd \in Asks, Reads(c, cmd),
           NEW m \in ToClient, m.cmd \in Replies, Sends(c, m),
           UNCHANGED <<store, dconn, niceness, cl>>,
           \A f \in Call : RightAsk(f, Head(c2s[c])) /\ (\A k \in Keys : <<k, store[k]>> \in f.seen)
                => RightReply(f, m) /\ f.op \notin Listings
    PROVE  UniConfInv'
  <1> DEFINE w == <<m>>
             f == cl[c].stack[Len(cl[c].stack)]
  <1>1. /\ cl[c] \in Client /\ c2s[c] \in Seq(ToDaemon) /\ s2c[c] \in Seq(ToClient)
        /\ dconn[c] \in Server /\ niceness \in 0..ContinueSelectAt
        /\ Sound(cl[c], c2s[c], s2c[c], dconn[c], store)
    BY ClientFacts
  <1>2. /\ dconn[c].open /\ ~dconn[c].busy /\ c2s[c] # << >> /\ budget' = budget
        /\ Head(c2s[c]) \in ToDaemon /\ Head(c2s[c]).cmd = cmd /\ Tail(c2s[c]) \in Seq(ToDaemon)
        /\ c2s' = [c2s EXCEPT ![c] = Tail(c2s[c])]
    BY ReadFacts
  <1>3. w \in Seq(ToClient) /\ Len(w) = 1 /\ w[1] = m /\ s2c' = [s2c EXCEPT ![c] = s2c[c] \o w]
    <2>1. Append(s2c[c], m) = s2c[c] \o w /\ w \in Seq(ToClient) /\ Len(w) = 1 /\ w[1] = m
      BY <1>1, OneMessage
    <2> HIDE DEF w
    <2> QED BY <2>1 DEF Sends
  <1>4. \A i \in 1..Len(w) : w[i].cmd # "NOTICE"
    <2> HIDE DEF w
    <2> QED BY <1>3 DEF Replies
  <1>5. ASSUME NoSetv PROVE Progress(cl[c], Tail(c2s[c]), s2c[c] \o w, dconn[c])
    <2>1. CASE ~cl[c].ok
      BY <2>1 DEF Progress, Calling
    <2>2. CASE cl[c].ok
      <3>1. Progress(cl[c], c2s[c], s2c[c], dconn[c])
        BY <1>1, <1>5 DEF Sound
      <3>2. /\ Calling(cl[c]) /\ ~cl[c].cmdsuccess /\ Tail(c2s[c]) = << >> /\ f \in Call
            /\ RightAsk(f, Head(c2s[c])) /\ Still(s2c[c])
        BY <1>1, <1>2, <2>2, <3>1, OnlyQuestion
      <3>3. \A k \in Keys : <<k, store[k]>> \in f.seen
        <4>1. cl[c].stack \in Seq(Call) /\ cl[c].stack # << >>
          BY <1>1, <3>2 DEF Calling, Client
        <4>2. Len(cl[c].stack) \in 1..Len(cl[c].stack)
          BY <4>1, LastElement
        <4> QED BY <1>1, <4>2 DEF Sound, Seeing
      <3>4. RightReply(f, m) /\ f.op \notin Listings
        BY <3>2, <3>3
      <3>5. Progress(cl[c], << >>, s2c[c] \o <<m>>, dconn[c])
        BY <1>1, <1>2, <3>2, <3>4, ReplyOnItsWay
      <3> QED BY <3>2, <3>5
    <2> QED BY <2>1, <2>2
  <1>6. dconn' = [dconn EXCEPT ![c] = dconn[c]]
    BY SameElement DEF UniConfInv, Types
  <1> HIDE DEF w
  <1> QED BY <1>1, <1>2, <1>3, <1>4, <1>5, <1>6, SendStep

\* The messages of the daemon.
LEMMA Messages ==
    /\ \A r \in {"OK", "FAIL", "HELLO"} : Plain(r) \in ToClient /\ Plain(r).cmd = r
    /\ \A k \in Keys, v \in Optional :
          /\ Msg("ONEVAL", k, v) \in ToClient
          /\ Msg("ONEVAL", k, v).cmd = "ONEVAL" /\ Msg("ONEVAL", k, v).key = k /\ Msg("ONEVAL", k, v).val = v
          /\ Msg("VAL", k, v) \in ToClient
          /\ Msg("VAL", k, v).cmd = "VAL" /\ Msg("VAL", k, v).key = k /\ Msg("VAL", k, v).val = v
          /\ Msg("NOTICE", k, v) \in ToClient
          /\ Msg("NOTICE", k, v).cmd = "NOTICE" /\ Msg("NOTICE", k, v).key = k /\ Msg("NOTICE", k, v).val = v
    /\ \A b \in {"TRUE", "FALSE"} :
          Msg("CHILD", Root, b) \in ToClient /\ Msg("CHILD", Root, b).cmd = "CHILD"
  BY DEF Plain, Msg, ToClient, Replies, AnyKey, Answer, Optional

\* uniconfd's do_get: one reply or one FAIL, with the stored value, to the call that asked.
LEMMA DoGet ==
    ASSUME UniConfInv, NEW c \in Clients, do_get(c)
    PROVE  UniConfInv'
  <1>1. Reads(c, "get") /\ "get" \in Asks
    BY DEF do_get, Asks, Commands
  <1>2. Head(c2s[c]) \in ToDaemon /\ Head(c2s[c]).cmd = "get"
    BY <1>1, ReadFacts
  <1>3. PICK k \in Keys : Head(c2s[c]).key = k
    BY <1>2 DEF ToDaemon
  <1>4. PICK m : m = IF store[k] = Null THEN Plain("FAIL") ELSE Msg("ONEVAL", k, store[k])
    OBVIOUS
  <1>5. Sends(c, m) /\ UNCHANGED <<store, dconn, niceness, cl>>
    BY <1>3, <1>4 DEF do_get
  <1>6. store[k] \in Optional
    BY ClientFacts
  <1>7. m \in ToClient /\ m.cmd \in Replies
    BY <1>4, <1>6, Messages DEF Replies
  <1>8. ASSUME NEW f \in Call, RightAsk(f, Head(c2s[c])), \A x \in Keys : <<x, store[x]>> \in f.seen
        PROVE  RightReply(f, m) /\ f.op \notin Listings
    <2>1. f.op \notin Listings
      BY <1>2, <1>8 DEF RightAsk
    <2>2. f.op = "get" => f.key = k
      BY <1>3, <1>8 DEF RightAsk
    <2>3. CASE store[k] = Null
      BY <1>4, <1>7, <1>8, <2>1, <2>2, <2>3, Messages DEF RightReply
    <2>4. CASE store[k] # Null
      BY <1>4, <1>6, <1>7, <1>8, <2>1, <2>2, <2>4, Messages DEF RightReply
    <2> QED BY <2>3, <2>4, <2>1
  <1> QED BY <1>1, <1>5, <1>7, <1>8, AnswerStep

\* uniconfd's do_haschildren: one CHILD reply.
LEMMA DoHasChildren ==
    ASSUME UniConfInv, NEW c \in Clients, do_haschildren(c)
    PROVE  UniConfInv'
  <1>1. Reads(c, "hchild") /\ "hchild" \in Asks
    BY DEF do_haschildren, Asks, Commands
  <1>2. Head(c2s[c]) \in ToDaemon /\ Head(c2s[c]).cmd = "hchild"
    BY <1>1, ReadFacts
  <1>3. PICK b \in {"TRUE", "FALSE"} : Sends(c, Msg("CHILD", Root, b))
    BY DEF do_haschildren
  <1>4. PICK m : m = Msg("CHILD", Root, b)
    OBVIOUS
  <1>5. Sends(c, m) /\ UNCHANGED <<store, dconn, niceness, cl>>
    BY <1>3, <1>4 DEF do_haschildren
  <1>7. m \in ToClient /\ m.cmd \in Replies
    BY <1>4, Messages DEF Replies
  <1>8. ASSUME NEW f \in Call, RightAsk(f, Head(c2s[c])) PROVE RightReply(f, m) /\ f.op \notin Listings
    BY <1>2, <1>7, <1>8 DEF RightAsk, RightReply
  <1> QED BY <1>1, <1>5, <1>7, <1>8, AnswerStep

\* The commands that are answered by OK or FAIL.
LEMMA PlainAnswer ==
    ASSUME UniConfInv, NEW c \in Clients, NEW cmd \in {"commit", "refresh", "setv"}, Reads(c, cmd),
           NEW r \in {"OK", "FAIL"}, Sends(c, Plain(r)), UNCHANGED <<store, dconn, niceness, cl>>
    PROVE  UniConfInv'
  <1>1. cmd \in Asks
    BY DEF Asks, Commands
  <1>2. Head(c2s[c]) \in ToDaemon /\ Head(c2s[c]).cmd = cmd
    BY ReadFacts
  <1>4. PICK m : m = Plain(r)
    OBVIOUS
  <1>5. Sends(c, m) /\ UNCHANGED <<store, dconn, niceness, cl>>
    BY <1>4
  <1>7. m \in ToClient /\ m.cmd \in Replies
    BY <1>4, Messages DEF Replies
  <1>8. ASSUME NEW f \in Call, RightAsk(f, Head(c2s[c])) PROVE RightReply(f, m) /\ f.op \notin Listings
    BY <1>2, <1>7, <1>8 DEF RightAsk, RightReply
  <1> QED BY <1>1, <1>5, <1>7, <1>8, AnswerStep

\* The commands answered by a bare OK or FAIL: commit, refresh and those the daemon does not accept.
LEMMA DoPlain ==
    ASSUME UniConfInv, NEW c \in Clients, do_commit(c) \/ do_refresh(c) \/ do_invalid(c)
    PROVE  UniConfInv'
  BY PlainAnswer DEF do_commit, do_refresh, do_invalid

\* Whoever reads a question that no call writes has lost its client.
LEMMA DoQuit ==
    ASSUME UniConfInv, NEW c \in Clients, do_quit(c)
    PROVE  UniConfInv'
  <1>1. Reads(c, "quit") /\ "quit" \in Asks /\ UNCHANGED <<store, niceness, cl>>
    BY DEF do_quit, Asks, Commands
  <1>2. /\ cl[c] \in Client /\ c2s[c] \in Seq(ToDaemon) /\ s2c[c] \in Seq(ToClient)
        /\ dconn[c] \in Server /\ niceness \in 0..ContinueSelectAt
        /\ Sound(cl[c], c2s[c], s2c[c], dconn[c], store)
    BY ClientFacts
  <1>3. /\ dconn[c].open /\ ~dconn[c].busy /\ c2s[c] # << >> /\ budget' = budget
        /\ Head(c2s[c]) \in ToDaemon /\ Head(c2s[c]).cmd = "quit" /\ Tail(c2s[c]) \in Seq(ToDaemon)
        /\ c2s' = [c2s EXCEPT ![c] = Tail(c2s[c])]
    BY <1>1, ReadFacts
  <1>4. PICK w : w = <<Plain("OK")>>
    OBVIOUS
  <1>5. w \in Seq(ToClient) /\ Len(w) = 1 /\ w[1].cmd = "OK" /\ s2c' = [s2c EXCEPT ![c] = s2c[c] \o w]
    <2>1. PICK m : m = Plain("OK")
      OBVIOUS
    <2>2. m \in ToClient /\ m.cmd = "OK" /\ w = <<m>>
      BY <2>1, <1>4, Messages
    <2>3. Append(s2c[c], m) = s2c[c] \o w /\ w \in Seq(ToClient) /\ Len(w) = 1 /\ w[1] = m
      BY <1>2, <2>2, OneMessage
    <2>4. s2c' = [s2c EXCEPT ![c] = Append(s2c[c], m)]
      BY <2>1 DEF do_quit, Sends
    <2> QED BY <2>2, <2>3, <2>4
  <1>6. PICK d : d = [dconn[c] EXCEPT !.open = FALSE]
    OBVIOUS
  <1>7. d \in Server /\ ~d.open /\ dconn' = [dconn EXCEPT ![c] = d]
    BY <1>2, <1>6 DEF do_quit, Server
  <1>8. NoSetv => ~cl[c].ok
    BY <1>1, <1>2, <1>3, OnlyQuestion DEF Sound, RightAsk
  <1>9. NoSetv => Progress(cl[c], Tail(c2s[c]), s2c[c] \o w, d)
    BY <1>8 DEF Progress, Calling
  <1>10. \A i \in 1..Len(w) : w[i].cmd # "NOTICE"
    BY <1>5
  <1> QED BY <1>1, <1>2, <1>3, <1>5, <1>7, <1>9, <1>10, SendStep

\* The daemon closes the connection of a client that has gone.
LEMMA DoHangUp ==
    ASSUME UniConfInv, NEW c \in Clients, HangUp(c)
    PROVE  UniConfInv'
  <1>1. UNCHANGED <<store, c2s, s2c, niceness, cl, budget>> /\ ~cl[c].ok
    BY DEF HangUp
  <1>2. /\ cl[c] \in Client /\ c2s[c] \in Seq(ToDaemon) /\ s2c[c] \in Seq(ToClient)
        /\ dconn[c] \in Server /\ niceness \in 0..ContinueSelectAt /\ budget \in Nat
        /\ Sound(cl[c], c2s[c], s2c[c], dconn[c], store)
    BY ClientFacts
  <1>6. PICK d : d = [dconn[c] EXCEPT !.open = FALSE]
    OBVIOUS
  <1>7. d \in Server /\ ~d.open /\ dconn' = [dconn EXCEPT ![c] = d]
    BY <1>2, <1>6 DEF HangUp, Server
  <1>8. cl' = [cl EXCEPT ![c] = cl[c]] /\ c2s' = [c2s EXCEPT ![c] = c2s[c]] /\ s2c' = [s2c EXCEPT ![c] = s2c[c]]
    BY <1>1, SameElement DEF UniConfInv, Types
  <1>9. Sound(cl[c], c2s[c], s2c[c], d, store)
    BY <1>1, <1>2, <1>7 DEF Sound, Fresh, Progress, Calling
  <1> QED BY <1>1, <1>2, <1>7, <1>8, <1>9, LocalStep

-----------------------------------------------------------------------------
(* The connection breaks.                                                  *)

\* The elements of a prefix of a sequence.
LEMMA PrefixFacts ==
    ASSUME NEW S, NEW q \in Seq(S), NEW n \in 0..Len(q)
    PROVE  /\ SubSeq(q, 1, n) \in Seq(S) /\ Len(SubSeq(q, 1, n)) = n
           /\ \A i \in 1..n : SubSeq(q, 1, n)[i] = q[i] /\ i \in 1..Len(q)
  <1>1. PICK l \in Nat : Len(q) = l
    OBVIOUS
  <1>2. n \in Int /\ n >= 0 /\ \A i \in 1..n : q[i] \in S /\ i \in 1..Len(q)
    BY <1>1
  <1>3. /\ SubSeq(q, 1, n) \in Seq(S) /\ Len(SubSeq(q, 1, n)) = IF 1 <= n THEN n - 1 + 1 ELSE 0
        /\ \A i \in 1..(n - 1 + 1) : SubSeq(q, 1, n)[i] = q[1 + i - 1]
    BY <1>2, SubSeqProperties
  <1>4. n - 1 + 1 = n /\ \A i \in 1..n : 1 + i - 1 = i
    BY <1>2
  <1> QED BY <1>2, <1>3, <1>4

\* What a prefix of the answers leaves of the request in progress.
LEMMA BrokenPhase ==
    ASSUME NEW f \in Call, NEW got \in Seq(Shown), NEW cq \in Seq(ToDaemon), NEW sq \in Seq(ToClient),
           NEW d \in Server, NEW e \in Server, ~e.open, ~e.busy, NEW p \in Seq(ToClient),
           NEW n \in Nat, Len(p) = n, \A i \in 1..n : p[i] = sq[i] /\ i \in 1..Len(sq),
           Phase(f, got, cq, sq, d)
    PROVE  Phase(f, got, << >>, p, e)
  <1>1. CASE Asked(f, got, cq, sq, d)
    <2>1. Unanswered(p)
      BY <1>1 DEF Asked, Still, Unanswered, Replies
    <2> QED BY <2>1 DEF Phase, Cut
  <1>2. CASE Begun(f, got, cq, sq, d) \/ Cut(sq, d)
    <2>1. Unanswered(p)
      BY <1>2 DEF Begun, Cut, Unanswered
    <2> QED BY <2>1 DEF Phase, Cut
  <1>3. CASE Answered(f, got, cq, sq, d)
    <2>1. PICK j \in 1..Len(sq) :
            /\ RightReply(f, sq[j])
            /\ \A i \in 1..Len(sq) : i # j => sq[i].cmd \notin Replies
            /\ \A i \in (j + 1)..Len(sq) : sq[i].cmd # "VAL"
      BY <1>3 DEF Answered, Replied
    <2>l. PICK l \in Nat : Len(sq) = l
      OBVIOUS
    <2>2. CASE j > n
      <3>1. Unanswered(p)
        BY <2>1, <2>2, <2>l DEF Unanswered
      <3> QED BY <3>1 DEF Phase, Cut
    <2>3. CASE j <= n
      <3>1. j \in 1..n
        BY <2>1, <2>3, <2>l
      <3>2. Replied(f, p)
        <4>1. \A i \in (j + 1)..n : p[i].cmd # "VAL"
          BY <2>1, <2>l, <3>1
        <4>2. \A i \in 1..n : i # j => p[i].cmd \notin Replies
          BY <2>1
        <4>3. RightReply(f, p[j])
          BY <2>1, <3>1
        <4> QED BY <3>1, <4>1, <4>2, <4>3 DEF Replied
      <3>3. ASSUME f.op \in Listings PROVE Shows(f, got, p, << >>)
        <4>1. Shows(f, got, sq, << >>)
          BY <1>3, <3>3 DEF Answered
        <4>2. ASSUME NEW k \in Keys, Brings(sq, k) PROVE Brings(p, k)
          <5>1. PICK i \in 1..Len(sq) : sq[i].cmd = "VAL" /\ sq[i].key = k /\ sq[i].val # Null
            BY <4>2 DEF Brings
          <5>2. i \in 1..n
            BY <2>1, <2>l, <3>1, <5>1
          <5> QED BY <5>1, <5>2 DEF Brings
        <4>3. \A i \in 1..Len(p) : p[i].cmd = "VAL" /\ p[i].val # Null => <<p[i].key, p[i].val>> \in f.seen
          BY <4>1 DEF Shows
        <4> QED BY <4>1, <4>2, <4>3 DEF Shows
      <3>4. f.op \notin Listings => \A i \in 1..Len(p) : p[i].cmd # "VAL"
        BY <1>3 DEF Answered
      <3>5. Silent(<< >>)
        BY DEF Silent
      <3> QED BY <3>2, <3>3, <3>4, <3>5 DEF Phase, Answered
    <2> QED BY <2>1, <2>2, <2>3, <2>l
  <1> QED BY <1>1, <1>2, <1>3 DEF Phase

\* The call that a client waits in.
LEMMA TopCall ==
    ASSUME NEW g \in Client, g.stack # << >>
    PROVE  /\ g.stack \in Seq(Call) /\ Len(g.stack) \in Nat /\ Len(g.stack) \in 1..Len(g.stack)
           /\ g.stack[Len(g.stack)] \in Call
  <1>1. g.stack \in Seq(Call)
    BY DEF Client
  <1> QED BY <1>1, LastElement

\* The connection breaks: the commands under way are lost, the client still gets a prefix of what was
\* sent.
LEMMA DoBreak ==
    ASSUME UniConfInv, NEW c \in Clients, Break(c)
    PROVE  UniConfInv'
  <1>1. /\ cl[c] \in Client /\ c2s[c] \in Seq(ToDaemon) /\ s2c[c] \in Seq(ToClient)
        /\ dconn[c] \in Server /\ niceness \in 0..ContinueSelectAt /\ budget \in Nat
        /\ Sound(cl[c], c2s[c], s2c[c], dconn[c], store)
    BY ClientFacts
  <1>2. UNCHANGED <<store, niceness, cl, budget>> /\ c2s' = [c2s EXCEPT ![c] = << >>]
    BY DEF Break
  <1>3. PICK d : d = [dconn[c] EXCEPT !.open = FALSE, !.busy = FALSE, !.rest = << >>]
    OBVIOUS
  <1>4. d \in Server /\ ~d.open /\ ~d.busy /\ dconn' = [dconn EXCEPT ![c] = d]
    <2>1. << >> \in Seq(KeyValue)
      OBVIOUS
    <2>2. d \in Server /\ ~d.open /\ ~d.busy
      BY <1>1, <1>3, <2>1 DEF Server
    <2>3. dconn \in [Clients -> Server]
      BY DEF UniConfInv, Types
    <2>4. dconn' = [dconn EXCEPT ![c].open = FALSE, ![c].busy = FALSE, ![c].rest = << >>]
      BY DEF Break
    <2>5. dconn' = [dconn EXCEPT ![c] = [dconn[c] EXCEPT !.open = FALSE, !.busy = FALSE, !.rest = << >>]]
      BY <2>3, <2>4
    <2> QED BY <1>3, <2>2, <2>5
  <1>5. PICK n \in 0..Len(s2c[c]) : s2c' = [s2c EXCEPT ![c] = SubSeq(s2c[c], 1, n)]
    BY DEF Break
  <1>6. n \in Nat
    BY <1>1, <1>5
  <1>7. PICK p : p = SubSeq(s2c[c], 1, n)
    OBVIOUS
  <1>8. p \in Seq(ToClient) /\ Len(p) = n /\ \A i \in 1..n : p[i] = s2c[c][i] /\ i \in 1..Len(s2c[c])
    BY <1>1, <1>5, <1>7, PrefixFacts
  <1>9. s2c' = [s2c EXCEPT ![c] = p]
    BY <1>5, <1>7
  <1>10. ASSUME NoSetv PROVE Progress(cl[c], << >>, p, d)
    <2>1. Progress(cl[c], c2s[c], s2c[c], dconn[c])
      BY <1>1, <1>10 DEF Sound
    <2>2. ASSUME cl[c].ok, ~Calling(cl[c]) PROVE Idle(<< >>, p, d)
      <3>1. Still(s2c[c])
        BY <2>1, <2>2 DEF Progress, Idle
      <3>2. Still(p)
        BY <1>8, <3>1 DEF Still
      <3>3. Silent(<< >>)
        BY DEF Silent
      <3> QED BY <1>4, <3>2, <3>3 DEF Idle
    <2>3. ASSUME Calling(cl[c])
          PROVE  ~cl[c].cmdsuccess /\ Phase(cl[c].stack[Len(cl[c].stack)], cl[c].result_list, << >>, p, d)
      <3>1. ~cl[c].cmdsuccess /\ Phase(cl[c].stack[Len(cl[c].stack)], cl[c].result_list, c2s[c], s2c[c], dconn[c])
        BY <2>1, <2>3 DEF Progress
      <3>2. cl[c].stack[Len(cl[c].stack)] \in Call
        BY <1>1, <2>3, TopCall DEF Calling
      <3>3. cl[c].result_list \in Seq(Shown)
        BY <1>1 DEF Client
      <3>4. PICK f \in Call, got \in Seq(Shown) : f = cl[c].stack[Len(cl[c].stack)] /\ got = cl[c].result_list
        BY <3>2, <3>3
      <3>5. Phase(f, got, c2s[c], s2c[c], dconn[c])
        BY <3>1, <3>4
      <3>6. Phase(f, got, << >>, p, d)
        BY <1>1, <1>4, <1>6, <1>8, <3>5, BrokenPhase
      <3> QED BY <3>1, <3>4, <3>6
    <2> QED BY <2>2, <2>3 DEF Progress
  <1>11. Sound(cl[c], << >>, p, d, store)
    <2>1. Within(s2c[c], cl[c].known) => Within(p, cl[c].known)
      BY <1>8 DEF Within
    <2> QED BY <1>1, <1>4, <1>10, <2>1 DEF Sound, Fresh, Unaware
  <1>12. cl' = [cl EXCEPT ![c] = cl[c]] /\ << >> \in Seq(ToDaemon)
    BY <1>2, SameElement DEF UniConfInv, Types
  <1> QED BY <1>1, <1>2, <1>4, <1>8, <1>9, <1>11, <1>12, LocalStep

-----------------------------------------------------------------------------
(* The registry changes.                                                   *)

\* The daemon reads a command that it does not answer.
LEMMA TailProgress ==
    ASSUME NEW g \in Client, NEW cq \in Seq(ToDaemon), NEW sq \in Seq(ToClient), NEW d \in Server,
           Progress(g, cq, sq, d), d.open, ~d.busy, cq # << >>, Head(cq).cmd \notin Asks
    PROVE  Progress(g, Tail(cq), sq, d)
  <1>1. PICK t : t = Tail(cq)
    OBVIOUS
  <1>2. /\ Head(cq) = cq[1] /\ t \in Seq(ToDaemon) /\ Len(t) = Len(cq) - 1
        /\ \A i \in 1..Len(t) : t[i] = cq[i + 1] /\ i + 1 \in 1..Len(cq)
    BY <1>1, FirstElement
  <1>n. PICK n \in Nat : Len(cq) = n
    OBVIOUS
  <1>3. Silent(cq) => Silent(t)
    BY <1>2 DEF Silent
  <1>4. ASSUME g.ok, ~Calling(g) PROVE Idle(t, sq, d)
    BY <1>3, <1>4 DEF Progress, Idle
  <1>5. ASSUME NEW f, NEW got, Phase(f, got, cq, sq, d) PROVE Phase(f, got, t, sq, d)
    <2>1. CASE Asked(f, got, cq, sq, d)
      <3>1. RightAsk(f, cq[Len(cq)]) /\ cq[Len(cq)].cmd \in Asks
        BY <2>1 DEF Asked, RightAsk, Asks, Commands
      <3>2. n >= 2
        <4>1. n # 1
          BY <1>2, <1>n, <3>1
        <4>2. n # 0
          BY <1>n
        <4> QED BY <4>1, <4>2
      <3>3. t # << >> /\ t[Len(t)] = cq[Len(cq)]
        <4>1. n - 1 \in 1..Len(t) /\ (n - 1) + 1 = n
          BY <1>2, <1>n, <3>2
        <4>2. t[n - 1] = cq[(n - 1) + 1]
          BY <4>1, <1>2
        <4>3. Len(t) = n - 1
          BY <1>2, <1>n
        <4>4. t # << >>
          BY <4>1
        <4> QED BY <4>1, <4>2, <4>3, <4>4, <1>n
      <3>4. \A i \in 1..(Len(t) - 1) : t[i].cmd \notin Asks
        <4>1. ASSUME NEW i \in 1..(Len(t) - 1) PROVE t[i].cmd \notin Asks
          <5>1. i \in 1..Len(t) /\ i + 1 \in 1..(Len(cq) - 1)
            BY <1>2, <1>n
          <5> QED BY <1>2, <2>1, <5>1 DEF Asked
        <4> QED BY <4>1
      <3> QED BY <2>1, <3>1, <3>3, <3>4 DEF Phase, Asked
    <2>2. CASE Answered(f, got, cq, sq, d)
      BY <1>3, <2>2 DEF Phase, Answered
    <2>3. ~Begun(f, got, cq, sq, d) /\ ~Cut(sq, d)
      BY DEF Begun, Cut
    <2> QED BY <1>5, <2>1, <2>2, <2>3 DEF Phase
  <1>6. Progress(g, t, sq, d)
    <2>1. ASSUME Calling(g) PROVE Phase(g.stack[Len(g.stack)], g.result_list, t, sq, d) /\ ~g.cmdsuccess
      BY <1>5, <2>1 DEF Progress
    <2> QED BY <1>4, <2>1 DEF Progress
  <1> QED BY <1>1, <1>6

\* h is g after its calls have seen v at k.
HasSeen(g, h, k, v) ==
    /\ h \in Client
    /\ h.ok = g.ok /\ h.aborted = g.aborted /\ h.known = g.known \cup {k} /\ h.refreshed_once = g.refreshed_once /\ h.last = g.last
    /\ h.cmdinprogress = g.cmdinprogress /\ h.cmdsuccess = g.cmdsuccess
    /\ h.result_key = g.result_key /\ h.result = g.result
    /\ h.listing = g.listing /\ h.result_list = g.result_list
    /\ h.hold_nesting = g.hold_nesting /\ h.deltas = g.deltas /\ h.view = g.view
    /\ Len(h.stack) = Len(g.stack)
    /\ \A i \in 1..Len(g.stack) :
          /\ h.stack[i].op = g.stack[i].op /\ h.stack[i].key = g.stack[i].key
          /\ h.stack[i].pc = g.stack[i].pc /\ h.stack[i].seen = g.stack[i].seen \cup {<<k, v>>}

\* A change of the store is seen by every call a client has under way, makes the key known, and changes
\* nothing else of the client.
LEMMA WitnessSaw ==
    ASSUME NEW g \in Client, NEW k \in Keys, NEW v \in Optional, NEW h,
           h = [g EXCEPT !.stack = [i \in 1..Len(g.stack) |-> Saw(g.stack[i], k, v)], !.known = @ \cup {k}]
    PROVE  HasSeen(g, h, k, v)
  <1>1. g.stack \in Seq(Call)
    BY DEF Client
  <1>n. PICK n \in Nat : Len(g.stack) = n
    BY <1>1
  <1>2. PICK s : s = [i \in 1..n |-> Saw(g.stack[i], k, v)]
    OBVIOUS
  <1>3. ASSUME NEW i \in 1..n
        PROVE  /\ s[i] \in Call /\ s[i].op = g.stack[i].op /\ s[i].key = g.stack[i].key
               /\ s[i].pc = g.stack[i].pc /\ s[i].seen = g.stack[i].seen \cup {<<k, v>>}
    <2>1. PICK f \in Call : f = g.stack[i]
      BY <1>1, <1>n
    <2>2. s[i] = [f EXCEPT !.seen = f.seen \cup {<<k, v>>}]
      BY <1>2, <2>1 DEF Saw
    <2>3. f.seen \cup {<<k, v>>} \in Sightings
      BY DEF Call, Sightings
    <2> QED BY <2>1, <2>2, <2>3 DEF Call
  <1>4. s \in Seq(Call) /\ Len(s) = n
    <2>1. \A i \in 1..n : s[i] \in Call
      BY <1>3
    <2>2. s \in [1..n -> Call]
      BY <1>2, <2>1
    <2> QED BY <2>2
  <1>x. PICK K \in SUBSET Keys : K = g.known \cup {k}
    BY DEF Client
  <1>5. h = [g EXCEPT !.stack = s, !.known = K]
    BY <1>2, <1>n, <1>x
  <1>6. h \in Client /\ h.stack = s
    BY <1>4, <1>5 DEF Client
  <1>7. /\ h.ok = g.ok /\ h.aborted = g.aborted /\ h.known = g.known \cup {k} /\ h.refreshed_once = g.refreshed_once /\ h.last = g.last
        /\ h.cmdinprogress = g.cmdinprogress /\ h.cmdsuccess = g.cmdsuccess
        /\ h.result_key = g.result_key /\ h.result = g.result
        /\ h.listing = g.listing /\ h.result_list = g.result_list
        /\ h.hold_nesting = g.hold_nesting /\ h.deltas = g.deltas /\ h.view = g.view
    BY <1>5, <1>x DEF Client
  <1> QED BY <1>3, <1>4, <1>6, <1>7, <1>n DEF HasSeen

\* Seeing a change keeps the shape of a client's calls.
LEMMA SawShape ==
    ASSUME NEW g \in Client, NEW h, NEW k, NEW v, HasSeen(g, h, k, v), Shape(g)
    PROVE  Shape(h)
  <1>n. PICK n \in Nat : Len(g.stack) = n /\ Len(h.stack) = n
    <2>1. g.stack \in Seq(Call) /\ Len(h.stack) = Len(g.stack)
      BY DEF Client, HasSeen
    <2> QED BY <2>1
  <1>1. Stacked(h.stack, h.hold_nesting)
    BY <1>n DEF HasSeen, Shape, Stacked
  <1>2. Lists(h.stack, h.listing)
    BY <1>n DEF HasSeen, Shape, Lists
  <1> QED BY <1>1, <1>2 DEF HasSeen, Shape

\* After the change every call under way has seen the store's current values.
LEMMA SawSeeing ==
    ASSUME NEW g \in Client, NEW h, NEW k \in Keys, NEW v \in Optional, HasSeen(g, h, k, v),
           NEW st \in [Keys -> Optional], NEW su, su = [st EXCEPT ![k] = v], Seeing(g.stack, st)
    PROVE  Seeing(h.stack, su)
  <1>1. ASSUME NEW i \in 1..Len(h.stack), NEW x \in Keys PROVE <<x, su[x]>> \in h.stack[i].seen
    <2>1. i \in 1..Len(g.stack) /\ h.stack[i].seen = g.stack[i].seen \cup {<<k, v>>}
      BY DEF HasSeen
    <2>2. CASE x = k
      BY <2>1, <2>2
    <2>3. CASE x # k
      BY <2>1, <2>3 DEF Seeing
    <2> QED BY <2>2, <2>3
  <1> QED BY <1>1 DEF Seeing

\* e is the call f after it has seen more.
More(f, e) == e.op = f.op /\ e.key = f.key /\ e.pc = f.pc /\ f.seen \subseteq e.seen

\* A listing that was faithful stays so when its call has seen more.
LEMMA ShowsSeen ==
    ASSUME NEW f, NEW e, More(f, e), NEW got, NEW q, NEW rest, Shows(f, got, q, rest)
    PROVE  Shows(e, got, q, rest)
  BY DEF More, Shows, Witnessed

\* The exchange a call is engaged in stays where it is when the call has seen more.
LEMMA PhaseSeen ==
    ASSUME NEW f, NEW e, More(f, e), NEW got, NEW cq, NEW sq, NEW d, Phase(f, got, cq, sq, d)
    PROVE  Phase(e, got, cq, sq, d)
  <1>1. CASE Asked(f, got, cq, sq, d)
    BY <1>1 DEF More, Phase, Asked, RightAsk
  <1>2. CASE Begun(f, got, cq, sq, d)
    BY <1>2, ShowsSeen DEF More, Phase, Begun
  <1>3. CASE Answered(f, got, cq, sq, d)
    <2>1. \A m : RightReply(f, m) => RightReply(e, m)
      BY DEF More, RightReply
    <2>2. Replied(e, sq)
      BY <1>3, <2>1 DEF Answered, Replied
    <2>3. e.op = f.op
      BY DEF More
    <2> QED BY <1>3, <2>2, <2>3, ShowsSeen DEF Phase, Answered
  <1>4. CASE Cut(sq, d)
    BY <1>4 DEF Phase
  <1> QED BY <1>1, <1>2, <1>3, <1>4 DEF Phase

\* A notice does not disturb the request in progress.
LEMMA PhaseNotice ==
    ASSUME NEW f, NEW got, NEW cq, NEW sq \in Seq(ToClient), NEW d, NEW m \in ToClient,
           m.cmd = "NOTICE", NEW p, p = sq \o <<m>>
    PROVE  /\ Phase(f, got, cq, sq, d) => Phase(f, got, cq, p, d)
           /\ Idle(cq, sq, d) => Idle(cq, p, d)
  <1>1. /\ p \in Seq(ToClient) /\ Len(p) = Len(sq) + 1
        /\ \A i \in 1..Len(sq) : i \in 1..Len(p) /\ p[i] = sq[i]
        /\ p[Len(sq) + 1] = m
        /\ \A i \in 1..Len(p) : i \in 1..Len(sq) \/ i = Len(sq) + 1
    BY JoinOne
  <1>n. PICK n \in Nat : Len(sq) = n
    OBVIOUS
  <1>2. /\ Still(sq) => Still(p)
        /\ Unanswered(sq) => Unanswered(p)
    BY <1>1 DEF Still, Unanswered, Replies
  <1>3. \A rest : Shows(f, got, sq, rest) => Shows(f, got, p, rest)
    <2>1. \A k : Brings(sq, k) => Brings(p, k)
      BY <1>1 DEF Brings
    <2>2. (\A i \in 1..Len(sq) : sq[i].cmd = "VAL" /\ sq[i].val # Null => <<sq[i].key, sq[i].val>> \in f.seen)
            => \A i \in 1..Len(p) : p[i].cmd = "VAL" /\ p[i].val # Null => <<p[i].key, p[i].val>> \in f.seen
      BY <1>1
    <2> QED BY <2>1, <2>2 DEF Shows
  <1>4. Replied(f, sq) => Replied(f, p)
    <2>1. ASSUME NEW j \in 1..Len(sq), RightReply(f, sq[j]),
                 \A i \in 1..Len(sq) : i # j => sq[i].cmd \notin Replies,
                 \A i \in (j + 1)..Len(sq) : sq[i].cmd # "VAL"
          PROVE  Replied(f, p)
      <3>1. j \in 1..Len(p) /\ RightReply(f, p[j])
        BY <1>1, <2>1
      <3>2. \A i \in 1..Len(p) : i # j => p[i].cmd \notin Replies
        BY <1>1, <2>1 DEF Replies
      <3>3. \A i \in (j + 1)..Len(p) : p[i].cmd # "VAL"
        <4>1. ASSUME NEW i \in (j + 1)..Len(p) PROVE p[i].cmd # "VAL"
          <5>1. i \in 1..Len(p) /\ (i = Len(sq) + 1 \/ i \in (j + 1)..Len(sq))
            BY <1>1, <1>n
          <5>2. CASE i = Len(sq) + 1
            BY <1>1, <5>2
          <5>3. CASE i \in (j + 1)..Len(sq)
            <6>1. i \in 1..Len(sq)
              BY <5>3, <1>n
            <6> QED BY <1>1, <2>1, <5>3, <6>1
          <5> QED BY <5>1, <5>2, <5>3
        <4> QED BY <4>1
      <3> QED BY <3>1, <3>2, <3>3 DEF Replied
    <2> QED BY <2>1 DEF Replied
  <1>5. (\A i \in 1..Len(sq) : sq[i].cmd # "VAL") => \A i \in 1..Len(p) : p[i].cmd # "VAL"
    BY <1>1
  <1>6. Asked(f, got, cq, sq, d) => Asked(f, got, cq, p, d)
    BY <1>2 DEF Asked
  <1>7. Begun(f, got, cq, sq, d) => Begun(f, got, cq, p, d)
    BY <1>2, <1>3 DEF Begun
  <1>8. Answered(f, got, cq, sq, d) => Answered(f, got, cq, p, d)
    BY <1>3, <1>4, <1>5 DEF Answered
  <1>9. Cut(sq, d) => Cut(p, d)
    BY <1>2 DEF Cut
  <1>10. Idle(cq, sq, d) => Idle(cq, p, d)
    BY <1>2 DEF Idle
  <1> QED BY <1>6, <1>7, <1>8, <1>9, <1>10 DEF Phase

\* Seeing a change leaves the calls themselves as they were.
LEMMA SawCalls ==
    ASSUME NEW g \in Client, NEW h, NEW k, NEW v, HasSeen(g, h, k, v)
    PROVE  /\ h.stack # << >> <=> g.stack # << >>
           /\ Calling(h) <=> Calling(g)
           /\ \A i \in 1..Len(g.stack) : More(g.stack[i], h.stack[i])
  <1>1. g.stack \in Seq(Call) /\ h.stack \in Seq(Call) /\ Len(h.stack) = Len(g.stack)
    BY DEF Client, HasSeen
  <1>2. h.stack # << >> <=> g.stack # << >>
    BY <1>1
  <1>3. g.stack # << >> => Len(g.stack) \in 1..Len(g.stack)
    BY <1>1
  <1>4. Calling(h) <=> Calling(g)
    BY <1>1, <1>2, <1>3 DEF Calling, HasSeen
  <1>5. \A i \in 1..Len(g.stack) : More(g.stack[i], h.stack[i])
    BY DEF HasSeen, More
  <1> QED BY <1>2, <1>4, <1>5

\* Seeing a change does not move the exchange between client and daemon.
LEMMA SawProgress ==
    ASSUME NEW g \in Client, NEW h, NEW k, NEW v, HasSeen(g, h, k, v),
           NEW cq, NEW sq, NEW d, Progress(g, cq, sq, d)
    PROVE  Progress(h, cq, sq, d)
  <1>1. /\ Calling(h) <=> Calling(g)
        /\ \A i \in 1..Len(g.stack) : More(g.stack[i], h.stack[i])
    BY SawCalls
  <1>2. Len(h.stack) = Len(g.stack) /\ h.ok = g.ok /\ h.cmdsuccess = g.cmdsuccess /\ h.result_list = g.result_list
    BY DEF HasSeen
  <1>3. ASSUME Calling(g) PROVE Phase(h.stack[Len(h.stack)], h.result_list, cq, sq, d)
    <2>1. Phase(g.stack[Len(g.stack)], g.result_list, cq, sq, d)
      BY <1>3 DEF Progress
    <2>2. Len(g.stack) \in 1..Len(g.stack)
      BY <1>3, TopCall DEF Calling
    <2>3. More(g.stack[Len(g.stack)], h.stack[Len(h.stack)])
      BY <1>1, <1>2, <2>2
    <2> QED BY <1>2, <2>1, <2>3, PhaseSeen
  <1> QED BY <1>1, <1>2, <1>3 DEF Progress

\* What was collected and reported stays right when the calls have seen more.
LEMMA SawReported ==
    ASSUME NEW g \in Client, NEW h, NEW k, NEW v, HasSeen(g, h, k, v), Reported(g)
    PROVE  Reported(h)
  <1>1. /\ h.stack # << >> <=> g.stack # << >>
        /\ Calling(h) <=> Calling(g)
        /\ \A i \in 1..Len(g.stack) : More(g.stack[i], h.stack[i])
    BY SawCalls
  <1>2. /\ Len(h.stack) = Len(g.stack) /\ h.ok = g.ok /\ h.cmdsuccess = g.cmdsuccess /\ h.last = g.last
        /\ h.result_list = g.result_list /\ h.result_key = g.result_key /\ h.result = g.result
    BY DEF HasSeen
  <1>n. PICK n \in Nat : Len(g.stack) = n
    <2>1. g.stack \in Seq(Call)
      BY DEF Client
    <2> QED BY <2>1
  <1>3. \A i \in 2..Len(h.stack) : h.stack[i].op = "set"
    BY <1>1, <1>2, <1>n DEF Reported, More
  <1>4. Collected(h)
    <2>1. ASSUME h.stack # << >>, ~(Len(h.stack) = 1 /\ Calling(h))
          PROVE  /\ h.stack[1].op = "get" /\ h.ok => GetRight(h, h.stack[1])
                 /\ h.stack[1].op \in Listings /\ h.cmdsuccess => Shows(h.stack[1], h.result_list, << >>, << >>)
      <3>1. 1 \in 1..Len(g.stack)
        <4>1. g.stack \in Seq(Call) /\ g.stack # << >>
          BY <1>1, <2>1 DEF Client
        <4> QED BY <4>1
      <3>2. More(g.stack[1], h.stack[1])
        BY <1>1, <3>1
      <3>3. /\ g.stack[1].op = "get" /\ g.ok => GetRight(g, g.stack[1])
            /\ g.stack[1].op \in Listings /\ g.cmdsuccess => Shows(g.stack[1], g.result_list, << >>, << >>)
        BY <1>1, <1>2, <2>1 DEF Reported, Collected
      <3>4. GetRight(g, g.stack[1]) => GetRight(h, h.stack[1])
        BY <1>2, <3>2 DEF GetRight, More
      <3>5. Shows(g.stack[1], g.result_list, << >>, << >>) => Shows(h.stack[1], h.result_list, << >>, << >>)
        BY <1>2, <3>2, ShowsSeen
      <3> QED BY <1>2, <3>2, <3>3, <3>4, <3>5 DEF More
    <2> QED BY <2>1 DEF Collected
  <1> QED BY <1>2, <1>3, <1>4 DEF Reported

\* A client that is sent a notice will know what it says.
LEMMA KnowsTold ==
    ASSUME NEW view, NEW a \in Seq(ToClient), NEW sq \in Seq(ToClient), NEW m \in ToClient,
           NEW k, NEW v, Tells(m, k), m.val = v
    PROVE  Knows(view, a \o (sq \o <<m>>), k, v)
  <1>1. <<m>> \in Seq(ToClient)
    BY OneMessage
  <1>2. PICK q : q = a \o sq
    OBVIOUS
  <1>3. q \in Seq(ToClient)
    BY <1>2, ConcatProperties
  <1>4. a \o (sq \o <<m>>) = q \o <<m>>
    BY <1>1, <1>2, JoinTwice
  <1>5. PICK p : p = q \o <<m>>
    OBVIOUS
  <1>6. Len(q) \in Nat /\ Len(p) = Len(q) + 1 /\ p[Len(q) + 1] = m
    BY <1>3, <1>5, JoinOne
  <1>7. Len(q) + 1 \in 1..Len(p) /\ (\A j \in ((Len(q) + 1) + 1)..Len(p) : ~Tells(p[j], k))
    BY <1>6
  <1>8. Knows(view, p, k, v)
    BY <1>6, <1>7 DEF Knows
  <1> QED BY <1>4, <1>5, <1>8

\* The registry su is st with v at k, and the messages p are sq with the notice m of it.
Changed(su, st, k, v) == \A x \in Keys : su[x] = IF x = k THEN v ELSE st[x]
Told(p, sq, d, m, k, v) ==
    /\ m.cmd = "NOTICE" /\ m.key = k /\ m.val = v
    /\ p = IF d.open THEN sq \o <<m>> ELSE sq

\* The notice the daemon sends for the change carries the new value to the view of every connected
\* client.
LEMMA SawFresh ==
    ASSUME NEW g \in Client, NEW h, NEW k \in Keys, NEW v \in Optional, HasSeen(g, h, k, v),
           NEW sq \in Seq(ToClient), NEW m \in ToClient, NEW d, NEW p, Told(p, sq, d, m, k, v),
           NEW st \in [Keys -> Optional], NEW su, Changed(su, st, k, v),
           Fresh(g, sq, d, st)
    PROVE  Fresh(h, p, d, su)
  <1>t. /\ m.cmd = "NOTICE" /\ m.key = k /\ m.val = v
        /\ p = IF d.open THEN sq \o <<m>> ELSE sq
    BY DEF Told
  <1>c. \A x \in Keys : su[x] = IF x = k THEN v ELSE st[x]
    BY DEF Changed
  <1>1. /\ Len(h.stack) = Len(g.stack) /\ h.ok = g.ok
        /\ h.known = g.known \cup {k} /\ h.refreshed_once = g.refreshed_once
        /\ h.view = g.view /\ h.deltas = g.deltas
        /\ \A i \in 1..Len(g.stack) : h.stack[i].op = g.stack[i].op
    BY DEF HasSeen
  <1>2. Loading(h.stack, h.refreshed_once)
    BY <1>1 DEF Fresh, Loading
  <1>w. PICK w \in Seq(ToClient) : w = <<m>> /\ Len(w) = 1 /\ w[1] = m
    BY OneMessage
  <1>4. Unaware(h, p)
    <2>1. Within(sq, g.known) => Within(p, h.known)
      <3>1. CASE d.open
        <4>1. p = sq \o w
          BY <1>t, <1>w, <3>1
        <4>2. \A i \in 1..Len(sq) : i \in 1..Len(p) /\ p[i] = sq[i]
          BY <4>1, JoinFacts
        <4>3. \A i \in 1..Len(p) : (i \in 1..Len(sq)) \/ (i - Len(sq) \in 1..Len(w) /\ p[i] = w[i - Len(sq)] /\ i > Len(sq))
          BY <4>1, JoinFacts
        <4>4. \A j \in 1..Len(w) : w[j] = m
          BY <1>w
        <4>5. \A i \in 1..Len(p) : (i \in 1..Len(sq) /\ p[i] = sq[i]) \/ p[i] = m
          BY <4>2, <4>3, <4>4
        <4> QED BY <1>1, <1>t, <4>5 DEF Within
      <3>2. CASE ~d.open
        BY <1>1, <1>t, <3>2 DEF Within
      <3> QED BY <3>1, <3>2
    <2>2. Within(g.deltas, g.known) => Within(h.deltas, h.known)
      BY <1>1 DEF Within
    <2> QED BY <1>1, <2>1, <2>2 DEF Fresh, Unaware
  <1>3. ASSUME h.ok, d.open, NEW x \in h.known
        PROVE  Knows(h.view, h.deltas \o p, x, su[x])
    <2>0. x \in Keys
      BY DEF HasSeen, Client
    <2>1. g.deltas \in Seq(ToClient)
      BY DeltasAreMessages
    <2>2. CASE x = k
      <3>1. Knows(h.view, h.deltas \o (sq \o <<m>>), x, v)
        BY <1>1, <1>t, <2>1, <2>2, KnowsTold DEF Tells
      <3> QED BY <1>3, <1>t, <1>c, <2>2, <3>1
    <2>3. CASE x # k
      <3>1. Knows(g.view, g.deltas \o sq, x, st[x])
        BY <1>1, <1>3, <2>3 DEF Fresh
      <3>3. \A i \in 1..Len(w) : ~Tells(w[i], x)
        BY <2>3, <1>t, <1>w DEF Tells
      <3>4. Knows(g.view, g.deltas \o (sq \o w), x, st[x])
        BY <2>1, <3>1, <3>3, KnowsMoreBehind
      <3>5. su[x] = st[x]
        BY <1>c, <2>0, <2>3
      <3> QED BY <1>1, <1>3, <1>t, <1>w, <3>4, <3>5
    <2> QED BY <2>2, <2>3
  <1> QED BY <1>2, <1>3, <1>4 DEF Fresh

\* A change of the registry, and perhaps of the commands on their way.
LEMMA ChangeStep ==
    ASSUME UniConfInv, NEW k \in Keys, NEW v \in Optional, Change(k, v),
           c2s' \in [Clients -> Seq(ToDaemon)], dconn' = dconn, niceness' = niceness, budget' \in Nat,
           NoSetv => \A e \in Clients : Progress(cl[e], c2s'[e], s2c[e], dconn[e])
    PROVE  UniConfInv'
  <1>t. Types
    BY DEF UniConfInv
  <1>1. CASE store[k] = v
    <2>1. UNCHANGED <<store, s2c, cl>>
      BY <1>1 DEF Change
    <2>2. Types'
      BY <1>t, <2>1 DEF Types
    <2>3. ASSUME NEW e \in Clients PROVE Sound(cl'[e], c2s'[e], s2c'[e], dconn'[e], store')
      <3>1. Sound(cl[e], c2s[e], s2c[e], dconn[e], store)
        BY ClientFacts
      <3>2. Sound(cl[e], c2s'[e], s2c[e], dconn[e], store)
        BY <3>1 DEF Sound
      <3> QED BY <2>1, <3>2
    <2> QED BY <2>2, <2>3 DEF UniConfInv
  <1>2. CASE store[k] # v
    <2>1. store' = [store EXCEPT ![k] = v] /\ s2c' = Notified(k, v) /\ cl' = Witness(k, v)
      BY <1>2 DEF Change
    <2>2. PICK m \in ToClient : m = Msg("NOTICE", k, v) /\ m.cmd = "NOTICE" /\ m.key = k /\ m.val = v
      BY Messages
    <2>3. ASSUME NEW e \in Clients
          PROVE  /\ cl'[e] \in Client /\ s2c'[e] \in Seq(ToClient)
                 /\ Sound(cl'[e], c2s'[e], s2c'[e], dconn'[e], store')
      <3>1. /\ cl[e] \in Client /\ s2c[e] \in Seq(ToClient) /\ dconn[e] \in Server
            /\ store \in [Keys -> Optional] /\ Sound(cl[e], c2s[e], s2c[e], dconn[e], store)
        BY ClientFacts
      <3>2. PICK g \in Client, q \in Seq(ToClient), d \in Server : g = cl[e] /\ q = s2c[e] /\ d = dconn[e]
        BY <3>1
      <3>3. PICK h : h = cl'[e]
        OBVIOUS
      <3>4. HasSeen(g, h, k, v)
        <4>1. h = [g EXCEPT !.stack = [i \in 1..Len(g.stack) |-> Saw(g.stack[i], k, v)], !.known = @ \cup {k}]
          <5>1. cl'[e] = [cl[e] EXCEPT !.stack = [i \in 1..Len(cl[e].stack) |-> Saw(cl[e].stack[i], k, v)],
                                       !.known = @ \cup {k}]
            BY <2>1, Zenon DEF Witness
          <5> QED BY <3>2, <3>3, <5>1, Zenon
        <4> QED BY <4>1, WitnessSaw
      <3>5. PICK p : p = IF d.open THEN q \o <<m>> ELSE q
        OBVIOUS
      <3>6. s2c'[e] = p /\ p \in Seq(ToClient)
        <4>1. Append(q, m) = q \o <<m>> /\ <<m>> \in Seq(ToClient)
          BY OneMessage
        <4>2. q \o <<m>> \in Seq(ToClient)
          BY JoinOne
        <4>3. s2c'[e] = IF d.open THEN Append(q, m) ELSE q
          BY <2>1, <2>2, <3>2 DEF Notified
        <4> QED BY <3>5, <4>1, <4>2, <4>3
      <3>7. PICK su : su = [store EXCEPT ![k] = v]
        OBVIOUS
      <3>s. Sound(g, c2s[e], q, d, store)
        BY <3>1, <3>2
      <3>8. Shape(h) /\ Seeing(h.stack, su)
        BY <3>1, <3>4, <3>7, <3>s, SawShape, SawSeeing DEF Sound
      <3>9. LoadRule => Fresh(h, p, d, su)
        <4>1. ASSUME LoadRule PROVE Fresh(g, q, d, store)
          BY <3>s, <4>1 DEF Sound
        <4>2. PICK st \in [Keys -> Optional] : st = store
          BY <3>1
        <4>3. ASSUME Fresh(g, q, d, st) PROVE Fresh(h, p, d, su)
          <5>1. Told(p, q, d, m, k, v)
            BY <2>2, <3>5 DEF Told
          <5>2. Changed(su, st, k, v)
            BY <3>7, <4>2 DEF Changed
          <5> QED BY <3>4, <4>3, <5>1, <5>2, SawFresh
        <4> QED BY <4>1, <4>2, <4>3
      <3>10. NoSetv => Progress(h, c2s'[e], p, d)
        <4>1. ASSUME NoSetv PROVE Progress(h, c2s'[e], p, d)
          <5>1. Progress(g, c2s'[e], q, d)
            BY <4>1, <3>2
          <5>2. Progress(h, c2s'[e], q, d)
            BY <3>4, <5>1, SawProgress
          <5>3. CASE d.open
            <6>1. p = q \o <<m>>
              BY <3>5, <5>3
            <6>2. /\ Idle(c2s'[e], q, d) => Idle(c2s'[e], p, d)
                  /\ \A f, got : Phase(f, got, c2s'[e], q, d) => Phase(f, got, c2s'[e], p, d)
              BY <2>2, <6>1, PhaseNotice
            <6> QED BY <5>2, <6>2 DEF Progress
          <5>4. CASE ~d.open
            BY <3>5, <5>2, <5>4
          <5> QED BY <5>3, <5>4
        <4> QED BY <4>1
      <3>11. NoSetv /\ WatchersDoNotWait => Reported(h)
        BY <3>4, <3>s, SawReported DEF Sound
      <3>12. Sound(h, c2s'[e], p, d, su)
        BY <3>8, <3>9, <3>10, <3>11 DEF Sound
      <3>13. h \in Client
        BY <3>4 DEF HasSeen
      <3> QED BY <2>1, <3>2, <3>3, <3>6, <3>7, <3>12, <3>13
    <2>4. Types'
      <3>1. cl' \in [Clients -> Client]
        <4>1. cl' = [e \in Clients |-> cl'[e]]
          BY <2>1 DEF Witness
        <4> QED BY <2>3, <4>1
      <3>2. s2c' \in [Clients -> Seq(ToClient)]
        <4>1. s2c' = [e \in Clients |-> s2c'[e]]
          BY <2>1 DEF Notified
        <4> QED BY <2>3, <4>1
      <3>3. store' \in [Keys -> Optional]
        BY <2>1, <1>t DEF Types
      <3> QED BY <1>t, <3>1, <3>2, <3>3 DEF Types
    <2> QED BY <2>3, <2>4 DEF UniConfInv
  <1> QED BY <1>1, <1>2

\* uniconfd's do_set and do_remove: the store changes, every connection gets its notice, the call its
\* OK.
LEMMA DoChange ==
    ASSUME UniConfInv, NEW c \in Clients, do_set(c) \/ do_remove(c)
    PROVE  UniConfInv'
  <1>1. PICK cmd \in {"set", "del"}, v \in Optional :
            Reads(c, cmd) /\ Change(Head(c2s[c]).key, v) /\ UNCHANGED <<dconn, niceness>>
    <2>1. CASE do_set(c)
      <3>1. Head(c2s[c]) \in ToDaemon
        BY <2>1, ReadFacts DEF do_set
      <3> QED BY <2>1, <3>1 DEF do_set, ToDaemon
    <2>2. CASE do_remove(c)
      BY <2>2 DEF do_remove, Optional
    <2> QED BY <2>1, <2>2
  <1>2. /\ dconn[c].open /\ ~dconn[c].busy /\ c2s[c] # << >> /\ budget' = budget
        /\ Head(c2s[c]) \in ToDaemon /\ Head(c2s[c]).cmd = cmd /\ Tail(c2s[c]) \in Seq(ToDaemon)
        /\ c2s' = [c2s EXCEPT ![c] = Tail(c2s[c])]
    BY <1>1, ReadFacts
  <1>3. PICK k \in Keys : Head(c2s[c]).key = k
    BY <1>2 DEF ToDaemon
  <1>4. Head(c2s[c]).cmd \notin Asks
    BY <1>1, <1>2 DEF Asks
  <1>5. Types
    BY DEF UniConfInv
  <1>6. c2s' \in [Clients -> Seq(ToDaemon)] /\ budget' \in Nat
    BY <1>2, <1>5 DEF Types
  <1>7. ASSUME NoSetv, NEW e \in Clients PROVE Progress(cl[e], c2s'[e], s2c[e], dconn[e])
    <2>1. /\ cl[e] \in Client /\ c2s[e] \in Seq(ToDaemon) /\ s2c[e] \in Seq(ToClient) /\ dconn[e] \in Server
          /\ Sound(cl[e], c2s[e], s2c[e], dconn[e], store)
      BY ClientFacts
    <2>2. Progress(cl[e], c2s[e], s2c[e], dconn[e])
      BY <1>7, <2>1 DEF Sound
    <2>3. CASE e = c
      <3>1. Progress(cl[c], Tail(c2s[c]), s2c[c], dconn[c])
        BY <1>2, <1>4, <2>1, <2>2, <2>3, TailProgress
      <3> QED BY <1>2, <1>5, <2>3, <3>1 DEF Types
    <2>4. CASE e # c
      BY <1>2, <1>5, <2>2, <2>4 DEF Types
    <2> QED BY <2>3, <2>4
  <1> QED BY <1>1, <1>3, <1>6, <1>7, ChangeStep

\* Somebody on the daemon's side changes the store.
LEMMA DoLocalChange ==
    ASSUME UniConfInv, NEW k \in Keys, NEW v \in Optional, LocalChange(k, v)
    PROVE  UniConfInv'
  <1>1. Change(k, v) /\ UNCHANGED <<c2s, dconn, niceness>> /\ budget > 0 /\ budget' = budget - 1
    BY DEF LocalChange
  <1>2. Types
    BY DEF UniConfInv
  <1>3. c2s' \in [Clients -> Seq(ToDaemon)] /\ budget' \in Nat
    BY <1>1, <1>2 DEF Types
  <1>4. NoSetv => \A e \in Clients : Progress(cl[e], c2s'[e], s2c[e], dconn[e])
    BY <1>1, ClientFacts DEF Sound
  <1> QED BY <1>1, <1>3, <1>4, ChangeStep

-----------------------------------------------------------------------------
(* Listings.                                                               *)

\* An iterator has every key once.
LEMMA OrderFacts ==
    ASSUME NEW S, IsFiniteSet(S), NEW q \in Orders(S)
    PROVE  q \in Seq(S) /\ \A k \in S : \E i \in 1..Len(q) : q[i] = k
  <1>1. PICK n \in Nat : Cardinality(S) = n
    BY FS_CardinalityType
  <1>2. q \in [1..n -> S] /\ \A i, j \in DOMAIN q : q[i] = q[j] => i = j
    BY <1>1 DEF Orders
  <1>3. q \in Injection(1..n, S)
    BY <1>2 DEF Injection, IsInjective
  <1>4. Cardinality(1..n) = n
    BY FS_Interval
  <1>5. q \in Surjection(1..n, S)
    BY <1>1, <1>3, <1>4, FS_Injection
  <1>6. q \in Seq(S) /\ Len(q) = n
    BY <1>2
  <1>7. \A k \in S : \E i \in 1..n : q[i] = k
    BY <1>5 DEF Surjection
  <1> QED BY <1>6, <1>7

\* values are the first entries of rest, as they are sent, and left are the others.
Split(st, rest, values, left) ==
    /\ values \in Seq(ToClient) /\ left \in Seq(KeyValue)
    /\ Len(values) \in 0..Len(rest) /\ Len(left) = Len(rest) - Len(values)
    /\ \A i \in 1..Len(values) :
          /\ values[i].cmd = "VAL" /\ values[i].key = rest[i].key
          /\ values[i].val \in {rest[i].val, st[rest[i].key]}
    /\ \A i \in 1..Len(left) : left[i] = rest[Len(values) + i]

\* Sending entries keeps a listing right.
LEMMA SendEntries ==
    ASSUME NEW f, NEW got, NEW sq \in Seq(ToClient), NEW rest \in Seq(KeyValue), NEW values, NEW left,
           NEW st \in [Keys -> Optional], Split(st, rest, values, left),
           \A k \in Keys : <<k, st[k]>> \in f.seen,
           Unanswered(sq), Shows(f, got, sq, rest), NEW p, p = sq \o values
    PROVE  Unanswered(p) /\ Shows(f, got, p, left)
  <1>1. /\ values \in Seq(ToClient) /\ left \in Seq(KeyValue)
        /\ Len(values) \in 0..Len(rest) /\ Len(left) = Len(rest) - Len(values)
        /\ \A i \in 1..Len(left) : left[i] = rest[Len(values) + i]
    BY DEF Split
  <1>2. ASSUME NEW i \in 1..Len(values)
        PROVE  /\ i \in 1..Len(rest) /\ rest[i].key \in Keys /\ rest[i].val # Null
               /\ values[i].cmd = "VAL" /\ values[i].key = rest[i].key
               /\ values[i].val = rest[i].val \/ values[i].val = st[rest[i].key]
    <2>1. i \in 1..Len(rest)
      BY <1>1
    <2>2. rest[i] \in KeyValue
      BY <2>1
    <2> QED BY <2>1, <2>2, NullAssumption DEF Split, KeyValue
  <1>3. /\ p \in Seq(ToClient) /\ Len(sq) \in Nat /\ Len(values) \in Nat
        /\ Len(p) = Len(sq) + Len(values)
        /\ \A i \in 1..Len(sq) : i \in 1..Len(p) /\ p[i] = sq[i]
        /\ \A i \in 1..Len(values) : Len(sq) + i \in 1..Len(p) /\ p[Len(sq) + i] = values[i]
        /\ \A i \in 1..Len(p) : (i \in 1..Len(sq)) \/ (i - Len(sq) \in 1..Len(values) /\ p[i] = values[i - Len(sq)] /\ i > Len(sq))
    BY <1>1, JoinFacts
  <1>4. Unanswered(p)
    BY <1>2, <1>3 DEF Unanswered, Replies
  <1>5. Witnessed(f, got) /\ Witnessed(f, left)
    <2>n. PICK n \in Nat, l \in Nat : Len(rest) = n /\ Len(values) = l
      BY <1>3
    <2>1. \A i \in 1..Len(left) : Len(values) + i \in 1..Len(rest)
      BY <1>1, <2>n
    <2> QED BY <1>1, <2>1 DEF Shows, Witnessed
  <1>6. ASSUME NEW i \in 1..Len(values) PROVE values[i].val = Null \/ <<values[i].key, values[i].val>> \in f.seen
    BY <1>2, <1>6 DEF Shows, Witnessed
  <1>7. \A i \in 1..Len(p) : p[i].cmd = "VAL" /\ p[i].val # Null => <<p[i].key, p[i].val>> \in f.seen
    BY <1>3, <1>6 DEF Shows
  <1>8. ASSUME NEW k \in Keys
        PROVE  <<k, Null>> \in f.seen \/ Mentions(got, k) \/ Brings(p, k) \/ Mentions(left, k)
    <2>1. CASE Brings(sq, k)
      <3>1. Brings(p, k)
        BY <1>3, <2>1 DEF Brings
      <3> QED BY <3>1
    <2>2. ASSUME NEW i \in 1..Len(rest), rest[i].key = k
          PROVE  <<k, Null>> \in f.seen \/ Brings(p, k) \/ Mentions(left, k)
      <3>n. PICK n \in Nat, l \in Nat : Len(rest) = n /\ Len(values) = l
        BY <1>3
      <3>1. CASE i <= Len(values)
        <4>1. i \in 1..Len(values)
          BY <3>1, <3>n
        <4>2. CASE values[i].val = Null
          BY <1>2, <2>2, <4>1, <4>2
        <4>3. CASE values[i].val # Null
          <5>1. Brings(p, k)
            BY <1>2, <1>3, <2>2, <4>1, <4>3 DEF Brings
          <5> QED BY <5>1
        <4> QED BY <4>2, <4>3
      <3>2. CASE i > Len(values)
        <4>1. i - Len(values) \in 1..Len(left) /\ Len(values) + (i - Len(values)) = i
          BY <1>1, <3>2, <3>n
        <4>2. left[i - Len(values)] = rest[i]
          BY <1>1, <4>1
        <4>3. Mentions(left, k)
          BY <2>2, <4>1, <4>2 DEF Mentions
        <4> QED BY <4>3
      <3> QED BY <3>1, <3>2, <3>n
    <2> QED BY <2>1, <2>2 DEF Shows, Mentions
  <1> QED BY <1>4, <1>5, <1>7, <1>8 DEF Shows

\* The OK after the last entry.
LEMMA EndOfListing ==
    ASSUME NEW f, NEW got, NEW sq \in Seq(ToClient), NEW m \in ToClient, m.cmd = "OK",
           f.op \in Listings, Unanswered(sq), Shows(f, got, sq, << >>), NEW p, p = sq \o <<m>>
    PROVE  Replied(f, p) /\ Shows(f, got, p, << >>)
  <1>1. /\ p \in Seq(ToClient) /\ Len(sq) \in Nat /\ Len(p) = Len(sq) + 1
        /\ \A i \in 1..Len(sq) : i \in 1..Len(p) /\ p[i] = sq[i]
        /\ p[Len(sq) + 1] = m
        /\ \A i \in 1..Len(p) : i \in 1..Len(sq) \/ i = Len(sq) + 1
    BY JoinOne
  <1>2. RightReply(f, m)
    BY DEF RightReply, Replies, Listings
  <1>3. Len(sq) + 1 \in 1..Len(p)
    BY <1>1
  <1>4. \A i \in 1..Len(p) : i # Len(sq) + 1 => p[i].cmd \notin Replies
    BY <1>1 DEF Unanswered
  <1>5. \A i \in ((Len(sq) + 1) + 1)..Len(p) : p[i].cmd # "VAL"
    BY <1>1
  <1>6. Replied(f, p)
    BY <1>1, <1>2, <1>3, <1>4, <1>5 DEF Replied
  <1>7. \A i \in 1..Len(p) : p[i].cmd = "VAL" /\ p[i].val # Null => <<p[i].key, p[i].val>> \in f.seen
    BY <1>1 DEF Shows
  <1>8. \A k \in Keys : Brings(sq, k) => Brings(p, k)
    BY <1>1 DEF Brings
  <1> QED BY <1>6, <1>7, <1>8 DEF Shows

\* What Proceed() does: values are sent, left is left.
Proceeds(c, rest, recursive, values, left, yields) ==
    /\ Split(store, rest, values, left) /\ (~yields => left = << >>)
    /\ s2c' = [s2c EXCEPT ![c] = (s2c[c] \o values) \o (IF yields THEN << >> ELSE <<Plain("OK")>>)]
    /\ dconn' = [dconn EXCEPT ![c] = [dconn[c] EXCEPT !.busy = yields, !.recursive = recursive,
                                                       !.rest = left]]
    /\ niceness' \in 0..ContinueSelectAt

\* One stretch of a subtree's listing: the values sent, those left, and whether it gives up the
\* processor.
LEMMA ProceedFacts ==
    ASSUME UniConfInv, NEW c \in Clients, NEW rest \in Seq(KeyValue), NEW recursive \in BOOLEAN,
           Proceed(c, rest, recursive)
    PROVE  \E values \in Seq(ToClient), left \in Seq(KeyValue), yields \in BOOLEAN :
             Proceeds(c, rest, recursive, values, left, yields)
  <1>1. /\ s2c[c] \in Seq(ToClient) /\ dconn[c] \in Server /\ store \in [Keys -> Optional]
        /\ niceness \in 0..ContinueSelectAt /\ ContinueSelectAt \in Nat
    BY ClientFacts, BoundAssumption
  <1>l. PICK l \in Nat : Len(rest) = l
    OBVIOUS
  <1>2. PICK n \in Nat \ {0} : n = IF recursive THEN ContinueSelectAt + 1 - niceness ELSE 1
    <2>1. ContinueSelectAt + 1 - niceness \in Nat \ {0} /\ 1 \in Nat \ {0}
      BY <1>1
    <2>2. CASE recursive
      BY <2>1, <2>2
    <2>3. CASE ~recursive
      BY <2>1, <2>3
    <2> QED BY <2>2, <2>3
  <1>0. (n <= l) \in BOOLEAN
    OBVIOUS
  <1>3. PICK yields \in BOOLEAN : yields = (n <= l)
    BY <1>0, Zenon
  <1>4. PICK now \in 0..l : now = IF yields THEN n ELSE l
    <2>1. CASE yields
      <3>1. n \in 0..l
        <4>1. n <= l
          BY <1>3, <2>1, Zenon
        <4> QED BY <1>2, <4>1
      <3> QED BY <2>1, <3>1
    <2>2. CASE ~yields
      BY <2>2
    <2> QED BY <2>1, <2>2
  <1>5. PICK values : values = [i \in 1..now |-> Entry(rest[i], recursive)]
    OBVIOUS
  <1>6. PICK left : left = SubSeq(rest, now + 1, l)
    OBVIOUS
  <1>7. /\ s2c' = [s2c EXCEPT ![c] = s2c[c] \o values \o (IF yields THEN << >> ELSE <<Plain("OK")>>)]
        /\ dconn' = [dconn EXCEPT ![c].busy = yields, ![c].recursive = recursive, ![c].rest = left]
        /\ niceness' = IF ~recursive THEN niceness ELSE IF yields THEN 0 ELSE niceness + now
    BY <1>l, <1>2, <1>3, <1>4, <1>5, <1>6 DEF Proceed
  <1>8. \A i \in 1..now : /\ values[i] \in ToClient /\ values[i].cmd = "VAL" /\ values[i].key = rest[i].key
                          /\ values[i].val \in {rest[i].val, store[rest[i].key]}
    <2>1. ASSUME NEW i \in 1..now
          PROVE  /\ values[i] \in ToClient /\ values[i].cmd = "VAL" /\ values[i].key = rest[i].key
                 /\ values[i].val \in {rest[i].val, store[rest[i].key]}
      <3>1. i \in 1..l
        BY <1>4
      <3>2. rest[i] \in KeyValue
        BY <1>l, <3>1
      <3>3. PICK k \in Keys, v \in Optional : rest[i].key = k /\ rest[i].val = v
        BY <3>2 DEF KeyValue, Optional
      <3>4. store[k] \in Optional
        BY <1>1
      <3>5. PICK u \in {v, store[k]} : values[i] = Msg("VAL", k, u)
        BY <1>5, <3>3 DEF Entry
      <3>6. u \in Optional
        BY <3>4, <3>5
      <3> QED BY <3>3, <3>5, <3>6, Messages
    <2> QED BY <2>1
  <1>9. values \in Seq(ToClient) /\ Len(values) = now
    <2>1. values \in [1..now -> ToClient] /\ now \in Nat
      BY <1>4, <1>5, <1>8
    <2> QED BY <2>1
  <1>10. /\ left \in Seq(KeyValue) /\ Len(left) = l - now
         /\ \A i \in 1..Len(left) : left[i] = rest[now + i]
    <2>1. \A i \in (now + 1)..l : rest[i] \in KeyValue
      BY <1>l, <1>4
    <2>2. /\ left \in Seq(KeyValue) /\ Len(left) = IF now + 1 <= l THEN l - (now + 1) + 1 ELSE 0
          /\ \A i \in 1..(l - (now + 1) + 1) : left[i] = rest[(now + 1) + i - 1]
      BY <1>4, <1>6, <2>1, SubSeqProperties
    <2>3. Len(left) = l - now
      BY <1>4, <2>2
    <2>4. l - (now + 1) + 1 = l - now /\ \A i \in 1..(l - now) : (now + 1) + i - 1 = now + i
      BY <1>4
    <2> QED BY <2>2, <2>3, <2>4
  <1>11. Split(store, rest, values, left)
    BY <1>l, <1>4, <1>8, <1>9, <1>10 DEF Split
  <1>12. ~yields => left = << >>
    <2>1. ~yields => Len(left) = 0
      BY <1>4, <1>10
    <2> QED BY <1>10, <2>1
  <1>13. dconn' = [dconn EXCEPT ![c] = [dconn[c] EXCEPT !.busy = yields, !.recursive = recursive,
                                                        !.rest = left]]
    <2>1. dconn \in [Clients -> Server]
      BY DEF UniConfInv, Types
    <2> QED BY <1>7, <2>1
  <1>14. niceness' \in 0..ContinueSelectAt
    <2>1. CASE ~recursive
      BY <1>1, <1>7, <2>1
    <2>2. CASE recursive /\ yields
      BY <1>1, <1>7, <2>2
    <2>3. CASE recursive /\ ~yields
      <3>1. niceness' = niceness + l /\ ~(n <= l) /\ n = ContinueSelectAt + 1 - niceness
        BY <1>2, <1>3, <1>4, <1>7, <2>3
      <3> QED BY <1>1, <3>1
    <2> QED BY <2>1, <2>2, <2>3
  <1> QED BY <1>7, <1>9, <1>10, <1>11, <1>12, <1>13, <1>14 DEF Proceeds

\* A step of a listing.
LEMMA ProceedStep ==
    ASSUME UniConfInv, NEW c \in Clients, NEW rest \in Seq(KeyValue), NEW recursive \in BOOLEAN,
           Proceed(c, rest, recursive), NEW cq \in Seq(ToDaemon), c2s' = [c2s EXCEPT ![c] = cq],
           cl' = cl, store' = store, budget' = budget, dconn[c].open,
           NEW f, f = cl[c].stack[Len(cl[c].stack)],
           NoSetv /\ cl[c].ok =>
                /\ Calling(cl[c]) /\ ~cl[c].cmdsuccess /\ Silent(cq) /\ Unanswered(s2c[c])
                /\ f.op \in Listings /\ Shows(f, cl[c].result_list, s2c[c], rest)
    PROVE  UniConfInv'
  <1>1. /\ cl[c] \in Client /\ s2c[c] \in Seq(ToClient) /\ dconn[c] \in Server
        /\ store \in [Keys -> Optional] /\ Sound(cl[c], c2s[c], s2c[c], dconn[c], store)
    BY ClientFacts
  <1>2. PICK values \in Seq(ToClient), left \in Seq(KeyValue), yields \in BOOLEAN :
          Proceeds(c, rest, recursive, values, left, yields)
    BY ProceedFacts
  <1>p. /\ Split(store, rest, values, left) /\ (~yields => left = << >>)
            /\ s2c' = [s2c EXCEPT ![c] = (s2c[c] \o values) \o (IF yields THEN << >> ELSE <<Plain("OK")>>)]
          /\ dconn' = [dconn EXCEPT ![c] = [dconn[c] EXCEPT !.busy = yields, !.recursive = recursive,
                                                             !.rest = left]]
          /\ niceness' \in 0..ContinueSelectAt
    BY <1>2 DEF Proceeds
  <1>3. PICK d : d = [dconn[c] EXCEPT !.busy = yields, !.recursive = recursive, !.rest = left]
    OBVIOUS
  <1>4. values \in Seq(ToClient) /\ left \in Seq(KeyValue) /\ \A i \in 1..Len(values) : values[i].cmd = "VAL"
    BY <1>p DEF Split
  <1>5. d \in Server /\ d.open /\ d.busy = yields /\ d.rest = left /\ dconn' = [dconn EXCEPT ![c] = d]
    BY <1>1, <1>p, <1>3, <1>4 DEF Server
  <1>6. PICK m \in ToClient : m = Plain("OK") /\ m.cmd = "OK"
    BY Messages
  <1>7. PICK p : p = s2c[c] \o values
    OBVIOUS
  <1>8. p \in Seq(ToClient)
    BY <1>1, <1>4, <1>7, ConcatProperties
  <1>9. ASSUME NoSetv, cl[c].ok
        PROVE  /\ Unanswered(p) /\ Shows(f, cl[c].result_list, p, left) /\ Calling(cl[c])
               /\ ~cl[c].cmdsuccess /\ Silent(cq) /\ f.op \in Listings
    <2>1. \A k \in Keys : <<k, store[k]>> \in f.seen
      <3>1. Len(cl[c].stack) \in 1..Len(cl[c].stack)
        BY <1>1, <1>9, TopCall DEF Calling
      <3> QED BY <1>1, <3>1 DEF Sound, Seeing
    <2>0. cl[c].result_list \in Seq(Shown)
      BY <1>1 DEF Client
    <2>2. PICK got \in Seq(Shown), st \in [Keys -> Optional], q \in Seq(ToClient) :
            got = cl[c].result_list /\ st = store /\ q = s2c[c]
      BY <1>1, <2>0
    <2>3. Split(st, rest, values, left) /\ Unanswered(q) /\ Shows(f, got, q, rest) /\ p = q \o values
      BY <1>p, <1>7, <1>9, <2>2
    <2>4. \A k \in Keys : <<k, st[k]>> \in f.seen
      BY <2>1, <2>2
    <2>5. Unanswered(p) /\ Shows(f, got, p, left)
      BY <2>3, <2>4, SendEntries
    <2> QED BY <1>9, <2>2, <2>5
  <1>10. CASE yields
    <2>1. s2c' = [s2c EXCEPT ![c] = s2c[c] \o values]
      <3>1. p \o << >> = p
        BY <1>8, ConcatEmptySeq
      <3> QED BY <1>p, <1>7, <1>10, <3>1
    <2>2. NoSetv => Progress(cl[c], cq, s2c[c] \o values, d)
      <3>1. ASSUME NoSetv, cl[c].ok PROVE Progress(cl[c], cq, p, d)
        <4>1. Begun(f, cl[c].result_list, cq, p, d)
          BY <1>5, <1>9, <1>10, <3>1 DEF Begun
        <4> QED BY <1>9, <3>1, <4>1 DEF Progress, Phase
      <3>2. ~cl[c].ok => Progress(cl[c], cq, p, d)
        BY DEF Progress, Calling
      <3> QED BY <1>7, <3>1, <3>2
    <2>3. \A i \in 1..Len(values) : values[i].cmd # "NOTICE"
      BY <1>4
    <2> QED BY <1>p, <1>4, <1>5, <2>1, <2>2, <2>3, SendStep
  <1>11. CASE ~yields
    <2>1. PICK w : w = values \o <<m>>
      OBVIOUS
    <2>2. /\ w \in Seq(ToClient) /\ Len(w) = Len(values) + 1
          /\ \A i \in 1..Len(values) : w[i] = values[i]
          /\ w[Len(values) + 1] = m
          /\ \A i \in 1..Len(w) : i \in 1..Len(values) \/ i = Len(values) + 1
      BY <1>4, <2>1, JoinOne
    <2>3. \A i \in 1..Len(w) : w[i].cmd # "NOTICE"
      BY <1>4, <1>6, <2>2
    <2>4. <<m>> \in Seq(ToClient)
      BY <1>8, OneMessage
    <2>5. s2c[c] \o w = p \o <<m>>
      <3>1. PICK q \in Seq(ToClient), o \in Seq(ToClient) : q = s2c[c] /\ o = <<m>>
        BY <1>1, <2>4
      <3>2. q \o (values \o o) = (q \o values) \o o
        BY <1>4, JoinTwice, SMTT(30)
      <3> QED BY <1>7, <2>1, <3>1, <3>2
    <2>6. s2c' = [s2c EXCEPT ![c] = s2c[c] \o w]
      BY <1>p, <1>6, <1>7, <1>11, <2>5
    <2>7. NoSetv => Progress(cl[c], cq, s2c[c] \o w, d)
      <3>1. PICK r : r = p \o <<m>>
        OBVIOUS
      <3>2. ASSUME NoSetv, cl[c].ok PROVE Progress(cl[c], cq, r, d)
        <4>0. Shows(f, cl[c].result_list, p, << >>) /\ Unanswered(p) /\ f.op \in Listings
          BY <1>p, <1>9, <1>11, <3>2
        <4>1. Replied(f, r) /\ Shows(f, cl[c].result_list, r, << >>)
          BY <1>6, <1>8, <3>1, <4>0, EndOfListing
        <4>2. Answered(f, cl[c].result_list, cq, r, d)
          BY <1>5, <1>9, <1>11, <3>2, <4>1 DEF Answered
        <4> QED BY <1>9, <3>2, <4>2 DEF Progress, Phase
      <3>3. ~cl[c].ok => Progress(cl[c], cq, r, d)
        BY DEF Progress, Calling
      <3> QED BY <2>5, <3>1, <3>2, <3>3
    <2>8. niceness' \in 0..ContinueSelectAt
      BY <1>p
    <2>9. d.open => dconn[c].open
      OBVIOUS
    <2> QED BY <1>5, <2>2, <2>3, <2>6, <2>7, <2>8, <2>9, SendStep
  <1> QED BY <1>10, <1>11

\* uniconfd's do_subtree up to the first continue_select, or to its final OK.
LEMMA DoSubtree ==
    ASSUME UniConfInv, NEW c \in Clients, NEW b \in BOOLEAN, do_subtree(c, b)
    PROVE  UniConfInv'
  <1>1. PICK cmd \in {"subt", "subtr"} : Reads(c, cmd)
    <2>1. CASE b
      BY <2>1 DEF do_subtree
    <2>2. CASE ~b
      BY <2>2 DEF do_subtree
    <2> QED BY <2>1, <2>2
  <1>2. /\ dconn[c].open /\ ~dconn[c].busy /\ c2s[c] # << >> /\ budget' = budget
        /\ Head(c2s[c]) \in ToDaemon /\ Head(c2s[c]).cmd = cmd /\ Tail(c2s[c]) \in Seq(ToDaemon)
        /\ c2s' = [c2s EXCEPT ![c] = Tail(c2s[c])]
    BY <1>1, ReadFacts
  <1>3. /\ cl[c] \in Client /\ c2s[c] \in Seq(ToDaemon) /\ s2c[c] \in Seq(ToClient)
        /\ dconn[c] \in Server /\ store \in [Keys -> Optional]
        /\ Sound(cl[c], c2s[c], s2c[c], dconn[c], store)
    BY ClientFacts
  <1>4. PICK S : S = {k \in Keys : store[k] # Null}
    OBVIOUS
  <1>5. PICK q \in Orders(S) :
            Proceed(c, [i \in 1..Len(q) |-> [key |-> q[i], val |-> store[q[i]]]], b)
    BY <1>4 DEF do_subtree
  <1>6. S \in SUBSET Keys /\ IsFiniteSet(S)
    <2>1. S \in SUBSET Keys
      BY <1>4
    <2> QED BY <2>1, FS_Subset, BoundAssumption
  <1>7. q \in Seq(S) /\ \A k \in S : \E i \in 1..Len(q) : q[i] = k
    BY <1>6, OrderFacts
  <1>n. PICK n \in Nat : Len(q) = n
    BY <1>7
  <1>8. PICK rest : rest = [i \in 1..n |-> [key |-> q[i], val |-> store[q[i]]]]
    OBVIOUS
  <1>9. ASSUME NEW i \in 1..n
        PROVE  /\ q[i] \in Keys /\ q[i] \in S /\ rest[i] \in KeyValue
               /\ rest[i].key = q[i] /\ rest[i].val = store[q[i]]
    <2>1. PICK k \in S : q[i] = k
      BY <1>7, <1>n
    <2>2. k \in Keys /\ store[k] \in Values
      BY <1>3, <1>4, <2>1 DEF Optional
    <2>3. rest[i] = [key |-> k, val |-> store[k]]
      BY <1>8, <2>1
    <2> QED BY <2>1, <2>2, <2>3 DEF KeyValue
  <1>10. rest \in Seq(KeyValue) /\ Len(rest) = n
    <2>1. rest \in [1..n -> KeyValue]
      BY <1>8, <1>9
    <2> QED BY <2>1
  <1>11. Proceed(c, rest, b)
    BY <1>5, <1>8, <1>n
  <1>12. PICK f : f = cl[c].stack[Len(cl[c].stack)]
    OBVIOUS
  <1>13. ASSUME NoSetv, cl[c].ok
         PROVE  /\ Calling(cl[c]) /\ ~cl[c].cmdsuccess /\ Silent(Tail(c2s[c])) /\ Unanswered(s2c[c])
                /\ f.op \in Listings /\ Shows(f, cl[c].result_list, s2c[c], rest)
    <2>1. Progress(cl[c], c2s[c], s2c[c], dconn[c])
      BY <1>3, <1>13 DEF Sound
    <2>2. cmd \in Asks
      BY <1>1 DEF Asks, Commands
    <2>3. /\ Calling(cl[c]) /\ ~cl[c].cmdsuccess /\ Tail(c2s[c]) = << >> /\ f \in Call
          /\ RightAsk(f, Head(c2s[c])) /\ Still(s2c[c]) /\ (f.op \in Listings => cl[c].result_list = << >>)
      BY <1>2, <1>3, <1>12, <1>13, <2>1, <2>2, OnlyQuestion
    <2>4. f.op \in Listings
      BY <1>1, <1>2, <2>3 DEF RightAsk
    <2>5. Silent(Tail(c2s[c])) /\ Unanswered(s2c[c])
      <3>1. Silent(<< >>)
        BY DEF Silent
      <3>2. Unanswered(s2c[c])
        BY <2>3 DEF Still, Unanswered, Replies
      <3> QED BY <2>3, <3>1, <3>2
    <2>6. \A k \in Keys : <<k, store[k]>> \in f.seen
      <3>1. Len(cl[c].stack) \in 1..Len(cl[c].stack)
        BY <1>3, <2>3, TopCall DEF Calling
      <3> QED BY <1>3, <1>12, <3>1 DEF Sound, Seeing
    <2>7. Witnessed(f, << >>) /\ Witnessed(f, rest)
      BY <1>9, <1>10, <2>6 DEF Witnessed
    <2>8. \A i \in 1..Len(s2c[c]) : s2c[c][i].cmd # "VAL"
      BY <2>3 DEF Still
    <2>9. ASSUME NEW k \in Keys PROVE <<k, Null>> \in f.seen \/ Mentions(rest, k)
      <3>1. CASE store[k] = Null
        <4>1. <<k, store[k]>> \in f.seen
          BY <2>6
        <4> QED BY <3>1, <4>1
      <3>2. CASE store[k] # Null
        <4>1. PICK i \in 1..n : q[i] = k
          BY <1>4, <1>7, <1>n, <3>2
        <4>2. Mentions(rest, k)
          BY <1>9, <1>10, <4>1 DEF Mentions
        <4> QED BY <4>2
      <3> QED BY <3>1, <3>2
    <2>10. Shows(f, << >>, s2c[c], rest)
      BY <2>7, <2>8, <2>9 DEF Shows
    <2> QED BY <2>3, <2>4, <2>5, <2>10
  <1>14. cl' = cl /\ store' = store
    BY DEF do_subtree
  <1> QED BY <1>2, <1>10, <1>11, <1>12, <1>13, <1>14, ProceedStep

\* do_subtree resumed after a continue_select: values already collected are sent while the store has
\* moved on.
LEMMA SubtreeResume ==
    ASSUME UniConfInv, NEW c \in Clients, subtree_resume(c)
    PROVE  UniConfInv'
  <1>1. /\ dconn[c].open /\ dconn[c].busy /\ Proceed(c, dconn[c].rest, dconn[c].recursive)
        /\ UNCHANGED <<store, c2s, cl, budget>>
    BY DEF subtree_resume
  <1>2. /\ cl[c] \in Client /\ c2s[c] \in Seq(ToDaemon) /\ s2c[c] \in Seq(ToClient)
        /\ dconn[c] \in Server /\ store \in [Keys -> Optional]
        /\ Sound(cl[c], c2s[c], s2c[c], dconn[c], store)
    BY ClientFacts
  <1>3. PICK rest \in Seq(KeyValue), b \in BOOLEAN : rest = dconn[c].rest /\ b = dconn[c].recursive
    BY <1>2 DEF Server
  <1>4. PICK f : f = cl[c].stack[Len(cl[c].stack)]
    OBVIOUS
  <1>5. ASSUME NoSetv, cl[c].ok
        PROVE  /\ Calling(cl[c]) /\ ~cl[c].cmdsuccess /\ Silent(c2s[c]) /\ Unanswered(s2c[c])
               /\ f.op \in Listings /\ Shows(f, cl[c].result_list, s2c[c], rest)
    <2>1. Progress(cl[c], c2s[c], s2c[c], dconn[c])
      BY <1>2, <1>5 DEF Sound
    <2>2. Calling(cl[c]) /\ ~cl[c].cmdsuccess /\ Phase(f, cl[c].result_list, c2s[c], s2c[c], dconn[c])
      BY <1>1, <1>4, <1>5, <2>1 DEF Progress, Idle
    <2>3. Begun(f, cl[c].result_list, c2s[c], s2c[c], dconn[c])
      BY <1>1, <2>2 DEF Phase, Asked, Answered, Cut
    <2> QED BY <1>3, <2>2, <2>3 DEF Begun
  <1>6. c2s' = [c2s EXCEPT ![c] = c2s[c]]
    BY <1>1, SameElement DEF UniConfInv, Types
  <1>7. Proceed(c, rest, b)
    BY <1>1, <1>3
  <1> QED BY <1>1, <1>2, <1>3, <1>4, <1>5, <1>6, <1>7, ProceedStep

\* Every step of the daemon on a connection preserves the invariant.
LEMMA DaemonStep ==
    ASSUME UniConfInv, NEW c \in Clients, Daemon(c)
    PROVE  UniConfInv'
  BY DoGet, DoChange, DoHasChildren, DoPlain, DoQuit, DoSubtree, SubtreeResume, DoHangUp DEF Daemon

-----------------------------------------------------------------------------
(* The client's stack of calls.                                            *)

\* A step of the client c.
LEMMA ClientStep ==
    ASSUME UniConfInv, NEW c \in Clients,
           NEW h \in Client, NEW cq \in Seq(ToDaemon), NEW sq \in Seq(ToClient),
           cl' = [cl EXCEPT ![c] = h], c2s' = [c2s EXCEPT ![c] = cq], s2c' = [s2c EXCEPT ![c] = sq],
           dconn' = dconn, store' = store, niceness' = niceness, budget' \in Nat,
           Sound(h, cq, sq, dconn[c], store)
    PROVE  UniConfInv'
  <1>1. dconn[c] \in Server /\ niceness \in 0..ContinueSelectAt
    BY ClientFacts
  <1>2. dconn' = [dconn EXCEPT ![c] = dconn[c]]
    BY SameElement DEF UniConfInv, Types
  <1> QED BY <1>1, <1>2, LocalStep

\* A call is made where none was, or in a callback.
LEMMA PushFacts ==
    ASSUME NEW s \in Seq(Call), NEW f \in Call, NEW p, p = Append(s, f)
    PROVE  /\ p \in Seq(Call) /\ Len(s) \in Nat /\ Len(p) = Len(s) + 1 /\ p # << >>
           /\ \A i \in 1..Len(s) : p[i] = s[i] /\ i \in 1..Len(p)
           /\ p[Len(p)] = f /\ Len(p) \in 1..Len(p)
           /\ \A i \in 1..Len(p) : i \in 1..Len(s) \/ i = Len(p)
  <1>1. /\ p \in Seq(Call) /\ Len(p) = Len(s) + 1 /\ p # << >> /\ p[Len(s) + 1] = f
        /\ \A i \in 1..Len(s) : p[i] = s[i]
    BY AppendProperties
  <1>2. Len(s) \in Nat
    OBVIOUS
  <1> QED BY <1>1, <1>2

\* A call made from a callback, or on an idle client, leaves a well-formed stack of calls.
LEMMA PushStacked ==
    ASSUME NEW s \in Seq(Call), NEW f \in Call, NEW p, p = Append(s, f), NEW n \in Nat, Stacked(s, n),
           s # << >> => s[Len(s)].pc = "callback", f.op # "notice", f.op = "set" => f.pc # "wait"
    PROVE  Stacked(p, n + 1)
  <1>1. /\ p \in Seq(Call) /\ Len(s) \in Nat /\ Len(p) = Len(s) + 1
        /\ \A i \in 1..Len(s) : p[i] = s[i] /\ i \in 1..Len(p)
        /\ p[Len(p)] = f /\ Len(p) \in 1..Len(p)
        /\ \A i \in 1..Len(p) : i \in 1..Len(s) \/ i = Len(p)
    BY PushFacts
  <1>n. PICK l \in Nat : Len(s) = l
    BY <1>1
  <1>2. \A i \in 1..Len(s) : s[i].pc = "callback"
    <2>1. ASSUME NEW i \in 1..Len(s) PROVE s[i].pc = "callback"
      <3>1. CASE i < Len(s)
        BY <3>1 DEF Stacked
      <3>2. CASE i = Len(s)
        <4>1. s # << >>
          BY <1>n
        <4> QED BY <3>2, <4>1
      <3> QED BY <1>n, <3>1, <3>2
    <2> QED BY <2>1
  <1>3. \A i \in 1..Len(p) : i < Len(p) \/ p[i].op = "notice" => p[i].pc = "callback"
    BY <1>1, <1>2, <1>n
  <1>4. \A i \in 1..Len(p) : p[i].op = "notice" => i = 1
    BY <1>1 DEF Stacked
  <1>5. \A i \in 1..Len(p) : p[i].op = "set" => p[i].pc # "wait"
    BY <1>1 DEF Stacked
  <1>6. n + 1 = Len(p) - (IF Len(p) > 0 /\ p[1].op = "notice" THEN 1 ELSE 0)
    <2>1. n = Len(s) - (IF Len(s) > 0 /\ s[1].op = "notice" THEN 1 ELSE 0)
      BY DEF Stacked
    <2>2. CASE l = 0
      BY <1>1, <1>n, <2>1, <2>2
    <2>3. CASE l > 0
      <3>1. p[1] = s[1]
        BY <1>1, <1>n, <2>3
      <3> QED BY <1>1, <1>n, <2>1, <2>3, <3>1
    <2> QED BY <2>2, <2>3
  <1> QED BY <1>3, <1>4, <1>5, <1>6 DEF Stacked

\* Pushing a call keeps track of which call, if any, is listing a subtree.
LEMMA PushLists ==
    ASSUME NEW s \in Seq(Call), NEW f \in Call, NEW p, p = Append(s, f), NEW a \in BOOLEAN, Lists(s, a)
    PROVE  /\ f.op \notin Listings => Lists(p, a)
           /\ f.op \in Listings /\ ~a => Lists(p, TRUE)
  <1>1. /\ \A i \in 1..Len(s) : p[i] = s[i] /\ i \in 1..Len(p)
        /\ p[Len(p)] = f /\ Len(p) \in 1..Len(p)
        /\ \A i \in 1..Len(p) : i \in 1..Len(s) \/ i = Len(p)
    BY PushFacts
  <1>2. ASSUME f.op \notin Listings PROVE Lists(p, a)
    <2>1. \A i \in 1..Len(p) : p[i].op \in Listings => i \in 1..Len(s) /\ s[i].op \in Listings
      BY <1>1, <1>2
    <2>2. \A i \in 1..Len(s) : s[i].op \in Listings => i \in 1..Len(p) /\ p[i].op \in Listings
      BY <1>1
    <2> QED BY <2>1, <2>2 DEF Lists
  <1>3. ASSUME f.op \in Listings, ~a PROVE Lists(p, TRUE)
    <2>1. \A i \in 1..Len(p) : p[i].op \in Listings => i = Len(p)
      BY <1>1, <1>3 DEF Lists
    <2>2. Len(p) \in 1..Len(p) /\ p[Len(p)].op \in Listings
      BY <1>1, <1>3
    <2> QED BY <2>1, <2>2 DEF Lists
  <1> QED BY <1>2, <1>3

\* A new call starts by having seen the store as it is.
LEMMA PushSeeing ==
    ASSUME NEW s \in Seq(Call), NEW f \in Call, NEW p, p = Append(s, f), NEW st, Seeing(s, st),
           \A k \in Keys : <<k, st[k]>> \in f.seen
    PROVE  Seeing(p, st)
  <1>1. /\ \A i \in 1..Len(s) : p[i] = s[i]
        /\ p[Len(p)] = f
        /\ \A i \in 1..Len(p) : i \in 1..Len(s) \/ i = Len(p)
    BY PushFacts
  <1> QED BY <1>1 DEF Seeing

\* A call returns.
LEMMA PopFacts ==
    ASSUME NEW s \in Seq(Call), s # << >>, NEW p, p = Below(s)
    PROVE  /\ p \in Seq(Call) /\ Len(s) \in Nat \ {0} /\ Len(p) = Len(s) - 1
           /\ \A i \in 1..Len(p) : p[i] = s[i] /\ i \in 1..Len(s) /\ i < Len(s)
           /\ \A i \in 1..Len(s) : i \in 1..Len(p) \/ i = Len(s)
  <1>1. PICK n \in Nat \ {0} : Len(s) = n
    BY EmptySeq
  <1>2. n - 1 \in 0..Len(s) /\ n - 1 \in Nat
    BY <1>1
  <1>3. /\ p \in Seq(Call) /\ Len(p) = n - 1
        /\ \A i \in 1..(n - 1) : p[i] = s[i] /\ i \in 1..Len(s)
    <2>1. PICK l : l = n - 1
      OBVIOUS
    <2>2. p = SubSeq(s, 1, l) /\ l \in 0..Len(s)
      BY <1>1, <1>2, <2>1 DEF Below
    <2>3. /\ p \in Seq(Call) /\ Len(p) = l
          /\ \A i \in 1..l : p[i] = s[i] /\ i \in 1..Len(s)
      BY <2>2, PrefixFacts
    <2> QED BY <2>1, <2>3
  <1> QED BY <1>1, <1>3

\* Returning from a call leaves a well-formed stack, whose top is inside a callback, and one hold less.
LEMMA PopStacked ==
    ASSUME NEW s \in Seq(Call), s # << >>, NEW p, p = Below(s), NEW n \in Nat, Stacked(s, n)
    PROVE  /\ s[Len(s)].op # "notice" => n >= 1 /\ Stacked(p, n - 1)
           /\ s[Len(s)].op = "notice" => Len(s) = 1 /\ p = << >> /\ n = 0
           /\ p # << >> => p[Len(p)].pc = "callback"
  <1>1. /\ p \in Seq(Call) /\ Len(s) \in Nat \ {0} /\ Len(p) = Len(s) - 1
        /\ \A i \in 1..Len(p) : p[i] = s[i] /\ i \in 1..Len(s) /\ i < Len(s)
        /\ \A i \in 1..Len(s) : i \in 1..Len(p) \/ i = Len(s)
    BY PopFacts
  <1>n. PICK l \in Nat \ {0} : Len(s) = l
    BY <1>1
  <1>2. n = Len(s) - (IF Len(s) > 0 /\ s[1].op = "notice" THEN 1 ELSE 0)
    BY DEF Stacked
  <1>3. ASSUME s[Len(s)].op # "notice" PROVE n >= 1 /\ Stacked(p, n - 1)
    <2>1. \A i \in 1..Len(p) : p[i].pc = "callback"
      BY <1>1 DEF Stacked
    <2>2. \A i \in 1..Len(p) : p[i].op = "notice" => i = 1
      BY <1>1 DEF Stacked
    <2>3. \A i \in 1..Len(p) : p[i].op = "set" => p[i].pc # "wait"
      BY <1>1 DEF Stacked
    <2>4. n >= 1 /\ n - 1 = Len(p) - (IF Len(p) > 0 /\ p[1].op = "notice" THEN 1 ELSE 0)
      <3>1. CASE l = 1
        <4>1. Len(s) = 1 /\ ~(s[1].op = "notice")
          BY <1>3, <1>n, <3>1
        <4>2. n = 1
          BY <1>2, <4>1
        <4>3. Len(p) = 0
          BY <1>1, <4>1
        <4> QED BY <4>2, <4>3
      <3>2. CASE l > 1
        <4>1. p[1] = s[1]
          BY <1>1, <1>n, <3>2
        <4> QED BY <1>1, <1>2, <1>n, <3>2, <4>1
      <3> QED BY <3>1, <3>2
    <2> QED BY <2>1, <2>2, <2>3, <2>4 DEF Stacked
  <1>4. ASSUME s[Len(s)].op = "notice" PROVE Len(s) = 1 /\ p = << >> /\ n = 0
    <2>1. Len(s) \in 1..Len(s)
      BY <1>n
    <2>2. Len(s) = 1
      BY <1>4, <2>1 DEF Stacked
    <2>3. n = 0
      BY <1>2, <1>4, <2>2
    <2>4. Len(p) = 0
      BY <1>1, <2>2
    <2> QED BY <1>1, <2>2, <2>3, <2>4
  <1>5. p # << >> => p[Len(p)].pc = "callback"
    <2>1. ASSUME p # << >> PROVE p[Len(p)].pc = "callback"
      <3>1. Len(p) \in 1..Len(p)
        BY <1>1, <2>1
      <3> QED BY <1>1, <3>1 DEF Stacked
    <2> QED BY <2>1
  <1> QED BY <1>3, <1>4, <1>5

\* Returning from a call keeps track of which call, if any, is listing a subtree.
LEMMA PopLists ==
    ASSUME NEW s \in Seq(Call), s # << >>, NEW p, p = Below(s), NEW a \in BOOLEAN, Lists(s, a)
    PROVE  /\ s[Len(s)].op \notin Listings => Lists(p, a)
           /\ s[Len(s)].op \in Listings => Lists(p, FALSE)
  <1>1. /\ Len(s) \in Nat \ {0} /\ Len(p) = Len(s) - 1
        /\ \A i \in 1..Len(p) : p[i] = s[i] /\ i \in 1..Len(s) /\ i < Len(s)
        /\ \A i \in 1..Len(s) : i \in 1..Len(p) \/ i = Len(s)
    BY PopFacts
  <1>2. ASSUME s[Len(s)].op \notin Listings PROVE Lists(p, a)
    <2>1. \A i \in 1..Len(s) : s[i].op \in Listings => i \in 1..Len(p) /\ p[i].op \in Listings
      BY <1>1, <1>2
    <2>2. \A i \in 1..Len(p) : p[i].op \in Listings => i \in 1..Len(s) /\ s[i].op \in Listings
      BY <1>1
    <2> QED BY <2>1, <2>2 DEF Lists
  <1>3. ASSUME s[Len(s)].op \in Listings PROVE Lists(p, FALSE)
    <2>1. Len(s) \in 1..Len(s)
      BY <1>1
    <2>2. \A i \in 1..Len(p) : p[i].op \notin Listings
      BY <1>1, <1>3, <2>1 DEF Lists
    <2> QED BY <2>2 DEF Lists
  <1> QED BY <1>2, <1>3

\* The calls below the one that returns have seen what they had.
LEMMA PopSeeing ==
    ASSUME NEW s \in Seq(Call), s # << >>, NEW p, p = Below(s), NEW st, Seeing(s, st)
    PROVE  Seeing(p, st)
  <1>1. \A i \in 1..Len(p) : p[i] = s[i] /\ i \in 1..Len(s)
    BY PopFacts
  <1> QED BY <1>1 DEF Seeing

-----------------------------------------------------------------------------
(* Calls start.                                                            *)

\* The fields that starting a call leaves alone.
SameBut(g, h) ==
    /\ h \in Client /\ h.ok = g.ok /\ h.aborted = g.aborted /\ h.deltas = g.deltas /\ h.view = g.view
    /\ h.known = g.known /\ h.refreshed_once = g.refreshed_once /\ h.last = g.last

\* A command behind the others.
LEMMA JoinCommand ==
    ASSUME NEW cq \in Seq(ToDaemon), NEW m \in ToDaemon, NEW p, p = cq \o <<m>>
    PROVE  /\ p \in Seq(ToDaemon) /\ Len(cq) \in Nat /\ p # << >> /\ p[Len(p)] = m /\ Len(p) - 1 = Len(cq)
           /\ \A i \in 1..Len(cq) : p[i] = cq[i]
           /\ \A i \in 1..Len(p) : i \in 1..Len(cq) \/ p[i] = m
  <1>1. /\ p \in Seq(ToDaemon) /\ Len(cq) \in Nat /\ Len(p) = Len(cq) + 1
        /\ \A i \in 1..Len(cq) : i \in 1..Len(p) /\ p[i] = cq[i]
        /\ p[Len(cq) + 1] = m
        /\ \A i \in 1..Len(p) : i \in 1..Len(cq) \/ i = Len(cq) + 1
    BY JoinOne
  <1>2. p # << >>
    BY <1>1
  <1>3. p[Len(p)] = m /\ Len(p) - 1 = Len(cq)
    BY <1>1
  <1> QED BY <1>1, <1>2, <1>3

\* A call that waits.
LEMMA PushAsk ==
    ASSUME NEW g \in Client, NEW cq \in Seq(ToDaemon), NEW sq \in Seq(ToClient), NEW d \in Server,
           NEW st \in [Keys -> Optional], Sound(g, cq, sq, d, st),
           g.stack # << >> => g.stack[Len(g.stack)].pc = "callback",
           NEW f \in Call, f.pc = "wait", f.op \notin {"set", "notice"},
           \A k \in Keys : <<k, st[k]>> \in f.seen,
           NEW h, SameBut(g, h), ~h.aborted, h.cmdinprogress, ~h.cmdsuccess,
           h.hold_nesting = g.hold_nesting + 1, h.stack = Append(g.stack, f),
           f.op \in Listings => ~g.listing /\ h.listing /\ h.result_list = << >>,
           f.op \notin Listings => h.listing = g.listing,
           NEW m \in ToDaemon, RightAsk(f, m), NEW cp, cp = (IF g.ok THEN cq \o <<m>> ELSE cq),
           LoadRule /\ f.op \in Loads => ~g.refreshed_once /\ ~NoLoading,
           NoSetv /\ WatchersDoNotWait => g.stack = << >>
    PROVE  Sound(h, cp, sq, d, st)
  <1>1. g.stack \in Seq(Call) /\ g.hold_nesting \in Nat /\ g.listing \in BOOLEAN
    BY DEF Client
  <1>2. h \in Client /\ h.ok = g.ok /\ h.deltas = g.deltas /\ h.view = g.view /\ h.known = g.known /\ h.refreshed_once = g.refreshed_once /\ h.last = g.last
    BY DEF SameBut
  <1>3. PICK p : p = Append(g.stack, f)
    OBVIOUS
  <1>4. /\ p \in Seq(Call) /\ Len(g.stack) \in Nat /\ Len(p) = Len(g.stack) + 1 /\ p # << >>
        /\ \A i \in 1..Len(g.stack) : p[i] = g.stack[i] /\ i \in 1..Len(p)
        /\ p[Len(p)] = f /\ Len(p) \in 1..Len(p)
        /\ \A i \in 1..Len(p) : i \in 1..Len(g.stack) \/ i = Len(p)
    BY <1>1, <1>3, PushFacts, SMTT(30)
  <1>5. Shape(g) /\ Seeing(g.stack, st)
    BY DEF Sound
  <1>6. Shape(h)
    <2>1. Stacked(p, g.hold_nesting + 1)
      BY <1>1, <1>3, <1>5, PushStacked DEF Shape
    <2>2. /\ f.op \notin Listings => Lists(p, g.listing)
          /\ f.op \in Listings /\ ~g.listing => Lists(p, TRUE)
      BY <1>1, <1>3, <1>5, PushLists DEF Shape
    <2>3. Lists(p, h.listing)
      <3>1. CASE f.op \in Listings
        <4>1. h.listing = TRUE
          BY <1>2, <3>1 DEF Client
        <4> QED BY <2>2, <3>1, <4>1
      <3>2. CASE f.op \notin Listings
        BY <2>2, <3>2
      <3> QED BY <3>1, <3>2
    <2>4. h.hold_nesting # 0
      BY <1>1
    <2> QED BY <1>3, <2>1, <2>3, <2>4 DEF Shape
  <1>7. Seeing(h.stack, st)
    BY <1>1, <1>3, <1>5, PushSeeing
  <1>8. ASSUME LoadRule PROVE Fresh(h, sq, d, st)
    <2>1. Fresh(g, sq, d, st)
      BY <1>8 DEF Sound
    <2>2. Loading(p, g.refreshed_once)
      BY <1>4, <1>8, <2>1 DEF Fresh, Loading
    <2> QED BY <1>2, <1>3, <2>1, <2>2 DEF Fresh, Unaware
  <1>9. ~Calling(g)
    BY DEF Calling
  <1>12. g.ok => Calling(h)
    BY <1>2, <1>3, <1>4 DEF Calling
  <1>10. ASSUME NoSetv PROVE Progress(h, cp, sq, d)
    <2>1. CASE ~g.ok
      BY <1>2, <2>1 DEF Progress, Calling
    <2>2. CASE g.ok
      <3>1. Idle(cq, sq, d)
        BY <1>9, <1>10, <2>2 DEF Sound, Progress
      <3>2. cp = cq \o <<m>>
        BY <2>2
      <3>3. /\ cp \in Seq(ToDaemon) /\ cp # << >> /\ cp[Len(cp)] = m /\ Len(cp) - 1 = Len(cq)
            /\ \A i \in 1..Len(cq) : cp[i] = cq[i]
        BY <3>2, JoinCommand
      <3>4. CASE d.open
        <4>1. Asked(f, h.result_list, cp, sq, d)
          BY <3>1, <3>3, <3>4 DEF Asked, Idle, Silent
        <4> QED BY <1>3, <1>4, <1>12, <2>2, <4>1 DEF Progress, Phase
      <3>5. CASE ~d.open
        <4>1. Cut(sq, d)
          BY <3>1, <3>5 DEF Cut, Idle, Still, Unanswered, Replies
        <4> QED BY <1>12, <2>2, <4>1 DEF Progress, Phase
      <3> QED BY <3>4, <3>5
    <2> QED BY <2>1, <2>2
  <1>11. ASSUME NoSetv, WatchersDoNotWait PROVE Reported(h)
    <2>1. g.stack = << >> /\ Reported(g)
      BY <1>11 DEF Sound
    <2>2. Len(p) = 1 /\ p[1] = f
      BY <1>4, <2>1
    <2>3. \A i \in 2..Len(p) : p[i].op = "set"
      BY <2>2
    <2>5. Collected(h)
      BY <1>2, <1>3, <1>12, <2>2 DEF Collected
    <2> QED BY <1>2, <1>3, <2>1, <2>3, <2>5 DEF Reported
  <1> QED BY <1>6, <1>7, <1>8, <1>10, <1>11 DEF Sound

\* A call that does not wait: set() and setv().
LEMMA PushSet ==
    ASSUME NEW g \in Client, NEW cq \in Seq(ToDaemon), NEW sq \in Seq(ToClient), NEW d \in Server,
           NEW st \in [Keys -> Optional], Sound(g, cq, sq, d, st),
           g.stack # << >> => g.stack[Len(g.stack)].pc = "callback",
           NEW f \in Call, f.pc \in {"drain", "flush"}, f.op \in {"set", "setv"}, NoSetv => f.op = "set",
           \A k \in Keys : <<k, st[k]>> \in f.seen,
           NEW h, SameBut(g, h), h.cmdsuccess = g.cmdsuccess,
           h.result_key = g.result_key, h.result = g.result,
           h.listing = g.listing, h.result_list = g.result_list,
           h.hold_nesting = g.hold_nesting + 1, h.stack = Append(g.stack, f),
           NEW cp, NoSetv /\ Silent(cq) => Silent(cp)
    PROVE  Sound(h, cp, sq, d, st)
  <1>1. g.stack \in Seq(Call) /\ g.hold_nesting \in Nat /\ g.listing \in BOOLEAN
    BY DEF Client
  <1>2. h \in Client /\ h.ok = g.ok /\ h.deltas = g.deltas /\ h.view = g.view /\ h.known = g.known /\ h.refreshed_once = g.refreshed_once /\ h.last = g.last
    BY DEF SameBut
  <1>3. PICK p : p = Append(g.stack, f)
    OBVIOUS
  <1>4. /\ p \in Seq(Call) /\ Len(g.stack) \in Nat /\ Len(p) = Len(g.stack) + 1 /\ p # << >>
        /\ \A i \in 1..Len(g.stack) : p[i] = g.stack[i] /\ i \in 1..Len(p)
        /\ p[Len(p)] = f /\ Len(p) \in 1..Len(p)
        /\ \A i \in 1..Len(p) : i \in 1..Len(g.stack) \/ i = Len(p)
    BY <1>1, <1>3, PushFacts, SMTT(30)
  <1>5. Shape(g) /\ Seeing(g.stack, st)
    BY DEF Sound
  <1>6. Shape(h)
    <2>1. Stacked(p, g.hold_nesting + 1)
      BY <1>1, <1>3, <1>5, PushStacked DEF Shape
    <2>2. Lists(p, g.listing)
      <3>1. f.op \notin Listings
        BY DEF Listings
      <3> QED BY <1>1, <1>3, <1>5, <3>1, PushLists DEF Shape
    <2>4. h.hold_nesting # 0
      BY <1>1
    <2> QED BY <1>3, <2>1, <2>2, <2>4 DEF Shape
  <1>7. Seeing(h.stack, st)
    BY <1>1, <1>3, <1>5, PushSeeing
  <1>8. ASSUME LoadRule PROVE Fresh(h, sq, d, st)
    <2>1. Fresh(g, sq, d, st)
      BY <1>8 DEF Sound
    <2>2. Loading(p, g.refreshed_once)
      BY <1>4, <2>1 DEF Fresh, Loading, Loads
    <2> QED BY <1>2, <1>3, <2>1, <2>2 DEF Fresh, Unaware
  <1>9. ~Calling(g) /\ ~Calling(h)
    BY <1>3, <1>4 DEF Calling
  <1>10. ASSUME NoSetv PROVE Progress(h, cp, sq, d)
    <2>1. g.ok => Idle(cq, sq, d)
      BY <1>9, <1>10 DEF Sound, Progress
    <2>2. h.ok => Idle(cp, sq, d)
      BY <1>2, <1>10, <2>1 DEF Idle
    <2> QED BY <1>9, <2>2 DEF Progress
  <1>11. ASSUME NoSetv, WatchersDoNotWait PROVE Reported(h)
    <2>1. Reported(g)
      BY <1>11 DEF Sound
    <2>n. PICK n \in Nat : Len(g.stack) = n
      BY <1>4
    <2>3. \A i \in 2..Len(p) : p[i].op = "set"
      <3>1. ASSUME NEW i \in 2..Len(p) PROVE p[i].op = "set"
        <4>1. i = Len(p) \/ (i \in 1..Len(g.stack) /\ i \in 2..Len(g.stack))
          BY <1>4, <2>n
        <4>2. i = Len(p) => p[i].op = "set"
          BY <1>4, <1>11
        <4>3. i \in 1..Len(g.stack) /\ i \in 2..Len(g.stack) => p[i].op = "set"
          BY <1>4, <2>1 DEF Reported
        <4> QED BY <4>1, <4>2, <4>3
      <3> QED BY <3>1
    <2>5. Collected(h)
      <3>1. CASE g.stack = << >>
        <4>1. p[1] = f
          BY <1>4, <3>1
        <4> QED BY <1>3, <4>1 DEF Collected, Listings
      <3>2. CASE g.stack # << >>
        <4>1. p[1] = g.stack[1]
          <5>1. Len(g.stack) # 0
            BY <1>1, <3>2
          <5>2. 1 \in 1..Len(g.stack)
            BY <1>4, <5>1
          <5> QED BY <1>4, <5>2
        <4>2. /\ g.stack[1].op = "get" /\ g.ok => GetRight(g, g.stack[1])
              /\ g.stack[1].op \in Listings /\ g.cmdsuccess => Shows(g.stack[1], g.result_list, << >>, << >>)
          BY <1>9, <2>1, <3>2 DEF Reported, Collected
        <4>3. GetRight(g, g.stack[1]) => GetRight(h, g.stack[1])
          BY DEF GetRight
        <4> QED BY <1>2, <1>3, <4>1, <4>2, <4>3 DEF Collected
      <3> QED BY <3>1, <3>2
    <2> QED BY <1>2, <1>3, <2>1, <2>3, <2>5 DEF Reported
  <1> QED BY <1>6, <1>7, <1>8, <1>10, <1>11 DEF Sound

\* A new frame.
LEMMA FrameFacts ==
    ASSUME UniConfInv, NEW op \in CallNames, NEW k \in AnyKey, NEW pc \in {"wait", "drain", "flush", "callback"},
           NEW todo \in Seq(KeyValue), NEW f, f = Frame(op, k, pc, todo)
    PROVE  /\ f \in Call /\ f.op = op /\ f.key = k /\ f.pc = pc /\ f.todo = todo
           /\ \A x \in Keys : <<x, store[x]>> \in f.seen
  <1>1. store \in [Keys -> Optional]
    BY DEF UniConfInv, Types
  <1>2. PICK seen : seen = {<<x, store[x]>> : x \in Keys}
    OBVIOUS
  <1>3. seen \in Sightings /\ \A x \in Keys : <<x, store[x]>> \in seen
    BY <1>1, <1>2 DEF Sightings
  <1>4. f = [op |-> op, key |-> k, pc |-> pc, todo |-> todo, seen |-> seen]
    BY <1>2 DEF Frame
  <1> QED BY <1>3, <1>4 DEF Call

\* What do_select's wait for an answer changes in a client.
LEMMA WaitingFields ==
    ASSUME NEW g \in Client, NEW f \in Call, NEW h, h = Push(StartWaiting(g), f)
    PROVE  /\ SameBut(g, h) /\ h.cmdinprogress /\ ~h.cmdsuccess /\ h.hold_nesting = g.hold_nesting + 1
           /\ h.stack = Append(g.stack, f) /\ h.listing = g.listing /\ h.result_list = g.result_list
  <1>1. Append(g.stack, f) \in Seq(Call) /\ g.hold_nesting + 1 \in Nat
    BY AppendProperties DEF Client
  <1>2. PICK s \in Seq(Call), n \in Nat : s = Append(g.stack, f) /\ n = g.hold_nesting + 1
    BY <1>1
  <1>3. h = [g EXCEPT !.hold_nesting = n, !.cmdinprogress = TRUE, !.cmdsuccess = FALSE, !.stack = s]
    BY <1>2 DEF Push, StartWaiting, hold_delta, Client
  <1> QED BY <1>2, <1>3 DEF Client, SameBut

\* What a call that only holds the notices changes in a client.
LEMMA HoldFields ==
    ASSUME NEW g \in Client, NEW f \in Call, NEW h, h = Push(hold_delta(g), f)
    PROVE  /\ SameBut(g, h) /\ h.cmdinprogress = g.cmdinprogress /\ h.cmdsuccess = g.cmdsuccess
           /\ h.result_key = g.result_key /\ h.result = g.result
           /\ h.hold_nesting = g.hold_nesting + 1 /\ h.stack = Append(g.stack, f)
           /\ h.listing = g.listing /\ h.result_list = g.result_list
  <1>1. Append(g.stack, f) \in Seq(Call) /\ g.hold_nesting + 1 \in Nat
    BY AppendProperties DEF Client
  <1>2. PICK s \in Seq(Call), n \in Nat : s = Append(g.stack, f) /\ n = g.hold_nesting + 1
    BY <1>1
  <1>3. h = [g EXCEPT !.hold_nesting = n, !.stack = s]
    BY <1>2 DEF Push, hold_delta, Client
  <1> QED BY <1>2, <1>3 DEF Client, SameBut

\* Who may call.
LEMMA CallsFacts ==
    ASSUME UniConfInv, NEW c \in Clients, NEW op, Calls(c, op)
    PROVE  /\ ~cl[c].aborted /\ budget' \in Nat /\ s2c' = s2c /\ dconn' = dconn /\ store' = store /\ niceness' = niceness
           /\ op \in Ops \cup CallbackOps
           /\ cl[c].stack # << >> => cl[c].stack[Len(cl[c].stack)].pc = "callback" /\ op \in CallbackOps
           /\ ~Calling(cl[c])
  <1>1. budget \in Nat
    BY DEF UniConfInv, Types
  <1> QED BY <1>1 DEF Calls, daemonVars, AtTop, Top, Calling

\* What is written reaches the connection if it is ok.
LEMMA WritesFacts ==
    ASSUME UniConfInv, NEW c \in Clients, NEW w, Writes(c, w)
    PROVE  c2s' = [c2s EXCEPT ![c] = IF cl[c].ok THEN c2s[c] \o w ELSE c2s[c]]
  <1>1. CASE cl[c].ok
    BY <1>1 DEF Writes
  <1>2. CASE ~cl[c].ok
    <2>1. c2s = [c2s EXCEPT ![c] = c2s[c]]
      BY SameElement DEF UniConfInv, Types
    <2> QED BY <1>2, <2>1 DEF Writes
  <1> QED BY <1>1, <1>2

\* The calls that ask.
LEMMA AskStep ==
    ASSUME UniConfInv, NEW c \in Clients,
           NEW op \in {"get", "haschildren", "commit", "refresh", "cache_refresh"},
           NEW k \in AnyKey, NEW cmd \in {"get", "hchild", "commit", "refresh"},
           op = "get" <=> cmd = "get", op = "get" => k \in Keys, op = "cache_refresh" => ~cl[c].refreshed_once,
           Calls(c, op), Ask(c, op, k, cmd)
    PROVE  UniConfInv'
  <1>1. /\ cl[c] \in Client /\ c2s[c] \in Seq(ToDaemon) /\ s2c[c] \in Seq(ToClient) /\ dconn[c] \in Server
        /\ store \in [Keys -> Optional] /\ Sound(cl[c], c2s[c], s2c[c], dconn[c], store)
    BY ClientFacts
  <1>2. /\ ~cl[c].aborted /\ budget' \in Nat /\ s2c' = s2c /\ dconn' = dconn /\ store' = store /\ niceness' = niceness
        /\ op \in Ops \cup CallbackOps
        /\ cl[c].stack # << >> => cl[c].stack[Len(cl[c].stack)].pc = "callback" /\ op \in CallbackOps
    BY CallsFacts
  <1>3. PICK f : f = Frame(op, k, "wait", << >>)
    OBVIOUS
  <1>4. /\ f \in Call /\ f.op = op /\ f.key = k /\ f.pc = "wait"
        /\ \A x \in Keys : <<x, store[x]>> \in f.seen
    <2>1. op \in CallNames
      BY DEF CallNames
    <2>0. << >> \in Seq(KeyValue)
      OBVIOUS
    <2>2. PICK pc \in {"wait", "drain", "flush", "callback"}, todo \in Seq(KeyValue) : pc = "wait" /\ todo = << >>
      BY <2>0
    <2>3. f = Frame(op, k, pc, todo)
      BY <1>3, <2>2
    <2>4. /\ f \in Call /\ f.op = op /\ f.key = k /\ f.pc = pc /\ f.todo = todo
          /\ \A x \in Keys : <<x, store[x]>> \in f.seen
      BY <2>1, <2>3, FrameFacts
    <2> QED BY <2>2, <2>4
  <1>5. PICK h : h = Push(StartWaiting(cl[c]), f)
    OBVIOUS
  <1>6. /\ SameBut(cl[c], h) /\ h.cmdinprogress /\ ~h.cmdsuccess /\ h.hold_nesting = cl[c].hold_nesting + 1
        /\ h.stack = Append(cl[c].stack, f) /\ h.listing = cl[c].listing /\ h.result_list = cl[c].result_list
    BY <1>1, <1>4, <1>5, WaitingFields
  <1>7. PICK m : m = Msg(cmd, k, Null)
    OBVIOUS
  <1>8. m \in ToDaemon /\ m.cmd = cmd /\ m.key = k
    BY <1>7 DEF Msg, ToDaemon, Commands, Optional
  <1>9. f.op \notin Listings /\ RightAsk(f, m)
    BY <1>4, <1>8 DEF RightAsk, Listings
  <1>10. PICK cp : cp = IF cl[c].ok THEN c2s[c] \o <<m>> ELSE c2s[c]
    OBVIOUS
  <1>11. cp \in Seq(ToDaemon)
    <2>1. c2s[c] \o <<m>> \in Seq(ToDaemon)
      BY <1>1, <1>8, JoinOne
    <2> QED BY <1>1, <1>10, <2>1
  <1>12. c2s' = [c2s EXCEPT ![c] = cp]
    <2>1. PICK w : w = <<m>>
      OBVIOUS
    <2>2. Writes(c, w)
      BY <1>7, <2>1 DEF Ask
    <2> QED BY <1>10, <2>1, <2>2, WritesFacts
  <1>13. cl' = [cl EXCEPT ![c] = h] /\ s2c' = [s2c EXCEPT ![c] = s2c[c]]
    <2>1. cl' = [cl EXCEPT ![c] = h]
      BY <1>3, <1>5 DEF Ask
    <2>2. s2c' = [s2c EXCEPT ![c] = s2c[c]]
      BY <1>2, SameElement DEF UniConfInv, Types
    <2> QED BY <2>1, <2>2
  <1>14. f.op \in Loads => ~cl[c].refreshed_once /\ ~NoLoading
    BY <1>2, <1>4 DEF NoLoading, Loads
  <1>15. WatchersDoNotWait => cl[c].stack = << >>
    BY <1>2 DEF WatchersDoNotWait
  <1>16. ~h.aborted /\ h \in Client
    BY <1>2, <1>6 DEF SameBut
  <1>17. Sound(h, cp, s2c[c], dconn[c], store)
    <2>1. PICK g \in Client, cq \in Seq(ToDaemon), sq \in Seq(ToClient), d \in Server, st \in [Keys -> Optional] :
            g = cl[c] /\ cq = c2s[c] /\ sq = s2c[c] /\ d = dconn[c] /\ st = store
      BY <1>1
    <2>2. Sound(g, cq, sq, d, st) /\ (g.stack # << >> => g.stack[Len(g.stack)].pc = "callback")
      BY <1>1, <1>2, <2>1
    <2>3. /\ SameBut(g, h) /\ h.cmdinprogress /\ ~h.cmdsuccess /\ h.hold_nesting = g.hold_nesting + 1
          /\ h.stack = Append(g.stack, f) /\ h.listing = g.listing
      BY <1>6, <2>1
    <2>4. \A x \in Keys : <<x, st[x]>> \in f.seen
      BY <1>4, <2>1
    <2>5. cp = IF g.ok THEN cq \o <<m>> ELSE cq
      BY <1>10, <2>1
    <2>6. WatchersDoNotWait => g.stack = << >>
      BY <1>15, <2>1
    <2>7. f.op \notin {"set", "notice"} /\ (LoadRule /\ f.op \in Loads => ~g.refreshed_once /\ ~NoLoading)
      BY <1>4, <1>14, <2>1
    <2>8. Sound(h, cp, sq, d, st)
      BY <1>4, <1>8, <1>9, <1>16, <2>2, <2>3, <2>4, <2>5, <2>6, <2>7, PushAsk
    <2> QED BY <2>1, <2>8
  <1> QED BY <1>1, <1>2, <1>11, <1>12, <1>13, <1>16, <1>17, ClientStep

\* The calls that send one question and wait: get, haschildren, commit, refresh and the cache's
\* refresh.
LEMMA Questioned ==
    ASSUME UniConfInv, NEW c \in Clients,
           \/ \E k \in Keys : get(c, k)
           \/ haschildren(c) \/ commit(c) \/ refresh(c) \/ cache_refresh(c)
    PROVE  UniConfInv'
  <1>1. \A k \in Keys : k \in AnyKey
    BY DEF AnyKey
  <1>2. Root \in AnyKey /\ Null \in AnyKey
    BY DEF AnyKey
  <1>3. CASE \E k \in Keys : get(c, k)
    BY <1>1, <1>3, AskStep DEF get
  <1>4. CASE haschildren(c)
    BY <1>2, <1>4, AskStep DEF haschildren
  <1>5. CASE commit(c)
    BY <1>2, <1>5, AskStep DEF commit
  <1>6. CASE refresh(c)
    BY <1>2, <1>6, AskStep DEF refresh
  <1>7. CASE cache_refresh(c)
    BY <1>2, <1>7, AskStep DEF cache_refresh
  <1> QED BY <1>3, <1>4, <1>5, <1>6, <1>7

\* PushSet, for a client and what it has on the way.
LEMMA SetSound ==
    ASSUME NEW g \in Client, NEW cq \in Seq(ToDaemon), NEW sq \in Seq(ToClient), NEW d \in Server,
           NEW st \in [Keys -> Optional], Sound(g, cq, sq, d, st),
           g.stack # << >> => g.stack[Len(g.stack)].pc = "callback",
           NEW f \in Call, f.pc \in {"drain", "flush"}, f.op \in {"set", "setv"}, NoSetv => f.op = "set",
           \A k \in Keys : <<k, st[k]>> \in f.seen,
           NEW h, h = Push(hold_delta(g), f), NEW cp, NoSetv /\ Silent(cq) => Silent(cp)
    PROVE  Sound(h, cp, sq, d, st) /\ h \in Client
  <1>1. /\ SameBut(g, h) /\ h.cmdinprogress = g.cmdinprogress /\ h.cmdsuccess = g.cmdsuccess
        /\ h.result_key = g.result_key /\ h.result = g.result
        /\ h.hold_nesting = g.hold_nesting + 1 /\ h.stack = Append(g.stack, f)
        /\ h.listing = g.listing /\ h.result_list = g.result_list
    BY HoldFields
  <1>2. Sound(h, cp, sq, d, st)
    BY <1>1, PushSet
  <1> QED BY <1>1, <1>2 DEF SameBut

\* UniClientGen::set: the command is sent, nobody waits for its answer.
LEMMA SetStep ==
    ASSUME UniConfInv, NEW c \in Clients, NEW k \in Keys, NEW v \in Optional, set(c, k, v)
    PROVE  UniConfInv'
  <1>1. /\ cl[c] \in Client /\ c2s[c] \in Seq(ToDaemon) /\ s2c[c] \in Seq(ToClient) /\ dconn[c] \in Server
        /\ store \in [Keys -> Optional] /\ Sound(cl[c], c2s[c], s2c[c], dconn[c], store)
    BY ClientFacts
  <1>0. Calls(c, "set")
    BY DEF set
  <1>2. /\ ~cl[c].aborted /\ budget' \in Nat /\ s2c' = s2c /\ dconn' = dconn /\ store' = store /\ niceness' = niceness
        /\ cl[c].stack # << >> => cl[c].stack[Len(cl[c].stack)].pc = "callback" /\ "set" \in CallbackOps
    BY <1>0, CallsFacts
  <1>3. PICK m \in ToDaemon : Writes(c, <<m>>) /\ m.cmd \in {"set", "del"}
    <2>1. CASE v = Null
      <3>1. PICK m : m = Msg("del", k, Null)
        OBVIOUS
      <3>2. m \in ToDaemon /\ m.cmd = "del"
        BY <3>1 DEF Msg, ToDaemon, Commands, Optional, AnyKey
      <3>3. Writes(c, <<m>>)
        BY <2>1, <3>1 DEF set
      <3> QED BY <3>2, <3>3
    <2>2. CASE v # Null
      <3>1. PICK m : m = Msg("set", k, v)
        OBVIOUS
      <3>2. m \in ToDaemon /\ m.cmd = "set"
        BY <3>1 DEF Msg, ToDaemon, Commands, Optional, AnyKey
      <3>3. Writes(c, <<m>>)
        BY <2>2, <3>1 DEF set
      <3> QED BY <3>2, <3>3
    <2> QED BY <2>1, <2>2
  <1>4. PICK f : f = Frame("set", k, "drain", << >>)
    OBVIOUS
  <1>5. f \in Call /\ f.op = "set" /\ f.pc = "drain" /\ \A x \in Keys : <<x, store[x]>> \in f.seen
    <2>1. k \in AnyKey
      BY DEF AnyKey
    <2>0. << >> \in Seq(KeyValue)
      OBVIOUS
    <2>2. PICK op \in CallNames, pc \in {"wait", "drain", "flush", "callback"}, todo \in Seq(KeyValue) :
            op = "set" /\ pc = "drain" /\ todo = << >>
      BY <2>0 DEF CallNames
    <2>3. f = Frame(op, k, pc, todo)
      BY <1>4, <2>2
    <2>4. /\ f \in Call /\ f.op = op /\ f.key = k /\ f.pc = pc /\ f.todo = todo
          /\ \A x \in Keys : <<x, store[x]>> \in f.seen
      BY <2>1, <2>3, FrameFacts
    <2> QED BY <2>2, <2>4
  <1>6. PICK h : h = Push(hold_delta(cl[c]), f)
    OBVIOUS
  <1>7. PICK cp : cp = IF cl[c].ok THEN c2s[c] \o <<m>> ELSE c2s[c]
    OBVIOUS
  <1>8. cp \in Seq(ToDaemon) /\ (Silent(c2s[c]) => Silent(cp))
    <2>1. CASE cl[c].ok
      <3>1. cp = c2s[c] \o <<m>>
        BY <1>7, <2>1
      <3>2. cp \in Seq(ToDaemon) /\ \A i \in 1..Len(c2s[c]) : cp[i] = c2s[c][i]
        BY <1>1, <3>1, JoinCommand
      <3>3. \A i \in 1..Len(cp) : i \in 1..Len(c2s[c]) \/ cp[i] = m
        BY <1>1, <3>1, JoinCommand
      <3>4. m.cmd \notin Asks
        BY <1>3 DEF Asks
      <3> QED BY <3>2, <3>3, <3>4 DEF Silent
    <2>2. CASE ~cl[c].ok
      BY <1>1, <1>7, <2>2
    <2> QED BY <2>1, <2>2
  <1>9. c2s' = [c2s EXCEPT ![c] = cp] /\ cl' = [cl EXCEPT ![c] = h] /\ s2c' = [s2c EXCEPT ![c] = s2c[c]]
    <2>1. PICK w : w = <<m>>
      OBVIOUS
    <2>2. Writes(c, w)
      BY <1>3, <2>1
    <2>3. c2s' = [c2s EXCEPT ![c] = cp]
      BY <1>7, <2>1, <2>2, WritesFacts
    <2>4. cl' = [cl EXCEPT ![c] = h]
      BY <1>4, <1>6 DEF set
    <2>5. s2c' = [s2c EXCEPT ![c] = s2c[c]]
      BY <1>2, SameElement DEF UniConfInv, Types
    <2> QED BY <2>3, <2>4, <2>5
  <1>10. Sound(h, cp, s2c[c], dconn[c], store) /\ h \in Client
    BY <1>1, <1>2, <1>5, <1>6, <1>8, SetSound
  <1> QED BY <1>1, <1>2, <1>8, <1>9, <1>10, ClientStep

\* A pair that setv() sends.
LEMMA PairFacts ==
    ASSUME NEW k \in Keys, NEW v \in Values, NEW x, x = Pair(k, v)
    PROVE  /\ x \in KeyValue /\ x.key = k /\ x.val = v
           /\ \A cmd \in {"set", "setv"} : Msg(cmd, k, v) \in ToDaemon /\ Msg(cmd, k, v).cmd = cmd
  BY DEF Pair, KeyValue, Msg, ToDaemon, Commands, Optional, AnyKey

\* UniClientGen::setv: two commands in one go; their answers are never asked for, hence only for the
\* rules that hold with setv.
LEMMA SetvStep ==
    ASSUME UniConfInv, NEW c \in Clients, NEW j \in Keys, NEW k \in Keys, NEW v \in Values, NEW w \in Values,
           setv(c, <<Pair(j, v), Pair(k, w)>>)
    PROVE  UniConfInv'
  <1>1. /\ cl[c] \in Client /\ c2s[c] \in Seq(ToDaemon) /\ s2c[c] \in Seq(ToClient) /\ dconn[c] \in Server
        /\ store \in [Keys -> Optional] /\ Sound(cl[c], c2s[c], s2c[c], dconn[c], store)
    BY ClientFacts
  <1>0. Calls(c, "setv")
    BY DEF setv
  <1>2. /\ ~cl[c].aborted /\ budget' \in Nat /\ s2c' = s2c /\ dconn' = dconn /\ store' = store /\ niceness' = niceness
        /\ "setv" \in Ops \cup CallbackOps
        /\ cl[c].stack # << >> => cl[c].stack[Len(cl[c].stack)].pc = "callback" /\ "setv" \in CallbackOps
    BY <1>0, CallsFacts
  <1>3. ~NoSetv
    BY <1>2 DEF NoSetv
  <1>4. PICK x, y : x = Pair(j, v) /\ y = Pair(k, w)
    OBVIOUS
  <1>5. x \in KeyValue /\ y \in KeyValue /\ x.key = j /\ x.val = v /\ y.key = k /\ y.val = w
    BY <1>4, PairFacts
  <1>6. PICK pairs : pairs = <<x, y>>
    OBVIOUS
  <1>7. setv(c, pairs) /\ Len(pairs) = 2 /\ pairs[1] = x /\ pairs[2] = y /\ Tail(pairs) \in Seq(KeyValue)
    <2>1. Len(pairs) = 2 /\ pairs[1] = x /\ pairs[2] = y /\ pairs \in Seq(KeyValue) /\ pairs # << >>
      BY <1>5, <1>6
    <2>2. Tail(pairs) \in Seq(KeyValue)
      BY <2>1, HeadTailProperties
    <2> QED BY <1>4, <1>6, <2>1, <2>2
  <1>8. PICK msgs \in Seq(ToDaemon), pc \in {"drain", "flush"}, todo \in Seq(KeyValue) :
            Writes(c, msgs) /\ cl' = [cl EXCEPT ![c] = Push(hold_delta(cl[c]), Frame("setv", Null, pc, todo))]
    <2>1. CASE cl[c].version >= 19
      <3>1. PICK q : q = [i \in 1..2 |-> Msg("setv", pairs[i].key, pairs[i].val)]
        OBVIOUS
      <3>2. q \in Seq(ToDaemon)
        <4>1. \A i \in 1..2 : q[i] \in ToDaemon
          <5>1. q[1] = Msg("setv", j, v) /\ q[2] = Msg("setv", k, w)
            BY <1>5, <1>7, <3>1
          <5>2. q[1] \in ToDaemon /\ q[2] \in ToDaemon
            BY <5>1, PairFacts
          <5> QED BY <5>2
        <4>2. PICK n \in Nat : n = 2
          OBVIOUS
        <4>3. q \in [1..n -> ToDaemon]
          BY <3>1, <4>1, <4>2
        <4> QED BY <4>3
      <3>3. PICK m : m = Plain("setv")
        OBVIOUS
      <3>4. m \in ToDaemon
        BY <3>3 DEF Plain, Msg, ToDaemon, Commands, Optional, AnyKey
      <3>5. PICK msgs \in Seq(ToDaemon) : msgs = q \o <<m>>
        BY <3>2, <3>4, JoinOne
      <3>6. Writes(c, msgs) /\ cl' = [cl EXCEPT ![c] = Push(hold_delta(cl[c]), Frame("setv", Null, "flush", << >>))]
        BY <1>7, <2>1, <3>1, <3>3, <3>5 DEF setv
      <3>7. << >> \in Seq(KeyValue)
        OBVIOUS
      <3> QED BY <3>6, <3>7
    <2>2. CASE ~(cl[c].version >= 19)
      <3>1. PICK m : m = Msg("set", j, v)
        OBVIOUS
      <3>2. m \in ToDaemon
        BY <3>1, PairFacts
      <3>3. PICK msgs \in Seq(ToDaemon) : msgs = <<m>>
        <4>1. <<m>> \in Seq(ToDaemon)
          BY <1>1, <3>2, OneMessage
        <4> QED BY <4>1
      <3>4. Writes(c, msgs) /\ cl' = [cl EXCEPT ![c] = Push(hold_delta(cl[c]), Frame("setv", Null, "drain", Tail(pairs)))]
        BY <1>5, <1>7, <2>2, <3>1, <3>3 DEF setv
      <3> QED BY <1>7, <3>4
    <2> QED BY <2>1, <2>2
  <1>9. PICK f : f = Frame("setv", Null, pc, todo)
    OBVIOUS
  <1>10. f \in Call /\ f.op = "setv" /\ f.pc = pc /\ \A z \in Keys : <<z, store[z]>> \in f.seen
    <2>1. Null \in AnyKey /\ pc \in {"wait", "drain", "flush", "callback"}
      BY DEF AnyKey
    <2>2. PICK op \in CallNames : op = "setv"
      BY DEF CallNames
    <2>3. f = Frame(op, Null, pc, todo)
      BY <1>9, <2>2
    <2>4. /\ f \in Call /\ f.op = op /\ f.key = Null /\ f.pc = pc /\ f.todo = todo
          /\ \A z \in Keys : <<z, store[z]>> \in f.seen
      BY <2>1, <2>3, FrameFacts
    <2> QED BY <2>2, <2>4
  <1>11. PICK h : h = Push(hold_delta(cl[c]), f)
    OBVIOUS
  <1>12. PICK cp : cp = IF cl[c].ok THEN c2s[c] \o msgs ELSE c2s[c]
    OBVIOUS
  <1>13. cp \in Seq(ToDaemon)
    <2>1. c2s[c] \o msgs \in Seq(ToDaemon)
      BY <1>1, <1>8, ConcatProperties
    <2> QED BY <1>1, <1>12, <2>1
  <1>14. c2s' = [c2s EXCEPT ![c] = cp] /\ cl' = [cl EXCEPT ![c] = h] /\ s2c' = [s2c EXCEPT ![c] = s2c[c]]
    <2>1. c2s' = [c2s EXCEPT ![c] = cp]
      BY <1>8, <1>12, WritesFacts
    <2>2. cl' = [cl EXCEPT ![c] = h]
      BY <1>8, <1>9, <1>11
    <2>3. s2c' = [s2c EXCEPT ![c] = s2c[c]]
      BY <1>2, SameElement DEF UniConfInv, Types
    <2> QED BY <2>1, <2>2, <2>3
  <1>15. Sound(h, cp, s2c[c], dconn[c], store) /\ h \in Client
    <2>1. f.pc \in {"drain", "flush"} /\ f.op \in {"set", "setv"} /\ f \in Call
      BY <1>8, <1>10
    <2>2. cl[c].stack # << >> => cl[c].stack[Len(cl[c].stack)].pc = "callback"
      BY <1>2
    <2>3. \A z \in Keys : <<z, store[z]>> \in f.seen
      BY <1>10
    <2>4. PICK g \in Client, cq \in Seq(ToDaemon), sq \in Seq(ToClient), d \in Server, st \in [Keys -> Optional] :
              g = cl[c] /\ cq = c2s[c] /\ sq = s2c[c] /\ d = dconn[c] /\ st = store
      BY <1>1
    <2>5. Sound(g, cq, sq, d, st)
      BY <1>1, <2>4
    <2>6. (g.stack # << >> => g.stack[Len(g.stack)].pc = "callback") /\ h = Push(hold_delta(g), f)
      BY <1>11, <2>2, <2>4
    <2>7. (\A z \in Keys : <<z, st[z]>> \in f.seen) /\ (NoSetv => f.op = "set")
      BY <1>3, <2>3, <2>4
    <2>8. NoSetv /\ Silent(cq) => Silent(cp)
      BY <1>3
    <2>9. Sound(h, cp, sq, d, st) /\ h \in Client
      BY <2>1, <2>5, <2>6, <2>7, <2>8, SetSound
    <2> QED BY <2>4, <2>9
  <1> QED BY <1>1, <1>2, <1>13, <1>14, <1>15, ClientStep

\* A client that stops: it has aborted, or its connection is closed.
LEMMA StopSound ==
    ASSUME NEW g \in Client, NEW cq, NEW sq, NEW d, NEW st, Sound(g, cq, sq, d, st),
           NEW h, h.stack = g.stack, h.hold_nesting = g.hold_nesting, h.deltas = g.deltas, h.view = g.view,
           h.known = g.known, h.refreshed_once = g.refreshed_once, h.listing = g.listing, h.result_list = g.result_list,
           h.result_key = g.result_key, h.result = g.result, h.last = g.last,
           h.cmdsuccess => g.cmdsuccess,
           h.ok => g.ok /\ ~Calling(g) /\ h.cmdsuccess = g.cmdsuccess, ~Calling(h),
           NEW cp, h.ok => cp = cq
    PROVE  Sound(h, cp, sq, d, st)
  <1>1. Shape(h) /\ Seeing(h.stack, st)
    BY DEF Sound, Shape
  <1>2. LoadRule => Fresh(h, sq, d, st)
    BY DEF Sound, Fresh, Unaware
  <1>3. NoSetv => Progress(h, cp, sq, d)
    BY DEF Sound, Progress
  <1>4. ASSUME NoSetv, WatchersDoNotWait PROVE Reported(h)
    <2>1. Reported(g) /\ Progress(g, cq, sq, d)
      BY <1>4 DEF Sound
    <2>2. h.ok => GetRight(g, g.stack[1]) = GetRight(h, h.stack[1])
      BY DEF GetRight
    <2>3. Collected(h)
      BY <2>1, <2>2 DEF Reported, Collected, Progress
    <2> QED BY <2>1, <2>3 DEF Reported
  <1> QED BY <1>1, <1>2, <1>3, <1>4 DEF Sound

\* A listing begins.
LEMMA ListedFields ==
    ASSUME NEW g \in Client, ~g.listing, NEW f \in Call, NEW h,
           h = Push(StartWaiting([g EXCEPT !.listing = TRUE, !.result_list = << >>]), f)
    PROVE  /\ SameBut(g, h) /\ h.cmdinprogress /\ ~h.cmdsuccess /\ h.hold_nesting = g.hold_nesting + 1
           /\ h.stack = Append(g.stack, f) /\ h.listing /\ h.result_list = << >>
  <1>1. PICK b : b = [g EXCEPT !.listing = TRUE, !.result_list = << >>]
    OBVIOUS
  <1>2. << >> \in Seq(Shown)
    OBVIOUS
  <1>3. /\ b \in Client /\ b.listing /\ b.result_list = << >> /\ SameBut(g, b)
        /\ b.stack = g.stack /\ b.hold_nesting = g.hold_nesting
    BY <1>1, <1>2 DEF Client, SameBut
  <1>4. h = Push(StartWaiting(b), f)
    BY <1>1
  <1>5. /\ SameBut(b, h) /\ h.cmdinprogress /\ ~h.cmdsuccess /\ h.hold_nesting = b.hold_nesting + 1
        /\ h.stack = Append(b.stack, f) /\ h.listing = b.listing /\ h.result_list = b.result_list
    <2>1. b \in Client
      BY <1>3
    <2> QED BY <1>4, <2>1, WaitingFields
  <1>6. SameBut(g, h)
    BY <1>3, <1>5 DEF SameBut
  <1> QED BY <1>3, <1>5, <1>6

\* PushAsk for a listing.
LEMMA ListingSound ==
    ASSUME UniConfInv, NEW g \in Client, NEW cq \in Seq(ToDaemon), NEW sq \in Seq(ToClient), NEW d \in Server,
           Sound(g, cq, sq, d, store), ~g.listing, ~g.aborted,
           g.stack # << >> => g.stack[Len(g.stack)].pc = "callback",
           NEW op \in Listings, LoadRule /\ op = "loadtree" => ~g.refreshed_once /\ ~NoLoading,
           NoSetv /\ WatchersDoNotWait => g.stack = << >>,
           NEW m \in ToDaemon, m.cmd \in {"subt", "subtr"},
           NEW h, h = Listed(g, op),
           NEW cp, cp = (IF g.ok THEN cq \o <<m>> ELSE cq)
    PROVE  h \in Client /\ cp \in Seq(ToDaemon) /\ Sound(h, cp, sq, d, store)
  <1>1. store \in [Keys -> Optional]
    BY DEF UniConfInv, Types
  <1>2. PICK f : f = Frame(op, Root, "wait", << >>)
    OBVIOUS
  <1>3. f \in Call /\ f.op = op /\ f.pc = "wait" /\ \A x \in Keys : <<x, store[x]>> \in f.seen
    <2>0. << >> \in Seq(KeyValue)
      OBVIOUS
    <2>1. op \in CallNames /\ Root \in AnyKey
      BY DEF CallNames, Listings, AnyKey
    <2>2. PICK pc \in {"wait", "drain", "flush", "callback"}, todo \in Seq(KeyValue) : pc = "wait" /\ todo = << >>
      BY <2>0
    <2>3. f = Frame(op, Root, pc, todo)
      BY <1>2, <2>2
    <2>4. /\ f \in Call /\ f.op = op /\ f.key = Root /\ f.pc = pc /\ f.todo = todo
          /\ \A x \in Keys : <<x, store[x]>> \in f.seen
      BY <2>1, <2>3, FrameFacts
    <2> QED BY <2>2, <2>4
  <1>4. h = Push(StartWaiting([g EXCEPT !.listing = TRUE, !.result_list = << >>]), f)
    BY <1>2 DEF Listed
  <1>5. /\ SameBut(g, h) /\ h.cmdinprogress /\ ~h.cmdsuccess /\ h.hold_nesting = g.hold_nesting + 1
        /\ h.stack = Append(g.stack, f) /\ h.listing /\ h.result_list = << >>
    BY <1>3, <1>4, ListedFields
  <1>7. RightAsk(f, m) /\ f.op \in Listings /\ f.op \notin {"set", "notice"}
    BY <1>3 DEF RightAsk, Listings
  <1>8. LoadRule /\ f.op \in Loads => ~g.refreshed_once /\ ~NoLoading
    BY <1>3 DEF Listings, Loads
  <1>9. ~h.aborted /\ h \in Client
    BY <1>5 DEF SameBut
  <1>10. cp \in Seq(ToDaemon)
    <2>1. cq \o <<m>> \in Seq(ToDaemon)
      BY JoinOne
    <2> QED BY <2>1
  <1>11. Sound(h, cp, sq, d, store)
    <2>1. PICK st \in [Keys -> Optional] : st = store
      BY <1>1
    <2>2. Sound(g, cq, sq, d, st) /\ \A x \in Keys : <<x, st[x]>> \in f.seen
      BY <1>3, <2>1
    <2>3. Sound(h, cp, sq, d, st)
      BY <1>3, <1>5, <1>7, <1>8, <1>9, <2>2, PushAsk
    <2> QED BY <2>1, <2>3
  <1> QED BY <1>9, <1>10, <1>11

\* UniClientGen::iterator: the list to be collected in is made, the subtree asked for.
LEMMA IteratorStep ==
    ASSUME UniConfInv, NEW c \in Clients, NEW b \in BOOLEAN, iterator(c, b)
    PROVE  UniConfInv'
  <1>1. /\ cl[c] \in Client /\ c2s[c] \in Seq(ToDaemon) /\ s2c[c] \in Seq(ToClient) /\ dconn[c] \in Server
        /\ Sound(cl[c], c2s[c], s2c[c], dconn[c], store)
    BY ClientFacts
  <1>2. PICK name \in {"recursiveiterator", "iterator"} : Calls(c, name)
    <2>1. CASE b
      BY <2>1 DEF iterator
    <2>2. CASE ~b
      BY <2>2 DEF iterator
    <2> QED BY <2>1, <2>2
  <1>3. /\ ~cl[c].aborted /\ budget' \in Nat /\ s2c' = s2c /\ dconn' = dconn /\ store' = store /\ niceness' = niceness
        /\ cl[c].stack # << >> => cl[c].stack[Len(cl[c].stack)].pc = "callback" /\ name \in CallbackOps
        /\ ~Calling(cl[c])
    BY <1>2, CallsFacts
  <1>4. s2c' = [s2c EXCEPT ![c] = s2c[c]]
    BY <1>3, SameElement DEF UniConfInv, Types
  <1>5. PICK h : h = Listed(cl[c], "iterator")
    OBVIOUS
  <1>6. cl' = [cl EXCEPT ![c] = h]
    BY <1>5 DEF iterator
  <1>7. CASE cl[c].listing
    <2>1. h = [cl[c] EXCEPT !.aborted = TRUE]
      BY <1>5, <1>7 DEF Listed
    <2>2. /\ h \in Client /\ h.aborted /\ h.ok = cl[c].ok /\ h.stack = cl[c].stack
          /\ h.hold_nesting = cl[c].hold_nesting /\ h.deltas = cl[c].deltas /\ h.view = cl[c].view
          /\ h.known = cl[c].known /\ h.refreshed_once = cl[c].refreshed_once /\ h.listing = cl[c].listing /\ h.result_list = cl[c].result_list
          /\ h.result_key = cl[c].result_key /\ h.result = cl[c].result /\ h.last = cl[c].last
          /\ h.cmdsuccess = cl[c].cmdsuccess
      BY <1>1, <2>1 DEF Client
    <2>3. ~Calling(h)
      BY <2>2 DEF Calling
    <2>4. Sound(h, c2s[c], s2c[c], dconn[c], store)
      BY <1>1, <1>3, <2>2, <2>3, StopSound
    <2>5. c2s' = [c2s EXCEPT ![c] = c2s[c]]
      BY <1>7, SameElement DEF iterator, UniConfInv, Types
    <2> QED BY <1>1, <1>3, <1>4, <1>6, <2>2, <2>4, <2>5, ClientStep
  <1>8. CASE ~cl[c].listing
    <2>1. PICK cmd \in {"subt", "subtr"} : cmd = IF b THEN "subtr" ELSE "subt"
      BY Zenon
    <2>2. PICK m : m = Msg(cmd, Root, Null)
      OBVIOUS
    <2>3. PICK w : w = <<m>>
      OBVIOUS
    <2>4. Writes(c, w)
      BY <1>8, <2>1, <2>2, <2>3 DEF iterator
    <2>5. PICK cp : cp = IF cl[c].ok THEN c2s[c] \o <<m>> ELSE c2s[c]
      OBVIOUS
    <2>6. c2s' = [c2s EXCEPT ![c] = cp]
      BY <2>3, <2>4, <2>5, WritesFacts
    <2>7. PICK op \in Listings : op = "iterator"
      BY DEF Listings
    <2>8. WatchersDoNotWait => cl[c].stack = << >>
      BY <1>2, <1>3 DEF WatchersDoNotWait
    <2>9. h = Listed(cl[c], op)
      BY <1>5, <2>7
    <2>10. h \in Client /\ cp \in Seq(ToDaemon) /\ Sound(h, cp, s2c[c], dconn[c], store)
      <3>1. PICK g \in Client, cq \in Seq(ToDaemon), sq \in Seq(ToClient), d \in Server :
              g = cl[c] /\ cq = c2s[c] /\ sq = s2c[c] /\ d = dconn[c]
        BY <1>1
      <3>2. /\ Sound(g, cq, sq, d, store) /\ ~g.listing /\ ~g.aborted
            /\ (g.stack # << >> => g.stack[Len(g.stack)].pc = "callback")
        BY <1>1, <1>3, <1>8, <3>1
      <3>3. h = Listed(g, op) /\ (WatchersDoNotWait => g.stack = << >>)
        BY <2>8, <2>9, <3>1
      <3>4. cp = IF g.ok THEN cq \o <<m>> ELSE cq
        BY <2>5, <3>1
      <3>5. h \in Client /\ cp \in Seq(ToDaemon) /\ Sound(h, cp, sq, d, store)
        <4>1. op # "loadtree" /\ (NoSetv /\ WatchersDoNotWait => g.stack = << >>)
          BY <2>7, <3>3
        <4>2. h = Listed(g, op)
          BY <3>3
        <4>3. m \in ToDaemon /\ m.cmd \in {"subt", "subtr"}
          BY <2>2 DEF Msg, ToDaemon, Commands, Optional, AnyKey
        <4> QED BY <3>2, <3>4, <4>1, <4>2, <4>3, ListingSound
      <3> QED BY <3>1, <3>5
    <2> QED BY <1>1, <1>3, <1>4, <1>6, <2>6, <2>10, ClientStep
  <1> QED BY <1>7, <1>8


\* The client closes its connection: it says quit, sees the end, or gives up.
LEMMA CloseStep ==
    ASSUME UniConfInv, NEW c \in Clients, destroy(c) \/ EndOfStream(c) \/ Timeout(c)
    PROVE  UniConfInv'
  <1>1. /\ cl[c] \in Client /\ c2s[c] \in Seq(ToDaemon) /\ s2c[c] \in Seq(ToClient) /\ dconn[c] \in Server
        /\ Sound(cl[c], c2s[c], s2c[c], dconn[c], store) /\ budget \in Nat
    BY ClientFacts
  <1>2. /\ dconn' = dconn /\ store' = store /\ niceness' = niceness /\ budget' \in Nat
        /\ s2c' = [s2c EXCEPT ![c] = s2c[c]]
    <2>1. s2c = [s2c EXCEPT ![c] = s2c[c]] /\ budget \in Nat
      BY SameElement DEF UniConfInv, Types
    <2>2. CASE destroy(c)
      BY <2>1, <2>2 DEF destroy, Calls, daemonVars
    <2>3. CASE EndOfStream(c)
      BY <2>1, <2>3 DEF EndOfStream
    <2>4. CASE Timeout(c)
      BY <2>1, <2>4 DEF Timeout
    <2> QED BY <2>2, <2>3, <2>4
  <1>3. PICK cp \in Seq(ToDaemon) : c2s' = [c2s EXCEPT ![c] = cp]
    <2>1. CASE destroy(c)
      <3>1. PICK m : m = Plain("quit")
        OBVIOUS
      <3>2. m \in ToDaemon
        BY <3>1 DEF Plain, Msg, ToDaemon, Commands, AnyKey, Optional
      <3>3. PICK w : w = <<m>>
        OBVIOUS
      <3>4. c2s' = [c2s EXCEPT ![c] = c2s[c] \o w]
        BY <2>1, <3>1, <3>3 DEF destroy, Writes
      <3>5. c2s[c] \o w \in Seq(ToDaemon)
        BY <1>1, <3>2, <3>3, JoinOne
      <3> QED BY <3>4, <3>5
    <2>2. CASE EndOfStream(c) \/ Timeout(c)
      <3>1. c2s' = [c2s EXCEPT ![c] = c2s[c]]
        BY <2>2, SameElement DEF EndOfStream, Timeout, UniConfInv, Types
      <3> QED BY <1>1, <3>1
    <2> QED BY <2>1, <2>2
  <1>4. PICK h \in Client :
           /\ cl' = [cl EXCEPT ![c] = h] /\ ~h.ok /\ h.stack = cl[c].stack
           /\ h.hold_nesting = cl[c].hold_nesting /\ h.deltas = cl[c].deltas /\ h.view = cl[c].view
           /\ h.known = cl[c].known /\ h.refreshed_once = cl[c].refreshed_once /\ h.listing = cl[c].listing /\ h.result_list = cl[c].result_list
           /\ h.result_key = cl[c].result_key /\ h.result = cl[c].result /\ h.last = cl[c].last
           /\ h.cmdsuccess => cl[c].cmdsuccess
    <2>1. CASE destroy(c) \/ EndOfStream(c)
      <3>1. PICK h : h = [cl[c] EXCEPT !.ok = FALSE]
        OBVIOUS
      <3>2. cl' = [cl EXCEPT ![c] = h]
        BY <2>1, <3>1 DEF destroy, EndOfStream
      <3>3. /\ h \in Client /\ ~h.ok /\ h.stack = cl[c].stack
            /\ h.hold_nesting = cl[c].hold_nesting /\ h.deltas = cl[c].deltas /\ h.view = cl[c].view
            /\ h.known = cl[c].known /\ h.refreshed_once = cl[c].refreshed_once /\ h.listing = cl[c].listing /\ h.result_list = cl[c].result_list
            /\ h.result_key = cl[c].result_key /\ h.result = cl[c].result /\ h.last = cl[c].last
            /\ h.cmdsuccess => cl[c].cmdsuccess
        BY <1>1, <3>1 DEF Client
      <3> QED BY <3>2, <3>3
    <2>2. CASE Timeout(c)
      <3>1. PICK h : h = [cl[c] EXCEPT !.ok = FALSE, !.cmdinprogress = FALSE, !.cmdsuccess = FALSE]
        OBVIOUS
      <3>2. cl' = [cl EXCEPT ![c] = h]
        BY <1>1, <2>2, <3>1 DEF Timeout, Types, UniConfInv
      <3>3. /\ h \in Client /\ ~h.ok /\ h.stack = cl[c].stack
            /\ h.hold_nesting = cl[c].hold_nesting /\ h.deltas = cl[c].deltas /\ h.view = cl[c].view
            /\ h.known = cl[c].known /\ h.refreshed_once = cl[c].refreshed_once /\ h.listing = cl[c].listing /\ h.result_list = cl[c].result_list
            /\ h.result_key = cl[c].result_key /\ h.result = cl[c].result /\ h.last = cl[c].last
            /\ h.cmdsuccess => cl[c].cmdsuccess
        BY <1>1, <3>1 DEF Client
      <3> QED BY <3>2, <3>3
    <2> QED BY <2>1, <2>2
  <1>5. ~Calling(h)
    BY <1>4 DEF Calling
  <1>6. Sound(h, cp, s2c[c], dconn[c], store)
    BY <1>1, <1>4, <1>5, StopSound
  <1> QED BY <1>1, <1>2, <1>3, <1>4, <1>6, ClientStep

-----------------------------------------------------------------------------
(* A message arrives.                                                      *)

\* The first message and the others.
LEMMA Behind ==
    ASSUME NEW q \in Seq(ToClient), q # << >>, NEW m, m = Head(q), NEW t, t = Tail(q)
    PROVE  /\ m \in ToClient /\ m = q[1] /\ t \in Seq(ToClient) /\ Len(q) \in Nat /\ Len(t) \in Nat
           /\ Len(q) = Len(t) + 1 /\ 1 \in 1..Len(q)
           /\ \A i \in 1..Len(t) : i + 1 \in 1..Len(q) /\ i + 1 # 1 /\ t[i] = q[i + 1]
           /\ \A i \in 1..Len(q) : i = 1 \/ (i - 1 \in 1..Len(t) /\ t[i - 1] = q[i])
  <1>1. /\ Len(q) \in Nat /\ 1 \in 1..Len(q) /\ m = q[1] /\ m \in ToClient
        /\ t \in Seq(ToClient) /\ Len(t) = Len(q) - 1
        /\ \A i \in 1..Len(t) : t[i] = q[i + 1] /\ i + 1 \in 1..Len(q)
    BY FirstElement
  <1>2. PICK n \in Nat : Len(q) = n
    BY <1>1
  <1>3. Len(q) = Len(t) + 1 /\ Len(t) \in Nat
    BY <1>1, <1>2
  <1>4. \A i \in 1..Len(t) : i + 1 # 1
    BY <1>3
  <1>5. ASSUME NEW i \in 1..Len(q), i # 1 PROVE i - 1 \in 1..Len(t) /\ t[i - 1] = q[i]
    <2>1. i - 1 \in 1..Len(t) /\ (i - 1) + 1 = i
      BY <1>1, <1>2, <1>5
    <2> QED BY <1>1, <2>1
  <1> QED BY <1>1, <1>3, <1>4, <1>5

\* A message that is not about k makes no difference to what is known of k.
LEMMA KnowsDrop ==
    ASSUME NEW view, NEW a \in Seq(ToClient), NEW q \in Seq(ToClient), q # << >>,
           NEW m, m = Head(q), NEW t, t = Tail(q),
           NEW k, NEW v, ~Tells(m, k), Knows(view, a \o q, k, v)
    PROVE  Knows(view, a \o t, k, v)
  <1>1. /\ m \in ToClient /\ m = q[1] /\ t \in Seq(ToClient)
        /\ Len(q) = Len(t) + 1 /\ 1 \in 1..Len(q)
        /\ \A i \in 1..Len(t) : i + 1 \in 1..Len(q) /\ i + 1 # 1 /\ t[i] = q[i + 1]
        /\ \A i \in 1..Len(q) : i = 1 \/ (i - 1 \in 1..Len(t) /\ t[i - 1] = q[i])
    BY Behind
  <1>2. PICK p : p = a \o q
    OBVIOUS
  <1>3. PICK r : r = a \o t
    OBVIOUS
  <1>4. /\ p \in Seq(ToClient) /\ Len(p) = Len(a) + Len(q)
        /\ \A i \in 1..(Len(a) + Len(q)) : p[i] = IF i <= Len(a) THEN a[i] ELSE q[i - Len(a)]
    BY <1>2, ConcatProperties
  <1>5. /\ r \in Seq(ToClient) /\ Len(r) = Len(a) + Len(t)
        /\ \A i \in 1..(Len(a) + Len(t)) : r[i] = IF i <= Len(a) THEN a[i] ELSE t[i - Len(a)]
    BY <1>1, <1>3, ConcatProperties
  <1>6. PICK n \in Nat, l \in Nat : n = Len(a) /\ l = Len(t)
    <2>1. Len(a) \in Nat
      OBVIOUS
    <2>2. Len(t) \in Nat
      BY <1>1
    <2> QED BY <2>1, <2>2
  <1>7. Len(p) = n + l + 1 /\ Len(r) = n + l
    BY <1>1, <1>4, <1>5, <1>6
  <1>8. ASSUME NEW i \in 1..n PROVE i \in 1..Len(p) /\ i \in 1..Len(r) /\ r[i] = p[i]
    <2>1. i \in 1..(Len(a) + Len(q)) /\ i \in 1..(Len(a) + Len(t)) /\ i <= Len(a)
      BY <1>1, <1>6
    <2> QED BY <1>4, <1>5, <2>1
  <1>9. ASSUME NEW i \in (n + 1)..(n + l) PROVE i \in 1..Len(r) /\ i + 1 \in 1..Len(p) /\ r[i] = p[i + 1]
    <2>1. i \in 1..(Len(a) + Len(t)) /\ i + 1 \in 1..(Len(a) + Len(q)) /\ ~(i <= Len(a)) /\ ~(i + 1 <= Len(a))
      BY <1>1, <1>6
    <2>2. i - Len(a) \in 1..Len(t) /\ (i + 1) - Len(a) = (i - Len(a)) + 1
      BY <1>6
    <2>3. r[i] = t[i - Len(a)] /\ p[i + 1] = q[(i + 1) - Len(a)]
      BY <1>4, <1>5, <2>1
    <2>4. t[i - Len(a)] = q[(i - Len(a)) + 1]
      BY <1>1, <2>2
    <2> QED BY <1>4, <1>5, <2>1, <2>2, <2>3, <2>4
  <1>10. p[n + 1] = m
    <2>1. n + 1 \in 1..(Len(a) + Len(q)) /\ ~(n + 1 <= Len(a)) /\ (n + 1) - Len(a) = 1
      BY <1>1, <1>6
    <2> QED BY <1>1, <1>4, <2>1
  <1>11. \A i \in 1..Len(r) : i \in 1..n \/ i \in (n + 1)..(n + l)
    BY <1>7
  <1>12. Knows(view, p, k, v)
    BY <1>2
  <1>13. CASE view[k] = v /\ \A j \in 1..Len(p) : ~Tells(p[j], k)
    <2>1. \A j \in 1..Len(r) : ~Tells(r[j], k)
      BY <1>8, <1>9, <1>11, <1>13
    <2> QED BY <1>3, <1>13, <2>1 DEF Knows
  <1>14. ASSUME NEW i \in 1..Len(p), Tells(p[i], k), p[i].val = v,
                \A j \in (i + 1)..Len(p) : ~Tells(p[j], k)
         PROVE  Knows(view, r, k, v)
    <2>1. i # n + 1
      BY <1>10, <1>14
    <2>2. CASE i <= n
      <3>1. i \in 1..n
        BY <1>7, <2>2
      <3>2. i \in 1..Len(r) /\ Tells(r[i], k) /\ r[i].val = v
        BY <1>8, <1>14, <3>1
      <3>3. ASSUME NEW j \in (i + 1)..Len(r) PROVE ~Tells(r[j], k)
        <4>1. j \in 1..n \/ j \in (n + 1)..(n + l)
          BY <1>7, <3>1
        <4>2. CASE j \in 1..n
          <5>1. j \in (i + 1)..Len(p)
            BY <1>7, <3>1, <4>2
          <5> QED BY <1>8, <1>14, <4>2, <5>1
        <4>3. CASE j \in (n + 1)..(n + l)
          <5>1. j + 1 \in (i + 1)..Len(p)
            BY <1>7, <3>1, <4>3
          <5> QED BY <1>9, <1>14, <4>3, <5>1
        <4> QED BY <4>1, <4>2, <4>3
      <3> QED BY <3>2, <3>3 DEF Knows
    <2>3. CASE i > n
      <3>1. i - 1 \in (n + 1)..(n + l) /\ (i - 1) + 1 = i
        BY <1>7, <2>1, <2>3
      <3>2. i - 1 \in 1..Len(r) /\ Tells(r[i - 1], k) /\ r[i - 1].val = v
        BY <1>9, <1>14, <3>1
      <3>3. ASSUME NEW j \in ((i - 1) + 1)..Len(r) PROVE ~Tells(r[j], k)
        <4>1. j \in (n + 1)..(n + l) /\ j + 1 \in (i + 1)..Len(p)
          BY <1>7, <3>1
        <4> QED BY <1>9, <1>14, <4>1
      <3> QED BY <3>2, <3>3 DEF Knows
    <2> QED BY <1>7, <2>2, <2>3
  <1>15. Knows(view, r, k, v)
    BY <1>3, <1>12, <1>13, <1>14 DEF Knows
  <1> QED BY <1>3, <1>15

\* What is told is known.
LEMMA KnowsApply ==
    ASSUME NEW view, NEW q \in Seq(ToClient), q # << >>, NEW m, m = Head(q), NEW t, t = Tail(q),
           m.cmd = "NOTICE", NEW k, NEW v, Knows(view, q, k, v),
           NEW w, m.key = k => w[k] = m.val, m.key # k => w[k] = view[k]
    PROVE  Knows(w, t, k, v)
  <1>1. /\ m = q[1] /\ t \in Seq(ToClient) /\ Len(q) = Len(t) + 1 /\ Len(t) \in Nat /\ 1 \in 1..Len(q)
        /\ \A i \in 1..Len(t) : i + 1 \in 1..Len(q) /\ t[i] = q[i + 1]
        /\ \A i \in 1..Len(q) : i = 1 \/ (i - 1 \in 1..Len(t) /\ t[i - 1] = q[i])
    BY Behind
  <1>2. CASE view[k] = v /\ \A j \in 1..Len(q) : ~Tells(q[j], k)
    <2>1. \A j \in 1..Len(t) : ~Tells(t[j], k)
      BY <1>1, <1>2
    <2>2. w[k] = v
      BY <1>1, <1>2 DEF Tells
    <2> QED BY <2>1, <2>2 DEF Knows
  <1>3. ASSUME NEW i \in 1..Len(q), Tells(q[i], k), q[i].val = v,
               \A j \in (i + 1)..Len(q) : ~Tells(q[j], k)
        PROVE  Knows(w, t, k, v)
    <2>n. PICK n \in Nat : Len(t) = n
      BY <1>1
    <2>1. CASE i = 1
      <3>1. w[k] = v
        BY <1>1, <1>3, <2>1 DEF Tells
      <3>2. ASSUME NEW j \in 1..Len(t) PROVE ~Tells(t[j], k)
        <4>1. j + 1 \in (i + 1)..Len(q)
          BY <1>1, <2>1, <2>n
        <4> QED BY <1>1, <1>3, <4>1
      <3> QED BY <3>1, <3>2 DEF Knows
    <2>2. CASE i # 1
      <3>1. i - 1 \in 1..Len(t) /\ t[i - 1] = q[i]
        BY <1>1, <2>2
      <3>2. ASSUME NEW j \in ((i - 1) + 1)..Len(t) PROVE ~Tells(t[j], k)
        <4>1. j + 1 \in (i + 1)..Len(q) /\ j \in 1..Len(t)
          BY <1>1, <2>2, <2>n
        <4> QED BY <1>1, <1>3, <4>1
      <3> QED BY <1>3, <3>1, <3>2 DEF Knows
    <2> QED BY <2>1, <2>2
  <1> QED BY <1>2, <1>3 DEF Knows

\* Notices and the greeting arrive in the middle of anything.
LEMMA ShiftPhase ==
    ASSUME NEW f, NEW got, NEW cq, NEW d, NEW q \in Seq(ToClient), q # << >>, NEW m, m = Head(q), NEW t, t = Tail(q),
           m.cmd \in {"NOTICE", "HELLO"}
    PROVE  /\ Phase(f, got, cq, q, d) => Phase(f, got, cq, t, d)
           /\ Idle(cq, q, d) => Idle(cq, t, d)
  <1>1. /\ m = q[1] /\ t \in Seq(ToClient) /\ Len(q) = Len(t) + 1 /\ Len(t) \in Nat /\ 1 \in 1..Len(q)
        /\ \A i \in 1..Len(t) : i + 1 \in 1..Len(q) /\ i + 1 # 1 /\ t[i] = q[i + 1]
        /\ \A i \in 1..Len(q) : i = 1 \/ (i - 1 \in 1..Len(t) /\ t[i - 1] = q[i])
    BY Behind
  <1>2. Still(q) => Still(t)
    BY <1>1 DEF Still
  <1>3. Unanswered(q) => Unanswered(t)
    BY <1>1 DEF Unanswered
  <1>4. ASSUME NEW rest, Shows(f, got, q, rest) PROVE Shows(f, got, t, rest)
    <2>1. \A i \in 1..Len(t) : t[i].cmd = "VAL" /\ t[i].val # Null => <<t[i].key, t[i].val>> \in f.seen
      BY <1>1, <1>4 DEF Shows
    <2>2. ASSUME NEW k, Brings(q, k) PROVE Brings(t, k)
      <3>1. PICK i \in 1..Len(q) : q[i].cmd = "VAL" /\ q[i].key = k /\ q[i].val # Null
        BY <2>2 DEF Brings
      <3>2. i # 1
        BY <1>1, <3>1
      <3> QED BY <1>1, <3>1, <3>2 DEF Brings
    <2> QED BY <1>4, <2>1, <2>2 DEF Shows
  <1>5. ASSUME Replied(f, q) PROVE Replied(f, t)
    <2>1. PICK j \in 1..Len(q) :
            /\ RightReply(f, q[j])
            /\ \A i \in 1..Len(q) : i # j => q[i].cmd \notin Replies
            /\ \A i \in (j + 1)..Len(q) : q[i].cmd # "VAL"
      BY <1>5 DEF Replied
    <2>2. j # 1
      BY <1>1, <2>1 DEF RightReply, Replies
    <2>3. j - 1 \in 1..Len(t) /\ RightReply(f, t[j - 1])
      BY <1>1, <2>1, <2>2
    <2>n. PICK n \in Nat : Len(t) = n
      BY <1>1
    <2>4. ASSUME NEW i \in 1..Len(t), i # j - 1 PROVE t[i].cmd \notin Replies
      <3>1. i + 1 \in 1..Len(q) /\ i + 1 # j
        BY <1>1, <2>n, <2>4
      <3> QED BY <1>1, <2>1, <3>1
    <2>5. ASSUME NEW i \in ((j - 1) + 1)..Len(t) PROVE t[i].cmd # "VAL"
      <3>1. i \in 1..Len(t) /\ i + 1 \in (j + 1)..Len(q)
        BY <1>1, <2>n
      <3> QED BY <1>1, <2>1, <3>1
    <2> QED BY <2>3, <2>4, <2>5 DEF Replied
  <1>6. (\A i \in 1..Len(q) : q[i].cmd # "VAL") => \A i \in 1..Len(t) : t[i].cmd # "VAL"
    BY <1>1
  <1>7. Asked(f, got, cq, q, d) => Asked(f, got, cq, t, d)
    BY <1>2 DEF Asked
  <1>8. Begun(f, got, cq, q, d) => Begun(f, got, cq, t, d)
    BY <1>3, <1>4 DEF Begun
  <1>9. Answered(f, got, cq, q, d) => Answered(f, got, cq, t, d)
    BY <1>4, <1>5, <1>6 DEF Answered
  <1>10. Cut(q, d) => Cut(t, d)
    BY <1>3 DEF Cut
  <1>11. Idle(cq, q, d) => Idle(cq, t, d)
    BY <1>2 DEF Idle
  <1> QED BY <1>7, <1>8, <1>9, <1>10, <1>11 DEF Phase

\* An entry of the listing arrives.
LEMMA TakeEntry ==
    ASSUME NEW f, NEW got \in Seq(Shown), NEW cq, NEW d, NEW q \in Seq(ToClient), q # << >>,
           NEW m, m = Head(q), NEW t, t = Tail(q), m.cmd = "VAL", Phase(f, got, cq, q, d),
           NEW more, f.op \in Listings => more = (IF m.val # Null THEN Append(got, m) ELSE got)
    PROVE  Phase(f, more, cq, t, d)
  <1>1. /\ m = q[1] /\ m \in ToClient /\ t \in Seq(ToClient) /\ Len(q) = Len(t) + 1 /\ Len(t) \in Nat /\ 1 \in 1..Len(q)
        /\ \A i \in 1..Len(t) : i + 1 \in 1..Len(q) /\ i + 1 # 1 /\ t[i] = q[i + 1]
        /\ \A i \in 1..Len(q) : i = 1 \/ (i - 1 \in 1..Len(t) /\ t[i - 1] = q[i])
    BY Behind
  <1>2. ~Still(q)
    BY <1>1 DEF Still
  <1>3. Unanswered(q) => Unanswered(t)
    BY <1>1 DEF Unanswered
  <1>4. ASSUME f.op \in Listings, NEW rest, Shows(f, got, q, rest) PROVE Shows(f, more, t, rest)
    <2>1. \A i \in 1..Len(t) : t[i].cmd = "VAL" /\ t[i].val # Null => <<t[i].key, t[i].val>> \in f.seen
      BY <1>1, <1>4 DEF Shows
    <2>2. ASSUME NEW k, Brings(q, k) PROVE Brings(t, k) \/ (m.key = k /\ m.val # Null)
      <3>1. PICK i \in 1..Len(q) : q[i].cmd = "VAL" /\ q[i].key = k /\ q[i].val # Null
        BY <2>2 DEF Brings
      <3>2. CASE i = 1
        BY <1>1, <3>1, <3>2
      <3>3. CASE i # 1
        BY <1>1, <3>1, <3>3, SMTT(30) DEF Brings
      <3> QED BY <3>2, <3>3
    <2>3. CASE m.val = Null
      <3>1. more = got
        BY <1>4, <2>3
      <3> QED BY <1>4, <2>1, <2>2, <2>3, <3>1 DEF Shows
    <2>4. CASE m.val # Null
      <3>1. more = Append(got, m)
        BY <1>4, <2>4
      <3>2. m \in Shown
        BY <1>1, <2>4 DEF Shown
      <3>3. /\ Len(more) = Len(got) + 1 /\ more[Len(got) + 1] = m /\ Len(got) \in Nat
            /\ \A i \in 1..Len(got) : more[i] = got[i]
        BY <3>1, <3>2, AppendProperties
      <3>4. \A i \in 1..Len(more) : i \in 1..Len(got) \/ i = Len(got) + 1
        BY <3>3
      <3>5. (\A i \in 1..Len(got) : i \in 1..Len(more)) /\ Len(got) + 1 \in 1..Len(more)
        BY <3>3
      <3>6. <<m.key, m.val>> \in f.seen
        BY <1>1, <1>4, <2>4 DEF Shows
      <3>7. Witnessed(f, more)
        BY <1>4, <3>3, <3>4, <3>6 DEF Shows, Witnessed
      <3>8. ASSUME NEW k, Mentions(got, k) \/ m.key = k PROVE Mentions(more, k)
        BY <3>3, <3>5, <3>8 DEF Mentions
      <3> QED BY <1>4, <2>1, <2>2, <3>7, <3>8 DEF Shows
    <2> QED BY <2>3, <2>4
  <1>5. ASSUME Replied(f, q) PROVE Replied(f, t)
    <2>1. PICK j \in 1..Len(q) :
            /\ RightReply(f, q[j])
            /\ \A i \in 1..Len(q) : i # j => q[i].cmd \notin Replies
            /\ \A i \in (j + 1)..Len(q) : q[i].cmd # "VAL"
      BY <1>5 DEF Replied
    <2>2. j # 1
      BY <1>1, <2>1 DEF RightReply, Replies
    <2>3. j - 1 \in 1..Len(t) /\ RightReply(f, t[j - 1])
      BY <1>1, <2>1, <2>2
    <2>n. PICK n \in Nat : Len(t) = n
      BY <1>1
    <2>4. ASSUME NEW i \in 1..Len(t), i # j - 1 PROVE t[i].cmd \notin Replies
      <3>1. i + 1 \in 1..Len(q) /\ i + 1 # j
        BY <1>1, <2>n, <2>4
      <3> QED BY <1>1, <2>1, <3>1
    <2>5. ASSUME NEW i \in ((j - 1) + 1)..Len(t) PROVE t[i].cmd # "VAL"
      <3>1. i \in 1..Len(t) /\ i + 1 \in (j + 1)..Len(q)
        BY <1>1, <2>n
      <3> QED BY <1>1, <2>1, <3>1
    <2> QED BY <2>3, <2>4, <2>5 DEF Replied
  <1>6. ~Asked(f, got, cq, q, d)
    BY <1>2 DEF Asked
  <1>7. Begun(f, got, cq, q, d) => Begun(f, more, cq, t, d)
    BY <1>3, <1>4 DEF Begun
  <1>8. Answered(f, got, cq, q, d) => Answered(f, more, cq, t, d)
    <2>1. Answered(f, got, cq, q, d) => f.op \in Listings
      BY <1>1 DEF Answered
    <2> QED BY <1>4, <1>5, <2>1 DEF Answered
  <1>9. Cut(q, d) => Cut(t, d)
    BY <1>3 DEF Cut
  <1> QED BY <1>6, <1>7, <1>8, <1>9 DEF Phase

\* The answer arrives: it is the right one, and nothing is left behind it.
LEMMA TakeReply ==
    ASSUME NEW f, NEW got, NEW cq, NEW d, NEW q \in Seq(ToClient), q # << >>,
           NEW m, m = Head(q), NEW t, t = Tail(q), m.cmd \in Replies, Phase(f, got, cq, q, d)
    PROVE  /\ Idle(cq, t, d) /\ RightReply(f, m)
           /\ f.op \in Listings => Shows(f, got, << >>, << >>)
  <1>1. /\ m = q[1] /\ t \in Seq(ToClient) /\ Len(q) = Len(t) + 1 /\ Len(t) \in Nat /\ 1 \in 1..Len(q)
        /\ \A i \in 1..Len(t) : i + 1 \in 1..Len(q) /\ i + 1 # 1 /\ t[i] = q[i + 1]
        /\ \A i \in 1..Len(q) : i = 1 \/ (i - 1 \in 1..Len(t) /\ t[i - 1] = q[i])
    BY Behind
  <1>2. ~Still(q) /\ ~Unanswered(q)
    BY <1>1 DEF Still, Unanswered, Replies
  <1>3. Answered(f, got, cq, q, d)
    BY <1>2 DEF Phase, Asked, Begun, Cut
  <1>4. PICK j \in 1..Len(q) :
           /\ RightReply(f, q[j])
           /\ \A i \in 1..Len(q) : i # j => q[i].cmd \notin Replies
           /\ \A i \in (j + 1)..Len(q) : q[i].cmd # "VAL"
    BY <1>3 DEF Answered, Replied
  <1>5. j = 1
    BY <1>1, <1>4
  <1>6. ASSUME NEW i \in 1..Len(t) PROVE t[i].cmd \notin Replies /\ t[i].cmd # "VAL"
    <2>1. i + 1 \in (j + 1)..Len(q) /\ i + 1 # j
      BY <1>1, <1>5
    <2> QED BY <1>1, <1>4, <2>1
  <1>7. Still(t)
    <2>1. ASSUME NEW i \in 1..Len(t) PROVE t[i].cmd \in {"NOTICE", "HELLO"}
      <3>1. t[i] \in ToClient
        BY <1>1
      <3>2. t[i].cmd \in Replies \cup {"VAL", "NOTICE", "HELLO"}
        BY <3>1 DEF ToClient
      <3> QED BY <1>6, <3>2
    <2> QED BY <2>1 DEF Still
  <1>8. ASSUME f.op \in Listings PROVE Shows(f, got, << >>, << >>)
    <2>1. Shows(f, got, q, << >>)
      BY <1>3, <1>8 DEF Answered
    <2>2. \A i \in 1..Len(q) : q[i].cmd # "VAL"
      BY <1>1, <1>6 DEF Replies
    <2>3. \A k : ~Brings(q, k)
      BY <2>2 DEF Brings
    <2> QED BY <2>1, <2>3 DEF Shows
  <1> QED BY <1>1, <1>3, <1>4, <1>5, <1>7, <1>8 DEF Answered, Idle

\* What the answer leaves in the client.
LEMMA ReplyFields ==
    ASSUME NEW g \in Client, NEW m \in ToClient, m.cmd \in Replies, NEW h, h = Received(g, m)
    PROVE  /\ SameBut(g, h) /\ h.stack = g.stack /\ h.hold_nesting = g.hold_nesting
           /\ h.listing = g.listing /\ h.result_list = g.result_list /\ ~h.cmdinprogress
           /\ m.cmd = "ONEVAL" => h.cmdsuccess /\ h.result_key = m.key /\ h.result = m.val
           /\ m.cmd = "FAIL" => ~h.cmdsuccess
  <1>1. m.cmd \in {"OK", "FAIL", "ONEVAL", "CHILD"}
    BY DEF Replies
  <1>2. Null \in AnyKey /\ m.key \in AnyKey /\ m.val \in Answer
    BY DEF AnyKey, ToClient
  <1>3. CASE m.cmd = "OK"
    <2>1. h = [g EXCEPT !.cmdsuccess = TRUE, !.cmdinprogress = FALSE]
      BY <1>3 DEF Received
    <2> QED BY <1>3, <2>1 DEF Client, SameBut
  <1>4. CASE m.cmd = "FAIL"
    <2>1. h = [g EXCEPT !.result_key = Null, !.cmdsuccess = FALSE, !.cmdinprogress = FALSE]
      BY <1>4 DEF Received
    <2> QED BY <1>2, <1>4, <2>1 DEF Client, SameBut
  <1>5. CASE m.cmd \in {"ONEVAL", "CHILD"}
    <2>1. h = [g EXCEPT !.result_key = m.key, !.result = m.val, !.cmdsuccess = TRUE, !.cmdinprogress = FALSE]
      BY <1>5 DEF Received
    <2> QED BY <1>2, <1>5, <2>1 DEF Client, SameBut
  <1> QED BY <1>1, <1>3, <1>4, <1>5

\* Other messages before a notice of k make no difference to what is known of k.
LEMMA FreshDrop ==
    ASSUME NEW g \in Client, NEW q \in Seq(ToClient), q # << >>, NEW m, m = Head(q), NEW t, t = Tail(q),
           NEW d, NEW st, m.cmd # "NOTICE", Fresh(g, q, d, st),
           NEW h, h.stack = g.stack, h.known = g.known, h.refreshed_once = g.refreshed_once, h.ok = g.ok, h.view = g.view, h.deltas = g.deltas
    PROVE  Fresh(h, t, d, st)
  <1>1. ASSUME NEW k \in Keys, Knows(g.view, g.deltas \o q, k, st[k])
        PROVE  Knows(g.view, g.deltas \o t, k, st[k])
    <2>1. g.deltas \in Seq(ToClient)
      BY DeltasAreMessages
    <2>2. ~Tells(m, k)
      BY DEF Tells
    <2> QED BY <1>1, <2>1, <2>2, KnowsDrop
  <1>2. Within(q, g.known) => Within(t, g.known)
    <2>1. \A i \in 1..Len(t) : i + 1 \in 1..Len(q) /\ t[i] = q[i + 1]
      BY Behind
    <2> QED BY <2>1 DEF Within
  <1>3. g.known \subseteq Keys
    BY DEF Client
  <1> QED BY <1>1, <1>2, <1>3 DEF Fresh, Unaware

\* conncallback on OK, FAIL, ONEVAL or CHILD: the reply is the one the waiting call asked for, or a
\* set's.
LEMMA ReplySound ==
    ASSUME NEW g \in Client, NEW cq, NEW d, NEW st, NEW q \in Seq(ToClient), q # << >>,
           NEW m, m = Head(q), NEW t, t = Tail(q), m.cmd \in Replies,
           g.ok, Sound(g, cq, q, d, st), NEW h, h = Received(g, m)
    PROVE  h \in Client /\ Sound(h, cq, t, d, st)
  <1>1. m \in ToClient /\ m = q[1] /\ 1 \in 1..Len(q)
    BY Behind
  <1>2. /\ SameBut(g, h) /\ h.stack = g.stack /\ h.hold_nesting = g.hold_nesting
        /\ h.listing = g.listing /\ h.result_list = g.result_list /\ ~h.cmdinprogress
        /\ m.cmd = "ONEVAL" => h.cmdsuccess /\ h.result_key = m.key /\ h.result = m.val
        /\ m.cmd = "FAIL" => ~h.cmdsuccess
    BY <1>1, ReplyFields
  <1>3. /\ h \in Client /\ h.ok = g.ok /\ h.deltas = g.deltas /\ h.view = g.view
        /\ h.known = g.known /\ h.refreshed_once = g.refreshed_once /\ h.last = g.last
    BY <1>2 DEF SameBut
  <1>4. Shape(h) /\ Seeing(h.stack, st)
    BY <1>2, <1>3 DEF Sound, Shape
  <1>5. LoadRule => Fresh(h, t, d, st)
    <2>1. m.cmd # "NOTICE"
      BY DEF Replies
    <2>2. ASSUME LoadRule PROVE Fresh(h, t, d, st)
      <3>1. Fresh(g, q, d, st)
        BY <2>2 DEF Sound
      <3> QED BY <1>2, <1>3, <2>1, <3>1, FreshDrop
    <2> QED BY <2>2
  <1>6. PICK f : f = g.stack[Len(g.stack)]
    OBVIOUS
  <1>7. ASSUME NoSetv
        PROVE  /\ Calling(g) /\ Idle(cq, t, d) /\ RightReply(f, m)
               /\ f.op \in Listings => Shows(f, g.result_list, << >>, << >>)
    <2>1. Progress(g, cq, q, d)
      BY <1>7 DEF Sound
    <2>2. ~Still(q)
      BY <1>1 DEF Still, Replies
    <2>3. Calling(g)
      BY <2>1, <2>2 DEF Progress, Idle
    <2>4. Phase(f, g.result_list, cq, q, d)
      BY <1>6, <2>1, <2>3 DEF Progress
    <2>5. /\ Idle(cq, t, d) /\ RightReply(f, m)
          /\ f.op \in Listings => Shows(f, g.result_list, << >>, << >>)
      BY <2>4, TakeReply
    <2> QED BY <2>3, <2>5
  <1>8. ~Calling(h)
    BY <1>2 DEF Calling
  <1>9. NoSetv => Progress(h, cq, t, d)
    BY <1>7, <1>8 DEF Progress
  <1>10. ASSUME NoSetv, WatchersDoNotWait PROVE Reported(h)
    <2>1. Reported(g)
      BY <1>10 DEF Sound
    <2>2. g.stack \in Seq(Call) /\ g.stack # << >> /\ f.pc = "wait"
      BY <1>6, <1>7, <1>10 DEF Calling, Client
    <2>3. Len(g.stack) = 1
      <3>1. PICK n \in Nat : Len(g.stack) = n
        BY <2>2
      <3>2. Stacked(g.stack, g.hold_nesting)
        BY DEF Sound, Shape
      <3>3. f.op # "set"
        BY <1>6, <2>2, <3>2, LastElement DEF Stacked
      <3>4. ~(n >= 2)
        BY <1>6, <2>1, <3>1, <3>3 DEF Reported
      <3>5. n # 0
        BY <2>2, <3>1
      <3> QED BY <3>1, <3>4, <3>5
    <2>4. h.stack[1] = f
      BY <1>2, <1>6, <2>3
    <2>5. f.op = "get" => GetRight(h, f)
      <3>1. CASE m.cmd = "ONEVAL" /\ m.key = f.key /\ <<f.key, m.val>> \in f.seen
        BY <1>2, <3>1 DEF GetRight
      <3>2. CASE m.cmd = "FAIL" /\ <<f.key, Null>> \in f.seen
        BY <1>2, <3>2 DEF GetRight
      <3> QED BY <1>7, <1>10, <3>1, <3>2 DEF RightReply
    <2>6. f.op \in Listings => Shows(f, h.result_list, << >>, << >>)
      BY <1>2, <1>7, <1>10
    <2>7. Collected(h)
      BY <2>4, <2>5, <2>6 DEF Collected
    <2> QED BY <1>2, <1>3, <2>1, <2>7 DEF Reported
  <1> QED BY <1>3, <1>4, <1>5, <1>9, <1>10 DEF Sound

\* A client whose members that matter have not changed, but for what is on the way.
LEMMA StaySound ==
    ASSUME NEW g \in Client, NEW cq, NEW d, NEW st, NEW q, NEW t, g.ok, Sound(g, cq, q, d, st),
           NEW h \in Client, h.ok = g.ok, h.aborted = g.aborted, h.last = g.last,
           h.stack = g.stack, h.hold_nesting = g.hold_nesting, h.listing = g.listing,
           h.cmdsuccess = g.cmdsuccess, h.cmdinprogress = g.cmdinprogress,
           h.hold_nesting # 0 \/ h.deltas = g.deltas,
           LoadRule => Fresh(h, t, d, st),
           NoSetv => Progress(h, cq, t, d),
           Calling(g) \/ (h.result_list = g.result_list /\ h.result_key = g.result_key /\ h.result = g.result)
    PROVE  Sound(h, cq, t, d, st)
  <1>2. Shape(h) /\ Seeing(h.stack, st)
    BY DEF Sound, Shape
  <1>3. ASSUME NoSetv, WatchersDoNotWait PROVE Reported(h)
    <2>1. Reported(g)
      BY <1>3 DEF Sound
    <2>2. Calling(g) <=> Calling(h)
      BY DEF Calling
    <2>3. CASE Calling(g)
      <3>1. g.stack \in Seq(Call) /\ g.stack # << >> /\ g.stack[Len(g.stack)].pc = "wait"
        BY <2>3 DEF Calling, Client
      <3>2. Len(g.stack) = 1
        <4>1. PICK n \in Nat : Len(g.stack) = n
          BY <3>1
        <4>2. Stacked(g.stack, g.hold_nesting)
          BY DEF Sound, Shape
        <4>3. g.stack[Len(g.stack)].op # "set"
          BY <3>1, <4>2, LastElement DEF Stacked
        <4>4. ~(n >= 2)
          BY <2>1, <4>1, <4>3 DEF Reported
        <4>5. n # 0
          BY <3>1, <4>1
        <4> QED BY <4>1, <4>4, <4>5
      <3>3. Collected(h)
        BY <2>2, <2>3, <3>2 DEF Collected
      <3> QED BY <2>1, <3>3 DEF Reported
    <2>4. CASE ~Calling(g)
      <3>1. /\ g.stack # << >> /\ g.stack[1].op = "get" /\ g.ok => GetRight(g, g.stack[1])
            /\ g.stack # << >> /\ g.stack[1].op \in Listings /\ g.cmdsuccess =>
                  Shows(g.stack[1], g.result_list, << >>, << >>)
        BY <2>1, <2>4 DEF Reported, Collected
      <3>2. GetRight(g, g.stack[1]) => GetRight(h, g.stack[1])
        BY <2>4 DEF GetRight
      <3>3. Collected(h)
        BY <2>4, <3>1, <3>2 DEF Collected
      <3> QED BY <2>1, <3>3 DEF Reported
    <2> QED BY <2>3, <2>4
  <1> QED BY <1>2, <1>3 DEF Sound

\* A greeting, or an entry, is read.
LEMMA EntrySound ==
    ASSUME NEW g \in Client, NEW cq, NEW d, NEW st, NEW q \in Seq(ToClient), q # << >>,
           NEW m, m = Head(q), NEW t, t = Tail(q), m.cmd \in {"VAL", "HELLO"},
           g.ok, Sound(g, cq, q, d, st), NEW h, h = Received(g, m)
    PROVE  h \in Client /\ Sound(h, cq, t, d, st)
  <1>1. m \in ToClient /\ m = q[1] /\ 1 \in 1..Len(q)
    BY Behind
  <1>2. PICK got : got = IF m.cmd = "VAL" /\ m.val # Null /\ g.listing THEN Append(g.result_list, m) ELSE g.result_list
    OBVIOUS
  <1>3. got \in Seq(Shown) /\ g.result_list \in Seq(Shown)
    <2>1. g.result_list \in Seq(Shown)
      BY DEF Client
    <2>2. ASSUME m.cmd = "VAL", m.val # Null PROVE Append(g.result_list, m) \in Seq(Shown)
      <3>1. m \in Shown
        BY <1>1, <2>2 DEF Shown
      <3> QED BY <2>1, <3>1, AppendProperties
    <2> QED BY <1>2, <2>1, <2>2
  <1>4. PICK n \in Nat : h = [g EXCEPT !.version = n, !.result_list = got]
    <2>1. CASE m.cmd = "HELLO"
      <3>1. h = [g EXCEPT !.version = 19]
        BY <2>1 DEF Received
      <3>2. h = [g EXCEPT !.version = 19, !.result_list = got]
        BY <1>2, <2>1, <3>1 DEF Client
      <3> QED BY <3>2
    <2>2. CASE m.cmd = "VAL"
      <3>1. h = IF m.val # Null /\ g.listing THEN [g EXCEPT !.result_list = Append(@, m)] ELSE g
        BY <2>2 DEF Received
      <3>2. h = [g EXCEPT !.version = g.version, !.result_list = got] /\ g.version \in Nat
        <4>1. CASE m.val # Null /\ g.listing
          BY <1>2, <2>2, <3>1, <4>1 DEF Client
        <4>2. CASE ~(m.val # Null /\ g.listing)
          BY <1>2, <2>2, <3>1, <4>2 DEF Client
        <4> QED BY <4>1, <4>2
      <3> QED BY <3>2
    <2> QED BY <2>1, <2>2
  <1>5. /\ h \in Client /\ h.ok = g.ok /\ h.aborted = g.aborted /\ h.last = g.last
        /\ h.stack = g.stack /\ h.hold_nesting = g.hold_nesting /\ h.listing = g.listing
        /\ h.cmdsuccess = g.cmdsuccess /\ h.cmdinprogress = g.cmdinprogress /\ h.deltas = g.deltas
        /\ h.result_list = got /\ h.result_key = g.result_key /\ h.result = g.result
        /\ h.view = g.view /\ h.known = g.known /\ h.refreshed_once = g.refreshed_once
    BY <1>3, <1>4 DEF Client
  <1>6. ASSUME LoadRule PROVE Fresh(h, t, d, st)
    <2>1. Fresh(g, q, d, st) /\ m.cmd # "NOTICE"
      BY <1>6 DEF Sound
    <2> QED BY <1>5, <2>1, FreshDrop
  <1>7. Calling(g) <=> Calling(h)
    BY <1>5 DEF Calling
  <1>8. ASSUME NoSetv PROVE Progress(h, cq, t, d) /\ (m.cmd = "VAL" => Calling(g))
    <2>0. Progress(g, cq, q, d)
      BY <1>8 DEF Sound
    <2>1. PICK f : f = g.stack[Len(g.stack)]
      OBVIOUS
    <2>2. CASE m.cmd = "VAL"
      <3>1. Calling(g)
        BY <1>1, <2>0, <2>2 DEF Progress, Idle, Still
      <3>2. Phase(f, g.result_list, cq, q, d)
        BY <2>0, <2>1, <3>1 DEF Progress
      <3>3. f.op \in Listings => g.listing
        <4>1. g.stack \in Seq(Call) /\ g.stack # << >>
          BY <3>1 DEF Calling, Client
        <4>2. Lists(g.stack, g.listing) /\ Len(g.stack) \in 1..Len(g.stack)
          BY <4>1, LastElement DEF Sound, Shape
        <4> QED BY <2>1, <4>2 DEF Lists
      <3>4. f.op \in Listings => got = IF m.val # Null THEN Append(g.result_list, m) ELSE g.result_list
        BY <1>2, <2>2, <3>3
      <3>5. Phase(f, got, cq, t, d)
        BY <1>3, <2>2, <3>2, <3>4, TakeEntry
      <3> QED BY <1>5, <1>7, <2>0, <2>1, <3>1, <3>5 DEF Progress
    <2>3. CASE m.cmd = "HELLO"
      <3>1. got = g.result_list
        BY <1>2, <2>3
      <3>2. m.cmd \in {"NOTICE", "HELLO"}
        BY <2>3
      <3>3. /\ Phase(f, got, cq, q, d) => Phase(f, got, cq, t, d)
            /\ Idle(cq, q, d) => Idle(cq, t, d)
        BY <3>2, ShiftPhase
      <3> QED BY <1>5, <1>7, <2>0, <2>1, <2>3, <3>1, <3>3 DEF Progress
    <2> QED BY <2>2, <2>3
  <1>9. Sound(h, cq, t, d, st)
    <2>1. CASE m.cmd = "HELLO"
      <3>1. h.result_list = g.result_list
        BY <1>2, <1>5, <2>1
      <3> QED BY <1>5, <1>6, <1>8, <3>1, StaySound
    <2>2. CASE m.cmd = "VAL" /\ NoSetv
      <3>1. Calling(g)
        BY <1>8, <2>2
      <3> QED BY <1>5, <1>6, <1>8, <3>1, StaySound
    <2>3. CASE ~NoSetv
      <3>1. Shape(h) /\ Seeing(h.stack, st)
        BY <1>5 DEF Sound, Shape
      <3> QED BY <1>6, <2>3, <3>1 DEF Sound
    <2> QED BY <2>1, <2>2, <2>3
  <1> QED BY <1>5, <1>9

\* A notice arrives while notices are held.
LEMMA HeldSound ==
    ASSUME NEW g \in Client, NEW cq, NEW d, NEW st, NEW q \in Seq(ToClient), q # << >>,
           NEW m, m = Head(q), NEW t, t = Tail(q), m.cmd = "NOTICE", g.hold_nesting # 0,
           g.ok, Sound(g, cq, q, d, st), NEW h, h = Received(g, m)
    PROVE  h \in Client /\ Sound(h, cq, t, d, st)
  <1>1. m \in ToClient /\ m = q[1] /\ 1 \in 1..Len(q) /\ t \in Seq(ToClient)
    BY Behind
  <1>2. m \in Notice
    BY <1>1 DEF Notice
  <1>3. PICK w : w = Append(g.deltas, m)
    OBVIOUS
  <1>4. g.deltas \in Seq(Notice) /\ g.deltas \in Seq(ToClient)
    BY DeltasAreMessages
  <1>5. w \in Seq(Notice)
    BY <1>2, <1>3, <1>4, AppendProperties
  <1>6. h = [g EXCEPT !.deltas = w]
    BY <1>3 DEF Received, Delta
  <1>7. /\ h \in Client /\ h.ok = g.ok /\ h.aborted = g.aborted /\ h.last = g.last
        /\ h.stack = g.stack /\ h.hold_nesting = g.hold_nesting /\ h.listing = g.listing
        /\ h.cmdsuccess = g.cmdsuccess /\ h.cmdinprogress = g.cmdinprogress /\ h.deltas = w
        /\ h.result_list = g.result_list /\ h.result_key = g.result_key /\ h.result = g.result
        /\ h.view = g.view /\ h.known = g.known /\ h.refreshed_once = g.refreshed_once
    BY <1>5, <1>6 DEF Client
  <1>8. w \o t = g.deltas \o q
    <2>1. w = g.deltas \o <<m>> /\ <<m>> \in Seq(ToClient)
      BY <1>1, <1>3, <1>4, OneMessage
    <2>2. PICK o \in Seq(ToClient) : o = <<m>>
      BY <2>1
    <2>3. o \o t = q
      <3>1. q = <<Head(q)>> \o Tail(q)
        <4>1. Append(<< >>, Head(q)) = <<Head(q)>>
          OBVIOUS
        <4> QED OBVIOUS
      <3> QED BY <2>2, <3>1
    <2>4. g.deltas \o (o \o t) = (g.deltas \o o) \o t
      BY <1>1, <1>4, <2>2, JoinTwice, SMTT(30)
    <2> QED BY <2>1, <2>2, <2>3, <2>4
  <1>9. ASSUME LoadRule PROVE Fresh(h, t, d, st)
    <2>1. Fresh(g, q, d, st)
      BY <1>9 DEF Sound
    <2>2. Within(g.deltas, g.known) /\ Within(q, g.known) => Within(w, g.known) /\ Within(t, g.known)
      <3>1. \A i \in 1..Len(w) : (i \in 1..Len(g.deltas) /\ w[i] = g.deltas[i]) \/ w[i] = m
        <4>1. Len(g.deltas) \in Nat /\ Len(w) = Len(g.deltas) + 1 /\ w[Len(g.deltas) + 1] = m
          BY <1>2, <1>3, <1>4, AppendProperties
        <4>2. \A i \in 1..Len(g.deltas) : w[i] = g.deltas[i]
          BY <1>2, <1>3, <1>4, AppendProperties
        <4> QED BY <4>1, <4>2
      <3>2. \A i \in 1..Len(t) : i + 1 \in 1..Len(q) /\ t[i] = q[i + 1]
        BY Behind
      <3> QED BY <1>1, <3>1, <3>2 DEF Within
    <2> QED BY <1>7, <1>8, <2>1, <2>2 DEF Fresh, Unaware
  <1>10. ASSUME NoSetv PROVE Progress(h, cq, t, d)
    <2>0. Progress(g, cq, q, d)
      BY <1>10 DEF Sound
    <2>1. PICK f, got : f = g.stack[Len(g.stack)] /\ got = g.result_list
      OBVIOUS
    <2>2. Calling(g) <=> Calling(h)
      BY <1>7 DEF Calling
    <2>3. m.cmd \in {"NOTICE", "HELLO"}
      OBVIOUS
    <2>4. /\ Phase(f, got, cq, q, d) => Phase(f, got, cq, t, d)
          /\ Idle(cq, q, d) => Idle(cq, t, d)
      BY <2>3, ShiftPhase
    <2> QED BY <1>7, <2>0, <2>1, <2>2, <2>4 DEF Progress
  <1>11. Sound(h, cq, t, d, st)
    BY <1>7, <1>9, <1>10, StaySound
  <1> QED BY <1>7, <1>11

\* A notice arrives in the main loop, and the watcher's callback begins.
LEMMA NoticeSound ==
    ASSUME UniConfInv, NEW g \in Client, NEW cq, NEW d, NEW q \in Seq(ToClient), q # << >>,
           NEW m, m = Head(q), NEW t, t = Tail(q), m.cmd = "NOTICE", g.hold_nesting = 0,
           g.stack # << >> => g.stack[Len(g.stack)].pc # "callback",
           g.ok, Sound(g, cq, q, d, store), NEW h, h = Received(g, m)
    PROVE  h \in Client /\ Sound(h, cq, t, d, store)
  <1>1. m \in ToClient /\ m = q[1] /\ 1 \in 1..Len(q) /\ t \in Seq(ToClient)
    BY Behind
  <1>2. m.key \in Keys /\ m.val \in Optional
    BY <1>1 DEF ToClient
  <1>3. g.stack \in Seq(Call) /\ g.listing \in BOOLEAN /\ g.view \in [Keys -> Optional]
    BY DEF Client
  <1>4. /\ Stacked(g.stack, g.hold_nesting) /\ Lists(g.stack, g.listing) /\ Seeing(g.stack, store)
        /\ g.deltas = << >>
    BY DEF Sound, Shape
  <1>5. g.stack = << >>
    <2>1. PICK n \in Nat : Len(g.stack) = n
      BY <1>3
    <2>2. ASSUME n # 0 PROVE FALSE
      <3>1. 0 = n - (IF n > 0 /\ g.stack[1].op = "notice" THEN 1 ELSE 0)
        BY <1>4, <2>1 DEF Stacked
      <3>2. n = 1 /\ g.stack[1].op = "notice"
        BY <2>2, <3>1
      <3>3. g.stack[1].pc = "callback"
        BY <1>4, <2>1, <3>2 DEF Stacked
      <3>4. g.stack # << >>
        BY <2>1, <3>2
      <3> QED BY <2>1, <3>2, <3>3, <3>4
    <2>3. Len(g.stack) = 0
      BY <2>1, <2>2
    <2> QED BY <1>3, <2>3, EmptySeq
  <1>6. PICK f : f = Frame("notice", Null, "callback", << >>)
    OBVIOUS
  <1>7. f \in Call /\ f.op = "notice" /\ f.pc = "callback" /\ \A x \in Keys : <<x, store[x]>> \in f.seen
    <2>0. << >> \in Seq(KeyValue)
      OBVIOUS
    <2>1. PICK op \in CallNames, k \in AnyKey, pc \in {"wait", "drain", "flush", "callback"}, todo \in Seq(KeyValue) :
            op = "notice" /\ k = Null /\ pc = "callback" /\ todo = << >>
      BY <2>0 DEF CallNames, AnyKey
    <2>2. f = Frame(op, k, pc, todo)
      BY <1>6, <2>1
    <2>3. /\ f \in Call /\ f.op = op /\ f.key = k /\ f.pc = pc /\ f.todo = todo
          /\ \A x \in Keys : <<x, store[x]>> \in f.seen
      BY <2>2, FrameFacts
    <2> QED BY <2>1, <2>3
  <1>8. PICK w \in [Keys -> Optional] : w = [g.view EXCEPT ![m.key] = m.val]
    BY <1>2, <1>3
  <1>9. PICK p : p = Append(g.stack, f)
    OBVIOUS
  <1>10. /\ p \in Seq(Call) /\ Len(p) = 1 /\ p # << >> /\ p[1] = f
    <2>1. /\ p \in Seq(Call) /\ Len(p) = Len(g.stack) + 1 /\ p # << >> /\ p[Len(p)] = f
      BY <1>3, <1>7, <1>9, PushFacts
    <2> QED BY <1>5, <2>1
  <1>11. h = [g EXCEPT !.view = w, !.stack = p]
    <2>1. h = Push(Dispatch(g, m), f)
      BY <1>6 DEF Received, Delta
    <2>2. Dispatch(g, m) = [g EXCEPT !.view = w]
      BY <1>8 DEF Dispatch
    <2> QED BY <1>9, <2>1, <2>2 DEF Push, Client
  <1>12. /\ h \in Client /\ h.ok = g.ok /\ h.last = g.last /\ h.stack = p /\ h.hold_nesting = 0
         /\ h.listing = g.listing /\ h.deltas = << >> /\ h.view = w /\ h.known = g.known /\ h.refreshed_once = g.refreshed_once
    BY <1>4, <1>8, <1>10, <1>11 DEF Client
  <1>13. Stacked(p, 0)
    <2>1. \A i \in 1..Len(p) : i = 1
      BY <1>10
    <2>2. 0 = Len(p) - (IF Len(p) > 0 /\ p[1].op = "notice" THEN 1 ELSE 0)
      BY <1>7, <1>10
    <2> QED BY <1>7, <1>10, <2>1, <2>2 DEF Stacked
  <1>14. Lists(p, h.listing)
    <2>1. f.op \notin Listings
      BY <1>7 DEF Listings
    <2>2. Lists(p, g.listing)
      BY <1>3, <1>4, <1>7, <1>9, <2>1, PushLists
    <2> QED BY <1>12, <2>2
  <1>15. Shape(h)
    BY <1>12, <1>13, <1>14 DEF Shape
  <1>16. Seeing(h.stack, store)
    BY <1>3, <1>4, <1>7, <1>9, <1>12, PushSeeing
  <1>17. ASSUME LoadRule PROVE Fresh(h, t, d, store)
    <2>1. Fresh(g, q, d, store)
      BY <1>17 DEF Sound
    <2>2. ASSUME NEW k \in Keys, Knows(g.view, q, k, store[k]) PROVE Knows(w, t, k, store[k])
      <3>1. (m.key = k => w[k] = m.val) /\ (m.key # k => w[k] = g.view[k])
        BY <1>2, <1>3, <1>8
      <3> QED BY <2>2, <3>1, KnowsApply
    <2>3. g.deltas \o q = q /\ h.deltas \o t = t
      BY <1>1, <1>4, <1>12, ConcatEmptySeq
    <2>4. Loading(p, h.refreshed_once)
      BY <1>7, <1>10 DEF Loading, Loads
    <2>5. Unaware(h, t)
      <3>1. \A i \in 1..Len(t) : i + 1 \in 1..Len(q) /\ t[i] = q[i + 1]
        BY Behind
      <3>2. Within(q, g.known) => Within(t, g.known) /\ m.key \in g.known
        BY <1>1, <3>1 DEF Within
      <3>3. Within(<< >>, g.known)
        BY DEF Within
      <3>4. \A k \in Keys : m.key # k => w[k] = g.view[k]
        BY <1>2, <1>3, <1>8
      <3>5. Unaware(g, q)
        BY <2>1 DEF Fresh
      <3> QED BY <1>12, <3>2, <3>3, <3>4, <3>5 DEF Unaware
    <2>6. g.known \subseteq Keys
      BY DEF Client
    <2> QED BY <1>12, <2>1, <2>2, <2>3, <2>4, <2>5, <2>6 DEF Fresh
  <1>18. ASSUME NoSetv PROVE Progress(h, cq, t, d)
    <2>1. ~Calling(g) /\ ~Calling(h)
      BY <1>5, <1>7, <1>10, <1>12 DEF Calling
    <2>2. Idle(cq, q, d)
      BY <1>18, <2>1 DEF Sound, Progress
    <2>3. m.cmd \in {"NOTICE", "HELLO"}
      OBVIOUS
    <2>4. Idle(cq, t, d)
      BY <2>2, <2>3, ShiftPhase
    <2> QED BY <2>1, <2>4 DEF Progress
  <1>19. ASSUME NoSetv, WatchersDoNotWait PROVE Reported(h)
    <2>1. Reported(g)
      BY <1>19 DEF Sound
    <2>2. Collected(h)
      BY <1>7, <1>10, <1>12 DEF Collected, Listings
    <2>3. \A i \in 2..Len(p) : p[i].op = "set"
      BY <1>10
    <2> QED BY <1>12, <2>1, <2>2, <2>3 DEF Reported
  <1> QED BY <1>12, <1>15, <1>16, <1>17, <1>18, <1>19 DEF Sound

\* UniClientGen::conncallback, whatever message it reads.
LEMMA ConncallbackStep ==
    ASSUME UniConfInv, NEW c \in Clients, conncallback(c)
    PROVE  UniConfInv'
  <1>1. /\ cl[c] \in Client /\ c2s[c] \in Seq(ToDaemon) /\ s2c[c] \in Seq(ToClient) /\ dconn[c] \in Server
        /\ Sound(cl[c], c2s[c], s2c[c], dconn[c], store) /\ budget \in Nat
    BY ClientFacts
  <1>2. PICK g \in Client, cq \in Seq(ToDaemon), q \in Seq(ToClient), d \in Server :
          g = cl[c] /\ cq = c2s[c] /\ q = s2c[c] /\ d = dconn[c]
    BY <1>1
  <1>3. PICK m, t, h : m = Head(q) /\ t = Tail(q) /\ h = Received(g, m)
    OBVIOUS
  <1>4. /\ g.ok /\ q # << >> /\ (g.stack # << >> => g.stack[Len(g.stack)].pc # "callback")
        /\ Sound(g, cq, q, d, store)
    BY <1>1, <1>2 DEF conncallback, Waiting, AtTop, Top
  <1>5. /\ cl' = [cl EXCEPT ![c] = h] /\ s2c' = [s2c EXCEPT ![c] = t]
        /\ dconn' = dconn /\ store' = store /\ niceness' = niceness /\ budget' \in Nat
    BY <1>1, <1>2, <1>3 DEF conncallback
  <1>6. c2s' = [c2s EXCEPT ![c] = c2s[c]]
    BY SameElement DEF conncallback, UniConfInv, Types
  <1>7. m \in ToClient /\ t \in Seq(ToClient)
    BY <1>3, <1>4, Behind
  <1>8. h \in Client /\ Sound(h, cq, t, d, store)
    <2>1. CASE m.cmd \in Replies
      BY <1>3, <1>4, <2>1, ReplySound
    <2>2. CASE m.cmd \in {"VAL", "HELLO"}
      BY <1>3, <1>4, <2>2, EntrySound
    <2>3. CASE m.cmd = "NOTICE" /\ g.hold_nesting # 0
      BY <1>3, <1>4, <2>3, HeldSound
    <2>4. CASE m.cmd = "NOTICE" /\ g.hold_nesting = 0
      BY <1>3, <1>4, <2>4, NoticeSound
    <2>5. m.cmd \in Replies \cup {"VAL", "NOTICE", "HELLO"}
      BY <1>7 DEF ToClient
    <2> QED BY <2>1, <2>2, <2>3, <2>4, <2>5
  <1>9. Sound(h, c2s[c], t, dconn[c], store)
    BY <1>2, <1>8
  <1> QED BY <1>1, <1>5, <1>6, <1>7, <1>8, <1>9, ClientStep

-----------------------------------------------------------------------------
(* A call goes on.                                                         *)

\* The innermost call of s is replaced by e in p.
Replaced(s, e, p) ==
    /\ p \in Seq(Call) /\ Len(p) = Len(s) /\ Len(s) \in Nat \ {0} /\ p # << >> /\ p[Len(p)] = e
    /\ \A i \in 1..Len(s) : i # Len(s) => p[i] = s[i]

\* Replacing the top call replaces nothing else.
LEMMA TopFacts ==
    ASSUME NEW s \in Seq(Call), s # << >>, NEW e \in Call, NEW p, p = [s EXCEPT ![Len(s)] = e]
    PROVE  Replaced(s, e, p) /\ p \in Seq(Call)
  <1>1. PICK n \in Nat : Len(s) = n
    OBVIOUS
  <1>2. n # 0
    BY <1>1
  <1>3. /\ p \in Seq(Call) /\ Len(p) = Len(s) /\ p[Len(s)] = e
        /\ \A i \in 1..Len(s) : i # Len(s) => p[i] = s[i]
    BY <1>1, <1>2, ExceptSeq
  <1> QED BY <1>1, <1>2, <1>3 DEF Replaced

\* h will know what g would have.
WillKnowToo(g, h, sq, st) ==
    /\ \A k \in Keys : Knows(g.view, g.deltas \o sq, k, st[k]) => Knows(h.view, h.deltas \o sq, k, st[k])
    /\ Unaware(g, sq) => Unaware(h, sq)

\* The fields that a step of the innermost call leaves alone.
SameStand(g, h) ==
    /\ h.ok = g.ok /\ h.last = g.last /\ h.hold_nesting = g.hold_nesting /\ h.listing = g.listing
    /\ h.known = g.known /\ h.refreshed_once = g.refreshed_once /\ h.result_list = g.result_list /\ h.cmdsuccess = g.cmdsuccess
    /\ h.result_key = g.result_key /\ h.result = g.result

\* The innermost call of g has gone on, in h.
Moved(g, h, sq, st) ==
    /\ h \in Client /\ SameStand(g, h) /\ WillKnowToo(g, h, sq, st) /\ (h.hold_nesting # 0 \/ h.deltas = g.deltas)
    /\ \E e \in Call :
          /\ Replaced(g.stack, e, h.stack)
          /\ e.op = g.stack[Len(g.stack)].op /\ e.key = g.stack[Len(g.stack)].key
          /\ e.seen = g.stack[Len(g.stack)].seen
          /\ e.pc # "wait" /\ (e.op = "notice" => e.pc = "callback")

\* Its position has changed, and whom it belongs to has not.
LEMMA ReplaceSound ==
    ASSUME NEW g \in Client, NEW cq, NEW sq, NEW d, NEW st, Sound(g, cq, sq, d, st),
           g.stack # << >>, ~Calling(g),
           NEW h, Moved(g, h, sq, st),
           NEW cp, NoSetv /\ Silent(cq) => Silent(cp)
    PROVE  Sound(h, cp, sq, d, st)
  <1> DEFINE f == g.stack[Len(g.stack)]
             p == h.stack
  <1>a. h \in Client /\ SameStand(g, h) /\ WillKnowToo(g, h, sq, st) /\ (h.hold_nesting # 0 \/ h.deltas = g.deltas)
    BY DEF Moved
  <1>e. PICK e \in Call :
          /\ Replaced(g.stack, e, p)
          /\ e.op = f.op /\ e.key = f.key /\ e.seen = f.seen
          /\ e.pc # "wait" /\ (e.op = "notice" => e.pc = "callback")
    BY DEF Moved
  <1>1. PICK s \in Seq(Call) : s = g.stack
    BY DEF Client
  <1>2. /\ h.ok = g.ok /\ h.last = g.last /\ h.hold_nesting = g.hold_nesting /\ h.listing = g.listing
        /\ h.known = g.known /\ h.refreshed_once = g.refreshed_once /\ h.result_list = g.result_list /\ h.cmdsuccess = g.cmdsuccess
        /\ h.result_key = g.result_key /\ h.result = g.result
    BY <1>a DEF SameStand
  <1>3. /\ p \in Seq(Call) /\ Len(p) = Len(s) /\ Len(s) \in Nat \ {0} /\ p # << >> /\ p[Len(p)] = e
        /\ \A i \in 1..Len(s) : i # Len(s) => p[i] = s[i]
    BY <1>1, <1>e DEF Replaced
  <1>4. s # << >> /\ f = s[Len(s)]
    BY <1>1
  <1>5. /\ Stacked(s, g.hold_nesting) /\ Lists(s, g.listing) /\ Seeing(s, st)
        /\ g.hold_nesting = 0 => g.deltas = << >>
    BY <1>1 DEF Sound, Shape
  <1>6. \A i \in 1..Len(s) : p[i].op = s[i].op /\ p[i].key = s[i].key /\ p[i].seen = s[i].seen
    BY <1>3, <1>4, <1>e
  <1>7. Stacked(p, h.hold_nesting)
    <2>n. PICK n \in Nat \ {0} : Len(s) = n
      BY <1>3
    <2>1. \A i \in 1..Len(p) : i < Len(p) \/ p[i].op = "notice" => p[i].pc = "callback"
      <3>1. ASSUME NEW i \in 1..Len(p), i < Len(p) \/ p[i].op = "notice" PROVE p[i].pc = "callback"
        <4>1. CASE i = Len(p)
          BY <1>3, <1>e, <2>n, <3>1, <4>1
        <4>2. CASE i # Len(p)
          <5>1. p[i] = s[i] /\ i < Len(s) /\ i \in 1..Len(s)
            BY <1>3, <2>n, <4>2
          <5> QED BY <1>5, <5>1 DEF Stacked
        <4> QED BY <4>1, <4>2
      <3> QED BY <3>1
    <2>2. \A i \in 1..Len(p) : p[i].op = "notice" => i = 1
      BY <1>3, <1>5, <1>6 DEF Stacked
    <2>3. \A i \in 1..Len(p) : p[i].op = "set" => p[i].pc # "wait"
      BY <1>3, <1>5, <1>e DEF Stacked
    <2>4. h.hold_nesting = Len(p) - (IF Len(p) > 0 /\ p[1].op = "notice" THEN 1 ELSE 0)
      <3>1. p[1].op = s[1].op
        BY <1>3, <1>6, <2>n
      <3> QED BY <1>2, <1>3, <1>5, <3>1 DEF Stacked
    <2> QED BY <2>1, <2>2, <2>3, <2>4 DEF Stacked
  <1>8. Lists(p, h.listing)
    BY <1>2, <1>3, <1>5, <1>6 DEF Lists
  <1>9. Shape(h)
    BY <1>a, <1>2, <1>5, <1>7, <1>8 DEF Shape
  <1>10. Seeing(h.stack, st)
    BY <1>3, <1>5, <1>6 DEF Seeing
  <1>11. ASSUME LoadRule PROVE Fresh(h, sq, d, st)
    <2>1. Fresh(g, sq, d, st)
      BY <1>11 DEF Sound
    <2>2. Loading(p, g.refreshed_once)
      BY <1>1, <1>3, <1>6, <2>1 DEF Fresh, Loading
    <2>3. g.known \subseteq Keys
      BY DEF Client
    <2> QED BY <1>a, <1>2, <2>1, <2>2, <2>3 DEF Fresh, WillKnowToo
  <1>12. ~Calling(h)
    BY <1>3, <1>e DEF Calling
  <1>13. ASSUME NoSetv PROVE Progress(h, cp, sq, d)
    <2>1. g.ok => Idle(cq, sq, d)
      BY <1>13 DEF Sound, Progress
    <2>2. h.ok => Idle(cp, sq, d)
      BY <1>2, <1>13, <2>1 DEF Idle
    <2> QED BY <1>12, <2>2 DEF Progress
  <1>14. ASSUME NoSetv, WatchersDoNotWait PROVE Reported(h)
    <2>1. Reported(g)
      BY <1>14 DEF Sound
    <2>2. \A i \in 2..Len(p) : p[i].op = "set"
      <3>1. ASSUME NEW i \in 2..Len(p) PROVE p[i].op = "set"
        <4>1. i \in 1..Len(s) /\ i \in 2..Len(s)
          BY <1>3
        <4> QED BY <1>1, <1>6, <2>1, <4>1 DEF Reported
      <3> QED BY <3>1
    <2>3. /\ s[1].op = "get" /\ g.ok => GetRight(g, s[1])
          /\ s[1].op \in Listings /\ g.cmdsuccess => Shows(s[1], g.result_list, << >>, << >>)
      BY <1>1, <1>4, <2>1 DEF Reported, Collected
    <2>4. p[1].op = s[1].op /\ p[1].key = s[1].key /\ p[1].seen = s[1].seen
      BY <1>3, <1>6
    <2>5. GetRight(g, s[1]) => GetRight(h, p[1])
      BY <1>2, <2>4 DEF GetRight
    <2>6. Shows(s[1], g.result_list, << >>, << >>) => Shows(p[1], h.result_list, << >>, << >>)
      BY <1>2, <2>4 DEF Shows, Witnessed
    <2>7. Collected(h)
      BY <1>2, <2>3, <2>4, <2>5, <2>6 DEF Collected
    <2> QED BY <1>2, <2>1, <2>2, <2>7 DEF Reported
  <1> QED BY <1>9, <1>10, <1>11, <1>13, <1>14 DEF Sound

\* The innermost call moves on to pc.
LEMMA SetTopFields ==
    ASSUME NEW g \in Client, g.stack # << >>, NEW pc \in {"flush", "callback"}, NEW h, h = SetTop(g, pc),
           NEW f, f = g.stack[Len(g.stack)], NEW e, e = [f EXCEPT !.pc = pc]
    PROVE  /\ e \in Call /\ e.op = f.op /\ e.key = f.key /\ e.seen = f.seen /\ e.pc = pc
           /\ \E p : Replaced(g.stack, e, p) /\ h = [g EXCEPT !.stack = p]
           /\ h \in Client
  <1>1. g.stack \in Seq(Call)
    BY DEF Client
  <1>2. f \in Call
    BY <1>1, LastElement
  <1>3. e \in Call /\ e.op = f.op /\ e.key = f.key /\ e.seen = f.seen /\ e.pc = pc
    BY <1>2 DEF Call
  <1>4. PICK p : p = [g.stack EXCEPT ![Len(g.stack)] = e]
    OBVIOUS
  <1>5. p \in Seq(Call) /\ Replaced(g.stack, e, p)
    BY <1>1, <1>3, <1>4, TopFacts
  <1>6. h = [g EXCEPT !.stack = p]
    BY <1>4 DEF SetTop
  <1>7. h \in Client
    BY <1>5, <1>6 DEF Client
  <1> QED BY <1>3, <1>5, <1>6, <1>7

\* Perhaps after b has told the watcher what g knew, the innermost call moves on.
LEMMA MoveOnSound ==
    ASSUME NEW g \in Client, NEW cq \in Seq(ToDaemon), NEW sq, NEW d, NEW st, Sound(g, cq, sq, d, st),
           g.stack # << >>, ~Calling(g), NEW pc \in {"flush", "callback"},
           g.stack[Len(g.stack)].op = "notice" => pc = "callback",
           NEW b \in Client, b.stack = g.stack, SameStand(g, b), g.hold_nesting # 0 \/ b.deltas = g.deltas,
           WillKnowToo(g, b, sq, st), NEW h, h = SetTop(b, pc)
    PROVE  h \in Client /\ Sound(h, cq, sq, d, st)
  <1>1. PICK f, e : f = b.stack[Len(b.stack)] /\ e = [f EXCEPT !.pc = pc]
    OBVIOUS
  <1>2. /\ e \in Call /\ e.op = f.op /\ e.key = f.key /\ e.seen = f.seen /\ e.pc = pc
        /\ \E p : Replaced(b.stack, e, p) /\ h = [b EXCEPT !.stack = p]
        /\ h \in Client
    BY <1>1, SetTopFields
  <1>3. PICK p : Replaced(b.stack, e, p) /\ h = [b EXCEPT !.stack = p]
    BY <1>2
  <1>4. SameStand(b, h) /\ h.stack = p /\ h.deltas = b.deltas /\ h.view = b.view
    BY <1>3 DEF Client, SameStand
  <1>5. SameStand(g, h)
    BY <1>4 DEF SameStand
  <1>6. h.hold_nesting # 0 \/ h.deltas = g.deltas
    BY <1>4, <1>5 DEF SameStand
  <1>7. WillKnowToo(g, h, sq, st)
    BY <1>4 DEF WillKnowToo, Unaware, SameStand
  <1>8. Replaced(g.stack, e, h.stack) /\ f = g.stack[Len(g.stack)]
    BY <1>1, <1>3, <1>4
  <1>9. e.pc # "wait" /\ (e.op = "notice" => e.pc = "callback")
    BY <1>2, <1>8
  <1>10. Moved(g, h, sq, st)
    BY <1>2, <1>5, <1>6, <1>7, <1>8, <1>9 DEF Moved
  <1>11. Sound(h, cq, sq, d, st)
    <2>1. PICK cp \in Seq(ToDaemon) : cp = cq
      OBVIOUS
    <2>2. NoSetv /\ Silent(cq) => Silent(cp)
      BY <2>1
    <2>3. Sound(h, cp, sq, d, st)
      BY <1>10, <2>2, ReplaceSound
    <2> QED BY <2>1, <2>3
  <1> QED BY <1>2, <1>11

\* A call that has drained its connection goes on to deliver the held notices.
LEMMA DrainDoneStep ==
    ASSUME UniConfInv, NEW c \in Clients, drain_done(c)
    PROVE  UniConfInv'
  <1>1. /\ cl[c] \in Client /\ c2s[c] \in Seq(ToDaemon) /\ s2c[c] \in Seq(ToClient) /\ dconn[c] \in Server
        /\ Sound(cl[c], c2s[c], s2c[c], dconn[c], store) /\ budget \in Nat
    BY ClientFacts
  <1>2. PICK g \in Client, cq \in Seq(ToDaemon), sq \in Seq(ToClient), d \in Server :
          g = cl[c] /\ cq = c2s[c] /\ sq = s2c[c] /\ d = dconn[c]
    BY <1>1
  <1>3. PICK f : f = g.stack[Len(g.stack)]
    OBVIOUS
  <1>4. g.stack # << >> /\ f.pc = "drain" /\ ~Calling(g) /\ Sound(g, cq, sq, d, store)
    BY <1>1, <1>2, <1>3 DEF drain_done, AtTop, Top, Calling
  <1>5. g.stack \in Seq(Call) /\ f \in Call /\ f.op # "notice"
    <2>1. g.stack \in Seq(Call)
      BY DEF Client
    <2>2. Len(g.stack) \in 1..Len(g.stack) /\ f \in Call
      BY <1>3, <1>4, <2>1, LastElement
    <2>3. Stacked(g.stack, g.hold_nesting)
      BY <1>4 DEF Sound, Shape
    <2> QED BY <1>3, <1>4, <2>1, <2>2, <2>3 DEF Stacked
  <1>6. /\ s2c' = [s2c EXCEPT ![c] = s2c[c]]
        /\ dconn' = dconn /\ store' = store /\ niceness' = niceness /\ budget' \in Nat
    BY <1>1, SameElement DEF drain_done, UniConfInv, Types
  <1>7. CASE f.todo = << >>
    <2>1. PICK pc \in {"flush", "callback"} : pc = "flush"
      OBVIOUS
    <2>2. PICK h : h = SetTop(g, pc)
      OBVIOUS
    <2>3. cl' = [cl EXCEPT ![c] = h] /\ c2s' = c2s
      BY <1>2, <1>3, <1>7, <2>1, <2>2 DEF drain_done, Top
    <2>4. SameStand(g, g) /\ WillKnowToo(g, g, sq, store)
      BY DEF SameStand, WillKnowToo
    <2>5. h \in Client /\ Sound(h, cq, sq, d, store)
      BY <1>3, <1>4, <1>5, <2>2, <2>4, MoveOnSound
    <2>6. c2s' = [c2s EXCEPT ![c] = c2s[c]]
      BY <2>3, SameElement DEF UniConfInv, Types
    <2>7. Sound(h, c2s[c], s2c[c], dconn[c], store)
      BY <1>2, <2>5
    <2> QED BY <1>1, <1>6, <2>3, <2>5, <2>6, <2>7, ClientStep
  <1>8. CASE f.todo # << >>
    <2>1. PICK e : e = [f EXCEPT !.todo = Tail(f.todo)]
      OBVIOUS
    <2>2. f.todo \in Seq(KeyValue)
      BY <1>5 DEF Call
    <2>3. Head(f.todo) \in KeyValue /\ Tail(f.todo) \in Seq(KeyValue)
      BY <1>8, <2>2, FirstElement
    <2>4. e \in Call /\ e.op = f.op /\ e.key = f.key /\ e.seen = f.seen /\ e.pc = "drain"
      BY <1>4, <1>5, <2>1, <2>3 DEF Call
    <2>5. PICK p : p = [g.stack EXCEPT ![Len(g.stack)] = e]
      OBVIOUS
    <2>6. p \in Seq(Call) /\ Replaced(g.stack, e, p)
      BY <1>4, <1>5, <2>4, <2>5, TopFacts
    <2>7. PICK h : h = [g EXCEPT !.stack = p]
      OBVIOUS
    <2>8. h \in Client
      BY <2>6, <2>7 DEF Client
    <2>9. SameStand(g, h) /\ h.stack = p /\ h.deltas = g.deltas /\ h.view = g.view
      BY <2>7 DEF Client, SameStand
    <2>10. cl' = [cl EXCEPT ![c] = h]
      <3>1. cl' = [cl EXCEPT ![c].stack[Len(cl[c].stack)].todo = Tail(@)]
        BY <1>2, <1>3, <1>8 DEF drain_done, Top
      <3> QED BY <1>2, <1>3, <2>1, <2>5, <2>7, <3>1
    <2>11. PICK m : m = Msg("set", Head(f.todo).key, Head(f.todo).val)
      OBVIOUS
    <2>12. m \in ToDaemon /\ m.cmd \notin Asks
      BY <2>3, <2>11 DEF Msg, ToDaemon, Commands, KeyValue, Optional, AnyKey, Asks
    <2>13. PICK w : w = <<m>>
      OBVIOUS
    <2>14. Writes(c, w)
      BY <1>2, <1>3, <1>8, <2>11, <2>13 DEF drain_done, Top
    <2>15. PICK cp : cp = IF cl[c].ok THEN c2s[c] \o <<m>> ELSE c2s[c]
      OBVIOUS
    <2>16. c2s' = [c2s EXCEPT ![c] = cp]
      BY <2>13, <2>14, <2>15, WritesFacts
    <2>17. cp \in Seq(ToDaemon) /\ (Silent(cq) => Silent(cp))
      <3>1. CASE cl[c].ok
        <4>1. cp = cq \o <<m>>
          BY <1>2, <2>15, <3>1
        <4>2. cp \in Seq(ToDaemon) /\ \A i \in 1..Len(cq) : cp[i] = cq[i]
          BY <2>12, <4>1, JoinCommand
        <4>3. \A i \in 1..Len(cp) : i \in 1..Len(cq) \/ cp[i] = m
          BY <2>12, <4>1, JoinCommand
        <4> QED BY <2>12, <4>2, <4>3 DEF Silent
      <3>2. CASE ~cl[c].ok
        BY <1>2, <2>15, <3>2
      <3> QED BY <3>1, <3>2
    <2>18. Sound(h, cp, sq, d, store)
      <3>1. e.pc # "wait" /\ e.op # "notice"
        BY <1>5, <2>4
      <3>2. WillKnowToo(g, h, sq, store)
        BY <2>9 DEF WillKnowToo, Unaware, SameStand
      <3>3. Replaced(g.stack, e, h.stack) /\ (h.hold_nesting # 0 \/ h.deltas = g.deltas)
        BY <2>6, <2>9
      <3>4. Moved(g, h, sq, store)
        BY <1>3, <2>4, <2>8, <2>9, <3>1, <3>2, <3>3 DEF Moved
      <3> QED BY <1>4, <2>17, <3>4, ReplaceSound
    <2>19. Sound(h, cp, s2c[c], dconn[c], store)
      BY <1>2, <2>18
    <2> QED BY <1>1, <1>6, <2>8, <2>10, <2>16, <2>17, <2>19, ClientStep
  <1> QED BY <1>7, <1>8

\* The first message of two queues in a row.
LEMMA FirstOfJoin ==
    ASSUME NEW a \in Seq(ToClient), a # << >>, NEW b \in Seq(ToClient), NEW q, q = a \o b
    PROVE  q \in Seq(ToClient) /\ q # << >> /\ Head(q) = Head(a) /\ Tail(q) = Tail(a) \o b
  <1>1. PICK t, u : t = Tail(a) /\ u = Tail(q)
    OBVIOUS
  <1>2. /\ Len(a) \in Nat /\ 1 \in 1..Len(a) /\ Head(a) = a[1] /\ t \in Seq(ToClient) /\ Len(t) = Len(a) - 1
        /\ \A i \in 1..Len(t) : t[i] = a[i + 1] /\ i + 1 \in 1..Len(a)
    BY <1>1, FirstElement
  <1>3. /\ q \in Seq(ToClient) /\ Len(b) \in Nat /\ Len(q) = Len(a) + Len(b)
        /\ \A i \in 1..Len(a) : i \in 1..Len(q) /\ q[i] = a[i]
        /\ \A i \in 1..Len(b) : Len(a) + i \in 1..Len(q) /\ q[Len(a) + i] = b[i]
    BY JoinFacts
  <1>4. q # << >>
    BY <1>2, <1>3
  <1>5. /\ Head(q) = q[1] /\ u \in Seq(ToClient) /\ Len(u) = Len(q) - 1
        /\ \A i \in 1..Len(u) : u[i] = q[i + 1] /\ i + 1 \in 1..Len(q)
    BY <1>1, <1>3, <1>4, FirstElement
  <1>6. PICK n \in Nat, l \in Nat : Len(a) = n /\ Len(b) = l
    BY <1>2, <1>3
  <1>7. Len(u) = Len(t) + Len(b)
    BY <1>2, <1>3, <1>5, <1>6
  <1>8. \A i \in 1..Len(t) : u[i] = t[i]
    <2>1. ASSUME NEW i \in 1..Len(t) PROVE u[i] = t[i]
      <3>1. i \in 1..Len(u) /\ i + 1 \in 1..Len(a)
        BY <1>2, <1>6, <1>7
      <3> QED BY <1>2, <1>3, <1>5, <3>1
    <2> QED BY <2>1
  <1>9. \A i \in 1..Len(b) : u[Len(t) + i] = b[i]
    <2>1. ASSUME NEW i \in 1..Len(b) PROVE u[Len(t) + i] = b[i]
      <3>1. Len(t) + i \in 1..Len(u) /\ (Len(t) + i) + 1 = Len(a) + i
        BY <1>2, <1>6, <1>7
      <3> QED BY <1>3, <1>5, <3>1
    <2> QED BY <2>1
  <1>10. u = t \o b
    BY <1>2, <1>5, <1>7, <1>8, <1>9, IsConcat
  <1> QED BY <1>1, <1>2, <1>3, <1>4, <1>5, <1>10

\* The next of the held notices is dispatched.
LEMMA FlushDeltaStep ==
    ASSUME UniConfInv, NEW c \in Clients, flush_delta(c)
    PROVE  UniConfInv'
  <1>1. /\ cl[c] \in Client /\ c2s[c] \in Seq(ToDaemon) /\ s2c[c] \in Seq(ToClient) /\ dconn[c] \in Server
        /\ Sound(cl[c], c2s[c], s2c[c], dconn[c], store) /\ budget \in Nat
    BY ClientFacts
  <1>2. PICK g \in Client, cq \in Seq(ToDaemon), sq \in Seq(ToClient), d \in Server :
          g = cl[c] /\ cq = c2s[c] /\ sq = s2c[c] /\ d = dconn[c]
    BY <1>1
  <1>3. /\ g.stack # << >> /\ ~Calling(g) /\ Sound(g, cq, sq, d, store)
        /\ g.hold_nesting = 1 /\ g.deltas # << >>
    BY <1>1, <1>2 DEF flush_delta, LoopEnded, MustDispatch, AtTop, Top, Waiting, Calling
  <1>4. PICK m, t : m = Head(g.deltas) /\ t = Tail(g.deltas)
    OBVIOUS
  <1>5. g.deltas \in Seq(Notice) /\ g.deltas \in Seq(ToClient)
    BY DeltasAreMessages
  <1>6. m \in Notice /\ t \in Seq(Notice)
    BY <1>3, <1>4, <1>5, FirstElement
  <1>7. m.key \in Keys /\ m.val \in Optional /\ m.cmd = "NOTICE"
    BY <1>6 DEF Notice, ToClient
  <1>8. PICK w \in [Keys -> Optional] : w = [g.view EXCEPT ![m.key] = m.val]
    BY <1>7 DEF Client
  <1>9. PICK b : b = [g EXCEPT !.deltas = t, !.view = w]
    OBVIOUS
  <1>10. /\ b \in Client /\ b.stack = g.stack /\ b.deltas = t /\ b.view = w /\ SameStand(g, b)
    BY <1>6, <1>8, <1>9 DEF Client, SameStand
  <1>11. b = Dispatch(NextDelta(g), m)
    <2>1. PICK x : x = NextDelta(g)
      OBVIOUS
    <2>2. x = [g EXCEPT !.deltas = t] /\ x.view = g.view
      BY <1>4, <2>1 DEF NextDelta, Client
    <2>3. Dispatch(x, m) = [x EXCEPT !.view = w]
      BY <1>8, <2>2 DEF Dispatch
    <2>4. [x EXCEPT !.view = w] = b
      BY <1>9, <2>2 DEF Client
    <2> QED BY <2>1, <2>3, <2>4
  <1>12. WillKnowToo(g, b, sq, store)
    <2>1. PICK q : q = g.deltas \o sq
      OBVIOUS
    <2>2. q \in Seq(ToClient) /\ q # << >> /\ Head(q) = m /\ Tail(q) = t \o sq
      BY <1>3, <1>4, <1>5, <2>1, FirstOfJoin
    <2>3. ASSUME NEW k \in Keys, Knows(g.view, g.deltas \o sq, k, store[k])
          PROVE  Knows(b.view, b.deltas \o sq, k, store[k])
      <3>1. (m.key = k => w[k] = m.val) /\ (m.key # k => w[k] = g.view[k])
        BY <1>7, <1>8 DEF Client
      <3>2. PICK r : r = Tail(q)
        OBVIOUS
      <3>3. Knows(g.view, q, k, store[k])
        BY <2>1, <2>3
      <3>4. Knows(w, r, k, store[k])
        BY <1>7, <2>2, <3>1, <3>2, <3>3, KnowsApply
      <3> QED BY <1>10, <2>2, <3>2, <3>4
    <2>4. Unaware(g, sq) => Unaware(b, sq)
      <3>1. \A i \in 1..Len(t) : t[i] = g.deltas[i + 1] /\ i + 1 \in 1..Len(g.deltas)
        BY <1>3, <1>4, <1>5, FirstElement
      <3>2. m = g.deltas[1] /\ 1 \in 1..Len(g.deltas)
        BY <1>3, <1>4, <1>5, FirstElement
      <3>3. Within(g.deltas, g.known) => Within(t, g.known) /\ m.key \in g.known
        BY <1>7, <3>1, <3>2 DEF Within
      <3>4. \A k \in Keys : m.key # k => w[k] = g.view[k]
        BY <1>7, <1>8 DEF Client
      <3> QED BY <1>10, <3>3, <3>4 DEF Unaware, SameStand
    <2> QED BY <2>3, <2>4 DEF WillKnowToo
  <1>13. PICK pc \in {"flush", "callback"} : pc = "callback"
    OBVIOUS
  <1>14. PICK h : h = SetTop(b, pc)
    OBVIOUS
  <1>15. cl' = [cl EXCEPT ![c] = h]
    BY <1>2, <1>4, <1>11, <1>13, <1>14 DEF flush_delta
  <1>16. h \in Client /\ Sound(h, cq, sq, d, store)
    <2>1. g.hold_nesting # 0
      BY <1>3
    <2> QED BY <1>3, <1>10, <1>12, <1>13, <1>14, <2>1, MoveOnSound
  <1>17. /\ s2c' = [s2c EXCEPT ![c] = s2c[c]] /\ c2s' = [c2s EXCEPT ![c] = c2s[c]]
         /\ dconn' = dconn /\ store' = store /\ niceness' = niceness /\ budget' \in Nat
    BY <1>1, SameElement DEF flush_delta, UniConfInv, Types
  <1>18. Sound(h, c2s[c], s2c[c], dconn[c], store)
    BY <1>2, <1>16
  <1> QED BY <1>1, <1>15, <1>16, <1>17, <1>18, ClientStep

\* A callback returns.
LEMMA CallbackDoneStep ==
    ASSUME UniConfInv, NEW c \in Clients, callback_done(c)
    PROVE  UniConfInv'
  <1>1. /\ cl[c] \in Client /\ c2s[c] \in Seq(ToDaemon) /\ s2c[c] \in Seq(ToClient) /\ dconn[c] \in Server
        /\ Sound(cl[c], c2s[c], s2c[c], dconn[c], store) /\ budget \in Nat
    BY ClientFacts
  <1>2. PICK g \in Client, cq \in Seq(ToDaemon), sq \in Seq(ToClient), d \in Server :
          g = cl[c] /\ cq = c2s[c] /\ sq = s2c[c] /\ d = dconn[c]
    BY <1>1
  <1>3. PICK f : f = g.stack[Len(g.stack)]
    OBVIOUS
  <1>4. g.stack # << >> /\ f.pc = "callback" /\ ~Calling(g) /\ Sound(g, cq, sq, d, store)
    BY <1>1, <1>2, <1>3 DEF callback_done, AtTop, Top, Calling
  <1>5. /\ s2c' = [s2c EXCEPT ![c] = s2c[c]] /\ c2s' = [c2s EXCEPT ![c] = c2s[c]]
        /\ dconn' = dconn /\ store' = store /\ niceness' = niceness /\ budget' \in Nat
    BY <1>1, SameElement DEF callback_done, UniConfInv, Types
  <1>6. CASE f.op # "notice"
    <2>1. PICK pc \in {"flush", "callback"} : pc = "flush"
      OBVIOUS
    <2>2. PICK h : h = SetTop(g, pc)
      OBVIOUS
    <2>3. cl' = [cl EXCEPT ![c] = h]
      BY <1>2, <1>3, <1>6, <2>1, <2>2 DEF callback_done, Top
    <2>4. SameStand(g, g) /\ WillKnowToo(g, g, sq, store)
      BY DEF SameStand, WillKnowToo
    <2>5. h \in Client /\ Sound(h, cq, sq, d, store)
      BY <1>3, <1>4, <1>6, <2>2, <2>4, MoveOnSound
    <2>6. Sound(h, c2s[c], s2c[c], dconn[c], store)
      BY <1>2, <2>5
    <2> QED BY <1>1, <1>5, <2>3, <2>5, <2>6, ClientStep
  <1>7. CASE f.op = "notice"
    <2>1. PICK s \in Seq(Call) : s = g.stack
      BY DEF Client
    <2>2. PICK p : p = Below(s)
      OBVIOUS
    <2>3. /\ Stacked(s, g.hold_nesting) /\ Lists(s, g.listing) /\ Seeing(s, store) /\ s # << >> /\ f = s[Len(s)]
          /\ g.hold_nesting \in Nat /\ g.listing \in BOOLEAN
      BY <1>3, <1>4, <2>1 DEF Sound, Shape, Client
    <2>4. Len(s) = 1 /\ p = << >> /\ g.hold_nesting = 0
      BY <1>7, <2>2, <2>3, PopStacked
    <2>5. PICK h : h = [g EXCEPT !.stack = p]
      OBVIOUS
    <2>6. cl' = [cl EXCEPT ![c] = h]
      BY <1>2, <1>3, <1>7, <2>1, <2>2, <2>5 DEF callback_done, Top, Pop
    <2>7. << >> \in Seq(Call)
      OBVIOUS
    <2>8. h \in Client /\ SameStand(g, h) /\ h.stack = << >> /\ h.deltas = g.deltas /\ h.view = g.view
      BY <2>4, <2>5, <2>7 DEF Client, SameStand
    <2>9. Shape(h)
      <3>1. Stacked(<< >>, 0)
        BY DEF Stacked
      <3>2. f.op \notin Listings
        BY <1>7 DEF Listings
      <3>3. Lists(p, g.listing)
        BY <2>2, <2>3, <3>2, PopLists
      <3>4. g.deltas = << >>
        BY <1>4, <2>4 DEF Sound, Shape
      <3> QED BY <2>4, <2>8, <3>1, <3>3, <3>4 DEF Shape, SameStand
    <2>10. Seeing(h.stack, store)
      BY <2>8 DEF Seeing
    <2>11. LoadRule => Fresh(h, sq, d, store)
      BY <1>4, <2>8 DEF Sound, Fresh, SameStand, Unaware, Loading
    <2>12. NoSetv => Progress(h, cq, sq, d)
      BY <1>4, <2>8 DEF Sound, Progress, SameStand, Calling
    <2>13. NoSetv /\ WatchersDoNotWait => Reported(h)
      BY <1>4, <2>8 DEF Sound, Reported, SameStand, Collected
    <2>14. Sound(h, c2s[c], s2c[c], dconn[c], store)
      BY <1>2, <2>9, <2>10, <2>11, <2>12, <2>13 DEF Sound
    <2> QED BY <1>1, <1>5, <2>6, <2>8, <2>14, ClientStep
  <1> QED BY <1>6, <1>7

-----------------------------------------------------------------------------
(* A call returns.                                                         *)

\* A set of indices has a greatest element.
LEMMA GreatestIndex ==
    ASSUME NEW n \in Nat, NEW at, at \subseteq 1..n, at # {}
    PROVE  \E i \in at : \A j \in at : j <= i
  <1> DEFINE T == {x \in Nat : n - x \in at}
  <1>1. T \subseteq Nat
    OBVIOUS
  <1>2. ASSUME NEW i \in at PROVE n - i \in T
    <2>1. n - i \in Nat /\ n - (n - i) = i
      OBVIOUS
    <2> QED BY <2>1
  <1>3. T # {}
    BY <1>2
  <1>4. PICK x \in T : \A y \in T : x <= y
    <2> HIDE DEF T
    <2> QED BY <1>1, <1>3, LeastNatural
  <1>5. x \in Nat /\ n - x \in at
    OBVIOUS
  <1>6. ASSUME NEW j \in at PROVE j <= n - x
    <2>1. n - j \in T
      BY <1>2
    <2>2. x <= n - j
      BY <1>4, <2>1
    <2> QED BY <1>5, <2>2
  <1> QED BY <1>5, <1>6

\* What a cache has loaded.
LEMMA LoadedType ==
    ASSUME NEW view \in [Keys -> Optional], NEW list \in Seq(Shown)
    PROVE  Loaded(view, list) \in [Keys -> Optional]
  <1> DEFINE At(k) == {i \in 1..Len(list) : list[i].key = k /\ list[i].val # Empty}
             Last(k) == CHOOSE i \in At(k) : \A j \in At(k) : j <= i
  <1>1. ASSUME NEW k \in Keys, At(k) # {} PROVE list[Last(k)].val \in Optional
    <2>1. Len(list) \in Nat /\ At(k) \subseteq 1..Len(list)
      OBVIOUS
    <2>2. \E i \in At(k) : \A j \in At(k) : j <= i
      <3> HIDE DEF At
      <3> QED BY <1>1, <2>1, GreatestIndex
    <2>3. Last(k) \in At(k)
      <3> HIDE DEF At
      <3> QED BY <2>2
    <2>4. list[Last(k)] \in Shown
      BY <2>1, <2>3
    <2> HIDE DEF Last
    <2> QED BY <2>4 DEF Shown, ToClient
  <1>2. Loaded(view, list) = [k \in Keys |-> IF At(k) = {} THEN view[k] ELSE list[Last(k)].val]
    BY DEF Loaded
  <1> HIDE DEF At, Last
  <1> QED BY <1>1, <1>2

\* A cache that has loaded a listing knows the keys that did not change meanwhile.
LEMMA LoadedKnows ==
    ASSUME NEW view \in [Keys -> Optional], NEW list \in Seq(Shown), NEW f \in Call,
           Shows(f, list, << >>, << >>), NEW k \in Steady(f), NEW v, <<k, v>> \in f.seen, NEW q,
           Knows(view, q, k, v) \/ (view[k] = Null /\ \A j \in 1..Len(q) : ~Tells(q[j], k))
    PROVE  Knows(Loaded(view, list), q, k, v)
  <1> DEFINE At == {i \in 1..Len(list) : list[i].key = k /\ list[i].val # Empty}
             Last == CHOOSE i \in At : \A j \in At : j <= i
  <1>1. /\ k \in Keys /\ <<k, Empty>> \notin f.seen
        /\ \A w \in Optional : <<k, w>> \in f.seen => w = v
    <2>1. f.seen \subseteq Keys \X Optional
      BY DEF Call, Sightings
    <2>2. v \in Optional
      BY <2>1
    <2> QED BY <2>2 DEF Steady
  <1>2. ASSUME NEW i \in 1..Len(list), list[i].key = k PROVE list[i].val = v
    <2>1. list[i] \in Shown
      OBVIOUS
    <2>2. list[i].val \in Optional
      BY <2>1 DEF Shown, ToClient
    <2>3. <<k, list[i].val>> \in f.seen
      BY <1>2 DEF Shows, Witnessed
    <2> QED BY <1>1, <2>2, <2>3
  <1>3. Loaded(view, list)[k] = IF At = {} THEN view[k] ELSE list[Last].val
    BY <1>1 DEF Loaded
  <1>4. ASSUME At # {} PROVE list[Last].val = v
    <2>1. Len(list) \in Nat /\ At \subseteq 1..Len(list)
      OBVIOUS
    <2>2. \E i \in At : \A j \in At : j <= i
      <3> HIDE DEF At
      <3> QED BY <1>4, <2>1, GreatestIndex
    <2>3. Last \in At
      <3> HIDE DEF At
      <3> QED BY <2>2
    <2>4. Last \in 1..Len(list) /\ list[Last].key = k
      BY <2>3
    <2> HIDE DEF Last
    <2> QED BY <1>2, <2>4
  <1>5. ASSUME At = {}, v # Null PROVE FALSE
    <2>1. <<k, Null>> \notin f.seen
      BY <1>1, <1>5 DEF Optional
    <2>2. ~Mentions(<< >>, k) /\ ~Brings(<< >>, k)
      BY DEF Mentions, Brings
    <2>3. PICK i \in 1..Len(list) : list[i].key = k
      BY <1>1, <2>1, <2>2 DEF Shows, Mentions
    <2>4. list[i].val = v /\ v # Empty
      BY <1>1, <1>2, <2>3
    <2>5. i \in At
      BY <2>3, <2>4
    <2> QED BY <1>5, <2>5
  <1>6. CASE \A j \in 1..Len(q) : ~Tells(q[j], k)
    <2>1. view[k] = v \/ view[k] = Null
      BY <1>6 DEF Knows
    <2>2. Loaded(view, list)[k] = v
      <3>1. CASE At = {}
        <4>1. v = Null
          BY <1>5, <3>1
        <4> QED BY <1>3, <2>1, <3>1, <4>1
      <3>2. CASE At # {}
        BY <1>3, <1>4, <3>2
      <3> QED BY <3>1, <3>2
    <2> HIDE DEF At
    <2> QED BY <1>6, <2>2 DEF Knows
  <1>7. CASE ~\A j \in 1..Len(q) : ~Tells(q[j], k)
    BY <1>7 DEF Knows
  <1> QED BY <1>6, <1>7

\* What a call returns.
LEMMA ResultFields ==
    ASSUME NEW g \in Client, NEW f \in Call, NEW r, r = Result(g, f)
    PROVE  /\ r \in Returns /\ r.op = f.op /\ r.key = f.key /\ r.ok = g.ok /\ r.seen = f.seen
           /\ f.op = "get" => r.val = IF g.cmdsuccess /\ g.result_key = f.key THEN g.result ELSE Null
           /\ f.op = "iterator" => r.val = IF g.cmdsuccess THEN "TRUE" ELSE Null
           /\ f.op = "iterator" /\ g.cmdsuccess => r.list = g.result_list
           /\ f.op = "loadtree" => r.list = IF g.cmdsuccess THEN g.result_list ELSE << >>
  <1>1. PICK v : v = CASE f.op = "get" -> IF g.cmdsuccess /\ g.result_key = f.key THEN g.result ELSE Null
                       [] f.op = "haschildren" -> IF g.cmdsuccess /\ g.result_key = f.key THEN g.result ELSE "FALSE"
                       [] f.op \in {"set", "setv"} -> Null
                       [] OTHER -> IF g.cmdsuccess THEN "TRUE" ELSE Null
    OBVIOUS
  <1>2. PICK list : list = IF f.op \in {"iterator", "loadtree"} /\ g.cmdsuccess THEN g.result_list ELSE << >>
    OBVIOUS
  <1>3. r = [op |-> f.op, key |-> f.key, ok |-> g.ok, seen |-> f.seen, val |-> v, list |-> list]
    BY <1>1, <1>2 DEF Result
  <1>4. g.result \in Answer /\ Null \in Answer /\ "TRUE" \in Answer /\ "FALSE" \in Answer
    BY DEF Client, Answer, Optional
  <1>5. /\ v \in Answer
        /\ f.op = "get" => v = IF g.cmdsuccess /\ g.result_key = f.key THEN g.result ELSE Null
        /\ f.op = "iterator" => v = IF g.cmdsuccess THEN "TRUE" ELSE Null
    <2>1. CASE f.op = "get"
      BY <1>1, <1>4, <2>1
    <2>2. CASE f.op = "haschildren"
      BY <1>1, <1>4, <2>2
    <2>3. CASE f.op \in {"set", "setv"}
      BY <1>1, <1>4, <2>3
    <2>4. CASE f.op \notin {"get", "haschildren", "set", "setv"}
      BY <1>1, <1>4, <2>4
    <2> QED BY <2>1, <2>2, <2>3, <2>4
  <1>6. list \in Seq(Shown)
    <2>1. g.result_list \in Seq(Shown)
      BY DEF Client
    <2>2. << >> \in Seq(Shown)
      OBVIOUS
    <2> QED BY <1>2, <2>1, <2>2
  <1>7. f.op \in CallNames \cup {"none"} /\ f.key \in AnyKey /\ f.seen \in Sightings /\ g.ok \in BOOLEAN
    BY DEF Call, Client
  <1>8. r \in Returns
    BY <1>3, <1>5, <1>6, <1>7 DEF Returns
  <1>9. r.op = f.op /\ r.key = f.key /\ r.ok = g.ok /\ r.seen = f.seen /\ r.val = v /\ r.list = list
    BY <1>3
  <1> QED BY <1>2, <1>5, <1>8, <1>9

\* h is g after the innermost call has returned.
Popped(g, h) ==
    LET f == g.stack[Len(g.stack)]
        list == IF g.cmdsuccess THEN g.result_list ELSE << >>
    IN  /\ h \in Client /\ h.stack = Below(g.stack) /\ h.hold_nesting = g.hold_nesting - 1
        /\ h.last = Result(g, f) /\ h.ok = g.ok /\ h.aborted = g.aborted /\ h.deltas = g.deltas
        /\ f.op \in Listings => h.listing = FALSE
        /\ f.op \notin Listings => h.listing = g.listing /\ h.result_list = g.result_list
        /\ h.cmdsuccess = g.cmdsuccess /\ h.result_key = g.result_key /\ h.result = g.result
        /\ f.op # "loadtree" => h.view = g.view /\ h.known = g.known /\ h.refreshed_once = g.refreshed_once
        /\ f.op = "loadtree" =>
              /\ h.refreshed_once /\ h.known = (IF g.cmdsuccess THEN Steady(f) ELSE g.known)
              /\ h.view = Loaded(g.view, list)

\* The return of a call keeps the invariant, and reports what its question's answer was.
LEMMA PoppedSound ==
    ASSUME NEW g \in Client, NEW cq, NEW sq, NEW d, NEW st, Sound(g, cq, sq, d, st),
           g.stack # << >>, ~Calling(g), g.stack[Len(g.stack)].pc # "callback",
           g.hold_nesting = 1 => g.deltas = << >>, NEW h, Popped(g, h)
    PROVE  /\ Sound(h, cq, sq, d, st) /\ (h.stack # << >> => h.stack[Len(h.stack)].pc = "callback")
           /\ NoSetv /\ WatchersDoNotWait => g.stack[Len(g.stack)].op = "set" \/ h.stack = << >>
           /\ LoadRule /\ g.stack[Len(g.stack)].op \in Loads => ~g.refreshed_once /\ ~NoLoading
  <1>1. PICK s \in Seq(Call) : s = g.stack
    BY DEF Client
  <1>2. PICK f : f = s[Len(s)]
    OBVIOUS
  <1>3. PICK p : p = Below(s)
    OBVIOUS
  <1>4. /\ h \in Client /\ h.stack = p /\ h.hold_nesting = g.hold_nesting - 1
        /\ h.last = Result(g, f) /\ h.ok = g.ok /\ h.deltas = g.deltas
        /\ f.op \in Listings => h.listing = FALSE
        /\ f.op \notin Listings => h.listing = g.listing /\ h.result_list = g.result_list
        /\ h.cmdsuccess = g.cmdsuccess /\ h.result_key = g.result_key /\ h.result = g.result
        /\ f.op # "loadtree" => h.view = g.view /\ h.known = g.known /\ h.refreshed_once = g.refreshed_once
        /\ f.op = "loadtree" =>
              /\ h.refreshed_once /\ h.known = (IF g.cmdsuccess THEN Steady(f) ELSE g.known)
              /\ h.view = Loaded(g.view, IF g.cmdsuccess THEN g.result_list ELSE << >>)
    BY <1>1, <1>2, <1>3 DEF Popped
  <1>5. /\ Stacked(s, g.hold_nesting) /\ Lists(s, g.listing) /\ Seeing(s, st) /\ s # << >>
        /\ g.hold_nesting \in Nat /\ g.listing \in BOOLEAN
    BY <1>1 DEF Sound, Shape, Client
  <1>6. /\ p \in Seq(Call) /\ Len(s) \in Nat \ {0} /\ Len(p) = Len(s) - 1
        /\ \A i \in 1..Len(p) : p[i] = s[i] /\ i \in 1..Len(s) /\ i < Len(s)
    BY <1>3, <1>5, PopFacts
  <1>7. f \in Call /\ Len(s) \in 1..Len(s) /\ f.op # "notice"
    <2>1. f \in Call /\ Len(s) \in 1..Len(s)
      BY <1>2, <1>5, LastElement
    <2>2. f.pc # "callback"
      BY <1>1, <1>2
    <2> QED BY <1>2, <1>5, <2>1, <2>2 DEF Stacked
  <1>8. /\ g.hold_nesting >= 1 /\ Stacked(p, g.hold_nesting - 1)
        /\ p # << >> => p[Len(p)].pc = "callback"
    BY <1>2, <1>3, <1>5, <1>7, PopStacked
  <1>9. Lists(p, h.listing)
    <2>1. /\ f.op \notin Listings => Lists(p, g.listing)
          /\ f.op \in Listings => Lists(p, FALSE)
      BY <1>2, <1>3, <1>5, PopLists
    <2>2. CASE f.op \in Listings
      BY <1>4, <2>1, <2>2
    <2>3. CASE f.op \notin Listings
      BY <1>4, <2>1, <2>3
    <2> QED BY <2>2, <2>3
  <1>10. Shape(h)
    <2>1. h.hold_nesting = 0 => h.deltas = << >>
      BY <1>4, <1>5
    <2> QED BY <1>4, <1>8, <1>9, <2>1 DEF Shape
  <1>11. Seeing(h.stack, st)
    BY <1>3, <1>4, <1>5, PopSeeing
  <1>13. ~Calling(h)
    BY <1>4, <1>8 DEF Calling
  <1>14. NoSetv => Progress(h, cq, sq, d)
    BY <1>4, <1>13 DEF Sound, Progress
  <1>15. ASSUME NoSetv, WatchersDoNotWait
         PROVE  /\ Reported(h) /\ (f.op = "set" \/ p = << >>)
                /\ f.op \in Listings /\ g.cmdsuccess => Shows(f, g.result_list, << >>, << >>)
    <2>1. Reported(g)
      BY <1>15 DEF Sound
    <2>n. PICK n \in Nat \ {0} : Len(s) = n
      BY <1>6
    <2>2. /\ s[1].op = "get" /\ g.ok => GetRight(g, s[1])
          /\ s[1].op \in Listings /\ g.cmdsuccess => Shows(s[1], g.result_list, << >>, << >>)
      BY <1>1, <1>5, <2>1 DEF Reported, Collected
    <2>3. n >= 2 => f.op = "set"
      BY <1>1, <1>2, <2>1, <2>n DEF Reported
    <2>4. n = 1 => f = s[1] /\ p = << >>
      <3>1. n = 1 => Len(p) = 0
        BY <1>6, <2>n
      <3> QED BY <1>2, <1>6, <2>n, <3>1, EmptySeq
    <2>5. Right(h.last)
      <3>1. PICK r : r = Result(g, f)
        OBVIOUS
      <3>2. /\ r.op = f.op /\ r.key = f.key /\ r.ok = g.ok /\ r.seen = f.seen
            /\ f.op = "get" => r.val = IF g.cmdsuccess /\ g.result_key = f.key THEN g.result ELSE Null
            /\ f.op = "iterator" => r.val = IF g.cmdsuccess THEN "TRUE" ELSE Null
            /\ f.op = "iterator" /\ g.cmdsuccess => r.list = g.result_list
        BY <1>7, <3>1, ResultFields
      <3>3. f.op \in {"get", "iterator"} => f = s[1]
        BY <2>3, <2>4, <2>n
      <3>4. ASSUME r.op = "get", r.ok PROVE <<r.key, r.val>> \in r.seen
        <4>1. GetRight(g, f) /\ f.op = "get"
          BY <2>2, <3>2, <3>3, <3>4
        <4>2. CASE g.cmdsuccess /\ g.result_key = f.key
          BY <3>2, <4>1, <4>2 DEF GetRight
        <4>3. CASE ~(g.cmdsuccess /\ g.result_key = f.key)
          BY <3>2, <4>1, <4>3 DEF GetRight
        <4> QED BY <4>2, <4>3
      <3>5. ASSUME r.op = "iterator", r.val = "TRUE" PROVE Shows(r, r.list, << >>, << >>)
        <4>1. g.cmdsuccess
          BY <3>2, <3>5, NullAssumption
        <4>2. Shows(f, g.result_list, << >>, << >>)
          BY <2>2, <3>2, <3>3, <3>5, <4>1 DEF Listings
        <4>3. r.list = g.result_list
          BY <3>2, <3>5, <4>1
        <4> QED BY <3>2, <4>2, <4>3 DEF Shows, Witnessed
      <3> QED BY <1>4, <3>1, <3>4, <3>5 DEF Right
    <2>6. \A i \in 2..Len(p) : p[i].op = "set"
      <3>1. ASSUME NEW i \in 2..Len(p) PROVE p[i].op = "set"
        <4>1. i \in 1..Len(p) /\ i \in 2..Len(s)
          BY <1>6, <2>n
        <4> QED BY <1>1, <1>6, <2>1, <4>1 DEF Reported
      <3> QED BY <3>1
    <2>7. Collected(h)
      <3>1. CASE p = << >>
        BY <1>4, <3>1 DEF Collected
      <3>2. CASE p # << >>
        <4>1. n >= 2 /\ p[1] = s[1]
          <5>1. Len(p) # 0
            BY <1>6, <3>2, EmptySeq
          <5> QED BY <1>6, <2>n, <5>1
        <4>2. f.op \notin Listings
          BY <2>3, <4>1 DEF Listings
        <4>3. GetRight(g, s[1]) => GetRight(h, s[1])
          BY <1>4 DEF GetRight
        <4> QED BY <1>4, <2>2, <4>1, <4>2, <4>3 DEF Collected
      <3> QED BY <3>1, <3>2
    <2>8. f.op = "set" \/ p = << >>
      BY <2>3, <2>4, <2>n
    <2>9. f.op \in Listings /\ g.cmdsuccess => Shows(f, g.result_list, << >>, << >>)
      <3>1. f.op \in Listings => f = s[1]
        BY <2>3, <2>4, <2>n DEF Listings
      <3> QED BY <2>2, <3>1
    <2> QED BY <1>4, <2>1, <2>5, <2>6, <2>7, <2>8, <2>9 DEF Reported
  <1>12. ASSUME LoadRule
         PROVE  Fresh(h, sq, d, st) /\ (f.op \in Loads => ~g.refreshed_once /\ ~NoLoading)
    <2>1. Fresh(g, sq, d, st)
      BY <1>12 DEF Sound
    <2>2. f.op \in Loads => ~g.refreshed_once /\ ~NoLoading
      BY <1>1, <1>2, <1>7, <2>1 DEF Fresh, Loading
    <2>3. CASE f.op # "loadtree"
      <3>1. Loading(p, g.refreshed_once)
        BY <1>1, <1>6, <2>1 DEF Fresh, Loading
      <3> QED BY <1>4, <2>1, <2>2, <2>3, <3>1 DEF Fresh, Unaware
    <2>4. CASE f.op = "loadtree"
      <3>1. ~g.refreshed_once /\ NoSetv /\ WatchersDoNotWait
        BY <1>12, <2>2, <2>4 DEF Loads, LoadRule
      <3>2. p = << >> /\ (g.cmdsuccess => Shows(f, g.result_list, << >>, << >>))
        BY <1>15, <2>4, <3>1 DEF Listings
      <3>3. Loading(h.stack, h.refreshed_once) /\ Unaware(h, sq)
        BY <1>4, <2>4, <3>2 DEF Loading, Unaware
      <3>4. g.view \in [Keys -> Optional] /\ g.known \subseteq Keys /\ g.result_list \in Seq(Shown)
        BY DEF Client
      <3>5. PICK q : q = g.deltas \o sq
        OBVIOUS
      <3>d. h.deltas \o sq = q /\ h.ok = g.ok
        BY <1>4, <3>5
      <3>6. ASSUME NEW k \in Keys, g.ok, d.open
            PROVE  \/ Knows(g.view, q, k, st[k])
                   \/ g.view[k] = Null /\ k \notin g.known /\ \A j \in 1..Len(q) : ~Tells(q[j], k)
        <4>1. CASE k \in g.known
          BY <2>1, <3>5, <3>6, <4>1 DEF Fresh
        <4>2. CASE k \notin g.known
          <5>1. g.view[k] = Null /\ Within(g.deltas, g.known) /\ Within(sq, g.known)
            BY <2>1, <3>1, <4>2 DEF Fresh, Unaware
          <5>2. g.deltas \in Seq(ToClient)
            BY DeltasAreMessages
          <5>3. /\ \A j \in 1..Len(g.deltas) : j \in 1..Len(q) /\ q[j] = g.deltas[j]
                /\ \A j \in 1..Len(q) : (j \in 1..Len(g.deltas)) \/ (j - Len(g.deltas) \in 1..Len(sq) /\ q[j] = sq[j - Len(g.deltas)] /\ j > Len(g.deltas))
            BY <3>5, <5>2, JoinFacts
          <5>4. \A j \in 1..Len(q) : ~Tells(q[j], k)
            BY <4>2, <5>1, <5>3 DEF Within, Tells
          <5> QED BY <4>2, <5>1, <5>4
        <4> QED BY <4>1, <4>2
      <3>7. CASE g.cmdsuccess
        <4>1. ASSUME NEW k \in h.known, h.ok, d.open PROVE Knows(h.view, q, k, st[k])
          <5>1. k \in Steady(f) /\ h.view = Loaded(g.view, g.result_list) /\ g.ok
            BY <1>4, <2>4, <3>7, <4>1
          <5>2. k \in Keys
            BY <5>1 DEF Steady
          <5>3. <<k, st[k]>> \in f.seen
            BY <1>2, <1>5, <1>7, <5>2 DEF Seeing
          <5>4. Knows(g.view, q, k, st[k]) \/ (g.view[k] = Null /\ \A j \in 1..Len(q) : ~Tells(q[j], k))
            BY <3>6, <4>1, <5>1, <5>2
          <5>5. Shows(f, g.result_list, << >>, << >>)
            BY <3>2, <3>7
          <5>6. Knows(Loaded(g.view, g.result_list), q, k, st[k])
            BY <1>7, <3>4, <5>1, <5>3, <5>4, <5>5, LoadedKnows
          <5> QED BY <5>1, <5>6
        <4>2. h.ok /\ d.open => \A k \in h.known : Knows(h.view, h.deltas \o sq, k, st[k])
          BY <3>d, <4>1
        <4> QED BY <2>2, <3>3, <4>2 DEF Fresh
      <3>8. CASE ~g.cmdsuccess
        <4>1. h.known = g.known /\ h.view = Loaded(g.view, << >>)
          BY <1>4, <2>4, <3>8
        <4>2. Loaded(g.view, << >>) = g.view
          BY <3>4 DEF Loaded
        <4>3. h.ok /\ d.open => \A k \in h.known : Knows(h.view, h.deltas \o sq, k, st[k])
          BY <2>1, <3>5, <3>d, <4>1, <4>2 DEF Fresh
        <4> QED BY <2>2, <3>3, <4>3 DEF Fresh
      <3> QED BY <3>7, <3>8
    <2> QED BY <2>2, <2>3, <2>4
  <1>16. Sound(h, cq, sq, d, st)
    BY <1>10, <1>11, <1>12, <1>14, <1>15 DEF Sound
  <1> QED BY <1>1, <1>2, <1>4, <1>8, <1>12, <1>15, <1>16

\* The client without its innermost call f.
Left(g, f) == [Pop(g) EXCEPT !.hold_nesting = @ - 1, !.last = Result(g, f)]

\* The members after a call has returned, for each kind of call.
LEMMA ReturnedFields ==
    ASSUME NEW g \in Client, g.stack # << >>, NEW f, f = g.stack[Len(g.stack)], g.hold_nesting >= 1,
           NEW r, r = Left(g, f)
    PROVE  /\ r \in Client /\ r.listing = g.listing /\ r.aborted = g.aborted /\ r.ok = g.ok
           /\ f.op \notin Listings => Popped(g, r)
           /\ f.op \in Listings => Returned(g, f) \in Client /\ Popped(g, Returned(g, f))
           /\ f.op \notin Listings \cup {"cache_refresh"} => Returned(g, f) = r
           /\ f.op = "cache_refresh" => Returned(g, f) = Listed(r, "loadtree")
  <1>1. g.stack \in Seq(Call) /\ g.hold_nesting \in Nat
    BY DEF Client
  <1>2. f \in Call
    BY <1>1, LastElement
  <1>3. PICK p \in Seq(Call) : p = Below(g.stack)
    BY <1>1, PopFacts
  <1>4. PICK n \in Nat : n = g.hold_nesting - 1
    BY <1>1
  <1>5. PICK res \in Returns : res = Result(g, f)
    BY <1>2, ResultFields
  <1>6. r = [g EXCEPT !.stack = p, !.hold_nesting = n, !.last = res]
    BY <1>3, <1>4, <1>5 DEF Left, Pop, Client
  <1>7. /\ r \in Client /\ r.stack = p /\ r.hold_nesting = n /\ r.last = res /\ r.ok = g.ok /\ r.aborted = g.aborted
        /\ r.deltas = g.deltas /\ r.listing = g.listing /\ r.result_list = g.result_list
        /\ r.cmdsuccess = g.cmdsuccess /\ r.result_key = g.result_key /\ r.result = g.result
        /\ r.view = g.view /\ r.known = g.known /\ r.refreshed_once = g.refreshed_once
    BY <1>6 DEF Client
  <1>8. f.op \notin Listings => Popped(g, r)
    BY <1>3, <1>4, <1>5, <1>7 DEF Popped, Listings
  <1>9. << >> \in Seq(Shown)
    OBVIOUS
  <1>10. ASSUME f.op = "iterator" PROVE Returned(g, f) \in Client /\ Popped(g, Returned(g, f))
    <2>1. PICK h : h = [r EXCEPT !.listing = FALSE, !.result_list = << >>]
      OBVIOUS
    <2>2. Returned(g, f) = h
      BY <1>10, <2>1 DEF Returned, Left
    <2>3. /\ h \in Client /\ h.stack = p /\ h.hold_nesting = n /\ h.last = res /\ h.ok = g.ok /\ h.aborted = g.aborted
          /\ h.deltas = g.deltas /\ h.listing = FALSE
          /\ h.cmdsuccess = g.cmdsuccess /\ h.result_key = g.result_key /\ h.result = g.result
          /\ h.view = g.view /\ h.known = g.known /\ h.refreshed_once = g.refreshed_once
      BY <1>7, <1>9, <2>1 DEF Client
    <2>4. f.op \in Listings
      BY <1>10 DEF Listings
    <2>5. Popped(g, h)
      BY <1>3, <1>4, <1>5, <1>10, <2>3, <2>4 DEF Popped
    <2> QED BY <2>2, <2>3, <2>5
  <1>11. ASSUME f.op = "loadtree" PROVE Returned(g, f) \in Client /\ Popped(g, Returned(g, f))
    <2>0. /\ res.list \in Seq(Shown) /\ g.view \in [Keys -> Optional] /\ g.cmdsuccess \in BOOLEAN
          /\ res.list = IF g.cmdsuccess THEN g.result_list ELSE << >>
      <3>1. res.list = IF g.cmdsuccess THEN g.result_list ELSE << >>
        BY <1>2, <1>5, <1>11, ResultFields
      <3> QED BY <3>1 DEF Returns, Client
    <2>k. PICK K \in SUBSET Keys : K = IF g.cmdsuccess THEN Steady(f) ELSE g.known
      BY DEF Steady, Client
    <2>1. PICK w \in [Keys -> Optional] : w = Loaded(g.view, res.list)
      BY <2>0, LoadedType
    <2>2. PICK h : h = [r EXCEPT !.listing = FALSE, !.result_list = << >>, !.known = K,
                                 !.refreshed_once = TRUE, !.view = w]
      OBVIOUS
    <2>3. Returned(g, f) = h
      <3>1. Returned(g, f) = [r EXCEPT !.listing = FALSE, !.result_list = << >>, !.known = IF g.cmdsuccess THEN Steady(f) ELSE @,
                                       !.refreshed_once = TRUE, !.view = Loaded(@, Result(g, f).list)]
        BY <1>11 DEF Returned, Left
      <3>2. w = Loaded(r.view, Result(g, f).list)
        BY <1>5, <1>7, <2>1
      <3>3. K = IF g.cmdsuccess THEN Steady(f) ELSE r.known
        BY <1>7, <2>k
      <3> QED BY <2>2, <3>1, <3>2, <3>3
    <2>4. /\ h \in Client /\ h.stack = p /\ h.hold_nesting = n /\ h.last = res /\ h.ok = g.ok /\ h.aborted = g.aborted
          /\ h.deltas = g.deltas /\ h.listing = FALSE /\ h.refreshed_once /\ h.known = K /\ h.view = w
          /\ h.cmdsuccess = g.cmdsuccess /\ h.result_key = g.result_key /\ h.result = g.result
      <3>1. PICK x : x = [r EXCEPT !.listing = FALSE, !.result_list = << >>, !.refreshed_once = TRUE, !.view = w]
        OBVIOUS
      <3>2. /\ x \in Client /\ x.stack = p /\ x.hold_nesting = n /\ x.last = res /\ x.ok = g.ok /\ x.aborted = g.aborted
            /\ x.deltas = g.deltas /\ x.listing = FALSE /\ x.refreshed_once /\ x.view = w
            /\ x.cmdsuccess = g.cmdsuccess /\ x.result_key = g.result_key /\ x.result = g.result
        BY <1>7, <1>9, <3>1 DEF Client
      <3>3. h = [x EXCEPT !.known = K]
        BY <1>7, <2>2, <3>1 DEF Client
      <3> QED BY <2>0, <3>2, <3>3 DEF Client
    <2>5. f.op \in Listings
      BY <1>11 DEF Listings
    <2>6. Popped(g, h)
      BY <1>3, <1>4, <1>5, <1>11, <2>0, <2>1, <2>k, <2>4, <2>5 DEF Popped
    <2> QED BY <2>3, <2>4, <2>6
  <1>12. f.op \in Listings => f.op \in {"iterator", "loadtree"}
    BY DEF Listings
  <1>13. f.op \notin Listings \cup {"cache_refresh"} => Returned(g, f) = r
    BY DEF Returned, Left, Listings
  <1>14. f.op = "cache_refresh" => Returned(g, f) = Listed(r, "loadtree")
    BY DEF Returned, Left
  <1> QED BY <1>7, <1>8, <1>10, <1>11, <1>12, <1>13, <1>14

\* A call returns when no notice is left to deliver; the cache's refresh goes on to load the tree.
LEMMA ReturnStep ==
    ASSUME UniConfInv, NEW c \in Clients, return(c)
    PROVE  UniConfInv'
  <1>1. /\ cl[c] \in Client /\ c2s[c] \in Seq(ToDaemon) /\ s2c[c] \in Seq(ToClient) /\ dconn[c] \in Server
        /\ Sound(cl[c], c2s[c], s2c[c], dconn[c], store) /\ budget \in Nat
    BY ClientFacts
  <1>2. PICK g \in Client, cq \in Seq(ToDaemon), sq \in Seq(ToClient), d \in Server :
          g = cl[c] /\ cq = c2s[c] /\ sq = s2c[c] /\ d = dconn[c]
    BY <1>1
  <1>3. PICK f : f = g.stack[Len(g.stack)]
    OBVIOUS
  <1>4. /\ g.stack # << >> /\ ~Calling(g) /\ Sound(g, cq, sq, d, store) /\ f.pc # "callback" /\ ~g.aborted
        /\ g.hold_nesting = 1 => g.deltas = << >>
    BY <1>1, <1>2, <1>3 DEF return, LoopEnded, MustDispatch, AtTop, Top, Waiting, Calling
  <1>5. g.hold_nesting \in Nat /\ g.hold_nesting >= 1 /\ f \in Call
    <2>1. PICK s \in Seq(Call) : s = g.stack
      BY DEF Client
    <2>2. Stacked(s, g.hold_nesting) /\ s # << >> /\ f = s[Len(s)] /\ g.hold_nesting \in Nat
      BY <1>3, <1>4, <2>1 DEF Sound, Shape, Client
    <2>3. f \in Call /\ Len(s) \in 1..Len(s)
      BY <2>2, LastElement
    <2>4. f.op # "notice"
      BY <1>4, <2>2, <2>3 DEF Stacked
    <2>5. PICK p : p = Below(s)
      OBVIOUS
    <2>6. g.hold_nesting >= 1
      BY <2>2, <2>4, <2>5, PopStacked
    <2> QED BY <2>2, <2>3, <2>6
  <1>6. PICK r : r = Left(g, f)
    OBVIOUS
  <1>7. /\ r \in Client /\ r.listing = g.listing /\ r.aborted = g.aborted /\ r.ok = g.ok
        /\ f.op \notin Listings => Popped(g, r)
        /\ f.op \in Listings => Returned(g, f) \in Client /\ Popped(g, Returned(g, f))
        /\ f.op \notin Listings \cup {"cache_refresh"} => Returned(g, f) = r
        /\ f.op = "cache_refresh" => Returned(g, f) = Listed(r, "loadtree")
    BY <1>3, <1>4, <1>5, <1>6, ReturnedFields
  <1>8. /\ s2c' = [s2c EXCEPT ![c] = s2c[c]]
        /\ dconn' = dconn /\ store' = store /\ niceness' = niceness /\ budget' \in Nat
    BY <1>1, SameElement DEF return, UniConfInv, Types
  <1>9. PICK h : h = Returned(g, f)
    OBVIOUS
  <1>10. cl' = [cl EXCEPT ![c] = h]
    BY <1>2, <1>3, <1>9 DEF return, Top
  <1>11. ASSUME f.op # "cache_refresh" PROVE UniConfInv'
    <2>1. h \in Client /\ Popped(g, h)
      <3>1. CASE f.op \in Listings
        BY <1>7, <1>9, <3>1
      <3>2. CASE f.op \notin Listings
        BY <1>7, <1>9, <1>11, <3>2
      <3> QED BY <3>1, <3>2
    <2>2. Sound(h, cq, sq, d, store)
      BY <1>3, <1>4, <2>1, PoppedSound
    <2>3. c2s' = [c2s EXCEPT ![c] = c2s[c]]
      BY <1>2, <1>3, <1>11, SameElement DEF return, Top, UniConfInv, Types
    <2>4. Sound(h, c2s[c], s2c[c], dconn[c], store)
      BY <1>2, <2>2
    <2> QED BY <1>1, <1>8, <1>10, <2>1, <2>3, <2>4, ClientStep
  <1>12. ASSUME f.op = "cache_refresh" PROVE UniConfInv'
    <2>1. Popped(g, r)
      BY <1>7, <1>12 DEF Listings
    <2>2. /\ Sound(r, cq, sq, d, store) /\ (r.stack # << >> => r.stack[Len(r.stack)].pc = "callback")
          /\ NoSetv /\ WatchersDoNotWait => g.stack[Len(g.stack)].op = "set" \/ r.stack = << >>
          /\ LoadRule /\ g.stack[Len(g.stack)].op \in Loads => ~g.refreshed_once /\ ~NoLoading
      BY <1>3, <1>4, <2>1, PoppedSound
    <2>3. /\ LoadRule => ~r.refreshed_once /\ ~NoLoading
          /\ NoSetv /\ WatchersDoNotWait => r.stack = << >>
      <3>1. f.op # "loadtree" /\ f.op \in Loads
        BY <1>12 DEF Loads
      <3>2. r.refreshed_once = g.refreshed_once
        BY <1>3, <2>1, <3>1 DEF Popped
      <3> QED BY <1>3, <1>12, <2>2, <3>1, <3>2
    <2>4. h = Listed(r, "loadtree")
      BY <1>7, <1>9, <1>12
    <2>5. CASE r.listing
      <3>1. h = [r EXCEPT !.aborted = TRUE]
        BY <2>4, <2>5 DEF Listed
      <3>2. /\ h \in Client /\ h.aborted /\ h.ok = r.ok /\ h.stack = r.stack
            /\ h.hold_nesting = r.hold_nesting /\ h.deltas = r.deltas /\ h.view = r.view
            /\ h.known = r.known /\ h.refreshed_once = r.refreshed_once /\ h.listing = r.listing /\ h.result_list = r.result_list
            /\ h.result_key = r.result_key /\ h.result = r.result /\ h.last = r.last
            /\ h.cmdsuccess = r.cmdsuccess
        BY <1>7, <3>1 DEF Client
      <3>3. ~Calling(h) /\ ~Calling(r)
        BY <2>2, <3>2 DEF Calling
      <3>4. Sound(h, cq, sq, d, store)
        BY <1>7, <2>2, <3>2, <3>3, StopSound
      <3>5. c2s' = [c2s EXCEPT ![c] = c2s[c]]
        BY <1>2, <1>3, <1>7, <1>12, <2>5, SameElement DEF return, Top, UniConfInv, Types
      <3>6. Sound(h, c2s[c], s2c[c], dconn[c], store)
        BY <1>2, <3>4
      <3> QED BY <1>1, <1>8, <1>10, <3>2, <3>5, <3>6, ClientStep
    <2>6. CASE ~r.listing
      <3>1. PICK m : m = Msg("subtr", Root, Null)
        OBVIOUS
      <3>2. m \in ToDaemon /\ m.cmd \in {"subt", "subtr"}
        BY <3>1 DEF Msg, ToDaemon, Commands, Optional, AnyKey
      <3>3. PICK w : w = <<m>>
        OBVIOUS
      <3>4. Writes(c, w)
        BY <1>2, <1>3, <1>7, <1>12, <2>6, <3>1, <3>3 DEF return, Top
      <3>5. PICK cp : cp = IF cl[c].ok THEN c2s[c] \o <<m>> ELSE c2s[c]
        OBVIOUS
      <3>6. c2s' = [c2s EXCEPT ![c] = cp]
        BY <3>3, <3>4, <3>5, WritesFacts
      <3>7. PICK op \in Listings : op = "loadtree"
        BY DEF Listings
      <3>8. h \in Client /\ cp \in Seq(ToDaemon) /\ Sound(h, cp, sq, d, store)
        <4>1. ~r.aborted /\ cp = IF r.ok THEN cq \o <<m>> ELSE cq
          BY <1>2, <1>4, <1>7, <3>5
        <4>2. h = Listed(r, op)
          BY <2>4, <3>7
        <4>3. LoadRule /\ op = "loadtree" => ~r.refreshed_once /\ ~NoLoading
          BY <2>3
        <4>4. /\ r \in Client /\ Sound(r, cq, sq, d, store) /\ ~r.listing
              /\ (r.stack # << >> => r.stack[Len(r.stack)].pc = "callback")
          BY <1>7, <2>2, <2>6
        <4>5. NoSetv /\ WatchersDoNotWait => r.stack = << >>
          BY <2>3
        <4> QED BY <3>2, <4>1, <4>2, <4>3, <4>4, <4>5, ListingSound
      <3>9. Sound(h, cp, s2c[c], dconn[c], store)
        BY <1>2, <3>8
      <3> QED BY <1>1, <1>8, <1>10, <3>6, <3>8, <3>9, ClientStep
    <2> QED BY <2>5, <2>6
  <1> QED BY <1>11, <1>12

-----------------------------------------------------------------------------
(* The invariant.                                                          *)

\* A client that has just connected, or does not run.
LEMMA NewClientSound ==
    ASSUME store \in [Keys -> Optional], NEW c \in Clients, NEW b \in BOOLEAN, NEW g, g = NewClient(c, b),
           NEW sq, sq = (IF b THEN <<Plain("HELLO")>> ELSE << >>),
           NEW d, d = [open |-> b, busy |-> FALSE, recursive |-> FALSE, rest |-> << >>]
    PROVE  /\ g \in Client /\ sq \in Seq(ToClient) /\ d \in Server
           /\ Sound(g, << >>, sq, d, store)
  <1>0. << >> \in Seq(Shown) /\ << >> \in Seq(Notice) /\ << >> \in Seq(Call) /\ << >> \in Seq(KeyValue)
    OBVIOUS
  <1>1. NoReply \in Returns /\ NoReply.op = "none"
    <2>1. {} \in Sightings /\ Null \in AnyKey /\ Null \in Answer
      BY DEF Sightings, AnyKey, Answer, Optional
    <2> QED BY <1>0, <2>1 DEF NoReply, Returns
  <1>2. PICK view \in [Keys -> Optional] :
           view = (IF c \in Cached THEN [k \in Keys |-> Null] ELSE store) /\ (c \notin Cached => view = store)
    <2>1. [k \in Keys |-> Null] \in [Keys -> Optional]
      BY DEF Optional
    <2> QED BY <2>1
  <1>3. PICK last \in Returns : last = NoReply /\ last.op = "none"
    BY <1>1
  <1>4. /\ g.ok = b /\ g.cmdinprogress = FALSE /\ g.cmdsuccess = FALSE /\ g.listing = FALSE /\ g.result_list = << >>
        /\ g.hold_nesting = 0 /\ g.deltas = << >> /\ g.stack = << >> /\ g.view = view
        /\ g.known = (IF c \in Cached THEN {} ELSE Keys) /\ g.refreshed_once = FALSE /\ g.last = last
    BY <1>2, <1>3 DEF NewClient
  <1>5. g \in Client
    <2>1. Null \in AnyKey /\ Null \in Answer
      BY DEF AnyKey, Answer, Optional
    <2>2. PICK y \in BOOLEAN : y = ~b
      BY Zenon
    <2>4. PICK x \in SUBSET Keys : x = IF c \in Cached THEN {} ELSE Keys
      OBVIOUS
    <2>3. g = [ok |-> b, version |-> 0, cmdinprogress |-> FALSE, cmdsuccess |-> FALSE,
               result_key |-> Null, result |-> Null, listing |-> FALSE, result_list |-> << >>,
               hold_nesting |-> 0, deltas |-> << >>, stack |-> << >>, aborted |-> y,
               view |-> view, known |-> x, refreshed_once |-> FALSE, last |-> last]
      BY <1>2, <1>3, <2>2, <2>4 DEF NewClient
    <2> QED BY <1>0, <2>1, <2>3 DEF Client
  <1>6. PICK m : m = Plain("HELLO")
    OBVIOUS
  <1>7. m \in ToClient /\ m.cmd = "HELLO"
    BY <1>6 DEF Plain, Msg, ToClient, AnyKey, Answer, Optional
  <1>8. sq \in Seq(ToClient) /\ \A i \in 1..Len(sq) : sq[i].cmd = "HELLO"
    <2>1. << >> \in Seq(ToClient)
      OBVIOUS
    <2>2. CASE b
      <3>1. PICK w : w = <<m>>
        OBVIOUS
      <3>2. sq = w
        BY <1>6, <2>2, <3>1
      <3>3. w \in Seq(ToClient) /\ Len(w) = 1 /\ w[1] = m
        BY <1>7, <2>1, <3>1, OneMessage
      <3>4. \A i \in 1..Len(w) : i = 1
        BY <3>3
      <3> QED BY <1>7, <3>2, <3>3, <3>4
    <2>3. CASE ~b
      BY <2>1, <2>3
    <2> QED BY <2>2, <2>3
  <1>9. d \in Server /\ d.busy = FALSE
    BY <1>0 DEF Server
  <1>10. Shape(g)
    <2>1. Stacked(<< >>, 0) /\ Lists(<< >>, FALSE)
      BY DEF Stacked, Lists
    <2> QED BY <1>4, <2>1 DEF Shape
  <1>11. Seeing(g.stack, store)
    BY <1>4 DEF Seeing
  <1>12. Fresh(g, sq, d, store)
    <2>1. g.deltas \o sq = sq
      BY <1>4, <1>8, ConcatEmptySeq
    <2>2. ASSUME NEW k \in g.known PROVE Knows(g.view, sq, k, store[k])
      <3>1. g.view = store
        BY <1>2, <1>4, <2>2
      <3>2. \A j \in 1..Len(sq) : ~Tells(sq[j], k)
        BY <1>8 DEF Tells
      <3> QED BY <3>1, <3>2 DEF Knows
    <2>3. Loading(g.stack, g.refreshed_once)
      BY <1>4 DEF Loading
    <2>4. Unaware(g, sq)
      <3>1. Within(<< >>, g.known) /\ Within(sq, g.known)
        BY <1>8 DEF Within
      <3>2. \A k \in Keys : k \in g.known \/ g.view[k] = Null
        BY <1>2, <1>4
      <3> QED BY <1>4, <3>1, <3>2 DEF Unaware
    <2> QED BY <1>4, <2>1, <2>2, <2>3, <2>4 DEF Fresh
  <1>13. Progress(g, << >>, sq, d)
    <2>1. Silent(<< >>) /\ Still(sq)
      BY <1>8 DEF Silent, Still
    <2>2. ~Calling(g)
      BY <1>4 DEF Calling
    <2> QED BY <1>9, <2>1, <2>2 DEF Progress, Idle
  <1>14. Reported(g)
    <2>1. Right(g.last)
      BY <1>3, <1>4 DEF Right
    <2>2. \A i \in 2..Len(g.stack) : g.stack[i].op = "set"
      BY <1>4
    <2>3. Collected(g)
      BY <1>4 DEF Collected
    <2> QED BY <2>1, <2>2, <2>3 DEF Reported
  <1> QED BY <1>5, <1>8, <1>9, <1>10, <1>11, <1>12, <1>13, <1>14 DEF Sound

\* The invariant holds when every client has just connected.
LEMMA InitInv ==
    Init => UniConfInv
  <1> SUFFICES ASSUME Init PROVE UniConfInv
    OBVIOUS
  <1>1. store \in [Keys -> Optional] /\ c2s = [c \in Clients |-> << >>] /\ niceness = 0
    BY DEF Init
  <1>2. PICK sc \in Scenarios :
          /\ s2c = [c \in Clients |-> IF c \in sc.clients THEN <<Plain("HELLO")>> ELSE << >>]
          /\ dconn = [c \in Clients |-> [open |-> c \in sc.clients, busy |-> FALSE,
                                         recursive |-> FALSE, rest |-> << >>]]
          /\ cl = [c \in Clients |-> NewClient(c, c \in sc.clients)]
          /\ budget = sc.budget
    BY DEF Init
  <1>3. niceness \in 0..ContinueSelectAt /\ budget \in Nat
    BY <1>1, <1>2, BoundAssumption
  <1>4. ASSUME NEW c \in Clients
        PROVE  /\ cl[c] \in Client /\ s2c[c] \in Seq(ToClient) /\ dconn[c] \in Server /\ c2s[c] = << >>
               /\ Sound(cl[c], c2s[c], s2c[c], dconn[c], store)
    <2>0. (c \in sc.clients) \in BOOLEAN
      OBVIOUS
    <2>1. PICK b \in BOOLEAN : b = (c \in sc.clients)
      BY <2>0, Zenon
    <2>2. PICK g, sq, d : g = NewClient(c, b) /\ sq = (IF b THEN <<Plain("HELLO")>> ELSE << >>)
                /\ d = [open |-> b, busy |-> FALSE, recursive |-> FALSE, rest |-> << >>]
      OBVIOUS
    <2>3. cl[c] = g /\ s2c[c] = sq /\ dconn[c] = d /\ c2s[c] = << >>
      BY <1>1, <1>2, <2>1, <2>2
    <2>4. /\ g \in Client /\ sq \in Seq(ToClient) /\ d \in Server
          /\ Sound(g, << >>, sq, d, store)
      BY <1>1, <2>2, NewClientSound
    <2> QED BY <2>3, <2>4
  <1>5. c2s \in [Clients -> Seq(ToDaemon)]
    <2>1. << >> \in Seq(ToDaemon)
      OBVIOUS
    <2> QED BY <1>1, <2>1
  <1>6. s2c \in [Clients -> Seq(ToClient)] /\ dconn \in [Clients -> Server] /\ cl \in [Clients -> Client]
    <2>1. s2c = [c \in Clients |-> s2c[c]] /\ dconn = [c \in Clients |-> dconn[c]] /\ cl = [c \in Clients |-> cl[c]]
      BY <1>2
    <2>2. /\ \A c \in Clients : s2c[c] \in Seq(ToClient) /\ dconn[c] \in Server /\ cl[c] \in Client
      BY <1>4
    <2> QED BY <2>1, <2>2
  <1> QED BY <1>1, <1>3, <1>4, <1>5, <1>6 DEF UniConfInv, Types

\* Every step preserves the invariant: one case per action of Next.
LEMMA NextInv ==
    UniConfInv /\ [Next]_vars => UniConfInv'
  <1> SUFFICES ASSUME UniConfInv, [Next]_vars PROVE UniConfInv'
    OBVIOUS
  <1>1. ASSUME NEW c \in Clients, Starts(c) PROVE UniConfInv'
    <2>1. CASE \E k \in Keys : get(c, k)
      BY <1>1, <2>1, Questioned
    <2>2. CASE \E k \in Keys, v \in Optional : set(c, k, v)
      BY <1>1, <2>2, SetStep
    <2>3. CASE haschildren(c) \/ commit(c) \/ refresh(c) \/ cache_refresh(c)
      BY <1>1, <2>3, Questioned
    <2>4. CASE destroy(c)
      BY <1>1, <2>4, CloseStep
    <2>5. CASE \E b \in BOOLEAN : iterator(c, b)
      BY <1>1, <2>5, IteratorStep
    <2>6. CASE \E j, k \in Keys : \E v, w \in Values : setv(c, <<Pair(j, v), Pair(k, w)>>)
      BY <1>1, <2>6, SetvStep
    <2> QED BY <1>1, <2>1, <2>2, <2>3, <2>4, <2>5, <2>6 DEF Starts
  <1>2. ASSUME NEW c \in Clients, Continues(c) PROVE UniConfInv'
    <2>1. CASE conncallback(c)
      BY <1>2, <2>1, ConncallbackStep
    <2>2. CASE drain_done(c)
      BY <1>2, <2>2, DrainDoneStep
    <2>3. CASE flush_delta(c)
      BY <1>2, <2>3, FlushDeltaStep
    <2>4. CASE callback_done(c)
      BY <1>2, <2>4, CallbackDoneStep
    <2>5. CASE return(c)
      BY <1>2, <2>5, ReturnStep
    <2>6. CASE EndOfStream(c) \/ Timeout(c)
      BY <1>2, <2>6, CloseStep
    <2> QED BY <1>2, <2>1, <2>2, <2>3, <2>4, <2>5, <2>6 DEF Continues
  <1>3. ASSUME NEW c \in Clients, Daemon(c) PROVE UniConfInv'
    BY <1>3, DaemonStep
  <1>4. ASSUME NEW c \in Clients, Break(c) PROVE UniConfInv'
    BY <1>4, DoBreak
  <1>5. ASSUME NEW k \in Keys, NEW v \in Optional, LocalChange(k, v) PROVE UniConfInv'
    BY <1>5, DoLocalChange
  <1>6. CASE UNCHANGED vars
    BY <1>6 DEF vars, UniConfInv, Types
  <1> QED BY <1>1, <1>2, <1>3, <1>4, <1>5, <1>6 DEF Next

\* The invariant holds in every reachable state.
THEOREM UniConfInvariant == Spec => []UniConfInv
  BY InitInv, NextInv, PTL DEF Spec

-----------------------------------------------------------------------------
(* What the invariant implies.                                             *)

\* hold_nesting counts the calls.
LEMMA CallsCounted ==
    ASSUME NEW s \in Seq(Call), NEW h \in Nat, Stacked(s, h)
    PROVE  h = Cardinality({i \in 1..Len(s) : s[i].op # "notice"})
  <1>1. PICK n \in Nat : Len(s) = n
    OBVIOUS
  <1>2. PICK T : T = {i \in 1..Len(s) : s[i].op # "notice"}
    OBVIOUS
  <1>3. h = n - (IF n > 0 /\ s[1].op = "notice" THEN 1 ELSE 0)
    BY <1>1 DEF Stacked
  <1>4. CASE n > 0 /\ s[1].op = "notice"
    <2>1. T = 2..n
      <3>1. \A i \in 2..n : i \in 1..Len(s) /\ s[i].op # "notice"
        BY <1>1 DEF Stacked
      <3>2. \A i \in T : i \in 2..n
        BY <1>1, <1>2, <1>4
      <3> QED BY <1>2, <3>1, <3>2
    <2>2. Cardinality(2..n) = IF 2 > n THEN 0 ELSE n - 2 + 1
      BY FS_Interval
    <2>3. Cardinality(2..n) = n - 1
      BY <1>4, <2>2
    <2> QED BY <1>2, <1>3, <1>4, <2>1, <2>3
  <1>5. CASE ~(n > 0 /\ s[1].op = "notice")
    <2>1. T = 1..n
      BY <1>1, <1>2, <1>5 DEF Stacked
    <2>2. Cardinality(1..n) = IF 1 > n THEN 0 ELSE n - 1 + 1
      BY FS_Interval
    <2>3. Cardinality(1..n) = n
      BY <2>2
    <2>4. h = n
      BY <1>3, <1>5
    <2> QED BY <1>2, <2>1, <2>3, <2>4
  <1> QED BY <1>4, <1>5

\* The invariant gives the types, and the balance of holds and calls.
LEMMA InvTypeOK ==
    ASSUME UniConfInv PROVE TypeOK
  <1>1. store \in [Keys -> Optional] /\ niceness \in 0..ContinueSelectAt
    BY DEF UniConfInv, Types
  <1>2. ASSUME NEW c \in Clients
        PROVE  /\ cl[c].view \in [Keys -> Optional]
               /\ \A i \in 1..Len(c2s[c]) : c2s[c][i].cmd \in Commands
               /\ cl[c].hold_nesting =
                     Cardinality({i \in 1..Len(cl[c].stack) : cl[c].stack[i].op # "notice"})
               /\ cl[c].stack = << >> => cl[c].deltas = << >> /\ ~cl[c].listing
    <2>1. PICK g \in Client, cq \in Seq(ToDaemon) :
             g = cl[c] /\ cq = c2s[c] /\ Sound(g, cq, s2c[c], dconn[c], store)
      BY ClientFacts
    <2>2. /\ g.view \in [Keys -> Optional] /\ g.stack \in Seq(Call) /\ g.hold_nesting \in Nat
          /\ g.deltas \in Seq(Notice)
      BY DEF Client
    <2>3. /\ Stacked(g.stack, g.hold_nesting) /\ Lists(g.stack, g.listing)
          /\ g.hold_nesting = 0 => g.deltas = << >>
      BY <2>1 DEF Sound, Shape
    <2>4. \A i \in 1..Len(cq) : cq[i].cmd \in Commands
      <3>1. \A i \in 1..Len(cq) : cq[i] \in ToDaemon
        OBVIOUS
      <3> QED BY <3>1 DEF ToDaemon
    <2>5. g.hold_nesting = Cardinality({i \in 1..Len(g.stack) : g.stack[i].op # "notice"})
      BY <2>2, <2>3, CallsCounted
    <2>6. ASSUME g.stack = << >> PROVE g.deltas = << >> /\ ~g.listing
      <3>1. g.hold_nesting = 0
        BY <2>3, <2>6 DEF Stacked
      <3>2. ~g.listing
        BY <2>3, <2>6 DEF Lists
      <3> QED BY <2>3, <3>1, <3>2
    <2> QED BY <2>1, <2>2, <2>4, <2>5, <2>6
  <1> QED BY <1>1, <1>2 DEF TypeOK

\* Counting the questions, or the answers, of a queue.
LEMMA CountNone ==
    ASSUME NEW q, NEW S, \A i \in 1..Len(q) : q[i].cmd \notin S
    PROVE  Cardinality({i \in 1..Len(q) : q[i].cmd \in S}) = 0
  <1>1. {i \in 1..Len(q) : q[i].cmd \in S} = {}
    OBVIOUS
  <1> QED BY <1>1, FS_EmptySet

\* A sequence with exactly one element of a kind.
LEMMA CountOne ==
    ASSUME NEW q, NEW S, NEW j \in 1..Len(q), q[j].cmd \in S,
           \A i \in 1..Len(q) : i # j => q[i].cmd \notin S
    PROVE  Cardinality({i \in 1..Len(q) : q[i].cmd \in S}) = 1
  <1>1. {i \in 1..Len(q) : q[i].cmd \in S} = {j}
    OBVIOUS
  <1> QED BY <1>1, FS_Singleton

\* The invariant gives: as many answers outstanding as the waiting call asked for.
LEMMA InvReplies ==
    ASSUME UniConfInv, NoSetv PROVE RepliesMatchRequests
  <1>1. SUFFICES ASSUME NEW c \in Clients, cl[c].ok, dconn[c].open
                 PROVE  Outstanding(c) = IF Waiting(c) THEN 1 ELSE 0
    BY DEF RepliesMatchRequests
  <1>2. PICK g \in Client, cq \in Seq(ToDaemon), sq \in Seq(ToClient), d \in Server :
           g = cl[c] /\ cq = c2s[c] /\ sq = s2c[c] /\ d = dconn[c] /\ Sound(g, cq, sq, d, store)
    BY ClientFacts
  <1>3. Progress(g, cq, sq, d)
    BY <1>2 DEF Sound
  <1>4. Waiting(c) <=> Calling(g)
    BY <1>2 DEF Waiting, AtTop, Top, Calling
  <1>5. Outstanding(c) = Questions(cq) + Answers(sq) + (IF d.busy THEN 1 ELSE 0)
    BY <1>2 DEF Outstanding
  <1>6. Silent(cq) => Questions(cq) = 0
    BY CountNone DEF Silent, Questions
  <1>7. Unanswered(sq) => Answers(sq) = 0
    BY CountNone DEF Unanswered, Answers
  <1>8. Still(sq) => Unanswered(sq)
    BY DEF Still, Unanswered, Replies
  <1>9. CASE ~Calling(g)
    <2>1. Idle(cq, sq, d)
      BY <1>1, <1>2, <1>3, <1>9 DEF Progress
    <2>2. Questions(cq) = 0 /\ Answers(sq) = 0 /\ ~d.busy
      BY <1>6, <1>7, <1>8, <2>1 DEF Idle
    <2> QED BY <1>4, <1>5, <1>9, <2>2
  <1>10. CASE Calling(g)
    <2>1. PICK f, got : Phase(f, got, cq, sq, d)
      BY <1>3, <1>10 DEF Progress
    <2>2. CASE Asked(f, got, cq, sq, d)
      <3>n. PICK n \in Nat : Len(cq) = n
        OBVIOUS
      <3>1. n # 0 /\ cq[n].cmd \in Asks
        BY <2>2, <3>n DEF Asked, RightAsk, Asks, Commands
      <3>2. n \in 1..Len(cq) /\ \A i \in 1..Len(cq) : i # n => i \in 1..(Len(cq) - 1)
        BY <3>n, <3>1
      <3>3. \A i \in 1..Len(cq) : i # n => cq[i].cmd \notin Asks
        BY <2>2, <3>2 DEF Asked
      <3>4. Cardinality({i \in 1..Len(cq) : cq[i].cmd \in Asks}) = 1
        BY <3>1, <3>2, <3>3, CountOne
      <3>5. Questions(cq) = 1
        BY <3>4 DEF Questions
      <3>6. Answers(sq) = 0 /\ ~d.busy
        BY <1>7, <1>8, <2>2 DEF Asked
      <3> QED BY <1>4, <1>5, <1>10, <3>5, <3>6
    <2>3. CASE Begun(f, got, cq, sq, d)
      <3>1. Questions(cq) = 0 /\ Answers(sq) = 0 /\ d.busy
        BY <1>6, <1>7, <2>3 DEF Begun
      <3> QED BY <1>4, <1>5, <1>10, <3>1
    <2>4. CASE Answered(f, got, cq, sq, d)
      <3>1. PICK j \in 1..Len(sq) :
               /\ RightReply(f, sq[j])
               /\ \A i \in 1..Len(sq) : i # j => sq[i].cmd \notin Replies
        BY <2>4 DEF Answered, Replied
      <3>2. sq[j].cmd \in Replies
        BY <3>1 DEF RightReply
      <3>3. Cardinality({i \in 1..Len(sq) : sq[i].cmd \in Replies}) = 1
        BY <3>1, <3>2, CountOne
      <3>4. Answers(sq) = 1
        BY <3>3 DEF Answers
      <3>5. Questions(cq) = 0 /\ ~d.busy
        BY <1>6, <2>4 DEF Answered
      <3> QED BY <1>4, <1>5, <1>10, <3>4, <3>5
    <2>5. ~Cut(sq, d)
      BY <1>1, <1>2 DEF Cut
    <2> QED BY <2>1, <2>2, <2>3, <2>4, <2>5 DEF Phase
  <1> QED BY <1>9, <1>10

\* The invariant gives: what the last call returned is right.
LEMMA InvRight ==
    ASSUME UniConfInv, NoSetv, WatchersDoNotWait, NEW c \in Clients
    PROVE  Right(cl[c].last) /\ cl[c].last \in Returns
  <1>1. cl[c] \in Client /\ Sound(cl[c], c2s[c], s2c[c], dconn[c], store)
    BY ClientFacts
  <1> QED BY <1>1 DEF Sound, Reported, Client

\* The invariant gives ListingIsFaithful.
LEMMA InvListing ==
    ASSUME UniConfInv, NoSetv, WatchersDoNotWait PROVE ListingIsFaithful
  <1>1. ASSUME NEW c \in Clients, cl[c].last.op = "iterator", cl[c].last.val = "TRUE"
        PROVE  LET r == cl[c].last
                   ValuesSeen(k) == {p[2] : p \in {q \in r.seen : q[1] = k}}
               IN  /\ \A i \in 1..Len(r.list) : <<r.list[i].key, r.list[i].val>> \in r.seen
                   /\ \A k \in Keys : Null \notin ValuesSeen(k) => \E i \in 1..Len(r.list) : r.list[i].key = k
    <2>1. PICK r : r = cl[c].last
      OBVIOUS
    <2>2. Shows(r, r.list, << >>, << >>)
      BY <1>1, <2>1, InvRight DEF Right
    <2>3. \A i \in 1..Len(r.list) : <<r.list[i].key, r.list[i].val>> \in r.seen
      BY <2>2 DEF Shows, Witnessed
    <2>4. ASSUME NEW k \in Keys, Null \notin {p[2] : p \in {q \in r.seen : q[1] = k}}
          PROVE  \E i \in 1..Len(r.list) : r.list[i].key = k
      <3>1. <<k, Null>> \notin r.seen
        <4>1. SUFFICES ASSUME <<k, Null>> \in r.seen PROVE FALSE
          OBVIOUS
        <4>2. PICK p : p = <<k, Null>>
          OBVIOUS
        <4>3. p \in r.seen /\ p[1] = k /\ p[2] = Null
          BY <4>1, <4>2
        <4> QED BY <2>4, <4>3
      <3>2. ~Mentions(<< >>, k) /\ ~Brings(<< >>, k)
        BY DEF Mentions, Brings
      <3>3. Mentions(r.list, k)
        BY <2>2, <3>1, <3>2 DEF Shows
      <3> QED BY <3>3 DEF Mentions
    <2> QED BY <2>1, <2>3, <2>4
  <1> QED BY <1>1 DEF ListingIsFaithful

\* The invariant gives ViewConverges.
LEMMA InvView ==
    ASSUME UniConfInv, LoadRule PROVE ViewConverges
  <1>1. SUFFICES ASSUME NEW c \in Clients, cl[c].ok, dconn[c].open, NEW k \in cl[c].known
                 PROVE  WillKnow(c, k) = store[k]
    BY DEF ViewConverges
  <1>2. PICK q : q = News(c)
    OBVIOUS
  <1>3. q \in Seq(ToClient) /\ Knows(cl[c].view, q, k, store[k])
    <2>1. cl[c] \in Client /\ s2c[c] \in Seq(ToClient) /\ Sound(cl[c], c2s[c], s2c[c], dconn[c], store)
      BY ClientFacts
    <2>2. cl[c].deltas \in Seq(ToClient)
      BY <2>1, DeltasAreMessages
    <2>3. cl[c].deltas \o s2c[c] \in Seq(ToClient)
      BY <2>1, <2>2, ConcatProperties
    <2> QED BY <1>1, <1>2, <2>1, <2>3 DEF News, Sound, Fresh
  <1>4. PICK at : at = {i \in 1..Len(q) : q[i].cmd = "NOTICE" /\ q[i].key = k}
    OBVIOUS
  <1>5. WillKnow(c, k) = IF at = {} THEN cl[c].view[k] ELSE q[CHOOSE i \in at : \A j \in at : j <= i].val
    BY <1>2, <1>4 DEF WillKnow
  <1>6. \A i \in 1..Len(q) : i \in at <=> Tells(q[i], k)
    BY <1>4 DEF Tells
  <1>7. CASE cl[c].view[k] = store[k] /\ \A j \in 1..Len(q) : ~Tells(q[j], k)
    <2>1. at = {}
      BY <1>4, <1>6, <1>7
    <2> QED BY <1>5, <1>7, <2>1
  <1>8. ASSUME NEW i \in 1..Len(q), Tells(q[i], k), q[i].val = store[k],
               \A j \in (i + 1)..Len(q) : ~Tells(q[j], k)
        PROVE  WillKnow(c, k) = store[k]
    <2>n. PICK n \in Nat : Len(q) = n
      BY <1>3
    <2>1. i \in at /\ \A j \in at : j <= i
      <3>1. i \in at
        BY <1>6, <1>8
      <3>2. ASSUME NEW j \in at, ~(j <= i) PROVE FALSE
        <4>1. j \in 1..Len(q) /\ Tells(q[j], k)
          BY <1>4, <1>6
        <4>2. j \in (i + 1)..Len(q)
          BY <2>n, <3>2, <4>1
        <4> QED BY <1>8, <4>1, <4>2
      <3> QED BY <3>1, <3>2
    <2>2. PICK z : z = CHOOSE x \in at : \A j \in at : j <= x
      OBVIOUS
    <2>3. z \in at /\ \A j \in at : j <= z
      BY <2>1, <2>2
    <2>4. z = i
      <3>1. z \in 1..Len(q)
        BY <1>4, <2>3
      <3>2. z <= i /\ i <= z
        BY <2>1, <2>3
      <3> QED BY <2>n, <3>1, <3>2
    <2> QED BY <1>5, <1>8, <2>1, <2>2, <2>4
  <1> QED BY <1>3, <1>7, <1>8 DEF Knows

-----------------------------------------------------------------------------
(* The theorems.                                                           *)

\* TypeOK: for any program, hold_nesting counts exactly the calls of
\* UniClientGen that are under way, held notices are not forgotten when the
\* last of them has returned, and no listing is left behind.
THEOREM HoldsAreBalanced == Spec => []TypeOK
  BY UniConfInvariant, InvTypeOK, PTL

\* RequestsConsistent: if setv() is not called, there is exactly one request
\* or reply on a working connection while a call waits in do_select(), and
\* none otherwise, for any interleaving of calls, callbacks, other
\* connections' changes, yields of do_subtree(), breaks and timeouts.
THEOREM RequestsAreConsistent ==
    ASSUME NoSetv PROVE Spec => []RequestsConsistent
  <1>1. UniConfInv => RequestsConsistent
    BY InvTypeOK, InvReplies DEF RequestsConsistent
  <1> QED BY <1>1, UniConfInvariant, PTL

\* GetIsCurrent: if moreover watchers make no call that waits, what get()
\* returns is a value that the key had during the call.
THEOREM GetsAreCurrent ==
    ASSUME NoSetv, WatchersDoNotWait PROVE Spec => []GetIsCurrent
  <1>1. UniConfInv => GetIsCurrent
    BY InvRight DEF GetIsCurrent, Right
  <1> QED BY <1>1, UniConfInvariant, PTL

\* ListingIsFaithful: under the same rules, a listing that succeeds shows
\* only values of its time and misses no key that was there all the time,
\* however often do_subtree() yields to commands that change the registry.
THEOREM ListingsAreFaithful ==
    ASSUME NoSetv, WatchersDoNotWait PROVE Spec => []ListingIsFaithful
  <1>1. UniConfInv => ListingIsFaithful
    BY InvListing
  <1> QED BY <1>1, UniConfInvariant, PTL

\* ViewConverges: the notices that are held and on the way bring a watcher to
\* the contents of the registry: one without a cache in any program, and one
\* with a UniCacheGen, before it loads the tree and after, in programs
\* without setv() whose watchers make no call that waits.  What a cache knows
\* then are the keys that loadtree() did not skip, and that did not change
\* while it was running or have changed since.
THEOREM ViewsConverge ==
    ASSUME LoadRule PROVE Spec => []ViewConverges
  <1>1. UniConfInv => ViewConverges
    BY InvView
  <1> QED BY <1>1, UniConfInvariant, PTL

=============================================================================
