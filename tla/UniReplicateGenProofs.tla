------------------------ MODULE UniReplicateGenProofs ------------------------
(***************************************************************************)
(* Proofs about UniReplicateGen: for any generators, any list of them and  *)
(* any changes, the attempts to connect are bounded, replicas that are     *)
(* connected agree when nothing is under way, and the watchers know what   *)
(* local generators hold, with the exceptions that the properties name.    *)
(*                                                                         *)
(* Two replicas may differ in a key only while a notice about that key is  *)
(* Pending: on its way from a daemon, or read and not yet passed on.  That *)
(* passing it on makes them agree takes two facts about single generators: *)
(* where the notice came from holds its value, unless a later notice from  *)
(* there follows (Sourced), and so does each generator that it has reached *)
(* (Passed).  replicate() compares every generator with the first one      *)
(* (Compared), and what it has listed of that one is what it holds         *)
(* (Listed).                                                               *)
(***************************************************************************)
EXTENDS UniReplicateGen, SequenceTheorems, FiniteSetTheorems, WellFoundedInduction, TLAPS

\* Types.
Pcs == {"set", "set2", "get", "get2", "get3", "refresh", "refresh2", "delta", "pass", "delivered",
        "told", "begin", "replicate", "flush", "crashed"}
Carrying == {"set", "set2", "delta", "pass", "delivered", "told"}
Notice == {"delta", "pass", "delivered"}
FrameRec == {f \in [pc : Pcs, c : Change \cup {None}, src : Gens \cup {None}, first : Gens \cup {None},
                    todo : Seq(Gens), items : Seq(Change)] :
                /\ f.pc \in Carrying => f.c \in Change
                /\ f.pc \in Notice => f.src \in Gens}

Types ==
    /\ order \in Seq(Gens) /\ gen \in [Gens -> Generator] /\ stack \in Seq(FrameRec) /\ deltas \in Seq(Change)
    /\ seen \in Contents /\ dropped \in BOOLEAN /\ lost \in BOOLEAN /\ unseen \in BOOLEAN
    /\ up \in [Gens -> BOOLEAN] /\ now \in 0..MaxTime /\ budget \in 0..Budget

\* Sequences of generators, of changes and of frames.
On(q, i) == \E n \in 1..Len(q) : q[n] = i
Distinct(q) == \A m, n \in 1..Len(q) : q[m] = q[n] => m = n
Carries(q, k) == \E n \in 1..Len(q) : q[n].key = k
Has(st, pcs) == \E n \in 1..Len(st) : st[n].pc \in pcs
Passing(st, k) == \E n \in 1..Len(st) : st[n].pc = "pass" /\ st[n].c.key = k
Waits(st, k) == \E n \in 1..Len(st) : st[n].pc = "delta" /\ st[n].c.key = k

\* A notice about k is on its way or waits to be passed on.
Pending(g, st, k) == Waits(st, k) \/ \E i \in Gens : Carries(g[i].inbox, k)

\* A generator x: the attempts to connect, and the last notice about a key that is on
\* its way has the key's value.
Attempts(x, w) ==
    /\ x.next = x.since + x.tries * Interval
    /\ x.tries > 0 => (x.tries - 1) * Interval <= w - x.since
Current(x) ==
    \A n \in 1..Len(x.inbox) :
        \/ x.val[x.inbox[n].key] = x.inbox[n].value
        \/ \E m \in 1..Len(x.inbox) : m > n /\ x.inbox[m].key = x.inbox[n].key
GenOK(i, x, o, u, w) ==
    /\ Attempts(x, w) /\ Current(x)
    /\ x.inbox # << >> => i \in Remote /\ x.conn = "ok" /\ On(o, i)
    /\ i \notin Remote => x.conn = "ok" /\ u

\* Above a replicate() only notices are passed on, at first those of its first generator;
\* notices that were read together stay together, unless the watchers are being told
\* of one of them; and nothing is passed on meanwhile.
Tops == {"pass", "begin", "crashed"}
Above(f, h) ==
    /\ f.pc = "replicate" => h.pc \in {"delta", "pass"} /\ (f.src = f.first => h.src = f.first)
    /\ f.pc = "delivered" => h.pc # "pass"
Shape(st) ==
    /\ \A n \in 1..Len(st) : st[n].pc \in Tops => n = Len(st)
    /\ \A m, n \in 1..Len(st) : m < n => Above(st[m], st[n])
    /\ \A m, n \in 1..Len(st) : m < n /\ st[m].pc = "delta" =>
          \/ st[n].pc \in {"delta", "pass"} /\ st[n].src = st[m].src
          \/ \E l \in 1..n : l > m /\ st[l].pc = "delivered"

FrameOK(f, o) ==
    /\ f.pc \in {"delta", "pass"} => On(o, f.src)
    /\ f.pc \in {"pass", "replicate"} => \A n \in 1..Len(f.todo) : On(o, f.todo[n])
    /\ f.pc = "replicate" =>
          /\ Distinct(f.todo)
          /\ \A n \in 1..Len(f.items) : f.items[n].value # Null
          /\ f.items # << >> => f.src # None
          /\ f.src # None => On(o, f.src)
          /\ f.first # None => On(o, f.first)

Base ==
    /\ Types /\ Distinct(order) /\ Shape(stack)
    /\ \A i \in Gens : GenOK(i, gen[i], order, up[i], now)
    /\ \A n \in 1..Len(stack) : FrameOK(stack[n], order)
    /\ deltas # << >> => Has(stack, {"replicate", "flush", "crashed"})

\* The notice at the top is about to be ignored.
Doomed(st) == st # << >> /\ st[Len(st)].pc = "delta" /\ Has(st, {"pass", "delivered"})

\* i is connected, and has been all the time, or replicate() has seen it come back.
Steady(x, un, i) == x.conn = "ok" /\ (i \in Remote => ~un)

\* A notice from i about k follows that at place n.
Later(x, st, n, i, k) ==
    Carries(x.inbox, k) \/ \E m \in 1..(n - 1) : st[m].pc = "delta" /\ st[m].src = i /\ st[m].c.key = k

Sourced(g, st, un, n, i, c) ==
    Steady(g[i], un, i) => g[i].val[c.key] = c.value \/ Later(g[i], st, n, i, c.key)
SourcedAll(g, st, un) ==
    \A n \in 1..Len(st) : st[n].pc \in {"delta", "pass"} => Sourced(g, st, un, n, st[n].src, st[n].c)

Reached(x, un, i, c) == Steady(x, un, i) => x.val[c.key] = c.value \/ Carries(x.inbox, c.key)
PassedAll(o, g, st, un) ==
    \A n \in 1..Len(st) : st[n].pc = "pass" =>
        \A i \in Gens : On(o, i) /\ ~On(st[n].todo, i) /\ i # st[n].src => Reached(g[i], un, i, st[n].c)

ListedAll(g, st, un) ==
    \A n \in 1..Len(st) : st[n].pc = "replicate" /\ st[n].src = st[n].first =>
        \A m \in 1..Len(st[n].items) : Reached(g[st[n].first], un, st[n].first, st[n].items[m])

\* The first generator stays connected, unless part of a replicate() was lost.
FirstHeld(g, st) ==
    \A n \in 1..Len(st) : st[n].pc = "replicate" /\ st[n].first # None => g[st[n].first].conn = "ok"

\* No generator before the first one is in C, and nothing was listed before it was visited.
Leads(o, f, C) ==
    /\ f.first = None => \A i \in C : ~On(o, i)
    /\ f.first # None /\ On(f.todo, f.first) =>
          /\ \A i \in C : On(o, i) => On(f.todo, i)
          /\ \A m, n \in 1..Len(f.todo) : m < n /\ f.todo[n] = f.first => f.todo[m] \notin C
Connected(g) == {i \in Gens : g[i].conn = "ok"}
Unlisted(f) == f.first # None /\ On(f.todo, f.first) => f.items = << >>
LeadsAll(o, st, C) == \A n \in 1..Len(st) : st[n].pc = "replicate" => Leads(o, st[n], C)
UnlistedAll(st) == \A n \in 1..Len(st) : st[n].pc = "replicate" => Unlisted(st[n])

Same(g, st, i, j, k) == g[i].val[k] = g[j].val[k] \/ Pending(g, st, k)
Replicating == {"begin", "replicate", "crashed"}

\* k of j is still to be compared with the first generator's.
Uncompared(f, j, k) == On(f.todo, j) \/ (f.src = j /\ Carries(f.items, k))
Compared(o, g, st, f, j, k) ==
    \/ Same(g, st, f.first, j, k)
    \/ g[f.first].val[k] = Null /\ Uncompared(f, j, k)
    \/ f.src = f.first /\ Carries(f.items, k)

AgreeAll(o, g, st) ==
    /\ ~Has(st, Replicating) =>
          \A i, j \in Connected(g), k \in Keys : On(o, i) /\ On(o, j) /\ ~Passing(st, k) => Same(g, st, i, j, k)
    /\ \A n \in 1..Len(st) :
          st[n].pc = "replicate" /\ st[n].first \in Connected(g) /\ ~On(st[n].todo, st[n].first) =>
              \A j \in Connected(g), k \in Keys : On(o, j) /\ ~Passing(st, k) => Compared(o, g, st, st[n], j, k)

\* What the watchers will have been told of k in the end: d is held, s they have seen.
Told(d, s, k, v) ==
    \/ \E n \in 1..Len(d) : d[n].key = k /\ d[n].value = v /\ \A m \in 1..Len(d) : m > n => d[m].key # k
    \/ s[k] = v /\ ~Carries(d, k)
Known(g, st, d, s, i, k) == g[i].val[k] = Null \/ Told(d, s, k, g[i].val[k]) \/ Pending(g, st, k)
Announced(g, st, d, s, f, i, k) ==
    \/ Known(g, st, d, s, i, k)
    \/ /\ Uncompared(f, i, k)
       /\ On(f.todo, f.first) \/ g[f.first].val[k] = Null \/ (f.src = f.first /\ Carries(f.items, k))
WatchAll(o, g, st, d, s) ==
    /\ ~Has(st, Replicating) =>
          \A i \in Gens \ Remote, k \in Keys : On(o, i) /\ ~Passing(st, k) => Known(g, st, d, s, i, k)
    /\ \A n \in 1..Len(st) : st[n].pc = "replicate" /\ st[n].first # None =>
          \A i \in Gens \ Remote, k \in Keys : On(o, i) /\ ~Passing(st, k) => Announced(g, st, d, s, st[n], i, k)

\* The inductive invariant: what is known of single generators, what of pairs of them,
\* and what of the watchers.
Knows ==
    /\ Base
    /\ ~dropped /\ ~Doomed(stack) => SourcedAll(gen, stack, unseen)
    /\ ~dropped => PassedAll(order, gen, stack, unseen)
    /\ ListedAll(gen, stack, unseen)
    /\ ~lost => FirstHeld(gen, stack)
    /\ LeadsAll(order, stack, Gens \ Remote)
    /\ ~unseen => LeadsAll(order, stack, Connected(gen)) /\ UnlistedAll(stack)
Agrees == ~dropped /\ ~unseen /\ (lost => Len(order) <= 2) => AgreeAll(order, gen, stack)
Watched == ~dropped /\ ~lost => WatchAll(order, gen, stack, deltas, seen)
ReplicaInv == Knows /\ Agrees /\ Watched

-----------------------------------------------------------------------------
(* Sequences.                                                              *)

\* A sequence with one more element.
LEMMA AppendFacts ==
    ASSUME NEW S, NEW q \in Seq(S), NEW x \in S, NEW p, p = Append(q, x)
    PROVE  /\ p \in Seq(S) /\ Len(q) \in Nat /\ Len(p) = Len(q) + 1
           /\ \A i \in 1..Len(q) : p[i] = q[i] /\ i \in 1..Len(p)
           /\ p[Len(p)] = x /\ Len(p) \in 1..Len(p)
           /\ \A i \in 1..Len(p) : i \in 1..Len(q) \/ i = Len(p)
  <1>1. /\ p \in Seq(S) /\ Len(p) = Len(q) + 1 /\ p[Len(q) + 1] = x
        /\ \A i \in 1..Len(q) : p[i] = q[i]
    BY AppendProperties
  <1>2. Len(q) \in Nat
    OBVIOUS
  <1> QED BY <1>1, <1>2

\* A sequence without its last element.
LEMMA FrontFacts ==
    ASSUME NEW S, NEW q \in Seq(S), q # << >>, NEW p, p = Front(q)
    PROVE  /\ p \in Seq(S) /\ Len(q) \in Nat /\ Len(p) = Len(q) - 1 /\ Len(q) \in 1..Len(q)
           /\ \A i \in 1..Len(p) : p[i] = q[i] /\ i \in 1..Len(q) /\ i < Len(q)
           /\ \A i \in 1..Len(q) : i \in 1..Len(p) \/ i = Len(q)
  <1>1. PICK l \in Nat : Len(q) = l
    OBVIOUS
  <1>2. l # 0
    BY <1>1
  <1>3. l - 1 \in Int /\ \A i \in 1..(l - 1) : q[i] \in S
    BY <1>1
  <1>4. PICK r : r = SubSeq(q, 1, l - 1)
    OBVIOUS
  <1>5. /\ r \in Seq(S) /\ Len(r) = (IF 1 <= l - 1 THEN (l - 1) - 1 + 1 ELSE 0)
        /\ \A i \in 1..((l - 1) - 1 + 1) : r[i] = q[1 + i - 1]
    BY <1>3, <1>4, SubSeqProperties
  <1>6. (l - 1) - 1 + 1 = l - 1 /\ \A i \in 1..(l - 1) : 1 + i - 1 = i
    OBVIOUS
  <1>7. r \in Seq(S) /\ Len(r) = l - 1 /\ \A i \in 1..(l - 1) : r[i] = q[i]
    BY <1>2, <1>5, <1>6
  <1>8. p = r
    BY <1>1, <1>4 DEF Front
  <1> QED BY <1>1, <1>2, <1>7, <1>8

\* A sequence followed by another one.
LEMMA ConcatFacts ==
    ASSUME NEW S, NEW q \in Seq(S), NEW r \in Seq(S), NEW p, p = q \o r
    PROVE  /\ p \in Seq(S) /\ Len(q) \in Nat /\ Len(r) \in Nat /\ Len(p) = Len(q) + Len(r)
           /\ \A i \in 1..Len(q) : p[i] = q[i] /\ i \in 1..Len(p)
           /\ \A i \in 1..Len(r) : p[Len(q) + i] = r[i] /\ Len(q) + i \in 1..Len(p)
           /\ \A i \in 1..Len(p) : i \in 1..Len(q) \/ (i - Len(q) \in 1..Len(r) /\ p[i] = r[i - Len(q)])
  <1>1. PICK l \in Nat, m \in Nat : Len(q) = l /\ Len(r) = m
    OBVIOUS
  <1>2. /\ p \in Seq(S) /\ Len(p) = l + m
        /\ \A i \in 1..(l + m) : p[i] = IF i <= l THEN q[i] ELSE r[i - l]
    BY <1>1, ConcatProperties
  <1>3. \A i \in 1..l : p[i] = q[i] /\ i \in 1..(l + m)
    BY <1>2
  <1>4. ASSUME NEW i \in 1..m PROVE p[l + i] = r[i] /\ l + i \in 1..(l + m)
    <2>1. l + i \in 1..(l + m) /\ ~(l + i <= l) /\ (l + i) - l = i
      OBVIOUS
    <2> QED BY <1>2, <2>1
  <1>5. ASSUME NEW i \in 1..(l + m), i \notin 1..l PROVE i - l \in 1..m /\ p[i] = r[i - l]
    <2>1. i - l \in 1..m /\ ~(i <= l)
      BY <1>5
    <2> QED BY <1>2, <2>1
  <1> QED BY <1>1, <1>2, <1>3, <1>4, <1>5

\* A sequence without its first element.
LEMMA TailFacts ==
    ASSUME NEW S, NEW q \in Seq(S), q # << >>, NEW p, p = Tail(q), NEW x, x = Head(q)
    PROVE  /\ p \in Seq(S) /\ x \in S /\ x = q[1] /\ Len(q) \in Nat /\ Len(p) = Len(q) - 1 /\ 1 \in 1..Len(q)
           /\ \A i \in 1..Len(p) : p[i] = q[i + 1] /\ i + 1 \in 1..Len(q)
           /\ \A i \in 1..Len(q) : i = 1 \/ (i - 1 \in 1..Len(p) /\ p[i - 1] = q[i])
  <1>1. PICK l \in Nat : Len(q) = l
    OBVIOUS
  <1>2. l # 0
    BY <1>1
  <1>3. p \in Seq(S) /\ Len(p) = l - 1 /\ \A i \in 1..(l - 1) : p[i] = q[i + 1]
    BY <1>1, <1>2, HeadTailProperties
  <1>4. x = q[1] /\ x \in S
    BY <1>1, <1>2
  <1>5. \A i \in 1..l : i = 1 \/ (i - 1 \in 1..(l - 1) /\ (i - 1) + 1 = i)
    OBVIOUS
  <1>6. \A i \in 1..l : i = 1 \/ (i - 1 \in 1..(l - 1) /\ p[i - 1] = q[i])
    BY <1>3, <1>5
  <1> QED BY <1>1, <1>2, <1>3, <1>4, <1>6

\* Membership of the list.
LEMMA ToSetIsOn ==
    ASSUME NEW S, NEW q \in Seq(S)
    PROVE  \A i : i \in ToSet(q) <=> On(q, i)
  <1>1. DOMAIN q = 1..Len(q)
    OBVIOUS
  <1> QED BY <1>1 DEF ToSet, On

\* A finite set as a sequence.
Enumerates(q, T, S) ==
    /\ q \in Seq(S)
    /\ \A n \in 1..Len(q) : q[n] \in T
    /\ \A x \in T : \E n \in 1..Len(q) : q[n] = x

LEMMA SetToSeqFacts ==
    ASSUME NEW S, NEW T \in SUBSET S, IsFiniteSet(T), NEW q, q = SetToSeq(T)
    PROVE  Enumerates(q, T, S)
  <1>1. PICK m \in Nat : m = Cardinality(T)
    BY FS_CardinalityType
  <1>2. ExistsBijection(1..m, T)
    BY <1>1, FS_NatBijection, FS_CountingElements
  <1>3. PICK h \in Bijection(1..m, T) : TRUE
    BY <1>2 DEF ExistsBijection
  <1>4. h \in [1..m -> T] /\ (\A x \in T : \E n \in 1..m : h[n] = x) /\ (\A a, b \in 1..m : h[a] = h[b] => a = b)
    BY <1>3 DEF Bijection, Injection, Surjection, IsInjective
  <1>5. IsInjective(h)
    BY <1>4 DEF IsInjective
  <1>6. q = CHOOSE f \in [1..m -> T] : IsInjective(f)
    BY <1>1 DEF SetToSeq
  <1>7. q \in [1..m -> T] /\ IsInjective(q)
    BY <1>4, <1>5, <1>6
  <1>8. q \in Injection(1..m, T)
    BY <1>7 DEF Injection, IsInjective
  <1>9. IsFiniteSet(1..m) /\ Cardinality(1..m) = Cardinality(T)
    <2>1. IsFiniteSet(1..m) /\ Cardinality(1..m) = IF 1 > m THEN 0 ELSE m - 1 + 1
      BY FS_Interval
    <2> QED BY <1>1, <2>1
  <1>10. q \in Surjection(1..m, T)
    BY <1>8, <1>9, FS_Injection
  <1>11. \A x \in T : \E n \in 1..m : q[n] = x
    BY <1>10 DEF Surjection
  <1>12. q \in Seq(S) /\ Len(q) = m
    BY <1>7
  <1> QED BY <1>7, <1>11, <1>12 DEF Enumerates

-----------------------------------------------------------------------------
(* Frames.                                                                 *)

RawFrame == [pc : Pcs, c : Change \cup {None}, src : Gens \cup {None}, first : Gens \cup {None},
             todo : Seq(Gens), items : Seq(Change)]

LEMMA FrameRecFacts ==
    ASSUME NEW f
    PROVE  f \in FrameRec <=>
              f \in RawFrame /\ (f.pc \in Carrying => f.c \in Change) /\ (f.pc \in Notice => f.src \in Gens)
  BY DEF FrameRec, RawFrame

LEMMA FieldsOf ==
    ASSUME NEW f \in FrameRec
    PROVE  /\ f \in RawFrame /\ f.pc \in Pcs /\ f.src \in Gens \cup {None} /\ f.first \in Gens \cup {None}
           /\ f.todo \in Seq(Gens) /\ f.items \in Seq(Change)
           /\ f.pc \in Notice => f.src \in Gens /\ f.c \in Change
           /\ f.pc \in {"set", "set2", "told"} => f.c \in Change
           /\ f.c \in Change => f.c.key \in Keys /\ f.c.value \in Values \cup {Null}
  <1>1. f \in RawFrame /\ (f.pc \in Carrying => f.c \in Change) /\ (f.pc \in Notice => f.src \in Gens)
    BY FrameRecFacts
  <1>2. /\ f.pc \in Pcs /\ f.src \in Gens \cup {None} /\ f.first \in Gens \cup {None}
        /\ f.todo \in Seq(Gens) /\ f.items \in Seq(Change)
    BY <1>1 DEF RawFrame
  <1>3. Notice \subseteq Carrying /\ {"set", "set2", "told"} \subseteq Carrying
    BY DEF Carrying, Notice
  <1>4. f.c \in Change => f.c.key \in Keys /\ f.c.value \in Values \cup {Null}
    BY DEF Change
  <1> QED BY <1>1, <1>2, <1>3, <1>4

\* A frame for a call without a change.
LEMMA FrameFacts ==
    ASSUME NEW pc \in {"get", "refresh", "begin", "flush", "crashed", "replicate"}, NEW f, f = Frame(pc)
    PROVE  /\ f \in FrameRec /\ f.pc = pc /\ f.src = None /\ f.first = None /\ f.todo = << >> /\ f.items = << >>
  <1>1. pc \in Pcs /\ pc \notin Carrying /\ pc \notin Notice
    BY DEF Pcs, Carrying, Notice
  <1>2. << >> \in Seq(Gens) /\ << >> \in Seq(Change)
    OBVIOUS
  <1>3. f = [pc |-> pc, c |-> None, src |-> None, first |-> None, todo |-> << >>, items |-> << >>]
    BY DEF Frame
  <1>4. f.pc = pc /\ f.src = None /\ f.first = None /\ f.todo = << >> /\ f.items = << >>
    BY <1>3
  <1>5. f \in RawFrame
    BY <1>1, <1>2, <1>3 DEF RawFrame
  <1> QED BY <1>1, <1>4, <1>5, FrameRecFacts

\* The frame of a get() that has failed at generator i.
LEMMA FailedFacts ==
    ASSUME NEW i \in Gens, NEW f, f = [Frame("get3") EXCEPT !.src = i]
    PROVE  f \in FrameRec /\ f.pc = "get3"
  <1>1. "get3" \in Pcs /\ "get3" \notin Carrying /\ "get3" \notin Notice
    BY DEF Pcs, Carrying, Notice
  <1>2. << >> \in Seq(Gens) /\ << >> \in Seq(Change)
    OBVIOUS
  <1>3. PICK e : e = [pc |-> "get3", c |-> None, src |-> i, first |-> None, todo |-> << >>, items |-> << >>]
    OBVIOUS
  <1>4. f = e
    BY <1>3 DEF Frame
  <1>5. e.pc = "get3"
    BY ONLY <1>3
  <1>6. e \in RawFrame
    BY ONLY i \in Gens, <1>1, <1>2, <1>3 DEF RawFrame
  <1> QED BY <1>1, <1>4, <1>5, <1>6, FrameRecFacts

\* A frame for a call with one.
LEMMA CallFacts ==
    ASSUME NEW c \in Change, NEW src \in Gens
    PROVE  /\ Setting(c) \in FrameRec /\ Setting(c).pc = "set"
           /\ Telling(c) \in FrameRec /\ Telling(c).pc = "told"
           /\ Noticing(src, c) \in FrameRec /\ Noticing(src, c).pc = "delta"
           /\ Noticing(src, c).src = src /\ Noticing(src, c).c = c
  <1>1. << >> \in Seq(Gens) /\ << >> \in Seq(Change)
    OBVIOUS
  <1>2. {"set", "told", "delta"} \subseteq Pcs /\ "set" \notin Notice /\ "told" \notin Notice
    BY DEF Pcs, Notice
  <1>3. PICK x, y, z : x = Setting(c) /\ y = Telling(c) /\ z = Noticing(src, c)
    OBVIOUS
  <1>4. x = [pc |-> "set", c |-> c, src |-> None, first |-> None, todo |-> << >>, items |-> << >>]
    BY <1>3 DEF Setting, Frame
  <1>5. y = [pc |-> "told", c |-> c, src |-> None, first |-> None, todo |-> << >>, items |-> << >>]
    BY <1>3 DEF Telling, Frame
  <1>6. z = [pc |-> "delta", c |-> c, src |-> src, first |-> None, todo |-> << >>, items |-> << >>]
    BY <1>3 DEF Noticing, Frame
  <1>7. x.pc = "set" /\ x.c = c /\ y.pc = "told" /\ y.c = c /\ z.pc = "delta" /\ z.c = c /\ z.src = src
    BY <1>4, <1>5, <1>6
  <1>8. x \in RawFrame
    BY <1>1, <1>2, <1>4 DEF RawFrame
  <1>9. y \in RawFrame
    BY <1>1, <1>2, <1>5 DEF RawFrame
  <1>10. z \in RawFrame
    BY <1>1, <1>2, <1>6 DEF RawFrame
  <1>11. x \in FrameRec /\ y \in FrameRec
    BY <1>2, <1>7, <1>8, <1>9, FrameRecFacts
  <1>12. z \in FrameRec
    BY <1>7, <1>10, FrameRecFacts
  <1> QED BY <1>3, <1>7, <1>11, <1>12

\* The calls of deltacallback() for a sequence of notices, the last notice lowest.
Batch(D, i, q) ==
    /\ D \in Seq(FrameRec) /\ Len(D) = Len(q) /\ Len(q) \in Nat
    /\ \A n \in 1..Len(D) : D[n].pc = "delta" /\ D[n].src = i /\ D[n].c = q[(Len(q) - n) + 1] /\ (Len(q) - n) + 1 \in 1..Len(q)
    /\ \A n \in 1..Len(q) : D[(Len(q) - n) + 1].c = q[n] /\ (Len(q) - n) + 1 \in 1..Len(D)

LEMMA CallbacksFacts ==
    ASSUME NEW i \in Gens, NEW q \in Seq(Change), NEW D, D = Callbacks(i, q)
    PROVE  Batch(D, i, q)
  <1>1. PICK l \in Nat : Len(q) = l /\ DOMAIN q = 1..l
    OBVIOUS
  <1>2. \A n \in 1..l : (l - n) + 1 \in 1..l /\ (l - ((l - n) + 1)) + 1 = n
    OBVIOUS
  <1>3. \A n \in 1..l : q[(l - n) + 1] \in Change
    BY <1>1, <1>2
  <1>4. D = [n \in 1..l |-> Noticing(i, Reverse(q)[n])]
    BY <1>1 DEF Callbacks
  <1>5. Reverse(q) = [n \in 1..l |-> q[(l - n) + 1]]
    BY <1>1 DEF Reverse
  <1>6. \A n \in 1..l : D[n] = Noticing(i, q[(l - n) + 1])
    BY <1>4, <1>5
  <1>7. ASSUME NEW n \in 1..l
        PROVE  D[n] \in FrameRec /\ D[n].pc = "delta" /\ D[n].src = i /\ D[n].c = q[(l - n) + 1]
    BY <1>3, <1>6, CallFacts
  <1>8. D \in [1..l -> FrameRec]
    BY <1>4, <1>6, <1>7
  <1>9. D \in Seq(FrameRec) /\ Len(D) = l
    BY <1>8
  <1>10. ASSUME NEW n \in 1..l PROVE D[(l - n) + 1].c = q[n] /\ (l - n) + 1 \in 1..l
    <2>1. PICK m \in 1..l : m = (l - n) + 1 /\ (l - m) + 1 = n
      BY <1>2
    <2>2. D[m].c = q[(l - m) + 1]
      BY <1>7
    <2> QED BY <2>1, <2>2
  <1> QED BY <1>1, <1>2, <1>7, <1>9, <1>10 DEF Batch

\* A frame whose call goes on.
Passes(f, t, h) ==
    \/ f.pc = "delta" /\ h = [f EXCEPT !.pc = "pass", !.todo = t]
    \/ f.pc = "pass" /\ h = [f EXCEPT !.todo = t]
GoesOn(f, t, j, it, h) ==
    \/ h = [f EXCEPT !.todo = t, !.src = j, !.items = it]
    \/ h = [f EXCEPT !.items = it] /\ t = f.todo /\ j = f.src

LEMMA PassFrame ==
    ASSUME NEW f \in FrameRec, f.pc \in {"delta", "pass"}, NEW t \in Seq(Gens), NEW h, Passes(f, t, h)
    PROVE  h \in FrameRec /\ h.pc = "pass" /\ h.c = f.c /\ h.src = f.src /\ h.todo = t
  <1> USE DEF Passes
  <1>1. f \in RawFrame /\ f.c \in Change /\ f.src \in Gens
    BY FieldsOf DEF Notice
  <1>2. "pass" \in Pcs
    BY DEF Pcs
  <1>3. CASE f.pc = "delta" /\ h = [f EXCEPT !.pc = "pass", !.todo = t]
    <2>1. h \in RawFrame /\ h.pc = "pass" /\ h.c = f.c /\ h.src = f.src /\ h.todo = t
      BY <1>1, <1>2, <1>3 DEF RawFrame
    <2> QED BY <1>1, <2>1, FrameRecFacts
  <1>4. CASE f.pc = "pass" /\ h = [f EXCEPT !.todo = t]
    <2>1. h \in RawFrame /\ h.pc = "pass" /\ h.c = f.c /\ h.src = f.src /\ h.todo = t
      BY <1>1, <1>4 DEF RawFrame
    <2> QED BY <1>1, <2>1, FrameRecFacts
  <1> QED BY <1>3, <1>4

LEMMA DeliveredFrame ==
    ASSUME NEW f \in FrameRec, f.pc = "pass", NEW h, h = [f EXCEPT !.pc = "delivered"]
    PROVE  h \in FrameRec /\ h.pc = "delivered"
  <1>1. f \in RawFrame /\ f.c \in Change /\ f.src \in Gens
    BY FieldsOf DEF Notice
  <1>2. "delivered" \in Pcs
    BY DEF Pcs
  <1>3. h \in RawFrame /\ h.pc = "delivered" /\ h.c = f.c /\ h.src = f.src
    BY <1>1, <1>2 DEF RawFrame
  <1> QED BY <1>1, <1>3, FrameRecFacts

LEMMA ReplicateFrame ==
    ASSUME NEW f \in FrameRec, f.pc = "replicate", NEW t \in Seq(Gens), NEW j \in Gens, NEW it \in Seq(Change), NEW h,
           GoesOn(f, t, j, it, h)
    PROVE  h \in FrameRec /\ h.pc = "replicate" /\ h.src = j /\ h.first = f.first /\ h.todo = t /\ h.items = it
  <1> USE DEF GoesOn
  <1>1. f \in RawFrame
    BY FieldsOf
  <1>2. "replicate" \notin Carrying /\ "replicate" \notin Notice
    BY DEF Carrying, Notice
  <1>3. CASE h = [f EXCEPT !.todo = t, !.src = j, !.items = it]
    <2>1. h \in RawFrame /\ h.pc = "replicate" /\ h.src = j /\ h.first = f.first /\ h.todo = t /\ h.items = it
      BY <1>1, <1>3 DEF RawFrame
    <2> QED BY <1>2, <2>1, FrameRecFacts
  <1>4. CASE h = [f EXCEPT !.items = it] /\ t = f.todo /\ j = f.src
    <2>1. h \in RawFrame /\ h.pc = "replicate" /\ h.src = j /\ h.first = f.first /\ h.todo = t /\ h.items = it
      BY <1>1, <1>4 DEF RawFrame
    <2> QED BY <1>2, <2>1, FrameRecFacts
  <1> QED BY <1>3, <1>4

Begins(i, t, h) == h = [Frame("replicate") EXCEPT !.first = i, !.todo = t]

LEMMA FirstFrame ==
    ASSUME NEW i \in Gens \cup {None}, NEW t \in Seq(Gens), NEW h, Begins(i, t, h)
    PROVE  h \in FrameRec /\ h.pc = "replicate" /\ h.src = None /\ h.first = i /\ h.todo = t /\ h.items = << >>
  <1>1. PICK f : f = Frame("replicate")
    OBVIOUS
  <1>2. f \in FrameRec /\ f.pc = "replicate" /\ f.src = None /\ f.items = << >>
    BY <1>1, FrameFacts
  <1>3. f \in RawFrame
    BY <1>2, FieldsOf
  <1>4. h = [f EXCEPT !.first = i, !.todo = t]
    BY <1>1 DEF Begins
  <1>5. h \in RawFrame /\ h.pc = "replicate" /\ h.src = None /\ h.first = i /\ h.todo = t /\ h.items = << >>
    BY <1>2, <1>3, <1>4 DEF RawFrame
  <1>6. "replicate" \notin Carrying /\ "replicate" \notin Notice
    BY DEF Carrying, Notice
  <1> QED BY <1>5, <1>6, FrameRecFacts

LEMMA RestFrame ==
    ASSUME NEW f \in FrameRec, f.pc \in DOMAIN Rest, NEW h, h = [f EXCEPT !.pc = Rest[f.pc]]
    PROVE  h \in FrameRec /\ h.pc \in {"set2", "get2", "refresh2"} /\ h.c = f.c
  <1>1. f \in RawFrame
    BY FieldsOf
  <1>2. f.pc \in {"set", "get", "refresh"}
    BY DEF Rest
  <1>3. PICK p \in {"set2", "get2", "refresh2"} : p = Rest[f.pc] /\ (p = "set2" => f.pc = "set")
    BY <1>2 DEF Rest
  <1>4. p \in Pcs /\ p \notin Notice /\ (p \in Carrying => p = "set2")
    BY <1>3 DEF Pcs, Notice, Carrying
  <1>5. f.pc = "set" => f.c \in Change
    BY FieldsOf
  <1>6. h \in RawFrame /\ h.pc = p /\ h.c = f.c
    BY <1>1, <1>3, <1>4 DEF RawFrame
  <1> QED BY <1>3, <1>4, <1>5, <1>6, FrameRecFacts

LEMMA RefreshFrame ==
    ASSUME NEW f \in FrameRec, f.pc = "refresh2", NEW j \in Gens, NEW h, h = [f EXCEPT !.src = j]
    PROVE  h \in FrameRec /\ h.pc = "refresh2"
  <1>1. f \in RawFrame
    BY FieldsOf
  <1>2. h \in RawFrame /\ h.pc = "refresh2"
    BY <1>1 DEF RawFrame
  <1>3. "refresh2" \notin Carrying /\ "refresh2" \notin Notice
    BY DEF Carrying, Notice
  <1> QED BY <1>2, <1>3, FrameRecFacts

-----------------------------------------------------------------------------
(* The stack.                                                              *)

\* The a lowest frames stay, the frames above b are new notices from i.
Keeps(st, st1, a) ==
    /\ st \in Seq(FrameRec) /\ st1 \in Seq(FrameRec) /\ Len(st) \in Nat /\ Len(st1) \in Nat
    /\ a \in Nat /\ a <= Len(st) /\ a <= Len(st1)
    /\ \A n \in 1..a : st1[n] = st[n] /\ n \in 1..Len(st) /\ n \in 1..Len(st1)
Grows(st, st1, a, b, i, q) ==
    /\ Keeps(st, st1, a) /\ b \in Nat /\ a <= b /\ Len(st1) = b + Len(q) /\ Len(q) \in Nat
    /\ \A n \in 1..Len(st1) : n > b =>
          st1[n].pc = "delta" /\ st1[n].src = i /\ st1[n].c = q[(Len(st1) - n) + 1] /\ (Len(st1) - n) + 1 \in 1..Len(q)
    /\ \A n \in 1..Len(q) : st1[(Len(st1) - n) + 1].c = q[n] /\ (Len(st1) - n) + 1 > b /\ (Len(st1) - n) + 1 \in 1..Len(st1)

\* The top frame and those below it.
LEMMA TopFacts ==
    ASSUME NEW st \in Seq(FrameRec), st # << >>, NEW f, f = Last(st), NEW st1, st1 = Front(st)
    PROVE  /\ f = st[Len(st)] /\ f \in FrameRec /\ Keeps(st, st1, Len(st) - 1)
           /\ Len(st1) = Len(st) - 1 /\ Len(st) \in Nat /\ Len(st) >= 1
  <1>1. /\ st1 \in Seq(FrameRec) /\ Len(st) \in Nat /\ Len(st1) = Len(st) - 1 /\ Len(st) \in 1..Len(st)
        /\ \A n \in 1..Len(st1) : st1[n] = st[n] /\ n \in 1..Len(st)
    BY FrontFacts
  <1>2. f = st[Len(st)]
    BY DEF Last
  <1>3. f \in FrameRec
    BY <1>1, <1>2
  <1>4. Len(st) - 1 \in Nat /\ Len(st) - 1 <= Len(st) /\ Len(st) - 1 <= Len(st1)
    BY <1>1
  <1> QED BY <1>1, <1>2, <1>3, <1>4 DEF Keeps

\* What is put on top of it.
Pushed(st, st1, a, f) == a \in Nat /\ Keeps(st, st1, a) /\ Len(st1) = a + 1 /\ st1[a + 1] = f

LEMMA AppendKeeps ==
    ASSUME NEW st, NEW p, NEW a, Keeps(st, p, a), Len(p) = a, NEW f \in FrameRec, NEW st1, st1 = Append(p, f)
    PROVE  Pushed(st, st1, a, f)
  <1>1. p \in Seq(FrameRec) /\ a \in Nat /\ a <= Len(st) /\ \A n \in 1..a : p[n] = st[n] /\ n \in 1..Len(st) /\ n \in 1..Len(p)
    BY DEF Keeps
  <1>2. /\ st1 \in Seq(FrameRec) /\ Len(st1) = Len(p) + 1
        /\ \A n \in 1..Len(p) : st1[n] = p[n] /\ n \in 1..Len(st1)
        /\ st1[Len(st1)] = f
    BY <1>1, AppendFacts
  <1>3. Len(st1) = a + 1 /\ a <= a + 1 /\ a + 1 \in Nat
    BY <1>1, <1>2
  <1>4. Keeps(st, st1, a)
    BY <1>1, <1>2, <1>3 DEF Keeps
  <1> QED BY <1>1, <1>2, <1>3, <1>4 DEF Pushed

\* The b lowest frames of st1 are those of p.
Under(p, st1, b) == \A n \in 1..b : st1[n] = p[n]

LEMMA BatchKeeps ==
    ASSUME NEW st, NEW p, NEW a, NEW b, Keeps(st, p, a), Len(p) = b,
           NEW i \in Gens, NEW q \in Seq(Change), NEW st1, st1 = p \o Callbacks(i, q)
    PROVE  Grows(st, st1, a, b, i, q) /\ Under(p, st1, b)
  <1>1. /\ p \in Seq(FrameRec) /\ st \in Seq(FrameRec) /\ a \in Nat /\ Len(st) \in Nat /\ a <= Len(st) /\ a <= Len(p)
        /\ Len(p) \in Nat /\ \A n \in 1..a : p[n] = st[n] /\ n \in 1..Len(st) /\ n \in 1..Len(p)
    BY DEF Keeps
  <1>2. PICK D : D = Callbacks(i, q)
    OBVIOUS
  <1>3. PICK l \in Nat : Len(q) = l
    OBVIOUS
  <1>4. /\ D \in Seq(FrameRec) /\ Len(D) = l
        /\ \A n \in 1..l : D[n].pc = "delta" /\ D[n].src = i /\ D[n].c = q[(l - n) + 1] /\ (l - n) + 1 \in 1..l
        /\ \A n \in 1..l : D[(l - n) + 1].c = q[n] /\ (l - n) + 1 \in 1..l
    <2>1. Batch(D, i, q)
      BY <1>2, CallbacksFacts
    <2> QED BY <1>3, <2>1 DEF Batch
  <1>5. st1 = p \o D
    BY <1>2
  <1>6. /\ st1 \in Seq(FrameRec) /\ Len(st1) = b + l /\ b \in Nat
        /\ \A n \in 1..b : st1[n] = p[n] /\ n \in 1..Len(st1)
        /\ \A n \in 1..l : st1[b + n] = D[n] /\ b + n \in 1..Len(st1)
        /\ \A n \in 1..Len(st1) : n \in 1..b \/ (n - b \in 1..l /\ st1[n] = D[n - b])
    <2>1. PICK r : r = st1
      OBVIOUS
    <2>2. r = p \o D
      BY <1>5, <2>1
    <2>3. /\ r \in Seq(FrameRec) /\ Len(p) \in Nat /\ Len(D) \in Nat /\ Len(r) = Len(p) + Len(D)
          /\ \A n \in 1..Len(p) : r[n] = p[n] /\ n \in 1..Len(r)
          /\ \A n \in 1..Len(D) : r[Len(p) + n] = D[n] /\ Len(p) + n \in 1..Len(r)
          /\ \A n \in 1..Len(r) : n \in 1..Len(p) \/ (n - Len(p) \in 1..Len(D) /\ r[n] = D[n - Len(p)])
      <3>1. p \in Seq(FrameRec) /\ D \in Seq(FrameRec)
        BY <1>1, <1>4
      <3> QED BY ONLY <3>1, <2>2, ConcatFacts
    <2> QED BY <1>4, <2>1, <2>3
  <1>7. PICK m \in Nat : m = Len(st1) /\ m = b + l
    BY <1>6
  <1>8. ASSUME NEW n \in 1..m, n > b
        PROVE  st1[n].pc = "delta" /\ st1[n].src = i /\ st1[n].c = q[(m - n) + 1] /\ (m - n) + 1 \in 1..l
    <2>1. n \notin 1..b
      BY <1>6, <1>8
    <2>2. PICK k \in 1..l : k = n - b /\ st1[n] = D[k]
      BY <1>6, <1>7, <2>1
    <2>3. (l - k) + 1 = (m - n) + 1
      BY <1>6, <1>7, <2>2
    <2>4. D[k].pc = "delta" /\ D[k].src = i /\ D[k].c = q[(l - k) + 1] /\ (l - k) + 1 \in 1..l
      BY ONLY <1>4, <2>2, k \in 1..l
    <2> QED BY ONLY <2>2, <2>3, <2>4
  <1>9. ASSUME NEW n \in 1..l
        PROVE  st1[(m - n) + 1].c = q[n] /\ (m - n) + 1 > b /\ (m - n) + 1 \in 1..m
    <2>1. PICK k \in 1..l : k = (l - n) + 1 /\ D[k].c = q[n]
      BY <1>4
    <2>2. (m - n) + 1 = b + k /\ b + k > b
      BY <1>6, <1>7, <2>1
    <2>3. st1[b + k] = D[k] /\ b + k \in 1..m
      BY <1>6, <1>7
    <2> QED BY <2>1, <2>2, <2>3
  <1>10. Keeps(st, st1, a)
    <2>1. a <= Len(st1) /\ \A n \in 1..a : st1[n] = st[n] /\ n \in 1..Len(st) /\ n \in 1..Len(st1)
      BY <1>1, <1>6
    <2> QED BY <1>1, <1>6, <1>7, <2>1 DEF Keeps
  <1> QED BY <1>1, <1>3, <1>6, <1>7, <1>8, <1>9, <1>10 DEF Grows, Under

\* Below a call that is not about a notice there is no replicate(), and each notice
\* that waits is below one that the watchers are being told of.
Calm(st, a) ==
    \A n \in 1..a :
        /\ st[n].pc \notin Tops /\ st[n].pc # "replicate"
        /\ st[n].pc = "delta" => \E l \in 1..a : l > n /\ st[l].pc = "delivered"

LEMMA CalmBelow ==
    ASSUME NEW st \in Seq(FrameRec), Shape(st), st # << >>, NEW f, f = st[Len(st)],
           f.pc \notin {"delta", "pass", "delivered"}
    PROVE  /\ Calm(st, Len(st) - 1)
           /\ f.pc \notin {"begin", "crashed", "replicate"} => Calm(st, Len(st))
  <1>1. PICK l \in Nat : l = Len(st) /\ l # 0
    OBVIOUS
  <1>2. ASSUME NEW n \in 1..(l - 1)
        PROVE  /\ st[n].pc \notin Tops /\ st[n].pc # "replicate"
               /\ st[n].pc = "delta" => \E m \in 1..(l - 1) : m > n /\ st[m].pc = "delivered"
    <2>1. n \in 1..l /\ l \in 1..l /\ n < l
      BY <1>1
    <2>2. st[n].pc \notin Tops
      BY <1>1, <2>1 DEF Shape
    <2>3. Above(st[n], f)
      BY <1>1, <2>1 DEF Shape
    <2>4. st[n].pc # "replicate"
      BY <2>3 DEF Above
    <2>5. ASSUME st[n].pc = "delta" PROVE \E m \in 1..(l - 1) : m > n /\ st[m].pc = "delivered"
      <3>1. \E m \in 1..l : m > n /\ st[m].pc = "delivered"
        BY <1>1, <2>1, <2>5 DEF Shape
      <3>2. PICK m \in 1..l : m > n /\ st[m].pc = "delivered"
        BY <3>1
      <3>3. m # l
        BY <1>1, <3>2
      <3>4. m \in 1..(l - 1)
        BY <1>1, <3>3
      <3> QED BY <3>2, <3>4
    <2> QED BY <2>2, <2>4, <2>5
  <1>3. Calm(st, l - 1)
    BY <1>2 DEF Calm
  <1>4. ASSUME f.pc \notin {"begin", "crashed", "replicate"} PROVE Calm(st, l)
    <2>1. SUFFICES ASSUME NEW n \in 1..l
                   PROVE  /\ st[n].pc \notin Tops /\ st[n].pc # "replicate"
                          /\ st[n].pc = "delta" => \E m \in 1..l : m > n /\ st[m].pc = "delivered"
      BY DEF Calm
    <2>2. CASE n = l
      BY <1>1, <1>4, <2>2 DEF Tops
    <2>3. CASE n # l
      <3>1. n \in 1..(l - 1) /\ \A m \in 1..(l - 1) : m \in 1..l
        BY <1>1, <2>3
      <3> QED BY <1>2, <3>1
    <2> QED BY <2>2, <2>3
  <1> QED BY <1>1, <1>3, <1>4

\* The new frames: at most two calls, and then notices from i.
Fresh(st1, a, b, i) ==
    \A n \in 1..Len(st1) : n > a =>
        \/ n > b /\ st1[n].pc = "delta" /\ st1[n].src = i
        \/ /\ n <= b /\ st1[n].pc \notin Notice /\ (st1[n].pc \in Tops => n = Len(st1))
           /\ st1[n].pc = "replicate" => n = b /\ (st1[n].src = st1[n].first => i = st1[n].first)

LEMMA ShapeGrows ==
    ASSUME NEW st, NEW st1, NEW a, NEW b, NEW i, Keeps(st, st1, a), Shape(st), Calm(st, a),
           b \in Nat, Fresh(st1, a, b, i)
    PROVE  Shape(st1)
  <1>0. /\ a \in Nat /\ Len(st) \in Nat /\ Len(st1) \in Nat /\ a <= Len(st)
        /\ \A n \in 1..a : st1[n] = st[n] /\ n \in 1..Len(st) /\ n \in 1..Len(st1)
    BY DEF Keeps
  <1>1. ASSUME NEW n \in 1..Len(st1), st1[n].pc \in Tops PROVE n = Len(st1)
    <2>1. CASE n <= a
      <3>1. n \in 1..a
        BY <1>0, <2>1
      <3> QED BY <1>0, <1>1, <3>1 DEF Calm
    <2>2. CASE n > a
      BY <1>1, <2>2 DEF Fresh, Tops
    <2> QED BY <1>0, <2>1, <2>2
  <1>2. ASSUME NEW m \in 1..Len(st1), NEW n \in 1..Len(st1), m < n
        PROVE  /\ Above(st1[m], st1[n])
               /\ st1[m].pc = "delta" =>
                    \/ st1[n].pc \in {"delta", "pass"} /\ st1[n].src = st1[m].src
                    \/ \E l \in 1..n : l > m /\ st1[l].pc = "delivered"
    <2>1. CASE n <= a
      <3>1. m \in 1..a /\ n \in 1..a /\ \A l \in 1..n : l \in 1..a
        BY <1>0, <1>2, <2>1
      <3>2. st1[m] = st[m] /\ st1[n] = st[n] /\ m \in 1..Len(st) /\ n \in 1..Len(st)
            /\ \A l \in 1..n : st1[l] = st[l]
        BY <1>0, <3>1
      <3>3. Above(st[m], st[n])
        BY <1>2, <3>2 DEF Shape
      <3>4. st[m].pc = "delta" =>
                    \/ st[n].pc \in {"delta", "pass"} /\ st[n].src = st[m].src
                    \/ \E l \in 1..n : l > m /\ st[l].pc = "delivered"
        BY <1>2, <3>2 DEF Shape
      <3> QED BY <3>2, <3>3, <3>4
    <2>2. CASE m <= a /\ n > a
      <3>1. m \in 1..a /\ st1[m] = st[m] /\ \A l \in 1..a : l \in 1..n
        BY <1>0, <2>2
      <3>2. st1[n].pc # "pass"
        BY <2>2 DEF Fresh, Notice
      <3>3. Above(st1[m], st1[n])
        BY <3>1, <3>2 DEF Calm, Above
      <3>4. ASSUME st1[m].pc = "delta" PROVE \E l \in 1..n : l > m /\ st1[l].pc = "delivered"
        <4>1. PICK l \in 1..a : l > m /\ st[l].pc = "delivered"
          BY <3>1, <3>4 DEF Calm
        <4>2. st1[l].pc = "delivered" /\ l \in 1..n
          BY <1>0, <3>1, <4>1
        <4> QED BY <4>1, <4>2
      <3> QED BY <3>3, <3>4
    <2>3. CASE m > a
      <3>1. n > a
        BY <1>0, <1>2, <2>3
      <3>2. CASE m <= b
        <4>1. st1[m].pc \notin Notice /\ (st1[m].pc = "replicate" => m = b /\ (st1[m].src = st1[m].first => i = st1[m].first))
          BY <2>3, <3>2 DEF Fresh
        <4>2. st1[m].pc # "delta" /\ st1[m].pc # "delivered"
          BY <4>1 DEF Notice
        <4>3. ASSUME st1[m].pc = "replicate" PROVE st1[n].pc = "delta" /\ st1[n].src = i
          <5>1. ~(n <= b)
            BY <1>2, <4>1, <4>3
          <5> QED BY <3>1, <5>1 DEF Fresh
        <4> QED BY <4>1, <4>2, <4>3 DEF Above
      <3>3. CASE ~(m <= b)
        <4>1. ~(n <= b)
          BY <1>2, <3>3
        <4>2. st1[m].pc = "delta" /\ st1[m].src = i /\ st1[n].pc = "delta" /\ st1[n].src = i
          BY <2>3, <3>1, <3>3, <4>1 DEF Fresh
        <4> QED BY <4>2 DEF Above
      <3> QED BY <3>2, <3>3
    <2> QED BY <1>0, <2>1, <2>2, <2>3
  <1> QED BY <1>1, <1>2 DEF Shape

LEMMA ShapePop ==
    ASSUME NEW st, NEW st1, NEW a, Keeps(st, st1, a), Shape(st), Len(st1) = a
    PROVE  Shape(st1)
  <1>0. /\ a \in Nat /\ Len(st) \in Nat /\ a <= Len(st)
        /\ \A n \in 1..a : st1[n] = st[n] /\ n \in 1..Len(st)
    BY DEF Keeps
  <1>1. ASSUME NEW n \in 1..a, st1[n].pc \in Tops PROVE n = a
    BY <1>0, <1>1 DEF Shape
  <1>2. ASSUME NEW m \in 1..a, NEW n \in 1..a, m < n
        PROVE  /\ Above(st1[m], st1[n])
               /\ st1[m].pc = "delta" =>
                    \/ st1[n].pc \in {"delta", "pass"} /\ st1[n].src = st1[m].src
                    \/ \E l \in 1..n : l > m /\ st1[l].pc = "delivered"
    <2>1. st1[m] = st[m] /\ st1[n] = st[n] /\ m \in 1..Len(st) /\ n \in 1..Len(st) /\ \A l \in 1..n : st1[l] = st[l]
      BY <1>0
    <2>2. Above(st[m], st[n])
      BY <1>2, <2>1 DEF Shape
    <2>3. st[m].pc = "delta" =>
                    \/ st[n].pc \in {"delta", "pass"} /\ st[n].src = st[m].src
                    \/ \E l \in 1..n : l > m /\ st[l].pc = "delivered"
      BY <1>2, <2>1 DEF Shape
    <2> QED BY <2>1, <2>2, <2>3
  <1> QED BY <1>1, <1>2 DEF Shape

\* A notice begins to be passed on, or is passed on to one more.
LEMMA ShapePass ==
    ASSUME NEW st, NEW st1, NEW a, Keeps(st, st1, a), Shape(st), Len(st) = a + 1, Len(st1) = a + 1,
           st[a + 1].pc \in {"delta", "pass"}, st1[a + 1].pc = "pass", st1[a + 1].src = st[a + 1].src,
           st[a + 1].pc = "delta" => \A n \in 1..a : st[n].pc # "delivered"
    PROVE  Shape(st1) /\ \A n \in 1..a : st[n].pc \notin {"delivered", "pass"}
  <1>0. /\ a \in Nat /\ a + 1 \in 1..(a + 1)
        /\ \A n \in 1..a : st1[n] = st[n] /\ n \in 1..(a + 1) /\ n < a + 1
    BY DEF Keeps
  <1>1. \A n \in 1..(a + 1) : n \in 1..a \/ n = a + 1
    BY <1>0
  <1>2. ASSUME NEW n \in 1..a PROVE st[n].pc \notin Tops
    <2>1. n \in 1..(a + 1) /\ n # a + 1
      BY <1>0
    <2> QED BY <2>1 DEF Shape
  <1>3. \A n \in 1..a : Above(st[n], st[a + 1])
    BY <1>0 DEF Shape
  <1>4. ASSUME NEW n \in 1..a PROVE st[n].pc # "delivered"
    BY <1>3 DEF Above
  <1>5. ASSUME NEW n \in 1..(a + 1), st1[n].pc \in Tops PROVE n = a + 1
    BY <1>0, <1>1, <1>2, <1>5
  <1>6. ASSUME NEW m \in 1..(a + 1), NEW n \in 1..(a + 1), m < n
        PROVE  /\ Above(st1[m], st1[n])
               /\ st1[m].pc = "delta" =>
                    \/ st1[n].pc \in {"delta", "pass"} /\ st1[n].src = st1[m].src
                    \/ \E l \in 1..n : l > m /\ st1[l].pc = "delivered"
    <2>1. m \in 1..a
      BY <1>0, <1>6
    <2>2. CASE n \in 1..a
      <3>1. st1[m] = st[m] /\ st1[n] = st[n] /\ m \in 1..(a + 1) /\ n \in 1..(a + 1) /\ \A l \in 1..n : st1[l] = st[l]
        BY <1>0, <2>1, <2>2
      <3>2. Above(st[m], st[n])
        BY <1>6, <3>1 DEF Shape
      <3>3. st[m].pc = "delta" =>
                    \/ st[n].pc \in {"delta", "pass"} /\ st[n].src = st[m].src
                    \/ \E l \in 1..n : l > m /\ st[l].pc = "delivered"
        BY <1>6, <3>1 DEF Shape
      <3> QED BY <3>1, <3>2, <3>3
    <2>3. CASE n = a + 1
      <3>1. st1[m] = st[m]
        BY <1>0, <2>1
      <3>2. Above(st[m], st[a + 1]) /\ st[m].pc # "delivered"
        BY <1>3, <1>4, <2>1
      <3>3. Above(st1[m], st1[n])
        BY <2>3, <3>1, <3>2 DEF Above
      <3>4. ASSUME st[m].pc = "delta" PROVE st[a + 1].src = st[m].src
        <4>1. m \in 1..(a + 1) /\ m < a + 1
          BY <1>0, <2>1
        <4>2. \/ st[a + 1].pc \in {"delta", "pass"} /\ st[a + 1].src = st[m].src
              \/ \E l \in 1..(a + 1) : l > m /\ st[l].pc = "delivered"
          BY <1>0, <3>4, <4>1 DEF Shape
        <4>3. \A l \in 1..(a + 1) : st[l].pc # "delivered"
          BY <1>1, <1>4
        <4> QED BY <4>2, <4>3
      <3> QED BY <2>3, <3>1, <3>3, <3>4
    <2> QED BY <1>1, <2>2, <2>3
  <1>7. Shape(st1)
    BY <1>5, <1>6 DEF Shape
  <1> QED BY <1>2, <1>4, <1>7 DEF Tops

\* The watchers are told while nothing is held.
LEMMA ShapeTold ==
    ASSUME NEW st, NEW st1, NEW a, Keeps(st, st1, a), Shape(st), Len(st) = a + 1, Len(st1) = a + 2,
           st[a + 1].pc = "pass", st1[a + 1].pc = "delivered", st1[a + 2].pc = "told",
           \A n \in 1..a : st[n].pc # "replicate"
    PROVE  Shape(st1)
  <1>0. /\ a \in Nat /\ a + 1 \in 1..(a + 1) /\ a + 1 \in 1..(a + 2) /\ a + 2 \in 1..(a + 2) /\ a + 1 < a + 2
        /\ \A n \in 1..a : st1[n] = st[n] /\ n \in 1..(a + 1) /\ n \in 1..(a + 2) /\ n < a + 1 /\ n < a + 2
    BY DEF Keeps
  <1>1. \A n \in 1..(a + 2) : n \in 1..a \/ n = a + 1 \/ n = a + 2
    BY <1>0
  <1>2. ASSUME NEW n \in 1..a PROVE st[n].pc \notin Tops
    <2>1. n \in 1..(a + 1) /\ n # a + 1
      BY <1>0
    <2> QED BY <2>1 DEF Shape
  <1>3. ASSUME NEW n \in 1..(a + 2), st1[n].pc \in Tops PROVE n = a + 2
    <2>1. st1[a + 1].pc \notin Tops
      BY DEF Tops
    <2> QED BY <1>0, <1>1, <1>2, <1>3, <2>1
  <1>4. ASSUME NEW m \in 1..(a + 2), NEW n \in 1..(a + 2), m < n
        PROVE  /\ Above(st1[m], st1[n])
               /\ st1[m].pc = "delta" =>
                    \/ st1[n].pc \in {"delta", "pass"} /\ st1[n].src = st1[m].src
                    \/ \E l \in 1..n : l > m /\ st1[l].pc = "delivered"
    <2>1. CASE m = a + 1
      <3>1. n = a + 2
        BY <1>0, <1>4, <2>1
      <3> QED BY <2>1, <3>1 DEF Above
    <2>2. CASE m \in 1..a /\ n \in 1..a
      <3>1. st1[m] = st[m] /\ st1[n] = st[n] /\ m \in 1..(a + 1) /\ n \in 1..(a + 1) /\ \A l \in 1..n : st1[l] = st[l]
        BY <1>0, <2>2
      <3>2. Above(st[m], st[n])
        BY <1>4, <3>1 DEF Shape
      <3>3. st[m].pc = "delta" =>
                    \/ st[n].pc \in {"delta", "pass"} /\ st[n].src = st[m].src
                    \/ \E l \in 1..n : l > m /\ st[l].pc = "delivered"
        BY <1>4, <3>1 DEF Shape
      <3> QED BY <3>1, <3>2, <3>3
    <2>3. CASE m \in 1..a /\ n \in {a + 1, a + 2}
      <3>1. st1[m] = st[m] /\ st[m].pc # "replicate" /\ st1[n].pc # "pass" /\ a + 1 > m /\ a + 1 \in 1..n
        BY <1>0, <2>3
      <3> QED BY <3>1 DEF Above
    <2>4. m # a + 2
      BY <1>0, <1>4
    <2> QED BY <1>1, <2>1, <2>2, <2>3, <2>4
  <1> QED BY <1>3, <1>4 DEF Shape

-----------------------------------------------------------------------------
(* The generators.                                                         *)

LEMMA FieldsOfGenerator ==
    ASSUME NEW x \in Generator
    PROVE  /\ x.val \in Contents /\ x.conn \in {"none", "ok", "broken"} /\ x.was_ok \in BOOLEAN
           /\ x.inbox \in Seq(Change) /\ x.next \in Nat /\ x.since \in Nat /\ x.tries \in Nat
           /\ Len(x.inbox) \in Nat
           /\ \A k \in Keys : x.val[k] \in Values \cup {Null}
           /\ \A n \in 1..Len(x.inbox) : x.inbox[n] \in Change /\ x.inbox[n].key \in Keys
                                         /\ x.inbox[n].value \in Values \cup {Null}
  <1>1. /\ x.val \in Contents /\ x.conn \in {"none", "ok", "broken"} /\ x.was_ok \in BOOLEAN
        /\ x.inbox \in Seq(Change) /\ x.next \in Nat /\ x.since \in Nat /\ x.tries \in Nat
    BY DEF Generator
  <1>2. \A k \in Keys : x.val[k] \in Values \cup {Null}
    BY <1>1 DEF Contents
  <1>3. Len(x.inbox) \in Nat /\ \A n \in 1..Len(x.inbox) : x.inbox[n] \in Change
    BY <1>1
  <1>4. \A c \in Change : c.key \in Keys /\ c.value \in Values \cup {Null}
    BY DEF Change
  <1> QED BY <1>1, <1>2, <1>3, <1>4

\* y is x after maybe_reconnect() and maybe_disconnect(): what it holds and what is on
\* its way stay, and a connection that works is left alone.
Looked(x, y) ==
    /\ y \in Generator /\ y.val = x.val /\ y.inbox = x.inbox
    /\ x.conn = "ok" => y.conn = "ok"
    /\ x.conn = "broken" => y.conn # "ok"

LEMMA AttemptsReconnect ==
    ASSUME NEW x \in Generator, NEW w \in Nat, Attempts(x, w), ~(w < x.next)
    PROVE  /\ x.next + Interval = x.since + (x.tries + 1) * Interval
           /\ ((x.tries + 1) - 1) * Interval <= w - x.since
  <1>1. PICK n \in Nat, s \in Nat, t \in Nat : n = x.next /\ s = x.since /\ t = x.tries
    BY FieldsOfGenerator
  <1>2. PICK d \in Nat : d = Interval
    BY ReplicaAssumption
  <1>3. n = s + t * d
    BY <1>1, <1>2 DEF Attempts
  <1>4. PICK p \in Nat : p = t * d
    BY <1>1, <1>2
  <1>5. (t + 1) * d = t * d + d /\ (t + 1) - 1 = t
    BY <1>1, <1>2
  <1>6. n + d = s + (p + d) /\ p <= w - s
    BY <1>1, <1>2, <1>3, <1>4
  <1> QED BY <1>1, <1>2, <1>4, <1>5, <1>6

LEMMA TouchFacts ==
    ASSUME NEW i \in Gens, NEW x \in Generator, now \in Nat, up[i] \in BOOLEAN, Attempts(x, now), NEW y, y = Touch(x, i)
    PROVE  Looked(x, y) /\ Attempts(y, now) /\ y.was_ok = x.was_ok /\ (x.conn = "ok" => y = x)
  <1>0. /\ x.conn \in {"none", "ok", "broken"} /\ x.next \in Nat /\ x.since \in Nat /\ x.tries \in Nat /\ Interval \in Nat
    BY FieldsOfGenerator, ReplicaAssumption
  <1>1. PICK r : r = Reconnect(x, up[i])
    OBVIOUS
  <1>2. y = Disconnect(r)
    BY <1>1 DEF Touch
  <1>3. /\ r \in Generator /\ r.val = x.val /\ r.inbox = x.inbox /\ r.was_ok = x.was_ok /\ Attempts(r, now)
        /\ x.conn # "none" => r = x
        /\ r.conn \in {x.conn, "ok"}
    <2>1. CASE x.conn # "none" \/ now < x.next
      <3>1. r = x
        BY <1>1, <2>1 DEF Reconnect
      <3> QED BY <3>1
    <2>2. CASE ~(x.conn # "none" \/ now < x.next) /\ up[i]
      <3>1. r = [x EXCEPT !.conn = "ok"]
        BY <1>1, <2>2 DEF Reconnect
      <3>2. /\ r \in Generator /\ r.val = x.val /\ r.inbox = x.inbox /\ r.was_ok = x.was_ok /\ r.conn = "ok"
            /\ r.next = x.next /\ r.since = x.since /\ r.tries = x.tries
        BY <3>1 DEF Generator
      <3> QED BY <2>2, <3>2 DEF Attempts
    <2>3. CASE ~(x.conn # "none" \/ now < x.next) /\ ~up[i]
      <3>1. r = [x EXCEPT !.next = @ + Interval, !.tries = @ + 1]
        BY <1>1, <2>3 DEF Reconnect
      <3>2. PICK n \in Nat, t \in Nat : n = x.next + Interval /\ t = x.tries + 1
        BY <1>0
      <3>3. r = [x EXCEPT !.next = n, !.tries = t]
        BY <3>1, <3>2
      <3>4. /\ r \in Generator /\ r.val = x.val /\ r.inbox = x.inbox /\ r.was_ok = x.was_ok /\ r.conn = x.conn
            /\ r.next = n /\ r.since = x.since /\ r.tries = t
        BY <3>3 DEF Generator
      <3>5. /\ x.next + Interval = x.since + (x.tries + 1) * Interval
            /\ ((x.tries + 1) - 1) * Interval <= now - x.since
        BY <2>3, AttemptsReconnect
      <3>6. Attempts(r, now)
        BY <3>2, <3>4, <3>5 DEF Attempts
      <3> QED BY <2>3, <3>4, <3>6
    <2> QED BY <2>1, <2>2, <2>3
  <1>4. CASE r.conn # "broken"
    <2>1. y = r
      BY <1>2, <1>4 DEF Disconnect
    <2>2. x.conn = "broken" => r = x
      BY <1>3
    <2> QED BY <1>0, <1>3, <1>4, <2>1, <2>2 DEF Looked
  <1>5. CASE r.conn = "broken"
    <2>1. PICK n \in Nat : n = now + Interval
      BY <1>0
    <2>2. y = [r EXCEPT !.conn = "none", !.next = n, !.since = n, !.tries = 0]
      BY <1>2, <1>5, <2>1 DEF Disconnect
    <2>3. /\ y \in Generator /\ y.val = r.val /\ y.inbox = r.inbox /\ y.was_ok = r.was_ok /\ y.conn = "none"
          /\ y.next = n /\ y.since = n /\ y.tries = 0
      <3>1. r \in Generator
        BY <1>3
      <3>2. "none" \in {"none", "ok", "broken"} /\ 0 \in Nat
        OBVIOUS
      <3> QED BY ONLY <2>2, <3>1, <3>2, n \in Nat DEF Generator
    <2>4. 0 * Interval = 0 /\ n = n + 0
      BY <1>0, <2>1
    <2>5. Attempts(y, now)
      BY <2>3, <2>4 DEF Attempts
    <2>6. x.conn # "ok"
      BY <1>3, <1>5
    <2> QED BY <1>3, <2>3, <2>5, <2>6 DEF Looked
  <1> QED BY <1>4, <1>5

LEMMA GenIsOkFacts ==
    ASSUME NEW i \in Gens, NEW x \in Generator, now \in Nat, up[i] \in BOOLEAN, Attempts(x, now), NEW y, y = GenIsOk(x, i)
    PROVE  /\ Looked(x, y) /\ Attempts(y, now) /\ y.conn = Touch(x, i).conn /\ y.was_ok = (y.conn = "ok")
  <1>1. PICK t : t = Touch(x, i)
    OBVIOUS
  <1>2. Looked(x, t) /\ Attempts(t, now)
    BY <1>1, TouchFacts
  <1>3. y = [t EXCEPT !.was_ok = (t.conn = "ok")]
    BY <1>1 DEF GenIsOk
  <1>4. PICK b \in BOOLEAN : b = (t.conn = "ok")
    OBVIOUS
  <1>5. y = [t EXCEPT !.was_ok = b]
    BY <1>3, <1>4
  <1>6. t \in Generator
    BY <1>2 DEF Looked
  <1>7. /\ y \in Generator /\ y.val = t.val /\ y.inbox = t.inbox /\ y.conn = t.conn /\ y.was_ok = b
        /\ y.next = t.next /\ y.since = t.since /\ y.tries = t.tries
    BY <1>5, <1>6 DEF Generator
  <1>8. Looked(x, y)
    BY <1>2, <1>7 DEF Looked
  <1>9. Attempts(y, now)
    BY <1>2, <1>7 DEF Attempts
  <1> QED BY <1>1, <1>4, <1>7, <1>8, <1>9

LEMMA GenOKLooked ==
    ASSUME NEW i \in Gens, NEW x, NEW y, NEW o, NEW u, NEW w, GenOK(i, x, o, u, w), Looked(x, y), Attempts(y, w)
    PROVE  GenOK(i, y, o, u, w)
  <1>1. Current(y)
    BY DEF GenOK, Looked, Current
  <1> QED BY <1>1 DEF GenOK, Looked

\* set(): the new value, and its notice after those on their way.
LEMMA PutFacts ==
    ASSUME NEW i \in Gens, NEW x \in Generator, x.conn = "ok", NEW c \in Change, NEW a \in BOOLEAN, NEW y, y = Put(x, i, c, a)
    PROVE  /\ y \in Generator /\ y.conn = "ok" /\ y.was_ok = x.was_ok
           /\ y.next = x.next /\ y.since = x.since /\ y.tries = x.tries
           /\ y.val[c.key] = c.value /\ \A k \in Keys : k # c.key => y.val[k] = x.val[k]
           /\ \E p \in Seq(Change) :
                 /\ p \in {<< >>, x.inbox} /\ (a => p = << >>) /\ (i \in Remote /\ ~a => p = x.inbox)
                 /\ y.inbox = IF i \notin Remote THEN << >> ELSE IF x.val[c.key] = c.value THEN p ELSE Append(p, c)
  <1>0. /\ x.val \in Contents /\ x.inbox \in Seq(Change) /\ c.key \in Keys /\ c.value \in Values \cup {Null}
        /\ << >> \in Seq(Change)
    <2>1. x.val \in Contents /\ x.inbox \in Seq(Change)
      BY FieldsOfGenerator
    <2>2. c.key \in Keys /\ c.value \in Values \cup {Null}
      BY DEF Change
    <2> QED BY <2>1, <2>2
  <1>1. PICK p \in Seq(Change) : p = IF i \in Remote /\ ~a THEN x.inbox ELSE << >>
    BY <1>0
  <1>2. PICK v \in Contents : v = [x.val EXCEPT ![c.key] = c.value]
    BY <1>0 DEF Contents
  <1>3. v[c.key] = c.value /\ \A k \in Keys : k # c.key => v[k] = x.val[k]
    BY <1>0, <1>2 DEF Contents
  <1>4. PICK q \in Seq(Change) : q = IF i \notin Remote THEN << >> ELSE IF x.val[c.key] = c.value THEN p ELSE Append(p, c)
    <2>1. Append(p, c) \in Seq(Change)
      BY AppendProperties
    <2> QED BY <1>0, <2>1
  <1>5. p \o << >> = p /\ p \o <<c>> = Append(p, c)
    BY AppendIsConcat, ConcatEmptySeq
  <1>6. q = IF i \notin Remote THEN << >>
            ELSE (IF a THEN << >> ELSE x.inbox) \o (IF x.val[c.key] = c.value THEN << >> ELSE <<c>>)
    BY <1>1, <1>4, <1>5
  <1>7. y = [x EXCEPT !.val = v, !.inbox = q]
    BY <1>2, <1>6 DEF Put
  <1>8. /\ y \in Generator /\ y.conn = x.conn /\ y.was_ok = x.was_ok
        /\ y.next = x.next /\ y.since = x.since /\ y.tries = x.tries /\ y.val = v /\ y.inbox = q
    BY <1>7 DEF Generator
  <1> QED BY <1>1, <1>3, <1>4, <1>8

\* The notices on their way stay current when a value is set.
LEMMA CurrentPut ==
    ASSUME NEW x \in Generator, NEW y \in Generator, Current(x), NEW c \in Change,
           y.val[c.key] = c.value, \A k \in Keys : k # c.key => y.val[k] = x.val[k],
           NEW p \in Seq(Change), p \in {<< >>, x.inbox},
           y.inbox = << >> \/ (y.inbox = p /\ x.val[c.key] = c.value) \/ y.inbox = Append(p, c)
    PROVE  /\ Current(y)
           /\ \A k \in Keys : Carries(p, k) => Carries(y.inbox, k) \/ y.inbox = << >>
           /\ y.inbox = Append(p, c) => Carries(y.inbox, c.key)
  <1>0. c.key \in Keys /\ \A n \in 1..Len(x.inbox) : x.inbox[n].key \in Keys
    BY FieldsOfGenerator DEF Change
  <1>1. \A n \in 1..Len(p) : p[n].key \in Keys
    BY <1>0
  <1>2. \A n \in 1..Len(p) : \/ x.val[p[n].key] = p[n].value
                             \/ \E m \in 1..Len(p) : m > n /\ p[m].key = p[n].key
    BY DEF Current
  <1>3. CASE y.inbox = << >>
    <2>1. Current(y)
      BY <1>3 DEF Current
    <2>2. y.inbox = Append(p, c) => FALSE
      BY <1>3, AppendProperties
    <2> QED BY <1>3, <2>1, <2>2
  <1>4. CASE y.inbox = p /\ x.val[c.key] = c.value
    <2>1. \A k \in Keys : y.val[k] = x.val[k]
      BY <1>4
    <2>2. Current(y)
      BY <1>1, <1>2, <1>4, <2>1 DEF Current
    <2>3. y.inbox # Append(p, c)
      BY <1>4, AppendFacts
    <2> QED BY <1>4, <2>2, <2>3
  <1>5. CASE y.inbox = Append(p, c)
    <2>1. PICK r \in Seq(Change) : r = y.inbox
      BY FieldsOfGenerator
    <2>2. r = Append(p, c)
      BY <1>5, <2>1
    <2>3. /\ Len(p) \in Nat /\ Len(r) = Len(p) + 1
          /\ \A n \in 1..Len(p) : r[n] = p[n] /\ n \in 1..Len(r)
          /\ r[Len(r)] = c /\ Len(r) \in 1..Len(r)
          /\ \A n \in 1..Len(r) : n \in 1..Len(p) \/ n = Len(r)
      BY <2>2, AppendFacts
    <2>4. ASSUME NEW n \in 1..Len(r)
          PROVE  \/ y.val[r[n].key] = r[n].value
                 \/ \E m \in 1..Len(r) : m > n /\ r[m].key = r[n].key
      <3>1. CASE n = Len(r)
        BY <2>3, <3>1
      <3>2. CASE n \in 1..Len(p) /\ p[n].key = c.key
        <4>1. Len(r) > n
          BY <2>3, <3>2
        <4> QED BY <2>3, <3>2, <4>1
      <3>3. CASE n \in 1..Len(p) /\ p[n].key # c.key
        <4>1. y.val[r[n].key] = x.val[p[n].key] /\ r[n] = p[n]
          BY <1>1, <2>3, <3>3
        <4>2. ASSUME NEW m \in 1..Len(p), m > n /\ p[m].key = p[n].key
              PROVE  m \in 1..Len(r) /\ m > n /\ r[m].key = r[n].key
          BY <2>3, <4>1, <4>2
        <4> QED BY <1>2, <3>3, <4>1, <4>2
      <3> QED BY <2>3, <3>1, <3>2, <3>3
    <2>5. Current(y)
      BY <2>1, <2>4 DEF Current
    <2>6. \A k \in Keys : Carries(p, k) => Carries(r, k)
      BY <2>3 DEF Carries
    <2>7. Carries(r, c.key)
      BY <2>3 DEF Carries
    <2> QED BY <2>1, <2>5, <2>6, <2>7
  <1> QED BY <1>3, <1>4, <1>5

\* A set of natural numbers has a least one.
LEMMA LeastNatural ==
    ASSUME NEW T, T \subseteq Nat, T # {}
    PROVE  \E x \in T : \A y \in T : x <= y
  <1> DEFINE R == OpToRel(<, Nat)
  <1>1. IsWellFoundedOn(R, Nat)
    BY NatLessThanWellFounded, Zenon
  <1>2. \A a, b \in Nat : a < b => <<a, b>> \in R
    BY DEF OpToRel
  <1> HIDE DEF R
  <1>3. PICK x \in T : \A y \in T : ~(<<y, x>> \in R)
    BY <1>1, WFMin
  <1>4. ASSUME NEW y \in T PROVE x <= y
    <2>1. x \in Nat /\ y \in Nat /\ <<y, x>> \notin R
      BY <1>3
    <2>2. ~(y < x)
      BY <1>2, <2>1
    <2> QED BY <2>1, <2>2
  <1> QED BY <1>4

\* first_ok(): no generator before the one that it finds is ok, and none at all if it
\* finds none.
Finds(g1, i) ==
    /\ g1 \in [Gens -> Generator] /\ i \in Gens \cup {None}
    /\ \A j \in Gens : Looked(gen[j], g1[j]) /\ Attempts(g1[j], now)
    /\ i = None => \A j \in Gens : On(order, j) => g1[j].conn # "ok"
    /\ i # None => /\ i \in Gens /\ On(order, i) /\ g1[i].conn = "ok"
                   /\ \A m, n \in 1..Len(order) : m < n /\ order[n] = i => g1[order[m]].conn # "ok"

LEMMA FindsFirst ==
    ASSUME Types, Distinct(order), \A i \in Gens : Attempts(gen[i], now)
    PROVE  Finds(AfterFirstOk, FirstOk)
  <1>1. PICK g1, i : g1 = AfterFirstOk /\ i = FirstOk
    OBVIOUS
  <1>2. /\ order \in Seq(Gens) /\ Len(order) \in Nat /\ DOMAIN order = 1..Len(order) /\ gen \in [Gens -> Generator]
        /\ up \in [Gens -> BOOLEAN] /\ now \in Nat /\ \A n \in 1..Len(order) : order[n] \in Gens
    BY DEF Types
  <1>3. None \notin Gens
    BY ReplicaAssumption
  <1>4. ASSUME NEW j \in Gens
        PROVE  /\ g1[j] \in Generator /\ Looked(gen[j], g1[j]) /\ Attempts(g1[j], now)
               /\ j \in Asked => g1[j].conn = Touch(gen[j], j).conn
    <2>1. gen[j] \in Generator /\ up[j] \in BOOLEAN
      BY <1>2
    <2>2. CASE j \in Asked
      <3>1. g1[j] = GenIsOk(gen[j], j)
        BY <1>1, <2>2 DEF AfterFirstOk
      <3>2. PICK y : y = GenIsOk(gen[j], j)
        OBVIOUS
      <3>3. Looked(gen[j], y) /\ Attempts(y, now) /\ y.conn = Touch(gen[j], j).conn
        BY <1>2, <2>1, <3>2, GenIsOkFacts
      <3> QED BY <3>1, <3>2, <3>3 DEF Looked
    <2>3. CASE j \notin Asked
      <3>1. g1[j] = gen[j]
        BY <1>1, <2>3 DEF AfterFirstOk
      <3>2. gen[j].conn = "broken" => gen[j].conn # "ok"
        OBVIOUS
      <3> QED BY <2>1, <2>3, <3>1, <3>2 DEF Looked
    <2> QED BY <2>2, <2>3
  <1>5. g1 \in [Gens -> Generator]
    <2>1. g1 = [j \in Gens |-> g1[j]]
      BY <1>1 DEF AfterFirstOk
    <2> QED BY <1>4, <2>1
  <1>6. ASSUME NEW n \in 1..Len(order), \A m \in 1..(n - 1) : ~IsFirst(order[m])
        PROVE  order[n] \in Asked
    BY <1>2, <1>6 DEF Asked
  <1>7. CASE \E j \in Gens : IsFirst(j)
    <2>1. i \in Gens /\ IsFirst(i)
      BY <1>1, <1>7 DEF FirstOk
    <2>2. PICK n \in 1..Len(order) :
              /\ order[n] = i /\ Touch(gen[i], i).conn = "ok"
              /\ \A m \in 1..(n - 1) : Touch(gen[order[m]], order[m]).conn # "ok"
      BY <1>2, <2>1 DEF IsFirst
    <2>3. \A m \in 1..(n - 1) : ~IsFirst(order[m])
      BY <2>2 DEF IsFirst
    <2>4. ASSUME NEW m \in 1..n PROVE order[m] \in Asked /\ order[m] \in Gens
      <3>1. m \in 1..Len(order) /\ \A l \in 1..(m - 1) : l \in 1..(n - 1)
        BY <1>2
      <3> QED BY <1>2, <1>6, <2>3, <3>1
    <2>5. n \in 1..n
      BY <1>2
    <2>6. g1[i].conn = "ok"
      BY <1>4, <2>1, <2>2, <2>4, <2>5
    <2>7. ASSUME NEW m \in 1..Len(order), NEW l \in 1..Len(order), m < l, order[l] = i
          PROVE  g1[order[m]].conn # "ok"
      <3>1. l = n
        BY <2>2, <2>7 DEF Distinct
      <3>2. m \in 1..(n - 1) /\ m \in 1..n
        BY <1>2, <2>7, <3>1
      <3>3. g1[order[m]].conn = Touch(gen[order[m]], order[m]).conn
        BY <1>4, <2>4, <3>2
      <3> QED BY <2>2, <3>2, <3>3
    <2>8. On(order, i)
      BY <2>2 DEF On
    <2> QED BY <1>1, <1>3, <1>4, <1>5, <2>1, <2>6, <2>7, <2>8 DEF Finds
  <1>8. CASE ~\E j \in Gens : IsFirst(j)
    <2>1. i = None
      BY <1>1, <1>8 DEF FirstOk
    <2>2. PICK B : B = {n \in 1..Len(order) : Touch(gen[order[n]], order[n]).conn = "ok"}
      OBVIOUS
    <2>3. B = {}
      <3>1. SUFFICES ASSUME B # {} PROVE FALSE
        OBVIOUS
      <3>2. B \in SUBSET Nat
        BY <1>2, <2>2
      <3>3. PICK n \in B : \A m \in B : n <= m
        BY <3>1, <3>2, LeastNatural
      <3>4. n \in 1..Len(order) /\ Touch(gen[order[n]], order[n]).conn = "ok"
        BY <2>2, <3>3
      <3>5. ASSUME NEW m \in 1..(n - 1) PROVE Touch(gen[order[m]], order[m]).conn # "ok"
        <4>1. m \in 1..Len(order) /\ ~(n <= m)
          BY <1>2, <3>4
        <4> QED BY <2>2, <3>3, <4>1
      <3>6. order[n] \in Gens
        BY <1>2, <3>4
      <3>7. IsFirst(order[n])
        BY <1>2, <3>4, <3>5 DEF IsFirst
      <3> QED BY <1>8, <3>6, <3>7
    <2>4. ASSUME NEW j \in Gens, On(order, j) PROVE g1[j].conn # "ok"
      <3>1. PICK n \in 1..Len(order) : order[n] = j
        BY <2>4 DEF On
      <3>2. \A m \in 1..(n - 1) : order[m] \in Gens
        BY <1>2
      <3>3. j \in Asked
        BY <1>6, <1>8, <3>1, <3>2
      <3>4. Touch(gen[j], j).conn # "ok"
        BY <2>2, <2>3, <3>1
      <3> QED BY <1>4, <3>3, <3>4
    <2> QED BY <1>1, <1>4, <1>5, <2>1, <2>4 DEF Finds
  <1> QED BY <1>7, <1>8

-----------------------------------------------------------------------------
(* What a step leaves true of the parts of the invariant.  q are the       *)
(* notices that are read in the step.                                      *)

\* A key of a generator changes with a notice, and notices on their way are read or stay.
MovesAt(j, o, x, y, q, k) ==
    y.conn = "ok" /\ On(o, j) =>
        /\ y.val[k] = x.val[k] \/ Carries(q, k) \/ Carries(y.inbox, k)
        /\ Carries(x.inbox, k) => Carries(q, k) \/ Carries(y.inbox, k)
Moved(o, g, g1, q, k) == \A j \in Gens : MovesAt(j, o, g[j], g1[j], q, k)

AllMoved(o, g, g1, q) == \A k \in Keys : Moved(o, g, g1, q, k)

\* No notice about k is lost with its connection.
NoLoss(g, g1, q, k) == \A j \in Gens : Carries(g[j].inbox, k) => Carries(q, k) \/ Carries(g1[j].inbox, k)

LEMMA LookedMoves ==
    ASSUME NEW j, NEW o, NEW x, NEW y, NEW q, NEW k, Looked(x, y)
    PROVE  MovesAt(j, o, x, y, q, k)
  BY DEF Looked, MovesAt

\* A notice about k stays pending, and what changes has one.
Mild(o, g, st, g1, st1, k) ==
    /\ Pending(g, st, k) => Pending(g1, st1, k)
    /\ \A j \in Gens : g1[j].conn = "ok" /\ On(o, j) => g1[j].val[k] = g[j].val[k] \/ Pending(g1, st1, k)

LEMMA MildStep ==
    ASSUME NEW o, NEW g, NEW st, NEW g1, NEW st1, NEW q, NEW k, Moved(o, g, g1, q, k), NoLoss(g, g1, q, k),
           Waits(st, k) => Waits(st1, k), Carries(q, k) => Waits(st1, k)
    PROVE  Mild(o, g, st, g1, st1, k)
  <1>1. ASSUME NEW j \in Gens, Carries(g[j].inbox, k) PROVE Pending(g1, st1, k)
    <2>1. Carries(q, k) \/ Carries(g1[j].inbox, k)
      BY <1>1 DEF NoLoss
    <2> QED BY <2>1 DEF Pending
  <1>2. ASSUME NEW j \in Gens, g1[j].conn = "ok" /\ On(o, j) PROVE g1[j].val[k] = g[j].val[k] \/ Pending(g1, st1, k)
    <2>1. g1[j].val[k] = g[j].val[k] \/ Carries(q, k) \/ Carries(g1[j].inbox, k)
      BY <1>2 DEF Moved, MovesAt
    <2> QED BY <2>1 DEF Pending
  <1>3. Pending(g, st, k) => Pending(g1, st1, k)
    BY <1>1 DEF Pending
  <1> QED BY <1>2, <1>3 DEF Mild

LEMMA SameKept ==
    ASSUME NEW o, NEW g, NEW st, NEW g1, NEW st1, NEW k, Mild(o, g, st, g1, st1, k), NEW i \in Gens, NEW j \in Gens,
           On(o, i), On(o, j), g1[i].conn = "ok", g1[j].conn = "ok", Same(g, st, i, j, k)
    PROVE  Same(g1, st1, i, j, k)
  <1>1. g1[i].val[k] = g[i].val[k] \/ Pending(g1, st1, k)
    BY DEF Mild
  <1>2. g1[j].val[k] = g[j].val[k] \/ Pending(g1, st1, k)
    BY DEF Mild
  <1>3. Pending(g, st, k) => Pending(g1, st1, k)
    BY DEF Mild
  <1> QED BY <1>1, <1>2, <1>3 DEF Same

\* Nobody on the list is connected to again.
NoneBack(o, g, g1) == \A j \in Gens : On(o, j) /\ g1[j].conn = "ok" => g[j].conn = "ok"

\* The replicate() calls stay as they are, and end no sooner.
SameCalls(o, st, st1) ==
    /\ \A n \in 1..Len(st1) : st1[n].pc = "replicate" =>
          n \in 1..Len(st) /\ st[n] = st1[n] /\ (st1[n].first # None => On(o, st1[n].first))
    /\ Has(st, Replicating) => Has(st1, Replicating)

\* k is not being passed on, or still is.
Quietly(o, g, st, g1, st1) ==
    \A k \in Keys : ~Passing(st1, k) => ~Passing(st, k) /\ Mild(o, g, st, g1, st1, k)

LEMMA AgreeKept ==
    ASSUME NEW o, NEW g, NEW st, NEW g1, NEW st1, AgreeAll(o, g, st), Quietly(o, g, st, g1, st1),
           SameCalls(o, st, st1), NoneBack(o, g, g1)
    PROVE  AgreeAll(o, g1, st1)
  <1>1. ASSUME NEW i \in Connected(g1), On(o, i) PROVE i \in Gens /\ i \in Connected(g) /\ g1[i].conn = "ok"
    BY <1>1 DEF Connected, NoneBack
  <1>2. ASSUME ~Has(st1, Replicating), NEW i \in Connected(g1), NEW j \in Connected(g1), NEW k \in Keys,
               On(o, i), On(o, j), ~Passing(st1, k)
        PROVE  Same(g1, st1, i, j, k)
    <2>1. ~Has(st, Replicating)
      BY <1>2 DEF SameCalls
    <2>2. ~Passing(st, k) /\ Mild(o, g, st, g1, st1, k)
      BY <1>2 DEF Quietly
    <2>3. Same(g, st, i, j, k)
      BY <1>1, <1>2, <2>1, <2>2 DEF AgreeAll
    <2> QED BY <1>1, <1>2, <2>2, <2>3, SameKept
  <1>3. ASSUME NEW n \in 1..Len(st1), st1[n].pc = "replicate", st1[n].first \in Connected(g1),
               ~On(st1[n].todo, st1[n].first), NEW j \in Connected(g1), NEW k \in Keys, On(o, j), ~Passing(st1, k)
        PROVE  Compared(o, g1, st1, st1[n], j, k)
    <2>1. PICK f : f = st1[n]
      OBVIOUS
    <2>2. n \in 1..Len(st) /\ st[n] = f /\ (f.first # None => On(o, f.first))
      BY <1>3, <2>1 DEF SameCalls
    <2>3. f.first \in Gens
      BY <1>3, <2>1 DEF Connected
    <2>4. f.first # None
      BY <2>3, ReplicaAssumption
    <2>5. /\ On(o, f.first) /\ f.first \in Connected(g) /\ g1[f.first].conn = "ok"
          /\ j \in Gens /\ j \in Connected(g) /\ g1[j].conn = "ok"
      BY <1>1, <1>3, <2>1, <2>2, <2>4
    <2>6. ~Passing(st, k) /\ Mild(o, g, st, g1, st1, k)
      BY <1>3 DEF Quietly
    <2>7. Compared(o, g, st, f, j, k)
      BY <1>3, <2>1, <2>2, <2>5, <2>6 DEF AgreeAll
    <2>8. CASE Same(g, st, f.first, j, k)
      <3>1. Same(g1, st1, f.first, j, k)
        BY <1>3, <2>3, <2>5, <2>6, <2>8, SameKept
      <3> QED BY <2>1, <3>1 DEF Compared
    <2>9. CASE g[f.first].val[k] = Null /\ Uncompared(f, j, k)
      <3>1. g1[f.first].val[k] = g[f.first].val[k] \/ Pending(g1, st1, k)
        BY <2>3, <2>5, <2>6 DEF Mild
      <3>2. CASE Pending(g1, st1, k)
        BY <2>1, <3>2 DEF Compared, Same
      <3>3. CASE g1[f.first].val[k] = g[f.first].val[k]
        BY <2>1, <2>9, <3>3 DEF Compared
      <3> QED BY <3>1, <3>2, <3>3
    <2>10. CASE f.src = f.first /\ Carries(f.items, k)
      BY <2>1, <2>10 DEF Compared
    <2> QED BY <2>7, <2>8, <2>9, <2>10 DEF Compared
  <1> QED BY <1>2, <1>3 DEF AgreeAll

LEMMA WatchKept ==
    ASSUME NEW o, NEW g, NEW st, NEW g1, NEW st1, NEW d, NEW s, NEW d1, NEW s1,
           WatchAll(o, g, st, d, s), Quietly(o, g, st, g1, st1), SameCalls(o, st, st1),
           \A i \in Gens \ Remote : g1[i].conn = "ok",
           FirstHeld(g1, st1), \A n \in 1..Len(st1) : st1[n].pc = "replicate" => st1[n].first \in Gens \cup {None},
           \A k \in Keys : \A v : Told(d, s, k, v) => Told(d1, s1, k, v)
    PROVE  WatchAll(o, g1, st1, d1, s1)
  <1>1. ASSUME NEW i \in Gens \ Remote, NEW k \in Keys, On(o, i), ~Passing(st1, k), Known(g, st, d, s, i, k)
        PROVE  Known(g1, st1, d1, s1, i, k)
    <2>1. Mild(o, g, st, g1, st1, k)
      BY <1>1 DEF Quietly
    <2>2. g1[i].val[k] = g[i].val[k] \/ Pending(g1, st1, k)
      BY <1>1, <2>1 DEF Mild
    <2>3. Pending(g, st, k) => Pending(g1, st1, k)
      BY <2>1 DEF Mild
    <2>4. Told(d, s, k, g[i].val[k]) => Told(d1, s1, k, g[i].val[k])
      OBVIOUS
    <2> QED BY <1>1, <2>2, <2>3, <2>4 DEF Known
  <1>2. ASSUME ~Has(st1, Replicating), NEW i \in Gens \ Remote, NEW k \in Keys, On(o, i), ~Passing(st1, k)
        PROVE  Known(g1, st1, d1, s1, i, k)
    <2>1. ~Has(st, Replicating) /\ ~Passing(st, k)
      BY <1>2 DEF SameCalls, Quietly
    <2>2. Known(g, st, d, s, i, k)
      BY <1>2, <2>1 DEF WatchAll
    <2> QED BY <1>1, <1>2, <2>2
  <1>3. ASSUME NEW n \in 1..Len(st1), st1[n].pc = "replicate", st1[n].first # None,
               NEW i \in Gens \ Remote, NEW k \in Keys, On(o, i), ~Passing(st1, k)
        PROVE  Announced(g1, st1, d1, s1, st1[n], i, k)
    <2>1. PICK f : f = st1[n]
      OBVIOUS
    <2>2. n \in 1..Len(st) /\ st[n] = f /\ On(o, f.first) /\ f.first \in Gens /\ g1[f.first].conn = "ok"
      BY <1>3, <2>1 DEF SameCalls, FirstHeld
    <2>3. ~Passing(st, k) /\ Mild(o, g, st, g1, st1, k)
      BY <1>3 DEF Quietly
    <2>4. Announced(g, st, d, s, f, i, k)
      BY <1>3, <2>1, <2>2, <2>3 DEF WatchAll
    <2>5. CASE Known(g, st, d, s, i, k)
      <3>1. Known(g1, st1, d1, s1, i, k)
        BY <1>1, <1>3, <2>5
      <3> QED BY <2>1, <3>1 DEF Announced
    <2>6. CASE ~Known(g, st, d, s, i, k)
      <3>1. /\ Uncompared(f, i, k)
            /\ On(f.todo, f.first) \/ g[f.first].val[k] = Null \/ (f.src = f.first /\ Carries(f.items, k))
        BY <2>4, <2>6 DEF Announced
      <3>2. g1[f.first].val[k] = g[f.first].val[k] \/ Pending(g1, st1, k)
        BY <2>2, <2>3 DEF Mild
      <3>3. CASE Pending(g1, st1, k)
        BY <2>1, <3>3 DEF Announced, Known
      <3>4. CASE g1[f.first].val[k] = g[f.first].val[k]
        BY <2>1, <3>1, <3>4 DEF Announced
      <3> QED BY <3>2, <3>3, <3>4
    <2> QED BY <2>5, <2>6
  <1> QED BY <1>2, <1>3 DEF WatchAll

\* While begin or crashed is at the top there is nothing to show.
LEMMA NothingYet ==
    ASSUME NEW o, NEW g, NEW st, NEW d, NEW s, Has(st, Replicating), \A n \in 1..Len(st) : st[n].pc # "replicate"
    PROVE  AgreeAll(o, g, st) /\ WatchAll(o, g, st, d, s)
  BY DEF AgreeAll, WatchAll

\* i stays steady.
StaysSteady(g, un, g1, un1, i) == Steady(g1[i], un1, i) => Steady(g[i], un, i)

LEMMA ReachedKept ==
    ASSUME NEW i \in Gens, NEW o, NEW g, NEW un, NEW g1, NEW un1, NEW c, c.key \in Keys, On(o, i),
           StaysSteady(g, un, g1, un1, i), MovesAt(i, o, g[i], g1[i], << >>, c.key), Reached(g[i], un, i, c)
    PROVE  Reached(g1[i], un1, i, c)
  <1>1. ~Carries(<< >>, c.key)
    BY DEF Carries
  <1> QED BY <1>1 DEF Reached, StaysSteady, Steady, MovesAt

LEMMA PassedKept ==
    ASSUME NEW o, NEW g, NEW st, NEW un, NEW g1, NEW st1, NEW un1, NEW q, PassedAll(o, g, st, un),
           \A n \in 1..Len(st1) : st1[n].pc = "pass" =>
               n \in 1..Len(st) /\ st[n] = st1[n] /\ q = << >> /\ st1[n].c.key \in Keys
               /\ \A i \in Gens : On(o, i) => StaysSteady(g, un, g1, un1, i),
           \A k \in Keys : Moved(o, g, g1, q, k)
    PROVE  PassedAll(o, g1, st1, un1)
  <1>1. SUFFICES ASSUME NEW n \in 1..Len(st1), st1[n].pc = "pass",
                        NEW i \in Gens, On(o, i), ~On(st1[n].todo, i), i # st1[n].src
                 PROVE  Reached(g1[i], un1, i, st1[n].c)
    BY DEF PassedAll
  <1>2. PICK f : f = st1[n]
    OBVIOUS
  <1>3. n \in 1..Len(st) /\ st[n] = f /\ q = << >> /\ f.c.key \in Keys /\ StaysSteady(g, un, g1, un1, i)
    BY <1>1, <1>2
  <1>4. Reached(g[i], un, i, f.c)
    BY <1>1, <1>2, <1>3 DEF PassedAll
  <1>5. MovesAt(i, o, g[i], g1[i], << >>, f.c.key)
    BY <1>3 DEF Moved
  <1> QED BY <1>1, <1>2, <1>3, <1>4, <1>5, ReachedKept

\* The calls of replicate() stay, and their first generators stay steady.
SteadyFirsts(o, g, un, g1, un1, st, st1) ==
    \A n \in 1..Len(st1) : st1[n].pc = "replicate" =>
        /\ n \in 1..Len(st) /\ st[n] = st1[n] /\ st1[n] \in FrameRec
        /\ st1[n].items # << >> => st1[n].src # None
        /\ st1[n].first # None => On(o, st1[n].first) /\ StaysSteady(g, un, g1, un1, st1[n].first)

LEMMA ListedKept ==
    ASSUME NEW o, NEW g, NEW st, NEW un, NEW g1, NEW st1, NEW un1, NEW q, ListedAll(g, st, un),
           SteadyFirsts(o, g, un, g1, un1, st, st1), Has(st1, {"replicate"}) => q = << >>, AllMoved(o, g, g1, q)
    PROVE  ListedAll(g1, st1, un1)
  <1>1. SUFFICES ASSUME NEW n \in 1..Len(st1), st1[n].pc = "replicate", st1[n].src = st1[n].first,
                        NEW m \in 1..Len(st1[n].items)
                 PROVE  Reached(g1[st1[n].first], un1, st1[n].first, st1[n].items[m])
    BY DEF ListedAll
  <1>2. PICK f : f = st1[n]
    OBVIOUS
  <1>3. f \in FrameRec /\ f.items \in Seq(Change) /\ f.first \in Gens \cup {None}
    BY <1>1, <1>2, FieldsOf DEF SteadyFirsts
  <1>4. f.items # << >>
    BY <1>1, <1>2, <1>3
  <1>5. /\ n \in 1..Len(st) /\ st[n] = f /\ f.first # None /\ On(o, f.first) /\ q = << >>
        /\ StaysSteady(g, un, g1, un1, f.first)
    BY <1>1, <1>2, <1>4 DEF SteadyFirsts, Has
  <1>6. f.first \in Gens
    BY <1>3, <1>5
  <1>7. PICK c \in Change : c = f.items[m]
    BY <1>1, <1>2, <1>3
  <1>8. c.key \in Keys
    BY DEF Change
  <1>9. Reached(g[f.first], un, f.first, c)
    BY <1>1, <1>2, <1>5, <1>7 DEF ListedAll
  <1>10. MovesAt(f.first, o, g[f.first], g1[f.first], << >>, c.key)
    BY <1>5, <1>6, <1>8 DEF AllMoved, Moved
  <1>11. Reached(g1[f.first], un1, f.first, c)
    BY <1>5, <1>6, <1>8, <1>9, <1>10, ReachedKept
  <1> QED BY <1>2, <1>7, <1>11

\* The notices that are read: each one has the value that i holds, or a later one follows.
Leaves(x, q) ==
    \A n \in 1..Len(q) :
        \/ x.val[q[n].key] = q[n].value \/ Carries(x.inbox, q[n].key)
        \/ \E m \in 1..Len(q) : m > n /\ q[m].key = q[n].key

\* The notices below a come from generators that stay steady; the frames between a
\* and b are no notices.
SteadySources(o, g, un, g1, un1, st, a) ==
    \A n \in 1..a : st[n].pc \in {"delta", "pass"} =>
        st[n] \in FrameRec /\ On(o, st[n].src) /\ StaysSteady(g, un, g1, un1, st[n].src)
OnlyCalls(st1, a, b) == \A n \in 1..Len(st1) : n > a /\ n <= b => st1[n].pc \notin {"delta", "pass"}

LEMMA SourcedKept ==
    ASSUME NEW o, NEW g, NEW st, NEW un, NEW g1, NEW st1, NEW un1, NEW a, NEW b, NEW i, NEW q \in Seq(Change),
           SourcedAll(g, st, un), Grows(st, st1, a, b, i, q), q # << >> => Calm(st, a),
           SteadySources(o, g, un, g1, un1, st, a), OnlyCalls(st1, a, b), AllMoved(o, g, g1, q),
           Steady(g1[i], un1, i) => Leaves(g1[i], q), ~Doomed(st1)
    PROVE  SourcedAll(g1, st1, un1)
  <1>0. /\ a \in Nat /\ b \in Nat /\ a <= b /\ Len(st) \in Nat /\ Len(st1) \in Nat /\ Len(q) \in Nat
        /\ Len(st1) = b + Len(q) /\ st1 \in Seq(FrameRec)
        /\ \A n \in 1..a : st1[n] = st[n] /\ n \in 1..Len(st) /\ n \in 1..Len(st1)
        /\ \A n \in 1..Len(st1) : n > b =>
              st1[n].pc = "delta" /\ st1[n].src = i /\ st1[n].c = q[(Len(st1) - n) + 1] /\ (Len(st1) - n) + 1 \in 1..Len(q)
        /\ \A n \in 1..Len(q) : st1[(Len(st1) - n) + 1].c = q[n] /\ (Len(st1) - n) + 1 > b /\ (Len(st1) - n) + 1 \in 1..Len(st1)
    BY DEF Grows, Keeps
  <1>1. SUFFICES ASSUME NEW n \in 1..Len(st1), st1[n].pc \in {"delta", "pass"}
                 PROVE  Sourced(g1, st1, un1, n, st1[n].src, st1[n].c)
    BY DEF SourcedAll
  <1>2. CASE n <= a
    <2>1. n \in 1..a /\ st1[n] = st[n] /\ n \in 1..Len(st)
      BY <1>0, <1>2
    <2>2. PICK f \in FrameRec : f = st[n] /\ f = st1[n]
      BY <1>1, <2>1 DEF SteadySources
    <2>3. f.src \in Gens /\ f.c \in Change /\ f.c.key \in Keys
      <3>1. f.pc \in Notice
        BY <1>1, <2>2 DEF Notice
      <3> QED BY <3>1, FieldsOf
    <2>4. Sourced(g, st, un, n, f.src, f.c) /\ StaysSteady(g, un, g1, un1, f.src) /\ On(o, f.src)
      BY <1>1, <2>1, <2>2 DEF SourcedAll, SteadySources
    <2>5. q = << >>
      <3>1. SUFFICES ASSUME q # << >> PROVE FALSE
        OBVIOUS
      <3>2. st[n].pc = "delta" /\ \E l \in 1..a : st[l].pc = "delivered"
        BY <1>1, <2>1, <3>1 DEF Calm, Tops
      <3>3. Has(st1, {"pass", "delivered"})
        BY <1>0, <3>2 DEF Has
      <3>4. Len(q) # 0
        BY <3>1
      <3>5. Len(st1) \in 1..Len(st1) /\ Len(st1) > b
        BY <1>0, <3>4
      <3>6. st1[Len(st1)].pc = "delta" /\ st1 # << >>
        BY <1>0, <3>5
      <3> QED BY <3>3, <3>6 DEF Doomed
    <2>6. MovesAt(f.src, o, g[f.src], g1[f.src], << >>, f.c.key)
      BY <2>3, <2>5 DEF AllMoved, Moved
    <2>7. ~Carries(<< >>, f.c.key)
      BY DEF Carries
    <2>8. ASSUME Steady(g1[f.src], un1, f.src)
          PROVE  g1[f.src].val[f.c.key] = f.c.value \/ Later(g1[f.src], st1, n, f.src, f.c.key)
      <3>1. \A m \in 1..(n - 1) : m \in 1..a /\ st1[m] = st[m]
        BY <1>0, <2>1
      <3>2. Carries(g[f.src].inbox, f.c.key) => Carries(g1[f.src].inbox, f.c.key)
        BY <2>4, <2>6, <2>7, <2>8 DEF MovesAt, Steady
      <3>3. Later(g[f.src], st, n, f.src, f.c.key) => Later(g1[f.src], st1, n, f.src, f.c.key)
        BY <3>1, <3>2 DEF Later
      <3>4. g[f.src].val[f.c.key] = f.c.value \/ Later(g1[f.src], st1, n, f.src, f.c.key)
        BY <2>4, <2>8, <3>3 DEF Sourced, StaysSteady
      <3>5. g1[f.src].val[f.c.key] = g[f.src].val[f.c.key] \/ Carries(g1[f.src].inbox, f.c.key)
        BY <2>4, <2>6, <2>7, <2>8 DEF MovesAt, Steady
      <3>6. Carries(g1[f.src].inbox, f.c.key) => Later(g1[f.src], st1, n, f.src, f.c.key)
        BY DEF Later
      <3> QED BY <3>4, <3>5, <3>6
    <2> QED BY <2>2, <2>8 DEF Sourced
  <1>3. CASE n > a
    <2>1. n > b
      BY <1>0, <1>1, <1>3 DEF OnlyCalls
    <2>2. PICK p \in 1..Len(q) : p = (Len(st1) - n) + 1 /\ st1[n].src = i /\ st1[n].c = q[p]
      BY <1>0, <2>1
    <2>3. Steady(g1[i], un1, i) =>
             \/ g1[i].val[q[p].key] = q[p].value \/ Carries(g1[i].inbox, q[p].key)
             \/ \E m \in 1..Len(q) : m > p /\ q[m].key = q[p].key
      BY DEF Leaves
    <2>4. ASSUME NEW m \in 1..Len(q), m > p, q[m].key = q[p].key PROVE Later(g1[i], st1, n, i, q[p].key)
      <3>1. PICK l \in 1..Len(st1) : l = (Len(st1) - m) + 1 /\ l > b /\ st1[l].c = q[m]
        BY <1>0
      <3>2. l \in 1..(n - 1)
        BY <1>0, <2>2, <2>4, <3>1
      <3>3. st1[l].pc = "delta" /\ st1[l].src = i
        BY <1>0, <3>1
      <3> QED BY <2>4, <3>1, <3>2, <3>3 DEF Later
    <2>5. Carries(g1[i].inbox, q[p].key) => Later(g1[i], st1, n, i, q[p].key)
      BY DEF Later
    <2>6. Steady(g1[i], un1, i) => g1[i].val[q[p].key] = q[p].value \/ Later(g1[i], st1, n, i, q[p].key)
      BY <2>3, <2>4, <2>5
    <2> QED BY <2>2, <2>6 DEF Sourced
  <1> QED BY <1>0, <1>2, <1>3

\* What replicate() knows of its first generator.
Stays(o, st, st1) ==
    \A n \in 1..Len(st1) : st1[n].pc = "replicate" => n \in 1..Len(st) /\ st[n] = st1[n] /\ FrameOK(st1[n], o)

LEMMA LeadsMonotone ==
    ASSUME NEW o, NEW f, NEW C, NEW C1, Leads(o, f, C), f.pc = "replicate", FrameOK(f, o), \A i \in C1 : On(o, i) => i \in C
    PROVE  Leads(o, f, C1)
  <1>1. \A n \in 1..Len(f.todo) : On(o, f.todo[n])
    BY DEF FrameOK
  <1>2. f.first = None => \A i \in C1 : ~On(o, i)
    BY DEF Leads
  <1>3. ASSUME f.first # None, On(f.todo, f.first)
        PROVE  /\ \A i \in C1 : On(o, i) => On(f.todo, i)
               /\ \A m, n \in 1..Len(f.todo) : m < n /\ f.todo[n] = f.first => f.todo[m] \notin C1
    BY <1>1, <1>3 DEF Leads
  <1> QED BY <1>2, <1>3 DEF Leads

LEMMA LeadsKept ==
    ASSUME NEW o, NEW st, NEW st1, NEW C, NEW C1, Stays(o, st, st1), LeadsAll(o, st, C), \A i \in C1 : On(o, i) => i \in C
    PROVE  LeadsAll(o, st1, C1)
  <1>1. SUFFICES ASSUME NEW n \in 1..Len(st1), st1[n].pc = "replicate" PROVE Leads(o, st1[n], C1)
    BY DEF LeadsAll
  <1>2. PICK f : f = st1[n]
    OBVIOUS
  <1>3. f.pc = "replicate" /\ FrameOK(f, o) /\ n \in 1..Len(st) /\ st[n] = f
    BY <1>1, <1>2 DEF Stays
  <1>4. Leads(o, f, C)
    BY <1>3 DEF LeadsAll
  <1>5. Leads(o, f, C1)
    BY <1>3, <1>4, LeadsMonotone
  <1> QED BY <1>2, <1>5

LEMMA UnlistedKept ==
    ASSUME NEW o, NEW st, NEW st1, Stays(o, st, st1), UnlistedAll(st)
    PROVE  UnlistedAll(st1)
  BY DEF UnlistedAll, Stays

LEMMA FirstHeldKept ==
    ASSUME NEW o, NEW g, NEW g1, NEW st, NEW st1, Stays(o, st, st1), FirstHeld(g, st),
           \A n \in 1..Len(st1) : st1[n].pc = "replicate" => st1[n].first \in Gens \cup {None},
           \A i \in Gens : g[i].conn = "ok" => g1[i].conn = "ok"
    PROVE  FirstHeld(g1, st1)
  <1>1. SUFFICES ASSUME NEW n \in 1..Len(st1), st1[n].pc = "replicate", st1[n].first # None
                 PROVE  g1[st1[n].first].conn = "ok"
    BY DEF FirstHeld
  <1>2. n \in 1..Len(st) /\ st[n] = st1[n] /\ st1[n].first \in Gens
    BY <1>1 DEF Stays
  <1>3. g[st1[n].first].conn = "ok"
    BY <1>1, <1>2 DEF FirstHeld
  <1> QED BY <1>2, <1>3

\* A kind of call that is not ended is still there.
LEMMA HasKept ==
    ASSUME NEW st, NEW st1, NEW a, NEW S, Keeps(st, st1, a), \A n \in 1..Len(st) : n > a => st[n].pc \notin S
    PROVE  Has(st, S) => Has(st1, S)
  <1>1. \A n \in 1..a : st1[n] = st[n] /\ n \in 1..Len(st1)
    BY DEF Keeps
  <1>2. a \in Nat
    BY DEF Keeps
  <1>3. \A n \in 1..Len(st) : n > a \/ n \in 1..a
    BY <1>2
  <1> QED BY <1>1, <1>3 DEF Has

-----------------------------------------------------------------------------
(* A step that neither passes a notice on nor replicates.                  *)

\* unseen is true when a generator of the list came back and no replicate() follows.
Noticed ==
    /\ unseen => unseen'
    /\ ~unseen' /\ ~At("begin") /\ ~Has(stack', {"begin"}) => NoneBack(order, gen, gen')
    /\ ~unseen' => \A n \in 1..Len(stack) : stack[n].pc = "delta" /\ On(order, stack[n].src) =>
                       (gen'[stack[n].src].conn = "ok" => gen[stack[n].src].conn = "ok")

LEMMA InsideNoticed ==
    ASSUME Types, Types', \A j \in Gens : gen[j].conn = "broken" => gen'[j].conn # "ok",
           unseen' = (unseen \/ Unnoticed)
    PROVE  Noticed
  <1>1. /\ order \in Seq(Gens) /\ gen \in [Gens -> Generator] /\ unseen \in BOOLEAN
        /\ stack \in Seq(FrameRec) /\ stack' \in Seq(FrameRec)
    BY DEF Types
  <1>2. \A j : On(order, j) <=> j \in ToSet(order)
    BY <1>1, ToSetIsOn
  <1>3. \A j : On(order, j) => j \in Gens
    BY <1>1 DEF On
  <1>4. \A j \in Gens : gen'[j].conn = "ok" /\ gen[j].conn # "ok" => gen[j].conn = "none"
    <2>1. \A j \in Gens : gen[j] \in Generator
      BY <1>1
    <2>2. \A j \in Gens : gen[j].conn \in {"none", "ok", "broken"}
      BY <2>1, FieldsOfGenerator
    <2> QED BY <2>2
  <1>5. unseen => unseen'
    BY <1>1
  <1>6. ASSUME ~unseen', ~At("begin"), ~Has(stack', {"begin"}), NEW j \in Gens, On(order, j), gen'[j].conn = "ok", gen[j].conn # "ok"
        PROVE  FALSE
    <2>1. stack' = << >> \/ Last(stack').pc # "begin"
      <3>1. SUFFICES ASSUME stack' # << >> PROVE Last(stack').pc # "begin"
        OBVIOUS
      <3>2. PICK st : st = stack'
        OBVIOUS
      <3>3. Len(st) \in 1..Len(st) /\ Last(st) = st[Len(st)]
        BY <1>1, <3>1, <3>2 DEF Last
      <3> QED BY <1>6, <3>2, <3>3 DEF Has
    <2>2. Unnoticed
      BY <1>2, <1>4, <1>6, <2>1 DEF Unnoticed
    <2> QED BY <1>6, <2>2
  <1>7. ASSUME ~unseen', NEW n \in 1..Len(stack), stack[n].pc = "delta", On(order, stack[n].src),
               gen'[stack[n].src].conn = "ok", gen[stack[n].src].conn # "ok"
        PROVE  FALSE
    <2>1. n \in DOMAIN stack /\ stack[n].src \in Gens
      BY <1>1, <1>3, <1>7
    <2>2. Unnoticed
      BY <1>2, <1>4, <1>7, <2>1 DEF Unnoticed
    <2> QED BY <1>7, <2>2
  <1> QED BY <1>5, <1>6, <1>7 DEF Noticed, NoneBack

\* The frames above a end, at most two calls and then the notices q from i are new.
Plainly(a, b, i, q) ==
    /\ q \in Seq(Change) /\ Grows(stack, stack', a, b, i, q)
    /\ Calm(stack, a) \/ (q = << >> /\ b = a)
    /\ \A n \in 1..Len(stack') : n > a /\ n <= b =>
          stack'[n].pc \notin Notice /\ stack'[n].pc # "replicate" /\ (stack'[n].pc \in Tops => n = Len(stack'))
    /\ \A n \in 1..Len(stack) : n > a => stack[n].pc \notin {"delta", "pass", "begin", "replicate", "crashed"}
    /\ \A k \in Keys : Moved(order', gen, gen', q, k)
    /\ Leaves(gen'[i], q)
    /\ q # << >> => i \in Gens /\ On(order', i)

\* Without notices.
LEMMA NoNotices ==
    ASSUME NEW st, NEW st1, NEW a, NEW b \in Nat, Keeps(st, st1, a), a <= b, Len(st1) = b
    PROVE  Grows(st, st1, a, b, None, << >>)
  <1>1. Len(<< >>) = 0 /\ Len(<< >>) \in Nat
    OBVIOUS
  <1>2. b = b + 0 /\ ~\E n \in 1..0 : TRUE
    OBVIOUS
  <1>3. \A n \in 1..Len(st1) : ~(n > b)
    OBVIOUS
  <1> QED BY <1>1, <1>2, <1>3 DEF Grows

LEMMA NothingLeft ==
    ASSUME NEW x
    PROVE  Leaves(x, << >>)
  BY DEF Leaves

\* The frames of the new stack.
LEMMA PlainFrames ==
    ASSUME NEW a, NEW b, NEW i, NEW q, Plainly(a, b, i, q)
    PROVE  \A n \in 1..Len(stack') :
              \/ n \in 1..a /\ n \in 1..Len(stack) /\ stack'[n] = stack[n]
              \/ n > a /\ n <= b /\ stack'[n].pc \notin Notice /\ stack'[n].pc # "replicate"
              \/ n > b /\ q # << >> /\ stack'[n].pc = "delta" /\ stack'[n].src = i
  <1>1. /\ a \in Nat /\ b \in Nat /\ a <= b /\ Len(stack') \in Nat /\ Len(stack') = b + Len(q) /\ q \in Seq(Change) /\ Len(q) \in Nat
        /\ \A n \in 1..a : stack'[n] = stack[n] /\ n \in 1..Len(stack)
        /\ \A n \in 1..Len(stack') : n > b => stack'[n].pc = "delta" /\ stack'[n].src = i
    BY DEF Plainly, Grows, Keeps
  <1>2. SUFFICES ASSUME NEW n \in 1..Len(stack')
                 PROVE  \/ n \in 1..a /\ n \in 1..Len(stack) /\ stack'[n] = stack[n]
                        \/ n > a /\ n <= b /\ stack'[n].pc \notin Notice /\ stack'[n].pc # "replicate"
                        \/ n > b /\ q # << >> /\ stack'[n].pc = "delta" /\ stack'[n].src = i
    OBVIOUS
  <1>3. CASE n <= a
    <2>1. n \in 1..a
      BY <1>1, <1>3
    <2> QED BY <1>1, <2>1
  <1>4. CASE n > a /\ n <= b
    BY <1>4 DEF Plainly
  <1>5. CASE n > b
    <2>1. Len(q) # 0
      BY <1>1, <1>5
    <2>2. q # << >>
      BY <2>1
    <2> QED BY <1>1, <1>5, <2>2
  <1> QED BY <1>1, <1>3, <1>4, <1>5

LEMMA FrameOKMore ==
    ASSUME NEW f, NEW o, NEW o1, FrameOK(f, o), \A j : On(o, j) => On(o1, j)
    PROVE  FrameOK(f, o1)
  BY DEF FrameOK

LEMMA PlainBase ==
    ASSUME Base, Types', NEW a, NEW b, NEW i, NEW q, Plainly(a, b, i, q), Distinct(order'),
           \A j : On(order, j) => On(order', j),
           \A j \in Gens : GenOK(j, gen'[j], order', up'[j], now'),
           deltas' # << >> => Has(stack', {"replicate", "flush", "crashed"})
    PROVE  Base'
  <1>1. Shape(stack')
    <2>1. Keeps(stack, stack', a) /\ Shape(stack) /\ b \in Nat /\ Len(stack') = b + Len(q) /\ Len(q) \in Nat
      BY DEF Base, Plainly, Grows
    <2>2. CASE Calm(stack, a)
      <3>1. Fresh(stack', a, b, i)
        <4>1. SUFFICES ASSUME NEW n \in 1..Len(stack'), n > a
                       PROVE  \/ n > b /\ stack'[n].pc = "delta" /\ stack'[n].src = i
                              \/ /\ n <= b /\ stack'[n].pc \notin Notice /\ (stack'[n].pc \in Tops => n = Len(stack'))
                                 /\ stack'[n].pc # "replicate"
          BY DEF Fresh
        <4>2. CASE n <= b
          BY <4>1, <4>2 DEF Plainly
        <4>3. CASE n > b
          BY <4>3 DEF Plainly, Grows
        <4> QED BY <2>1, <4>2, <4>3
      <3> QED BY <2>1, <2>2, <3>1, ShapeGrows
    <2>3. CASE q = << >> /\ b = a
      <3>1. Len(stack') = a
        BY <2>1, <2>3
      <3> QED BY <2>1, <3>1, ShapePop
    <2> QED BY <2>2, <2>3 DEF Plainly
  <1>2. ASSUME NEW n \in 1..Len(stack') PROVE FrameOK(stack'[n], order')
    <2>1. CASE n \in 1..Len(stack) /\ stack'[n] = stack[n]
      <3>1. FrameOK(stack[n], order)
        BY <2>1 DEF Base
      <3> QED BY <2>1, <3>1, FrameOKMore
    <2>2. CASE stack'[n].pc \notin Notice /\ stack'[n].pc # "replicate"
      BY <2>2 DEF FrameOK, Notice
    <2>3. CASE q # << >> /\ stack'[n].pc = "delta" /\ stack'[n].src = i
      <3>1. On(order', i)
        BY <2>3 DEF Plainly
      <3> QED BY <2>3, <3>1 DEF FrameOK
    <2> QED BY <2>1, <2>2, <2>3, PlainFrames
  <1> QED BY <1>1, <1>2 DEF Base

LEMMA BeginAlone ==
    ASSUME NEW st \in Seq(FrameRec), Shape(st), NEW n \in 1..Len(st), st[n].pc \in {"pass", "replicate"}
    PROVE  ~Has(st, {"begin", "crashed"})
  <1>1. SUFFICES ASSUME NEW m \in 1..Len(st), st[m].pc \in {"begin", "crashed"} PROVE FALSE
    BY DEF Has
  <1>2. m = Len(st) /\ n # m
    BY <1>1 DEF Shape, Tops
  <1>3. n < m
    BY <1>2
  <1>4. Above(st[n], st[m]) /\ (st[n].pc \in Tops => n = Len(st))
    BY <1>3 DEF Shape
  <1>5. st[n].pc = "pass" => FALSE
    BY <1>2, <1>4 DEF Tops
  <1> QED BY <1>1, <1>4, <1>5 DEF Above

\* A generator that is steady was so before.
LEMMA SteadyBefore ==
    ASSUME Base, NEW j \in Gens, unseen => unseen', ~unseen' => (gen'[j].conn = "ok" => gen[j].conn = "ok")
    PROVE  StaysSteady(gen, unseen, gen', unseen', j)
  <1>1. j \notin Remote => gen[j].conn = "ok"
    BY DEF Base, GenOK
  <1> QED BY <1>1 DEF StaysSteady, Steady

\* The calls that pass a notice on or replicate are as they were.
LEMMA PlainCalls ==
    ASSUME Base, Base', NEW a, NEW b, NEW i, NEW q, Plainly(a, b, i, q), Noticed,
           order' = order \/ Has(stack', {"begin"}),
           NEW n \in 1..Len(stack'), stack'[n].pc \in {"pass", "replicate"}
    PROVE  /\ n \in 1..Len(stack) /\ stack[n] = stack'[n] /\ q = << >> /\ order' = order
           /\ stack'[n] \in FrameRec /\ stack[n] \in FrameRec /\ FrameOK(stack'[n], order')
           /\ ~unseen' => NoneBack(order, gen, gen')
           /\ \A j \in Gens : On(order, j) => StaysSteady(gen, unseen, gen', unseen', j)
  <1>1. /\ stack \in Seq(FrameRec) /\ stack' \in Seq(FrameRec) /\ Shape(stack) /\ Shape(stack')
    BY DEF Base, Types
  <1>2. n \in 1..a /\ n \in 1..Len(stack) /\ stack'[n] = stack[n]
    <2>1. stack'[n].pc \in Notice \/ stack'[n].pc = "replicate"
      BY DEF Notice
    <2>2. stack'[n].pc # "delta"
      OBVIOUS
    <2> QED BY <2>1, <2>2, PlainFrames
  <1>3. q = << >>
    BY <1>2 DEF Plainly, Calm, Tops
  <1>4. ~Has(stack', {"begin", "crashed"})
    BY <1>1, BeginAlone
  <1>5. ~Has(stack', {"begin"})
    BY <1>4 DEF Has
  <1>6. ~At("begin")
    <2>1. SUFFICES ASSUME At("begin") PROVE FALSE
      OBVIOUS
    <2>2. PICK l : l = Len(stack) /\ l \in 1..Len(stack) /\ stack[l].pc = "begin"
      BY <1>1, <2>1 DEF At, Top, Last
    <2>3. Keeps(stack, stack', a)
      BY DEF Plainly, Grows
    <2>4. ~(l > a)
      BY <2>2 DEF Plainly
    <2>5. l \in 1..a
      BY <1>1, <2>2, <2>3, <2>4 DEF Keeps
    <2>6. stack'[l] = stack[l] /\ l \in 1..Len(stack')
      BY <2>3, <2>5 DEF Keeps
    <2> QED BY <1>5, <2>2, <2>6 DEF Has
  <1>7. ~unseen' => NoneBack(order, gen, gen')
    BY <1>5, <1>6 DEF Noticed
  <1>8. ASSUME NEW j \in Gens, On(order, j) PROVE StaysSteady(gen, unseen, gen', unseen', j)
    <2>1. ~unseen' => (gen'[j].conn = "ok" => gen[j].conn = "ok")
      BY <1>7, <1>8 DEF NoneBack
    <2>2. unseen => unseen'
      BY DEF Noticed
    <2> QED BY <2>1, <2>2, SteadyBefore
  <1>9. FrameOK(stack'[n], order') /\ stack'[n] \in FrameRec
    BY <1>1 DEF Base
  <1> QED BY <1>2, <1>3, <1>5, <1>7, <1>8, <1>9

\* A notice that is about to be ignored still is.
LEMMA PlainDoomed ==
    ASSUME Base, NEW a, NEW b, NEW i, NEW q, Plainly(a, b, i, q), Doomed(stack)
    PROVE  Doomed(stack')
  <1>1. stack \in Seq(FrameRec) /\ Keeps(stack, stack', a) /\ Len(stack') = b + Len(q)
    BY DEF Base, Types, Plainly, Grows
  <1>2. PICK l \in Nat : l = Len(stack) /\ l \in 1..Len(stack) /\ stack[l].pc = "delta"
    BY <1>1 DEF Doomed
  <1>3. a = l
    BY <1>1, <1>2 DEF Plainly, Keeps
  <1>4. ~Calm(stack, a)
    BY <1>2, <1>3 DEF Calm
  <1>5. q = << >> /\ b = a
    BY <1>4 DEF Plainly
  <1>6. Len(stack') = l
    BY <1>1, <1>2, <1>3, <1>5
  <1>7. stack' # << >> /\ stack'[l] = stack[l] /\ \A n \in 1..l : stack'[n] = stack[n]
    BY <1>1, <1>2, <1>3, <1>6 DEF Keeps
  <1>8. Has(stack', {"pass", "delivered"})
    BY <1>2, <1>6, <1>7 DEF Doomed, Has
  <1> QED BY <1>2, <1>6, <1>7, <1>8 DEF Doomed

LEMMA PlainKnows ==
    ASSUME Knows, Base', NEW a, NEW b, NEW i, NEW q, Plainly(a, b, i, q), Noticed,
           dropped => dropped', lost => lost', order' = order \/ Has(stack', {"begin"}),
           \A j : On(order, j) => On(order', j),
           ~lost' /\ Has(stack', {"replicate"}) => \A j \in Gens : gen[j].conn = "ok" => gen'[j].conn = "ok"
    PROVE  Knows'
  <1>0. Base
    BY DEF Knows
  <1>1. /\ stack \in Seq(FrameRec) /\ stack' \in Seq(FrameRec) /\ Len(stack) \in Nat /\ q \in Seq(Change)
        /\ Grows(stack, stack', a, b, i, q) /\ Keeps(stack, stack', a) /\ Leaves(gen'[i], q)
        /\ \A k \in Keys : Moved(order', gen, gen', q, k)
    BY <1>0 DEF Base, Types, Plainly, Grows
  <1>2. unseen => unseen'
    BY DEF Noticed
  <1>3. ASSUME ~dropped', ~Doomed(stack') PROVE SourcedAll(gen', stack', unseen')
    <2>1. ~Doomed(stack)
      BY <1>0, <1>3, PlainDoomed
    <2>2. SourcedAll(gen, stack, unseen)
      BY <1>3, <2>1 DEF Knows
    <2>3. q # << >> => Calm(stack, a)
      BY DEF Plainly
    <2>4. ASSUME NEW n \in 1..a, stack[n].pc \in {"delta", "pass"}
          PROVE  stack[n] \in FrameRec /\ On(order', stack[n].src) /\ StaysSteady(gen, unseen, gen', unseen', stack[n].src)
      <3>1. n \in 1..Len(stack) /\ n \in 1..Len(stack') /\ stack'[n] = stack[n]
        BY <1>1 DEF Keeps
      <3>2. stack[n] \in FrameRec
        BY <1>1, <3>1
      <3>3. stack[n].src \in Gens
        <4>1. stack[n].pc \in Notice
          BY <2>4 DEF Notice
        <4> QED BY <3>2, <4>1, FieldsOf
      <3>4. On(order, stack[n].src)
        BY <1>0, <2>4, <3>1 DEF Base, FrameOK
      <3>5. CASE stack[n].pc = "delta"
        <4>1. ~unseen' => (gen'[stack[n].src].conn = "ok" => gen[stack[n].src].conn = "ok")
          BY <3>1, <3>4, <3>5 DEF Noticed
        <4> QED BY <1>0, <1>2, <3>2, <3>3, <3>4, <4>1, SteadyBefore
      <3>6. CASE stack[n].pc = "pass"
        <4>1. stack'[n].pc \in {"pass", "replicate"}
          BY <3>1, <3>6
        <4>2. \A j \in Gens : On(order, j) => StaysSteady(gen, unseen, gen', unseen', j)
          BY <1>0, <3>1, <4>1, PlainCalls
        <4> QED BY <3>2, <3>3, <3>4, <4>2
      <3> QED BY <2>4, <3>5, <3>6
    <2>5. \A n \in 1..Len(stack') : n > a /\ n <= b => stack'[n].pc \notin {"delta", "pass"}
      BY DEF Plainly, Notice
    <2>6. SteadySources(order', gen, unseen, gen', unseen', stack, a) /\ OnlyCalls(stack', a, b) /\ AllMoved(order', gen, gen', q)
      BY <1>1, <2>4, <2>5 DEF SteadySources, OnlyCalls, AllMoved
    <2> QED BY <1>1, <1>3, <2>2, <2>3, <2>6, SourcedKept
  <1>4. ASSUME ~dropped' PROVE PassedAll(order', gen', stack', unseen')
    <2>1. PassedAll(order, gen, stack, unseen)
      BY <1>4 DEF Knows
    <2>2. CASE Has(stack', {"pass"})
      <3>1. order' = order
        <4>1. PICK n \in 1..Len(stack') : stack'[n].pc \in {"pass", "replicate"}
          BY <2>2 DEF Has
        <4> QED BY <1>0, <4>1, PlainCalls
      <3>2. ASSUME NEW n \in 1..Len(stack'), stack'[n].pc = "pass"
            PROVE  n \in 1..Len(stack) /\ stack[n] = stack'[n] /\ q = << >> /\ stack'[n].c.key \in Keys
                   /\ \A j \in Gens : On(order', j) => StaysSteady(gen, unseen, gen', unseen', j)
        <4>1. stack'[n].pc \in {"pass", "replicate"}
          BY <3>2
        <4>2. /\ n \in 1..Len(stack) /\ stack[n] = stack'[n] /\ q = << >> /\ stack'[n] \in FrameRec
              /\ \A j \in Gens : On(order, j) => StaysSteady(gen, unseen, gen', unseen', j)
          BY <1>0, <4>1, PlainCalls
        <4>3. stack'[n].pc \in Notice
          BY <3>2 DEF Notice
        <4>4. stack'[n].c.key \in Keys
          BY <4>2, <4>3, FieldsOf
        <4> QED BY <3>1, <4>2, <4>4
      <3>3. PassedAll(order', gen, stack, unseen)
        BY <2>1, <3>1
      <3> QED BY <1>1, <3>2, <3>3, PassedKept
    <2>3. CASE ~Has(stack', {"pass"})
      BY <2>3 DEF Has, PassedAll
    <2> QED BY <2>2, <2>3
  <1>5. Stays(order', stack, stack')
    <2>1. SUFFICES ASSUME NEW n \in 1..Len(stack'), stack'[n].pc = "replicate"
                   PROVE  n \in 1..Len(stack) /\ stack[n] = stack'[n] /\ FrameOK(stack'[n], order')
      BY DEF Stays
    <2>2. stack'[n].pc \in {"pass", "replicate"}
      BY <2>1
    <2> QED BY <1>0, <2>2, PlainCalls
  <1>6. ASSUME NEW n \in 1..Len(stack'), stack'[n].pc = "replicate"
        PROVE  /\ n \in 1..Len(stack) /\ stack[n] = stack'[n] /\ stack'[n] \in FrameRec /\ order' = order
               /\ stack'[n].first \in Gens \cup {None}
               /\ stack'[n].items # << >> => stack'[n].src # None
               /\ stack'[n].first # None =>
                     On(order', stack'[n].first) /\ StaysSteady(gen, unseen, gen', unseen', stack'[n].first)
               /\ q = << >>
               /\ ~unseen' => NoneBack(order, gen, gen')
    <2>1. stack'[n].pc \in {"pass", "replicate"}
      BY <1>6
    <2>2. /\ n \in 1..Len(stack) /\ stack[n] = stack'[n] /\ q = << >> /\ order' = order
          /\ stack'[n] \in FrameRec /\ FrameOK(stack'[n], order')
          /\ ~unseen' => NoneBack(order, gen, gen')
          /\ \A j \in Gens : On(order, j) => StaysSteady(gen, unseen, gen', unseen', j)
      BY <1>0, <2>1, PlainCalls
    <2>3. stack'[n].first \in Gens \cup {None}
      BY <2>2, FieldsOf
    <2>4. /\ stack'[n].items # << >> => stack'[n].src # None
          /\ stack'[n].first # None => On(order', stack'[n].first)
      BY <1>6, <2>2 DEF FrameOK
    <2> QED BY <2>2, <2>3, <2>4
  <1>7. ListedAll(gen', stack', unseen')
    <2>1. ListedAll(gen, stack, unseen)
      BY DEF Knows
    <2>2. /\ SteadyFirsts(order', gen, unseen, gen', unseen', stack, stack') /\ AllMoved(order', gen, gen', q)
          /\ Has(stack', {"replicate"}) => q = << >>
      BY <1>1, <1>6 DEF SteadyFirsts, AllMoved, Has
    <2> QED BY <2>1, <2>2, ListedKept
  <1>8. ~lost' => FirstHeld(gen', stack')
    <2>1. SUFFICES ASSUME ~lost' PROVE FirstHeld(gen', stack')
      OBVIOUS
    <2>2. FirstHeld(gen, stack)
      BY <2>1 DEF Knows
    <2>3. CASE Has(stack', {"replicate"})
      BY <1>5, <1>6, <2>1, <2>2, <2>3, FirstHeldKept
    <2>4. CASE ~Has(stack', {"replicate"})
      BY <2>4 DEF Has, FirstHeld
    <2> QED BY <2>3, <2>4
  <1>9. CASE Has(stack', {"replicate"})
    <2>1. PICK n \in 1..Len(stack') : stack'[n].pc = "replicate"
      BY <1>9 DEF Has
    <2>2. order' = order /\ (~unseen' => NoneBack(order, gen, gen'))
      BY <1>6, <2>1
    <2>3. LeadsAll(order', stack, Gens \ Remote)
      BY <2>2 DEF Knows
    <2>4. LeadsAll(order', stack', Gens \ Remote)
      BY <1>5, <2>3, LeadsKept
    <2>5. ASSUME ~unseen' PROVE LeadsAll(order', stack', Connected(gen')) /\ UnlistedAll(stack')
      <3>1. LeadsAll(order', stack, Connected(gen)) /\ UnlistedAll(stack)
        BY <1>2, <2>2, <2>5 DEF Knows
      <3>2. \A j \in Connected(gen') : On(order', j) => j \in Connected(gen)
        BY <2>2, <2>5 DEF Connected, NoneBack
      <3> QED BY <1>5, <3>1, <3>2, LeadsKept, UnlistedKept
    <2> QED BY <1>3, <1>4, <1>7, <1>8, <2>4, <2>5 DEF Knows
  <1>10. CASE ~Has(stack', {"replicate"})
    <2>1. LeadsAll(order', stack', Gens \ Remote) /\ LeadsAll(order', stack', Connected(gen')) /\ UnlistedAll(stack')
      BY <1>10 DEF Has, LeadsAll, UnlistedAll
    <2> QED BY <1>3, <1>4, <1>7, <1>8, <2>1 DEF Knows
  <1> QED BY <1>9, <1>10

LEMMA AddsWaits ==
    ASSUME NEW st, NEW st1, NEW a, NEW b, NEW i, NEW q, Grows(st, st1, a, b, i, q), NEW k, Carries(q, k)
    PROVE  Waits(st1, k)
  <1>1. PICK n \in 1..Len(q) : q[n].key = k
    BY DEF Carries
  <1>2. PICK m \in 1..Len(st1) : m > b /\ st1[m].c = q[n]
    BY DEF Grows
  <1>3. st1[m].pc = "delta"
    BY <1>2 DEF Grows
  <1> QED BY <1>1, <1>2, <1>3 DEF Waits

\* A notice that is waiting or is passed on stays, if it is not among the frames that end.
LEMMA WaitsKept ==
    ASSUME NEW st, NEW st1, NEW a, Keeps(st, st1, a), \A n \in 1..Len(st) : n > a => st[n].pc \notin {"delta", "pass"}, NEW k
    PROVE  (Waits(st, k) => Waits(st1, k)) /\ (Passing(st, k) => Passing(st1, k))
  <1>1. \A n \in 1..a : st1[n] = st[n] /\ n \in 1..Len(st1)
    BY DEF Keeps
  <1>2. a \in Nat
    BY DEF Keeps
  <1>3. \A n \in 1..Len(st) : n > a \/ n \in 1..a
    BY <1>2
  <1>4. Waits(st, k) => Waits(st1, k)
    BY <1>1, <1>3 DEF Waits
  <1>5. Passing(st, k) => Passing(st1, k)
    BY <1>1, <1>3 DEF Passing
  <1> QED BY <1>4, <1>5

LEMMA PlainCompares ==
    ASSUME ReplicaInv, Knows', NEW a, NEW b, NEW i, NEW q, Plainly(a, b, i, q), Noticed,
           dropped => dropped', lost => lost', order' = order \/ Has(stack', {"begin"}),
           \A k \in Keys : NoLoss(gen, gen', q, k),
           \A k \in Keys : \A v : Told(deltas, seen, k, v) => Told(deltas', seen', k, v)
    PROVE  Agrees' /\ Watched'
  <1>0. Base /\ Base'
    BY DEF ReplicaInv, Knows
  <1>1. /\ stack \in Seq(FrameRec) /\ stack' \in Seq(FrameRec) /\ Shape(stack')
        /\ Grows(stack, stack', a, b, i, q) /\ Keeps(stack, stack', a)
        /\ \A k \in Keys : Moved(order', gen, gen', q, k)
        /\ \A n \in 1..Len(stack) : n > a => stack[n].pc \notin {"delta", "pass", "begin", "replicate", "crashed"}
    BY <1>0 DEF Base, Types, Plainly, Grows
  <1>2. CASE Has(stack', {"begin"})
    <2>1. \A n \in 1..Len(stack') : stack'[n].pc # "replicate"
      <3>1. SUFFICES ASSUME NEW n \in 1..Len(stack'), stack'[n].pc = "replicate" PROVE FALSE
        OBVIOUS
      <3>2. stack'[n].pc \in {"pass", "replicate"}
        BY <3>1
      <3>3. ~Has(stack', {"begin", "crashed"})
        BY <1>1, <3>2, BeginAlone
      <3> QED BY <1>2, <3>3 DEF Has
    <2>2. Has(stack', Replicating)
      BY <1>2 DEF Has, Replicating
    <2>3. AgreeAll(order', gen', stack') /\ WatchAll(order', gen', stack', deltas', seen')
      BY <2>1, <2>2, NothingYet
    <2> QED BY <2>3 DEF Agrees, Watched
  <1>3. CASE ~Has(stack', {"begin"})
    <2>1. order' = order
      BY <1>3
    <2>2. ~At("begin")
      <3>1. SUFFICES ASSUME At("begin") PROVE FALSE
        OBVIOUS
      <3>2. Len(stack) \in 1..Len(stack) /\ stack[Len(stack)].pc = "begin"
        BY <1>1, <3>1 DEF At, Top, Last
      <3>3. Has(stack, {"begin"})
        BY <3>2 DEF Has
      <3>4. \A n \in 1..Len(stack) : n > a => stack[n].pc \notin {"begin"}
        BY <1>1
      <3> QED BY <1>1, <1>3, <3>3, <3>4, HasKept
    <2>3. ~unseen' => NoneBack(order, gen, gen')
      BY <1>3, <2>2 DEF Noticed
    <2>4. Quietly(order, gen, stack, gen', stack')
      <3>1. SUFFICES ASSUME NEW k \in Keys, ~Passing(stack', k)
                     PROVE  ~Passing(stack, k) /\ Mild(order, gen, stack, gen', stack', k)
        BY DEF Quietly
      <3>2. \A n \in 1..Len(stack) : n > a => stack[n].pc \notin {"delta", "pass"}
        BY <1>1
      <3>3. (Waits(stack, k) => Waits(stack', k)) /\ (Passing(stack, k) => Passing(stack', k))
        BY <1>1, <3>2, WaitsKept
      <3>4. Carries(q, k) => Waits(stack', k)
        BY <1>1, AddsWaits
      <3>5. Moved(order, gen, gen', q, k) /\ NoLoss(gen, gen', q, k)
        BY <1>1, <2>1
      <3>6. Mild(order, gen, stack, gen', stack', k)
        BY <3>3, <3>4, <3>5, MildStep
      <3> QED BY <3>1, <3>3, <3>6
    <2>5. SameCalls(order, stack, stack')
      <3>1. ASSUME NEW n \in 1..Len(stack'), stack'[n].pc = "replicate"
            PROVE  n \in 1..Len(stack) /\ stack[n] = stack'[n] /\ (stack'[n].first # None => On(order, stack'[n].first))
        <4>1. stack'[n].pc \in {"pass", "replicate"}
          BY <3>1
        <4>2. n \in 1..Len(stack) /\ stack[n] = stack'[n] /\ FrameOK(stack'[n], order')
          BY <1>0, <4>1, PlainCalls
        <4> QED BY <2>1, <3>1, <4>2 DEF FrameOK
      <3>2. \A n \in 1..Len(stack) : n > a => stack[n].pc \notin Replicating
        BY <1>1 DEF Replicating
      <3>3. Has(stack, Replicating) => Has(stack', Replicating)
        BY <1>1, <3>2, HasKept
      <3> QED BY <3>1, <3>3 DEF SameCalls
    <2>6. Agrees'
      <3>1. SUFFICES ASSUME ~dropped', ~unseen', lost' => Len(order') <= 2 PROVE AgreeAll(order', gen', stack')
        BY DEF Agrees
      <3>2. AgreeAll(order, gen, stack)
        BY <2>1, <3>1 DEF ReplicaInv, Agrees, Noticed
      <3> QED BY <2>1, <2>3, <2>4, <2>5, <3>1, <3>2, AgreeKept
    <2>7. Watched'
      <3>1. SUFFICES ASSUME ~dropped', ~lost' PROVE WatchAll(order', gen', stack', deltas', seen')
        BY DEF Watched
      <3>2. WatchAll(order, gen, stack, deltas, seen)
        BY <3>1 DEF ReplicaInv, Watched
      <3>3. \A j \in Gens \ Remote : gen'[j].conn = "ok"
        BY <1>0 DEF Base, GenOK
      <3>4. FirstHeld(gen', stack')
        BY <3>1 DEF Knows
      <3>5. \A n \in 1..Len(stack') : stack'[n].pc = "replicate" => stack'[n].first \in Gens \cup {None}
        <4>1. \A n \in 1..Len(stack') : stack'[n] \in FrameRec
          BY <1>1
        <4> QED BY <4>1, FieldsOf
      <3> QED BY <2>1, <2>4, <2>5, <3>2, <3>3, <3>4, <3>5, WatchKept
    <2> QED BY <2>6, <2>7
  <1> QED BY <1>2, <1>3

LEMMA PlainGeneral ==
    ASSUME ReplicaInv, Types', NEW a, NEW b, NEW i, NEW q, Plainly(a, b, i, q), Noticed,
           order' = order, dropped' = dropped, lost' = lost,
           deltas' # << >> => Has(stack', {"replicate", "flush", "crashed"}),
           \A k \in Keys : \A v : Told(deltas, seen, k, v) => Told(deltas', seen', k, v),
           \A j \in Gens : GenOK(j, gen'[j], order', up'[j], now') /\ (gen[j].conn = "ok" => gen'[j].conn = "ok"),
           \A k \in Keys : NoLoss(gen, gen', q, k)
    PROVE  ReplicaInv'
  <1>0. Base /\ Knows
    BY DEF ReplicaInv, Knows
  <1>1. Distinct(order')
    BY <1>0 DEF Base
  <1>2. Base'
    BY <1>0, <1>1, PlainBase
  <1>3. Knows'
    BY <1>0, <1>2, PlainKnows
  <1>4. Agrees' /\ Watched'
    BY <1>3, PlainCompares
  <1> QED BY <1>3, <1>4 DEF ReplicaInv

LEMMA PlainInv ==
    ASSUME ReplicaInv, Types', NEW a, NEW b, NEW i, NEW q, Plainly(a, b, i, q), Noticed,
           order' = order, dropped' = dropped, lost' = lost, deltas' = deltas, seen' = seen,
           \A n \in 1..Len(stack) : n > a => stack[n].pc # "flush",
           \A j \in Gens : GenOK(j, gen'[j], order', up'[j], now') /\ (gen[j].conn = "ok" => gen'[j].conn = "ok"),
           \A k \in Keys : NoLoss(gen, gen', q, k)
    PROVE  ReplicaInv'
  <1>1. /\ Keeps(stack, stack', a)
        /\ \A n \in 1..Len(stack) : n > a => stack[n].pc \notin {"delta", "pass", "begin", "replicate", "crashed"}
    BY DEF Plainly, Grows
  <1>2. deltas' # << >> => Has(stack', {"replicate", "flush", "crashed"})
    <2>1. deltas # << >> => Has(stack, {"replicate", "flush", "crashed"})
      BY DEF ReplicaInv, Knows, Base
    <2>2. \A n \in 1..Len(stack) : n > a => stack[n].pc \notin {"replicate", "flush", "crashed"}
      BY <1>1
    <2> QED BY <1>1, <2>1, <2>2, HasKept
  <1>3. \A k \in Keys : \A v : Told(deltas, seen, k, v) => Told(deltas', seen', k, v)
    OBVIOUS
  <1> QED BY <1>2, <1>3, PlainGeneral

\* Generators that are only looked at.
AllLooked == gen' \in [Gens -> Generator] /\ \A j \in Gens : Looked(gen[j], gen'[j]) /\ Attempts(gen'[j], now)

LEMMA LookedAtNone ==
    ASSUME Base, gen' = gen
    PROVE  AllLooked
  <1>1. gen \in [Gens -> Generator]
    BY DEF Base, Types
  <1>2. ASSUME NEW j \in Gens PROVE Looked(gen[j], gen'[j]) /\ Attempts(gen'[j], now)
    <2>1. gen[j] \in Generator /\ Attempts(gen[j], now)
      BY <1>1 DEF Base, GenOK
    <2>2. gen[j].conn = "broken" => gen[j].conn # "ok"
      OBVIOUS
    <2> QED BY <2>1, <2>2 DEF Looked
  <1> QED BY <1>1, <1>2 DEF AllLooked

\* What the other parts of the step leave alone.
Around ==
    /\ order' = order /\ up' = up /\ now' = now /\ dropped' = dropped /\ lost' = lost /\ deltas' = deltas /\ seen' = seen
    /\ budget' \in 0..Budget /\ unseen' = (unseen \/ Unnoticed)

\* The frames above a are new calls; those above it are calls that may end.
NewCalls(st, a) ==
    \A n \in 1..Len(st) : n > a => st[n].pc \notin Notice /\ st[n].pc # "replicate" /\ (st[n].pc \in Tops => n = Len(st))
Ends(st, a) ==
    \A n \in 1..Len(st) : n > a => st[n].pc \notin {"delta", "pass", "begin", "replicate", "crashed", "flush"}

LEMMA LookedInv ==
    ASSUME ReplicaInv, AllLooked, Around, NEW a, NEW b \in Nat, Keeps(stack, stack', a), Len(stack') = b, a <= b,
           Calm(stack, a) \/ b = a,
           NewCalls(stack', a), Ends(stack, a)
    PROVE  ReplicaInv'
  <1>0. Base /\ Types
    BY DEF ReplicaInv, Knows, Base
  <1>1. Types'
    <2>1. stack' \in Seq(FrameRec) /\ gen' \in [Gens -> Generator]
      BY DEF Keeps, AllLooked
    <2>2. unseen' \in BOOLEAN
      BY DEF Around
    <2> QED BY <1>0, <2>1, <2>2 DEF Types, Around
  <1>2. ASSUME NEW j \in Gens
        PROVE  /\ GenOK(j, gen'[j], order', up'[j], now') /\ (gen[j].conn = "ok" => gen'[j].conn = "ok")
               /\ gen[j].conn = "broken" => gen'[j].conn # "ok"
    <2>1. Looked(gen[j], gen'[j]) /\ Attempts(gen'[j], now) /\ GenOK(j, gen[j], order, up[j], now)
      BY <1>0 DEF Base, AllLooked
    <2>2. GenOK(j, gen'[j], order, up[j], now)
      BY <2>1, GenOKLooked
    <2> QED BY <2>1, <2>2 DEF Looked, Around
  <1>3. Noticed
    BY <1>0, <1>1, <1>2, InsideNoticed DEF Around
  <1>4. Plainly(a, b, None, << >>)
    <2>1. Grows(stack, stack', a, b, None, << >>)
      BY NoNotices
    <2>2. \A k \in Keys : Moved(order', gen, gen', << >>, k)
      BY LookedMoves DEF AllLooked, Moved
    <2>3. << >> \in Seq(Change) /\ Leaves(gen'[None], << >>)
      BY NothingLeft
    <2> QED BY <2>1, <2>2, <2>3 DEF Plainly, NewCalls, Ends
  <1>5. \A k \in Keys : NoLoss(gen, gen', << >>, k)
    BY DEF NoLoss, AllLooked, Looked
  <1>6. \A n \in 1..Len(stack) : n > a => stack[n].pc # "flush"
    BY DEF Ends
  <1> QED BY <1>1, <1>2, <1>3, <1>4, <1>5, <1>6, PlainInv DEF Around

\* The call at the top.
LEMMA AtFacts ==
    ASSUME Base, NEW pc, At(pc)
    PROVE  /\ stack \in Seq(FrameRec) /\ stack # << >> /\ Len(stack) \in Nat /\ Len(stack) >= 1 /\ Len(stack) - 1 \in Nat
           /\ Top \in FrameRec /\ Top.pc = pc /\ Top = stack[Len(stack)] /\ Len(stack) \in 1..Len(stack)
           /\ Keeps(stack, Pop, Len(stack) - 1) /\ Len(Pop) = Len(stack) - 1
           /\ \A n \in 1..Len(stack) : n > Len(stack) - 1 => stack[n] = Top
           /\ pc \notin {"delta", "pass", "delivered"} => Calm(stack, Len(stack) - 1)
           /\ pc \in {"told", "flush"} => Calm(stack, Len(stack))
           /\ FrameOK(Top, order)
  <1>1. stack \in Seq(FrameRec) /\ stack # << >> /\ Top.pc = pc /\ Shape(stack)
    BY DEF Base, Types, At
  <1>2. PICK f, p : f = Last(stack) /\ p = Front(stack)
    OBVIOUS
  <1>3. /\ f = stack[Len(stack)] /\ f \in FrameRec /\ Keeps(stack, p, Len(stack) - 1)
        /\ Len(p) = Len(stack) - 1 /\ Len(stack) \in Nat /\ Len(stack) >= 1
    BY <1>1, <1>2, TopFacts
  <1>4. f = Top /\ p = Pop
    BY <1>2 DEF Top, Pop
  <1>5. /\ f.pc \notin {"delta", "pass", "delivered"} => Calm(stack, Len(stack) - 1)
        /\ f.pc \notin {"delta", "pass", "delivered"} /\ f.pc \notin {"begin", "crashed", "replicate"} => Calm(stack, Len(stack))
    BY <1>1, <1>3, CalmBelow
  <1>6. pc \in {"told", "flush"} => f.pc \notin {"delta", "pass", "delivered"} /\ f.pc \notin {"begin", "crashed", "replicate"}
    BY <1>1, <1>4
  <1>7. Len(stack) - 1 \in Nat /\ Len(stack) \in 1..Len(stack) /\ \A n \in 1..Len(stack) : n > Len(stack) - 1 => n = Len(stack)
    BY <1>3
  <1>8. FrameOK(Top, order)
    BY <1>3, <1>4, <1>7 DEF Base
  <1> QED BY <1>1, <1>3, <1>4, <1>5, <1>6, <1>7, <1>8

LEMMA CalmUnderTop ==
    ASSUME Base, NEW pc, At(pc), pc \notin {"delta", "pass", "delivered"}
    PROVE  Calm(stack, Len(stack) - 1)
  BY AtFacts

\* User code runs on an empty stack or inside a watcher.
LEMMA UserFacts ==
    ASSUME Base, UserCode
    PROVE  /\ stack \in Seq(FrameRec) /\ Len(stack) \in Nat /\ Keeps(stack, stack, Len(stack)) /\ Calm(stack, Len(stack))
           /\ \A n \in 1..Len(stack) : ~(n > Len(stack))
  <1>1. stack \in Seq(FrameRec) /\ Len(stack) \in Nat
    BY DEF Base, Types
  <1>2. Keeps(stack, stack, Len(stack))
    BY <1>1 DEF Keeps
  <1>3. Calm(stack, Len(stack))
    <2>1. CASE stack = << >>
      <3>1. Len(stack) = 0
        BY <2>1
      <3> QED BY <3>1 DEF Calm
    <2>2. CASE At("told")
      BY <2>2, AtFacts
    <2> QED BY <2>1, <2>2 DEF UserCode
  <1> QED BY <1>1, <1>2, <1>3

LEMMA StackStays ==
    ASSUME Base
    PROVE  /\ stack \in Seq(FrameRec) /\ Len(stack) \in Nat /\ Keeps(stack, stack, Len(stack))
           /\ \A n \in 1..Len(stack) : ~(n > Len(stack))
  <1>1. stack \in Seq(FrameRec) /\ Len(stack) \in Nat
    BY DEF Base, Types
  <1> QED BY <1>1 DEF Keeps

-----------------------------------------------------------------------------
(* The steps that are plain.                                               *)

LEMMA returnsStep ==
    ASSUME ReplicaInv, returns
    PROVE  ReplicaInv'
  <1>0. Base
    BY DEF ReplicaInv, Knows
  <1>1. Around /\ gen' = gen /\ stack' = Pop
    BY <1>0 DEF returns, Around, Inside, Outside, Base, Types
  <1>2. AllLooked
    BY <1>0, <1>1, LookedAtNone
  <1>3. PICK pc \in {"told", "delivered"} : At(pc)
    BY DEF returns
  <1>4. PICK a \in Nat : a = Len(stack) - 1 /\ Keeps(stack, stack', a) /\ Len(stack') = a
    BY <1>0, <1>1, <1>3, AtFacts
  <1>5. \A n \in 1..Len(stack) : n > a => stack[n].pc \in {"told", "delivered"}
    BY <1>0, <1>3, <1>4, AtFacts
  <1>6. Ends(stack, a)
    BY <1>5 DEF Ends
  <1>7. NewCalls(stack', a) /\ a <= a
    BY <1>4 DEF NewCalls
  <1> QED BY <1>1, <1>2, <1>4, <1>6, <1>7, LookedInv

LEMMA refresh_endsStep ==
    ASSUME ReplicaInv, refresh_ends
    PROVE  ReplicaInv'
  <1>0. Base
    BY DEF ReplicaInv, Knows
  <1>1. Around /\ gen' = gen /\ stack' = Pop /\ At("refresh2")
    BY <1>0 DEF refresh_ends, Around, Inside, Outside, Base, Types
  <1>2. AllLooked
    BY <1>0, <1>1, LookedAtNone
  <1>3. PICK a \in Nat : a = Len(stack) - 1 /\ Keeps(stack, stack', a) /\ Len(stack') = a
    BY <1>0, <1>1, AtFacts
  <1>4. \A n \in 1..Len(stack) : n > a => stack[n].pc = "refresh2"
    BY <1>0, <1>1, <1>3, AtFacts
  <1>5. Ends(stack, a)
    BY <1>4 DEF Ends
  <1>6. NewCalls(stack', a) /\ a <= a
    BY <1>3 DEF NewCalls
  <1> QED BY <1>1, <1>2, <1>3, <1>5, <1>6, LookedInv

\* One call more.
LEMMA CallStep ==
    ASSUME ReplicaInv, AllLooked, Around, UserCode, NEW f \in FrameRec, stack' = Append(stack, f),
           f.pc \in {"set", "get", "refresh"}
    PROVE  ReplicaInv'
  <1>0. Base
    BY DEF ReplicaInv, Knows
  <1>1. PICK a \in Nat : a = Len(stack) /\ Keeps(stack, stack, a) /\ Calm(stack, a)
    <2>1. Len(stack) \in Nat /\ Keeps(stack, stack, Len(stack)) /\ Calm(stack, Len(stack))
      BY <1>0, UserFacts
    <2> QED BY <2>1
  <1>2. Keeps(stack, stack', a) /\ Len(stack') = a + 1 /\ stack'[a + 1] = f
    <2>1. Pushed(stack, stack', a, f)
      BY <1>1, AppendKeeps
    <2> QED BY <2>1 DEF Pushed
  <1>3. a + 1 \in Nat /\ a <= a + 1 /\ \A n \in 1..(a + 1) : n > a => n = a + 1
    BY <1>1
  <1>4. f.pc \notin Notice /\ f.pc # "replicate" /\ f.pc \notin Tops
    BY DEF Notice, Tops
  <1>5. NewCalls(stack', a)
    BY <1>2, <1>3, <1>4 DEF NewCalls
  <1>6. Ends(stack, a)
    BY <1>1 DEF Ends
  <1> QED BY <1>1, <1>2, <1>3, <1>5, <1>6, LookedInv

LEMMA setStep ==
    ASSUME ReplicaInv, NEW c \in Edits, set(c)
    PROVE  ReplicaInv'
  <1>0. Base /\ c \in Change
    BY ReplicaAssumption DEF ReplicaInv, Knows, Change
  <1>1. budget \in 0..Budget /\ Budget \in Nat
    BY <1>0, ReplicaAssumption DEF Base, Types
  <1>2. /\ Around /\ gen' = gen /\ UserCode /\ stack' = Append(stack, Setting(c))
    BY <1>1 DEF set, Acts, Around, Inside
  <1>3. AllLooked
    BY <1>0, <1>2, LookedAtNone
  <1>4. PICK f \in FrameRec : f = Setting(c) /\ f.pc = "set"
    <2>1. << >> \in Seq(Gens) /\ << >> \in Seq(Change)
      OBVIOUS
    <2>2. PICK f : f = Setting(c)
      OBVIOUS
    <2>3. f = [pc |-> "set", c |-> c, src |-> None, first |-> None, todo |-> << >>, items |-> << >>]
      BY <2>2 DEF Setting, Frame
    <2>4. "set" \in Pcs /\ "set" \notin Notice
      BY DEF Pcs, Notice
    <2>5. f \in RawFrame /\ f.pc = "set" /\ f.c = c
      BY <1>0, <2>1, <2>3, <2>4 DEF RawFrame
    <2> QED BY <1>0, <2>2, <2>4, <2>5, FrameRecFacts
  <1> QED BY <1>2, <1>3, <1>4, CallStep

LEMMA refreshStep ==
    ASSUME ReplicaInv, refresh
    PROVE  ReplicaInv'
  <1>0. Base
    BY DEF ReplicaInv, Knows
  <1>1. budget \in 0..Budget /\ Budget \in Nat
    BY <1>0, ReplicaAssumption DEF Base, Types
  <1>2. /\ Around /\ gen' = gen /\ UserCode /\ stack' = Append(stack, Frame("refresh"))
    BY <1>1 DEF refresh, Acts, Around, Inside
  <1>3. AllLooked
    BY <1>0, <1>2, LookedAtNone
  <1>4. PICK f \in FrameRec : f = Frame("refresh") /\ f.pc = "refresh"
    BY FrameFacts
  <1> QED BY <1>2, <1>3, <1>4, CallStep

LEMMA getStep ==
    ASSUME ReplicaInv, get
    PROVE  ReplicaInv'
  <1>0. Base
    BY DEF ReplicaInv, Knows
  <1>1. Around /\ gen' = gen /\ UserCode /\ stack = << >> /\ stack' = <<Frame("get")>>
    BY <1>0 DEF get, Around, Inside, Outside, Base, Types, UserCode
  <1>2. AllLooked
    BY <1>0, <1>1, LookedAtNone
  <1>3. PICK f \in FrameRec : f = Frame("get") /\ f.pc = "get"
    BY FrameFacts
  <1>4. stack' = Append(stack, f)
    BY <1>1, <1>3
  <1> QED BY <1>1, <1>2, <1>3, <1>4, CallStep

LEMMA isokStep ==
    ASSUME ReplicaInv, isok
    PROVE  ReplicaInv'
  <1>0. Base
    BY DEF ReplicaInv, Knows
  <1>1. budget \in 0..Budget /\ Budget \in Nat
    BY <1>0, ReplicaAssumption DEF Base, Types
  <1>2. Around /\ gen' = AfterFirstOk /\ stack' = stack
    BY <1>1 DEF isok, Acts, Around, Inside
  <1>3. Finds(AfterFirstOk, FirstOk)
    BY <1>0, FindsFirst DEF Base, GenOK
  <1>4. AllLooked
    BY <1>2, <1>3 DEF Finds, AllLooked
  <1>5. PICK a \in Nat : a = Len(stack) /\ Keeps(stack, stack, a)
    BY <1>0, StackStays
  <1>6. Keeps(stack, stack', a) /\ Len(stack') = a /\ a <= a /\ NewCalls(stack', a) /\ Ends(stack, a)
    BY <1>2, <1>5 DEF NewCalls, Ends
  <1> QED BY <1>2, <1>4, <1>5, <1>6, LookedInv

\* The stack stays, and so do the generators or at least what is on its way.
LEMMA SameStack ==
    ASSUME Base, stack' = stack, \A k \in Keys : Moved(order', gen, gen', << >>, k)
    PROVE  Plainly(Len(stack), Len(stack), None, << >>) /\ \A n \in 1..Len(stack) : n > Len(stack) => stack[n].pc # "flush"
  <1>1. PICK a \in Nat : a = Len(stack) /\ Keeps(stack, stack, a)
    BY StackStays
  <1>2. Keeps(stack, stack', a) /\ Len(stack') = a /\ a <= a
    BY <1>1
  <1>3. Grows(stack, stack', a, a, None, << >>)
    BY <1>2, NoNotices
  <1>4. (\A n \in 1..Len(stack) : ~(n > a)) /\ \A n \in 1..Len(stack') : ~(n > a)
    BY <1>1
  <1>5. << >> \in Seq(Change) /\ Leaves(gen'[None], << >>)
    BY NothingLeft
  <1>6. Plainly(a, a, None, << >>)
    BY <1>3, <1>4, <1>5 DEF Plainly
  <1> QED BY <1>1, <1>4, <1>6

LEMMA SameGenerators ==
    ASSUME Base, gen' = gen, NEW q
    PROVE  /\ \A k \in Keys : Moved(order', gen, gen', q, k) /\ NoLoss(gen, gen', q, k)
           /\ \A j \in Gens : gen[j].conn = "broken" => gen'[j].conn # "ok"
           /\ \A j \in Gens : gen[j].conn = "ok" => gen'[j].conn = "ok"
  BY DEF Moved, MovesAt, NoLoss

LEMMA AttemptsLater ==
    ASSUME NEW x \in Generator, NEW w \in Nat, NEW w1 \in Nat, w <= w1, Attempts(x, w)
    PROVE  Attempts(x, w1)
  <1>1. PICK s \in Nat, t \in Nat : s = x.since /\ t = x.tries
    BY FieldsOfGenerator
  <1>2. PICK d \in Nat : d = Interval
    BY ReplicaAssumption
  <1>3. (t - 1) * d \in Int
    BY <1>1, <1>2
  <1>4. PICK p \in Int : p = (t - 1) * d
    BY <1>3
  <1>5. p <= w - s => p <= w1 - s
    BY <1>1, <1>4
  <1> QED BY <1>1, <1>2, <1>4, <1>5 DEF Attempts

LEMMA TickStep ==
    ASSUME ReplicaInv, Tick
    PROVE  ReplicaInv'
  <1>0. Base /\ Types
    BY DEF ReplicaInv, Knows, Base
  <1>1. /\ gen' = gen /\ stack' = stack /\ order' = order /\ dropped' = dropped /\ lost' = lost /\ deltas' = deltas
        /\ seen' = seen /\ up' = up /\ budget' = budget /\ unseen' = (unseen \/ Unnoticed) /\ now' = now + 1 /\ now < MaxTime
    BY DEF Tick, Inside
  <1>2. now \in Nat /\ now' \in Nat /\ now' \in 0..MaxTime /\ now <= now'
    BY <1>0, <1>1, ReplicaAssumption DEF Types
  <1>3. Types'
    <2>1. unseen' \in BOOLEAN
      BY <1>1
    <2> QED BY <1>0, <1>1, <1>2, <2>1 DEF Types
  <1>4. ASSUME NEW j \in Gens PROVE GenOK(j, gen'[j], order', up'[j], now')
    <2>1. gen[j] \in Generator /\ GenOK(j, gen[j], order, up[j], now)
      BY <1>0 DEF Base, Types
    <2>2. Attempts(gen[j], now')
      BY <1>2, <2>1, AttemptsLater DEF GenOK
    <2>3. GenOK(j, gen[j], order, up[j], now')
      BY <2>1, <2>2 DEF GenOK
    <2> QED BY <1>1, <2>3
  <1>5. /\ \A k \in Keys : Moved(order', gen, gen', << >>, k) /\ NoLoss(gen, gen', << >>, k)
        /\ \A j \in Gens : gen[j].conn = "broken" => gen'[j].conn # "ok"
        /\ \A j \in Gens : gen[j].conn = "ok" => gen'[j].conn = "ok"
    BY <1>0, <1>1, SameGenerators
  <1>6. Noticed
    BY <1>0, <1>1, <1>3, <1>5, InsideNoticed
  <1>7. Plainly(Len(stack), Len(stack), None, << >>) /\ \A n \in 1..Len(stack) : n > Len(stack) => stack[n].pc # "flush"
    BY <1>0, <1>1, <1>5, SameStack
  <1> QED BY <1>1, <1>3, <1>4, <1>5, <1>6, <1>7, PlainInv

LEMMA ComesUpStep ==
    ASSUME ReplicaInv, NEW i \in Remote, ComesUp(i)
    PROVE  ReplicaInv'
  <1>0. Base /\ Types
    BY DEF ReplicaInv, Knows, Base
  <1>1. /\ gen' = gen /\ stack' = stack /\ order' = order /\ dropped' = dropped /\ lost' = lost /\ deltas' = deltas
        /\ seen' = seen /\ now' = now /\ budget' = budget /\ unseen' = (unseen \/ Unnoticed) /\ up' = [up EXCEPT ![i] = TRUE]
    BY DEF ComesUp, Inside
  <1>2. up' \in [Gens -> BOOLEAN] /\ \A j \in Gens : up[j] => up'[j]
    BY <1>0, <1>1 DEF Types
  <1>3. Types'
    <2>1. unseen' \in BOOLEAN
      BY <1>1
    <2> QED BY <1>0, <1>1, <1>2, <2>1 DEF Types
  <1>4. ASSUME NEW j \in Gens PROVE GenOK(j, gen'[j], order', up'[j], now')
    <2>1. GenOK(j, gen[j], order, up[j], now)
      BY <1>0 DEF Base
    <2>2. GenOK(j, gen[j], order, up'[j], now)
      BY <1>2, <2>1 DEF GenOK
    <2> QED BY <1>1, <2>2
  <1>5. /\ \A k \in Keys : Moved(order', gen, gen', << >>, k) /\ NoLoss(gen, gen', << >>, k)
        /\ \A j \in Gens : gen[j].conn = "broken" => gen'[j].conn # "ok"
        /\ \A j \in Gens : gen[j].conn = "ok" => gen'[j].conn = "ok"
    BY <1>0, <1>1, SameGenerators
  <1>6. Noticed
    BY <1>0, <1>1, <1>3, <1>5, InsideNoticed
  <1>7. Plainly(Len(stack), Len(stack), None, << >>) /\ \A n \in 1..Len(stack) : n > Len(stack) => stack[n].pc # "flush"
    BY <1>0, <1>1, <1>5, SameStack
  <1> QED BY <1>1, <1>3, <1>4, <1>5, <1>6, <1>7, PlainInv

LEMMA replicate_if_anyStep ==
    ASSUME ReplicaInv, replicate_if_any_have_become_ok
    PROVE  ReplicaInv'
  <1>0. Base /\ Types
    BY DEF ReplicaInv, Knows, Base
  <1>1. /\ Around
        /\ gen' = [i \in Gens |-> IF i \in ToSet(order) /\ ~gen[i].was_ok
                                  THEN [Touch(gen[i], i) EXCEPT !.was_ok = i \in BackAgain] ELSE gen[i]]
        /\ stack' = Becomes([Top EXCEPT !.pc = Rest[@]]) \o (IF BackAgain = {} THEN << >> ELSE <<Frame("begin")>>)
    BY <1>0 DEF replicate_if_any_have_become_ok, Around, Inside, Outside, Types
  <1>2. PICK pc \in DOMAIN Rest : At(pc)
    BY DEF replicate_if_any_have_become_ok
  <1>3. pc \in {"set", "get", "refresh"}
    BY DEF Rest
  <1>4. PICK a \in Nat : a = Len(stack) - 1 /\ Keeps(stack, Pop, a) /\ Len(Pop) = a /\ Calm(stack, a)
    BY <1>0, <1>2, <1>3, AtFacts
  <1>5. Top \in FrameRec /\ Top.pc = pc /\ \A n \in 1..Len(stack) : n > a => stack[n] = Top
    BY <1>0, <1>2, <1>4, AtFacts
  <1>6. AllLooked
    <2>1. ASSUME NEW j \in Gens PROVE gen'[j] \in Generator /\ Looked(gen[j], gen'[j]) /\ Attempts(gen'[j], now)
      <3>1. gen[j] \in Generator /\ Attempts(gen[j], now) /\ now \in Nat /\ up[j] \in BOOLEAN
        BY <1>0 DEF Base, Types, GenOK
      <3>2. PICK t : t = Touch(gen[j], j)
        OBVIOUS
      <3>3. Looked(gen[j], t) /\ Attempts(t, now)
        BY <3>1, <3>2, TouchFacts
      <3>4. CASE j \in ToSet(order) /\ ~gen[j].was_ok
        <4>1. PICK b \in BOOLEAN : b <=> (j \in BackAgain)
          OBVIOUS
        <4>2. gen'[j] = [t EXCEPT !.was_ok = b]
          <5>1. gen'[j] = [t EXCEPT !.was_ok = j \in BackAgain]
            BY <1>1, <3>2, <3>4
          <5> QED BY <4>1, <5>1
        <4>3. t \in Generator
          BY <3>3 DEF Looked
        <4>4. PICK y : y = gen'[j]
          OBVIOUS
        <4>5. y = [t EXCEPT !.was_ok = b]
          BY <4>2, <4>4
        <4>6. /\ y \in Generator /\ y.val = t.val /\ y.inbox = t.inbox /\ y.conn = t.conn
              /\ y.next = t.next /\ y.since = t.since /\ y.tries = t.tries
          BY <4>3, <4>5 DEF Generator
        <4>7. Looked(gen[j], y)
          BY <3>3, <4>6 DEF Looked
        <4>8. Attempts(y, now)
          BY <3>3, <4>6 DEF Attempts
        <4> QED BY <4>4, <4>6, <4>7, <4>8
      <3>5. CASE ~(j \in ToSet(order) /\ ~gen[j].was_ok)
        <4>1. gen'[j] = gen[j]
          BY <1>1, <3>5
        <4>2. gen[j].conn = "broken" => gen[j].conn # "ok"
          OBVIOUS
        <4> QED BY <3>1, <4>1, <4>2 DEF Looked
      <3> QED BY <3>4, <3>5
    <2>2. gen' = [j \in Gens |-> gen'[j]]
      BY <1>1
    <2>3. gen' \in [Gens -> Generator]
      BY <2>1, <2>2
    <2> QED BY <2>1, <2>3 DEF AllLooked
  <1>7. PICK h \in FrameRec : h = [Top EXCEPT !.pc = Rest[@]] /\ h.pc \in {"set2", "get2", "refresh2"}
    <2>1. PICK h : h = [Top EXCEPT !.pc = Rest[Top.pc]]
      OBVIOUS
    <2>2. h \in FrameRec /\ h.pc \in {"set2", "get2", "refresh2"}
      BY <1>5, <2>1, RestFrame
    <2> QED BY <2>1, <2>2
  <1>8. PICK p : p = Append(Pop, h)
    OBVIOUS
  <1>9. Pushed(stack, p, a, h)
    BY <1>4, <1>8, AppendKeeps
  <1>10. h.pc \notin Notice /\ h.pc # "replicate" /\ h.pc \notin Tops
    BY <1>7 DEF Notice, Tops
  <1>11. Ends(stack, a)
    BY <1>3, <1>5 DEF Ends
  <1>12. p \in Seq(FrameRec) /\ Keeps(stack, p, a) /\ Len(p) = a + 1 /\ p[a + 1] = h
    BY <1>9 DEF Pushed, Keeps
  <1>13. CASE BackAgain = {}
    <2>1. stack' = p
      <3>1. stack' = p \o << >>
        BY <1>1, <1>7, <1>8, <1>13 DEF Becomes
      <3> QED BY <1>12, <3>1, ConcatEmptySeq
    <2>2. a + 1 \in Nat /\ a <= a + 1 /\ \A n \in 1..(a + 1) : n > a => n = a + 1
      BY <1>4
    <2>3. NewCalls(stack', a)
      BY <1>10, <1>12, <2>1, <2>2 DEF NewCalls
    <2>4. Keeps(stack, stack', a) /\ Len(stack') = a + 1
      BY <1>12, <2>1
    <2> QED BY <1>1, <1>4, <1>6, <1>11, <2>2, <2>3, <2>4, LookedInv
  <1>14. CASE BackAgain # {}
    <2>1. PICK f \in FrameRec : f = Frame("begin") /\ f.pc = "begin"
      BY FrameFacts
    <2>2. stack' = Append(p, f)
      <3>1. stack' = p \o <<f>>
        BY <1>1, <1>7, <1>8, <1>14, <2>1 DEF Becomes
      <3> QED BY <1>12, <3>1, AppendIsConcat
    <2>3. PICK s : s = stack'
      OBVIOUS
    <2>4. /\ s \in Seq(FrameRec) /\ Len(p) \in Nat /\ Len(s) = Len(p) + 1
          /\ \A n \in 1..Len(p) : s[n] = p[n] /\ n \in 1..Len(s)
          /\ s[Len(s)] = f
      BY <1>12, <2>2, <2>3, AppendFacts
    <2>5. /\ Len(s) = a + 2 /\ a + 1 \in 1..Len(p) /\ \A n \in 1..a : n \in 1..Len(p) /\ n \in 1..Len(s)
          /\ a + 2 \in Nat /\ a <= a + 2 /\ \A n \in 1..(a + 2) : n > a => n = a + 1 \/ n = a + 2
      BY <1>4, <1>12, <2>4
    <2>6. \A n \in 1..a : p[n] = stack[n] /\ n \in 1..Len(stack)
      BY <1>12 DEF Keeps
    <2>7. Keeps(stack, s, a)
      <3>1. stack \in Seq(FrameRec) /\ Len(stack) \in Nat /\ a <= Len(stack)
        BY <1>12 DEF Keeps
      <3> QED BY <1>4, <2>4, <2>5, <2>6, <3>1 DEF Keeps
    <2>8. s[a + 1] = h /\ s[a + 2] = f
      BY <1>12, <2>4, <2>5
    <2>9. f.pc \notin Notice /\ f.pc # "replicate"
      BY <2>1 DEF Notice
    <2>10. NewCalls(s, a)
      BY <1>10, <2>5, <2>8, <2>9 DEF NewCalls
    <2>11. Keeps(stack, stack', a) /\ Len(stack') = a + 2 /\ NewCalls(stack', a)
      BY <2>3, <2>5, <2>7, <2>10
    <2> QED BY <1>1, <1>4, <1>6, <1>11, <2>5, <2>11, LookedInv
  <1> QED BY <1>13, <1>14

\* One of the held notices is passed to the watchers.
Flushed(d, s, d1, s1, h) ==
    d # << >> /\ d1 = Tail(d) /\ h = Head(d) /\ s1[h.key] = h.value /\ \A k \in Keys : k # h.key => s1[k] = s[k]

LEMMA ToldFlush ==
    ASSUME NEW d \in Seq(Change), NEW s, NEW d1, NEW h, NEW s1, Flushed(d, s, d1, s1, h),
           NEW k \in Keys, NEW v, Told(d, s, k, v)
    PROVE  Told(d1, s1, k, v)
  <1>1. /\ d1 \in Seq(Change) /\ h \in Change /\ h = d[1] /\ Len(d) \in Nat /\ Len(d1) = Len(d) - 1 /\ 1 \in 1..Len(d)
        /\ \A i \in 1..Len(d1) : d1[i] = d[i + 1] /\ i + 1 \in 1..Len(d)
        /\ \A i \in 1..Len(d) : i = 1 \/ (i - 1 \in 1..Len(d1) /\ d1[i - 1] = d[i])
    BY TailFacts DEF Flushed
  <1>2. s1[h.key] = h.value /\ (k # h.key => s1[k] = s[k])
    BY DEF Flushed
  <1>4. CASE \E n \in 1..Len(d) : d[n].key = k /\ d[n].value = v /\ \A m \in 1..Len(d) : m > n => d[m].key # k
    <2>1. PICK n \in 1..Len(d) : d[n].key = k /\ d[n].value = v /\ \A m \in 1..Len(d) : m > n => d[m].key # k
      BY <1>4
    <2>2. CASE n = 1
      <3>1. s1[k] = v
        BY <1>1, <1>2, <2>1, <2>2
      <3>2. ASSUME NEW m \in 1..Len(d1) PROVE d1[m].key # k
        <4>1. m + 1 \in 1..Len(d) /\ d1[m] = d[m + 1]
          BY <1>1
        <4>2. m + 1 > n
          BY <1>1, <2>2
        <4> QED BY <2>1, <4>1, <4>2
      <3>3. ~Carries(d1, k)
        BY <3>2 DEF Carries
      <3> QED BY <3>1, <3>3 DEF Told
    <2>3. CASE n # 1
      <3>1. PICK l \in 1..Len(d1) : l = n - 1 /\ d1[l] = d[n]
        BY <1>1, <2>3
      <3>2. ASSUME NEW m \in 1..Len(d1), m > l PROVE d1[m].key # k
        <4>1. m + 1 \in 1..Len(d) /\ d1[m] = d[m + 1]
          BY <1>1
        <4>2. m + 1 > n
          BY <1>1, <3>1, <3>2
        <4> QED BY <2>1, <4>1, <4>2
      <3> QED BY <2>1, <3>1, <3>2 DEF Told
    <2> QED BY <2>2, <2>3
  <1>5. CASE s[k] = v /\ ~Carries(d, k)
    <2>1. h.key # k
      BY <1>1, <1>5 DEF Carries
    <2>2. ~Carries(d1, k)
      BY <1>1, <1>5 DEF Carries
    <2> QED BY <1>2, <1>5, <2>1, <2>2 DEF Told
  <1> QED BY <1>4, <1>5 DEF Told

LEMMA UnchangedNoticed ==
    ASSUME gen' = gen, unseen' = unseen
    PROVE  Noticed
  BY DEF Noticed, NoneBack

LEMMA flush_deltaStep ==
    ASSUME ReplicaInv, flush_delta
    PROVE  ReplicaInv'
  <1>0. Base /\ Types
    BY DEF ReplicaInv, Knows, Base
  <1>1. /\ gen' = gen /\ order' = order /\ dropped' = dropped /\ lost' = lost
        /\ up' = up /\ now' = now /\ budget' = budget /\ unseen' = unseen /\ At("flush")
    BY DEF flush_delta, Outside
  <1>2. PICK a \in Nat : a = Len(stack) - 1 /\ Keeps(stack, Pop, a) /\ Len(Pop) = a /\ Calm(stack, a)
    BY <1>0, <1>1, AtFacts
  <1>3. /\ Len(stack) = a + 1 /\ Calm(stack, a + 1) /\ stack[a + 1].pc = "flush" /\ stack \in Seq(FrameRec)
        /\ \A n \in 1..Len(stack) : n > a => stack[n].pc = "flush"
    <2>1. /\ Len(stack) \in Nat /\ Top = stack[Len(stack)] /\ Top.pc = "flush" /\ Calm(stack, Len(stack)) /\ stack \in Seq(FrameRec)
          /\ \A n \in 1..Len(stack) : n > Len(stack) - 1 => stack[n] = Top
      BY <1>0, <1>1, AtFacts
    <2>2. Len(stack) = a + 1
      BY <1>2, <2>1
    <2> QED BY <1>2, <2>1, <2>2
  <1>4. /\ \A k \in Keys : Moved(order', gen, gen', << >>, k) /\ NoLoss(gen, gen', << >>, k)
        /\ \A j \in Gens : gen[j].conn = "ok" => gen'[j].conn = "ok"
    BY <1>0, <1>1, SameGenerators
  <1>5. \A j \in Gens : GenOK(j, gen'[j], order', up'[j], now') /\ (gen[j].conn = "ok" => gen'[j].conn = "ok")
    BY <1>0, <1>1 DEF Base
  <1>6. Noticed
    BY <1>1, UnchangedNoticed
  <1>7. << >> \in Seq(Change) /\ Leaves(gen'[None], << >>)
    BY NothingLeft
  <1>8. CASE deltas = << >>
    <2>1. stack' = Pop /\ seen' = seen /\ deltas' = deltas
      BY <1>8 DEF flush_delta
    <2>2. Keeps(stack, stack', a) /\ Len(stack') = a /\ a <= a
      BY <1>2, <2>1
    <2>3. Grows(stack, stack', a, a, None, << >>)
      BY <2>2, NoNotices
    <2>4. \A n \in 1..Len(stack') : ~(n > a)
      BY <2>2
    <2>5. \A n \in 1..Len(stack) : n > a => stack[n].pc \notin {"delta", "pass", "begin", "replicate", "crashed"}
      BY <1>3
    <2>6. Plainly(a, a, None, << >>)
      BY <1>4, <1>7, <2>3, <2>4, <2>5 DEF Plainly
    <2>7. Types'
      <3>1. stack' \in Seq(FrameRec)
        BY <2>2 DEF Keeps
      <3> QED BY <1>0, <1>1, <2>1, <3>1 DEF Types
    <2>8. \A k \in Keys : \A v : Told(deltas, seen, k, v) => Told(deltas', seen', k, v)
      BY <2>1
    <2>9. deltas' = << >>
      BY <1>8, <2>1
    <2> QED BY <1>1, <1>4, <1>5, <1>6, <2>6, <2>7, <2>8, <2>9, PlainGeneral
  <1>9. CASE deltas # << >>
    <2>1. /\ seen' = [seen EXCEPT ![Head(deltas).key] = Head(deltas).value] /\ deltas' = Tail(deltas)
          /\ stack' = Append(stack, Telling(Head(deltas)))
      BY <1>9 DEF flush_delta
    <2>2. deltas \in Seq(Change) /\ seen \in Contents
      BY <1>0 DEF Types
    <2>3. PICK h \in Change : h = Head(deltas)
      BY <1>9, <2>2
    <2>4. PICK f \in FrameRec : f = Telling(h) /\ f.pc = "told"
      <3>1. << >> \in Seq(Gens) /\ << >> \in Seq(Change)
        OBVIOUS
      <3>2. PICK f : f = Telling(h)
        OBVIOUS
      <3>3. f = [pc |-> "told", c |-> h, src |-> None, first |-> None, todo |-> << >>, items |-> << >>]
        BY <3>2 DEF Telling, Frame
      <3>4. "told" \in Pcs /\ "told" \notin Notice
        BY DEF Pcs, Notice
      <3>5. f \in RawFrame /\ f.pc = "told" /\ f.c = h
        BY <3>1, <3>3, <3>4 DEF RawFrame
      <3> QED BY <3>2, <3>4, <3>5, FrameRecFacts
    <2>5. a + 1 \in Nat /\ (a + 1) + 1 \in Nat /\ a + 1 <= (a + 1) + 1 /\ \A n \in 1..((a + 1) + 1) : n > a + 1 => n = (a + 1) + 1
      BY <1>2
    <2>6. Keeps(stack, stack, a + 1)
      BY <1>0, <1>3, StackStays
    <2>7. Pushed(stack, stack', a + 1, f)
      BY <1>3, <2>1, <2>3, <2>4, <2>6, AppendKeeps
    <2>8. Keeps(stack, stack', a + 1) /\ Len(stack') = (a + 1) + 1 /\ stack'[(a + 1) + 1] = f
      BY <2>7 DEF Pushed
    <2>9. Grows(stack, stack', a + 1, (a + 1) + 1, None, << >>)
      BY <2>5, <2>8, NoNotices
    <2>10. f.pc \notin Notice /\ f.pc # "replicate" /\ f.pc \notin Tops
      BY <2>4 DEF Notice, Tops
    <2>11. \A n \in 1..Len(stack') : n > a + 1 => stack'[n] = f
      BY <2>5, <2>8
    <2>12. \A n \in 1..Len(stack) : ~(n > a + 1)
      BY <1>3, <2>5
    <2>13. Plainly(a + 1, (a + 1) + 1, None, << >>)
      BY <1>3, <1>4, <1>7, <2>9, <2>10, <2>11, <2>12 DEF Plainly
    <2>14. Types'
      <3>1. stack' \in Seq(FrameRec)
        BY <2>8 DEF Keeps
      <3>2. deltas' \in Seq(Change)
        BY <1>9, <2>1, <2>2, TailFacts
      <3>3. h.key \in Keys /\ h.value \in Values \cup {Null}
        BY DEF Change
      <3>4. seen' \in Contents
        BY <2>1, <2>2, <2>3, <3>3 DEF Contents
      <3> QED BY <1>0, <1>1, <3>1, <3>2, <3>4 DEF Types
    <2>15. ASSUME NEW k \in Keys, NEW v, Told(deltas, seen, k, v) PROVE Told(deltas', seen', k, v)
      <3>1. h.key \in Keys
        BY DEF Change
      <3>2. Flushed(deltas, seen, deltas', seen', h)
        BY <1>9, <2>1, <2>2, <2>3, <3>1 DEF Flushed, Contents
      <3> QED BY <2>2, <2>15, <3>2, ToldFlush
    <2>16. Has(stack', {"replicate", "flush", "crashed"})
      <3>1. a + 1 \in 1..(a + 1) /\ a + 1 \in 1..Len(stack')
        BY <1>2, <2>8
      <3>2. stack'[a + 1] = stack[a + 1]
        BY <2>8, <3>1 DEF Keeps
      <3> QED BY <1>3, <3>1, <3>2 DEF Has
    <2> QED BY <1>1, <1>4, <1>5, <1>6, <2>13, <2>14, <2>15, <2>16, PlainGeneral
  <1> QED BY <1>8, <1>9


-----------------------------------------------------------------------------
(* Steps that read notices of one generator, or change what one holds.     *)

\* Generator i was x and is y, and the notices q have been read.
HandsOver(i, x, y, q) ==
    /\ q \in Seq(Change) /\ y \in Generator /\ GenOK(i, y, order, up[i], now)
    /\ \A k \in Keys : MovesAt(i, order, x, y, q, k)
    /\ \A k \in Keys : Carries(x.inbox, k) => Carries(q, k) \/ Carries(y.inbox, k)
    /\ Leaves(y, q)
    /\ x.conn = "ok" => y.conn = "ok"
    /\ x.conn = "broken" => y.conn # "ok"
    /\ q # << >> => On(order, i)

OneHandsOver(i, q) ==
    /\ gen' \in [Gens -> Generator] /\ HandsOver(i, gen[i], gen'[i], q)
    /\ \A j \in Gens : j # i => Looked(gen[j], gen'[j]) /\ Attempts(gen'[j], now)

\* The frames between a and b are new calls.
Between(st, a, b) ==
    \A n \in 1..Len(st) : n > a /\ n <= b =>
        st[n].pc \notin Notice /\ st[n].pc # "replicate" /\ (st[n].pc \in Tops => n = Len(st))

LEMMA HandStep ==
    ASSUME ReplicaInv, Around, NEW i \in Gens, NEW q, OneHandsOver(i, q), NEW a, NEW b,
           Grows(stack, stack', a, b, i, q), Calm(stack, a) \/ (q = << >> /\ b = a), Between(stack', a, b), Ends(stack, a)
    PROVE  ReplicaInv'
  <1>0. Base /\ Types
    BY DEF ReplicaInv, Knows, Base
  <1>1. Types'
    <2>1. stack' \in Seq(FrameRec) /\ gen' \in [Gens -> Generator]
      BY DEF Grows, Keeps, OneHandsOver
    <2>2. unseen' \in BOOLEAN
      BY DEF Around
    <2> QED BY <1>0, <2>1, <2>2 DEF Types, Around
  <1>2. ASSUME NEW j \in Gens
        PROVE  /\ GenOK(j, gen'[j], order', up'[j], now') /\ (gen[j].conn = "ok" => gen'[j].conn = "ok")
               /\ gen[j].conn = "broken" => gen'[j].conn # "ok"
    <2>1. CASE j # i
      <3>1. Looked(gen[j], gen'[j]) /\ Attempts(gen'[j], now) /\ GenOK(j, gen[j], order, up[j], now)
        BY <1>0, <2>1 DEF Base, OneHandsOver
      <3>2. GenOK(j, gen'[j], order, up[j], now)
        BY <3>1, GenOKLooked
      <3> QED BY <3>1, <3>2 DEF Looked, Around
    <2>2. CASE j = i
      BY <2>2 DEF OneHandsOver, HandsOver, Around
    <2> QED BY <2>1, <2>2
  <1>3. Noticed
    BY <1>0, <1>1, <1>2, InsideNoticed DEF Around
  <1>4. ASSUME NEW k \in Keys PROVE Moved(order', gen, gen', q, k) /\ NoLoss(gen, gen', q, k)
    <2>1. ASSUME NEW j \in Gens PROVE MovesAt(j, order, gen[j], gen'[j], q, k)
      BY LookedMoves DEF OneHandsOver, HandsOver
    <2>2. ASSUME NEW j \in Gens PROVE Carries(gen[j].inbox, k) => Carries(q, k) \/ Carries(gen'[j].inbox, k)
      BY DEF OneHandsOver, HandsOver, Looked
    <2> QED BY <2>1, <2>2 DEF Moved, NoLoss, Around
  <1>5. Plainly(a, b, i, q)
    <2>1. q \in Seq(Change) /\ Leaves(gen'[i], q) /\ (q # << >> => On(order, i)) /\ order' = order
      BY DEF OneHandsOver, HandsOver, Around
    <2>2. \A k \in Keys : Moved(order', gen, gen', q, k)
      BY <1>4
    <2> QED BY <2>1, <2>2 DEF Plainly, Between, Ends
  <1>6. \A n \in 1..Len(stack) : n > a => stack[n].pc # "flush"
    BY DEF Ends
  <1>7. order' = order /\ dropped' = dropped /\ lost' = lost /\ deltas' = deltas /\ seen' = seen
    BY DEF Around
  <1>8. \A j \in Gens : GenOK(j, gen'[j], order', up'[j], now') /\ (gen[j].conn = "ok" => gen'[j].conn = "ok")
    BY <1>2
  <1>9. \A k \in Keys : NoLoss(gen, gen', q, k)
    BY <1>4
  <1> QED BY <1>1, <1>3, <1>5, <1>6, <1>7, <1>8, <1>9, PlainInv

LEMMA SelfLooked ==
    ASSUME NEW x \in Generator
    PROVE  Looked(x, x)
  <1>1. x.conn = "broken" => x.conn # "ok"
    OBVIOUS
  <1> QED BY <1>1 DEF Looked

\* All notices of i are read.
LEMMA ReadAll ==
    ASSUME NEW i \in Gens, NEW x \in Generator, GenOK(i, x, order, up[i], now), NEW t, Looked(x, t), Attempts(t, now),
           NEW y, y = [t EXCEPT !.inbox = << >>]
    PROVE  HandsOver(i, x, y, x.inbox) /\ y.val = x.val /\ y.conn = t.conn /\ y.inbox = << >> /\ y.was_ok = t.was_ok
  <1>1. t \in Generator /\ t.val = x.val /\ (x.conn = "ok" => t.conn = "ok") /\ (x.conn = "broken" => t.conn # "ok")
    BY DEF Looked
  <1>2. << >> \in Seq(Change)
    OBVIOUS
  <1>3. /\ y \in Generator /\ y.val = t.val /\ y.conn = t.conn /\ y.was_ok = t.was_ok /\ y.inbox = << >>
        /\ y.next = t.next /\ y.since = t.since /\ y.tries = t.tries
    BY <1>1, <1>2 DEF Generator
  <1>4. x.inbox \in Seq(Change)
    BY FieldsOfGenerator
  <1>5. GenOK(i, y, order, up[i], now)
    <2>1. Attempts(y, now)
      BY <1>3 DEF Attempts
    <2>2. Current(y)
      BY <1>3 DEF Current
    <2>3. i \notin Remote => y.conn = "ok" /\ up[i]
      BY <1>1, <1>3 DEF GenOK
    <2> QED BY <1>3, <2>1, <2>2, <2>3 DEF GenOK
  <1>6. Leaves(y, x.inbox)
    BY <1>1, <1>3 DEF Leaves, GenOK, Current
  <1>7. \A k \in Keys : MovesAt(i, order, x, y, x.inbox, k)
    BY <1>1, <1>3 DEF MovesAt
  <1>8. x.inbox # << >> => On(order, i)
    BY DEF GenOK
  <1> QED BY <1>1, <1>3, <1>4, <1>5, <1>6, <1>7, <1>8 DEF HandsOver

\* set(), with the notices that it reads.
LEMMA PutHands ==
    ASSUME NEW i \in Gens, On(order, i), NEW x \in Generator, GenOK(i, x, order, up[i], now), NEW t, Looked(x, t), Attempts(t, now),
           t.conn = "ok", NEW c \in Change, NEW arrived \in BOOLEAN, NEW y, y = Put(t, i, c, arrived),
           NEW q, q = Notices(t, i, c, arrived)
    PROVE  HandsOver(i, x, y, q) /\ y.conn = "ok" /\ y.val[c.key] = c.value
  <1>1. t \in Generator /\ t.val = x.val /\ t.inbox = x.inbox /\ (x.conn = "ok" => t.conn = "ok") /\ (x.conn = "broken" => t.conn # "ok")
    BY DEF Looked
  <1>2. /\ y \in Generator /\ y.conn = "ok" /\ y.was_ok = t.was_ok
        /\ y.next = t.next /\ y.since = t.since /\ y.tries = t.tries
        /\ y.val[c.key] = c.value /\ \A k \in Keys : k # c.key => y.val[k] = t.val[k]
    BY <1>1, PutFacts
  <1>3. PICK p \in Seq(Change) :
           /\ p \in {<< >>, t.inbox} /\ (arrived => p = << >>) /\ (i \in Remote /\ ~arrived => p = t.inbox)
           /\ y.inbox = IF i \notin Remote THEN << >> ELSE IF t.val[c.key] = c.value THEN p ELSE Append(p, c)
    BY <1>1, PutFacts
  <1>4. Current(t) /\ (i \notin Remote => t.inbox = << >> /\ up[i])
    BY <1>1 DEF GenOK, Current
  <1>5. /\ Current(y)
        /\ \A k \in Keys : Carries(p, k) => Carries(y.inbox, k) \/ y.inbox = << >>
        /\ y.inbox = Append(p, c) => Carries(y.inbox, c.key)
    <2>1. y.inbox = << >> \/ (y.inbox = p /\ t.val[c.key] = c.value) \/ y.inbox = Append(p, c)
      BY <1>3
    <2>2. p \in Seq(Change) /\ p \in {<< >>, t.inbox}
      BY <1>3
    <2>3. Current(t)
      BY <1>4
    <2> QED BY ONLY <1>1, <1>2, <2>1, <2>2, <2>3, c \in Change, CurrentPut
  <1>6. c.key \in Keys /\ t.inbox \in Seq(Change) /\ << >> \in Seq(Change) /\ <<c>> \in Seq(Change)
    <2>1. c.key \in Keys
      BY DEF Change
    <2>2. t.inbox \in Seq(Change)
      BY <1>1, FieldsOfGenerator
    <2> QED BY <2>1, <2>2
  <1>7. /\ i \in Remote => q = IF arrived THEN t.inbox ELSE << >>
        /\ i \notin Remote => q = IF t.val[c.key] = c.value THEN << >> ELSE <<c>>
    BY DEF Notices
  <1>8. GenOK(i, y, order, up[i], now)
    <2>1. Attempts(y, now)
      BY <1>2 DEF Attempts
    <2>2. i \notin Remote => y.inbox = << >>
      BY <1>3
    <2> QED BY <1>2, <1>4, <1>5, <2>1, <2>2 DEF GenOK
  <1>9. ASSUME NEW k \in Keys
        PROVE  /\ y.val[k] = x.val[k] \/ Carries(q, k) \/ Carries(y.inbox, k)
               /\ Carries(x.inbox, k) => Carries(q, k) \/ Carries(y.inbox, k)
    <2>1. CASE i \in Remote
      <3>1. y.inbox = p \/ y.inbox = Append(p, c)
        BY <1>3, <2>1
      <3>2. Carries(p, k) => Carries(y.inbox, k)
        <4>1. ASSUME y.inbox = << >>, y.inbox = Append(p, c) PROVE FALSE
          <5>1. Len(Append(p, c)) = Len(p) + 1 /\ Len(p) \in Nat
            BY <1>3
          <5>2. Len(<< >>) = 0
            OBVIOUS
          <5> QED BY <4>1, <5>1, <5>2
        <4> QED BY <1>5, <3>1, <4>1
      <3>3. Carries(x.inbox, k) => Carries(q, k) \/ Carries(y.inbox, k)
        BY <1>1, <1>3, <1>7, <2>1, <3>2
      <3>4. y.val[k] = x.val[k] \/ Carries(y.inbox, k)
        BY <1>1, <1>2, <1>3, <1>5, <2>1
      <3> QED BY <3>3, <3>4
    <2>2. CASE i \notin Remote
      <3>1. ~Carries(x.inbox, k)
        BY <1>1, <1>4, <2>2 DEF Carries
      <3>2. CASE t.val[c.key] = c.value
        BY <1>1, <1>2, <3>1, <3>2
      <3>3. CASE t.val[c.key] # c.value
        <4>1. q = <<c>>
          BY <1>7, <2>2, <3>3
        <4>2. Carries(q, c.key)
          BY <4>1 DEF Carries
        <4> QED BY <1>1, <1>2, <3>1, <4>2
      <3> QED BY <3>2, <3>3
    <2> QED BY <2>1, <2>2
  <1>10. Leaves(y, q)
    <2>1. CASE i \in Remote /\ arrived
      <3>1. q = t.inbox
        BY <1>7, <2>1
      <3>2. SUFFICES ASSUME NEW n \in 1..Len(q), y.val[q[n].key] # q[n].value, ~Carries(y.inbox, q[n].key)
                     PROVE  \E m \in 1..Len(q) : m > n /\ q[m].key = q[n].key
        BY DEF Leaves
      <3>3. q[n].key \in Keys
        BY <1>1, <3>1, FieldsOfGenerator
      <3>4. y.val[q[n].key] = t.val[q[n].key]
        BY <1>1, <1>9, <3>2, <3>3, <1>2, <1>5, <1>3, <2>1
      <3> QED BY <1>4, <3>1, <3>2, <3>4 DEF Current
    <2>2. CASE i \in Remote /\ ~arrived
      BY <1>7, <2>2, NothingLeft
    <2>3. CASE i \notin Remote
      <3>1. CASE q = << >>
        BY <3>1, NothingLeft
      <3>2. CASE q = <<c>>
        BY <1>2, <3>2 DEF Leaves
      <3> QED BY <1>7, <2>3, <3>1, <3>2
    <2> QED BY <2>1, <2>2, <2>3
  <1>11. q \in Seq(Change)
    BY <1>6, <1>7
  <1>12. \A k \in Keys : MovesAt(i, order, x, y, q, k)
    BY <1>9 DEF MovesAt
  <1> QED BY <1>1, <1>2, <1>8, <1>9, <1>10, <1>11, <1>12 DEF HandsOver

LEMMA OneChanges ==
    ASSUME NEW i \in Gens, NEW g \in [Gens -> Generator], \A j \in Gens : Looked(gen[j], g[j]) /\ Attempts(g[j], now),
           NEW y, gen' = [g EXCEPT ![i] = y], NEW q, HandsOver(i, gen[i], y, q)
    PROVE  OneHandsOver(i, q)
  <1>1. y \in Generator
    BY DEF HandsOver
  <1>2. gen' \in [Gens -> Generator] /\ gen'[i] = y /\ \A j \in Gens : j # i => gen'[j] = g[j]
    BY <1>1
  <1> QED BY <1>2 DEF OneHandsOver

LEMMA GenFacts ==
    ASSUME Base, NEW i \in Gens
    PROVE  /\ gen \in [Gens -> Generator] /\ gen[i] \in Generator /\ GenOK(i, gen[i], order, up[i], now) /\ Attempts(gen[i], now)
           /\ Looked(gen[i], gen[i]) /\ now \in Nat /\ up[i] \in BOOLEAN
  <1>1. gen \in [Gens -> Generator] /\ gen[i] \in Generator /\ GenOK(i, gen[i], order, up[i], now) /\ now \in Nat /\ up[i] \in BOOLEAN
    BY DEF Base, Types
  <1>2. Attempts(gen[i], now)
    BY <1>1 DEF GenOK
  <1> QED BY <1>1, <1>2, SelfLooked

\* One notice is read.
LEMMA OneNotice ==
    ASSUME NEW st, NEW p, NEW a, NEW b, Keeps(st, p, a), Len(p) = b,
           NEW i \in Gens, NEW c \in Change, NEW st1, st1 = p \o <<Noticing(i, c)>>
    PROVE  Grows(st, st1, a, b, i, <<c>>) /\ Under(p, st1, b)
  <1>1. PICK q : q = <<c>>
    OBVIOUS
  <1>2. q \in Seq(Change) /\ Len(q) = 1 /\ DOMAIN q = 1..1 /\ q[1] = c
    BY <1>1
  <1>3. Reverse(q) = [n \in 1..1 |-> q[(1 - n) + 1]]
    BY <1>2 DEF Reverse
  <1>4. \A n \in 1..1 : n = 1 /\ (1 - n) + 1 = 1
    OBVIOUS
  <1>5. Callbacks(i, q) = [n \in 1..1 |-> Noticing(i, c)]
    BY <1>2, <1>3, <1>4 DEF Callbacks
  <1>6. [n \in 1..1 |-> Noticing(i, c)] = <<Noticing(i, c)>>
    OBVIOUS
  <1>7. st1 = p \o Callbacks(i, q)
    BY <1>5, <1>6
  <1>8. Grows(st, st1, a, b, i, q) /\ Under(p, st1, b)
    BY <1>2, <1>7, BatchKeeps
  <1> QED BY <1>1, <1>8

\* The call at the top ends, and the notices that it has read are passed on.
LEMMA ReadingStep ==
    ASSUME ReplicaInv, Around, NEW pc \in {"set2", "get2"}, At(pc), NEW i \in Gens, NEW q, OneHandsOver(i, q),
           stack' = Pop \o Callbacks(i, q)
    PROVE  ReplicaInv'
  <1>0. Base
    BY DEF ReplicaInv, Knows
  <1>1. PICK a \in Nat : a = Len(stack) - 1 /\ Keeps(stack, Pop, a) /\ Len(Pop) = a /\ Calm(stack, a)
    BY <1>0, AtFacts
  <1>2. \A n \in 1..Len(stack) : n > a => stack[n] = Top /\ Top.pc = pc
    BY <1>0, <1>1, AtFacts
  <1>3. Ends(stack, a)
    BY <1>2 DEF Ends
  <1>4. q \in Seq(Change)
    BY DEF OneHandsOver, HandsOver
  <1>5. PICK st1 : st1 = Pop \o Callbacks(i, q)
    OBVIOUS
  <1>6. Grows(stack, st1, a, a, i, q)
    BY <1>1, <1>4, <1>5, BatchKeeps
  <1>7. Between(stack', a, a)
    BY <1>1 DEF Between
  <1> QED BY <1>1, <1>3, <1>5, <1>6, <1>7, HandStep

LEMMA NobodyStep ==
    ASSUME ReplicaInv, Around, NEW pc \in {"set2", "get2", "get3"}, At(pc), AllLooked, stack' = Pop
    PROVE  ReplicaInv'
  <1>0. Base
    BY DEF ReplicaInv, Knows
  <1>1. PICK a \in Nat : a = Len(stack) - 1 /\ Keeps(stack, stack', a) /\ Len(stack') = a
    BY <1>0, AtFacts
  <1>2. \A n \in 1..Len(stack) : n > a => stack[n] = Top /\ Top.pc = pc
    BY <1>0, <1>1, AtFacts
  <1>3. Ends(stack, a)
    BY <1>2 DEF Ends
  <1>4. NewCalls(stack', a) /\ a <= a
    BY <1>1 DEF NewCalls
  <1> QED BY <1>1, <1>3, <1>4, LookedInv

\* get() has failed, and first_ok() is asked again.
LEMMA get_againStep ==
    ASSUME ReplicaInv, get_again
    PROVE  ReplicaInv'
  <1>0. Base
    BY DEF ReplicaInv, Knows
  <1>1. Around /\ At("get3") /\ gen' = AfterFirstOk
    BY <1>0 DEF get_again, Around, Inside, Outside, Base, Types
  <1>2. Finds(AfterFirstOk, FirstOk)
    BY <1>0, FindsFirst DEF Base, GenOK
  <1>3. AllLooked
    BY <1>1, <1>2 DEF Finds, AllLooked
  <1>4. CASE stack' = Pop
    BY <1>1, <1>3, <1>4, NobodyStep
  <1>5. CASE stack' = Becomes(Frame("get"))
    <2>1. PICK a \in Nat : a = Len(stack) - 1 /\ Keeps(stack, Pop, a) /\ Len(Pop) = a /\ Calm(stack, a)
      BY <1>0, <1>1, AtFacts
    <2>2. \A n \in 1..Len(stack) : n > a => stack[n] = Top /\ Top.pc = "get3"
      BY <1>0, <1>1, <2>1, AtFacts
    <2>3. Ends(stack, a)
      BY <2>2 DEF Ends
    <2>4. PICK f \in FrameRec : f = Frame("get") /\ f.pc = "get"
      BY FrameFacts
    <2>5. Pushed(stack, stack', a, f)
      <3>1. stack' = Append(Pop, f)
        BY <1>5, <2>4 DEF Becomes
      <3> QED BY <2>1, <2>4, <3>1, AppendKeeps
    <2>6. PICK b \in Nat : b = a + 1 /\ a <= b /\ \A n \in 1..b : n > a => n = b
      BY <2>1
    <2>7. Keeps(stack, stack', a) /\ Len(stack') = b /\ stack'[b] = f
      BY <2>5, <2>6 DEF Pushed
    <2>8. NewCalls(stack', a)
      <3>1. f.pc \notin Notice /\ f.pc # "replicate" /\ f.pc \notin Tops
        BY <2>4 DEF Notice, Tops
      <3> QED BY <2>6, <2>7, <3>1 DEF NewCalls
    <2> QED BY <1>1, <1>3, <2>1, <2>3, <2>6, <2>7, <2>8, LookedInv
  <1> QED BY <1>4, <1>5 DEF get_again

LEMMA set_firstStep ==
    ASSUME ReplicaInv, set_first
    PROVE  ReplicaInv'
  <1>0. Base
    BY DEF ReplicaInv, Knows
  <1>1. Around /\ At("set2")
    BY <1>0 DEF set_first, Around, Inside, Outside, Base, Types
  <1>2. PICK g, i : g = AfterFirstOk /\ i = FirstOk
    OBVIOUS
  <1>3. PICK arrived \in BOOLEAN :
           /\ gen' = IF i = None THEN g ELSE [g EXCEPT ![i] = Put(g[i], i, Top.c, arrived)]
           /\ stack' = Pop \o (IF i = None THEN << >> ELSE Callbacks(i, Notices(g[i], i, Top.c, arrived)))
    BY <1>2 DEF set_first
  <1>4. Finds(g, i)
    BY <1>0, <1>2, FindsFirst DEF Base, GenOK
  <1>5. Top.c \in Change
    BY <1>0, <1>1, AtFacts, FieldsOf
  <1>6. CASE i = None
    <2>1. Pop \in Seq(FrameRec)
      BY <1>0, <1>1, AtFacts DEF Keeps
    <2>2. stack' = Pop
      BY <1>3, <1>6, <2>1
    <2>3. AllLooked
      BY <1>3, <1>4, <1>6 DEF Finds, AllLooked
    <2> QED BY <1>1, <2>2, <2>3, NobodyStep
  <1>7. CASE i # None
    <2>1. i \in Gens /\ On(order, i) /\ g[i].conn = "ok" /\ Looked(gen[i], g[i]) /\ Attempts(g[i], now) /\ g \in [Gens -> Generator]
      BY <1>4, <1>7 DEF Finds
    <2>2. gen[i] \in Generator /\ GenOK(i, gen[i], order, up[i], now)
      BY <1>0, <2>1, GenFacts
    <2>3. PICK y, q : y = Put(g[i], i, Top.c, arrived) /\ q = Notices(g[i], i, Top.c, arrived)
      OBVIOUS
    <2>4. HandsOver(i, gen[i], y, q)
      BY <1>5, <2>1, <2>2, <2>3, PutHands
    <2>5. gen' = [g EXCEPT ![i] = y] /\ stack' = Pop \o Callbacks(i, q)
      BY <1>3, <1>7, <2>3
    <2>6. \A j \in Gens : Looked(gen[j], g[j]) /\ Attempts(g[j], now)
      BY <1>4 DEF Finds
    <2>7. OneHandsOver(i, q)
      BY <2>1, <2>4, <2>5, <2>6, OneChanges
    <2> QED BY <1>1, <2>1, <2>5, <2>7, ReadingStep
  <1> QED BY <1>6, <1>7

LEMMA get_firstStep ==
    ASSUME ReplicaInv, get_first
    PROVE  ReplicaInv'
  <1>0. Base
    BY DEF ReplicaInv, Knows
  <1>1. Around /\ At("get2")
    BY <1>0 DEF get_first, Around, Inside, Outside, Base, Types
  <1>2. PICK g, i : g = AfterFirstOk /\ i = FirstOk
    OBVIOUS
  <1>3. /\ gen' = IF i = None THEN g ELSE [g EXCEPT ![i].inbox = << >>]
        /\ stack' = Pop \o (IF i = None THEN << >> ELSE Callbacks(i, g[i].inbox))
    BY <1>2 DEF get_first
  <1>4. Finds(g, i)
    BY <1>0, <1>2, FindsFirst DEF Base, GenOK
  <1>6. CASE i = None
    <2>1. Pop \in Seq(FrameRec)
      BY <1>0, <1>1, AtFacts DEF Keeps
    <2>2. stack' = Pop
      BY <1>3, <1>6, <2>1
    <2>3. AllLooked
      BY <1>3, <1>4, <1>6 DEF Finds, AllLooked
    <2> QED BY <1>1, <2>2, <2>3, NobodyStep
  <1>7. CASE i # None
    <2>1. i \in Gens /\ On(order, i) /\ g[i].conn = "ok" /\ Looked(gen[i], g[i]) /\ Attempts(g[i], now) /\ g \in [Gens -> Generator]
      BY <1>4, <1>7 DEF Finds
    <2>2. gen[i] \in Generator /\ GenOK(i, gen[i], order, up[i], now)
      BY <1>0, <2>1, GenFacts
    <2>3. PICK y, q : y = [g[i] EXCEPT !.inbox = << >>] /\ q = gen[i].inbox
      OBVIOUS
    <2>4. HandsOver(i, gen[i], y, q)
      BY <2>1, <2>2, <2>3, ReadAll
    <2>5. g[i].inbox = q
      BY <2>1, <2>3 DEF Looked
    <2>6. gen' = [g EXCEPT ![i] = y] /\ stack' = Pop \o Callbacks(i, q)
      BY <1>3, <1>7, <2>1, <2>3, <2>5
    <2>7. \A j \in Gens : Looked(gen[j], g[j]) /\ Attempts(g[j], now)
      BY <1>4 DEF Finds
    <2>8. OneHandsOver(i, q)
      BY <2>1, <2>4, <2>6, <2>7, OneChanges
    <2> QED BY <1>1, <2>1, <2>6, <2>8, ReadingStep
  <1> QED BY <1>6, <1>7

LEMMA refresh_nextStep ==
    ASSUME ReplicaInv, refresh_next
    PROVE  ReplicaInv'
  <1>0. Base /\ order \in Seq(Gens)
    BY DEF ReplicaInv, Knows, Base, Types
  <1>1. Around /\ At("refresh2") /\ NextPlace \in DOMAIN order
    BY <1>0 DEF refresh_next, Around, Inside, Outside, Base, Types
  <1>2. PICK j : j = order[NextPlace]
    OBVIOUS
  <1>3. /\ gen' = [gen EXCEPT ![j] = [Touch(@, j) EXCEPT !.inbox = << >>]]
        /\ stack' = Becomes([Top EXCEPT !.src = j]) \o Callbacks(j, gen[j].inbox)
    BY <1>2 DEF refresh_next
  <1>4. j \in Gens
    BY <1>0, <1>1, <1>2
  <1>5. /\ gen \in [Gens -> Generator] /\ gen[j] \in Generator /\ GenOK(j, gen[j], order, up[j], now) /\ Attempts(gen[j], now)
        /\ now \in Nat /\ up[j] \in BOOLEAN
    BY <1>0, <1>4, GenFacts
  <1>6. PICK t : t = Touch(gen[j], j)
    OBVIOUS
  <1>7. Looked(gen[j], t) /\ Attempts(t, now)
    BY <1>4, <1>5, <1>6, TouchFacts
  <1>8. PICK y, q : y = [t EXCEPT !.inbox = << >>] /\ q = gen[j].inbox
    OBVIOUS
  <1>9. HandsOver(j, gen[j], y, q)
    BY <1>4, <1>5, <1>7, <1>8, ReadAll
  <1>10. gen' = [gen EXCEPT ![j] = y]
    BY <1>3, <1>6, <1>8, <1>5
  <1>11. \A i \in Gens : Looked(gen[i], gen[i]) /\ Attempts(gen[i], now)
    BY <1>0, GenFacts
  <1>12. OneHandsOver(j, q)
    BY <1>4, <1>5, <1>9, <1>10, <1>11, OneChanges
  <1>13. PICK a \in Nat : a = Len(stack) - 1 /\ Keeps(stack, Pop, a) /\ Len(Pop) = a /\ Calm(stack, a)
    BY <1>0, <1>1, AtFacts
  <1>14. Top \in FrameRec /\ Top.pc = "refresh2" /\ \A n \in 1..Len(stack) : n > a => stack[n] = Top
    BY <1>0, <1>1, <1>13, AtFacts
  <1>15. Ends(stack, a)
    BY <1>14 DEF Ends
  <1>16. PICK h : h = [Top EXCEPT !.src = j]
    OBVIOUS
  <1>17. h \in FrameRec /\ h.pc = "refresh2"
    BY <1>4, <1>14, <1>16, RefreshFrame
  <1>18. PICK p : p = Append(Pop, h)
    OBVIOUS
  <1>19. Pushed(stack, p, a, h)
    BY <1>13, <1>17, <1>18, AppendKeeps
  <1>20. p \in Seq(FrameRec) /\ Keeps(stack, p, a) /\ Len(p) = a + 1 /\ p[a + 1] = h
    BY <1>19 DEF Pushed, Keeps
  <1>21. q \in Seq(Change)
    BY <1>9 DEF HandsOver
  <1>22. stack' = p \o Callbacks(j, q)
    BY <1>3, <1>8, <1>16, <1>18 DEF Becomes
  <1>23. PICK b \in Nat : b = a + 1 /\ \A n \in Nat : n > a /\ n <= b => n = b
    BY <1>13
  <1>24. Grows(stack, stack', a, b, j, q) /\ Under(p, stack', b)
    <2>1. Len(p) = b /\ Keeps(stack, p, a)
      BY <1>20, <1>23
    <2> QED BY <1>4, <1>21, <1>22, <2>1, BatchKeeps
  <1>25. Between(stack', a, b)
    <2>1. SUFFICES ASSUME NEW n \in 1..Len(stack'), n > a, n <= b
                   PROVE  stack'[n].pc \notin Notice /\ stack'[n].pc # "replicate" /\ (stack'[n].pc \in Tops => n = Len(stack'))
      BY DEF Between
    <2>2. n = b /\ b \in 1..b
      BY <1>23, <2>1
    <2>3. stack'[n] = h
      BY <1>20, <1>23, <1>24, <2>2 DEF Under
    <2> QED BY <1>17, <2>3 DEF Notice, Tops
  <1> QED BY <1>1, <1>4, <1>12, <1>13, <1>15, <1>24, <1>25, HandStep

\* The main loop reads one.
LEMMA ReadOne ==
    ASSUME NEW i \in Gens, On(order, i), NEW x \in Generator, GenOK(i, x, order, up[i], now), x.inbox # << >>,
           NEW h, h = Head(x.inbox), NEW y, y = [x EXCEPT !.inbox = Tail(x.inbox)]
    PROVE  HandsOver(i, x, y, <<h>>) /\ h \in Change
  <1>1. PICK p : p = Tail(x.inbox)
    OBVIOUS
  <1>2. PICK m : m = x.inbox
    OBVIOUS
  <1>3. m \in Seq(Change) /\ m # << >> /\ p = Tail(m) /\ h = Head(m)
    BY <1>1, <1>2, FieldsOfGenerator
  <1>4. /\ p \in Seq(Change) /\ h \in Change /\ h = m[1] /\ Len(m) \in Nat /\ Len(p) = Len(m) - 1 /\ 1 \in 1..Len(m)
        /\ \A n \in 1..Len(p) : p[n] = m[n + 1] /\ n + 1 \in 1..Len(m)
        /\ \A n \in 1..Len(m) : n = 1 \/ (n - 1 \in 1..Len(p) /\ p[n - 1] = m[n])
    BY ONLY <1>3, TailFacts
  <1>5. /\ y \in Generator /\ y.val = x.val /\ y.conn = x.conn /\ y.inbox = p
        /\ y.next = x.next /\ y.since = x.since /\ y.tries = x.tries
    <2>1. y = [x EXCEPT !.inbox = p]
      BY <1>1
    <2> QED BY <1>4, <2>1 DEF Generator
  <1>6. PICK q : q = <<h>>
    OBVIOUS
  <1>7. q \in Seq(Change) /\ Len(q) = 1 /\ q[1] = h
    BY <1>4, <1>6
  <1>8. Current(x)
    BY DEF GenOK
  <1>9. Current(y)
    <2>1. ASSUME NEW n \in 1..Len(p), x.val[p[n].key] # p[n].value
          PROVE  \E l \in 1..Len(p) : l > n /\ p[l].key = p[n].key
      <3>1. n + 1 \in 1..Len(m) /\ m[n + 1] = p[n]
        BY <1>4
      <3>2. PICK l \in 1..Len(m) : l > n + 1 /\ m[l].key = p[n].key
        BY <1>2, <1>8, <2>1, <3>1 DEF Current
      <3>3. l # 1 /\ l - 1 > n
        BY <3>2, <1>4
      <3>4. PICK r \in 1..Len(p) : r = l - 1 /\ p[r] = m[l]
        BY <1>4, <3>3
      <3> QED BY <3>2, <3>3, <3>4
    <2>2. \A n \in 1..Len(p) : x.val[p[n].key] = p[n].value \/ \E l \in 1..Len(p) : l > n /\ p[l].key = p[n].key
      BY <2>1
    <2> QED BY ONLY <1>5, <2>2 DEF Current
  <1>10. GenOK(i, y, order, up[i], now)
    <2>1. Attempts(y, now)
      BY <1>5 DEF GenOK, Attempts
    <2>2. i \in Remote /\ y.conn = "ok"
      BY <1>5 DEF GenOK
    <2> QED BY <1>9, <2>1, <2>2 DEF GenOK
  <1>11. ASSUME NEW k \in Keys PROVE Carries(x.inbox, k) => Carries(q, k) \/ Carries(y.inbox, k)
    <2>1. SUFFICES ASSUME NEW n \in 1..Len(m), m[n].key = k PROVE Carries(q, k) \/ Carries(y.inbox, k)
      BY <1>2 DEF Carries
    <2>2. CASE n = 1
      <3>1. q[1].key = k
        BY <1>4, <1>7, <2>1, <2>2
      <3> QED BY <1>7, <3>1 DEF Carries
    <2>3. CASE n # 1
      BY <1>4, <1>5, <2>1, <2>3 DEF Carries
    <2> QED BY <2>2, <2>3
  <1>12. \A k \in Keys : MovesAt(i, order, x, y, q, k)
    BY <1>5, <1>11 DEF MovesAt
  <1>13. Leaves(y, q)
    <2>1. SUFFICES ASSUME NEW n \in 1..Len(q), y.val[q[n].key] # q[n].value
                   PROVE  Carries(y.inbox, q[n].key)
      BY DEF Leaves
    <2>2. n = 1 /\ q[n] = h
      BY <1>7
    <2>3. PICK l \in 1..Len(m) : l > 1 /\ m[l].key = h.key
      BY <1>2, <1>4, <1>5, <1>8, <2>1, <2>2 DEF Current
    <2>4. PICK r \in 1..Len(p) : p[r] = m[l]
      BY <1>4, <2>3
    <2> QED BY <1>5, <2>2, <2>3, <2>4 DEF Carries
  <1>14. x.conn = "ok"
    BY DEF GenOK
  <1> QED BY <1>4, <1>5, <1>6, <1>7, <1>10, <1>11, <1>12, <1>13, <1>14 DEF HandsOver

LEMMA DeliverStep ==
    ASSUME ReplicaInv, NEW i \in Remote, Deliver(i)
    PROVE  ReplicaInv'
  <1>0. Base /\ i \in Gens /\ order \in Seq(Gens)
    BY ReplicaAssumption DEF ReplicaInv, Knows, Base, Types
  <1>1. /\ Around /\ stack = << >> /\ i \in ToSet(order) /\ gen[i].inbox # << >>
        /\ gen' = [gen EXCEPT ![i].inbox = Tail(@)] /\ stack' = <<Noticing(i, Head(gen[i].inbox))>>
    BY <1>0 DEF Deliver, Around, Inside, Outside, Base, Types
  <1>2. On(order, i)
    BY <1>0, <1>1, ToSetIsOn
  <1>3. gen \in [Gens -> Generator] /\ gen[i] \in Generator /\ GenOK(i, gen[i], order, up[i], now)
    BY <1>0, GenFacts
  <1>4. PICK y, h : y = [gen[i] EXCEPT !.inbox = Tail(gen[i].inbox)] /\ h = Head(gen[i].inbox)
    OBVIOUS
  <1>5. HandsOver(i, gen[i], y, <<h>>) /\ h \in Change
    BY <1>0, <1>1, <1>2, <1>3, <1>4, ReadOne
  <1>6. gen' = [gen EXCEPT ![i] = y]
    BY <1>1, <1>3, <1>4
  <1>7. \A j \in Gens : Looked(gen[j], gen[j]) /\ Attempts(gen[j], now)
    BY <1>0, GenFacts
  <1>8. OneHandsOver(i, <<h>>)
    BY <1>0, <1>3, <1>5, <1>6, <1>7, OneChanges
  <1>9. Keeps(stack, stack, 0) /\ Len(stack) = 0 /\ 0 \in Nat
    BY <1>0, <1>1 DEF Keeps, Base, Types
  <1>10. stack' = stack \o <<Noticing(i, h)>>
    <2>1. PICK f \in FrameRec : f = Noticing(i, h)
      BY <1>0, <1>5, CallFacts
    <2>2. <<f>> \in Seq(FrameRec)
      BY <2>1
    <2>3. << >> \o <<f>> = <<f>>
      BY <2>2
    <2> QED BY <1>1, <1>4, <2>1, <2>3
  <1>11. Grows(stack, stack', 0, 0, i, <<h>>)
    BY <1>0, <1>5, <1>9, <1>10, OneNotice
  <1>12. Calm(stack, 0) /\ Between(stack', 0, 0) /\ Ends(stack, 0)
    BY <1>9 DEF Calm, Between, Ends
  <1> QED BY <1>0, <1>1, <1>8, <1>11, <1>12, HandStep

\* Somebody else changes what i holds.
ChangedTo(i, x, y, c, v, m, q) ==
    /\ m \in Seq(Change) /\ q \in {<< >>, <<c>>} /\ (q = <<c>> => On(order, i))
    /\ y = [x EXCEPT !.val = v, !.inbox = m] /\ v = [x.val EXCEPT ![c.key] = c.value]
    /\ m = << >> \/ (m = Append(x.inbox, c) /\ q = << >> /\ i \in Remote /\ x.conn = "ok" /\ On(order, i))
    /\ m = << >> => x.inbox = << >> /\ (x.conn = "ok" /\ On(order, i) => q = <<c>>)

LEMMA Changed ==
    ASSUME NEW i \in Gens, NEW x \in Generator, GenOK(i, x, order, up[i], now), NEW c \in Change, NEW v, NEW m, NEW y, NEW q,
           ChangedTo(i, x, y, c, v, m, q)
    PROVE  HandsOver(i, x, y, q)
  <1> USE DEF ChangedTo
  <1>1. c.key \in Keys /\ c.value \in Values \cup {Null}
    BY DEF Change
  <1>2. x.val \in Contents
    BY FieldsOfGenerator
  <1>3. v \in Contents /\ v[c.key] = c.value /\ \A k \in Keys : k # c.key => v[k] = x.val[k]
    BY <1>1, <1>2 DEF Contents
  <1>4. /\ y \in Generator /\ y.val = v /\ y.conn = x.conn /\ y.inbox = m
        /\ y.next = x.next /\ y.since = x.since /\ y.tries = x.tries
    BY <1>3 DEF Generator
  <1>5. x.inbox \in Seq(Change) /\ << >> \in Seq(Change) /\ <<c>> \in Seq(Change)
    BY FieldsOfGenerator
  <1>6. PICK p \in Seq(Change) : p = x.inbox
    BY <1>5
  <1>7. Current(x)
    BY DEF GenOK
  <1>8. /\ Current(y)
        /\ \A k \in Keys : Carries(p, k) => Carries(y.inbox, k) \/ y.inbox = << >>
        /\ y.inbox = Append(p, c) => Carries(y.inbox, c.key)
    <2>1. y.inbox = << >> \/ (y.inbox = p /\ x.val[c.key] = c.value) \/ y.inbox = Append(p, c)
      BY <1>4, <1>6
    <2>2. y.val[c.key] = c.value /\ \A k \in Keys : k # c.key => y.val[k] = x.val[k]
      BY <1>3, <1>4
    <2>3. p \in {<< >>, x.inbox} /\ p \in Seq(Change) /\ y \in Generator
      BY <1>4, <1>6
    <2> QED BY ONLY x \in Generator, c \in Change, <1>7, <2>1, <2>2, <2>3, CurrentPut
  <1>9. GenOK(i, y, order, up[i], now)
    <2>1. Attempts(y, now)
      BY <1>4 DEF GenOK, Attempts
    <2>2. i \notin Remote => y.conn = "ok" /\ up[i]
      BY <1>4 DEF GenOK
    <2>3. y.inbox # << >> => i \in Remote /\ y.conn = "ok" /\ On(order, i)
      BY <1>4
    <2> QED BY <1>8, <2>1, <2>2, <2>3 DEF GenOK
  <1>10. q = <<c>> => Carries(q, c.key)
    BY DEF Carries
  <1>11. ASSUME NEW k \in Keys PROVE Carries(x.inbox, k) => Carries(q, k) \/ Carries(y.inbox, k)
    <2>1. CASE m = << >>
      BY <2>1 DEF Carries
    <2>2. CASE m = Append(x.inbox, c)
      <3>1. m # << >>
        BY <1>5, <2>2
      <3> QED BY <1>4, <1>6, <1>8, <3>1
    <2> QED BY <2>1, <2>2
  <1>12. ASSUME NEW k \in Keys, y.conn = "ok", On(order, i) PROVE y.val[k] = x.val[k] \/ Carries(q, k) \/ Carries(y.inbox, k)
    BY <1>3, <1>4, <1>6, <1>8, <1>10, <1>12
  <1>13. \A k \in Keys : MovesAt(i, order, x, y, q, k)
    BY <1>11, <1>12 DEF MovesAt
  <1>14. Leaves(y, q)
    <2>1. CASE q = << >>
      BY <2>1, NothingLeft
    <2>2. CASE q = <<c>>
      BY <1>3, <1>4, <2>2 DEF Leaves
    <2> QED BY <2>1, <2>2
  <1>15. q \in Seq(Change) /\ (q # << >> => On(order, i)) /\ (x.conn = "broken" => x.conn # "ok")
    BY <1>5
  <1> QED BY <1>4, <1>9, <1>11, <1>13, <1>14, <1>15 DEF HandsOver

LEMMA set_localStep ==
    ASSUME ReplicaInv, NEW c \in Edits, NEW i \in Gens \ Remote, set_local(i, c)
    PROVE  ReplicaInv'
  <1>0. Base /\ c \in Change /\ order \in Seq(Gens)
    BY ReplicaAssumption DEF ReplicaInv, Knows, Change, Base, Types
  <1>1. budget \in 0..Budget /\ Budget \in Nat
    BY <1>0, ReplicaAssumption DEF Base, Types
  <1>2. /\ Around /\ UserCode /\ gen' = [gen EXCEPT ![i].val[c.key] = c.value]
        /\ stack' = stack \o (IF i \in ToSet(order) THEN <<Noticing(i, c)>> ELSE << >>)
    BY <1>1 DEF set_local, Acts, Around, Inside
  <1>3. gen \in [Gens -> Generator] /\ gen[i] \in Generator /\ GenOK(i, gen[i], order, up[i], now)
    BY <1>0, GenFacts
  <1>4. PICK x : x = gen[i]
    OBVIOUS
  <1>5. x \in Generator /\ x.inbox = << >> /\ x.conn = "ok"
    BY <1>3, <1>4 DEF GenOK
  <1>6. PICK v : v = [x.val EXCEPT ![c.key] = c.value]
    OBVIOUS
  <1>7. PICK m \in Seq(Change) : m = << >>
    <2>1. << >> \in Seq(Change)
      OBVIOUS
    <2> QED BY <2>1
  <1>8. PICK y : y = [x EXCEPT !.val = v, !.inbox = m]
    OBVIOUS
  <1>9. gen' = [gen EXCEPT ![i] = y]
    <2>1. x = [x EXCEPT !.inbox = m]
      BY <1>5, <1>7 DEF Generator
    <2>2. [x EXCEPT !.val = v] = y
      BY <1>5, <1>7, <1>8, <2>1 DEF Generator
    <2> QED BY <1>2, <1>4, <1>6, <2>2
  <1>10. PICK q : q = IF On(order, i) THEN <<c>> ELSE << >>
    OBVIOUS
  <1>11. HandsOver(i, gen[i], y, q)
    <2>1. q \in {<< >>, <<c>>} /\ (q = <<c>> => On(order, i)) /\ (On(order, i) => q = <<c>>)
      <3>1. << >> # <<c>>
        OBVIOUS
      <3> QED BY <1>10, <3>1
    <2>2. i \in Gens /\ GenOK(i, x, order, up[i], now)
      BY <1>3, <1>4
    <2>3. HandsOver(i, x, y, q)
      <3>1. ChangedTo(i, x, y, c, v, m, q)
        BY <1>5, <1>6, <1>7, <1>8, <2>1 DEF ChangedTo
      <3> QED BY <1>0, <1>5, <2>2, <3>1, Changed
    <2> QED BY <1>4, <2>3
  <1>12. \A j \in Gens : Looked(gen[j], gen[j]) /\ Attempts(gen[j], now)
    BY <1>0, GenFacts
  <1>13. OneHandsOver(i, q)
    BY <1>3, <1>9, <1>11, <1>12, OneChanges
  <1>14. PICK a \in Nat : a = Len(stack) /\ Keeps(stack, stack, a) /\ Calm(stack, a)
    <2>1. Len(stack) \in Nat /\ Keeps(stack, stack, Len(stack)) /\ Calm(stack, Len(stack))
      BY <1>0, <1>2, UserFacts
    <2> QED BY <2>1
  <1>15. Grows(stack, stack', a, a, i, q)
    <2>1. CASE On(order, i)
      <3>1. stack' = stack \o <<Noticing(i, c)>>
        BY <1>0, <1>2, <2>1, ToSetIsOn
      <3>2. Grows(stack, stack', a, a, i, <<c>>)
        BY <1>0, <1>14, <3>1, OneNotice
      <3> QED BY <1>10, <2>1, <3>2
    <2>2. CASE ~On(order, i)
      <3>1. stack' = stack
        BY <1>0, <1>2, <2>2, ToSetIsOn DEF Base, Types
      <3>2. q = << >> /\ Len(q) = 0
        BY <1>10, <2>2
      <3> QED BY <1>14, <3>1, <3>2 DEF Grows
    <2> QED BY <2>1, <2>2
  <1>16. Between(stack', a, a) /\ Ends(stack, a)
    BY <1>14 DEF Between, Ends
  <1> QED BY <1>2, <1>13, <1>14, <1>15, <1>16, HandStep

LEMMA ElsewhereStep ==
    ASSUME ReplicaInv, NEW c \in Edits, NEW i \in Remote, Elsewhere(i, c)
    PROVE  ReplicaInv'
  <1>0. Base /\ i \in Gens /\ c \in Change /\ order \in Seq(Gens)
    BY ReplicaAssumption DEF ReplicaInv, Knows, Change, Base, Types
  <1>1. budget \in 0..Budget /\ Budget \in Nat
    BY <1>0, ReplicaAssumption DEF Base, Types
  <1>2. PICK x : x = gen[i]
    OBVIOUS
  <1>3. PICK v, m : /\ v = [x.val EXCEPT ![c.key] = c.value]
                    /\ m = IF x.conn = "ok" /\ i \in ToSet(order) THEN Append(x.inbox, c) ELSE << >>
    OBVIOUS
  <1>4. gen \in [Gens -> Generator] /\ x \in Generator /\ GenOK(i, x, order, up[i], now)
    BY <1>0, <1>2, GenFacts
  <1>5. PICK y : y = [x EXCEPT !.val = v, !.inbox = m]
    OBVIOUS
  <1>6. Around /\ stack' = stack
    BY <1>1 DEF Elsewhere, Around, Inside
  <1>7. gen' = [gen EXCEPT ![i] = y]
    <2>1. gen' = [gen EXCEPT ![i].val[c.key] = c.value,
                             ![i].inbox = IF gen[i].conn = "ok" /\ i \in ToSet(order) THEN Append(@, c) ELSE << >>]
      BY DEF Elsewhere
    <2> QED BY <1>0, <1>2, <1>3, <1>4, <1>5, <2>1
  <1>8. x.inbox \in Seq(Change) /\ << >> \in Seq(Change)
    BY <1>4, FieldsOfGenerator
  <1>9. m \in Seq(Change) /\ (m = << >> \/ (m = Append(x.inbox, c) /\ x.conn = "ok" /\ On(order, i)))
    <2>1. Append(x.inbox, c) \in Seq(Change)
      BY <1>0, <1>8
    <2> QED BY <1>0, <1>3, <1>8, <2>1, ToSetIsOn
  <1>10. m = << >> => x.inbox = << >> /\ ~(x.conn = "ok" /\ On(order, i))
    <2>1. Append(x.inbox, c) # << >>
      BY <1>0, <1>8
    <2>2. m = << >> => ~(x.conn = "ok" /\ On(order, i))
      BY <1>0, <1>3, <2>1, ToSetIsOn
    <2> QED BY <1>4, <2>2 DEF GenOK
  <1>11. PICK q : q = << >>
    OBVIOUS
  <1>12. HandsOver(i, x, y, q)
    <2>1. q \in {<< >>, <<c>>} /\ (q = <<c>> => On(order, i))
      <3>1. << >> # <<c>>
        OBVIOUS
      <3> QED BY <1>11, <3>1
    <2>2. ChangedTo(i, x, y, c, v, m, q)
      BY <1>3, <1>5, <1>9, <1>10, <1>11, <2>1 DEF ChangedTo
    <2> QED BY <1>0, <1>4, <2>2, Changed
  <1>13. \A j \in Gens : Looked(gen[j], gen[j]) /\ Attempts(gen[j], now)
    BY <1>0, GenFacts
  <1>14. OneHandsOver(i, q)
    BY <1>0, <1>2, <1>4, <1>7, <1>12, <1>13, OneChanges
  <1>15. PICK a \in Nat : a = Len(stack) /\ Keeps(stack, stack', a)
    BY <1>0, <1>6, StackStays
  <1>16. Grows(stack, stack', a, a, i, q) /\ Between(stack', a, a) /\ Ends(stack, a)
    <2>1. Len(q) = 0 /\ Len(stack') = a
      BY <1>6, <1>11, <1>15
    <2> QED BY <1>15, <2>1 DEF Between, Ends, Grows
  <1> QED BY <1>0, <1>6, <1>11, <1>14, <1>15, <1>16, HandStep

-----------------------------------------------------------------------------
(* Steps after which replicate() follows, or a connection is gone.         *)

LEMMA AddsStep ==
    ASSUME ReplicaInv, NEW i \in Gens, Adds(i), order' \in Seq(Gens), Distinct(order'), \A j : On(order, j) => On(order', j)
    PROVE  ReplicaInv'
  <1>0. Base /\ Types /\ Knows /\ order \in Seq(Gens)
    BY DEF ReplicaInv, Knows, Base, Types
  <1>1. budget \in 0..Budget /\ Budget \in Nat
    BY <1>0, ReplicaAssumption DEF Types
  <1>2. /\ UserCode /\ budget' \in 0..Budget /\ up' = up /\ now' = now /\ dropped' = dropped /\ lost' = lost
        /\ unseen' = unseen /\ deltas' = deltas /\ seen' = seen
        /\ i \notin ToSet(order) /\ gen' = [gen EXCEPT ![i] = GenIsOk(@, i)] /\ stack' = Append(stack, Frame("begin"))
    BY <1>1 DEF Adds, Acts
  <1>3. ~On(order, i)
    BY <1>0, <1>2, ToSetIsOn
  <1>4. AllLooked /\ \A j \in Gens : j # i => gen'[j] = gen[j]
    <2>1. gen \in [Gens -> Generator] /\ gen[i] \in Generator /\ Attempts(gen[i], now) /\ now \in Nat /\ up[i] \in BOOLEAN
      BY <1>0, GenFacts
    <2>2. PICK y : y = GenIsOk(gen[i], i)
      OBVIOUS
    <2>3. Looked(gen[i], y) /\ Attempts(y, now)
      BY <2>1, <2>2, GenIsOkFacts
    <2>4. y \in Generator
      BY <2>3 DEF Looked
    <2>5. gen' \in [Gens -> Generator] /\ gen'[i] = y /\ \A j \in Gens : j # i => gen'[j] = gen[j]
      BY <1>2, <2>1, <2>2, <2>4
    <2>6. \A j \in Gens : Looked(gen[j], gen[j]) /\ Attempts(gen[j], now)
      BY <1>0, GenFacts
    <2> QED BY <2>3, <2>5, <2>6 DEF AllLooked
  <1>5. PICK f \in FrameRec : f = Frame("begin") /\ f.pc = "begin"
    BY FrameFacts
  <1>6. PICK a \in Nat : a = Len(stack) /\ Keeps(stack, stack, a) /\ Calm(stack, a)
    <2>1. Len(stack) \in Nat /\ Keeps(stack, stack, Len(stack)) /\ Calm(stack, Len(stack))
      BY <1>0, <1>2, UserFacts
    <2> QED BY <2>1
  <1>7. PICK b \in Nat : b = a + 1 /\ a <= b /\ \A n \in 1..b : n > a => n = b
    BY <1>6
  <1>8. Keeps(stack, stack', a) /\ Len(stack') = b /\ stack'[b] = f /\ b \in 1..b
    <2>1. Pushed(stack, stack', a, f)
      BY <1>2, <1>5, <1>6, AppendKeeps
    <2> QED BY <1>7, <2>1 DEF Pushed
  <1>9. Types'
    <2>1. stack' \in Seq(FrameRec) /\ gen' \in [Gens -> Generator]
      BY <1>4, <1>8 DEF Keeps, AllLooked
    <2> QED BY <1>0, <1>2, <2>1 DEF Types
  <1>10. ASSUME NEW j \in Gens
         PROVE  GenOK(j, gen'[j], order', up'[j], now') /\ (gen[j].conn = "ok" => gen'[j].conn = "ok")
    <2>1. Looked(gen[j], gen'[j]) /\ Attempts(gen'[j], now) /\ GenOK(j, gen[j], order, up[j], now)
      BY <1>0, <1>4 DEF Base, AllLooked
    <2>2. GenOK(j, gen'[j], order, up[j], now)
      BY <2>1, GenOKLooked
    <2>3. On(order, j) => On(order', j)
      OBVIOUS
    <2> QED BY <1>2, <2>1, <2>2, <2>3 DEF Looked, GenOK
  <1>11. Has(stack', {"begin"})
    BY <1>5, <1>8 DEF Has
  <1>12. Noticed
    BY <1>2, <1>3, <1>4, <1>11 DEF Noticed, Base, FrameOK
  <1>13. Plainly(a, b, None, << >>)
    <2>1. Grows(stack, stack', a, b, None, << >>)
      BY <1>6, <1>7, <1>8, NoNotices
    <2>2. \A k \in Keys : Moved(order', gen, gen', << >>, k)
      BY <1>4, LookedMoves DEF AllLooked, Moved
    <2>3. << >> \in Seq(Change) /\ Leaves(gen'[None], << >>)
      BY NothingLeft
    <2>4. \A n \in 1..Len(stack') : n > a /\ n <= b =>
              stack'[n].pc \notin Notice /\ stack'[n].pc # "replicate" /\ (stack'[n].pc \in Tops => n = Len(stack'))
      BY <1>5, <1>7, <1>8 DEF Notice
    <2>5. \A n \in 1..Len(stack) : n > a => stack[n].pc \notin {"delta", "pass", "begin", "replicate", "crashed"}
      BY <1>6
    <2> QED BY <1>6, <2>1, <2>2, <2>3, <2>4, <2>5 DEF Plainly
  <1>14. deltas' # << >> => Has(stack', {"replicate", "flush", "crashed"})
    <2>1. deltas # << >> => Has(stack, {"replicate", "flush", "crashed"})
      BY <1>0 DEF Base
    <2>2. \A n \in 1..Len(stack) : n > a => stack[n].pc \notin {"replicate", "flush", "crashed"}
      BY <1>6
    <2> QED BY <1>2, <1>8, <2>1, <2>2, HasKept
  <1>15. Base'
    <2>1. \A j \in Gens : GenOK(j, gen'[j], order', up'[j], now')
      BY <1>10
    <2> QED BY <1>0, <1>9, <1>13, <1>14, <2>1, PlainBase
  <1>16. Knows'
    BY <1>0, <1>2, <1>10, <1>11, <1>12, <1>13, <1>15, PlainKnows
  <1>17. \A k \in Keys : NoLoss(gen, gen', << >>, k)
    BY <1>4 DEF NoLoss, AllLooked, Looked
  <1>18. \A k \in Keys : \A v : Told(deltas, seen, k, v) => Told(deltas', seen', k, v)
    BY <1>2
  <1>19. Agrees' /\ Watched'
    BY <1>2, <1>11, <1>12, <1>13, <1>16, <1>17, <1>18, PlainCompares
  <1> QED BY <1>16, <1>19 DEF ReplicaInv

LEMMA appendStep ==
    ASSUME ReplicaInv, NEW i \in Gens, append(i)
    PROVE  ReplicaInv'
  <1>0. order \in Seq(Gens) /\ Distinct(order)
    BY DEF ReplicaInv, Knows, Base, Types
  <1>1. Adds(i) /\ order' = Append(order, i)
    BY DEF append
  <1>2. ~On(order, i)
    BY <1>0, <1>1, ToSetIsOn DEF Adds
  <1>3. PICK p : p = Append(order, i)
    OBVIOUS
  <1>4. /\ p \in Seq(Gens) /\ Len(order) \in Nat /\ Len(p) = Len(order) + 1
        /\ \A n \in 1..Len(order) : p[n] = order[n] /\ n \in 1..Len(p)
        /\ p[Len(p)] = i /\ Len(p) \in 1..Len(p)
        /\ \A n \in 1..Len(p) : n \in 1..Len(order) \/ n = Len(p)
    BY ONLY <1>0, <1>3, i \in Gens, AppendFacts
  <1>5. Distinct(p)
    BY <1>0, <1>2, <1>4 DEF Distinct, On
  <1>6. \A j : On(order, j) => On(p, j)
    BY <1>4 DEF On
  <1> QED BY <1>1, <1>3, <1>4, <1>5, <1>6, AddsStep

LEMMA prependStep ==
    ASSUME ReplicaInv, NEW i \in Gens, prepend(i)
    PROVE  ReplicaInv'
  <1>0. order \in Seq(Gens) /\ Distinct(order)
    BY DEF ReplicaInv, Knows, Base, Types
  <1>1. Adds(i) /\ order' = <<i>> \o order
    BY DEF prepend
  <1>2. ~On(order, i)
    BY <1>0, <1>1, ToSetIsOn DEF Adds
  <1>3. PICK q \in Seq(Gens) : q = <<i>> /\ Len(q) = 1 /\ q[1] = i
    <2>1. <<i>> \in Seq(Gens) /\ Len(<<i>>) = 1 /\ <<i>>[1] = i
      OBVIOUS
    <2> QED BY <2>1
  <1>4. PICK p : p = q \o order
    OBVIOUS
  <1>5. /\ p \in Seq(Gens) /\ Len(q) \in Nat /\ Len(order) \in Nat /\ Len(p) = Len(q) + Len(order)
        /\ \A n \in 1..Len(q) : p[n] = q[n] /\ n \in 1..Len(p)
        /\ \A n \in 1..Len(order) : p[Len(q) + n] = order[n] /\ Len(q) + n \in 1..Len(p)
        /\ \A n \in 1..Len(p) : n \in 1..Len(q) \/ (n - Len(q) \in 1..Len(order) /\ p[n] = order[n - Len(q)])
    BY ONLY <1>0, <1>3, <1>4, ConcatFacts
  <1>6. \A n \in 1..Len(p) : (n = 1 /\ p[n] = i) \/ (n - 1 \in 1..Len(order) /\ p[n] = order[n - 1])
    BY <1>3, <1>5
  <1>7. Distinct(p)
    <2>1. SUFFICES ASSUME NEW m \in 1..Len(p), NEW n \in 1..Len(p), p[m] = p[n] PROVE m = n
      BY DEF Distinct
    <2>2. CASE m = 1 \/ n = 1
      BY <1>2, <1>6, <2>1, <2>2 DEF On
    <2>3. CASE m # 1 /\ n # 1
      <3>1. m - 1 \in 1..Len(order) /\ n - 1 \in 1..Len(order) /\ order[m - 1] = order[n - 1]
        BY <1>6, <2>1, <2>3
      <3>2. m - 1 = n - 1
        BY <1>0, <3>1 DEF Distinct
      <3> QED BY <3>2
    <2> QED BY <2>2, <2>3
  <1>8. ASSUME NEW j, NEW n \in 1..Len(order), order[n] = j PROVE On(p, j)
    <2>1. PICK l \in 1..Len(p) : l = Len(q) + n /\ p[l] = order[n]
      BY <1>5
    <2> QED BY <1>8, <2>1 DEF On
  <1>9. \A j : On(order, j) => On(p, j)
    BY <1>8 DEF On
  <1> QED BY <1>1, <1>3, <1>4, <1>5, <1>7, <1>9, AddsStep

\* Of two generators on the list only one is connected.
LEMMA AloneAgrees ==
    ASSUME NEW o, Len(o) \in Nat, Len(o) <= 2, NEW g, NEW st, NEW i, On(o, i), g[i].conn # "ok",
           \A n \in 1..Len(st) : st[n].pc = "replicate" /\ st[n].first \in Gens => On(o, st[n].first)
    PROVE  AgreeAll(o, g, st)
  <1>1. \A j, l \in Connected(g) : On(o, j) /\ On(o, l) => j = l
    <2>1. SUFFICES ASSUME NEW j \in Connected(g), NEW l \in Connected(g), On(o, j), On(o, l) PROVE j = l
      OBVIOUS
    <2>2. j # i /\ l # i
      BY DEF Connected
    <2>3. PICK n \in 1..Len(o), m \in 1..Len(o), r \in 1..Len(o) : o[n] = i /\ o[m] = j /\ o[r] = l
      BY <2>1 DEF On
    <2>4. n # m /\ n # r
      BY <2>2, <2>3
    <2>5. m = r
      BY <2>3, <2>4
    <2> QED BY <2>3, <2>5
  <1>2. ASSUME NEW n \in 1..Len(st), st[n].pc = "replicate", st[n].first \in Connected(g),
               NEW j \in Connected(g), NEW k \in Keys, On(o, j)
        PROVE  Compared(o, g, st, st[n], j, k)
    <2>1. On(o, st[n].first)
      BY <1>2 DEF Connected
    <2>2. st[n].first = j
      BY <1>1, <1>2, <2>1
    <2> QED BY <2>2 DEF Compared, Same
  <1>3. ASSUME NEW j \in Connected(g), NEW l \in Connected(g), NEW k \in Keys, On(o, j), On(o, l) PROVE Same(g, st, j, l, k)
    BY <1>1, <1>3 DEF Same
  <1> QED BY <1>2, <1>3 DEF AgreeAll

\* The connection of i is gone, and with it what was on its way.
Loses(i) ==
    /\ gen'[i].conn # "ok" /\ (gen[i].inbox # << >> => lost') /\ (lost => lost')
    /\ ~lost' => ~Has(stack', {"replicate"})
    /\ gen' \in [Gens -> Generator] /\ gen'[i].inbox = << >> /\ Attempts(gen'[i], now)
    /\ \A j \in Gens : j # i => Looked(gen[j], gen'[j]) /\ Attempts(gen'[j], now)
    /\ order' = order /\ dropped' = dropped /\ deltas' = deltas /\ seen' = seen /\ now' = now /\ budget' \in 0..Budget
    /\ up' \in [Gens -> BOOLEAN] /\ (\A j \in Gens \ Remote : up'[j] = up[j]) /\ lost' \in BOOLEAN
    /\ unseen' = (unseen \/ Unnoticed)

LEMMA LosesStep ==
    ASSUME ReplicaInv, NEW i \in Remote, Loses(i), NEW a, NEW b \in Nat, Keeps(stack, stack', a), Len(stack') = b, a <= b,
           Calm(stack, a) \/ b = a, NewCalls(stack', a), Ends(stack, a)
    PROVE  ReplicaInv'
  <1>0. Base /\ Types /\ Knows /\ i \in Gens /\ order \in Seq(Gens)
    BY ReplicaAssumption DEF ReplicaInv, Knows, Base, Types
  <1>1. Types'
    <2>1. stack' \in Seq(FrameRec)
      BY DEF Keeps
    <2>2. unseen' \in BOOLEAN
      BY DEF Loses
    <2> QED BY <1>0, <2>1, <2>2 DEF Types, Loses
  <1>2. ASSUME NEW j \in Gens
        PROVE  GenOK(j, gen'[j], order', up'[j], now') /\ (gen[j].conn = "broken" => gen'[j].conn # "ok")
    <2>1. CASE j # i
      <3>1. Looked(gen[j], gen'[j]) /\ Attempts(gen'[j], now) /\ GenOK(j, gen[j], order, up[j], now)
        BY <1>0, <2>1 DEF Base, Loses
      <3>2. GenOK(j, gen'[j], order, up[j], now)
        BY <3>1, GenOKLooked
      <3>3. j \notin Remote => up'[j] = up[j]
        BY DEF Loses
      <3>4. GenOK(j, gen'[j], order, up'[j], now)
        BY <3>2, <3>3 DEF GenOK
      <3> QED BY <3>1, <3>4 DEF Looked, Loses
    <2>2. CASE j = i
      <3>1. Current(gen'[i])
        BY DEF Loses, Current
      <3> QED BY <2>2, <3>1 DEF Loses, GenOK
    <2> QED BY <2>1, <2>2
  <1>3. Noticed
    BY <1>0, <1>1, <1>2, InsideNoticed DEF Loses
  <1>4. ASSUME NEW j \in Gens, NEW k \in Keys PROVE MovesAt(j, order', gen[j], gen'[j], << >>, k)
    <2>1. CASE j # i
      <3>1. Looked(gen[j], gen'[j])
        BY <2>1 DEF Loses
      <3> QED BY <3>1, LookedMoves
    <2>2. CASE j = i
      BY <2>2 DEF Loses, MovesAt
    <2> QED BY <2>1, <2>2
  <1>5. Plainly(a, b, None, << >>)
    <2>1. Grows(stack, stack', a, b, None, << >>)
      BY NoNotices
    <2>2. \A k \in Keys : Moved(order', gen, gen', << >>, k)
      BY <1>4 DEF Moved
    <2>3. << >> \in Seq(Change) /\ Leaves(gen'[None], << >>)
      BY NothingLeft
    <2> QED BY <2>1, <2>2, <2>3 DEF Plainly, NewCalls, Ends
  <1>6. deltas' # << >> => Has(stack', {"replicate", "flush", "crashed"})
    <2>1. deltas # << >> => Has(stack, {"replicate", "flush", "crashed"})
      BY <1>0 DEF Base
    <2>2. \A n \in 1..Len(stack) : n > a => stack[n].pc \notin {"replicate", "flush", "crashed"}
      BY DEF Ends
    <2>3. Has(stack, {"replicate", "flush", "crashed"}) => Has(stack', {"replicate", "flush", "crashed"})
      BY <2>2, HasKept
    <2> QED BY <2>1, <2>3 DEF Loses
  <1>7. Base'
    <2>1. Distinct(order') /\ \A j : On(order, j) => On(order', j)
      BY <1>0 DEF Base, Loses
    <2>2. \A j \in Gens : GenOK(j, gen'[j], order', up'[j], now')
      BY <1>2
    <2> QED BY <1>0, <1>1, <1>5, <1>6, <2>1, <2>2, PlainBase
  <1>8. dropped' = dropped /\ order' = order /\ (lost => lost') /\ (~lost' => ~Has(stack', {"replicate"}))
    BY DEF Loses
  <1>9. Knows'
    BY <1>0, <1>3, <1>5, <1>7, <1>8, PlainKnows
  <1>10. CASE gen[i].inbox = << >>
    <2>1. ASSUME NEW k \in Keys, NEW j \in Gens PROVE Carries(gen[j].inbox, k) => Carries(gen'[j].inbox, k)
      <3>1. CASE j # i
        BY <3>1 DEF Loses, Looked
      <3>2. CASE j = i
        BY <1>10, <3>2 DEF Carries
      <3> QED BY <3>1, <3>2
    <2>2. \A k \in Keys : NoLoss(gen, gen', << >>, k)
      BY <2>1 DEF NoLoss
    <2>3. \A k \in Keys : \A v : Told(deltas, seen, k, v) => Told(deltas', seen', k, v)
      BY DEF Loses
    <2>4. Agrees' /\ Watched'
      BY <1>3, <1>5, <1>8, <1>9, <2>2, <2>3, PlainCompares
    <2> QED BY <1>9, <2>4 DEF ReplicaInv
  <1>11. CASE gen[i].inbox # << >>
    <2>1. lost' /\ On(order', i) /\ gen'[i].conn # "ok"
      BY <1>0, <1>8, <1>11 DEF Loses, Base, GenOK
    <2>2. Watched'
      BY <2>1 DEF Watched
    <2>3. \A n \in 1..Len(stack') : stack'[n].pc = "replicate" /\ stack'[n].first \in Gens => On(order', stack'[n].first)
      BY <1>7, ReplicaAssumption DEF Base, FrameOK
    <2>4. Len(order') \in Nat
      BY <1>0, <1>8
    <2>5. Len(order') <= 2 => AgreeAll(order', gen', stack')
      BY <2>1, <2>3, <2>4, AloneAgrees
    <2>6. Agrees'
      BY <2>1, <2>5 DEF Agrees
    <2> QED BY <1>9, <2>2, <2>6 DEF ReplicaInv
  <1> QED BY <1>10, <1>11

\* A connection that breaks.
LEMMA BrokenFacts ==
    ASSUME NEW x \in Generator, NEW w, Attempts(x, w), NEW y, y = [x EXCEPT !.conn = "broken", !.inbox = << >>]
    PROVE  y \in Generator /\ y.conn = "broken" /\ y.inbox = << >> /\ Attempts(y, w)
  <1>1. << >> \in Seq(Change) /\ "broken" \in {"none", "ok", "broken"}
    OBVIOUS
  <1>2. /\ y \in Generator /\ y.conn = "broken" /\ y.inbox = << >>
        /\ y.next = x.next /\ y.since = x.since /\ y.tries = x.tries
    BY <1>1 DEF Generator
  <1> QED BY <1>2 DEF Attempts

LEMMA BreaksStep ==
    ASSUME ReplicaInv, NEW i \in Remote, Breaks(i)
    PROVE  ReplicaInv'
  <1>0. Base /\ Types /\ i \in Gens
    BY ReplicaAssumption DEF ReplicaInv, Knows, Base, Types
  <1>1. budget \in 0..Budget /\ Budget \in Nat
    BY <1>0, ReplicaAssumption DEF Types
  <1>2. PICK up1 \in BOOLEAN : up' = [up EXCEPT ![i] = up1]
    BY DEF Breaks
  <1>3. /\ gen[i].conn = "ok" /\ gen' = [gen EXCEPT ![i].conn = "broken", ![i].inbox = << >>]
        /\ lost' = (lost \/ gen[i].inbox # << >> \/ OnStack({"replicate"}))
        /\ stack' = stack /\ dropped' = dropped /\ now' = now /\ budget' \in 0..Budget
        /\ order' = order /\ seen' = seen /\ deltas' = deltas /\ unseen' = (unseen \/ Unnoticed)
    BY <1>1 DEF Breaks, Inside
  <1>4. gen \in [Gens -> Generator] /\ gen[i] \in Generator /\ Attempts(gen[i], now)
    BY <1>0, GenFacts
  <1>5. PICK y : y = [gen[i] EXCEPT !.conn = "broken", !.inbox = << >>]
    OBVIOUS
  <1>6. y \in Generator /\ y.conn = "broken" /\ y.inbox = << >> /\ Attempts(y, now)
    BY <1>4, <1>5, BrokenFacts
  <1>7. gen' = [gen EXCEPT ![i] = y]
    BY <1>0, <1>3, <1>4, <1>5
  <1>8. gen' \in [Gens -> Generator] /\ gen'[i] = y /\ \A j \in Gens : j # i => gen'[j] = gen[j]
    BY <1>0, <1>4, <1>6, <1>7
  <1>9. \A j \in Gens : Looked(gen[j], gen[j]) /\ Attempts(gen[j], now)
    BY <1>0, GenFacts
  <1>10. up' \in [Gens -> BOOLEAN] /\ \A j \in Gens \ Remote : up'[j] = up[j]
    BY <1>0, <1>2 DEF Types
  <1>11. ~lost' => ~Has(stack', {"replicate"})
    <2>1. DOMAIN stack = 1..Len(stack)
      BY <1>0 DEF Types
    <2> QED BY <1>3, <2>1 DEF Has, OnStack
  <1>12. lost' \in BOOLEAN
    BY <1>3
  <1>13. gen'[i].conn # "ok"
    BY <1>6, <1>8
  <1>14. (gen[i].inbox # << >> => lost') /\ (lost => lost')
    BY <1>3
  <1>15. Loses(i)
    BY <1>3, <1>6, <1>8, <1>9, <1>10, <1>11, <1>12, <1>13, <1>14 DEF Loses
  <1>16. PICK a \in Nat : a = Len(stack) /\ Keeps(stack, stack, a)
    BY <1>0, StackStays
  <1>17. Keeps(stack, stack', a) /\ Len(stack') = a /\ a <= a /\ NewCalls(stack', a) /\ Ends(stack, a)
    BY <1>3, <1>16 DEF NewCalls, Ends
  <1> QED BY <1>15, <1>16, <1>17, LosesStep

LEMMA get_failsStep ==
    ASSUME ReplicaInv, get_fails
    PROVE  ReplicaInv'
  <1>0. Base /\ Types
    BY DEF ReplicaInv, Knows, Base
  <1>1. budget \in 0..Budget /\ Budget \in Nat
    BY <1>0, ReplicaAssumption DEF Types
  <1>2. PICK g, i : g = AfterFirstOk /\ i = FirstOk
    OBVIOUS
  <1>3. i \in Remote /\ i \in Gens /\ At("get2")
    BY <1>2, ReplicaAssumption DEF get_fails
  <1>4. /\ lost' = (lost \/ g[i].inbox # << >>) /\ stack' = Becomes([Frame("get3") EXCEPT !.src = i])
        /\ dropped' = dropped /\ now' = now /\ budget' \in 0..Budget /\ up' = up
        /\ order' = order /\ seen' = seen /\ deltas' = deltas /\ unseen' = (unseen \/ Unnoticed)
    BY <1>1, <1>2 DEF get_fails, Inside
  <1>5. gen' = [[g EXCEPT ![i].conn = "broken", ![i].inbox = << >>] EXCEPT ![i] = GenIsOk(@, i)]
    BY <1>2 DEF get_fails
  <1>6. Finds(g, i)
    BY <1>0, <1>2, FindsFirst DEF Base, GenOK
  <1>7. /\ g \in [Gens -> Generator] /\ g[i] \in Generator /\ Looked(gen[i], g[i]) /\ Attempts(g[i], now)
        /\ \A j \in Gens : Looked(gen[j], g[j]) /\ Attempts(g[j], now)
    BY <1>3, <1>6 DEF Finds
  <1>8. PICK x : x = [g[i] EXCEPT !.conn = "broken", !.inbox = << >>]
    OBVIOUS
  <1>9. x \in Generator /\ x.conn = "broken" /\ x.inbox = << >> /\ Attempts(x, now)
    BY <1>7, <1>8, BrokenFacts
  <1>10. PICK y : y = GenIsOk(x, i)
    OBVIOUS
  <1>11. Looked(x, y) /\ Attempts(y, now)
    <2>1. now \in Nat /\ up[i] \in BOOLEAN
      BY <1>0, <1>3, GenFacts
    <2> QED BY <1>3, <1>9, <1>10, <2>1, GenIsOkFacts
  <1>12. y \in Generator /\ y.conn # "ok" /\ y.inbox = << >>
    BY <1>9, <1>11 DEF Looked
  <1>13. gen' = [g EXCEPT ![i] = y]
    <2>1. [g EXCEPT ![i].conn = "broken", ![i].inbox = << >>] = [g EXCEPT ![i] = x]
      BY <1>3, <1>7, <1>8
    <2> QED BY <1>3, <1>5, <1>7, <1>10, <2>1
  <1>14. gen' \in [Gens -> Generator] /\ gen'[i] = y /\ \A j \in Gens : j # i => gen'[j] = g[j]
    BY <1>3, <1>7, <1>12, <1>13
  <1>15. PICK a \in Nat : a = Len(stack) - 1 /\ Keeps(stack, Pop, a) /\ Len(Pop) = a /\ Calm(stack, a)
    BY <1>0, <1>3, AtFacts
  <1>16. \A n \in 1..Len(stack) : n > a => stack[n] = Top /\ Top.pc = "get2"
    BY <1>0, <1>3, <1>15, AtFacts
  <1>17. Ends(stack, a)
    BY <1>16 DEF Ends
  <1>18. PICK f \in FrameRec : f = [Frame("get3") EXCEPT !.src = i] /\ f.pc = "get3"
    BY <1>3, FailedFacts
  <1>19. Pushed(stack, stack', a, f)
    <2>1. stack' = Append(Pop, f)
      BY <1>4, <1>18 DEF Becomes
    <2> QED BY <1>15, <1>18, <2>1, AppendKeeps
  <1>20. PICK b \in Nat : b = a + 1 /\ a <= b /\ \A n \in 1..b : n \in 1..a \/ n = b
    BY <1>15
  <1>21. Keeps(stack, stack', a) /\ Len(stack') = b /\ stack'[b] = f
    BY <1>19, <1>20 DEF Pushed
  <1>22. NewCalls(stack', a)
    <2>1. f.pc \notin Notice /\ f.pc # "replicate" /\ f.pc \notin Tops
      BY <1>18 DEF Notice, Tops
    <2>2. \A n \in 1..b : n > a => n = b
      BY <1>15, <1>20
    <2> QED BY <1>21, <2>1, <2>2 DEF NewCalls
  <1>23. ~Has(stack', {"replicate"})
    <2>1. \A n \in 1..a : stack'[n].pc # "replicate"
      BY <1>15, <1>21 DEF Calm, Keeps
    <2> QED BY <1>18, <1>20, <1>21, <2>1 DEF Has
  <1>24. lost' \in BOOLEAN /\ (lost => lost') /\ (gen[i].inbox # << >> => lost')
    BY <1>4, <1>7 DEF Looked
  <1>25. up' \in [Gens -> BOOLEAN] /\ \A j \in Gens \ Remote : up'[j] = up[j]
    BY <1>0, <1>4 DEF Types
  <1>26. Loses(i)
    BY <1>4, <1>7, <1>11, <1>12, <1>14, <1>23, <1>24, <1>25 DEF Loses
  <1> QED BY <1>3, <1>15, <1>17, <1>20, <1>21, <1>22, <1>26, LosesStep

-----------------------------------------------------------------------------
(* Passing a notice on.                                                    *)

SameReplicates(st, st1) ==
    \A n \in 1..Len(st1) : st1[n].pc = "replicate" => n \in 1..Len(st) /\ st[n] = st1[n]

LEMMA ReplicatesKept ==
    ASSUME NEW st, NEW st1, SameReplicates(st, st1), NEW g, NEW un, NEW o, NEW C
    PROVE  /\ ListedAll(g, st, un) => ListedAll(g, st1, un)
           /\ FirstHeld(g, st) => FirstHeld(g, st1)
           /\ LeadsAll(o, st, C) => LeadsAll(o, st1, C)
           /\ UnlistedAll(st) => UnlistedAll(st1)
  <1>1. ListedAll(g, st, un) => ListedAll(g, st1, un)
    BY DEF SameReplicates, ListedAll
  <1>2. FirstHeld(g, st) => FirstHeld(g, st1)
    BY DEF SameReplicates, FirstHeld
  <1>3. LeadsAll(o, st, C) => LeadsAll(o, st1, C)
    BY DEF SameReplicates, LeadsAll
  <1>4. UnlistedAll(st) => UnlistedAll(st1)
    BY DEF SameReplicates, UnlistedAll
  <1> QED BY <1>1, <1>2, <1>3, <1>4

\* The generators and the list stay.
StillThere ==
    /\ gen' = gen /\ order' = order /\ up' = up /\ now' = now /\ budget' = budget /\ lost' = lost /\ unseen' = unseen

LEMMA InsideStill ==
    ASSUME Base, gen' = gen, Inside, Outside
    PROVE  StillThere /\ deltas' = deltas /\ seen' = seen
  <1>1. ~Unnoticed
    BY DEF Unnoticed
  <1>2. unseen \in BOOLEAN
    BY DEF Base, Types
  <1> QED BY <1>1, <1>2 DEF Inside, Outside, StillThere

LEMMA StillBase ==
    ASSUME Base, StillThere, stack' \in Seq(FrameRec), deltas' \in Seq(Change), seen' \in Contents, dropped' \in BOOLEAN,
           Shape(stack'), \A n \in 1..Len(stack') : FrameOK(stack'[n], order),
           deltas' # << >> => Has(stack', {"replicate", "flush", "crashed"})
    PROVE  Base'
  <1>1. Types'
    BY DEF Base, Types, StillThere
  <1> QED BY <1>1 DEF Base, StillThere

LEMMA StillKnows ==
    ASSUME Knows, StillThere, Base', SameReplicates(stack, stack'),
           ~dropped' /\ ~Doomed(stack') => SourcedAll(gen, stack', unseen),
           ~dropped' => PassedAll(order, gen, stack', unseen)
    PROVE  Knows'
  <1>1. ListedAll(gen, stack', unseen) /\ (~lost => FirstHeld(gen, stack'))
    BY ReplicatesKept DEF Knows
  <1>2. LeadsAll(order, stack', Gens \ Remote)
    BY ReplicatesKept DEF Knows
  <1>3. ~unseen => LeadsAll(order, stack', Connected(gen)) /\ UnlistedAll(stack')
    BY ReplicatesKept DEF Knows
  <1> QED BY <1>1, <1>2, <1>3 DEF Knows, StillThere

LEMMA KeptFrames ==
    ASSUME Base, NEW a, Keeps(stack, stack', a)
    PROVE  \A n \in 1..a : FrameOK(stack'[n], order)
  BY DEF Base, Keeps

LEMMA delta_ignoredStep ==
    ASSUME ReplicaInv, delta_ignored
    PROVE  ReplicaInv'
  <1>0. Base /\ Knows /\ deltas \in Seq(Change) /\ seen \in Contents
    BY DEF ReplicaInv, Knows, Base, Types
  <1>1. StillThere /\ deltas' = deltas /\ seen' = seen
    BY <1>0, InsideStill DEF delta_ignored
  <1>2. At("delta") /\ dropped' = TRUE /\ stack' = Pop
    BY DEF delta_ignored
  <1>3. PICK a \in Nat : a = Len(stack) - 1 /\ Keeps(stack, stack', a) /\ Len(stack') = a
    BY <1>0, <1>2, AtFacts
  <1>4. \A n \in 1..Len(stack) : n > a => stack[n].pc = "delta"
    BY <1>0, <1>2, <1>3, AtFacts
  <1>5. Shape(stack')
    BY <1>0, <1>3, ShapePop DEF Base
  <1>6. \A n \in 1..Len(stack') : FrameOK(stack'[n], order)
    BY <1>0, <1>3, KeptFrames
  <1>7. deltas' # << >> => Has(stack', {"replicate", "flush", "crashed"})
    <2>1. \A n \in 1..Len(stack) : n > a => stack[n].pc \notin {"replicate", "flush", "crashed"}
      BY <1>4
    <2> QED BY <1>0, <1>1, <1>3, <2>1, HasKept DEF Base
  <1>8. Base'
    <2>1. stack' \in Seq(FrameRec) /\ dropped' \in BOOLEAN
      BY <1>2, <1>3 DEF Keeps
    <2> QED BY <1>0, <1>1, <1>5, <1>6, <1>7, <2>1, StillBase
  <1>9. SameReplicates(stack, stack')
    BY <1>3 DEF SameReplicates, Keeps
  <1>10. Knows'
    BY <1>0, <1>1, <1>2, <1>8, <1>9, StillKnows
  <1>11. Agrees' /\ Watched'
    BY <1>2 DEF Agrees, Watched
  <1> QED BY <1>10, <1>11 DEF ReplicaInv

LEMMA delta_beginsStep ==
    ASSUME ReplicaInv, delta_begins
    PROVE  ReplicaInv'
  <1>0. Base /\ Knows /\ deltas \in Seq(Change) /\ seen \in Contents /\ dropped \in BOOLEAN /\ order \in Seq(Gens)
    BY DEF ReplicaInv, Knows, Base, Types
  <1>1. StillThere /\ deltas' = deltas /\ seen' = seen /\ dropped' = dropped
    BY <1>0, InsideStill DEF delta_begins
  <1>2. At("delta") /\ ~processing_callback /\ stack' = Becomes([Top EXCEPT !.pc = "pass", !.todo = order])
    BY DEF delta_begins
  <1>3. PICK a \in Nat : a = Len(stack) - 1 /\ Keeps(stack, Pop, a) /\ Len(Pop) = a
    BY <1>0, <1>2, AtFacts
  <1>4. PICK f \in FrameRec : f = Top /\ f.pc = "delta" /\ FrameOK(f, order)
    BY <1>0, <1>2, AtFacts
  <1>5. Len(stack) = a + 1 /\ stack[a + 1] = f
    <2>1. Len(stack) \in Nat /\ Top = stack[Len(stack)]
      BY <1>0, <1>2, AtFacts
    <2>2. Len(stack) = a + 1
      BY <1>3, <2>1
    <2> QED BY <1>4, <2>1, <2>2
  <1>6. PICK h : h = [f EXCEPT !.pc = "pass", !.todo = order]
    OBVIOUS
  <1>7. h \in FrameRec /\ h.pc = "pass" /\ h.c = f.c /\ h.src = f.src /\ h.todo = order
    <2>1. Passes(f, order, h)
      BY <1>4, <1>6 DEF Passes
    <2> QED BY <1>0, <1>4, <2>1, PassFrame
  <1>8. Pushed(stack, stack', a, h)
    <2>1. stack' = Append(Pop, h)
      BY <1>2, <1>4, <1>6 DEF Becomes
    <2> QED BY <1>3, <1>7, <2>1, AppendKeeps
  <1>9. Keeps(stack, stack', a) /\ Len(stack') = a + 1 /\ stack'[a + 1] = h /\ a + 1 \in 1..(a + 1)
    BY <1>8 DEF Pushed
  <1>10. \A n \in 1..(a + 1) : n \in 1..a \/ n = a + 1
    BY <1>3
  <1>11. \A n \in 1..Len(stack) : stack[n].pc \notin {"pass", "delivered"}
    <2>1. DOMAIN stack = 1..Len(stack)
      BY <1>0 DEF Base, Types
    <2> QED BY <1>2, <2>1 DEF processing_callback, OnStack
  <1>12. Shape(stack')
    <2>1. \A n \in 1..a : stack[n].pc # "delivered"
      BY <1>9, <1>11 DEF Keeps
    <2>2. stack[a + 1].pc \in {"delta", "pass"} /\ stack'[a + 1].pc = "pass" /\ stack'[a + 1].src = stack[a + 1].src
      BY <1>4, <1>5, <1>7, <1>9
    <2>3. Shape(stack)
      BY <1>0 DEF Base
    <2> QED BY <1>5, <1>9, <2>1, <2>2, <2>3, ShapePass
  <1>13. \A n \in 1..Len(stack') : FrameOK(stack'[n], order)
    <2>1. FrameOK(h, order)
      BY <1>0, <1>4, <1>7 DEF FrameOK, On
    <2>2. \A n \in 1..a : FrameOK(stack'[n], order)
      BY <1>0, <1>9, KeptFrames
    <2> QED BY <1>9, <1>10, <2>1, <2>2
  <1>14. \A n \in 1..Len(stack) : n > a => stack[n].pc = "delta"
    BY <1>4, <1>5, <1>10
  <1>15. Base'
    <2>1. stack' \in Seq(FrameRec)
      BY <1>9 DEF Keeps
    <2>2. \A n \in 1..Len(stack) : n > a => stack[n].pc \notin {"replicate", "flush", "crashed"}
      BY <1>14
    <2>3. deltas' # << >> => Has(stack', {"replicate", "flush", "crashed"})
      BY <1>0, <1>1, <1>9, <2>2, HasKept DEF Base
    <2> QED BY <1>0, <1>1, <1>12, <1>13, <2>1, <2>3, StillBase
  <1>16. SameReplicates(stack, stack')
    BY <1>7, <1>9, <1>10 DEF SameReplicates, Keeps
  <1>17. ASSUME ~dropped PROVE SourcedAll(gen, stack', unseen)
    <2>1. ~Doomed(stack)
      BY <1>11 DEF Doomed, Has
    <2>2. SourcedAll(gen, stack, unseen)
      BY <1>17, <2>1 DEF ReplicaInv, Knows
    <2>3. SUFFICES ASSUME NEW n \in 1..Len(stack'), stack'[n].pc \in {"delta", "pass"}
                   PROVE  Sourced(gen, stack', unseen, n, stack'[n].src, stack'[n].c)
      BY DEF SourcedAll
    <2>4. \A m \in 1..(n - 1) : m \in 1..a /\ stack'[m] = stack[m]
      BY <1>3, <1>9, <2>3 DEF Keeps
    <2>5. n \in 1..Len(stack) /\ stack[n].pc \in {"delta", "pass"} /\ stack'[n].src = stack[n].src /\ stack'[n].c = stack[n].c
      BY <1>4, <1>5, <1>7, <1>9, <1>10, <2>3 DEF Keeps
    <2>6. Sourced(gen, stack, unseen, n, stack[n].src, stack[n].c)
      BY <2>2, <2>5 DEF SourcedAll
    <2>7. Later(gen[stack[n].src], stack, n, stack[n].src, stack[n].c.key)
             => Later(gen[stack[n].src], stack', n, stack[n].src, stack[n].c.key)
      BY <2>4 DEF Later
    <2> QED BY <2>5, <2>6, <2>7 DEF Sourced
  <1>18. PassedAll(order, gen, stack', unseen)
    <2>1. SUFFICES ASSUME NEW n \in 1..Len(stack'), stack'[n].pc = "pass", NEW i \in Gens, On(order, i), ~On(stack'[n].todo, i)
                   PROVE  FALSE
      BY DEF PassedAll
    <2>2. n = a + 1
      BY <1>9, <1>10, <1>11, <2>1 DEF Keeps
    <2> QED BY <1>7, <1>9, <2>1, <2>2
  <1>19. Knows'
    BY <1>0, <1>1, <1>15, <1>16, <1>17, <1>18, StillKnows
  <1>20. Quietly(order, gen, stack, gen, stack')
    <2>1. SUFFICES ASSUME NEW k \in Keys, ~Passing(stack', k)
                   PROVE  ~Passing(stack, k) /\ Mild(order, gen, stack, gen, stack', k)
      BY DEF Quietly
    <2>2. ~Passing(stack, k)
      BY <1>11 DEF Passing
    <2>3. f.c.key # k
      BY <1>7, <1>9, <2>1 DEF Passing
    <2>4. Waits(stack, k) => Waits(stack', k)
      BY <1>5, <1>9, <1>10, <2>3 DEF Waits, Keeps
    <2> QED BY <2>2, <2>4 DEF Mild, Pending
  <1>21. SameCalls(order, stack, stack')
    <2>1. ASSUME NEW n \in 1..Len(stack'), stack'[n].pc = "replicate"
          PROVE  n \in 1..Len(stack) /\ stack[n] = stack'[n] /\ (stack'[n].first # None => On(order, stack'[n].first))
      BY <1>13, <1>16, <2>1 DEF SameReplicates, FrameOK
    <2>2. \A n \in 1..Len(stack) : n > a => stack[n].pc \notin Replicating
      BY <1>14 DEF Replicating
    <2>3. Has(stack, Replicating) => Has(stack', Replicating)
      BY <1>9, <2>2, HasKept
    <2> QED BY <2>1, <2>3 DEF SameCalls
  <1>22. Agrees'
    <2>1. NoneBack(order, gen, gen)
      BY DEF NoneBack
    <2>2. AgreeAll(order, gen, stack) => AgreeAll(order, gen, stack')
      BY <1>20, <1>21, <2>1, AgreeKept
    <2> QED BY <1>1, <2>2 DEF ReplicaInv, Agrees, StillThere
  <1>23. Watched'
    <2>1. SUFFICES ASSUME ~dropped, ~lost, WatchAll(order, gen, stack, deltas, seen) PROVE WatchAll(order, gen, stack', deltas, seen)
      BY <1>1 DEF ReplicaInv, Watched, StillThere
    <2>2. \A i \in Gens \ Remote : gen[i].conn = "ok"
      BY <1>0 DEF Base, GenOK
    <2>3. FirstHeld(gen, stack')
      BY <1>0, <1>16, <2>1, ReplicatesKept DEF Knows
    <2>4. \A n \in 1..Len(stack') : stack'[n].pc = "replicate" => stack'[n].first \in Gens \cup {None}
      <3>1. stack' \in Seq(FrameRec)
        BY <1>9 DEF Keeps
      <3>2. \A n \in 1..Len(stack') : stack'[n] \in FrameRec
        BY <3>1
      <3> QED BY <3>2, FieldsOf
    <2>5. \A k \in Keys : \A v : Told(deltas, seen, k, v) => Told(deltas, seen, k, v)
      OBVIOUS
    <2> QED BY <1>20, <1>21, <2>1, <2>2, <2>3, <2>4, <2>5, WatchKept
  <1> QED BY <1>19, <1>22, <1>23 DEF ReplicaInv

\* A notice has been passed on to all: they hold its value, or another notice about the
\* key is to come.
Settled(k, v) == \A i \in Gens : On(order, i) /\ Steady(gen[i], unseen, i) => gen[i].val[k] = v \/ Pending(gen, stack, k)

LEMMA PassedToAll ==
    ASSUME Knows, At("pass"), Top.todo = << >>, ~dropped
    PROVE  Settled(Top.c.key, Top.c.value)
  <1>0. Base
    BY DEF Knows
  <1>1. /\ Len(stack) \in 1..Len(stack) /\ stack[Len(stack)] = Top /\ Top \in FrameRec /\ Top.pc = "pass"
        /\ stack # << >> /\ stack \in Seq(FrameRec)
    BY <1>0, AtFacts
  <1>2. Top.src \in Gens
    <2>1. Top.pc \in Notice
      BY <1>1 DEF Notice
    <2> QED BY <1>1, <2>1, FieldsOf
  <1>3. ~Doomed(stack)
    BY <1>1 DEF Doomed
  <1>4. SourcedAll(gen, stack, unseen) /\ PassedAll(order, gen, stack, unseen)
    BY <1>3 DEF Knows
  <1>5. Sourced(gen, stack, unseen, Len(stack), Top.src, Top.c)
    BY <1>1, <1>4 DEF SourcedAll
  <1>6. \A i \in Gens : On(order, i) /\ i # Top.src => Reached(gen[i], unseen, i, Top.c)
    <2>1. \A i : ~On(Top.todo, i)
      BY DEF On
    <2> QED BY <1>1, <1>4, <2>1 DEF PassedAll
  <1>7. SUFFICES ASSUME NEW i \in Gens, On(order, i), Steady(gen[i], unseen, i), gen[i].val[Top.c.key] # Top.c.value
                 PROVE  Pending(gen, stack, Top.c.key)
    BY DEF Settled
  <1>8. CASE i # Top.src
    <2>1. Carries(gen[i].inbox, Top.c.key)
      BY <1>6, <1>7, <1>8 DEF Reached
    <2> QED BY <2>1 DEF Pending
  <1>9. CASE i = Top.src
    <2>1. Later(gen[i], stack, Len(stack), i, Top.c.key)
      BY <1>5, <1>7, <1>9 DEF Sourced
    <2>2. CASE Carries(gen[i].inbox, Top.c.key)
      BY <2>2 DEF Pending
    <2>3. CASE \E m \in 1..(Len(stack) - 1) : stack[m].pc = "delta" /\ stack[m].src = i /\ stack[m].c.key = Top.c.key
      <3>1. PICK m \in 1..(Len(stack) - 1) : stack[m].pc = "delta" /\ stack[m].c.key = Top.c.key
        BY <2>3
      <3>2. m \in 1..Len(stack)
        BY <1>1
      <3> QED BY <3>1, <3>2 DEF Pending, Waits
    <2> QED BY <2>1, <2>2, <2>3 DEF Later
  <1> QED BY <1>8, <1>9

\* The notice at the top has been passed on: what was said of other keys stays true.
Done(st, st1, c) ==
    /\ \A k \in Keys : (k # c.key /\ ~Passing(st1, k) => ~Passing(st, k)) /\ (Waits(st, k) => Waits(st1, k))
    /\ \A n \in 1..Len(st1) : st1[n].pc = "replicate" =>
          n \in 1..Len(st) /\ st[n] = st1[n] /\ st1[n].first \in Gens \cup {None} /\ (st1[n].first # None => On(order, st1[n].first))
    /\ Has(st, Replicating) => Has(st1, Replicating)

LEMMA DonePending ==
    ASSUME NEW st, NEW st1, NEW c, Done(st, st1, c), NEW g, NEW k \in Keys
    PROVE  Pending(g, st, k) => Pending(g, st1, k)
  BY DEF Done, Pending

LEMMA DoneAgrees ==
    ASSUME NEW st1, NEW c, c.key \in Keys, Done(stack, st1, c), ~unseen, AgreeAll(order, gen, stack), Settled(c.key, c.value)
    PROVE  AgreeAll(order, gen, st1)
  <1>1. ASSUME NEW i \in Gens, NEW j \in Gens, On(order, i), On(order, j), gen[i].conn = "ok", gen[j].conn = "ok"
        PROVE  Same(gen, st1, i, j, c.key)
    <2>1. /\ gen[i].val[c.key] = c.value \/ Pending(gen, stack, c.key)
          /\ gen[j].val[c.key] = c.value \/ Pending(gen, stack, c.key)
      BY <1>1 DEF Settled, Steady
    <2> QED BY <2>1, DonePending DEF Same
  <1>2. ASSUME ~Has(st1, Replicating), NEW i \in Connected(gen), NEW j \in Connected(gen), NEW k \in Keys, On(order, i), On(order, j),
               ~Passing(st1, k)
        PROVE  Same(gen, st1, i, j, k)
    <2>1. CASE k = c.key
      BY <1>1, <1>2, <2>1 DEF Connected
    <2>2. CASE k # c.key
      <3>1. Same(gen, stack, i, j, k)
        BY <1>2, <2>2 DEF AgreeAll, Done
      <3> QED BY <3>1, DonePending DEF Same
    <2> QED BY <2>1, <2>2
  <1>3. ASSUME NEW n \in 1..Len(st1), st1[n].pc = "replicate", st1[n].first \in Connected(gen), ~On(st1[n].todo, st1[n].first),
               NEW j \in Connected(gen), NEW k \in Keys, On(order, j), ~Passing(st1, k)
        PROVE  Compared(order, gen, st1, st1[n], j, k)
    <2>1. n \in 1..Len(stack) /\ stack[n] = st1[n] /\ st1[n].first \in Gens /\ gen[st1[n].first].conn = "ok" /\ On(order, st1[n].first)
      BY <1>3, ReplicaAssumption DEF Done, Connected
    <2>2. CASE k = c.key
      <3>1. Same(gen, st1, st1[n].first, j, k)
        BY <1>1, <1>3, <2>1, <2>2 DEF Connected
      <3> QED BY <3>1 DEF Compared
    <2>3. CASE k # c.key
      <3>1. ~Passing(stack, k)
        BY <1>3, <2>3 DEF Done
      <3>2. Compared(order, gen, stack, stack[n], j, k)
        BY <1>3, <2>1, <3>1 DEF AgreeAll
      <3>3. Same(gen, stack, st1[n].first, j, k) => Same(gen, st1, st1[n].first, j, k)
        BY DonePending DEF Same
      <3> QED BY <2>1, <3>2, <3>3 DEF Compared
    <2> QED BY <2>2, <2>3
  <1> QED BY <1>2, <1>3 DEF AgreeAll

LEMMA DoneWatched ==
    ASSUME NEW st1, NEW c, c.key \in Keys, Done(stack, st1, c), \A i \in Gens \ Remote : gen[i].conn = "ok", NEW d1, NEW s1,
           WatchAll(order, gen, stack, deltas, seen), Settled(c.key, c.value), Told(d1, s1, c.key, c.value),
           \A k \in Keys : \A v : k # c.key /\ Told(deltas, seen, k, v) => Told(d1, s1, k, v)
    PROVE  WatchAll(order, gen, st1, d1, s1)
  <1>1. ASSUME NEW i \in Gens \ Remote, On(order, i) PROVE Known(gen, st1, d1, s1, i, c.key)
    <2>1. gen[i].val[c.key] = c.value \/ Pending(gen, stack, c.key)
      BY <1>1 DEF Settled, Steady
    <2> QED BY <2>1, DonePending DEF Known
  <1>2. ASSUME NEW i \in Gens \ Remote, NEW k \in Keys, k # c.key, Known(gen, stack, deltas, seen, i, k)
        PROVE  Known(gen, st1, d1, s1, i, k)
    BY <1>2, DonePending DEF Known
  <1>3. ASSUME ~Has(st1, Replicating), NEW i \in Gens \ Remote, NEW k \in Keys, On(order, i), ~Passing(st1, k)
        PROVE  Known(gen, st1, d1, s1, i, k)
    <2>1. CASE k = c.key
      BY <1>1, <1>3, <2>1
    <2>2. CASE k # c.key
      <3>1. ~Has(stack, Replicating) /\ ~Passing(stack, k)
        BY <1>3, <2>2 DEF Done
      <3>2. Known(gen, stack, deltas, seen, i, k)
        BY <1>3, <3>1 DEF WatchAll
      <3> QED BY <1>2, <2>2, <3>2
    <2> QED BY <2>1, <2>2
  <1>4. ASSUME NEW n \in 1..Len(st1), st1[n].pc = "replicate", st1[n].first # None,
               NEW i \in Gens \ Remote, NEW k \in Keys, On(order, i), ~Passing(st1, k)
        PROVE  Announced(gen, st1, d1, s1, st1[n], i, k)
    <2>1. n \in 1..Len(stack) /\ stack[n] = st1[n]
      BY <1>4 DEF Done
    <2>2. CASE k = c.key
      <3>1. Known(gen, st1, d1, s1, i, k)
        BY <1>1, <1>4, <2>2
      <3> QED BY <3>1 DEF Announced
    <2>3. CASE k # c.key
      <3>1. ~Passing(stack, k)
        BY <1>4, <2>3 DEF Done
      <3>2. Announced(gen, stack, deltas, seen, stack[n], i, k)
        BY <1>4, <2>1, <3>1 DEF WatchAll
      <3>3. Known(gen, stack, deltas, seen, i, k) => Known(gen, st1, d1, s1, i, k)
        BY <1>2, <2>3
      <3> QED BY <2>1, <3>2, <3>3 DEF Announced
    <2> QED BY <2>2, <2>3
  <1> QED BY <1>3, <1>4 DEF WatchAll

LEMMA SourcedBelow ==
    ASSUME NEW g, NEW st, NEW un, NEW st1, NEW a, Keeps(st, st1, a), SourcedAll(g, st, un),
           \A n \in 1..Len(st1) : n > a => st1[n].pc \notin {"delta", "pass"}
    PROVE  SourcedAll(g, st1, un)
  <1>0. a \in Nat /\ Len(st1) \in Nat /\ \A n \in 1..a : st1[n] = st[n] /\ n \in 1..Len(st) /\ n \in 1..Len(st1)
    BY DEF Keeps
  <1>1. SUFFICES ASSUME NEW n \in 1..Len(st1), st1[n].pc \in {"delta", "pass"} PROVE Sourced(g, st1, un, n, st1[n].src, st1[n].c)
    BY DEF SourcedAll
  <1>2. n \in 1..a
    <2>1. ~(n > a)
      BY <1>1
    <2> QED BY <1>0, <2>1
  <1>3. Sourced(g, st, un, n, st[n].src, st[n].c) /\ st1[n] = st[n]
    BY <1>0, <1>1, <1>2 DEF SourcedAll
  <1>4. \A m \in 1..(n - 1) : st1[m] = st[m]
    BY <1>0, <1>2
  <1>5. Later(g[st[n].src], st, n, st[n].src, st[n].c.key) => Later(g[st[n].src], st1, n, st[n].src, st[n].c.key)
    BY <1>4 DEF Later
  <1> QED BY <1>3, <1>5 DEF Sourced

\* One more notice is held.
LEMMA ToldHeld ==
    ASSUME NEW d \in Seq(Change), NEW c \in Change, NEW d1, d1 = Append(d, c), NEW s
    PROVE  /\ d1 \in Seq(Change) /\ Told(d1, s, c.key, c.value)
           /\ \A k \in Keys : \A v : k # c.key /\ Told(d, s, k, v) => Told(d1, s, k, v)
  <1>1. /\ d1 \in Seq(Change) /\ Len(d) \in Nat /\ Len(d1) = Len(d) + 1
        /\ \A i \in 1..Len(d) : d1[i] = d[i] /\ i \in 1..Len(d1)
        /\ d1[Len(d1)] = c /\ Len(d1) \in 1..Len(d1)
        /\ \A i \in 1..Len(d1) : i \in 1..Len(d) \/ i = Len(d1)
    BY AppendFacts
  <1>2. Told(d1, s, c.key, c.value)
    <2>1. \A m \in 1..Len(d1) : ~(m > Len(d1))
      BY <1>1
    <2> QED BY <1>1, <2>1 DEF Told
  <1>3. ASSUME NEW k \in Keys, NEW v, k # c.key, Told(d, s, k, v) PROVE Told(d1, s, k, v)
    <2>1. CASE \E n \in 1..Len(d) : d[n].key = k /\ d[n].value = v /\ \A m \in 1..Len(d) : m > n => d[m].key # k
      <3>1. PICK n \in 1..Len(d) : d[n].key = k /\ d[n].value = v /\ \A m \in 1..Len(d) : m > n => d[m].key # k
        BY <2>1
      <3>2. \A m \in 1..Len(d1) : m > n => d1[m].key # k
        BY <1>1, <1>3, <3>1
      <3>3. n \in 1..Len(d1) /\ d1[n] = d[n]
        BY <1>1
      <3> QED BY <3>1, <3>2, <3>3 DEF Told
    <2>2. CASE s[k] = v /\ ~Carries(d, k)
      <3>1. ~Carries(d1, k)
        BY <1>1, <1>3, <2>2 DEF Carries
      <3> QED BY <2>2, <3>1 DEF Told
    <2> QED BY <1>3, <2>1, <2>2 DEF Told
  <1> QED BY <1>1, <1>2, <1>3

\* The call at the top passes a notice on, and nobody else does.
LEMMA PassFacts ==
    ASSUME Base, NEW a \in Nat, NEW f, Len(stack) = a + 1, stack[a + 1] = f, f.pc = "pass"
    PROVE  /\ \A n \in 1..a : stack[n].pc \notin Tops
           /\ \A k : Passing(stack, k) => f.c.key = k
           /\ \A n \in 1..Len(stack) : n \in 1..a \/ n = a + 1
  <1>1. Shape(stack) /\ stack \in Seq(FrameRec)
    BY DEF Base, Types
  <1>2. \A n \in 1..a : n \in 1..Len(stack) /\ n # Len(stack)
    OBVIOUS
  <1>3. \A n \in 1..a : stack[n].pc \notin Tops
    BY <1>1, <1>2 DEF Shape
  <1>4. \A n \in 1..Len(stack) : n \in 1..a \/ n = a + 1
    OBVIOUS
  <1>5. \A k : Passing(stack, k) => f.c.key = k
    BY <1>3, <1>4 DEF Passing, Tops
  <1> QED BY <1>3, <1>4, <1>5

LEMMA pass_tellsStep ==
    ASSUME ReplicaInv, pass_tells
    PROVE  ReplicaInv'
  <1>0. Base /\ Knows /\ deltas \in Seq(Change) /\ seen \in Contents /\ dropped \in BOOLEAN /\ stack \in Seq(FrameRec) /\ Shape(stack)
    BY DEF ReplicaInv, Knows, Base, Types
  <1>1. StillThere /\ dropped' = dropped /\ At("pass") /\ Top.todo = << >>
    BY DEF pass_tells, Outside, StillThere
  <1>2. PICK a \in Nat : a = Len(stack) - 1 /\ Keeps(stack, Pop, a) /\ Len(Pop) = a
    BY <1>0, <1>1, AtFacts
  <1>3. PICK f \in FrameRec : f = Top /\ f.pc = "pass" /\ FrameOK(f, order)
    BY <1>0, <1>1, AtFacts
  <1>4. Len(stack) = a + 1 /\ stack[a + 1] = f
    <2>1. Len(stack) \in Nat /\ Top = stack[Len(stack)]
      BY <1>0, <1>1, AtFacts
    <2>2. Len(stack) = a + 1
      BY <1>2, <2>1
    <2> QED BY <1>3, <2>1, <2>2
  <1>5. /\ \A n \in 1..a : stack[n].pc \notin Tops
        /\ \A k : Passing(stack, k) => f.c.key = k
        /\ \A n \in 1..Len(stack) : n \in 1..a \/ n = a + 1
    BY <1>0, <1>3, <1>4, PassFacts
  <1>6. PICK c \in Change : c = f.c
    <2>1. f.pc \in Notice
      BY <1>3 DEF Notice
    <2> QED BY <2>1, FieldsOf
  <1>7. c.key \in Keys /\ c.value \in Values \cup {Null}
    BY DEF Change
  <1>8. ~dropped => Settled(c.key, c.value)
    BY <1>0, <1>1, <1>3, <1>6, PassedToAll
  <1>9. \A i \in Gens \ Remote : gen[i].conn = "ok"
    BY <1>0 DEF Base, GenOK
  <1>10. SUFFICES ASSUME Keeps(stack, stack', a), \A n \in 1..Len(stack') : n > a => stack'[n].pc \in {"delivered", "told"},
                         Shape(stack'), deltas' \in Seq(Change), seen' \in Contents,
                         deltas' # << >> => Has(stack', {"replicate", "flush", "crashed"}),
                         Told(deltas', seen', c.key, c.value),
                         \A k \in Keys : \A v : k # c.key /\ Told(deltas, seen, k, v) => Told(deltas', seen', k, v)
                  PROVE  ReplicaInv'
    <2>1. CASE Held
      <3>1. deltas' = Append(deltas, c) /\ stack' = Pop /\ seen' = seen
        BY <1>3, <1>6, <2>1 DEF pass_tells
      <3>2. Keeps(stack, stack', a) /\ Len(stack') = a
        BY <1>2, <3>1
      <3>3. \A n \in 1..Len(stack') : ~(n > a)
        BY <3>2
      <3>4. Shape(stack')
        BY <1>0, <3>2, ShapePop
      <3>5. Has(stack', {"replicate", "flush", "crashed"})
        <4>1. PICK n \in 1..Len(stack) : stack[n].pc \in {"replicate", "flush"}
          BY <1>0, <2>1 DEF Held, OnStack
        <4>2. n \in 1..a
          BY <1>3, <1>4, <1>5, <4>1
        <4>3. n \in 1..Len(stack') /\ stack'[n] = stack[n]
          BY <3>2, <4>2 DEF Keeps
        <4> QED BY <4>1, <4>3 DEF Has
      <3>6. PICK d1 : d1 = deltas'
        OBVIOUS
      <3>7. /\ d1 \in Seq(Change) /\ Told(d1, seen, c.key, c.value)
            /\ \A k \in Keys : \A v : k # c.key /\ Told(deltas, seen, k, v) => Told(d1, seen, k, v)
        BY <1>0, <3>1, <3>6, ToldHeld
      <3> QED BY <1>0, <1>10, <3>1, <3>2, <3>3, <3>4, <3>5, <3>6, <3>7
    <2>2. CASE ~Held
      <3>1. /\ seen' = [seen EXCEPT ![c.key] = c.value] /\ deltas' = deltas
            /\ stack' = Becomes([Top EXCEPT !.pc = "delivered"]) \o <<Telling(c)>>
        BY <1>3, <1>6, <2>2 DEF pass_tells
      <3>2. \A n \in 1..Len(stack) : stack[n].pc \notin {"replicate", "flush"}
        BY <1>0, <2>2 DEF Held, OnStack
      <3>3. deltas = << >>
        <4>1. SUFFICES ASSUME deltas # << >> PROVE FALSE
          OBVIOUS
        <4>2. PICK n \in 1..Len(stack) : stack[n].pc \in {"replicate", "flush", "crashed"}
          BY <1>0, <4>1 DEF Base, Has
        <4>3. stack[n].pc = "crashed"
          BY <3>2, <4>2
        <4> QED BY <1>3, <1>4, <1>5, <4>3 DEF Tops
      <3>4. PICK h : h = [f EXCEPT !.pc = "delivered"]
        OBVIOUS
      <3>5. h \in FrameRec /\ h.pc = "delivered"
        BY <1>3, <3>4, DeliveredFrame
      <3>6. PICK t \in FrameRec : t = Telling(c) /\ t.pc = "told"
        <4>1. << >> \in Seq(Gens) /\ << >> \in Seq(Change)
          OBVIOUS
        <4>2. PICK t : t = Telling(c)
          OBVIOUS
        <4>3. t = [pc |-> "told", c |-> c, src |-> None, first |-> None, todo |-> << >>, items |-> << >>]
          BY <4>2 DEF Telling, Frame
        <4>4. "told" \in Pcs /\ "told" \notin Notice
          BY DEF Pcs, Notice
        <4>5. t \in RawFrame /\ t.pc = "told" /\ t.c = c
          BY <4>1, <4>3, <4>4 DEF RawFrame
        <4> QED BY <4>2, <4>4, <4>5, FrameRecFacts
      <3>7. PICK p : p = Append(Pop, h)
        OBVIOUS
      <3>8. Pushed(stack, p, a, h)
        BY <1>2, <3>5, <3>7, AppendKeeps
      <3>9. p \in Seq(FrameRec) /\ Keeps(stack, p, a) /\ Len(p) = a + 1 /\ p[a + 1] = h
        BY <3>8 DEF Pushed, Keeps
      <3>10. stack' = Append(p, t)
        <4>1. stack' = p \o <<t>>
          BY <1>3, <3>1, <3>4, <3>6, <3>7 DEF Becomes
        <4>2. <<t>> \in Seq(FrameRec)
          BY <3>6
        <4> QED BY <3>9, <4>1, <4>2
      <3>11. PICK r : r = stack'
        OBVIOUS
      <3>12. /\ r \in Seq(FrameRec) /\ Len(p) \in Nat /\ Len(r) = Len(p) + 1
             /\ \A n \in 1..Len(p) : r[n] = p[n] /\ n \in 1..Len(r)
             /\ r[Len(r)] = t /\ Len(r) \in 1..Len(r)
             /\ \A n \in 1..Len(r) : n \in 1..Len(p) \/ n = Len(r)
        BY <3>6, <3>9, <3>10, <3>11, AppendFacts
      <3>13. Len(r) = a + 2 /\ r[a + 2] = t /\ r[a + 1] = h
        BY <3>9, <3>12
      <3>14. Keeps(stack, r, a)
        BY <3>9, <3>12 DEF Keeps
      <3>15. \A n \in 1..Len(r) : n > a => n = a + 1 \/ n = a + 2
        BY <3>13
      <3>16. \A n \in 1..Len(r) : n > a => r[n].pc \in {"delivered", "told"}
        BY <3>5, <3>6, <3>13, <3>15
      <3>17. Shape(r)
        <4>1. \A n \in 1..a : stack[n].pc # "replicate"
          BY <1>4, <3>2
        <4> QED BY <1>0, <1>3, <1>4, <3>5, <3>6, <3>13, <3>14, <4>1, ShapeTold
      <3>18. seen' \in Contents /\ seen'[c.key] = c.value /\ \A k \in Keys : k # c.key => seen'[k] = seen[k]
        BY <1>0, <1>7, <3>1 DEF Contents
      <3>19. \A k : ~Carries(deltas', k) /\ ~Carries(deltas, k)
        BY <3>1, <3>3 DEF Carries
      <3>20. Told(deltas', seen', c.key, c.value)
        BY <3>18, <3>19 DEF Told
      <3>21. ASSUME NEW k \in Keys, NEW v, k # c.key, Told(deltas, seen, k, v) PROVE Told(deltas', seen', k, v)
        BY <3>1, <3>18, <3>19, <3>21 DEF Told
      <3>22. deltas' \in Seq(Change) /\ deltas' = << >>
        BY <1>0, <3>1, <3>3
      <3> QED BY <1>10, <3>11, <3>14, <3>16, <3>17, <3>18, <3>20, <3>21, <3>22
    <2> QED BY <2>1, <2>2
  <1>11. \A n \in 1..Len(stack') : n \in 1..a \/ n > a
    BY <1>10 DEF Keeps
  <1>12. Base'
    <2>1. stack' \in Seq(FrameRec)
      BY <1>10 DEF Keeps
    <2>2. \A n \in 1..a : FrameOK(stack'[n], order)
      BY <1>0, <1>10, KeptFrames
    <2>3. \A n \in 1..Len(stack') : n > a => FrameOK(stack'[n], order)
      BY <1>10 DEF FrameOK
    <2>4. \A n \in 1..Len(stack') : FrameOK(stack'[n], order)
      BY <1>11, <2>2, <2>3
    <2>5. dropped' \in BOOLEAN
      BY <1>0, <1>1
    <2> QED BY <1>0, <1>1, <1>10, <2>1, <2>4, <2>5, StillBase
  <1>13. SameReplicates(stack, stack')
    BY <1>10, <1>11 DEF SameReplicates, Keeps
  <1>14. ~dropped => SourcedAll(gen, stack', unseen)
    <2>1. ~Doomed(stack)
      BY <1>3, <1>4 DEF Doomed
    <2>2. ~dropped => SourcedAll(gen, stack, unseen)
      BY <1>0, <2>1 DEF Knows
    <2>3. \A n \in 1..Len(stack') : n > a => stack'[n].pc \notin {"delta", "pass"}
      BY <1>10
    <2> QED BY <1>10, <2>2, <2>3, SourcedBelow
  <1>15. \A n \in 1..Len(stack') : stack'[n].pc # "pass"
    BY <1>5, <1>10, <1>11 DEF Tops, Keeps
  <1>16. PassedAll(order, gen, stack', unseen)
    BY <1>15 DEF PassedAll
  <1>17. Knows'
    BY <1>0, <1>1, <1>12, <1>13, <1>14, <1>16, StillKnows
  <1>18. Done(stack, stack', c)
    <2>1. ASSUME NEW k \in Keys PROVE (k # c.key /\ ~Passing(stack', k) => ~Passing(stack, k)) /\ (Waits(stack, k) => Waits(stack', k))
      <3>1. Waits(stack, k) => Waits(stack', k)
        BY <1>3, <1>4, <1>5, <1>10 DEF Waits, Keeps
      <3> QED BY <1>5, <1>6, <3>1
    <2>2. ASSUME NEW n \in 1..Len(stack'), stack'[n].pc = "replicate"
          PROVE  /\ n \in 1..Len(stack) /\ stack[n] = stack'[n] /\ stack'[n].first \in Gens \cup {None}
                 /\ stack'[n].first # None => On(order, stack'[n].first)
      <3>1. n \in 1..Len(stack) /\ stack[n] = stack'[n]
        BY <1>13, <2>2 DEF SameReplicates
      <3>2. stack[n] \in FrameRec /\ FrameOK(stack[n], order)
        BY <1>0, <3>1 DEF Base
      <3>3. stack[n].first \in Gens \cup {None}
        BY <3>2, FieldsOf
      <3> QED BY <2>2, <3>1, <3>2, <3>3 DEF FrameOK
    <2>3. Has(stack, Replicating) => Has(stack', Replicating)
      <3>1. \A n \in 1..Len(stack) : n > a => stack[n].pc \notin Replicating
        BY <1>3, <1>4, <1>5 DEF Replicating
      <3> QED BY <1>10, <3>1, HasKept
    <2> QED BY <2>1, <2>2, <2>3 DEF Done
  <1>19. Agrees'
    <2>1. SUFFICES ASSUME ~dropped, ~unseen, AgreeAll(order, gen, stack) PROVE AgreeAll(order, gen, stack')
      BY <1>1 DEF ReplicaInv, Agrees, StillThere
    <2> QED BY <1>7, <1>8, <1>18, <2>1, DoneAgrees
  <1>20. Watched'
    <2>1. SUFFICES ASSUME ~dropped, ~lost, WatchAll(order, gen, stack, deltas, seen) PROVE WatchAll(order, gen, stack', deltas', seen')
      BY <1>1 DEF ReplicaInv, Watched, StillThere
    <2> QED BY <1>7, <1>8, <1>9, <1>10, <1>18, <2>1, DoneWatched
  <1> QED BY <1>17, <1>19, <1>20 DEF ReplicaInv

\* What passing a notice c on to generator j does to it: x becomes y, and the notices q
\* that come back are ignored.
PassesTo(j, src, c, x, y, q) ==
    /\ HandsOver(j, x, y, q)
    /\ j # src /\ y.conn = "ok" => y.val[c.key] = c.value
    /\ j = src => Looked(x, y)

LEMMA PassOnFacts ==
    ASSUME Base, NEW j \in Gens, On(order, j), NEW src, NEW c \in Change, NEW arrived \in BOOLEAN, NEW t, t = GenIsOk(gen[j], j),
           NEW y, y = IF t.was_ok /\ j # src THEN Put(t, j, c, arrived) ELSE t,
           NEW q, q = IF t.was_ok /\ j # src THEN Notices(t, j, c, arrived) ELSE << >>
    PROVE  PassesTo(j, src, c, gen[j], y, q)
  <1>1. /\ gen[j] \in Generator /\ GenOK(j, gen[j], order, up[j], now) /\ Attempts(gen[j], now)
        /\ now \in Nat /\ up[j] \in BOOLEAN
    BY GenFacts
  <1>2. Looked(gen[j], t) /\ Attempts(t, now) /\ t.was_ok = (t.conn = "ok")
    BY <1>1, GenIsOkFacts
  <1>3. CASE t.was_ok /\ j # src
    <2>1. t.conn = "ok" /\ y = Put(t, j, c, arrived) /\ q = Notices(t, j, c, arrived)
      BY <1>2, <1>3
    <2>2. HandsOver(j, gen[j], y, q) /\ y.val[c.key] = c.value
      BY <1>1, <1>2, <2>1, PutHands
    <2> QED BY <1>3, <2>2 DEF PassesTo
  <1>4. CASE ~(t.was_ok /\ j # src)
    <2>1. y = t /\ q = << >>
      BY <1>4
    <2>2. GenOK(j, y, order, up[j], now)
      BY <1>1, <1>2, <2>1, GenOKLooked
    <2>3. \A k \in Keys : MovesAt(j, order, gen[j], y, q, k)
      BY <1>2, <2>1, LookedMoves
    <2>4. << >> \in Seq(Change) /\ Leaves(y, << >>)
      BY NothingLeft
    <2>5. HandsOver(j, gen[j], y, q)
      BY <1>2, <2>1, <2>2, <2>3, <2>4 DEF HandsOver, Looked
    <2>6. j # src => y.conn # "ok"
      BY <1>2, <1>4, <2>1
    <2> QED BY <1>2, <2>1, <2>5, <2>6 DEF PassesTo
  <1> QED BY <1>3, <1>4

\* Notices that wait below one that is passed on come from the same generator.
LEMMA SameSource ==
    ASSUME NEW st \in Seq(FrameRec), Shape(st), NEW a \in Nat, Len(st) = a + 1, st[a + 1].pc = "pass"
    PROVE  /\ \A n \in 1..a : st[n].pc = "delta" => st[n].src = st[a + 1].src
           /\ \A n \in 1..a : st[n].pc = "replicate" /\ st[n].src = st[n].first => st[n].first = st[a + 1].src
           /\ \A n \in 1..a : st[n].pc \notin Tops
  <1>1. a + 1 \in 1..Len(st) /\ \A n \in 1..a : n \in 1..Len(st) /\ n < a + 1 /\ n # Len(st)
    OBVIOUS
  <1>2. \A n \in 1..a : Above(st[n], st[a + 1]) /\ st[n].pc \notin Tops
    BY <1>1 DEF Shape
  <1>3. \A n \in 1..a : st[n].pc # "delivered"
    BY <1>2 DEF Above
  <1>4. ASSUME NEW n \in 1..a, st[n].pc = "delta" PROVE st[n].src = st[a + 1].src
    <2>1. \/ st[a + 1].src = st[n].src
          \/ \E l \in 1..(a + 1) : l > n /\ st[l].pc = "delivered"
      BY <1>1, <1>4 DEF Shape
    <2>2. \A l \in 1..(a + 1) : st[l].pc # "delivered"
      <3>1. \A l \in 1..(a + 1) : l \in 1..a \/ l = a + 1
        OBVIOUS
      <3> QED BY <1>3, <3>1
    <2> QED BY <2>1, <2>2
  <1>5. ASSUME NEW n \in 1..a, st[n].pc = "replicate", st[n].src = st[n].first PROVE st[n].first = st[a + 1].src
    BY <1>2, <1>5 DEF Above
  <1> QED BY <1>2, <1>4, <1>5

LEMMA pass_onStep ==
    ASSUME ReplicaInv, pass_on
    PROVE  ReplicaInv'
  <1>0. Base /\ Knows /\ Types /\ stack \in Seq(FrameRec) /\ Shape(stack) /\ order \in Seq(Gens) /\ dropped \in BOOLEAN
    BY DEF ReplicaInv, Knows, Base, Types
  <1>1. /\ order' = order /\ up' = up /\ now' = now /\ budget' = budget /\ lost' = lost /\ deltas' = deltas /\ seen' = seen
        /\ unseen' = (unseen \/ Unnoticed) /\ At("pass") /\ Top.todo # << >>
        /\ stack' = Becomes([Top EXCEPT !.todo = Tail(@)])
    BY DEF pass_on, Inside, Outside
  <1>2. PICK a \in Nat : a = Len(stack) - 1 /\ Keeps(stack, Pop, a) /\ Len(Pop) = a
    BY <1>0, <1>1, AtFacts
  <1>3. PICK f \in FrameRec : f = Top /\ f.pc = "pass" /\ FrameOK(f, order)
    BY <1>0, <1>1, AtFacts
  <1>4. Len(stack) = a + 1 /\ stack[a + 1] = f
    <2>1. Len(stack) \in Nat /\ Top = stack[Len(stack)]
      BY <1>0, <1>1, AtFacts
    <2>2. Len(stack) = a + 1
      BY <1>2, <2>1
    <2> QED BY <1>3, <2>1, <2>2
  <1>5. /\ \A n \in 1..a : stack[n].pc = "delta" => stack[n].src = f.src
        /\ \A n \in 1..a : stack[n].pc = "replicate" /\ stack[n].src = stack[n].first => stack[n].first = f.src
        /\ \A n \in 1..a : stack[n].pc \notin Tops
    BY <1>0, <1>3, <1>4, SameSource
  <1>6. f.c \in Change /\ f.src \in Gens /\ f.c.key \in Keys /\ f.todo \in Seq(Gens) /\ On(order, f.src)
    <2>1. f.pc \in Notice
      BY <1>3 DEF Notice
    <2>2. f.c \in Change /\ f.src \in Gens /\ f.c.key \in Keys /\ f.todo \in Seq(Gens)
      BY <2>1, FieldsOf
    <2> QED BY <1>3, <2>2 DEF FrameOK
  <1>7. PICK td, j : td = Tail(f.todo) /\ j = Head(f.todo)
    OBVIOUS
  <1>8. PICK q0 : q0 = f.todo
    OBVIOUS
  <1>9. /\ td \in Seq(Gens) /\ j \in Gens /\ j = q0[1] /\ Len(q0) \in Nat /\ 1 \in 1..Len(q0)
        /\ \A n \in 1..Len(td) : td[n] = q0[n + 1] /\ n + 1 \in 1..Len(q0)
        /\ \A n \in 1..Len(q0) : n = 1 \/ (n - 1 \in 1..Len(td) /\ td[n - 1] = q0[n])
    <2>1. q0 \in Seq(Gens) /\ q0 # << >> /\ td = Tail(q0) /\ j = Head(q0)
      BY <1>1, <1>3, <1>6, <1>7, <1>8
    <2> QED BY <2>1, TailFacts
  <1>10. On(order, j) /\ \A n \in 1..Len(td) : On(order, td[n])
    BY <1>3, <1>8, <1>9 DEF FrameOK
  <1>11. \A i : On(f.todo, i) => i = j \/ On(td, i)
    <2>1. SUFFICES ASSUME NEW i, On(f.todo, i), i # j PROVE On(td, i)
      OBVIOUS
    <2>2. PICK n \in 1..Len(q0) : q0[n] = i
      BY <1>8, <2>1 DEF On
    <2>3. n - 1 \in 1..Len(td) /\ td[n - 1] = i
      BY <1>9, <2>1, <2>2
    <2> QED BY <2>3 DEF On
  <1>12. PICK y, q :
            /\ gen' = [gen EXCEPT ![j] = y] /\ PassesTo(j, f.src, f.c, gen[j], y, q)
            /\ dropped' = (dropped \/ \E n \in DOMAIN q : q[n] # f.c)
    <2>1. PICK t : t = GenIsOk(gen[j], j)
      OBVIOUS
    <2>2. PICK arrived \in BOOLEAN :
             LET sets == t.was_ok /\ j # f.src
             IN  /\ gen' = [gen EXCEPT ![j] = IF sets THEN Put(t, j, f.c, arrived) ELSE t]
                 /\ Ignores(IF sets THEN Notices(t, j, f.c, arrived) ELSE << >>)
      BY <1>3, <1>7, <2>1 DEF pass_on
    <2>3. PICK y, q : /\ y = IF t.was_ok /\ j # f.src THEN Put(t, j, f.c, arrived) ELSE t
                      /\ q = IF t.was_ok /\ j # f.src THEN Notices(t, j, f.c, arrived) ELSE << >>
      OBVIOUS
    <2>4. PassesTo(j, f.src, f.c, gen[j], y, q)
      BY <1>0, <1>6, <1>9, <1>10, <2>1, <2>3, PassOnFacts
    <2>5. gen' = [gen EXCEPT ![j] = y] /\ Ignores(q)
      BY <2>2, <2>3
    <2> QED BY <1>3, <2>4, <2>5 DEF Ignores
  <1>13. OneHandsOver(j, q) /\ gen'[j] = y /\ \A i \in Gens : i # j => gen'[i] = gen[i]
    <2>1. gen \in [Gens -> Generator] /\ \A i \in Gens : Looked(gen[i], gen[i]) /\ Attempts(gen[i], now)
      BY <1>0, <1>9, GenFacts
    <2>2. OneHandsOver(j, q)
      BY <1>9, <1>12, <2>1, OneChanges DEF PassesTo
    <2> QED BY <1>9, <1>12, <2>1, <2>2
  <1>14. Looked(gen[f.src], gen'[f.src])
    <2>1. CASE j = f.src
      BY <1>12, <1>13, <2>1 DEF PassesTo
    <2>2. CASE j # f.src
      BY <1>0, <1>6, <1>13, <2>2, GenFacts
    <2> QED BY <2>1, <2>2
  <1>15. ASSUME NEW i \in Gens
         PROVE  /\ GenOK(i, gen'[i], order', up'[i], now') /\ (gen[i].conn = "ok" => gen'[i].conn = "ok")
                /\ gen[i].conn = "broken" => gen'[i].conn # "ok"
    <2>1. CASE i # j
      <3>1. gen'[i] = gen[i] /\ GenOK(i, gen[i], order, up[i], now)
        BY <1>0, <1>13, <2>1, GenFacts
      <3>2. gen[i].conn = "broken" => gen[i].conn # "ok"
        OBVIOUS
      <3> QED BY <1>1, <3>1, <3>2
    <2>2. CASE i = j
      BY <1>1, <1>12, <1>13, <2>2 DEF PassesTo, HandsOver
    <2> QED BY <2>1, <2>2
  <1>16. PICK h : h = [f EXCEPT !.todo = td]
    OBVIOUS
  <1>17. h \in FrameRec /\ h.pc = "pass" /\ h.c = f.c /\ h.src = f.src /\ h.todo = td
    <2>1. Passes(f, td, h)
      BY <1>3, <1>16 DEF Passes
    <2> QED BY <1>3, <1>9, <2>1, PassFrame
  <1>18. Pushed(stack, stack', a, h)
    <2>1. stack' = Append(Pop, h)
      BY <1>1, <1>3, <1>7, <1>16 DEF Becomes
    <2> QED BY <1>2, <1>17, <2>1, AppendKeeps
  <1>19. Keeps(stack, stack', a) /\ Len(stack') = a + 1 /\ stack'[a + 1] = h /\ a + 1 \in 1..(a + 1)
    BY <1>18 DEF Pushed
  <1>20. \A n \in 1..(a + 1) : n \in 1..a \/ n = a + 1
    BY <1>2
  <1>21. Shape(stack')
    <2>1. stack[a + 1].pc \in {"delta", "pass"} /\ stack'[a + 1].pc = "pass" /\ stack'[a + 1].src = stack[a + 1].src
      BY <1>3, <1>4, <1>17, <1>19
    <2>2. stack[a + 1].pc # "delta"
      BY <1>3, <1>4
    <2> QED BY <1>0, <1>4, <1>19, <2>1, <2>2, ShapePass
  <1>22. \A n \in 1..Len(stack') : FrameOK(stack'[n], order)
    <2>1. FrameOK(h, order)
      BY <1>3, <1>6, <1>10, <1>17 DEF FrameOK
    <2>2. \A n \in 1..a : FrameOK(stack'[n], order)
      BY <1>0, <1>19, KeptFrames
    <2> QED BY <1>19, <1>20, <2>1, <2>2
  <1>23. Types' /\ dropped' \in BOOLEAN
    <2>1. stack' \in Seq(FrameRec) /\ gen' \in [Gens -> Generator]
      BY <1>13, <1>19 DEF Keeps, OneHandsOver
    <2>2. unseen' \in BOOLEAN /\ dropped' \in BOOLEAN
      BY <1>1, <1>12
    <2> QED BY <1>0, <1>1, <2>1, <2>2 DEF Types
  <1>24. \A n \in 1..Len(stack) : n > a => stack[n].pc = "pass"
    BY <1>3, <1>4, <1>20
  <1>25. Base'
    <2>1. \A n \in 1..Len(stack) : n > a => stack[n].pc \notin {"replicate", "flush", "crashed"}
      BY <1>24
    <2>2. deltas' # << >> => Has(stack', {"replicate", "flush", "crashed"})
      BY <1>0, <1>1, <1>19, <2>1, HasKept DEF Base
    <2>3. Distinct(order')
      BY <1>0, <1>1 DEF Base
    <2> QED BY <1>1, <1>15, <1>21, <1>22, <1>23, <2>2, <2>3 DEF Base
  <1>26. Noticed
    BY <1>0, <1>1, <1>15, <1>23, InsideNoticed
  <1>27. ~unseen' => NoneBack(order, gen, gen')
    <2>1. ~At("begin")
      BY <1>3 DEF At
    <2>2. ~Has(stack', {"begin"})
      BY <1>5, <1>17, <1>19, <1>20 DEF Has, Keeps, Tops
    <2> QED BY <1>26, <2>1, <2>2 DEF Noticed
  <1>28. \A i \in Gens : On(order, i) => StaysSteady(gen, unseen, gen', unseen', i)
    <2>1. unseen => unseen'
      BY <1>26 DEF Noticed
    <2> QED BY <1>0, <1>27, <2>1, SteadyBefore DEF NoneBack
  <1>29. SameReplicates(stack, stack')
    BY <1>17, <1>19, <1>20 DEF SameReplicates, Keeps
  <1>30. ~dropped' => SourcedAll(gen', stack', unseen')
    <2>1. SUFFICES ASSUME ~dropped', NEW n \in 1..Len(stack'), stack'[n].pc \in {"delta", "pass"}
                   PROVE  Sourced(gen', stack', unseen', n, stack'[n].src, stack'[n].c)
      BY DEF SourcedAll
    <2>2. ~Doomed(stack)
      BY <1>3, <1>4 DEF Doomed
    <2>3. SourcedAll(gen, stack, unseen)
      BY <1>0, <1>12, <2>1, <2>2 DEF Knows
    <2>4. n \in 1..Len(stack) /\ stack[n].pc \in {"delta", "pass"} /\ stack'[n].src = stack[n].src /\ stack'[n].c = stack[n].c
      BY <1>3, <1>4, <1>17, <1>19, <1>20, <2>1 DEF Keeps
    <2>5. stack[n].src = f.src
      BY <1>4, <1>5, <1>19, <1>20, <2>1, <2>4 DEF Tops
    <2>6. Sourced(gen, stack, unseen, n, f.src, stack[n].c)
      BY <2>3, <2>4, <2>5 DEF SourcedAll
    <2>7. \A m \in 1..(n - 1) : stack'[m] = stack[m]
      BY <1>2, <1>19, <2>1 DEF Keeps
    <2>8. gen'[f.src].val = gen[f.src].val /\ gen'[f.src].inbox = gen[f.src].inbox
      BY <1>14 DEF Looked
    <2>9. StaysSteady(gen, unseen, gen', unseen', f.src)
      BY <1>6, <1>28
    <2>10. Later(gen[f.src], stack, n, f.src, stack[n].c.key) => Later(gen'[f.src], stack', n, f.src, stack[n].c.key)
      BY <2>7, <2>8 DEF Later
    <2> QED BY <2>4, <2>5, <2>6, <2>8, <2>9, <2>10 DEF Sourced, StaysSteady
  <1>31. ~dropped' => PassedAll(order, gen', stack', unseen')
    <2>1. SUFFICES ASSUME ~dropped', NEW n \in 1..Len(stack'), stack'[n].pc = "pass", NEW i \in Gens, On(order, i),
                          ~On(stack'[n].todo, i), i # stack'[n].src
                   PROVE  Reached(gen'[i], unseen', i, stack'[n].c)
      BY DEF PassedAll
    <2>2. n = a + 1 /\ stack'[n] = h
      BY <1>5, <1>19, <1>20, <2>1 DEF Tops, Keeps
    <2>3. CASE i = j
      BY <1>12, <1>13, <1>17, <2>1, <2>2, <2>3 DEF PassesTo, Reached, Steady
    <2>4. CASE i # j
      <3>1. ~On(f.todo, i) /\ i # f.src
        BY <1>11, <1>17, <2>1, <2>2, <2>4
      <3>2. PassedAll(order, gen, stack, unseen)
        BY <1>0, <1>12, <2>1 DEF Knows
      <3>3. Reached(gen[i], unseen, i, f.c)
        BY <1>3, <1>4, <1>19, <2>1, <3>1, <3>2 DEF PassedAll
      <3>4. StaysSteady(gen, unseen, gen', unseen', i) /\ gen'[i] = gen[i]
        BY <1>13, <1>28, <2>1, <2>4
      <3> QED BY <1>17, <2>2, <3>3, <3>4 DEF Reached, StaysSteady
    <2> QED BY <2>3, <2>4
  <1>32. ListedAll(gen', stack', unseen')
    <2>1. SUFFICES ASSUME NEW n \in 1..Len(stack'), stack'[n].pc = "replicate", stack'[n].src = stack'[n].first,
                          NEW m \in 1..Len(stack'[n].items)
                   PROVE  Reached(gen'[stack'[n].first], unseen', stack'[n].first, stack'[n].items[m])
      BY DEF ListedAll
    <2>2. n \in 1..a /\ n \in 1..Len(stack) /\ stack'[n] = stack[n]
      BY <1>17, <1>19, <1>20, <2>1 DEF Keeps
    <2>3. stack[n].first = f.src
      BY <1>5, <2>1, <2>2
    <2>4. Reached(gen[f.src], unseen, f.src, stack[n].items[m])
      BY <1>0, <2>1, <2>2, <2>3 DEF Knows, ListedAll
    <2>5. gen'[f.src].val = gen[f.src].val /\ gen'[f.src].inbox = gen[f.src].inbox /\ StaysSteady(gen, unseen, gen', unseen', f.src)
      BY <1>6, <1>14, <1>28 DEF Looked
    <2>6. Reached(gen'[f.src], unseen', f.src, stack[n].items[m])
      BY <2>4, <2>5 DEF Reached, StaysSteady
    <2> QED BY <2>2, <2>3, <2>6
  <1>33. Stays(order, stack, stack')
    BY <1>22, <1>29 DEF Stays, SameReplicates
  <1>34. \A n \in 1..Len(stack') : stack'[n].pc = "replicate" => stack'[n].first \in Gens \cup {None}
    <2>1. stack' \in Seq(FrameRec)
      BY <1>19 DEF Keeps
    <2>2. \A n \in 1..Len(stack') : stack'[n] \in FrameRec
      BY <2>1
    <2> QED BY <2>2, FieldsOf
  <1>35. ~lost => FirstHeld(gen', stack')
    BY <1>0, <1>15, <1>33, <1>34, FirstHeldKept DEF Knows
  <1>36. LeadsAll(order, stack', Gens \ Remote)
    BY <1>0, <1>29, ReplicatesKept DEF Knows
  <1>37. ~unseen' => LeadsAll(order, stack', Connected(gen')) /\ UnlistedAll(stack')
    <2>1. SUFFICES ASSUME ~unseen' PROVE LeadsAll(order, stack', Connected(gen')) /\ UnlistedAll(stack')
      OBVIOUS
    <2>2. ~unseen
      BY <1>26, <2>1 DEF Noticed
    <2>3. LeadsAll(order, stack, Connected(gen)) /\ UnlistedAll(stack)
      BY <1>0, <2>2 DEF Knows
    <2>4. \A i \in Connected(gen') : On(order, i) => i \in Connected(gen)
      BY <1>27, <2>1 DEF Connected, NoneBack
    <2> QED BY <1>33, <2>3, <2>4, LeadsKept, UnlistedKept
  <1>38. Knows'
    BY <1>1, <1>25, <1>30, <1>31, <1>32, <1>35, <1>36, <1>37 DEF Knows
  <1>39. ~dropped' => Quietly(order, gen, stack, gen', stack')
    <2>1. SUFFICES ASSUME ~dropped', NEW k \in Keys, ~Passing(stack', k)
                   PROVE  ~Passing(stack, k) /\ Mild(order, gen, stack, gen', stack', k)
      BY DEF Quietly
    <2>2. f.c.key # k
      BY <1>17, <1>19, <2>1 DEF Passing
    <2>3. ~Passing(stack, k)
      BY <1>4, <1>5, <1>20, <2>2 DEF Passing, Tops
    <2>4. Waits(stack, k) => Waits(stack', k)
      BY <1>3, <1>4, <1>19, <1>20 DEF Waits, Keeps
    <2>5. ~Carries(q, k)
      <3>1. q \in Seq(Change)
        BY <1>12 DEF PassesTo, HandsOver
      <3>2. \A n \in 1..Len(q) : q[n] = f.c
        <4>1. DOMAIN q = 1..Len(q)
          BY <3>1
        <4>2. ~(\E n \in DOMAIN q : q[n] # f.c)
          BY ONLY <1>12, <2>1, Zenon
        <4> QED BY ONLY <4>1, <4>2, Zenon
      <3> QED BY <2>2, <3>2 DEF Carries
    <2>6. Moved(order, gen, gen', q, k) /\ NoLoss(gen, gen', q, k)
      <3>1. ASSUME NEW i \in Gens PROVE MovesAt(i, order, gen[i], gen'[i], q, k)
        <4>1. CASE i = j
          BY <1>13, <2>1, <4>1 DEF OneHandsOver, HandsOver
        <4>2. CASE i # j
          <5>1. Looked(gen[i], gen'[i])
            BY <1>13, <4>2 DEF OneHandsOver
          <5> QED BY <5>1, LookedMoves
        <4> QED BY <4>1, <4>2
      <3>2. ASSUME NEW i \in Gens PROVE Carries(gen[i].inbox, k) => Carries(q, k) \/ Carries(gen'[i].inbox, k)
        BY <1>13 DEF OneHandsOver, HandsOver, Looked
      <3> QED BY <3>1, <3>2 DEF Moved, NoLoss
    <2>7. Mild(order, gen, stack, gen', stack', k)
      BY <2>4, <2>5, <2>6, MildStep
    <2> QED BY <2>3, <2>7
  <1>40. SameCalls(order, stack, stack')
    <2>1. ASSUME NEW n \in 1..Len(stack'), stack'[n].pc = "replicate"
          PROVE  n \in 1..Len(stack) /\ stack[n] = stack'[n] /\ (stack'[n].first # None => On(order, stack'[n].first))
      BY <1>22, <1>29, <2>1 DEF SameReplicates, FrameOK
    <2>2. \A n \in 1..Len(stack) : n > a => stack[n].pc \notin Replicating
      BY <1>24 DEF Replicating
    <2>3. Has(stack, Replicating) => Has(stack', Replicating)
      BY <1>19, <2>2, HasKept
    <2> QED BY <2>1, <2>3 DEF SameCalls
  <1>41. Agrees'
    <2>1. SUFFICES ASSUME ~dropped', ~unseen', lost => Len(order) <= 2 PROVE AgreeAll(order, gen', stack')
      BY <1>1 DEF Agrees
    <2>2. AgreeAll(order, gen, stack)
      BY <1>12, <1>26, <2>1 DEF ReplicaInv, Agrees, Noticed
    <2> QED BY <1>27, <1>39, <1>40, <2>1, <2>2, AgreeKept
  <1>42. Watched'
    <2>1. SUFFICES ASSUME ~dropped', ~lost PROVE WatchAll(order, gen', stack', deltas, seen)
      BY <1>1 DEF Watched
    <2>2. WatchAll(order, gen, stack, deltas, seen)
      BY <1>12, <2>1 DEF ReplicaInv, Watched
    <2>3. \A i \in Gens \ Remote : gen'[i].conn = "ok"
      BY <1>15 DEF GenOK
    <2>4. \A k \in Keys : \A v : Told(deltas, seen, k, v) => Told(deltas, seen, k, v)
      OBVIOUS
    <2> QED BY <1>34, <1>35, <1>39, <1>40, <2>1, <2>2, <2>3, <2>4, WatchKept
  <1> QED BY <1>38, <1>41, <1>42 DEF ReplicaInv

-----------------------------------------------------------------------------
(* Steps of replicate().                                                   *)

\* The notices q from i are read, and nobody breaks.
GensChange(i, q) ==
    /\ gen' \in [Gens -> Generator] /\ q \in Seq(Change)
    /\ \A j \in Gens : GenOK(j, gen'[j], order, up[j], now)
    /\ \A j \in Gens : (gen[j].conn = "ok" => gen'[j].conn = "ok") /\ (gen[j].conn = "broken" => gen'[j].conn # "ok")
    /\ AllMoved(order, gen, gen', q)
    /\ \A k \in Keys : NoLoss(gen, gen', q, k)
    /\ Steady(gen'[i], unseen', i) => Leaves(gen'[i], q)
    /\ q # << >> => i \in Gens /\ On(order, i)

LEMMA OneGens ==
    ASSUME Base, NEW i \in Gens, NEW q, OneHandsOver(i, q)
    PROVE  GensChange(i, q)
  <1>1. HandsOver(i, gen[i], gen'[i], q) /\ gen' \in [Gens -> Generator]
    BY DEF OneHandsOver
  <1>2. ASSUME NEW j \in Gens
        PROVE  /\ GenOK(j, gen'[j], order, up[j], now) /\ (gen[j].conn = "ok" => gen'[j].conn = "ok")
               /\ gen[j].conn = "broken" => gen'[j].conn # "ok"
    <2>1. CASE j = i
      BY <1>1, <2>1 DEF HandsOver
    <2>2. CASE j # i
      <3>1. Looked(gen[j], gen'[j]) /\ Attempts(gen'[j], now) /\ GenOK(j, gen[j], order, up[j], now)
        BY <2>2, GenFacts DEF OneHandsOver
      <3>2. GenOK(j, gen'[j], order, up[j], now)
        BY <3>1, GenOKLooked
      <3> QED BY <3>1, <3>2 DEF Looked
    <2> QED BY <2>1, <2>2
  <1>3. ASSUME NEW j \in Gens, NEW k \in Keys
        PROVE  MovesAt(j, order, gen[j], gen'[j], q, k) /\ (Carries(gen[j].inbox, k) => Carries(q, k) \/ Carries(gen'[j].inbox, k))
    <2>1. CASE j = i
      BY <1>1, <2>1 DEF HandsOver
    <2>2. CASE j # i
      <3>1. Looked(gen[j], gen'[j])
        BY <2>2 DEF OneHandsOver
      <3>2. MovesAt(j, order, gen[j], gen'[j], q, k)
        BY <3>1, LookedMoves
      <3> QED BY <3>1, <3>2 DEF Looked
    <2> QED BY <2>1, <2>2
  <1>4. AllMoved(order, gen, gen', q) /\ \A k \in Keys : NoLoss(gen, gen', q, k)
    BY <1>3 DEF AllMoved, Moved, NoLoss
  <1>5. q \in Seq(Change) /\ Leaves(gen'[i], q) /\ (q # << >> => On(order, i))
    BY <1>1 DEF HandsOver
  <1> QED BY <1>1, <1>2, <1>4, <1>5 DEF GensChange

LEMMA LookedGens ==
    ASSUME Base, AllLooked, NEW i
    PROVE  GensChange(i, << >>)
  <1>1. ASSUME NEW j \in Gens
        PROVE  /\ GenOK(j, gen'[j], order, up[j], now) /\ (gen[j].conn = "ok" => gen'[j].conn = "ok")
               /\ gen[j].conn = "broken" => gen'[j].conn # "ok"
    <2>1. Looked(gen[j], gen'[j]) /\ Attempts(gen'[j], now) /\ GenOK(j, gen[j], order, up[j], now)
      BY GenFacts DEF AllLooked
    <2>2. GenOK(j, gen'[j], order, up[j], now)
      BY <2>1, GenOKLooked
    <2> QED BY <2>1, <2>2 DEF Looked
  <1>2. PICK q : q = << >>
    OBVIOUS
  <1>3. ASSUME NEW j \in Gens, NEW k \in Keys
        PROVE  MovesAt(j, order, gen[j], gen'[j], q, k) /\ (Carries(gen[j].inbox, k) => Carries(q, k) \/ Carries(gen'[j].inbox, k))
    <2>1. Looked(gen[j], gen'[j])
      BY DEF AllLooked
    <2>2. MovesAt(j, order, gen[j], gen'[j], q, k)
      BY <2>1, LookedMoves
    <2> QED BY <2>1, <2>2 DEF Looked
  <1>4. AllMoved(order, gen, gen', q) /\ \A k \in Keys : NoLoss(gen, gen', q, k)
    BY <1>3 DEF AllMoved, Moved, NoLoss
  <1>5. << >> \in Seq(Change) /\ Leaves(gen'[i], << >>)
    BY NothingLeft
  <1>6. gen' \in [Gens -> Generator]
    BY DEF AllLooked
  <1> QED BY <1>1, <1>2, <1>4, <1>5, <1>6 DEF GensChange

\* The replicate() on top of the a lowest calls becomes f, and the notices q from i
\* are read.
Replicates(a, f, i, q) ==
    /\ a \in Nat /\ Grows(stack, stack', a, a + 1, i, q) /\ stack'[a + 1] = f
    /\ f \in FrameRec /\ f.pc = "replicate" /\ FrameOK(f, order) /\ (f.src = f.first => i = f.first)
    /\ f.src = f.first => \A m \in 1..Len(f.items) : Reached(gen'[f.first], unseen', f.first, f.items[m])
    /\ ~lost /\ f.first # None => gen'[f.first].conn = "ok"
    /\ Leads(order, f, Gens \ Remote)
    /\ ~unseen' => Leads(order, f, Connected(gen')) /\ Unlisted(f)

\* It has compared what it has not yet to compare.
Compares(f) ==
    ~dropped /\ ~unseen' /\ (lost => Len(order) <= 2) /\ f.first \in Connected(gen') /\ ~On(f.todo, f.first) =>
        \A j \in Connected(gen'), k \in Keys : On(order, j) => Compared(order, gen', stack', f, j, k)
Announces(f) ==
    ~dropped /\ ~lost /\ f.first # None =>
        \A j \in Gens \ Remote, k \in Keys : On(order, j) => Announced(gen', stack', deltas, seen, f, j, k)

LEMMA ReplicatesStep ==
    ASSUME ReplicaInv, Around, NEW pc \in {"begin", "replicate"}, At(pc), NEW i, NEW q, GensChange(i, q),
           NEW a, a = Len(stack) - 1, NEW f, Replicates(a, f, i, q), Compares(f), Announces(f)
    PROVE  ReplicaInv'
  <1>0. Base /\ Knows /\ Types /\ stack \in Seq(FrameRec) /\ Shape(stack) /\ order \in Seq(Gens)
    BY DEF ReplicaInv, Knows, Base, Types
  <1>1. /\ order' = order /\ up' = up /\ now' = now /\ dropped' = dropped /\ lost' = lost /\ deltas' = deltas /\ seen' = seen
        /\ budget' \in 0..Budget /\ unseen' = (unseen \/ Unnoticed)
    BY DEF Around
  <1>2. /\ a \in Nat /\ Len(stack) = a + 1 /\ stack[a + 1].pc = pc /\ Calm(stack, a)
    <2>1. Len(stack) \in Nat /\ Len(stack) - 1 \in Nat /\ Top.pc = pc /\ Top = stack[Len(stack)] /\ Calm(stack, Len(stack) - 1)
      BY <1>0, AtFacts
    <2>2. Len(stack) = a + 1
      BY <2>1
    <2> QED BY <2>1, <2>2
  <1>3. /\ Grows(stack, stack', a, a + 1, i, q) /\ Keeps(stack, stack', a) /\ stack'[a + 1] = f /\ f \in FrameRec
        /\ f.pc = "replicate" /\ FrameOK(f, order) /\ q \in Seq(Change) /\ Len(q) \in Nat /\ Len(stack') = a + 1 + Len(q)
    BY DEF Replicates, Grows, GensChange
  <1>4. \A n \in 1..Len(stack') :
           \/ n \in 1..a /\ n \in 1..Len(stack) /\ stack'[n] = stack[n] /\ stack[n].pc \notin Tops /\ stack[n].pc # "replicate"
           \/ n = a + 1 /\ stack'[n] = f
           \/ n > a + 1 /\ stack'[n].pc = "delta" /\ stack'[n].src = i /\ q # << >>
    <2>1. SUFFICES ASSUME NEW n \in 1..Len(stack')
                   PROVE \/ n \in 1..a /\ n \in 1..Len(stack) /\ stack'[n] = stack[n] /\ stack[n].pc \notin Tops /\ stack[n].pc # "replicate"
                         \/ n = a + 1 /\ stack'[n] = f
                         \/ n > a + 1 /\ stack'[n].pc = "delta" /\ stack'[n].src = i /\ q # << >>
      OBVIOUS
    <2>2. CASE n \in 1..a
      BY <1>2, <1>3, <2>2 DEF Keeps, Calm
    <2>3. CASE n = a + 1
      BY <1>3, <2>3
    <2>4. CASE n > a + 1
      <3>1. q # << >>
        BY <1>2, <1>3, <2>1, <2>4
      <3> QED BY <1>3, <2>1, <2>4, <3>1 DEF Grows
    <2> QED BY <1>2, <1>3, <2>1, <2>2, <2>3, <2>4
  <1>5. a + 1 \in 1..Len(stack')
    BY <1>2, <1>3
  <1>6. Shape(stack')
    <2>1. Fresh(stack', a, a + 1, i)
      <3>1. SUFFICES ASSUME NEW n \in 1..Len(stack'), n > a
                     PROVE  \/ n > a + 1 /\ stack'[n].pc = "delta" /\ stack'[n].src = i
                            \/ /\ n <= a + 1 /\ stack'[n].pc \notin Notice /\ (stack'[n].pc \in Tops => n = Len(stack'))
                               /\ stack'[n].pc = "replicate" => n = a + 1 /\ (stack'[n].src = stack'[n].first => i = stack'[n].first)
        BY DEF Fresh
      <3>2. CASE n = a + 1
        BY <1>3, <3>2 DEF Notice, Tops, Replicates
      <3>3. CASE n # a + 1
        BY <1>2, <1>4, <3>1, <3>3
      <3> QED BY <3>2, <3>3
    <2> QED BY <1>0, <1>2, <1>3, <2>1, ShapeGrows
  <1>7. Types'
    <2>1. stack' \in Seq(FrameRec) /\ gen' \in [Gens -> Generator] /\ unseen' \in BOOLEAN
      BY <1>1, <1>3 DEF Keeps, GensChange
    <2> QED BY <1>0, <1>1, <2>1 DEF Types
  <1>8. \A n \in 1..Len(stack') : FrameOK(stack'[n], order)
    <2>1. SUFFICES ASSUME NEW n \in 1..Len(stack') PROVE FrameOK(stack'[n], order)
      OBVIOUS
    <2>2. CASE n \in 1..a
      BY <1>0, <1>3, <2>2, KeptFrames
    <2>3. CASE n = a + 1
      BY <1>3, <2>3
    <2>4. CASE n > a + 1
      <3>1. stack'[n].pc = "delta" /\ stack'[n].src = i /\ q # << >>
        BY <1>2, <1>4, <2>1, <2>4
      <3>2. On(order, i)
        BY <3>1 DEF GensChange
      <3> QED BY <3>1, <3>2 DEF FrameOK
    <2> QED BY <1>2, <1>3, <2>1, <2>2, <2>3, <2>4
  <1>9. Base'
    <2>1. Has(stack', {"replicate", "flush", "crashed"})
      BY <1>3, <1>5 DEF Has
    <2>2. Distinct(order') /\ \A j \in Gens : GenOK(j, gen'[j], order', up'[j], now')
      BY <1>0, <1>1 DEF Base, GensChange
    <2> QED BY <1>1, <1>6, <1>7, <1>8, <2>1, <2>2 DEF Base
  <1>10. Noticed
    BY <1>0, <1>1, <1>7, InsideNoticed DEF GensChange
  <1>11. ~Doomed(stack)
    BY <1>2 DEF Doomed
  <1>12. ~dropped' /\ ~Doomed(stack') => SourcedAll(gen', stack', unseen')
    <2>1. SUFFICES ASSUME ~dropped', ~Doomed(stack') PROVE SourcedAll(gen', stack', unseen')
      OBVIOUS
    <2>2. SourcedAll(gen, stack, unseen)
      BY <1>0, <1>1, <1>11, <2>1 DEF Knows
    <2>3. SteadySources(order, gen, unseen, gen', unseen', stack, a)
      <3>1. SUFFICES ASSUME NEW n \in 1..a, stack[n].pc \in {"delta", "pass"}
                     PROVE  stack[n] \in FrameRec /\ On(order, stack[n].src) /\ StaysSteady(gen, unseen, gen', unseen', stack[n].src)
        BY DEF SteadySources
      <3>2. n \in 1..Len(stack) /\ stack[n].pc = "delta"
        BY <1>2, <3>1 DEF Calm, Tops
      <3>3. stack[n] \in FrameRec /\ FrameOK(stack[n], order)
        BY <1>0, <3>2 DEF Base
      <3>4. On(order, stack[n].src) /\ stack[n].src \in Gens
        <4>1. stack[n].pc \in Notice
          BY <3>2 DEF Notice
        <4> QED BY <3>2, <3>3, <4>1, FieldsOf DEF FrameOK
      <3>5. (unseen => unseen') /\ (~unseen' => (gen'[stack[n].src].conn = "ok" => gen[stack[n].src].conn = "ok"))
        BY <1>10, <3>2, <3>4 DEF Noticed
      <3> QED BY <1>0, <3>3, <3>4, <3>5, SteadyBefore
    <2>4. OnlyCalls(stack', a, a + 1)
      <3>1. \A n \in 1..Len(stack') : n > a /\ n <= a + 1 => n = a + 1
        BY <1>2
      <3> QED BY <1>3, <3>1 DEF OnlyCalls
    <2>5. AllMoved(order, gen, gen', q) /\ (Steady(gen'[i], unseen', i) => Leaves(gen'[i], q))
      BY DEF GensChange
    <2>6. PICK b : b = a + 1
      OBVIOUS
    <2>7. Grows(stack, stack', a, b, i, q) /\ OnlyCalls(stack', a, b)
      BY <1>3, <2>4, <2>6
    <2> QED BY <1>2, <1>3, <2>1, <2>2, <2>3, <2>5, <2>7, SourcedKept
  <1>13. PassedAll(order, gen', stack', unseen')
    BY <1>3, <1>4 DEF PassedAll, Tops
  <1>14. \A n \in 1..Len(stack') : stack'[n].pc = "replicate" => n = a + 1 /\ stack'[n] = f
    BY <1>4
  <1>15. ListedAll(gen', stack', unseen')
    BY <1>14 DEF ListedAll, Replicates
  <1>16. ~lost => FirstHeld(gen', stack')
    BY <1>14 DEF FirstHeld, Replicates
  <1>17. LeadsAll(order, stack', Gens \ Remote)
    BY <1>14 DEF LeadsAll, Replicates
  <1>18. ~unseen' => LeadsAll(order, stack', Connected(gen')) /\ UnlistedAll(stack')
    BY <1>14 DEF LeadsAll, UnlistedAll, Replicates
  <1>19. Knows'
    BY <1>1, <1>9, <1>12, <1>13, <1>15, <1>16, <1>17, <1>18 DEF Knows
  <1>20. Has(stack', Replicating)
    BY <1>3, <1>5 DEF Has, Replicating
  <1>21. Agrees'
    <2>1. SUFFICES ASSUME ~dropped, ~unseen', lost => Len(order) <= 2 PROVE AgreeAll(order, gen', stack')
      BY <1>1 DEF Agrees
    <2>2. ASSUME NEW n \in 1..Len(stack'), stack'[n].pc = "replicate", stack'[n].first \in Connected(gen'),
                 ~On(stack'[n].todo, stack'[n].first), NEW j \in Connected(gen'), NEW k \in Keys, On(order, j)
          PROVE  Compared(order, gen', stack', stack'[n], j, k)
      BY <1>14, <2>1, <2>2 DEF Compares
    <2> QED BY <1>20, <2>2 DEF AgreeAll
  <1>22. Watched'
    <2>1. SUFFICES ASSUME ~dropped, ~lost PROVE WatchAll(order, gen', stack', deltas, seen)
      BY <1>1 DEF Watched
    <2>2. ASSUME NEW n \in 1..Len(stack'), stack'[n].pc = "replicate", stack'[n].first # None,
                 NEW j \in Gens \ Remote, NEW k \in Keys, On(order, j)
          PROVE  Announced(gen', stack', deltas, seen, stack'[n], j, k)
      BY <1>14, <2>1, <2>2 DEF Announces
    <2> QED BY <1>20, <2>2 DEF WatchAll
  <1> QED BY <1>19, <1>21, <1>22 DEF ReplicaInv

\* The call itself.
LEMMA replicateStep ==
    ASSUME ReplicaInv, replicate
    PROVE  ReplicaInv'
  <1>0. Base /\ Types /\ order \in Seq(Gens) /\ Distinct(order) /\ \A j \in Gens : Attempts(gen[j], now) /\ GenOK(j, gen[j], order, up[j], now)
    BY DEF ReplicaInv, Knows, Base, Types, GenOK
  <1>1. /\ At("begin") /\ gen' = AfterFirstOk /\ dropped' = dropped /\ Inside /\ Outside
        /\ stack' = Becomes([Frame("replicate") EXCEPT !.first = FirstOk, !.todo = order])
    BY DEF replicate
  <1>2. PICK i : i = FirstOk
    OBVIOUS
  <1>3. Finds(gen', i)
    BY <1>0, <1>1, <1>2, FindsFirst
  <1>4. AllLooked
    BY <1>3 DEF Finds, AllLooked
  <1>5. Around
    <2>1. budget \in 0..Budget
      BY <1>0 DEF Types
    <2> QED BY <1>1, <2>1 DEF Around, Inside, Outside
  <1>6. GensChange(None, << >>)
    BY <1>0, <1>4, LookedGens
  <1>7. PICK f : f = [Frame("replicate") EXCEPT !.first = i, !.todo = order]
    OBVIOUS
  <1>8. f \in FrameRec /\ f.pc = "replicate" /\ f.src = None /\ f.first = i /\ f.todo = order /\ f.items = << >>
    <2>1. i \in Gens \cup {None}
      BY <1>3 DEF Finds
    <2>2. Begins(i, order, f)
      BY <1>7 DEF Begins
    <2> QED BY <1>0, <2>1, <2>2, FirstFrame
  <1>9. PICK a : a = Len(stack) - 1
    OBVIOUS
  <1>10. Keeps(stack, Pop, a) /\ Len(Pop) = a /\ a \in Nat
    BY <1>0, <1>1, <1>9, AtFacts
  <1>11. Pushed(stack, stack', a, f)
    <2>1. stack' = Append(Pop, f)
      BY <1>1, <1>2, <1>7 DEF Becomes
    <2> QED BY <1>8, <1>10, <2>1, AppendKeeps
  <1>12. Grows(stack, stack', a, a + 1, None, << >>) /\ stack'[a + 1] = f
    <2>1. PICK b \in Nat : b = a + 1
      BY <1>10
    <2>2. Keeps(stack, stack', a) /\ Len(stack') = b /\ stack'[a + 1] = f /\ a <= b
      BY <1>10, <1>11, <2>1 DEF Pushed
    <2>3. Grows(stack, stack', a, b, None, << >>)
      BY <2>2, NoNotices
    <2> QED BY <2>1, <2>2, <2>3
  <1>13. FrameOK(f, order)
    <2>1. \A n \in 1..Len(order) : On(order, order[n])
      BY DEF On
    <2>2. i # None => On(order, i)
      BY <1>3 DEF Finds
    <2>3. \A n \in 1..Len(<< >>) : FALSE
      OBVIOUS
    <2> QED BY <1>0, <1>8, <2>1, <2>2, <2>3 DEF FrameOK
  <1>14. Leads(order, f, Connected(gen'))
    <2>1. \A j \in Connected(gen') : j \in Gens /\ gen'[j].conn = "ok"
      BY DEF Connected
    <2>2. i = None => \A j \in Connected(gen') : ~On(order, j)
      BY <1>3, <2>1 DEF Finds
    <2>3. i # None => \A m, n \in 1..Len(order) : m < n /\ order[n] = i => order[m] \notin Connected(gen')
      BY <1>3, <2>1 DEF Finds
    <2> QED BY <1>8, <2>2, <2>3 DEF Leads
  <1>15. Leads(order, f, Gens \ Remote)
    <2>1. \A j \in Gens \ Remote : On(order, j) => j \in Connected(gen')
      BY <1>6 DEF GensChange, GenOK, Connected
    <2> QED BY <1>8, <1>13, <1>14, <2>1, LeadsMonotone
  <1>16. Replicates(a, f, None, << >>)
    <2>1. Unlisted(f)
      BY <1>8 DEF Unlisted
    <2>2. i # None => gen'[i].conn = "ok"
      BY <1>3 DEF Finds
    <2>3. \A m \in 1..Len(f.items) : FALSE
      BY <1>8
    <2> QED BY <1>8, <1>10, <1>12, <1>13, <1>14, <1>15, <2>1, <2>2, <2>3 DEF Replicates
  <1>17. Compares(f)
    <2>1. i \in Connected(gen') => i # None
      BY ReplicaAssumption DEF Connected
    <2>2. i # None => On(order, i)
      BY <1>3 DEF Finds
    <2> QED BY <1>8, <2>1, <2>2 DEF Compares
  <1>18. Announces(f)
    <2>1. i # None => On(order, i)
      BY <1>3 DEF Finds
    <2>2. \A j, k : i # None /\ On(order, j) => Announced(gen', stack', deltas, seen, f, j, k)
      BY <1>8, <2>1 DEF Announced, Uncompared
    <2> QED BY <1>8, <2>2 DEF Announces
  <1> QED BY <1>1, <1>5, <1>6, <1>9, <1>16, <1>17, <1>18, ReplicatesStep

\* What the first generator holds is passed on to all others.
LEMMA replicate_firstStep ==
    ASSUME ReplicaInv, replicate_first
    PROVE  ReplicaInv'
  <1>0. Base /\ Knows /\ Types /\ order \in Seq(Gens) /\ Distinct(order)
    BY DEF ReplicaInv, Knows, Base, Types
  <1>1. /\ At("replicate") /\ gen' = gen /\ dropped' = dropped /\ Inside /\ Outside /\ Top.items # << >> /\ Top.src = Top.first
        /\ stack' = Becomes([Top EXCEPT !.items = Tail(@)]) \o <<Noticing(Top.first, Head(Top.items))>>
    BY DEF replicate_first
  <1>2. PICK a : a = Len(stack) - 1
    OBVIOUS
  <1>3. PICK f \in FrameRec : f = Top /\ f.pc = "replicate" /\ FrameOK(f, order)
    BY <1>0, <1>1, AtFacts
  <1>4. a \in Nat /\ Keeps(stack, Pop, a) /\ Len(Pop) = a /\ Len(stack) = a + 1 /\ stack[a + 1] = f /\ a + 1 \in 1..Len(stack)
    <2>1. /\ Len(stack) \in Nat /\ Top = stack[Len(stack)] /\ Len(stack) \in 1..Len(stack) /\ Len(stack) - 1 \in Nat
          /\ Keeps(stack, Pop, Len(stack) - 1) /\ Len(Pop) = Len(stack) - 1
      BY <1>0, <1>1, AtFacts
    <2>2. Len(stack) = a + 1
      BY <1>2, <2>1
    <2> QED BY <1>2, <1>3, <2>1, <2>2
  <1>5. f.src \in Gens /\ f.first = f.src /\ f.todo \in Seq(Gens) /\ f.items \in Seq(Change) /\ On(order, f.first) /\ f.first # None
    <2>1. f.src # None /\ f.first = f.src
      BY <1>1, <1>3 DEF FrameOK
    <2> QED BY <1>3, <2>1, FieldsOf DEF FrameOK
  <1>6. PICK i \in Gens : i = f.first /\ i = f.src
    BY <1>5
  <1>7. PICK it0, it, c : it0 = f.items /\ it = Tail(it0) /\ c = Head(it0)
    OBVIOUS
  <1>8. /\ it \in Seq(Change) /\ c \in Change /\ c = it0[1] /\ 1 \in 1..Len(it0) /\ c.key \in Keys
        /\ \A n \in 1..Len(it) : it[n] = it0[n + 1] /\ n + 1 \in 1..Len(it0)
        /\ \A n \in 1..Len(it0) : n = 1 \/ (n - 1 \in 1..Len(it) /\ it[n - 1] = it0[n])
    <2>1. it0 \in Seq(Change) /\ it0 # << >>
      BY <1>1, <1>3, <1>5, <1>7
    <2>2. /\ it \in Seq(Change) /\ c \in Change /\ c = it0[1] /\ 1 \in 1..Len(it0)
          /\ \A n \in 1..Len(it) : it[n] = it0[n + 1] /\ n + 1 \in 1..Len(it0)
          /\ \A n \in 1..Len(it0) : n = 1 \/ (n - 1 \in 1..Len(it) /\ it[n - 1] = it0[n])
      BY <1>7, <2>1, TailFacts
    <2> QED BY <2>2 DEF Change
  <1>9. PICK h : h = [f EXCEPT !.items = it]
    OBVIOUS
  <1>10. h \in FrameRec /\ h.pc = "replicate" /\ h.src = i /\ h.first = i /\ h.todo = f.todo /\ h.items = it
    <2>1. GoesOn(f, f.todo, f.src, it, h)
      BY <1>9 DEF GoesOn
    <2> QED BY <1>3, <1>5, <1>6, <1>8, <2>1, ReplicateFrame
  <1>11. PICK q : q = <<c>>
    OBVIOUS
  <1>12. q \in Seq(Change) /\ Len(q) = 1 /\ q[1] = c
    BY <1>8, <1>11
  <1>13. Grows(stack, stack', a, a + 1, i, q) /\ stack'[a + 1] = h
    <2>1. PICK p : p = Append(Pop, h)
      OBVIOUS
    <2>2. Pushed(stack, p, a, h)
      BY <1>4, <1>10, <2>1, AppendKeeps
    <2>3. stack' = p \o <<Noticing(i, c)>>
      BY <1>1, <1>3, <1>6, <1>7, <1>9, <2>1 DEF Becomes
    <2>4. PICK b \in Nat : b = a + 1
      BY <1>4
    <2>5. Keeps(stack, p, a) /\ Len(p) = b /\ p[b] = h /\ b \in 1..b
      BY <1>4, <2>2, <2>4 DEF Pushed
    <2>6. Grows(stack, stack', a, b, i, q) /\ Under(p, stack', b)
      BY <1>8, <1>11, <2>3, <2>5, OneNotice
    <2> QED BY <2>4, <2>5, <2>6 DEF Under
  <1>14. Around /\ AllLooked
    <2>1. budget \in 0..Budget
      BY <1>0 DEF Types
    <2> QED BY <1>0, <1>1, <2>1, LookedAtNone DEF Around, Inside, Outside
  <1>15. unseen' = unseen
    BY <1>0, <1>1, InsideStill DEF StillThere
  <1>16. \A m \in 1..Len(it0) : Reached(gen[i], unseen, i, it0[m])
    BY <1>0, <1>3, <1>4, <1>5, <1>6, <1>7 DEF Knows, ListedAll
  <1>17. GensChange(i, q)
    <2>1. GensChange(i, << >>)
      BY <1>0, <1>14, LookedGens
    <2>2. AllMoved(order, gen, gen', q) /\ \A k \in Keys : NoLoss(gen, gen', q, k)
      <3>1. \A k \in Keys : Moved(order', gen, gen', q, k) /\ NoLoss(gen, gen', q, k)
        BY <1>0, <1>1, SameGenerators
      <3> QED BY <1>14, <3>1 DEF AllMoved, Around
    <2>3. Steady(gen'[i], unseen', i) => Leaves(gen'[i], q)
      <3>1. Reached(gen'[i], unseen', i, c)
        BY <1>1, <1>8, <1>15, <1>16
      <3>2. \A n \in 1..Len(q) : q[n] = c
        BY <1>12
      <3> QED BY <3>1, <3>2 DEF Leaves, Reached
    <2> QED BY <1>5, <1>6, <1>12, <2>1, <2>2, <2>3 DEF GensChange
  <1>18. FrameOK(h, order)
    BY <1>3, <1>5, <1>6, <1>7, <1>8, <1>10 DEF FrameOK
  <1>19. \A C : Leads(order, f, C) => Leads(order, h, C)
    BY <1>6, <1>10 DEF Leads
  <1>20. Replicates(a, h, i, q)
    <2>1. \A m \in 1..Len(it) : Reached(gen'[i], unseen', i, it[m])
      BY <1>1, <1>8, <1>15, <1>16
    <2>2. ~lost => gen'[i].conn = "ok"
      BY <1>0, <1>1, <1>3, <1>4, <1>5, <1>6 DEF Knows, FirstHeld
    <2>3. Leads(order, h, Gens \ Remote)
      BY <1>0, <1>3, <1>4, <1>19 DEF Knows, LeadsAll
    <2>4. ~unseen' => Leads(order, f, Connected(gen')) /\ Unlisted(f)
      BY <1>0, <1>1, <1>3, <1>4, <1>15 DEF Knows, LeadsAll, UnlistedAll
    <2>5. Unlisted(f) => Unlisted(h)
      BY <1>1, <1>3, <1>6, <1>10 DEF Unlisted
    <2> QED BY <1>4, <1>10, <1>13, <1>18, <1>19, <2>1, <2>2, <2>3, <2>4, <2>5 DEF Replicates
  <1>21. Waits(stack', c.key)
    <2>1. Carries(q, c.key)
      BY <1>12 DEF Carries
    <2>2. PICK b : b = a + 1
      OBVIOUS
    <2> QED BY <1>13, <2>1, <2>2, AddsWaits
  <1>22. \A k : Waits(stack, k) => Waits(stack', k)
    <2>1. \A n \in 1..Len(stack) : n > a => stack[n].pc \notin {"delta", "pass"}
      <3>1. \A n \in 1..Len(stack) : n > a => n = a + 1
        BY <1>4
      <3> QED BY <1>3, <1>4, <3>1
    <2>2. Keeps(stack, stack', a)
      BY <1>13 DEF Grows
    <2> QED BY <2>1, <2>2, WaitsKept
  <1>23. \A k : Pending(gen, stack, k) => Pending(gen', stack', k)
    BY <1>1, <1>22 DEF Pending
  <1>24. \A k : Carries(f.items, k) => Carries(it, k) \/ k = c.key
    <2>1. SUFFICES ASSUME NEW k, Carries(f.items, k), k # c.key PROVE Carries(it, k)
      OBVIOUS
    <2>2. PICK n \in 1..Len(it0) : it0[n].key = k
      BY <1>7, <2>1 DEF Carries
    <2>3. n - 1 \in 1..Len(it) /\ it[n - 1].key = k
      BY <1>8, <2>1, <2>2
    <2> QED BY <2>3 DEF Carries
  <1>25. \A k : ~Passing(stack, k)
    <2>1. \A n \in 1..Len(stack) : stack[n].pc # "pass"
      <3>1. \A n \in 1..Len(stack) : n \in 1..a \/ n = a + 1
        BY <1>4
      <3>2. Calm(stack, Len(stack) - 1)
        <4>1. Base /\ At("replicate")
          BY <1>0, <1>1
        <4> QED BY <4>1, CalmUnderTop
      <3> QED BY <1>2, <1>3, <1>4, <3>1, <3>2 DEF Calm, Tops
    <2> QED BY <2>1 DEF Passing
  <1>26. Compares(h)
    <2>1. SUFFICES ASSUME ~dropped, ~unseen', lost => Len(order) <= 2, i \in Connected(gen'), ~On(f.todo, i),
                          NEW j \in Connected(gen'), NEW k \in Keys, On(order, j)
                   PROVE  Compared(order, gen', stack', h, j, k)
      BY <1>10 DEF Compares
    <2>2. Compared(order, gen, stack, f, j, k)
      <3>1. AgreeAll(order, gen, stack)
        BY <1>15, <2>1 DEF ReplicaInv, Agrees
      <3> QED BY <1>1, <1>3, <1>4, <1>6, <1>25, <2>1, <3>1 DEF AgreeAll
    <2>3. CASE k = c.key
      BY <1>21, <2>3 DEF Compared, Same, Pending
    <2>4. CASE k # c.key
      <3>1. Same(gen, stack, i, j, k) => Same(gen', stack', i, j, k)
        BY <1>1, <1>23 DEF Same
      <3>2. Carries(f.items, k) => Carries(it, k)
        BY <1>24, <2>4
      <3> QED BY <1>1, <1>6, <1>10, <2>2, <3>1, <3>2 DEF Compared, Uncompared
    <2> QED BY <2>3, <2>4
  <1>27. Announces(h)
    <2>1. SUFFICES ASSUME ~dropped, ~lost, NEW j \in Gens \ Remote, NEW k \in Keys, On(order, j)
                   PROVE  Announced(gen', stack', deltas, seen, h, j, k)
      BY <1>10 DEF Announces
    <2>2. Announced(gen, stack, deltas, seen, f, j, k)
      <3>1. WatchAll(order, gen, stack, deltas, seen)
        BY <2>1 DEF ReplicaInv, Watched
      <3> QED BY <1>3, <1>4, <1>5, <1>25, <2>1, <3>1 DEF WatchAll
    <2>3. CASE k = c.key
      BY <1>21, <2>3 DEF Announced, Known, Pending
    <2>4. CASE k # c.key
      <3>1. Known(gen, stack, deltas, seen, j, k) => Known(gen', stack', deltas, seen, j, k)
        BY <1>1, <1>23 DEF Known
      <3>2. Carries(f.items, k) => Carries(it, k)
        BY <1>24, <2>4
      <3> QED BY <1>1, <1>6, <1>10, <2>2, <3>1, <3>2 DEF Announced, Uncompared
    <2> QED BY <2>3, <2>4
  <1> QED BY <1>1, <1>2, <1>14, <1>17, <1>20, <1>26, <1>27, ReplicatesStep

\* What is known of the replicate() at the top.
Replicated(f) ==
    /\ f \in FrameRec /\ f.pc = "replicate" /\ FrameOK(f, order)
    /\ f.src = f.first => \A m \in 1..Len(f.items) : Reached(gen[f.first], unseen, f.first, f.items[m])
    /\ ~lost /\ f.first # None => gen[f.first].conn = "ok"
    /\ Leads(order, f, Gens \ Remote)
    /\ ~unseen => Leads(order, f, Connected(gen)) /\ Unlisted(f)
    /\ ~dropped /\ ~unseen /\ (lost => Len(order) <= 2) /\ f.first \in Connected(gen) /\ ~On(f.todo, f.first) =>
          \A j \in Connected(gen), k \in Keys : On(order, j) => Compared(order, gen, stack, f, j, k)
    /\ ~dropped /\ ~lost /\ f.first # None =>
          \A j \in Gens \ Remote, k \in Keys : On(order, j) => Announced(gen, stack, deltas, seen, f, j, k)

LEMMA ReplicateFacts ==
    ASSUME ReplicaInv, At("replicate"), NEW a, a = Len(stack) - 1, NEW f, f = Top
    PROVE  /\ a \in Nat /\ Keeps(stack, Pop, a) /\ Len(Pop) = a /\ Len(stack) = a + 1 /\ stack[a + 1] = f /\ Calm(stack, a)
           /\ \A n \in 1..Len(stack) : n > a => n = a + 1 /\ stack[n] = f
           /\ Replicated(f)
  <1>0. Base /\ Knows /\ Types /\ Agrees /\ Watched
    BY DEF ReplicaInv, Knows, Base
  <1>1. /\ Len(stack) \in Nat /\ Top = stack[Len(stack)] /\ Len(stack) \in 1..Len(stack) /\ Len(stack) - 1 \in Nat
        /\ Keeps(stack, Pop, Len(stack) - 1) /\ Len(Pop) = Len(stack) - 1 /\ Calm(stack, Len(stack) - 1)
        /\ f \in FrameRec /\ f.pc = "replicate" /\ FrameOK(f, order)
    BY <1>0, AtFacts
  <1>2. a \in Nat /\ Len(stack) = a + 1 /\ stack[a + 1] = f /\ a + 1 \in 1..Len(stack)
    BY <1>1
  <1>3. \A n \in 1..Len(stack) : n > a => n = a + 1
    BY <1>2
  <1>4. \A n \in 1..Len(stack) : n \in 1..a \/ n = a + 1
    BY <1>2
  <1>5. \A k : ~Passing(stack, k)
    BY <1>1, <1>2, <1>4 DEF Passing, Calm, Tops
  <1>6. Replicated(f)
    <2>1. f.src = f.first => \A m \in 1..Len(f.items) : Reached(gen[f.first], unseen, f.first, f.items[m])
      BY <1>0, <1>1, <1>2 DEF Knows, ListedAll
    <2>2. ~lost /\ f.first # None => gen[f.first].conn = "ok"
      BY <1>0, <1>1, <1>2 DEF Knows, FirstHeld
    <2>3. Leads(order, f, Gens \ Remote) /\ (~unseen => Leads(order, f, Connected(gen)) /\ Unlisted(f))
      BY <1>0, <1>1, <1>2 DEF Knows, LeadsAll, UnlistedAll
    <2>4. ~dropped /\ ~unseen /\ (lost => Len(order) <= 2) /\ f.first \in Connected(gen) /\ ~On(f.todo, f.first) =>
             \A j \in Connected(gen), k \in Keys : On(order, j) => Compared(order, gen, stack, f, j, k)
      BY <1>0, <1>1, <1>2, <1>5 DEF Agrees, AgreeAll
    <2>5. ~dropped /\ ~lost /\ f.first # None =>
             \A j \in Gens \ Remote, k \in Keys : On(order, j) => Announced(gen, stack, deltas, seen, f, j, k)
      BY <1>0, <1>1, <1>2, <1>5 DEF Watched, WatchAll
    <2> QED BY <1>1, <2>1, <2>2, <2>3, <2>4, <2>5 DEF Replicated
  <1> QED BY <1>1, <1>2, <1>3, <1>6

\* Notices stay pending, and nobody comes back unnoticed.
LEMMA ReplicatingMild ==
    ASSUME ReplicaInv, At("replicate"), Around, NEW i, NEW q, GensChange(i, q), NEW a, a = Len(stack) - 1, NEW b, b = a + 1,
           Grows(stack, stack', a, b, i, q), stack'[a + 1].pc = "replicate"
    PROVE  /\ \A k \in Keys : Mild(order, gen, stack, gen', stack', k)
           /\ ~unseen' => ~unseen /\ NoneBack(order, gen, gen')
  <1>0. Base /\ Types
    BY DEF ReplicaInv, Knows, Base
  <1>1. PICK f : f = Top
    OBVIOUS
  <1>2. /\ a \in Nat /\ Len(stack) = a + 1 /\ Calm(stack, a) /\ f.pc = "replicate"
        /\ \A n \in 1..Len(stack) : n > a => n = a + 1 /\ stack[n] = f
    BY <1>1, ReplicateFacts DEF Replicated
  <1>3. Keeps(stack, stack', a) /\ Len(stack') = b + Len(q) /\ Len(q) \in Nat
    BY DEF Grows
  <1>4. ASSUME NEW k \in Keys PROVE Mild(order, gen, stack, gen', stack', k)
    <2>1. \A n \in 1..Len(stack) : n > a => stack[n].pc \notin {"delta", "pass"}
      BY <1>2
    <2>2. Waits(stack, k) => Waits(stack', k)
      BY <1>3, <2>1, WaitsKept
    <2>3. Carries(q, k) => Waits(stack', k)
      BY AddsWaits
    <2>4. Moved(order, gen, gen', q, k) /\ NoLoss(gen, gen', q, k)
      BY DEF GensChange, AllMoved
    <2> QED BY <2>2, <2>3, <2>4, MildStep
  <1>5. Types'
    <2>1. stack' \in Seq(FrameRec) /\ gen' \in [Gens -> Generator] /\ unseen' \in BOOLEAN
      BY <1>3 DEF Keeps, GensChange, Around
    <2> QED BY <1>0, <2>1 DEF Types, Around
  <1>6. Noticed
    BY <1>0, <1>5, InsideNoticed DEF GensChange, Around
  <1>7. ~Has(stack', {"begin"})
    <2>1. SUFFICES ASSUME NEW n \in 1..Len(stack'), stack'[n].pc = "begin" PROVE FALSE
      BY DEF Has
    <2>2. CASE n \in 1..a
      BY <1>2, <1>3, <2>1, <2>2 DEF Calm, Keeps, Tops
    <2>3. CASE n = a + 1
      BY <2>1, <2>3
    <2>4. CASE n > b
      BY <2>1, <2>4 DEF Grows
    <2> QED BY <1>2, <1>3, <2>1, <2>2, <2>3, <2>4
  <1>8. ~At("begin")
    BY <1>1, <1>2 DEF At
  <1> QED BY <1>4, <1>6, <1>7, <1>8 DEF Noticed

LEMMA NoNoticesFrom ==
    ASSUME NEW st, NEW st1, NEW a, NEW b \in Nat, Keeps(st, st1, a), a <= b, Len(st1) = b, NEW i
    PROVE  Grows(st, st1, a, b, i, << >>)
  <1>1. Grows(st, st1, a, b, None, << >>)
    BY NoNotices
  <1>2. \A n \in 1..Len(st1) : ~(n > b)
    OBVIOUS
  <1> QED BY <1>1, <1>2 DEF Grows

\* The first generator is still to come, or the one that is visited now.
LEMMA LeadsTail ==
    ASSUME NEW f, NEW h, NEW C, NEW j, NEW q0 \in Seq(Gens), NEW td, Leads(order, f, C), f.todo = q0, h.todo = td, h.first = f.first,
           q0 # << >>, j = Head(q0), td = Tail(q0)
    PROVE  Leads(order, h, C) /\ (f.first # None /\ On(td, f.first) => j \notin C)
  <1>1. /\ td \in Seq(Gens) /\ j = q0[1] /\ Len(q0) \in Nat /\ 1 \in 1..Len(q0)
        /\ \A n \in 1..Len(td) : td[n] = q0[n + 1] /\ n + 1 \in 1..Len(q0)
        /\ \A n \in 1..Len(q0) : n = 1 \/ (n - 1 \in 1..Len(td) /\ td[n - 1] = q0[n])
    BY TailFacts
  <1>2. CASE f.first = None \/ ~On(td, f.first)
    BY <1>2 DEF Leads
  <1>3. CASE f.first # None /\ On(td, f.first)
    <2>1. PICK l \in 1..Len(td) : td[l] = f.first
      BY <1>3 DEF On
    <2>2. l + 1 \in 1..Len(q0) /\ q0[l + 1] = f.first /\ 1 < l + 1
      BY <1>1, <2>1
    <2>3. On(q0, f.first)
      BY <2>2 DEF On
    <2>4. /\ \A i \in C : On(order, i) => On(q0, i)
          /\ \A m, n \in 1..Len(q0) : m < n /\ q0[n] = f.first => q0[m] \notin C
      BY <1>3, <2>3 DEF Leads
    <2>5. j \notin C
      BY <1>1, <2>2, <2>4
    <2>6. ASSUME NEW i \in C, On(order, i) PROVE On(td, i)
      <3>1. PICK n \in 1..Len(q0) : q0[n] = i
        BY <2>4, <2>6 DEF On
      <3>2. n - 1 \in 1..Len(td) /\ td[n - 1] = i
        BY <1>1, <2>5, <2>6, <3>1
      <3> QED BY <3>2 DEF On
    <2>7. ASSUME NEW m \in 1..Len(td), NEW n \in 1..Len(td), m < n, td[n] = f.first PROVE td[m] \notin C
      <3>1. m + 1 < n + 1
        BY <2>7
      <3>2. td[m] = q0[m + 1] /\ m + 1 \in 1..Len(q0) /\ q0[n + 1] = f.first /\ n + 1 \in 1..Len(q0)
        BY <1>1, <2>7
      <3> QED BY <2>4, <3>1, <3>2
    <2> QED BY <1>3, <2>5, <2>6, <2>7 DEF Leads
  <1> QED BY <1>2, <1>3

\* What is listed of a generator.
Listing(x) == SetToSeq({Changes(k, x.val[k]) : k \in {q \in Keys : x.val[q] # Null}})
Lists(x, it) ==
    /\ it \in Seq(Change)
    /\ \A n \in 1..Len(it) : it[n].value # Null /\ it[n].value = x.val[it[n].key]
    /\ \A k \in Keys : x.val[k] # Null => Carries(it, k)

LEMMA ListedFacts ==
    ASSUME NEW x \in Generator, NEW it, it = Listing(x)
    PROVE  Lists(x, it)
  <1>1. PICK D : D = {q \in Keys : x.val[q] # Null}
    OBVIOUS
  <1>2. PICK T : T = {Changes(k, x.val[k]) : k \in D}
    OBVIOUS
  <1>3. x.val \in Contents /\ \A k \in Keys : x.val[k] \in Values \cup {Null}
    BY FieldsOfGenerator
  <1>4. \A k \in D : k \in Keys /\ Changes(k, x.val[k]) \in Change /\ Changes(k, x.val[k]).key = k /\ Changes(k, x.val[k]).value = x.val[k]
    BY <1>1, <1>3 DEF Changes, Change
  <1>5. T \in SUBSET Change
    BY <1>2, <1>4
  <1>6. IsFiniteSet(T)
    <2>1. IsFiniteSet(D)
      BY <1>1, ReplicaAssumption, FS_Subset
    <2>2. PICK F : F = [k \in D |-> Changes(k, x.val[k])]
      OBVIOUS
    <2>3. F \in Surjection(D, T)
      BY <1>2, <2>2 DEF Surjection
    <2> QED BY <2>1, <2>3, FS_Surjection
  <1>7. it = SetToSeq(T)
    BY <1>1, <1>2 DEF Listing
  <1>8. it \in Seq(Change) /\ (\A n \in 1..Len(it) : it[n] \in T) /\ \A y \in T : \E n \in 1..Len(it) : it[n] = y
    <2>1. Enumerates(it, T, Change)
      BY ONLY <1>5, <1>6, <1>7, SetToSeqFacts
    <2> QED BY <2>1 DEF Enumerates
  <1>9. \A y \in T : y.value # Null /\ y.value = x.val[y.key]
    BY <1>1, <1>2, <1>4
  <1>10. ASSUME NEW k \in Keys, x.val[k] # Null PROVE Carries(it, k)
    <2>1. PICK y : y = Changes(k, x.val[k])
      OBVIOUS
    <2>2. k \in D
      BY <1>1, <1>10
    <2>3. y \in T /\ y.key = k
      BY <1>2, <1>4, <2>1, <2>2
    <2> QED BY <1>8, <2>3 DEF Carries
  <1> QED BY <1>8, <1>9, <1>10 DEF Lists

\* The next generator is visited: what is on its way from it is read, and what it
\* holds is listed.
Visits(j, y, q, it) ==
    /\ HandsOver(j, gen[j], y, q) /\ y.val = gen[j].val /\ y.was_ok = (y.conn = "ok")
    /\ it \in Seq(Change) /\ (\A n \in 1..Len(it) : it[n].value # Null)
    /\ y.conn # "ok" => it = << >>
    /\ y.conn = "ok" => Lists(y, it)

LEMMA VisitFacts ==
    ASSUME Base, NEW j \in Gens, NEW t, t = GenIsOk(gen[j], j),
           NEW y, y = IF t.was_ok THEN [t EXCEPT !.inbox = << >>] ELSE t,
           NEW q, q = IF t.was_ok THEN t.inbox ELSE << >>,
           NEW l, l = Listing(t),
           NEW it, it = IF t.was_ok THEN l ELSE << >>
    PROVE  Visits(j, y, q, it)
  <1>1. /\ gen[j] \in Generator /\ GenOK(j, gen[j], order, up[j], now) /\ Attempts(gen[j], now)
        /\ now \in Nat /\ up[j] \in BOOLEAN
    BY GenFacts
  <1>2. Looked(gen[j], t) /\ Attempts(t, now) /\ t.was_ok = (t.conn = "ok")
    BY <1>1, GenIsOkFacts
  <1>3. t \in Generator /\ t.inbox = gen[j].inbox /\ t.val = gen[j].val
    BY <1>2 DEF Looked
  <1>4. CASE t.was_ok
    <2>1. y = [t EXCEPT !.inbox = << >>] /\ q = gen[j].inbox /\ it = l /\ t.conn = "ok"
      BY <1>2, <1>3, <1>4
    <2>2. HandsOver(j, gen[j], y, q) /\ y.val = gen[j].val /\ y.conn = t.conn /\ y.was_ok = t.was_ok
      <3>1. PICK x : x = gen[j]
        OBVIOUS
      <3>2. x \in Generator /\ GenOK(j, x, order, up[j], now) /\ Looked(x, t) /\ Attempts(t, now) /\ y = [t EXCEPT !.inbox = << >>]
        BY <1>1, <1>2, <2>1, <3>1
      <3>3. HandsOver(j, x, y, x.inbox)
        BY <3>2, ReadAll
      <3>4. y.val = t.val /\ y.conn = t.conn /\ y.was_ok = t.was_ok
        BY <1>3, <3>2 DEF Generator
      <3> QED BY <1>3, <2>1, <3>1, <3>3, <3>4
    <2>3. Lists(t, it)
      BY <1>3, <2>1, ListedFacts
    <2>4. Lists(y, it)
      BY <1>3, <2>2, <2>3 DEF Lists
    <2> QED BY <1>2, <2>1, <2>2, <2>4 DEF Visits, Lists
  <1>5. CASE ~t.was_ok
    <2>1. y = t /\ q = << >> /\ it = << >>
      BY <1>5
    <2>2. GenOK(j, y, order, up[j], now)
      BY <1>1, <1>2, <2>1, GenOKLooked
    <2>3. \A k \in Keys : MovesAt(j, order, gen[j], y, q, k)
      BY <1>2, <2>1, LookedMoves
    <2>4. << >> \in Seq(Change) /\ Leaves(y, << >>)
      BY NothingLeft
    <2>5. HandsOver(j, gen[j], y, q)
      BY <1>2, <2>1, <2>2, <2>3, <2>4 DEF HandsOver, Looked
    <2>6. \A n \in 1..Len(<< >>) : FALSE
      OBVIOUS
    <2> QED BY <1>2, <1>3, <1>5, <2>1, <2>4, <2>5, <2>6 DEF Visits
  <1> QED BY <1>4, <1>5

LEMMA replicate_nextStep ==
    ASSUME ReplicaInv, replicate_next
    PROVE  ReplicaInv'
  <1>0. Base /\ Types /\ order \in Seq(Gens) /\ Distinct(order)
    BY DEF ReplicaInv, Knows, Base, Types
  <1>1. /\ At("replicate") /\ dropped' = dropped /\ Inside /\ Outside /\ Top.items = << >> /\ Top.todo # << >>
    BY DEF replicate_next
  <1>2. PICK a, f : a = Len(stack) - 1 /\ f = Top
    OBVIOUS
  <1>3. a \in Nat /\ Keeps(stack, Pop, a) /\ Len(Pop) = a /\ Replicated(f)
    BY <1>1, <1>2, ReplicateFacts
  <1>4. f \in FrameRec /\ f.pc = "replicate" /\ FrameOK(f, order) /\ f.items = << >> /\ f.todo \in Seq(Gens) /\ f.first \in Gens \cup {None}
    BY <1>1, <1>2, <1>3, FieldsOf DEF Replicated
  <1>5. PICK q0, td, j : q0 = f.todo /\ td = Tail(q0) /\ j = Head(q0)
    OBVIOUS
  <1>6. q0 \in Seq(Gens) /\ q0 # << >>
    BY <1>1, <1>2, <1>4, <1>5
  <1>7. /\ td \in Seq(Gens) /\ j \in Gens /\ j = q0[1] /\ Len(q0) \in Nat /\ 1 \in 1..Len(q0)
        /\ \A n \in 1..Len(td) : td[n] = q0[n + 1] /\ n + 1 \in 1..Len(q0)
        /\ \A n \in 1..Len(q0) : n = 1 \/ (n - 1 \in 1..Len(td) /\ td[n - 1] = q0[n])
    BY <1>5, <1>6, TailFacts
  <1>8. \A i : On(q0, i) => i = j \/ On(td, i)
    <2>1. SUFFICES ASSUME NEW i, On(q0, i), i # j PROVE On(td, i)
      OBVIOUS
    <2>2. PICK n \in 1..Len(q0) : q0[n] = i
      BY <2>1 DEF On
    <2>3. n - 1 \in 1..Len(td) /\ td[n - 1] = i
      BY <1>7, <2>1, <2>2
    <2> QED BY <2>3 DEF On
  <1>9. On(order, j) /\ (\A n \in 1..Len(td) : On(order, td[n])) /\ Distinct(td)
    <2>1. (\A n \in 1..Len(q0) : On(order, q0[n])) /\ Distinct(q0)
      BY <1>4, <1>5 DEF FrameOK
    <2>2. Distinct(td)
      <3>1. SUFFICES ASSUME NEW m \in 1..Len(td), NEW n \in 1..Len(td), td[m] = td[n] PROVE m = n
        BY DEF Distinct
      <3>2. m + 1 = n + 1
        BY <1>7, <2>1, <3>1 DEF Distinct
      <3> QED BY <3>2
    <2> QED BY <1>7, <2>1, <2>2
  <1>10. PICK y, q, it, h :
            /\ gen' = [gen EXCEPT ![j] = y] /\ Visits(j, y, q, it) /\ h = [f EXCEPT !.todo = td, !.src = j, !.items = it]
            /\ \/ stack' = Append(Pop, h) /\ q = << >>
               \/ stack' = Append(Pop, h) \o Callbacks(j, q)
    <2>1. PICK t : t = GenIsOk(gen[j], j)
      OBVIOUS
    <2>2. PICK l : l = Listing(t)
      OBVIOUS
    <2>3. PICK y, q, it : /\ y = IF t.was_ok THEN [t EXCEPT !.inbox = << >>] ELSE t
                          /\ q = IF t.was_ok THEN t.inbox ELSE << >>
                          /\ it = IF t.was_ok THEN l ELSE << >>
      OBVIOUS
    <2>4. Visits(j, y, q, it)
      BY <1>0, <1>7, <2>1, <2>2, <2>3, VisitFacts
    <2>5. PICK h : h = [f EXCEPT !.todo = td, !.src = j, !.items = it]
      OBVIOUS
    <2>6. /\ gen' = [gen EXCEPT ![j] = IF t.was_ok THEN [t EXCEPT !.inbox = << >>] ELSE t]
          /\ stack' = Append(Pop, [f EXCEPT !.todo = Tail(f.todo), !.src = j, !.items = IF t.was_ok THEN l ELSE << >>])
                      \o (IF t.was_ok THEN Callbacks(j, t.inbox) ELSE << >>)
      BY <1>2, <1>5, <2>1, <2>2 DEF replicate_next, Becomes, Listing
    <2>7. gen' = [gen EXCEPT ![j] = y] /\ stack' = Append(Pop, h) \o (IF t.was_ok THEN Callbacks(j, t.inbox) ELSE << >>)
      BY <1>5, <2>3, <2>5, <2>6
    <2>8. Append(Pop, h) \in Seq(FrameRec)
      <3>1. h \in FrameRec
        <4>1. GoesOn(f, td, j, it, h) /\ it \in Seq(Change)
          BY <2>4, <2>5 DEF GoesOn, Visits
        <4> QED BY <1>4, <1>7, <4>1, ReplicateFrame
      <3>2. Pop \in Seq(FrameRec)
        BY <1>3 DEF Keeps
      <3> QED BY <3>1, <3>2
    <2>9. Append(Pop, h) \o << >> = Append(Pop, h)
      BY <2>8
    <2> QED BY <2>3, <2>4, <2>5, <2>7, <2>9
  <1>11. h \in FrameRec /\ h.pc = "replicate" /\ h.src = j /\ h.first = f.first /\ h.todo = td /\ h.items = it
    <2>1. GoesOn(f, td, j, it, h) /\ it \in Seq(Change)
      BY <1>10 DEF GoesOn, Visits
    <2> QED BY <1>4, <1>7, <2>1, ReplicateFrame
  <1>12. PICK b \in Nat : b = a + 1
    BY <1>3
  <1>13. Grows(stack, stack', a, b, j, q) /\ stack'[a + 1] = h
    <2>1. PICK p : p = Append(Pop, h)
      OBVIOUS
    <2>2. Pushed(stack, p, a, h)
      BY <1>3, <1>11, <2>1, AppendKeeps
    <2>3. Keeps(stack, p, a) /\ Len(p) = b /\ p[b] = h /\ b \in 1..b /\ a <= b
      BY <1>3, <1>12, <2>2 DEF Pushed
    <2>4. CASE stack' = p /\ q = << >>
      BY <1>12, <2>3, <2>4, NoNoticesFrom
    <2>5. CASE stack' = p \o Callbacks(j, q)
      <3>1. q \in Seq(Change)
        BY <1>10 DEF Visits, HandsOver
      <3>2. Grows(stack, stack', a, b, j, q) /\ Under(p, stack', b)
        BY <1>7, <2>3, <2>5, <3>1, BatchKeeps
      <3> QED BY <1>12, <2>3, <3>2 DEF Under
    <2> QED BY <1>10, <2>1, <2>4, <2>5
  <1>14. Around
    <2>1. budget \in 0..Budget
      BY <1>0 DEF Types
    <2> QED BY <1>1, <2>1 DEF Around, Inside, Outside
  <1>15. OneHandsOver(j, q) /\ gen'[j] = y /\ (\A i \in Gens : i # j => gen'[i] = gen[i]) /\ GensChange(j, q)
    <2>1. gen \in [Gens -> Generator] /\ \A i \in Gens : Looked(gen[i], gen[i]) /\ Attempts(gen[i], now)
      BY <1>0, <1>7, GenFacts
    <2>2. OneHandsOver(j, q)
      BY <1>7, <1>10, <2>1, OneChanges DEF Visits
    <2> QED BY <1>0, <1>7, <1>10, <2>1, <2>2, OneGens
  <1>16. /\ \A k \in Keys : Mild(order, gen, stack, gen', stack', k)
         /\ ~unseen' => ~unseen /\ NoneBack(order, gen, gen')
    BY <1>1, <1>2, <1>11, <1>12, <1>13, <1>14, <1>15, ReplicatingMild
  <1>17. /\ \A i \in Gens : gen'[i].val = gen[i].val
         /\ gen'[j].conn # "ok" => it = << >>
         /\ gen'[j].conn = "ok" => Lists(gen'[j], it)
         /\ \A i \in Gens : gen[i].conn = "ok" => gen'[i].conn = "ok"
         /\ \A i \in Gens \ Remote : gen'[i].conn = "ok"
    <2>1. gen'[j].val = gen[j].val /\ (gen'[j].conn # "ok" => it = << >>) /\ (gen'[j].conn = "ok" => Lists(gen'[j], it))
      BY <1>10, <1>15 DEF Visits
    <2>2. \A i \in Gens : gen'[i].val = gen[i].val
      BY <1>15, <2>1
    <2> QED BY <1>15, <2>1, <2>2 DEF GensChange, GenOK
  <1>18. FrameOK(h, order)
    <2>1. j # None /\ \A n \in 1..Len(it) : it[n].value # Null
      BY <1>7, <1>10, ReplicaAssumption DEF Visits
    <2> QED BY <1>4, <1>9, <1>11, <2>1 DEF FrameOK
  <1>19. \A C : Leads(order, f, C) => Leads(order, h, C) /\ (f.first # None /\ On(td, f.first) => j \notin C)
    BY <1>5, <1>6, <1>11, LeadsTail
  <1>20. ~unseen' => /\ Leads(order, f, Connected(gen')) /\ Leads(order, f, Connected(gen))
                     /\ \A i \in Gens : On(order, i) /\ gen'[i].conn = "ok" => i \in Connected(gen)
    <2>1. SUFFICES ASSUME ~unseen' PROVE /\ Leads(order, f, Connected(gen')) /\ Leads(order, f, Connected(gen))
                                         /\ \A i \in Gens : On(order, i) /\ gen'[i].conn = "ok" => i \in Connected(gen)
      OBVIOUS
    <2>2. Leads(order, f, Connected(gen))
      BY <1>3, <1>16, <2>1 DEF Replicated
    <2>3. \A i \in Gens : On(order, i) /\ gen'[i].conn = "ok" => i \in Connected(gen)
      BY <1>16, <2>1 DEF NoneBack, Connected
    <2>4. \A i \in Connected(gen') : On(order, i) => i \in Connected(gen)
      BY <2>3 DEF Connected
    <2> QED BY <1>4, <2>2, <2>3, <2>4, LeadsMonotone
  <1>21. Replicates(a, h, j, q)
    <2>1. h.src = h.first => \A m \in 1..Len(it) : Reached(gen'[j], unseen', j, it[m])
      BY <1>17 DEF Reached, Steady, Lists
    <2>2. ~lost /\ f.first # None => gen'[f.first].conn = "ok"
      BY <1>3, <1>4, <1>17 DEF Replicated
    <2>3. Leads(order, h, Gens \ Remote)
      BY <1>3, <1>19 DEF Replicated
    <2>4. ~unseen' => Leads(order, h, Connected(gen'))
      BY <1>19, <1>20
    <2>5. ~unseen' => Unlisted(h)
      <3>1. SUFFICES ASSUME ~unseen', f.first # None, On(td, f.first) PROVE it = << >>
        BY <1>11 DEF Unlisted
      <3>2. j \notin Connected(gen)
        BY <1>19, <1>20, <3>1
      <3>3. gen'[j].conn # "ok"
        BY <1>7, <1>9, <1>20, <3>1, <3>2
      <3> QED BY <1>17, <3>3
    <2>6. Grows(stack, stack', a, a + 1, j, q)
      BY <1>12, <1>13
    <2> QED BY <1>3, <1>11, <1>13, <1>18, <2>1, <2>2, <2>3, <2>4, <2>5, <2>6 DEF Replicates
  <1>22. Compares(h)
    <2>1. SUFFICES ASSUME ~dropped, ~unseen', lost => Len(order) <= 2, f.first \in Connected(gen'), ~On(td, f.first),
                          NEW l \in Connected(gen'), NEW k \in Keys, On(order, l)
                   PROVE  Compared(order, gen', stack', h, l, k)
      BY <1>11 DEF Compares
    <2>2. /\ f.first \in Gens /\ l \in Gens /\ gen'[l].conn = "ok" /\ gen'[f.first].conn = "ok" /\ f.first # None
          /\ On(order, f.first)
      BY <1>4, <2>1, ReplicaAssumption DEF Connected, FrameOK
    <2>3. l \in Connected(gen) /\ f.first \in Connected(gen)
      BY <1>20, <2>1, <2>2
    <2>4. gen'[l].val = gen[l].val /\ gen'[f.first].val = gen[f.first].val
      BY <1>17, <2>2
    <2>5. CASE ~On(q0, f.first)
      <3>1. Compared(order, gen, stack, f, l, k)
        BY <1>3, <1>5, <1>16, <2>1, <2>3, <2>5 DEF Replicated
      <3>2. ~Carries(f.items, k)
        BY <1>4 DEF Carries
      <3>3. CASE Same(gen, stack, f.first, l, k)
        <4>1. Same(gen', stack', f.first, l, k)
          BY <1>16, <2>1, <2>2, <3>3, SameKept
        <4> QED BY <1>11, <4>1 DEF Compared
      <3>4. CASE gen[f.first].val[k] = Null /\ On(q0, l)
        <4>1. CASE On(td, l)
          BY <1>11, <2>4, <3>4, <4>1 DEF Compared, Uncompared
        <4>2. CASE l = j /\ gen[l].val[k] = Null
          BY <1>11, <2>4, <3>4, <4>2 DEF Compared, Same
        <4>3. CASE l = j /\ gen[l].val[k] # Null
          <5>1. Carries(it, k)
            BY <1>17, <2>1, <2>2, <2>4, <4>3 DEF Lists
          <5> QED BY <1>11, <2>4, <3>4, <4>3, <5>1 DEF Compared, Uncompared
        <4> QED BY <1>8, <3>4, <4>1, <4>2, <4>3
      <3> QED BY <1>5, <3>1, <3>2, <3>3, <3>4 DEF Compared, Uncompared
    <2>6. CASE On(q0, f.first)
      <3>1. f.first = j
        BY <1>8, <2>1, <2>6
      <3>2. CASE gen'[j].val[k] # Null
        <4>1. Carries(it, k)
          BY <1>17, <2>1, <2>2, <3>1, <3>2 DEF Lists
        <4> QED BY <1>11, <3>1, <4>1 DEF Compared
      <3>3. CASE gen'[j].val[k] = Null
        <4>1. On(q0, l)
          BY <1>5, <1>20, <2>1, <2>2, <2>3, <2>6 DEF Leads
        <4>2. CASE l = j
          BY <1>11, <3>1, <4>2 DEF Compared, Same
        <4>3. CASE On(td, l)
          BY <1>11, <3>1, <3>3, <4>3 DEF Compared, Uncompared
        <4> QED BY <1>8, <4>1, <4>2, <4>3
      <3> QED BY <3>2, <3>3
    <2> QED BY <2>5, <2>6
  <1>23. Announces(h)
    <2>1. SUFFICES ASSUME ~dropped, ~lost, f.first # None, NEW l \in Gens \ Remote, NEW k \in Keys, On(order, l)
                   PROVE  Announced(gen', stack', deltas, seen, h, l, k)
      BY <1>11 DEF Announces
    <2>2. Announced(gen, stack, deltas, seen, f, l, k)
      BY <1>3, <2>1 DEF Replicated
    <2>3. f.first \in Gens /\ gen'[f.first].conn = "ok" /\ gen'[l].conn = "ok"
      BY <1>3, <1>4, <1>17, <2>1 DEF Replicated
    <2>4. gen'[l].val = gen[l].val /\ gen'[f.first].val = gen[f.first].val
      BY <1>17, <2>3
    <2>5. CASE Known(gen, stack, deltas, seen, l, k)
      <3>1. Pending(gen, stack, k) => Pending(gen', stack', k)
        BY <1>16, <2>1 DEF Mild
      <3> QED BY <2>4, <2>5, <3>1 DEF Announced, Known
    <2>6. CASE On(q0, l) /\ (On(q0, f.first) \/ gen[f.first].val[k] = Null)
      <3>1. On(td, f.first) \/ gen'[f.first].val[k] = Null \/ (h.src = h.first /\ Carries(it, k))
        <4>1. CASE f.first = j /\ gen'[j].val[k] # Null
          <5>1. Carries(it, k)
            BY <1>17, <2>1, <2>3, <4>1 DEF Lists
          <5> QED BY <1>11, <4>1, <5>1
        <4>2. CASE f.first # j \/ gen'[j].val[k] = Null
          BY <1>8, <2>4, <2>6, <4>2
        <4> QED BY <4>1, <4>2
      <3>2. CASE On(td, l)
        BY <1>11, <3>1, <3>2 DEF Announced, Uncompared
      <3>3. CASE l = j /\ gen'[l].val[k] = Null
        BY <3>3 DEF Announced, Known
      <3>4. CASE l = j /\ gen'[l].val[k] # Null
        <4>1. Carries(it, k)
          BY <1>17, <2>1, <2>3, <3>4 DEF Lists
        <4> QED BY <1>11, <3>1, <3>4, <4>1 DEF Announced, Uncompared
      <3> QED BY <1>8, <2>6, <3>2, <3>3, <3>4
    <2>7. ~Carries(f.items, k)
      BY <1>4 DEF Carries
    <2> QED BY <1>5, <2>2, <2>5, <2>6, <2>7 DEF Announced, Uncompared
  <1> QED BY <1>1, <1>2, <1>14, <1>15, <1>21, <1>22, <1>23, ReplicatesStep

LEMMA NothingMore ==
    ASSUME NEW q \in Seq(Change)
    PROVE  q \o << >> = q
  OBVIOUS

\* Notices are read twice.
LEMMA HandsTwice ==
    ASSUME NEW i \in Gens, On(order, i), NEW x, NEW h, NEW y, NEW q1, NEW q2, HandsOver(i, x, h, q1), HandsOver(i, h, y, q2),
           h.conn = "ok", NEW q, q = q1 \o q2
    PROVE  HandsOver(i, x, y, q)
  <1>1. q1 \in Seq(Change) /\ q2 \in Seq(Change) /\ y.conn = "ok"
    BY DEF HandsOver
  <1>2. /\ q \in Seq(Change) /\ Len(q1) \in Nat /\ Len(q2) \in Nat /\ Len(q) = Len(q1) + Len(q2)
        /\ \A n \in 1..Len(q1) : q[n] = q1[n] /\ n \in 1..Len(q)
        /\ \A n \in 1..Len(q2) : q[Len(q1) + n] = q2[n] /\ Len(q1) + n \in 1..Len(q)
        /\ \A n \in 1..Len(q) : n \in 1..Len(q1) \/ (n - Len(q1) \in 1..Len(q2) /\ q[n] = q2[n - Len(q1)])
    BY <1>1, ConcatFacts
  <1>3. \A k : (Carries(q1, k) => Carries(q, k)) /\ (Carries(q2, k) => Carries(q, k))
    BY <1>2 DEF Carries
  <1>4. ASSUME NEW k \in Keys
        PROVE  /\ h.val[k] = x.val[k] \/ Carries(q1, k) \/ Carries(h.inbox, k)
               /\ y.val[k] = h.val[k] \/ Carries(q2, k) \/ Carries(y.inbox, k)
               /\ Carries(x.inbox, k) => Carries(q1, k) \/ Carries(h.inbox, k)
               /\ Carries(h.inbox, k) => Carries(q2, k) \/ Carries(y.inbox, k)
    BY <1>1 DEF HandsOver, MovesAt
  <1>5. \A k \in Keys : MovesAt(i, order, x, y, q, k) /\ (Carries(x.inbox, k) => Carries(q, k) \/ Carries(y.inbox, k))
    BY <1>3, <1>4 DEF MovesAt
  <1>6. Leaves(y, q)
    <2>1. SUFFICES ASSUME NEW n \in 1..Len(q)
                   PROVE  \/ y.val[q[n].key] = q[n].value \/ Carries(y.inbox, q[n].key)
                          \/ \E m \in 1..Len(q) : m > n /\ q[m].key = q[n].key
      BY DEF Leaves
    <2>2. CASE n \in 1..Len(q1)
      <3>1. q[n] = q1[n] /\ q[n].key \in Keys
        <4>1. q[n] = q1[n]
          BY <1>2, <2>2
        <4>2. q1[n] \in Change
          BY <1>1, <2>2
        <4> QED BY <4>1, <4>2 DEF Change
      <3>2. CASE \E m \in 1..Len(q1) : m > n /\ q1[m].key = q1[n].key
        BY <1>2, <3>1, <3>2
      <3>3. CASE Carries(q2, q[n].key)
        <4>1. PICK m \in 1..Len(q2) : q2[m].key = q[n].key
          BY <3>3 DEF Carries
        <4>2. Len(q1) + m > n
          BY <1>2, <2>2, <4>1
        <4>3. q[Len(q1) + m].key = q[n].key /\ Len(q1) + m \in 1..Len(q)
          BY <1>2, <4>1
        <4> QED BY <4>2, <4>3
      <3>4. CASE h.val[q1[n].key] = q1[n].value \/ Carries(h.inbox, q1[n].key)
        BY <1>4, <3>1, <3>3, <3>4
      <3>5. \/ h.val[q1[n].key] = q1[n].value \/ Carries(h.inbox, q1[n].key)
            \/ \E m \in 1..Len(q1) : m > n /\ q1[m].key = q1[n].key
        BY <2>2 DEF HandsOver, Leaves
      <3> QED BY <3>2, <3>4, <3>5
    <2>3. CASE ~(n \in 1..Len(q1))
      <3>1. PICK l \in 1..Len(q2) : l = n - Len(q1)
        BY <1>2, <2>1, <2>3
      <3>2. q[n] = q2[l] /\ n = Len(q1) + l
        BY <1>2, <2>1, <2>3, <3>1
      <3>3. CASE y.val[q2[l].key] = q2[l].value \/ Carries(y.inbox, q2[l].key)
        BY <3>2, <3>3
      <3>4. CASE \E m \in 1..Len(q2) : m > l /\ q2[m].key = q2[l].key
        <4>1. PICK m \in 1..Len(q2) : m > l /\ q2[m].key = q2[l].key
          BY <3>4
        <4>2. Len(q1) + m > n
          BY <1>2, <3>2, <4>1
        <4>3. q[Len(q1) + m].key = q[n].key /\ Len(q1) + m \in 1..Len(q)
          BY <1>2, <3>2, <4>1
        <4> QED BY <4>2, <4>3
      <3>5. \/ y.val[q2[l].key] = q2[l].value \/ Carries(y.inbox, q2[l].key)
            \/ \E m \in 1..Len(q2) : m > l /\ q2[m].key = q2[l].key
        BY DEF HandsOver, Leaves
      <3> QED BY <3>3, <3>4, <3>5
    <2> QED BY <2>2, <2>3
  <1>7. y \in Generator /\ GenOK(i, y, order, up[i], now) /\ (x.conn = "broken" => y.conn # "ok")
    BY DEF HandsOver
  <1> QED BY <1>1, <1>2, <1>5, <1>6, <1>7 DEF HandsOver

\* What replicate() has found elsewhere goes to the first generator, if it has no
\* value for the key.
Fills(i, c, y, q) ==
    /\ HandsOver(i, gen[i], y, q)
    /\ y.conn = "ok" /\ gen[i].val[c.key] = Null => y.val[c.key] = c.value

LEMMA FillFacts ==
    ASSUME Base, NEW i \in Gens, On(order, i), NEW c \in Change, NEW t, t = Touch(gen[i], i),
           NEW missing \in BOOLEAN, missing <=> (t.conn # "ok" \/ t.val[c.key] = Null),
           NEW h, h = IF t.conn = "ok" THEN [t EXCEPT !.inbox = << >>] ELSE t,
           NEW y, y = IF missing THEN Put(h, i, c, TRUE) ELSE h,
           NEW q, q = (IF t.conn = "ok" THEN t.inbox ELSE << >>) \o (IF missing THEN Notices(h, i, c, TRUE) ELSE << >>)
    PROVE  Fills(i, c, y, q)
  <1>1. /\ gen[i] \in Generator /\ GenOK(i, gen[i], order, up[i], now) /\ Attempts(gen[i], now)
        /\ now \in Nat /\ up[i] \in BOOLEAN
    BY GenFacts
  <1>2. Looked(gen[i], t) /\ Attempts(t, now)
    BY <1>1, TouchFacts
  <1>3. t \in Generator /\ t.inbox = gen[i].inbox /\ t.val = gen[i].val
    BY <1>2 DEF Looked
  <1>4. CASE t.conn # "ok"
    <2>1. h = t /\ missing
      BY <1>4
    <2>2. Put(h, i, c, TRUE) = h /\ Notices(h, i, c, TRUE) = << >>
      BY <1>4, <2>1 DEF Put, Notices
    <2>3. y = t /\ q = << >> \o << >>
      BY <1>4, <2>1, <2>2
    <2>4. q = << >>
      <3>1. << >> \in Seq(Change)
        BY ONLY TRUE
      <3> QED BY ONLY <2>3, <3>1, NothingMore
    <2>5. GenOK(i, y, order, up[i], now)
      BY <1>1, <1>2, <2>3, GenOKLooked
    <2>6. \A k \in Keys : MovesAt(i, order, gen[i], y, q, k)
      BY <1>2, <2>3, LookedMoves
    <2>7. << >> \in Seq(Change) /\ Leaves(y, << >>)
      BY ONLY NothingLeft
    <2>8. HandsOver(i, gen[i], y, q)
      BY <1>2, <2>3, <2>4, <2>5, <2>6, <2>7 DEF HandsOver, Looked
    <2> QED BY <1>4, <2>3, <2>8 DEF Fills
  <1>5. CASE t.conn = "ok"
    <2>1. h = [t EXCEPT !.inbox = << >>]
      BY <1>5
    <2>2. h \in Generator /\ h.val = t.val /\ h.conn = "ok"
      <3>1. << >> \in Seq(Change)
        OBVIOUS
      <3> QED BY <1>3, <1>5, <2>1, <3>1 DEF Generator
    <2>3. PICK x, q1 : x = gen[i] /\ q1 = x.inbox
      OBVIOUS
    <2>4. HandsOver(i, x, h, q1)
      BY <1>1, <1>2, <2>1, <2>3, ReadAll
    <2>5. q1 \in Seq(Change) /\ GenOK(i, h, order, up[i], now) /\ Attempts(h, now)
      BY <2>4 DEF HandsOver, GenOK
    <2>6. CASE ~missing
      <3>1. y = h /\ q = q1 \o << >> /\ gen[i].val[c.key] # Null
        BY <1>3, <1>5, <2>3, <2>6
      <3>2. q = q1
        BY ONLY <2>5, <3>1, NothingMore
      <3> QED BY <2>3, <2>4, <3>1, <3>2 DEF Fills
    <2>7. CASE missing
      <3>1. PICK q2 : q2 = Notices(h, i, c, TRUE)
        OBVIOUS
      <3>2. y = Put(h, i, c, TRUE) /\ q = q1 \o q2
        BY <1>3, <1>5, <2>3, <2>7, <3>1
      <3>3. i \in Gens /\ On(order, i) /\ c \in Change /\ Looked(h, h)
        BY <2>2, SelfLooked
      <3>4. HandsOver(i, h, y, q2) /\ y.val[c.key] = c.value
        <4>1. PICK arrived \in BOOLEAN : arrived = TRUE
          BY ONLY TRUE
        <4>2. y = Put(h, i, c, arrived) /\ q2 = Notices(h, i, c, arrived)
          BY ONLY <3>1, <3>2, <4>1
        <4> QED BY ONLY <2>2, <2>5, <3>3, <4>2, PutHands
      <3>5. HandsOver(i, x, y, q)
        BY ONLY <2>2, <2>4, <3>2, <3>3, <3>4, HandsTwice
      <3> QED BY <2>3, <3>4, <3>5 DEF Fills
    <2> QED BY <2>6, <2>7
  <1> QED BY <1>4, <1>5

LEMMA replicate_missingStep ==
    ASSUME ReplicaInv, replicate_missing
    PROVE  ReplicaInv'
  <1>0. Base /\ Types /\ order \in Seq(Gens) /\ Distinct(order)
    BY DEF ReplicaInv, Knows, Base, Types
  <1>1. /\ At("replicate") /\ dropped' = dropped /\ Inside /\ Outside /\ Top.items # << >> /\ Top.src # Top.first /\ Top.first # None
    BY DEF replicate_missing
  <1>2. PICK a, f : a = Len(stack) - 1 /\ f = Top
    OBVIOUS
  <1>3. a \in Nat /\ Keeps(stack, Pop, a) /\ Len(Pop) = a /\ Replicated(f)
    BY <1>1, <1>2, ReplicateFacts
  <1>4. /\ f \in FrameRec /\ f.pc = "replicate" /\ FrameOK(f, order) /\ f.items # << >> /\ f.todo \in Seq(Gens) /\ f.items \in Seq(Change)
        /\ f.first \in Gens /\ f.src \in Gens /\ f.src # f.first /\ On(order, f.first)
    <2>1. f \in FrameRec /\ f.pc = "replicate" /\ FrameOK(f, order) /\ f.items # << >> /\ f.src # f.first /\ f.first # None
      BY <1>1, <1>2, <1>3 DEF Replicated
    <2>2. f.src # None /\ On(order, f.first)
      BY <2>1 DEF FrameOK
    <2> QED BY <2>1, <2>2, FieldsOf
  <1>5. PICK i \in Gens : i = f.first
    BY <1>4
  <1>6. PICK it0, it, c : it0 = f.items /\ it = Tail(it0) /\ c = Head(it0)
    OBVIOUS
  <1>7. /\ it \in Seq(Change) /\ c \in Change /\ c = it0[1] /\ 1 \in 1..Len(it0) /\ c.key \in Keys
        /\ \A n \in 1..Len(it) : it[n] = it0[n + 1] /\ n + 1 \in 1..Len(it0)
        /\ \A n \in 1..Len(it0) : n = 1 \/ (n - 1 \in 1..Len(it) /\ it[n - 1] = it0[n])
    <2>1. it0 \in Seq(Change) /\ it0 # << >>
      BY <1>4, <1>6
    <2>2. /\ it \in Seq(Change) /\ c \in Change /\ c = it0[1] /\ 1 \in 1..Len(it0)
          /\ \A n \in 1..Len(it) : it[n] = it0[n + 1] /\ n + 1 \in 1..Len(it0)
          /\ \A n \in 1..Len(it0) : n = 1 \/ (n - 1 \in 1..Len(it) /\ it[n - 1] = it0[n])
      BY <1>6, <2>1, TailFacts
    <2> QED BY <2>2 DEF Change
  <1>8. c.value # Null
    BY <1>4, <1>6, <1>7 DEF FrameOK
  <1>9. PICK h : h = [f EXCEPT !.items = it]
    OBVIOUS
  <1>10. h \in FrameRec /\ h.pc = "replicate" /\ h.src = f.src /\ h.first = i /\ h.todo = f.todo /\ h.items = it
    <2>1. GoesOn(f, f.todo, f.src, it, h)
      BY <1>9 DEF GoesOn
    <2> QED BY <1>4, <1>5, <1>7, <2>1, ReplicateFrame
  <1>11. PICK y, q : gen' = [gen EXCEPT ![i] = y] /\ Fills(i, c, y, q) /\ stack' = Append(Pop, h) \o Callbacks(i, q)
    <2>1. PICK t : t = Touch(gen[i], i)
      OBVIOUS
    <2>2. PICK missing \in BOOLEAN : missing <=> (t.conn # "ok" \/ t.val[c.key] = Null)
      OBVIOUS
    <2>3. PICK x : x = IF t.conn = "ok" THEN [t EXCEPT !.inbox = << >>] ELSE t
      OBVIOUS
    <2>4. PICK y, q : /\ y = IF missing THEN Put(x, i, c, TRUE) ELSE x
                      /\ q = (IF t.conn = "ok" THEN t.inbox ELSE << >>) \o (IF missing THEN Notices(x, i, c, TRUE) ELSE << >>)
      OBVIOUS
    <2>5. Fills(i, c, y, q)
      BY <1>0, <1>4, <1>5, <1>7, <2>1, <2>2, <2>3, <2>4, FillFacts
    <2>6. /\ gen' = [gen EXCEPT ![i] = IF t.conn # "ok" \/ t.val[c.key] = Null THEN Put(x, i, c, TRUE) ELSE x]
          /\ stack' = Append(Pop, [f EXCEPT !.items = it])
                      \o Callbacks(i, (IF t.conn = "ok" THEN t.inbox ELSE << >>)
                                      \o (IF t.conn # "ok" \/ t.val[c.key] = Null THEN Notices(x, i, c, TRUE) ELSE << >>))
      BY <1>2, <1>5, <1>6, <2>1, <2>3 DEF replicate_missing, Becomes
    <2> QED BY <1>9, <2>2, <2>4, <2>5, <2>6
  <1>12. PICK b \in Nat : b = a + 1
    BY <1>3
  <1>13. Grows(stack, stack', a, b, i, q) /\ stack'[a + 1] = h
    <2>1. PICK p : p = Append(Pop, h)
      OBVIOUS
    <2>2. Pushed(stack, p, a, h)
      BY <1>3, <1>10, <2>1, AppendKeeps
    <2>3. Keeps(stack, p, a) /\ Len(p) = b /\ p[b] = h /\ b \in 1..b
      BY <1>3, <1>12, <2>2 DEF Pushed
    <2>4. stack' = p \o Callbacks(i, q) /\ q \in Seq(Change)
      BY <1>11, <2>1 DEF Fills, HandsOver
    <2>5. Grows(stack, stack', a, b, i, q) /\ Under(p, stack', b)
      BY <1>5, <2>3, <2>4, BatchKeeps
    <2> QED BY <1>12, <2>3, <2>5 DEF Under
  <1>14. Around
    <2>1. budget \in 0..Budget
      BY <1>0 DEF Types
    <2> QED BY <1>1, <2>1 DEF Around, Inside, Outside
  <1>15. OneHandsOver(i, q) /\ gen'[i] = y /\ GensChange(i, q)
    <2>1. gen \in [Gens -> Generator] /\ \A j \in Gens : Looked(gen[j], gen[j]) /\ Attempts(gen[j], now)
      BY <1>0, <1>5, GenFacts
    <2>2. OneHandsOver(i, q)
      BY <1>5, <1>11, <2>1, OneChanges DEF Fills
    <2> QED BY <1>0, <1>5, <1>11, <2>1, <2>2, OneGens
  <1>16. /\ \A k \in Keys : Mild(order, gen, stack, gen', stack', k)
         /\ ~unseen' => ~unseen /\ NoneBack(order, gen, gen')
    BY <1>1, <1>2, <1>10, <1>12, <1>13, <1>14, <1>15, ReplicatingMild
  <1>17. /\ \A j \in Gens : gen[j].conn = "ok" => gen'[j].conn = "ok"
         /\ \A j \in Gens \ Remote : gen'[j].conn = "ok"
    BY <1>15 DEF GensChange, GenOK
  <1>18. gen'[i].conn = "ok" => gen[i].val[c.key] # Null \/ Pending(gen', stack', c.key)
    <2>1. gen'[i].conn = "ok" /\ gen[i].val[c.key] = Null => gen'[i].val[c.key] # gen[i].val[c.key]
      BY <1>8, <1>11, <1>15 DEF Fills
    <2> QED BY <1>4, <1>5, <1>7, <1>16, <2>1 DEF Mild
  <1>19. \A k : Carries(f.items, k) => Carries(it, k) \/ k = c.key
    <2>1. SUFFICES ASSUME NEW k, Carries(f.items, k), k # c.key PROVE Carries(it, k)
      OBVIOUS
    <2>2. PICK n \in 1..Len(it0) : it0[n].key = k
      BY <1>6, <2>1 DEF Carries
    <2>3. n - 1 \in 1..Len(it) /\ it[n - 1].key = k
      BY <1>7, <2>1, <2>2
    <2> QED BY <2>3 DEF Carries
  <1>20. ASSUME NEW l, NEW k, Uncompared(f, l, k), k # c.key PROVE Uncompared(h, l, k)
    BY <1>10, <1>19, <1>20 DEF Uncompared
  <1>21. FrameOK(h, order)
    BY <1>4, <1>5, <1>6, <1>7, <1>10 DEF FrameOK
  <1>22. \A C : Leads(order, f, C) => Leads(order, h, C)
    BY <1>5, <1>10 DEF Leads
  <1>23. Replicates(a, h, i, q)
    <2>1. ~lost => gen'[i].conn = "ok"
      BY <1>1, <1>2, <1>3, <1>5, <1>17 DEF Replicated
    <2>2. Leads(order, h, Gens \ Remote)
      BY <1>3, <1>22 DEF Replicated
    <2>3. ~unseen' => Leads(order, h, Connected(gen')) /\ Unlisted(h)
      <3>1. SUFFICES ASSUME ~unseen' PROVE Leads(order, h, Connected(gen')) /\ Unlisted(h)
        OBVIOUS
      <3>2. Leads(order, f, Connected(gen)) /\ Unlisted(f)
        BY <1>3, <1>16, <3>1 DEF Replicated
      <3>3. \A j \in Connected(gen') : On(order, j) => j \in Connected(gen)
        BY <1>16, <3>1 DEF NoneBack, Connected
      <3>4. Leads(order, f, Connected(gen'))
        BY <1>4, <3>2, <3>3, LeadsMonotone
      <3>5. Unlisted(h)
        BY <1>4, <1>5, <1>10, <3>2 DEF Unlisted
      <3> QED BY <1>22, <3>4, <3>5
    <2>4. Grows(stack, stack', a, a + 1, i, q)
      BY <1>12, <1>13
    <2> QED BY <1>3, <1>4, <1>5, <1>10, <1>13, <1>21, <2>1, <2>2, <2>3, <2>4 DEF Replicates
  <1>24. Compares(h)
    <2>1. SUFFICES ASSUME ~dropped, ~unseen', lost => Len(order) <= 2, i \in Connected(gen'), ~On(f.todo, i),
                          NEW l \in Connected(gen'), NEW k \in Keys, On(order, l)
                   PROVE  Compared(order, gen', stack', h, l, k)
      BY <1>10 DEF Compares
    <2>2. l \in Gens /\ gen'[l].conn = "ok" /\ gen'[i].conn = "ok" /\ On(order, i)
      BY <1>4, <1>5, <2>1 DEF Connected
    <2>3. l \in Connected(gen) /\ i \in Connected(gen) /\ ~unseen
      BY <1>16, <2>1, <2>2 DEF NoneBack, Connected
    <2>4. Compared(order, gen, stack, f, l, k)
      BY <1>3, <1>5, <2>1, <2>3 DEF Replicated
    <2>5. CASE Same(gen, stack, i, l, k)
      <3>1. Same(gen', stack', i, l, k)
        BY <1>16, <2>1, <2>2, <2>5, SameKept
      <3> QED BY <1>10, <3>1 DEF Compared
    <2>6. CASE Pending(gen', stack', k)
      BY <1>10, <2>6 DEF Compared, Same
    <2>7. CASE gen[i].val[k] = Null /\ Uncompared(f, l, k) /\ ~Pending(gen', stack', k)
      <3>1. k # c.key
        BY <1>18, <2>2, <2>7
      <3>2. gen'[i].val[k] = Null
        BY <1>16, <2>1, <2>2, <2>7 DEF Mild
      <3>3. Uncompared(h, l, k)
        BY <1>20, <2>7, <3>1
      <3> QED BY <1>10, <3>2, <3>3 DEF Compared
    <2> QED BY <1>4, <1>5, <2>4, <2>5, <2>6, <2>7 DEF Compared
  <1>25. Announces(h)
    <2>1. SUFFICES ASSUME ~dropped, ~lost, NEW l \in Gens \ Remote, NEW k \in Keys, On(order, l)
                   PROVE  Announced(gen', stack', deltas, seen, h, l, k)
      BY <1>10 DEF Announces
    <2>2. f.first # None /\ gen'[i].conn = "ok" /\ gen'[l].conn = "ok" /\ On(order, i)
      BY <1>1, <1>2, <1>3, <1>4, <1>5, <1>17, <2>1 DEF Replicated
    <2>3. Announced(gen, stack, deltas, seen, f, l, k)
      BY <1>3, <2>1, <2>2 DEF Replicated
    <2>4. CASE Pending(gen', stack', k)
      BY <2>4 DEF Announced, Known
    <2>5. CASE ~Pending(gen', stack', k)
      <3>1. gen'[l].val[k] = gen[l].val[k] /\ gen'[i].val[k] = gen[i].val[k] /\ ~Pending(gen, stack, k)
        BY <1>5, <1>16, <2>1, <2>2, <2>5 DEF Mild
      <3>2. CASE Known(gen, stack, deltas, seen, l, k)
        BY <3>1, <3>2 DEF Announced, Known
      <3>3. CASE On(f.todo, i)
        <4>1. On(f.todo, l)
          BY <1>3, <1>5, <2>1, <2>2, <3>3 DEF Replicated, Leads
        <4> QED BY <1>10, <3>3, <4>1 DEF Announced, Uncompared
      <3>4. CASE gen[i].val[k] = Null /\ Uncompared(f, l, k)
        <4>1. k # c.key
          BY <1>18, <2>2, <2>5, <3>4
        <4>2. Uncompared(h, l, k)
          BY <1>20, <3>4, <4>1
        <4> QED BY <1>10, <3>1, <3>4, <4>2 DEF Announced
      <3> QED BY <1>4, <1>5, <2>3, <3>2, <3>3, <3>4 DEF Announced
    <2> QED BY <2>4, <2>5
  <1> QED BY <1>1, <1>2, <1>14, <1>15, <1>23, <1>24, <1>25, ReplicatesStep

\* first->gen was used although there was no first generator.
LEMMA replicate_crashesStep ==
    ASSUME ReplicaInv, replicate_crashes
    PROVE  ReplicaInv'
  <1>0. Base /\ Knows /\ Types
    BY DEF ReplicaInv, Knows, Base
  <1>1. gen' = gen /\ dropped' = dropped /\ Inside /\ Outside /\ stack' = <<Frame("crashed")>>
    BY DEF replicate_crashes
  <1>2. StillThere /\ deltas' = deltas /\ seen' = seen
    BY <1>0, <1>1, InsideStill
  <1>3. PICK f : f = Frame("crashed")
    OBVIOUS
  <1>4. f \in FrameRec /\ f.pc = "crashed"
    BY <1>3, FrameFacts
  <1>5. stack' \in Seq(FrameRec) /\ Len(stack') = 1 /\ stack'[1] = f
    BY <1>1, <1>3, <1>4
  <1>6. \A n \in 1..Len(stack') : n = 1 /\ n = Len(stack') /\ stack'[n] = f
    BY <1>5
  <1>7. 1 \in 1..Len(stack')
    BY <1>5
  <1>8. Base'
    <2>1. Shape(stack')
      BY <1>6 DEF Shape
    <2>2. \A n \in 1..Len(stack') : FrameOK(stack'[n], order)
      BY <1>4, <1>6 DEF FrameOK
    <2>3. Has(stack', {"replicate", "flush", "crashed"})
      BY <1>4, <1>5, <1>7 DEF Has
    <2>4. deltas' \in Seq(Change) /\ seen' \in Contents /\ dropped' \in BOOLEAN
      BY <1>0, <1>1, <1>2 DEF Types
    <2> QED BY <1>0, <1>2, <1>5, <2>1, <2>2, <2>3, <2>4, StillBase
  <1>9. Knows'
    <2>1. SameReplicates(stack, stack') /\ SourcedAll(gen, stack', unseen) /\ PassedAll(order, gen, stack', unseen)
      BY <1>4, <1>6 DEF SameReplicates, SourcedAll, PassedAll
    <2> QED BY <1>0, <1>2, <1>8, <2>1, StillKnows
  <1>10. Has(stack', Replicating) /\ \A n \in 1..Len(stack') : stack'[n].pc # "replicate"
    BY <1>4, <1>5, <1>6, <1>7 DEF Has, Replicating
  <1>11. AgreeAll(order', gen', stack') /\ WatchAll(order', gen', stack', deltas', seen')
    BY <1>10, NothingYet
  <1> QED BY <1>9, <1>11 DEF ReplicaInv, Agrees, Watched

\* replicate() has compared everything.
LEMMA replicate_endsStep ==
    ASSUME ReplicaInv, replicate_ends
    PROVE  ReplicaInv'
  <1>0. Base /\ Knows /\ Types /\ stack \in Seq(FrameRec) /\ Shape(stack) /\ order \in Seq(Gens)
    BY DEF ReplicaInv, Knows, Base, Types
  <1>1. /\ At("replicate") /\ gen' = gen /\ dropped' = dropped /\ Inside /\ Outside /\ Top.items = << >> /\ Top.todo = << >>
        /\ stack' = IF \E n \in 1..Len(Pop) : stack[n].pc \in {"replicate", "flush"} THEN Pop ELSE Becomes(Frame("flush"))
    BY DEF replicate_ends
  <1>2. PICK a, f : a = Len(stack) - 1 /\ f = Top
    OBVIOUS
  <1>3. /\ a \in Nat /\ Keeps(stack, Pop, a) /\ Len(Pop) = a /\ Len(stack) = a + 1 /\ Calm(stack, a) /\ Replicated(f)
        /\ \A n \in 1..Len(stack) : n > a => stack[n] = f
    BY <1>1, <1>2, ReplicateFacts
  <1>4. /\ f \in FrameRec /\ f.pc = "replicate" /\ FrameOK(f, order) /\ f.items = << >> /\ f.todo = << >> /\ f.first \in Gens \cup {None}
        /\ f.first # None => On(order, f.first)
    <2>1. f \in FrameRec /\ f.pc = "replicate" /\ FrameOK(f, order) /\ f.items = << >> /\ f.todo = << >>
      BY <1>1, <1>2, <1>3 DEF Replicated
    <2> QED BY <2>1, FieldsOf DEF FrameOK
  <1>5. StillThere /\ deltas' = deltas /\ seen' = seen
    BY <1>0, <1>1, InsideStill
  <1>6. PICK e : e = Frame("flush")
    OBVIOUS
  <1>7. e \in FrameRec /\ e.pc = "flush"
    BY <1>6, FrameFacts
  <1>8. \/ stack' = Pop /\ \E n \in 1..a : stack[n].pc \in {"replicate", "flush"}
        \/ stack' = Append(Pop, e)
    BY <1>1, <1>3, <1>6 DEF Becomes
  <1>9. /\ Keeps(stack, stack', a) /\ Shape(stack') /\ Has(stack', {"replicate", "flush", "crashed"})
        /\ \A n \in 1..Len(stack') : n > a => stack'[n] = e
    <2>1. CASE stack' = Pop /\ \E n \in 1..a : stack[n].pc \in {"replicate", "flush"}
      <3>1. Keeps(stack, stack', a) /\ Len(stack') = a
        BY <1>3, <2>1
      <3>2. Shape(stack')
        BY <1>0, <3>1, ShapePop
      <3>3. Has(stack', {"replicate", "flush", "crashed"})
        BY <2>1, <3>1 DEF Has, Keeps
      <3>4. \A n \in 1..Len(stack') : ~(n > a)
        BY <1>3, <3>1
      <3> QED BY <3>1, <3>2, <3>3, <3>4
    <2>2. CASE stack' = Append(Pop, e)
      <3>1. Pushed(stack, stack', a, e)
        BY <1>3, <1>7, <2>2, AppendKeeps
      <3>2. Keeps(stack, stack', a) /\ Len(stack') = a + 1 /\ stack'[a + 1] = e
        BY <3>1 DEF Pushed
      <3>3. \A n \in 1..Len(stack') : n > a => n = a + 1 /\ n <= a + 1
        BY <1>3, <3>2
      <3>4. PICK b \in Nat : b = a + 1
        BY <1>3
      <3>5. Fresh(stack', a, b, None)
        BY <1>7, <3>2, <3>3, <3>4 DEF Fresh, Notice, Tops
      <3>6. Shape(stack')
        BY <1>0, <1>3, <3>2, <3>4, <3>5, ShapeGrows
      <3>7. a + 1 \in 1..Len(stack')
        BY <1>3, <3>2
      <3>8. Has(stack', {"replicate", "flush", "crashed"})
        BY <1>7, <3>2, <3>7 DEF Has
      <3> QED BY <3>2, <3>3, <3>6, <3>8
    <2> QED BY <1>8, <2>1, <2>2
  <1>10. \A n \in 1..Len(stack') : n \in 1..a \/ (n > a /\ stack'[n] = e)
    BY <1>3, <1>9
  <1>11. ASSUME NEW n \in 1..Len(stack') PROVE stack'[n].pc \notin {"replicate", "pass", "begin", "crashed"}
    BY <1>3, <1>7, <1>9, <1>10 DEF Keeps, Calm, Tops
  <1>12. Base'
    <2>1. \A n \in 1..Len(stack') : FrameOK(stack'[n], order)
      <3>1. FrameOK(e, order)
        BY <1>7 DEF FrameOK
      <3>2. \A n \in 1..a : FrameOK(stack'[n], order)
        BY <1>0, <1>9, KeptFrames
      <3> QED BY <1>10, <3>1, <3>2
    <2>2. stack' \in Seq(FrameRec)
      BY <1>9 DEF Keeps
    <2>3. deltas' \in Seq(Change) /\ seen' \in Contents /\ dropped' \in BOOLEAN
      BY <1>0, <1>1, <1>5 DEF Types
    <2> QED BY <1>0, <1>5, <1>9, <2>1, <2>2, <2>3, StillBase
  <1>13. ~Has(stack', Replicating) /\ \A k : ~Passing(stack', k)
    BY <1>11 DEF Has, Replicating, Passing
  <1>14. Knows'
    <2>1. SameReplicates(stack, stack') /\ PassedAll(order, gen, stack', unseen)
      BY <1>11 DEF SameReplicates, PassedAll
    <2>2. ~dropped => SourcedAll(gen, stack', unseen)
      <3>1. ~Doomed(stack)
        <4>1. Len(stack) \in 1..Len(stack) /\ Len(stack) > a
          BY <1>3
        <4> QED BY <1>3, <1>4, <4>1 DEF Doomed
      <3>2. \A n \in 1..Len(stack') : n > a => stack'[n].pc \notin {"delta", "pass"}
        BY <1>7, <1>9
      <3>3. ~dropped => SourcedAll(gen, stack, unseen)
        BY <1>0, <3>1 DEF Knows
      <3> QED BY <1>9, <3>2, <3>3, SourcedBelow
    <2> QED BY <1>0, <1>1, <1>5, <1>12, <2>1, <2>2, StillKnows
  <1>15. ASSUME NEW k PROVE Pending(gen, stack, k) => Pending(gen, stack', k)
    <2>1. \A n \in 1..Len(stack) : n > a => stack[n].pc \notin {"delta", "pass"}
      BY <1>3, <1>4
    <2>2. Waits(stack, k) => Waits(stack', k)
      BY <1>9, <2>1, WaitsKept
    <2> QED BY <2>2 DEF Pending
  <1>16. \A j, k : ~On(f.todo, j) /\ ~Carries(f.items, k)
    BY <1>4 DEF On, Carries
  <1>17. \A j, k : ~Uncompared(f, j, k)
    BY <1>16 DEF Uncompared
  <1>18. Agrees'
    <2>1. SUFFICES ASSUME ~dropped, ~unseen, lost => Len(order) <= 2 PROVE AgreeAll(order, gen, stack')
      BY <1>1, <1>5 DEF Agrees, StillThere
    <2>2. CASE f.first \notin Connected(gen) /\ f.first # None
      <3>1. On(order, f.first) /\ gen[f.first].conn # "ok"
        BY <1>4, <2>2 DEF Connected
      <3>2. Len(order) <= 2 /\ Len(order) \in Nat
        BY <1>0, <1>3, <2>1, <2>2, <3>1 DEF Replicated
      <3>3. \A n \in 1..Len(stack') : stack'[n].pc = "replicate" /\ stack'[n].first \in Gens => On(order, stack'[n].first)
        BY <1>11
      <3> QED BY <3>1, <3>2, <3>3, AloneAgrees
    <2>3. ASSUME f.first \in Connected(gen) \/ f.first = None, NEW i \in Connected(gen), NEW j \in Connected(gen), NEW k \in Keys,
                 On(order, i), On(order, j)
          PROVE  Same(gen, stack', i, j, k)
      <3>1. f.first # None
        BY <1>3, <2>1, <2>3 DEF Replicated, Leads
      <3>2. Compared(order, gen, stack, f, i, k) /\ Compared(order, gen, stack, f, j, k)
        BY <1>3, <1>16, <2>1, <2>3, <3>1 DEF Replicated
      <3>3. Same(gen, stack, f.first, i, k) /\ Same(gen, stack, f.first, j, k)
        BY <1>16, <1>17, <3>2 DEF Compared
      <3> QED BY <1>15, <3>3 DEF Same
    <2>4. CASE f.first \in Connected(gen) \/ f.first = None
      BY <1>11, <2>3, <2>4 DEF AgreeAll
    <2> QED BY <2>2, <2>4
  <1>19. Watched'
    <2>1. SUFFICES ASSUME ~dropped, ~lost PROVE WatchAll(order, gen, stack', deltas, seen)
      BY <1>1, <1>5 DEF Watched, StillThere
    <2>2. ASSUME NEW i \in Gens \ Remote, NEW k \in Keys, On(order, i)
          PROVE  Known(gen, stack', deltas, seen, i, k)
      <3>1. f.first # None
        BY <1>3, <2>2 DEF Replicated, Leads
      <3>2. Announced(gen, stack, deltas, seen, f, i, k)
        BY <1>3, <2>1, <2>2, <3>1 DEF Replicated
      <3>3. Known(gen, stack, deltas, seen, i, k)
        BY <1>17, <3>2 DEF Announced
      <3> QED BY <1>15, <3>3 DEF Known
    <2> QED BY <1>11, <2>2 DEF WatchAll
  <1> QED BY <1>14, <1>18, <1>19 DEF ReplicaInv

-----------------------------------------------------------------------------
(* The theorems.                                                           *)

LEMMA InitialGenerators ==
    ASSUME Init
    PROVE  /\ gen \in [Gens -> Generator] /\ \A i \in Gens : gen[i].inbox = << >> /\ GenOK(i, gen[i], order, up[i], now)
  <1>1. PICK contents \in Starts :
           gen = [i \in Gens |-> [
              val |-> contents[i], conn |-> IF up[i] THEN "ok" ELSE "none", was_ok |-> up[i],
              inbox |-> << >>, next |-> IF up[i] THEN 0 ELSE Interval, since |-> 0,
              tries |-> IF up[i] THEN 0 ELSE 1]]
    BY DEF Init
  <1>2. /\ up \in [Gens -> BOOLEAN] /\ (\A i \in Gens \ Remote : up[i]) /\ now = 0
    BY DEF Init
  <1>3. Interval \in Nat
    BY ReplicaAssumption
  <1>4. ASSUME NEW i \in Gens PROVE contents[i] \in Contents
    BY ReplicaAssumption DEF Contents
  <1>5. << >> \in Seq(Change)
    OBVIOUS
  <1>6. ASSUME NEW i \in Gens
        PROVE  gen[i] \in Generator /\ gen[i].inbox = << >> /\ GenOK(i, gen[i], order, up[i], now)
    <2>1. /\ gen[i].val = contents[i] /\ gen[i].was_ok = up[i] /\ gen[i].inbox = << >> /\ gen[i].since = 0
          /\ gen[i].conn = IF up[i] THEN "ok" ELSE "none"
          /\ gen[i].next = IF up[i] THEN 0 ELSE Interval
          /\ gen[i].tries = IF up[i] THEN 0 ELSE 1
      BY <1>1
    <2>2. gen[i] \in Generator
      <3>1. gen[i] = [val |-> contents[i], conn |-> IF up[i] THEN "ok" ELSE "none", was_ok |-> up[i],
                      inbox |-> << >>, next |-> IF up[i] THEN 0 ELSE Interval, since |-> 0,
                      tries |-> IF up[i] THEN 0 ELSE 1]
        BY <1>1
      <3>2. /\ (IF up[i] THEN "ok" ELSE "none") \in {"none", "ok", "broken"} /\ up[i] \in BOOLEAN
            /\ (IF up[i] THEN 0 ELSE Interval) \in Nat /\ (IF up[i] THEN 0 ELSE 1) \in Nat /\ 0 \in Nat
        BY <1>2, <1>3
      <3> QED BY <1>4, <1>5, <3>1, <3>2 DEF Generator
    <2>3. Attempts(gen[i], now)
      <3>1. CASE up[i]
        <4>1. gen[i].next = 0 /\ gen[i].since = 0 /\ gen[i].tries = 0
          BY <2>1, <3>1
        <4>2. 0 * Interval = 0
          BY <1>3
        <4> QED BY <4>1, <4>2 DEF Attempts
      <3>2. CASE ~up[i]
        <4>1. gen[i].next = Interval /\ gen[i].since = 0 /\ gen[i].tries = 1
          BY <2>1, <3>2
        <4>2. 1 * Interval = Interval /\ (1 - 1) * Interval = 0 /\ 0 + Interval = Interval
          BY <1>3
        <4> QED BY <1>2, <4>1, <4>2 DEF Attempts
      <3> QED BY <3>1, <3>2
    <2>4. Current(gen[i])
      <3>1. \A n \in 1..Len(gen[i].inbox) : FALSE
        BY <2>1
      <3> QED BY <3>1 DEF Current
    <2>5. i \notin Remote => gen[i].conn = "ok" /\ up[i]
      BY <1>2, <2>1
    <2> QED BY <2>1, <2>2, <2>3, <2>4, <2>5 DEF GenOK
  <1>7. gen \in [Gens -> Generator]
    <2>1. gen = [i \in Gens |-> gen[i]]
      BY <1>1
    <2> QED BY <1>6, <2>1
  <1> QED BY <1>6, <1>7

LEMMA InitInv ==
    ASSUME Init
    PROVE  ReplicaInv
  <1>1. PICK f : f = Frame("begin")
    OBVIOUS
  <1>2. f \in FrameRec /\ f.pc = "begin"
    BY <1>1, FrameFacts
  <1>3. stack \in Seq(FrameRec) /\ Len(stack) = 1 /\ stack[1] = f
    BY <1>1, <1>2 DEF Init
  <1>4. \A n \in 1..Len(stack) : n = 1 /\ n = Len(stack) /\ stack[n] = f
    BY <1>3
  <1>5. 1 \in 1..Len(stack)
    BY <1>3
  <1>6. gen \in [Gens -> Generator] /\ \A i \in Gens : GenOK(i, gen[i], order, up[i], now)
    BY InitialGenerators
  <1>7. order \in Seq(Gens) /\ Distinct(order)
    <2>1. order \in Seq(Gens) /\ \A m, n \in DOMAIN order : order[m] = order[n] => m = n
      BY ReplicaAssumption DEF Init
    <2>2. DOMAIN order = 1..Len(order)
      BY <2>1
    <2> QED BY <2>1, <2>2 DEF Distinct
  <1>8. Types
    <2>1. deltas = << >> /\ up \in [Gens -> BOOLEAN] /\ dropped = FALSE /\ lost = FALSE /\ unseen = FALSE
      BY DEF Init
    <2>2. deltas \in Seq(Change)
      BY <2>1
    <2>3. seen \in Contents
      BY DEF Init, Contents
    <2>4. now \in 0..MaxTime /\ budget \in 0..Budget
      BY ReplicaAssumption DEF Init
    <2> QED BY <1>3, <1>6, <1>7, <2>1, <2>2, <2>3, <2>4 DEF Types
  <1>9. Base
    <2>1. Shape(stack)
      BY <1>4 DEF Shape
    <2>2. \A n \in 1..Len(stack) : FrameOK(stack[n], order)
      BY <1>2, <1>4 DEF FrameOK
    <2>3. deltas = << >>
      BY DEF Init
    <2> QED BY <1>6, <1>7, <1>8, <2>1, <2>2, <2>3 DEF Base
  <1>10. \A n \in 1..Len(stack) : stack[n].pc = "begin"
    BY <1>2, <1>4
  <1>11. Knows
    BY <1>9, <1>10 DEF Knows, SourcedAll, PassedAll, ListedAll, FirstHeld, LeadsAll, UnlistedAll
  <1>12. Has(stack, Replicating) /\ \A n \in 1..Len(stack) : stack[n].pc # "replicate"
    BY <1>5, <1>10 DEF Has, Replicating
  <1>13. AgreeAll(order, gen, stack) /\ WatchAll(order, gen, stack, deltas, seen)
    BY <1>12, NothingYet
  <1> QED BY <1>11, <1>13 DEF ReplicaInv, Agrees, Watched

LEMMA UnchangedInv ==
    ASSUME ReplicaInv, UNCHANGED vars
    PROVE  ReplicaInv'
  BY DEF ReplicaInv, Knows, Agrees, Watched, Base, Types, vars

LEMMA RunsStep ==
    ASSUME ReplicaInv, Runs
    PROVE  ReplicaInv'
  <1>1. CASE delta_ignored \/ delta_begins \/ pass_on \/ pass_tells \/ returns
    BY <1>1, delta_ignoredStep, delta_beginsStep, pass_onStep, pass_tellsStep, returnsStep
  <1>2. CASE replicate \/ replicate_next \/ replicate_first \/ replicate_missing
    BY <1>2, replicateStep, replicate_nextStep, replicate_firstStep, replicate_missingStep
  <1>3. CASE replicate_crashes \/ replicate_ends \/ flush_delta
    BY <1>3, replicate_crashesStep, replicate_endsStep, flush_deltaStep
  <1>4. CASE replicate_if_any_have_become_ok \/ set_first \/ get_first \/ get_again \/ refresh_next \/ refresh_ends
    BY <1>4, replicate_if_anyStep, set_firstStep, get_firstStep, get_againStep, refresh_nextStep, refresh_endsStep
  <1> QED BY <1>1, <1>2, <1>3, <1>4 DEF Runs

LEMMA NextInv ==
    ASSUME ReplicaInv, Next
    PROVE  ReplicaInv'
  <1>1. CASE Runs
    BY <1>1, RunsStep
  <1>2. CASE get \/ get_fails \/ isok \/ refresh \/ Tick
    BY <1>2, getStep, get_failsStep, isokStep, refreshStep, TickStep
  <1>3. ASSUME NEW c \in Edits, set(c) PROVE ReplicaInv'
    BY <1>3, setStep
  <1>4. ASSUME NEW c \in Edits, NEW i \in Gens \ Remote, set_local(i, c) PROVE ReplicaInv'
    BY <1>4, set_localStep
  <1>5. ASSUME NEW c \in Edits, NEW i \in Remote, Elsewhere(i, c) PROVE ReplicaInv'
    BY <1>5, ElsewhereStep
  <1>6. ASSUME NEW i \in Gens, append(i) \/ prepend(i) PROVE ReplicaInv'
    BY <1>6, appendStep, prependStep
  <1>7. ASSUME NEW i \in Remote, Deliver(i) \/ Breaks(i) \/ ComesUp(i) PROVE ReplicaInv'
    BY <1>7, DeliverStep, BreaksStep, ComesUpStep
  <1> QED BY <1>1, <1>2, <1>3, <1>4, <1>5, <1>6, <1>7 DEF Next

\* The inductive invariant holds in every reachable state, for any generators, lists,
\* keys, values and bounds: what the calls under way know of single generators, of
\* pairs of them and of the watchers.
THEOREM ReplicaInvariant == Spec => []ReplicaInv
  <1>1. Init => ReplicaInv
    BY InitInv
  <1>2. ReplicaInv /\ [Next]_vars => ReplicaInv'
    BY NextInv, UnchangedInv
  <1> QED BY <1>1, <1>2, PTL DEF Spec

LEMMA InvConsistent ==
    ASSUME ReplicaInv
    PROVE  ReplicasConsistent
  <1>0. Base /\ Types /\ stack \in Seq(FrameRec)
    BY DEF ReplicaInv, Knows, Base, Types
  <1>1. DOMAIN stack = 1..Len(stack)
    BY <1>0
  <1>2. deltas # << >> => Held \/ OnStack({"crashed"})
    <2>1. SUFFICES ASSUME deltas # << >> PROVE Held \/ OnStack({"crashed"})
      OBVIOUS
    <2>2. PICK n \in 1..Len(stack) : stack[n].pc \in {"replicate", "flush", "crashed"}
      BY <1>0, <2>1 DEF Base, Has
    <2>3. CASE stack[n].pc \in {"replicate", "flush"}
      BY <1>1, <2>2, <2>3 DEF Held, OnStack
    <2>4. CASE stack[n].pc = "crashed"
      BY <1>1, <2>2, <2>4 DEF OnStack
    <2> QED BY <2>2, <2>3, <2>4
  <1>3. TypeOK
    BY <1>0, <1>2 DEF TypeOK, Types
  <1>4. AttemptsBounded
    <2>1. Remote \subseteq Gens
      BY ReplicaAssumption
    <2> QED BY <1>0, <2>1 DEF AttemptsBounded, Base, GenOK, Attempts
  <1> QED BY <1>3, <1>4 DEF ReplicasConsistent

\* Nothing is pending when nothing is under way.
LEMMA QuietFacts ==
    ASSUME ReplicaInv, Quiet
    PROVE  /\ \A k : ~Pending(gen, stack, k) /\ ~Passing(stack, k)
           /\ ~Has(stack, Replicating) /\ deltas = << >>
           /\ order \in Seq(Gens) /\ gen \in [Gens -> Generator] /\ \A i : i \in ToSet(order) <=> On(order, i)
  <1>0. Base /\ Types /\ order \in Seq(Gens) /\ gen \in [Gens -> Generator]
    BY DEF ReplicaInv, Knows, Base, Types
  <1>1. \A i : i \in ToSet(order) <=> On(order, i)
    BY <1>0, ToSetIsOn
  <1>2. stack = << >> /\ \A n \in 1..Len(stack) : FALSE
    BY DEF Quiet
  <1>3. \A i \in Gens : gen[i].inbox = << >>
    BY <1>0, <1>1 DEF Quiet, Base, GenOK
  <1>4. \A k : ~Carries(<< >>, k)
    BY DEF Carries
  <1>5. \A k : ~Pending(gen, stack, k) /\ ~Passing(stack, k)
    BY <1>2, <1>3, <1>4 DEF Pending, Passing, Waits
  <1>6. \A S : ~Has(stack, S)
    BY <1>2 DEF Has
  <1>7. deltas = << >>
    BY <1>0, <1>6 DEF Base
  <1> QED BY <1>0, <1>1, <1>5, <1>6, <1>7

LEMMA InvAgree ==
    ASSUME ReplicaInv
    PROVE  ReplicasAgree
  <1>1. SUFFICES ASSUME Quiet, ~dropped, ~unseen, lost => Len(order) <= 2, NEW i \in Good, NEW j \in Good
                 PROVE  gen[i].val = gen[j].val
    BY DEF ReplicasAgree
  <1>2. /\ \A k : ~Pending(gen, stack, k) /\ ~Passing(stack, k)
        /\ ~Has(stack, Replicating)
        /\ order \in Seq(Gens) /\ gen \in [Gens -> Generator] /\ \A l : l \in ToSet(order) <=> On(order, l)
    BY <1>1, QuietFacts
  <1>3. On(order, i) /\ On(order, j) /\ gen[i].conn = "ok" /\ gen[j].conn = "ok"
    BY <1>1, <1>2 DEF Good
  <1>4. i \in Gens /\ j \in Gens
    BY <1>2, <1>3 DEF On
  <1>5. AgreeAll(order, gen, stack)
    BY <1>1 DEF ReplicaInv, Agrees
  <1>6. \A k \in Keys : gen[i].val[k] = gen[j].val[k]
    BY <1>2, <1>3, <1>4, <1>5 DEF AgreeAll, Same, Connected
  <1>7. gen[i].val \in Contents /\ gen[j].val \in Contents
    BY <1>2, <1>4, FieldsOfGenerator
  <1> QED BY <1>6, <1>7 DEF Contents

LEMMA InvWatch ==
    ASSUME ReplicaInv
    PROVE  WatchersKeepUp
  <1>1. SUFFICES ASSUME Quiet, ~dropped, ~lost, NEW i \in ToSet(order) \ Remote, NEW k \in Keys
                 PROVE  gen[i].val[k] \in {Null, seen[k]}
    BY DEF WatchersKeepUp
  <1>2. /\ ~Pending(gen, stack, k) /\ ~Passing(stack, k)
        /\ ~Has(stack, Replicating) /\ deltas = << >>
        /\ order \in Seq(Gens) /\ On(order, i)
    BY <1>1, QuietFacts
  <1>3. i \in Gens \ Remote
    BY <1>1, <1>2 DEF On
  <1>4. WatchAll(order, gen, stack, deltas, seen)
    BY <1>1 DEF ReplicaInv, Watched
  <1>5. Known(gen, stack, deltas, seen, i, k)
    BY <1>1, <1>2, <1>3, <1>4 DEF WatchAll
  <1>6. gen[i].val[k] = Null \/ Told(deltas, seen, k, gen[i].val[k])
    BY <1>2, <1>5 DEF Known
  <1>7. \A n \in 1..Len(deltas) : FALSE
    BY <1>2
  <1> QED BY <1>6, <1>7 DEF Told

\* The state is well-typed, nothing is held when no call is under way, and there are
\* never more attempts to connect than intervals since the connection was lost
\* (UniRetryGen::maybe_reconnect() and maybe_disconnect()).
THEOREM ReplicasAreConsistent == Spec => []ReplicasConsistent
  <1>1. ReplicaInv => ReplicasConsistent
    BY InvConsistent
  <1> QED BY <1>1, ReplicaInvariant, PTL

\* When nothing is under way the connected replicas hold the same, however many there
\* are, unless a notice was ignored that was not an echo, a generator came back and
\* nobody replicated, or, with more than two of them, part of a replicate() was lost
\* (UniReplicateGen::deltacallback() and replicate()).
THEOREM ReplicasDoAgree == Spec => []ReplicasAgree
  <1>1. ReplicaInv => ReplicasAgree
    BY InvAgree
  <1> QED BY <1>1, ReplicaInvariant, PTL

\* When nothing is under way the watchers have been told what each local generator on
\* the list holds, whichever generators came and went (UniReplicateGen::deltacallback(),
\* hold_delta() and unhold_delta()).
THEOREM WatchersAreTold == Spec => []WatchersKeepUp
  <1>1. ReplicaInv => WatchersKeepUp
    BY InvWatch
  <1> QED BY <1>1, ReplicaInvariant, PTL
=============================================================================
