---------------------------- MODULE WvDBusProofs ----------------------------
(***************************************************************************)
(* Proofs about WvDBus, for any number of clients and names, any program   *)
(* of calls and any number of them.                                        *)
(*                                                                         *)
(* A client's step changes that client's state only, and the server's      *)
(* steps leave the clients alone: ClientStep and ServerStep say so, and    *)
(* each action has a lemma that shows one of them to apply.  What joins    *)
(* the two is the form of the messages on the way, Sendable to the server  *)
(* and Deliverable to a client.                                            *)
(***************************************************************************)
EXTENDS WvDBus, SequenceTheorems, TLAPS

\* A sequence that starts like a and goes on like b is their concatenation.
LEMMA IsConcat ==
    ASSUME NEW S, NEW a \in Seq(S), NEW b \in Seq(S), NEW c \in Seq(S),
           Len(c) = Len(a) + Len(b),
           \A i \in 1..Len(a) : c[i] = a[i],
           \A i \in 1..Len(b) : c[Len(a) + i] = b[i]
    PROVE  c = a \o b
  <1>1. a \o b \in Seq(S) /\ Len(a \o b) = Len(c)
    BY ConcatProperties
  <1>2. ASSUME NEW i \in 1..Len(c) PROVE c[i] = (a \o b)[i]
    <2>1. (a \o b)[i] = IF i <= Len(a) THEN a[i] ELSE b[i - Len(a)]
      BY ConcatProperties
    <2>2. CASE i <= Len(a)
      BY <2>1, <2>2
    <2>3. CASE i > Len(a)
      <3>1. i - Len(a) \in 1..Len(b) /\ Len(a) + (i - Len(a)) = i
        BY <2>3
      <3> QED BY <2>1, <2>3, <3>1
    <2> QED BY <2>2, <2>3
  <1> QED BY <1>1, <1>2, SeqEqual

\* What a message is made of.
Kinds == {"line", "call", "signal", "reply", "error"}
Subjects == {"", "AUTH", "BEGIN", "OK", "Hello", "AddMatch", "do"} \cup Methods
Values == Clients \cup Names \cup {Bus, None}

\* Messages and lines, connections and the server's ends of them.
Messages == [
    kind : Kinds, what : Subjects, arg : Values, serial : Nat, dest : Values,
    rserial : Nat, sender : Clients \cup {None}, of : {None} \cup ((Clients \cup {None}) \X Nat)]

Connection == [
    ok : BOOLEAN, authorized : BOOLEAN, out_queue : Seq(Messages), pending : SUBSET Nat, alarm : BOOLEAN,
    uniquename : Values, next : Nat, cb : Int, wait : Nat]

Service == [listed : BOOLEAN, open : BOOLEAN, state : {"AuthWait", "BeginWait", "authorized"}, out_queue : Seq(Messages)]

\* The types of all that a step may change.
Types ==
    /\ conn \in [Clients -> Connection] /\ srv \in [Clients -> Service]
    /\ stream \in [Clients -> Seq(Messages)] /\ taken \in [Clients -> Nat]
    /\ down \in [Clients -> Seq(Messages)] /\ calls \in [Clients -> Seq(Messages)]
    /\ asked \in [Clients -> [Serials -> Nat]] /\ answered \in [Clients -> [Serials -> Nat]]
    /\ name_to_conn \in [Names \cup Clients -> Clients \cup {None}]

\* What the connection k has carried (q), against what send() was given (w).
Ordered(k, q, w) ==
    /\ k.authorized => q = <<Line("AUTH"), Line("BEGIN")>> \o w /\ k.out_queue = << >>
    /\ ~k.authorized => q \in {<< >>, <<Line("AUTH")>>} /\ k.out_queue = w
    /\ w # << >> => Len(w) >= 2 /\ \A i \in 1..2 : w[i] = send_hello[i]

\* A serial number is used, a callback is given and a byte is written only after the
\* constructor; and an open connection has both.
Begun(k, q, w, as) ==
    /\ k.next = 1 => ~k.ok /\ q = << >> /\ w = << >> /\ \A s \in Serials : as[s] = 0
    /\ k.next = 1 \/ k.next >= 3
    /\ k.ok => q # << >> /\ w # << >>

\* Callbacks, and the reply that send_and_wait() waits for, are pending ones.  The last
\* conjunct is what callback_returns() needs: the callback that runs is not the one
\* that is still waited for, since the entry is about to go.
Waiting(k) ==
    /\ k.pending \subseteq 1..(k.next - 1)
    /\ k.cb \in {-1, 0} \cup k.pending
    /\ k.wait \in {0} \cup k.pending
    /\ k.wait = 0 \/ k.wait # k.cb

\* OneAnswerEach, for one connection.
Counted(k, as, an) ==
    \A s \in Serials : as[s] = an[s] + (IF s \in k.pending /\ s # k.cb THEN 1 ELSE 0)

\* What a client sends: a reply goes to the client whose message it answers, and only
\* signals go to everyone.
Sendable(m, next) ==
    /\ m.rserial # 0 => m.dest \in Clients /\ m.of = <<m.dest, m.rserial>>
    /\ m.kind = "call" => m.dest # None /\ m.serial \in 1..(next - 1)

\* What the server has for the client c: a reply answers one of c's own messages, and a
\* call says which client to answer.
Deliverable(c, m) ==
    /\ m.rserial # 0 => m.of = <<c, m.rserial>>
    /\ m.kind = "call" => m.sender \in Clients

\* All messages of a queue.
AllSendable(w, next) == \A i \in 1..Len(w) : Sendable(w[i], next)
AllDeliverable(c, q) == \A i \in 1..Len(q) : Deliverable(c, q[i])

\* What holds of a client, and of what it has written,
Client(c) ==
    /\ Ordered(conn[c], stream[c], calls[c])
    /\ Begun(conn[c], stream[c], calls[c], asked[c])
    /\ Waiting(conn[c]) /\ Counted(conn[c], asked[c], answered[c])
    /\ AllSendable(calls[c], conn[c].next)
    /\ taken[c] <= Len(stream[c])

\* of what is on the way to it,
Deliveries(c) == AllDeliverable(c, down[c]) /\ AllDeliverable(c, srv[c].out_queue)

\* and of the server's names: a unique name is never another client's.
NamesOK ==
    /\ NamesAreLive
    /\ \A c \in Clients : name_to_conn[c] \in {c, None}

\* The inductive invariant.  OneAnswerEach says that a callback gets the reply to its own
\* message; that takes Deliverable for what is on the way, which takes Sendable for
\* what clients have sent and NamesOK for where the server sends it.
DBusInv ==
    /\ Types /\ NamesOK /\ matches
    /\ \A c \in Clients : Client(c) /\ Deliveries(c)

\* Sequences: an element is added at the end,
LEMMA AppendAfter ==
    ASSUME NEW S, NEW a \in Seq(S), NEW b \in Seq(S), NEW m \in S
    PROVE  /\ (a \o b) \o (<< >> \o <<m>>) = a \o Append(b, m)
           /\ a \o << >> = a
           /\ << >> \o <<m>> \in Seq(S)
  <1>1. << >> \o <<m>> = <<m>> /\ <<m>> \in Seq(S) /\ << >> \in Seq(S)
    <2>1. <<m>> \in Seq(S) /\ << >> \in Seq(S)
      OBVIOUS
    <2> QED BY <2>1, ConcatEmptySeq
  <1>2. Append(b, m) = b \o <<m>>
    BY <1>1, AppendIsConcat
  <1>3. (a \o b) \o <<m>> = a \o (b \o <<m>>)
    BY <1>1, ConcatAssociative
  <1> QED BY <1>1, <1>2, <1>3, ConcatEmptySeq

\* and everything before it stays.
LEMMA AppendFacts ==
    ASSUME NEW S, NEW q \in Seq(S), NEW m \in S
    PROVE  LET w == Append(q, m)
           IN  /\ w \in Seq(S) /\ w # << >> /\ Len(w) = Len(q) + 1
               /\ \A i \in 1..Len(q) : w[i] = q[i]
               /\ w[Len(q) + 1] = m
  BY AppendProperties

\* No sequence that is at least as long as a nonempty one is empty.
LEMMA LongerSeq ==
    ASSUME NEW S, NEW a \in Seq(S), NEW b \in Seq(S), a # << >>, Len(a) <= Len(b)
    PROVE  b # << >>
  <1>1. PICK x \in Nat : Len(a) = x
    OBVIOUS
  <1>2. x # 0
    BY <1>1, EmptySeq
  <1> QED BY <1>1, <1>2

\* The fields of messages: those of the program,
LEMMA MsgFields ==
    ASSUME NEW kind \in Kinds, NEW what \in Subjects, NEW arg \in Values, NEW serial \in Nat, NEW dest \in Values
    PROVE  LET m == Msg(kind, what, arg, serial, dest)
           IN  /\ m \in Messages
               /\ m.kind = kind /\ m.serial = serial /\ m.dest = dest /\ m.rserial = 0
  BY DEF Msg, Messages, Values

\* the lines of the authentication,
LEMMA LineFields ==
    ASSUME NEW what \in Subjects
    PROVE  LET m == Line(what)
           IN  m \in Messages /\ m.kind = "line" /\ m.rserial = 0
  <1>1. None \in Values /\ 0 \in Nat /\ "line" \in Kinds
    BY DEF Values, Kinds
  <1> QED BY <1>1, MsgFields DEF Line

\* replies,
LEMMA ReplyFields ==
    ASSUME NEW m \in Messages, NEW c \in Clients \cup {None}, NEW kind \in Kinds, NEW arg \in Values,
           NEW serial \in Nat
    PROVE  LET a == ReplyTo(m, c, kind, arg, serial)
           IN  /\ a \in Messages /\ a.kind = kind /\ a.dest = m.sender
               /\ a.rserial = m.serial /\ a.of = <<c, m.serial>>
  <1>1. m.serial \in Nat /\ m.sender \in Clients \cup {None} /\ "" \in Subjects
    BY DEF Messages, Subjects
  <1>2. m.sender \in Values /\ None \in Clients \cup {None} /\ 0 \in Nat
    BY <1>1 DEF Values
  <1>3. <<c, m.serial>> \in {None} \cup ((Clients \cup {None}) \X Nat)
    BY <1>1
  <1> QED BY <1>1, <1>2, <1>3 DEF ReplyTo, Messages

\* and the two messages of the constructor.
LEMMA HelloFields ==
    /\ send_hello \in Seq(Messages) /\ Len(send_hello) = 2
    /\ AllSendable(send_hello, 3)
  <1>1. Bus \in Values /\ None \in Values /\ Bus # None
    BY DBusAssumption DEF Values
  <1>2. \A i \in 1..2 : /\ send_hello[i] \in Messages
                        /\ send_hello[i].kind = "call" /\ send_hello[i].serial = i
                        /\ send_hello[i].dest = Bus /\ send_hello[i].rserial = 0
    <2> DEFINE a == Msg("call", "Hello", None, 1, Bus)
               b == Msg("call", "AddMatch", None, 2, Bus)
    <2>0. "call" \in Kinds /\ "Hello" \in Subjects /\ "AddMatch" \in Subjects /\ 1 \in Nat /\ 2 \in Nat
      BY DEF Kinds, Subjects
    <2>1. a \in Messages /\ a.kind = "call" /\ a.serial = 1 /\ a.dest = Bus /\ a.rserial = 0
      BY <1>1, <2>0, MsgFields
    <2>2. b \in Messages /\ b.kind = "call" /\ b.serial = 2 /\ b.dest = Bus /\ b.rserial = 0
      BY <1>1, <2>0, MsgFields
    <2> HIDE DEF a, b
    <2>3. send_hello = <<a, b>>
      BY DEF send_hello, a, b
    <2> QED BY <2>1, <2>2, <2>3
  <1>3. send_hello \in Seq(Messages) /\ Len(send_hello) = 2
    <2>1. \E a, b : send_hello = <<a, b>>
      BY DEF send_hello
    <2>2. PICK a, b : send_hello = <<a, b>>
      BY <2>1
    <2> QED BY <1>2, <2>2
  <1> QED BY <1>1, <1>2, <1>3 DEF AllSendable, Sendable

\* A step of the client c: the invariant is preserved if it holds of what the step makes
\* of c's own state, k, q, w, n, as and an, for no step of c touches another client's.
LEMMA ClientStep ==
    ASSUME DBusInv, NEW c \in Clients,
           NEW k \in Connection, NEW q \in Seq(Messages), NEW w \in Seq(Messages), NEW n \in Seq(Messages),
           NEW as \in [Serials -> Nat], NEW an \in [Serials -> Nat],
           conn' = [conn EXCEPT ![c] = k], stream' = [stream EXCEPT ![c] = q],
           calls' = [calls EXCEPT ![c] = w], down' = [down EXCEPT ![c] = n],
           asked' = [asked EXCEPT ![c] = as], answered' = [answered EXCEPT ![c] = an],
           UNCHANGED svars, matches',
           Ordered(k, q, w), Begun(k, q, w, as), Waiting(k), Counted(k, as, an),
           AllSendable(w, k.next), Len(stream[c]) <= Len(q), AllDeliverable(c, n)
    PROVE  DBusInv'
  <1>t. Types
    BY DEF DBusInv
  <1>1. Types'
    BY <1>t DEF Types, svars
  <1>2. NamesOK'
    BY DEF DBusInv, NamesOK, NamesAreLive, svars
  <1>3. ASSUME NEW d \in Clients PROVE Client(d)' /\ Deliveries(d)'
    <2>1. CASE d = c
      <3>1. /\ conn'[d] = k /\ stream'[d] = q /\ calls'[d] = w /\ down'[d] = n
            /\ asked'[d] = as /\ answered'[d] = an
        BY <1>t, <2>1 DEF Types
      <3>2. srv'[d] = srv[d] /\ taken'[d] = taken[d]
        BY DEF svars
      <3>3. taken[d] <= Len(q)
        <4>1. taken[c] <= Len(stream[c])
          BY DEF DBusInv, Client
        <4>2. taken[c] \in Nat /\ stream[c] \in Seq(Messages)
          BY <1>t DEF Types
        <4>3. PICK x \in Nat, y \in Nat : Len(q) = x /\ Len(stream[c]) = y
          BY <4>2
        <4> QED BY <2>1, <4>1, <4>2, <4>3
      <3>4. Client(d)'
        BY <3>1, <3>2, <3>3 DEF Client
      <3>5. Deliveries(d)'
        BY <2>1, <3>1, <3>2 DEF Deliveries, DBusInv
      <3> QED BY <3>4, <3>5
    <2>2. CASE d # c
      <3>1. /\ conn'[d] = conn[d] /\ stream'[d] = stream[d] /\ calls'[d] = calls[d] /\ down'[d] = down[d]
            /\ asked'[d] = asked[d] /\ answered'[d] = answered[d]
        BY <1>t, <2>2 DEF Types
      <3>2. srv'[d] = srv[d] /\ taken'[d] = taken[d]
        BY DEF svars
      <3>3. Client(d)'
        BY <3>1, <3>2 DEF Client, DBusInv
      <3>5. Deliveries(d)'
        BY <3>1, <3>2 DEF Deliveries, DBusInv
      <3> QED BY <3>3, <3>5
    <2> QED BY <2>1, <2>2
  <1> QED BY <1>1, <1>2, <1>3 DEF DBusInv

\* send() keeps messages in order, before and after the authentication.
LEMMA SendOrdered ==
    ASSUME NEW k \in Connection, NEW q \in Seq(Messages), NEW w \in Seq(Messages), NEW m \in Messages,
           Ordered(k, q, w), w # << >>
    PROVE  LET r == send(k, m)
           IN  /\ r[1] \in Connection /\ r[2] \in Seq(Messages)
               /\ r[1].ok = k.ok /\ r[1].pending = k.pending /\ r[1].next = k.next
               /\ r[1].cb = k.cb /\ r[1].wait = k.wait
               /\ Ordered(r[1], q \o r[2], Append(w, m))
               /\ q \o r[2] \in Seq(Messages) /\ Len(q) <= Len(q \o r[2])
  <1> DEFINE r == send(k, m)
             head == <<Line("AUTH"), Line("BEGIN")>>
  <1>h. head \in Seq(Messages) /\ << >> \in Seq(Messages)
    <2>1. Line("AUTH") \in Messages /\ Line("BEGIN") \in Messages
      BY LineFields DEF Subjects
    <2> QED BY <2>1
  <1>w. /\ Append(w, m) # << >> /\ Len(Append(w, m)) >= 2
        /\ \A i \in 1..2 : Append(w, m)[i] = send_hello[i]
    <2>1. Len(w) >= 2 /\ \A i \in 1..2 : w[i] = send_hello[i]
      BY DEF Ordered
    <2>2. PICK x \in Nat : Len(w) = x
      OBVIOUS
    <2>3. Append(w, m) # << >> /\ Len(Append(w, m)) = x + 1 /\ \A i \in 1..x : Append(w, m)[i] = w[i]
      BY <2>2, AppendProperties
    <2>4. 1 \in 1..x /\ 2 \in 1..x
      BY <2>1, <2>2
    <2> QED BY <2>1, <2>2, <2>3, <2>4
  <1>l. ASSUME NEW z \in Seq(Messages) PROVE q \o z \in Seq(Messages) /\ Len(q) <= Len(q \o z)
    <2>1. q \o z \in Seq(Messages) /\ Len(q \o z) = Len(q) + Len(z)
      BY ConcatProperties
    <2>2. PICK x \in Nat, y \in Nat : Len(q) = x /\ Len(z) = y
      OBVIOUS
    <2> QED BY <2>1, <2>2
  <1>1. CASE k.authorized
    <2> DEFINE e == [k EXCEPT !.out_queue = << >>]
    <2>1. r[1] = e /\ r[2] = k.out_queue \o <<m>>
      BY <1>1 DEF send
    <2>2. k.out_queue = << >> /\ q = head \o w
      BY <1>1 DEF Ordered
    <2>3. r[2] = << >> \o <<m>> /\ r[2] \in Seq(Messages)
      BY <2>1, <2>2, <1>h, AppendAfter
    <2>4. q \o r[2] = head \o Append(w, m)
      BY <1>h, <2>2, <2>3, AppendAfter
    <2>5. /\ e \in Connection /\ e.authorized = k.authorized /\ e.out_queue = << >>
          /\ e.ok = k.ok /\ e.pending = k.pending /\ e.next = k.next /\ e.cb = k.cb /\ e.wait = k.wait
      BY <1>h DEF Connection
    <2> HIDE DEF e, r, head
    <2>6. Ordered(r[1], q \o r[2], Append(w, m))
      BY <1>1, <1>w, <2>1, <2>4, <2>5 DEF Ordered, head
    <2> QED BY <1>l, <2>1, <2>3, <2>5, <2>6 DEF r
  <1>2. CASE ~k.authorized
    <2> DEFINE o == Append(k.out_queue, m)
               e == [k EXCEPT !.out_queue = o]
    <2>1. r[1] = e /\ r[2] = << >>
      BY <1>2 DEF send
    <2>2. k.out_queue = w /\ q \in {<< >>, <<Line("AUTH")>>} /\ k.out_queue \in Seq(Messages)
      BY <1>2 DEF Ordered, Connection
    <2>3. r[2] \in Seq(Messages) /\ q \o r[2] = q /\ o \in Seq(Messages) /\ o = Append(w, m)
      BY <2>1, <2>2, ConcatEmptySeq, AppendProperties
    <2> HIDE DEF o
    <2>5. /\ e \in Connection /\ e.authorized = k.authorized /\ e.out_queue = o
          /\ e.ok = k.ok /\ e.pending = k.pending /\ e.next = k.next /\ e.cb = k.cb /\ e.wait = k.wait
      BY <2>3 DEF Connection
    <2> HIDE DEF e, r
    <2>6. Ordered(r[1], q \o r[2], Append(w, m))
      BY <1>2, <1>w, <2>1, <2>2, <2>3, <2>5 DEF Ordered
    <2> QED BY <1>l, <2>1, <2>3, <2>5, <2>6 DEF r
  <1> QED BY <1>1, <1>2

\* DBusInv, for one client.
LEMMA ClientFacts ==
    ASSUME DBusInv, NEW c \in Clients
    PROVE  /\ conn[c] \in Connection /\ stream[c] \in Seq(Messages) /\ calls[c] \in Seq(Messages)
           /\ down[c] \in Seq(Messages) /\ asked[c] \in [Serials -> Nat] /\ answered[c] \in [Serials -> Nat]
           /\ Ordered(conn[c], stream[c], calls[c])
           /\ Begun(conn[c], stream[c], calls[c], asked[c])
           /\ Waiting(conn[c]) /\ Counted(conn[c], asked[c], answered[c])
           /\ AllSendable(calls[c], conn[c].next)
           /\ AllDeliverable(c, down[c]) /\ matches
           /\ stream = [stream EXCEPT ![c] = stream[c]] /\ calls = [calls EXCEPT ![c] = calls[c]]
           /\ down = [down EXCEPT ![c] = down[c]] /\ asked = [asked EXCEPT ![c] = asked[c]]
           /\ answered = [answered EXCEPT ![c] = answered[c]]
  <1>1. Types /\ Client(c) /\ Deliveries(c) /\ matches
    BY DEF DBusInv
  <1>2. /\ conn[c] \in Connection /\ stream[c] \in Seq(Messages) /\ calls[c] \in Seq(Messages)
        /\ down[c] \in Seq(Messages) /\ asked[c] \in [Serials -> Nat] /\ answered[c] \in [Serials -> Nat]
    BY <1>1 DEF Types
  <1>3. /\ stream = [stream EXCEPT ![c] = stream[c]] /\ calls = [calls EXCEPT ![c] = calls[c]]
        /\ down = [down EXCEPT ![c] = down[c]] /\ asked = [asked EXCEPT ![c] = asked[c]]
        /\ answered = [answered EXCEPT ![c] = answered[c]]
    BY <1>1 DEF Types
  <1> QED BY <1>1, <1>2, <1>3 DEF Client, Deliveries

\* A step of a client that writes nothing.
LEMMA ConnStep ==
    ASSUME DBusInv, NEW c \in Clients, NEW k \in Connection, NEW n \in Seq(Messages), NEW an \in [Serials -> Nat],
           conn' = [conn EXCEPT ![c] = k], down' = [down EXCEPT ![c] = n],
           answered' = [answered EXCEPT ![c] = an], UNCHANGED <<stream, calls, asked, svars>>, matches',
           k.authorized = conn[c].authorized, k.out_queue = conn[c].out_queue, k.next = conn[c].next,
           k.ok => conn[c].ok,
           Waiting(k), Counted(k, asked[c], an), AllDeliverable(c, n)
    PROVE  DBusInv'
  <1>1. /\ stream[c] \in Seq(Messages) /\ calls[c] \in Seq(Messages) /\ asked[c] \in [Serials -> Nat]
        /\ Ordered(conn[c], stream[c], calls[c])
        /\ Begun(conn[c], stream[c], calls[c], asked[c])
        /\ AllSendable(calls[c], conn[c].next)
        /\ stream = [stream EXCEPT ![c] = stream[c]] /\ calls = [calls EXCEPT ![c] = calls[c]]
        /\ asked = [asked EXCEPT ![c] = asked[c]]
    BY ClientFacts
  <1>2. Ordered(k, stream[c], calls[c])
    BY <1>1 DEF Ordered
  <1>3. Begun(k, stream[c], calls[c], asked[c])
    BY <1>1 DEF Begun
  <1>4. Len(stream[c]) <= Len(stream[c])
    BY <1>1
  <1>5. /\ stream' = [stream EXCEPT ![c] = stream[c]] /\ calls' = [calls EXCEPT ![c] = calls[c]]
        /\ asked' = [asked EXCEPT ![c] = asked[c]] /\ UNCHANGED svars /\ AllSendable(calls[c], k.next)
    BY <1>1
  <1> QED BY <1>1, <1>2, <1>3, <1>4, <1>5, ClientStep

\* A step of a client that sends the message m, which it does as k0.
LEMMA SendStep ==
    ASSUME DBusInv, NEW c \in Clients, NEW m \in Messages, NEW k0 \in Connection, NEW k \in Connection,
           NEW n \in Seq(Messages), NEW as \in [Serials -> Nat], NEW an \in [Serials -> Nat],
           conn[c].ok, k0.authorized = conn[c].authorized, k0.out_queue = conn[c].out_queue,
           k0.next >= conn[c].next, Sendable(m, k0.next),
           k.authorized = send(k0, m)[1].authorized, k.out_queue = send(k0, m)[1].out_queue, k.next = k0.next,
           conn' = [conn EXCEPT ![c] = k], stream' = [stream EXCEPT ![c] = @ \o send(k0, m)[2]],
           calls' = [calls EXCEPT ![c] = Append(@, m)], down' = [down EXCEPT ![c] = n],
           asked' = [asked EXCEPT ![c] = as], answered' = [answered EXCEPT ![c] = an],
           UNCHANGED svars, matches',
           Waiting(k), Counted(k, as, an), AllDeliverable(c, n)
    PROVE  DBusInv'
  <1> DEFINE r == send(k0, m)
             q == stream[c] \o r[2]
             w == Append(calls[c], m)
  <1>1. /\ stream[c] \in Seq(Messages) /\ calls[c] \in Seq(Messages) /\ conn[c] \in Connection
        /\ Ordered(conn[c], stream[c], calls[c])
        /\ Begun(conn[c], stream[c], calls[c], asked[c])
        /\ AllSendable(calls[c], conn[c].next)
    BY ClientFacts
  <1>2. /\ stream[c] # << >> /\ calls[c] # << >> /\ conn[c].next >= 3 /\ conn[c].next \in Nat /\ k0.next \in Nat
    BY <1>1 DEF Begun, Connection
  <1>3. Ordered(k0, stream[c], calls[c])
    BY <1>1 DEF Ordered
  <1>4. /\ Ordered(r[1], q, w) /\ q \in Seq(Messages) /\ Len(stream[c]) <= Len(q) /\ r[2] \in Seq(Messages)
    BY <1>1, <1>2, <1>3, SendOrdered
  <1>5. Ordered(k, q, w)
    BY <1>4 DEF Ordered
  <1>6. w \in Seq(Messages) /\ w # << >> /\ Len(w) = Len(calls[c]) + 1
        /\ (\A i \in 1..Len(calls[c]) : w[i] = calls[c][i]) /\ w[Len(calls[c]) + 1] = m
    <2>1. calls[c] \in Seq(Messages)
      BY <1>1
    <2> DEFINE old == calls[c]
    <2> HIDE DEF old
    <2>2. old \in Seq(Messages)
      BY <2>1 DEF old
    <2>3. /\ Append(old, m) \in Seq(Messages) /\ Append(old, m) # << >> /\ Len(Append(old, m)) = Len(old) + 1
          /\ \A i \in 1..Len(old) : Append(old, m)[i] = old[i]
          /\ Append(old, m)[Len(old) + 1] = m
      BY <2>2, AppendFacts
    <2> QED BY <2>3 DEF old
  <1>7. AllSendable(w, k.next)
    <2>1. SUFFICES ASSUME NEW i \in 1..Len(w) PROVE Sendable(w[i], k.next)
      BY DEF AllSendable
    <2>2. PICK x \in Nat : Len(calls[c]) = x
      BY <1>1
    <2>3. CASE i = x + 1
      BY <1>6, <2>2, <2>3
    <2>4. CASE i \in 1..x
      <3>1. Sendable(calls[c][i], conn[c].next)
        BY <1>1, <2>2, <2>4 DEF AllSendable
      <3>2. calls[c][i] \in Messages /\ w[i] = calls[c][i]
        BY <1>1, <1>6, <2>2, <2>4
      <3>3. \A s \in Nat : s \in 1..(conn[c].next - 1) => s \in 1..(k.next - 1)
        BY <1>2
      <3>4. calls[c][i].serial \in Nat
        BY <3>2 DEF Messages
      <3> QED BY <3>1, <3>2, <3>3, <3>4 DEF Sendable
    <2>5. i \in 1..x \/ i = x + 1
      BY <1>6, <2>2
    <2> QED BY <2>3, <2>4, <2>5
  <1>8. q # << >>
    BY <1>1, <1>2, <1>4, LongerSeq
  <1>9. Begun(k, q, w, as)
    <2>1. k.next >= 3 /\ k.next # 1
      BY <1>2
    <2> QED BY <1>6, <1>8, <2>1 DEF Begun
  <1>10. stream' = [stream EXCEPT ![c] = q] /\ calls' = [calls EXCEPT ![c] = w]
    OBVIOUS
  <1> HIDE DEF q, w, r
  <1> QED BY <1>4, <1>5, <1>6, <1>7, <1>9, <1>10, ClientStep

\* Sends(): with a new message or with one from before, whose callback is called first if
\* it is pending.
LEMMA SendsStep ==
    ASSUME DBusInv, NEW c \in Clients, NEW m \in Messages, NEW onreply \in BOOLEAN, conn[c].ok,
           m.serial \in 1..conn[c].next, Sendable(m, conn[c].next + (IF m.serial = conn[c].next THEN 1 ELSE 0)),
           onreply => m.serial # conn[c].cb,
           Sends(c, m, onreply),
           answered' = [answered EXCEPT ![c][m.serial] = IF onreply /\ m.serial \in conn[c].pending THEN @ + 1 ELSE @],
           UNCHANGED <<down, matches, svars>>
    PROVE  DBusInv'
  <1> DEFINE s == m.serial
             x == conn[c]
             nx == x.next + (IF s = x.next THEN 1 ELSE 0)
             w == IF x.wait = s THEN 0 ELSE x.wait
             k0 == [x EXCEPT !.next = nx, !.wait = w]
             r == send(k0, m)
             p == r[1].pending \cup {s}
             ap == [r[1] EXCEPT !.pending = p, !.alarm = TRUE]
             k == IF onreply THEN ap ELSE r[1]
             as == [asked[c] EXCEPT ![s] = IF onreply THEN @ + 1 ELSE @]
             an == [answered[c] EXCEPT ![s] = IF onreply /\ s \in x.pending THEN @ + 1 ELSE @]
  <1>1. /\ x \in Connection /\ stream[c] \in Seq(Messages) /\ calls[c] \in Seq(Messages)
        /\ down[c] \in Seq(Messages) /\ asked[c] \in [Serials -> Nat] /\ answered[c] \in [Serials -> Nat]
        /\ Ordered(x, stream[c], calls[c])
        /\ Begun(x, stream[c], calls[c], asked[c])
        /\ Waiting(x) /\ Counted(x, asked[c], answered[c])
        /\ AllDeliverable(c, down[c]) /\ matches
        /\ down = [down EXCEPT ![c] = down[c]]
    BY ClientFacts
  <1>2. x.next \in Nat /\ nx \in Nat /\ s \in Nat /\ s # 0 /\ s \in 1..(nx - 1) /\ nx >= x.next
        /\ nx = IF s = x.next THEN x.next + 1 ELSE x.next
    <2>1. x.next \in Nat /\ s \in 1..x.next
      BY <1>1 DEF Connection
    <2> QED BY <2>1
  <1>w. x.wait \in Nat /\ w \in Nat /\ w \in {0, x.wait}
    BY <1>1 DEF Connection
  <1>3. Types
    BY DEF DBusInv
  <1>4. /\ conn' = [conn EXCEPT ![c] = k] /\ stream' = [stream EXCEPT ![c] = @ \o r[2]]
        /\ calls' = [calls EXCEPT ![c] = Append(@, m)]
    <2>1. [x EXCEPT !.next = IF s = @ THEN @ + 1 ELSE @, !.wait = IF @ = s THEN 0 ELSE @] = k0
      BY <1>2
    <2> HIDE DEF k0
    <2> QED BY <2>1 DEF Sends, add_pending
  <1>5. asked' = [asked EXCEPT ![c] = as] /\ answered' = [answered EXCEPT ![c] = an]
    BY <1>1, <1>3 DEF Sends, Types
  <1>6. as \in [Serials -> Nat] /\ an \in [Serials -> Nat]
    <2>1. \A t \in Serials : asked[c][t] + 1 \in Nat /\ answered[c][t] + 1 \in Nat
      BY <1>1
    <2> QED BY <1>1, <2>1
  <1>7. \A t \in Serials : /\ as[t] = IF t = s /\ onreply THEN asked[c][t] + 1 ELSE asked[c][t]
                           /\ an[t] = IF t = s /\ onreply /\ s \in x.pending THEN answered[c][t] + 1 ELSE answered[c][t]
    BY <1>1
  <1> HIDE DEF nx, w, as, an
  <1>8. /\ k0 \in Connection /\ k0.ok = x.ok /\ k0.authorized = x.authorized /\ k0.out_queue = x.out_queue
        /\ k0.pending = x.pending /\ k0.next = nx /\ k0.cb = x.cb /\ k0.wait = w
    BY <1>1, <1>2, <1>w DEF Connection
  <1> HIDE DEF k0
  <1>9. calls[c] # << >> /\ Ordered(k0, stream[c], calls[c])
    BY <1>1, <1>8 DEF Begun, Ordered
  <1>10. /\ r[1] \in Connection /\ r[1].ok = k0.ok /\ r[1].pending = k0.pending /\ r[1].next = k0.next
         /\ r[1].cb = k0.cb /\ r[1].wait = k0.wait
    <2>1. /\ r[1] \in Connection /\ r[2] \in Seq(Messages)
          /\ r[1].ok = k0.ok /\ r[1].pending = k0.pending /\ r[1].next = k0.next
          /\ r[1].cb = k0.cb /\ r[1].wait = k0.wait
          /\ Ordered(r[1], stream[c] \o r[2], Append(calls[c], m))
          /\ stream[c] \o r[2] \in Seq(Messages) /\ Len(stream[c]) <= Len(stream[c] \o r[2])
      BY <1>1, <1>8, <1>9, SendOrdered
    <2> QED BY <2>1
  <1> DEFINE z == r[1]
  <1> HIDE DEF r
  <1>11. p \in SUBSET Nat
    BY <1>2, <1>10 DEF Connection
  <1> HIDE DEF p
  <1>12. /\ ap \in Connection /\ ap.ok = z.ok /\ ap.authorized = z.authorized /\ ap.out_queue = z.out_queue
         /\ ap.pending = p /\ ap.next = z.next /\ ap.cb = z.cb /\ ap.wait = z.wait
    BY <1>10, <1>11 DEF Connection
  <1> HIDE DEF ap
  <1>13. /\ k \in Connection /\ k.authorized = z.authorized /\ k.out_queue = z.out_queue
         /\ k.next = nx /\ k.cb = x.cb /\ k.wait = w
         /\ onreply => k.pending = x.pending \cup {s}
         /\ ~onreply => k.pending = x.pending
    BY <1>8, <1>10, <1>12 DEF p
  <1> HIDE DEF k
  <1>14. Waiting(k)
    <2>1. x.pending \subseteq 1..(x.next - 1) /\ x.cb \in {-1, 0} \cup x.pending /\ x.wait \in {0} \cup x.pending
          /\ (x.wait = 0 \/ x.wait # x.cb)
      BY <1>1 DEF Waiting
    <2>2. 1..(x.next - 1) \subseteq 1..(nx - 1)
      BY <1>2
    <2>3. (w \in {0} \cup x.pending) /\ (w = 0 \/ w # x.cb)
      BY <1>w, <2>1
    <2> QED BY <1>2, <1>13, <2>1, <2>2, <2>3 DEF Waiting
  <1>15. Counted(k, as, an)
    <2>1. SUFFICES ASSUME NEW t \in Serials
                   PROVE  as[t] = an[t] + (IF t \in k.pending /\ t # k.cb THEN 1 ELSE 0)
      BY DEF Counted
    <2>2. asked[c][t] = answered[c][t] + (IF t \in x.pending /\ t # x.cb THEN 1 ELSE 0)
      BY <1>1 DEF Counted
    <2>3. asked[c][t] \in Nat /\ answered[c][t] \in Nat
      BY <1>1
    <2>4. CASE t = s /\ onreply
      <3>1. t \in k.pending /\ t # k.cb /\ t # x.cb
        BY <1>13, <2>4
      <3>2. as[t] = asked[c][t] + 1
        BY <1>7, <2>4
      <3>3. CASE s \in x.pending
        <4>1. an[t] = answered[c][t] + 1 /\ asked[c][t] = answered[c][t] + 1
          BY <1>7, <2>2, <2>4, <3>1, <3>3
        <4> QED BY <2>3, <3>1, <3>2, <4>1
      <3>4. CASE s \notin x.pending
        <4>a. an[t] = answered[c][t]
          BY <1>7, <2>4, <3>4
        <4>b. t \notin x.pending
          BY <2>4, <3>4
        <4>c. asked[c][t] = answered[c][t] + 0
          BY <2>2, <4>b
        <4>1. an[t] = answered[c][t] /\ asked[c][t] = answered[c][t]
          BY <2>3, <4>a, <4>c
        <4> QED BY <2>3, <3>1, <3>2, <4>1
      <3> QED BY <3>3, <3>4
    <2>5. CASE ~(t = s /\ onreply)
      <3>1. t \in k.pending <=> t \in x.pending
        BY <1>13, <2>5
      <3> QED BY <1>7, <1>13, <2>2, <2>3, <2>5, <3>1
    <2> QED BY <2>4, <2>5
  <1>16. Sendable(m, k0.next)
    BY <1>8 DEF nx
  <1>17. down' = [down EXCEPT ![c] = down[c]] /\ matches' /\ UNCHANGED svars
    BY <1>1
  <1>18. /\ stream' = [stream EXCEPT ![c] = @ \o send(k0, m)[2]] /\ k0.next >= x.next /\ k.next = k0.next
         /\ k.authorized = send(k0, m)[1].authorized /\ k.out_queue = send(k0, m)[1].out_queue
    BY <1>2, <1>4, <1>8, <1>13 DEF r
  <1> QED BY <1>1, <1>4, <1>5, <1>6, <1>8, <1>13, <1>14, <1>15, <1>16, <1>17, <1>18, SendStep

\* Reading leaves the rest.
LEMMA TailDeliverable ==
    ASSUME NEW c, NEW q \in Seq(Messages), q # << >>, AllDeliverable(c, q)
    PROVE  /\ Head(q) \in Messages /\ Deliverable(c, Head(q))
           /\ Tail(q) \in Seq(Messages) /\ AllDeliverable(c, Tail(q))
  <1>1. PICK n \in Nat : Len(q) = n
    OBVIOUS
  <1>2. n # 0
    BY <1>1, EmptySeq
  <1>3. Head(q) = q[1] /\ q[1] \in Messages
    BY <1>1, <1>2, HeadTailProperties
  <1>4. Tail(q) \in Seq(Messages) /\ Len(Tail(q)) = Len(q) - 1 /\ \A i \in 1..Len(Tail(q)) : Tail(q)[i] = q[i + 1]
    BY HeadTailProperties
  <1>5. ASSUME NEW i \in 1..Len(Tail(q)) PROVE Deliverable(c, Tail(q)[i])
    <2>1. i + 1 \in 1..Len(q)
      BY <1>1, <1>4
    <2> QED BY <1>4, <2>1 DEF AllDeliverable
  <1>6. Deliverable(c, Head(q))
    <2>1. 1 \in 1..Len(q)
      BY <1>1, <1>2
    <2> QED BY <1>3, <2>1 DEF AllDeliverable
  <1> QED BY <1>3, <1>4, <1>5, <1>6 DEF AllDeliverable

\* The constructor.
LEMMA ConnectStep ==
    ASSUME DBusInv, NEW c \in Clients, connect(c)
    PROVE  DBusInv'
  <1> DEFINE k1 == [NoConn EXCEPT !.ok = TRUE, !.next = 3, !.out_queue = send_hello]
             one == {1}
             k == [k1 EXCEPT !.pending = one, !.alarm = TRUE]
             as == [asked[c] EXCEPT ![1] = 1]
             q == <<Line("AUTH")>>
  <1>1. /\ stream[c] \in Seq(Messages) /\ calls[c] \in Seq(Messages)
        /\ down[c] \in Seq(Messages) /\ asked[c] \in [Serials -> Nat] /\ answered[c] \in [Serials -> Nat]
        /\ Begun(conn[c], stream[c], calls[c], asked[c])
        /\ Counted(conn[c], asked[c], answered[c])
        /\ AllDeliverable(c, down[c]) /\ matches
        /\ down = [down EXCEPT ![c] = down[c]]
        /\ answered = [answered EXCEPT ![c] = answered[c]]
    BY ClientFacts
  <1>2. conn[c].next = 1 /\ conn[c].pending = {}
    BY DEF connect, NoConn
  <1>3. stream[c] = << >> /\ \A s \in Serials : asked[c][s] = 0 /\ answered[c][s] = 0
    <2>1. stream[c] = << >> /\ \A s \in Serials : asked[c][s] = 0
      BY <1>1, <1>2 DEF Begun
    <2>2. ASSUME NEW s \in Serials PROVE answered[c][s] = 0
      <3>1. asked[c][s] = answered[c][s] + 0
        BY <1>1, <1>2 DEF Counted
      <3>2. answered[c][s] \in Nat
        BY <1>1
      <3> QED BY <2>1, <3>1, <3>2
    <2> QED BY <2>1, <2>2
  <1>h. send_hello \in Seq(Messages) /\ Len(send_hello) = 2 /\ AllSendable(send_hello, 3)
    BY HelloFields
  <1>n. None \in Values /\ {} \in SUBSET Nat /\ -1 \in Int
    BY DEF Values
  <1>4. /\ k1 \in Connection /\ k1.ok /\ ~k1.authorized /\ k1.out_queue = send_hello /\ k1.pending = {}
        /\ k1.next = 3 /\ k1.cb = -1 /\ k1.wait = 0
    BY <1>h, <1>n DEF NoConn, Connection
  <1>5. conn' = [conn EXCEPT ![c] = k]
    <2>1. add_pending(k1, 1) = k
      BY <1>4 DEF add_pending
    <2> HIDE DEF k, k1
    <2> QED BY <2>1 DEF connect, k1
  <1>o. one \in SUBSET Nat
    OBVIOUS
  <1> HIDE DEF k1, one
  <1>6a. /\ k \in Connection /\ k.ok = k1.ok /\ k.authorized = k1.authorized
         /\ k.out_queue = k1.out_queue /\ k.pending = one
         /\ k.next = k1.next /\ k.cb = k1.cb /\ k.wait = k1.wait
    BY <1>4, <1>o DEF Connection
  <1>6. /\ k \in Connection /\ k.ok /\ ~k.authorized /\ k.out_queue = send_hello /\ k.pending = {1}
        /\ k.next = 3 /\ k.cb = -1 /\ k.wait = 0
    BY <1>4, <1>6a DEF one
  <1> HIDE DEF k
  <1>7. q \in Seq(Messages) /\ q # << >>
    <2>1. Line("AUTH") \in Messages
      BY LineFields DEF Subjects
    <2> QED BY <2>1
  <1>8. /\ stream' = [stream EXCEPT ![c] = q] /\ calls' = [calls EXCEPT ![c] = send_hello]
        /\ down' = [down EXCEPT ![c] = down[c]] /\ answered' = [answered EXCEPT ![c] = answered[c]]
        /\ UNCHANGED svars /\ matches'
    BY <1>1 DEF connect, Server
  <1>9. asked' = [asked EXCEPT ![c] = as] /\ as \in [Serials -> Nat]
    BY <1>1 DEF connect, DBusInv, Types
  <1>10. Ordered(k, q, send_hello)
    BY <1>6, <1>h DEF Ordered
  <1>11. Begun(k, q, send_hello, as)
    <2>1. send_hello # << >>
      BY <1>h
    <2> QED BY <1>6, <1>7, <2>1 DEF Begun
  <1>12. Waiting(k)
    BY <1>6 DEF Waiting
  <1>13. Counted(k, as, answered[c])
    <2>1. SUFFICES ASSUME NEW t \in Serials
                   PROVE  as[t] = answered[c][t] + (IF t \in k.pending /\ t # k.cb THEN 1 ELSE 0)
      BY DEF Counted
    <2>2. CASE t = 1
      BY <1>1, <1>3, <1>6, <2>2
    <2>3. CASE t # 1
      <3>1. as[t] = 0 /\ answered[c][t] = 0 /\ t \notin k.pending
        BY <1>1, <1>3, <1>6, <2>3
      <3> QED BY <3>1
    <2> QED BY <2>2, <2>3
  <1>14. Len(stream[c]) <= Len(q)
    BY <1>3
  <1>15. AllSendable(send_hello, k.next)
    BY <1>h, <1>6
  <1> HIDE DEF as, q
  <1> QED BY <1>1, <1>h, <1>5, <1>6, <1>7, <1>8, <1>9, <1>10, <1>11, <1>12, <1>13, <1>14, <1>15, ClientStep

\* A new message, whose serial number nobody waits for.
LEMMA NewMessageStep ==
    ASSUME DBusInv, NEW c \in Clients, NEW f, NEW m \in Messages, NEW onreply \in BOOLEAN,
           m.serial = conn[c].next, m.dest # None \/ m.kind # "call", m.rserial = 0,
           Acts(c, f), Sends(c, m, onreply)
    PROVE  DBusInv'
  <1>1. /\ conn[c] \in Connection /\ Waiting(conn[c]) /\ Begun(conn[c], stream[c], calls[c], asked[c])
        /\ answered[c] \in [Serials -> Nat] /\ answered = [answered EXCEPT ![c] = answered[c]]
    BY ClientFacts
  <1>2. conn[c].ok /\ answered' = answered /\ UNCHANGED <<down, matches, svars>>
    BY DEF Acts, Calls, Server
  <1>3. conn[c].next \in Nat /\ conn[c].next >= 3
    BY <1>1, <1>2 DEF Begun, Connection
  <1>4. m.serial \in 1..conn[c].next /\ m.serial \in 1..((conn[c].next + 1) - 1)
    BY <1>3
  <1>5. m.serial \notin conn[c].pending /\ m.serial # conn[c].cb
    <2>1. m.serial \notin 1..(conn[c].next - 1) /\ m.serial # -1 /\ m.serial # 0
      BY <1>3
    <2> QED BY <1>1, <2>1 DEF Waiting
  <1>6. Sendable(m, conn[c].next + (IF m.serial = conn[c].next THEN 1 ELSE 0))
    BY <1>4 DEF Sendable
  <1>7. answered' = [answered EXCEPT ![c][m.serial] = IF onreply /\ m.serial \in conn[c].pending THEN @ + 1 ELSE @]
    <2>1. [answered[c] EXCEPT ![m.serial] = answered[c][m.serial]] = answered[c]
      BY <1>1
    <2> QED BY <1>1, <1>2, <1>5, <2>1
  <1>8. m.serial \in 1..conn[c].next /\ (onreply => m.serial # conn[c].cb)
    BY <1>4, <1>5
  <1> QED BY <1>2, <1>6, <1>7, <1>8, SendsStep, Zenon

\* send() with and without a callback.
LEMMA ProgramSends ==
    ASSUME DBusInv, NEW c \in Clients,
           \/ send_signal(c)
           \/ \E n \in Names : send_call(c, n, "do", None) \/ \E f \in Methods : send_call(c, Bus, f, n)
    PROVE  DBusInv'
  <1>1. conn[c].next \in Nat
    BY ClientFacts DEF Connection
  <1>2. Bus \in Values /\ None \in Values /\ Names \subseteq Values /\ Bus # None /\ None \notin Names
    BY DBusAssumption DEF Values
  <1>3. "call" \in Kinds /\ "signal" \in Kinds /\ "do" \in Subjects /\ "" \in Subjects /\ Methods \subseteq Subjects
    BY DEF Kinds, Subjects
  <1>4. ASSUME NEW what \in Subjects, NEW arg \in Values, NEW dest \in Values, dest # None,
               send_call(c, dest, what, arg)
        PROVE  DBusInv'
    <2>0. PICK x \in Nat : conn[c].next = x
      BY <1>1
    <2> DEFINE m == Msg("call", what, arg, x, dest)
    <2>a. m \in Messages /\ m.kind = "call" /\ m.serial = x /\ m.dest = dest /\ m.rserial = 0
      <3>1. "call" \in Kinds
        BY <1>3
      <3> QED BY <3>1, MsgFields
    <2>1. m \in Messages /\ m.kind = "call" /\ m.serial = conn[c].next /\ m.dest = dest /\ m.rserial = 0
      BY <2>0, <2>a
    <2>2. Acts(c, what) /\ Sends(c, m, TRUE)
      BY <1>4, <2>0 DEF send_call
    <2> HIDE DEF m
    <2> QED BY <1>4, <2>1, <2>2, NewMessageStep
  <1>5. ASSUME send_signal(c) PROVE DBusInv'
    <2>0. PICK x \in Nat : conn[c].next = x
      BY <1>1
    <2> DEFINE m == Msg("signal", "", None, x, None)
    <2>a. m \in Messages /\ m.kind = "signal" /\ m.serial = x /\ m.dest = None /\ m.rserial = 0
      <3>1. "signal" \in Kinds /\ "" \in Subjects /\ None \in Values
        BY <1>2, <1>3
      <3> QED BY <3>1 DEF Msg, Messages, Values
    <2>1. m \in Messages /\ m.kind = "signal" /\ m.serial = conn[c].next /\ m.dest = None /\ m.rserial = 0
      BY <2>0, <2>a
    <2>2. Acts(c, "signal") /\ Sends(c, m, FALSE)
      BY <1>5, <2>0 DEF send_signal
    <2> HIDE DEF m
    <2>3. m.kind # "call"
      BY <2>1
    <2> QED BY <2>1, <2>2, <2>3, NewMessageStep
  <1>6. ASSUME NEW n \in Names, send_call(c, n, "do", None) PROVE DBusInv'
    <2>1. n \in Values /\ n # None
      BY <1>2
    <2> QED BY <1>2, <1>3, <1>4, <1>6, <2>1
  <1>7. ASSUME NEW n \in Names, NEW f \in Methods, send_call(c, Bus, f, n) PROVE DBusInv'
    <2>1. n \in Values /\ f \in Subjects
      BY <1>2, <1>3
    <2> QED BY <1>2, <1>4, <1>7, <2>1
  <1> QED BY <1>5, <1>6, <1>7

\* send() of a message from before.
LEMMA ResendStep ==
    ASSUME DBusInv, NEW c \in Clients, NEW n \in DOMAIN calls[c], resend(c, calls[c][n])
    PROVE  DBusInv'
  <1> DEFINE m == calls[c][n]
  <1>1. /\ conn[c] \in Connection /\ calls[c] \in Seq(Messages) /\ AllSendable(calls[c], conn[c].next)
    BY ClientFacts
  <1>2. m \in Messages /\ Sendable(m, conn[c].next)
    BY <1>1 DEF AllSendable
  <1>3. resend(c, m)
    OBVIOUS
  <1> HIDE DEF m
  <1>4. /\ conn[c].ok /\ m.kind = "call" /\ m.serial # conn[c].cb /\ Sends(c, m, TRUE)
        /\ UNCHANGED <<down, matches, svars>>
    BY <1>3 DEF resend, Calls, Server
  <1>5. m.serial \in 1..(conn[c].next - 1) /\ conn[c].next \in Nat
    BY <1>1, <1>2, <1>4 DEF Sendable, Connection
  <1>6. m.serial \in 1..conn[c].next /\ m.serial # conn[c].next
    BY <1>5
  <1>7. conn[c].next + (IF m.serial = conn[c].next THEN 1 ELSE 0) = conn[c].next
    BY <1>5, <1>6
  <1>8. answered' = [answered EXCEPT ![c][m.serial] = IF TRUE /\ m.serial \in conn[c].pending THEN @ + 1 ELSE @]
    BY <1>3 DEF resend
  <1>9. Sendable(m, conn[c].next + (IF m.serial = conn[c].next THEN 1 ELSE 0))
    BY <1>2, <1>7
  <1> QED BY <1>2, <1>4, <1>6, <1>8, <1>9, SendsStep

\* A step that changes only ok, the alarm, or the wait that it ends.
LEMMA KeepStep ==
    ASSUME DBusInv, NEW c \in Clients, NEW k \in Connection,
           conn' = [conn EXCEPT ![c] = k], UNCHANGED <<stream, calls, asked, answered, down, matches, svars>>,
           k.authorized = conn[c].authorized, k.out_queue = conn[c].out_queue, k.next = conn[c].next,
           k.pending = conn[c].pending, k.cb = conn[c].cb, k.wait \in {0, conn[c].wait},
           k.ok => conn[c].ok
    PROVE  DBusInv'
  <1>1. /\ down[c] \in Seq(Messages) /\ answered[c] \in [Serials -> Nat]
        /\ Waiting(conn[c]) /\ Counted(conn[c], asked[c], answered[c])
        /\ AllDeliverable(c, down[c]) /\ matches
        /\ down = [down EXCEPT ![c] = down[c]]
        /\ answered = [answered EXCEPT ![c] = answered[c]]
    BY ClientFacts
  <1>2. Waiting(k)
    BY <1>1 DEF Waiting
  <1>3. Counted(k, asked[c], answered[c])
    BY <1>1 DEF Counted
  <1>4. /\ down' = [down EXCEPT ![c] = down[c]] /\ answered' = [answered EXCEPT ![c] = answered[c]]
        /\ UNCHANGED <<stream, calls, asked, svars>> /\ matches'
    BY <1>1
  <1> QED BY <1>1, <1>2, <1>3, <1>4, ConnStep

\* close(), by the program, at the end of the input, or when the process dies.
LEMMA CloseStep ==
    ASSUME DBusInv, NEW c \in Clients, conn' = [conn EXCEPT ![c].ok = FALSE],
           UNCHANGED <<stream, calls, asked, answered, down, matches, svars>>
    PROVE  DBusInv'
  <1> DEFINE x == conn[c]
             k == [x EXCEPT !.ok = FALSE]
  <1>1. x \in Connection /\ conn' = [conn EXCEPT ![c] = k]
    BY ClientFacts
  <1>2. /\ k \in Connection /\ k.authorized = x.authorized /\ k.out_queue = x.out_queue /\ k.next = x.next
        /\ k.pending = x.pending /\ k.cb = x.cb /\ k.wait = x.wait /\ k.ok = FALSE
    BY <1>1 DEF Connection
  <1> HIDE DEF k
  <1> QED BY <1>1, <1>2, KeepStep

\* send_and_wait() ends because the connection is closed.
LEMMA WaitEndsStep ==
    ASSUME DBusInv, NEW c \in Clients, wait_ends(c)
    PROVE  DBusInv'
  <1> DEFINE x == conn[c]
             k == [x EXCEPT !.wait = 0]
  <1>1. x \in Connection /\ conn' = [conn EXCEPT ![c] = k]
    BY ClientFacts DEF wait_ends
  <1>2. /\ k \in Connection /\ k.authorized = x.authorized /\ k.out_queue = x.out_queue /\ k.next = x.next
        /\ k.pending = x.pending /\ k.cb = x.cb /\ k.wait = 0 /\ k.ok = x.ok
    BY <1>1 DEF Connection
  <1>3. UNCHANGED <<stream, calls, asked, answered, down, matches, svars>>
    BY DEF wait_ends, Server
  <1> HIDE DEF k
  <1> QED BY <1>1, <1>2, <1>3, KeepStep

\* Two lines, written one after the other, before the rest.
LEMMA TwoFirst ==
    ASSUME NEW S, NEW a \in S, NEW b \in S, NEW w \in Seq(S)
    PROVE  /\ (<<a>> \o <<b>>) \o w = <<a, b>> \o w
           /\ <<a, b>> \o w \in Seq(S) /\ Len(<<a>>) <= Len(<<a, b>> \o w) /\ <<a, b>> \o w # << >>
  <1> DEFINE x == <<a>>
             y == <<b>>
             z == <<a, b>>
  <1>1. x \in Seq(S) /\ y \in Seq(S) /\ z \in Seq(S) /\ Len(x) = 1 /\ Len(y) = 1 /\ Len(z) = 2
    OBVIOUS
  <1>2. x[1] = a /\ y[1] = b /\ z[1] = a /\ z[2] = b
    OBVIOUS
  <1> HIDE DEF x, y, z
  <1>3. x \o y = z
    <2>1. \A i \in 1..1 : i = 1
      OBVIOUS
    <2>2. \A i \in 1..Len(x) : z[i] = x[i]
      BY <1>1, <1>2, <2>1
    <2>3. \A i \in 1..Len(y) : z[Len(x) + i] = y[i]
      <3>1. SUFFICES ASSUME NEW i \in 1..1 PROVE z[1 + i] = y[i]
        BY <1>1
      <3>2. i = 1 /\ 1 + i = 2
        OBVIOUS
      <3> QED BY <1>2, <3>2
    <2>4. Len(z) = Len(x) + Len(y)
      BY <1>1
    <2> QED BY <1>1, <2>2, <2>3, <2>4, IsConcat
  <1>4. PICK n \in Nat : Len(w) = n
    OBVIOUS
  <1>5. z \o w \in Seq(S) /\ Len(z \o w) = 2 + n
    BY <1>1, <1>4, ConcatProperties
  <1>6. z \o w # << >>
    BY <1>5
  <1>7. /\ (x \o y) \o w = z \o w
        /\ z \o w \in Seq(S) /\ Len(x) <= Len(z \o w) /\ z \o w # << >>
    BY <1>1, <1>3, <1>5, <1>6
  <1> QED BY <1>7, Zenon DEF x, y, z

\* try_auth() sends BEGIN and then all that has waited.
LEMMA AuthStep ==
    ASSUME DBusInv, NEW c \in Clients, try_auth(c)
    PROVE  DBusInv'
  <1> DEFINE x == conn[c]
             a == Line("AUTH")
             b == Line("BEGIN")
             k == [x EXCEPT !.authorized = TRUE, !.out_queue = << >>]
             q == stream[c] \o <<b>> \o x.out_queue
  <1>1. /\ x \in Connection /\ stream[c] \in Seq(Messages) /\ calls[c] \in Seq(Messages)
        /\ down[c] \in Seq(Messages) /\ asked[c] \in [Serials -> Nat] /\ answered[c] \in [Serials -> Nat]
        /\ Ordered(x, stream[c], calls[c])
        /\ Begun(x, stream[c], calls[c], asked[c])
        /\ Waiting(x) /\ Counted(x, asked[c], answered[c])
        /\ AllSendable(calls[c], x.next)
        /\ AllDeliverable(c, down[c]) /\ matches
        /\ calls = [calls EXCEPT ![c] = calls[c]] /\ asked = [asked EXCEPT ![c] = asked[c]]
        /\ answered = [answered EXCEPT ![c] = answered[c]]
    BY ClientFacts
  <1>2. x.ok /\ ~x.authorized /\ down[c] # << >>
    BY DEF try_auth
  <1>3. Tail(down[c]) \in Seq(Messages) /\ AllDeliverable(c, Tail(down[c]))
    BY <1>1, <1>2, TailDeliverable
  <1>4. conn' = [conn EXCEPT ![c] = k] /\ stream' = [stream EXCEPT ![c] = q] /\ down' = [down EXCEPT ![c] = Tail(down[c])]
    BY DEF try_auth
  <1>5. /\ calls' = [calls EXCEPT ![c] = calls[c]] /\ asked' = [asked EXCEPT ![c] = asked[c]]
        /\ answered' = [answered EXCEPT ![c] = answered[c]] /\ UNCHANGED svars /\ matches'
    BY <1>1 DEF try_auth, Server
  <1>6. /\ k \in Connection /\ k.authorized /\ k.out_queue = << >> /\ k.ok = x.ok
        /\ k.pending = x.pending /\ k.next = x.next /\ k.cb = x.cb /\ k.wait = x.wait
    <2>1. << >> \in Seq(Messages)
      OBVIOUS
    <2> QED BY <1>1, <2>1 DEF Connection
  <1>7. a \in Messages /\ b \in Messages
    BY LineFields DEF Subjects
  <1>8. stream[c] = <<a>> /\ x.out_queue = calls[c]
    BY <1>1, <1>2 DEF Ordered, Begun
  <1> HIDE DEF a, b, k
  <1>9. q = <<a, b>> \o calls[c] /\ q \in Seq(Messages) /\ Len(stream[c]) <= Len(q) /\ q # << >>
    <2>0. PICK w \in Seq(Messages) : w = calls[c]
      BY <1>1
    <2>1. /\ (<<a>> \o <<b>>) \o w = <<a, b>> \o w
          /\ <<a, b>> \o w \in Seq(Messages)
          /\ Len(<<a>>) <= Len(<<a, b>> \o w) /\ <<a, b>> \o w # << >>
      BY <1>7, TwoFirst
    <2>2. q = <<a, b>> \o w
      BY <1>8, <2>0, <2>1
    <2> HIDE DEF q
    <2> QED BY <1>8, <2>0, <2>1, <2>2
  <1> HIDE DEF q
  <1>10. Ordered(k, q, calls[c])
    BY <1>1, <1>6, <1>9 DEF Ordered, a, b
  <1>11. Begun(k, q, calls[c], asked[c])
    BY <1>1, <1>2, <1>6, <1>9 DEF Begun
  <1>12. Waiting(k) /\ Counted(k, asked[c], answered[c]) /\ AllSendable(calls[c], k.next)
    BY <1>1, <1>6 DEF Waiting, Counted
  <1> QED BY <1>1, <1>3, <1>4, <1>5, <1>6, <1>9, <1>10, <1>11, <1>12, ClientStep

\* Serial numbers are neither 0 nor -1, the values of cb that mean something else.
LEMMA SerialFacts == \A t \in Serials : t \in Nat /\ t # 0 /\ t # -1
  BY DBusAssumption DEF Serials

\* What is read was deliverable.
LEMMA ReadsFacts ==
    ASSUME DBusInv, NEW c \in Clients, Reads(c)
    PROVE  /\ conn[c].ok /\ conn[c].cb = -1
           /\ Head(down[c]) \in Messages /\ Deliverable(c, Head(down[c]))
           /\ Tail(down[c]) \in Seq(Messages) /\ AllDeliverable(c, Tail(down[c]))
           /\ down' = [down EXCEPT ![c] = Tail(down[c])]
  <1>1. conn[c].ok /\ conn[c].cb = -1 /\ down[c] # << >> /\ down' = [down EXCEPT ![c] = Tail(down[c])]
    BY DEF Reads, Ready
  <1>2. down[c] \in Seq(Messages) /\ AllDeliverable(c, down[c])
    BY ClientFacts
  <1> QED BY <1>1, <1>2, TailDeliverable

\* filter_func() with a reply that is waited for: the callback is called, and it is the
\* reply to its own message.
LEMMA ReplyStep ==
    ASSUME DBusInv, NEW c \in Clients, filter_reply(c)
    PROVE  DBusInv'
  <1> DEFINE x == conn[c]
  <1>0. Reads(c)
    BY DEF filter_reply
  <1>1. /\ x \in Connection /\ answered[c] \in [Serials -> Nat] /\ asked[c] \in [Serials -> Nat]
        /\ Waiting(x) /\ Counted(x, asked[c], answered[c]) /\ matches
    BY ClientFacts
  <1>2. /\ x.ok /\ x.cb = -1 /\ Head(down[c]) \in Messages /\ Deliverable(c, Head(down[c]))
        /\ Tail(down[c]) \in Seq(Messages) /\ AllDeliverable(c, Tail(down[c]))
        /\ down' = [down EXCEPT ![c] = Tail(down[c])]
    BY <1>0, ReadsFacts
  <1>3. PICK m \in Messages : m = Head(down[c])
    BY <1>2
  <1>4. PICK s \in Nat : s = m.rserial
    BY DEF Messages
  <1> DEFINE u == IF s = 1 THEN m.arg ELSE x.uniquename
             v == IF x.wait = s THEN 0 ELSE x.wait
             k == [x EXCEPT !.cb = s, !.uniquename = u, !.wait = v]
             an == [answered[c] EXCEPT ![s] = @ + 1]
  <1>5. s \in x.pending /\ s # 0 /\ x.pending \subseteq 1..(x.next - 1)
    <2>1. s \in x.pending
      BY <1>3, <1>4 DEF filter_reply
    <2>2. x.pending \subseteq 1..(x.next - 1)
      BY <1>1 DEF Waiting
    <2> QED BY <2>1, <2>2
  <1>6. u \in Values /\ v \in Nat /\ s \in Int /\ v \in {0, x.wait} /\ v # s
    <2>1. m.arg \in Values /\ x.uniquename \in Values /\ x.wait \in Nat
      BY <1>1 DEF Messages, Connection
    <2> QED BY <2>1, <1>5
  <1>7. conn' = [conn EXCEPT ![c].cb = s, ![c].uniquename = u, ![c].wait = v]
    BY <1>3, <1>4 DEF filter_reply
  <1>8. answered' = [answered EXCEPT ![c] = an]
    BY <1>1, <1>3, <1>4 DEF filter_reply
  <1>9. matches'
    <2>1. m.of = <<c, s>>
      BY <1>2, <1>3, <1>4, <1>5 DEF Deliverable
    <2> QED BY <1>1, <1>3, <1>4, <2>1 DEF filter_reply
  <1>10. UNCHANGED <<stream, calls, asked, svars>>
    BY DEF filter_reply, Server
  <1>11. \A t \in Serials : an[t] = IF t = s THEN answered[c][t] + 1 ELSE answered[c][t]
    BY <1>1
  <1>12. an \in [Serials -> Nat]
    <2>1. \A t \in Serials : answered[c][t] + 1 \in Nat
      BY <1>1
    <2> QED BY <1>1, <2>1
  <1> HIDE DEF u, v, an
  <1>13. conn' = [conn EXCEPT ![c] = k]
    BY <1>7
  <1>14. /\ k \in Connection /\ k.authorized = x.authorized /\ k.out_queue = x.out_queue /\ k.next = x.next
         /\ k.pending = x.pending /\ k.cb = s /\ k.wait = v /\ k.ok = x.ok
    BY <1>1, <1>6 DEF Connection
  <1> HIDE DEF k
  <1>15. Waiting(k)
    BY <1>1, <1>5, <1>6, <1>14 DEF Waiting
  <1>16. Counted(k, asked[c], an)
    <2>1. SUFFICES ASSUME NEW t \in Serials
                   PROVE  asked[c][t] = an[t] + (IF t \in k.pending /\ t # k.cb THEN 1 ELSE 0)
      BY DEF Counted
    <2>2. asked[c][t] = answered[c][t] + (IF t \in x.pending /\ t # x.cb THEN 1 ELSE 0)
      BY <1>1 DEF Counted
    <2>3. asked[c][t] \in Nat /\ answered[c][t] \in Nat /\ t # -1
      BY <1>1, SerialFacts
    <2>4. CASE t = s
      <3>1. asked[c][t] = answered[c][t] + 1 /\ an[t] = answered[c][t] + 1
        BY <1>2, <1>5, <1>11, <2>2, <2>3, <2>4
      <3> QED BY <1>14, <2>3, <2>4, <3>1
    <2>5. CASE t # s
      <3>1. an[t] = answered[c][t] /\ t # x.cb /\ t # k.cb
        BY <1>2, <1>11, <1>14, <2>3, <2>5
      <3> QED BY <1>14, <2>2, <3>1
    <2> QED BY <2>4, <2>5
  <1> QED BY <1>2, <1>8, <1>9, <1>10, <1>12, <1>13, <1>14, <1>15, <1>16, ConnStep

\* filter_func() with any other message, answered or not.
LEMMA OtherStep ==
    ASSUME DBusInv, NEW c \in Clients, filter_other(c)
    PROVE  DBusInv'
  <1> DEFINE x == conn[c]
             k == [x EXCEPT !.cb = 0]
  <1>0. Reads(c)
    BY DEF filter_other
  <1>1. /\ x \in Connection /\ answered[c] \in [Serials -> Nat] /\ asked[c] \in [Serials -> Nat]
        /\ Waiting(x) /\ Counted(x, asked[c], answered[c]) /\ matches
        /\ asked = [asked EXCEPT ![c] = asked[c]] /\ answered = [answered EXCEPT ![c] = answered[c]]
    BY ClientFacts
  <1>2. /\ x.ok /\ x.cb = -1 /\ Head(down[c]) \in Messages /\ Deliverable(c, Head(down[c]))
        /\ Tail(down[c]) \in Seq(Messages) /\ AllDeliverable(c, Tail(down[c]))
        /\ down' = [down EXCEPT ![c] = Tail(down[c])]
    BY <1>0, ReadsFacts
  <1>3. PICK m \in Messages : m = Head(down[c])
    BY <1>2
  <1>4. PICK sn \in Nat : sn = x.next
    BY <1>1 DEF Connection
  <1>5. /\ k \in Connection /\ k.authorized = x.authorized /\ k.out_queue = x.out_queue /\ k.next = x.next
        /\ k.pending = x.pending /\ k.cb = 0 /\ k.wait = x.wait /\ k.ok = x.ok
    <2>1. x \in Connection /\ 0 \in Int
      BY <1>1
    <2> QED BY <2>1 DEF Connection
  <1>6. UNCHANGED <<asked, answered, svars>> /\ matches'
    BY <1>1 DEF filter_other, Server
  <1>7. /\ answered' = [answered EXCEPT ![c] = answered[c]] /\ asked' = [asked EXCEPT ![c] = asked[c]]
        /\ UNCHANGED svars
    BY <1>1, <1>6
  <1>8. ASSUME NEW j \in Connection, j.pending = x.pending, j.cb = 0, j.wait = x.wait, j.next >= x.next
        PROVE  Waiting(j) /\ Counted(j, asked[c], answered[c])
    <2>1. /\ x.pending \subseteq 1..(x.next - 1) /\ x.wait \in {0} \cup x.pending
      BY <1>1 DEF Waiting
    <2>2. PICK jn \in Nat : jn = j.next
      BY DEF Connection
    <2>3. 1..(sn - 1) \subseteq 1..(jn - 1) /\ 0 \notin 1..(sn - 1)
      BY <1>4, <1>8, <2>2
    <2>4. j.pending \subseteq 1..(j.next - 1) /\ 0 \notin j.pending
      BY <1>4, <1>8, <2>1, <2>2, <2>3
    <2>5. Waiting(j)
      BY <1>8, <2>1, <2>4 DEF Waiting
    <2>6. \A t \in Serials : t # 0 /\ t # -1
      BY SerialFacts
    <2>7. Counted(j, asked[c], answered[c])
      BY <1>1, <1>2, <1>8, <2>6 DEF Counted
    <2> QED BY <2>5, <2>7
  <1>9. CASE conn' = [conn EXCEPT ![c] = k] /\ UNCHANGED <<stream, calls>>
    <2>1. k.next >= x.next
      BY <1>4, <1>5
    <2>2. Waiting(k) /\ Counted(k, asked[c], answered[c])
      BY <1>5, <1>8, <2>1
    <2>3. UNCHANGED <<stream, calls, asked, svars>>
      BY <1>6, <1>9
    <2> HIDE DEF k
    <2> QED BY <1>1, <1>2, <1>5, <1>6, <1>7, <1>9, <2>2, <2>3, ConnStep
  <1> DEFINE answer == ReplyTo(m, m.sender, "reply", None, sn)
             k0 == [k EXCEPT !.next = sn + 1]
             r == send(k0, answer)
  <1>10. CASE /\ m.kind = "call"
              /\ conn' = [conn EXCEPT ![c] = r[1]]
              /\ stream' = [stream EXCEPT ![c] = @ \o r[2]]
              /\ calls' = [calls EXCEPT ![c] = Append(@, answer)]
    <2>1. m.sender \in Clients
      BY <1>2, <1>3, <1>10 DEF Deliverable
    <2>2. PICK d \in Clients : d = m.sender
      BY <2>1
    <2>3. answer \in Messages /\ answer.kind = "reply" /\ answer.dest = m.sender
          /\ answer.rserial = m.serial /\ answer.of = <<m.sender, m.serial>>
      <3> DEFINE an == ReplyTo(m, d, "reply", None, sn)
      <3>1. "reply" \in Kinds /\ None \in Values /\ d \in Clients \cup {None}
        BY DEF Kinds, Values
      <3>2. an \in Messages /\ an.kind = "reply" /\ an.dest = m.sender
            /\ an.rserial = m.serial /\ an.of = <<d, m.serial>>
        BY <3>1, ReplyFields
      <3> QED BY <2>2, <3>2
    <2> HIDE DEF answer, k
    <2>4. /\ k0 \in Connection /\ k0.authorized = k.authorized /\ k0.out_queue = k.out_queue /\ k0.next = sn + 1
          /\ k0.pending = k.pending /\ k0.cb = k.cb /\ k0.wait = k.wait /\ k0.ok = k.ok
      BY <1>5 DEF Connection
    <2> HIDE DEF k0
    <2>5. k0.next >= x.next /\ k0.authorized = x.authorized /\ k0.out_queue = x.out_queue
      BY <1>4, <1>5, <2>4
    <2>6. Sendable(answer, k0.next)
      BY <2>1, <2>3 DEF Sendable
    <2>7. /\ stream[c] \in Seq(Messages) /\ calls[c] \in Seq(Messages)
          /\ Ordered(k0, stream[c], calls[c]) /\ calls[c] # << >>
      <3>1. /\ Ordered(x, stream[c], calls[c]) /\ Begun(x, stream[c], calls[c], asked[c])
            /\ stream[c] \in Seq(Messages) /\ calls[c] \in Seq(Messages)
        BY ClientFacts
      <3> QED BY <1>2, <2>5, <3>1 DEF Ordered, Begun
    <2>8. /\ r[1] \in Connection /\ r[1].ok = k0.ok /\ r[1].pending = k0.pending /\ r[1].next = k0.next
          /\ r[1].cb = k0.cb /\ r[1].wait = k0.wait
      <3>1. /\ r[1] \in Connection /\ r[2] \in Seq(Messages)
            /\ r[1].ok = k0.ok /\ r[1].pending = k0.pending /\ r[1].next = k0.next
            /\ r[1].cb = k0.cb /\ r[1].wait = k0.wait
            /\ Ordered(r[1], stream[c] \o r[2], Append(calls[c], answer))
            /\ stream[c] \o r[2] \in Seq(Messages) /\ Len(stream[c]) <= Len(stream[c] \o r[2])
        BY <2>3, <2>4, <2>7, SendOrdered
      <3> QED BY <3>1
    <2> DEFINE j == r[1]
    <2>9. /\ conn' = [conn EXCEPT ![c] = j] /\ stream' = [stream EXCEPT ![c] = @ \o send(k0, answer)[2]]
          /\ calls' = [calls EXCEPT ![c] = Append(@, answer)]
          /\ j.authorized = send(k0, answer)[1].authorized /\ j.out_queue = send(k0, answer)[1].out_queue
      BY <1>10
    <2> HIDE DEF j
    <2>a. j \in Connection /\ j.pending = x.pending /\ j.cb = 0 /\ j.wait = x.wait /\ j.next = k0.next /\ j.next >= x.next
      BY <1>5, <2>4, <2>5, <2>8 DEF j
    <2>b. Waiting(j) /\ Counted(j, asked[c], answered[c])
      BY <1>8, <2>a
    <2> HIDE DEF r
    <2> QED BY <1>1, <1>2, <1>6, <1>7, <2>3, <2>4, <2>5, <2>6, <2>9, <2>a, <2>b, SendStep
  <1>11. \/ conn' = [conn EXCEPT ![c] = k] /\ UNCHANGED <<stream, calls>>
         \/ /\ m.kind = "call"
            /\ conn' = [conn EXCEPT ![c] = r[1]]
            /\ stream' = [stream EXCEPT ![c] = @ \o r[2]]
            /\ calls' = [calls EXCEPT ![c] = Append(@, answer)]
    <2>1. [k EXCEPT !.next = @ + 1] = k0
      BY <1>4, <1>5
    <2>2. ReplyTo(m, m.sender, "reply", None, k.next) = answer
      BY <1>4, <1>5
    <2> HIDE DEF k0, answer
    <2> QED BY <1>3, <2>1, <2>2 DEF filter_other
  <1> QED BY <1>9, <1>10, <1>11

\* The callback returns, and its entry is removed.
LEMMA CallbackStep ==
    ASSUME DBusInv, NEW c \in Clients, callback_returns(c)
    PROVE  DBusInv'
  <1> DEFINE x == conn[c]
             p == x.pending \ {x.cb}
             al == p # {}
             k == [x EXCEPT !.pending = p, !.alarm = al, !.cb = -1]
  <1>1. /\ x \in Connection /\ answered[c] \in [Serials -> Nat] /\ asked[c] \in [Serials -> Nat]
        /\ down[c] \in Seq(Messages) /\ AllDeliverable(c, down[c])
        /\ Waiting(x) /\ Counted(x, asked[c], answered[c]) /\ matches
        /\ answered = [answered EXCEPT ![c] = answered[c]] /\ down = [down EXCEPT ![c] = down[c]]
    BY ClientFacts
  <1>2. conn' = [conn EXCEPT ![c].pending = p, ![c].alarm = al, ![c].cb = -1]
    BY DEF callback_returns
  <1>3. /\ UNCHANGED <<stream, calls, asked, svars>> /\ matches' /\ answered' = [answered EXCEPT ![c] = answered[c]]
        /\ down' = [down EXCEPT ![c] = down[c]]
    BY <1>1 DEF callback_returns, Server
  <1>4. p \in SUBSET Nat /\ al \in BOOLEAN /\ -1 \in Int
    BY <1>1 DEF Connection
  <1>5. \A t : t \in p <=> t \in x.pending /\ t # x.cb
    OBVIOUS
  <1> HIDE DEF p, al
  <1>6. conn' = [conn EXCEPT ![c] = k]
    BY <1>2
  <1>7. /\ k \in Connection /\ k.authorized = x.authorized /\ k.out_queue = x.out_queue /\ k.next = x.next
        /\ k.pending = p /\ k.cb = -1 /\ k.wait = x.wait /\ k.ok = x.ok
    BY <1>1, <1>4 DEF Connection
  <1> HIDE DEF k
  <1>8. Waiting(k)
    <2>1. /\ x.pending \subseteq 1..(x.next - 1) /\ x.wait \in {0} \cup x.pending
          /\ (x.wait = 0 \/ x.wait # x.cb) /\ x.wait # -1
      BY <1>1 DEF Waiting, Connection
    <2>2. p \subseteq 1..(x.next - 1) /\ x.wait \in {0} \cup p
      BY <1>5, <2>1
    <2> QED BY <1>7, <2>1, <2>2 DEF Waiting
  <1>9. Counted(k, asked[c], answered[c])
    <2>1. SUFFICES ASSUME NEW t \in Serials
                   PROVE  asked[c][t] = answered[c][t] + (IF t \in k.pending /\ t # k.cb THEN 1 ELSE 0)
      BY DEF Counted
    <2>2. asked[c][t] = answered[c][t] + (IF t \in x.pending /\ t # x.cb THEN 1 ELSE 0)
      BY <1>1 DEF Counted
    <2>3. (t \in k.pending /\ t # k.cb) <=> (t \in x.pending /\ t # x.cb)
      BY <1>5, <1>7, SerialFacts
    <2>4. CASE t \in x.pending /\ t # x.cb
      BY <2>2, <2>3, <2>4
    <2>5. CASE ~(t \in x.pending /\ t # x.cb)
      BY <2>2, <2>3, <2>5
    <2> QED BY <2>4, <2>5
  <1> QED BY <1>1, <1>3, <1>6, <1>7, <1>8, <1>9, ConnStep

\* expire_pending() calls the callback once, for the entry that it has removed.
LEMMA ExpireStep ==
    ASSUME DBusInv, NEW c \in Clients, expire_pending(c)
    PROVE  DBusInv'
  <1> DEFINE x == conn[c]
  <1>1. /\ x \in Connection /\ answered[c] \in [Serials -> Nat] /\ asked[c] \in [Serials -> Nat]
        /\ down[c] \in Seq(Messages) /\ AllDeliverable(c, down[c])
        /\ Waiting(x) /\ Counted(x, asked[c], answered[c]) /\ matches
        /\ answered = [answered EXCEPT ![c] = answered[c]] /\ down = [down EXCEPT ![c] = down[c]]
    BY ClientFacts
  <1>2. /\ UNCHANGED <<stream, calls, asked, down, matches, svars>> /\ x.ok /\ x.cb = -1
    BY DEF expire_pending, Server, Ready
  <1>3. UNCHANGED <<stream, calls, asked, svars>> /\ matches' /\ down' = [down EXCEPT ![c] = down[c]]
    BY <1>1, <1>2
  <1>4. CASE conn' = [conn EXCEPT ![c].ok = FALSE] /\ UNCHANGED answered
    BY <1>2, <1>4, CloseStep
  <1>5. ASSUME NEW s \in x.pending,
               conn' = [conn EXCEPT ![c].pending = @ \ {s}, ![c].cb = 0,
                                    ![c].uniquename = IF s = 1 THEN Bus ELSE @,
                                    ![c].wait = IF @ = s THEN 0 ELSE @],
               answered' = [answered EXCEPT ![c][s] = @ + 1]
        PROVE  DBusInv'
    <2> DEFINE p == x.pending \ {s}
               u == IF s = 1 THEN Bus ELSE x.uniquename
               v == IF x.wait = s THEN 0 ELSE x.wait
               k == [x EXCEPT !.pending = p, !.cb = 0, !.uniquename = u, !.wait = v]
               an == [answered[c] EXCEPT ![s] = @ + 1]
    <2>1. s \in Nat /\ x.pending \subseteq 1..(x.next - 1) /\ x.wait \in {0} \cup x.pending /\ 0 \notin x.pending
      <3>1. x.pending \subseteq 1..(x.next - 1) /\ x.wait \in {0} \cup x.pending
        BY <1>1 DEF Waiting
      <3>2. x.next \in Nat /\ x.pending \subseteq Nat
        BY <1>1 DEF Connection
      <3> QED BY <3>1, <3>2
    <2>2. p \in SUBSET Nat /\ u \in Values /\ v \in Nat /\ v \in {0} \cup p /\ 0 \notin p
      <3>1. x.uniquename \in Values /\ x.wait \in Nat /\ Bus \in Values /\ x.pending \subseteq Nat
        BY <1>1 DEF Connection, Values
      <3> QED BY <2>1, <3>1
    <2>3. conn' = [conn EXCEPT ![c].pending = p, ![c].cb = 0, ![c].uniquename = u, ![c].wait = v]
      BY <1>5
    <2>4. answered' = [answered EXCEPT ![c] = an]
      BY <1>5
    <2>5. \A t \in Serials : an[t] = IF t = s THEN answered[c][t] + 1 ELSE answered[c][t]
      BY <1>1
    <2>6. an \in [Serials -> Nat]
      <3>1. \A t \in Serials : answered[c][t] + 1 \in Nat
        BY <1>1
      <3> QED BY <1>1, <3>1
    <2>7. \A t : t \in p <=> t \in x.pending /\ t # s
      OBVIOUS
    <2> HIDE DEF p, u, v, an
    <2>8. conn' = [conn EXCEPT ![c] = k]
      BY <2>3
    <2>9. /\ k \in Connection /\ k.authorized = x.authorized /\ k.out_queue = x.out_queue /\ k.next = x.next
          /\ k.pending = p /\ k.cb = 0 /\ k.wait = v /\ k.ok = x.ok
      <3>1. 0 \in Int
        OBVIOUS
      <3> QED BY <1>1, <2>2, <3>1 DEF Connection
    <2> HIDE DEF k
    <2>10. Waiting(k)
      <3>1. p \subseteq 1..(x.next - 1)
        BY <2>1, <2>7
      <3> QED BY <2>2, <2>9, <3>1 DEF Waiting
    <2>11. Counted(k, asked[c], an)
      <3>1. SUFFICES ASSUME NEW t \in Serials
                     PROVE  asked[c][t] = an[t] + (IF t \in k.pending /\ t # k.cb THEN 1 ELSE 0)
        BY DEF Counted
      <3>2. asked[c][t] = answered[c][t] + (IF t \in x.pending /\ t # x.cb THEN 1 ELSE 0)
        BY <1>1 DEF Counted
      <3>3. asked[c][t] \in Nat /\ answered[c][t] \in Nat /\ t # -1 /\ t # 0
        BY <1>1, SerialFacts
      <3>4. CASE t = s
        <4>1. asked[c][t] = answered[c][t] + 1 /\ an[t] = answered[c][t] + 1 /\ t \notin k.pending
          BY <1>2, <2>5, <2>7, <2>9, <3>2, <3>3, <3>4
        <4> QED BY <3>3, <4>1
      <3>5. CASE t # s
        <4>1. an[t] = answered[c][t] /\ ((t \in k.pending /\ t # k.cb) <=> (t \in x.pending /\ t # x.cb))
          BY <1>2, <2>5, <2>7, <2>9, <3>3, <3>5
        <4>2. CASE t \in x.pending /\ t # x.cb
          BY <3>2, <4>1, <4>2
        <4>3. CASE ~(t \in x.pending /\ t # x.cb)
          BY <3>2, <4>1, <4>3
        <4> QED BY <4>2, <4>3
      <3> QED BY <3>4, <3>5
    <2> QED BY <1>1, <1>3, <2>4, <2>6, <2>8, <2>9, <2>10, <2>11, ConnStep
  <1> QED BY <1>4, <1>5 DEF expire_pending

\* send_and_wait(), up to where it waits.
LEMMA WaitStep ==
    ASSUME DBusInv, NEW c \in Clients, NEW dest \in Names, send_and_wait(c, dest)
    PROVE  DBusInv'
  <1> DEFINE x == conn[c]
  <1>1. /\ x \in Connection /\ stream[c] \in Seq(Messages) /\ calls[c] \in Seq(Messages)
        /\ down[c] \in Seq(Messages) /\ asked[c] \in [Serials -> Nat] /\ answered[c] \in [Serials -> Nat]
        /\ Ordered(x, stream[c], calls[c])
        /\ Begun(x, stream[c], calls[c], asked[c])
        /\ Waiting(x) /\ Counted(x, asked[c], answered[c])
        /\ AllDeliverable(c, down[c]) /\ matches
        /\ down = [down EXCEPT ![c] = down[c]] /\ answered = [answered EXCEPT ![c] = answered[c]]
    BY ClientFacts
  <1>2. x.ok /\ x.cb = -1 /\ x.wait = 0 /\ UNCHANGED <<down, matches, answered, svars>>
    BY DEF send_and_wait, Acts, Calls, Server
  <1>3. PICK s \in Nat : s = x.next
    BY <1>1 DEF Connection
  <1> DEFINE m == Msg("call", "do", None, s, dest)
             k0 == [x EXCEPT !.next = s + 1, !.wait = s]
             r == send(k0, m)
             p == r[1].pending \cup {s}
             k == [r[1] EXCEPT !.pending = p, !.alarm = TRUE]
             as == [asked[c] EXCEPT ![s] = @ + 1]
  <1>4. /\ conn' = [conn EXCEPT ![c] = k] /\ stream' = [stream EXCEPT ![c] = @ \o r[2]]
        /\ calls' = [calls EXCEPT ![c] = Append(@, m)] /\ asked' = [asked EXCEPT ![c] = as]
    <2>1. /\ conn' = [conn EXCEPT ![c] = add_pending(r[1], s)] /\ stream' = [stream EXCEPT ![c] = @ \o r[2]]
          /\ calls' = [calls EXCEPT ![c] = Append(@, m)] /\ asked' = [asked EXCEPT ![c][s] = @ + 1]
      <3>1. [x EXCEPT !.next = @ + 1, !.wait = x.next] = k0
        BY <1>3
      <3> HIDE DEF k0
      <3> QED BY <1>3, <3>1 DEF send_and_wait
    <2>2. add_pending(r[1], s) = k
      BY DEF add_pending
    <2> HIDE DEF k, r, m
    <2>3. asked' = [asked EXCEPT ![c] = as]
      BY <2>1
    <2> QED BY <2>1, <2>2, <2>3
  <1>5. as \in [Serials -> Nat] /\ \A t \in Serials : as[t] = IF t = s THEN asked[c][t] + 1 ELSE asked[c][t]
    <2>1. \A t \in Serials : asked[c][t] + 1 \in Nat
      BY <1>1
    <2> QED BY <1>1, <2>1
  <1>6. m \in Messages /\ m.kind = "call" /\ m.serial = s /\ m.dest = dest /\ m.rserial = 0
    <2>1. "call" \in Kinds /\ "do" \in Subjects /\ None \in Values /\ dest \in Values
      BY DEF Kinds, Subjects, Values
    <2> QED BY <2>1, MsgFields
  <1>7. s >= 3 /\ s \in 1..((s + 1) - 1) /\ s \notin 1..(s - 1) /\ s + 1 \in Nat
    <2>1. s >= 3
      BY <1>1, <1>2, <1>3 DEF Begun
    <2> QED BY <2>1
  <1> HIDE DEF m, as
  <1>8. /\ k0 \in Connection /\ k0.authorized = x.authorized /\ k0.out_queue = x.out_queue /\ k0.next = s + 1
        /\ k0.pending = x.pending /\ k0.cb = x.cb /\ k0.wait = s /\ k0.ok = x.ok
    BY <1>1, <1>7 DEF Connection
  <1> HIDE DEF k0
  <1>9. Ordered(k0, stream[c], calls[c]) /\ calls[c] # << >>
    BY <1>1, <1>2, <1>8 DEF Ordered, Begun
  <1>10. /\ r[1] \in Connection /\ r[1].ok = k0.ok /\ r[1].pending = k0.pending /\ r[1].next = k0.next
         /\ r[1].cb = k0.cb /\ r[1].wait = k0.wait
    <2>1. /\ r[1] \in Connection /\ r[2] \in Seq(Messages)
          /\ r[1].ok = k0.ok /\ r[1].pending = k0.pending /\ r[1].next = k0.next
          /\ r[1].cb = k0.cb /\ r[1].wait = k0.wait
          /\ Ordered(r[1], stream[c] \o r[2], Append(calls[c], m))
          /\ stream[c] \o r[2] \in Seq(Messages) /\ Len(stream[c]) <= Len(stream[c] \o r[2])
      BY <1>1, <1>6, <1>8, <1>9, SendOrdered
    <2> QED BY <2>1
  <1> DEFINE z == r[1]
  <1>11. stream' = [stream EXCEPT ![c] = @ \o send(k0, m)[2]] /\ z = send(k0, m)[1]
    BY <1>4
  <1> HIDE DEF r
  <1>12. p \in SUBSET Nat /\ p = x.pending \cup {s}
    BY <1>8, <1>10 DEF Connection
  <1> HIDE DEF p
  <1>13. /\ k \in Connection /\ k.authorized = z.authorized /\ k.out_queue = z.out_queue
         /\ k.pending = p /\ k.next = z.next /\ k.cb = z.cb /\ k.wait = z.wait
    BY <1>10, <1>12 DEF Connection
  <1> HIDE DEF k
  <1>14. k.pending = x.pending \cup {s} /\ k.next = s + 1 /\ k.cb = -1 /\ k.wait = s /\ k.next = k0.next
    BY <1>2, <1>8, <1>10, <1>12, <1>13
  <1>15. s \notin x.pending /\ x.pending \subseteq 1..(s - 1)
    BY <1>1, <1>3, <1>7 DEF Waiting
  <1>16. Waiting(k)
    <2>1. 1..(s - 1) \subseteq 1..((s + 1) - 1) /\ s # -1
      OBVIOUS
    <2> QED BY <1>7, <1>14, <1>15, <2>1 DEF Waiting
  <1>17. Counted(k, as, answered[c])
    <2>1. SUFFICES ASSUME NEW t \in Serials
                   PROVE  as[t] = answered[c][t] + (IF t \in k.pending /\ t # k.cb THEN 1 ELSE 0)
      BY DEF Counted
    <2>2. asked[c][t] = answered[c][t] + (IF t \in x.pending /\ t # x.cb THEN 1 ELSE 0)
      BY <1>1 DEF Counted
    <2>3. asked[c][t] \in Nat /\ answered[c][t] \in Nat /\ t # -1
      BY <1>1, SerialFacts
    <2>4. CASE t = s
      <3>1. as[t] = asked[c][t] + 1 /\ t \notin x.pending /\ t \in k.pending /\ t # k.cb
        BY <1>5, <1>14, <1>15, <2>3, <2>4
      <3>2. asked[c][t] = answered[c][t] + 0
        BY <2>2, <3>1
      <3> QED BY <2>3, <3>1, <3>2
    <2>5. CASE t # s
      <3>1. as[t] = asked[c][t] /\ ((t \in k.pending /\ t # k.cb) <=> (t \in x.pending /\ t # x.cb))
        BY <1>2, <1>5, <1>14, <2>5
      <3>2. CASE t \in x.pending /\ t # x.cb
        BY <2>2, <3>1, <3>2
      <3>3. CASE ~(t \in x.pending /\ t # x.cb)
        BY <2>2, <3>1, <3>3
      <3> QED BY <3>2, <3>3
    <2> QED BY <2>4, <2>5
  <1>18. Sendable(m, k0.next)
    <2>1. dest # None
      BY DBusAssumption
    <2> QED BY <1>6, <1>7, <1>8, <2>1 DEF Sendable
  <1>19. /\ down' = [down EXCEPT ![c] = down[c]] /\ answered' = [answered EXCEPT ![c] = answered[c]] /\ matches'
         /\ UNCHANGED svars
    BY <1>1, <1>2
  <1>20. /\ k0.next >= x.next /\ k.authorized = send(k0, m)[1].authorized
         /\ k.out_queue = send(k0, m)[1].out_queue
    BY <1>3, <1>8, <1>11, <1>13
  <1> QED BY <1>1, <1>2, <1>4, <1>5, <1>6, <1>8, <1>11, <1>13, <1>14, <1>16, <1>17, <1>18, <1>19, <1>20, SendStep

\* All that a program does,
LEMMA ProgramStep ==
    ASSUME DBusInv, NEW c \in Clients, Program(c)
    PROVE  DBusInv'
  <1>1. ASSUME close(c) PROVE DBusInv'
    <2>1. /\ conn' = [conn EXCEPT ![c].ok = FALSE]
          /\ UNCHANGED <<stream, calls, asked, answered, down, matches, svars>>
      BY <1>1 DEF close, Acts, Calls, Server
    <2> QED BY <2>1, CloseStep
  <1>2. \/ connect(c) \/ close(c)
        \/ \E n \in Names : send_and_wait(c, n)
        \/ \E n \in DOMAIN calls[c] : resend(c, calls[c][n])
        \/ \/ send_signal(c)
           \/ \E n \in Names : send_call(c, n, "do", None) \/ \E f \in Methods : send_call(c, Bus, f, n)
    BY DEF Program
  <1> QED BY <1>1, <1>2, ConnectStep, WaitStep, ResendStep, ProgramSends

\* and all that post_select() does for it.
LEMMA PostSelectStep ==
    ASSUME DBusInv, NEW c \in Clients, post_select(c)
    PROVE  DBusInv'
  <1>1. ASSUME read_eof(c) PROVE DBusInv'
    <2>1. /\ conn' = [conn EXCEPT ![c].ok = FALSE]
          /\ UNCHANGED <<stream, calls, asked, answered, down, matches, svars>>
      BY <1>1 DEF read_eof, Server
    <2> QED BY <2>1, CloseStep
  <1> QED BY <1>1, AuthStep, ReplyStep, OtherStep, CallbackStep, ExpireStep, WaitEndsStep DEF post_select

\* What the server reads, as far as it matters where it goes.
Routable(m) ==
    /\ m.rserial # 0 => m.dest \in Clients /\ m.of = <<m.dest, m.rserial>>
    /\ m.kind = "call" => m.dest # None

\* A step of the server leaves the clients alone.
LEMMA ServerStep ==
    ASSUME DBusInv, Clientside, srv' \in [Clients -> Service], down' \in [Clients -> Seq(Messages)],
           taken' \in [Clients -> Nat], \A d \in Clients : taken'[d] <= Len(stream[d]),
           name_to_conn' \in [Names \cup Clients -> Clients \cup {None}], NamesOK',
           \A d \in Clients : AllDeliverable(d, down'[d]) /\ AllDeliverable(d, srv'[d].out_queue)
    PROVE  DBusInv'
  <1>1. UNCHANGED <<conn, calls, asked, answered, matches, stream>>
    BY DEF Clientside, cvars
  <1>2. Types'
    BY <1>1 DEF DBusInv, Types
  <1>3. ASSUME NEW d \in Clients PROVE Client(d)' /\ Deliveries(d)'
    <2>1. Client(d)'
      BY <1>1 DEF DBusInv, Client
    <2> QED BY <2>1 DEF Deliveries
  <1> QED BY <1>1, <1>2, <1>3 DEF DBusInv

\* Reading: the server is never ahead of the client.
LEMMA TakesFacts ==
    ASSUME DBusInv, NEW c \in Clients, Takes(c)
    PROVE  /\ taken' \in [Clients -> Nat] /\ \A d \in Clients : taken'[d] <= Len(stream[d])
           /\ srv[c].listed
  <1>1. taken \in [Clients -> Nat] /\ stream \in [Clients -> Seq(Messages)]
    BY DEF DBusInv, Types
  <1>2. taken' = [taken EXCEPT ![c] = @ + 1] /\ taken[c] < Len(stream[c]) /\ srv[c].listed
    BY DEF Takes
  <1>3. ASSUME NEW d \in Clients PROVE taken'[d] \in Nat /\ taken'[d] <= Len(stream[d])
    <2>1. PICK x \in Nat, y \in Nat : taken[d] = x /\ Len(stream[d]) = y
      BY <1>1
    <2>2. taken[d] <= Len(stream[d])
      BY DEF DBusInv, Client
    <2>3. CASE d = c
      BY <1>1, <1>2, <2>1, <2>3
    <2>4. CASE d # c
      BY <1>1, <1>2, <2>1, <2>2, <2>4
    <2> QED BY <2>3, <2>4
  <1> QED BY <1>1, <1>2, <1>3

\* Lines go nowhere.
LEMMA LineRoutable ==
    ASSUME NEW what \in Subjects
    PROVE  Line(what) \in Messages /\ Routable(Line(what))
  <1>1. Line(what) \in Messages /\ Line(what).kind = "line" /\ Line(what).rserial = 0
    BY LineFields
  <1> QED BY <1>1 DEF Routable

\* All that a client has written is routable, for it is lines and then what send() was
\* given.
LEMMA StreamRoutable ==
    ASSUME NEW k \in Connection, NEW q \in Seq(Messages), NEW w \in Seq(Messages), NEW next,
           Ordered(k, q, w), AllSendable(w, next), NEW i \in 1..Len(q)
    PROVE  q[i] \in Messages /\ Routable(q[i])
  <1> DEFINE a == Line("AUTH")
             b == Line("BEGIN")
             h == <<a, b>>
  <1>1. a \in Messages /\ b \in Messages /\ Routable(a) /\ Routable(b)
    BY LineRoutable DEF Subjects
  <1> HIDE DEF a, b
  <1>2. q[i] \in Messages
    OBVIOUS
  <1>3. CASE k.authorized
    <2>1. q = h \o w
      BY <1>3 DEF Ordered, a, b
    <2>2. h \in Seq(Messages) /\ Len(h) = 2 /\ h[1] = a /\ h[2] = b
      BY <1>1
    <2> HIDE DEF h
    <2>3. PICK n \in Nat : Len(w) = n
      OBVIOUS
    <2>4. Len(q) = 2 + n /\ q[i] = IF i <= 2 THEN h[i] ELSE w[i - 2]
      <3>1. /\ Len(h \o w) = Len(h) + Len(w)
            /\ \A j \in 1..(Len(h) + Len(w)) : (h \o w)[j] = IF j <= Len(h) THEN h[j] ELSE w[j - Len(h)]
        BY <2>2, ConcatProperties
      <3>2. Len(q) = 2 + n
        BY <2>1, <2>2, <2>3, <3>1
      <3>3. i \in 1..(Len(h) + Len(w))
        BY <2>2, <2>3, <3>2
      <3> QED BY <2>1, <2>2, <3>1, <3>2, <3>3
    <2>5. CASE i <= 2
      <3>1. i = 1 \/ i = 2
        BY <2>4, <2>5
      <3> QED BY <1>1, <1>2, <2>2, <2>4, <2>5, <3>1
    <2>6. CASE i > 2
      <3>1. i - 2 \in 1..Len(w) /\ q[i] = w[i - 2]
        BY <2>3, <2>4, <2>6
      <3>2. Sendable(w[i - 2], next)
        BY <3>1 DEF AllSendable
      <3> QED BY <1>2, <3>1, <3>2 DEF Sendable, Routable
    <2> QED BY <2>4, <2>5, <2>6
  <1>4. CASE ~k.authorized
    <2>1. q = << >> \/ q = <<a>>
      BY <1>4 DEF Ordered, a
    <2>2. q = <<a>>
      BY <2>1
    <2>3. Len(q) = 1 /\ q[1] = a
      BY <2>2
    <2>4. i = 1
      BY <2>3
    <2> QED BY <1>1, <2>3, <2>4
  <1> QED BY <1>3, <1>4

\* So is what the server reads next.
LEMMA ItemFacts ==
    ASSUME DBusInv, NEW c \in Clients, Takes(c)
    PROVE  Item(c) \in Messages /\ Routable(Item(c))
  <1>1. /\ conn[c] \in Connection /\ stream[c] \in Seq(Messages) /\ calls[c] \in Seq(Messages)
        /\ Ordered(conn[c], stream[c], calls[c]) /\ AllSendable(calls[c], conn[c].next)
    BY ClientFacts
  <1>2. taken[c] + 1 \in 1..Len(stream[c])
    <2>1. taken[c] \in Nat /\ taken[c] < Len(stream[c])
      BY DEF DBusInv, Types, Takes
    <2>2. PICK x \in Nat, y \in Nat : taken[c] = x /\ Len(stream[c]) = y
      BY <1>1, <2>1
    <2> QED BY <2>1, <2>2
  <1> DEFINE i == taken[c] + 1
  <1>3. Item(c) = stream[c][i]
    BY DEF Item
  <1> HIDE DEF i
  <1>4. i \in 1..Len(stream[c])
    BY <1>2 DEF i
  <1> QED BY <1>1, <1>3, <1>4, StreamRoutable

\* Queues of deliverable messages: one more,
LEMMA AppendDeliverable ==
    ASSUME NEW c, NEW q \in Seq(Messages), NEW m \in Messages, AllDeliverable(c, q), Deliverable(c, m)
    PROVE  Append(q, m) \in Seq(Messages) /\ AllDeliverable(c, Append(q, m))
  <1> DEFINE w == Append(q, m)
  <1>1. /\ w \in Seq(Messages) /\ Len(w) = Len(q) + 1
        /\ \A i \in 1..Len(q) : w[i] = q[i]
        /\ w[Len(q) + 1] = m
    BY AppendFacts
  <1> HIDE DEF w
  <1>2. PICK n \in Nat : Len(q) = n
    OBVIOUS
  <1>3. ASSUME NEW i \in 1..Len(w) PROVE Deliverable(c, w[i])
    <2>1. i \in 1..n \/ i = n + 1
      BY <1>1, <1>2
    <2> QED BY <1>1, <1>2, <2>1 DEF AllDeliverable
  <1>4. w \in Seq(Messages) /\ AllDeliverable(c, w)
    BY <1>1, <1>3 DEF AllDeliverable
  <1> QED BY <1>4 DEF w

\* or those that waited for the authentication.
LEMMA ConcatDeliverable ==
    ASSUME NEW c, NEW p \in Seq(Messages), NEW q \in Seq(Messages), AllDeliverable(c, p), AllDeliverable(c, q)
    PROVE  p \o q \in Seq(Messages) /\ AllDeliverable(c, p \o q)
  <1> DEFINE w == p \o q
  <1>0. PICK x \in Nat, y \in Nat : Len(p) = x /\ Len(q) = y
    OBVIOUS
  <1>1. w \in Seq(Messages) /\ Len(w) = x + y /\ \A i \in 1..(x + y) : w[i] = IF i <= x THEN p[i] ELSE q[i - x]
    BY <1>0, ConcatProperties
  <1> HIDE DEF w
  <1>3. ASSUME NEW i \in 1..Len(w) PROVE Deliverable(c, w[i])
    <2>1. CASE i <= x
      <3>1. i \in 1..Len(p) /\ w[i] = p[i]
        BY <1>0, <1>1, <2>1
      <3> QED BY <3>1 DEF AllDeliverable
    <2>2. CASE i > x
      <3>1. i - x \in 1..Len(q) /\ w[i] = q[i - x]
        BY <1>0, <1>1, <2>2
      <3> QED BY <3>1 DEF AllDeliverable
    <2> QED BY <1>0, <1>1, <2>1, <2>2
  <1>4. w \in Seq(Messages) /\ AllDeliverable(c, w)
    BY <1>1, <1>3 DEF AllDeliverable
  <1> QED BY <1>4 DEF w

\* send() by the server, to some of its connections, of which some may break.
LEMMA ServerSendsStep ==
    ASSUME DBusInv, NEW ds, NEW m \in Messages, \A d \in ds : Deliverable(d, m), ServerSends(ds, m)
    PROVE  /\ srv' \in [Clients -> Service] /\ down' \in [Clients -> Seq(Messages)]
           /\ \A d \in Clients : /\ AllDeliverable(d, down'[d]) /\ AllDeliverable(d, srv'[d].out_queue)
                                 /\ srv'[d].listed = srv[d].listed
  <1>1. PICK broken \in SUBSET {d \in ds : ~conn[d].ok} :
            /\ srv' = [d \in Clients |-> [srv[d] EXCEPT
                   !.out_queue = IF d \in ds /\ srv[d].open /\ srv[d].state # "authorized" THEN Append(@, m) ELSE @,
                   !.open = @ /\ d \notin broken]]
            /\ down' = [d \in Clients |->
                   IF d \in ds /\ srv[d].open /\ srv[d].state = "authorized" THEN Append(down[d], m) ELSE down[d]]
    BY DEF ServerSends
  <1>2. ASSUME NEW d \in Clients
        PROVE  /\ srv'[d] \in Service /\ AllDeliverable(d, srv'[d].out_queue) /\ srv'[d].listed = srv[d].listed
               /\ down'[d] \in Seq(Messages) /\ AllDeliverable(d, down'[d])
    <2> DEFINE v == srv[d]
               n == IF d \in ds /\ v.open /\ v.state # "authorized" THEN Append(v.out_queue, m) ELSE v.out_queue
               o == v.open /\ d \notin broken
               w == IF d \in ds /\ v.open /\ v.state = "authorized" THEN Append(down[d], m) ELSE down[d]
               e == [v EXCEPT !.out_queue = n, !.open = o]
    <2>1. v \in Service /\ v.out_queue \in Seq(Messages) /\ down[d] \in Seq(Messages)
      BY DEF DBusInv, Types, Service
    <2>2. AllDeliverable(d, v.out_queue) /\ AllDeliverable(d, down[d])
      BY DEF DBusInv, Deliveries
    <2>3. d \in ds => /\ Append(v.out_queue, m) \in Seq(Messages) /\ AllDeliverable(d, Append(v.out_queue, m))
                      /\ Append(down[d], m) \in Seq(Messages) /\ AllDeliverable(d, Append(down[d], m))
      <3>1. PICK p \in Seq(Messages), q \in Seq(Messages) : p = v.out_queue /\ q = down[d]
        BY <2>1
      <3>2. SUFFICES ASSUME d \in ds
                     PROVE  /\ Append(p, m) \in Seq(Messages) /\ AllDeliverable(d, Append(p, m))
                            /\ Append(q, m) \in Seq(Messages) /\ AllDeliverable(d, Append(q, m))
        BY <3>1
      <3>3. Deliverable(d, m) /\ AllDeliverable(d, p) /\ AllDeliverable(d, q)
        BY <2>2, <3>1, <3>2
      <3> QED BY <3>3, AppendDeliverable
    <2>4. n \in Seq(Messages) /\ AllDeliverable(d, n) /\ w \in Seq(Messages) /\ AllDeliverable(d, w)
      BY <2>1, <2>2, <2>3
    <2>5. o \in BOOLEAN
      BY <2>1 DEF Service
    <2>6. srv'[d] = e /\ down'[d] = w
      BY <1>1
    <2> HIDE DEF n, o, w
    <2>7. e \in Service /\ e.out_queue = n /\ e.listed = v.listed
      BY <2>1, <2>4, <2>5 DEF Service
    <2> HIDE DEF e
    <2> QED BY <2>4, <2>6, <2>7
  <1>3. srv' = [d \in Clients |-> srv'[d]] /\ down' = [d \in Clients |-> down'[d]]
    BY <1>1
  <1>4. srv' \in [Clients -> Service] /\ down' \in [Clients -> Seq(Messages)]
    BY <1>2, <1>3
  <1> QED BY <1>2, <1>4

\* A message is read, another one is sent, and a name other than the unique ones may
\* become the reader's or nobody's.
LEMMA TakesStep ==
    ASSUME DBusInv, Clientside, NEW c \in Clients, Takes(c),
           NEW ds, NEW m \in Messages, \A d \in ds : Deliverable(d, m), ServerSends(ds, m),
           name_to_conn' \in [Names \cup Clients -> Clients \cup {None}],
           \A n \in Names : name_to_conn'[n] \in {name_to_conn[n], c, None},
           \A d \in Clients : name_to_conn'[d] = name_to_conn[d]
    PROVE  DBusInv'
  <1>1. /\ srv' \in [Clients -> Service] /\ down' \in [Clients -> Seq(Messages)]
        /\ \A d \in Clients : /\ AllDeliverable(d, down'[d]) /\ AllDeliverable(d, srv'[d].out_queue)
                              /\ srv'[d].listed = srv[d].listed
    BY ServerSendsStep
  <1>2. taken' \in [Clients -> Nat] /\ (\A d \in Clients : taken'[d] <= Len(stream[d])) /\ srv[c].listed
    BY TakesFacts
  <1>3. NamesOK'
    <2>1. /\ \A n \in DOMAIN name_to_conn : name_to_conn[n] # None => srv[name_to_conn[n]].listed
          /\ \A d \in Clients : name_to_conn[d] \in {d, None}
      BY DEF DBusInv, NamesOK, NamesAreLive
    <2>2. DOMAIN name_to_conn' = Names \cup Clients /\ DOMAIN name_to_conn = Names \cup Clients
      BY DEF DBusInv, Types
    <2>3. ASSUME NEW n \in Names \cup Clients, name_to_conn'[n] # None PROVE srv'[name_to_conn'[n]].listed
      <3>1. name_to_conn'[n] \in Clients
        BY <2>3
      <3>2. name_to_conn'[n] = c \/ name_to_conn'[n] = name_to_conn[n]
        BY <2>3
      <3>3. srv[name_to_conn'[n]].listed
        BY <1>2, <2>1, <2>2, <2>3, <3>2
      <3> QED BY <1>1, <3>1, <3>3
    <2>4. NamesAreLive'
      BY <2>2, <2>3 DEF NamesAreLive
    <2> QED BY <2>1, <2>4 DEF NamesOK
  <1> QED BY <1>1, <1>2, <1>3, ServerStep

\* An answer goes back to the client that asked, and names its message.
LEMMA AnswersStep ==
    ASSUME DBusInv, Clientside, NEW c \in Clients, Takes(c),
           NEW kind \in Kinds, kind # "call", NEW arg \in Values, Answers(c, kind, arg),
           name_to_conn' \in [Names \cup Clients -> Clients \cup {None}],
           \A n \in Names : name_to_conn'[n] \in {name_to_conn[n], c, None},
           \A d \in Clients : name_to_conn'[d] = name_to_conn[d]
    PROVE  DBusInv'
  <1>1. Item(c) \in Messages
    BY ItemFacts
  <1>2. PICK i \in Messages : i = Item(c)
    BY <1>1
  <1> DEFINE m == ReplyTo(i, c, kind, arg, 0)
             ds == {c}
  <1>3. m \in Messages /\ m.kind = kind /\ m.rserial = i.serial /\ m.of = <<c, i.serial>>
    <2>1. c \in Clients \cup {None} /\ 0 \in Nat
      OBVIOUS
    <2>2. /\ m \in Messages /\ m.kind = kind /\ m.dest = i.sender
          /\ m.rserial = i.serial /\ m.of = <<c, i.serial>>
      BY <2>1, ReplyFields
    <2> QED BY <2>2
  <1>4. ServerSends(ds, m)
    BY <1>2 DEF Answers
  <1> HIDE DEF m
  <1>5. \A d \in ds : Deliverable(d, m)
    BY <1>3 DEF Deliverable
  <1> HIDE DEF ds
  <1> QED BY <1>3, <1>4, <1>5, TakesStep

\* The names stay as they are.
LEMMA NamesKept ==
    ASSUME DBusInv
    PROVE  /\ name_to_conn \in [Names \cup Clients -> Clients \cup {None}]
           /\ \A c : \A n \in Names : name_to_conn[n] \in {name_to_conn[n], c, None}
           /\ \A d \in Clients : name_to_conn[d] = name_to_conn[d]
  BY DEF DBusInv, Types

\* do_server_msg(): Hello and AddMatch,
LEMMA HelloStep ==
    ASSUME DBusInv, NEW c \in Clients, do_server_hello(c)
    PROVE  DBusInv'
  <1>1. Takes(c) /\ Answers(c, "reply", c) /\ name_to_conn' = name_to_conn /\ Clientside
    BY DEF do_server_hello, TakesMessage
  <1>2. "reply" \in Kinds /\ "reply" # "call" /\ c \in Values
    BY DEF Kinds, Values
  <1>3. /\ name_to_conn' \in [Names \cup Clients -> Clients \cup {None}]
        /\ \A n \in Names : name_to_conn'[n] \in {name_to_conn[n], c, None}
        /\ \A d \in Clients : name_to_conn'[d] = name_to_conn[d]
    BY <1>1, NamesKept
  <1> QED BY <1>1, <1>2, <1>3, AnswersStep

\* do_gaveup_msg(),
LEMMA GaveUpStep ==
    ASSUME DBusInv, NEW c \in Clients, do_gaveup_msg(c)
    PROVE  DBusInv'
  <1>1. Takes(c) /\ Answers(c, "error", None) /\ name_to_conn' = name_to_conn /\ Clientside
    BY DEF do_gaveup_msg, TakesMessage
  <1>2. "error" \in Kinds /\ "error" # "call" /\ None \in Values
    BY DEF Kinds, Values
  <1>3. /\ name_to_conn' \in [Names \cup Clients -> Clients \cup {None}]
        /\ \A n \in Names : name_to_conn'[n] \in {name_to_conn[n], c, None}
        /\ \A d \in Clients : name_to_conn'[d] = name_to_conn[d]
    BY <1>1, NamesKept
  <1> QED BY <1>1, <1>2, <1>3, AnswersStep

\* GetNameOwner,
LEMMA OwnerStep ==
    ASSUME DBusInv, NEW c \in Clients, NEW n \in Names, do_server_owner(c, n)
    PROVE  DBusInv'
  <1>0. PICK o \in Clients \cup {None} : o = name_to_conn[n]
    BY NamesKept
  <1> DEFINE kind == IF o = None THEN "error" ELSE "reply"
  <1>1. Takes(c) /\ Answers(c, kind, o) /\ name_to_conn' = name_to_conn /\ Clientside
    BY <1>0 DEF do_server_owner, TakesMessage
  <1>2. kind \in Kinds /\ kind # "call" /\ o \in Values
    BY DEF Kinds, Values
  <1>3. /\ name_to_conn' \in [Names \cup Clients -> Clients \cup {None}]
        /\ \A i \in Names : name_to_conn'[i] \in {name_to_conn[i], c, None}
        /\ \A d \in Clients : name_to_conn'[d] = name_to_conn[d]
    BY <1>1, NamesKept
  <1> HIDE DEF kind
  <1> QED BY <1>1, <1>2, <1>3, AnswersStep

\* RequestName,
LEMMA RequestStep ==
    ASSUME DBusInv, NEW c \in Clients, NEW n \in Names, do_server_request(c, n)
    PROVE  DBusInv'
  <1>1. Takes(c) /\ Answers(c, "reply", n) /\ name_to_conn' = [name_to_conn EXCEPT ![n] = c] /\ Clientside
    BY DEF do_server_request, TakesMessage, register_name
  <1>2. "reply" \in Kinds /\ "reply" # "call" /\ n \in Values /\ c \in Clients \cup {None} /\ c \in {c, None}
    BY DEF Kinds, Values
  <1>3. /\ name_to_conn' \in [Names \cup Clients -> Clients \cup {None}]
        /\ \A i \in Names : name_to_conn'[i] \in {name_to_conn[i], c, None}
        /\ \A d \in Clients : name_to_conn'[d] = name_to_conn[d]
    <2>1. name_to_conn \in [Names \cup Clients -> Clients \cup {None}] /\ n \notin Clients
      BY DBusAssumption DEF DBusInv, Types
    <2> QED BY <1>1, <2>1
  <1> QED BY <1>1, <1>2, <1>3, AnswersStep

\* (a step of the server that sends nothing)
LEMMA SameServer ==
    ASSUME DBusInv, Clientside, srv' \in [Clients -> Service],
           \A d \in Clients : srv'[d].out_queue = srv[d].out_queue,
           down' = down, taken' \in [Clients -> Nat], \A d \in Clients : taken'[d] <= Len(stream[d]),
           name_to_conn' \in [Names \cup Clients -> Clients \cup {None}], NamesOK'
    PROVE  DBusInv'
  <1>1. down' \in [Clients -> Seq(Messages)]
    BY DEF DBusInv, Types
  <1>2. \A d \in Clients : AllDeliverable(d, down'[d]) /\ AllDeliverable(d, srv'[d].out_queue)
    BY DEF DBusInv, Deliveries
  <1> QED BY <1>1, <1>2, ServerStep

\* ReleaseName, whose assertion may fail.
LEMMA ReleaseStep ==
    ASSUME DBusInv, NEW c \in Clients, NEW n \in Names, do_server_release(c, n)
    PROVE  DBusInv'
  <1>0. Takes(c) /\ Clientside
    BY DEF do_server_release, TakesMessage
  <1>1. CASE name_to_conn' = [name_to_conn EXCEPT ![n] = None] /\ Answers(c, "reply", n)
    <2>2. "reply" \in Kinds /\ "reply" # "call" /\ n \in Values /\ None \in Clients \cup {None} /\ None \in {c, None}
      BY DEF Kinds, Values
    <2>3. /\ name_to_conn' \in [Names \cup Clients -> Clients \cup {None}]
          /\ \A i \in Names : name_to_conn'[i] \in {name_to_conn[i], c, None}
          /\ \A d \in Clients : name_to_conn'[d] = name_to_conn[d]
      <3>1. name_to_conn \in [Names \cup Clients -> Clients \cup {None}] /\ n \notin Clients
        BY DBusAssumption DEF DBusInv, Types
      <3> QED BY <1>1, <3>1
    <2> QED BY <1>0, <1>1, <2>2, <2>3, AnswersStep
  <1>2. CASE UNCHANGED <<name_to_conn, srv, down>>
    <2>1. taken' \in [Clients -> Nat] /\ \A d \in Clients : taken'[d] <= Len(stream[d])
      BY <1>0, TakesFacts
    <2>2. srv' \in [Clients -> Service] /\ name_to_conn' \in [Names \cup Clients -> Clients \cup {None}]
      BY <1>2 DEF DBusInv, Types
    <2>3. NamesOK'
      BY <1>2 DEF DBusInv, NamesOK, NamesAreLive
    <2> QED BY <1>0, <1>2, <2>1, <2>2, <2>3, SameServer
  <1> QED BY <1>1, <1>2 DEF do_server_release

\* do_bridge_msg(): a reply to a unique name reaches the client of that name or nobody.
LEMMA BridgeStep ==
    ASSUME DBusInv, NEW c \in Clients, do_bridge_msg(c)
    PROVE  DBusInv'
  <1>0. Takes(c) /\ Clientside /\ name_to_conn' = name_to_conn
    BY DEF do_bridge_msg, TakesMessage
  <1>1. Item(c) \in Messages /\ Routable(Item(c))
    BY <1>0, ItemFacts
  <1>2. PICK i \in Messages : i = Item(c)
    BY <1>1
  <1> DEFINE m == [i EXCEPT !.sender = c]
             o == name_to_conn[i.dest]
             ds == {o}
  <1>3. i.dest \in Names \cup Clients /\ o # None /\ ServerSends(ds, m)
    BY <1>2 DEF do_bridge_msg
  <1>4. m \in Messages /\ m.kind = i.kind /\ m.rserial = i.rserial /\ m.of = i.of /\ m.sender = c
    BY DEF Messages
  <1>5. i.dest \in Clients => o = i.dest
    BY <1>3 DEF DBusInv, NamesOK
  <1> HIDE DEF m, o
  <1>6. \A d \in ds : Deliverable(d, m)
    <2>1. Deliverable(o, m)
      BY <1>1, <1>2, <1>4, <1>5 DEF Routable, Deliverable
    <2> QED BY <2>1
  <1>7. /\ name_to_conn' \in [Names \cup Clients -> Clients \cup {None}]
        /\ \A n \in Names : name_to_conn'[n] \in {name_to_conn[n], c, None}
        /\ \A d \in Clients : name_to_conn'[d] = name_to_conn[d]
    BY <1>0, NamesKept
  <1> HIDE DEF ds
  <1> QED BY <1>0, <1>3, <1>4, <1>6, <1>7, TakesStep

\* do_broadcast_msg(): what goes to everyone is neither a reply nor a call.
LEMMA BroadcastStep ==
    ASSUME DBusInv, NEW c \in Clients, do_broadcast_msg(c)
    PROVE  DBusInv'
  <1>0. Takes(c) /\ Clientside /\ name_to_conn' = name_to_conn
    BY DEF do_broadcast_msg, TakesMessage
  <1>1. Item(c) \in Messages /\ Routable(Item(c))
    BY <1>0, ItemFacts
  <1>2. PICK m \in Messages : m = Item(c)
    BY <1>1
  <1> DEFINE ds == {d \in Clients : srv[d].listed}
  <1>3. m.dest = None /\ ServerSends(ds, m)
    BY <1>2 DEF do_broadcast_msg
  <1> HIDE DEF ds
  <1>4. \A d \in ds : Deliverable(d, m)
    <2>1. m.rserial = 0 /\ m.kind # "call"
      BY <1>1, <1>2, <1>3, DBusAssumption DEF Routable
    <2> QED BY <2>1 DEF Deliverable
  <1>7. /\ name_to_conn' \in [Names \cup Clients -> Clients \cup {None}]
        /\ \A n \in Names : name_to_conn'[n] \in {name_to_conn[n], c, None}
        /\ \A d \in Clients : name_to_conn'[d] = name_to_conn[d]
    BY <1>0, NamesKept
  <1> QED BY <1>0, <1>3, <1>4, <1>7, TakesStep

\* A connection is accepted, and has its unique name,
LEMMA NewConnectionStep ==
    ASSUME DBusInv, NEW c \in Clients, new_connection_cb(c)
    PROVE  DBusInv'
  <1>1. /\ Clientside /\ UNCHANGED <<down, taken>> /\ name_to_conn' = [name_to_conn EXCEPT ![c] = c]
        /\ srv' = [srv EXCEPT ![c].listed = TRUE, ![c].open = TRUE]
    BY DEF new_connection_cb
  <1>2. /\ srv \in [Clients -> Service] /\ taken \in [Clients -> Nat]
        /\ name_to_conn \in [Names \cup Clients -> Clients \cup {None}]
    BY DEF DBusInv, Types
  <1> DEFINE v == [srv[c] EXCEPT !.listed = TRUE, !.open = TRUE]
  <1>3. srv' = [srv EXCEPT ![c] = v]
    BY <1>1
  <1>4. v \in Service /\ v.listed /\ v.out_queue = srv[c].out_queue
    <2>1. srv[c] \in Service
      BY <1>2
    <2> QED BY <2>1 DEF Service
  <1> HIDE DEF v
  <1>5. /\ srv' \in [Clients -> Service] /\ srv'[c].listed
        /\ \A d \in Clients : srv'[d].out_queue = srv[d].out_queue /\ (srv[d].listed => srv'[d].listed)
    BY <1>2, <1>3, <1>4
  <1>6. taken' \in [Clients -> Nat] /\ \A d \in Clients : taken'[d] <= Len(stream[d])
    BY <1>1, <1>2 DEF DBusInv, Client
  <1>7. name_to_conn' \in [Names \cup Clients -> Clients \cup {None}]
    BY <1>1, <1>2
  <1>8. NamesOK'
    <2>1. /\ \A n \in DOMAIN name_to_conn : name_to_conn[n] # None => srv[name_to_conn[n]].listed
          /\ \A d \in Clients : name_to_conn[d] \in {d, None}
      BY DEF DBusInv, NamesOK, NamesAreLive
    <2>2. ASSUME NEW n \in Names \cup Clients, name_to_conn'[n] # None PROVE srv'[name_to_conn'[n]].listed
      <3>1. name_to_conn'[n] = c \/ (name_to_conn'[n] = name_to_conn[n] /\ name_to_conn[n] \in Clients)
        BY <1>1, <1>2, <2>2
      <3> QED BY <1>2, <1>5, <2>1, <2>2, <3>1
    <2>3. NamesAreLive'
      BY <1>7, <2>2 DEF NamesAreLive
    <2>4. \A d \in Clients : name_to_conn'[d] \in {d, None}
      BY <1>1, <1>2, <2>1
    <2> QED BY <2>3, <2>4 DEF NamesOK
  <1> QED BY <1>1, <1>5, <1>6, <1>7, <1>8, SameServer

\* closes,
LEMMA EofStep ==
    ASSUME DBusInv, NEW c \in Clients, server_read_eof(c)
    PROVE  DBusInv'
  <1>1. Clientside /\ UNCHANGED <<down, taken, name_to_conn>> /\ srv' = [srv EXCEPT ![c].open = FALSE]
    BY DEF server_read_eof
  <1>2. /\ srv \in [Clients -> Service] /\ taken \in [Clients -> Nat]
        /\ name_to_conn \in [Names \cup Clients -> Clients \cup {None}]
    BY DEF DBusInv, Types
  <1> DEFINE v == [srv[c] EXCEPT !.open = FALSE]
  <1>3. srv' = [srv EXCEPT ![c] = v]
    BY <1>1
  <1>4. v \in Service /\ v.listed = srv[c].listed /\ v.out_queue = srv[c].out_queue
    <2>1. srv[c] \in Service
      BY <1>2
    <2> QED BY <2>1 DEF Service
  <1> HIDE DEF v
  <1>5. /\ srv' \in [Clients -> Service]
        /\ \A d \in Clients : srv'[d].out_queue = srv[d].out_queue /\ srv'[d].listed = srv[d].listed
    BY <1>2, <1>3, <1>4
  <1>6. taken' \in [Clients -> Nat] /\ \A d \in Clients : taken'[d] <= Len(stream[d])
    BY <1>1, <1>2 DEF DBusInv, Client
  <1>7. name_to_conn' \in [Names \cup Clients -> Clients \cup {None}]
    BY <1>1, <1>2
  <1>8. NamesOK'
    BY <1>1, <1>2, <1>5 DEF DBusInv, NamesOK, NamesAreLive
  <1> QED BY <1>1, <1>5, <1>6, <1>7, <1>8, SameServer

\* and loses its names as it is let go.
LEMMA ConnClosedStep ==
    ASSUME DBusInv, NEW c \in Clients, conn_closed(c)
    PROVE  DBusInv'
  <1>1. /\ Clientside /\ UNCHANGED <<down, taken>> /\ srv' = [srv EXCEPT ![c].listed = FALSE]
        /\ name_to_conn' = [n \in DOMAIN name_to_conn |-> IF name_to_conn[n] = c THEN None ELSE name_to_conn[n]]
    BY DEF conn_closed, unregister_conn
  <1>2. /\ srv \in [Clients -> Service] /\ taken \in [Clients -> Nat]
        /\ name_to_conn \in [Names \cup Clients -> Clients \cup {None}]
    BY DEF DBusInv, Types
  <1> DEFINE v == [srv[c] EXCEPT !.listed = FALSE]
  <1>3. srv' = [srv EXCEPT ![c] = v]
    BY <1>1
  <1>4. v \in Service /\ v.out_queue = srv[c].out_queue
    <2>1. srv[c] \in Service
      BY <1>2
    <2> QED BY <2>1 DEF Service
  <1> HIDE DEF v
  <1>5. /\ srv' \in [Clients -> Service]
        /\ \A d \in Clients : srv'[d].out_queue = srv[d].out_queue /\ (d # c => srv'[d].listed = srv[d].listed)
    BY <1>2, <1>3, <1>4
  <1>6. taken' \in [Clients -> Nat] /\ \A d \in Clients : taken'[d] <= Len(stream[d])
    BY <1>1, <1>2 DEF DBusInv, Client
  <1>7. name_to_conn' \in [Names \cup Clients -> Clients \cup {None}]
    BY <1>1, <1>2
  <1>8. NamesOK'
    <2>1. /\ \A n \in DOMAIN name_to_conn : name_to_conn[n] # None => srv[name_to_conn[n]].listed
          /\ \A d \in Clients : name_to_conn[d] \in {d, None}
      BY DEF DBusInv, NamesOK, NamesAreLive
    <2>2. ASSUME NEW n \in Names \cup Clients, name_to_conn'[n] # None PROVE srv'[name_to_conn'[n]].listed
      <3>1. name_to_conn'[n] # c /\ name_to_conn'[n] = name_to_conn[n] /\ name_to_conn[n] \in Clients
        BY <1>1, <1>2, <2>2
      <3> QED BY <1>2, <1>5, <2>1, <2>2, <3>1
    <2>3. NamesAreLive'
      BY <1>7, <2>2 DEF NamesAreLive
    <2>4. \A d \in Clients : name_to_conn'[d] \in {d, None}
      BY <1>1, <1>2, <2>1
    <2> QED BY <2>3, <2>4 DEF NamesOK
  <1> QED BY <1>1, <1>5, <1>6, <1>7, <1>8, SameServer

\* The server's side of the authentication.
LEMMA AuthorizeStep ==
    ASSUME DBusInv, NEW c \in Clients, authorize(c)
    PROVE  DBusInv'
  <1>0. Clientside /\ Takes(c) /\ name_to_conn' = name_to_conn
    BY DEF authorize
  <1>1. taken' \in [Clients -> Nat] /\ \A d \in Clients : taken'[d] <= Len(stream[d])
    BY <1>0, TakesFacts
  <1>2. /\ srv \in [Clients -> Service] /\ down \in [Clients -> Seq(Messages)]
        /\ name_to_conn \in [Names \cup Clients -> Clients \cup {None}]
        /\ \A d \in Clients : AllDeliverable(d, down[d]) /\ AllDeliverable(d, srv[d].out_queue)
    BY DEF DBusInv, Types, Deliveries
  <1>3. srv[c] \in Service /\ srv[c].out_queue \in Seq(Messages) /\ down[c] \in Seq(Messages)
    BY <1>2 DEF Service
  <1>4. ASSUME NEW v \in Service, NEW w \in Seq(Messages),
               srv' = [srv EXCEPT ![c] = v], down' = [down EXCEPT ![c] = w],
               v.listed = srv[c].listed, AllDeliverable(c, v.out_queue), AllDeliverable(c, w)
        PROVE  DBusInv'
    <2>1. /\ srv' \in [Clients -> Service] /\ down' \in [Clients -> Seq(Messages)]
          /\ \A d \in Clients : srv'[d].listed = srv[d].listed
      BY <1>2, <1>4
    <2>2. \A d \in Clients : AllDeliverable(d, down'[d]) /\ AllDeliverable(d, srv'[d].out_queue)
      BY <1>2, <1>4
    <2>3. NamesOK'
      BY <1>0, <1>2, <2>1 DEF DBusInv, NamesOK, NamesAreLive
    <2>4. name_to_conn' \in [Names \cup Clients -> Clients \cup {None}]
      BY <1>0, <1>2
    <2> QED BY <1>0, <1>1, <2>1, <2>2, <2>3, <2>4, ServerStep
  <1>5. CASE /\ srv' = [srv EXCEPT ![c].state = "BeginWait"]
             /\ down' = [down EXCEPT ![c] = Append(@, Line("OK"))]
    <2> DEFINE v == [srv[c] EXCEPT !.state = "BeginWait"]
    <2>0. PICK q \in Seq(Messages) : q = down[c]
      BY <1>3
    <2> DEFINE m == Line("OK")
               w == Append(q, m)
    <2>1. m \in Messages /\ m.kind = "line" /\ m.rserial = 0
      BY LineFields DEF Subjects
    <2> HIDE DEF m
    <2>2. Deliverable(c, m)
      BY <2>1 DEF Deliverable
    <2>3. w \in Seq(Messages) /\ AllDeliverable(c, w)
      BY <1>2, <2>0, <2>1, <2>2, AppendDeliverable
    <2>4. v \in Service /\ v.listed = srv[c].listed /\ v.out_queue = srv[c].out_queue
      BY <1>3 DEF Service
    <2>5. srv' = [srv EXCEPT ![c] = v] /\ down' = [down EXCEPT ![c] = w]
      BY <1>5, <2>0 DEF m
    <2> HIDE DEF v, w
    <2> QED BY <1>2, <1>4, <2>3, <2>4, <2>5
  <1>6. CASE /\ srv' = [srv EXCEPT ![c].state = "authorized", ![c].out_queue = << >>]
             /\ down' = [down EXCEPT ![c] = @ \o srv[c].out_queue]
    <2> DEFINE v == [srv[c] EXCEPT !.state = "authorized", !.out_queue = << >>]
    <2>0. PICK p \in Seq(Messages), q \in Seq(Messages) : p = down[c] /\ q = srv[c].out_queue
      BY <1>3
    <2> DEFINE w == p \o q
    <2>3. w \in Seq(Messages) /\ AllDeliverable(c, w)
      BY <1>2, <2>0, ConcatDeliverable
    <2>4. v \in Service /\ v.listed = srv[c].listed /\ v.out_queue = << >>
      <3>1. << >> \in Seq(Messages)
        OBVIOUS
      <3> QED BY <1>3, <3>1 DEF Service
    <2>5. AllDeliverable(c, << >>)
      BY DEF AllDeliverable
    <2>6. srv' = [srv EXCEPT ![c] = v] /\ down' = [down EXCEPT ![c] = w]
      BY <1>6, <2>0
    <2> HIDE DEF v, w
    <2> QED BY <1>4, <2>3, <2>4, <2>5, <2>6
  <1> QED BY <1>5, <1>6 DEF authorize

\* All that the server does for a connection,
LEMMA ServesStep ==
    ASSUME DBusInv, NEW c \in Clients, Serves(c)
    PROVE  DBusInv'
  BY NewConnectionStep, AuthorizeStep, HelloStep, RequestStep, ReleaseStep, OwnerStep, BridgeStep,
     BroadcastStep, GaveUpStep, EofStep, ConnClosedStep DEF Serves

\* and all steps.
LEMMA NextStep ==
    ASSUME DBusInv, [Next]_vars
    PROVE  DBusInv'
  <1>1. CASE UNCHANGED vars
    BY <1>1 DEF vars, cvars, svars, DBusInv, Types, NamesOK, NamesAreLive, Client, Deliveries
  <1>2. ASSUME NEW c \in Clients, Program(c) \/ post_select(c) \/ Serves(c) PROVE DBusInv'
    BY <1>2, ProgramStep, PostSelectStep, ServesStep
  <1> QED BY <1>1, <1>2 DEF Next

\* The invariant holds to begin with.
LEMMA InitSound == Init => DBusInv
  <1> SUFFICES ASSUME Init PROVE DBusInv
    OBVIOUS
  <1> DEFINE head == <<Line("AUTH"), Line("BEGIN")>>
             full == head \o send_hello
  <1>h. send_hello \in Seq(Messages) /\ Len(send_hello) = 2 /\ AllSendable(send_hello, 3) /\ send_hello # << >>
    <2>1. send_hello \in Seq(Messages) /\ Len(send_hello) = 2 /\ AllSendable(send_hello, 3)
      BY HelloFields
    <2> QED BY <2>1
  <1>f. full \in Seq(Messages) /\ Len(full) = 4 /\ full # << >>
    <2>1. Line("AUTH") \in Messages /\ Line("BEGIN") \in Messages
      BY LineFields DEF Subjects
    <2>2. head \in Seq(Messages) /\ Len(head) = 2
      BY <2>1
    <2> HIDE DEF head
    <2>3. head \o send_hello \in Seq(Messages) /\ Len(head \o send_hello) = Len(head) + Len(send_hello)
      BY <1>h, <2>2, ConcatProperties
    <2>4. full \in Seq(Messages) /\ Len(full) = 4
      BY <1>h, <2>2, <2>3
    <2> HIDE DEF full
    <2> QED BY <2>4
  <1>e. << >> \in Seq(Messages) /\ Len(<< >>) = 0 /\ None \in Values /\ {} \in SUBSET Nat /\ -1 \in Int
    BY DEF Values
  <1>n. /\ NoConn \in Connection /\ NoConn.ok = FALSE /\ NoConn.authorized = FALSE /\ NoConn.out_queue = << >>
        /\ NoConn.pending = {} /\ NoConn.next = 1 /\ NoConn.cb = -1 /\ NoConn.wait = 0
    BY <1>e DEF NoConn, Connection
  <1>c. ASSUME NEW c \in Clients
        PROVE  /\ Connected(c) \in Connection /\ Connected(c).ok = TRUE /\ Connected(c).authorized = TRUE
               /\ Connected(c).out_queue = << >> /\ Connected(c).pending = {} /\ Connected(c).next = 3
               /\ Connected(c).cb = -1 /\ Connected(c).wait = 0
    <2>1. c \in Values
      BY DEF Values
    <2>2. /\ Connected(c) \in Connection /\ Connected(c).ok = TRUE /\ Connected(c).authorized = TRUE
          /\ Connected(c).out_queue = NoConn.out_queue /\ Connected(c).pending = NoConn.pending
          /\ Connected(c).next = 3 /\ Connected(c).cb = NoConn.cb /\ Connected(c).wait = NoConn.wait
      BY <1>n, <2>1 DEF Connected, Connection
    <2> QED BY <1>n, <2>2
  <1>s. NoServ \in Service /\ NoServ.out_queue = << >> /\ ~NoServ.listed
    BY <1>e DEF NoServ, Service
  <1>a. Accepted \in Service /\ Accepted.out_queue = << >> /\ Accepted.listed
    BY <1>e DEF Accepted, NoServ, Service
  <1> HIDE DEF full
  <1>1. ASSUME NEW c \in Clients
        PROVE  /\ c \in Started => /\ conn[c] = Connected(c) /\ srv[c] = Accepted /\ calls[c] = send_hello
                                   /\ stream[c] = full /\ name_to_conn[c] = c
               /\ c \notin Started => /\ conn[c] = NoConn /\ srv[c] = NoServ /\ calls[c] = << >>
                                      /\ stream[c] = << >> /\ name_to_conn[c] = None
                                      /\ \A s \in Serials : asked[c][s] = 0
               /\ down[c] = << >> /\ asked[c] \in [Serials -> Nat] /\ answered[c] = asked[c]
               /\ taken[c] = Len(stream[c])
    BY DEF Init, full
  <1>2. Types
    <2>1. \A c \in Clients : /\ conn[c] \in Connection /\ srv[c] \in Service /\ calls[c] \in Seq(Messages)
                             /\ stream[c] \in Seq(Messages) /\ down[c] \in Seq(Messages) /\ taken[c] \in Nat
                             /\ asked[c] \in [Serials -> Nat] /\ answered[c] \in [Serials -> Nat]
      <3> TAKE c \in Clients
      <3>1. down[c] \in Seq(Messages) /\ asked[c] \in [Serials -> Nat] /\ answered[c] \in [Serials -> Nat]
        BY <1>1, <1>e
      <3>2. CASE c \in Started
        <4>1. /\ conn[c] = Connected(c) /\ srv[c] = Accepted /\ calls[c] = send_hello
              /\ stream[c] = full /\ taken[c] = Len(full)
          BY <1>1, <3>2
        <4>2. Connected(c) \in Connection
          BY <1>c
        <4> QED BY <1>h, <1>f, <1>a, <3>1, <4>1, <4>2
      <3>3. CASE c \notin Started
        <4>1. /\ conn[c] = NoConn /\ srv[c] = NoServ /\ calls[c] = << >>
              /\ stream[c] = << >> /\ taken[c] = Len(<< >>)
          BY <1>1, <3>3
        <4> QED BY <1>e, <1>n, <1>s, <3>1, <4>1
      <3> QED BY <3>2, <3>3
    <2>2. /\ conn = [c \in Clients |-> conn[c]] /\ srv = [c \in Clients |-> srv[c]]
          /\ calls = [c \in Clients |-> calls[c]] /\ stream = [c \in Clients |-> stream[c]]
          /\ down = [c \in Clients |-> down[c]] /\ taken = [c \in Clients |-> taken[c]]
          /\ asked = [c \in Clients |-> asked[c]] /\ answered = [c \in Clients |-> answered[c]]
      BY DEF Init
    <2>3. name_to_conn \in [Names \cup Clients -> Clients \cup {None}]
      BY DBusAssumption DEF Init
    <2> QED BY <2>1, <2>2, <2>3 DEF Types
  <1>3. NamesOK
    <2>1. \A n \in Names \cup Clients : name_to_conn[n] = IF n \in Started THEN n ELSE None
      BY DEF Init
    <2>2. \A n \in Names \cup Clients : name_to_conn[n] # None => srv[name_to_conn[n]].listed
      BY <1>1, <1>a, <2>1, DBusAssumption
    <2>3. NamesAreLive
      BY <1>2, <2>2 DEF NamesAreLive, Types
    <2> QED BY <2>1, <2>3 DEF NamesOK
  <1>4. matches
    BY DEF Init
  <1>5. ASSUME NEW c \in Clients PROVE Client(c) /\ Deliveries(c)
    <2>1. conn[c].pending = {} /\ conn[c].cb = -1 /\ conn[c].wait = 0
      BY <1>1, <1>n, <1>c
    <2>2. Waiting(conn[c])
      BY <2>1 DEF Waiting
    <2>3. Counted(conn[c], asked[c], answered[c])
      <3>1. \A s \in Serials : asked[c][s] \in Nat
        BY <1>1
      <3>2. \A s \in Serials : asked[c][s] = asked[c][s] + 0
        BY <3>1
      <3> QED BY <1>1, <2>1, <3>2 DEF Counted
    <2>4. taken[c] <= Len(stream[c])
      BY <1>1, <1>f, <1>e
    <2>5. Deliveries(c)
      <3>1. AllDeliverable(c, << >>)
        BY DEF AllDeliverable
      <3> QED BY <1>1, <1>s, <1>a, <3>1 DEF Deliveries
    <2>6. CASE c \in Started
      <3>a. conn[c] = Connected(c) /\ calls[c] = send_hello /\ stream[c] = full
        BY <1>1, <2>6
      <3>b. conn[c].authorized /\ conn[c].out_queue = << >> /\ conn[c].next = 3
        BY <1>c, <3>a
      <3>1. Ordered(conn[c], stream[c], calls[c])
        <4>1. stream[c] = <<Line("AUTH"), Line("BEGIN")>> \o calls[c]
          BY <3>a, Zenon DEF full
        <4>a. Len(calls[c]) = 2 /\ calls[c] = send_hello
          BY <1>h, <3>a
        <4>b. Len(calls[c]) >= 2
          BY <4>a
        <4>2. Len(calls[c]) >= 2 /\ \A i \in 1..2 : calls[c][i] = send_hello[i]
          BY <4>a, <4>b, Zenon
        <4> QED BY <3>b, <4>1, <4>2 DEF Ordered
      <3>2. Begun(conn[c], stream[c], calls[c], asked[c])
        BY <1>h, <1>f, <3>a, <3>b DEF Begun
      <3>3. AllSendable(calls[c], conn[c].next)
        BY <1>h, <3>a, <3>b
      <3> QED BY <2>2, <2>3, <2>4, <2>5, <3>1, <3>2, <3>3 DEF Client
    <2>7. CASE c \notin Started
      <3>1. Ordered(conn[c], stream[c], calls[c])
        BY <1>1, <1>n, <2>7 DEF Ordered
      <3>2. Begun(conn[c], stream[c], calls[c], asked[c])
        BY <1>1, <1>n, <2>7 DEF Begun
      <3>3. AllSendable(calls[c], conn[c].next)
        BY <1>1, <2>7 DEF AllSendable
      <3> QED BY <2>2, <2>3, <2>4, <2>5, <3>1, <3>2, <3>3 DEF Client
    <2> QED BY <2>6, <2>7
  <1> QED BY <1>2, <1>3, <1>4, <1>5 DEF DBusInv

\* The invariant holds in every state of the clients (wvdbusconn.cc) and the server
\* (wvdbusserver.cc).
THEOREM DBusInvariant == Spec => []DBusInv
  <1>1. DBusInv /\ [Next]_vars => DBusInv'
    BY NextStep
  <1> QED BY InitSound, <1>1, PTL DEF Spec

\* WvDBusConn's callbacks and waits are for replies that are pending, and no name of the
\* WvDBusServer leads to a connection that it has let go.
THEOREM ConnectionsAreConsistent == Spec => []ConnsConsistent
  <1>1. DBusInv => ConnsConsistent
    <2> SUFFICES ASSUME DBusInv PROVE ConnsConsistent
      OBVIOUS
    <2>1. ASSUME NEW c \in Clients
          PROVE  /\ conn[c].pending \subseteq 1..(conn[c].next - 1) /\ conn[c].alarm \in BOOLEAN
                 /\ conn[c].cb \in {-1, 0} \cup conn[c].pending
                 /\ conn[c].wait \in {0} \cup conn[c].pending
                 /\ taken[c] \in 0..Len(stream[c])
      <3>1. Waiting(conn[c]) /\ conn[c] \in Connection /\ stream[c] \in Seq(Messages)
        BY ClientFacts
      <3>2. taken[c] \in Nat /\ taken[c] <= Len(stream[c])
        BY DEF DBusInv, Types, Client
      <3>3. taken[c] \in 0..Len(stream[c])
        BY <3>1, <3>2
      <3>4. conn[c].alarm \in BOOLEAN
        BY <3>1 DEF Connection
      <3> QED BY <3>1, <3>3, <3>4 DEF Waiting
    <2> QED BY <2>1 DEF DBusInv, Types, NamesOK, ConnsConsistent, TypeOK
  <1> QED BY DBusInvariant, <1>1, PTL

\* WvDBusConn::send() keeps the order of messages through the authentication, with Hello
\* first: none is sent early, late, twice or not at all.
THEOREM MessagesAreSentInOrder == Spec => []SendsInOrder
  <1>1. DBusInv => SendsInOrder
    BY ClientFacts DEF SendsInOrder, Ordered
  <1> QED BY DBusInvariant, <1>1, PTL

\* The callback of WvDBusConn::send() is called exactly once, by the reply, by the timeout
\* or by another send() of the message, and a reply it is called with is the one to
\* its own message, for any number of clients that use the same serial numbers.
THEOREM EachCallbackHasOneAnswer == Spec => []OneAnswerEach
  <1>1. DBusInv => OneAnswerEach
    <2>1. DBusInv => matches
      BY DEF DBusInv
    <2> QED BY <2>1, ClientFacts DEF OneAnswerEach, Counted
  <1> QED BY DBusInvariant, <1>1, PTL
=============================================================================
