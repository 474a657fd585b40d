-------------------------- MODULE WvFdStreamProofs --------------------------
(***************************************************************************)
(* Proofs about WvFdStream, for every program: however many bytes, calls,  *)
(* close callbacks and limits, and whatever the kernel does.               *)
(*                                                                         *)
(* A call of the public interface runs through several methods, which call *)
(* one another.  Each method has a lemma of its own: started on a sound    *)
(* stream it leaves sound streams behind.  What the methods promise one    *)
(* another beyond that is in After, Flushed and FlushResult; close() needs *)
(* it between its flush() and the rest, since what the flush leaves in the *)
(* outbuf is lost.  The parameter w says that the stream was made with a   *)
(* write descriptor.                                                       *)
(***************************************************************************)
EXTENDS WvFdStream, SequenceTheorems, WellFoundedInduction, TLAPS

\* Every set of naturals has a least element.
LEMMA LeastNatural ==
    ASSUME NEW T, T \subseteq Nat, T # {}
    PROVE  \E x \in T : \A y \in T : x <= y
  <1> DEFINE R == OpToRel(<, Nat)
  <1>1. IsWellFoundedOn(R, Nat)
    BY NatLessThanWellFounded, Zenon
  <1>2. \A a, b \in Nat : a < b => <<a, b>> \in R
    BY DEF OpToRel
  <1> HIDE DEF R
  <1>3. PICK x \in T : \A y \in T : ~(<<y, x>> \in R)
    BY <1>1, WFMin
  <1>4. ASSUME NEW y \in T PROVE x <= y
    <2>1. x \in Nat /\ y \in Nat /\ <<y, x>> \notin R
      BY <1>3
    <2>2. ~(y < x)
      BY <1>2, <2>1
    <2> QED BY <2>1, <2>2
  <1> QED BY <1>4

\* The descriptors: the open ones are the stream's, and a closed stream has none.
FdsOK(s) ==
    /\ ~s.doubleclose
    /\ s.open = {s.rfd, s.wfd} \ {NoFd}
    /\ s.closed => s.rfd = NoFd /\ s.wfd = NoFd

\* The close callbacks: none ran twice, the one that waits has not run, and close()
\* leaves none waiting.  0 is no callback.
CallbacksOK(s) ==
    /\ \A i \in 1..Len(s.called) : s.called[i] # 0 /\ s.called[i] # s.closecb
    /\ \A i, j \in 1..Len(s.called) : i # j => s.called[i] # s.called[j]
    /\ s.closed => s.closecb = 0

\* q holds the bytes numbered n + 1, n + 2, ...
Counts(q, n) == \A i \in 1..Len(q) : q[i] = n + i

\* What was read: the program's bytes, then the inbuf's, from what has arrived.
InputOK(s) ==
    /\ Counts(s.got, 0) /\ Counts(s.inbuf, Len(s.got))
    /\ Taken(s) <= s.arrived

\* Every byte that write() accepted was sent or waits.
Complete(s) == Len(s.sent) + Len(s.outbuf) = s.accepted

\* What was written.  The last two conjuncts are what CloseLosesNothing needs of the
\* states before: with a write descriptor to begin with (w), a stream that is neither
\* closed nor failed has lost nothing, and has given its write side up only after
\* nowrite() and with an empty outbuf.
OutputOK(s, w) ==
    /\ Counts(s.sent, 0) /\ Len(s.sent) <= s.accepted
    /\ isok(s) => Counts(s.outbuf, Len(s.sent)) /\ Complete(s)
    /\ w /\ ~s.closed /\ ~s.err => Complete(s) /\ (s.wfd = NoFd => s.stop_write /\ s.outbuf = << >>)
    /\ w /\ s.closed /\ ~s.err /\ ~s.timedout => Len(s.sent) = s.accepted

\* The state of a stream in the middle of a call: is_flushing may be set.
Sound(s, w) == s \in Stream /\ FdsOK(s) /\ CallbacksOK(s) /\ InputOK(s) /\ OutputOK(s, w)

\* What a method leaves alone.
SameFds(s, t) ==
    t.rfd = s.rfd /\ t.wfd = s.wfd /\ t.open = s.open /\ t.doubleclose = s.doubleclose /\ t.closed = s.closed
SameCallbacks(s, t) == t.closecb = s.closecb /\ t.called = s.called
SameInput(s, t) == t.inbuf = s.inbuf /\ t.got = s.got /\ t.arrived = s.arrived
SameSent(s, t) == t.sent = s.sent /\ t.accepted = s.accepted
SameOutput(s, t) ==
    SameSent(s, t) /\ t.outbuf = s.outbuf /\ t.err = s.err /\ t.timedout = s.timedout /\ t.stop_write = s.stop_write

\* Closing now would lose nothing without telling: an error is set, the time is up, or
\* the outbuf is empty.
CloseSafe(s, w) == w => s.err \/ s.timedout \/ s.outbuf = << >>

\* t is what a method that does not read may make of s.  It keeps an empty outbuf
\* empty, and a stream that can safely be closed stays so: close() relies on that
\* between its flush() and the rest.
After(s, t, w) ==
    /\ Sound(t, w) /\ SameInput(s, t)
    /\ t.is_flushing = s.is_flushing
    /\ s.outbuf = << >> => t.outbuf = << >>
    /\ CloseSafe(s, w) => CloseSafe(t, w)
    /\ s.err => t.err

-----------------------------------------------------------------------------
\* ::close() changes the open descriptors only.
LEMMA SysCloseFields ==
    ASSUME NEW s \in Stream, NEW fd \in Nat \cup {NoFd}
    PROVE  LET t == SysClose(s, fd)
           IN  /\ t \in Stream
               /\ t.rfd = s.rfd /\ t.wfd = s.wfd /\ t.closed = s.closed
               /\ SameCallbacks(s, t) /\ SameInput(s, t) /\ SameOutput(s, t)
               /\ t.is_flushing = s.is_flushing
               /\ t.open = s.open \ ({fd} \ {NoFd})
               /\ ~s.doubleclose /\ fd \in s.open \cup {NoFd} => ~t.doubleclose
  <1> DEFINE t == SysClose(s, fd)
  <1>1. CASE fd = NoFd
    BY <1>1 DEF SysClose, SameCallbacks, SameInput, SameOutput, SameSent, Stream
  <1>2. CASE fd # NoFd
    BY <1>2 DEF SysClose, SameCallbacks, SameInput, SameOutput, SameSent, Stream
  <1> QED BY <1>1, <1>2

\* The second half of close(): what it changes, and what not.
LEMMA FinishCloseFields ==
    ASSUME NEW s \in Stream
    PROVE  LET t == FinishClose(s)
           IN  /\ t \in Stream
               /\ t.closed /\ t.rfd = NoFd /\ t.wfd = NoFd /\ t.closecb = 0
               /\ t.called = IF s.closecb = 0 THEN s.called ELSE Append(s.called, s.closecb)
               /\ t.open = s.open \ ({s.rfd, s.wfd} \ {NoFd})
               /\ ~s.doubleclose /\ s.open = {s.rfd, s.wfd} \ {NoFd} => ~t.doubleclose
               /\ SameInput(s, t) /\ SameOutput(s, t)
               /\ t.is_flushing = s.is_flushing
  <1> DEFINE n == [s EXCEPT !.closed = TRUE, !.closecb = 0,
                        !.called = IF s.closecb = 0 THEN @ ELSE Append(@, s.closecb)]
             r == SysClose(n, s.rfd)
             u == IF s.wfd # s.rfd THEN SysClose(r, s.wfd) ELSE r
             t == [u EXCEPT !.rfd = NoFd, !.wfd = NoFd]
  <1>0. FinishClose(s) = t
    BY DEF FinishClose
  <1>f. s.rfd \in Nat \cup {NoFd} /\ s.wfd \in Nat \cup {NoFd} /\ s.called \in Seq(Nat) /\ s.closecb \in Nat
    BY DEF Stream
  <1>c. (IF s.closecb = 0 THEN s.called ELSE Append(s.called, s.closecb)) \in Seq(Nat)
    BY <1>f
  <1>1. /\ n \in Stream /\ n.closed /\ n.closecb = 0
        /\ n.called = IF s.closecb = 0 THEN s.called ELSE Append(s.called, s.closecb)
        /\ n.open = s.open /\ n.doubleclose = s.doubleclose
        /\ SameInput(s, n) /\ SameOutput(s, n) /\ n.is_flushing = s.is_flushing
    BY <1>c DEF Stream, SameInput, SameOutput, SameSent
  <1> HIDE DEF n
  <1>2. /\ r \in Stream /\ r.closed /\ SameCallbacks(n, r) /\ SameInput(n, r) /\ SameOutput(n, r)
        /\ r.is_flushing = n.is_flushing
        /\ r.open = n.open \ ({s.rfd} \ {NoFd})
        /\ ~n.doubleclose /\ s.rfd \in n.open \cup {NoFd} => ~r.doubleclose
    BY <1>1, <1>f, SysCloseFields
  <1> HIDE DEF r
  <1>3. /\ u \in Stream /\ u.closed /\ SameCallbacks(r, u) /\ SameInput(r, u) /\ SameOutput(r, u)
        /\ u.is_flushing = r.is_flushing
        /\ u.open = r.open \ ({s.wfd} \ {NoFd})
        /\ ~r.doubleclose /\ (s.wfd = s.rfd \/ s.wfd \in r.open \cup {NoFd}) => ~u.doubleclose
    <2>1. CASE s.wfd # s.rfd
      BY <1>1, <1>2, <1>f, <2>1, SysCloseFields
    <2>2. CASE s.wfd = s.rfd
      BY <1>1, <1>2, <2>2 DEF SameCallbacks, SameInput, SameOutput, SameSent
    <2> QED BY <2>1, <2>2
  <1> HIDE DEF u
  <1>4. /\ t \in Stream /\ t.rfd = NoFd /\ t.wfd = NoFd /\ t.closed = u.closed
        /\ t.open = u.open /\ t.doubleclose = u.doubleclose
        /\ SameCallbacks(u, t) /\ SameInput(u, t) /\ SameOutput(u, t) /\ t.is_flushing = u.is_flushing
    BY <1>3 DEF Stream, SameCallbacks, SameInput, SameOutput, SameSent
  <1> HIDE DEF t
  <1>5. SameInput(s, t) /\ SameOutput(s, t) /\ SameCallbacks(n, t) /\ t.is_flushing = s.is_flushing
    BY <1>1, <1>2, <1>3, <1>4 DEF SameCallbacks, SameInput, SameOutput, SameSent
  <1>6. t.open = s.open \ ({s.rfd, s.wfd} \ {NoFd})
    BY <1>1, <1>2, <1>3, <1>4
  <1>7. ~s.doubleclose /\ s.open = {s.rfd, s.wfd} \ {NoFd} => ~t.doubleclose
    BY <1>1, <1>2, <1>3, <1>4
  <1>8. /\ t.closecb = 0
        /\ t.called = IF s.closecb = 0 THEN s.called ELSE Append(s.called, s.closecb)
    BY <1>1, <1>5 DEF SameCallbacks
  <1> QED BY <1>0, <1>3, <1>4, <1>5, <1>6, <1>7, <1>8

\* It may run on any stream that can safely be closed.
LEMMA FinishCloseSound ==
    ASSUME NEW w \in BOOLEAN, NEW s, Sound(s, w), CloseSafe(s, w)
    PROVE  After(s, FinishClose(s), w) /\ FinishClose(s).closed
  <1> DEFINE t == FinishClose(s)
  <1>1. /\ t \in Stream
        /\ t.closed /\ t.rfd = NoFd /\ t.wfd = NoFd /\ t.closecb = 0
        /\ t.called = IF s.closecb = 0 THEN s.called ELSE Append(s.called, s.closecb)
        /\ t.open = s.open \ ({s.rfd, s.wfd} \ {NoFd})
        /\ ~s.doubleclose /\ s.open = {s.rfd, s.wfd} \ {NoFd} => ~t.doubleclose
        /\ SameInput(s, t) /\ SameOutput(s, t)
        /\ t.is_flushing = s.is_flushing
    BY FinishCloseFields DEF Sound
  <1> HIDE DEF t
  <1>2. FdsOK(t)
    BY <1>1 DEF Sound, FdsOK
  <1>3. CallbacksOK(t)
    <2>1. s.called \in Seq(Nat) /\ s.closecb \in Nat
      BY DEF Sound, Stream
    <2>2. CASE s.closecb = 0
      BY <1>1, <2>1, <2>2 DEF Sound, CallbacksOK
    <2>3. CASE s.closecb # 0
      BY <1>1, <2>1, <2>3 DEF Sound, CallbacksOK
    <2> QED BY <2>2, <2>3
  <1>4. InputOK(t)
    BY <1>1 DEF Sound, InputOK, SameInput, Taken
  <1>5. OutputOK(t, w)
    <2>1. s.sent \in Seq(Nat) /\ s.outbuf \in Seq(Nat) /\ s.accepted \in Nat
      BY DEF Sound, Stream
    <2>2. Counts(t.sent, 0) /\ Len(t.sent) <= t.accepted /\ ~isok(t)
      BY <1>1 DEF Sound, OutputOK, SameOutput, SameSent, isok
    <2>3. ASSUME w, ~t.err, ~t.timedout PROVE Len(t.sent) = t.accepted
      <3>1. ~s.err /\ ~s.timedout /\ t.sent = s.sent /\ t.accepted = s.accepted
        BY <1>1, <2>3 DEF SameOutput, SameSent
      <3>2. CASE s.closed
        BY <2>3, <3>1, <3>2 DEF Sound, OutputOK
      <3>3. CASE ~s.closed
        <4>1. s.outbuf = << >> /\ Len(s.sent) + Len(s.outbuf) = s.accepted
          BY <2>3, <3>1, <3>3 DEF Sound, OutputOK, CloseSafe, Complete
        <4> QED BY <2>1, <3>1, <4>1
      <3> QED BY <3>2, <3>3
    <2> QED BY <1>1, <2>2, <2>3 DEF OutputOK
  <1> QED BY <1>1, <1>2, <1>3, <1>4, <1>5 DEF After, Sound, CloseSafe, SameOutput, t

\* close() under a flush, which refuses the inner flush.
LEMMA CloseInFlushSound ==
    ASSUME NEW w \in BOOLEAN, NEW s, Sound(s, w), CloseSafe(s, w)
    PROVE  After(s, CloseInFlush(s), w)
  BY FinishCloseSound DEF CloseInFlush, After, SameInput

\* maybe_autoclose() gives up the write side: only the descriptor changes.
LEMMA ShutWriteFields ==
    ASSUME NEW s \in Stream, FdsOK(s)
    PROVE  LET t == ShutWrite(s)
           IN  /\ t \in Stream /\ FdsOK(t)
               /\ t.rfd = s.rfd /\ t.wfd = NoFd /\ t.closed = s.closed
               /\ SameCallbacks(s, t) /\ SameInput(s, t) /\ SameOutput(s, t)
               /\ t.is_flushing = s.is_flushing
  <1> DEFINE d == [s EXCEPT !.shutdown_write = TRUE]
             u == IF s.rfd # s.wfd THEN SysClose(d, s.wfd) ELSE d
             t == [u EXCEPT !.wfd = NoFd]
  <1>0. ShutWrite(s) = t
    BY DEF ShutWrite
  <1>f. s.rfd \in Nat \cup {NoFd} /\ s.wfd \in Nat \cup {NoFd}
    BY DEF Stream
  <1>1. /\ d \in Stream /\ SameFds(s, d)
        /\ SameCallbacks(s, d) /\ SameInput(s, d) /\ SameOutput(s, d) /\ d.is_flushing = s.is_flushing
    BY DEF Stream, SameFds, SameCallbacks, SameInput, SameOutput, SameSent
  <1> HIDE DEF d
  <1>2. /\ u \in Stream /\ u.rfd = s.rfd /\ u.wfd = s.wfd /\ u.closed = s.closed
        /\ SameCallbacks(s, u) /\ SameInput(s, u) /\ SameOutput(s, u) /\ u.is_flushing = s.is_flushing
        /\ u.open = s.open \ (IF s.rfd # s.wfd THEN {s.wfd} \ {NoFd} ELSE {})
        /\ ~u.doubleclose
    <2>1. CASE s.rfd # s.wfd
      <3>1. u = SysClose(d, s.wfd)
        BY <2>1
      <3>2. s.wfd \in d.open \cup {NoFd} /\ ~d.doubleclose
        BY <1>1 DEF SameFds, FdsOK
      <3>3. /\ u \in Stream /\ u.rfd = d.rfd /\ u.wfd = d.wfd /\ u.closed = d.closed
            /\ SameCallbacks(d, u) /\ SameInput(d, u) /\ SameOutput(d, u)
            /\ u.is_flushing = d.is_flushing
            /\ u.open = d.open \ ({s.wfd} \ {NoFd}) /\ ~u.doubleclose
        BY <1>1, <1>f, <3>1, <3>2, SysCloseFields
      <3> QED BY <1>1, <2>1, <3>3 DEF SameFds, SameCallbacks, SameInput, SameOutput, SameSent
    <2>2. CASE s.rfd = s.wfd
      BY <1>1, <2>2 DEF SameFds, FdsOK
    <2> QED BY <2>1, <2>2
  <1> HIDE DEF u
  <1>3. /\ t \in Stream /\ t.rfd = u.rfd /\ t.wfd = NoFd /\ t.closed = u.closed
        /\ t.open = u.open /\ t.doubleclose = u.doubleclose
        /\ SameCallbacks(u, t) /\ SameInput(u, t) /\ SameOutput(u, t) /\ t.is_flushing = u.is_flushing
    BY <1>2 DEF Stream, SameCallbacks, SameInput, SameOutput, SameSent
  <1> HIDE DEF t
  <1>4. FdsOK(t)
    BY <1>2, <1>3 DEF FdsOK
  <1> QED BY <1>0, <1>2, <1>3, <1>4 DEF SameCallbacks, SameInput, SameOutput, SameSent

\* And the read side.
LEMMA ShutReadFields ==
    ASSUME NEW s \in Stream, FdsOK(s)
    PROVE  LET t == ShutRead(s)
           IN  /\ t \in Stream /\ FdsOK(t)
               /\ t.rfd = NoFd /\ t.wfd = s.wfd /\ t.closed = s.closed
               /\ SameCallbacks(s, t) /\ SameInput(s, t) /\ SameOutput(s, t)
               /\ t.is_flushing = s.is_flushing
  <1> DEFINE d == [s EXCEPT !.shutdown_read = TRUE]
             u == IF s.rfd # s.wfd THEN SysClose(d, s.rfd) ELSE d
             t == [u EXCEPT !.rfd = NoFd]
  <1>0. ShutRead(s) = t
    BY DEF ShutRead
  <1>f. s.rfd \in Nat \cup {NoFd} /\ s.wfd \in Nat \cup {NoFd}
    BY DEF Stream
  <1>1. /\ d \in Stream /\ SameFds(s, d)
        /\ SameCallbacks(s, d) /\ SameInput(s, d) /\ SameOutput(s, d) /\ d.is_flushing = s.is_flushing
    BY DEF Stream, SameFds, SameCallbacks, SameInput, SameOutput, SameSent
  <1> HIDE DEF d
  <1>2. /\ u \in Stream /\ u.rfd = s.rfd /\ u.wfd = s.wfd /\ u.closed = s.closed
        /\ SameCallbacks(s, u) /\ SameInput(s, u) /\ SameOutput(s, u) /\ u.is_flushing = s.is_flushing
        /\ u.open = s.open \ (IF s.rfd # s.wfd THEN {s.rfd} \ {NoFd} ELSE {})
        /\ ~u.doubleclose
    <2>1. CASE s.rfd # s.wfd
      <3>1. u = SysClose(d, s.rfd)
        BY <2>1
      <3>2. s.rfd \in d.open \cup {NoFd} /\ ~d.doubleclose
        BY <1>1 DEF SameFds, FdsOK
      <3>3. /\ u \in Stream /\ u.rfd = d.rfd /\ u.wfd = d.wfd /\ u.closed = d.closed
            /\ SameCallbacks(d, u) /\ SameInput(d, u) /\ SameOutput(d, u)
            /\ u.is_flushing = d.is_flushing
            /\ u.open = d.open \ ({s.rfd} \ {NoFd}) /\ ~u.doubleclose
        BY <1>1, <1>f, <3>1, <3>2, SysCloseFields
      <3> QED BY <1>1, <2>1, <3>3 DEF SameFds, SameCallbacks, SameInput, SameOutput, SameSent
    <2>2. CASE s.rfd = s.wfd
      BY <1>1, <2>2 DEF SameFds, FdsOK
    <2> QED BY <2>1, <2>2
  <1> HIDE DEF u
  <1>3. /\ t \in Stream /\ t.rfd = NoFd /\ t.wfd = u.wfd /\ t.closed = u.closed
        /\ t.open = u.open /\ t.doubleclose = u.doubleclose
        /\ SameCallbacks(u, t) /\ SameInput(u, t) /\ SameOutput(u, t) /\ t.is_flushing = u.is_flushing
    BY <1>2 DEF Stream, SameCallbacks, SameInput, SameOutput, SameSent
  <1> HIDE DEF t
  <1>4. FdsOK(t)
    BY <1>2, <1>3 DEF FdsOK
  <1> QED BY <1>0, <1>2, <1>3, <1>4 DEF SameCallbacks, SameInput, SameOutput, SameSent

\* A stream that gives up its read side, or its write side when it has nothing to send
\* and nowrite() was called, is as sound as before.
LEMMA NarrowerSound ==
    ASSUME NEW w \in BOOLEAN, NEW s, NEW t, Sound(s, w),
           t \in Stream, FdsOK(t), t.closed = s.closed,
           t.rfd = s.rfd \/ t.rfd = NoFd,
           t.wfd = s.wfd \/ (t.wfd = NoFd /\ s.stop_write /\ s.outbuf = << >>),
           SameCallbacks(s, t), SameInput(s, t), SameOutput(s, t)
    PROVE  Sound(t, w)
  <1>1. CallbacksOK(t)
    BY DEF Sound, CallbacksOK, SameCallbacks
  <1>2. InputOK(t)
    BY DEF Sound, InputOK, SameInput, Taken
  <1>3. isok(t) => isok(s)
    BY DEF isok, SameOutput
  <1>4. OutputOK(t, w)
    BY <1>3 DEF Sound, OutputOK, SameOutput, SameSent, Complete
  <1> QED BY <1>1, <1>2, <1>4 DEF Sound

\* So is one that differs in none of the fields that Sound is about.
LEMMA UnchangedSound ==
    ASSUME NEW w \in BOOLEAN, NEW s, NEW t, Sound(s, w), t \in Stream,
           SameFds(s, t), SameCallbacks(s, t), SameInput(s, t), SameOutput(s, t)
    PROVE  Sound(t, w)
  <1>1. FdsOK(t)
    BY DEF Sound, FdsOK, SameFds
  <1> QED BY <1>1, NarrowerSound DEF SameFds

\* The first half of WvFdStream::maybe_autoclose(), with its early return.
LEMMA ShutDownSound ==
    ASSUME NEW w \in BOOLEAN, NEW s, Sound(s, w)
    PROVE  After(s, ShutDown(s), w) /\ ShutDown(s).outbuf = s.outbuf
  <1> DEFINE u == IF MustShutWrite(s) THEN ShutWrite(s) ELSE s
             e == [s EXCEPT !.shutdown_write = TRUE]
  <1>t. s \in Stream /\ FdsOK(s)
    BY DEF Sound
  <1>1. /\ Sound(u, w) /\ SameInput(s, u) /\ SameOutput(s, u) /\ u.is_flushing = s.is_flushing
    <2>1. CASE MustShutWrite(s)
      <3>1. u = ShutWrite(s) /\ s.stop_write /\ s.outbuf = << >>
        BY <2>1 DEF MustShutWrite
      <3>2. /\ u \in Stream /\ FdsOK(u)
            /\ u.rfd = s.rfd /\ u.wfd = NoFd /\ u.closed = s.closed
            /\ SameCallbacks(s, u) /\ SameInput(s, u) /\ SameOutput(s, u)
            /\ u.is_flushing = s.is_flushing
        BY <1>t, <3>1, ShutWriteFields
      <3> QED BY <3>1, <3>2, NarrowerSound
    <2>2. CASE ~MustShutWrite(s)
      BY <2>2 DEF SameInput, SameOutput, SameSent
    <2> QED BY <2>1, <2>2
  <1> HIDE DEF u
  <1>2. CASE ReturnsEarly(s)
    <2>1. /\ e \in Stream /\ SameFds(s, e) /\ SameCallbacks(s, e)
          /\ SameInput(s, e) /\ SameOutput(s, e) /\ e.is_flushing = s.is_flushing
      BY <1>t DEF Stream, SameFds, SameCallbacks, SameInput, SameOutput, SameSent
    <2> HIDE DEF e
    <2>2. Sound(e, w)
      BY <2>1, UnchangedSound
    <2>3. ShutDown(s) = e
      BY <1>2 DEF ShutDown, e
    <2> QED BY <2>1, <2>2, <2>3 DEF After, CloseSafe, SameOutput
  <1>3. CASE ~ReturnsEarly(s) /\ MustShutRead(u)
    <2> DEFINE t == ShutRead(u)
    <2>0. ShutDown(s) = t
      BY <1>3 DEF ShutDown, u
    <2>1. /\ t \in Stream /\ FdsOK(t)
          /\ t.rfd = NoFd /\ t.wfd = u.wfd /\ t.closed = u.closed
          /\ SameCallbacks(u, t) /\ SameInput(u, t) /\ SameOutput(u, t)
          /\ t.is_flushing = u.is_flushing
      BY <1>1, ShutReadFields DEF Sound
    <2> HIDE DEF t
    <2>2. Sound(t, w)
      BY <1>1, <2>1, NarrowerSound
    <2>3. SameInput(s, t) /\ SameOutput(s, t) /\ t.is_flushing = s.is_flushing
      BY <1>1, <2>1 DEF SameInput, SameOutput, SameSent
    <2> QED BY <2>0, <2>2, <2>3 DEF After, CloseSafe, SameOutput
  <1>4. CASE ~ReturnsEarly(s) /\ ~MustShutRead(u)
    <2>0. ShutDown(s) = u
      BY <1>4 DEF ShutDown, u
    <2> QED BY <1>1, <2>0 DEF After, CloseSafe, SameOutput
  <1> QED BY <1>2, <1>3, <1>4

\* Methods that call one another.
LEMMA AfterTransitive ==
    ASSUME NEW w \in BOOLEAN, NEW s, NEW t, NEW u, After(s, t, w), After(t, u, w)
    PROVE  After(s, u, w)
  BY DEF After, SameInput

\* maybe_autoclose() under a flush closes only with an empty outbuf.
LEMMA AutocloseInFlushSound ==
    ASSUME NEW w \in BOOLEAN, NEW s, Sound(s, w)
    PROVE  After(s, AutocloseInFlush(s), w)
  <1> DEFINE d == ShutDown(s)
  <1>1. After(s, d, w)
    BY ShutDownSound
  <1>2. CASE ~ReturnsEarly(s) /\ AutocloseDue(d)
    <2>1. CloseSafe(d, w)
      BY <1>2 DEF AutocloseDue, CloseSafe
    <2>2. After(d, CloseInFlush(d), w)
      BY <1>1, <2>1, CloseInFlushSound DEF After
    <2> QED BY <1>1, <1>2, <2>2, AfterTransitive DEF AutocloseInFlush
  <1>3. CASE ~(~ReturnsEarly(s) /\ AutocloseDue(d))
    BY <1>1, <1>3 DEF AutocloseInFlush
  <1> QED BY <1>2, <1>3

-----------------------------------------------------------------------------
\* A sequence of consecutive bytes, cut in two,
LEMMA Split ==
    ASSUME NEW q \in Seq(Nat), NEW k \in 0..Len(q)
    PROVE  /\ FirstOf(q, k) \in Seq(Nat) /\ Len(FirstOf(q, k)) = k
           /\ DropFirst(q, k) \in Seq(Nat) /\ Len(DropFirst(q, k)) = Len(q) - k
           /\ \A n \in Nat : Counts(q, n) => Counts(FirstOf(q, k), n) /\ Counts(DropFirst(q, k), n + k)
  <1>1. FirstOf(q, k) \in Seq(Nat) /\ Len(FirstOf(q, k)) = k
    BY SubSeqProperties DEF FirstOf
  <1>2. \A i \in 1..k : FirstOf(q, k)[i] = q[i]
    BY SubSeqProperties DEF FirstOf
  <1>3. DropFirst(q, k) \in Seq(Nat) /\ Len(DropFirst(q, k)) = Len(q) - k
    BY SubSeqProperties DEF DropFirst
  <1>4. \A i \in 1..(Len(q) - k) : DropFirst(q, k)[i] = q[k + i]
    BY SubSeqProperties DEF DropFirst
  <1>5. ASSUME NEW n \in Nat, Counts(q, n)
        PROVE  Counts(FirstOf(q, k), n) /\ Counts(DropFirst(q, k), n + k)
    <2>1. ASSUME NEW i \in 1..k PROVE FirstOf(q, k)[i] = n + i
      BY <1>2, <1>5 DEF Counts
    <2>2. ASSUME NEW i \in 1..(Len(q) - k) PROVE DropFirst(q, k)[i] = n + k + i
      <3>1. k + i \in 1..Len(q)
        OBVIOUS
      <3>2. q[k + i] = n + (k + i)
        BY <1>5, <3>1 DEF Counts
      <3> QED BY <1>4, <3>2
    <2> QED BY <1>1, <1>3, <2>1, <2>2 DEF Counts
  <1> QED BY <1>1, <1>3, <1>5

\* put together again,
LEMMA Join ==
    ASSUME NEW a \in Seq(Nat), NEW b \in Seq(Nat), NEW n \in Nat,
           Counts(a, n), Counts(b, n + Len(a))
    PROVE  a \o b \in Seq(Nat) /\ Len(a \o b) = Len(a) + Len(b) /\ Counts(a \o b, n)
  <1>1. a \o b \in Seq(Nat) /\ Len(a \o b) = Len(a) + Len(b)
    BY ConcatProperties
  <1>2. ASSUME NEW i \in 1..Len(a \o b) PROVE (a \o b)[i] = n + i
    <2>1. (a \o b)[i] = IF i <= Len(a) THEN a[i] ELSE b[i - Len(a)]
      BY ConcatProperties
    <2>2. CASE i <= Len(a)
      BY <2>1, <2>2 DEF Counts
    <2>3. CASE i > Len(a)
      <3>1. i - Len(a) \in 1..Len(b)
        BY <1>1, <2>3
      <3> QED BY <2>1, <2>3, <3>1 DEF Counts
    <2> QED BY <2>2, <2>3
  <1> QED BY <1>1, <1>2 DEF Counts

\* and made anew.
LEMMA CountCounts ==
    ASSUME NEW lo \in Nat, NEW n \in Nat
    PROVE  Count(lo, n) \in Seq(Nat) /\ Len(Count(lo, n)) = n /\ Counts(Count(lo, n), lo)
  <1>1. Count(lo, n) \in [1..n -> Nat]
    BY DEF Count
  <1>2. Count(lo, n) \in Seq(Nat) /\ Len(Count(lo, n)) = n
    BY <1>1, IsASeq, LenProperties
  <1> QED BY <1>2 DEF Counts, Count

\* uwrite() from the outbuf: k bytes go from its front to the kernel,
LEMMA SentFields ==
    ASSUME NEW s \in Stream, NEW k \in 0..Len(s.outbuf)
    PROVE  LET t == Sent(s, k)
           IN  /\ t \in Stream
               /\ t.sent = s.sent \o FirstOf(s.outbuf, k)
               /\ t.outbuf = DropFirst(s.outbuf, k)
               /\ SameFds(s, t) /\ SameCallbacks(s, t) /\ SameInput(s, t)
               /\ t.accepted = s.accepted /\ t.err = s.err /\ t.timedout = s.timedout
               /\ t.stop_write = s.stop_write /\ t.is_flushing = s.is_flushing
  <1>1. s.outbuf \in Seq(Nat) /\ s.sent \in Seq(Nat)
    BY DEF Stream
  <1>2. s.sent \o FirstOf(s.outbuf, k) \in Seq(Nat) /\ DropFirst(s.outbuf, k) \in Seq(Nat)
    BY <1>1, Split, ConcatProperties
  <1> QED BY <1>2 DEF Sent, Stream, SameFds, SameCallbacks, SameInput

\* and stay in order.
LEMMA SentSound ==
    ASSUME NEW w \in BOOLEAN, NEW s, Sound(s, w), isok(s), NEW k \in 0..Len(s.outbuf),
           s.wfd # NoFd \/ k = 0
    PROVE  LET t == Sent(s, k)
           IN  /\ Sound(t, w) /\ isok(t) /\ SameInput(s, t) /\ t.is_flushing = s.is_flushing
               /\ t.timedout = s.timedout /\ t.err = s.err
               /\ t.outbuf \in Seq(Nat) /\ Len(t.outbuf) = Len(s.outbuf) - k
  <1> DEFINE t == Sent(s, k)
  <1>t. s \in Stream /\ s.outbuf \in Seq(Nat) /\ s.sent \in Seq(Nat) /\ s.accepted \in Nat
    BY DEF Sound, Stream
  <1>1. /\ t \in Stream
        /\ t.sent = s.sent \o FirstOf(s.outbuf, k)
        /\ t.outbuf = DropFirst(s.outbuf, k)
        /\ SameFds(s, t) /\ SameCallbacks(s, t) /\ SameInput(s, t)
        /\ t.accepted = s.accepted /\ t.err = s.err /\ t.timedout = s.timedout
        /\ t.stop_write = s.stop_write /\ t.is_flushing = s.is_flushing
    BY <1>t, SentFields
  <1> HIDE DEF t
  <1>2. Counts(s.sent, 0) /\ Counts(s.outbuf, Len(s.sent)) /\ Len(s.sent) + Len(s.outbuf) = s.accepted
    BY DEF Sound, OutputOK, Complete
  <1>3. /\ FirstOf(s.outbuf, k) \in Seq(Nat) /\ Len(FirstOf(s.outbuf, k)) = k
        /\ t.outbuf \in Seq(Nat) /\ Len(t.outbuf) = Len(s.outbuf) - k
        /\ Counts(FirstOf(s.outbuf, k), Len(s.sent)) /\ Counts(t.outbuf, Len(s.sent) + k)
    <2>1. Len(s.sent) \in Nat
      BY <1>t
    <2>2. /\ FirstOf(s.outbuf, k) \in Seq(Nat) /\ Len(FirstOf(s.outbuf, k)) = k
          /\ DropFirst(s.outbuf, k) \in Seq(Nat) /\ Len(DropFirst(s.outbuf, k)) = Len(s.outbuf) - k
          /\ \A n \in Nat : Counts(s.outbuf, n)
                => Counts(FirstOf(s.outbuf, k), n) /\ Counts(DropFirst(s.outbuf, k), n + k)
      BY <1>t, Split
    <2>3. /\ Counts(FirstOf(s.outbuf, k), Len(s.sent))
          /\ Counts(DropFirst(s.outbuf, k), Len(s.sent) + k)
      BY <1>2, <2>1, <2>2
    <2>4. t.outbuf = DropFirst(s.outbuf, k)
      BY <1>1
    <2> QED BY <2>2, <2>3, <2>4
  <1>n. Len(s.sent) \in Nat /\ 0 + Len(s.sent) = Len(s.sent)
    BY <1>t
  <1>4. Counts(t.sent, 0) /\ Len(t.sent) = Len(s.sent) + k
    BY <1>t, <1>1, <1>2, <1>3, <1>n, Join
  <1>5. FdsOK(t) /\ CallbacksOK(t) /\ InputOK(t) /\ isok(t)
    <2>1. FdsOK(t) /\ isok(t)
      BY <1>1 DEF Sound, FdsOK, isok, SameFds
    <2>2. CallbacksOK(t)
      BY <1>1 DEF Sound, CallbacksOK, SameFds, SameCallbacks
    <2>3. InputOK(t)
      BY <1>1 DEF Sound, InputOK, Taken, SameInput
    <2> QED BY <2>1, <2>2, <2>3
  <1>6. OutputOK(t, w)
    <2>0. Len(s.sent) \in Nat /\ Len(s.outbuf) \in Nat
      BY <1>t
    <2>1. Len(t.sent) <= t.accepted /\ Complete(t) /\ Counts(t.outbuf, Len(t.sent))
      <3>1. Counts(t.outbuf, Len(t.sent))
        BY <1>3, <1>4
      <3>2. Len(t.sent) + Len(t.outbuf) = t.accepted /\ Len(t.sent) <= t.accepted
        <4>1. t.accepted = Len(s.sent) + Len(s.outbuf)
          BY <1>1, <1>2
        <4>2. Len(t.outbuf) = Len(s.outbuf) - k /\ Len(t.sent) = Len(s.sent) + k
          BY <1>3, <1>4
        <4>3. PICK a \in Nat, b \in Nat : Len(s.sent) = a /\ Len(s.outbuf) = b
          BY <2>0
        <4>4. k \in 0..b
          BY <4>3
        <4> QED BY <4>1, <4>2, <4>3, <4>4
      <3> QED BY <3>1, <3>2 DEF Complete
    <2>2. ASSUME w, t.wfd = NoFd PROVE t.stop_write /\ t.outbuf = << >>
      <3>1. s.stop_write /\ s.outbuf = << >>
        BY <1>1, <2>2 DEF Sound, OutputOK, isok, SameFds
      <3> QED BY <1>1, <1>3, <3>1, EmptySeq
    <2>3. ~t.closed
      BY <1>5 DEF isok
    <2> QED BY <1>4, <2>1, <2>2, <2>3 DEF OutputOK
  <1> QED BY <1>1, <1>3, <1>5, <1>6 DEF Sound, t

\* What a turn of flush_outbuf()'s loop leaves behind, for a flush() that waits and
\* for one that does not.
Flushed(s, o, wait, w) ==
    /\ After(s, o[1], w)
    /\ o[2] \in BOOLEAN /\ (~o[2] => o[1].outbuf = << >>)
    /\ wait /\ ~s.closed => CloseSafe(o[1], w)

\* The loop ends with k bytes sent; a flush that waited and has bytes left is out of time.
LEMMA PartlySentSound ==
    ASSUME NEW w \in BOOLEAN, NEW wait \in BOOLEAN, NEW s, Sound(s, w), isok(s), s.outbuf # << >>,
           s.wfd # NoFd, NEW k \in 0..Len(s.outbuf)
    PROVE  Flushed(s, <<[Sent(s, k) EXCEPT !.timedout = @ \/ (wait /\ k < Len(s.outbuf))], TRUE>>, wait, w)
  <1> DEFINE u == Sent(s, k)
             t == [u EXCEPT !.timedout = @ \/ (wait /\ k < Len(s.outbuf))]
  <1>1. /\ Sound(u, w) /\ isok(u) /\ SameInput(s, u) /\ u.is_flushing = s.is_flushing
        /\ u.timedout = s.timedout /\ u.err = s.err
        /\ u.outbuf \in Seq(Nat) /\ Len(u.outbuf) = Len(s.outbuf) - k
    BY SentSound
  <1> HIDE DEF u
  <1>2. /\ t \in Stream /\ SameFds(u, t) /\ SameCallbacks(u, t) /\ SameInput(u, t) /\ SameSent(u, t)
        /\ t.outbuf = u.outbuf /\ t.err = u.err /\ t.stop_write = u.stop_write /\ t.is_flushing = u.is_flushing
        /\ u.timedout => t.timedout
        /\ wait /\ k < Len(s.outbuf) => t.timedout
    <2>1. u \in Stream
      BY <1>1 DEF Sound
    <2>2. (u.timedout \/ (wait /\ k < Len(s.outbuf))) \in BOOLEAN
      OBVIOUS
    <2> QED BY <2>1, <2>2 DEF Stream, SameFds, SameCallbacks, SameInput, SameSent
  <1> HIDE DEF t
  <1>3. Sound(t, w)
    <2>1. FdsOK(t)
      BY <1>1, <1>2 DEF Sound, FdsOK, SameFds
    <2>2. CallbacksOK(t)
      BY <1>1, <1>2 DEF Sound, CallbacksOK, SameFds, SameCallbacks
    <2>3. InputOK(t)
      BY <1>1, <1>2 DEF Sound, InputOK, Taken, SameInput
    <2>4. isok(t) /\ ~t.closed
      BY <1>1, <1>2 DEF isok, SameFds
    <2>5. OutputOK(t, w)
      BY <1>1, <1>2, <2>4 DEF Sound, OutputOK, SameSent, SameFds, Complete
    <2> QED BY <1>2, <2>1, <2>2, <2>3, <2>5 DEF Sound
  <1>4. CloseSafe(s, w) => CloseSafe(t, w)
    BY <1>1, <1>2 DEF CloseSafe, isok
  <1>5. wait => CloseSafe(t, w)
    <2>1. CASE k < Len(s.outbuf)
      BY <1>2, <2>1 DEF CloseSafe
    <2>2. CASE k = Len(s.outbuf)
      <3>1. s.outbuf \in Seq(Nat)
        BY DEF Sound, Stream
      <3>2. Len(u.outbuf) = 0
        BY <1>1, <2>2, <3>1
      <3> QED BY <1>1, <1>2, <3>2, EmptySeq DEF CloseSafe
    <2> QED BY <2>1, <2>2
  <1>6. After(s, t, w)
    BY <1>1, <1>2, <1>3, <1>4 DEF After, SameInput
  <1> QED BY <1>5, <1>6 DEF Flushed, t, u

\* The error path of uwrite() loses bytes, and says so.
LEMMA WriteFailsSound ==
    ASSUME NEW w \in BOOLEAN, NEW s, Sound(s, w), NEW t \in WriteFails(s)
    PROVE  /\ Sound(t, w) /\ SameInput(s, t) /\ t.is_flushing = s.is_flushing /\ t.err
  <1>1. PICK a \in 1..Len(s.outbuf) : t = [s EXCEPT !.err = TRUE, !.outbuf = DropFirst(@, a)]
    BY DEF WriteFails
  <1>2. s \in Stream /\ s.outbuf \in Seq(Nat) /\ a \in 0..Len(s.outbuf)
    BY DEF Sound, Stream
  <1>3. DropFirst(s.outbuf, a) \in Seq(Nat)
    BY <1>2, Split
  <1>4. /\ t \in Stream /\ SameFds(s, t) /\ SameCallbacks(s, t) /\ SameInput(s, t) /\ SameSent(s, t)
        /\ t.err /\ t.is_flushing = s.is_flushing
    BY <1>1, <1>2, <1>3 DEF Stream, SameFds, SameCallbacks, SameInput, SameSent
  <1>5. FdsOK(t)
    BY <1>4 DEF Sound, FdsOK, SameFds
  <1>6. CallbacksOK(t)
    BY <1>4 DEF Sound, CallbacksOK, SameFds, SameCallbacks
  <1>7. InputOK(t)
    BY <1>4 DEF Sound, InputOK, Taken, SameInput
  <1>8. OutputOK(t, w)
    BY <1>4 DEF Sound, OutputOK, SameSent, isok
  <1> QED BY <1>4, <1>5, <1>6, <1>7, <1>8 DEF Sound

\* All ways through the loop of flush_outbuf().
LEMMA EnterLoopSound ==
    ASSUME NEW w \in BOOLEAN, NEW wait \in BOOLEAN, NEW s, Sound(s, w),
           NEW o \in EnterLoop(s, wait)
    PROVE  Flushed(s, o, wait, w)
  <1>t. s.outbuf \in Seq(Nat) /\ Len(s.outbuf) \in Nat
    BY DEF Sound, Stream
  <1>1. CASE s.outbuf # << >> /\ isok(s)
    <2> DEFINE all == Len(s.outbuf)
               steps == IF s.wfd = NoFd THEN {} ELSE 0..all
               fails == IF s.wfd = NoFd THEN {0} ELSE IF wait THEN 0..(all - 1) ELSE {0}
    <2>0. o \in FlushLoop(s, wait)
      BY <1>1 DEF EnterLoop
    <2>1. CASE \E k \in steps : o = <<[Sent(s, k) EXCEPT !.timedout = @ \/ (wait /\ k < all)], TRUE>>
      <3>1. PICK k \in steps : o = <<[Sent(s, k) EXCEPT !.timedout = @ \/ (wait /\ k < all)], TRUE>>
        BY <2>1
      <3>2. s.wfd # NoFd /\ k \in 0..all
        BY <3>1
      <3> QED BY <1>1, <3>1, <3>2, PartlySentSound
    <2>2. CASE \E k \in fails : \E t \in WriteFails(Sent(s, k)) : o = <<t, TRUE>>
      <3>1. PICK k \in fails : \E t \in WriteFails(Sent(s, k)) : o = <<t, TRUE>>
        BY <2>2
      <3>2. PICK t \in WriteFails(Sent(s, k)) : o = <<t, TRUE>>
        BY <3>1
      <3>3. k \in 0..Len(s.outbuf) /\ (s.wfd # NoFd \/ k = 0)
        <4>1. CASE s.wfd = NoFd
          BY <1>t, <3>1, <4>1
        <4>2. CASE s.wfd # NoFd /\ wait
          BY <1>t, <3>1, <4>2
        <4>3. CASE s.wfd # NoFd /\ ~wait
          BY <1>t, <3>1, <4>3
        <4> QED BY <4>1, <4>2, <4>3
      <3>4. Sound(Sent(s, k), w) /\ SameInput(s, Sent(s, k)) /\ Sent(s, k).is_flushing = s.is_flushing
        BY <1>1, <3>3, SentSound
      <3>5. Sound(t, w) /\ SameInput(Sent(s, k), t) /\ t.is_flushing = Sent(s, k).is_flushing /\ t.err
        BY <3>4, WriteFailsSound
      <3>6. o[1] = t /\ o[2] = TRUE
        BY <3>2
      <3> QED BY <1>1, <3>4, <3>5, <3>6 DEF Flushed, After, CloseSafe, SameInput
    <2>3. CASE s.wfd # NoFd /\ o = <<Sent(s, all), FALSE>>
      <3>1. all \in 0..Len(s.outbuf)
        BY <1>t
      <3> DEFINE t == Sent(s, all)
      <3>2. /\ Sound(t, w) /\ SameInput(s, t) /\ t.is_flushing = s.is_flushing
            /\ t.outbuf \in Seq(Nat) /\ Len(t.outbuf) = Len(s.outbuf) - all /\ t.err = s.err
        BY <1>1, <2>3, <3>1, SentSound
      <3>3. t.outbuf = << >>
        <4>1. Len(t.outbuf) = 0
          BY <1>t, <3>2
        <4> QED BY <3>2, <4>1, EmptySeq
      <3>4. o[1] = t /\ o[2] = FALSE
        BY <2>3
      <3> QED BY <3>2, <3>3, <3>4 DEF Flushed, After, CloseSafe
    <2> QED
      BY <2>0, <2>1, <2>2, <2>3 DEF FlushLoop
  <1>2. CASE ~(s.outbuf # << >> /\ isok(s))
    <2>1. o[1] = s /\ o[2] = (s.outbuf # << >>)
      BY <1>2 DEF EnterLoop
    <2>2. After(s, s, w)
      BY DEF After, SameInput
    <2>3. ~s.closed => CloseSafe(s, w)
      BY <1>2 DEF Sound, OutputOK, CloseSafe, isok
    <2> QED BY <2>1, <2>2, <2>3 DEF Flushed
  <1> QED BY <1>1, <1>2

\* flush_then_close() is due: the outbuf is empty or the time is up.
LEMMA TimerFiresSound ==
    ASSUME NEW w \in BOOLEAN, NEW s, Sound(s, w), ~s.closed
    PROVE  After(s, TimerFires(s), w) /\ CloseSafe(TimerFires(s), w) /\ ~TimerFires(s).closed
  <1> DEFINE t == TimerFires(s)
  <1>1. /\ t \in Stream /\ SameFds(s, t) /\ SameCallbacks(s, t) /\ SameInput(s, t) /\ SameSent(s, t)
        /\ t.outbuf = s.outbuf /\ t.err = s.err /\ t.stop_write = s.stop_write
        /\ t.is_flushing = s.is_flushing
        /\ s.timedout \/ s.outbuf # << >> => t.timedout
    <2>1. s \in Stream /\ (s.timedout \/ s.outbuf # << >>) \in BOOLEAN
      BY DEF Sound
    <2> QED BY <2>1 DEF TimerFires, Stream, SameFds, SameCallbacks, SameInput, SameSent
  <1> HIDE DEF t
  <1>2. FdsOK(t)
    BY <1>1 DEF Sound, FdsOK, SameFds
  <1>3. CallbacksOK(t)
    BY <1>1 DEF Sound, CallbacksOK, SameFds, SameCallbacks
  <1>4. InputOK(t)
    BY <1>1 DEF Sound, InputOK, Taken, SameInput
  <1>5. ~t.closed /\ (isok(t) => isok(s))
    BY <1>1 DEF isok, SameFds
  <1>6. OutputOK(t, w)
    BY <1>1, <1>5 DEF Sound, OutputOK, SameSent, SameFds, Complete
  <1>7. CloseSafe(t, w)
    BY <1>1 DEF CloseSafe
  <1> QED BY <1>1, <1>2, <1>3, <1>4, <1>5, <1>6, <1>7 DEF Sound, After, t

\* The end of flush_outbuf(): outbuf.zap() takes bytes only from a stream that failed or
\* was closed, or has no descriptor.
LEMMA SettleSound ==
    ASSUME NEW w \in BOOLEAN, NEW s, Sound(s, w), NEW was_used \in BOOLEAN
    PROVE  After(s, Settle(s, was_used), w)
  <1> DEFINE t == Settle(s, was_used)
             q == IF was_used /\ ~isok(s) THEN << >> ELSE s.outbuf
             v == s.want_to_flush /\ ~(s.outbuf_delayed_flush /\ ~was_used)
  <1>1. s \in Stream /\ s.outbuf \in Seq(Nat) /\ q \in Seq(Nat)
    BY DEF Sound, Stream
  <1>2. t = [s EXCEPT !.want_to_flush = v, !.outbuf = q] /\ v \in BOOLEAN
    BY DEF Settle
  <1> HIDE DEF v, t
  <1>3. /\ t \in Stream /\ SameFds(s, t) /\ SameCallbacks(s, t) /\ SameInput(s, t) /\ SameSent(s, t)
        /\ t.outbuf = q /\ t.err = s.err /\ t.timedout = s.timedout
        /\ t.stop_write = s.stop_write /\ t.is_flushing = s.is_flushing
    <2> HIDE DEF q
    <2> QED BY <1>1, <1>2 DEF Stream, SameFds, SameCallbacks, SameInput, SameSent
  <1>4. FdsOK(t)
    BY <1>3 DEF Sound, FdsOK, SameFds
  <1>5. CallbacksOK(t)
    BY <1>3 DEF Sound, CallbacksOK, SameFds, SameCallbacks
  <1>6. InputOK(t)
    BY <1>3 DEF Sound, InputOK, Taken, SameInput
  <1>7. isok(t) <=> isok(s)
    BY <1>3 DEF isok, SameFds
  <1>8. OutputOK(t, w)
    <2>1. CASE t.outbuf = s.outbuf
      BY <1>3, <1>7, <2>1 DEF Sound, OutputOK, SameSent, SameFds, Complete
    <2>2. CASE t.outbuf # s.outbuf
      <3>1. ~isok(s) /\ s.outbuf # << >>
        BY <1>3, <2>2
      <3>2. ~w \/ s.closed \/ s.err
        BY <3>1 DEF Sound, OutputOK, isok
      <3> QED BY <1>3, <1>7, <3>1, <3>2 DEF Sound, OutputOK, SameSent, SameFds
    <2> QED BY <2>1, <2>2
  <1>9. s.outbuf = << >> => t.outbuf = << >>
    BY <1>3
  <1>10. CloseSafe(s, w) => CloseSafe(t, w)
    BY <1>3, <1>9 DEF CloseSafe
  <1> QED BY <1>3, <1>4, <1>5, <1>6, <1>8, <1>9, <1>10 DEF Sound, After, t

\* What flush_outbuf() and flush() return, and leave behind.
FlushResult(s, r, wait, w) ==
    /\ After(s, r.st, w)
    /\ r.done \in BOOLEAN /\ (r.done => r.st.outbuf = << >>)
    /\ wait /\ ~s.closed => CloseSafe(r.st, w)

\* flush_outbuf() called by flush(): the loop, the error, the timer, the buffer, the
\* autoclose, in this order.
LEMMA FlushOutbufInFlushSound ==
    ASSUME NEW w \in BOOLEAN, NEW wait \in BOOLEAN, NEW s, Sound(s, w),
           NEW r \in FlushOutbufInFlush(s, wait)
    PROVE  FlushResult(s, r, wait, w)
  <1>1. CASE NothingToFlush(s)
    <2>1. r = [st |-> AutocloseInFlush(s), done |-> TRUE]
      BY <1>1 DEF FlushOutbufInFlush
    <2>2. After(s, r.st, w) /\ r.done = TRUE
      BY <2>1, AutocloseInFlushSound
    <2>3. s.outbuf = << >>
      BY <1>1 DEF NothingToFlush
    <2> QED BY <2>2, <2>3 DEF FlushResult, After, CloseSafe
  <1>2. CASE ~NothingToFlush(s)
    <2>1. PICK o \in EnterLoop(s, wait) :
             r = [st |-> AutocloseInFlush(Settle(AutocloseTimer(AfterError(s, o[1])), o[2])), done |-> ~o[2]]
      BY <1>2 DEF FlushOutbufInFlush
    <2> DEFINE t1 == AfterError(s, o[1])
               t2 == AutocloseTimer(t1)
               t3 == Settle(t2, o[2])
               t4 == AutocloseInFlush(t3)
    <2>2. Flushed(s, o, wait, w)
      BY EnterLoopSound
    <2>3. After(o[1], t1, w)
      <3>1. CASE FailedNow(s, o[1])
        <4>1. CloseSafe(o[1], w)
          BY <3>1 DEF FailedNow, CloseSafe
        <4>2. After(o[1], CloseInFlush(o[1]), w)
          BY <2>2, <4>1, CloseInFlushSound DEF Flushed, After
        <4> QED BY <3>1, <4>2 DEF AfterError
      <3>2. CASE ~FailedNow(s, o[1])
        BY <2>2, <3>2 DEF AfterError, Flushed, After, SameInput
      <3> QED BY <3>1, <3>2
    <2> HIDE DEF t1
    <2>4. After(t1, t2, w)
      <3>1. CASE TimeToClose(t1)
        <4>1. ~t1.closed
          BY <3>1 DEF TimeToClose, isok
        <4>2. After(t1, TimerFires(t1), w) /\ CloseSafe(TimerFires(t1), w)
          BY <2>3, <4>1, TimerFiresSound DEF After
        <4>3. After(TimerFires(t1), CloseInFlush(TimerFires(t1)), w)
          BY <4>2, CloseInFlushSound DEF After
        <4>4. t2 = CloseInFlush(TimerFires(t1))
          BY <3>1 DEF AutocloseTimer
        <4> QED BY <4>2, <4>3, <4>4, AfterTransitive
      <3>2. CASE ~TimeToClose(t1)
        BY <2>3, <3>2 DEF AutocloseTimer, After, SameInput
      <3> QED BY <3>1, <3>2
    <2> HIDE DEF t2
    <2>5. After(t2, t3, w)
      BY <2>2, <2>4, SettleSound DEF Flushed, After
    <2> HIDE DEF t3
    <2>6. After(t3, t4, w)
      BY <2>5, AutocloseInFlushSound DEF After
    <2>7. After(o[1], t4, w)
      BY <2>3, <2>4, <2>5, <2>6, AfterTransitive
    <2>8. r.st = t4 /\ r.done = ~o[2]
      BY <2>1 DEF t1, t2, t3
    <2> HIDE DEF t4
    <2>9. After(s, t4, w)
      BY <2>2, <2>7, AfterTransitive DEF Flushed
    <2>10. /\ ~o[2] => t4.outbuf = << >>
           /\ wait /\ ~s.closed => CloseSafe(t4, w)
      BY <2>2, <2>7 DEF Flushed, After
    <2> QED BY <2>2, <2>8, <2>9, <2>10 DEF FlushResult, Flushed
  <1> QED BY <1>1, <1>2

\* flush() resets is_flushing, returns true only with an empty outbuf, and if it waited
\* the stream can safely be closed.
LEMMA FlushSound ==
    ASSUME NEW w \in BOOLEAN, NEW wait \in BOOLEAN, NEW s, Sound(s, w), ~s.is_flushing,
           NEW r \in Flush(s, wait)
    PROVE  FlushResult(s, r, wait, w)
  <1> DEFINE f == [s EXCEPT !.is_flushing = TRUE, !.want_to_flush = TRUE]
  <1>1. /\ f \in Stream /\ SameFds(s, f) /\ SameCallbacks(s, f) /\ SameInput(s, f) /\ SameOutput(s, f)
    BY DEF Sound, Stream, SameFds, SameCallbacks, SameInput, SameOutput, SameSent
  <1>2. PICK r0 \in FlushOutbufInFlush(f, wait) : r = [r0 EXCEPT !.st.is_flushing = FALSE]
    BY DEF Flush
  <1> HIDE DEF f
  <1>3. Sound(f, w)
    BY <1>1, UnchangedSound
  <1>4. FlushResult(f, r0, wait, w)
    BY <1>3, FlushOutbufInFlushSound
  <1> DEFINE u == r0.st
             t == [u EXCEPT !.is_flushing = FALSE]
  <1>5. r.st = t /\ r.done = r0.done
    <2>1. \E x, y : r0 = [st |-> x, done |-> y]
      BY <1>2 DEF FlushOutbufInFlush
    <2>2. PICK x, y : r0 = [st |-> x, done |-> y]
      BY <2>1
    <2> QED BY <1>2, <2>2
  <1>6. Sound(u, w)
    BY <1>4 DEF FlushResult, After
  <1>7. /\ t \in Stream /\ SameFds(u, t) /\ SameCallbacks(u, t) /\ SameInput(u, t) /\ SameOutput(u, t)
        /\ ~t.is_flushing /\ t.is_flushing = FALSE
    BY <1>6 DEF Sound, Stream, SameFds, SameCallbacks, SameInput, SameOutput, SameSent
  <1> HIDE DEF t, u
  <1>8. Sound(t, w)
    BY <1>6, <1>7, UnchangedSound
  <1>9. s.is_flushing = FALSE
    BY DEF Sound, Stream
  <1>10. /\ SameInput(f, u) /\ (f.outbuf = << >> => u.outbuf = << >>)
         /\ (CloseSafe(f, w) => CloseSafe(u, w))
         /\ r0.done \in BOOLEAN /\ (r0.done => u.outbuf = << >>)
         /\ wait /\ ~f.closed => CloseSafe(u, w)
         /\ f.err => u.err
    BY <1>4 DEF FlushResult, After, u
  <1>11. CloseSafe(u, w) <=> CloseSafe(t, w)
    BY <1>7 DEF CloseSafe, SameOutput
  <1>12. (CloseSafe(f, w) <=> CloseSafe(s, w)) /\ f.closed = s.closed /\ f.outbuf = s.outbuf
    BY <1>1 DEF CloseSafe, SameOutput, SameFds
  <1>13. t.outbuf = u.outbuf /\ SameInput(s, t) /\ (s.err => t.err)
    BY <1>1, <1>7, <1>10 DEF SameOutput, SameInput
  <1>14. After(s, t, w)
    BY <1>7, <1>8, <1>9, <1>10, <1>11, <1>12, <1>13 DEF After
  <1> QED BY <1>5, <1>10, <1>11, <1>12, <1>13, <1>14 DEF FlushResult

\* close() from outside a flush.
LEMMA CloseSound ==
    ASSUME NEW w \in BOOLEAN, NEW s, Sound(s, w), ~s.is_flushing, NEW t \in Close(s)
    PROVE  After(s, t, w) /\ t.closed
  <1>1. CASE s.closed
    BY <1>1 DEF Close, After, SameInput
  <1>2. CASE ~s.closed
    <2>1. PICK r \in Flush(s, TRUE) : t = FinishClose(r.st)
      BY <1>2 DEF Close
    <2>2. FlushResult(s, r, TRUE, w)
      BY FlushSound
    <2>3. After(s, r.st, w) /\ CloseSafe(r.st, w)
      BY <1>2, <2>2 DEF FlushResult
    <2>4. After(r.st, t, w) /\ t.closed
      BY <2>1, <2>3, FinishCloseSound DEF After
    <2> QED BY <2>3, <2>4, AfterTransitive
  <1> QED BY <1>1, <1>2

\* A method that does not read: the stream is sound, no flush is under way, and what
\* was received is as before.
Kept(s, t, w) == Sound(t, w) /\ ~t.is_flushing /\ SameInput(s, t)

\* seterr() with an error, which closes the stream once,
LEMMA SetErrorSound ==
    ASSUME NEW w \in BOOLEAN, NEW s, Sound(s, w), ~s.is_flushing, NEW t \in SetError(s)
    PROVE  Kept(s, t, w) /\ t.err
  <1>1. CASE s.err
    BY <1>1 DEF SetError, Kept, SameInput
  <1>2. CASE ~s.err
    <2> DEFINE e == [s EXCEPT !.err = TRUE]
    <2>1. t \in Close(e)
      BY <1>2 DEF SetError
    <2>2. /\ e \in Stream /\ SameFds(s, e) /\ SameCallbacks(s, e) /\ SameInput(s, e) /\ SameSent(s, e)
          /\ e.err /\ e.is_flushing = s.is_flushing
      BY DEF Sound, Stream, SameFds, SameCallbacks, SameInput, SameSent
    <2> HIDE DEF e
    <2>3. FdsOK(e)
      BY <2>2 DEF Sound, FdsOK, SameFds
    <2>4. CallbacksOK(e)
      BY <2>2 DEF Sound, CallbacksOK, SameFds, SameCallbacks
    <2>5. InputOK(e)
      BY <2>2 DEF Sound, InputOK, Taken, SameInput
    <2>6. OutputOK(e, w)
      BY <2>2 DEF Sound, OutputOK, SameSent, isok
    <2>7. Sound(e, w)
      BY <2>2, <2>3, <2>4, <2>5, <2>6 DEF Sound
    <2>8. After(e, t, w)
      BY <2>1, <2>2, <2>7, CloseSound
    <2> QED BY <2>2, <2>8 DEF After, Kept, SameInput
  <1> QED BY <1>1, <1>2

\* and seterr(0), which only closes it.
LEMMA EndOfFileSound ==
    ASSUME NEW w \in BOOLEAN, NEW s, Sound(s, w), ~s.is_flushing, NEW t \in EndOfFile(s)
    PROVE  Kept(s, t, w)
  <1>1. CASE s.err
    BY <1>1 DEF EndOfFile, Kept, SameInput
  <1>2. CASE ~s.err
    BY <1>2, CloseSound DEF EndOfFile, After, Kept
  <1> QED BY <1>1, <1>2

\* maybe_autoclose() from outside a flush.
LEMMA AutocloseSound ==
    ASSUME NEW w \in BOOLEAN, NEW s, Sound(s, w), ~s.is_flushing, NEW t \in Autoclose(s)
    PROVE  Kept(s, t, w)
  <1> DEFINE d == ShutDown(s)
  <1>1. After(s, d, w)
    BY ShutDownSound
  <1>2. CASE ~ReturnsEarly(s) /\ AutocloseDue(d)
    <2>1. t \in Close(d)
      BY <1>2 DEF Autoclose
    <2>2. After(d, t, w)
      BY <1>1, <2>1, CloseSound DEF After
    <2> QED BY <1>1, <2>2, AfterTransitive DEF After, Kept
  <1>3. CASE ~(~ReturnsEarly(s) /\ AutocloseDue(d))
    <2>1. t = d
      BY <1>3 DEF Autoclose
    <2> QED BY <1>1, <2>1 DEF After, Kept
  <1> QED BY <1>2, <1>3

\* Such methods in a row.
LEMMA KeptTransitive ==
    ASSUME NEW w \in BOOLEAN, NEW s, NEW t, NEW u, Kept(s, t, w), Kept(t, u, w)
    PROVE  Kept(s, u, w)
  BY DEF Kept, SameInput

\* flush_outbuf(0) from write() and post_select(), with the closes inside it that flush
\* in their turn.
LEMMA FlushOutbufSound ==
    ASSUME NEW w \in BOOLEAN, NEW s, Sound(s, w), ~s.is_flushing, NEW t \in FlushOutbuf(s)
    PROVE  Kept(s, t, w)
  <1>1. CASE NothingToFlush(s)
    BY <1>1, AutocloseSound DEF FlushOutbuf
  <1>2. CASE ~NothingToFlush(s)
    <2> DEFINE last(o, t1) == UNION {Autoclose(Settle(t2, o[2])) :
                   t2 \in IF TimeToClose(t1) THEN Close(TimerFires(t1)) ELSE {t1}}
               middle(o) == UNION {last(o, t1) :
                   t1 \in IF FailedNow(s, o[1]) THEN Close(o[1]) ELSE {o[1]}}
    <2>0. t \in UNION {middle(o) : o \in EnterLoop(s, FALSE)}
      BY <1>2 DEF FlushOutbuf
    <2> HIDE DEF middle
    <2>1. PICK o \in EnterLoop(s, FALSE) : t \in middle(o)
      BY <2>0
    <2> HIDE DEF last
    <2>2. PICK t1 \in IF FailedNow(s, o[1]) THEN Close(o[1]) ELSE {o[1]} : t \in last(o, t1)
      BY <2>1 DEF middle
    <2>3. PICK t2 \in IF TimeToClose(t1) THEN Close(TimerFires(t1)) ELSE {t1} :
                   t \in Autoclose(Settle(t2, o[2]))
      BY <2>2 DEF last
    <2>4. Flushed(s, o, FALSE, w)
      BY EnterLoopSound
    <2>5. Kept(s, o[1], w) /\ o[2] \in BOOLEAN
      BY <2>4 DEF Flushed, After, Kept
    <2>6. Kept(s, t1, w)
      <3>1. CASE FailedNow(s, o[1])
        <4>1. After(o[1], t1, w)
          BY <2>2, <2>5, <3>1, CloseSound DEF Kept
        <4> QED BY <2>5, <4>1 DEF After, Kept, SameInput
      <3>2. CASE ~FailedNow(s, o[1])
        BY <2>2, <2>5, <3>2
      <3> QED BY <3>1, <3>2
    <2>7. Kept(t1, t2, w)
      <3>1. CASE TimeToClose(t1)
        <4>1. ~t1.closed
          BY <3>1 DEF TimeToClose, isok
        <4>2. After(t1, TimerFires(t1), w)
          BY <2>6, <4>1, TimerFiresSound DEF Kept
        <4>3. After(TimerFires(t1), t2, w)
          BY <2>3, <2>6, <3>1, <4>2, CloseSound DEF After, Kept
        <4> QED BY <2>6, <4>2, <4>3, AfterTransitive DEF After, Kept
      <3>2. CASE ~TimeToClose(t1)
        BY <2>3, <2>6, <3>2 DEF Kept, SameInput
      <3> QED BY <3>1, <3>2
    <2>8. Kept(t2, Settle(t2, o[2]), w)
      BY <2>5, <2>7, SettleSound DEF After, Kept
    <2>9. Kept(Settle(t2, o[2]), t, w)
      BY <2>3, <2>8, AutocloseSound DEF Kept
    <2> QED BY <2>6, <2>7, <2>8, <2>9, KeptTransitive
  <1> QED BY <1>1, <1>2

\* The last lines of write().
LEMMA AfterWriteSound ==
    ASSUME NEW w \in BOOLEAN, NEW s, Sound(s, w), ~s.is_flushing, NEW t \in AfterWrite(s)
    PROVE  Kept(s, t, w)
  <1>1. CASE ~s.want_to_flush
    BY <1>1 DEF AfterWrite, Kept, SameInput
  <1>2. CASE s.want_to_flush /\ s.is_auto_flush
    <2>1. PICK r \in Flush(s, FALSE) : t = r.st
      BY <1>2 DEF AfterWrite
    <2>2. FlushResult(s, r, FALSE, w)
      BY FlushSound
    <2> QED BY <2>1, <2>2 DEF FlushResult, After, Kept
  <1>3. CASE s.want_to_flush /\ ~s.is_auto_flush
    BY <1>3, FlushOutbufSound DEF AfterWrite
  <1> QED BY <1>1, <1>2, <1>3

-----------------------------------------------------------------------------
\* New bytes are numbered after all that were accepted before, so it is in order to
\* append them to the outbuf, or to pass them by an empty one to the kernel.
LEMMA AcceptedSound ==
    ASSUME NEW w \in BOOLEAN, NEW s, Sound(s, w), NEW t, t \in Stream, NEW k \in Nat,
           SameFds(s, t), SameCallbacks(s, t), SameInput(s, t),
           t.err = s.err, t.timedout = s.timedout, t.stop_write = s.stop_write,
           (isok(s) /\ ~s.stop_write) \/ s.err,
           t.accepted = s.accepted + k,
           \/ t.sent = s.sent /\ t.outbuf = s.outbuf \o Count(s.accepted, k)
           \/ isok(s) /\ s.wfd # NoFd /\ s.outbuf = << >> /\ t.outbuf = << >>
              /\ t.sent = s.sent \o Count(s.accepted, k)
    PROVE  Sound(t, w)
  <1>t. s.outbuf \in Seq(Nat) /\ s.sent \in Seq(Nat) /\ s.accepted \in Nat /\ t.accepted \in Nat
    BY DEF Sound, Stream
  <1>1. FdsOK(t)
    BY DEF Sound, FdsOK, SameFds
  <1>2. CallbacksOK(t)
    BY DEF Sound, CallbacksOK, SameFds, SameCallbacks
  <1>3. InputOK(t)
    BY DEF Sound, InputOK, Taken, SameInput
  <1>4. isok(t) <=> isok(s)
    BY DEF isok, SameFds
  <1>5. /\ Count(s.accepted, k) \in Seq(Nat) /\ Len(Count(s.accepted, k)) = k
        /\ Counts(Count(s.accepted, k), s.accepted)
    BY <1>t, CountCounts
  <1>6. /\ Counts(s.sent, 0) /\ Len(s.sent) <= s.accepted
        /\ isok(s) => Counts(s.outbuf, Len(s.sent)) /\ Len(s.sent) + Len(s.outbuf) = s.accepted
    BY DEF Sound, OutputOK, Complete
  <1>n. Len(s.sent) \in Nat /\ Len(s.outbuf) \in Nat
    BY <1>t
  <1>7. PICK a \in Nat, b \in Nat, c \in Nat : Len(s.sent) = a /\ Len(s.outbuf) = b /\ s.accepted = c
    BY <1>t, <1>n
  <1>8. CASE isok(s) /\ t.sent = s.sent /\ t.outbuf = s.outbuf \o Count(s.accepted, k)
    <2>1. Counts(s.outbuf, a) /\ a + b = c /\ a + Len(s.outbuf) = s.accepted
      BY <1>6, <1>7, <1>8
    <2>c. Counts(Count(s.accepted, k), a + Len(s.outbuf))
      BY <1>5, <2>1
    <2>d. LET q == s.outbuf \o Count(s.accepted, k)
          IN  Counts(q, a) /\ Len(q) = Len(s.outbuf) + Len(Count(s.accepted, k))
      BY <1>t, <1>5, <2>1, <2>c, Join
    <2>2. Counts(t.outbuf, a) /\ Len(t.outbuf) = b + k
      BY <1>5, <1>7, <1>8, <2>d
    <2>e. Len(t.sent) = a /\ t.accepted = c + k
      BY <1>7, <1>8
    <2>f. a <= c + k /\ a + (b + k) = c + k
      BY <2>1
    <2>g. Counts(t.sent, 0)
      BY <1>6, <1>8
    <2>h. Len(t.sent) <= t.accepted
      BY <2>e, <2>f
    <2>i. Counts(t.outbuf, Len(t.sent))
      BY <2>2, <2>e
    <2>j. Complete(t)
      BY <2>2, <2>e, <2>f DEF Complete
    <2>3. Counts(t.sent, 0) /\ Len(t.sent) <= t.accepted /\ Counts(t.outbuf, Len(t.sent)) /\ Complete(t)
      BY <2>g, <2>h, <2>i, <2>j
    <2>4. ~t.closed /\ (w => s.wfd # NoFd)
      BY <1>4, <1>8 DEF Sound, OutputOK, isok
    <2>5. OutputOK(t, w)
      BY <2>3, <2>4 DEF OutputOK, SameFds
    <2> QED BY <1>1, <1>2, <1>3, <2>5 DEF Sound
  <1>9. CASE isok(s) /\ s.wfd # NoFd /\ s.outbuf = << >> /\ t.outbuf = << >>
             /\ t.sent = s.sent \o Count(s.accepted, k)
    <2>1. b = 0 /\ a = c
      BY <1>6, <1>7, <1>9
    <2>2. 0 + Len(s.sent) = s.accepted
      BY <1>7, <2>1
    <2>c. Counts(Count(s.accepted, k), 0 + Len(s.sent))
      BY <1>5, <2>2
    <2>d. LET q == s.sent \o Count(s.accepted, k)
          IN  Counts(q, 0) /\ Len(q) = Len(s.sent) + Len(Count(s.accepted, k))
      BY <1>t, <1>5, <1>6, <2>c, Join
    <2>3. Counts(t.sent, 0) /\ Len(t.sent) = Len(s.sent) + Len(Count(s.accepted, k))
      BY <1>9, <2>d
    <2>4. Len(t.sent) = c + k
      BY <1>5, <1>7, <2>1, <2>3
    <2>5. Len(t.sent) <= t.accepted /\ Complete(t) /\ Counts(t.outbuf, Len(t.sent))
      BY <1>7, <1>9, <2>4 DEF Complete, Counts
    <2>6. ~t.closed /\ t.wfd # NoFd
      BY <1>4, <1>9 DEF isok, SameFds
    <2>7. OutputOK(t, w)
      BY <2>3, <2>5, <2>6 DEF OutputOK
    <2> QED BY <1>1, <1>2, <1>3, <2>7 DEF Sound
  <1>10. CASE s.err /\ t.sent = s.sent
    <2>1. ~isok(t) /\ t.err
      BY <1>10 DEF isok
    <2>2. Counts(t.sent, 0) /\ Len(t.sent) <= t.accepted
      BY <1>6, <1>7, <1>10
    <2>3. OutputOK(t, w)
      BY <2>1, <2>2 DEF OutputOK
    <2> QED BY <1>1, <1>2, <1>3, <2>3 DEF Sound
  <1> QED BY <1>8, <1>9, <1>10

\* A stream that write() goes on with: it is ok, or uwrite() has just failed.
Writable(s) == (isok(s) /\ ~s.stop_write) \/ s.err

\* uwrite() that bypasses an empty outbuf.
LEMMA DirectWriteSound ==
    ASSUME NEW w \in BOOLEAN, NEW s, Sound(s, w), ~s.is_flushing, isok(s), ~s.stop_write,
           s.outbuf = << >>, NEW n \in Nat, NEW d \in DirectWrite(s, n)
    PROVE  Kept(s, d[1], w) /\ Writable(d[1]) /\ d[2] \in 0..n
  <1>1. CASE \E k \in 0..n : s.wfd # NoFd
                 /\ d = <<[s EXCEPT !.sent = @ \o Count(s.accepted, k), !.accepted = @ + k], k>>
    <2>1. PICK k \in 0..n : s.wfd # NoFd
                 /\ d = <<[s EXCEPT !.sent = @ \o Count(s.accepted, k), !.accepted = @ + k], k>>
      BY <1>1
    <2> DEFINE q == s.sent \o Count(s.accepted, k)
               t == [s EXCEPT !.sent = q, !.accepted = s.accepted + k]
    <2>2. s.accepted + k \in Nat /\ s.accepted \in Nat /\ s.sent \in Seq(Nat)
      BY DEF Sound, Stream
    <2>3. q \in Seq(Nat)
      BY <2>2, CountCounts, ConcatProperties
    <2> HIDE DEF q
    <2>4. /\ t \in Stream /\ SameFds(s, t) /\ SameCallbacks(s, t) /\ SameInput(s, t)
          /\ t.err = s.err /\ t.timedout = s.timedout /\ t.stop_write = s.stop_write
          /\ t.accepted = s.accepted + k /\ t.sent = q /\ t.outbuf = s.outbuf
          /\ t.is_flushing = s.is_flushing
      BY <2>2, <2>3 DEF Sound, Stream, SameFds, SameCallbacks, SameInput
    <2>5. d[1] = t /\ d[2] = k
      BY <2>1 DEF q
    <2> HIDE DEF t
    <2>a. k \in Nat /\ t.outbuf = << >> /\ t.sent = s.sent \o Count(s.accepted, k)
      BY <2>4 DEF q
    <2>6. Sound(t, w)
      BY <2>1, <2>4, <2>a, AcceptedSound
    <2> QED BY <2>4, <2>5, <2>6 DEF Kept, Writable, isok, SameFds
  <1>2. CASE \E t \in SetError(s) : d = <<t, 0>>
    BY <1>2, SetErrorSound DEF Writable
  <1> QED BY <1>1, <1>2 DEF DirectWrite

\* What write() keeps for later, at most canbuffer bytes, which is a size_t.
LEMMA BufferedSound ==
    ASSUME NEW w \in BOOLEAN, NEW s, Sound(s, w), ~s.is_flushing, Writable(s), NEW n \in Nat
    PROVE  Kept(s, Buffered(s, n), w)
  <1> DEFINE can == (s.max_outbuf_size - Len(s.outbuf)) % SizeMod
             m == IF s.max_outbuf_size = 0 THEN n ELSE Smaller(n, can)
             q == s.outbuf \o Count(s.accepted, m)
             t == [s EXCEPT !.outbuf = q, !.accepted = s.accepted + m]
  <1>t. s.outbuf \in Seq(Nat) /\ s.accepted \in Nat /\ s.max_outbuf_size \in Nat
    BY DEF Sound, Stream
  <1>1. m \in Nat
    <2>1. PICK a \in Nat, b \in Nat, d \in Nat \ {0} :
             Len(s.outbuf) = a /\ s.max_outbuf_size = b /\ SizeMod = d
      BY <1>t, BoundsAssumption
    <2>2. (b - a) % d \in Nat
      OBVIOUS
    <2>3. can \in Nat
      BY <2>1, <2>2
    <2> HIDE DEF can
    <2> QED BY <2>3 DEF Smaller
  <1>2. Buffered(s, n) = t
    BY DEF Buffered
  <1> HIDE DEF m
  <1>b. s.accepted + m \in Nat
    BY <1>t, <1>1
  <1>c. Count(s.accepted, m) \in Seq(Nat)
    BY <1>t, <1>1, CountCounts
  <1>3. q \in Seq(Nat) /\ s.accepted + m \in Nat
    BY <1>t, <1>b, <1>c, ConcatProperties
  <1> HIDE DEF q
  <1>4. /\ t \in Stream /\ SameFds(s, t) /\ SameCallbacks(s, t) /\ SameInput(s, t)
        /\ t.err = s.err /\ t.timedout = s.timedout /\ t.stop_write = s.stop_write
        /\ t.accepted = s.accepted + m /\ t.sent = s.sent /\ t.outbuf = q
        /\ t.is_flushing = s.is_flushing
    BY <1>3 DEF Sound, Stream, SameFds, SameCallbacks, SameInput
  <1> HIDE DEF t
  <1>5. Sound(t, w)
    BY <1>1, <1>4, AcceptedSound DEF q, Writable
  <1> QED BY <1>2, <1>4, <1>5 DEF Kept

\* write(): directly, then into the outbuf, then the flush.
LEMMA WriteSound ==
    ASSUME NEW w \in BOOLEAN, NEW s, Sound(s, w), ~s.is_flushing, NEW n \in Nat,
           NEW t \in WriteResults(s, n)
    PROVE  Kept(s, t, w)
  <1>1. CASE ~isok(s) \/ s.stop_write
    BY <1>1 DEF WriteResults, Kept, SameInput
  <1>2. CASE isok(s) /\ ~s.stop_write
    <2> DEFINE direct == IF ~s.outbuf_delayed_flush /\ s.outbuf = << >>
                         THEN DirectWrite(s, n) ELSE {<<s, 0>>}
    <2>1. PICK d \in direct : t \in AfterWrite(Buffered(d[1], n - d[2]))
      BY <1>2 DEF WriteResults
    <2>2. Kept(s, d[1], w) /\ Writable(d[1]) /\ d[2] \in 0..n
      <3>1. CASE d \in DirectWrite(s, n) /\ s.outbuf = << >>
        BY <1>2, <3>1, DirectWriteSound
      <3>2. CASE d = <<s, 0>>
        BY <1>2, <3>2 DEF Kept, Writable, SameInput
      <3> QED BY <2>1, <3>1, <3>2
    <2>3. n - d[2] \in Nat
      BY <2>2
    <2>4. Kept(d[1], Buffered(d[1], n - d[2]), w)
      BY <2>2, <2>3, BufferedSound DEF Kept
    <2>5. Kept(Buffered(d[1], n - d[2]), t, w)
      BY <2>1, <2>4, AfterWriteSound DEF Kept
    <2> QED BY <2>2, <2>4, <2>5, KeptTransitive
  <1> QED BY <1>1, <1>2

-----------------------------------------------------------------------------
\* A stream between two calls: no flush is under way.
Idle(s, w) == Sound(s, w) /\ ~s.is_flushing

\* Methods that change only what was received.
LEMMA InputChangedSound ==
    ASSUME NEW w \in BOOLEAN, NEW s, NEW t, Idle(s, w), t \in Stream, InputOK(t),
           SameFds(s, t), SameCallbacks(s, t), SameOutput(s, t), t.is_flushing = s.is_flushing
    PROVE  Idle(t, w)
  <1>1. FdsOK(t)
    BY DEF Idle, Sound, FdsOK, SameFds
  <1>2. CallbacksOK(t)
    BY DEF Idle, Sound, CallbacksOK, SameFds, SameCallbacks
  <1>3. isok(t) <=> isok(s)
    BY DEF isok, SameFds, SameOutput
  <1>4. OutputOK(t, w)
    BY <1>3 DEF Idle, Sound, OutputOK, SameOutput, SameSent, SameFds, Complete
  <1> QED BY <1>1, <1>2, <1>4 DEF Idle, Sound

\* What uread() gives: a stream, and a number of bytes that the kernel does hold.
ReadResult(s, r, w) ==
    Kept(s, r[1], w) /\ r[2] \in Nat /\ Taken(s) + r[2] <= s.arrived

\* uread(), with its error and end of file.
LEMMA UreadSound ==
    ASSUME NEW w \in BOOLEAN, NEW s, Idle(s, w), NEW n \in Nat, NEW r \in Uread(s, n)
    PROVE  ReadResult(s, r, w)
  <1>t. s.got \in Seq(Nat) /\ s.inbuf \in Seq(Nat) /\ s.arrived \in Nat
    BY DEF Idle, Sound, Stream
  <1>n. Taken(s) \in Nat /\ Taken(s) <= s.arrived
    <2>1. PICK a \in Nat, b \in Nat : Len(s.got) = a /\ Len(s.inbuf) = b
      BY <1>t
    <2>2. Taken(s) = a + b
      BY <2>1 DEF Taken
    <2>3. Taken(s) <= s.arrived
      BY DEF Idle, Sound, InputOK
    <2> QED BY <2>2, <2>3
  <1>0. Kept(s, s, w)
    BY DEF Idle, Kept, SameInput
  <1>1. CASE r = <<s, 0>>
    BY <1>0, <1>1, <1>n, <1>t DEF ReadResult
  <1>2. CASE \E t \in SetError(s) : r = <<t, 0>>
    <2>1. PICK t \in SetError(s) : r = <<t, 0>>
      BY <1>2
    <2>2. Kept(s, t, w)
      BY SetErrorSound DEF Idle
    <2> QED BY <2>1, <2>2, <1>n, <1>t DEF ReadResult
  <1>3. CASE \E t \in EndOfFile(s) : r = <<t, 0>>
    <2>1. PICK t \in EndOfFile(s) : r = <<t, 0>>
      BY <1>3
    <2>2. Kept(s, t, w)
      BY EndOfFileSound DEF Idle
    <2> QED BY <2>1, <2>2, <1>n, <1>t DEF ReadResult
  <1>4. CASE \E k \in 1..Smaller(n, Available(s)) : r = <<s, k>>
    <2>1. PICK k \in 1..Smaller(n, Available(s)) : r = <<s, k>>
      BY <1>4
    <2>2. PICK a \in Nat, b \in Nat : Taken(s) = a /\ s.arrived = b
      BY <1>t, <1>n
    <2>3. k \in Nat /\ a + k <= b
      BY <2>2 DEF Smaller, Available
    <2> QED BY <1>0, <2>1, <2>2, <2>3 DEF ReadResult
  <1> QED
    BY <1>1, <1>2, <1>3, <1>4 DEF Uread

\* Reading ahead into the inbuf,
LEMMA IntoInbufSound ==
    ASSUME NEW w \in BOOLEAN, NEW s, Idle(s, w), NEW k \in Nat, Taken(s) + k <= s.arrived
    PROVE  Idle(IntoInbuf(s, k), w)
  <1> DEFINE q == s.inbuf \o Count(Taken(s), k)
             t == [s EXCEPT !.inbuf = q]
  <1>t. s.got \in Seq(Nat) /\ s.inbuf \in Seq(Nat) /\ s.arrived \in Nat /\ s \in Stream
    BY DEF Idle, Sound, Stream
  <1>n. Len(s.got) \in Nat /\ Len(s.inbuf) \in Nat /\ Taken(s) \in Nat /\ Taken(s) = Len(s.got) + Len(s.inbuf)
    <2>1. PICK a \in Nat, b \in Nat : Len(s.got) = a /\ Len(s.inbuf) = b
      BY <1>t
    <2>2. Taken(s) = Len(s.got) + Len(s.inbuf)
      BY DEF Taken
    <2> QED BY <2>1, <2>2
  <1>i. Counts(s.got, 0) /\ Counts(s.inbuf, Len(s.got))
    BY DEF Idle, Sound, InputOK
  <1>1. /\ Count(Taken(s), k) \in Seq(Nat) /\ Len(Count(Taken(s), k)) = k
        /\ Counts(Count(Taken(s), k), Len(s.got) + Len(s.inbuf))
    BY <1>n, CountCounts
  <1>2. q \in Seq(Nat) /\ Len(q) = Len(s.inbuf) + Len(Count(Taken(s), k)) /\ Counts(q, Len(s.got))
    BY <1>t, <1>n, <1>i, <1>1, Join
  <1>0. IntoInbuf(s, k) = t
    BY DEF IntoInbuf
  <1> HIDE DEF q
  <1>3. /\ t \in Stream /\ t.inbuf = q /\ t.got = s.got /\ t.arrived = s.arrived
        /\ SameFds(s, t) /\ SameCallbacks(s, t) /\ SameOutput(s, t) /\ t.is_flushing = s.is_flushing
    BY <1>t, <1>2 DEF Stream, SameFds, SameCallbacks, SameOutput, SameSent
  <1> HIDE DEF t
  <1>4. Taken(t) <= t.arrived
    <2>1. PICK a \in Nat, b \in Nat : Len(s.got) = a /\ Len(s.inbuf) = b
      BY <1>n
    <2>2. Taken(t) = a + (b + k) /\ Taken(s) = a + b
      BY <1>1, <1>2, <1>3, <2>1 DEF Taken
    <2> QED BY <1>3, <2>2
  <1>5. InputOK(t)
    BY <1>i, <1>2, <1>3, <1>4 DEF InputOK
  <1> QED BY <1>0, <1>3, <1>5, InputChangedSound

\* giving the program what is there,
LEMMA DeliverSound ==
    ASSUME NEW w \in BOOLEAN, NEW s, Idle(s, w), NEW k \in 0..Len(s.inbuf)
    PROVE  Idle(Deliver(s, k), w)
  <1> DEFINE g == s.got \o FirstOf(s.inbuf, k)
             q == DropFirst(s.inbuf, k)
             t == [s EXCEPT !.got = g, !.inbuf = q]
  <1>t. s.got \in Seq(Nat) /\ s.inbuf \in Seq(Nat) /\ s.arrived \in Nat /\ s \in Stream
    BY DEF Idle, Sound, Stream
  <1>n. PICK a \in Nat, b \in Nat : Len(s.got) = a /\ Len(s.inbuf) = b
    BY <1>t
  <1>i. Counts(s.got, 0) /\ Counts(s.inbuf, a) /\ a + b <= s.arrived
    BY <1>n DEF Idle, Sound, InputOK, Taken
  <1>0. Deliver(s, k) = t
    BY DEF Deliver
  <1>1. /\ FirstOf(s.inbuf, k) \in Seq(Nat) /\ Len(FirstOf(s.inbuf, k)) = k
        /\ q \in Seq(Nat) /\ Len(q) = Len(s.inbuf) - k
        /\ Counts(FirstOf(s.inbuf, k), a) /\ Counts(q, a + k)
    BY <1>t, <1>i, Split
  <1>2. Counts(FirstOf(s.inbuf, k), 0 + Len(s.got))
    BY <1>n, <1>1
  <1>3. g \in Seq(Nat) /\ Len(g) = Len(s.got) + Len(FirstOf(s.inbuf, k)) /\ Counts(g, 0)
    BY <1>t, <1>i, <1>1, <1>2, Join
  <1> HIDE DEF g, q
  <1>4. /\ t \in Stream /\ t.inbuf = q /\ t.got = g /\ t.arrived = s.arrived
        /\ SameFds(s, t) /\ SameCallbacks(s, t) /\ SameOutput(s, t) /\ t.is_flushing = s.is_flushing
    BY <1>t, <1>1, <1>3 DEF Stream, SameFds, SameCallbacks, SameOutput, SameSent
  <1> HIDE DEF t
  <1>5. k \in 0..b /\ Len(t.got) = a + k /\ Len(t.inbuf) = b - k
    BY <1>n, <1>1, <1>3, <1>4
  <1>6. Taken(t) <= t.arrived
    BY <1>i, <1>t, <1>4, <1>5 DEF Taken
  <1>7. InputOK(t)
    BY <1>1, <1>3, <1>4, <1>5, <1>6 DEF InputOK
  <1> QED BY <1>0, <1>4, <1>7, InputChangedSound

\* and taking back what it was given.
LEMMA UnreadSound ==
    ASSUME NEW w \in BOOLEAN, NEW s, Idle(s, w), NEW g \in 0..Len(s.got)
    PROVE  Idle([s EXCEPT !.got = FirstOf(@, g), !.inbuf = DropFirst(s.got, g) \o @], w)
  <1> DEFINE p == FirstOf(s.got, g)
             d == DropFirst(s.got, g)
             q == d \o s.inbuf
             t == [s EXCEPT !.got = p, !.inbuf = q]
  <1>t. s.got \in Seq(Nat) /\ s.inbuf \in Seq(Nat) /\ s.arrived \in Nat /\ s \in Stream
    BY DEF Idle, Sound, Stream
  <1>n. PICK a \in Nat, b \in Nat : Len(s.got) = a /\ Len(s.inbuf) = b
    BY <1>t
  <1>i. Counts(s.got, 0) /\ Counts(s.inbuf, a) /\ a + b <= s.arrived
    BY <1>n DEF Idle, Sound, InputOK, Taken
  <1>1. /\ p \in Seq(Nat) /\ Len(p) = g
        /\ d \in Seq(Nat) /\ Len(d) = Len(s.got) - g
        /\ Counts(p, 0) /\ Counts(d, 0 + g)
    BY <1>t, <1>i, Split
  <1> HIDE DEF p, d
  <1>g. g \in 0..a /\ g \in Nat /\ Len(d) = a - g
    BY <1>n, <1>1
  <1>2. Counts(d, g) /\ Counts(s.inbuf, g + Len(d))
    <2>1. 0 + g = g /\ g + Len(d) = a
      BY <1>g
    <2> QED BY <1>1, <1>i, <2>1
  <1>3. q \in Seq(Nat) /\ Len(q) = Len(d) + Len(s.inbuf) /\ Counts(q, g)
    BY <1>t, <1>1, <1>g, <1>2, Join
  <1> HIDE DEF q
  <1>4. /\ t \in Stream /\ t.inbuf = q /\ t.got = p /\ t.arrived = s.arrived
        /\ SameFds(s, t) /\ SameCallbacks(s, t) /\ SameOutput(s, t) /\ t.is_flushing = s.is_flushing
    BY <1>t, <1>1, <1>3 DEF Stream, SameFds, SameCallbacks, SameOutput, SameSent
  <1>0. [s EXCEPT !.got = FirstOf(@, g), !.inbuf = DropFirst(s.got, g) \o @] = t
    BY DEF p, d, q
  <1> HIDE DEF t
  <1>5. Len(t.got) = g /\ Len(t.inbuf) = (a - g) + b
    BY <1>n, <1>1, <1>g, <1>3, <1>4
  <1>6. Taken(t) <= t.arrived
    BY <1>i, <1>t, <1>g, <1>4, <1>5 DEF Taken
  <1>7. InputOK(t)
    BY <1>1, <1>3, <1>4, <1>5, <1>6 DEF InputOK
  <1> QED BY <1>0, <1>4, <1>7, InputChangedSound

\* read(): it first fills the inbuf up to queue_min,
LEMMA TopUpSound ==
    ASSUME NEW w \in BOOLEAN, NEW s, Idle(s, w), NEW t \in TopUp(s)
    PROVE  Idle(t, w)
  <1>t. s.queue_min \in Nat /\ s.inbuf \in Seq(Nat)
    BY DEF Idle, Sound, Stream
  <1>1. CASE Len(s.inbuf) >= s.queue_min
    BY <1>1 DEF TopUp
  <1>2. CASE ~(Len(s.inbuf) >= s.queue_min)
    <2>1. PICK r \in Uread(s, s.queue_min - Len(s.inbuf)) : t = IntoInbuf(r[1], r[2])
      BY <1>2 DEF TopUp
    <2>2. s.queue_min - Len(s.inbuf) \in Nat
      <3>1. PICK a \in Nat, b \in Nat : s.queue_min = a /\ Len(s.inbuf) = b
        BY <1>t
      <3> QED BY <1>2, <3>1
    <2>3. ReadResult(s, r, w)
      BY <2>1, <2>2, UreadSound
    <2>4. Idle(r[1], w) /\ r[2] \in Nat /\ Taken(r[1]) + r[2] <= r[1].arrived
      BY <2>3 DEF ReadResult, Kept, Idle, SameInput, Taken
    <2> QED BY <2>1, <2>4, IntoInbufSound
  <1> QED BY <1>1, <1>2

\* then takes from it, or from the kernel when it is empty,
LEMMA TakeBytesSound ==
    ASSUME NEW w \in BOOLEAN, NEW s, Idle(s, w), NEW n \in Nat, NEW t \in TakeBytes(s, n)
    PROVE  Idle(t, w)
  <1>t. s.inbuf \in Seq(Nat) /\ Len(s.inbuf) \in Nat
    BY DEF Idle, Sound, Stream
  <1>1. CASE Len(s.inbuf) < s.queue_min
    BY <1>1 DEF TakeBytes
  <1>2. CASE ~(Len(s.inbuf) < s.queue_min) /\ s.inbuf # << >>
    <2>1. t = Deliver(s, Smaller(n, Len(s.inbuf)))
      BY <1>2 DEF TakeBytes
    <2>2. Smaller(n, Len(s.inbuf)) \in 0..Len(s.inbuf)
      BY <1>t DEF Smaller
    <2> QED BY <2>1, <2>2, DeliverSound
  <1>3. CASE ~(Len(s.inbuf) < s.queue_min) /\ s.inbuf = << >>
    <2>1. PICK r \in Uread(s, n) : t = [r[1] EXCEPT !.got = @ \o Count(Taken(s), r[2])]
      BY <1>3 DEF TakeBytes
    <2> DEFINE u == r[1]
               k == r[2]
               g == u.got \o Count(Taken(s), k)
               v == [u EXCEPT !.got = g]
    <2>2. ReadResult(s, r, w)
      BY <2>1, UreadSound
    <2>3. Idle(u, w) /\ k \in Nat /\ Taken(s) + k <= u.arrived /\ u.inbuf = << >> /\ Taken(s) = Taken(u)
      BY <1>3, <2>2 DEF ReadResult, Kept, Idle, SameInput, Taken
    <2>4. u \in Stream /\ u.got \in Seq(Nat) /\ u.arrived \in Nat
      BY <2>3 DEF Idle, Sound, Stream
    <2>5. PICK a \in Nat : Len(u.got) = a
      BY <2>4
    <2>b. Len(u.inbuf) = 0
      BY <2>3
    <2>6. Taken(s) = a /\ Counts(u.got, 0)
      <3>1. Taken(u) = Len(u.got) + Len(u.inbuf)
        BY DEF Taken
      <3> HIDE DEF u
      <3>2. Taken(u) = a
        BY <2>5, <2>b, <3>1
      <3> QED BY <2>3, <3>2 DEF Idle, Sound, InputOK
    <2> HIDE DEF u, k
    <2>7. Count(a, k) \in Seq(Nat) /\ Len(Count(a, k)) = k /\ Counts(Count(a, k), a)
      BY <2>3, CountCounts
    <2>8. g = u.got \o Count(a, k) /\ Counts(Count(a, k), 0 + Len(u.got))
      BY <2>5, <2>6, <2>7
    <2>9. g \in Seq(Nat) /\ Len(g) = Len(u.got) + Len(Count(a, k)) /\ Counts(g, 0)
      BY <2>4, <2>6, <2>7, <2>8, Join
    <2> HIDE DEF g
    <2>10. /\ v \in Stream /\ v.got = g /\ v.inbuf = u.inbuf /\ v.arrived = u.arrived
           /\ SameFds(u, v) /\ SameCallbacks(u, v) /\ SameOutput(u, v) /\ v.is_flushing = u.is_flushing
      BY <2>4, <2>9 DEF Stream, SameFds, SameCallbacks, SameOutput, SameSent
    <2>11. t = v
      BY <2>1 DEF u, k, g
    <2> HIDE DEF v
    <2>12. Taken(v) <= v.arrived
      <3>1. Len(v.got) = a + k /\ Len(v.inbuf) = 0
        BY <2>b, <2>5, <2>7, <2>9, <2>10
      <3>2. Taken(v) = a + k
        BY <2>3, <3>1 DEF Taken
      <3> QED BY <2>3, <2>6, <2>10, <3>2
    <2>13. InputOK(v)
      BY <2>3, <2>9, <2>10, <2>12 DEF InputOK, Counts
    <2> QED BY <2>3, <2>10, <2>11, <2>13, InputChangedSound
  <1> QED BY <1>1, <1>2, <1>3

\* and then may close.
LEMMA ReadSound ==
    ASSUME NEW w \in BOOLEAN, NEW s, Idle(s, w), NEW n \in Nat, NEW t \in ReadResults(s, n)
    PROVE  Idle(t, w)
  <1> DEFINE rest(x) == UNION {Autoclose(u) : u \in TakeBytes(x, n)}
  <1>0. t \in UNION {rest(x) : x \in TopUp(s)}
    BY DEF ReadResults
  <1> HIDE DEF rest
  <1>1. PICK x \in TopUp(s) : t \in rest(x)
    BY <1>0
  <1>2. PICK u \in TakeBytes(x, n) : t \in Autoclose(u)
    BY <1>1 DEF rest
  <1>3. Idle(x, w)
    BY TopUpSound
  <1>4. Idle(u, w)
    BY <1>3, TakeBytesSound
  <1> QED BY <1>2, <1>4, AutocloseSound DEF Idle, Kept

-----------------------------------------------------------------------------
\* post_select(): the flush, and flush_outbuf() for a writable descriptor,
LEMMA PostSelectSound ==
    ASSUME NEW w \in BOOLEAN, NEW s, Idle(s, w), NEW rd, NEW fr, NEW fw,
           NEW r \in PostSelect(s, rd, fr, fw)
    PROVE  Kept(s, r.st, w)
  <1> DEFINE after(u) == IF FlushFromSelect(u, fw)
           THEN {[st |-> v, sure |-> BufferReady(u, rd) \/ (isok(v) /\ FdReady(v, fr, fw))] :
                    v \in FlushOutbuf(u)}
           ELSE {[st |-> u, sure |-> BufferReady(u, rd) \/ FdReady(u, fr, fw)]}
             first == IF s.want_to_flush THEN {x.st : x \in Flush(s, FALSE)} ELSE {s}
  <1>0. r \in UNION {after(u) : u \in first}
    BY DEF PostSelect
  <1> HIDE DEF after, first
  <1>1. PICK u \in first : r \in after(u)
    BY <1>0
  <1>2. Kept(s, u, w)
    <2>1. CASE s.want_to_flush
      <3>1. PICK x \in Flush(s, FALSE) : u = x.st
        BY <1>1, <2>1 DEF first
      <3>2. FlushResult(s, x, FALSE, w)
        BY FlushSound DEF Idle
      <3> QED BY <3>1, <3>2 DEF FlushResult, After, Kept, Idle
    <2>2. CASE ~s.want_to_flush
      BY <1>1, <2>2 DEF first, Kept, Idle, SameInput
    <2> QED BY <2>1, <2>2
  <1>3. CASE FlushFromSelect(u, fw)
    <2>1. PICK v \in FlushOutbuf(u) : r.st = v
      BY <1>1, <1>3 DEF after
    <2>2. Kept(u, v, w)
      BY <1>2, FlushOutbufSound DEF Kept
    <2> QED BY <1>2, <2>1, <2>2, KeptTransitive
  <1>4. CASE ~FlushFromSelect(u, fw)
    BY <1>1, <1>2, <1>4 DEF after
  <1> QED BY <1>3, <1>4

\* after the maybe_autoclose() in pre_select().
LEMMA SelectSound ==
    ASSUME NEW w \in BOOLEAN, NEW s, Idle(s, w), NEW rd, NEW wr, NEW r \in SelectResults(s, rd, wr)
    PROVE  Kept(s, r.st, w)
  <1> DEFINE post(t, fw) == PostSelect(t, rd, rd /\ t.rfd # NoFd /\ (Available(t) > 0 \/ t.eof), fw)
             verdicts(t) == IF WantsWrite(t, wr) THEN BOOLEAN ELSE {FALSE}
             polled(t) == UNION {post(t, fw) : fw \in verdicts(t)}
  <1>0. r \in UNION {polled(t) : t \in Autoclose(s)}
    BY DEF SelectResults
  <1> HIDE DEF polled, post, verdicts
  <1>1. PICK t \in Autoclose(s) : r \in polled(t)
    BY <1>0
  <1>2. PICK fw \in verdicts(t) : r \in post(t, fw)
    BY <1>1 DEF polled
  <1>3. Kept(s, t, w)
    BY AutocloseSound DEF Idle
  <1>4. Kept(t, r.st, w)
    BY <1>2, <1>3, PostSelectSound DEF post, Kept, Idle
  <1> QED BY <1>3, <1>4, KeptTransitive

\* Calls that only set something,
LEMMA SettingSound ==
    ASSUME NEW w \in BOOLEAN, NEW s, NEW t, Idle(s, w), t \in Stream,
           SameFds(s, t), SameCallbacks(s, t), SameInput(s, t), SameOutput(s, t),
           t.is_flushing = s.is_flushing
    PROVE  Idle(t, w)
  BY UnchangedSound DEF Idle

\* nowrite(),
LEMMA StopWriteSound ==
    ASSUME NEW w \in BOOLEAN, NEW s, Idle(s, w)
    PROVE  Idle([s EXCEPT !.stop_write = TRUE], w)
  <1> DEFINE t == [s EXCEPT !.stop_write = TRUE]
  <1>1. /\ t \in Stream /\ SameFds(s, t) /\ SameCallbacks(s, t) /\ SameInput(s, t) /\ SameSent(s, t)
        /\ t.outbuf = s.outbuf /\ t.err = s.err /\ t.timedout = s.timedout /\ t.stop_write
        /\ t.is_flushing = s.is_flushing
    BY DEF Idle, Sound, Stream, SameFds, SameCallbacks, SameInput, SameSent
  <1> HIDE DEF t
  <1>2. FdsOK(t)
    BY <1>1 DEF Idle, Sound, FdsOK, SameFds
  <1>3. CallbacksOK(t)
    BY <1>1 DEF Idle, Sound, CallbacksOK, SameFds, SameCallbacks
  <1>4. InputOK(t)
    BY <1>1 DEF Idle, Sound, InputOK, Taken, SameInput
  <1>5. isok(t) <=> isok(s)
    BY <1>1 DEF isok, SameFds
  <1>6. OutputOK(t, w)
    BY <1>1, <1>5 DEF Idle, Sound, OutputOK, SameSent, SameFds, Complete
  <1> QED BY <1>1, <1>2, <1>3, <1>4, <1>6 DEF Idle, Sound, t

\* and setclosecallback(), which calls at once on a stream that is not ok.
LEMMA CallbackSound ==
    ASSUME NEW w \in BOOLEAN, NEW s, Idle(s, w), NEW cb \in Nat, cb # 0,
           \A i \in 1..Len(s.called) : cb # s.called[i]
    PROVE  Idle(IF isok(s) THEN [s EXCEPT !.closecb = cb]
                ELSE [s EXCEPT !.closecb = 0, !.called = Append(@, cb)], w)
  <1> DEFINE q == IF isok(s) THEN s.called ELSE Append(s.called, cb)
             n == IF isok(s) THEN cb ELSE 0
             t == [s EXCEPT !.closecb = n, !.called = q]
  <1>t. s \in Stream /\ s.called \in Seq(Nat)
    BY DEF Idle, Sound, Stream
  <1>0. t = IF isok(s) THEN [s EXCEPT !.closecb = cb] ELSE [s EXCEPT !.closecb = 0, !.called = Append(@, cb)]
    BY <1>t DEF Stream
  <1>1. q \in Seq(Nat) /\ n \in Nat
    BY <1>t
  <1>q. /\ isok(s) => q = s.called /\ n = cb
        /\ ~isok(s) => q = Append(s.called, cb) /\ n = 0
    OBVIOUS
  <1> HIDE DEF q, n
  <1>2. /\ t \in Stream /\ SameFds(s, t) /\ SameInput(s, t) /\ SameOutput(s, t)
        /\ t.closecb = n /\ t.called = q /\ t.is_flushing = s.is_flushing
    BY <1>t, <1>1 DEF Stream, SameFds, SameInput, SameOutput, SameSent
  <1> HIDE DEF t
  <1>3. FdsOK(t)
    BY <1>2 DEF Idle, Sound, FdsOK, SameFds
  <1>4. InputOK(t)
    BY <1>2 DEF Idle, Sound, InputOK, Taken, SameInput
  <1>5. isok(t) <=> isok(s)
    BY <1>2 DEF isok, SameFds, SameOutput
  <1>6. OutputOK(t, w)
    BY <1>2, <1>5 DEF Idle, Sound, OutputOK, SameOutput, SameSent, SameFds, Complete
  <1>7. CallbacksOK(t)
    <2>1. CASE isok(s)
      BY <1>2, <1>q, <2>1 DEF Idle, Sound, CallbacksOK, SameFds, isok
    <2>2. CASE ~isok(s)
      <3>1. t.called = Append(s.called, cb) /\ t.closecb = 0
        BY <1>2, <1>q, <2>2
      <3>2. /\ \A i \in 1..Len(s.called) : s.called[i] # 0
            /\ \A i, j \in 1..Len(s.called) : i # j => s.called[i] # s.called[j]
        BY DEF Idle, Sound, CallbacksOK
      <3>3. /\ Len(t.called) = Len(s.called) + 1 /\ t.called[Len(s.called) + 1] = cb
            /\ \A i \in 1..Len(s.called) : t.called[i] = s.called[i]
        BY <1>t, <3>1, AppendProperties
      <3>4. PICK a \in Nat : Len(s.called) = a
        BY <1>t
      <3>5. \A i \in 1..Len(t.called) : i \in 1..Len(s.called) \/ i = Len(s.called) + 1
        BY <3>3, <3>4
      <3>6. \A i \in 1..Len(t.called) : t.called[i] # 0
        BY <3>2, <3>3, <3>5
      <3>7. \A i, j \in 1..Len(t.called) : i # j => t.called[i] # t.called[j]
        BY <3>2, <3>3, <3>5
      <3> QED BY <3>1, <3>6, <3>7 DEF CallbacksOK
    <2> QED BY <2>1, <2>2
  <1>8. Idle(t, w)
    BY <1>2, <1>3, <1>4, <1>6, <1>7 DEF Idle, Sound
  <1> QED BY <1>0, <1>8

\* getline() finds its separator in the inbuf: if there is one there is a first one.
LEMMA LineLengthBounded ==
    ASSUME NEW s \in Stream
    PROVE  LineLength(s) \in 0..Len(s.inbuf)
  <1>t. s.inbuf \in Seq(Nat) /\ Len(s.inbuf) \in Nat
    BY DEF Stream
  <1>1. CASE HasSeparator(s)
    <2> DEFINE T == {i \in 1..Len(s.inbuf) : s.inbuf[i] \in Separators}
    <2>1. T \subseteq Nat /\ T # {}
      BY <1>1, <1>t DEF HasSeparator
    <2>2. PICK x \in T : \A y \in T : x <= y
      BY <2>1, LeastNatural
    <2>3. x \in 1..Len(s.inbuf) /\ s.inbuf[x] \in Separators
      BY <2>2
    <2>4. \A j \in 1..(x - 1) : s.inbuf[j] \notin Separators
      <3>1. SUFFICES ASSUME NEW j \in 1..(x - 1), s.inbuf[j] \in Separators PROVE FALSE
        OBVIOUS
      <3>2. j \in T
        BY <1>t, <2>3, <3>1
      <3> QED BY <2>2, <2>3, <3>1, <3>2
    <2>5. \E i \in 1..Len(s.inbuf) :
             s.inbuf[i] \in Separators /\ \A j \in 1..(i - 1) : s.inbuf[j] \notin Separators
      BY <2>3, <2>4
    <2>6. LineLength(s) \in 1..Len(s.inbuf)
      BY <1>1, <2>5 DEF LineLength
    <2> QED BY <1>t, <2>6
  <1>2. CASE ~HasSeparator(s)
    BY <1>2, <1>t DEF LineLength
  <1> QED BY <1>1, <1>2

-----------------------------------------------------------------------------
\* The inductive invariant.  SentInOrder and CloseLosesNothing are not inductive: the one
\* says nothing of a stream between the error and the close, the other nothing of what an
\* open stream owes; Sound says both.
StreamInv ==
    /\ prog \in Programs
    /\ Idle(st, HasWriteSide)
    /\ call \in {"none", "getline"} /\ ret \in {"none", "true", "false"}
    /\ FlushTrueMeansEmpty

\* A new WvFdStream is sound.
LEMMA InitSound == Init => StreamInv
  <1>1. SUFFICES ASSUME Init PROVE StreamInv
    OBVIOUS
  <1>2. PICK fds \in prog.fds : st = NewStream(fds)
    BY <1>1 DEF Init
  <1>3. fds \in (Nat \cup {NoFd}) \X (Nat \cup {NoFd})
    BY <1>1, <1>2, ProgramAssumption DEF Init
  <1>4. fds[1] \in Nat \cup {NoFd} /\ fds[2] \in Nat \cup {NoFd}
    BY <1>3
  <1>5. << >> \in Seq(Nat) /\ ({fds[1], fds[2]} \ {NoFd}) \in SUBSET Nat
    BY <1>4
  <1>6. st \in Stream
    BY <1>2, <1>4, <1>5 DEF NewStream, Stream
  <1>7. FdsOK(st)
    BY <1>2 DEF NewStream, FdsOK
  <1>8. CallbacksOK(st)
    BY <1>2 DEF NewStream, CallbacksOK
  <1>9. InputOK(st)
    BY <1>2 DEF NewStream, InputOK, Counts, Taken
  <1>10. HasWriteSide => st.wfd # NoFd
    BY <1>2 DEF NewStream, HasWriteSide
  <1>11. OutputOK(st, HasWriteSide)
    BY <1>2, <1>10 DEF NewStream, OutputOK, Counts, Complete
  <1>12. ~st.is_flushing
    BY <1>2 DEF NewStream
  <1> QED BY <1>1, <1>6, <1>7, <1>8, <1>9, <1>11, <1>12 DEF Init, StreamInv, Idle, Sound, FlushTrueMeansEmpty

\* A call whose results are all sound leaves a sound stream.
LEMMA CallSound ==
    ASSUME StreamInv, NEW results, Returns(results), \A t \in results : Idle(t, HasWriteSide)
    PROVE  Idle(st', HasWriteSide) /\ call' = call /\ ret' = "none"
  BY DEF Returns

\* write(), read() and unread().
LEMMA BufferCallsSound ==
    ASSUME StreamInv,
           \/ \E n \in 1..prog.written : write(n)
           \/ \E n \in 1..prog.arrived : read(n)
           \/ \E k \in 1..Len(st.got) : unread(k)
    PROVE  Idle(st', HasWriteSide) /\ call' = call /\ ret' = "none"
  <1> DEFINE w == HasWriteSide
  <1>w. w \in BOOLEAN /\ Idle(st, w)
    BY DEF HasWriteSide, StreamInv
  <1> HIDE DEF w
  <1>p. prog.written \in Nat /\ prog.arrived \in Nat
    BY ProgramAssumption DEF StreamInv
  <1>1. CASE \E n \in 1..prog.written : write(n)
    <2>1. PICK n \in 1..prog.written : write(n)
      BY <1>1
    <2>2. n \in Nat
      BY <1>p
    <2>3. \A t \in WriteResults(st, n) : Idle(t, w)
      BY <1>w, <2>2, WriteSound DEF Idle, Kept
    <2> QED BY <2>1, <2>3, CallSound DEF write, w
  <1>2. CASE \E n \in 1..prog.arrived : read(n)
    <2>1. PICK n \in 1..prog.arrived : read(n)
      BY <1>2
    <2>2. n \in Nat
      BY <1>p
    <2>3. \A t \in ReadResults(st, n) : Idle(t, w)
      BY <1>w, <2>2, ReadSound
    <2> QED BY <2>1, <2>3, CallSound DEF read, w
  <1>3. CASE \E k \in 1..Len(st.got) : unread(k)
    <2>1. PICK k \in 1..Len(st.got) : unread(k)
      BY <1>3
    <2> DEFINE g == Len(st.got) - k
               t == [st EXCEPT !.got = FirstOf(@, g), !.inbuf = DropFirst(st.got, g) \o @]
    <2>2. Returns({t})
      BY <2>1 DEF unread
    <2>3. g \in 0..Len(st.got)
      <3>1. st.got \in Seq(Nat)
        BY <1>w DEF Idle, Sound, Stream
      <3>2. PICK a \in Nat : Len(st.got) = a
        BY <3>1
      <3> QED BY <3>2
    <2> HIDE DEF g
    <2>4. Idle(t, w)
      BY <1>w, <2>3, UnreadSound
    <2> HIDE DEF t
    <2> QED BY <2>2, <2>4, CallSound DEF w
  <1> QED BY <1>1, <1>2, <1>3

\* close(), noread(), nowrite(), flush_then_close() and select().
LEMMA EndingCallsSound ==
    ASSUME StreamInv,
           \/ close \/ noread \/ nowrite \/ flush_then_close
           \/ \E rd, wr \in BOOLEAN : select(rd, wr)
    PROVE  Idle(st', HasWriteSide) /\ call' = call /\ ret' = "none"
  <1> DEFINE w == HasWriteSide
  <1>w. w \in BOOLEAN /\ Idle(st, w) /\ st \in Stream
    BY DEF HasWriteSide, StreamInv, Idle, Sound
  <1> HIDE DEF w
  <1>1. CASE close
    <2>1. \A t \in Close(st) : Idle(t, w)
      <3>1. SUFFICES ASSUME NEW t \in Close(st) PROVE Idle(t, w)
        OBVIOUS
      <3>2. After(st, t, w)
        BY <1>w, CloseSound DEF Idle
      <3> QED BY <1>w, <3>2 DEF After, Idle
    <2> QED BY <1>1, <2>1, CallSound DEF close, w
  <1>2. CASE noread
    <2> DEFINE s == [st EXCEPT !.stop_read = TRUE]
    <2>1. /\ s \in Stream /\ SameFds(st, s) /\ SameCallbacks(st, s) /\ SameInput(st, s) /\ SameOutput(st, s)
          /\ s.is_flushing = st.is_flushing
      BY <1>w DEF Stream, SameFds, SameCallbacks, SameInput, SameOutput, SameSent
    <2>2. Returns(Autoclose(s))
      BY <1>2 DEF noread
    <2> HIDE DEF s
    <2>3. Idle(s, w)
      BY <1>w, <2>1, SettingSound
    <2>4. \A t \in Autoclose(s) : Idle(t, w)
      BY <1>w, <2>3, AutocloseSound DEF Idle, Kept
    <2> QED BY <2>2, <2>4, CallSound DEF w
  <1>3. CASE nowrite
    <2> DEFINE s == [st EXCEPT !.stop_write = TRUE]
    <2>1. Idle(s, w)
      BY <1>w, StopWriteSound
    <2>2. Returns(Autoclose(s))
      BY <1>3 DEF nowrite
    <2> HIDE DEF s
    <2>4. \A t \in Autoclose(s) : Idle(t, w)
      BY <1>w, <2>1, AutocloseSound DEF Idle, Kept
    <2> QED BY <2>2, <2>4, CallSound DEF w
  <1>4. CASE flush_then_close
    <2> DEFINE s == [st EXCEPT !.autoclose = TRUE, !.late = FALSE]
    <2>1. /\ s \in Stream /\ SameFds(st, s) /\ SameCallbacks(st, s) /\ SameInput(st, s) /\ SameOutput(st, s)
          /\ s.is_flushing = st.is_flushing
      BY <1>w DEF Stream, SameFds, SameCallbacks, SameInput, SameOutput, SameSent
    <2>2. Returns({r.st : r \in Flush(s, FALSE)})
      BY <1>4 DEF flush_then_close
    <2> HIDE DEF s
    <2>3. Idle(s, w)
      BY <1>w, <2>1, SettingSound
    <2>4. ASSUME NEW t \in {r.st : r \in Flush(s, FALSE)} PROVE Idle(t, w)
      <3>1. PICK r \in Flush(s, FALSE) : t = r.st
        BY <2>4
      <3>2. FlushResult(s, r, FALSE, w)
        BY <1>w, <2>3, FlushSound DEF Idle
      <3> QED BY <2>3, <3>1, <3>2 DEF FlushResult, After, Idle
    <2> QED BY <2>2, <2>4, CallSound DEF w
  <1>5. CASE \E rd, wr \in BOOLEAN : select(rd, wr)
    <2>1. PICK rd, wr \in BOOLEAN : select(rd, wr)
      BY <1>5
    <2>2. ASSUME NEW t \in {r.st : r \in SelectResults(st, rd, wr)} PROVE Idle(t, w)
      <3>1. PICK r \in SelectResults(st, rd, wr) : t = r.st
        BY <2>2
      <3> QED BY <1>w, <3>1, SelectSound DEF Kept, Idle
    <2> QED BY <2>1, <2>2, CallSound DEF select, w
  <1> QED BY <1>1, <1>2, <1>3, <1>4, <1>5

\* delay_output(), auto_flush(), setclosecallback(), queuemin() and outbuf_limit().
LEMMA SettingCallsSound ==
    ASSUME StreamInv,
           \/ \E b \in BOOLEAN : delay_output(b) \/ auto_flush(b)
           \/ \E cb \in 1..MaxCallback : setclosecallback(cb)
           \/ \E n \in 0..MaxQueue : queuemin(n)
           \/ \E n \in Limits : outbuf_limit(n)
    PROVE  Idle(st', HasWriteSide) /\ call' = call /\ ret' = "none"
  <1> DEFINE w == HasWriteSide
  <1>w. w \in BOOLEAN /\ Idle(st, w) /\ st \in Stream
    BY DEF HasWriteSide, StreamInv, Idle, Sound
  <1> HIDE DEF w
  <1>1. ASSUME NEW b \in BOOLEAN, delay_output(b)
        PROVE  Idle(st', w) /\ call' = call /\ ret' = "none"
    <2> DEFINE c == ~b
               s == [st EXCEPT !.outbuf_delayed_flush = b, !.want_to_flush = c]
    <2>0. c \in BOOLEAN
      OBVIOUS
    <2>2. Returns({s})
      BY <1>1 DEF delay_output
    <2> HIDE DEF c
    <2>1. /\ s \in Stream /\ SameFds(st, s) /\ SameCallbacks(st, s) /\ SameInput(st, s) /\ SameOutput(st, s)
          /\ s.is_flushing = st.is_flushing
      BY <1>w, <2>0 DEF Stream, SameFds, SameCallbacks, SameInput, SameOutput, SameSent
    <2> HIDE DEF s
    <2>3. Idle(s, w)
      BY <1>w, <2>1, SettingSound
    <2> QED BY <2>2, <2>3, CallSound DEF w
  <1>2. ASSUME NEW b \in BOOLEAN, auto_flush(b)
        PROVE  Idle(st', w) /\ call' = call /\ ret' = "none"
    <2> DEFINE s == [st EXCEPT !.is_auto_flush = b]
    <2>1. /\ s \in Stream /\ SameFds(st, s) /\ SameCallbacks(st, s) /\ SameInput(st, s) /\ SameOutput(st, s)
          /\ s.is_flushing = st.is_flushing
      BY <1>w DEF Stream, SameFds, SameCallbacks, SameInput, SameOutput, SameSent
    <2>2. Returns({s})
      BY <1>2 DEF auto_flush
    <2> HIDE DEF s
    <2>3. Idle(s, w)
      BY <1>w, <2>1, SettingSound
    <2> QED BY <2>2, <2>3, CallSound DEF w
  <1>3. ASSUME NEW cb \in 1..MaxCallback, setclosecallback(cb)
        PROVE  Idle(st', w) /\ call' = call /\ ret' = "none"
    <2> DEFINE s == IF isok(st) THEN [st EXCEPT !.closecb = cb]
                    ELSE [st EXCEPT !.closecb = 0, !.called = Append(@, cb)]
    <2>0. \A i \in 1..Len(st.called) : cb # st.called[i]
      BY <1>3 DEF setclosecallback
    <2>c. cb \in Nat /\ cb # 0
      BY BoundsAssumption
    <2>1. cb \in Nat /\ cb # 0 /\ \A i \in 1..Len(st.called) : cb # st.called[i]
      BY <2>0, <2>c
    <2>2. Returns({s})
      BY <1>3 DEF setclosecallback
    <2>3. Idle(s, w)
      BY <1>w, <2>1, CallbackSound
    <2> HIDE DEF s
    <2> QED BY <2>2, <2>3, CallSound DEF w
  <1>4. ASSUME NEW n \in 0..MaxQueue, queuemin(n)
        PROVE  Idle(st', w) /\ call' = call /\ ret' = "none"
    <2> DEFINE s == [st EXCEPT !.queue_min = n]
    <2>0. n \in Nat
      BY BoundsAssumption
    <2>1. /\ s \in Stream /\ SameFds(st, s) /\ SameCallbacks(st, s) /\ SameInput(st, s) /\ SameOutput(st, s)
          /\ s.is_flushing = st.is_flushing
      BY <1>w, <2>0 DEF Stream, SameFds, SameCallbacks, SameInput, SameOutput, SameSent
    <2>2. Returns({s})
      BY <1>4 DEF queuemin
    <2> HIDE DEF s
    <2>3. Idle(s, w)
      BY <1>w, <2>1, SettingSound
    <2> QED BY <2>2, <2>3, CallSound DEF w
  <1>5. ASSUME NEW n \in Limits, outbuf_limit(n)
        PROVE  Idle(st', w) /\ call' = call /\ ret' = "none"
    <2> DEFINE s == [st EXCEPT !.max_outbuf_size = n]
    <2>0. n \in Nat
      BY BoundsAssumption
    <2>1. /\ s \in Stream /\ SameFds(st, s) /\ SameCallbacks(st, s) /\ SameInput(st, s) /\ SameOutput(st, s)
          /\ s.is_flushing = st.is_flushing
      BY <1>w, <2>0 DEF Stream, SameFds, SameCallbacks, SameInput, SameOutput, SameSent
    <2>2. Returns({s})
      BY <1>5 DEF outbuf_limit
    <2> HIDE DEF s
    <2>3. Idle(s, w)
      BY <1>w, <2>1, SettingSound
    <2> QED BY <2>2, <2>3, CallSound DEF w
  <1> QED BY <1>1, <1>2, <1>3, <1>4, <1>5 DEF w

\* flush() and what it returns.
LEMMA FlushCallSound ==
    ASSUME StreamInv, NEW b \in BOOLEAN, flush(b)
    PROVE  /\ Idle(st', HasWriteSide) /\ call' = call
           /\ ret' \in {"true", "false"} /\ (ret' = "true" => st'.outbuf = << >>)
  <1> DEFINE w == HasWriteSide
  <1>w. w \in BOOLEAN /\ Idle(st, w)
    BY DEF HasWriteSide, StreamInv
  <1>1. PICK r \in Flush(st, b) : st' = r.st /\ ret' = IF r.done THEN "true" ELSE "false"
    BY DEF flush
  <1>2. FlushResult(st, r, b, w)
    BY <1>w, FlushSound DEF Idle
  <1>3. Idle(r.st, w) /\ (r.done => r.st.outbuf = << >>)
    BY <1>w, <1>2 DEF FlushResult, After, Idle
  <1> QED BY <1>1, <1>3 DEF flush

\* blocking_getline(): its beginning, a turn of its loop, and its return.
LEMMA GetlineSound ==
    ASSUME StreamInv,
           \/ getline_begin \/ getline_return
           \/ \E n \in 1..prog.arrived : getline_turn(n)
    PROVE  Idle(st', HasWriteSide) /\ call' \in {"none", "getline"} /\ ret' = "none"
  <1> DEFINE w == HasWriteSide
  <1>w. w \in BOOLEAN /\ Idle(st, w) /\ st \in Stream
    BY DEF HasWriteSide, StreamInv, Idle, Sound
  <1>f. st.inbuf \in Seq(Nat) /\ Len(st.inbuf) \in Nat /\ st.queue_min \in Nat
    BY <1>w DEF Stream
  <1> HIDE DEF w
  <1>1. CASE getline_begin
    <2>1. Idle(st', w)
      BY <1>1, <1>w, AutocloseSound DEF getline_begin, Idle, Kept
    <2> QED BY <1>1, <2>1 DEF getline_begin, w
  <1>2. CASE getline_return
    <2> DEFINE n == IF isok(st) THEN 0 ELSE st.queue_min
               s == [st EXCEPT !.queue_min = n]
    <2>0. n \in Nat
      BY <1>f
    <2>1. st' = Deliver(s, LineLength(st)) /\ call' = "none" /\ ret' = "none"
      BY <1>2 DEF getline_return
    <2> HIDE DEF n
    <2>2. /\ s \in Stream /\ SameFds(st, s) /\ SameCallbacks(st, s) /\ SameInput(st, s) /\ SameOutput(st, s)
          /\ s.is_flushing = st.is_flushing
      BY <1>w, <2>0 DEF Stream, SameFds, SameCallbacks, SameInput, SameOutput, SameSent
    <2> HIDE DEF s
    <2>3. Idle(s, w)
      BY <1>w, <2>2, SettingSound
    <2>4. LineLength(st) \in 0..Len(s.inbuf)
      BY <1>w, <2>2, LineLengthBounded DEF SameInput
    <2>5. Idle(st', w)
      BY <1>w, <2>1, <2>3, <2>4, DeliverSound
    <2> QED BY <2>1, <2>5 DEF w
  <1>3. CASE \E n \in 1..prog.arrived : getline_turn(n)
    <2>1. PICK n \in 1..prog.arrived : getline_turn(n)
      BY <1>3
    <2>n. n \in Nat
      BY ProgramAssumption DEF StreamInv
    <2> DEFINE q == Len(st.inbuf) + 1
               s == [st EXCEPT !.queue_min = q]
    <2>2. PICK r \in SelectResults(s, TRUE, FALSE) :
            \E u \in IF r.sure /\ isok(r.st) THEN Uread(r.st, n) ELSE {<<r.st, 0>>} :
             /\ st' = IntoInbuf(u[1], u[2])
             /\ IF u[2] = 0 /\ isok(u[1]) THEN call' \in {"none", "getline"} ELSE UNCHANGED call
      BY <2>1 DEF getline_turn
    <2>3. PICK u \in IF r.sure /\ isok(r.st) THEN Uread(r.st, n) ELSE {<<r.st, 0>>} :
             /\ st' = IntoInbuf(u[1], u[2])
             /\ IF u[2] = 0 /\ isok(u[1]) THEN call' \in {"none", "getline"} ELSE UNCHANGED call
      BY <2>2
    <2>4. q \in Nat
      BY <1>f
    <2> HIDE DEF q
    <2>5. /\ s \in Stream /\ SameFds(st, s) /\ SameCallbacks(st, s) /\ SameInput(st, s) /\ SameOutput(st, s)
          /\ s.is_flushing = st.is_flushing
      BY <1>w, <2>4 DEF Stream, SameFds, SameCallbacks, SameInput, SameOutput, SameSent
    <2> HIDE DEF s
    <2>6. Idle(s, w)
      BY <1>w, <2>5, SettingSound
    <2>7. Kept(s, r.st, w)
      BY <1>w, <2>6, SelectSound
    <2>8. Idle(r.st, w)
      BY <2>7 DEF Kept, Idle
    <2>9. ReadResult(r.st, u, w)
      <3>1. CASE u \in Uread(r.st, n)
        BY <1>w, <2>n, <2>8, <3>1, UreadSound
      <3>2. CASE u = <<r.st, 0>>
        <4>1. r.st.got \in Seq(Nat) /\ r.st.inbuf \in Seq(Nat)
          BY <2>8 DEF Idle, Sound, Stream
        <4>2. PICK a \in Nat, b \in Nat : Len(r.st.got) = a /\ Len(r.st.inbuf) = b
          BY <4>1
        <4>3. Taken(r.st) = a + b
          BY <4>2 DEF Taken
        <4>4. Taken(r.st) <= r.st.arrived
          BY <2>8 DEF Idle, Sound, InputOK
        <4> QED BY <2>8, <3>2, <4>3, <4>4 DEF ReadResult, Kept, Idle, SameInput
      <3> QED BY <2>3, <3>1, <3>2
    <2>10. Idle(u[1], w) /\ u[2] \in Nat /\ Taken(u[1]) + u[2] <= u[1].arrived
      BY <2>9 DEF ReadResult, Kept, Idle, SameInput, Taken
    <2>11. Idle(st', w)
      BY <1>w, <2>3, <2>10, IntoInbufSound
    <2>12. call' \in {"none", "getline"}
      BY <2>3 DEF StreamInv
    <2> QED BY <2>1, <2>11, <2>12 DEF getline_turn, w
  <1> QED BY <1>1, <1>2, <1>3

\* Data and the end of file arrive, and the autoclose timer expires, between calls.
LEMMA EnvironmentSound ==
    ASSUME StreamInv, Environment
    PROVE  Idle(st', HasWriteSide) /\ call' = call /\ ret' = ret /\ st'.outbuf = st.outbuf
  <1> DEFINE w == HasWriteSide
  <1>w. w \in BOOLEAN /\ Idle(st, w) /\ st \in Stream
    BY DEF HasWriteSide, StreamInv, Idle, Sound
  <1> HIDE DEF w
  <1>1. CASE Arrive
    <2>0. st.arrived \in Nat /\ st.arrived + 1 \in Nat
      BY <1>w DEF Stream
    <2>1. /\ st' \in Stream /\ st'.inbuf = st.inbuf /\ st'.got = st.got /\ st'.arrived = st.arrived + 1
          /\ SameFds(st, st') /\ SameCallbacks(st, st') /\ SameOutput(st, st')
          /\ st'.is_flushing = st.is_flushing
      BY <1>1, <1>w, <2>0 DEF Arrive, Stream, SameFds, SameCallbacks, SameOutput, SameSent
    <2>2. Taken(st') = Taken(st) /\ Taken(st) <= st.arrived /\ Taken(st) \in Nat
      <3>1. st.got \in Seq(Nat) /\ st.inbuf \in Seq(Nat)
        BY <1>w DEF Stream
      <3>2. PICK a \in Nat, b \in Nat : Len(st.got) = a /\ Len(st.inbuf) = b
        BY <3>1
      <3>3. Taken(st) = a + b /\ Taken(st') = a + b
        BY <2>1, <3>2 DEF Taken
      <3>4. Taken(st) <= st.arrived
        BY <1>w DEF Idle, Sound, InputOK
      <3> QED BY <3>3, <3>4
    <2>3. Taken(st') <= st'.arrived
      BY <2>0, <2>1, <2>2
    <2>4. InputOK(st')
      BY <1>w, <2>1, <2>3 DEF Idle, Sound, InputOK
    <2>5. Idle(st', w)
      BY <1>w, <2>1, <2>4, InputChangedSound
    <2> QED BY <1>1, <2>1, <2>5 DEF Arrive, SameOutput, w
  <1>2. CASE PeerCloses
    <2>1. /\ st' \in Stream /\ SameFds(st, st') /\ SameCallbacks(st, st') /\ SameInput(st, st')
          /\ SameOutput(st, st') /\ st'.is_flushing = st.is_flushing
      BY <1>2, <1>w DEF PeerCloses, Stream, SameFds, SameCallbacks, SameInput, SameOutput, SameSent
    <2>2. Idle(st', w)
      BY <1>w, <2>1, SettingSound
    <2> QED BY <1>2, <2>1, <2>2 DEF PeerCloses, SameOutput, w
  <1>3. CASE AutocloseTimeout
    <2>1. /\ st' \in Stream /\ SameFds(st, st') /\ SameCallbacks(st, st') /\ SameInput(st, st')
          /\ SameOutput(st, st') /\ st'.is_flushing = st.is_flushing
      BY <1>3, <1>w DEF AutocloseTimeout, Stream, SameFds, SameCallbacks, SameInput, SameOutput, SameSent
    <2>2. Idle(st', w)
      BY <1>w, <2>1, SettingSound
    <2> QED BY <1>3, <2>1, <2>2 DEF AutocloseTimeout, SameOutput, w
  <1> QED BY <1>1, <1>2, <1>3 DEF Environment

\* Every call of the public interface keeps the invariant.
LEMMA NextSound == StreamInv /\ [Next]_vars => StreamInv'
  <1>1. SUFFICES ASSUME StreamInv, [Next]_vars PROVE StreamInv'
    OBVIOUS
  <1>2. CASE Next
    <2>p. prog' = prog /\ Step
      BY <1>2 DEF Next
    <2>h. HasWriteSide' = HasWriteSide
      BY <2>p DEF HasWriteSide
    <2> DEFINE quiet == Idle(st', HasWriteSide) /\ call' \in {"none", "getline"} /\ ret' = "none"
    <2>1. CASE \/ \E n \in 1..prog.written : write(n)
               \/ \E n \in 1..prog.arrived : read(n)
               \/ \E k \in 1..Len(st.got) : unread(k)
      <3>1. quiet
        BY <1>1, <2>1, BufferCallsSound DEF StreamInv
      <3> QED BY <1>1, <2>p, <2>h, <3>1 DEF StreamInv, FlushTrueMeansEmpty
    <2>2. CASE \/ close \/ noread \/ nowrite \/ flush_then_close
               \/ \E rd, wr \in BOOLEAN : select(rd, wr)
      <3>1. quiet
        BY <1>1, <2>2, EndingCallsSound DEF StreamInv
      <3> QED BY <1>1, <2>p, <2>h, <3>1 DEF StreamInv, FlushTrueMeansEmpty
    <2>3. CASE \/ \E b \in BOOLEAN : delay_output(b) \/ auto_flush(b)
               \/ \E cb \in 1..MaxCallback : setclosecallback(cb)
               \/ \E n \in 0..MaxQueue : queuemin(n)
               \/ \E n \in Limits : outbuf_limit(n)
      <3>1. quiet
        BY <1>1, <2>3, SettingCallsSound DEF StreamInv
      <3> QED BY <1>1, <2>p, <2>h, <3>1 DEF StreamInv, FlushTrueMeansEmpty
    <2>4. CASE \/ getline_begin \/ getline_return
               \/ \E n \in 1..prog.arrived : getline_turn(n)
      <3>1. quiet
        BY <1>1, <2>4, GetlineSound
      <3> QED BY <1>1, <2>p, <2>h, <3>1 DEF StreamInv, FlushTrueMeansEmpty
    <2>5. CASE \E b \in BOOLEAN : flush(b)
      <3>1. /\ Idle(st', HasWriteSide) /\ call' = call
            /\ ret' \in {"true", "false"} /\ (ret' = "true" => st'.outbuf = << >>)
        BY <1>1, <2>5, FlushCallSound
      <3> QED BY <1>1, <2>p, <2>h, <3>1 DEF StreamInv, FlushTrueMeansEmpty
    <2>6. CASE Environment
      <3>1. Idle(st', HasWriteSide) /\ call' = call /\ ret' = ret /\ st'.outbuf = st.outbuf
        BY <1>1, <2>6, EnvironmentSound
      <3> QED BY <1>1, <2>p, <2>h, <3>1 DEF StreamInv, FlushTrueMeansEmpty
    <2> QED BY <2>p, <2>1, <2>2, <2>3, <2>4, <2>5, <2>6 DEF Step
  <1>3. CASE UNCHANGED vars
    BY <1>1, <1>3 DEF vars, StreamInv, FlushTrueMeansEmpty, HasWriteSide
  <1> QED BY <1>1, <1>2, <1>3

\* Whatever calls a program makes, in whatever order and however the kernel answers, its
\* stream is sound between them.
THEOREM StreamInvariant == Spec => []StreamInv
  BY InitSound, NextSound, PTL DEF Spec

\* Between two calls no flush is under way; flush() returned true only with an empty
\* outbuf; no close callback runs twice or is left waiting by close(); and no descriptor
\* is closed twice or forgotten, however close(), flush() and uwrite()'s error path
\* called one another.
THEOREM StreamIsConsistent == Spec => []StreamConsistent
  <1>1. StreamInv => StreamConsistent
    <2>1. SUFFICES ASSUME StreamInv PROVE StreamConsistent
      OBVIOUS
    <2>2. TypeOK /\ FlushTrueMeansEmpty
      BY <2>1 DEF StreamInv, Idle, Sound, TypeOK
    <2>3. CloseCallbackOnce
      BY <2>1 DEF StreamInv, Idle, Sound, CallbacksOK, CloseCallbackOnce
    <2>4. DescriptorsClosedOnce
      BY <2>1 DEF StreamInv, Idle, Sound, FdsOK, DescriptorsClosedOnce
    <2> QED BY <2>2, <2>3, <2>4 DEF StreamConsistent
  <1> QED BY <1>1, StreamInvariant, PTL

\* The kernel is given what write() accepted, in order and without gaps, and as long as
\* the stream is ok the rest waits in the outbuf.
THEOREM OutputIsSentInOrder == Spec => []SentInOrder
  <1>1. StreamInv => SentInOrder
    <2>1. SUFFICES ASSUME StreamInv PROVE SentInOrder
      OBVIOUS
    <2>2. /\ Counts(st.sent, 0) /\ Len(st.sent) <= st.accepted
          /\ isok(st) => Counts(st.outbuf, Len(st.sent)) /\ Complete(st)
      BY <2>1 DEF StreamInv, Idle, Sound, OutputOK
    <2>3. \A i \in 1..Len(st.sent) : st.sent[i] = i
      BY <2>2 DEF Counts
    <2> QED BY <2>2, <2>3 DEF Counts, Complete, SentInOrder
  <1> QED BY <1>1, StreamInvariant, PTL

\* read(), blocking_getline() and unread() give the program what the peer sent, in order
\* and without gaps.
THEOREM InputIsReceivedInOrder == Spec => []ReceivedInOrder
  <1>1. StreamInv => ReceivedInOrder
    BY DEF StreamInv, Idle, Sound, InputOK, Counts, ReceivedInOrder
  <1> QED BY <1>1, StreamInvariant, PTL

\* A stream made with a write descriptor that closes without an error has sent all it
\* accepted, unless a waiting flush or flush_then_close() ran out of time.
THEOREM NothingIsLost == Spec => []CloseLosesNothing
  <1>1. StreamInv => CloseLosesNothing
    BY DEF StreamInv, Idle, Sound, OutputOK, CloseLosesNothing
  <1> QED BY <1>1, StreamInvariant, PTL
=============================================================================
