----------------------------- MODULE WvFdStream -----------------------------
(***************************************************************************)
(* A stream over Unix file descriptors: streams/wvstream.cc as inherited   *)
(* and overridden by streams/wvfdstream.cc.                                *)
(*                                                                         *)
(* The library is single-threaded, so a call runs to its end before the    *)
(* next one starts; what makes it hard is that close(), flush(),           *)
(* flush_outbuf(), maybe_autoclose(), uwrite() and select() call one       *)
(* another, with is_flushing as the only guard.  Each method is an         *)
(* operator from a stream to the set of streams it can leave behind (the   *)
(* kernel decides how much it takes), and each call of the public          *)
(* interface is one action.  blocking_getline(), which waits for the peer, *)
(* is cut at the turns of its loop.                                        *)
(*                                                                         *)
(* Bytes are numbers: the n-th byte that write() accepts, and the n-th     *)
(* byte the peer sends, is n.  Alarms, callbacks, coroutines and the       *)
(* global list are not part of this module.                                *)
(***************************************************************************)
EXTENDS Integers, Sequences

CONSTANTS
    Programs,    \* programs: the public calls one makes (calls), the <<rfd, wfd>> it
                 \* constructs its stream with (fds), and bounds on the bytes it
                 \* offers to write() (written) and its peer sends (arrived)
    Separators,  \* which of the peer's bytes are getline's separator
    MaxQueue,    \* bound: the largest queuemin()
    Limits,      \* the arguments of outbuf_limit(); 0 is "no limit"
    MaxCallback, \* bound: how many close callbacks the program installs
    SizeMod      \* size_t arithmetic is modulo this power of two

NoFd == -1

ASSUME ProgramAssumption ==
    \A p \in Programs :
        /\ p.fds \subseteq ((Nat \cup {NoFd}) \X (Nat \cup {NoFd}))
        /\ p.written \in Nat /\ p.arrived \in Nat
ASSUME BoundsAssumption ==
    /\ MaxQueue \in Nat /\ MaxCallback \in Nat
    /\ Limits \subseteq Nat /\ Separators \subseteq Nat /\ SizeMod \in Nat \ {0}

VARIABLES
    prog,    \* the program that uses the stream; it never changes
    st,      \* the stream object, its kernel descriptors and what has passed through it
    call,    \* "none", or "getline" while blocking_getline() is in its loop
    ret      \* what the last flush() returned: "true", "false" or "none"

vars == <<prog, st, call, ret>>

\* Everything about a stream that the next call can depend on.  sent, got,
\* called and timedout are history: what went to the kernel, what the program was
\* given, which close callbacks ran, and whether a waiting flush or
\* flush_then_close() gave up with bytes left.
Stream == [
    rfd : Nat \cup {NoFd}, wfd : Nat \cup {NoFd},
    stop_read : BOOLEAN, stop_write : BOOLEAN,
    shutdown_read : BOOLEAN, shutdown_write : BOOLEAN,
    closed : BOOLEAN, err : BOOLEAN,
    is_flushing : BOOLEAN, want_to_flush : BOOLEAN,
    outbuf_delayed_flush : BOOLEAN, is_auto_flush : BOOLEAN,
    autoclose : BOOLEAN, late : BOOLEAN,
    queue_min : Nat, max_outbuf_size : Nat,
    inbuf : Seq(Nat), outbuf : Seq(Nat),
    closecb : Nat,
    open : SUBSET Nat, doubleclose : BOOLEAN,
    arrived : Nat, eof : BOOLEAN,
    accepted : Nat, sent : Seq(Nat), got : Seq(Nat),
    called : Seq(Nat), timedout : BOOLEAN]

\* WvStream::WvStream() and WvFdStream::WvFdStream(rfd, wfd)
NewStream(fds) == [
    rfd |-> fds[1], wfd |-> fds[2],
    stop_read |-> FALSE, stop_write |-> FALSE,
    shutdown_read |-> FALSE, shutdown_write |-> FALSE,
    closed |-> FALSE, err |-> FALSE,
    is_flushing |-> FALSE, want_to_flush |-> TRUE,
    outbuf_delayed_flush |-> FALSE, is_auto_flush |-> TRUE,
    autoclose |-> FALSE, late |-> FALSE,
    queue_min |-> 0, max_outbuf_size |-> 0,
    inbuf |-> << >>, outbuf |-> << >>,
    closecb |-> 0,
    open |-> {fds[1], fds[2]} \ {NoFd}, doubleclose |-> FALSE,
    arrived |-> 0, eof |-> FALSE,
    accepted |-> 0, sent |-> << >>, got |-> << >>,
    called |-> << >>, timedout |-> FALSE]

-----------------------------------------------------------------------------
(* Small helpers.                                                          *)

Smaller(a, b) == IF a < b THEN a ELSE b
Count(lo, n) == [i \in 1..n |-> lo + i]          \* the n byte numbers after lo
DropFirst(q, n) == SubSeq(q, n + 1, Len(q))
FirstOf(q, n) == SubSeq(q, 1, n)

isok(s) == ~s.closed /\ ~s.err /\ (s.rfd # NoFd \/ s.wfd # NoFd)

\* ::close(fd).  A descriptor that is not open any more may by now belong to
\* someone else; closing -1 only sets errno.
SysClose(s, fd) ==
    IF fd = NoFd THEN s
    ELSE [s EXCEPT !.open = @ \ {fd}, !.doubleclose = @ \/ fd \notin s.open]

\* Bytes the kernel holds that the stream has not read.
Taken(s) == Len(s.got) + Len(s.inbuf)
Available(s) == s.arrived - Taken(s)

-----------------------------------------------------------------------------
(* close(), flush_outbuf() and maybe_autoclose() while is_flushing is set: *)
(* the flush() in close() returns at once.                                 *)

\* WvStream::close() after its flush(), then the rest of WvFdStream::close().
FinishClose(s) ==
    LET notified == [s EXCEPT !.closed = TRUE, !.closecb = 0,
                        !.called = IF s.closecb = 0 THEN @ ELSE Append(@, s.closecb)]
        rclosed == SysClose(notified, s.rfd)
        wclosed == IF s.wfd # s.rfd THEN SysClose(rclosed, s.wfd) ELSE rclosed
    IN  [wclosed EXCEPT !.rfd = NoFd, !.wfd = NoFd]

CloseInFlush(s) == IF s.closed THEN s ELSE FinishClose(s)

ShutWrite_keepsfd(s) ==
    IF s.rfd # s.wfd THEN SysClose([s EXCEPT !.shutdown_write = TRUE], s.wfd)
    ELSE [s EXCEPT !.shutdown_write = TRUE]

\* WvFdStream::maybe_autoclose() up to its call of WvStream::maybe_autoclose();
\* it returns early where a write side is "shut down" that never existed.
ShutWrite(s) ==
    LET down == [s EXCEPT !.shutdown_write = TRUE]
    IN  [(IF s.rfd # s.wfd THEN SysClose(down, s.wfd) ELSE down) EXCEPT !.wfd = NoFd]

ShutRead(s) ==
    LET down == [s EXCEPT !.shutdown_read = TRUE]
    IN  [(IF s.rfd # s.wfd THEN SysClose(down, s.rfd) ELSE down) EXCEPT !.rfd = NoFd]

MustShutWrite(s) == s.stop_write /\ ~s.shutdown_write /\ s.outbuf = << >>
MustShutRead(s) == s.stop_read /\ ~s.shutdown_read /\ s.inbuf = << >>
ReturnsEarly(s) == MustShutWrite(s) /\ s.wfd = NoFd

ShutDown(s) ==
    LET w == IF MustShutWrite(s) THEN ShutWrite(s) ELSE s
    IN  IF ReturnsEarly(s) THEN [s EXCEPT !.shutdown_write = TRUE]
        ELSE IF MustShutRead(w) THEN ShutRead(w) ELSE w

AutocloseDue_ifok(s) ==
    s.stop_read /\ s.stop_write /\ s.outbuf = << >> /\ s.inbuf = << >> /\ isok(s)

AutocloseDue(s) ==
    s.stop_read /\ s.stop_write /\ s.outbuf = << >> /\ s.inbuf = << >> /\ ~s.closed

AutocloseInFlush(s) ==
    LET d == ShutDown(s)
    IN  IF ~ReturnsEarly(s) /\ AutocloseDue(d) THEN CloseInFlush(d) ELSE d

-----------------------------------------------------------------------------
(* flush_outbuf()                                                          *)

Sent_nounget(s, k) ==
    [s EXCEPT !.sent = @ \o FirstOf(s.outbuf, k), !.outbuf = << >>]

\* One uwrite() from the outbuf, after k bytes went out in earlier turns: the
\* kernel takes a bytes of the attempt and the rest is put back, or it reports
\* an error, and then the attempted bytes are gone from the outbuf.
Sent(s, k) ==
    [s EXCEPT !.sent = @ \o FirstOf(s.outbuf, k), !.outbuf = DropFirst(@, k)]

WriteFails(s) ==
    {[s EXCEPT !.err = TRUE, !.outbuf = DropFirst(@, a)] : a \in 1..Len(s.outbuf)}

\* The outcomes of the loop when it is entered, as <<stream, outbuf_was_used>>.
\* A turn without a timeout is the only one, and outbuf_was_used stays set.  With
\* a timeout the loop goes on until select() says no or the time is up, and
\* outbuf_was_used is cleared only after a turn that empties the outbuf and whose
\* select() then finds the descriptor writable; once nowrite() was called,
\* pre_select() shuts the empty stream's write side first, and with autoclose
\* pending post_select() closes it.
FlushLoop(s, wait) ==
    LET all == Len(s.outbuf)
        steps == IF s.wfd = NoFd THEN {} ELSE 0..all
        fails == IF s.wfd = NoFd THEN {0} ELSE IF wait THEN 0..(all - 1) ELSE {0}
    IN  {<<[Sent(s, k) EXCEPT !.timedout = @ \/ (wait /\ k < all)], TRUE>> : k \in steps}
        \cup {<<t, TRUE>> : t \in UNION {WriteFails(Sent(s, k)) : k \in fails}}
        \cup (IF wait /\ s.wfd # NoFd /\ ~s.stop_write /\ ~s.autoclose THEN {<<Sent(s, all), FALSE>>} ELSE {})

EnterLoop(s, wait) ==
    IF s.outbuf # << >> /\ isok(s) THEN FlushLoop(s, wait) ELSE {<<s, s.outbuf # << >>>>}

\* flush_then_close(): close once the outbuf is empty or the time is up.
TimeToClose(s) == s.autoclose /\ isok(s) /\ (s.outbuf = << >> \/ s.late)
TimerFires(s) == [s EXCEPT !.autoclose = FALSE, !.timedout = @ \/ s.outbuf # << >>]

\* Give up the flush request of a delayed stream; empty what cannot be flushed.
Settle(s, was_used) ==
    [s EXCEPT !.want_to_flush = @ /\ ~(s.outbuf_delayed_flush /\ ~was_used),
              !.outbuf = IF was_used /\ ~isok(s) THEN << >> ELSE @]

NothingToFlush(s) == s.outbuf = << >> /\ ~s.autoclose /\ ~s.outbuf_delayed_flush

\* The error path of uwrite(): seterr() closes the stream, once.
FailedNow(s, t) == t.err /\ ~s.err

AfterError(s, t) == IF FailedNow(s, t) THEN CloseInFlush(t) ELSE t

AutocloseTimer(s) ==
    IF TimeToClose(s) THEN CloseInFlush(TimerFires(s)) ELSE s

\* flush_outbuf() called by flush(), as [st |-> stream, done |-> its result].
FlushOutbufInFlush(s, wait) ==
    IF NothingToFlush(s) THEN {[st |-> AutocloseInFlush(s), done |-> TRUE]}
    ELSE {[st |-> AutocloseInFlush(Settle(AutocloseTimer(AfterError(s, o[1])), o[2])),
           done |-> ~o[2]] : o \in EnterLoop(s, wait)}

-----------------------------------------------------------------------------
(* The same methods from outside a flush.                                  *)

\* flush(msec_timeout); wait is "msec_timeout is not zero".
Flush(s, wait) ==
    IF s.is_flushing THEN {[st |-> s, done |-> FALSE]}
    ELSE {[r EXCEPT !.st.is_flushing = FALSE] : r \in FlushOutbufInFlush(
                [s EXCEPT !.is_flushing = TRUE, !.want_to_flush = TRUE], wait)}

Close_noflush(s) == IF s.closed THEN {s} ELSE {FinishClose(s)}

\* WvFdStream::close(): nothing on a closed stream, else flush(2000) and finish.
Close(s) == IF s.closed THEN {s} ELSE {FinishClose(r.st) : r \in Flush(s, TRUE)}

\* seterr(errno) and, for an end of file, seterr(0), which only closes.
SetError(s) == IF s.err THEN {s} ELSE Close([s EXCEPT !.err = TRUE])
EndOfFile(s) == IF s.err THEN {s} ELSE Close(s)

Autoclose(s) ==
    LET d == ShutDown(s)
    IN  IF ~ReturnsEarly(s) /\ AutocloseDue(d) THEN Close(d) ELSE {d}

\* flush_outbuf(0) called by write() and by WvFdStream::post_select(): the
\* closes it runs into flush in their turn.
FlushOutbuf(s) ==
    IF NothingToFlush(s) THEN Autoclose(s)
    ELSE UNION {UNION {UNION {Autoclose(Settle(t2, o[2])) :
            t2 \in IF TimeToClose(t1) THEN Close(TimerFires(t1)) ELSE {t1}} :
            t1 \in IF FailedNow(s, o[1]) THEN Close(o[1]) ELSE {o[1]}} :
            o \in EnterLoop(s, FALSE)}

\* write()'s last lines.
AfterWrite(s) ==
    IF ~s.want_to_flush THEN {s}
    ELSE IF s.is_auto_flush THEN {r.st : r \in Flush(s, FALSE)} ELSE FlushOutbuf(s)

-----------------------------------------------------------------------------
(* write(), read(), select()                                               *)

\* uwrite() of n new bytes that bypass the outbuf, as <<stream, bytes written>>.
DirectWrite(s, n) ==
    {<<[s EXCEPT !.sent = @ \o Count(s.accepted, k), !.accepted = @ + k], k>> :
        k \in IF s.wfd = NoFd THEN {} ELSE 0..n}
    \cup {<<t, 0>> : t \in SetError(s)}

\* canbuffer is unsigned: max_outbuf_size - outbuf.used() wraps around.
Buffered(s, n) ==
    LET can == (s.max_outbuf_size - Len(s.outbuf)) % SizeMod
        m == IF s.max_outbuf_size = 0 THEN n ELSE Smaller(n, can)
    IN  [s EXCEPT !.outbuf = @ \o Count(s.accepted, m), !.accepted = @ + m]

WriteResults(s, n) ==
    IF ~isok(s) \/ s.stop_write THEN {s}
    ELSE LET direct == IF ~s.outbuf_delayed_flush /\ s.outbuf = << >>
                       THEN DirectWrite(s, n) ELSE {<<s, 0>>}
         IN  UNION {AfterWrite(Buffered(d[1], n - d[2])) : d \in direct}

\* uread() of up to n bytes, as <<stream, bytes read>>; the caller says where they
\* go.  A descriptor that is gone makes ::read() fail with EBADF.
Uread(s, n) ==
    IF n = 0 \/ ~isok(s) THEN {<<s, 0>>}
    ELSE {<<t, 0>> : t \in SetError(s)} \cup
         (IF s.rfd = NoFd THEN {}
          ELSE IF Available(s) > 0 THEN {<<s, k>> : k \in 1..Smaller(n, Available(s))}
          ELSE IF s.eof THEN {<<t, 0>> : t \in EndOfFile(s)}
          ELSE {<<s, 0>>})

IntoInbuf(s, k) == [s EXCEPT !.inbuf = @ \o Count(Taken(s), k)]
Deliver(s, k) == [s EXCEPT !.got = @ \o FirstOf(s.inbuf, k), !.inbuf = DropFirst(@, k)]

\* read(): top the inbuf up to queue_min; then a hard read if it is empty, else
\* from the inbuf.
TopUp(s) ==
    IF Len(s.inbuf) >= s.queue_min THEN {s}
    ELSE {IntoInbuf(r[1], r[2]) : r \in Uread(s, s.queue_min - Len(s.inbuf))}

TakeBytes(s, n) ==
    IF Len(s.inbuf) < s.queue_min THEN {s}
    ELSE IF s.inbuf # << >> THEN {Deliver(s, Smaller(n, Len(s.inbuf)))}
    ELSE {[r[1] EXCEPT !.got = @ \o Count(Taken(s), r[2])] : r \in Uread(s, n)}

ReadResults(s, n) ==
    UNION {UNION {Autoclose(u) : u \in TakeBytes(t, n)} : t \in TopUp(s)}

\* select(): pre_select(), the kernel's verdict w on the write descriptor and r on
\* the read descriptor, post_select(); as [st |-> stream, sure |-> result].
WantsWrite(s, writable) == (writable \/ s.outbuf # << >> \/ s.autoclose) /\ s.wfd # NoFd
BufferReady(s, readable) == readable /\ s.inbuf # << >> /\ Len(s.inbuf) >= s.queue_min

FlushFromSelect(s, w) ==
    s.wfd # NoFd /\ (s.outbuf # << >> \/ s.autoclose) /\ w /\ s.want_to_flush

FdReady(s, r, w) == (r /\ s.rfd # NoFd) \/ (w /\ s.wfd # NoFd)

PostSelect_deaf(s, readable, r, w) ==
    {[st |-> s, sure |-> BufferReady(s, readable) \/ FdReady(s, r, w)]}

PostSelect(s, readable, r, w) ==
    UNION {IF FlushFromSelect(u, w)
           THEN {[st |-> v, sure |-> BufferReady(u, readable) \/ (isok(v) /\ FdReady(v, r, w))] :
                    v \in FlushOutbuf(u)}
           ELSE {[st |-> u, sure |-> BufferReady(u, readable) \/ FdReady(u, r, w)]} :
           u \in IF s.want_to_flush THEN {x.st : x \in Flush(s, FALSE)} ELSE {s}}

SelectResults(s, readable, writable) ==
    UNION {UNION {PostSelect(t, readable,
                             readable /\ t.rfd # NoFd /\ (Available(t) > 0 \/ t.eof), w) :
                  w \in IF WantsWrite(t, writable) THEN BOOLEAN ELSE {FALSE}} :
           t \in Autoclose(s)}

-----------------------------------------------------------------------------
(* The calls of the public interface.                                      *)

Init ==
    /\ prog \in Programs
    /\ \E fds \in prog.fds : st = NewStream(fds)
    /\ call = "none"
    /\ ret = "none"

\* The program makes call c on the stream.
Calling(c) == c \in prog.calls /\ call = "none"

\* The call returns, and leaves one of these streams behind.
Returns(results) == st' \in results /\ ret' = "none" /\ UNCHANGED call

write(n) ==
    /\ Calling("write")
    /\ st.accepted + n <= prog.written
    /\ Returns(WriteResults(st, n))

read(n) == Calling("read") /\ Returns(ReadResults(st, n))

unread_behind(k) ==
    /\ Calling("unread")
    /\ LET g == Len(st.got) - k
       IN  Returns({[st EXCEPT !.got = FirstOf(@, g), !.inbuf = @ \o DropFirst(st.got, g)]})

\* The program gives back the last k bytes it was given.
unread(k) ==
    /\ Calling("unread")
    /\ LET g == Len(st.got) - k
       IN  Returns({[st EXCEPT !.got = FirstOf(@, g), !.inbuf = DropFirst(st.got, g) \o @]})

flush(wait) ==
    /\ Calling("flush")
    /\ \E r \in Flush(st, wait) :
          st' = r.st /\ ret' = IF r.done THEN "true" ELSE "false"
    /\ UNCHANGED call

close == Calling("close") /\ Returns(Close(st))

noread == Calling("noread") /\ Returns(Autoclose([st EXCEPT !.stop_read = TRUE]))

nowrite == Calling("nowrite") /\ Returns(Autoclose([st EXCEPT !.stop_write = TRUE]))

flush_then_close ==
    /\ Calling("flush_then_close")
    /\ Returns({r.st : r \in Flush([st EXCEPT !.autoclose = TRUE, !.late = FALSE], FALSE)})

select(readable, writable) ==
    /\ Calling("select")
    /\ Returns({r.st : r \in SelectResults(st, readable, writable)})

\* On a stream that is not ok a new callback runs at once.
setclosecallback(cb) ==
    /\ Calling("setclosecallback")
    /\ cb > st.closecb /\ \A i \in 1..Len(st.called) : cb # st.called[i]
    /\ Returns({IF isok(st) THEN [st EXCEPT !.closecb = cb]
                 ELSE [st EXCEPT !.closecb = 0, !.called = Append(@, cb)]})

queuemin(n) == Calling("queuemin") /\ Returns({[st EXCEPT !.queue_min = n]})

outbuf_limit(n) == Calling("outbuf_limit") /\ Returns({[st EXCEPT !.max_outbuf_size = n]})

delay_output(b) ==
    /\ Calling("delay_output")
    /\ Returns({[st EXCEPT !.outbuf_delayed_flush = b, !.want_to_flush = ~b]})

auto_flush(b) == Calling("auto_flush") /\ Returns({[st EXCEPT !.is_auto_flush = b]})

-----------------------------------------------------------------------------
(* blocking_getline()                                                      *)

HasSeparator(s) == \E i \in 1..Len(s.inbuf) : s.inbuf[i] \in Separators

\* The bytes up to the first separator, or all of them if there is none.
LineLength(s) ==
    IF HasSeparator(s)
    THEN CHOOSE i \in 1..Len(s.inbuf) :
            s.inbuf[i] \in Separators /\ \A j \in 1..(i - 1) : s.inbuf[j] \notin Separators
    ELSE Len(s.inbuf)

getline_begin ==
    /\ Calling("getline")
    /\ st' \in Autoclose(st)
    /\ call' = "getline"
    /\ ret' = "none"

\* A turn that finds no reason to stop looks for data with queue_min set past the
\* end of the inbuf, and reads ahead what select() announces.
WantsMore(s) == isok(s) /\ ~HasSeparator(s) /\ ~s.stop_read

getline_turn(readahead) ==
    /\ call = "getline"
    /\ WantsMore(st)
    /\ \E r \in SelectResults([st EXCEPT !.queue_min = Len(st.inbuf) + 1], TRUE, FALSE) :
          \E u \in IF r.sure /\ isok(r.st) THEN Uread(r.st, readahead) ELSE {<<r.st, 0>>} :
             /\ st' = IntoInbuf(u[1], u[2])
             /\ IF u[2] = 0 /\ isok(u[1])
                THEN call' \in {"none", "getline"}   \* timed out: NULL, or wait on
                ELSE UNCHANGED call
    /\ ret' = "none"

\* The loop ends with a line, with the rest of the data, or with nothing; it has
\* reset queue_min unless the stream failed.
getline_return ==
    /\ call = "getline"
    /\ ~WantsMore(st)
    /\ st' = Deliver([st EXCEPT !.queue_min = IF isok(st) THEN 0 ELSE @], LineLength(st))
    /\ call' = "none"
    /\ ret' = "none"

-----------------------------------------------------------------------------
(* The peer and the clock.                                                 *)

Arrive ==
    /\ st.arrived < prog.arrived /\ ~st.eof
    /\ st' = [st EXCEPT !.arrived = @ + 1]
    /\ UNCHANGED <<call, ret>>

PeerCloses ==
    /\ ~st.eof
    /\ st' = [st EXCEPT !.eof = TRUE]
    /\ UNCHANGED <<call, ret>>

AutocloseTimeout ==
    /\ st.autoclose /\ ~st.late
    /\ st' = [st EXCEPT !.late = TRUE]
    /\ UNCHANGED <<call, ret>>

Environment == Arrive \/ PeerCloses \/ AutocloseTimeout

Step ==
    \/ \E n \in 1..prog.written : write(n)
    \/ \E n \in 1..prog.arrived : read(n) \/ getline_turn(n)
    \/ \E k \in 1..Len(st.got) : unread(k)
    \/ \E b \in BOOLEAN : flush(b) \/ delay_output(b) \/ auto_flush(b)
    \/ \E r, w \in BOOLEAN : select(r, w)
    \/ \E cb \in 1..MaxCallback : setclosecallback(cb)
    \/ \E n \in 0..MaxQueue : queuemin(n)
    \/ \E n \in Limits : outbuf_limit(n)
    \/ close \/ noread \/ nowrite \/ flush_then_close
    \/ getline_begin \/ getline_return
    \/ Environment

Next == Step /\ UNCHANGED prog

Spec == Init /\ [][Next]_vars

-----------------------------------------------------------------------------
(* Properties                                                              *)

\* Types; and between two calls no flush is under way, so none is refused later.
TypeOK ==
    /\ st \in Stream /\ ~st.is_flushing
    /\ call \in {"none", "getline"}
    /\ ret \in {"none", "true", "false"}

\* Output is never reordered, duplicated or skipped: the kernel is given the bytes
\* that write() accepted in the order they were accepted, and as long as the
\* stream is ok what is missing is exactly what waits in the outbuf.
SentInOrder ==
    /\ \A i \in 1..Len(st.sent) : st.sent[i] = i
    /\ Len(st.sent) <= st.accepted
    /\ isok(st) =>
          /\ \A i \in 1..Len(st.outbuf) : st.outbuf[i] = Len(st.sent) + i
          /\ Len(st.sent) + Len(st.outbuf) = st.accepted

\* Input is delivered in order and completely, whichever of read(), getline() and
\* unread() the program mixes: what it was given, then the inbuf, then what the
\* kernel still holds, is what the peer sent.
ReceivedInOrder ==
    /\ \A i \in 1..Len(st.got) : st.got[i] = i
    /\ \A i \in 1..Len(st.inbuf) : st.inbuf[i] = Len(st.got) + i
    /\ Taken(st) <= st.arrived

\* The program's streams are made with a write descriptor.  One without, whose output
\* is delayed, accepts what it can never send, and once noread() has closed the read
\* side as well that is thrown away without an error.
HasWriteSide == \A fds \in prog.fds : fds[2] # NoFd

\* A stream with a write descriptor that closes without an error has sent everything
\* it accepted, unless a waiting flush or flush_then_close() ran out of time.
CloseLosesNothing ==
    HasWriteSide /\ st.closed /\ ~st.err /\ ~st.timedout => Len(st.sent) = st.accepted

\* Every close callback runs at most once, and once the stream is closed none is
\* left waiting, however close() was reached and re-entered.
CloseCallbackOnce ==
    /\ \A i, j \in 1..Len(st.called) : i # j => st.called[i] # st.called[j]
    /\ \A i \in 1..Len(st.called) : st.called[i] # st.closecb
    /\ st.closed => st.closecb = 0

\* Descriptors are closed exactly once: never a second time (the number may have
\* been reused), and all of them by the time the stream is closed.
DescriptorsClosedOnce ==
    /\ ~st.doubleclose
    /\ st.open = {st.rfd, st.wfd} \ {NoFd}
    /\ st.closed => st.open = {}

\* A flush() that returns true leaves nothing in the output buffer.
FlushTrueMeansEmpty == ret = "true" => st.outbuf = << >>

\* All that a caller relies on between two calls, however flush(), close() and the
\* error path of uwrite() called one another.
StreamConsistent == TypeOK /\ FlushTrueMeansEmpty /\ CloseCallbackOnce /\ DescriptorsClosedOnce

-----------------------------------------------------------------------------
(* Liveness.  The program's main loop calls select() for ever, the clock   *)
(* goes on, and the kernel, if it is asked again and again, takes data.    *)

SelectStep == UNCHANGED prog /\ \E r, w \in BOOLEAN : select(r, w)
KernelTakes == SelectStep /\ Len(st'.sent) > Len(st.sent)

FairSpec ==
    /\ Spec
    /\ WF_vars(SelectStep)
    /\ WF_vars(AutocloseTimeout /\ UNCHANGED prog)
    /\ SF_vars(KernelTakes)

\* delay_output(true) was called, and flush() has not been since.
Delayed(s) == s.outbuf_delayed_flush /\ ~s.want_to_flush

\* What write() has buffered leaves the buffer while the program only select()s,
\* and so does delayed output for which flush() was called, even if that flush()
\* sent only a part of it or nothing; until the program delays its output again.
\* Delayed output without a flush() stays: wvstream.h says of delay_output() "To
\* flush the output buffer, use flush() or select()", but post_select() does
\* nothing while want_to_flush is off, which only flush() turns on.
BufferedOutputIsSent ==
    (isok(st) /\ st.outbuf # << >> /\ ~Delayed(st))
        ~> (st.outbuf = << >> \/ ~isok(st) \/ Delayed(st))

\* flush_then_close() ends the stream, when the buffer empties or time is up;
\* only a later delay_output(true) keeps it from looking at either.
FlushThenCloseCloses == st.autoclose ~> (~isok(st) \/ Delayed(st))

\* iwvstream.h: "If you call both noread() and nowrite(), then the stream does
\* close() automatically once all buffers are empty", which delayed output is not.
AutocloseHappens ==
    (st.stop_read /\ st.stop_write /\ st.inbuf = << >>)
        ~> (st.closed \/ (Delayed(st) /\ st.outbuf # << >>))

\* Both ways of asking for an end lead to it, while the program only select()s.
StreamsEnd == FlushThenCloseCloses /\ AutocloseHappens
=============================================================================
