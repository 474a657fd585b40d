--------------------------- MODULE WvIStreamList ---------------------------
(***************************************************************************)
(* The main loop: streams/wvistreamlist.cc, with the parts of              *)
(* streams/wvstream.cc it drives: alarms, callback(), continue_select()    *)
(* and its end, and the destructor.                                        *)
(*                                                                         *)
(* One thread.  stack holds the unfinished calls, the innermost last: a    *)
(* select(), the list's execute(), a stream's callback, a destructor, or a *)
(* suspended function that is run to its end.  User code runs at the       *)
(* bottom and in callbacks, and may do anything to any stream, in          *)
(* particular run the list again.  A context is a WvCont: it is called,    *)
(* yields, and is run to its end when dropped (see Semicoroutines).        *)
(*                                                                         *)
(* The list is the global list, from which a dying stream removes itself.  *)
(* Two rules for user code.  A callback that can be suspended does not run *)
(* the list itself: it would find itself ready, and a WvCont is not called *)
(* while it is active.  A function that is run to its end only returns, as *)
(* wvcont.h asks: "Return as soon as you can."                             *)
(***************************************************************************)
EXTENDS Integers, Sequences, SequencesExt, FiniteSets

CONSTANTS
    Streams,
    Suspending,  \* the streams with uses_continue_select
    None,        \* no alarm
    MaxTime,     \* bound: the clock stops here
    Delays,      \* the arguments of alarm() and continue_select()
    MaxDepth,    \* bound: list runs inside one another
    Budget       \* bound: what user code does, faults and clock changes

ASSUME StreamsAssumption == IsFiniteSet(Streams) /\ Suspending \subseteq Streams /\ None \notin Int
ASSUME BoundsAssumption ==
    MaxTime \in Nat /\ MaxDepth \in Nat /\ Budget \in Nat /\ Delays \subseteq Nat

VARIABLES
    obj,     \* the streams
    list,    \* WvIStreamList::globallist: streams, and whether the link owns a reference
    sure,    \* sure_thing
    stack,   \* the calls under way
    clock,   \* the wall clock
    wvstime, \* the library's copy of it
    budget

vars == <<obj, list, sure, stack, clock, wvstime, budget>>

\* The last four are history: what alarm() asked for, how far wvstime has gone
\* forward since (up to that), whether wvstime was behind last_alarm_check when it
\* was called, and whether an alarm went off too early for another reason.
Stream == [
    refs : Nat, held : BOOLEAN, closed : BOOLEAN, ready : BOOLEAN,
    alarm_time : Int \cup {None}, last_alarm_check : Int, alarm_was_ticking : BOOLEAN,
    call_ctx : {"null", "idle", "active", "paused", "finishing"},
    delay : Nat, waited : Nat, stale : BOOLEAN, early : BOOLEAN]

\* WvStream::WvStream()
NewStream == [
    refs |-> 1, held |-> TRUE, closed |-> FALSE, ready |-> FALSE,
    alarm_time |-> None, last_alarm_check |-> 0, alarm_was_ticking |-> FALSE,
    call_ctx |-> "null", delay |-> 0, waited |-> 0, stale |-> FALSE, early |-> FALSE]

Link(s, autofree) == [stream |-> s, autofree |-> autofree]

\* The program has appended some streams; a link with autofree took its reference.
Init ==
    /\ \E S \in SUBSET Streams, A \in SUBSET Streams :
          /\ A \subseteq S
          /\ \E q \in SetToSeqs(S) : list = [i \in DOMAIN q |-> Link(q[i], q[i] \in A)]
          /\ obj = [s \in Streams |-> [NewStream EXCEPT !.held = s \notin A]]
    /\ sure = << >> /\ stack = << >>
    /\ clock = 1 /\ wvstime = 1
    /\ budget = Budget

-----------------------------------------------------------------------------
(* Helpers.                                                                *)

TopFrame == Last(stack)
AtTop(kind) == stack # << >> /\ TopFrame.kind = kind
Frame(kind, s) == [kind |-> kind, stream |-> s, timeout |-> -1]

Listed(s) == \E i \in DOMAIN list : list[i].stream = s
Owned(s) == \E i \in DOMAIN list : list[i].stream = s /\ list[i].autofree

\* The elements of q at the places I, in their order.
Place(I, i) == Cardinality({j \in I : j <= i})
Subsequence(q, I) == [n \in 1..Cardinality(I) |-> q[CHOOSE i \in I : Place(I, i) = n]]

\* unlink(s), on the list and on sure_thing.
Without(q, s) == Subsequence(q, {i \in DOMAIN q : q[i].stream # s})
SureWithout(q, s) == Subsequence(q, {i \in DOMAIN q : q[i] # s})

\* release() of one reference to each stream of q: the objects afterwards, and the
\* destructors that this starts.
Released(o, q) == [s \in Streams |-> IF Contains(q, s) THEN [o[s] EXCEPT !.refs = @ - 1] ELSE o[s]]
Dying(o, q) == Subsequence(q, {i \in DOMAIN q : o[q[i]].refs = 1})
Destructors(o, q) == [i \in 1..Len(Dying(o, q)) |-> Frame("destroy", Reverse(Dying(o, q))[i])]

\* Some frames end and the references to the streams of q are dropped.
ReleaseAll(o, rest, q) ==
    /\ obj' = Released(o, q)
    /\ stack' = rest \o Destructors(o, q)

-----------------------------------------------------------------------------
(* Alarms.                                                                 *)

Larger(a, b) == IF a < b THEN b ELSE a
Smaller(a, b) == IF a < b THEN a ELSE b

Cancelled(x) == [x EXCEPT !.alarm_time = None, !.delay = 0, !.waited = 0, !.stale = FALSE]

\* alarm()
WithAlarm(x, msec) ==
    [x EXCEPT !.alarm_time = wvstime + msec, !.delay = msec, !.waited = 0,
              !.stale = x.last_alarm_check > wvstime]

Checked_twice(x, now) ==
    IF x.alarm_time = None THEN x
    ELSE [x EXCEPT !.last_alarm_check = Larger(@, now),
                   !.alarm_time = IF now < x.last_alarm_check
                                  THEN @ - (x.last_alarm_check - now) ELSE @]

\* alarm_remaining(): what it changes, and its result.
Checked(x, now) ==
    IF x.alarm_time = None THEN x
    ELSE [x EXCEPT !.last_alarm_check = now,
                   !.alarm_time = IF now < x.last_alarm_check
                                  THEN @ - (x.last_alarm_check - now) ELSE @]

Remaining(x, now) ==
    IF x.alarm_time = None THEN -1
    ELSE IF x.alarm_time < now THEN 0 ELSE x.alarm_time - now

\* wvstime moves to t.
Synced(o, t) ==
    [s \in Streams |-> IF o[s].alarm_time = None \/ t < wvstime THEN o[s]
                       ELSE [o[s] EXCEPT !.waited = Smaller(@ + (t - wvstime), o[s].delay)]]

-----------------------------------------------------------------------------
(* select() on the list.                                                   *)

\* User code runs at the bottom and in callbacks.
UserCode == stack = << >> \/ AtTop("callback")

Depth == Cardinality({i \in DOMAIN stack : stack[i].kind \in {"select", "execute"}})
MayRunList ==
    \/ stack = << >>
    \/ AtTop("callback") /\ TopFrame.stream \notin Suspending /\ Depth < MaxDepth /\ budget > 0

TimeoutOf_ignoresalarm(o, streams, now) == IF \E s \in streams : o[s].closed THEN 0 ELSE -1

\* The timeout that pre_select() of the streams leaves; -1 is none.
TimeoutOf(o, streams, now) ==
    LET left == {Remaining(o[s], now) : s \in streams} \ {-1}
    IN  IF \E s \in streams : o[s].closed THEN 0
        ELSE IF left = {} THEN -1
        ELSE CHOOSE d \in left : \A e \in left : d <= e

\* wvstime_sync(), and every stream of the list looks at its alarm.
SyncedAndChecked(now) ==
    [s \in Streams |-> IF Listed(s) THEN Checked(Synced(obj, now)[s], now) ELSE Synced(obj, now)[s]]

\* _build_selectinfo() and the list's pre_select(): sure_thing is zapped first, and
\* streams that this destroys are off the list.
pre_select ==
    /\ MayRunList
    /\ budget' = IF stack = << >> THEN budget ELSE budget - 1
    /\ wvstime' = clock
    /\ LET o == SyncedAndChecked(clock)
           left == {s \in Streams : Listed(s)} \ ToSet(Dying(obj, sure))
           frame == [Frame("select", None) EXCEPT !.timeout = TimeoutOf(o, left, clock)]
       IN  ReleaseAll(o, Append(stack, frame), sure)
    /\ sure' = << >>
    /\ UNCHANGED <<list, clock>>

Selects(x, now) == Remaining(x, now) = 0 \/ (x.ready /\ ~x.closed)

\* The kernel returns; _process_selectinfo() and the list's post_select(): a ready
\* stream is referenced and put on sure_thing, a closed one is pruned.  runonce()
\* then calls the list's callback().
post_select ==
    /\ AtTop("select")
    /\ TopFrame.timeout = 0 \/ \E s \in Streams : Listed(s) /\ obj[s].ready /\ ~obj[s].closed
    /\ LET now == Larger(wvstime, clock)
           checked == SyncedAndChecked(now)
           o == [s \in Streams |-> IF Listed(s) /\ Selects(checked[s], now)
                                   THEN [checked[s] EXCEPT !.refs = @ + 1] ELSE checked[s]]
           streams == [i \in DOMAIN list |-> list[i].stream]
           pruned == {i \in DOMAIN list : obj[list[i].stream].closed}
           freed == {i \in pruned : list[i].autofree}
       IN  /\ wvstime' = now
           /\ sure' = Subsequence(streams, {i \in DOMAIN list : Selects(checked[list[i].stream], now)})
           /\ list' = Subsequence(list, DOMAIN list \ pruned)
           /\ ReleaseAll(o,
                 IF sure' # << >> \/ pruned # {}
                 THEN Append(Front(stack), Frame("execute", None)) ELSE Front(stack),
                 Subsequence(streams, freed))
    /\ UNCHANGED <<clock, budget>>

\* The kernel's select() is interrupted: nothing is looked at.
interrupted ==
    /\ AtTop("select") /\ budget > 0
    /\ stack' = Front(stack)
    /\ budget' = budget - 1
    /\ UNCHANGED <<obj, list, sure, clock, wvstime>>

-----------------------------------------------------------------------------
(* execute() on the list, and WvStream::callback().                        *)

\* The alarm is over if it was this that made the stream ready.
Ticked(x) ==
    LET y == Checked(x, wvstime)
        rings == Remaining(y, wvstime) = 0
    IN  [(IF rings THEN Cancelled(y) ELSE y) EXCEPT
            !.alarm_was_ticking = rings,
            !.early = @ \/ (rings /\ y.waited < y.delay /\ ~y.stale)]

\* What remains of continue_select() after its yield(): alarm(-1) and, if the alarm
\* was ticking, a select(0) on the stream alone, which sets wvstime.
Resumed(x) == Cancelled(x)

\* The reference that sure_thing had is now execute()'s.
execute_next ==
    /\ AtTop("execute") /\ sure # << >>
    /\ LET s == Head(sure)
           x == Ticked(obj[s])
           resumes == x.call_ctx = "paused"
           now == IF resumes /\ x.alarm_was_ticking THEN clock ELSE wvstime
           y == IF resumes THEN Resumed(x) ELSE x
           z == IF s \in Suspending THEN [y EXCEPT !.call_ctx = "active"] ELSE y
       IN  /\ obj' = Synced([obj EXCEPT ![s] = z], now)
           /\ wvstime' = now
           /\ sure' = Tail(sure)
           /\ stack' = Append(stack, Frame("callback", s))
    /\ UNCHANGED <<list, clock, budget>>

execute_done_one ==
    /\ AtTop("execute")
    /\ ReleaseAll(obj, Front(stack), sure)
    /\ sure' = << >>
    /\ UNCHANGED <<list, clock, wvstime, budget>>

execute_done ==
    /\ AtTop("execute") /\ sure = << >>
    /\ stack' = Front(stack)
    /\ UNCHANGED <<obj, list, sure, clock, wvstime, budget>>

\* The callback returns, and execute() releases the stream.
callback_returns ==
    /\ AtTop("callback")
    /\ LET s == TopFrame.stream
           x == IF obj[s].call_ctx = "active" THEN "idle" ELSE obj[s].call_ctx
       IN  ReleaseAll([obj EXCEPT ![s].call_ctx = x], Front(stack), <<s>>)
    /\ UNCHANGED <<list, sure, clock, wvstime, budget>>

\* User code does something.
Acts == UserCode /\ budget > 0 /\ budget' = budget - 1 /\ UNCHANGED <<clock, wvstime>>

\* continue_select() up to its yield(): callback() and execute() go on.
continue_select(msec) ==
    /\ AtTop("callback") /\ Acts
    /\ LET s == TopFrame.stream
           x == IF msec = None THEN Cancelled(obj[s]) ELSE WithAlarm(obj[s], msec)
       IN  /\ obj[s].call_ctx = "active"
           /\ ReleaseAll([obj EXCEPT ![s] = [x EXCEPT !.call_ctx = "paused"]], Front(stack), <<s>>)
    /\ UNCHANGED <<list, sure>>

-----------------------------------------------------------------------------
(* Dropping a context; destroying a stream.                                *)

\* call_ctx = 0: a suspended function runs to its end first; one that is running
\* ends with this activation.
DropContext(o, rest, s) ==
    IF o[s].call_ctx = "paused"
    THEN /\ obj' = [o EXCEPT ![s] = [Resumed(@) EXCEPT !.call_ctx = "finishing"]]
         /\ stack' = Append(rest, Frame("finish", s))
    ELSE /\ obj' = [o EXCEPT ![s].call_ctx = IF @ = "finishing" THEN @ ELSE "null"]
         /\ stack' = rest

\* The function has returned.
finish_returns ==
    /\ AtTop("finish")
    /\ obj' = [obj EXCEPT ![TopFrame.stream].call_ctx = "null"]
    /\ stack' = Front(stack)
    /\ UNCHANGED <<list, sure, clock, wvstime, budget>>

\* The destructor of a derived class: terminate_continue_select().
destroy_terminate ==
    /\ AtTop("destroy") /\ obj[TopFrame.stream].call_ctx # "null"
    /\ DropContext([obj EXCEPT ![TopFrame.stream].closed = TRUE], stack, TopFrame.stream)
    /\ UNCHANGED <<list, sure, clock, wvstime, budget>>

destroy_end_staysinlist ==
    /\ AtTop("destroy") /\ obj[TopFrame.stream].call_ctx = "null"
    /\ obj' = [obj EXCEPT ![TopFrame.stream].closed = TRUE]
    /\ stack' = Front(stack)
    /\ UNCHANGED <<list, sure, clock, wvstime, budget>>

\* ~WvStream(): close(), and off the global list.
destroy_end ==
    /\ AtTop("destroy") /\ obj[TopFrame.stream].call_ctx = "null"
    /\ LET s == TopFrame.stream
       IN  /\ obj' = [obj EXCEPT ![s].closed = TRUE]
           /\ list' = Without(list, s)
           /\ sure' = SureWithout(sure, s)
    /\ stack' = Front(stack)
    /\ UNCHANGED <<clock, wvstime, budget>>

-----------------------------------------------------------------------------
(* What user code does to a stream it can reach.                           *)

Exists(s) == obj[s].refs > 0

alarm(s, msec) ==
    /\ Acts /\ Exists(s)
    /\ obj' = [obj EXCEPT ![s] = IF msec = None THEN Cancelled(@) ELSE WithAlarm(@, msec)]
    /\ UNCHANGED <<list, sure, stack>>

close(s) ==
    /\ Acts /\ Exists(s) /\ ~obj[s].closed
    /\ obj' = [obj EXCEPT ![s].closed = TRUE, ![s].ready = FALSE]
    /\ UNCHANGED <<list, sure, stack>>

setcallback(s) ==
    /\ Acts /\ Exists(s) /\ s \in Suspending
    /\ DropContext(obj, stack, s)
    /\ UNCHANGED <<list, sure>>

terminate_continue_select(s) ==
    /\ Acts /\ Exists(s) /\ s \in Suspending
    /\ DropContext([obj EXCEPT ![s].closed = TRUE, ![s].ready = FALSE], stack, s)
    /\ UNCHANGED <<list, sure>>

\* A stream is appended with autofree by someone who has a reference to give away.
append(s, autofree) ==
    /\ Acts /\ obj[s].held /\ ~Listed(s)
    /\ list' = Append(list, Link(s, autofree))
    /\ obj' = [obj EXCEPT ![s].held = ~autofree]
    /\ UNCHANGED <<sure, stack>>

unlink_onlylist(s) ==
    /\ Acts /\ Listed(s)
    /\ list' = Without(list, s)
    /\ ReleaseAll(obj, stack, IF Owned(s) THEN <<s>> ELSE << >>)
    /\ UNCHANGED sure

\* Off sure_thing, then off the list; each may have owned a reference.
unlink(s) ==
    /\ Acts /\ Listed(s)
    /\ IF Contains(sure, s) /\ Owned(s)
       THEN ReleaseAll([obj EXCEPT ![s].refs = @ - 1], stack, <<s>>)
       ELSE ReleaseAll(obj, stack, IF Contains(sure, s) \/ Owned(s) THEN <<s>> ELSE << >>)
    /\ list' = Without(list, s)
    /\ sure' = SureWithout(sure, s)

\* WVRELEASE() of the program's own reference.
release(s) ==
    /\ Acts /\ obj[s].held
    /\ ReleaseAll([obj EXCEPT ![s].held = FALSE], stack, <<s>>)
    /\ UNCHANGED <<list, sure>>

\* The program reads what is there.
drain(s) ==
    /\ Acts /\ Exists(s) /\ obj[s].ready
    /\ obj' = [obj EXCEPT ![s].ready = FALSE]
    /\ UNCHANGED <<list, sure, stack>>

-----------------------------------------------------------------------------
(* The world.                                                              *)

\* Data arrives.
Arrive(s) ==
    /\ Exists(s) /\ ~obj[s].closed /\ ~obj[s].ready
    /\ obj' = [obj EXCEPT ![s].ready = TRUE]
    /\ UNCHANGED <<list, sure, stack, clock, wvstime, budget>>

\* Time passes, for the kernel's timeout too.
Tick ==
    /\ clock < MaxTime
    /\ clock' = clock + 1
    /\ stack' = IF AtTop("select") /\ TopFrame.timeout > 0
                THEN Append(Front(stack), [TopFrame EXCEPT !.timeout = @ - 1]) ELSE stack
    /\ UNCHANGED <<obj, list, sure, wvstime, budget>>

\* Someone sets the clock back.
SetBack ==
    /\ budget > 0 /\ budget' = budget - 1
    /\ \E t \in 1..(clock - 1) : clock' = t
    /\ UNCHANGED <<obj, list, sure, stack, wvstime>>

-----------------------------------------------------------------------------

Loop ==
    \/ post_select \/ execute_next \/ execute_done \/ callback_returns
    \/ finish_returns \/ destroy_terminate \/ destroy_end

User ==
    \/ \E msec \in Delays \cup {None} : continue_select(msec) \/ \E s \in Streams : alarm(s, msec)
    \/ \E s \in Streams, af \in BOOLEAN : append(s, af)
    \/ \E s \in Streams :
          \/ close(s) \/ setcallback(s) \/ terminate_continue_select(s)
          \/ unlink(s) \/ release(s) \/ drain(s)

Next ==
    \/ pre_select \/ Loop \/ User \/ interrupted \/ Tick \/ SetBack
    \/ \E s \in Streams : Arrive(s)

\* The program runs the list for ever, callbacks return, and time passes.
Fairness == WF_vars((stack = << >> /\ pre_select) \/ Loop) /\ WF_vars(Tick)

Spec == Init /\ [][Next]_vars /\ Fairness

-----------------------------------------------------------------------------
(* Properties                                                              *)

Frames(kind, s) == Cardinality({i \in DOMAIN stack : stack[i].kind = kind /\ stack[i].stream = s})
One(b) == IF b THEN 1 ELSE 0

\* Types; and the reference count of a stream is the number of those that will
\* release it: the program, the list, sure_thing, and each execute() that has
\* called it.
TypeOK ==
    /\ obj \in [Streams -> Stream]
    /\ \A s \in Streams :
          obj[s].refs = One(obj[s].held) + One(Owned(s)) + One(Contains(sure, s)) + Frames("callback", s)

Gone(s) == obj[s].refs = 0 /\ Frames("destroy", s) = 0

\* A destroyed stream is not on the list, not on sure_thing, has no callback that
\* runs or is suspended: nothing will touch it again.
NothingDangles ==
    \A s \in Streams : Gone(s) =>
        /\ ~Listed(s) /\ ~Contains(sure, s)
        /\ Frames("callback", s) = 0 /\ Frames("finish", s) = 0
        /\ obj[s].call_ctx = "null"

\* References are counted right, and what is gone is forgotten.
ListConsistent == TypeOK /\ NothingDangles

\* A stream that was taken off the list before its turn is not called any more in
\* this round; only one that post_select() itself pruned is called a last time.
RemovedStreamsDoNotRun ==
    \A s \in Streams : Contains(sure, s) => Listed(s) \/ obj[s].closed

\* alarm(): "select() will return true after this many ms": it never goes off before
\* wvstime has gone forward that far, however the clock is set back, unless the
\* clock was behind the stream's last check when the alarm was set.
AlarmNotEarly == \A s \in Streams : ~obj[s].early

\* A stream on the list that has data is called, whatever other streams' callbacks
\* do in the meantime.
ReadyStreamsRun ==
    \A s \in Streams :
        (Listed(s) /\ obj[s].ready /\ ~obj[s].closed)
            ~> (Frames("callback", s) > 0 \/ ~Listed(s) \/ ~obj[s].ready \/ obj[s].closed)

\* An alarm on a stream on the list goes off although nothing else happens, if the
\* clock gets far enough.
AlarmsRing ==
    \A s \in Streams :
        (Listed(s) /\ obj[s].alarm_time # None)
            ~> (obj[s].alarm_time = None \/ ~Listed(s) \/ obj[s].alarm_time > MaxTime)
=============================================================================
