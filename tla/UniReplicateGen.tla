--------------------------- MODULE UniReplicateGen ---------------------------
(***************************************************************************)
(* Replicas that come and go: uniconf/unireplicategen.cc over generators   *)
(* in the program's own memory (UniTempGen) and remote ones: a UniRetryGen *)
(* (uniconf/uniretrygen.cc) whose inner generator is a UniClientGen        *)
(* connected to a daemon.                                                  *)
(*                                                                         *)
(* One thread.  stack holds the calls under way, the innermost last.  User *)
(* code runs when it is empty and, as a watcher, on top of a "told" frame. *)
(* A local generator notifies inside set(); a daemon's notice is under way *)
(* for a while and is read by a later call or by the main loop.  Between   *)
(* any two steps other programs change the daemons' contents, connections  *)
(* break, daemons come back and time passes.                               *)
(*                                                                         *)
(* Keys have no children.  A daemon executes a request at once.            *)
(***************************************************************************)
EXTENDS Integers, Sequences, SequencesExt, FiniteSets

CONSTANTS
    Gens,      \* the inner generators
    Remote,    \* those that are a retry: of a daemon
    Orders,    \* the possible lists of generators to begin with,
    Starts,    \* and what the generators hold then
    Edits,     \* bound: the changes that the program and others make
    Keys, Values,
    Null,      \* no value
    None,
    Interval,  \* retry_interval_ms
    MaxTime,   \* bound: the clock stops here
    Budget     \* bound: calls, changes by others, and faults

ASSUME ReplicaAssumption ==
    /\ IsFiniteSet(Gens) /\ Remote \subseteq Gens /\ None \notin Gens
    /\ IsFiniteSet(Keys) /\ Null \notin Values
    /\ \A q \in Orders : q \in Seq(Gens) /\ \A m, n \in DOMAIN q : q[m] = q[n] => m = n
    /\ Starts \subseteq [Gens -> [Keys -> Values \cup {Null}]]
    /\ Edits \subseteq [key : Keys, value : Values \cup {Null}]
    /\ Interval \in Nat \ {0} /\ MaxTime \in Nat /\ Budget \in Nat

VARIABLES
    order,   \* gens: the list of generators
    gen,     \* each of them, with the daemon behind it
    stack,   \* the calls under way
    deltas,  \* notices to the watchers that are held
    seen,    \* history: what the watchers have been told
    dropped, \* history: a notice was ignored that was not an echo
    lost,    \* history: a notice was lost with its connection, or part of a replicate()
    unseen,  \* history: a generator came back and replicate() was not called
    up,      \* the daemons that can be reached
    now,     \* wvtime()
    budget

vars == <<order, gen, stack, deltas, seen, dropped, lost, unseen, up, now, budget>>

Contents == [Keys -> Values \cup {Null}]
Change == [key : Keys, value : Values \cup {Null}]
Changes(k, v) == [key |-> k, value |-> v]

\* next is next_reconnect_attempt; since and tries are history: when the first
\* attempt was due, and the attempts since then.
Generator == [
    val : Contents, conn : {"none", "ok", "broken"}, was_ok : BOOLEAN,
    inbox : Seq(Change), next : Nat, since : Nat, tries : Nat]

\* A call: pc, the change it is about and the generator it came from; for replicate()
\* also the first good generator, those still to be visited, and what is listed.
Frame(pc) == [pc |-> pc, c |-> None, src |-> None, first |-> None, todo |-> << >>, items |-> << >>]
Setting(c) == [Frame("set") EXCEPT !.c = c]
Noticing(src, c) == [Frame("delta") EXCEPT !.src = src, !.c = c]
Telling(c) == [Frame("told") EXCEPT !.c = c]

-----------------------------------------------------------------------------
(* UniRetryGen                                                             *)

Reconnect_keepsdate(g, reachable) ==
    IF g.conn # "none" \/ now < g.next THEN g
    ELSE IF reachable THEN [g EXCEPT !.conn = "ok"]
    ELSE [g EXCEPT !.tries = @ + 1]

\* maybe_reconnect(): after a failure the next attempt counts from when this was due.
Reconnect(g, reachable) ==
    IF g.conn # "none" \/ now < g.next THEN g
    ELSE IF reachable THEN [g EXCEPT !.conn = "ok"]
    ELSE [g EXCEPT !.next = @ + Interval, !.tries = @ + 1]

Disconnect_never(g) == g

\* maybe_disconnect()
Disconnect(g) ==
    IF g.conn # "broken" THEN g
    ELSE [g EXCEPT !.conn = "none", !.next = now + Interval, !.since = now + Interval, !.tries = 0]

\* isok(), and what the other calls do before they look for a connection.
Touch(g, i) == Disconnect(Reconnect(g, up[i]))

-----------------------------------------------------------------------------
(* The inner generators.                                                   *)

\* Gen::isok() remembers its result.
GenIsOk(g, i) == LET t == Touch(g, i) IN [t EXCEPT !.was_ok = t.conn = "ok"]

\* first_ok() asks one after the other until one is; Asked are those it has asked.
IsFirst(i) ==
    \E n \in DOMAIN order :
        /\ order[n] = i /\ Touch(gen[i], i).conn = "ok"
        /\ \A m \in 1..(n - 1) : Touch(gen[order[m]], order[m]).conn # "ok"
FirstOk == IF \E i \in Gens : IsFirst(i) THEN CHOOSE i \in Gens : IsFirst(i) ELSE None
Asked == {order[n] : n \in {m \in DOMAIN order : \A l \in 1..(m - 1) : ~IsFirst(order[l])}}
AfterFirstOk == [i \in Gens |-> IF i \in Asked THEN GenIsOk(gen[i], i) ELSE gen[i]]

\* set(): what generator i stores, ...
Put(g, i, c, arrived) ==
    IF g.conn # "ok" THEN g
    ELSE [g EXCEPT !.val[c.key] = c.value,
                   !.inbox = IF i \notin Remote THEN << >>
                             ELSE (IF arrived THEN << >> ELSE @)
                                  \o (IF g.val[c.key] = c.value THEN << >> ELSE <<c>>)]

\* ... and the notices that come back inside the call: of this change from a local
\* generator, of earlier ones from a daemon, if UniClientGen::set() finds them in
\* the socket.
Notices(g, i, c, arrived) ==
    IF g.conn # "ok" THEN << >>
    ELSE IF i \in Remote THEN (IF arrived THEN g.inbox ELSE << >>)
    ELSE IF g.val[c.key] = c.value THEN << >> ELSE <<c>>

\* Calls of deltacallback() for a sequence of notices; the first one is innermost.
Callbacks(i, notices) == [n \in DOMAIN notices |-> Noticing(i, Reverse(notices)[n])]

-----------------------------------------------------------------------------
(* The stack.                                                              *)

Top == Last(stack)
At(pc) == stack # << >> /\ Top.pc = pc
Pop == Front(stack)
OnStack(pcs) == \E n \in DOMAIN stack : stack[n].pc \in pcs
Becomes(f) == Append(Pop, f)

processing_callback == OnStack({"pass", "delivered"})
Held == OnStack({"replicate", "flush"})

Outside == UNCHANGED <<up, now, budget, lost>>

\* A generator on the list is connected to again, and replicate() does not follow, or
\* notices from its old connection are still to be passed on.
Unnoticed ==
    \E i \in ToSet(order) :
        /\ gen[i].conn = "none" /\ gen'[i].conn = "ok"
        /\ \/ ~At("begin") /\ (stack' = << >> \/ Last(stack').pc # "begin")
           \/ \E n \in DOMAIN stack : stack[n].pc = "delta" /\ stack[n].src = i
Inside == unseen' = (unseen \/ Unnoticed) /\ UNCHANGED <<order, seen, deltas>>

-----------------------------------------------------------------------------
(* deltacallback()                                                         *)

\* What comes back while a notice is passed on is ignored, its echo or not.
Ignores(notices) ==
    dropped' = (dropped \/ \E n \in DOMAIN notices : notices[n] # Top.c)

delta_ignored ==
    /\ At("delta") /\ processing_callback
    /\ dropped' = TRUE
    /\ stack' = Pop
    /\ UNCHANGED gen /\ Inside /\ Outside

delta_begins ==
    /\ At("delta") /\ ~processing_callback
    /\ stack' = Becomes([Top EXCEPT !.pc = "pass", !.todo = order])
    /\ UNCHANGED <<gen, dropped>> /\ Inside /\ Outside

pass_on_back ==
    /\ At("pass") /\ Top.todo # << >>
    /\ \E arrived \in BOOLEAN :
         LET j == Head(Top.todo)
             g == GenIsOk(gen[j], j)
         IN  /\ gen' = [gen EXCEPT ![j] = IF g.was_ok THEN Put(g, j, Top.c, arrived) ELSE g]
             /\ Ignores(IF g.was_ok THEN Notices(g, j, Top.c, arrived) ELSE << >>)
    /\ stack' = Becomes([Top EXCEPT !.todo = Tail(@)])
    /\ Inside /\ Outside

pass_on_onlyfirst ==
    /\ At("pass") /\ Top.todo # << >>
    /\ \E arrived \in BOOLEAN :
         LET j == Head(Top.todo)
             g == GenIsOk(gen[j], j)
             sets == g.was_ok /\ j # Top.src
         IN  /\ gen' = [gen EXCEPT ![j] = IF sets THEN Put(g, j, Top.c, arrived) ELSE g]
             /\ Ignores(IF sets THEN Notices(g, j, Top.c, arrived) ELSE << >>)
    /\ stack' = Becomes([Top EXCEPT !.todo = << >>])
    /\ Inside /\ Outside

\* To the next generator, if it is ok and not where the notice came from.  What that
\* one sends back is ignored.
pass_on ==
    /\ At("pass") /\ Top.todo # << >>
    /\ \E arrived \in BOOLEAN :
         LET j == Head(Top.todo)
             g == GenIsOk(gen[j], j)
             sets == g.was_ok /\ j # Top.src
         IN  /\ gen' = [gen EXCEPT ![j] = IF sets THEN Put(g, j, Top.c, arrived) ELSE g]
             /\ Ignores(IF sets THEN Notices(g, j, Top.c, arrived) ELSE << >>)
    /\ stack' = Becomes([Top EXCEPT !.todo = Tail(@)])
    /\ Inside /\ Outside

pass_tells_nobody ==
    /\ At("pass") /\ Top.todo = << >>
    /\ stack' = Pop
    /\ UNCHANGED <<gen, dropped>> /\ Inside /\ Outside

\* delta(): held, or the watchers are told at once, inside deltacallback().
pass_tells ==
    /\ At("pass") /\ Top.todo = << >>
    /\ IF Held
       THEN deltas' = Append(deltas, Top.c) /\ stack' = Pop /\ UNCHANGED seen
       ELSE /\ seen' = [seen EXCEPT ![Top.c.key] = Top.c.value]
            /\ stack' = Becomes([Top EXCEPT !.pc = "delivered"]) \o <<Telling(Top.c)>>
            /\ UNCHANGED deltas
    /\ UNCHANGED <<order, gen, dropped, unseen>> /\ Outside

\* The watchers return, and then deltacallback().
returns ==
    /\ At("told") \/ At("delivered")
    /\ stack' = Pop
    /\ UNCHANGED <<gen, dropped>> /\ Inside /\ Outside

-----------------------------------------------------------------------------
(* replicate()                                                             *)

replicate_next ==
    /\ At("replicate") /\ Top.items = << >> /\ Top.todo # << >>
    /\ LET j == Head(Top.todo)
           g == GenIsOk(gen[j], j)
           listed == SetToSeq({Changes(k, g.val[k]) : k \in {q \in Keys : g.val[q] # Null}})
           f == [Top EXCEPT !.todo = Tail(@), !.src = j, !.items = IF g.was_ok THEN listed ELSE << >>]
       IN  /\ gen' = [gen EXCEPT ![j] = IF g.was_ok THEN [g EXCEPT !.inbox = << >>] ELSE g]
           /\ stack' = Becomes(f) \o (IF g.was_ok THEN Callbacks(j, g.inbox) ELSE << >>)
    /\ UNCHANGED dropped /\ Inside /\ Outside

\* What the first generator has goes to all others ...
replicate_first ==
    /\ At("replicate") /\ Top.items # << >> /\ Top.src = Top.first
    /\ stack' = Becomes([Top EXCEPT !.items = Tail(@)]) \o <<Noticing(Top.first, Head(Top.items))>>
    /\ UNCHANGED <<gen, dropped>> /\ Inside /\ Outside

\* ... and what another one has and the first has not goes to the first.
replicate_missing ==
    /\ At("replicate") /\ Top.items # << >> /\ Top.src # Top.first /\ Top.first # None
    /\ LET i == Top.first
           g == Touch(gen[i], i)
           c == Head(Top.items)
           missing == g.conn # "ok" \/ g.val[c.key] = Null
           \* exists() has read the notices
           h == IF g.conn = "ok" THEN [g EXCEPT !.inbox = << >>] ELSE g
       IN  /\ gen' = [gen EXCEPT ![i] = IF missing THEN Put(h, i, c, TRUE) ELSE h]
           /\ stack' = Becomes([Top EXCEPT !.items = Tail(@)])
                       \o Callbacks(i, (IF g.conn = "ok" THEN g.inbox ELSE << >>)
                                       \o (IF missing THEN Notices(h, i, c, TRUE) ELSE << >>))
    /\ UNCHANGED dropped /\ Inside /\ Outside

\* There was no first generator, and now there is one: first->gen is used all the
\* same, and nothing goes on.
replicate_crashes ==
    /\ At("replicate") /\ Top.items # << >> /\ Top.first = None
    /\ stack' = <<Frame("crashed")>>
    /\ UNCHANGED <<gen, dropped>> /\ Inside /\ Outside

\* unhold_delta(): only the outermost one tells the watchers.
replicate_ends ==
    /\ At("replicate") /\ Top.items = << >> /\ Top.todo = << >>
    /\ stack' = IF \E n \in 1..Len(Pop) : stack[n].pc \in {"replicate", "flush"} THEN Pop
                ELSE Becomes(Frame("flush"))
    /\ UNCHANGED <<gen, dropped>> /\ Inside /\ Outside

flush_delta ==
    /\ At("flush")
    /\ IF deltas = << >>
       THEN stack' = Pop /\ UNCHANGED <<seen, deltas>>
       ELSE /\ seen' = [seen EXCEPT ![Head(deltas).key] = Head(deltas).value]
            /\ deltas' = Tail(deltas)
            /\ stack' = Append(stack, Telling(Head(deltas)))
    /\ UNCHANGED <<order, gen, dropped, unseen>> /\ Outside

\* The call itself: first_ok().
replicate ==
    /\ At("begin")
    /\ gen' = AfterFirstOk
    /\ stack' = Becomes([Frame("replicate") EXCEPT !.first = FirstOk, !.todo = order])
    /\ UNCHANGED dropped /\ Inside /\ Outside

\* What follows it.
Rest == [set |-> "set2", get |-> "get2", refresh |-> "refresh2"]

BackAgain == {i \in ToSet(order) : ~gen[i].was_ok /\ Touch(gen[i], i).conn = "ok"}

\* replicate_if_any_have_become_ok(), which every call but isok() begins with.
replicate_if_any_have_become_ok ==
    /\ \E pc \in DOMAIN Rest : At(pc)
    /\ gen' = [i \in Gens |-> IF i \in ToSet(order) /\ ~gen[i].was_ok
                              THEN [Touch(gen[i], i) EXCEPT !.was_ok = i \in BackAgain] ELSE gen[i]]
    /\ stack' = Becomes([Top EXCEPT !.pc = Rest[@]])
                \o (IF BackAgain = {} THEN << >> ELSE <<Frame("begin")>>)
    /\ UNCHANGED dropped /\ Inside /\ Outside

-----------------------------------------------------------------------------
(* The rest of set(), get() (or iterator()), and refresh() (or commit()).  *)

set_first ==
    /\ At("set2")
    /\ \E arrived \in BOOLEAN :
         LET i == FirstOk
             g == AfterFirstOk
         IN  /\ gen' = IF i = None THEN g ELSE [g EXCEPT ![i] = Put(@, i, Top.c, arrived)]
             /\ stack' = Pop \o (IF i = None THEN << >>
                                 ELSE Callbacks(i, Notices(g[i], i, Top.c, arrived)))
    /\ UNCHANGED dropped /\ Inside /\ Outside

get_first ==
    /\ At("get2")
    /\ LET i == FirstOk
           g == AfterFirstOk
       IN  /\ gen' = IF i = None THEN g ELSE [g EXCEPT ![i].inbox = << >>]
           /\ stack' = Pop \o (IF i = None THEN << >> ELSE Callbacks(i, g[i].inbox))
    /\ UNCHANGED dropped /\ Inside /\ Outside

\* The connection breaks before the answer, and isok() says so.
get_fails ==
    /\ At("get2") /\ FirstOk \in Remote /\ budget > 0
    /\ LET i == FirstOk
           broken == [AfterFirstOk EXCEPT ![i].conn = "broken", ![i].inbox = << >>]
       IN  gen' = [broken EXCEPT ![i] = GenIsOk(@, i)]
    /\ stack' = Becomes([Frame("get3") EXCEPT !.src = FirstOk])
    /\ budget' = budget - 1
    /\ lost' = (lost \/ AfterFirstOk[FirstOk].inbox # << >>)
    /\ UNCHANGED <<dropped, up, now>> /\ Inside

\* first_ok() once more: unless it is the same one again, the loop starts over.
get_again ==
    /\ At("get3")
    /\ gen' = AfterFirstOk
    /\ stack' = IF FirstOk = Top.src THEN Pop ELSE Becomes(Frame("get"))
    /\ UNCHANGED dropped /\ Inside /\ Outside

\* The loop's iterator is on the list, which watchers may add to.
NextPlace == IF Top.src = None THEN 1 ELSE 1 + CHOOSE n \in DOMAIN order : order[n] = Top.src

refresh_next ==
    /\ At("refresh2") /\ NextPlace \in DOMAIN order
    /\ LET j == order[NextPlace]
       IN  /\ gen' = [gen EXCEPT ![j] = [Touch(@, j) EXCEPT !.inbox = << >>]]
           /\ stack' = Becomes([Top EXCEPT !.src = j]) \o Callbacks(j, gen[j].inbox)
    /\ UNCHANGED dropped /\ Inside /\ Outside

refresh_ends ==
    /\ At("refresh2") /\ NextPlace \notin DOMAIN order
    /\ stack' = Pop
    /\ UNCHANGED <<gen, dropped>> /\ Inside /\ Outside

-----------------------------------------------------------------------------
(* User code.                                                              *)

UserCode == stack = << >> \/ At("told")
Acts == UserCode /\ budget > 0 /\ budget' = budget - 1 /\ UNCHANGED <<up, now, dropped, lost>>

set(c) == Acts /\ stack' = Append(stack, Setting(c)) /\ UNCHANGED gen /\ Inside
refresh == Acts /\ stack' = Append(stack, Frame("refresh")) /\ UNCHANGED gen /\ Inside

\* The program reads as long as it likes.
get ==
    /\ stack = << >>
    /\ stack' = <<Frame("get")>>
    /\ UNCHANGED <<gen, dropped>> /\ Inside /\ Outside

isok == Acts /\ gen' = AfterFirstOk /\ UNCHANGED stack /\ Inside

\* append() and prepend() of a generator that is not on the list yet.
Adds(i) ==
    /\ Acts /\ i \notin ToSet(order)
    /\ gen' = [gen EXCEPT ![i] = GenIsOk(@, i)]
    /\ stack' = Append(stack, Frame("begin"))
    /\ UNCHANGED <<unseen, deltas, seen>>

append(i) == order' = Append(order, i) /\ Adds(i)
prepend(i) == order' = <<i>> \o order /\ Adds(i)

\* Another part of the program sets a key of a local generator.
set_local(i, c) ==
    /\ Acts /\ gen[i].val[c.key] # c.value
    /\ gen' = [gen EXCEPT ![i].val[c.key] = c.value]
    /\ stack' = stack \o (IF i \in ToSet(order) THEN <<Noticing(i, c)>> ELSE << >>)
    /\ Inside

-----------------------------------------------------------------------------
(* The world.                                                              *)

\* The main loop reads a notice from a daemon.
Deliver(i) ==
    /\ stack = << >> /\ i \in ToSet(order) /\ gen[i].inbox # << >>
    /\ gen' = [gen EXCEPT ![i].inbox = Tail(@)]
    /\ stack' = <<Noticing(i, Head(gen[i].inbox))>>
    /\ UNCHANGED dropped /\ Inside /\ Outside

\* Another program changes a daemon's contents.
Elsewhere(i, c) ==
    /\ up[i] /\ gen[i].val[c.key] # c.value /\ budget > 0 /\ budget' = budget - 1
    /\ gen' = [gen EXCEPT ![i].val[c.key] = c.value,
                          ![i].inbox = IF gen[i].conn = "ok" /\ i \in ToSet(order) THEN Append(@, c) ELSE << >>]
    /\ UNCHANGED <<stack, dropped, lost, up, now>> /\ Inside

\* The connection breaks, and the daemon may be gone.
Breaks(i) ==
    /\ gen[i].conn = "ok" /\ budget > 0 /\ budget' = budget - 1
    /\ gen' = [gen EXCEPT ![i].conn = "broken", ![i].inbox = << >>]
    /\ \E b \in BOOLEAN : up' = [up EXCEPT ![i] = b]
    /\ lost' = (lost \/ gen[i].inbox # << >> \/ OnStack({"replicate"}))
    /\ UNCHANGED <<stack, dropped, now>> /\ Inside

ComesUp(i) ==
    /\ ~up[i] /\ up' = [up EXCEPT ![i] = TRUE]
    /\ UNCHANGED <<gen, stack, dropped, lost, now, budget>> /\ Inside

Tick ==
    /\ now < MaxTime /\ now' = now + 1
    /\ UNCHANGED <<gen, stack, dropped, lost, up, budget>> /\ Inside

-----------------------------------------------------------------------------

\* The constructors: the retry generators try to connect, the list replicates.
Init ==
    /\ order \in Orders
    /\ up \in [Gens -> BOOLEAN] /\ \A i \in Gens \ Remote : up[i]
    /\ \E contents \in Starts :
          gen = [i \in Gens |-> [
              val |-> contents[i], conn |-> IF up[i] THEN "ok" ELSE "none", was_ok |-> up[i],
              inbox |-> << >>, next |-> IF up[i] THEN 0 ELSE Interval, since |-> 0,
              tries |-> IF up[i] THEN 0 ELSE 1]]
    /\ stack = <<Frame("begin")>> /\ deltas = << >>
    /\ seen = [k \in Keys |-> Null] /\ dropped = FALSE /\ lost = FALSE /\ unseen = FALSE
    /\ now = 0 /\ budget = Budget

Runs ==
    \/ delta_ignored \/ delta_begins \/ pass_on \/ pass_tells \/ returns
    \/ replicate \/ replicate_next \/ replicate_first \/ replicate_missing
    \/ replicate_crashes \/ replicate_ends \/ flush_delta
    \/ replicate_if_any_have_become_ok \/ set_first \/ get_first \/ get_again \/ refresh_next \/ refresh_ends

Next ==
    \/ Runs \/ get \/ get_fails \/ isok \/ refresh \/ Tick
    \/ \E c \in Edits :
          \/ set(c)
          \/ \E i \in Gens \ Remote : set_local(i, c)
          \/ \E i \in Remote : Elsewhere(i, c)
    \/ \E i \in Gens : append(i) \/ prepend(i)
    \/ \E i \in Remote : Deliver(i) \/ Breaks(i) \/ ComesUp(i)

\* Calls return, the program reads and runs its main loop now and then, time passes.
Fairness ==
    /\ WF_vars(Runs) /\ SF_vars(get) /\ WF_vars(Tick)
    /\ \A i \in Remote : SF_vars(Deliver(i))

Spec == Init /\ [][Next]_vars /\ Fairness

-----------------------------------------------------------------------------
(* Properties                                                              *)

\* Types; and nothing is held when no call is under way.
TypeOK ==
    /\ order \in Seq(Gens) /\ gen \in [Gens -> Generator] /\ deltas \in Seq(Change)
    /\ seen \in Contents /\ up \in [Gens -> BOOLEAN] /\ now \in 0..MaxTime /\ budget \in 0..Budget
    /\ deltas # << >> => Held \/ OnStack({"crashed"})

\* The generators that the list counts as ok, and that are.
Good == {i \in ToSet(order) : gen[i].was_ok /\ gen[i].conn = "ok"}
Quiet == stack = << >> /\ \A i \in ToSet(order) : gen[i].inbox = << >>

\* unireplicategen.h: "If an asynchronous change occurs in any of the inner
\* generators, the new value will be set in all generators": when nothing is under
\* way the replicas agree, unless a notice was ignored that was not the echo of the
\* one being passed on, or isok() was the first to see a generator come back, or, with
\* three generators or more, a connection broke and took notices with it.
ReplicasAgree ==
    Quiet /\ ~dropped /\ ~unseen /\ (lost => Len(order) <= 2) => \A i, j \in Good : gen[i].val = gen[j].val

\* The watchers know what a local generator on the list holds, whatever others came
\* and went and whoever changed what, unless a notice was ignored or lost.  They may not
\* know that it holds nothing any more: replicate() tells no deletions.
WatchersKeepUp ==
    Quiet /\ ~dropped /\ ~lost =>
        \A i \in ToSet(order) \ Remote, k \in Keys : gen[i].val[k] \in {Null, seen[k]}

\* There are never more attempts to connect than intervals since the connection was
\* lost, however often the program calls.
AttemptsBounded ==
    \A i \in Remote : gen[i].tries > 0 => (gen[i].tries - 1) * Interval <= now - gen[i].since

\* The counts of calls under way and of attempts to connect.
ReplicasConsistent == TypeOK /\ AttemptsBounded

\* The notice c of generator i has not been passed on yet.
UnderWay(i, c) ==
    \/ c \in ToSet(gen[i].inbox)
    \/ \E n \in DOMAIN stack : stack[n].pc = "delta" /\ stack[n].src = i /\ stack[n].c = c

\* Two daemons' notices of different values for a key have crossed.
Crossed ==
    \E i, j \in Remote : \E c, d \in Change :
        i # j /\ UnderWay(i, c) /\ UnderWay(j, d) /\ c.key = d.key /\ c.value # d.value

\* Notices come to an end: replicas do not go on correcting one another, unless notices
\* of two daemons have crossed.  (If they have, each goes to the other daemon, whose
\* notice of it comes back, and the two may change places for ever.)
Settles == <>[](Quiet \/ stack # << >>) \/ <>Crossed

\* The first generator of the list is connected to again when it can be reached, while
\* the clock goes on.  (Reading never looks at the others: one that was ok stays cut off
\* until something is passed on to it.)
Reconnects ==
    \A i \in Remote :
        (up[i] /\ Head(order) = i /\ gen[i].conn # "ok")
            ~> (~up[i] \/ Head(order) # i \/ gen[i].conn = "ok"
                \/ gen[i].next > MaxTime \/ At("crashed"))
=============================================================================
