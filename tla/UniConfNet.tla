----------------------------- MODULE UniConfNet -----------------------------
(***************************************************************************)
(* UniConf over a connection: the daemon (uniconf/daemon) serves one       *)
(* registry to clients (uniconf/uniclientgen.cc, uniclientconn.cc) that    *)
(* ask, and that are told of every change.                                 *)
(*                                                                         *)
(* The daemon is one thread: a command is one step, except that listing a  *)
(* subtree gives up the processor now and then (continue_select), so that  *)
(* other connections' commands run in the middle.  A client waits for its  *)
(* reply in do_select(), where it also receives change notices; notices    *)
(* are held (UniConfGen::hold_delta) and handed to the watchers when the   *)
(* wait is over, just before the call returns, and a watcher may make      *)
(* calls of its own: hence a stack of calls per client.                    *)
(*                                                                         *)
(* A UniCacheGen may sit on a client: it loads the tree once and then      *)
(* follows the notices.                                                    *)
(*                                                                         *)
(* Keys are children of the root without children of their own; a message  *)
(* is delivered whole or not at all, in order.                             *)
(***************************************************************************)
EXTENDS Integers, Sequences, FiniteSets

CONSTANTS
    Clients, Keys, Values,
    Root,        \* the root key
    Null,        \* WvString::null
    Empty,       \* the empty string; it may be one of the Values
    Cached,      \* the clients with a UniCacheGen on top
    Ops,         \* what the program calls
    CallbackOps, \* what a watcher calls from its callback
    Faults,      \* which of "timeout" and "break" happen
    Scenarios,   \* which clients run, and a bound on calls and changes in all
    ContinueSelectAt \* entries of a recursive listing before a yield

ASSUME NullAssumption ==
    /\ Null \notin Values /\ Null \notin Keys /\ Root \notin Keys /\ Null \notin {"TRUE", "FALSE"}
ASSUME BoundAssumption ==
    /\ ContinueSelectAt \in Nat /\ Cached \subseteq Clients /\ IsFiniteSet(Keys)
    /\ Scenarios \subseteq [clients : SUBSET Clients, budget : Nat]

VARIABLES
    store,    \* the daemon's registry
    c2s, s2c, \* per connection: commands, and replies and notices, on their way
    dconn,    \* the daemon's end of each connection
    niceness, \* do_subtree()'s static counter
    cl,       \* each client's UniClientGen, its connection and its watcher
    budget    \* how many more calls and changes there will be

vars == <<store, c2s, s2c, dconn, niceness, cl, budget>>

Optional == Values \cup {Null}
AnyKey == Keys \cup {Root, Null}

Msg(cmd, k, v) == [cmd |-> cmd, key |-> k, val |-> v]
Plain(cmd) == Msg(cmd, Null, Null)

Commands == {"get", "set", "del", "subt", "subtr", "hchild", "commit", "refresh", "quit", "setv"}
Replies == {"OK", "FAIL", "ONEVAL", "CHILD"}

NoReply == [op |-> "none", key |-> Null, val |-> Null, list |-> << >>, ok |-> TRUE, seen |-> {}]

\* UniClientGen::UniClientGen().  view is what the watcher has been told; a
\* program that just connected knows nothing, which for one without a cache is
\* as good as the truth.  known (history) has the keys whose value it was given;
\* last is the result of the latest call.
NewClient(c, running) == [
    ok |-> running, version |-> 0,
    cmdinprogress |-> FALSE, cmdsuccess |-> FALSE,
    result_key |-> Null, result |-> Null,
    listing |-> FALSE, result_list |-> << >>,
    hold_nesting |-> 0, deltas |-> << >>,
    stack |-> << >>, aborted |-> ~running,
    view |-> IF c \in Cached THEN [k \in Keys |-> Null] ELSE store,
    known |-> IF c \in Cached THEN {} ELSE Keys, refreshed_once |-> FALSE, last |-> NoReply]

Init ==
    /\ store \in [Keys -> Optional]
    /\ c2s = [c \in Clients |-> << >>]
    /\ niceness = 0
    /\ \E sc \in Scenarios :
          /\ s2c = [c \in Clients |-> IF c \in sc.clients THEN <<Plain("HELLO")>> ELSE << >>]
          /\ dconn = [c \in Clients |-> [open |-> c \in sc.clients, busy |-> FALSE,
                                         recursive |-> FALSE, rest |-> << >>]]
          /\ cl = [c \in Clients |-> NewClient(c, c \in sc.clients)]
          /\ budget = sc.budget

-----------------------------------------------------------------------------
(* The daemon: UniConfDaemonConn.                                          *)

daemonVars == <<store, s2c, dconn, niceness>>

\* A suspended listing keeps its connection from reading the next command.
Reads(c, cmd) ==
    /\ dconn[c].open /\ ~dconn[c].busy
    /\ c2s[c] # << >> /\ Head(c2s[c]).cmd = cmd
    /\ c2s' = [c2s EXCEPT ![c] = Tail(@)]
    /\ UNCHANGED budget

Sends(c, m) == s2c' = [s2c EXCEPT ![c] = Append(@, m)]

do_get(c) ==
    /\ Reads(c, "get")
    /\ LET k == Head(c2s[c]).key
       IN  Sends(c, IF store[k] = Null THEN Plain("FAIL") ELSE Msg("ONEVAL", k, store[k]))
    /\ UNCHANGED <<store, dconn, niceness, cl>>

\* deltacallback(): every open connection is told, the one that asked too.
Notified(k, v) ==
    [d \in Clients |-> IF dconn[d].open THEN Append(s2c[d], Msg("NOTICE", k, v)) ELSE s2c[d]]

\* History: the values a key has had while a call was under way, and that the
\* clients are being told of this one.
Saw(f, k, v) == [f EXCEPT !.seen = @ \cup {<<k, v>>}]
Witness(k, v) ==
    [c \in Clients |-> [cl[c] EXCEPT !.stack = [i \in 1..Len(@) |-> Saw(@[i], k, v)],
                                     !.known = @ \cup {k}]]

\* A change of the registry; setting what is already there is none.
Change(k, v) ==
    IF store[k] = v THEN UNCHANGED <<store, s2c, cl>>
    ELSE /\ store' = [store EXCEPT ![k] = v]
         /\ s2c' = Notified(k, v)
         /\ cl' = Witness(k, v)

do_set(c) ==
    /\ Reads(c, "set")
    /\ Change(Head(c2s[c]).key, Head(c2s[c]).val)
    /\ UNCHANGED <<dconn, niceness>>

\* do_remove() of a key without children, the case that removes the key itself.
do_remove(c) ==
    /\ Reads(c, "del")
    /\ Change(Head(c2s[c]).key, Null)
    /\ UNCHANGED <<dconn, niceness>>

do_haschildren(c) ==
    /\ Reads(c, "hchild")
    /\ Sends(c, Msg("CHILD", Root, IF \E k \in Keys : store[k] # Null THEN "TRUE" ELSE "FALSE"))
    /\ UNCHANGED <<store, dconn, niceness, cl>>

do_commit(c) ==
    /\ Reads(c, "commit")
    /\ Sends(c, Plain("OK"))
    /\ UNCHANGED <<store, dconn, niceness, cl>>

do_refresh(c) ==
    /\ Reads(c, "refresh")
    /\ \E r \in {"OK", "FAIL"} : Sends(c, Plain(r))
    /\ UNCHANGED <<store, dconn, niceness, cl>>

do_quit(c) ==
    /\ Reads(c, "quit")
    /\ Sends(c, Plain("OK"))
    /\ dconn' = [dconn EXCEPT ![c].open = FALSE]
    /\ UNCHANGED <<store, niceness, cl>>

\* setv has no case in execute(), so it is an unknown command.
do_invalid(c) ==
    /\ Reads(c, "setv")
    /\ Sends(c, Plain("FAIL"))
    /\ UNCHANGED <<store, dconn, niceness, cl>>

-----------------------------------------------------------------------------
(* do_subtree().  The iterator has the keys of the moment it was made; a   *)
(* flat listing also has their values, a recursive one looks each value up *)
(* when it gets there.                                                     *)

Orders(S) == {q \in [1..Cardinality(S) -> S] : \A i, j \in DOMAIN q : q[i] = q[j] => i = j}

Entry(e, recursive) ==
    Msg("VAL", e.key, IF recursive THEN store[e.key] ELSE e.val)

Proceed_skips(c, rest, recursive) ==
    LET n == IF recursive THEN ContinueSelectAt + 1 - niceness ELSE 1
        yields == n <= Len(rest)
        now == IF yields THEN n ELSE Len(rest)
        values == [i \in 1..now |-> Entry(rest[i], recursive)]
    IN  /\ s2c' = [s2c EXCEPT ![c] = @ \o values \o (IF yields THEN << >> ELSE <<Plain("OK")>>)]
        /\ dconn' = [dconn EXCEPT ![c].busy = yields, ![c].recursive = recursive,
                                  ![c].rest = SubSeq(rest, now + 2, Len(rest))]
        /\ niceness' = IF ~recursive THEN niceness ELSE IF yields THEN 0 ELSE niceness + now

\* Send entries until the next yield; after the last one comes the OK.
Proceed(c, rest, recursive) ==
    LET n == IF recursive THEN ContinueSelectAt + 1 - niceness ELSE 1
        yields == n <= Len(rest)
        now == IF yields THEN n ELSE Len(rest)
        values == [i \in 1..now |-> Entry(rest[i], recursive)]
    IN  /\ s2c' = [s2c EXCEPT ![c] = @ \o values \o (IF yields THEN << >> ELSE <<Plain("OK")>>)]
        /\ dconn' = [dconn EXCEPT ![c].busy = yields, ![c].recursive = recursive,
                                  ![c].rest = SubSeq(rest, now + 1, Len(rest))]
        /\ niceness' = IF ~recursive THEN niceness ELSE IF yields THEN 0 ELSE niceness + now

do_subtree(c, recursive) ==
    /\ Reads(c, IF recursive THEN "subtr" ELSE "subt")
    /\ \E q \in Orders({k \in Keys : store[k] # Null}) :
          Proceed(c, [i \in 1..Len(q) |-> [key |-> q[i], val |-> store[q[i]]]], recursive)
    /\ UNCHANGED <<store, cl>>

subtree_resume(c) ==
    /\ dconn[c].open /\ dconn[c].busy
    /\ Proceed(c, dconn[c].rest, dconn[c].recursive)
    /\ UNCHANGED <<store, c2s, cl, budget>>

\* The program that runs the daemon changes a key, or refresh() found a change.
LocalChange(k, v) ==
    /\ budget > 0 /\ store[k] # v
    /\ Change(k, v)
    /\ budget' = budget - 1
    /\ UNCHANGED <<c2s, dconn, niceness>>

\* The daemon finds that the client has gone.
HangUp(c) ==
    /\ dconn[c].open /\ ~dconn[c].busy /\ ~cl[c].ok /\ c2s[c] = << >>
    /\ dconn' = [dconn EXCEPT ![c].open = FALSE]
    /\ UNCHANGED <<store, c2s, s2c, niceness, cl, budget>>

\* The connection breaks: the client still gets a prefix of what was sent.
Break(c) ==
    /\ "break" \in Faults /\ dconn[c].open
    /\ \E n \in 0..Len(s2c[c]) : s2c' = [s2c EXCEPT ![c] = SubSeq(@, 1, n)]
    /\ dconn' = [dconn EXCEPT ![c].open = FALSE, ![c].busy = FALSE, ![c].rest = << >>]
    /\ c2s' = [c2s EXCEPT ![c] = << >>]
    /\ UNCHANGED <<store, niceness, cl, budget>>

-----------------------------------------------------------------------------
(* The client: UniClientGen over UniClientConn.                            *)

Top(c) == cl[c].stack[Len(cl[c].stack)]
Below(q) == SubSeq(q, 1, Len(q) - 1)
AtTop(c, pc) == cl[c].stack # << >> /\ Top(c).pc = pc /\ ~cl[c].aborted

SetTop(g, pc) == [g EXCEPT !.stack[Len(g.stack)].pc = pc]

Frame(op, k, pc, todo) ==
    [op |-> op, key |-> k, pc |-> pc, todo |-> todo,
     seen |-> {<<x, store[x]>> : x \in Keys}]

Push(g, f) == [g EXCEPT !.stack = Append(@, f)]
Pop(g) == [g EXCEPT !.stack = Below(@)]

\* What writecmd() puts on a connection that is ok.
Writes(c, msgs) ==
    c2s' = IF cl[c].ok THEN [c2s EXCEPT ![c] = @ \o msgs] ELSE c2s

hold_delta(g) == [g EXCEPT !.hold_nesting = @ + 1]

\* The entry of do_select().
StartWaiting(g) == [hold_delta(g) EXCEPT !.cmdinprogress = TRUE, !.cmdsuccess = FALSE]

\* A call starts: the program's from outside, a watcher's from its callback.
Calls(c, op) ==
    /\ ~cl[c].aborted /\ budget > 0
    /\ \/ cl[c].stack = << >> /\ op \in Ops
       \/ AtTop(c, "callback") /\ op \in CallbackOps
    /\ budget' = budget - 1
    /\ UNCHANGED daemonVars

Ask(c, op, k, cmd) ==
    /\ Writes(c, <<Msg(cmd, k, Null)>>)
    /\ cl' = [cl EXCEPT ![c] = Push(StartWaiting(@), Frame(op, k, "wait", << >>))]

get(c, k) == Calls(c, "get") /\ Ask(c, "get", k, "get")
haschildren(c) == Calls(c, "haschildren") /\ Ask(c, "haschildren", Root, "hchild")
commit(c) == Calls(c, "commit") /\ Ask(c, "commit", Null, "commit")
refresh(c) == Calls(c, "refresh") /\ Ask(c, "refresh", Null, "refresh")

set(c, k, v) ==
    /\ Calls(c, "set")
    /\ Writes(c, <<IF v = Null THEN Msg("del", k, Null) ELSE Msg("set", k, v)>>)
    /\ cl' = [cl EXCEPT ![c] = Push(hold_delta(@), Frame("set", k, "drain", << >>))]

\* setv(): a server of protocol version 19 is sent setv lines and a final one
\* without arguments; an older one gets the pairs one set() at a time.
setv(c, pairs) ==
    /\ Calls(c, "setv")
    /\ IF cl[c].version >= 19
       THEN /\ Writes(c, [i \in 1..Len(pairs) |-> Msg("setv", pairs[i].key, pairs[i].val)]
                         \o <<Plain("setv")>>)
            /\ cl' = [cl EXCEPT ![c] = Push(hold_delta(@), Frame("setv", Null, "flush", << >>))]
       ELSE /\ Writes(c, <<Msg("set", pairs[1].key, pairs[1].val)>>)
            /\ cl' = [cl EXCEPT ![c] = Push(hold_delta(@),
                                            Frame("setv", Null, "drain", Tail(pairs)))]

\* do_iterator() asserts that no other listing is under way.
Listed(g, op) ==
    IF g.listing THEN [g EXCEPT !.aborted = TRUE]
    ELSE Push(StartWaiting([g EXCEPT !.listing = TRUE, !.result_list = << >>]),
              Frame(op, Root, "wait", << >>))

iterator(c, recursive) ==
    /\ Calls(c, IF recursive THEN "recursiveiterator" ELSE "iterator")
    /\ IF cl[c].listing THEN UNCHANGED c2s
       ELSE Writes(c, <<Msg(IF recursive THEN "subtr" ELSE "subt", Root, Null)>>)
    /\ cl' = [cl EXCEPT ![c] = Listed(@, "iterator")]

\* UniCacheGen::refresh(), once; loadtree() follows when the refresh returns.
cache_refresh(c) ==
    /\ c \in Cached /\ ~cl[c].refreshed_once
    /\ Calls(c, "cache_refresh")
    /\ Ask(c, "cache_refresh", Null, "refresh")

-----------------------------------------------------------------------------
(* conncallback(): one message.                                            *)

\* dispatch_delta(): the watcher is told, and its callback begins.
Dispatch(g, d) == [g EXCEPT !.view[d.key] = d.val]

Delta_lost(g, d) ==
    IF g.hold_nesting = 0 THEN Push(Dispatch(g, d), Frame("notice", Null, "callback", << >>))
    ELSE g

\* delta()
Delta(g, d) ==
    IF g.hold_nesting = 0 THEN Push(Dispatch(g, d), Frame("notice", Null, "callback", << >>))
    ELSE [g EXCEPT !.deltas = Append(@, d)]

Received(g, m) ==
    CASE m.cmd = "OK" -> [g EXCEPT !.cmdsuccess = TRUE, !.cmdinprogress = FALSE]
      [] m.cmd = "FAIL" ->
            [g EXCEPT !.result_key = Null, !.cmdsuccess = FALSE, !.cmdinprogress = FALSE]
      [] m.cmd \in {"ONEVAL", "CHILD"} ->
            [g EXCEPT !.result_key = m.key, !.result = m.val,
                      !.cmdsuccess = TRUE, !.cmdinprogress = FALSE]
      [] m.cmd = "VAL" ->
            IF m.val # Null /\ g.listing THEN [g EXCEPT !.result_list = Append(@, m)] ELSE g
      [] m.cmd = "HELLO" -> [g EXCEPT !.version = 19]
      [] m.cmd = "NOTICE" -> Delta(g, m)

\* A client reads in do_select(), in flush_buffers(), and in its main loop.
Waiting(c) == AtTop(c, "wait") /\ cl[c].ok /\ cl[c].cmdinprogress

conncallback(c) ==
    /\ cl[c].ok /\ ~cl[c].aborted /\ s2c[c] # << >>
    /\ Waiting(c) \/ AtTop(c, "drain") \/ cl[c].stack = << >>
    /\ s2c' = [s2c EXCEPT ![c] = Tail(@)]
    /\ cl' = [cl EXCEPT ![c] = Received(@, Head(s2c[c]))]
    /\ UNCHANGED <<store, c2s, dconn, niceness, budget>>

Timeout_keepsopen(c) ==
    /\ "timeout" \in Faults /\ Waiting(c)
    /\ cl' = [cl EXCEPT ![c].cmdinprogress = FALSE, ![c].cmdsuccess = FALSE]
    /\ UNCHANGED <<store, c2s, s2c, dconn, niceness, budget>>

\* do_select() gives up, perhaps with the reply on its way, and closes the
\* connection, so that a late reply cannot be taken for the answer to the next
\* call.
Timeout(c) ==
    /\ "timeout" \in Faults /\ Waiting(c)
    /\ cl' = [cl EXCEPT ![c].ok = FALSE, ![c].cmdinprogress = FALSE, ![c].cmdsuccess = FALSE]
    /\ UNCHANGED <<store, c2s, s2c, dconn, niceness, budget>>

\* The client reads the end of the stream.
EndOfStream(c) ==
    /\ cl[c].ok /\ ~dconn[c].open /\ s2c[c] = << >>
    /\ cl' = [cl EXCEPT ![c].ok = FALSE]
    /\ UNCHANGED <<store, c2s, s2c, dconn, niceness, budget>>

-----------------------------------------------------------------------------
(* The end of a call: unhold_delta(), then the result.                     *)

\* flush_buffers() stops when nothing has arrived yet.
drain_done(c) ==
    /\ AtTop(c, "drain")
    /\ LET f == Top(c)
       IN  IF f.todo = << >>
           THEN cl' = [cl EXCEPT ![c] = SetTop(@, "flush")] /\ UNCHANGED c2s
           ELSE /\ Writes(c, <<Msg("set", Head(f.todo).key, Head(f.todo).val)>>)
                /\ cl' = [cl EXCEPT ![c].stack[Len(cl[c].stack)].todo = Tail(@)]
    /\ UNCHANGED <<store, s2c, dconn, niceness, budget>>

LoopEnded_notclosed(c) == AtTop(c, "flush") \/ (AtTop(c, "wait") /\ ~cl[c].cmdinprogress)

\* The call is past its loop.
LoopEnded(c) == AtTop(c, "flush") \/ (AtTop(c, "wait") /\ ~Waiting(c))

MustDispatch(c) == cl[c].hold_nesting = 1 /\ cl[c].deltas # << >>

NextDelta(g) == [g EXCEPT !.deltas = Tail(@)]

flush_delta(c) ==
    /\ LoopEnded(c) /\ MustDispatch(c)
    /\ cl' = [cl EXCEPT ![c] = SetTop(Dispatch(NextDelta(@), Head(cl[c].deltas)), "callback")]
    /\ UNCHANGED <<store, c2s, s2c, dconn, niceness, budget>>

callback_done(c) ==
    /\ AtTop(c, "callback")
    /\ cl' = [cl EXCEPT ![c] = IF Top(c).op = "notice" THEN Pop(@) ELSE SetTop(@, "flush")]
    /\ UNCHANGED <<store, c2s, s2c, dconn, niceness, budget>>

\* What the call returns, from the members that the replies were stored in.
Result(g, f) ==
    [op |-> f.op, key |-> f.key, ok |-> g.ok, seen |-> f.seen,
     val |-> CASE f.op = "get" -> IF g.cmdsuccess /\ g.result_key = f.key THEN g.result ELSE Null
               [] f.op = "haschildren" ->
                    IF g.cmdsuccess /\ g.result_key = f.key THEN g.result ELSE "FALSE"
               [] f.op \in {"set", "setv"} -> Null
               [] OTHER -> IF g.cmdsuccess THEN "TRUE" ELSE Null,
     list |-> IF f.op \in {"iterator", "loadtree"} /\ g.cmdsuccess THEN g.result_list ELSE << >>]

\* UniCacheGen::loadtree() stores the entries of the listing; empty values are
\* skipped.
Loaded(view, list) ==
    [k \in Keys |->
        LET at == {i \in 1..Len(list) : list[i].key = k /\ list[i].val # Empty}
        IN  IF at = {} THEN view[k] ELSE list[CHOOSE i \in at : \A j \in at : j <= i].val]

\* History: a key that did not change during the load, and was not skipped.
Steady(f) ==
    {k \in Keys :
        /\ <<k, Empty>> \notin f.seen
        /\ \A v, w \in Optional : <<k, v>> \in f.seen /\ <<k, w>> \in f.seen => v = w}

Returned(g, f) ==
    LET r == [Pop(g) EXCEPT !.hold_nesting = @ - 1, !.last = Result(g, f)]
    IN  CASE f.op = "cache_refresh" -> Listed(r, "loadtree")
          [] f.op = "loadtree" -> [r EXCEPT !.listing = FALSE, !.result_list = << >>,
                                     !.known = IF g.cmdsuccess THEN Steady(f) ELSE @,
                                     !.refreshed_once = TRUE,
                                     !.view = Loaded(@, Result(g, f).list)]
          [] f.op = "iterator" -> [r EXCEPT !.listing = FALSE, !.result_list = << >>]
          [] OTHER -> r

return(c) ==
    /\ LoopEnded(c) /\ ~MustDispatch(c)
    /\ cl' = [cl EXCEPT ![c] = Returned(@, Top(c))]
    /\ IF Top(c).op = "cache_refresh" /\ ~cl[c].listing
       THEN Writes(c, <<Msg("subtr", Root, Null)>>) ELSE UNCHANGED c2s
    /\ UNCHANGED <<store, s2c, dconn, niceness, budget>>

\* UniClientGen::~UniClientGen()
destroy(c) ==
    /\ Calls(c, "quit") /\ cl[c].ok
    /\ Writes(c, <<Plain("quit")>>)
    /\ cl' = [cl EXCEPT ![c].ok = FALSE]

-----------------------------------------------------------------------------

Pair(k, v) == [key |-> k, val |-> v]

Daemon(c) ==
    \/ do_get(c) \/ do_set(c) \/ do_remove(c) \/ do_haschildren(c)
    \/ do_commit(c) \/ do_refresh(c) \/ do_quit(c) \/ do_invalid(c)
    \/ \E b \in BOOLEAN : do_subtree(c, b)
    \/ subtree_resume(c) \/ HangUp(c)

Starts(c) ==
    \/ \E k \in Keys : get(c, k) \/ \E v \in Optional : set(c, k, v)
    \/ haschildren(c) \/ commit(c) \/ refresh(c) \/ cache_refresh(c) \/ destroy(c)
    \/ \E b \in BOOLEAN : iterator(c, b)
    \/ \E j, k \in Keys : \E v, w \in Values : setv(c, <<Pair(j, v), Pair(k, w)>>)

Continues(c) ==
    \/ conncallback(c) \/ drain_done(c) \/ flush_delta(c) \/ callback_done(c)
    \/ return(c) \/ EndOfStream(c) \/ Timeout(c)

Next ==
    \/ \E c \in Clients : Daemon(c) \/ Starts(c) \/ Continues(c) \/ Break(c)
    \/ \E k \in Keys, v \in Optional : LocalChange(k, v)

Spec == Init /\ [][Next]_vars

-----------------------------------------------------------------------------
(* Properties                                                              *)

\* Types; and hold_nesting counts exactly the calls that are under way, so that
\* notices are neither stuck for ever nor dispatched inside a wait.
TypeOK ==
    /\ store \in [Keys -> Optional] /\ niceness \in 0..ContinueSelectAt
    /\ \A c \in Clients :
          /\ cl[c].view \in [Keys -> Optional]
          /\ \A i \in 1..Len(c2s[c]) : c2s[c][i].cmd \in Commands
          /\ cl[c].hold_nesting =
                Cardinality({i \in 1..Len(cl[c].stack) : cl[c].stack[i].op # "notice"})
          /\ cl[c].stack = << >> => cl[c].deltas = << >> /\ ~cl[c].listing

\* The commands a daemon answers, and the answers under way.
Asks == Commands \ {"set", "del"}
Questions(q) == Cardinality({i \in 1..Len(q) : q[i].cmd \in Asks})
Answers(q) == Cardinality({i \in 1..Len(q) : q[i].cmd \in Replies})
Outstanding(c) == Questions(c2s[c]) + Answers(s2c[c]) + (IF dconn[c].busy THEN 1 ELSE 0)

\* Requests carry no number, so the only thing that pairs a reply with its request
\* is that there is never more than the one the caller waits for: a reply that
\* comes late, or unasked, would be taken for the answer to the next request.
RepliesMatchRequests ==
    \A c \in Clients : cl[c].ok /\ dconn[c].open =>
        Outstanding(c) = IF Waiting(c) THEN 1 ELSE 0

\* What a client counts, and what is under way between it and its daemon, agree.
RequestsConsistent == TypeOK /\ RepliesMatchRequests

\* uniconfgen.h, get(): "Fetches a string value for a key from the registry."  What
\* it returns over a connection that is still ok is a value that the key had
\* while the call was under way.
GetIsCurrent ==
    \A c \in Clients : cl[c].last.op = "get" /\ cl[c].last.ok =>
        <<cl[c].last.key, cl[c].last.val>> \in cl[c].last.seen

\* A listing that succeeds shows only what was there during the call, and shows
\* every key that was there all the time, although other connections change the
\* registry between two of its entries.
ListingIsFaithful ==
    \A c \in Clients :
        LET r == cl[c].last
            ValuesSeen(k) == {p[2] : p \in {q \in r.seen : q[1] = k}}
        IN  r.op = "iterator" /\ r.val = "TRUE" =>
              /\ \A i \in 1..Len(r.list) : <<r.list[i].key, r.list[i].val>> \in r.seen
              /\ \A k \in Keys : Null \notin ValuesSeen(k) =>
                    \E i \in 1..Len(r.list) : r.list[i].key = k

\* The last thing a client was told of a key, or is about to be told by the held
\* notices and those on their way.
News(c) == cl[c].deltas \o s2c[c]
WillKnow(c, k) ==
    LET at == {i \in 1..Len(News(c)) : News(c)[i].cmd = "NOTICE" /\ News(c)[i].key = k}
    IN  IF at = {} THEN cl[c].view[k] ELSE News(c)[CHOOSE i \in at : \A j \in at : j <= i].val

\* unicachegen.h: "preloads the entire uniconf tree and then keeps up to date by
\* making changes whenever notifications are received": once the notices that
\* are under way have been handled, a watcher knows the registry's contents.
\* One that has just connected needs no cache for this; a UniCacheGen knows what
\* it was told of before its loadtree(), and the whole tree after it, except for
\* two kinds of keys, until they change again: loadtree() skips empty values, and
\* it stores the listing after the notices that came during the call were
\* handed out, so that a key that changed meanwhile may go back to its old value.
ViewConverges ==
    \A c \in Clients : cl[c].ok /\ dconn[c].open =>
        \A k \in cl[c].known : WillKnow(c, k) = store[k]

-----------------------------------------------------------------------------
(* Liveness: the client's thread runs and its clock goes on.  Calls must   *)
(* return without any help from the daemon.                                *)

FairSpec == Spec /\ \A c \in Clients : WF_vars(Continues(c))

\* Every call returns, even if the daemon has stopped or the connection broke.
CallsReturn == \A c \in Clients : cl[c].stack # << >> ~> cl[c].stack = << >>
=============================================================================
