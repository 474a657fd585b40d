------------------------------- MODULE WvDBus -------------------------------
(***************************************************************************)
(* D-Bus clients (dbus/wvdbusconn.cc), each a process of its own with one  *)
(* WvDBusConn, and the server that passes messages between them            *)
(* (dbus/wvdbusserver.cc).                                                 *)
(*                                                                         *)
(* Bytes arrive in order; a message or a line of the authentication is one *)
(* item.  The NUL byte counts as part of the AUTH line.  Serial numbers    *)
(* are those of a process: two clients use the same ones.  A reply carries *)
(* the request it answers as a history value.  There is no clock: while    *)
(* the alarm is set, any reply that is waited for may be late.             *)
(*                                                                         *)
(* A callback may send and close, but it neither waits for another reply   *)
(* nor sends the message again whose reply it was called with.  A callback *)
(* that is told of a cancellation only returns.  What a client has read    *)
(* but not handed out when a callback closes the connection is dropped;    *)
(* the code still hands out the messages that are whole.                   *)
(***************************************************************************)
EXTENDS Integers, Sequences, FiniteSets

CONSTANTS
    Clients,
    Names,    \* well-known names
    Bus,      \* org.freedesktop.DBus
    None,
    Started,  \* the clients that are connected to begin with
    Roles,    \* bound: which calls each of them makes, in every scenario,
    Budget    \*        and how many in all

ASSUME DBusAssumption ==
    /\ IsFiniteSet(Clients) /\ Clients \cap Names = {} /\ Bus \notin Clients \cup Names
    /\ None \notin Clients \cup Names \cup {Bus}
    /\ Started \subseteq Clients /\ Budget \in Nat

VARIABLES
    conn,     \* each client's connection
    srv,      \* the server's end of it
    stream,   \* all that a client has written, and
    taken,    \* how much of that the server has read
    down,     \* what the server has written and the client not read
    name_to_conn, \* the server's map of names, unique names (a client) included
    aborted,  \* an assertion of the server has failed
    calls,    \* history: the messages of send(), in order
    asked,    \* history: how often a callback was given for a serial number,
    answered, \*          and how often it was called,
    matches,  \*          each time with the reply to that very message
    signals,  \* history: the signals that the server broadcast,
    since,    \*          how many of them before a client was there,
    heard,    \*          and those that it received
    role, budget

cvars == <<conn, calls, asked, answered, matches, heard>>
svars == <<srv, taken, name_to_conn, aborted, signals, since>>
vars == <<cvars, svars, stream, down, role, budget>>

Serials == 1..(2 * Budget + 2)

\* dest is Bus, a name, a client's unique name, or None: everyone.
Msg(kind, what, arg, serial, dest) == [
    kind |-> kind, what |-> what, arg |-> arg, serial |-> serial, dest |-> dest,
    rserial |-> 0, sender |-> None, of |-> None]
Line(what) == Msg("line", what, None, 0, None)

\* msg.reply(): to the sender that the message names.
ReplyTo(m, c, kind, arg, serial) == [
    kind |-> kind, what |-> "", arg |-> arg, serial |-> serial, dest |-> m.sender,
    rserial |-> m.serial, sender |-> None, of |-> <<c, m.serial>>]

\* cb: the callback that is running, if any: for the reply with that serial number
\* (its entry is not removed yet), or 0 for any other message.  wait: send_and_wait().
NoConn == [ok |-> FALSE, authorized |-> FALSE, out_queue |-> << >>, pending |-> {}, alarm |-> FALSE,
           uniquename |-> None, next |-> 1, cb |-> -1, wait |-> 0]
NoServ == [listed |-> FALSE, open |-> FALSE, state |-> "AuthWait", out_queue |-> << >>]

-----------------------------------------------------------------------------
(* The client.                                                             *)

Server == UNCHANGED svars
Free == UNCHANGED <<role, budget>>

send_unqueued(k, m) ==
    IF k.authorized THEN <<[k EXCEPT !.out_queue = << >>], k.out_queue \o <<m>>>>
    ELSE <<k, <<m>>>>

\* send(): the connection afterwards, and what is written.
send(k, m) ==
    IF k.authorized THEN <<[k EXCEPT !.out_queue = << >>], k.out_queue \o <<m>>>>
    ELSE <<[k EXCEPT !.out_queue = Append(@, m)], << >>>>

add_pending_noalarm(k, s) == [k EXCEPT !.pending = @ \cup {s}]

add_pending(k, s) == [k EXCEPT !.pending = @ \cup {s}, !.alarm = TRUE]

\* A new message, or one that was sent before, with or without a callback.  Sending it
\* again ends a send_and_wait() for it.
Sends(c, m, onreply) ==
    LET k == conn[c]
        r == send([k EXCEPT !.next = IF m.serial = @ THEN @ + 1 ELSE @,
                            !.wait = IF @ = m.serial THEN 0 ELSE @], m)
    IN  /\ conn' = [conn EXCEPT ![c] = IF onreply THEN add_pending(r[1], m.serial) ELSE r[1]]
        /\ stream' = [stream EXCEPT ![c] = @ \o r[2]]
        /\ calls' = [calls EXCEPT ![c] = Append(@, m)]
        /\ asked' = [asked EXCEPT ![c][m.serial] = IF onreply THEN @ + 1 ELSE @]

send_hello == <<Msg("call", "Hello", None, 1, Bus), Msg("call", "AddMatch", None, 2, Bus)>>

\* The constructor: send_hello() is queued, then the authentication begins.
connect(c) ==
    /\ conn[c] = NoConn /\ ~aborted
    /\ conn' = [conn EXCEPT ![c] = add_pending([NoConn EXCEPT !.ok = TRUE, !.next = 3, !.out_queue = send_hello], 1)]
    /\ calls' = [calls EXCEPT ![c] = send_hello]
    /\ asked' = [asked EXCEPT ![c][1] = 1]
    /\ stream' = [stream EXCEPT ![c] = <<Line("AUTH")>>]
    /\ UNCHANGED <<down, answered, matches, heard>> /\ Server /\ Free

\* try_auth(), when there is an OK.
try_auth(c) ==
    /\ conn[c].ok /\ conn[c].cb = -1 /\ ~conn[c].authorized /\ down[c] # << >>
    /\ conn' = [conn EXCEPT ![c].authorized = TRUE, ![c].out_queue = << >>]
    /\ stream' = [stream EXCEPT ![c] = @ \o <<Line("BEGIN")>> \o conn[c].out_queue]
    /\ down' = [down EXCEPT ![c] = Tail(@)]
    /\ UNCHANGED <<calls, asked, answered, matches, heard>> /\ Server /\ Free

\* The program acts, in its main loop or in a callback, which may run while
\* send_and_wait() waits.
Calls(c, f) ==
    /\ f \in role[c] /\ conn[c].ok /\ (conn[c].wait = 0 \/ conn[c].cb # -1)
    /\ budget > 0 /\ budget' = budget - 1
    /\ UNCHANGED <<down, matches, heard, role>> /\ Server
Acts(c, f) == Calls(c, f) /\ UNCHANGED answered

send_call(c, dest, what, arg) ==
    /\ Acts(c, what)
    /\ Sends(c, Msg("call", what, arg, conn[c].next, dest), TRUE)

send_signal(c) == Acts(c, "signal") /\ Sends(c, Msg("signal", "", None, conn[c].next, None), FALSE)

\* send_and_wait(), from the main loop.
send_and_wait(c, dest) ==
    /\ conn[c].cb = -1
    /\ Acts(c, "wait")
    /\ LET k == conn[c]
           r == send([k EXCEPT !.next = @ + 1, !.wait = k.next], Msg("call", "do", None, k.next, dest))
       IN  /\ conn' = [conn EXCEPT ![c] = add_pending(r[1], k.next)]
           /\ stream' = [stream EXCEPT ![c] = @ \o r[2]]
           /\ calls' = [calls EXCEPT ![c] = Append(@, Msg("call", "do", None, k.next, dest))]
           /\ asked' = [asked EXCEPT ![c][k.next] = @ + 1]

\* The same message again.  If it has not been answered, cancel_pending() answers it.
resend(c, m) ==
    /\ Calls(c, "resend")
    /\ m.kind = "call" /\ m.serial > 2 /\ m.serial # conn[c].cb
    /\ answered' = [answered EXCEPT ![c][m.serial] = IF m.serial \in conn[c].pending THEN @ + 1 ELSE @]
    /\ Sends(c, m, TRUE)

close(c) ==
    /\ Acts(c, "close")
    /\ conn' = [conn EXCEPT ![c].ok = FALSE]
    /\ UNCHANGED <<stream, calls, asked>>

-----------------------------------------------------------------------------
(* The client's post_select()                                              *)

Ready(c) == conn[c].ok /\ conn[c].cb = -1
Reads(c) == Ready(c) /\ conn[c].authorized /\ down[c] # << >> /\ down' = [down EXCEPT ![c] = Tail(@)]

\* A reply that someone waits for.  _registered() takes the name even from an error.
filter_reply(c) ==
    /\ Reads(c)
    /\ LET m == Head(down[c]) IN
        /\ m.rserial \in conn[c].pending
        /\ conn' = [conn EXCEPT ![c].cb = m.rserial,
                                ![c].uniquename = IF m.rserial = 1 THEN m.arg ELSE @,
                                ![c].wait = IF @ = m.rserial THEN 0 ELSE @]
        /\ answered' = [answered EXCEPT ![c][m.rserial] = @ + 1]
        /\ matches' = (matches /\ m.of = <<c, m.rserial>>)
    /\ UNCHANGED <<stream, calls, asked, heard>> /\ Server /\ Free

\* Any other message goes to the callbacks; a call may be answered.
filter_other(c) ==
    /\ Reads(c)
    /\ LET m == Head(down[c])
           k == [conn[c] EXCEPT !.cb = 0]
           answer == ReplyTo(m, m.sender, "reply", None, k.next)
           r == send([k EXCEPT !.next = @ + 1], answer)
       IN  /\ m.rserial \notin conn[c].pending
           /\ heard' = [heard EXCEPT ![c] = IF m.kind = "signal" THEN Append(@, m) ELSE @]
           /\ \/ /\ m.kind = "call"
                 /\ conn' = [conn EXCEPT ![c] = r[1]]
                 /\ stream' = [stream EXCEPT ![c] = @ \o r[2]]
                 /\ calls' = [calls EXCEPT ![c] = Append(@, answer)]
              \/ conn' = [conn EXCEPT ![c] = k] /\ UNCHANGED <<stream, calls>>
    /\ UNCHANGED <<asked, answered, matches>> /\ Server /\ Free

callback_returns_keeping(c) ==
    /\ conn[c].cb # -1
    /\ conn' = [conn EXCEPT ![c].alarm = conn[c].pending # {}, ![c].cb = -1]
    /\ UNCHANGED <<stream, down, calls, asked, answered, matches, heard>> /\ Server /\ Free

\* Only then is the entry removed, also if the callback closed the connection;
\* post_select() sets the alarm when it is done.
callback_returns(c) ==
    /\ conn[c].cb # -1
    /\ LET p == conn[c].pending \ {conn[c].cb}
       IN  conn' = [conn EXCEPT ![c].pending = p, ![c].alarm = p # {}, ![c].cb = -1]
    /\ UNCHANGED <<stream, down, calls, asked, answered, matches, heard>> /\ Server /\ Free

\* expire_pending(): the entry is removed first.  The error is then made from the
\* message in the entry, which is gone: that works or the process dies.
expire_pending(c) ==
    /\ Ready(c) /\ conn[c].alarm
    /\ \E s \in conn[c].pending :
        \/ /\ conn' = [conn EXCEPT ![c].pending = @ \ {s}, ![c].cb = 0,
                                   ![c].uniquename = IF s = 1 THEN Bus ELSE @,
                                   ![c].wait = IF @ = s THEN 0 ELSE @]
           /\ answered' = [answered EXCEPT ![c][s] = @ + 1]
        \/ conn' = [conn EXCEPT ![c].ok = FALSE] /\ UNCHANGED answered
    /\ UNCHANGED <<stream, down, calls, asked, matches, heard>> /\ Server /\ Free

\* The server is gone: read() closes.
read_eof(c) ==
    /\ Ready(c) /\ down[c] = << >> /\ aborted
    /\ conn' = [conn EXCEPT ![c].ok = FALSE]
    /\ UNCHANGED <<stream, down, calls, asked, answered, matches, heard>> /\ Server /\ Free

\* send_and_wait() makes an error when the connection is closed.
wait_ends(c) ==
    /\ ~conn[c].ok /\ conn[c].wait # 0 /\ conn[c].cb = -1
    /\ conn' = [conn EXCEPT ![c].wait = 0]
    /\ UNCHANGED <<stream, down, calls, asked, answered, matches, heard>> /\ Server /\ Free

-----------------------------------------------------------------------------
(* The server.                                                             *)

Clientside == UNCHANGED <<cvars, stream, role, budget>>

\* send() to connections that are listed.  Writing to a peer that is gone may show it:
\* the connection closes, and a delayed callback will see to that.
ServerSends(ds, m) ==
    \E broken \in SUBSET {d \in ds : ~conn[d].ok} :
        /\ srv' = [d \in Clients |-> [srv[d] EXCEPT
               !.out_queue = IF d \in ds /\ srv[d].open /\ srv[d].state # "authorized" THEN Append(@, m) ELSE @,
               !.open = @ /\ d \notin broken]]
        /\ down' = [d \in Clients |->
               IF d \in ds /\ srv[d].open /\ srv[d].state = "authorized" THEN Append(down[d], m) ELSE down[d]]

new_connection_cb(c) ==
    /\ stream[c] # << >> /\ srv[c] = NoServ /\ name_to_conn[c] = None /\ taken[c] = 0 /\ ~aborted
    /\ srv' = [srv EXCEPT ![c].listed = TRUE, ![c].open = TRUE]
    /\ name_to_conn' = [name_to_conn EXCEPT ![c] = c]
    /\ since' = [since EXCEPT ![c] = Len(signals)]
    /\ UNCHANGED <<down, taken, aborted, signals>> /\ Clientside

\* The next item of an open connection, or of one that closed in this round.
Takes(c) ==
    /\ srv[c].listed /\ ~aborted /\ taken[c] < Len(stream[c])
    /\ taken' = [taken EXCEPT ![c] = @ + 1]
Item(c) == stream[c][taken[c] + 1]
TakesMessage(c) == Takes(c) /\ srv[c].state = "authorized"

\* WvDBusServerAuth::authorize() and try_auth()
authorize(c) ==
    /\ srv[c].open /\ srv[c].state # "authorized"
    /\ Takes(c)
    /\ IF srv[c].state = "AuthWait"
       THEN /\ srv' = [srv EXCEPT ![c].state = "BeginWait"]
            /\ down' = [down EXCEPT ![c] = Append(@, Line("OK"))]
       ELSE /\ srv' = [srv EXCEPT ![c].state = "authorized", ![c].out_queue = << >>]
            /\ down' = [down EXCEPT ![c] = @ \o srv[c].out_queue]
    /\ UNCHANGED <<name_to_conn, aborted, signals, since>> /\ Clientside

Answers(c, kind, arg) == ServerSends({c}, ReplyTo(Item(c), c, kind, arg, 0))

register_name(n, c) == name_to_conn' = [name_to_conn EXCEPT ![n] = c]

\* do_server_msg(), by method.
do_server_hello(c) ==
    /\ TakesMessage(c) /\ Item(c).dest = Bus /\ Item(c).what \in {"Hello", "AddMatch"}
    /\ Answers(c, "reply", c)
    /\ UNCHANGED <<name_to_conn, aborted, signals, since>> /\ Clientside

do_server_request(c, n) ==
    /\ TakesMessage(c) /\ Item(c).dest = Bus /\ Item(c).what = "RequestName" /\ Item(c).arg = n
    /\ register_name(n, c)
    /\ Answers(c, "reply", n)
    /\ UNCHANGED <<aborted, signals, since>> /\ Clientside

\* unregister_name() asserts that the name is still the caller's.
do_server_release(c, n) ==
    /\ TakesMessage(c) /\ Item(c).dest = Bus /\ Item(c).what = "ReleaseName" /\ Item(c).arg = n
    /\ IF name_to_conn[n] = c
       THEN name_to_conn' = [name_to_conn EXCEPT ![n] = None] /\ Answers(c, "reply", n) /\ UNCHANGED aborted
       ELSE aborted' = TRUE /\ UNCHANGED <<name_to_conn, srv, down>>
    /\ UNCHANGED <<signals, since>> /\ Clientside

\* GetNameOwner, and the other questions about the owner of a name.
do_server_owner(c, n) ==
    /\ TakesMessage(c) /\ Item(c).dest = Bus /\ Item(c).what = "GetNameOwner" /\ Item(c).arg = n
    /\ Answers(c, IF name_to_conn[n] = None THEN "error" ELSE "reply", name_to_conn[n])
    /\ UNCHANGED <<name_to_conn, aborted, signals, since>> /\ Clientside

do_bridge_msg(c) ==
    /\ TakesMessage(c) /\ Item(c).dest \in Names \cup Clients
    /\ name_to_conn[Item(c).dest] # None
    /\ ServerSends({name_to_conn[Item(c).dest]}, [Item(c) EXCEPT !.sender = c])
    /\ UNCHANGED <<name_to_conn, aborted, signals, since>> /\ Clientside

do_broadcast_msg_authorized(c) ==
    /\ TakesMessage(c) /\ Item(c).dest = None
    /\ ServerSends({d \in Clients : srv[d].listed /\ srv[d].state = "authorized"}, Item(c))
    /\ signals' = Append(signals, Item(c))
    /\ UNCHANGED <<name_to_conn, aborted, since>> /\ Clientside

do_broadcast_msg(c) ==
    /\ TakesMessage(c) /\ Item(c).dest = None
    /\ ServerSends({d \in Clients : srv[d].listed}, Item(c))
    /\ signals' = Append(signals, Item(c))
    /\ UNCHANGED <<name_to_conn, aborted, since>> /\ Clientside

\* Nobody has the name: an error goes back, also when the message was a reply.
do_gaveup_msg(c) ==
    /\ TakesMessage(c) /\ Item(c).dest \in Names \cup Clients
    /\ name_to_conn[Item(c).dest] = None
    /\ Answers(c, "error", None)
    /\ UNCHANGED <<name_to_conn, aborted, signals, since>> /\ Clientside

server_read_eof_early(c) ==
    /\ srv[c].open /\ ~conn[c].ok /\ taken[c] = Len(stream[c]) /\ ~aborted
    /\ srv[c].state # "authorized"
    /\ srv' = [srv EXCEPT ![c].open = FALSE]
    /\ UNCHANGED <<down, taken, name_to_conn, aborted, signals, since>> /\ Clientside

\* read() finds the end, and closes.
server_read_eof(c) ==
    /\ srv[c].open /\ ~conn[c].ok /\ taken[c] = Len(stream[c]) /\ ~aborted
    /\ srv' = [srv EXCEPT ![c].open = FALSE]
    /\ UNCHANGED <<down, taken, name_to_conn, aborted, signals, since>> /\ Clientside

unregister_conn(c) == [n \in DOMAIN name_to_conn |-> IF name_to_conn[n] = c THEN None ELSE name_to_conn[n]]

conn_closed_unlinks(c) ==
    /\ srv[c].listed /\ ~srv[c].open /\ ~aborted
    /\ srv' = [srv EXCEPT ![c].listed = FALSE]
    /\ UNCHANGED <<down, taken, name_to_conn, aborted, signals, since>> /\ Clientside

\* The delayed callback.
conn_closed(c) ==
    /\ srv[c].listed /\ ~srv[c].open /\ ~aborted
    /\ srv' = [srv EXCEPT ![c].listed = FALSE]
    /\ name_to_conn' = unregister_conn(c)
    /\ UNCHANGED <<down, taken, aborted, signals, since>> /\ Clientside

-----------------------------------------------------------------------------

\* What the constructor and the server's answers to it lead to.
Connected(c) == [NoConn EXCEPT !.ok = TRUE, !.authorized = TRUE, !.uniquename = c, !.next = 3]
Accepted == [NoServ EXCEPT !.listed = TRUE, !.open = TRUE, !.state = "authorized"]

Init ==
    /\ conn = [c \in Clients |-> IF c \in Started THEN Connected(c) ELSE NoConn]
    /\ srv = [c \in Clients |-> IF c \in Started THEN Accepted ELSE NoServ]
    /\ calls = [c \in Clients |-> IF c \in Started THEN send_hello ELSE << >>]
    /\ stream = [c \in Clients |-> IF c \in Started THEN <<Line("AUTH"), Line("BEGIN")>> \o send_hello ELSE << >>]
    /\ taken = [c \in Clients |-> Len(stream[c])] /\ down = [c \in Clients |-> << >>]
    /\ name_to_conn = [n \in Names \cup Clients |-> IF n \in Started THEN n ELSE None]
    /\ asked = [c \in Clients |-> [s \in Serials |-> IF c \in Started /\ s = 1 THEN 1 ELSE 0]]
    /\ answered = asked /\ matches = TRUE /\ aborted = FALSE
    /\ signals = << >> /\ since = [c \in Clients |-> 0] /\ heard = [c \in Clients |-> << >>]
    /\ role \in Roles /\ budget = Budget

Methods == {"RequestName", "ReleaseName", "GetNameOwner"}

Program(c) ==
    \/ connect(c) \/ send_signal(c) \/ close(c)
    \/ \E n \in Names :
          \/ send_call(c, n, "do", None) \/ send_and_wait(c, n)
          \/ \E f \in Methods : send_call(c, Bus, f, n)
    \/ \E n \in DOMAIN calls[c] : resend(c, calls[c][n])

post_select(c) ==
    try_auth(c) \/ filter_reply(c) \/ filter_other(c) \/ callback_returns(c)
        \/ expire_pending(c) \/ read_eof(c) \/ wait_ends(c)

Serves(c) ==
    \/ new_connection_cb(c) \/ authorize(c) \/ do_server_hello(c)
    \/ \E n \in Names : do_server_request(c, n) \/ do_server_release(c, n) \/ do_server_owner(c, n)
    \/ do_bridge_msg(c) \/ do_broadcast_msg(c) \/ do_gaveup_msg(c)
    \/ server_read_eof(c) \/ conn_closed(c)

Next == \E c \in Clients : Program(c) \/ post_select(c) \/ Serves(c)

\* Main loops run, and time passes: a reply is late some time.
Fairness == \A c \in Clients : WF_vars(post_select(c)) /\ WF_vars(Serves(c))

Spec == Init /\ [][Next]_vars /\ Fairness

-----------------------------------------------------------------------------
(* Properties                                                              *)

TypeOK ==
    /\ \A c \in Clients :
        /\ conn[c].pending \subseteq 1..(conn[c].next - 1) /\ conn[c].alarm \in BOOLEAN
        /\ conn[c].cb \in {-1, 0} \cup conn[c].pending
        /\ conn[c].wait \in {0} \cup conn[c].pending
        /\ taken[c] \in 0..Len(stream[c])
    /\ name_to_conn \in [Names \cup Clients -> Clients \cup {None}]

\* wvdbusconn.cc, init(): Hello "comes before anything the user tries to send".  Until
\* the authentication is over all messages wait; after it the connection has carried
\* exactly the messages of send(), in order, Hello first, and none waits.
SendsInOrder ==
    \A c \in Clients :
        /\ IF conn[c].authorized
           THEN stream[c] = <<Line("AUTH"), Line("BEGIN")>> \o calls[c] /\ conn[c].out_queue = << >>
           ELSE stream[c] \in {<< >>, <<Line("AUTH")>>} /\ conn[c].out_queue = calls[c]
        /\ calls[c] # << >> => \A i \in 1..2 : calls[c][i] = send_hello[i]

\* send() with a callback: until it is called it is pending, and then never called
\* again, whether the reply, the timeout or another send() of the message comes first;
\* and a reply it is called with answers its own message, although clients use the
\* same serial numbers.
OneAnswerEach ==
    /\ \A c \in Clients, s \in Serials :
          asked[c][s] = answered[c][s]
                        + (IF s \in conn[c].pending /\ s # conn[c].cb THEN 1 ELSE 0)
    /\ matches

\* All clients hear the same signals in the same order, from when the server accepted
\* them on, those that were queued during the authentication included.
SignalsInOrder ==
    \A c \in Clients :
        srv[c].listed /\ srv[c].open /\ conn[c].ok =>
            SubSeq(signals, since[c] + 1, Len(signals))
                = heard[c] \o SelectSeq(down[c] \o srv[c].out_queue, LAMBDA m : m.kind = "signal")

\* The server's names never lead to a connection that it has let go.
NamesAreLive == \A n \in DOMAIN name_to_conn : name_to_conn[n] # None => srv[name_to_conn[n]].listed

\* A connection's callbacks and waits are for what is pending, and names for what is
\* there.
ConnsConsistent == TypeOK /\ NamesAreLive

\* wvdbusconn.h: "There is always a reply, even if it's 'message expired' or some other
\* error message": no callback is left waiting on an open connection, once the programs
\* have made their calls, and send_and_wait() returns.
Answered ==
    <>[](\A c \in Clients : conn[c].wait = 0 /\ (conn[c].ok => conn[c].pending = {}))

\* wvdbusconn.h: "The name will be released when this connection object is destroyed."
NamesAreReleased ==
    <>[](aborted \/ \A n \in Names : name_to_conn[n] # None => conn[name_to_conn[n]].ok)
=============================================================================
