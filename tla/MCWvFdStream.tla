---------------------------- MODULE MCWvFdStream ----------------------------
(***************************************************************************)
(* Programs that use a WvFdStream.  A descriptor is a small number: a      *)
(* socket has the same number on both sides, a pair of pipes two, a        *)
(* one-way stream one.                                                     *)
(***************************************************************************)
EXTENDS WvFdStream

\* Writes three bytes, through every way of flushing and closing.
Writer == [
    calls |-> {"write", "read", "flush", "close", "noread", "nowrite", "flush_then_close",
               "select", "setclosecallback", "delay_output", "auto_flush", "outbuf_limit"},
    fds |-> {<<3, 3>>, <<3, 4>>, <<NoFd, 4>>}, written |-> 3, arrived |-> 1]

\* Reads three bytes, through every way of reading.
Reader == [
    calls |-> {"write", "read", "unread", "getline", "close", "noread", "nowrite",
               "select", "queuemin"},
    fds |-> {<<3, 3>>}, written |-> 1, arrived |-> 3]

\* The same without a write descriptor.
OnlyReader == [Reader EXCEPT !.fds = {<<3, NoFd>>}]

\* Writes and half-closes, then only selects.
Finisher == [
    calls |-> {"write", "noread", "nowrite", "flush_then_close", "select"},
    fds |-> {<<3, 3>>, <<3, NoFd>>}, written |-> 2, arrived |-> 1]

\* Delays its output, asks for a flush or an end, in one way or the other, then
\* only selects.
Delayer == [
    calls |-> {"write", "delay_output", "flush", "flush_then_close", "select"},
    fds |-> {<<3, 3>>}, written |-> 2, arrived |-> 0]
HalfDelayer == [Delayer EXCEPT
    !.calls = {"write", "delay_output", "flush", "noread", "nowrite", "select"}]

ReaderAndWriter == {Reader, OnlyReader, Writer}
Finishers == {Finisher, Delayer, HalfDelayer}
=============================================================================
