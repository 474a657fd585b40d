------------------------------ MODULE WvFiles ------------------------------
(***************************************************************************)
(* Files by which processes exclude one another, and the atomic file:      *)
(* streams/wvlockfile.cc, wvlockdev.cc (without liblockdev),               *)
(* wvatomicfile.cc and the life of a WvDaemon in wvdaemon.cc, whose pid    *)
(* file is read as a lock and written as a WvAtomicFile.                   *)
(*                                                                         *)
(* All processes play the same part, kind, and meet at one file name.  A   *)
(* step is one system call that others can observe.  A process that is     *)
(* killed leaves its files as they are; its pid is not used again.         *)
(***************************************************************************)
EXTENDS Integers, FiniteSets

CONSTANTS
    Procs,      \* the processes, also their pids
    None,
    Scenarios,  \* which parts are played, and by which processes
    Chunks,     \* how many write()s make a complete atomic file
    Budget,     \* bound: calls of lock(), unlock() and isok(), files written
    Signals,    \* bound: SIGHUPs and SIGTERMs
    MaxFaults   \* bound: processes killed (one that died before included), system calls that fail

AllKinds == {"lockfile", "lockdev", "writer", "daemon"}

ASSUME FilesAssumption ==
    /\ None \notin Procs /\ None \notin Nat /\ IsFiniteSet(Procs) /\ Procs # {}
    /\ Scenarios \subseteq [kind : AllKinds, procs : SUBSET Procs] /\ Chunks \in Nat \ {0}
    /\ Budget \in Nat /\ Signals \in Nat /\ MaxFaults \in Nat

VARIABLES
    kind,     \* the part that all processes play
    name,     \* the inode that the file name refers to
    data,     \* the contents of the inodes
    proc,     \* the processes
    overlap,  \* history: calls of two processes have overlapped
    lost,     \* history: a pid file could not be written, or was removed by a daemon that was
              \* refused, or a device lock was granted without a file
    budget, faults

vars == <<kind, name, data, proc, overlap, lost, budget, faults>>

Inodes == 1 .. 2 * Cardinality(Procs) + 1

\* A file of the process by with its first n chunks (a pid is all of them); bad: a
\* write to it has failed.
Blank == [by |-> None, n |-> 0, bad |-> FALSE]
Contents == [by : Procs \cup {None}, n : 0..Chunks, bad : BOOLEAN]

\* lock_count is WvLockDev's; a WvLockFile's owner knows from lock()'s result, and a
\* daemon holds the lock from do_load() to do_unload().  call is the operation that
\* pc is in.  unwritten is history: lock() returned true, and the file is blank.
Operations == {"none", "lock", "isok", "unlock", "verify", "write", "load"}
Points == {
    "idle", "readpid", "getline", "cleanup", "create", "print", "unlink", "reopen", "check",
    "remove", "recreate", "mkstemp", "write", "rename", "load", "start", "run", "stop", "unload"}
Process == [
    alive : BOOLEAN, pc : Points, call : Operations, fd : Inodes \cup {None},
    tmp : Inodes \cup {None}, lock_count : 0..2, unwritten : BOOLEAN,
    want_to_die : BOOLEAN, want_to_restart : BOOLEAN,
    sighup : {"default", "handler", "ignore"}, sigterm : {"default", "handler"},
    hungup : BOOLEAN]

NewProcess == [
    alive |-> TRUE, pc |-> "idle", call |-> "none", fd |-> None, tmp |-> None,
    lock_count |-> 0, unwritten |-> FALSE, want_to_die |-> FALSE, want_to_restart |-> FALSE,
    sighup |-> "default", sigterm |-> "default", hungup |-> FALSE]

\* Nothing of a process stays but its temporary file.
Dead(x) == [NewProcess EXCEPT !.alive = FALSE, !.tmp = x.tmp]

\* A lock file may be left from before by a process that died, with its pid or still
\* blank; the atomic file may have an old version.
Init ==
    /\ \E sc \in Scenarios :
          /\ kind = sc.kind
          /\ proc = [p \in Procs |-> IF p \in sc.procs THEN NewProcess ELSE Dead(NewProcess)]
    /\ \/ name = None /\ data = [i \in Inodes |-> Blank] /\ faults = 0
       \/ /\ name = 1 /\ faults = (IF kind = "writer" THEN 0 ELSE 1)
          /\ \E n \in (IF kind = "writer" THEN {Chunks} ELSE {0, Chunks}) :
                data = [i \in Inodes |-> IF i = 1 THEN [Blank EXCEPT !.n = n] ELSE Blank]
    /\ faults <= MaxFaults
    /\ overlap = FALSE /\ lost = FALSE /\ budget = (IF kind = "daemon" THEN Signals ELSE Budget)

-----------------------------------------------------------------------------
(* The file system and the processes.                                      *)

Resting == {"idle", "start", "run", "stop"}
InCall(p) == proc[p].alive /\ proc[p].pc \notin Resting
Others(p) == {q \in Procs \ {p} : InCall(q)}

InUse == {name} \cup {proc[p].fd : p \in Procs} \cup {proc[p].tmp : p \in Procs}
NewInode == CHOOSE i \in Inodes : i \notin InUse

\* The contents become d; a file without a name that nobody has open is gone.
Disk(d) == data' = [i \in Inodes |-> IF i \in InUse' THEN d[i] ELSE Blank]

\* p becomes x, perhaps in the middle of another process's call.
Steps(p, x) ==
    /\ proc' = [proc EXCEPT ![p] = x]
    /\ overlap' = (overlap \/ Others(p) # {})
    /\ UNCHANGED kind

At(p, pc) == proc[p].alive /\ proc[p].pc = pc
Goes(p, pc) == Steps(p, [proc[p] EXCEPT !.pc = pc])

Quiet == UNCHANGED <<lost, budget, faults>>
Fault == faults < MaxFaults /\ faults' = faults + 1 /\ UNCHANGED budget
Fails == Fault /\ lost' = TRUE
Refused == Fault /\ UNCHANGED lost

\* A call begins.
Calls(p, k, call, pc) ==
    /\ kind = k /\ At(p, "idle") /\ budget > 0
    /\ Steps(p, [proc[p] EXCEPT !.call = call, !.pc = pc])
    /\ budget' = budget - 1
    /\ UNCHANGED <<name, lost, faults>> /\ Disk(data)

\* What kill(pid, 0) and a file that p has open say: the file names no process, a
\* process that is gone, or one that lives.
Owner(p) == IF proc[p].fd = None THEN Blank ELSE data[proc[p].fd]
IsBlank(p) == Owner(p).n = 0
IsStale_anyone(p) == ~IsBlank(p) /\ Owner(p).by # p
IsStale(p) == ~IsBlank(p) /\ Owner(p).by \notin {q \in Procs : proc[q].alive}

\* open(name, O_CREAT | O_EXCL) succeeds.
Creates(p, x) ==
    /\ name = None
    /\ name' = NewInode
    /\ Steps(p, [x EXCEPT !.fd = NewInode])
    /\ Disk(data)

\* p's pid is written to the file it has open, if any, wherever that is by now.
Writes(p, x) ==
    /\ Steps(p, [x EXCEPT !.fd = None])
    /\ UNCHANGED name
    /\ Disk([i \in Inodes |-> IF i = proc[p].fd THEN [Blank EXCEPT !.by = p, !.n = Chunks] ELSE data[i]])

\* The write fails: the file is blank as before.  That it is p's is history.
WritesNothing(p, x) ==
    /\ Steps(p, [x EXCEPT !.fd = None])
    /\ UNCHANGED name
    /\ Disk([i \in Inodes |-> IF i = proc[p].fd THEN [Blank EXCEPT !.by = p] ELSE data[i]])

-----------------------------------------------------------------------------
(* WvLockFile                                                              *)

lockfile_lock(p) == Calls(p, "lockfile", "lock", "readpid")
lockfile_isok(p) == Calls(p, "lockfile", "isok", "readpid")
lockfile_unlock(p) == proc[p].lock_count > 0 /\ Calls(p, "lockfile", "unlock", "readpid")

\* readpid() is called by isok(), and again at the end of unlock() ("verify").
readpid_open(p) ==
    /\ At(p, "readpid")
    /\ Steps(p, [proc[p] EXCEPT !.pc = "getline", !.fd = name])
    /\ UNCHANGED name /\ Disk(data) /\ Quiet

\* access() says no, and readpid() returns -1.
readpid_refused(p) ==
    /\ At(p, "readpid")
    /\ Goes(p, "idle")
    /\ UNCHANGED name /\ Disk(data) /\ Refused

\* The pid is not 0: that of p itself or of another process.
AfterReadpid(p, x) ==
    IF x.call = "isok" \/ x.call = "verify" THEN [x EXCEPT !.pc = "idle"]
    ELSE IF Owner(p).by = p
    THEN [x EXCEPT !.pc = IF x.call = "lock" THEN "create" ELSE "unlink"]
    ELSE [x EXCEPT !.pc = "idle"]

readpid_alive(p) ==
    /\ At(p, "getline") /\ ~IsBlank(p) /\ ~IsStale(p)
    /\ Steps(p, [AfterReadpid(p, proc[p]) EXCEPT !.fd = None])
    /\ UNCHANGED name /\ Disk(data) /\ Quiet

readpid_getline_onlystale(p) ==
    /\ At(p, "getline") /\ (IsBlank(p) \/ IsStale(p))
    /\ Steps(p, [proc[p] EXCEPT !.pc = IF IsBlank(p) /\ proc[p].fd # None THEN "idle" ELSE "cleanup", !.fd = None])
    /\ UNCHANGED name /\ Disk(data) /\ Quiet

\* No file, a blank one or one of a dead process: the getline() has seen it, and
\* now the name is removed, whatever it refers to.
readpid_getline(p) ==
    /\ At(p, "getline") /\ (IsBlank(p) \/ IsStale(p))
    /\ Steps(p, [proc[p] EXCEPT !.pc = "cleanup", !.fd = None])
    /\ UNCHANGED name /\ Disk(data) /\ Quiet

readpid_clean(p) ==
    /\ At(p, "cleanup")
    /\ name' = None
    /\ Goes(p, CASE proc[p].call = "lock" -> "create"
                 [] proc[p].call = "unlock" -> "unlink"
                 [] OTHER -> "idle")
    /\ Disk(data) /\ Quiet

lock_create(p) ==
    /\ kind = "lockfile" /\ At(p, "create")
    /\ \/ Creates(p, [proc[p] EXCEPT !.pc = "print"]) /\ Quiet
       \/ Goes(p, "idle") /\ UNCHANGED name /\ Disk(data) /\ (IF name # None THEN Quiet ELSE Refused)

\* Whether print() has written anything is not looked at.
lock_print(p) ==
    /\ kind = "lockfile" /\ At(p, "print")
    /\ LET x == [proc[p] EXCEPT !.pc = "idle", !.lock_count = 1]
       IN  \/ Writes(p, [x EXCEPT !.unwritten = FALSE]) /\ Quiet
           \/ WritesNothing(p, [x EXCEPT !.unwritten = TRUE]) /\ Refused

unlock_unlink(p) ==
    /\ kind = "lockfile" /\ At(p, "unlink")
    /\ name' = None
    /\ Steps(p, [proc[p] EXCEPT !.lock_count = 0, !.unwritten = FALSE, !.call = "verify", !.pc = "readpid"])
    /\ Disk(data) /\ Quiet

-----------------------------------------------------------------------------
(* WvLockDev                                                               *)

\* lock() of a device that the object has locked already only counts.
lockdev_lock(p) == proc[p].lock_count = 0 /\ Calls(p, "lockdev", "lock", "create")

lockdev_again(p) ==
    /\ kind = "lockdev" /\ At(p, "idle") /\ proc[p].lock_count = 1 /\ budget > 0
    /\ Steps(p, [proc[p] EXCEPT !.lock_count = 2])
    /\ budget' = budget - 1
    /\ UNCHANGED <<name, lost, faults>> /\ Disk(data)

\* EEXIST: sleep(1) and have a look at it.  Any other error ends it.
lockdev_create(p) ==
    /\ kind = "lockdev" /\ At(p, "create")
    /\ \/ Creates(p, [proc[p] EXCEPT !.pc = "print"]) /\ Quiet
       \/ name # None /\ Goes(p, "reopen") /\ UNCHANGED name /\ Disk(data) /\ Quiet
       \/ name = None /\ Goes(p, "idle") /\ UNCHANGED name /\ Disk(data) /\ Refused

\* Here too nobody looks whether anything was written; but a blank file is respected.
lockdev_print(p) ==
    /\ kind = "lockdev" /\ At(p, "print")
    /\ LET x == [proc[p] EXCEPT !.pc = "idle", !.lock_count = 1]
       IN  \/ Writes(p, x) /\ Quiet
           \/ WritesNothing(p, x) /\ Refused

lockdev_reopen(p) ==
    /\ At(p, "reopen")
    /\ Steps(p, [proc[p] EXCEPT !.pc = "check", !.fd = name])
    /\ UNCHANGED name /\ Disk(data) /\ Quiet

\* Only the file of a process that is gone counts as stale; a blank one does not.
lockdev_check(p) ==
    /\ At(p, "check")
    /\ Steps(p, [proc[p] EXCEPT !.fd = None, !.pc = IF IsStale(p) THEN "remove" ELSE "idle"])
    /\ UNCHANGED name /\ Disk(data) /\ Quiet

lockdev_remove(p) ==
    /\ At(p, "remove")
    /\ Goes(p, IF name = None THEN "idle" ELSE "recreate")
    /\ name' = None
    /\ Disk(data) /\ Quiet

\* The second open() is not checked: without a file the print() goes nowhere and
\* lock() succeeds all the same.
lockdev_recreate(p) ==
    /\ At(p, "recreate")
    /\ \/ Creates(p, [proc[p] EXCEPT !.pc = "print"]) /\ Quiet
       \/ Goes(p, "print") /\ UNCHANGED name /\ Disk(data) /\ (IF name # None THEN Quiet ELSE Fails)

lockdev_unlock(p) ==
    /\ kind = "lockdev" /\ At(p, "idle") /\ proc[p].lock_count > 0
    /\ Steps(p, [proc[p] EXCEPT !.lock_count = @ - 1])
    /\ name' = IF proc[p].lock_count = 1 THEN None ELSE name
    /\ Disk(data) /\ Quiet

-----------------------------------------------------------------------------
(* WvAtomicFile.  A writer opens it, writes its chunks and closes it; a    *)
(* daemon writes its pid in one chunk.                                     *)

\* The file is done, good or bad; a daemon installs its signal handlers and goes on.
AfterClose(x) ==
    IF kind = "daemon"
    THEN [x EXCEPT !.pc = "start", !.tmp = None, !.lock_count = 1,
                   !.sighup = "handler", !.sigterm = "handler"]
    ELSE [x EXCEPT !.pc = "idle", !.tmp = None]

writer_open(p) == Calls(p, "writer", "write", "mkstemp")

\* open(): mkstemp(), or nothing can be written at all.
atomic_open(p) ==
    /\ At(p, "mkstemp")
    /\ UNCHANGED name
    /\ \/ /\ Steps(p, [proc[p] EXCEPT !.pc = "write", !.tmp = NewInode])
          /\ Disk([data EXCEPT ![NewInode].by = p])
          /\ Quiet
       \/ Steps(p, AfterClose(proc[p])) /\ Disk(data) /\ Fails

\* A write that fails closes the file on the spot, through seterr().
atomic_write(p) ==
    /\ At(p, "write") /\ UNCHANGED name
    /\ LET i == proc[p].tmp
           size == IF kind = "daemon" THEN Chunks ELSE 1
       IN  \/ /\ Goes(p, IF data[i].n + size = Chunks THEN "rename" ELSE "write")
              /\ Disk([data EXCEPT ![i].n = @ + size])
              /\ Quiet
           \/ /\ Goes(p, "rename")
              /\ Disk([data EXCEPT ![i].bad = TRUE])
              /\ Fails

atomic_close_early(p) ==
    /\ At(p, "rename") \/ At(p, "write")
    /\ name' = proc[p].tmp
    /\ Steps(p, AfterClose(proc[p]))
    /\ Disk(data) /\ Quiet

\* close(): rename(), whatever was written; if that fails the temporary file goes.
atomic_close(p) ==
    /\ At(p, "rename")
    /\ \/ name' = proc[p].tmp /\ Quiet
       \/ UNCHANGED name /\ Fails
    /\ Steps(p, AfterClose(proc[p]))
    /\ Disk(data)

-----------------------------------------------------------------------------
(* WvDaemon, with daemonize.                                               *)

\* do_load(): "First, make sure we aren't already running".
load_open(p) ==
    /\ kind = "daemon" /\ At(p, "idle")
    /\ Steps(p, [proc[p] EXCEPT !.pc = "load", !.fd = name, !.call = "load"])
    /\ UNCHANGED name /\ Disk(data) /\ Quiet

load_check(p) ==
    /\ At(p, "load")
    /\ LET runs == ~IsBlank(p) /\ ~IsStale(p)
       IN  Steps(p, [proc[p] EXCEPT !.fd = None, !.want_to_die = runs,
                        !.pc = IF runs THEN "unload" ELSE "mkstemp"])
    /\ UNCHANGED name /\ Disk(data) /\ Quiet

should_run_norestart(p) == ~proc[p].want_to_die

should_run(p) == ~proc[p].want_to_die /\ ~proc[p].want_to_restart

\* Life(p): _want_to_restart = false and do_start(); do_run(), which returns when it
\* likes; do_stop().
do_start(p) ==
    /\ At(p, "start") /\ ~proc[p].want_to_die
    /\ Steps(p, [proc[p] EXCEPT !.pc = "run", !.want_to_restart = FALSE, !.hungup = FALSE])
    /\ UNCHANGED name /\ Disk(data) /\ Quiet

do_run_returns(p) ==
    /\ At(p, "run") /\ ~should_run(p)
    /\ Goes(p, "stop")
    /\ UNCHANGED name /\ Disk(data) /\ Quiet

do_stop(p) ==
    /\ At(p, "stop")
    /\ Goes(p, IF proc[p].want_to_die THEN "unload" ELSE "start")
    /\ UNCHANGED name /\ Disk(data) /\ Quiet

\* The loop's own test finds that a signal came before do_start().
loop_ends(p) ==
    /\ At(p, "start") /\ proc[p].want_to_die
    /\ Goes(p, "unload")
    /\ UNCHANGED name /\ Disk(data) /\ Quiet

\* do_unload(): the pid file is removed by whoever gets here.
do_unload(p) ==
    /\ At(p, "unload")
    /\ name' = None
    /\ lost' = (lost \/ (proc[p].lock_count = 0 /\ name # None))
    /\ Steps(p, Dead(proc[p]))
    /\ UNCHANGED <<budget, faults>> /\ Disk(data)

\* Signals; the handlers are in force from do_load() to do_unload().
Running(p) == proc[p].alive /\ proc[p].pc \in {"start", "run", "stop"}

Signalled(p, x) ==
    /\ proc' = [proc EXCEPT ![p] = x]
    /\ UNCHANGED <<kind, name, data, overlap, lost, faults>>

\* sighup_handler() sets SIG_IGN, so there is only one.
SigHup(p) ==
    /\ Running(p) /\ budget > 0 /\ budget' = budget - 1
    /\ proc[p].sighup = "handler"
    /\ Signalled(p, [proc[p] EXCEPT !.sighup = "ignore", !.want_to_restart = TRUE, !.hungup = TRUE])

\* sigterm_handler() sets SIG_DFL: the second one kills, as in Kill(p).
SigTerm(p) ==
    /\ Running(p) /\ budget > 0 /\ budget' = budget - 1
    /\ proc[p].sigterm = "handler"
    /\ Signalled(p, [proc[p] EXCEPT !.sigterm = "default", !.want_to_die = TRUE])

-----------------------------------------------------------------------------

\* A process is killed anywhere.
Kill(p) ==
    /\ proc[p].alive /\ Fault
    /\ Steps(p, Dead(proc[p]))
    /\ UNCHANGED <<name, lost>> /\ Disk(data)

LockFile(p) ==
    \/ lockfile_lock(p) \/ lockfile_isok(p) \/ lockfile_unlock(p)
    \/ readpid_open(p) \/ readpid_refused(p) \/ readpid_alive(p) \/ readpid_getline(p) \/ readpid_clean(p)
    \/ lock_create(p) \/ lock_print(p) \/ unlock_unlink(p)

LockDev(p) ==
    \/ lockdev_lock(p) \/ lockdev_again(p) \/ lockdev_create(p) \/ lockdev_print(p)
    \/ lockdev_reopen(p) \/ lockdev_check(p) \/ lockdev_remove(p) \/ lockdev_recreate(p)
    \/ lockdev_unlock(p)

AtomicFile(p) == atomic_open(p) \/ atomic_write(p) \/ atomic_close(p)

\* What a daemon does once it is started.
Life(p) ==
    \/ load_check(p) \/ do_start(p) \/ do_run_returns(p) \/ do_stop(p)
    \/ loop_ends(p) \/ do_unload(p)

Next == \E p \in Procs :
    \/ LockFile(p) \/ LockDev(p) \/ writer_open(p) \/ AtomicFile(p)
    \/ load_open(p) \/ Life(p) \/ SigHup(p) \/ SigTerm(p) \/ Kill(p)

\* A daemon that has been started goes on; its run callback returns when
\* should_run() is false, as wvdaemon.h asks.
Fairness == \A p \in Procs : WF_vars(Life(p)) /\ WF_vars(AtomicFile(p))

Spec == Init /\ [][Next]_vars /\ Fairness

-----------------------------------------------------------------------------
(* Properties                                                              *)

Holders == {p \in Procs : proc[p].alive /\ proc[p].lock_count > 0}

TypeOK ==
    /\ kind \in AllKinds /\ name \in Inodes \cup {None}
    /\ data \in [Inodes -> Contents] /\ proc \in [Procs -> Process]
    /\ overlap \in BOOLEAN /\ lost \in BOOLEAN /\ budget \in Nat /\ faults \in 0..MaxFaults

\* Those whose pid lock() has written to the lock file, or failed to write to a device
\* lock, where a blank file keeps others out.
Owners == {p \in Holders : ~proc[p].unwritten}

\* Calls that do not overlap exclude one another, whatever died or was left behind
\* before: there are never two owners of a WvLockFile, of a WvLockDev that got its file,
\* or of a pid file that could be written and that no refused daemon has removed.  One
\* whose WvLockFile::lock() returned true although print() failed is not protected, but
\* does no harm to the next owner either.
OneOwner ==
    ~overlap /\ (lost => kind = "lockfile") => Cardinality(Owners) <= 1

\* WvLockDev excludes processes whose calls do overlap too, as long as there is no
\* lock of a dead process to take over.
DevLockExcludes ==
    kind = "lockdev" /\ faults = 0 => Cardinality(Holders) <= 1

\* Nobody gets a lock, or a pid file, that another one has.
LocksConsistent == TypeOK /\ OneOwner /\ DevLockExcludes

\* A WvLockFile::lock() that nobody interferes with fails only if a live process has
\* the lock, or a system call fails: stale and blank lock files never keep it out.
SoloLockDecides ==
    [][\A p \in Procs :
          (kind = "lockfile" /\ proc[p].call = "lock" /\ InCall(p) /\ proc'[p].alive /\ proc'[p].pc = "idle"
              /\ ~overlap' /\ faults' = faults)
          => Holders' # {}]_vars

\* The name of a WvAtomicFile is a complete version, old or new, at every moment,
\* unless a write to that very version failed.
FileIsOldOrNew ==
    kind = "writer" /\ name # None => data[name].n = Chunks \/ data[name].bad

\* After a SIGHUP that was not ignored, the daemon goes through do_start() again, or
\* dies.
HangupRestarts ==
    \A p \in Procs : (proc[p].hungup /\ proc[p].alive) ~> (~proc[p].hungup \/ ~proc[p].alive)

\* A SIGTERM makes the daemon exit.
TermExits == \A p \in Procs : proc[p].want_to_die ~> ~proc[p].alive

\* Signals take effect, between whichever two tests of the main loop they arrive.
SignalsTakeEffect == HangupRestarts /\ TermExits

\* wvdaemon.cc, do_load(): "First, make sure we aren't already running": without
\* overlapping starts and without faults no second daemon runs.
NotAlreadyRunning ==
    kind = "daemon" /\ ~overlap /\ faults = 0 => Cardinality(Holders) <= 1
=============================================================================
