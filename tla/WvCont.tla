------------------------------- MODULE WvCont -------------------------------
(***************************************************************************)
(* Continuations (utils/wvcont.cc) on top of co-operative tasks            *)
(* (utils/wvtask.cc), on which WvStream::continue_select() is built.       *)
(*                                                                         *)
(* There is one thread and one stack per task, plus the main program's.    *)
(* WvTaskMan::run() switches from any stack to a task's, but yield()       *)
(* always switches to the main program's: _call() makes a call stack of    *)
(* that by running its own task again until the yield has come back to the *)
(* innermost caller.  Every such switch is a step here.                    *)
(*                                                                         *)
(* The functions that are run are the environment.  They respect two       *)
(* rules of wvcont.h and its test: not to call a cont that is already in   *)
(* the call chain (_call() asserts it) and not to yield once isok() is     *)
(* false (yield() asserts it).                                             *)
(***************************************************************************)
EXTENDS Integers, Sequences, FiniteSets

CONSTANTS
    Conts,      \* the WvCont::Data objects
    Tasks,      \* the WvTask objects
    Values, Null,
    Top,        \* the main program: its stack, and no task or cont
    Small,      \* the conts that ask for a small stack
    MaxHandles  \* bound: WvCont objects that refer to one Data

ASSUME TopAssumption == Top \notin Conts /\ Top \notin Tasks /\ Null \notin Values
ASSUME BoundAssumption == MaxHandles \in Nat /\ Small \subseteq Conts /\ IsFiniteSet(Conts)

VARIABLES
    data,       \* each WvCont::Data
    task,       \* each WvTask
    free_tasks, \* WvTaskMan's finished tasks, first one first
    frames,     \* per stack: its unfinished activations of _call()
    cur,        \* whose stack is running: WvTaskMan::current_task
    back,       \* that stack is just back from run() in its last activation
    curdata, taskdepth,
    val         \* what the last yield() or call returned, or the parameter

vars == <<data, task, free_tasks, frames, cur, back, curdata, taskdepth, val>>

NoData == [alive |-> FALSE, handles |-> 0, links |-> 0, mydepth |-> 0, finishing |-> FALSE,
           task |-> Top, ret |-> Null, p1 |-> Null]
NoTask == [exists |-> FALSE, small |-> FALSE, running |-> FALSE,
           recycled |-> FALSE, userdata |-> Top]

Init ==
    /\ data = [d \in Conts |-> NoData] /\ task = [t \in Tasks |-> NoTask]
    /\ free_tasks = << >> /\ frames = [s \in Tasks \cup {Top} |-> << >>]
    /\ cur = Top /\ back = FALSE
    /\ curdata = Top /\ taskdepth = 0 /\ val = Null

-----------------------------------------------------------------------------
(* WvTask and WvTaskMan                                                    *)

UserCode == ~back
LastOf(q) == q[Len(q)]
FrontOf(q) == SubSeq(q, 1, Len(q) - 1)

\* setcontext() to the main program: always into the run() it called last.
ToToplevel == cur' = Top /\ back' = TRUE

\* The task is in run() itself, in the middle of its own _call().
ResumesRun(t, tk, fr) ==
    /\ fr[t] # << >>
    /\ cur' = t /\ back' = TRUE /\ task' = tk /\ val' = val

\* do_task(): the function starts, or its yield() returns.
ResumesFunction(t, tk, fr, p1) ==
    /\ fr[t] = << >> /\ tk[t].running
    /\ cur' = t /\ back' = FALSE /\ task' = tk /\ val' = p1

\* do_task(): there is no function to run.  No call of _call() meets this case, for
\* it starts a function first.
YieldsAtOnce(t, tk, fr) ==
    /\ fr[t] = << >> /\ ~tk[t].running
    /\ ToToplevel /\ task' = tk /\ val' = val

\* run() of task t, given the tasks, the stacks and the parameter.
SwitchTo(t, tk, fr, p1) ==
    ResumesRun(t, tk, fr) \/ ResumesFunction(t, tk, fr, p1) \/ YieldsAtOnce(t, tk, fr)

Fits(t, d) == d \in Small \/ ~task[t].small
Fitting(d) == {i \in 1..Len(free_tasks) : Fits(free_tasks[i], d)}
First(I) == CHOOSE i \in I : \A j \in I : i <= j
Without(q, i) == [j \in 1..(Len(q) - 1) |-> IF j < i THEN q[j] ELSE q[j + 1]]

Started(tk, t, d) == [tk EXCEPT ![t].running = TRUE, ![t].userdata = d]

\* WvTaskMan::start(): the first free task with a stack that is large enough, or
\* a new one.
start(d, t) ==
    \/ /\ Fitting(d) # {}
       /\ t = free_tasks[First(Fitting(d))]
       /\ free_tasks' = Without(free_tasks, First(Fitting(d)))
    \/ /\ Fitting(d) = {} /\ ~task[t].exists
       /\ UNCHANGED free_tasks

NewlyStarted(d, t) ==
    Started([task EXCEPT ![t].exists = TRUE, ![t].recycled = FALSE,
                         ![t].small = IF task[t].exists THEN @ ELSE d \in Small], t, d)

\* recycle(), and the end of the last Data, with which WvTaskMan goes away.
FreeData(d, dt, tk, fq) ==
    LET t == dt[d].task
        others == \E e \in Conts \ {d} : dt[e].alive
        recycled == IF t = Top THEN tk ELSE [tk EXCEPT ![t].recycled = TRUE]
    IN  /\ data' = [dt EXCEPT ![d] = NoData]
        /\ IF others
           THEN /\ task' = recycled
                /\ free_tasks' = IF t = Top THEN fq ELSE Append(fq, t)
           ELSE /\ task' = [u \in Tasks |-> NoTask]
                /\ free_tasks' = << >>

-----------------------------------------------------------------------------
(* WvCont                                                                  *)

\* _call() up to its first run().  dtor: the destructor called it.
BeginCall(d, dt, tk, dtor) ==
    LET f == [cont |-> d, olddata |-> curdata, dtor |-> dtor]
        fr == [frames EXCEPT ![cur] = Append(@, f)]
    IN  /\ data' = [dt EXCEPT ![d].links = @ + 1, ![d].mydepth = taskdepth + 1]
        /\ taskdepth' = taskdepth + 1 /\ curdata' = d /\ frames' = fr
        /\ SwitchTo(dt[d].task, tk, fr, dt[d].p1)

\* An object refers to d and nobody is destroying it.
Usable(d) == data[d].handles > 0 /\ ~data[d].finishing

New(d) ==
    /\ UserCode /\ ~data[d].alive
    /\ data' = [data EXCEPT ![d] = [NoData EXCEPT !.alive = TRUE, !.handles = 1, !.links = 1]]
    /\ UNCHANGED <<task, free_tasks, frames, cur, back, curdata, taskdepth, val>>

Linked(d) ==
    /\ data[d].handles < MaxHandles
    /\ data' = [data EXCEPT ![d].handles = @ + 1, ![d].links = @ + 1]
    /\ UNCHANGED <<task, free_tasks, frames, cur, back, curdata, taskdepth, val>>

Copy(d) == UserCode /\ Usable(d) /\ Linked(d)

isok == curdata # Top /\ ~data[curdata].finishing

\* WvCont::current()
current == UserCode /\ isok /\ Linked(curdata)

\* operator()
Call(d, p) ==
    /\ UserCode /\ Usable(d) /\ data[d].mydepth = 0
    /\ LET with(t) == [data EXCEPT ![d].task = t, ![d].p1 = p, ![d].ret = Null]
           t0 == data[d].task
       IN  \/ /\ t0 = Top
              /\ \E t \in Tasks : start(d, t) /\ BeginCall(d, with(t), NewlyStarted(d, t), FALSE)
           \/ /\ t0 # Top /\ UNCHANGED free_tasks
              /\ BeginCall(d, with(t0), Started(task, t0, d), FALSE)

yield(r) ==
    /\ UserCode /\ isok
    /\ data' = [data EXCEPT ![curdata].ret = r]
    /\ ToToplevel
    /\ UNCHANGED <<task, free_tasks, frames, curdata, taskdepth, val>>

\* The function returns: the end of bouncer() and of do_task()'s turn.
Return(r) ==
    /\ UserCode /\ cur # Top
    /\ data' = [data EXCEPT ![task[cur].userdata].ret = r]
    /\ task' = [task EXCEPT ![cur].running = FALSE]
    /\ ToToplevel
    /\ UNCHANGED <<free_tasks, frames, curdata, taskdepth, val>>

\* ~WvCont().  The last object runs a suspended function to its end first.
Drop(d) ==
    /\ UserCode /\ Usable(d)
    /\ \/ /\ data[d].links > 1
          /\ data' = [data EXCEPT ![d].handles = @ - 1, ![d].links = @ - 1]
          /\ UNCHANGED <<task, free_tasks, frames, cur, back, curdata, taskdepth, val>>
       \/ /\ data[d].links = 1
          /\ LET t == data[d].task
                 dying == [data EXCEPT ![d].finishing = TRUE, ![d].p1 = Null]
             IN  IF t # Top /\ task[t].running
                 THEN BeginCall(d, dying, task, TRUE) /\ UNCHANGED free_tasks
                 ELSE /\ FreeData(d, dying, task, free_tasks)
                      /\ UNCHANGED <<frames, cur, back, curdata, taskdepth, val>>

-----------------------------------------------------------------------------
(* _call() after run()                                                     *)

Noticed_keepsparam(d) ==
    IF data[d].links = 1 THEN [data EXCEPT ![d].finishing = TRUE] ELSE data

\* isok() turns false when nobody but _call() itself refers to the Data.
Noticed(d) ==
    IF data[d].links = 1 THEN [data EXCEPT ![d].finishing = TRUE, ![d].p1 = Null] ELSE data

MustRunAgain_oneturn(d) == taskdepth > data[d].mydepth

MustRunAgain_nochain(d) == Noticed(d)[d].finishing /\ task[data[d].task].running

\* _call()'s two loops: a dying function runs to its end, and a yield that is meant
\* for a caller further in is passed on.
MustRunAgain(d) ==
    \/ Noticed(d)[d].finishing /\ task[data[d].task].running
    \/ taskdepth > data[d].mydepth

run_again ==
    /\ back
    /\ LET d == LastOf(frames[cur]).cont
       IN  /\ MustRunAgain(d)
           /\ data' = Noticed(d)
           /\ SwitchTo(data[d].task, task, frames, Noticed(d)[d].p1)
    /\ UNCHANGED <<free_tasks, frames, curdata, taskdepth>>

call_ends_nounlink ==
    /\ back
    /\ LET f == LastOf(frames[cur])
           d == f.cont
           links == data[d].links - 1
           dt == [Noticed(d) EXCEPT ![d].links = links, ![d].mydepth = 0]
       IN  /\ ~MustRunAgain(d)
           /\ IF links = 0 THEN FreeData(d, dt, task, free_tasks)
              ELSE data' = dt /\ UNCHANGED <<task, free_tasks>>
           /\ frames' = [frames EXCEPT ![cur] = FrontOf(@)]
           /\ taskdepth' = taskdepth - 1 /\ curdata' = f.olddata
           /\ val' = data[d].ret /\ back' = FALSE /\ cur' = cur

\* The call is over; so is the destructor, if that is what called.
call_ends ==
    /\ back
    /\ LET f == LastOf(frames[cur])
           d == f.cont
           links == data[d].links - (IF f.dtor THEN 2 ELSE 1)
           dt == [Noticed(d) EXCEPT ![d].links = links, ![d].mydepth = 0,
                                    ![d].handles = IF f.dtor THEN @ - 1 ELSE @]
       IN  /\ ~MustRunAgain(d)
           /\ IF links = 0 THEN FreeData(d, dt, task, free_tasks)
              ELSE data' = dt /\ UNCHANGED <<task, free_tasks>>
           /\ frames' = [frames EXCEPT ![cur] = FrontOf(@)]
           /\ taskdepth' = taskdepth - 1 /\ curdata' = f.olddata
           /\ val' = data[d].ret /\ back' = FALSE /\ cur' = cur

-----------------------------------------------------------------------------

Next ==
    \/ current \/ run_again \/ call_ends
    \/ \E d \in Conts : New(d) \/ Copy(d) \/ Drop(d)
    \/ \E d \in Conts, p \in Values : Call(d, p)
    \/ \E r \in Values : yield(r) \/ Return(r)

Spec == Init /\ [][Next]_vars

-----------------------------------------------------------------------------
(* Properties                                                              *)

\* The activations of _call() for d, on all stacks.
Activations(d) ==
    {a \in (Tasks \cup {Top}) \X (1..Cardinality(Conts)) :
        a[2] <= Len(frames[a[1]]) /\ frames[a[1]][a[2]].cont = d}

\* Types, and the reference count: a Data lives exactly as long as an object or
\* an activation of _call() refers to it.
TypeOK ==
    /\ cur \in Tasks \cup {Top} /\ curdata \in Conts \cup {Top}
    /\ taskdepth \in 0..Cardinality(Conts) /\ val \in Values \cup {Null}
    /\ \A d \in Conts :
          /\ data[d].links = data[d].handles + Cardinality(Activations(d))
          /\ data[d].alive <=> data[d].links > 0

\* The assertions of wvcont.cc and wvtask.cc: yield() and current() run on the task
\* of the current Data; run() has a task that is not recycled; a yield always
\* finds the main program inside run(); the depths agree when a call ends; and
\* what is recycled is not running.
NoAssertionFails ==
    /\ UserCode /\ cur # Top => curdata # Top /\ data[curdata].task = cur
    /\ back => frames[cur] # << >>
    /\ cur # Top => frames[Top] # << >>
    /\ \A s \in Tasks \cup {Top} : \A i \in 1..Len(frames[s]) :
          LET d == frames[s][i].cont
          IN  data[d].alive /\ data[d].mydepth > 0 /\ ~task[data[d].task].recycled
    /\ back => LET d == LastOf(frames[cur]).cont
               IN  MustRunAgain(d) \/ taskdepth = data[d].mydepth
    /\ \A i \in 1..Len(free_tasks) : ~task[free_tasks[i]].running

\* The counts and the depths that calls, yields and destructors keep always fit
\* together, whoever drops the last reference to a function that runs.
ContsConsistent == TypeOK /\ NoAssertionFails

\* A function that has been left in the middle keeps its stack to itself until it
\* has run to its end: its task has exactly one owner, and that one is alive.
SuspendedTasksAreOwned ==
    \A t \in Tasks : task[t].running =>
        \A d \in Conts : data[d].task = t <=> d = task[t].userdata

Chain == [i \in 1..taskdepth |-> CHOOSE d \in Conts : data[d].mydepth = i]
State == [d \in Conts |->
            IF ~data[d].alive THEN "none"
            ELSE IF data[d].mydepth > 0 THEN "active"
            ELSE IF data[d].task # Top /\ task[data[d].task].running THEN "paused" ELSE "idle"]

Dying == {d \in Conts : data[d].finishing}
Held == [d \in Conts |-> data[d].handles]

Abstract == INSTANCE Semicoroutines WITH
    chain <- Chain, state <- State, dying <- Dying, held <- Held, val <- val

\* wvcont.h: "yield() ... giving value 'ret' to the person who called us.  Next
\* time this callback is called, it's as if yield() had returned": although
\* every yield lands in the main program, calls nest.
ImplementsSemicoroutines == Abstract!Spec

-----------------------------------------------------------------------------
(* Liveness: every function yields or returns sooner or later, and returns *)
(* when isok() is false, as wvcont.h asks: "Return as soon as you can."    *)

Leaves(d) == UserCode /\ curdata = d /\ \E r \in Values : yield(r) \/ Return(r)
Finishes(d) == UserCode /\ curdata = d /\ data[d].finishing /\ \E r \in Values : Return(r)

FairSpec ==
    /\ Spec /\ WF_vars(run_again \/ call_ends)
    /\ \A d \in Conts : SF_vars(Leaves(d)) /\ SF_vars(Finishes(d))

\* A cont that is told to die is gone in the end, wherever in the chain it is.
DyingContsAreFreed == \A d \in Conts : data[d].finishing ~> ~data[d].alive
=============================================================================
