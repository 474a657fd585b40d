---------------------------- MODULE WvContProofs ----------------------------
(***************************************************************************)
(* Proofs about WvCont: for any number of conts and tasks, no assertion of *)
(* wvcont.cc and wvtask.cc fails, a suspended function keeps its stack,    *)
(* and WvCont implements Semicoroutines.                                   *)
(*                                                                         *)
(* WvTaskMan::yield() always switches to the main program, so that any     *)
(* stack of the chain may be running when a yield is on its way.  The      *)
(* invariant says what holds throughout: the conts that have been called   *)
(* have depths 1 to taskdepth, and the stack of each but the innermost has *)
(* exactly one activation of _call(), for the cont one level deeper        *)
(* (Chained, Framed).  The yield has arrived when taskdepth is the depth   *)
(* of the cont whose activation is running, which is then the innermost.   *)
(*                                                                         *)
(* Chained, Owned, ... take the state as arguments, because ~Data() works  *)
(* on a state in the middle of a step.                                     *)
(***************************************************************************)
EXTENDS WvCont, SequenceTheorems, WellFoundedInduction, FiniteSetTheorems, TLAPS

\* Every set of naturals has a least element.
LEMMA LeastNatural ==
    ASSUME NEW T, T \subseteq Nat, T # {}
    PROVE  \E x \in T : \A y \in T : x <= y
  <1> DEFINE R == OpToRel(<, Nat)
  <1>1. IsWellFoundedOn(R, Nat)
    BY NatLessThanWellFounded, Zenon
  <1>2. \A a, b \in Nat : a < b => <<a, b>> \in R
    BY DEF OpToRel
  <1> HIDE DEF R
  <1>3. PICK x \in T : \A y \in T : ~(<<y, x>> \in R)
    BY <1>1, WFMin
  <1>4. ASSUME NEW y \in T PROVE x <= y
    <2>1. x \in Nat /\ y \in Nat /\ <<y, x>> \notin R
      BY <1>3
    <2>2. ~(y < x)
      BY <1>2, <2>1
    <2> QED BY <2>1, <2>2
  <1> QED BY <1>4

\* Types.
DataRec == [
    alive : BOOLEAN, handles : Nat, links : Nat, mydepth : Nat, finishing : BOOLEAN,
    task : Tasks \cup {Top}, ret : Values \cup {Null}, p1 : Values \cup {Null}]
TaskRec == [
    exists : BOOLEAN, small : BOOLEAN, running : BOOLEAN, recycled : BOOLEAN, userdata : Conts \cup {Top}]
Frame == [cont : Conts, olddata : Conts \cup {Top}, dtor : BOOLEAN]

Types ==
    /\ data \in [Conts -> DataRec] /\ task \in [Tasks -> TaskRec]
    /\ free_tasks \in Seq(Tasks) /\ frames \in [Tasks \cup {Top} -> Seq(Frame)]
    /\ cur \in Tasks \cup {Top} /\ back \in BOOLEAN /\ curdata \in Conts \cup {Top}
    /\ taskdepth \in Nat /\ val \in Values \cup {Null}

\* How deep in the call chain a cont is, or the main program;
Depth(dt, d) == IF d = Top THEN 0 ELSE dt[d].mydepth
\* whose stack its function runs on;
Stack(dt, d) == IF d = Top THEN Top ELSE dt[d].task
\* and whether it has been called and not left.
InChain(dt, d) == d = Top \/ dt[d].mydepth > 0

\* One Data: it is counted by its objects and by the one activation of _call() that it may
\* have, lives as long as the count, dies only inside a call, and has a task when called.
Counted(x) ==
    /\ x.links = x.handles + (IF x.mydepth > 0 THEN 1 ELSE 0)
    /\ x.alive <=> x.links > 0
    /\ x.finishing => x.mydepth > 0
    /\ x.mydepth > 0 => x.task # Top
    /\ x.task # Top => x.alive

\* The depths of the conts that have been called are 1, 2, ..., taskdepth, each once: _call()
\* asserts as much (wvcont.cc:186-188) of the innermost one.
Chained(dt, n) ==
    /\ \A d \in Conts : dt[d].mydepth <= n
    /\ \A d, e \in Conts : dt[d].mydepth > 0 /\ dt[d].mydepth = dt[e].mydepth => d = e
    /\ \A i \in 1..n : \E d \in Conts : dt[d].mydepth = i

\* A task belongs to at most one Data, which has not recycled it; what runs on it knows whose
\* it is.
Owned(dt, tk) ==
    /\ \A d, e \in Conts : dt[d].task # Top /\ dt[d].task = dt[e].task => d = e
    /\ \A d \in Conts : dt[d].task # Top => tk[dt[d].task].exists /\ ~tk[dt[d].task].recycled
    /\ \A t \in Tasks : tk[t].running => tk[t].userdata \in Conts /\ dt[tk[t].userdata].task = t

\* Whoever is not the innermost of the chain is in the middle of its function.
Waiting(dt, tk, n) == \A d \in Conts : dt[d].mydepth > 0 /\ dt[d].mydepth < n => tk[dt[d].task].running

\* The free tasks are recycled, idle, and free once.
Pooled(fq, tk) ==
    /\ \A i \in 1..Len(fq) : tk[fq[i]].exists /\ tk[fq[i]].recycled /\ ~tk[fq[i]].running
    /\ \A i, j \in 1..Len(fq) : fq[i] = fq[j] => i = j

\* An activation f of _call() on stack s: it was called by the cont whose stack that is, and
\* calls the one a level deeper.  The destructor's activation holds the last object; any
\* other one finds its cont dying only when no object is left.
FrameOf(dt, f, s) ==
    /\ InChain(dt, f.olddata) /\ Stack(dt, f.olddata) = s
    /\ dt[f.cont].mydepth = Depth(dt, f.olddata) + 1
    /\ f.dtor => dt[f.cont].finishing /\ dt[f.cont].handles = 1
    /\ ~f.dtor /\ dt[f.cont].finishing => dt[f.cont].handles = 0

\* A stack has at most one activation, and it has one exactly if its cont is not the innermost:
\* this is what makes a call stack of switches that all lead to the main program.
Framed(dt, fr, n) ==
    /\ \A s \in Tasks \cup {Top} : fr[s] # << >> => Len(fr[s]) = 1 /\ FrameOf(dt, fr[s][1], s)
    /\ \A d \in Conts \cup {Top} : InChain(dt, d) /\ Depth(dt, d) < n => fr[Stack(dt, d)] # << >>

\* Who is running: user code on the stack of the innermost cont, which has not ended; or, on
\* the way back from a yield or a return, some stack that is in the middle of _call(), while
\* the innermost cont has left its value.  A dying function does not yield.
Control(dt, tk, fr, c, b, cd, n) ==
    /\ InChain(dt, cd) /\ Depth(dt, cd) = n
    /\ ~b => c = Stack(dt, cd) /\ (cd # Top => tk[c].running)
    /\ b => /\ fr[c] # << >> /\ cd # Top /\ dt[cd].ret \in Values
            /\ tk[dt[cd].task].running => ~dt[cd].finishing

\* The part of the invariant that relates conts, tasks and stacks.
Parts(dt, tk, fq, fr, c, b, cd, n) ==
    /\ Chained(dt, n) /\ Owned(dt, tk) /\ Waiting(dt, tk, n) /\ Pooled(fq, tk)
    /\ Framed(dt, fr, n) /\ Control(dt, tk, fr, c, b, cd, n)

\* The inductive invariant.
ContInv ==
    /\ Types
    /\ \A d \in Conts : Counted(data[d])
    /\ Parts(data, task, free_tasks, frames, cur, back, curdata, taskdepth)

\* ContInv, taken apart,
LEMMA Facts ==
    ASSUME ContInv
    PROVE  /\ data \in [Conts -> DataRec] /\ task \in [Tasks -> TaskRec]
           /\ free_tasks \in Seq(Tasks) /\ frames \in [Tasks \cup {Top} -> Seq(Frame)]
           /\ cur \in Tasks \cup {Top} /\ back \in BOOLEAN /\ curdata \in Conts \cup {Top}
           /\ taskdepth \in Nat /\ val \in Values \cup {Null}
           /\ \A d \in Conts : Counted(data[d]) /\ data[d] \in DataRec
           /\ Chained(data, taskdepth) /\ Owned(data, task) /\ Waiting(data, task, taskdepth)
           /\ Pooled(free_tasks, task) /\ Framed(data, frames, taskdepth)
           /\ Control(data, task, frames, cur, back, curdata, taskdepth)
  BY DEF ContInv, Types, Parts

\* and put together again for the next state.
LEMMA PrimedInv ==
    ASSUME Types', \A d \in Conts : Counted(data'[d]),
           Parts(data', task', free_tasks', frames', cur', back', curdata', taskdepth')
    PROVE  ContInv'
  <1>1. ASSUME NEW d \in Conts PROVE Counted(data[d])'
    <2>1. Counted(data'[d])
      OBVIOUS
    <2> QED BY <2>1 DEF Counted
  <1>2. Parts(data, task, free_tasks, frames, cur, back, curdata, taskdepth)'
    BY DEF Parts, Chained, Owned, Waiting, Pooled, Framed, FrameOf, Control, InChain, Depth, Stack
  <1> QED BY <1>1, <1>2 DEF ContInv

\* The types of the fields of a Data.
LEMMA DataFields ==
    ASSUME NEW x \in DataRec
    PROVE  /\ x.alive \in BOOLEAN /\ x.handles \in Nat /\ x.links \in Nat /\ x.mydepth \in Nat
           /\ x.finishing \in BOOLEAN /\ x.task \in Tasks \cup {Top} /\ x.ret \in Values \cup {Null}
           /\ x.p1 \in Values \cup {Null}
  BY DEF DataRec

\* Two conts in the chain have two stacks.
LEMMA StackFacts ==
    ASSUME NEW dt \in [Conts -> DataRec], \A d \in Conts : dt[d].mydepth > 0 => dt[d].task # Top,
           NEW tk, Owned(dt, tk), NEW d \in Conts \cup {Top}, NEW e \in Conts \cup {Top},
           InChain(dt, d), InChain(dt, e), Stack(dt, d) = Stack(dt, e)
    PROVE  d = e
  BY TopAssumption DEF Owned, InChain, Stack

\* The activation on the stack of a cont e was called by e, which is not the innermost.
LEMMA FrameFacts ==
    ASSUME ContInv, NEW e \in Conts \cup {Top}, InChain(data, e), frames[Stack(data, e)] # << >>
    PROVE  /\ Stack(data, e) \in Tasks \cup {Top}
           /\ frames[Stack(data, e)][1] \in Frame
           /\ Len(frames[Stack(data, e)]) = 1
           /\ FrameOf(data, frames[Stack(data, e)][1], Stack(data, e))
           /\ frames[Stack(data, e)][1].olddata = e
           /\ Depth(data, e) < taskdepth
  <1> DEFINE s == Stack(data, e)
  <1>1. s \in Tasks \cup {Top}
    BY Facts, DataFields DEF Stack
  <1> HIDE DEF s
  <1>2. Len(frames[s]) = 1 /\ FrameOf(data, frames[s][1], s) /\ frames[s] \in Seq(Frame)
    <2>1. frames[s] # << >>
      BY DEF s
    <2> QED BY <1>1, <2>1, Facts DEF Framed
  <1>3. frames[s][1] \in Frame
    BY <1>2
  <1> DEFINE f == frames[s][1]
  <1> HIDE DEF f
  <1>4. f.cont \in Conts /\ f.olddata \in Conts \cup {Top}
    BY <1>3 DEF Frame, f
  <1>5. InChain(data, f.olddata) /\ Stack(data, f.olddata) = s /\ data[f.cont].mydepth = Depth(data, f.olddata) + 1
    BY <1>2 DEF FrameOf, f
  <1>6. f.olddata = e
    <2>1. \A d \in Conts : data[d].mydepth > 0 => data[d].task # Top
      BY Facts DEF Counted
    <2>2. data \in [Conts -> DataRec] /\ Owned(data, task)
      BY Facts
    <2> QED BY <1>4, <1>5, <2>1, <2>2, StackFacts DEF s
  <1>7. data[f.cont].mydepth <= taskdepth /\ taskdepth \in Nat
    BY <1>4, Facts DEF Chained
  <1>8. Depth(data, e) \in Nat
    BY Facts, DataFields DEF Depth
  <1>9. Depth(data, e) < taskdepth
    BY <1>5, <1>6, <1>7, <1>8
  <1> QED BY <1>1, <1>2, <1>3, <1>6, <1>9 DEF s, f

\* The innermost cont has called nobody.
LEMMA NoFrame ==
    ASSUME ContInv
    PROVE  /\ curdata \in Conts \cup {Top} /\ InChain(data, curdata) /\ Depth(data, curdata) = taskdepth
           /\ frames[Stack(data, curdata)] = << >>
           /\ ~back => cur = Stack(data, curdata) /\ frames[cur] = << >>
  <1>1. curdata \in Conts \cup {Top} /\ InChain(data, curdata) /\ Depth(data, curdata) = taskdepth
    BY Facts DEF Control
  <1>2. frames[Stack(data, curdata)] = << >>
    <2> SUFFICES ASSUME frames[Stack(data, curdata)] # << >> PROVE FALSE
      OBVIOUS
    <2>1. Depth(data, curdata) < taskdepth
      BY <1>1, FrameFacts
    <2> QED BY <1>1, <2>1, Facts
  <1>3. ~back => cur = Stack(data, curdata)
    BY Facts DEF Control
  <1> QED BY <1>1, <1>2, <1>3

\* A step that only counts objects of d.
LEMMA CountStep ==
    ASSUME ContInv, ~back, NEW d \in Conts, NEW x \in DataRec, data' = [data EXCEPT ![d] = x],
           x.mydepth = data[d].mydepth, x.task = data[d].task, ~x.finishing, ~data[d].finishing, Counted(x),
           UNCHANGED <<task, free_tasks, frames, cur, back, curdata, taskdepth, val>>
    PROVE  ContInv'
  <1>1. data \in [Conts -> DataRec]
    BY Facts
  <1>2. /\ data' \in [Conts -> DataRec] /\ data'[d] = x
        /\ \A e \in Conts : e # d => data'[e] = data[e]
    BY <1>1
  <1>3. \A e \in Conts : data'[e].mydepth = data[e].mydepth /\ data'[e].task = data[e].task
    BY <1>2
  <1>4. Types'
    BY <1>2, Facts DEF Types
  <1>5. \A e \in Conts : Counted(data'[e])
    BY <1>2, Facts
  <1> DEFINE dt == data'
  <1> HIDE DEF dt
  <1>6. Chained(dt, taskdepth) /\ Owned(dt, task) /\ Waiting(dt, task, taskdepth)
    <2>1. Chained(data, taskdepth) /\ Owned(data, task) /\ Waiting(data, task, taskdepth)
      BY Facts
    <2>2. \A e \in Conts : dt[e].mydepth = data[e].mydepth /\ dt[e].task = data[e].task
      BY <1>3 DEF dt
    <2>3. Chained(dt, taskdepth)
      BY <2>1, <2>2 DEF Chained
    <2>4. Owned(dt, task)
      <3>1. \A t \in Tasks : task[t].running => task[t].userdata \in Conts /\ dt[task[t].userdata].task = t
        BY <2>1, <2>2 DEF Owned
      <3> QED BY <2>1, <2>2, <3>1 DEF Owned
    <2>5. Waiting(dt, task, taskdepth)
      BY <2>1, <2>2 DEF Waiting
    <2> QED BY <2>3, <2>4, <2>5
  <1>7. \A e \in Conts \cup {Top} : Depth(dt, e) = Depth(data, e) /\ Stack(dt, e) = Stack(data, e)
                                    /\ (InChain(dt, e) <=> InChain(data, e))
    BY <1>3 DEF Depth, Stack, InChain, dt
  <1>8. Framed(dt, frames, taskdepth)
    <2>1. Framed(data, frames, taskdepth) /\ frames \in [Tasks \cup {Top} -> Seq(Frame)]
      BY Facts
    <2>2. ASSUME NEW s \in Tasks \cup {Top}, frames[s] # << >> PROVE Len(frames[s]) = 1 /\ FrameOf(dt, frames[s][1], s)
      <3>1. Len(frames[s]) = 1 /\ FrameOf(data, frames[s][1], s) /\ frames[s] \in Seq(Frame)
        BY <2>1, <2>2 DEF Framed
      <3>2. PICK f \in Frame : f = frames[s][1]
        BY <3>1
      <3>3. f.cont \in Conts /\ f.olddata \in Conts \cup {Top}
        BY DEF Frame
      <3>4. f.dtor => f.cont # d
        BY <3>1, <3>2 DEF FrameOf
      <3>5. dt[f.cont].mydepth = data[f.cont].mydepth
        BY <1>3, <3>3 DEF dt
      <3>6. f.cont # d => dt[f.cont] = data[f.cont]
        BY <1>2, <3>3 DEF dt
      <3>7. f.cont = d => ~dt[f.cont].finishing
        BY <1>2 DEF dt
      <3>8. FrameOf(dt, f, s)
        BY <1>7, <3>1, <3>2, <3>3, <3>4, <3>5, <3>6, <3>7 DEF FrameOf
      <3> QED BY <3>1, <3>2, <3>8
    <2>3. \A e \in Conts \cup {Top} : InChain(dt, e) /\ Depth(dt, e) < taskdepth => frames[Stack(dt, e)] # << >>
      BY <1>7, <2>1 DEF Framed
    <2> QED BY <2>2, <2>3 DEF Framed
  <1>9. Control(dt, task, frames, cur, back, curdata, taskdepth)
    <2>1. Control(data, task, frames, cur, back, curdata, taskdepth) /\ curdata \in Conts \cup {Top}
      BY Facts
    <2> QED BY <1>7, <2>1 DEF Control
  <1>10. Parts(data', task', free_tasks', frames', cur', back', curdata', taskdepth')
    BY <1>6, <1>8, <1>9, Facts DEF Parts, dt
  <1> QED BY <1>4, <1>5, <1>10, PrimedInv

\* A Data that does not exist.
LEMMA NoDataFacts ==
    /\ NoData \in DataRec /\ Counted(NoData) /\ NoData.mydepth = 0 /\ NoData.task = Top /\ ~NoData.finishing
    /\ ~NoData.alive /\ NoData.handles = 0 /\ NoData.links = 0 /\ NoData.p1 = Null
  <1>1. /\ NoData.mydepth = 0 /\ NoData.task = Top /\ ~NoData.finishing
        /\ ~NoData.alive /\ NoData.handles = 0 /\ NoData.links = 0 /\ NoData.p1 = Null
    BY DEF NoData
  <1>2. NoData \in DataRec
    BY DEF NoData, DataRec
  <1> QED BY <1>1, <1>2 DEF Counted

\* WvCont(cb)
LEMMA NewStep ==
    ASSUME ContInv, NEW d \in Conts, New(d)
    PROVE  ContInv'
  <1> DEFINE b == NoData
             x == [b EXCEPT !.alive = TRUE, !.handles = 1, !.links = 1]
  <1>1. ~back /\ ~data[d].alive /\ data' = [data EXCEPT ![d] = x]
        /\ UNCHANGED <<task, free_tasks, frames, cur, back, curdata, taskdepth, val>>
    BY DEF New, UserCode
  <1>2. b \in DataRec /\ b.mydepth = 0 /\ b.task = Top /\ ~b.finishing
    BY NoDataFacts
  <1> HIDE DEF b
  <1>3. /\ x \in DataRec /\ x.mydepth = 0 /\ x.task = Top /\ ~x.finishing /\ x.alive /\ x.handles = 1 /\ x.links = 1
    BY <1>2 DEF DataRec
  <1> HIDE DEF x
  <1>4. Counted(x)
    BY <1>3 DEF Counted
  <1>5. Counted(data[d]) /\ data[d].mydepth \in Nat /\ data[d].handles \in Nat /\ data[d].links \in Nat
    BY Facts, DataFields
  <1>6. data[d].mydepth = 0 /\ data[d].task = Top /\ ~data[d].finishing
    BY <1>1, <1>5 DEF Counted
  <1> QED BY <1>1, <1>3, <1>4, <1>6, CountStep

\* A further object for d.
LEMMA LinkedStep ==
    ASSUME ContInv, NEW d \in Conts, ~back, data[d].alive, ~data[d].finishing, Linked(d)
    PROVE  ContInv'
  <1> DEFINE h == data[d].handles + 1
             k == data[d].links + 1
             x == [data[d] EXCEPT !.handles = h, !.links = k]
  <1>1. data \in [Conts -> DataRec] /\ data[d] \in DataRec /\ Counted(data[d])
    BY Facts
  <1>2. h \in Nat /\ k \in Nat
    BY <1>1, DataFields
  <1>3. data' = [data EXCEPT ![d] = x]
        /\ UNCHANGED <<task, free_tasks, frames, cur, back, curdata, taskdepth, val>>
    BY <1>1 DEF Linked
  <1>4. h = data[d].handles + 1 /\ k = data[d].links + 1
    OBVIOUS
  <1> HIDE DEF h, k
  <1>5. /\ x \in DataRec /\ x.mydepth = data[d].mydepth /\ x.task = data[d].task /\ x.finishing = data[d].finishing
        /\ x.alive = data[d].alive /\ x.handles = h /\ x.links = k
    BY <1>1, <1>2 DEF DataRec
  <1> HIDE DEF x
  <1>6. Counted(x)
    <2>1. data[d].handles \in Nat /\ data[d].links \in Nat /\ data[d].mydepth \in Nat
      BY <1>1, DataFields
    <2>2. data[d].links = data[d].handles + (IF data[d].mydepth > 0 THEN 1 ELSE 0)
      BY <1>1 DEF Counted
    <2>3. x.links = x.handles + (IF x.mydepth > 0 THEN 1 ELSE 0) /\ x.links > 0
      <3>1. CASE data[d].mydepth > 0
        BY <1>4, <1>5, <2>1, <2>2, <3>1
      <3>2. CASE ~(data[d].mydepth > 0)
        BY <1>4, <1>5, <2>1, <2>2, <3>2
      <3> QED BY <3>1, <3>2
    <2> QED BY <1>1, <1>5, <2>3 DEF Counted
  <1> QED BY <1>3, <1>5, <1>6, CountStep

\* What is in use, or called, is alive.
LEMMA UsableFacts ==
    ASSUME ContInv, NEW d \in Conts
    PROVE  /\ Usable(d) => data[d].alive /\ ~data[d].finishing /\ data[d].handles > 0
           /\ data[d].mydepth > 0 => data[d].alive
  <1>1. data[d].handles \in Nat /\ data[d].links \in Nat /\ data[d].mydepth \in Nat
    BY Facts, DataFields
  <1>2. Counted(data[d])
    BY Facts
  <1> QED BY <1>1, <1>2 DEF Counted, Usable

\* WvCont(const WvCont &)
LEMMA CopyStep ==
    ASSUME ContInv, NEW d \in Conts, Copy(d)
    PROVE  ContInv'
  BY UsableFacts, LinkedStep DEF Copy, UserCode

\* WvCont::current()
LEMMA CurrentStep ==
    ASSUME ContInv, current
    PROVE  ContInv'
  <1>1. curdata \in Conts /\ ~data[curdata].finishing /\ ~back /\ Linked(curdata)
    BY Facts DEF current, isok, UserCode
  <1>2. data[curdata].mydepth > 0
    BY <1>1, Facts, TopAssumption DEF Control, InChain
  <1> QED BY <1>1, <1>2, UsableFacts, LinkedStep

\* ~WvCont(), when it is not the last reference.
LEMMA DropOneStep ==
    ASSUME ContInv, NEW d \in Conts, ~back, Usable(d), data[d].links > 1,
           data' = [data EXCEPT ![d].handles = @ - 1, ![d].links = @ - 1],
           UNCHANGED <<task, free_tasks, frames, cur, back, curdata, taskdepth, val>>
    PROVE  ContInv'
  <1> DEFINE h == data[d].handles - 1
             k == data[d].links - 1
             x == [data[d] EXCEPT !.handles = h, !.links = k]
  <1>1. data \in [Conts -> DataRec] /\ data[d] \in DataRec /\ Counted(data[d])
    BY Facts
  <1>0. data[d].alive /\ ~data[d].finishing /\ data[d].handles > 0
    BY UsableFacts
  <1>2. h \in Nat /\ k \in Nat /\ k > 0
    BY <1>0, <1>1, DataFields
  <1>3. data' = [data EXCEPT ![d] = x]
    BY <1>1
  <1>4. h = data[d].handles - 1 /\ k = data[d].links - 1
    OBVIOUS
  <1> HIDE DEF h, k
  <1>5. /\ x \in DataRec /\ x.mydepth = data[d].mydepth /\ x.task = data[d].task /\ x.finishing = data[d].finishing
        /\ x.alive = data[d].alive /\ x.handles = h /\ x.links = k
    BY <1>1, <1>2 DEF DataRec
  <1> HIDE DEF x
  <1>6. Counted(x)
    <2>1. data[d].handles \in Nat /\ data[d].links \in Nat /\ data[d].mydepth \in Nat
      BY <1>1, DataFields
    <2>2. data[d].links = data[d].handles + (IF data[d].mydepth > 0 THEN 1 ELSE 0)
      BY <1>1 DEF Counted
    <2>3. x.links = x.handles + (IF x.mydepth > 0 THEN 1 ELSE 0) /\ x.links > 0
      <3>1. CASE data[d].mydepth > 0
        BY <1>2, <1>4, <1>5, <2>1, <2>2, <3>1
      <3>2. CASE ~(data[d].mydepth > 0)
        BY <1>2, <1>4, <1>5, <2>1, <2>2, <3>2
      <3> QED BY <3>1, <3>2
    <2> QED BY <1>0, <1>1, <1>5, <2>3 DEF Counted
  <1> QED BY <1>0, <1>3, <1>5, <1>6, CountStep

\* What yield() and the end of a function have in common: the innermost cont leaves its value,
\* and the main program goes on in the middle of the _call() it is in.
LEMMA LeaveStep ==
    ASSUME ContInv, ~back, curdata # Top, NEW r \in Values, data' = [data EXCEPT ![curdata].ret = r],
           \/ task' = task /\ ~data[curdata].finishing
           \/ task' = [task EXCEPT ![cur].running = FALSE],
           cur' = Top, back' = TRUE, UNCHANGED <<free_tasks, frames, curdata, taskdepth, val>>
    PROVE  ContInv'
  <1>1. /\ data \in [Conts -> DataRec] /\ curdata \in Conts /\ data[curdata] \in DataRec
        /\ task \in [Tasks -> TaskRec] /\ cur = data[curdata].task /\ cur \in Tasks
        /\ data[curdata].mydepth > 0 /\ data[curdata].mydepth = taskdepth
    <2>1. curdata \in Conts /\ data[curdata].mydepth > 0 /\ data[curdata].mydepth = taskdepth
      BY NoFrame DEF InChain, Depth
    <2>2. cur = data[curdata].task
      BY NoFrame DEF Stack
    <2>3. cur \in Tasks
      BY <2>1, <2>2, Facts DEF Counted
    <2> QED BY <2>1, <2>2, <2>3, Facts
  <1> DEFINE x == [data[curdata] EXCEPT !.ret = r]
             c == curdata
  <1>2. data' = [data EXCEPT ![c] = x]
    BY <1>1
  <1>3. /\ x \in DataRec /\ x.mydepth = data[c].mydepth /\ x.task = data[c].task /\ x.finishing = data[c].finishing
        /\ x.alive = data[c].alive /\ x.handles = data[c].handles /\ x.links = data[c].links /\ x.ret = r
    BY <1>1 DEF DataRec
  <1> HIDE DEF x
  <1>4. data' \in [Conts -> DataRec] /\ data'[c] = x /\ \A e \in Conts : e # c => data'[e] = data[e]
    BY <1>1, <1>2, <1>3
  <1> DEFINE dt == data'
             tk == task'
  <1>5. \A e \in Conts : /\ dt[e].mydepth = data[e].mydepth /\ dt[e].task = data[e].task
                         /\ dt[e].finishing = data[e].finishing /\ dt[e].handles = data[e].handles
                         /\ dt[e].links = data[e].links /\ dt[e].alive = data[e].alive
    BY <1>3, <1>4
  <1>6. tk \in [Tasks -> TaskRec]
        /\ \A t \in Tasks : /\ tk[t].exists = task[t].exists /\ tk[t].recycled = task[t].recycled
                            /\ tk[t].userdata = task[t].userdata /\ (tk[t].running => task[t].running)
                            /\ t # cur => tk[t] = task[t]
    <2>1. CASE task' = task
      BY <1>1, <2>1
    <2>2. CASE task' = [task EXCEPT ![cur].running = FALSE]
      <3> DEFINE y == [task[cur] EXCEPT !.running = FALSE]
      <3>1. task' = [task EXCEPT ![cur] = y] /\ task[cur] \in TaskRec
        BY <1>1, <2>2
      <3>2. /\ y \in TaskRec /\ ~y.running /\ y.exists = task[cur].exists /\ y.recycled = task[cur].recycled
            /\ y.userdata = task[cur].userdata
        BY <3>1 DEF TaskRec
      <3> HIDE DEF y
      <3> QED BY <1>1, <3>1, <3>2
    <2> QED BY <2>1, <2>2
  <1>7. tk[cur].running => ~data[c].finishing
    <2>1. CASE task' = task /\ ~data[curdata].finishing
      BY <2>1
    <2>2. CASE task' = [task EXCEPT ![cur].running = FALSE]
      <3>1. task[cur] \in TaskRec
        BY <1>1
      <3>2. ~tk[cur].running
        BY <1>1, <2>2, <3>1 DEF TaskRec
      <3> QED BY <3>2
    <2> QED BY <2>1, <2>2
  <1>8. Types'
    BY <1>4, <1>6, Facts DEF Types
  <1> HIDE DEF dt, tk
  <1>9. \A e \in Conts : Counted(dt[e])
    <2>1. \A e \in Conts : Counted(data[e])
      BY Facts
    <2> QED BY <1>5, <2>1 DEF Counted
  <1>10. Chained(dt, taskdepth) /\ Waiting(dt, tk, taskdepth)
    <2>1. Chained(data, taskdepth) /\ Waiting(data, task, taskdepth) /\ Owned(data, task) /\ taskdepth \in Nat
      BY Facts
    <2>2. Chained(dt, taskdepth)
      BY <1>5, <2>1 DEF Chained
    <2>3. ASSUME NEW e \in Conts, dt[e].mydepth > 0, dt[e].mydepth < taskdepth PROVE tk[dt[e].task].running
      <3>1. data[e].mydepth > 0 /\ data[e].mydepth < taskdepth /\ dt[e].task = data[e].task
        BY <1>5, <2>3
      <3>2. task[data[e].task].running /\ e # c
        BY <1>1, <2>1, <3>1 DEF Waiting
      <3>3. data[e].task \in Tasks /\ data[e].task # cur
        <4>1. data[e].task \in Tasks
          BY <3>1, Facts, DataFields DEF Counted
        <4> QED BY <1>1, <2>1, <3>2, <4>1, TopAssumption DEF Owned
      <3> QED BY <1>6, <3>1, <3>2, <3>3
    <2> QED BY <2>2, <2>3 DEF Waiting
  <1>11. Owned(dt, tk)
    <2>1. Owned(data, task)
      BY Facts
    <2>2. \A e \in Conts : data[e].task # Top => data[e].task \in Tasks
      BY Facts, DataFields
    <2>3. \A t \in Tasks : tk[t].running => tk[t].userdata \in Conts /\ dt[tk[t].userdata].task = t
      BY <1>5, <1>6, <2>1 DEF Owned
    <2> QED BY <1>5, <1>6, <2>1, <2>2, <2>3 DEF Owned
  <1>12. Pooled(free_tasks, tk)
    <2>1. Pooled(free_tasks, task) /\ free_tasks \in Seq(Tasks)
      BY Facts
    <2>2. \A i \in 1..Len(free_tasks) : free_tasks[i] \in Tasks
      BY <2>1
    <2> QED BY <1>6, <2>1, <2>2 DEF Pooled
  <1>13. \A e \in Conts \cup {Top} : Depth(dt, e) = Depth(data, e) /\ Stack(dt, e) = Stack(data, e)
                                    /\ (InChain(dt, e) <=> InChain(data, e))
    BY <1>5 DEF Depth, Stack, InChain
  <1>14. Framed(dt, frames, taskdepth)
    <2>1. Framed(data, frames, taskdepth) /\ frames \in [Tasks \cup {Top} -> Seq(Frame)]
      BY Facts
    <2>2. ASSUME NEW s \in Tasks \cup {Top}, frames[s] # << >> PROVE Len(frames[s]) = 1 /\ FrameOf(dt, frames[s][1], s)
      <3>1. Len(frames[s]) = 1 /\ FrameOf(data, frames[s][1], s) /\ frames[s] \in Seq(Frame)
        BY <2>1, <2>2 DEF Framed
      <3>2. PICK f \in Frame : f = frames[s][1]
        BY <3>1
      <3>3. f.cont \in Conts /\ f.olddata \in Conts \cup {Top}
        BY DEF Frame
      <3>4. FrameOf(dt, f, s)
        BY <1>5, <1>13, <3>1, <3>2, <3>3 DEF FrameOf
      <3> QED BY <3>1, <3>2, <3>4
    <2>3. \A e \in Conts \cup {Top} : InChain(dt, e) /\ Depth(dt, e) < taskdepth => frames[Stack(dt, e)] # << >>
      BY <1>13, <2>1 DEF Framed
    <2> QED BY <2>2, <2>3 DEF Framed
  <1>15. Control(dt, tk, frames, Top, TRUE, curdata, taskdepth)
    <2>1. frames[Top] # << >>
      <3>1. InChain(data, Top) /\ Depth(data, Top) < taskdepth /\ Stack(data, Top) = Top
        BY <1>1 DEF InChain, Depth, Stack
      <3> QED BY <3>1, Facts DEF Framed
    <2>2. InChain(dt, curdata) /\ Depth(dt, curdata) = taskdepth
      BY <1>13, NoFrame
    <2>3. dt[curdata].ret \in Values /\ dt[curdata].task = cur /\ dt[curdata].finishing = data[c].finishing
      BY <1>1, <1>3, <1>4 DEF dt
    <2> QED BY <1>7, <2>1, <2>2, <2>3 DEF Control
  <1>16. Parts(data', task', free_tasks', frames', cur', back', curdata', taskdepth')
    BY <1>10, <1>11, <1>12, <1>14, <1>15 DEF Parts, dt, tk
  <1> QED BY <1>8, <1>9, <1>16, PrimedInv DEF dt

\* WvCont::yield()
LEMMA YieldStep ==
    ASSUME ContInv, NEW r \in Values, yield(r)
    PROVE  ContInv'
  <1>1. ~back /\ curdata # Top /\ ~data[curdata].finishing
    BY DEF yield, isok, UserCode
  <1> QED BY <1>1, LeaveStep DEF yield, ToToplevel

\* User code on a task's stack is the innermost cont's.
LEMMA RunningCur ==
    ASSUME ContInv, ~back, cur # Top
    PROVE  /\ curdata \in Conts /\ cur \in Tasks /\ data[curdata].task = cur /\ data[curdata].mydepth > 0
           /\ task[cur].running /\ task[cur].userdata = curdata
  <1>1. cur = Stack(data, curdata) /\ curdata \in Conts \cup {Top} /\ InChain(data, curdata) /\ cur \in Tasks
    BY NoFrame, Facts
  <1>2. curdata \in Conts /\ data[curdata].task = cur /\ data[curdata].mydepth > 0
    BY <1>1, TopAssumption DEF Stack, InChain
  <1>3. task[cur].running
    BY <1>2, Facts, TopAssumption DEF Control
  <1>4. task[cur].userdata \in Conts /\ data[task[cur].userdata].task = cur
    BY <1>1, <1>3, Facts DEF Owned
  <1>5. task[cur].userdata = curdata
    BY <1>2, <1>4, Facts DEF Owned
  <1> QED BY <1>1, <1>2, <1>3, <1>5

\* The end of bouncer().
LEMMA ReturnStep ==
    ASSUME ContInv, NEW r \in Values, Return(r)
    PROVE  ContInv'
  <1>1. ~back /\ cur # Top
    BY DEF Return, UserCode
  <1>2. curdata \in Conts /\ task[cur].userdata = curdata
    BY <1>1, RunningCur
  <1>3. curdata # Top
    BY <1>2, TopAssumption
  <1> QED BY <1>1, <1>2, <1>3, LeaveStep DEF Return, ToToplevel

\* A step leaves every cont but d alone, as far as the call chain is concerned.
OthersStay(d) ==
    \A e \in Conts : e # d =>
        /\ data'[e] = data[e]
        /\ data[e].task # Top => (task'[data[e].task].running <=> task[data[e].task].running)

\* A step enters d: with parameter p and, if b, to run it to its end.
Entered(d, p, b) ==
    /\ taskdepth' = taskdepth + 1 /\ val' = p
    /\ data'[d].mydepth = taskdepth + 1 /\ data'[d].alive
    /\ data'[d].handles = data[d].handles /\ (data'[d].finishing <=> b)
    /\ OthersStay(d)

\* _call() up to run(): d comes to stand on top of the chain, on a task t that is its own, and
\* the caller's stack gets an activation.  It had none, for the caller was the innermost.
LEMMA BeginStep ==
    ASSUME ContInv, ~back, NEW d \in Conts, NEW x \in DataRec, NEW t \in Tasks, NEW y \in TaskRec, NEW b \in BOOLEAN,
           data[d].mydepth = 0, data[d].alive, data[d].task \in {Top, t},
           x.mydepth = 0, x.alive, x.links = data[d].links, x.handles = data[d].handles, x.task = t,
           IF b THEN x.finishing /\ x.handles = 1 ELSE ~x.finishing,
           \A e \in Conts : e # d => data[e].task # t,
           y.running, y.userdata = d, y.exists, ~y.recycled,
           NEW dx, dx = [data EXCEPT ![d] = x], NEW tx, tx = [task EXCEPT ![t] = y],
           free_tasks' \in Seq(Tasks), Pooled(free_tasks', tx), BeginCall(d, dx, tx, b)
    PROVE  ContInv' /\ Entered(d, x.p1, b)
  <1> DEFINE n == taskdepth + 1
             k == x.links + 1
             z == [x EXCEPT !.links = k, !.mydepth = n]
             f == [cont |-> d, olddata |-> curdata, dtor |-> b]
             dt == data'
             tk == task'
             fr == frames'
  <1>1. /\ data \in [Conts -> DataRec] /\ task \in [Tasks -> TaskRec] /\ taskdepth \in Nat
        /\ frames \in [Tasks \cup {Top} -> Seq(Frame)] /\ cur \in Tasks \cup {Top}
        /\ curdata \in Conts \cup {Top}
    BY Facts
  <1>2. /\ tk = [task EXCEPT ![t] = y] /\ cur' = t /\ ~back' /\ back' \in BOOLEAN /\ val' = x.p1
        /\ taskdepth' = n /\ curdata' = d /\ data' = [data EXCEPT ![d] = z]
        /\ fr = [frames EXCEPT ![cur] = <<f>>] /\ cur # t /\ frames[t] = << >>
    <2> DEFINE fw == [frames EXCEPT ![cur] = Append(@, f)]
    <2>1. /\ data \in [Conts -> DataRec] /\ task \in [Tasks -> TaskRec]
          /\ frames \in [Tasks \cup {Top} -> Seq(Frame)] /\ cur \in Tasks \cup {Top}
      BY Facts
    <2>2. frames[cur] = << >> /\ cur = Stack(data, curdata) /\ curdata \in Conts \cup {Top} /\ InChain(data, curdata)
      BY NoFrame
    <2>3. cur # t
      BY <2>2, TopAssumption DEF Stack, InChain
    <2>4. frames[t] = << >>
      <3> SUFFICES ASSUME frames[t] # << >> PROVE FALSE
        OBVIOUS
      <3>1. Len(frames[t]) = 1 /\ FrameOf(data, frames[t][1], t) /\ frames[t] \in Seq(Frame)
        BY <2>1, Facts DEF Framed
      <3>2. PICK g \in Frame : g = frames[t][1]
        BY <3>1
      <3>3. g.olddata \in Conts \cup {Top} /\ InChain(data, g.olddata) /\ Stack(data, g.olddata) = t
        BY <3>1, <3>2 DEF FrameOf, Frame
      <3> QED BY <3>3, TopAssumption DEF Stack, InChain
    <2>5. fw = [frames EXCEPT ![cur] = <<f>>]
      <3>1. Append(frames[cur], f) = <<f>>
        BY <2>2
      <3> QED BY <2>1, <3>1
    <2>6. fw[t] = << >>
      BY <2>1, <2>3, <2>4
    <2>7. dx[d] = x /\ tx[t] = y
      BY <2>1
    <2>8. /\ data' = [dx EXCEPT ![d].links = @ + 1, ![d].mydepth = taskdepth + 1]
          /\ taskdepth' = taskdepth + 1 /\ curdata' = d /\ frames' = fw
          /\ SwitchTo(dx[d].task, tx, fw, dx[d].p1)
      BY DEF BeginCall
    <2>9. data' = [data EXCEPT ![d] = z]
      BY <2>1, <2>8
    <2> HIDE DEF fw
    <2>10. SwitchTo(t, tx, fw, x.p1)
      BY <2>7, <2>8
    <2>11. cur' = t /\ back' = FALSE /\ task' = tx /\ val' = x.p1
      BY <2>6, <2>7, <2>10 DEF SwitchTo, ResumesRun, ResumesFunction, YieldsAtOnce
    <2> QED BY <2>3, <2>4, <2>5, <2>8, <2>9, <2>11 DEF fw
  <1>3. n \in Nat /\ n > 0 /\ n = taskdepth + 1 /\ k \in Nat /\ k = x.links + 1
    BY <1>1, DataFields
  <1> HIDE DEF n, k
  <1>4. /\ z \in DataRec /\ z.links = k /\ z.mydepth = n /\ z.alive /\ z.handles = x.handles /\ z.task = t
        /\ z.finishing = x.finishing
    BY <1>3 DEF DataRec
  <1> HIDE DEF z
  <1>5. dt \in [Conts -> DataRec] /\ dt[d] = z /\ \A e \in Conts : e # d => dt[e] = data[e]
    BY <1>1, <1>2, <1>4
  <1>6. tk \in [Tasks -> TaskRec] /\ tk[t] = y /\ \A u \in Tasks : u # t => tk[u] = task[u]
    BY <1>1, <1>2
  <1>7. f \in Frame /\ f.cont = d /\ f.olddata = curdata /\ f.dtor = b
    BY <1>1 DEF Frame
  <1> HIDE DEF f, dt, tk, fr
  <1>8. fr \in [Tasks \cup {Top} -> Seq(Frame)] /\ fr[cur] = <<f>> /\ \A s \in Tasks \cup {Top} : s # cur => fr[s] = frames[s]
    BY <1>1, <1>2, <1>7
  <1>9. x.p1 \in Values \cup {Null}
    BY DataFields
  <1>10. Types'
    BY <1>2, <1>3, <1>5, <1>6, <1>8, <1>9 DEF Types, dt, tk, fr
  <1>11. \A e \in Conts : Counted(dt[e])
    <2>1. Counted(z)
      <3>1. Counted(data[d]) /\ data[d].handles \in Nat /\ data[d].links \in Nat
        BY Facts, DataFields
      <3>2. data[d].links = data[d].handles
        BY <3>1 DEF Counted
      <3> QED BY <1>3, <1>4, <3>1, <3>2, TopAssumption DEF Counted
    <2> QED BY <1>5, <2>1, Facts
  <1>12. Chained(dt, n)
    <2>1. Chained(data, taskdepth)
      BY Facts
    <2>2. \A e \in Conts : data[e].mydepth \in Nat /\ data[e].mydepth <= taskdepth
      BY <2>1, Facts, DataFields DEF Chained
    <2>6. dt[d].mydepth = n /\ \A e \in Conts : e # d => dt[e].mydepth = data[e].mydepth
      BY <1>4, <1>5
    <2>7. \A e \in Conts : e # d => dt[e].mydepth \in Nat /\ dt[e].mydepth < n
      BY <1>1, <1>3, <2>2, <2>6
    <2>3. \A e \in Conts : dt[e].mydepth <= n
      BY <1>3, <2>6, <2>7
    <2>4. \A e, g \in Conts : dt[e].mydepth > 0 /\ dt[e].mydepth = dt[g].mydepth => e = g
      BY <1>3, <2>1, <2>6, <2>7 DEF Chained
    <2>5. ASSUME NEW i \in 1..n PROVE \E e \in Conts : dt[e].mydepth = i
      <3>1. CASE i = n
        BY <1>4, <1>5, <3>1
      <3>2. CASE i # n
        <4>1. i \in 1..taskdepth
          BY <1>1, <1>3, <3>2
        <4>2. PICK e \in Conts : data[e].mydepth = i
          BY <2>1, <4>1 DEF Chained
        <4>3. e # d
          BY <4>1, <4>2
        <4> QED BY <1>5, <4>2, <4>3
      <3> QED BY <3>1, <3>2
    <2> QED BY <2>3, <2>4, <2>5 DEF Chained
  <1>13. Owned(dt, tk)
    <2>1. Owned(data, task)
      BY Facts
    <2>2. \A e, g \in Conts : dt[e].task # Top /\ dt[e].task = dt[g].task => e = g
      BY <1>4, <1>5, <2>1 DEF Owned
    <2>3. \A e \in Conts : data[e].task # Top => data[e].task \in Tasks
      BY Facts, DataFields
    <2>4. ASSUME NEW e \in Conts, dt[e].task # Top
          PROVE  tk[dt[e].task].exists /\ ~tk[dt[e].task].recycled
      <3>1. CASE e = d
        BY <1>4, <1>5, <1>6, <3>1
      <3>2. CASE e # d
        <4>1. dt[e] = data[e]
          BY <1>5, <3>2
        <4>2. data[e].task \in Tasks /\ data[e].task # t
          BY <2>3, <2>4, <3>2, <4>1
        <4>3. tk[data[e].task] = task[data[e].task]
          BY <1>6, <4>2
        <4>4. task[data[e].task].exists /\ ~task[data[e].task].recycled
          BY <2>1, <2>4, <4>1 DEF Owned
        <4> QED BY <4>1, <4>3, <4>4
      <3> QED BY <3>1, <3>2
    <2>5. ASSUME NEW u \in Tasks, tk[u].running PROVE tk[u].userdata \in Conts /\ dt[tk[u].userdata].task = u
      <3>1. CASE u = t
        BY <1>4, <1>5, <1>6, <3>1
      <3>2. CASE u # t
        <4>1. tk[u] = task[u]
          BY <1>6, <3>2
        <4>2. task[u].userdata \in Conts /\ data[task[u].userdata].task = u
          BY <2>1, <2>5, <4>1 DEF Owned
        <4>3. task[u].userdata # d
          BY <3>2, <4>2, TopAssumption
        <4> QED BY <1>5, <4>1, <4>2, <4>3
      <3> QED BY <3>1, <3>2
    <2> QED BY <2>2, <2>4, <2>5 DEF Owned
  <1>14. Waiting(dt, tk, n)
    <2> SUFFICES ASSUME NEW e \in Conts, dt[e].mydepth > 0, dt[e].mydepth < n PROVE tk[dt[e].task].running
      BY DEF Waiting
    <2>1. e # d
      BY <1>3, <1>4, <1>5
    <2>2. dt[e] = data[e] /\ data[e].task # t /\ data[e].task \in Tasks /\ data[e].mydepth \in Nat
      <3>1. data[e].task # Top
        BY <1>5, <2>1, Facts DEF Counted
      <3> QED BY <1>5, <2>1, <3>1, Facts, DataFields
    <2>3. tk[dt[e].task] = task[data[e].task]
      BY <1>6, <2>2
    <2>4. CASE data[e].mydepth < taskdepth
      BY <2>2, <2>3, <2>4, Facts DEF Waiting
    <2>5. CASE data[e].mydepth = taskdepth
      <3>1. e = curdata /\ curdata # Top
        <4>1. curdata # Top
          BY <2>2, <2>5, NoFrame, Facts DEF Depth
        <4>2. curdata \in Conts /\ data[curdata].mydepth = taskdepth
          BY <4>1, NoFrame DEF Depth
        <4> QED BY <2>2, <2>5, <4>1, <4>2, Facts DEF Chained
      <3>2. cur = data[e].task
        BY <3>1, NoFrame DEF Stack
      <3>3. cur # Top
        BY <2>2, <3>2, TopAssumption
      <3> QED BY <2>3, <3>2, <3>3, RunningCur
    <2> QED BY <1>1, <1>3, <2>2, <2>4, <2>5
  <1>15. Pooled(free_tasks', tk)
    BY <1>2
  <1>16. \A e \in Conts \cup {Top} : e # d => Depth(dt, e) = Depth(data, e) /\ Stack(dt, e) = Stack(data, e)
                                    /\ (InChain(dt, e) <=> InChain(data, e))
    BY <1>5 DEF Depth, Stack, InChain
  <1>17. curdata # d
    <2>1. InChain(data, curdata)
      BY NoFrame
    <2> QED BY <2>1, TopAssumption DEF InChain
  <1>18. Framed(dt, fr, n)
    <2>1. ASSUME NEW s \in Tasks \cup {Top}, fr[s] # << >> PROVE Len(fr[s]) = 1 /\ FrameOf(dt, fr[s][1], s)
      <3>1. CASE s = cur
        <4>0. Len(<<f>>) = 1 /\ <<f>>[1] = f
          OBVIOUS
        <4>1. Len(fr[s]) = 1 /\ fr[s][1] = f
          BY <1>8, <3>1, <4>0
        <4>2. InChain(data, curdata) /\ Depth(data, curdata) = taskdepth /\ Stack(data, curdata) = cur
          BY NoFrame
        <4>3. InChain(dt, curdata) /\ Depth(dt, curdata) = taskdepth /\ Stack(dt, curdata) = cur
          BY <1>1, <1>16, <1>17, <4>2
        <4>4. FrameOf(dt, f, cur)
          BY <1>3, <1>4, <1>5, <1>7, <4>3 DEF FrameOf
        <4> QED BY <3>1, <4>1, <4>4
      <3>2. CASE s # cur
        <4>1. fr[s] = frames[s] /\ frames[s] # << >>
          BY <1>8, <2>1, <3>2
        <4>2. Len(frames[s]) = 1 /\ FrameOf(data, frames[s][1], s) /\ frames[s] \in Seq(Frame)
          BY <1>1, <4>1, Facts DEF Framed
        <4>3. PICK g \in Frame : g = frames[s][1]
          BY <4>2
        <4>4. g.cont \in Conts /\ g.olddata \in Conts \cup {Top}
          BY DEF Frame
        <4>5. data[g.cont].mydepth = Depth(data, g.olddata) + 1 /\ Depth(data, g.olddata) \in Nat /\ InChain(data, g.olddata)
          BY <4>2, <4>3, <4>4, Facts, DataFields DEF FrameOf, Depth
        <4>6. g.cont # d /\ g.olddata # d
          BY <4>5, TopAssumption DEF InChain
        <4>7. FrameOf(dt, g, s)
          BY <1>5, <1>16, <4>2, <4>3, <4>4, <4>6 DEF FrameOf
        <4> QED BY <4>1, <4>2, <4>3, <4>7
      <3> QED BY <3>1, <3>2
    <2>2. ASSUME NEW e \in Conts \cup {Top}, InChain(dt, e), Depth(dt, e) < n PROVE fr[Stack(dt, e)] # << >>
      <3>1. e # d
        BY <1>3, <1>4, <1>5, <2>2, TopAssumption DEF Depth
      <3>2. InChain(data, e) /\ Depth(data, e) < n /\ Stack(dt, e) = Stack(data, e)
        BY <1>16, <2>2, <3>1
      <3>3. Stack(data, e) \in Tasks \cup {Top} /\ Depth(data, e) \in Nat
        BY Facts, DataFields DEF Stack, Depth
      <3>4. CASE Depth(data, e) < taskdepth
        <4>1. frames[Stack(data, e)] # << >>
          BY <3>2, <3>4, Facts DEF Framed
        <4>2. Stack(data, e) # cur
          BY <4>1, NoFrame
        <4> QED BY <1>8, <3>2, <3>3, <4>1, <4>2
      <3>5. CASE Depth(data, e) = taskdepth
        <4>1. e = curdata
          <5>1. InChain(data, curdata) /\ Depth(data, curdata) = taskdepth /\ curdata \in Conts \cup {Top}
            BY NoFrame
          <5>2. Chained(data, taskdepth)
            BY Facts
          <5> QED BY <1>1, <3>2, <3>5, <5>1, <5>2, TopAssumption, Facts, DataFields DEF Chained, Depth, InChain
        <4>2. Stack(data, e) = cur
          BY <4>1, NoFrame
        <4>3. <<f>> # << >>
          OBVIOUS
        <4> QED BY <1>8, <3>2, <4>2, <4>3
      <3> QED BY <1>1, <1>3, <3>2, <3>3, <3>4, <3>5
    <2> QED BY <2>1, <2>2 DEF Framed
  <1>19. Control(dt, tk, fr, t, FALSE, d, n)
    <2>1. InChain(dt, d) /\ Depth(dt, d) = n /\ Stack(dt, d) = t
      BY <1>3, <1>4, <1>5, TopAssumption DEF InChain, Depth, Stack
    <2> QED BY <1>6, <2>1 DEF Control
  <1>20. Parts(data', task', free_tasks', frames', cur', back', curdata', taskdepth')
    BY <1>2, <1>12, <1>13, <1>14, <1>15, <1>18, <1>19 DEF Parts, dt, tk, fr
  <1>21. ContInv'
    BY <1>10, <1>11, <1>20, PrimedInv DEF dt
  <1>22. ASSUME NEW e \in Conts, e # d
         PROVE  /\ data'[e] = data[e]
                /\ data[e].task # Top => (task'[data[e].task].running <=> task[data[e].task].running)
    <2>1. data[e].task \in Tasks \cup {Top} /\ data[e].task # t
      BY <1>22, Facts, DataFields
    <2> QED BY <1>5, <1>6, <1>22, <2>1 DEF dt, tk
  <1>23. /\ data'[d].mydepth = taskdepth + 1 /\ data'[d].alive
         /\ data'[d].handles = data[d].handles /\ (data'[d].finishing <=> b)
    BY <1>3, <1>4, <1>5 DEF dt
  <1> QED BY <1>2, <1>3, <1>21, <1>22, <1>23 DEF Entered, OthersStay

\* The first free task that fits is one of them.
LEMMA LeastOf ==
    ASSUME NEW q, Len(q) \in Nat, NEW I, I \subseteq 1..Len(q), I # {}
    PROVE  First(I) \in I
  <1>1. I \subseteq Nat
    OBVIOUS
  <1>2. PICK i \in I : \A j \in I : i <= j
    BY <1>1, LeastNatural
  <1> QED BY <1>2 DEF First

\* Unlinking one task of the free list leaves the others, each still once.
LEMMA WithoutFacts ==
    ASSUME NEW q \in Seq(Tasks), NEW i \in 1..Len(q), \A j, k \in 1..Len(q) : q[j] = q[k] => j = k
    PROVE  /\ Without(q, i) \in Seq(Tasks)
           /\ \A j \in 1..Len(Without(q, i)) :
                 Without(q, i)[j] # q[i] /\ \E k \in 1..Len(q) : Without(q, i)[j] = q[k]
           /\ \A j, k \in 1..Len(Without(q, i)) : Without(q, i)[j] = Without(q, i)[k] => j = k
  <1> DEFINE n == Len(q)
             w == Without(q, i)
             At(j) == IF j < i THEN j ELSE j + 1
  <1>1. n \in Nat /\ n - 1 \in Nat
    OBVIOUS
  <1>2. w = [j \in 1..(n - 1) |-> q[At(j)]]
    BY DEF Without
  <1>3. \A j \in 1..(n - 1) : At(j) \in 1..n /\ At(j) # i
    BY <1>1
  <1>4. \A j, k \in 1..(n - 1) : At(j) = At(k) => j = k
    BY <1>1
  <1> HIDE DEF n, At
  <1>5. \A j \in 1..(n - 1) : q[At(j)] \in Tasks
    BY <1>3 DEF n
  <1>6. w \in Seq(Tasks) /\ Len(w) = n - 1
    <2>1. w \in [1..(n - 1) -> Tasks]
      BY <1>2, <1>5
    <2> HIDE DEF w
    <2> QED BY <1>1, <2>1
  <1>7. \A j \in 1..(n - 1) : w[j] = q[At(j)]
    BY <1>2
  <1> HIDE DEF w
  <1>8. \A j \in 1..Len(w) : w[j] # q[i] /\ \E k \in 1..Len(q) : w[j] = q[k]
    BY <1>3, <1>6, <1>7 DEF n
  <1>9. ASSUME NEW j \in 1..Len(w), NEW k \in 1..Len(w), w[j] = w[k] PROVE j = k
    <2>1. q[At(j)] = q[At(k)] /\ At(j) \in 1..Len(q) /\ At(k) \in 1..Len(q)
      BY <1>3, <1>6, <1>7, <1>9 DEF n
    <2> QED BY <1>4, <1>6, <2>1
  <1> QED BY <1>6, <1>8, <1>9 DEF w

\* The task that WvTaskMan::start() finds or makes belongs to nobody, and is not free any more.
LEMMA StartFacts ==
    ASSUME ContInv, NEW d \in Conts, NEW t \in Tasks, start(d, t)
    PROVE  /\ free_tasks' \in Seq(Tasks)
           /\ \A j \in 1..Len(free_tasks') :
                 free_tasks'[j] # t /\ \E k \in 1..Len(free_tasks) : free_tasks'[j] = free_tasks[k]
           /\ \A j, k \in 1..Len(free_tasks') : free_tasks'[j] = free_tasks'[k] => j = k
           /\ \A e \in Conts : data[e].task # t
  <1>1. /\ free_tasks \in Seq(Tasks) /\ Owned(data, task) /\ Pooled(free_tasks, task)
        /\ \A i \in 1..Len(free_tasks) : free_tasks[i] \in Tasks
    BY Facts
  <1>2. CASE Fitting(d) # {} /\ t = free_tasks[First(Fitting(d))]
             /\ free_tasks' = Without(free_tasks, First(Fitting(d)))
    <2>1. Fitting(d) \subseteq 1..Len(free_tasks) /\ Len(free_tasks) \in Nat
      BY <1>1 DEF Fitting
    <2>2. First(Fitting(d)) \in Fitting(d)
      BY <1>2, <2>1, LeastOf
    <2>3. PICK i \in 1..Len(free_tasks) : i = First(Fitting(d))
      BY <2>1, <2>2
    <2>4. t = free_tasks[i] /\ free_tasks' = Without(free_tasks, i)
      BY <1>2, <2>3
    <2>5. \A j, k \in 1..Len(free_tasks) : free_tasks[j] = free_tasks[k] => j = k
      BY <1>1 DEF Pooled
    <2>6. /\ Without(free_tasks, i) \in Seq(Tasks)
          /\ \A j \in 1..Len(Without(free_tasks, i)) :
                Without(free_tasks, i)[j] # free_tasks[i]
                /\ \E k \in 1..Len(free_tasks) : Without(free_tasks, i)[j] = free_tasks[k]
          /\ \A j, k \in 1..Len(Without(free_tasks, i)) :
                Without(free_tasks, i)[j] = Without(free_tasks, i)[k] => j = k
      BY <1>1, <2>5, WithoutFacts
    <2>7. task[t].recycled
      BY <1>1, <2>4 DEF Pooled
    <2>8. \A e \in Conts : data[e].task # t
      BY <1>1, <2>7, TopAssumption DEF Owned
    <2> QED BY <2>4, <2>6, <2>8
  <1>3. CASE Fitting(d) = {} /\ ~task[t].exists /\ UNCHANGED free_tasks
    <2>1. \A j \in 1..Len(free_tasks) : free_tasks[j] # t
      BY <1>1, <1>3 DEF Pooled
    <2>2. \A e \in Conts : data[e].task # t
      BY <1>1, <1>3, TopAssumption DEF Owned
    <2>3. \A j, k \in 1..Len(free_tasks) : free_tasks[j] = free_tasks[k] => j = k
      BY <1>1 DEF Pooled
    <2> QED BY <1>1, <1>3, <2>1, <2>2, <2>3
  <1> QED BY <1>2, <1>3 DEF start

\* The free list stays in order when a task t that is not in it changes.
LEMMA PoolStep ==
    ASSUME ContInv, NEW t \in Tasks, NEW y \in TaskRec, NEW q, NEW tx, tx = [task EXCEPT ![t] = y],
           \A j \in 1..Len(q) : q[j] # t /\ \E k \in 1..Len(free_tasks) : q[j] = free_tasks[k],
           \A j, k \in 1..Len(q) : q[j] = q[k] => j = k
    PROVE  Pooled(q, tx)
  <1>1. /\ task \in [Tasks -> TaskRec] /\ Pooled(free_tasks, task)
        /\ \A i \in 1..Len(free_tasks) : free_tasks[i] \in Tasks
    BY Facts
  <1>2. ASSUME NEW j \in 1..Len(q) PROVE tx[q[j]].exists /\ tx[q[j]].recycled /\ ~tx[q[j]].running
    <2>1. PICK k \in 1..Len(free_tasks) : q[j] = free_tasks[k]
      OBVIOUS
    <2>2. q[j] \in Tasks /\ q[j] # t
      BY <1>1, <2>1
    <2>3. tx[q[j]] = task[q[j]]
      BY <1>1, <2>2
    <2> QED BY <1>1, <2>1, <2>3 DEF Pooled
  <1> QED BY <1>2 DEF Pooled

\* operator()
LEMMA CallStep ==
    ASSUME ContInv, NEW d \in Conts, NEW p \in Values, Call(d, p)
    PROVE  ContInv' /\ Entered(d, p, FALSE)
  <1>1. ~back /\ Usable(d) /\ data[d].mydepth = 0
    BY DEF Call, UserCode
  <1>2. /\ data \in [Conts -> DataRec] /\ task \in [Tasks -> TaskRec] /\ data[d] \in DataRec
        /\ free_tasks \in Seq(Tasks) /\ Owned(data, task)
    BY Facts
  <1>3. data[d].alive /\ ~data[d].finishing
    BY <1>1, UsableFacts
  <1>4. PICK t \in Tasks, y \in TaskRec :
            /\ data[d].task \in {Top, t} /\ \A e \in Conts : e # d => data[e].task # t
            /\ y.running /\ y.userdata = d /\ y.exists /\ ~y.recycled
            /\ free_tasks' \in Seq(Tasks)
            /\ \A j \in 1..Len(free_tasks') :
                  free_tasks'[j] # t /\ \E k \in 1..Len(free_tasks) : free_tasks'[j] = free_tasks[k]
            /\ \A j, k \in 1..Len(free_tasks') : free_tasks'[j] = free_tasks'[k] => j = k
            /\ BeginCall(d, [data EXCEPT ![d].task = t, ![d].p1 = p, ![d].ret = Null], [task EXCEPT ![t] = y], FALSE)
    <2>1. CASE data[d].task = Top
      <3>1. PICK t \in Tasks : start(d, t)
                /\ BeginCall(d, [data EXCEPT ![d].task = t, ![d].p1 = p, ![d].ret = Null], NewlyStarted(d, t), FALSE)
        BY <2>1 DEF Call
      <3> DEFINE m == IF task[t].exists THEN task[t].small ELSE d \in Small
                 y == [task[t] EXCEPT !.exists = TRUE, !.recycled = FALSE, !.small = m,
                                      !.running = TRUE, !.userdata = d]
      <3>2. NewlyStarted(d, t) = [task EXCEPT ![t] = y]
        BY <1>2 DEF NewlyStarted, Started
      <3>3. task[t] \in TaskRec
        BY <1>2
      <3>4. m \in BOOLEAN
        <4>1. task[t].small \in BOOLEAN
          BY <3>3 DEF TaskRec
        <4>2. (d \in Small) \in BOOLEAN
          OBVIOUS
        <4> QED BY <4>1, <4>2, Zenon
      <3> HIDE DEF m
      <3>5. y \in TaskRec /\ y.running /\ y.userdata = d /\ y.exists /\ ~y.recycled
        BY <3>3, <3>4 DEF TaskRec
      <3> HIDE DEF y
      <3>6. /\ free_tasks' \in Seq(Tasks)
            /\ \A j \in 1..Len(free_tasks') :
                  free_tasks'[j] # t /\ \E k \in 1..Len(free_tasks) : free_tasks'[j] = free_tasks[k]
            /\ \A j, k \in 1..Len(free_tasks') : free_tasks'[j] = free_tasks'[k] => j = k
            /\ \A e \in Conts : data[e].task # t
        BY <3>1, StartFacts
      <3>7. BeginCall(d, [data EXCEPT ![d].task = t, ![d].p1 = p, ![d].ret = Null], [task EXCEPT ![t] = y], FALSE)
        BY <3>1, <3>2
      <3> QED BY <2>1, <3>5, <3>6, <3>7
    <2>2. CASE data[d].task # Top
      <3>1. PICK t \in Tasks : t = data[d].task
        BY <1>2, <2>2, DataFields
      <3>2. UNCHANGED free_tasks
            /\ BeginCall(d, [data EXCEPT ![d].task = t, ![d].p1 = p, ![d].ret = Null], Started(task, t, d), FALSE)
        BY <2>2, <3>1 DEF Call
      <3> DEFINE y == [task[t] EXCEPT !.running = TRUE, !.userdata = d]
      <3>3. Started(task, t, d) = [task EXCEPT ![t] = y]
        BY <1>2 DEF Started
      <3>4. task[t] \in TaskRec /\ task[t].exists /\ ~task[t].recycled
        BY <1>2, <2>2, <3>1 DEF Owned
      <3>5. y \in TaskRec /\ y.running /\ y.userdata = d /\ y.exists /\ ~y.recycled
        BY <3>4 DEF TaskRec
      <3> HIDE DEF y
      <3>6. Pooled(free_tasks, task)
        BY Facts
      <3>7. \A j \in 1..Len(free_tasks) : free_tasks[j] # t
        BY <3>4, <3>6 DEF Pooled
      <3>8. \A j, k \in 1..Len(free_tasks) : free_tasks[j] = free_tasks[k] => j = k
        BY <3>6 DEF Pooled
      <3>9. \A e \in Conts : e # d => data[e].task # t
        BY <1>2, <2>2, <3>1 DEF Owned
      <3>10. BeginCall(d, [data EXCEPT ![d].task = t, ![d].p1 = p, ![d].ret = Null], [task EXCEPT ![t] = y], FALSE)
        BY <3>2, <3>3
      <3> QED BY <1>2, <3>1, <3>2, <3>5, <3>7, <3>8, <3>9, <3>10
    <2> QED BY <2>1, <2>2
  <1> DEFINE w == [data[d] EXCEPT !.task = t, !.p1 = p, !.ret = Null]
  <1>5. [data EXCEPT ![d].task = t, ![d].p1 = p, ![d].ret = Null] = [data EXCEPT ![d] = w]
    BY <1>2
  <1>6. /\ w \in DataRec /\ w.mydepth = data[d].mydepth /\ w.alive = data[d].alive /\ w.links = data[d].links
        /\ w.handles = data[d].handles /\ w.task = t /\ w.finishing = data[d].finishing /\ w.p1 = p
    BY <1>2 DEF DataRec
  <1> HIDE DEF w
  <1>7. PICK x \in DataRec : x = w
    BY <1>6
  <1>8. PICK dx : dx = [data EXCEPT ![d] = x]
    OBVIOUS
  <1>9. PICK tx : tx = [task EXCEPT ![t] = y]
    OBVIOUS
  <1>10. BeginCall(d, dx, tx, FALSE)
    BY <1>4, <1>5, <1>7, <1>8, <1>9
  <1>11. Pooled(free_tasks', tx)
    BY <1>4, <1>9, PoolStep
  <1>12. /\ x.mydepth = 0 /\ x.alive /\ x.links = data[d].links /\ x.handles = data[d].handles /\ x.task = t
         /\ ~x.finishing /\ x.p1 = p
    BY <1>1, <1>3, <1>6, <1>7
  <1>13. ContInv' /\ Entered(d, x.p1, FALSE)
    BY <1>1, <1>3, <1>4, <1>8, <1>9, <1>10, <1>11, <1>12, BeginStep
  <1> QED BY <1>12, <1>13

\* ~WvCont() of the last object, while the function is in the middle: it is entered again.
LEMMA DropEnters ==
    ASSUME ContInv, NEW d \in Conts, ~back, Usable(d), data[d].links = 1, data[d].task # Top,
           task[data[d].task].running,
           BeginCall(d, [data EXCEPT ![d].finishing = TRUE, ![d].p1 = Null], task, TRUE), UNCHANGED free_tasks
    PROVE  ContInv' /\ Entered(d, Null, TRUE)
  <1>1. /\ data \in [Conts -> DataRec] /\ task \in [Tasks -> TaskRec] /\ data[d] \in DataRec
        /\ free_tasks \in Seq(Tasks) /\ Owned(data, task) /\ Pooled(free_tasks, task) /\ Counted(data[d])
    BY Facts
  <1>2. data[d].alive /\ ~data[d].finishing /\ data[d].handles > 0 /\ data[d].handles \in Nat /\ data[d].mydepth \in Nat
    BY <1>1, UsableFacts, DataFields
  <1>3. data[d].handles = 1 /\ data[d].mydepth = 0
    BY <1>1, <1>2 DEF Counted
  <1>4. PICK t \in Tasks : t = data[d].task
    BY <1>1, DataFields
  <1>5. PICK y \in TaskRec : y = task[t]
    BY <1>1
  <1>6. /\ y.running /\ y.exists /\ ~y.recycled /\ y.userdata = d /\ \A e \in Conts : e # d => data[e].task # t
    BY <1>1, <1>4, <1>5 DEF Owned
  <1> DEFINE w == [data[d] EXCEPT !.finishing = TRUE, !.p1 = Null]
  <1>7. [data EXCEPT ![d].finishing = TRUE, ![d].p1 = Null] = [data EXCEPT ![d] = w]
    BY <1>1
  <1>8. /\ w \in DataRec /\ w.mydepth = data[d].mydepth /\ w.alive = data[d].alive /\ w.links = data[d].links
        /\ w.handles = data[d].handles /\ w.task = data[d].task /\ w.finishing /\ w.p1 = Null
    BY <1>1 DEF DataRec
  <1> HIDE DEF w
  <1>9. PICK x \in DataRec : x = w
    BY <1>8
  <1>10. PICK dx : dx = [data EXCEPT ![d] = x]
    OBVIOUS
  <1>11. PICK tx : tx = [task EXCEPT ![t] = y]
    OBVIOUS
  <1>12. tx = task
    BY <1>1, <1>5, <1>11
  <1>13. BeginCall(d, dx, tx, TRUE)
    BY <1>7, <1>9, <1>10, <1>12
  <1>14. Pooled(free_tasks', tx) /\ free_tasks' \in Seq(Tasks)
    BY <1>1, <1>12
  <1>15. /\ x.mydepth = 0 /\ x.alive /\ x.links = data[d].links /\ x.handles = data[d].handles /\ x.task = t
         /\ x.finishing /\ x.handles = 1 /\ x.p1 = Null /\ data[d].task \in {Top, t}
    BY <1>2, <1>3, <1>4, <1>8, <1>9
  <1>16. ContInv' /\ Entered(d, x.p1, TRUE)
    BY <1>2, <1>3, <1>6, <1>10, <1>11, <1>13, <1>14, <1>15, BeginStep
  <1> QED BY <1>15, <1>16

\* ~Data() of a cont that is not in the chain and whose function has ended, in a state with the
\* given parts: its task goes back to the free list; or, with the last Data, everything goes.
LEMMA FreeStep ==
    ASSUME NEW d \in Conts, NEW dt \in [Conts -> DataRec], NEW tk \in [Tasks -> TaskRec], NEW fq \in Seq(Tasks),
           NEW fr \in [Tasks \cup {Top} -> Seq(Frame)], NEW c \in Tasks \cup {Top}, NEW cd \in Conts \cup {Top},
           NEW n \in Nat, Parts(dt, tk, fq, fr, c, FALSE, cd, n),
           \A e \in Conts : e # d => Counted(dt[e]),
           dt[d].mydepth = 0, dt[d].task # Top => ~tk[dt[d].task].running,
           FreeData(d, dt, tk, fq)
    PROVE  /\ data' \in [Conts -> DataRec] /\ task' \in [Tasks -> TaskRec] /\ free_tasks' \in Seq(Tasks)
           /\ data'[d] = NoData /\ \A e \in Conts : Counted(data'[e])
           /\ \A e \in Conts : e # d =>
                 /\ data'[e] = dt[e]
                 /\ dt[e].task # Top => (task'[dt[e].task].running <=> tk[dt[e].task].running)
           /\ Parts(data', task', free_tasks', fr, c, FALSE, cd, n)
  <1> DEFINE t == dt[d].task
             z == NoData
             dn == data'
             tn == task'
             fn == free_tasks'
  <1>1. z \in DataRec /\ Counted(z) /\ z.mydepth = 0 /\ z.task = Top /\ ~z.finishing
    BY NoDataFacts
  <1>2. dn = [dt EXCEPT ![d] = z]
    BY DEF FreeData
  <1> HIDE DEF z
  <1>3. dn \in [Conts -> DataRec] /\ dn[d] = z /\ \A e \in Conts : e # d => dn[e] = dt[e]
    BY <1>1, <1>2
  <1>4. \A e \in Conts : Counted(dn[e])
    BY <1>1, <1>3
  <1>5. /\ Chained(dt, n) /\ Owned(dt, tk) /\ Waiting(dt, tk, n) /\ Pooled(fq, tk)
        /\ Framed(dt, fr, n) /\ Control(dt, tk, fr, c, FALSE, cd, n)
    BY DEF Parts
  <1>6. \A e \in Conts : dt[e].mydepth \in Nat /\ dt[e].task \in Tasks \cup {Top}
                         /\ dt[e].links \in Nat /\ dt[e].handles \in Nat
    BY DataFields
  <1>7. \A e \in Conts : dn[e].mydepth = dt[e].mydepth
    BY <1>1, <1>3
  <1>8. Chained(dn, n)
    BY <1>5, <1>7 DEF Chained
  <1>9. \A e \in Conts \cup {Top} : InChain(dt, e) => e # d
    BY TopAssumption DEF InChain
  <1>10. \A e \in Conts \cup {Top} : e # d => Depth(dn, e) = Depth(dt, e) /\ Stack(dn, e) = Stack(dt, e)
                                            /\ (InChain(dn, e) <=> InChain(dt, e))
    BY <1>3 DEF Depth, Stack, InChain
  <1>11. ~InChain(dn, d)
    BY <1>1, <1>3, TopAssumption DEF InChain
  <1>12. Framed(dn, fr, n)
    <2>1. ASSUME NEW s \in Tasks \cup {Top}, fr[s] # << >> PROVE Len(fr[s]) = 1 /\ FrameOf(dn, fr[s][1], s)
      <3>1. Len(fr[s]) = 1 /\ FrameOf(dt, fr[s][1], s) /\ fr[s] \in Seq(Frame)
        BY <1>5, <2>1 DEF Framed
      <3>2. PICK g \in Frame : g = fr[s][1]
        BY <3>1
      <3>3. g.cont \in Conts /\ g.olddata \in Conts \cup {Top}
        BY DEF Frame
      <3>4. InChain(dt, g.olddata) /\ dt[g.cont].mydepth = Depth(dt, g.olddata) + 1
        BY <3>1, <3>2 DEF FrameOf
      <3>5. Depth(dt, g.olddata) \in Nat
        BY <1>6, <3>3 DEF Depth
      <3>6. g.cont # d /\ g.olddata # d
        BY <1>9, <3>3, <3>4, <3>5
      <3>7. FrameOf(dn, g, s)
        BY <1>3, <1>10, <3>1, <3>2, <3>3, <3>6 DEF FrameOf
      <3> QED BY <3>1, <3>2, <3>7
    <2>2. ASSUME NEW e \in Conts \cup {Top}, InChain(dn, e), Depth(dn, e) < n PROVE fr[Stack(dn, e)] # << >>
      <3>1. e # d
        BY <1>11, <2>2
      <3> QED BY <1>5, <1>10, <2>2, <3>1 DEF Framed
    <2> QED BY <2>1, <2>2 DEF Framed
  <1>13. cd # d /\ InChain(dn, cd) /\ Depth(dn, cd) = n /\ c = Stack(dn, cd) /\ (cd # Top => tk[c].running)
    <2>1. InChain(dt, cd) /\ Depth(dt, cd) = n /\ c = Stack(dt, cd) /\ (cd # Top => tk[c].running)
      BY <1>5 DEF Control
    <2>2. cd # d
      BY <1>9, <2>1
    <2> QED BY <1>10, <2>1, <2>2
  <1>14. /\ tn \in [Tasks -> TaskRec] /\ fn \in Seq(Tasks) /\ Owned(dn, tn) /\ Waiting(dn, tn, n) /\ Pooled(fn, tn)
         /\ \A e \in Conts : e # d => (dt[e].task # Top => (tn[dt[e].task].running <=> tk[dt[e].task].running))
         /\ cd # Top => tn[c].running
    <2>1. CASE ~(\E e \in Conts \ {d} : dt[e].alive)
      <3>1. tn = [u \in Tasks |-> NoTask] /\ fn = << >>
        BY <2>1 DEF FreeData
      <3>2. NoTask \in TaskRec /\ ~NoTask.running
        BY DEF NoTask, TaskRec
      <3>3. \A u \in Tasks : tn[u] = NoTask
        BY <3>1
      <3>4. tn \in [Tasks -> TaskRec] /\ fn \in Seq(Tasks) /\ Len(fn) = 0
        BY <3>1, <3>2
      <3>5. \A e \in Conts : e # d => dt[e].task = Top /\ dt[e].mydepth = 0
        BY <1>6, <2>1 DEF Counted
      <3>6. \A e \in Conts : dn[e].task = Top /\ dn[e].mydepth = 0
        BY <1>1, <1>3, <3>5
      <3> HIDE DEF dn, tn, fn
      <3>7. Owned(dn, tn)
        BY <3>2, <3>3, <3>6 DEF Owned
      <3>8. Waiting(dn, tn, n)
        BY <3>6 DEF Waiting
      <3>9. Pooled(fn, tn)
        BY <3>4 DEF Pooled
      <3>10. cd = Top
        BY <1>13, <3>6 DEF InChain
      <3> QED BY <3>4, <3>5, <3>7, <3>8, <3>9, <3>10
    <2>2. CASE (\E e \in Conts \ {d} : dt[e].alive) /\ t = Top
      <3>1. tn = tk /\ fn = fq
        BY <2>2 DEF FreeData
      <3>2. \A e \in Conts : dn[e].task = dt[e].task
        BY <1>1, <1>3, <2>2
      <3> HIDE DEF dn, tn, fn
      <3>3. Owned(dn, tk)
        <4>1. \A u \in Tasks : tk[u].running => tk[u].userdata \in Conts /\ dn[tk[u].userdata].task = u
          BY <1>5, <3>2 DEF Owned
        <4>2. \A e, g \in Conts : dn[e].task # Top /\ dn[e].task = dn[g].task => e = g
          BY <1>5, <3>2 DEF Owned
        <4>3. \A e \in Conts : dn[e].task # Top => tk[dn[e].task].exists /\ ~tk[dn[e].task].recycled
          BY <1>5, <3>2 DEF Owned
        <4> QED BY <4>1, <4>2, <4>3 DEF Owned
      <3>4. Waiting(dn, tk, n)
        BY <1>5, <1>7, <3>2 DEF Waiting
      <3> QED BY <1>5, <1>13, <3>1, <3>3, <3>4
    <2>3. CASE (\E e \in Conts \ {d} : dt[e].alive) /\ t # Top
      <3>1. t \in Tasks /\ tk[t] \in TaskRec /\ ~tk[t].running /\ tk[t].exists /\ ~tk[t].recycled
        BY <1>5, <1>6, <2>3 DEF Owned
      <3> DEFINE y == [tk[t] EXCEPT !.recycled = TRUE]
      <3>2. tn = [tk EXCEPT ![t] = y] /\ fn = Append(fq, t)
        BY <2>3, <3>1 DEF FreeData
      <3>3. y \in TaskRec /\ y.recycled /\ ~y.running /\ y.exists
        BY <3>1 DEF TaskRec
      <3>4. \A e \in Conts : e # d => dt[e].task # t
        BY <1>5, <2>3 DEF Owned
      <3>5. dt[d].task = t
        OBVIOUS
      <3> HIDE DEF y, t, dn, tn, fn
      <3>6. tn \in [Tasks -> TaskRec] /\ tn[t] = y /\ \A u \in Tasks : u # t => tn[u] = tk[u]
        BY <3>1, <3>2, <3>3
      <3>7. /\ fn \in Seq(Tasks) /\ Len(fn) = Len(fq) + 1 /\ fn[Len(fq) + 1] = t
            /\ \A i \in 1..Len(fq) : fn[i] = fq[i]
        BY <3>1, <3>2, AppendProperties
      <3>8. \A e \in Conts : dn[e].task # Top => e # d /\ dn[e].task = dt[e].task /\ dn[e].task \in Tasks
                                                  /\ tn[dn[e].task] = tk[dn[e].task]
        BY <1>1, <1>3, <1>6, <3>4, <3>6
      <3>9. Owned(dn, tn)
        <4>1. \A e, g \in Conts : dn[e].task # Top /\ dn[e].task = dn[g].task => e = g
          BY <1>5, <3>8 DEF Owned
        <4>2. \A e \in Conts : dn[e].task # Top => tn[dn[e].task].exists /\ ~tn[dn[e].task].recycled
          BY <1>5, <3>8 DEF Owned
        <4>3. ASSUME NEW u \in Tasks, tn[u].running PROVE tn[u].userdata \in Conts /\ dn[tn[u].userdata].task = u
          <5>1. u # t /\ tn[u] = tk[u]
            BY <3>3, <3>6, <4>3
          <5>2. tk[u].userdata \in Conts /\ dt[tk[u].userdata].task = u
            BY <1>5, <4>3, <5>1 DEF Owned
          <5>3. tk[u].userdata # d
            BY <3>5, <5>1, <5>2
          <5> QED BY <1>3, <5>1, <5>2, <5>3
        <4> QED BY <4>1, <4>2, <4>3 DEF Owned
      <3>10. Waiting(dn, tn, n)
        <4> SUFFICES ASSUME NEW e \in Conts, dn[e].mydepth > 0, dn[e].mydepth < n PROVE tn[dn[e].task].running
          BY DEF Waiting
        <4>1. e # d /\ dn[e] = dt[e]
          BY <1>3, <1>7
        <4>2. dt[e].task # Top
          BY <4>1 DEF Counted
        <4>3. tk[dt[e].task].running
          BY <1>5, <4>1 DEF Waiting
        <4> QED BY <3>8, <4>1, <4>2, <4>3
      <3>11. Pooled(fn, tn)
        <4>0. PICK m \in Nat : m = Len(fq)
          OBVIOUS
        <4>1. \A i \in 1..Len(fn) : i \in 1..Len(fq) \/ i = Len(fq) + 1
          BY <3>7, <4>0
        <4>2. \A i \in 1..Len(fq) : fq[i] \in Tasks /\ fq[i] # t
          BY <1>5, <3>1 DEF Pooled
        <4>3. ASSUME NEW i \in 1..Len(fn) PROVE tn[fn[i]].exists /\ tn[fn[i]].recycled /\ ~tn[fn[i]].running
          <5>1. CASE i \in 1..Len(fq)
            <6>1. fn[i] = fq[i] /\ tn[fq[i]] = tk[fq[i]]
              BY <3>6, <3>7, <4>2, <5>1
            <6> QED BY <1>5, <5>1, <6>1 DEF Pooled
          <5>2. CASE i = Len(fq) + 1
            BY <3>3, <3>6, <3>7, <5>2
          <5> QED BY <4>1, <5>1, <5>2
        <4>4. ASSUME NEW i \in 1..Len(fn), NEW j \in 1..Len(fn), fn[i] = fn[j] PROVE i = j
          <5>1. \A k, l \in 1..Len(fq) : fq[k] = fq[l] => k = l
            BY <1>5 DEF Pooled
          <5>2. CASE i \in 1..Len(fq) /\ j \in 1..Len(fq)
            BY <3>7, <4>4, <5>1, <5>2
          <5>3. CASE i \in 1..Len(fq) /\ j = Len(fq) + 1
            BY <3>7, <4>2, <4>4, <5>3
          <5>4. CASE i = Len(fq) + 1 /\ j \in 1..Len(fq)
            BY <3>7, <4>2, <4>4, <5>4
          <5> QED BY <4>1, <5>2, <5>3, <5>4
        <4> QED BY <4>3, <4>4 DEF Pooled
      <3>12. cd # Top => tn[c].running
        <4> SUFFICES ASSUME cd # Top PROVE tn[c].running
          OBVIOUS
        <4>1. cd \in Conts /\ c = dn[cd].task /\ dn[cd].mydepth > 0
          BY <1>13 DEF Stack, InChain
        <4>2. dn[cd].task # Top
          BY <1>4, <4>1 DEF Counted
        <4> QED BY <1>13, <3>8, <4>1, <4>2
      <3>13. \A e \in Conts : e # d => (dt[e].task # Top => (tn[dt[e].task].running <=> tk[dt[e].task].running))
        BY <1>3, <3>8
      <3> QED BY <3>6, <3>7, <3>9, <3>10, <3>11, <3>12, <3>13
    <2> QED BY <2>1, <2>2, <2>3
  <1> HIDE DEF dn, tn, fn
  <1>15. Control(dn, tn, fr, c, FALSE, cd, n)
    BY <1>13, <1>14 DEF Control
  <1>16. Parts(dn, tn, fn, fr, c, FALSE, cd, n)
    BY <1>8, <1>12, <1>14, <1>15 DEF Parts
  <1> QED BY <1>3, <1>4, <1>14, <1>16 DEF dn, tn, fn, z

\* A cont that is not in the chain may change, but for its task.
LEMMA RetouchParts ==
    ASSUME ContInv, ~back, NEW d \in Conts, NEW dt \in [Conts -> DataRec], data[d].mydepth = 0,
           dt[d].mydepth = 0, dt[d].task = data[d].task, \A e \in Conts : e # d => dt[e] = data[e]
    PROVE  Parts(dt, task, free_tasks, frames, cur, FALSE, curdata, taskdepth)
  <1>1. /\ Chained(data, taskdepth) /\ Owned(data, task) /\ Waiting(data, task, taskdepth) /\ Pooled(free_tasks, task)
        /\ Framed(data, frames, taskdepth) /\ Control(data, task, frames, cur, back, curdata, taskdepth)
        /\ frames \in [Tasks \cup {Top} -> Seq(Frame)] /\ curdata \in Conts \cup {Top}
    BY Facts
  <1>2. \A e \in Conts : dt[e].mydepth = data[e].mydepth /\ dt[e].task = data[e].task
    OBVIOUS
  <1>3. Chained(dt, taskdepth)
    BY <1>1, <1>2 DEF Chained
  <1>4. Owned(dt, task)
    <2>1. \A t \in Tasks : task[t].running => task[t].userdata \in Conts /\ dt[task[t].userdata].task = t
      BY <1>1, <1>2 DEF Owned
    <2>2. \A e, g \in Conts : dt[e].task # Top /\ dt[e].task = dt[g].task => e = g
      BY <1>1, <1>2 DEF Owned
    <2>3. \A e \in Conts : dt[e].task # Top => task[dt[e].task].exists /\ ~task[dt[e].task].recycled
      BY <1>1, <1>2 DEF Owned
    <2> QED BY <2>1, <2>2, <2>3 DEF Owned
  <1>5. Waiting(dt, task, taskdepth)
    BY <1>1, <1>2 DEF Waiting
  <1>6. \A e \in Conts \cup {Top} : Depth(dt, e) = Depth(data, e) /\ Stack(dt, e) = Stack(data, e)
                                    /\ (InChain(dt, e) <=> InChain(data, e))
    BY <1>2 DEF Depth, Stack, InChain
  <1>7. Framed(dt, frames, taskdepth)
    <2>1. ASSUME NEW s \in Tasks \cup {Top}, frames[s] # << >> PROVE Len(frames[s]) = 1 /\ FrameOf(dt, frames[s][1], s)
      <3>1. Len(frames[s]) = 1 /\ FrameOf(data, frames[s][1], s) /\ frames[s] \in Seq(Frame)
        BY <1>1, <2>1 DEF Framed
      <3>2. PICK g \in Frame : g = frames[s][1]
        BY <3>1
      <3>3. g.cont \in Conts /\ g.olddata \in Conts \cup {Top}
        BY DEF Frame
      <3>4. data[g.cont].mydepth = Depth(data, g.olddata) + 1 /\ Depth(data, g.olddata) \in Nat
        BY <3>1, <3>2, <3>3, Facts, DataFields DEF FrameOf, Depth
      <3>5. dt[g.cont] = data[g.cont]
        BY <3>3, <3>4
      <3>6. FrameOf(dt, g, s)
        BY <1>6, <3>1, <3>2, <3>3, <3>5 DEF FrameOf
      <3> QED BY <3>1, <3>2, <3>6
    <2>2. \A e \in Conts \cup {Top} : InChain(dt, e) /\ Depth(dt, e) < taskdepth => frames[Stack(dt, e)] # << >>
      BY <1>1, <1>6 DEF Framed
    <2> QED BY <2>1, <2>2 DEF Framed
  <1>8. Control(dt, task, frames, cur, FALSE, curdata, taskdepth)
    BY <1>1, <1>6 DEF Control
  <1> QED BY <1>1, <1>3, <1>4, <1>5, <1>7, <1>8 DEF Parts

\* A step frees d.
Freed(d) == data'[d] = NoData /\ OthersStay(d)

\* ~WvCont() of the last object, while the function is not in the middle.
LEMMA DropFrees ==
    ASSUME ContInv, NEW d \in Conts, ~back, Usable(d), data[d].links = 1,
           data[d].task # Top => ~task[data[d].task].running,
           FreeData(d, [data EXCEPT ![d].finishing = TRUE, ![d].p1 = Null], task, free_tasks),
           UNCHANGED <<frames, cur, back, curdata, taskdepth, val>>
    PROVE  ContInv' /\ Freed(d)
  <1>1. /\ data \in [Conts -> DataRec] /\ task \in [Tasks -> TaskRec] /\ data[d] \in DataRec
        /\ free_tasks \in Seq(Tasks) /\ Counted(data[d]) /\ frames \in [Tasks \cup {Top} -> Seq(Frame)]
        /\ cur \in Tasks \cup {Top} /\ curdata \in Conts \cup {Top} /\ taskdepth \in Nat
    BY Facts
  <1>2. data[d].alive /\ ~data[d].finishing /\ data[d].handles > 0 /\ data[d].handles \in Nat /\ data[d].mydepth \in Nat
    BY <1>1, UsableFacts, DataFields
  <1>3. data[d].handles = 1 /\ data[d].mydepth = 0
    BY <1>1, <1>2 DEF Counted
  <1> DEFINE w == [data[d] EXCEPT !.finishing = TRUE, !.p1 = Null]
  <1>4. [data EXCEPT ![d].finishing = TRUE, ![d].p1 = Null] = [data EXCEPT ![d] = w]
    BY <1>1
  <1>5. w \in DataRec /\ w.mydepth = data[d].mydepth /\ w.task = data[d].task
    BY <1>1 DEF DataRec
  <1> HIDE DEF w
  <1>6. PICK dt : dt = [data EXCEPT ![d] = w]
    OBVIOUS
  <1>7. /\ dt \in [Conts -> DataRec] /\ dt[d].mydepth = 0 /\ dt[d].task = data[d].task
        /\ \A e \in Conts : e # d => dt[e] = data[e]
    BY <1>1, <1>3, <1>5, <1>6
  <1>8. Parts(dt, task, free_tasks, frames, cur, FALSE, curdata, taskdepth)
    BY <1>3, <1>7, RetouchParts
  <1>9. FreeData(d, dt, task, free_tasks)
    BY <1>4, <1>6
  <1>10. \A e \in Conts : e # d => Counted(dt[e])
    BY <1>7, Facts
  <1>11. /\ data' \in [Conts -> DataRec] /\ task' \in [Tasks -> TaskRec] /\ free_tasks' \in Seq(Tasks)
         /\ data'[d] = NoData /\ \A e \in Conts : Counted(data'[e])
         /\ \A e \in Conts : e # d =>
               /\ data'[e] = dt[e]
               /\ dt[e].task # Top => (task'[dt[e].task].running <=> task[dt[e].task].running)
         /\ Parts(data', task', free_tasks', frames, cur, FALSE, curdata, taskdepth)
    BY <1>1, <1>7, <1>8, <1>9, <1>10, FreeStep
  <1>12. Types'
    BY <1>11, Facts DEF Types
  <1>13. Parts(data', task', free_tasks', frames', cur', back', curdata', taskdepth')
    BY <1>1, <1>11, Facts
  <1>14. ContInv'
    BY <1>11, <1>12, <1>13, PrimedInv
  <1>15. Freed(d)
    BY <1>7, <1>11 DEF Freed, OthersStay
  <1> QED BY <1>14, <1>15

\* Whoever is back from run() is in an activation.
LEMMA LastFrame ==
    ASSUME ContInv, back
    PROVE  /\ frames[cur] # << >> /\ Len(frames[cur]) = 1
           /\ LastOf(frames[cur]) = frames[cur][1] /\ FrontOf(frames[cur]) = << >>
           /\ frames[cur][1] \in Frame /\ frames[cur][1].cont \in Conts
           /\ frames[cur][1].olddata \in Conts \cup {Top}
           /\ FrameOf(data, frames[cur][1], cur)
           /\ data[frames[cur][1].cont].mydepth > 0
  <1>1. frames[cur] # << >> /\ cur \in Tasks \cup {Top} /\ frames[cur] \in Seq(Frame)
    BY Facts DEF Control
  <1>2. Len(frames[cur]) = 1 /\ FrameOf(data, frames[cur][1], cur)
    BY <1>1, Facts DEF Framed
  <1>3. frames[cur][1] \in Frame
    BY <1>1, <1>2
  <1>4. frames[cur][1].cont \in Conts /\ frames[cur][1].olddata \in Conts \cup {Top}
    BY <1>3 DEF Frame
  <1>5. LastOf(frames[cur]) = frames[cur][1]
    BY <1>2 DEF LastOf
  <1>6. FrontOf(frames[cur]) = << >>
    BY <1>1, <1>2 DEF FrontOf
  <1>7. data[frames[cur][1].cont].mydepth > 0
    <2>1. Depth(data, frames[cur][1].olddata) \in Nat
      BY <1>4, Facts, DataFields DEF Depth
    <2> QED BY <1>2, <2>1 DEF FrameOf
  <1> QED BY <1>1, <1>2, <1>3, <1>4, <1>5, <1>6, <1>7

\* _call() marks d as dying exactly when no object is left.
LEMMA NoticedFacts ==
    ASSUME ContInv, NEW d \in Conts, data[d].mydepth > 0
    PROVE  /\ Noticed(d) \in [Conts -> DataRec]
           /\ \A e \in Conts : e # d => Noticed(d)[e] = data[e]
           /\ Noticed(d)[d].alive = data[d].alive /\ Noticed(d)[d].handles = data[d].handles
           /\ Noticed(d)[d].links = data[d].links /\ Noticed(d)[d].mydepth = data[d].mydepth
           /\ Noticed(d)[d].task = data[d].task /\ Noticed(d)[d].ret = data[d].ret
           /\ Noticed(d)[d].finishing <=> data[d].finishing \/ data[d].handles = 0
           /\ data[d].handles = 0 => Noticed(d)[d].p1 = Null
           /\ data[d].links = data[d].handles + 1 /\ data[d].handles \in Nat
  <1>1. data \in [Conts -> DataRec] /\ data[d] \in DataRec /\ Counted(data[d])
    BY Facts
  <1>2. data[d].handles \in Nat /\ data[d].links = data[d].handles + 1
    BY <1>1, DataFields DEF Counted
  <1>3. CASE data[d].links = 1
    <2> DEFINE x == [data[d] EXCEPT !.finishing = TRUE, !.p1 = Null]
    <2>1. Noticed(d) = [data EXCEPT ![d] = x]
      BY <1>1, <1>3 DEF Noticed
    <2>2. /\ x \in DataRec /\ x.alive = data[d].alive /\ x.handles = data[d].handles /\ x.links = data[d].links
          /\ x.mydepth = data[d].mydepth /\ x.task = data[d].task /\ x.ret = data[d].ret /\ x.finishing /\ x.p1 = Null
      BY <1>1 DEF DataRec
    <2> HIDE DEF x
    <2>3. /\ Noticed(d) \in [Conts -> DataRec] /\ Noticed(d)[d] = x /\ \A e \in Conts : e # d => Noticed(d)[e] = data[e]
      BY <1>1, <2>1, <2>2
    <2>4. data[d].handles = 0
      BY <1>2, <1>3
    <2> QED BY <1>2, <2>2, <2>3, <2>4
  <1>4. CASE data[d].links # 1
    <2>1. Noticed(d) = data
      BY <1>4 DEF Noticed
    <2>2. data[d].handles # 0
      BY <1>2, <1>4
    <2> QED BY <1>1, <1>2, <2>1, <2>2
  <1> QED BY <1>3, <1>4

\* A step that changes no more than that.
Noted(d) ==
    /\ taskdepth' = taskdepth /\ task' = task
    /\ \A e \in Conts : e # d => data'[e] = data[e]
    /\ data'[d].mydepth = data[d].mydepth /\ data'[d].task = data[d].task
    /\ data'[d].handles = data[d].handles /\ data'[d].alive = data[d].alive
    /\ data'[d].finishing <=> data[d].finishing \/ data[d].handles = 0

\* _call() runs its task again.  Either that task is in the middle of a _call() itself, and the
\* yield is passed on to it; or d is the innermost cont and has yielded although it is dying,
\* which it can only just have learnt.
LEMMA RunAgainStep ==
    ASSUME ContInv, run_again
    PROVE  /\ ContInv'
           /\ \E d \in Conts :
                 /\ data[d].mydepth > 0 /\ Noted(d)
                 /\ val' = val \/ (val' = Null /\ d = curdata /\ data[d].handles = 0 /\ ~data[d].finishing)
  <1>0. back
    BY DEF run_again
  <1>1. PICK d \in Conts : d = LastOf(frames[cur]).cont /\ data[d].mydepth > 0
    BY <1>0, LastFrame
  <1> DEFINE t == data[d].task
             dt == Noticed(d)
  <1>2. /\ MustRunAgain(d) /\ data' = dt /\ SwitchTo(t, task, frames, dt[d].p1)
        /\ UNCHANGED <<free_tasks, frames, curdata, taskdepth>>
    BY <1>1 DEF run_again
  <1>3. /\ dt \in [Conts -> DataRec] /\ \A e \in Conts : e # d => dt[e] = data[e]
        /\ dt[d].alive = data[d].alive /\ dt[d].handles = data[d].handles
        /\ dt[d].links = data[d].links /\ dt[d].mydepth = data[d].mydepth
        /\ dt[d].task = data[d].task /\ dt[d].ret = data[d].ret
        /\ dt[d].finishing <=> data[d].finishing \/ data[d].handles = 0
        /\ data[d].handles = 0 => dt[d].p1 = Null
        /\ data[d].links = data[d].handles + 1 /\ data[d].handles \in Nat
    BY <1>1, NoticedFacts
  <1>4. MustRunAgain(d) <=> (dt[d].finishing /\ task[t].running) \/ taskdepth > data[d].mydepth
    BY DEF MustRunAgain
  <1> HIDE DEF dt
  <1>5. /\ Chained(data, taskdepth) /\ Owned(data, task) /\ Waiting(data, task, taskdepth) /\ Pooled(free_tasks, task)
        /\ Framed(data, frames, taskdepth) /\ Control(data, task, frames, cur, back, curdata, taskdepth)
        /\ frames \in [Tasks \cup {Top} -> Seq(Frame)] /\ curdata \in Conts \cup {Top} /\ taskdepth \in Nat
    BY Facts
  <1>6. t \in Tasks /\ t = Stack(data, d) /\ InChain(data, d) /\ Depth(data, d) = data[d].mydepth
    <2>1. t # Top /\ t \in Tasks \cup {Top}
      BY <1>1, Facts, DataFields DEF Counted
    <2> QED BY <1>1, <2>1, TopAssumption DEF Stack, InChain, Depth
  <1> HIDE DEF t
  <1>7. \A e \in Conts : dt[e].mydepth = data[e].mydepth /\ dt[e].task = data[e].task /\ dt[e].ret = data[e].ret
                         /\ dt[e].handles = data[e].handles
    BY <1>3
  <1>8. Chained(dt, taskdepth) /\ Owned(dt, task) /\ Waiting(dt, task, taskdepth)
    <2>1. Chained(dt, taskdepth)
      BY <1>5, <1>7 DEF Chained
    <2>2. \A u \in Tasks : task[u].running => task[u].userdata \in Conts /\ dt[task[u].userdata].task = u
      BY <1>5, <1>7 DEF Owned
    <2>3. \A e, g \in Conts : dt[e].task # Top /\ dt[e].task = dt[g].task => e = g
      BY <1>5, <1>7 DEF Owned
    <2>4. \A e \in Conts : dt[e].task # Top => task[dt[e].task].exists /\ ~task[dt[e].task].recycled
      BY <1>5, <1>7 DEF Owned
    <2>5. Waiting(dt, task, taskdepth)
      BY <1>5, <1>7 DEF Waiting
    <2> QED BY <2>1, <2>2, <2>3, <2>4, <2>5 DEF Owned
  <1>9. \A e \in Conts \cup {Top} : Depth(dt, e) = Depth(data, e) /\ Stack(dt, e) = Stack(data, e)
                                    /\ (InChain(dt, e) <=> InChain(data, e))
    BY <1>7 DEF Depth, Stack, InChain
  <1>10. Framed(dt, frames, taskdepth)
    <2>1. ASSUME NEW s \in Tasks \cup {Top}, frames[s] # << >> PROVE Len(frames[s]) = 1 /\ FrameOf(dt, frames[s][1], s)
      <3>1. Len(frames[s]) = 1 /\ FrameOf(data, frames[s][1], s) /\ frames[s] \in Seq(Frame)
        BY <1>5, <2>1 DEF Framed
      <3>2. PICK g \in Frame : g = frames[s][1]
        BY <3>1
      <3>3. g.cont \in Conts /\ g.olddata \in Conts \cup {Top}
        BY DEF Frame
      <3>4. /\ g.dtor => dt[g.cont].finishing /\ dt[g.cont].handles = 1
            /\ ~g.dtor /\ dt[g.cont].finishing => dt[g.cont].handles = 0
        <4>1. CASE g.cont = d
          BY <1>3, <3>1, <3>2, <4>1 DEF FrameOf
        <4>2. CASE g.cont # d
          BY <1>3, <3>1, <3>2, <3>3, <4>2 DEF FrameOf
        <4> QED BY <4>1, <4>2
      <3>5. FrameOf(dt, g, s)
        BY <1>7, <1>9, <3>1, <3>2, <3>3, <3>4 DEF FrameOf
      <3> QED BY <3>1, <3>2, <3>5
    <2>2. \A e \in Conts \cup {Top} : InChain(dt, e) /\ Depth(dt, e) < taskdepth => frames[Stack(dt, e)] # << >>
      BY <1>5, <1>9 DEF Framed
    <2> QED BY <2>1, <2>2 DEF Framed
  <1>11. \A e \in Conts : Counted(dt[e])
    <2>1. Counted(dt[d])
      <3>1. Counted(data[d])
        BY Facts
      <3> QED BY <1>1, <1>3, <3>1 DEF Counted
    <2> QED BY <1>3, <2>1, Facts
  <1>12. /\ InChain(dt, curdata) /\ Depth(dt, curdata) = taskdepth /\ curdata \in Conts /\ curdata # Top
         /\ data[curdata].mydepth = taskdepth /\ dt[curdata].ret \in Values
         /\ task[data[curdata].task].running => ~data[curdata].finishing
    <2>1. /\ InChain(data, curdata) /\ Depth(data, curdata) = taskdepth /\ curdata # Top /\ data[curdata].ret \in Values
          /\ task[data[curdata].task].running => ~data[curdata].finishing
      BY <1>0, <1>5 DEF Control
    <2> QED BY <1>5, <1>7, <1>9, <2>1 DEF Depth
  <1>13. Noted(d)
    <2>1. task' = task
      BY <1>2 DEF SwitchTo, ResumesRun, ResumesFunction, YieldsAtOnce
    <2> QED BY <1>2, <1>3, <2>1 DEF Noted
  <1>14. CASE frames[t] # << >>
    <2>1. cur' = t /\ back' = TRUE /\ task' = task /\ val' = val
      BY <1>2, <1>14 DEF SwitchTo, ResumesRun, ResumesFunction, YieldsAtOnce
    <2>2. data[d].mydepth < taskdepth
      BY <1>6, <1>14, FrameFacts
    <2>3. d # curdata
      BY <1>5, <1>12, <2>2
    <2>4. dt[curdata] = data[curdata]
      BY <1>3, <1>12, <2>3
    <2>5. Control(dt, task, frames, t, TRUE, curdata, taskdepth)
      BY <1>12, <1>14, <2>4 DEF Control
    <2>6. Types'
      BY <1>2, <1>3, <1>6, <2>1, Facts DEF Types
    <2>7. Parts(data', task', free_tasks', frames', cur', back', curdata', taskdepth')
      BY <1>2, <1>5, <1>8, <1>10, <2>1, <2>5 DEF Parts
    <2>8. ContInv'
      BY <1>2, <1>11, <2>6, <2>7, PrimedInv
    <2> QED BY <1>1, <1>13, <2>1, <2>8
  <1>15. CASE frames[t] = << >>
    <2>1. ~(data[d].mydepth < taskdepth)
      BY <1>5, <1>6, <1>15 DEF Framed
    <2>2. data[d].mydepth \in Nat /\ data[d].mydepth <= taskdepth
      BY <1>5, Facts, DataFields DEF Chained
    <2>3. data[d].mydepth = taskdepth
      BY <1>5, <2>1, <2>2
    <2>4. d = curdata
      BY <1>1, <1>5, <1>12, <2>3 DEF Chained
    <2>5. dt[d].finishing /\ task[t].running
      BY <1>2, <1>4, <1>5, <2>3
    <2>6. ~data[d].finishing /\ data[d].handles = 0 /\ dt[d].p1 = Null
      BY <1>3, <1>12, <2>4, <2>5 DEF t
    <2>7. cur' = t /\ back' = FALSE /\ task' = task /\ val' = dt[d].p1
      BY <1>2, <1>15, <2>5 DEF SwitchTo, ResumesRun, ResumesFunction, YieldsAtOnce
    <2>8. Control(dt, task, frames, t, FALSE, curdata, taskdepth)
      BY <1>6, <1>9, <1>12, <2>4, <2>5 DEF Control
    <2>9. Types'
      BY <1>2, <1>3, <1>6, <2>6, <2>7, Facts DEF Types
    <2>10. Parts(data', task', free_tasks', frames', cur', back', curdata', taskdepth')
      BY <1>2, <1>5, <1>8, <1>10, <2>7, <2>8 DEF Parts
    <2>11. ContInv'
      BY <1>2, <1>11, <2>9, <2>10, PrimedInv
    <2> QED BY <1>1, <1>13, <2>4, <2>6, <2>7, <2>11
  <1> QED BY <1>14, <1>15

\* _call() takes the innermost cont off the chain.
LEMMA PopParts ==
    ASSUME ContInv, back, NEW f \in Frame, f = frames[cur][1], data[f.cont].mydepth = taskdepth,
           NEW dt \in [Conts -> DataRec], dt[f.cont].mydepth = 0, dt[f.cont].task = data[f.cont].task,
           \A e \in Conts : e # f.cont => dt[e] = data[e],
           NEW fr, fr = [frames EXCEPT ![cur] = << >>], NEW n, n = taskdepth - 1
    PROVE  n \in Nat /\ Parts(dt, task, free_tasks, fr, cur, FALSE, f.olddata, n)
  <1> DEFINE d == f.cont
             o == f.olddata
  <1>1. d \in Conts /\ o \in Conts \cup {Top} /\ FrameOf(data, f, cur) /\ data[d].mydepth > 0 /\ cur \in Tasks \cup {Top}
    BY LastFrame, Facts
  <1>2. /\ Chained(data, taskdepth) /\ Owned(data, task) /\ Waiting(data, task, taskdepth) /\ Pooled(free_tasks, task)
        /\ Framed(data, frames, taskdepth) /\ data \in [Conts -> DataRec]
        /\ frames \in [Tasks \cup {Top} -> Seq(Frame)] /\ taskdepth \in Nat
    BY Facts
  <1>3. InChain(data, o) /\ Stack(data, o) = cur /\ data[d].mydepth = Depth(data, o) + 1
    BY <1>1 DEF FrameOf
  <1>4. \A e \in Conts : data[e].mydepth \in Nat
    BY <1>2, DataFields
  <1>5. \A e \in Conts \cup {Top} : Depth(data, e) \in Nat
    BY <1>4 DEF Depth
  <1>6. Depth(data, o) = n /\ n \in Nat /\ n < taskdepth /\ taskdepth = n + 1
    BY <1>1, <1>2, <1>3, <1>5
  <1>7. o # d /\ d # Top /\ Depth(data, d) = taskdepth
    BY <1>1, <1>6, TopAssumption DEF Depth
  <1>8. dt[d].mydepth = 0 /\ dt[d].task = data[d].task /\ \A e \in Conts : e # d => dt[e] = data[e]
    OBVIOUS
  <1>9. data[d].mydepth = taskdepth
    OBVIOUS
  <1> HIDE DEF d, o
  <1>10. \A e \in Conts : e # d => data[e].mydepth # taskdepth
    BY <1>1, <1>2, <1>9 DEF Chained
  <1>11. Chained(dt, n)
    <2>1. \A e \in Conts : dt[e].mydepth <= n
      BY <1>2, <1>4, <1>6, <1>8, <1>10 DEF Chained
    <2>2. \A e, g \in Conts : dt[e].mydepth > 0 /\ dt[e].mydepth = dt[g].mydepth => e = g
      BY <1>2, <1>8 DEF Chained
    <2>3. ASSUME NEW i \in 1..n PROVE \E e \in Conts : dt[e].mydepth = i
      <3>1. i \in 1..taskdepth /\ i # taskdepth
        BY <1>2, <1>6
      <3>2. PICK e \in Conts : data[e].mydepth = i
        BY <1>2, <3>1 DEF Chained
      <3>3. e # d
        BY <1>9, <3>1, <3>2
      <3> QED BY <1>8, <3>2, <3>3
    <2> QED BY <2>1, <2>2, <2>3 DEF Chained
  <1>12. \A e \in Conts : dt[e].task = data[e].task
    BY <1>8
  <1>13. Owned(dt, task)
    <2>1. \A t \in Tasks : task[t].running => task[t].userdata \in Conts /\ dt[task[t].userdata].task = t
      BY <1>2, <1>12 DEF Owned
    <2>2. \A e, g \in Conts : dt[e].task # Top /\ dt[e].task = dt[g].task => e = g
      BY <1>2, <1>12 DEF Owned
    <2>3. \A e \in Conts : dt[e].task # Top => task[dt[e].task].exists /\ ~task[dt[e].task].recycled
      BY <1>2, <1>12 DEF Owned
    <2> QED BY <2>1, <2>2, <2>3 DEF Owned
  <1>14. Waiting(dt, task, n)
    <2> SUFFICES ASSUME NEW e \in Conts, dt[e].mydepth > 0, dt[e].mydepth < n PROVE task[dt[e].task].running
      BY DEF Waiting
    <2>1. e # d /\ dt[e] = data[e]
      BY <1>8
    <2>2. data[e].mydepth < taskdepth
      BY <1>2, <1>4, <1>6, <2>1
    <2> QED BY <1>2, <2>1, <2>2 DEF Waiting
  <1>15. \A e \in Conts \cup {Top} : e # d => Depth(dt, e) = Depth(data, e) /\ Stack(dt, e) = Stack(data, e)
                                            /\ (InChain(dt, e) <=> InChain(data, e))
    BY <1>8 DEF Depth, Stack, InChain
  <1>16. ~InChain(dt, d)
    BY <1>7, <1>8 DEF InChain
  <1>17. /\ fr \in [Tasks \cup {Top} -> Seq(Frame)] /\ fr[cur] = << >>
         /\ \A s \in Tasks \cup {Top} : s # cur => fr[s] = frames[s]
    BY <1>1, <1>2
  <1>18. \A e, g \in Conts \cup {Top} :
            InChain(data, e) /\ InChain(data, g) /\ Depth(data, e) = Depth(data, g) => e = g
    BY <1>2, <1>4, TopAssumption DEF InChain, Depth, Chained
  <1>19. Framed(dt, fr, n)
    <2>1. ASSUME NEW s \in Tasks \cup {Top}, fr[s] # << >> PROVE Len(fr[s]) = 1 /\ FrameOf(dt, fr[s][1], s)
      <3>1. s # cur /\ fr[s] = frames[s]
        BY <1>17, <2>1
      <3>2. Len(frames[s]) = 1 /\ FrameOf(data, frames[s][1], s) /\ frames[s] \in Seq(Frame)
        BY <1>2, <2>1, <3>1 DEF Framed
      <3>3. PICK g \in Frame : g = frames[s][1]
        BY <3>2
      <3>4. g.cont \in Conts /\ g.olddata \in Conts \cup {Top}
        BY DEF Frame
      <3>5. InChain(data, g.olddata) /\ Stack(data, g.olddata) = s /\ data[g.cont].mydepth = Depth(data, g.olddata) + 1
        BY <3>2, <3>3 DEF FrameOf
      <3>6. g.cont # d
        <4> SUFFICES ASSUME g.cont = d PROVE FALSE
          OBVIOUS
        <4>1. Depth(data, g.olddata) = Depth(data, o)
          BY <1>1, <1>3, <1>5, <3>4, <3>5
        <4>2. g.olddata = o
          BY <1>1, <1>3, <1>18, <3>4, <3>5, <4>1
        <4> QED BY <1>3, <3>1, <3>5, <4>2
      <3>7. g.olddata # d
        <4> SUFFICES ASSUME g.olddata = d PROVE FALSE
          OBVIOUS
        <4>1. data[g.cont].mydepth = taskdepth + 1 /\ data[g.cont].mydepth <= taskdepth
          BY <1>2, <1>7, <3>4, <3>5 DEF Chained
        <4> QED BY <1>2, <4>1
      <3>8. FrameOf(dt, g, s)
        BY <1>8, <1>15, <3>2, <3>3, <3>4, <3>6, <3>7 DEF FrameOf
      <3> QED BY <3>1, <3>2, <3>3, <3>8
    <2>2. ASSUME NEW e \in Conts \cup {Top}, InChain(dt, e), Depth(dt, e) < n PROVE fr[Stack(dt, e)] # << >>
      <3>1. e # d
        BY <1>16, <2>2
      <3>2. InChain(data, e) /\ Depth(data, e) < n /\ Stack(dt, e) = Stack(data, e)
        BY <1>15, <2>2, <3>1
      <3>3. Depth(data, e) < taskdepth
        BY <1>2, <1>5, <1>6, <3>2
      <3>4. frames[Stack(data, e)] # << >>
        BY <1>2, <3>2, <3>3 DEF Framed
      <3>5. Stack(data, e) \in Tasks \cup {Top}
        BY <1>2, DataFields DEF Stack
      <3>6. Stack(data, e) # cur
        <4> SUFFICES ASSUME Stack(data, e) = cur PROVE FALSE
          OBVIOUS
        <4>1. \A g \in Conts : data[g].mydepth > 0 => data[g].task # Top
          BY Facts DEF Counted
        <4>2. e = o
          BY <1>1, <1>2, <1>3, <3>2, <4>1, StackFacts
        <4> QED BY <1>6, <3>2, <4>2
      <3> QED BY <1>17, <3>2, <3>4, <3>5, <3>6
    <2> QED BY <2>1, <2>2 DEF Framed
  <1>20. Control(dt, task, fr, cur, FALSE, o, n)
    <2>1. InChain(dt, o) /\ Depth(dt, o) = n /\ Stack(dt, o) = cur
      BY <1>1, <1>3, <1>6, <1>7, <1>15
    <2>2. o # Top => task[cur].running
      <3> SUFFICES ASSUME o # Top PROVE task[cur].running
        OBVIOUS
      <3>1. o \in Conts /\ data[o].mydepth = n /\ data[o].mydepth > 0 /\ data[o].task = cur
        BY <1>1, <1>3, <1>6 DEF InChain, Depth, Stack
      <3> QED BY <1>2, <1>6, <3>1 DEF Waiting
    <2> QED BY <2>1, <2>2 DEF Control
  <1> QED BY <1>2, <1>6, <1>11, <1>13, <1>14, <1>19, <1>20 DEF Parts, o

\* A step leaves d: it is freed, having ended, or it stays, for somebody holds it.
Left(d) ==
    /\ taskdepth' = taskdepth - 1 /\ val' \in Values /\ OthersStay(d)
    /\ \/ /\ data'[d] = NoData /\ (data[d].finishing \/ data[d].handles = 0)
          /\ ~task[data[d].task].running
       \/ /\ data'[d].alive /\ ~data'[d].finishing /\ data'[d].mydepth = 0
          /\ data'[d].handles = data[d].handles /\ data'[d].task = data[d].task /\ task' = task
          /\ ~data[d].finishing /\ data[d].handles > 0

\* _call() returns: only the innermost cont's does.
LEMMA CallEndsStep ==
    ASSUME ContInv, call_ends
    PROVE  ContInv' /\ \E d \in Conts : data[d].mydepth = taskdepth /\ data[d].mydepth > 0 /\ Left(d)
  <1>0. back /\ back \in BOOLEAN
    BY Facts DEF call_ends
  <1>1. PICK f \in Frame : f = frames[cur][1] /\ f = LastOf(frames[cur])
    BY <1>0, LastFrame
  <1>2. PICK d \in Conts : d = f.cont
    BY <1>1 DEF Frame
  <1>3. f.olddata \in Conts \cup {Top} /\ f.dtor \in BOOLEAN
    BY DEF Frame
  <1>4. FrameOf(data, f, cur) /\ data[d].mydepth > 0 /\ FrontOf(frames[cur]) = << >>
    BY <1>0, <1>1, <1>2, LastFrame
  <1> DEFINE nt == Noticed(d)
             links == data[d].links - (IF f.dtor THEN 2 ELSE 1)
             handles == IF f.dtor THEN nt[d].handles - 1 ELSE nt[d].handles
             dt == [nt EXCEPT ![d].links = links, ![d].mydepth = 0,
                              ![d].handles = IF f.dtor THEN @ - 1 ELSE @]
             x == [nt[d] EXCEPT !.links = links, !.mydepth = 0, !.handles = handles]
  <1>5. /\ ~MustRunAgain(d)
        /\ IF links = 0 THEN FreeData(d, dt, task, free_tasks)
           ELSE data' = dt /\ UNCHANGED <<task, free_tasks>>
        /\ frames' = [frames EXCEPT ![cur] = FrontOf(@)]
        /\ taskdepth' = taskdepth - 1 /\ curdata' = f.olddata
        /\ val' = data[d].ret /\ back' = FALSE /\ cur' = cur
    BY <1>1, <1>2 DEF call_ends
  <1>6. /\ nt \in [Conts -> DataRec] /\ \A e \in Conts : e # d => nt[e] = data[e]
        /\ nt[d].alive = data[d].alive /\ nt[d].handles = data[d].handles
        /\ nt[d].links = data[d].links /\ nt[d].mydepth = data[d].mydepth
        /\ nt[d].task = data[d].task /\ nt[d].ret = data[d].ret
        /\ nt[d].finishing <=> data[d].finishing \/ data[d].handles = 0
        /\ data[d].links = data[d].handles + 1 /\ data[d].handles \in Nat
    BY <1>4, NoticedFacts
  <1>7. ~(nt[d].finishing /\ task[data[d].task].running) /\ ~(taskdepth > data[d].mydepth)
    BY <1>5 DEF MustRunAgain
  <1> HIDE DEF nt
  <1>8. /\ Chained(data, taskdepth) /\ Control(data, task, frames, cur, back, curdata, taskdepth)
        /\ frames \in [Tasks \cup {Top} -> Seq(Frame)] /\ curdata \in Conts \cup {Top} /\ taskdepth \in Nat
        /\ data[d] \in DataRec /\ task \in [Tasks -> TaskRec] /\ free_tasks \in Seq(Tasks) /\ cur \in Tasks \cup {Top}
    BY Facts
  <1>9. data[d].mydepth = taskdepth
    <2>1. data[d].mydepth \in Nat /\ data[d].mydepth <= taskdepth
      BY <1>8, DataFields DEF Chained
    <2> QED BY <1>7, <1>8, <2>1
  <1>10. data[d].ret \in Values
    <2>1. curdata # Top /\ data[curdata].ret \in Values /\ Depth(data, curdata) = taskdepth
      BY <1>0, <1>8 DEF Control
    <2>2. curdata \in Conts /\ data[curdata].mydepth = data[d].mydepth
      BY <1>8, <1>9, <2>1 DEF Depth
    <2>3. curdata = d
      BY <1>4, <1>8, <2>2 DEF Chained
    <2> QED BY <2>1, <2>3
  <1>11. /\ f.dtor => data[d].finishing /\ data[d].handles = 1
         /\ ~f.dtor /\ data[d].finishing => data[d].handles = 0
    BY <1>2, <1>4 DEF FrameOf
  <1>12. links \in Nat /\ handles \in Nat /\ handles = links
         /\ (links = 0 => nt[d].finishing) /\ (links # 0 => ~nt[d].finishing /\ links = data[d].handles /\ ~f.dtor)
    <2>1. CASE f.dtor
      BY <1>6, <1>11, <2>1
    <2>2. CASE ~f.dtor
      BY <1>6, <1>11, <2>2
    <2> QED BY <2>1, <2>2
  <1>13. dt = [nt EXCEPT ![d] = x]
    BY <1>6
  <1> HIDE DEF links, handles
  <1>14. /\ x \in DataRec /\ x.links = links /\ x.handles = handles /\ x.mydepth = 0
         /\ x.alive = nt[d].alive /\ x.task = nt[d].task /\ x.finishing = nt[d].finishing
    <2>1. nt[d] \in DataRec /\ 0 \in Nat
      BY <1>6
    <2> QED BY <1>12, <2>1 DEF DataRec
  <1> HIDE DEF x, dt
  <1>15. PICK dx : dx = dt
    OBVIOUS
  <1>16. dx \in [Conts -> DataRec] /\ dx[d] = x /\ \A e \in Conts : e # d => dx[e] = data[e]
    BY <1>6, <1>13, <1>14, <1>15
  <1>17. dx[d].mydepth = 0 /\ dx[d].task = data[d].task
    BY <1>6, <1>14, <1>16
  <1>18. PICK fr : fr = [frames EXCEPT ![cur] = << >>]
    OBVIOUS
  <1>19. frames' = fr /\ fr \in [Tasks \cup {Top} -> Seq(Frame)]
    <2>1. << >> \in Seq(Frame)
      OBVIOUS
    <2> QED BY <1>4, <1>5, <1>8, <1>18, <2>1
  <1>20. PICK n : n = taskdepth - 1
    OBVIOUS
  <1>21. n \in Nat /\ Parts(dx, task, free_tasks, fr, cur, FALSE, f.olddata, n)
    <2>1. data[f.cont].mydepth = taskdepth /\ dx[f.cont].mydepth = 0 /\ dx[f.cont].task = data[f.cont].task
          /\ \A e \in Conts : e # f.cont => dx[e] = data[e]
      BY <1>2, <1>9, <1>16, <1>17
    <2> QED BY <1>0, <1>1, <1>16, <1>18, <1>20, <2>1, PopParts
  <1>22. CASE links = 0
    <2>1. FreeData(d, dx, task, free_tasks)
      BY <1>5, <1>15, <1>22
    <2>2. nt[d].finishing /\ ~task[data[d].task].running
      BY <1>7, <1>12, <1>22
    <2>3. \A e \in Conts : e # d => Counted(dx[e])
      BY <1>16, Facts
    <2>4. /\ data' \in [Conts -> DataRec] /\ task' \in [Tasks -> TaskRec] /\ free_tasks' \in Seq(Tasks)
          /\ data'[d] = NoData /\ \A e \in Conts : Counted(data'[e])
          /\ \A e \in Conts : e # d =>
                /\ data'[e] = dx[e]
                /\ dx[e].task # Top => (task'[dx[e].task].running <=> task[dx[e].task].running)
          /\ Parts(data', task', free_tasks', fr, cur, FALSE, f.olddata, n)
      <3>1. PICK o \in Conts \cup {Top} : o = f.olddata
        BY <1>3
      <3>2. Parts(dx, task, free_tasks, fr, cur, FALSE, o, n)
        BY <1>21, <3>1
      <3>3. dx[d].mydepth = 0 /\ (dx[d].task # Top => ~task[dx[d].task].running)
        BY <1>17, <2>2
      <3>4. /\ dx \in [Conts -> DataRec] /\ task \in [Tasks -> TaskRec] /\ free_tasks \in Seq(Tasks)
            /\ fr \in [Tasks \cup {Top} -> Seq(Frame)] /\ cur \in Tasks \cup {Top} /\ n \in Nat
        BY <1>8, <1>16, <1>19, <1>21
      <3>5. /\ data' \in [Conts -> DataRec] /\ task' \in [Tasks -> TaskRec] /\ free_tasks' \in Seq(Tasks)
            /\ data'[d] = NoData /\ \A e \in Conts : Counted(data'[e])
            /\ \A e \in Conts : e # d =>
                  /\ data'[e] = dx[e]
                  /\ dx[e].task # Top => (task'[dx[e].task].running <=> task[dx[e].task].running)
            /\ Parts(data', task', free_tasks', fr, cur, FALSE, o, n)
        BY <2>1, <2>3, <3>2, <3>3, <3>4, FreeStep
      <3> QED BY <3>1, <3>5
    <2>5. Types'
      BY <1>3, <1>5, <1>8, <1>10, <1>19, <1>20, <1>21, <2>4 DEF Types
    <2>6. Parts(data', task', free_tasks', frames', cur', back', curdata', taskdepth')
      BY <1>5, <1>19, <1>20, <2>4
    <2>7. ContInv'
      BY <2>4, <2>5, <2>6, PrimedInv
    <2>8. OthersStay(d)
      BY <1>16, <2>4 DEF OthersStay
    <2>9. Left(d)
      BY <1>5, <1>6, <1>10, <2>2, <2>4, <2>8 DEF Left
    <2> QED BY <1>4, <1>9, <2>7, <2>9
  <1>23. CASE links # 0
    <2>1. data' = dx /\ task' = task /\ free_tasks' = free_tasks
      BY <1>5, <1>15, <1>23
    <2>2. ~nt[d].finishing /\ links = data[d].handles /\ links \in Nat /\ links > 0 /\ handles = links
      BY <1>12, <1>23
    <2>3. data[d].alive
      BY <1>4, UsableFacts
    <2>4. Counted(x)
      BY <1>6, <1>14, <2>2, <2>3 DEF Counted
    <2>5. \A e \in Conts : Counted(data'[e])
      BY <1>16, <2>1, <2>4, Facts
    <2>6. Types'
      BY <1>3, <1>5, <1>8, <1>10, <1>16, <1>19, <1>20, <1>21, <2>1 DEF Types
    <2>7. Parts(data', task', free_tasks', frames', cur', back', curdata', taskdepth')
      BY <1>5, <1>19, <1>20, <1>21, <2>1
    <2>8. ContInv'
      BY <2>5, <2>6, <2>7, PrimedInv
    <2>9. OthersStay(d)
      BY <1>16, <2>1 DEF OthersStay
    <2>10. /\ data'[d].alive /\ ~data'[d].finishing /\ data'[d].mydepth = 0
           /\ data'[d].handles = data[d].handles /\ data'[d].task = data[d].task
           /\ ~data[d].finishing /\ data[d].handles > 0
      BY <1>6, <1>14, <1>16, <2>1, <2>2, <2>3
    <2>11. Left(d)
      BY <1>5, <1>10, <2>1, <2>9, <2>10 DEF Left
    <2> QED BY <1>4, <1>9, <2>8, <2>11
  <1> QED BY <1>22, <1>23

\* The invariant holds at the start.
LEMMA InitSound == Init => ContInv
  <1> SUFFICES ASSUME Init PROVE ContInv
    OBVIOUS
  <1>1. /\ data = [d \in Conts |-> NoData] /\ task = [t \in Tasks |-> NoTask]
        /\ free_tasks = << >> /\ frames = [s \in Tasks \cup {Top} |-> << >>]
        /\ cur = Top /\ back = FALSE /\ curdata = Top /\ taskdepth = 0 /\ val = Null
    BY DEF Init
  <1>2. NoData \in DataRec /\ Counted(NoData) /\ NoData.mydepth = 0 /\ NoData.task = Top
    BY NoDataFacts
  <1>3. NoTask \in TaskRec /\ ~NoTask.running
    BY DEF NoTask, TaskRec
  <1>4. \A d \in Conts : data[d] = NoData
    BY <1>1
  <1>5. \A t \in Tasks : task[t] = NoTask
    BY <1>1
  <1>6. \A s \in Tasks \cup {Top} : frames[s] = << >>
    BY <1>1
  <1>7. Types
    <2>1. << >> \in Seq(Tasks) /\ << >> \in Seq(Frame) /\ 0 \in Nat
      OBVIOUS
    <2>2. frames \in [Tasks \cup {Top} -> Seq(Frame)]
      BY <1>1, <2>1
    <2> QED BY <1>1, <1>2, <1>3, <2>1, <2>2 DEF Types
  <1>8. Chained(data, taskdepth)
    BY <1>1, <1>2, <1>4 DEF Chained
  <1>9. Owned(data, task)
    BY <1>2, <1>3, <1>4, <1>5 DEF Owned
  <1>10. Waiting(data, task, taskdepth)
    BY <1>2, <1>4 DEF Waiting
  <1>11. Pooled(free_tasks, task)
    <2>1. Len(free_tasks) = 0
      BY <1>1
    <2> QED BY <2>1 DEF Pooled
  <1>12. Framed(data, frames, taskdepth)
    <2>1. ASSUME NEW e \in Conts \cup {Top}, InChain(data, e), Depth(data, e) < taskdepth PROVE FALSE
      BY <1>1, <1>2, <1>4, <2>1 DEF InChain, Depth
    <2> QED BY <1>6, <2>1 DEF Framed
  <1>13. Control(data, task, frames, cur, back, curdata, taskdepth)
    BY <1>1 DEF Control, InChain, Depth, Stack
  <1> QED BY <1>2, <1>4, <1>7, <1>8, <1>9, <1>10, <1>11, <1>12, <1>13 DEF ContInv, Parts

\* The three cases of ~WvCont().
LEMMA DropCases ==
    ASSUME ContInv, NEW d \in Conts, Drop(d)
    PROVE  /\ ContInv' /\ Usable(d)
           /\ \/ /\ data[d].links > 1
                 /\ data' = [data EXCEPT ![d].handles = @ - 1, ![d].links = @ - 1]
                 /\ UNCHANGED <<task, free_tasks, frames, cur, back, curdata, taskdepth, val>>
              \/ data[d].links = 1 /\ data[d].task # Top /\ task[data[d].task].running /\ Entered(d, Null, TRUE)
              \/ /\ data[d].links = 1 /\ ~(data[d].task # Top /\ task[data[d].task].running)
                 /\ Freed(d) /\ taskdepth' = taskdepth /\ val' = val
  <1>1. ~back /\ Usable(d)
    BY DEF Drop, UserCode
  <1>2. CASE /\ data[d].links > 1
             /\ data' = [data EXCEPT ![d].handles = @ - 1, ![d].links = @ - 1]
             /\ UNCHANGED <<task, free_tasks, frames, cur, back, curdata, taskdepth, val>>
    <2>1. ContInv'
      BY <1>1, <1>2, DropOneStep
    <2> QED BY <1>1, <1>2, <2>1
  <1>3. CASE /\ data[d].links = 1 /\ data[d].task # Top /\ task[data[d].task].running
             /\ BeginCall(d, [data EXCEPT ![d].finishing = TRUE, ![d].p1 = Null], task, TRUE) /\ UNCHANGED free_tasks
    <2>1. ContInv' /\ Entered(d, Null, TRUE)
      BY <1>1, <1>3, DropEnters
    <2> QED BY <1>1, <1>3, <2>1
  <1>4. CASE /\ data[d].links = 1 /\ ~(data[d].task # Top /\ task[data[d].task].running)
             /\ FreeData(d, [data EXCEPT ![d].finishing = TRUE, ![d].p1 = Null], task, free_tasks)
             /\ UNCHANGED <<frames, cur, back, curdata, taskdepth, val>>
    <2>1. ContInv' /\ Freed(d)
      BY <1>1, <1>4, DropFrees
    <2> QED BY <1>1, <1>4, <2>1
  <1> QED BY <1>2, <1>3, <1>4 DEF Drop

\* Every step preserves the invariant.
LEMMA NextSound == ContInv /\ [Next]_vars => ContInv'
  <1> SUFFICES ASSUME ContInv, [Next]_vars PROVE ContInv'
    OBVIOUS
  <1>1. CASE UNCHANGED vars
    <2>1. UNCHANGED <<data, task, free_tasks, frames, cur, back, curdata, taskdepth, val>>
      BY <1>1 DEF vars
    <2>2. Types'
      BY <2>1, Facts DEF Types
    <2>3. \A d \in Conts : Counted(data'[d])
      BY <2>1, Facts
    <2>4. Parts(data', task', free_tasks', frames', cur', back', curdata', taskdepth')
      BY <2>1 DEF ContInv
    <2> QED BY <2>2, <2>3, <2>4, PrimedInv
  <1>2. ASSUME NEW d \in Conts, New(d) PROVE ContInv'
    BY <1>2, NewStep
  <1>3. ASSUME NEW d \in Conts, Copy(d) PROVE ContInv'
    BY <1>3, CopyStep
  <1>4. ASSUME NEW d \in Conts, Drop(d) PROVE ContInv'
    BY <1>4, DropCases
  <1>5. ASSUME NEW d \in Conts, NEW p \in Values, Call(d, p) PROVE ContInv'
    BY <1>5, CallStep
  <1>6. ASSUME NEW r \in Values, yield(r) PROVE ContInv'
    BY <1>6, YieldStep
  <1>7. ASSUME NEW r \in Values, Return(r) PROVE ContInv'
    BY <1>7, ReturnStep
  <1>8. CASE current
    BY <1>8, CurrentStep
  <1>9. CASE run_again
    BY <1>9, RunAgainStep
  <1>10. CASE call_ends
    BY <1>10, CallEndsStep
  <1> QED BY <1>1, <1>2, <1>3, <1>4, <1>5, <1>6, <1>7, <1>8, <1>9, <1>10 DEF Next

\* For any conts, tasks and bounds, in every state: a cont that has been called and not left is
\* on its own stack, at its own depth, under the one activation of _call() that called it.
THEOREM ContInvariant == Spec => []ContInv
  <1>1. Init => ContInv
    BY InitSound
  <1>2. ContInv /\ [Next]_vars => ContInv'
    BY NextSound
  <1> QED BY <1>1, <1>2, PTL DEF Spec

\* The chain is no longer than there are conts.
LEMMA DepthBounded ==
    ASSUME ContInv
    PROVE  taskdepth \in 0..Cardinality(Conts) /\ Cardinality(Conts) \in Nat
  <1>1. Chained(data, taskdepth) /\ taskdepth \in Nat /\ IsFiniteSet(Conts)
    BY Facts, BoundAssumption
  <1> DEFINE S == {d \in Conts : data[d].mydepth > 0}
             f == [d \in S |-> data[d].mydepth]
  <1>2. IsFiniteSet(S) /\ Cardinality(S) <= Cardinality(Conts)
    BY <1>1, FS_Subset
  <1>3. f \in Surjection(S, 1..taskdepth)
    <2>1. f \in [S -> 1..taskdepth]
      <3>1. \A d \in S : data[d].mydepth \in 1..taskdepth
        BY <1>1, Facts, DataFields DEF Chained
      <3> QED BY <3>1
    <2>2. ASSUME NEW i \in 1..taskdepth PROVE \E d \in S : f[d] = i
      <3>1. PICK d \in Conts : data[d].mydepth = i
        BY <1>1 DEF Chained
      <3>2. d \in S
        BY <3>1
      <3> QED BY <3>1, <3>2
    <2> HIDE DEF f, S
    <2> QED BY <2>1, <2>2 DEF Surjection
  <1> HIDE DEF f, S
  <1>4. Cardinality(1..taskdepth) <= Cardinality(S)
    BY <1>2, <1>3, FS_Surjection
  <1>5. Cardinality(1..taskdepth) = taskdepth
    BY <1>1, FS_Interval
  <1>6. Cardinality(S) \in Nat /\ Cardinality(Conts) \in Nat
    BY <1>1, <1>2, FS_CardinalityType
  <1> QED BY <1>1, <1>2, <1>4, <1>5, <1>6

\* Every activation is the only one of its stack, and is of a cont in the chain.
LEMMA OneFrame ==
    ASSUME ContInv, NEW s \in Tasks \cup {Top}, NEW i, i \in 1..Len(frames[s])
    PROVE  /\ i = 1 /\ Len(frames[s]) = 1 /\ frames[s][1] \in Frame /\ frames[s][1].cont \in Conts
           /\ frames[s][1].olddata \in Conts \cup {Top} /\ FrameOf(data, frames[s][1], s)
           /\ data[frames[s][1].cont].mydepth > 0
  <1>1. frames[s] \in Seq(Frame) /\ frames[s] # << >>
    BY Facts
  <1>2. Len(frames[s]) = 1 /\ FrameOf(data, frames[s][1], s)
    BY <1>1, Facts DEF Framed
  <1>3. i = 1 /\ frames[s][1] \in Frame
    BY <1>1, <1>2
  <1>4. frames[s][1].cont \in Conts /\ frames[s][1].olddata \in Conts \cup {Top}
    BY <1>3 DEF Frame
  <1>5. Depth(data, frames[s][1].olddata) \in Nat
    BY <1>4, Facts, DataFields DEF Depth
  <1> QED BY <1>2, <1>3, <1>4, <1>5 DEF FrameOf

\* Nobody shares a depth,
LEMMA SameDepth ==
    ASSUME ContInv, NEW e \in Conts \cup {Top}, NEW g \in Conts \cup {Top},
           InChain(data, e), InChain(data, g), Depth(data, e) = Depth(data, g)
    PROVE  e = g
  <1>1. Chained(data, taskdepth) /\ \A d \in Conts : data[d].mydepth \in Nat
    BY Facts, DataFields
  <1> QED BY <1>1, TopAssumption DEF InChain, Depth, Chained

\* and every cont in the chain has a caller one level up.
LEMMA CallerExists ==
    ASSUME ContInv, NEW d \in Conts, data[d].mydepth > 0
    PROVE  \E o \in Conts \cup {Top} : InChain(data, o) /\ Depth(data, o) + 1 = data[d].mydepth /\ Depth(data, o) < taskdepth
                                       /\ Depth(data, o) \in Nat
  <1>1. /\ Chained(data, taskdepth) /\ taskdepth \in Nat /\ data[d].mydepth \in Nat /\ data[d].mydepth <= taskdepth
    BY Facts, DataFields DEF Chained
  <1>2. CASE data[d].mydepth = 1
    <2>1. InChain(data, Top) /\ Depth(data, Top) = 0
      BY DEF InChain, Depth
    <2> QED BY <1>1, <1>2, <2>1
  <1>3. CASE data[d].mydepth # 1
    <2>1. data[d].mydepth - 1 \in 1..taskdepth
      BY <1>1, <1>3
    <2>2. PICK e \in Conts : data[e].mydepth = data[d].mydepth - 1
      BY <1>1, <2>1 DEF Chained
    <2>3. InChain(data, e) /\ Depth(data, e) = data[e].mydepth
      BY <1>1, <1>3, <2>2, TopAssumption DEF InChain, Depth
    <2> QED BY <1>1, <1>3, <2>2, <2>3
  <1> QED BY <1>2, <1>3

\* A cont that is not in the chain has no activation of _call(),
LEMMA NoActivation ==
    ASSUME ContInv, NEW d \in Conts, data[d].mydepth = 0
    PROVE  Cardinality(Activations(d)) = 0
  <1>1. ASSUME NEW a \in Activations(d) PROVE FALSE
    <2>1. /\ a[1] \in Tasks \cup {Top} /\ a[2] \in 1..Cardinality(Conts)
          /\ a[2] <= Len(frames[a[1]]) /\ frames[a[1]][a[2]].cont = d
      BY DEF Activations
    <2>2. Len(frames[a[1]]) \in Nat /\ Cardinality(Conts) \in Nat
      BY <2>1, Facts, DepthBounded
    <2>3. a[2] \in 1..Len(frames[a[1]])
      BY <2>1, <2>2
    <2>4. a[2] = 1 /\ data[frames[a[1]][1].cont].mydepth > 0
      BY <2>1, <2>3, OneFrame
    <2> QED BY <2>1, <2>4
  <1>2. Activations(d) = {}
    BY <1>1
  <1> QED BY <1>2, FS_EmptySet

\* and one that is has exactly one: that on its caller's stack.
LEMMA OneActivation ==
    ASSUME ContInv, NEW d \in Conts, data[d].mydepth > 0
    PROVE  Cardinality(Activations(d)) = 1
  <1>1. PICK o \in Conts \cup {Top} :
            InChain(data, o) /\ Depth(data, o) + 1 = data[d].mydepth /\ Depth(data, o) < taskdepth
            /\ Depth(data, o) \in Nat
    BY CallerExists
  <1>2. PICK s : s = Stack(data, o)
    OBVIOUS
  <1>3. frames[s] # << >>
    BY <1>1, <1>2, Facts DEF Framed
  <1>4. /\ s \in Tasks \cup {Top} /\ frames[s][1] \in Frame /\ Len(frames[s]) = 1
        /\ FrameOf(data, frames[s][1], s) /\ frames[s][1].olddata = o
    BY <1>1, <1>2, <1>3, FrameFacts
  <1>5. frames[s][1].cont = d
    <2>1. frames[s][1].cont \in Conts
      BY <1>4 DEF Frame
    <2>2. data[frames[s][1].cont].mydepth = data[d].mydepth
      BY <1>1, <1>4 DEF FrameOf
    <2> QED BY <2>1, <2>2, Facts DEF Chained
  <1>6. taskdepth \in Nat /\ Cardinality(Conts) \in Nat /\ 1 \in 1..Cardinality(Conts)
    BY <1>1, Facts, DepthBounded
  <1>7. ASSUME NEW a \in Activations(d) PROVE a = <<s, 1>>
    <2>1. /\ a \in (Tasks \cup {Top}) \X (1..Cardinality(Conts))
          /\ a[1] \in Tasks \cup {Top} /\ a[2] \in 1..Cardinality(Conts)
          /\ a[2] <= Len(frames[a[1]]) /\ frames[a[1]][a[2]].cont = d
      BY DEF Activations
    <2>2. Len(frames[a[1]]) \in Nat
      BY <2>1, Facts
    <2>3. a[2] \in 1..Len(frames[a[1]])
      BY <1>6, <2>1, <2>2
    <2>4. a[2] = 1 /\ frames[a[1]][1].olddata \in Conts \cup {Top} /\ FrameOf(data, frames[a[1]][1], a[1])
      BY <2>1, <2>3, OneFrame
    <2>5. /\ InChain(data, frames[a[1]][1].olddata) /\ Stack(data, frames[a[1]][1].olddata) = a[1]
          /\ data[d].mydepth = Depth(data, frames[a[1]][1].olddata) + 1
      BY <2>1, <2>4 DEF FrameOf
    <2>6. Depth(data, frames[a[1]][1].olddata) \in Nat
      BY <2>4, Facts, DataFields DEF Depth
    <2>7. frames[a[1]][1].olddata = o
      BY <1>1, <2>4, <2>5, <2>6, SameDepth
    <2>8. a[1] = s
      BY <1>2, <2>5, <2>7
    <2> QED BY <2>1, <2>4, <2>8
  <1>8. <<s, 1>> \in Activations(d)
    <2>1. <<s, 1>>[1] = s /\ <<s, 1>>[2] = 1 /\ <<s, 1>> \in (Tasks \cup {Top}) \X (1..Cardinality(Conts))
      BY <1>4, <1>6
    <2> QED BY <1>4, <1>5, <2>1 DEF Activations
  <1>9. Activations(d) = {<<s, 1>>}
    BY <1>7, <1>8
  <1> QED BY <1>9, FS_Singleton

\* The invariant implies the reference counts and the assertions of the code.
LEMMA InvConsistent == ContInv => ContsConsistent
  <1> SUFFICES ASSUME ContInv PROVE ContsConsistent
    OBVIOUS
  <1>1. TypeOK
    <2>1. ASSUME NEW d \in Conts
          PROVE  /\ data[d].links = data[d].handles + Cardinality(Activations(d))
                 /\ data[d].alive <=> data[d].links > 0
      <3>1. Counted(data[d]) /\ data[d].mydepth \in Nat /\ data[d].handles \in Nat
        BY Facts, DataFields
      <3>2. CASE data[d].mydepth = 0
        <4>1. Cardinality(Activations(d)) = 0
          BY <3>2, NoActivation
        <4> QED BY <3>1, <3>2, <4>1 DEF Counted
      <3>3. CASE data[d].mydepth > 0
        <4>1. Cardinality(Activations(d)) = 1
          BY <3>3, OneActivation
        <4> QED BY <3>1, <3>3, <4>1 DEF Counted
      <3> QED BY <3>1, <3>2, <3>3
    <2>2. cur \in Tasks \cup {Top} /\ curdata \in Conts \cup {Top} /\ val \in Values \cup {Null}
      BY Facts
    <2> QED BY <2>1, <2>2, DepthBounded DEF TypeOK
  <1>2. UserCode /\ cur # Top => curdata # Top /\ data[curdata].task = cur
    BY RunningCur, TopAssumption DEF UserCode
  <1>3. back => frames[cur] # << >>
    BY LastFrame
  <1>4. cur # Top => frames[Top] # << >>
    <2> SUFFICES ASSUME cur # Top PROVE frames[Top] # << >>
      OBVIOUS
    <2>1. curdata # Top
      BY RunningCur, TopAssumption, Facts DEF Control
    <2>2. taskdepth > 0
      BY <2>1, NoFrame DEF InChain, Depth
    <2>3. InChain(data, Top) /\ Depth(data, Top) = 0 /\ Stack(data, Top) = Top
      BY DEF InChain, Depth, Stack
    <2> QED BY <2>2, <2>3, Facts DEF Framed
  <1>5. ASSUME NEW s \in Tasks \cup {Top}, NEW i \in 1..Len(frames[s])
        PROVE  LET d == frames[s][i].cont
               IN  data[d].alive /\ data[d].mydepth > 0 /\ ~task[data[d].task].recycled
    <2>1. i = 1 /\ frames[s][1].cont \in Conts /\ data[frames[s][1].cont].mydepth > 0
      BY <1>5, OneFrame
    <2>2. PICK d \in Conts : d = frames[s][1].cont
      BY <2>1
    <2>3. data[d].alive /\ data[d].task # Top
      BY <2>1, <2>2, UsableFacts, Facts DEF Counted
    <2>4. ~task[data[d].task].recycled
      BY <2>3, Facts DEF Owned
    <2> QED BY <2>1, <2>2, <2>3, <2>4
  <1>6. ASSUME back PROVE MustRunAgain(LastOf(frames[cur]).cont) \/ taskdepth = data[LastOf(frames[cur]).cont].mydepth
    <2>1. PICK d \in Conts : d = LastOf(frames[cur]).cont
      BY <1>6, LastFrame
    <2>2. data[d].mydepth \in Nat /\ taskdepth \in Nat /\ data[d].mydepth <= taskdepth
      BY Facts, DataFields DEF Chained
    <2> QED BY <2>1, <2>2 DEF MustRunAgain
  <1>7. \A i \in 1..Len(free_tasks) : ~task[free_tasks[i]].running
    BY Facts DEF Pooled
  <1>8. NoAssertionFails
    BY <1>2, <1>3, <1>4, <1>5, <1>6, <1>7 DEF NoAssertionFails
  <1> QED BY <1>1, <1>8 DEF ContsConsistent

\* No assertion of wvcont.cc or wvtask.cc fails and no reference count of a WvCont::Data is
\* wrong, however calls, yields, returns and destructors are nested.
THEOREM ContsAreConsistent == Spec => []ContsConsistent
  BY ContInvariant, InvConsistent, PTL

\* The invariant implies that suspended tasks have one owner.
LEMMA InvOwned == ContInv => SuspendedTasksAreOwned
  <1> SUFFICES ASSUME ContInv, NEW t \in Tasks, task[t].running, NEW d \in Conts
               PROVE  data[d].task = t <=> d = task[t].userdata
    BY DEF SuspendedTasksAreOwned
  <1>1. task[t].userdata \in Conts /\ data[task[t].userdata].task = t /\ t # Top
    BY Facts, TopAssumption DEF Owned
  <1> QED BY <1>1, Facts DEF Owned

\* A function that has been left in the middle keeps its stack: WvTaskMan::start() never gives
\* its task to another cont, and no destructor recycles it before it has ended.
THEOREM TasksAreOwned == Spec => []SuspendedTasksAreOwned
  BY ContInvariant, InvOwned, PTL

-----------------------------------------------------------------------------

\* The refinement mapping Chain, for a given state.
ChainOf(dt, n) == [i \in 1..n |-> CHOOSE d \in Conts : dt[d].mydepth = i]

\* It lists the conts of the chain by depth,
LEMMA ChainFacts ==
    ASSUME NEW dt, NEW n \in Nat, Chained(dt, n)
    PROVE  /\ ChainOf(dt, n) \in Seq(Conts) /\ Len(ChainOf(dt, n)) = n
           /\ \A i \in 1..n : ChainOf(dt, n)[i] \in Conts /\ dt[ChainOf(dt, n)[i]].mydepth = i
  <1> DEFINE c == ChainOf(dt, n)
  <1>1. ASSUME NEW i \in 1..n PROVE c[i] \in Conts /\ dt[c[i]].mydepth = i
    <2>1. c[i] = CHOOSE d \in Conts : dt[d].mydepth = i
      BY DEF ChainOf
    <2>2. \E d \in Conts : dt[d].mydepth = i
      BY DEF Chained
    <2> HIDE DEF c
    <2> QED BY <2>1, <2>2
  <1>2. c = [i \in 1..n |-> c[i]]
    BY DEF ChainOf
  <1> HIDE DEF c
  <1>3. c \in [1..n -> Conts]
    BY <1>1, <1>2
  <1>4. c \in Seq(Conts) /\ Len(c) = n
    BY <1>3
  <1> QED BY <1>1, <1>4 DEF c

\* does not change with anything but the depths,
LEMMA ChainSame ==
    ASSUME NEW dt, NEW dn, NEW n \in Nat, Chained(dt, n), Chained(dn, n),
           \A d \in Conts : dn[d].mydepth = dt[d].mydepth
    PROVE  ChainOf(dn, n) = ChainOf(dt, n)
  <1>1. /\ ChainOf(dt, n) \in Seq(Conts) /\ Len(ChainOf(dt, n)) = n
        /\ \A i \in 1..n : ChainOf(dt, n)[i] \in Conts /\ dt[ChainOf(dt, n)[i]].mydepth = i
    BY ChainFacts
  <1>2. /\ ChainOf(dn, n) \in Seq(Conts) /\ Len(ChainOf(dn, n)) = n
        /\ \A i \in 1..n : ChainOf(dn, n)[i] \in Conts /\ dn[ChainOf(dn, n)[i]].mydepth = i
    BY ChainFacts
  <1>3. \A i \in 1..n : ChainOf(dn, n)[i] = ChainOf(dt, n)[i]
    BY <1>1, <1>2 DEF Chained
  <1> QED BY <1>1, <1>2, <1>3, SeqEqual

\* grows at its end by a call,
LEMMA ChainPush ==
    ASSUME NEW dt, NEW dn, NEW n \in Nat, NEW d \in Conts, Chained(dt, n), Chained(dn, n + 1),
           dn[d].mydepth = n + 1, dt[d].mydepth = 0, \A e \in Conts : e # d => dn[e] = dt[e]
    PROVE  ChainOf(dn, n + 1) = Append(ChainOf(dt, n), d)
  <1> DEFINE a == ChainOf(dt, n)
             m == n + 1
             b == ChainOf(dn, m)
             c == Append(a, d)
  <1>1. m \in Nat /\ m = n + 1
    OBVIOUS
  <1>2. a \in Seq(Conts) /\ Len(a) = n /\ \A i \in 1..n : a[i] \in Conts /\ dt[a[i]].mydepth = i
    BY ChainFacts
  <1>3. Chained(dn, m)
    OBVIOUS
  <1> HIDE DEF a, m
  <1>4. b \in Seq(Conts) /\ Len(b) = m /\ \A i \in 1..m : b[i] \in Conts /\ dn[b[i]].mydepth = i
    BY <1>1, <1>3, ChainFacts
  <1>5. c \in Seq(Conts) /\ Len(c) = m /\ c[m] = d /\ \A i \in 1..n : c[i] = a[i]
    BY <1>1, <1>2, AppendProperties
  <1> HIDE DEF b, c
  <1>6. ASSUME NEW i \in 1..m PROVE b[i] = c[i]
    <2>1. CASE i = m
      BY <1>1, <1>3, <1>4, <1>5, <2>1 DEF Chained
    <2>2. CASE i # m
      <3>1. i \in 1..n /\ i > 0
        BY <1>1, <2>2
      <3>2. c[i] \in Conts /\ dt[c[i]].mydepth = i
        BY <1>2, <1>5, <3>1
      <3>3. c[i] # d
        BY <3>1, <3>2
      <3>4. dn[c[i]].mydepth = i /\ dn[b[i]].mydepth = i /\ b[i] \in Conts
        BY <1>4, <3>2, <3>3
      <3> QED BY <1>3, <3>1, <3>2, <3>4 DEF Chained
    <2> QED BY <2>1, <2>2
  <1> QED BY <1>4, <1>5, <1>6, SeqEqual DEF a, m, b, c

\* and loses its last when that is left.
LEMMA ChainPop ==
    ASSUME NEW dt, NEW dn, NEW n \in Nat, NEW m \in Nat, m = n - 1, NEW d \in Conts, Chained(dt, n), Chained(dn, m),
           dt[d].mydepth = n, dn[d].mydepth = 0, \A e \in Conts : e # d => dn[e] = dt[e]
    PROVE  /\ ChainOf(dn, m) = SubSeq(ChainOf(dt, n), 1, m)
           /\ ChainOf(dt, n)[n] = d
  <1> DEFINE a == ChainOf(dt, n)
             b == ChainOf(dn, m)
             c == SubSeq(a, 1, m)
  <1>1. n = m + 1 /\ n > 0
    OBVIOUS
  <1>2. a \in Seq(Conts) /\ Len(a) = n /\ \A i \in 1..n : a[i] \in Conts /\ dt[a[i]].mydepth = i
    BY ChainFacts
  <1>3. b \in Seq(Conts) /\ Len(b) = m /\ \A i \in 1..m : b[i] \in Conts /\ dn[b[i]].mydepth = i
    BY ChainFacts
  <1> HIDE DEF a, b
  <1>4. c \in Seq(Conts) /\ Len(c) = m /\ \A i \in 1..m : c[i] = a[i]
    BY <1>1, <1>2, SubSeqProperties
  <1> HIDE DEF c
  <1>5. a[n] = d
    BY <1>1, <1>2 DEF Chained
  <1>6. ASSUME NEW i \in 1..m PROVE b[i] = c[i]
    <2>1. b[i] \in Conts /\ dn[b[i]].mydepth = i /\ i > 0 /\ i \in 1..n
      BY <1>1, <1>3
    <2>2. b[i] # d
      BY <2>1
    <2>3. dt[b[i]].mydepth = i /\ dt[a[i]].mydepth = i /\ a[i] \in Conts
      BY <1>2, <2>1, <2>2
    <2> QED BY <1>4, <2>1, <2>3 DEF Chained
  <1>7. b = c
    BY <1>3, <1>4, <1>6, SeqEqual
  <1> QED BY <1>5, <1>7 DEF a, b, c

\* The refinement mapping State, for a given cont and whether its task runs.
StateIn(x, r) ==
    IF ~x.alive THEN "none"
    ELSE IF x.mydepth > 0 THEN "active"
    ELSE IF x.task # Top /\ r THEN "paused" ELSE "idle"

\* State is StateIn of each cont, before and after a step.
LEMMA StateAt ==
    /\ State = [d \in Conts |-> StateIn(data[d], task[data[d].task].running)]
    /\ State' = [d \in Conts |-> StateIn(data'[d], task'[data'[d].task].running)]
  BY DEF State, StateIn

\* A step that leaves all conts but d alone changes the mapping at d only.
LEMMA MapChange ==
    ASSUME NEW d \in Conts, OthersStay(d)
    PROVE  /\ State' = [State EXCEPT ![d] = StateIn(data'[d], task'[data'[d].task].running)]
           /\ Held' = [Held EXCEPT ![d] = data'[d].handles]
           /\ Held[d] = data[d].handles
           /\ State[d] = StateIn(data[d], task[data[d].task].running)
           /\ data'[d].finishing => Dying' = Dying \cup {d}
           /\ ~data'[d].finishing => Dying' = Dying \ {d}
           /\ d \in Dying <=> data[d].finishing
  <1>1. ASSUME NEW e \in Conts, e # d
        PROVE  StateIn(data'[e], task'[data'[e].task].running) = StateIn(data[e], task[data[e].task].running)
    BY <1>1 DEF OthersStay, StateIn
  <1>2. State' = [State EXCEPT ![d] = StateIn(data'[d], task'[data'[d].task].running)]
    BY <1>1, StateAt
  <1>3. State[d] = StateIn(data[d], task[data[d].task].running)
    BY StateAt
  <1>4. \A e \in Conts : e # d => data'[e] = data[e]
    BY DEF OthersStay
  <1>5. Held' = [Held EXCEPT ![d] = data'[d].handles] /\ Held[d] = data[d].handles
    BY <1>4 DEF Held
  <1>6. /\ data'[d].finishing => Dying' = Dying \cup {d}
        /\ ~data'[d].finishing => Dying' = Dying \ {d}
        /\ d \in Dying <=> data[d].finishing
    BY <1>4 DEF Dying
  <1> QED BY <1>2, <1>3, <1>5, <1>6

\* The chain before and after a step.
LEMMA BothChains ==
    ASSUME ContInv, ContInv'
    PROVE  /\ Chain = ChainOf(data, taskdepth) /\ Chain' = ChainOf(data', taskdepth')
           /\ Chained(data, taskdepth) /\ Chained(data', taskdepth')
           /\ taskdepth \in Nat /\ taskdepth' \in Nat
           /\ Chain \in Seq(Conts) /\ Len(Chain) = taskdepth
           /\ \A d \in Conts : data[d].mydepth > 0 => data[d].mydepth \in 1..Len(Chain) /\ Chain[data[d].mydepth] = d
  <1>1. Chain = ChainOf(data, taskdepth) /\ Chain' = ChainOf(data', taskdepth')
    BY DEF Chain, ChainOf
  <1>2. Chained(data, taskdepth) /\ taskdepth \in Nat
    BY Facts
  <1>3. Chained(data', taskdepth')
    BY DEF ContInv, Parts, Chained
  <1>4. taskdepth' \in Nat
    BY DEF ContInv, Types
  <1>5. /\ ChainOf(data, taskdepth) \in Seq(Conts) /\ Len(ChainOf(data, taskdepth)) = taskdepth
        /\ \A i \in 1..taskdepth : ChainOf(data, taskdepth)[i] \in Conts /\ data[ChainOf(data, taskdepth)[i]].mydepth = i
    BY <1>2, ChainFacts
  <1>6. ASSUME NEW d \in Conts, data[d].mydepth > 0
        PROVE  data[d].mydepth \in 1..Len(Chain) /\ Chain[data[d].mydepth] = d
    <2>1. data[d].mydepth \in 1..taskdepth
      BY <1>2, <1>6, Facts, DataFields DEF Chained
    <2>2. Chain[data[d].mydepth] \in Conts /\ data[Chain[data[d].mydepth]].mydepth = data[d].mydepth
      BY <1>1, <1>5, <2>1
    <2> QED BY <1>1, <1>2, <1>5, <1>6, <2>1, <2>2 DEF Chained
  <1> QED BY <1>1, <1>2, <1>3, <1>4, <1>5, <1>6

\* A step that keeps the depths keeps the chain.
LEMMA KeepsChain ==
    ASSUME ContInv, ContInv', taskdepth' = taskdepth, \A d \in Conts : data'[d].mydepth = data[d].mydepth
    PROVE  Chain' = Chain
  <1>1. /\ Chain = ChainOf(data, taskdepth) /\ Chain' = ChainOf(data', taskdepth')
        /\ Chained(data, taskdepth) /\ Chained(data', taskdepth') /\ taskdepth \in Nat
    BY BothChains
  <1>2. PICK dn, n : dn = data' /\ n = taskdepth'
    OBVIOUS
  <1>3. ChainOf(dn, taskdepth) = ChainOf(data, taskdepth)
    BY <1>1, <1>2, ChainSame
  <1> QED BY <1>1, <1>2, <1>3

\* A new WvCont maps to New,
LEMMA MapNew ==
    ASSUME ContInv, ContInv', NEW d \in Conts, New(d)
    PROVE  Abstract!New(d)
  <1> DEFINE b == NoData
             x == [b EXCEPT !.alive = TRUE, !.handles = 1, !.links = 1]
  <1>1. ~data[d].alive /\ data' = [data EXCEPT ![d] = x]
        /\ UNCHANGED <<task, free_tasks, frames, cur, back, curdata, taskdepth, val>>
    BY DEF New
  <1>2. b \in DataRec /\ b.mydepth = 0 /\ b.task = Top /\ ~b.finishing
    BY NoDataFacts
  <1> HIDE DEF b
  <1>3. x.mydepth = 0 /\ x.task = Top /\ ~x.finishing /\ x.alive /\ x.handles = 1
    BY <1>2 DEF DataRec
  <1> HIDE DEF x
  <1>4. data' = [data EXCEPT ![d] = x] /\ data \in [Conts -> DataRec]
    BY <1>1, Facts
  <1>5. data'[d] = x /\ OthersStay(d)
    BY <1>1, <1>4 DEF OthersStay
  <1>6. data[d].mydepth = 0 /\ ~data[d].finishing
    <2>1. Counted(data[d]) /\ data[d].mydepth \in Nat /\ data[d].handles \in Nat /\ data[d].links \in Nat
      BY Facts, DataFields
    <2> QED BY <1>1, <2>1 DEF Counted
  <1>7. Chain' = Chain
    BY <1>1, <1>3, <1>5, <1>6, KeepsChain DEF OthersStay
  <1>8. StateIn(data[d], task[data[d].task].running) = "none" /\ StateIn(data'[d], task'[data'[d].task].running) = "idle"
    BY <1>1, <1>3, <1>5 DEF StateIn
  <1>9. /\ State' = [State EXCEPT ![d] = "idle"] /\ State[d] = "none" /\ Held' = [Held EXCEPT ![d] = 1]
        /\ Dying' = Dying
    BY <1>3, <1>5, <1>6, <1>8, MapChange
  <1> QED BY <1>1, <1>7, <1>9 DEF Abstract!New

\* a copy, and current(), to Copy,
LEMMA MapLinked ==
    ASSUME ContInv, ContInv', NEW d \in Conts, data[d].alive, ~data[d].finishing, Linked(d)
    PROVE  Abstract!Copy(d)
  <1> DEFINE h == data[d].handles + 1
             k == data[d].links + 1
             x == [data[d] EXCEPT !.handles = h, !.links = k]
  <1>1. data \in [Conts -> DataRec] /\ data[d] \in DataRec
    BY Facts
  <1>2. data' = [data EXCEPT ![d] = x]
        /\ UNCHANGED <<task, free_tasks, frames, cur, back, curdata, taskdepth, val>>
    BY <1>1 DEF Linked
  <1>3. h = data[d].handles + 1
    OBVIOUS
  <1> HIDE DEF h, k
  <1>4. /\ x.mydepth = data[d].mydepth /\ x.task = data[d].task /\ x.finishing = data[d].finishing
        /\ x.alive = data[d].alive /\ x.handles = h
    BY <1>1 DEF DataRec
  <1> HIDE DEF x
  <1>5. data'[d] = x /\ OthersStay(d)
    BY <1>1, <1>2 DEF OthersStay
  <1>6. Chain' = Chain
    BY <1>2, <1>4, <1>5, KeepsChain DEF OthersStay
  <1>7. StateIn(data'[d], task'[data'[d].task].running) = StateIn(data[d], task[data[d].task].running)
        /\ StateIn(data[d], task[data[d].task].running) # "none"
    BY <1>2, <1>4, <1>5 DEF StateIn
  <1>8. /\ State' = [State EXCEPT ![d] = State[d]] /\ State[d] # "none"
        /\ Held' = [Held EXCEPT ![d] = Held[d] + 1] /\ Dying' = Dying /\ d \notin Dying
    BY <1>3, <1>4, <1>5, <1>7, MapChange
  <1>9. State' = State
    BY <1>8, StateAt
  <1> QED BY <1>2, <1>6, <1>8, <1>9 DEF Abstract!Copy

\* (entering a cont pushes it,)
LEMMA PushesChain ==
    ASSUME ContInv, ContInv', NEW d \in Conts, NEW p, NEW b, data[d].mydepth = 0, Entered(d, p, b)
    PROVE  Chain' = Append(Chain, d) /\ val' = p /\ State' = [State EXCEPT ![d] = "active"] /\ Held' = Held
  <1>1. /\ Chain = ChainOf(data, taskdepth) /\ Chain' = ChainOf(data', taskdepth')
        /\ Chained(data, taskdepth) /\ Chained(data', taskdepth') /\ taskdepth \in Nat
    BY BothChains
  <1>2. PICK dn : dn = data'
    OBVIOUS
  <1>3. /\ taskdepth' = taskdepth + 1 /\ dn[d].mydepth = taskdepth + 1 /\ \A e \in Conts : e # d => dn[e] = data[e]
    BY <1>2 DEF Entered, OthersStay
  <1>4. Chained(dn, taskdepth + 1)
    BY <1>1, <1>2, <1>3
  <1>5. ChainOf(dn, taskdepth + 1) = Append(ChainOf(data, taskdepth), d)
    BY <1>1, <1>3, <1>4, ChainPush
  <1>6. Chain' = Append(Chain, d)
    BY <1>1, <1>2, <1>3, <1>5
  <1>7. OthersStay(d) /\ val' = p /\ data'[d].handles = data[d].handles
    BY DEF Entered
  <1>8. StateIn(data'[d], task'[data'[d].task].running) = "active"
    BY <1>1, <1>2, <1>3 DEF Entered, StateIn
  <1>9. State' = [State EXCEPT ![d] = "active"]
    BY <1>7, <1>8, MapChange
  <1>10. Held' = [Held EXCEPT ![d] = Held[d]]
    BY <1>7, MapChange
  <1>11. Held' = Held
    BY <1>10 DEF Held
  <1> QED BY <1>6, <1>7, <1>9, <1>11

\* operator() to Call, and
LEMMA MapCall ==
    ASSUME ContInv, NEW d \in Conts, NEW p \in Values, Call(d, p)
    PROVE  Abstract!Call(d, p)
  <1>1. ContInv' /\ Entered(d, p, FALSE)
    BY CallStep
  <1>2. Usable(d) /\ data[d].mydepth = 0
    BY DEF Call
  <1>3. data[d].alive /\ ~data[d].finishing
    BY <1>2, UsableFacts
  <1>4. Chain' = Append(Chain, d) /\ val' = p /\ State' = [State EXCEPT ![d] = "active"] /\ Held' = Held
    BY <1>1, <1>2, PushesChain
  <1>5. OthersStay(d) /\ ~data'[d].finishing
    BY <1>1 DEF Entered
  <1>6. StateIn(data[d], task[data[d].task].running) \in {"idle", "paused"}
    BY <1>2, <1>3 DEF StateIn
  <1>7. State[d] \in {"idle", "paused"} /\ d \notin Dying /\ Dying' = Dying
    BY <1>3, <1>5, <1>6, MapChange
  <1> QED BY <1>4, <1>7 DEF Abstract!Call, Abstract!Enter

\* ~WvCont() to Drop.
LEMMA MapDrop ==
    ASSUME ContInv, NEW d \in Conts, Drop(d)
    PROVE  Abstract!Drop(d)
  <1>1. /\ ContInv' /\ Usable(d)
        /\ \/ /\ data[d].links > 1
              /\ data' = [data EXCEPT ![d].handles = @ - 1, ![d].links = @ - 1]
              /\ UNCHANGED <<task, free_tasks, frames, cur, back, curdata, taskdepth, val>>
           \/ data[d].links = 1 /\ data[d].task # Top /\ task[data[d].task].running /\ Entered(d, Null, TRUE)
           \/ /\ data[d].links = 1 /\ ~(data[d].task # Top /\ task[data[d].task].running)
              /\ Freed(d) /\ taskdepth' = taskdepth /\ val' = val
    BY DropCases
  <1>2. data[d].alive /\ ~data[d].finishing /\ data[d].handles > 0
    BY <1>1, UsableFacts
  <1>3. /\ data \in [Conts -> DataRec] /\ data[d] \in DataRec /\ Counted(data[d])
        /\ data[d].handles \in Nat /\ data[d].mydepth \in Nat
    BY Facts, DataFields
  <1>4. Held[d] > 0 /\ d \notin Dying /\ Held[d] = data[d].handles
    BY <1>2 DEF Held, Dying
  <1>5. State[d] = StateIn(data[d], task[data[d].task].running)
    BY StateAt
  <1>6. CASE /\ data[d].links > 1
             /\ data' = [data EXCEPT ![d].handles = @ - 1, ![d].links = @ - 1]
             /\ UNCHANGED <<task, free_tasks, frames, cur, back, curdata, taskdepth, val>>
    <2> DEFINE h == data[d].handles - 1
               k == data[d].links - 1
               x == [data[d] EXCEPT !.handles = h, !.links = k]
    <2>1. data' = [data EXCEPT ![d] = x]
      BY <1>3, <1>6
    <2>2. h = data[d].handles - 1
      OBVIOUS
    <2> HIDE DEF h, k
    <2>3. /\ x.mydepth = data[d].mydepth /\ x.task = data[d].task /\ x.finishing = data[d].finishing
          /\ x.alive = data[d].alive /\ x.handles = h
      BY <1>3 DEF DataRec
    <2> HIDE DEF x
    <2>4. data'[d] = x /\ OthersStay(d)
      BY <1>3, <1>6, <2>1 DEF OthersStay
    <2>5. Chain' = Chain
      BY <1>1, <1>6, <2>3, <2>4, KeepsChain DEF OthersStay
    <2>6. StateIn(data'[d], task'[data'[d].task].running) = StateIn(data[d], task[data[d].task].running)
      BY <1>6, <2>3, <2>4 DEF StateIn
    <2>7. State' = [State EXCEPT ![d] = State[d]] /\ Held' = [Held EXCEPT ![d] = Held[d] - 1] /\ Dying' = Dying
      BY <1>4, <2>2, <2>3, <2>4, <2>6, MapChange
    <2>8. State' = State
      BY <2>7, StateAt
    <2>9. Held[d] > 1 \/ State[d] = "active"
      <3>1. CASE data[d].mydepth > 0
        BY <1>2, <1>5, <3>1 DEF StateIn
      <3>2. CASE ~(data[d].mydepth > 0)
        BY <1>3, <1>4, <1>6, <3>2 DEF Counted
      <3> QED BY <3>1, <3>2
    <2> QED BY <1>4, <1>6, <2>5, <2>7, <2>8, <2>9 DEF Abstract!Drop
  <1>7. CASE data[d].links = 1
    <2>0. data[d].handles = 1 /\ data[d].mydepth = 0
      BY <1>2, <1>3, <1>7 DEF Counted
    <2>3. ~(data[d].links > 1)
      BY <1>7
    <2>4. \/ data[d].task # Top /\ task[data[d].task].running /\ Entered(d, Null, TRUE)
          \/ /\ ~(data[d].task # Top /\ task[data[d].task].running)
             /\ Freed(d) /\ taskdepth' = taskdepth /\ val' = val
      BY <1>1, <2>3, Zenon
    <2>1. CASE data[d].task # Top /\ task[data[d].task].running
      <3>1. Entered(d, Null, TRUE)
        BY <2>4, <2>1
      <3>2. Chain' = Append(Chain, d) /\ val' = Null /\ State' = [State EXCEPT ![d] = "active"] /\ Held' = Held
        BY <1>1, <2>0, <3>1, PushesChain
      <3>3. OthersStay(d) /\ data'[d].finishing
        BY <3>1 DEF Entered
      <3>4. Dying' = Dying \cup {d}
        BY <3>3, MapChange
      <3>5. State[d] = "paused"
        BY <1>2, <1>5, <2>0, <2>1 DEF StateIn
      <3> QED BY <1>4, <2>0, <3>2, <3>4, <3>5 DEF Abstract!Drop, Abstract!Enter
    <2>2. CASE ~(data[d].task # Top /\ task[data[d].task].running)
      <3>1. Freed(d) /\ taskdepth' = taskdepth /\ val' = val
        BY <2>4, <2>2
      <3>2. data'[d] = NoData /\ OthersStay(d)
        BY <3>1 DEF Freed
      <3>3. data'[d].mydepth = 0 /\ ~data'[d].finishing /\ ~data'[d].alive /\ data'[d].handles = 0
        BY <3>2, NoDataFacts
      <3>4. Chain' = Chain
        BY <1>1, <2>0, <3>1, <3>2, <3>3, KeepsChain DEF OthersStay
      <3>5. StateIn(data'[d], task'[data'[d].task].running) = "none"
        BY <3>3 DEF StateIn
      <3>6. State' = [State EXCEPT ![d] = "none"] /\ Held' = [Held EXCEPT ![d] = 0] /\ Dying' = Dying
        BY <1>4, <3>2, <3>3, <3>5, MapChange
      <3>7. State[d] = "idle"
        BY <1>2, <1>5, <2>0, <2>2 DEF StateIn
      <3> QED BY <1>4, <2>0, <3>1, <3>4, <3>6, <3>7 DEF Abstract!Drop
    <2> QED BY <2>1, <2>2
  <1> QED BY <1>1, <1>6, <1>7

\* Running a task again passes a yield on, which nobody sees, or tells a cont that it dies:
\* Abandon or, if that cont has just yielded, YieldUnheld.
LEMMA MapRunAgain ==
    ASSUME ContInv, run_again
    PROVE  [Abstract!Next]_Abstract!vars
  <1>1. ContInv'
    BY RunAgainStep
  <1>2. PICK d \in Conts :
            /\ data[d].mydepth > 0 /\ Noted(d)
            /\ val' = val \/ (val' = Null /\ d = curdata /\ data[d].handles = 0 /\ ~data[d].finishing)
    BY RunAgainStep
  <1>3. /\ taskdepth' = taskdepth /\ task' = task /\ OthersStay(d)
        /\ data'[d].mydepth = data[d].mydepth /\ data'[d].task = data[d].task
        /\ data'[d].handles = data[d].handles /\ data'[d].alive = data[d].alive
        /\ data'[d].finishing <=> data[d].finishing \/ data[d].handles = 0
    BY <1>2 DEF Noted, OthersStay
  <1>4. Chain' = Chain
    BY <1>1, <1>3, KeepsChain DEF OthersStay
  <1>5. StateIn(data'[d], task'[data'[d].task].running) = StateIn(data[d], task[data[d].task].running)
    BY <1>3 DEF StateIn
  <1>6. State' = [State EXCEPT ![d] = State[d]] /\ Held' = [Held EXCEPT ![d] = Held[d]] /\ Held[d] = data[d].handles
    BY <1>3, <1>5, MapChange
  <1>7. State' = State /\ Held' = Held
    BY <1>6, StateAt DEF Held
  <1>8. /\ data'[d].finishing => Dying' = Dying \cup {d}
        /\ ~data'[d].finishing => Dying' = Dying \ {d}
        /\ d \in Dying <=> data[d].finishing
    BY <1>3, MapChange
  <1>9. data[d].mydepth \in 1..Len(Chain) /\ Chain[data[d].mydepth] = d /\ Len(Chain) = taskdepth
    BY <1>1, <1>2, BothChains
  <1>10. CASE val' = val
    <2>1. CASE data[d].handles = 0
      <3>1. Dying' = Dying \cup {d}
        BY <1>3, <1>8, <2>1
      <3>2. Abstract!Abandon(d)
        BY <1>4, <1>6, <1>7, <1>9, <1>10, <2>1, <3>1 DEF Abstract!Abandon
      <3> QED BY <3>2 DEF Abstract!Next
    <2>2. CASE data[d].handles # 0
      <3>1. Dying' = Dying
        BY <1>3, <1>8, <2>2
      <3> QED BY <1>4, <1>7, <1>10, <3>1 DEF Abstract!vars
    <2> QED BY <2>1, <2>2
  <1>11. CASE val' = Null /\ d = curdata /\ data[d].handles = 0 /\ ~data[d].finishing
    <2>1. data[d].mydepth = taskdepth
      BY <1>11, NoFrame, TopAssumption DEF Depth
    <2>2. Chain # << >> /\ Chain[Len(Chain)] = d
      BY <1>9, <2>1
    <2>3. Dying' = Dying \cup {d} /\ d \notin Dying /\ Held[d] = 0
      BY <1>3, <1>6, <1>8, <1>11
    <2>4. Abstract!YieldUnheld
      BY <1>4, <1>7, <1>11, <2>2, <2>3 DEF Abstract!YieldUnheld, Abstract!Last
    <2> QED BY <2>4 DEF Abstract!Next
  <1> QED BY <1>2, <1>10, <1>11

\* The return of _call() is the Yield or the Return, for the caller.
LEMMA MapCallEnds ==
    ASSUME ContInv, call_ends
    PROVE  Abstract!Next
  <1>1. ContInv'
    BY CallEndsStep
  <1>2. PICK d \in Conts : data[d].mydepth = taskdepth /\ data[d].mydepth > 0 /\ Left(d)
    BY CallEndsStep
  <1>3. taskdepth' = taskdepth - 1 /\ val' \in Values /\ OthersStay(d)
    BY <1>2 DEF Left
  <1>4. /\ Chain = ChainOf(data, taskdepth) /\ Chain' = ChainOf(data', taskdepth')
        /\ Chained(data, taskdepth) /\ Chained(data', taskdepth') /\ taskdepth \in Nat /\ taskdepth' \in Nat
        /\ Chain \in Seq(Conts) /\ Len(Chain) = taskdepth
    BY <1>1, BothChains
  <1>5. PICK dn, m : dn = data' /\ m = taskdepth'
    OBVIOUS
  <1>6. data'[d].mydepth = 0
    BY <1>2, NoDataFacts DEF Left
  <1>7. ChainOf(dn, m) = SubSeq(ChainOf(data, taskdepth), 1, m) /\ ChainOf(data, taskdepth)[taskdepth] = d
    <2>1. m \in Nat /\ m = taskdepth - 1 /\ Chained(dn, m) /\ dn[d].mydepth = 0 /\ \A e \in Conts : e # d => dn[e] = data[e]
      BY <1>3, <1>4, <1>5, <1>6 DEF OthersStay
    <2> QED BY <1>2, <1>4, <2>1, ChainPop
  <1>8. Chain' = SubSeq(Chain, 1, Len(Chain) - 1) /\ Chain[Len(Chain)] = d /\ Chain # << >>
    BY <1>2, <1>3, <1>4, <1>5, <1>7
  <1>9. data[d].task # Top
    BY <1>2, Facts DEF Counted
  <1>10. CASE /\ data'[d] = NoData /\ (data[d].finishing \/ data[d].handles = 0)
              /\ ~task[data[d].task].running
    <2>1. ~data'[d].finishing /\ ~data'[d].alive /\ data'[d].handles = 0
      BY <1>10, NoDataFacts
    <2>2. StateIn(data'[d], task'[data'[d].task].running) = "none"
      BY <2>1 DEF StateIn
    <2>3. State' = [State EXCEPT ![d] = "none"] /\ Held' = [Held EXCEPT ![d] = 0] /\ Dying' = Dying \ {d}
      BY <1>3, <2>1, <2>2, MapChange
    <2>4. d \in Dying \/ Held[d] = 0
      BY <1>3, <1>10, MapChange
    <2>5. Abstract!Return(val')
      BY <1>8, <2>3, <2>4 DEF Abstract!Return, Abstract!Last, Abstract!Front
    <2> QED BY <1>3, <2>5 DEF Abstract!Next
  <1>11. CASE /\ data'[d].alive /\ ~data'[d].finishing /\ data'[d].mydepth = 0
              /\ data'[d].handles = data[d].handles /\ data'[d].task = data[d].task /\ task' = task
              /\ ~data[d].finishing /\ data[d].handles > 0
    <2>1. Held' = [Held EXCEPT ![d] = Held[d]] /\ Held[d] > 0 /\ Held[d] # 0 /\ d \notin Dying /\ Dying' = Dying \ {d}
      BY <1>3, <1>11, MapChange
    <2>2. Held' = Held /\ Dying' = Dying
      BY <2>1 DEF Held
    <2>3. CASE task[data[d].task].running
      <3>1. StateIn(data'[d], task'[data'[d].task].running) = "paused"
        BY <1>9, <1>11, <2>3 DEF StateIn
      <3>2. State' = [State EXCEPT ![d] = "paused"]
        BY <1>3, <3>1, MapChange
      <3>3. Abstract!Yield(val')
        BY <1>8, <2>1, <2>2, <3>2 DEF Abstract!Yield, Abstract!Last, Abstract!Front
      <3> QED BY <1>3, <3>3 DEF Abstract!Next
    <2>4. CASE ~task[data[d].task].running
      <3>1. StateIn(data'[d], task'[data'[d].task].running) = "idle"
        BY <1>9, <1>11, <2>4 DEF StateIn
      <3>2. State' = [State EXCEPT ![d] = "idle"]
        BY <1>3, <3>1, MapChange
      <3>3. Abstract!Return(val')
        BY <1>8, <2>1, <3>2 DEF Abstract!Return, Abstract!Last, Abstract!Front
      <3> QED BY <1>3, <3>3 DEF Abstract!Next
    <2> QED BY <2>3, <2>4
  <1> QED BY <1>2, <1>10, <1>11 DEF Left

\* What yield() and the end of a function do themselves is not seen by anybody.
LEMMA MapLeave ==
    ASSUME ContInv, ContInv', ~back, curdata # Top, NEW r, data' = [data EXCEPT ![curdata].ret = r],
           task' = task \/ task' = [task EXCEPT ![cur].running = FALSE],
           taskdepth' = taskdepth, val' = val
    PROVE  UNCHANGED Abstract!vars
  <1>1. /\ data \in [Conts -> DataRec] /\ curdata \in Conts /\ data[curdata] \in DataRec /\ task \in [Tasks -> TaskRec]
        /\ data[curdata].mydepth > 0 /\ cur = data[curdata].task
    BY NoFrame, Facts DEF InChain, Stack
  <1>2. PICK c \in Conts : c = curdata
    BY <1>1
  <1> DEFINE x == [data[c] EXCEPT !.ret = r]
  <1>3. data' = [data EXCEPT ![c] = x]
    BY <1>1, <1>2
  <1>4. /\ x.mydepth = data[c].mydepth /\ x.task = data[c].task /\ x.finishing = data[c].finishing
        /\ x.alive = data[c].alive /\ x.handles = data[c].handles
    BY <1>1, <1>2 DEF DataRec
  <1> HIDE DEF x
  <1>5. data'[c] = x /\ \A e \in Conts : e # c => data'[e] = data[e]
    BY <1>1, <1>3
  <1>6. ASSUME NEW e \in Conts, e # c, data[e].task # Top
        PROVE  task'[data[e].task].running <=> task[data[e].task].running
    <2>1. data[e].task # cur /\ data[e].task \in Tasks
      BY <1>1, <1>2, <1>6, Facts, DataFields DEF Owned
    <2>2. task'[data[e].task] = task[data[e].task]
      BY <1>1, <2>1
    <2> QED BY <2>2
  <1>7. OthersStay(c)
    BY <1>5, <1>6 DEF OthersStay
  <1>8. Chain' = Chain
    BY <1>4, <1>5, KeepsChain
  <1>9. StateIn(data'[c], task'[data'[c].task].running) = StateIn(data[c], task[data[c].task].running)
    BY <1>1, <1>2, <1>4, <1>5 DEF StateIn
  <1>10. State' = [State EXCEPT ![c] = State[c]] /\ Held' = [Held EXCEPT ![c] = Held[c]] /\ Dying' = Dying
    <2>1. /\ State' = [State EXCEPT ![c] = StateIn(data'[c], task'[data'[c].task].running)]
          /\ Held' = [Held EXCEPT ![c] = data'[c].handles] /\ Held[c] = data[c].handles
          /\ State[c] = StateIn(data[c], task[data[c].task].running)
      BY <1>7, MapChange
    <2>2. data'[c].handles = data[c].handles
      BY <1>4, <1>5
    <2>3. Dying' = Dying
      BY <1>4, <1>5 DEF Dying
    <2> QED BY <1>9, <2>1, <2>2, <2>3
  <1>11. State' = State /\ Held' = Held
    BY <1>10, StateAt DEF Held
  <1> QED BY <1>8, <1>10, <1>11 DEF Abstract!vars

\* Every step maps to a step or a stutter,
LEMMA MapStep ==
    ASSUME ContInv, ContInv', [Next]_vars
    PROVE  [Abstract!Next]_Abstract!vars
  <1>1. CASE UNCHANGED vars
    BY <1>1 DEF vars, Abstract!vars, Chain, State, Dying, Held
  <1>2. ASSUME NEW d \in Conts, New(d) PROVE Abstract!Next
    BY <1>2, MapNew DEF Abstract!Next
  <1>3. ASSUME NEW d \in Conts, Copy(d) PROVE Abstract!Next
    BY <1>3, UsableFacts, MapLinked DEF Copy, Abstract!Next
  <1>4. CASE current
    <2>1. curdata \in Conts /\ ~data[curdata].finishing /\ Linked(curdata)
      BY <1>4, Facts DEF current, isok
    <2>2. data[curdata].mydepth > 0
      BY <2>1, Facts, TopAssumption DEF Control, InChain
    <2>3. Abstract!Copy(curdata)
      BY <2>1, <2>2, UsableFacts, MapLinked
    <2> QED BY <2>1, <2>3 DEF Abstract!Next
  <1>5. ASSUME NEW d \in Conts, NEW p \in Values, Call(d, p) PROVE Abstract!Next
    BY <1>5, MapCall DEF Abstract!Next
  <1>6. ASSUME NEW d \in Conts, Drop(d) PROVE Abstract!Next
    BY <1>6, MapDrop DEF Abstract!Next
  <1>7. ASSUME NEW r \in Values, yield(r) PROVE UNCHANGED Abstract!vars
    <2>1. ~back /\ curdata # Top
      BY <1>7 DEF yield, isok, UserCode
    <2> QED BY <1>7, <2>1, MapLeave DEF yield
  <1>8. ASSUME NEW r \in Values, Return(r) PROVE UNCHANGED Abstract!vars
    <2>1. ~back /\ cur # Top
      BY <1>8 DEF Return, UserCode
    <2>2. curdata \in Conts /\ task[cur].userdata = curdata /\ curdata # Top
      BY <2>1, RunningCur, TopAssumption
    <2> QED BY <1>8, <2>1, <2>2, MapLeave DEF Return
  <1>9. CASE run_again
    BY <1>9, MapRunAgain
  <1>10. CASE call_ends
    BY <1>10, MapCallEnds
  <1> QED BY <1>1, <1>2, <1>3, <1>4, <1>5, <1>6, <1>7, <1>8, <1>9, <1>10 DEF Next

\* and the initial states map to initial states.
LEMMA MapInit == Init => Abstract!Init
  <1> SUFFICES ASSUME Init PROVE Chain = << >> /\ Dying = {} /\ val = Null
                                 /\ State = [d \in Conts |-> "none"] /\ Held = [d \in Conts |-> 0]
    BY DEF Abstract!Init
  <1>1. data = [d \in Conts |-> NoData] /\ taskdepth = 0 /\ val = Null
    BY DEF Init
  <1>2. \A d \in Conts : ~data[d].alive /\ data[d].handles = 0 /\ ~data[d].finishing
    BY <1>1, NoDataFacts
  <1>3. Chain = << >>
    BY <1>1 DEF Chain
  <1>4. Dying = {} /\ Held = [d \in Conts |-> 0]
    BY <1>2 DEF Dying, Held
  <1>5. State = [d \in Conts |-> "none"]
    BY <1>2 DEF State
  <1> QED BY <1>1, <1>3, <1>4, <1>5

\* wvcont.h's promise: although WvTaskMan::yield() always lands in the main program, calls,
\* yields, returns and destructors behave as on one call stack.
THEOREM CallsNest == Spec => ImplementsSemicoroutines
  <1>1. Init => Abstract!Init
    BY MapInit
  <1>2. ContInv /\ ContInv' /\ [Next]_vars => [Abstract!Next]_Abstract!vars
    BY MapStep
  <1> QED BY <1>1, <1>2, ContInvariant, PTL DEF Spec, ImplementsSemicoroutines, Abstract!Spec
=============================================================================
