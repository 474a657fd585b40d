--------------------------- MODULE Semicoroutines ---------------------------
(***************************************************************************)
(* What include/wvcont.h promises: functions that can be left in the       *)
(* middle and entered again, called and left strictly last in, first out.  *)
(*                                                                         *)
(* The code in control is the last of chain, or the main program.  A cont  *)
(* is destroyed when the last object that refers to it is dropped; if it   *)
(* is paused then, it is entered once more and has to run to its end.      *)
(***************************************************************************)
EXTENDS Naturals, Sequences

CONSTANTS Conts, Values, Null

VARIABLES
    chain, \* the conts that have been called and not left, outermost first
    state, \* of each cont: "none", "idle", "paused" or "active"
    dying, \* the conts for which isok() is false
    held,  \* objects that refer to each cont
    val    \* the value last handed to the code in control

vars == <<chain, state, dying, held, val>>

Last == chain[Len(chain)]
Front == SubSeq(chain, 1, Len(chain) - 1)

Init ==
    /\ chain = << >> /\ dying = {} /\ val = Null
    /\ state = [d \in Conts |-> "none"] /\ held = [d \in Conts |-> 0]

New(d) ==
    /\ state[d] = "none"
    /\ state' = [state EXCEPT ![d] = "idle"] /\ held' = [held EXCEPT ![d] = 1]
    /\ UNCHANGED <<chain, dying, val>>

Copy(d) ==
    /\ state[d] # "none" /\ d \notin dying
    /\ held' = [held EXCEPT ![d] = @ + 1]
    /\ UNCHANGED <<chain, state, dying, val>>

Enter(d, p) ==
    /\ chain' = Append(chain, d) /\ val' = p
    /\ state' = [state EXCEPT ![d] = "active"]

Call(d, p) ==
    /\ state[d] \in {"idle", "paused"} /\ d \notin dying
    /\ Enter(d, p)
    /\ UNCHANGED <<dying, held>>

\* The caller goes on, with the value.
Yield(r) ==
    /\ chain # << >> /\ Last \notin dying /\ held[Last] > 0
    /\ chain' = Front /\ val' = r
    /\ state' = [state EXCEPT ![Last] = "paused"]
    /\ UNCHANGED <<dying, held>>

\* A cont that nobody refers to any more does not get away with a yield.
YieldUnheld ==
    /\ chain # << >> /\ Last \notin dying /\ held[Last] = 0
    /\ dying' = dying \cup {Last} /\ val' = Null
    /\ UNCHANGED <<chain, state, held>>

Abandon(d) ==
    /\ \E i \in 1..Len(chain) : chain[i] = d
    /\ held[d] = 0 /\ dying' = dying \cup {d}
    /\ UNCHANGED <<chain, state, held, val>>

Return(r) ==
    /\ chain # << >>
    /\ chain' = Front /\ val' = r
    /\ LET gone == Last \in dying \/ held[Last] = 0
       IN  /\ state' = [state EXCEPT ![Last] = IF gone THEN "none" ELSE "idle"]
           /\ held' = [held EXCEPT ![Last] = IF gone THEN 0 ELSE @]
    /\ dying' = dying \ {Last}

Drop(d) ==
    /\ held[d] > 0 /\ d \notin dying
    /\ \/ /\ held[d] > 1 \/ state[d] = "active"
          /\ held' = [held EXCEPT ![d] = @ - 1]
          /\ UNCHANGED <<chain, state, dying, val>>
       \/ /\ held[d] = 1 /\ state[d] = "paused"
          /\ Enter(d, Null) /\ dying' = dying \cup {d}
          /\ UNCHANGED held
       \/ /\ held[d] = 1 /\ state[d] = "idle"
          /\ state' = [state EXCEPT ![d] = "none"] /\ held' = [held EXCEPT ![d] = 0]
          /\ UNCHANGED <<chain, dying, val>>

Next ==
    \/ YieldUnheld
    \/ \E d \in Conts : New(d) \/ Copy(d) \/ Drop(d) \/ Abandon(d)
    \/ \E d \in Conts, p \in Values : Call(d, p)
    \/ \E r \in Values : Yield(r) \/ Return(r)

Spec == Init /\ [][Next]_vars
=============================================================================
