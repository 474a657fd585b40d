----------------------------- MODULE MCWvFiles -----------------------------
EXTENDS WvFiles

CONSTANTS p1, p2, p3

Played(k, S) == [kind |-> k, procs |-> S]

\* Three at a lock or an atomic file, so that one may die while two go on; two
\* daemons, with the file of a third that died before.
AllParts ==
    {Played(k, Procs) : k \in {"lockfile", "lockdev", "writer"}} \cup {Played("daemon", {p1, p2})}

\* Daemons that are started one after the other.
ThreeDaemons == {Played("daemon", Procs)}
=============================================================================
