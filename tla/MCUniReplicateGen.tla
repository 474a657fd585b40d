------------------------- MODULE MCUniReplicateGen -------------------------
EXTENDS UniReplicateGen

CONSTANTS remote, backup, temp, a, x, y

\* Two daemons, and the local generator of replicate:{retry:tcp:... temp:} (as
\* uniretrygen.h recommends it) before a daemon; the third one may be added.
Lists == {<<remote, backup>>, <<temp, remote>>}

\* Different values, and a generator that has none.
Different == {(remote :> (a :> x)) @@ (backup :> (a :> y)) @@ (temp :> (a :> Null))}

One == {Changes(a, y)}
=============================================================================
