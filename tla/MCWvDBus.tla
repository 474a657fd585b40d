------------------------------ MODULE MCWvDBus ------------------------------
EXTENDS WvDBus, TLC

CONSTANTS a, b

\* a calls what b offers; both want the name; and both send signals.
CallerAndOwner == (a :> {"do", "wait", "resend"}) @@ (b :> {"RequestName", "close"})
TwoOwners == (a :> {"RequestName", "ReleaseName"}) @@ (b :> {"RequestName", "close"})
Signallers == (a :> {"signal"}) @@ (b :> {"signal", "close"})
AskerAndOwner == (a :> {"GetNameOwner"}) @@ (b :> {"RequestName"})

AllRoles == {CallerAndOwner, TwoOwners, Signallers, AskerAndOwner}
=============================================================================
