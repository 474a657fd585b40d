-------------------------- MODULE MCWvMagicCircle --------------------------
(* A queue of N bytes over a two-valued byte; nothing else needs bounding. *)
EXTENDS WvMagicCircle
=============================================================================
