-------------------------- MODULE MCWvIStreamList --------------------------
(* One stream whose callback may be suspended and one that may run the list. *)
EXTENDS WvIStreamList
=============================================================================
