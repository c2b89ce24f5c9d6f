---------------------------- MODULE MCAuthCache ----------------------------
(* Instances of AuthCache for TLC: one tenant. *)
EXTENDS AuthCache

CONSTANT t1

OneTenant == [c \in Creds |-> t1]
=============================================================================
