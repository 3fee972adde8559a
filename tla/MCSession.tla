----------------------------- MODULE MCSession -----------------------------
(***************************************************************************)
(* Values of the constants of Session that a configuration cannot write.   *)
(***************************************************************************)
EXTENDS Session

NoLink == {}
\* User 2 connects to user 1.
OneLink == {<<2, 1>>}
\* Each connects to the other.
BothLinks == {<<1, 2>>, <<2, 1>>}
=============================================================================
