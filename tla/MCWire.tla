------------------------------- MODULE MCWire -------------------------------
(***************************************************************************)
(* Values of the constants of Wire that a configuration cannot write.      *)
(***************************************************************************)
EXTENDS Wire

\* One character of each kind the encoding treats in its own way: a letter, the
\* two that are escaped, a line break, and a brace.
AnyKind == {Letter, Quote, Backslash, Newline, "}"}
=============================================================================
