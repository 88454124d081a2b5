------------------------------ MODULE MCProxy -------------------------------
(***************************************************************************)
(* Proxy and HttpHandler for TLC: statuses with and without a body, three  *)
(* Writes of one or two bytes against lengths of zero, one, three, a       *)
(* negative one and garbage, so that a Write may fit exactly, be refused,  *)
(* and be followed by a shorter one that would fit; the proxy reads while  *)
(* the handler writes, and may give up at any moment.                      *)
(***************************************************************************)
EXTENDS Proxy

MCDeclared == {-2, 0, 1, 3}
=============================================================================
