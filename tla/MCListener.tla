----------------------------- MODULE MCListener -----------------------------
(***************************************************************************)
(* Listener with clients c1, c2, c3, of which c1 is followed.               *)
(***************************************************************************)
EXTENDS Listener

CONSTANTS c1, c2, c3

MCClients == {c1, c2, c3}
MCObserved == {c1}

=============================================================================
