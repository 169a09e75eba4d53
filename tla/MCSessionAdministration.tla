---------------------- MODULE MCSessionAdministration ----------------------
(* SessionAdministration on one family: session 3 was forked as session 2, *)
(* session 2 as session 1, each in a directory of its own, where a         *)
(* deletion is not refused; 4 may be forked.                               *)
EXTENDS SessionAdministration, TLC

CONSTANTS p, q, r

Family3 == (1 :> 2) @@ (2 :> 3) @@ (3 :> None)
OwnProjects == [f \in Files |-> CASE f = 1 -> p [] f = 2 -> q [] OTHER -> r]
OneProject == [f \in Files |-> p]

=============================================================================
