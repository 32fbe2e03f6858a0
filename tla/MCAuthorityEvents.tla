------------------------- MODULE MCAuthorityEvents -------------------------
(* An instance of AuthorityEvents for TLC.                                 *)
EXTENDS AuthorityEvents

CONSTANTS p1, p2, d1, d2

TwoProducers == {p1, p2}
TwoDispatchers == {d1, d2}

=============================================================================
