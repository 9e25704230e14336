------------------------------- MODULE MCHold -------------------------------
(* A run of two calls, one after the other or at the same time.            *)
EXTENDS Hold

CONSTANTS c1, c2

TwoCalls == {c1, c2}
=============================================================================
