----------------------------- MODULE MCBreaker ------------------------------
(* Three threads that post to one server.                                  *)
EXTENDS Breaker

CONSTANTS t1, t2, t3

ThreeThreads == {t1, t2, t3}
OneSync == {t1}
=============================================================================
