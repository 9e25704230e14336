------------------------------- MODULE MCAcks -------------------------------
(* A stop and a quarantine for one run.                                    *)
EXTENDS Acks

CONSTANTS s1, q1

OneStop == {s1}
OneQuarantine == {q1}
=============================================================================
