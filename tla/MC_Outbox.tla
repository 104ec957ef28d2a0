------------------------------ MODULE MC_Outbox ------------------------------
(***************************************************************************)
(* Model values and constants for TLC's runs of Outbox.                    *)
(***************************************************************************)
EXTENDS Outbox, TLC

CONSTANTS k1, k2, w1, w2

TwoKeys    == {k1, k2}
Hooked     == {k1}          \* k1 goes to a webhook, k2 to Slack
TwoWorkers == {w1, w2}
=============================================================================
