----------------------------- MODULE MCPowerSteps -----------------------------
(* PowerSteps for TLC: one step above stock, the stock bus target. *)
EXTENDS PowerSteps

SyncOnly == {0}
=============================================================================
