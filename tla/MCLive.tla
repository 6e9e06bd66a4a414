-------------------------------- MODULE MCLive ---------------------------------
(***************************************************************************)
(* For TLC: the freeze of the threads, or the shadow buffers of POPS, under *)
(* the fairness of each. A part at rest enables none of its fair actions.  *)
(***************************************************************************)
EXTENDS MCThreadFreeze, PopsShadow

VARIABLE part

LiveInit ==
  /\ part \in {"freeze", "pops"}
  /\ Init     /\ (part # "freeze" => ~me_probe /\ \A t \in Threads : state[t] = "ready")
  /\ PopsInit /\ (part # "pops" => wanted = "off")

LiveNext ==
  \/ part = "freeze" /\ Next /\ UNCHANGED <<popsVars, part>>
  \/ part = "pops" /\ PopsNext /\ UNCHANGED <<vars, part>>

LiveSpec == LiveInit /\ [][LiveNext]_<<part, vars, popsVars>> /\ Fairness /\ PopsFairness
===============================================================================
