----------------------------- MODULE MCMenuThread -----------------------------
(* MenuThread for TLC: the running game and another one, two names of saves. *)
EXTENDS MenuThread

ThisGame == "ULUS"
TwoGames == {ThisGame, "UCES"}
TwoSlots == {"s1", "s2"}
===============================================================================
