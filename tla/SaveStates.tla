------------------------------ MODULE SaveStates ------------------------------
(***************************************************************************)
(* What the plugin promises of save and load, with none of its machinery:  *)
(* the game goes on from the state it was stopped in, or from the state a  *)
(* slot holds; a slot holds a state the game was stopped in, or nothing.   *)
(* A save may fail and may cost the slot what it held before.              *)
(***************************************************************************)
CONSTANTS
  Paths,   \* save slots
  Gens,    \* states of the game
  Empty    \* no state

VARIABLES
  running,   \* the game runs; otherwise it is stopped
  game,      \* its state
  slot,      \* slot[p]: the state a load of p returns to, or Empty
  pending    \* a save that is written but not yet certified, or Empty

svars == <<running, game, slot, pending>>

Init ==
  /\ running = TRUE
  /\ game \in Gens
  /\ slot = [p \in Paths |-> Empty]
  /\ pending = Empty

\* The game runs by itself.
Play ==
  /\ running
  /\ game' \in Gens
  /\ UNCHANGED <<running, slot, pending>>

Stop ==
  /\ running
  /\ running' = FALSE
  /\ UNCHANGED <<game, slot, pending>>

\* The game goes on in the state it was stopped, or put, in.
Continue ==
  /\ ~running
  /\ running' = TRUE
  /\ UNCHANGED <<game, slot, pending>>

\* Only a stopped game is saved.
Offer(p) ==
  /\ ~running
  /\ slot[p] = Empty
  /\ pending' = [path |-> p, state |-> game]
  /\ UNCHANGED <<running, game, slot>>

\* The slot holds the state the game had when it was stopped, even if the game
\* has gone on since.
Commit ==
  /\ pending # Empty
  /\ slot' = [slot EXCEPT ![pending.path] = pending.state]
  /\ pending' = Empty
  /\ UNCHANGED <<running, game>>

\* The state of the stopped game reaches the slot at once.
Store(p) ==
  /\ ~running
  /\ slot[p] = Empty
  /\ slot' = [slot EXCEPT ![p] = game]
  /\ UNCHANGED <<running, game, pending>>

Forget ==
  /\ pending # Empty
  /\ pending' = Empty
  /\ UNCHANGED <<running, game, slot>>

\* A slot is overwritten, removed or damaged.
Lose(p) ==
  /\ slot' = [slot EXCEPT ![p] = Empty]
  /\ UNCHANGED <<running, game, pending>>

\* A save gives up: its slot is gone and the game goes on where it stopped.
Abort(p) ==
  /\ running' = TRUE
  /\ slot' = [slot EXCEPT ![p] = Empty]
  /\ UNCHANGED <<game, pending>>

\* A load puts the stopped game into the state of a slot; the slot keeps it.
Recall(p) ==
  /\ ~running
  /\ slot[p] # Empty
  /\ game' = slot[p]
  /\ UNCHANGED <<running, slot, pending>>

\* The system is started again.
Restart ==
  /\ running' = TRUE
  /\ game' \in Gens
  /\ pending' = Empty
  /\ UNCHANGED slot

Next ==
  \/ Play \/ Stop \/ Continue \/ Commit \/ Forget \/ Restart
  \/ \E p \in Paths : Offer(p) \/ Store(p) \/ Lose(p) \/ Abort(p) \/ Recall(p)

Spec == Init /\ [][Next]_svars
=============================================================================
