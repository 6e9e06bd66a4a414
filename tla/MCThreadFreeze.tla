---------------------------- MODULE MCThreadFreeze ----------------------------
(* ThreadFreeze for TLC: two game threads, one other user thread, one driver. *)
EXTENDS ThreadFreeze, TLC

CONSTANTS t1, t2, s1, d1

OneGameThread  == {t1}
TwoGameThreads == {t1, t2}
OneSystem      == {s1}
NoSystem       == {}
NoDriver       == {}
OneDriver      == {d1}

Symmetry == Permutations(Game)
=============================================================================
