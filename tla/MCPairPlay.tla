------------------------------ MODULE MCPairPlay ------------------------------
(* Small instances of PairPlay for TLC. *)
EXTENDS PairPlay, TLC

CONSTANTS theRoom, c, d1, d2, h1, h2, w1, w2, op, escrow, none

OneChallenger == {d1}
TwoChallengers == {d1, d2}
OneHandler == {h1}
TwoHandlers == {h1, h2}
OneWorker == {w1}
TwoWorkers == {w1, w2}
ArcError == {"ARC_ERROR"}
ArcOrBusy == {"ARC_ERROR", "GENLAYER_BUSY"}

\* Which actions players ask for.
NoActions == {}
MutualCancel == {"REQUEST_CANCEL"} \X {c, d1}
Withdrawals == {"WITHDRAW"} \X {c, d1}
EveryAction == MutualCancel \cup {<<"CANCEL", c>>, <<"EXPIRE", d1>>, <<"WITHDRAW", c>>}

HandlerSymmetry == Permutations(TwoHandlers) \cup Permutations(TwoChallengers)
WorkerSymmetry == Permutations(TwoWorkers)
=============================================================================
