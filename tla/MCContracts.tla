------------------------------ MODULE MCContracts ------------------------------
(* A small instance of the pair escrow for TLC: two rooms share two wallets and *)
(* one pool of USDC.                                                            *)
EXTENDS PairMatchEscrow

CONSTANTS r1, r2, p1, p2, op, escrow, v1, v2, none

TwoRooms == {r1, r2}
TwoPlayers == {p1, p2}
TwoVersions == {v1, v2}
=============================================================================
