----------------------------- MODULE MCWsRooms -----------------------------
EXTENDS WsRooms, TLC
Symmetry == Permutations(Conns)
=============================================================================
