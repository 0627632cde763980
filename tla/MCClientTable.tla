---------------------------- MODULE MCClientTable ----------------------------
(* Small instances of ClientTable for TLC.                                 *)
EXTENDS ClientTable, TLC

CONSTANTS w1, w2, w3, w4

MCWsis == {w1, w2, w3}
MCWsisFour == {w1, w2, w3, w4}
MCWsisTwo == {w1, w2}
MCUsers == {1, 2}
MCUsersOne == {1}

(* The handles are interchangeable: safety runs only.                      *)
MCSymmetry == Permutations(Wsis)
=============================================================================
