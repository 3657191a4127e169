----------------------------- MODULE MCLibrary -----------------------------
(* Two browsers and users; two partsets of one or two scores, and a third to be made.  *)
EXTENDS Library, TLC

CONSTANTS c1, c2, alice, bob, p1, p2, p3, sc1, sc2

MCClients == {c1, c2}
MCUsers == {alice, bob}
MCPartsets == {p1, p2, p3}
MCExisting == {p1, p2}
MCScores == {sc1, sc2}

Symmetry == Permutations(MCClients) \cup Permutations(MCUsers) \cup Permutations(MCScores)
              \cup Permutations(MCExisting)
============================================================================
