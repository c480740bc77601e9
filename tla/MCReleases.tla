----------------------------- MODULE MCReleases -----------------------------
(* Three releases over three schema versions, two writes, three scripts.    *)
EXTENDS Releases, TLC

CONSTANTS w1, w2

Writes == Permutations({w1, w2})
MCSchema == [r \in 1..3 |-> r]
=============================================================================
