--------------------------- MODULE MCDiscWrapper ----------------------------
(* DiscWrapper with three wrappers at a time, which stand for one that holds *)
(* the lock, one about to try for it, and one that comes between the two.    *)
EXTENDS DiscWrapper

CONSTANTS w1, w2, w3
=============================================================================
