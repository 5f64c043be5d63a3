------------------------------ MODULE MCMbSeed ------------------------------
(* MbSeed on a small instance: the first book has no art, the others share *)
(* the name theirs is saved under, one's embedded and the other's beside   *)
(* it.  A queue is the whole inbox, or what was left after the first book  *)
(* was imported.                                                           *)
EXTENDS MbSeed, TLC

Names3 == <<1, 2, 2>>
Inboxes == {<<1, 2, 3>>, <<2, 3>>}
Ports == Permutations(Servers)
=============================================================================
