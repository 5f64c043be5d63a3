------------------------- MODULE MCSoftServeMirror --------------------------
(* SoftServeMirror with two repositories in scope and a fork, a page each.   *)
EXTENDS SoftServeMirror

Repositories == 1 .. 3
TheFork == {2}
=============================================================================
