--------------------------- MODULE MCAudioHandoff ---------------------------
(* AudioHandoff with two discs that share a name and one that does not. *)
EXTENDS AudioHandoff, TLC

CONSTANTS d1, d2, d3

Names == d1 :> "unknown" @@ d2 :> "unknown" @@ d3 :> "album"

TrackCounts == d1 :> 2 @@ d2 :> 1 @@ d3 :> 1
=============================================================================
