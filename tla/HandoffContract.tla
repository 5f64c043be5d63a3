-------------------------- MODULE HandoffContract --------------------------
(***************************************************************************)
(* What a handoff owes the discs it is given, without saying how it moves  *)
(* their files.                                                            *)
(*                                                                         *)
(* A disc is ripped once.  A rip that is finished is kept until the        *)
(* handoff begins to show it; it is then shown, with every track at once,  *)
(* or torn.  What is shown stays until somebody takes it, which is done    *)
(* only after work on it has started.  A rip is lost only with the place   *)
(* it is kept in, when another takes over, or torn while being shown; what *)
(* is shown outlives that place.                                           *)
(***************************************************************************)
CONSTANT Disc

VARIABLES place,    \* the place the rips are kept in: changes with each
          coming,   \* discs whose rip is not over
          kept,     \* finished rips yet to be shown
          showing,  \* those about to be
          shown,    \* those that are
          started   \* those of them that work has started on

vars == <<place, coming, kept, showing, shown, started>>

Init ==
    /\ place \in {0, 1}
    /\ coming = Disc
    /\ kept = {}
    /\ showing = {}
    /\ shown = {}
    /\ started = {}

Finish(d) ==
    /\ d \in coming
    /\ coming' = coming \ {d}
    /\ kept' = kept \cup {d}
    /\ UNCHANGED <<place, showing, shown, started>>

GiveUp(d) ==
    /\ coming' = coming \ {d}
    /\ UNCHANGED <<place, kept, showing, shown, started>>

BeginToShow(discs) ==
    /\ discs \subseteq kept
    /\ kept' = kept \ discs
    /\ showing' = showing \cup discs
    /\ UNCHANGED <<place, coming, shown, started>>

Show(discs) ==
    /\ discs \subseteq showing
    /\ showing' = showing \ discs
    /\ shown' = shown \cup discs
    /\ UNCHANGED <<place, coming, kept, started>>

Tear(discs) ==
    /\ discs \subseteq showing
    /\ showing' = showing \ discs
    /\ UNCHANGED <<place, coming, kept, shown, started>>

Start(discs) ==
    /\ discs \subseteq shown
    /\ started' = started \cup discs
    /\ UNCHANGED <<place, coming, kept, showing, shown>>

Take(discs) ==
    /\ discs \subseteq started
    /\ shown' = shown \ discs
    /\ started' = started \ discs
    /\ UNCHANGED <<place, coming, kept, showing>>

\* Whatever is kept or being shown is lost, and with it the rip under way.
LosePlace ==
    /\ place' # place
    /\ kept' = {}
    /\ showing' = {}
    /\ coming' \in {coming} \cup {coming \ {d} : d \in coming}
    /\ UNCHANGED <<shown, started>>

Next ==
    \/ \E d \in coming : Finish(d) \/ GiveUp(d)
    \/ \E discs \in SUBSET Disc :
          BeginToShow(discs) \/ Show(discs) \/ Tear(discs) \/ Start(discs) \/ Take(discs)
    \/ LosePlace

Spec == Init /\ [][Next]_vars
=============================================================================
