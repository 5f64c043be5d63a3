---------------------------- MODULE MCArmStamps ----------------------------
(* ArmStamps with three jobs, one of each age, and discs of two titles; a  *)
(* DVD only as the last, since a DVD before the patch has no whole copy.   *)
EXTENDS ArmStamps, TLC

DiscsByAge == <<{"bluray"}, {"bluray"}, {"bluray", "dvd"}>>
TitleSymmetry == Permutations(Titles)
=============================================================================
