---------------------------- MODULE MCMinerActions ----------------------------
(* Instances of MinerActions for TLC: p is a profile the capabilities      *)
(* allow, q one they refuse.  Resume, identify and an operator's restart   *)
(* run the code of pause; recovery asks for the restarts.                  *)
EXTENDS MinerActions

CONSTANTS p, q

ChosenProfiles == {p, q}
ChosenSupported == {p}
ChosenServices == {"pause", "capture", "apply"}
ChosenBeginnings ==
  {[device |-> [config |-> NoProfile, paused |-> FALSE], saved |-> p]}
ChosenPage == [config : {q}, paused : {TRUE}]
=============================================================================
