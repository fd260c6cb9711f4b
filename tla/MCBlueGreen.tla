----------------------------- MODULE MCBlueGreen -----------------------------
(***************************************************************************)
(* Instances of BlueGreen for TLC, with the two services that              *)
(* services/admin-web and services/oauth2-proxy declare.                   *)
(***************************************************************************)
EXTENDS BlueGreen, TLC

Gated == [gate |-> TRUE, rollback |-> "leave-down"]
SelfContained == [gate |-> FALSE, rollback |-> "restart-legacy"]
BothServices == {Gated, SelfContained}
OnlySelfContained == {SelfContained}

\* The good definitions are interchangeable, so that it makes no difference
\* which of them is the first to be installed; a bad one is installed by a
\* rebuild.  (TLC's symmetry sets are not sound for liveness.)
CONSTANT First

FairSpecFromFirst ==
    /\ Init /\ unitDef \in {None, First}
    /\ [][Next /\ (unitDef = None => unitDef' \in {None, First} \cup BadClosures)]_<<vars, service>>
    /\ Fairness
=============================================================================
