-------------------------- MODULE MCHealthProber --------------------------
(* A small instance of HealthProber: who leads changes between sweeps.      *)
EXTENDS HealthProber

CONSTANTS b1, b2

InOrder == <<b1, b2>>
OneAfterTheOther ==
  leader' # leader => \A n \in Nodes : prober[n].pc = "idle"
MCProberSpec == ProberInit /\ [][ProberNext /\ OneAfterTheOther]_proberVars
=============================================================================
