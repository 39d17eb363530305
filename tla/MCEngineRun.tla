---------------------------- MODULE MCEngineRun ----------------------------
(***************************************************************************)
(* TLC instance of EngineRun: one scope the request observes ("seen"), and *)
(* one that every tool observes and publishes to ("state"), as the         *)
(* commands of aurora_bot/bot/operations.py do.                            *)
(***************************************************************************)
EXTENDS EngineRun, TLC

CallSymmetry == Permutations(Catalog)

MCObserve == [c \in CallIds |-> {"state"}]
MCPublish == [c \in CallIds |-> {"state"}]
=============================================================================
