---------------------------- MODULE MCSupervisor -----------------------------
(* Instances of Supervisor for TLC.  Handlers are interchangeable.          *)
EXTENDS Supervisor, TLC

HandlerSymmetry == Permutations(Handlers)
=============================================================================
