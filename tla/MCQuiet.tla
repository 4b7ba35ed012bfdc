-------------------------------- MODULE MCQuiet --------------------------------
(***************************************************************************)
(* RouteControl with an operator who does what he likes for a while and    *)
(* then leaves: from then on runs may be stopped and faults reset, and     *)
(* nothing is started.  What the queue holds must still get its turn.      *)
(***************************************************************************)
EXTENDS MCRouteControl

VARIABLE starting        \* the operator is still there

Present ==
  /\ starting
  /\ \/ Next /\ UNCHANGED starting
     \/ starting' = FALSE /\ UNCHANGED vars

Left ==
  /\ ~starting
  /\ \/ SomeTick1s \/ SomeTick2s \/ Elapse
     \/ \E r \in Route : FaultReset(r) \/ \E actor \in Actor : StopRoute(r, actor)
  /\ UNCHANGED starting

QuietInit == Init /\ starting = TRUE

QuietSpec ==
  /\ QuietInit
  /\ [][Present \/ Left]_<<vars, starting>>
  /\ <>(starting = FALSE)
  /\ Fairness
=============================================================================
