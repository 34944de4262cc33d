------------------------ MODULE MCSchedulerLifecycle ------------------------
(* The bounds are in the configurations.                                    *)
EXTENDS SchedulerLifecycle
=============================================================================
