------------------------------ MODULE MCContext ------------------------------
(* Two CPUs, two thread contexts and three kernel contexts: one home per   *)
(* CPU and one more for a handoff through check_kernel_context_replace.    *)
EXTENDS Context

=============================================================================
