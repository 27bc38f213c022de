----------------------------- MODULE MCSpinLock2 -----------------------------
(* Four CPUs over three locks: c1 and c2 take a and b in opposite orders, *)
(* the case the back-off in spin_lock_2 exists for; c3 and c4 take a and  *)
(* d in opposite orders, so that a is contended from both pairs.          *)
EXTENDS SpinLock2, TLC

CONSTANTS a, b, d, c1, c2, c3, c4

MCOrder == (c1 :> <<a, b>>) @@ (c2 :> <<b, a>>) @@
           (c3 :> <<d, a>>) @@ (c4 :> <<a, d>>)
=============================================================================
