--------------------------- MODULE MC_EnbLifecycle ---------------------------
(* EnbLifecycle for TLC: two NPRACH buffers, up to three NPRACH windows, two tti_clock tasks counted. *)
EXTENDS EnbLifecycle
=============================================================================
