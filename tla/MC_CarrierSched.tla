-------------------------- MODULE MC_CarrierSched --------------------------
(* Model-checking instance of CarrierSched: an 8-frame hyperframe (80    *)
(* TTIs, a multiple of the 16-TTI RAR search space and of the 4-frame     *)
(* SIB2 period), two C-RNTIs and a bounded number of stack-thread calls.  *)
EXTENDS CarrierSched

MCRntis == {4097, 4098}
=============================================================================
