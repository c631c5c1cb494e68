---------------------------- MODULE MC_EnbControl ----------------------------
(* Model values for EnbControl: a 10-subframe tti ring, two hyperframes,  *)
(* one NPRACH window per ring and a pool of one NPRACH buffer.            *)
EXTENDS EnbControl

MCRntis == {4097, 4098}
=============================================================================
