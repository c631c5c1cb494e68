----------------------------- MODULE MC_EnbPhy -----------------------------
(* Model-checking instance of EnbPhy: the 8-frame hyperframe of           *)
(* MC_CarrierSched, two C-RNTIs and a bounded number of stack calls.      *)
EXTENDS EnbPhy

MCRntis == {4097, 4098}

\* One C-RNTI: what a single UE meets, with no second user's grants.
MCOneRnti == {4097}

\* Three C-RNTIs: three RACHs without an RNTI reused.
MCThreeRntis == {4097, 4098, 4099}
=============================================================================
