------------------------------- MODULE TxTime -------------------------------
(***************************************************************************)
(* What the TX/RX thread promises its subframe worker: the transmit time   *)
(* (hyperframe, tti_tx_dl) handed over with each subframe advances by one  *)
(* subframe per call, across the 10240-subframe and the 1024-hyperframe    *)
(* wrap, and the first transmitted subframe is subframe 0 of hyperframe 0. *)
(* txSf is the absolute subframe hfn * NTtiMod + tti_tx_dl; before the     *)
(* first call it is the subframe before 0.                                 *)
(***************************************************************************)
EXTENDS Naturals

CONSTANTS NTtiMod, NHfn

VARIABLE txSf

NTxSf == NTtiMod * NHfn

TxInit == txSf = NTxSf - 1

TxTick == txSf' = (txSf + 1) % NTxSf

TxSpec == TxInit /\ [][TxTick]_txSf
=============================================================================
