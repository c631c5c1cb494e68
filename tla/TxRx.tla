-------------------------------- MODULE TxRx --------------------------------
(***************************************************************************)
(* The PHY's timing threads: the TX/RX thread (txrx::run_thread), which    *)
(* counts tti and hfn, hands each received subframe to the subframe worker *)
(* (sf_worker::set_time, then the pool starts the worker) and copies it to *)
(* the NPRACH worker (nprach_worker::new_tti); the end of the worker's     *)
(* subframe (phy_common::worker_end); and the NPRACH thread                *)
(* (nprach_worker::run_thread), which runs detection on collected windows. *)
(*                                                                         *)
(* phy::init starts one subframe worker, so wait_worker returns it only    *)
(* after its previous subframe ended, and the TTI semaphore of worker_end  *)
(* never waits.  Signal processing is abstracted: detection finds a        *)
(* preamble or not.                                                        *)
(***************************************************************************)
EXTENDS Naturals, Sequences

CONSTANTS
  NTtiMod,       \* 10240: the tti ring
  NHfn,          \* 1024: the hyperframe ring
  PrachPeriod,   \* 160: new_tti collects from tti_rx % 160 == 64
  PrachStart,    \* 64
  PoolSize       \* 8: nprach_worker::buffer_pool

DelayUl == 4         \* FDD_HARQ_DELAY_UL_MS
PrachSfs == 7        \* new_tti hands the buffer over when sf_cnt reaches 7
BufSfs == 8          \* sf_buffer_sz = 8 * SRSLTE_SF_LEN_PRB(1)

NoBuf == [tti |-> 0, n |-> 0]

VARIABLES
  tti, hfn,      \* txrx::tti and txrx::hfn (the receive time)
  wHfn, wTti,    \* sf_worker::hfn and tti_rx, as set by set_time
  busy,          \* the worker holds a subframe it has not ended yet
  sfCnt,         \* nprach_worker::sf_cnt
  curBuf,        \* current_buffer: its tti and nof_samples in subframes
  freeBufs,      \* buffers left in buffer_pool
  prachQ         \* pending_buffers, the NPRACH thread's queue

txrxVars == <<tti, hfn, wHfn, wTti, busy, sfCnt, curBuf, freeBufs, prachQ>>

TtiAddMod(a, b) == (a + b) % NTtiMod

-----------------------------------------------------------------------------
(* txrx::run_thread, one iteration: the hyperframe passed to the worker is *)
(* the transmit one, ahead of hfn in the last DelayUl + 1 subframes of the *)
(* ring; hfn itself moves at the ring's last subframe.                     *)
TxHfnOfLate(t, h) == IF t >= NTtiMod - DelayUl THEN (h + 1) % NHfn ELSE h
TxHfnOf(t, h) == IF t >= NTtiMod - DelayUl - 1 THEN (h + 1) % NHfn ELSE h
NextHfn(t, h) == IF t >= NTtiMod - 1 THEN TxHfnOf(t, h) ELSE h

(* nprach_worker::new_tti(t): from an NPRACH start subframe on, copy       *)
(* PrachSfs subframes into a pool buffer and queue it.  With no free       *)
(* buffer the window is skipped.                                           *)
WindowDoneLate(n) == n = PrachSfs + 1
WindowDone(n) == n = PrachSfs

InPrachWindow(t) == t % PrachPeriod = PrachStart \/ sfCnt > 0

NprachNewTti(t) ==
  IF ~InPrachWindow(t) \/ (sfCnt = 0 /\ freeBufs = 0)
  THEN UNCHANGED <<sfCnt, curBuf, freeBufs, prachQ>>
  ELSE LET buf  == IF sfCnt = 0 THEN [tti |-> t, n |-> 0] ELSE curBuf
           full == buf.n + 1 >= BufSfs
           nb   == [buf EXCEPT !.n = @ + 1]
       IN  IF full
           THEN UNCHANGED <<sfCnt, curBuf, freeBufs, prachQ>>
           ELSE /\ curBuf' = nb
                /\ freeBufs' = IF sfCnt = 0 THEN freeBufs - 1 ELSE freeBufs
                /\ IF WindowDone(sfCnt + 1)
                   THEN sfCnt' = 0 /\ prachQ' = Append(prachQ, nb)
                   ELSE sfCnt' = sfCnt + 1 /\ UNCHANGED prachQ

(* sf_worker::set_time: the worker keeps hfn and tti_rx; tti_tx_dl and    *)
(* the other times are derived from tti_rx (TxAbs below).                  *)
SetTime(h, t) == wHfn' = h /\ wTti' = t

RxIteration ==
  /\ ~busy
  /\ LET next == TtiAddMod(tti, 1) IN
     /\ tti' = next
     /\ hfn' = NextHfn(tti, hfn)
     /\ SetTime(TxHfnOf(tti, hfn), next)
     /\ busy' = TRUE
     /\ NprachNewTti(next)

(* sf_worker::work_imp ends in phy_common::worker_end: radio tx, then      *)
(* stack->tti_clock().                                                     *)
WorkerEnd ==
  /\ busy
  /\ busy' = FALSE
  /\ UNCHANGED <<tti, hfn, wHfn, wTti, sfCnt, curBuf, freeBufs, prachQ>>

(* nprach_worker::run_thread: pop a buffer, run_tti on it (detect), reset  *)
(* it and give it back to the pool.  found: sonica_nprach_detect's result. *)
NprachRunLeak(found) ==
  /\ prachQ # <<>>
  /\ prachQ' = Tail(prachQ)
  /\ UNCHANGED <<tti, hfn, wHfn, wTti, busy, sfCnt, curBuf, freeBufs>>
NprachRun(found) ==
  /\ prachQ # <<>>
  /\ prachQ' = Tail(prachQ)
  /\ freeBufs' = freeBufs + 1
  /\ UNCHANGED <<tti, hfn, wHfn, wTti, busy, sfCnt, curBuf>>

(* txrx::run_thread before the loop: the first transmit subframe is 0 of   *)
(* hyperframe 0.  Before the first set_time the worker's time is taken as  *)
(* the subframe before that.                                               *)
TxRxInit ==
  /\ tti = (NTtiMod - DelayUl - 1) % NTtiMod
  /\ hfn = NHfn - 1
  /\ wTti = tti
  /\ wHfn = hfn
  /\ busy = FALSE
  /\ sfCnt = 0
  /\ curBuf = NoBuf
  /\ freeBufs = PoolSize
  /\ prachQ = <<>>

TxRxTypeOK ==
  /\ tti \in 0 .. NTtiMod - 1 /\ wTti \in 0 .. NTtiMod - 1
  /\ hfn \in 0 .. NHfn - 1 /\ wHfn \in 0 .. NHfn - 1
  /\ busy \in BOOLEAN
  /\ sfCnt \in 0 .. PrachSfs - 1
  /\ freeBufs \in 0 .. PoolSize
  /\ \A i \in DOMAIN prachQ : prachQ[i].n \in 1 .. BufSfs - 1

-----------------------------------------------------------------------------
(* The worker's transmit time: hfn and tti_tx_dl = tti_rx + 4 of set_time. *)
TxAbs == INSTANCE TxTime WITH txSf <- wHfn * NTtiMod + TtiAddMod(wTti, DelayUl)
=============================================================================
