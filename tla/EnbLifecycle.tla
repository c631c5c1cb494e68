---------------------------- MODULE EnbLifecycle ----------------------------
(***************************************************************************)
(* Start-up and shutdown of the eNB (enb_nb::init, enb_nb::stop, the main  *)
(* function and ~enb_nb) against the threads they start and stop: the     *)
(* TX/RX thread, the subframe worker, the NPRACH thread and the stack      *)
(* thread.                                                                 *)
(*                                                                         *)
(* The main thread's progress is one variable, main.  The threads' work is *)
(* abstracted to what start-up and shutdown interact with: a subframe the  *)
(* worker holds ends in stack->tti_clock(); the TX/RX thread hands         *)
(* complete NPRACH windows (a pool buffer) to the NPRACH thread; the       *)
(* NPRACH thread runs the detector on them and may call rach_detected;     *)
(* the stack thread pops tasks until stop_impl clears started.             *)
(***************************************************************************)
EXTENDS Naturals, Sequences

CONSTANTS
  PoolSize,      \* nprach_worker::buffer_pool (8)
  MaxWindows,    \* bound on NPRACH windows handed over
  MaxTti         \* bound on tti_clock tasks waiting in the sync queue

VARIABLES
  main,          \* the main thread's position
  txrx,          \* TX/RX thread: "off", "top" (loop test), "wait" (wait_worker), "done"
  txrxRunning,   \* txrx::running
  busy,          \* the worker holds a subframe (its worker_end is to come)
  pool,          \* worker pool thread: "off", "run", "done"
  nprach,        \* NPRACH thread: "off", "start", "wait", "detect", "done"
  nprachRunning, \* nprach_worker::running
  detector,      \* nprach_worker::nprach: "none", "alloc", "freed"
  pend,          \* nprach_worker::pending_buffers: "buf" or "null" (nullptr)
  freeBufs,      \* buffers left in buffer_pool
  windows,       \* NPRACH windows handed over so far
  mac,           \* mac::started, and whether init ran: "new", "started", "stopped"
  stackObj,      \* the enb_stack_nb object: "alive", "destroyed"
  stackThread,   \* stack thread: "off", "run", "done"
  stackStarted,  \* enb_stack_nb::started
  syncQ,         \* tti_clock tasks queued
  macQ,          \* RACH tasks queued
  stopQ,         \* stop_impl queued in the enb queue
  enbStarted     \* enb_nb::started

vars == <<main, txrx, txrxRunning, busy, pool, nprach, nprachRunning, detector,
          pend, freeBufs, windows, mac, stackObj, stackThread, stackStarted,
          syncQ, macQ, stopQ, enbStarted>>

phyVars == <<txrx, txrxRunning, busy, pool, nprach, nprachRunning, detector,
             pend, freeBufs, windows>>
stackVars == <<mac, stackObj, stackThread, stackStarted, syncQ, macQ, stopQ>>

-----------------------------------------------------------------------------
(* The main thread: main() and enb_nb::init *)

\* nprach_worker::init: sonica_nprach_init allocates the detector, then
\* the NPRACH thread is started.
NprachInit == detector' = "alloc" /\ nprach' = "start"

\* txrx::init: running = true, then the TX/RX thread is started.
TxRxStart == txrxRunning' = TRUE /\ txrx' = "top"

\* phy::init: the worker joins the pool, then nprach.init and tx_rx.init.
PhyInitStep ==
  /\ main = "phy_init"
  /\ main' = "stack_init"
  /\ pool' = "run"
  /\ NprachInit
  /\ TxRxStart
  /\ UNCHANGED <<busy, nprachRunning, pend, freeBufs, windows, stackVars, enbStarted>>

\* mac::init: the task queue, the scheduler, reset (last_rnti = 4097),
\* then started = true.
MacInit == mac' = "started"

\* enb_stack_nb::init: mac.init (started), rlc, pdcp, rrc; s1ap.init may
\* fail (no MME), and then init returns before started = true and before
\* the stack thread starts.  enb_nb::init sets started only if all went
\* well; main() then calls enb->stop() and returns.
StackInitStep ==
  /\ main = "stack_init"
  /\ MacInit
  /\ \E s1apOk \in BOOLEAN :
       IF s1apOk
       THEN /\ stackStarted' = TRUE /\ stackThread' = "run"
            /\ enbStarted' = TRUE /\ main' = "running"
       ELSE /\ main' = "init_failed"
            /\ UNCHANGED <<stackStarted, stackThread, enbStarted>>
  /\ UNCHANGED <<phyVars, stackObj, syncQ, macQ, stopQ>>

\* The signal handler clears running; main's loop ends and calls
\* enb->stop(), which stops the PHY first (it was started).
SignalStop ==
  /\ main = "running"
  /\ main' = "txrx_stop"
  /\ UNCHANGED <<phyVars, stackVars, enbStarted>>

\* After a failed init, enb->stop() does nothing (started is false) and
\* main returns: ~enb_nb resets the stack first (~enb_stack_nb calls stop(),
\* a no-op as started is false), then the PHY is destroyed and ~phy runs
\* phy::stop.
DestroyStack ==
  /\ main = "init_failed"
  /\ main' = "txrx_stop"
  /\ stackObj' = "destroyed"
  /\ UNCHANGED <<phyVars, mac, stackThread, stackStarted, syncQ, macQ, stopQ, enbStarted>>

-----------------------------------------------------------------------------
(* phy::stop, from enb_nb::stop or from ~phy *)

\* txrx::stop: clear running, then join the TX/RX thread.
TxRxStop ==
  /\ main = "txrx_stop"
  /\ main' = "txrx_join"
  /\ txrxRunning' = FALSE
  /\ UNCHANGED <<txrx, busy, pool, nprach, nprachRunning, detector, pend,
                 freeBufs, windows, stackVars, enbStarted>>

TxRxJoin ==
  /\ main = "txrx_join" /\ txrx = "done"
  /\ main' = "common_stop"
  /\ UNCHANGED <<phyVars, stackVars, enbStarted>>

\* phy_common::stop waits for the TTI semaphore to be released (the last
\* worker_end); workers_pool.stop stops the worker thread.
WorkersStop ==
  /\ main = "common_stop" /\ ~busy
  /\ main' = "nprach_stop"
  /\ pool' = "done"
  /\ UNCHANGED <<txrx, txrxRunning, busy, nprach, nprachRunning, detector, pend,
                 freeBufs, windows, stackVars, enbStarted>>

\* nprach_worker::stop: running = false and sonica_nprach_free(&nprach),
\* then push nullptr and join the NPRACH thread.
NprachStopFree ==
  /\ main = "nprach_stop"
  /\ main' = "nprach_push"
  /\ nprachRunning' = FALSE
  /\ detector' = "freed"
  /\ UNCHANGED <<txrx, txrxRunning, busy, pool, nprach, pend, freeBufs, windows,
                 stackVars, enbStarted>>

NprachStopJoin ==
  /\ main = "nprach_push"
  /\ main' = "nprach_join"
  /\ pend' = Append(pend, "null")
  /\ UNCHANGED <<txrx, txrxRunning, busy, pool, nprach, nprachRunning, detector,
                 freeBufs, windows, stackVars, enbStarted>>

\* After the join phy::stop returns: enb_nb::stop goes on with the stack;
\* on the failed-init path ~enb_nb has already destroyed it.
NprachJoined ==
  /\ main = "nprach_join" /\ nprach = "done"
  /\ main' = IF enbStarted THEN "stack_stop" ELSE "done"
  /\ UNCHANGED <<phyVars, stackVars, enbStarted>>

\* enb_stack_nb::stop (started, as enb_nb::init succeeded): queue stop_impl
\* and join the stack thread; then the radio is stopped and started cleared.
StackStop ==
  /\ main = "stack_stop"
  /\ main' = "stack_join"
  /\ stopQ' = TRUE
  /\ UNCHANGED <<phyVars, mac, stackObj, stackThread, stackStarted, syncQ, macQ, enbStarted>>

StackJoin ==
  /\ main = "stack_join" /\ stackThread = "done"
  /\ main' = "done"
  /\ enbStarted' = FALSE
  /\ UNCHANGED <<phyVars, stackVars>>

-----------------------------------------------------------------------------
(* The TX/RX thread: txrx::run_thread *)

TxRxTop ==
  /\ txrx = "top"
  /\ txrx' = IF txrxRunning THEN "wait" ELSE "done"
  /\ UNCHANGED <<main, txrxRunning, busy, pool, nprach, nprachRunning, detector,
                 pend, freeBufs, windows, stackVars, enbStarted>>

\* wait_worker returns the worker once its last subframe has ended (NULL
\* once the pool is stopped); the worker is started and new_tti may
\* complete an NPRACH window, which goes to the NPRACH thread if a pool
\* buffer was free.
TxRxIter ==
  /\ txrx = "wait" /\ ~busy
  /\ txrx' = "top"
  /\ IF pool = "done"
     THEN /\ txrxRunning' = FALSE
          /\ UNCHANGED <<busy, pend, freeBufs, windows>>
     ELSE /\ busy' = TRUE
          /\ UNCHANGED txrxRunning
          /\ \/ UNCHANGED <<pend, freeBufs, windows>>
             \/ /\ windows < MaxWindows /\ freeBufs > 0
                /\ windows' = windows + 1
                /\ freeBufs' = freeBufs - 1
                /\ pend' = Append(pend, "buf")
  /\ UNCHANGED <<main, pool, nprach, nprachRunning, detector, stackVars, enbStarted>>

\* phy_common::worker_end: radio tx, then stack->tti_clock() queues a
\* tti_clock task on the stack object (counted up to MaxTti).
WorkerEnd ==
  /\ busy
  /\ busy' = FALSE
  /\ syncQ' = IF syncQ < MaxTti THEN syncQ + 1 ELSE syncQ
  /\ UNCHANGED <<main, txrx, txrxRunning, pool, nprach, nprachRunning, detector,
                 pend, freeBufs, windows, mac, stackObj, stackThread, stackStarted,
                 macQ, stopQ, enbStarted>>

-----------------------------------------------------------------------------
(* The NPRACH thread: nprach_worker::run_thread and run_tti *)

\* The thread's first statement: running = true.
NprachThreadStart ==
  /\ nprach = "start"
  /\ nprach' = "wait"
  /\ nprachRunning' = TRUE
  /\ UNCHANGED <<main, txrx, txrxRunning, busy, pool, detector, pend, freeBufs,
                 windows, stackVars, enbStarted>>

\* wait_pop, then "if (running && b)"; otherwise running = false and the
\* loop ends (the buffer popped is not given back).
NprachPop ==
  /\ nprach = "wait" /\ pend # <<>>
  /\ pend' = Tail(pend)
  /\ IF nprachRunning /\ Head(pend) = "buf"
     THEN nprach' = "detect" /\ UNCHANGED nprachRunning
     ELSE nprach' = "done" /\ nprachRunning' = FALSE
  /\ UNCHANGED <<main, txrx, txrxRunning, busy, pool, detector, freeBufs, windows,
                 stackVars, enbStarted>>

\* run_tti: sonica_nprach_detect and sonica_nprach_detect_reset on the
\* detector; a preamble found calls mac::rach_detected, which queues the
\* RACH task.  Then the buffer goes back to the pool and the loop tests
\* running.
NprachTti(found) ==
  /\ nprach = "detect"
  /\ macQ' = IF found THEN macQ + 1 ELSE macQ
  /\ freeBufs' = freeBufs + 1
  /\ nprach' = IF nprachRunning THEN "wait" ELSE "done"
  /\ UNCHANGED <<main, txrx, txrxRunning, busy, pool, nprachRunning, detector, pend,
                 windows, mac, stackObj, stackThread, stackStarted, syncQ, stopQ,
                 enbStarted>>

-----------------------------------------------------------------------------
(* The stack thread: enb_stack_nb::run_thread *)

\* mac::stop: ue_db cleared, the softbuffers freed, started = false.
MacStop == mac' = "stopped"

\* One task of the multiqueue: tti_clock_impl, a RACH task, or stop_impl
\* (mac.stop clears started, the queues are erased, started = false, and
\* the loop ends).
StackTask ==
  /\ stackThread = "run"
  /\ \/ /\ syncQ > 0
        /\ syncQ' = syncQ - 1
        /\ UNCHANGED <<mac, stackThread, stackStarted, macQ, stopQ>>
     \/ /\ macQ > 0
        /\ macQ' = macQ - 1
        /\ UNCHANGED <<mac, stackThread, stackStarted, syncQ, stopQ>>
     \/ /\ stopQ
        /\ MacStop
        /\ stopQ' = FALSE /\ syncQ' = 0 /\ macQ' = 0
        /\ stackStarted' = FALSE
        /\ stackThread' = "done"
  /\ UNCHANGED <<main, phyVars, stackObj, enbStarted>>

-----------------------------------------------------------------------------
LcInit ==
  /\ main = "phy_init"
  /\ txrx = "off" /\ txrxRunning = FALSE /\ busy = FALSE /\ pool = "off"
  /\ nprach = "off" /\ nprachRunning = FALSE /\ detector = "none"
  /\ pend = <<>> /\ freeBufs = PoolSize /\ windows = 0
  /\ mac = "new" /\ stackObj = "alive" /\ stackThread = "off"
  /\ stackStarted = FALSE /\ syncQ = 0 /\ macQ = 0 /\ stopQ = FALSE
  /\ enbStarted = FALSE

LcNext ==
  \/ PhyInitStep \/ StackInitStep \/ SignalStop \/ DestroyStack
  \/ TxRxStop \/ TxRxJoin \/ WorkersStop \/ NprachStopFree \/ NprachStopJoin
  \/ NprachJoined \/ StackStop \/ StackJoin
  \/ TxRxTop \/ TxRxIter \/ WorkerEnd
  \/ NprachThreadStart \/ NprachPop \/ \E found \in BOOLEAN : NprachTti(found)
  \/ StackTask

LcSpec == LcInit /\ [][LcNext]_vars

-----------------------------------------------------------------------------
(* Properties *)

LcTypeOK ==
  /\ txrx \in {"off", "top", "wait", "done"} /\ pool \in {"off", "run", "done"}
  /\ nprach \in {"off", "start", "wait", "detect", "done"}
  /\ detector \in {"none", "alloc", "freed"}
  /\ pend \in Seq({"buf", "null"}) /\ freeBufs \in 0 .. PoolSize
  /\ mac \in {"new", "started", "stopped"} /\ stackObj \in {"alive", "destroyed"}
  /\ syncQ \in 0 .. MaxTti

\* The NPRACH thread runs run_tti only on a live detector:
\* nprach_worker::stop calls sonica_nprach_free before it pushes the
\* nullptr and joins the thread, which may be inside sonica_nprach_detect.
DetectorLive == nprach = "detect" => detector = "alloc"
=============================================================================
