----------------------------- MODULE EnbControl -----------------------------
(***************************************************************************)
(* The eNB's control path: the PHY timing threads (TxRx) driving the stack *)
(* thread (enb_stack_nb::run_thread), which runs the MAC's RACH and PDU    *)
(* tasks, the S1AP tasks and the tti_clock tasks that run rrc::tti_clock   *)
(* (Rrc).                                                                  *)
(*                                                                         *)
(* The stack thread pops one task at a time from a task_multiqueue: the    *)
(* sync queue (tti_clock, pushed by worker_end), the MAC queue (the RACH   *)
(* task of rach_detected, process_pdus pushed by crc_info) and the MME     *)
(* queue (handle_mme_rx_packet).  Each queue is FIFO; which non-empty      *)
(* queue is served next is left open.  The UE and the MME are the          *)
(* environment: a UE's UL PDU reaches crc_info, the MME sends a DL NAS     *)
(* message or a UE Context Release Command for a user it has a context of. *)
(***************************************************************************)
EXTENDS TxRx, Rrc, SequencesExt, FiniteSets

CONSTANTS
  MaxInputs,     \* bound on RACHs, UE PDUs and MME messages
  MaxSyncLag     \* bound on tti_clock tasks waiting in the sync queue

VARIABLES
  enb,           \* the Rrc state record
  macQ,          \* the MAC task queue: [kind, rnti, lcid, msg]
  mmeQ,          \* the MME task queue: [kind, rnti]
  syncQ,         \* tti_clock tasks in the sync queue
  nextRnti,      \* mac::last_rnti, a position in RntiRing
  inputs         \* environment inputs so far

ctrlVars == <<enb, macQ, mmeQ, syncQ, nextRnti, inputs>>
vars == <<txrxVars, ctrlVars>>

\* allocate_rnti counts up and wraps; the model's rntis are reused in order.
RntiRing == SetToSortSeq(Rntis, <)

\* The UL messages a UE sends: the Connection Request in Msg3 on SRB0,
\* Setup Complete and UL Information Transfer on SRB1bis.
UlPdus == {<<Srb0, "conreq">>, <<Srb1bis, "setup_complete">>, <<Srb1bis, "ul_info">>}

-----------------------------------------------------------------------------
(* PHY threads *)

CtrlRxIteration == RxIteration /\ UNCHANGED ctrlVars

\* worker_end: radio tx, then stack->tti_clock() queues tti_clock_impl.
CtrlWorkerEnd ==
  /\ WorkerEnd
  /\ syncQ < MaxSyncLag
  /\ syncQ' = syncQ + 1
  /\ UNCHANGED <<enb, macQ, mmeQ, nextRnti, inputs>>

\* nprach_worker::run_tti: a detected preamble calls mac::rach_detected,
\* which allocates an rnti, puts a new ue into ue_db and queues the RACH
\* task.
RachDetected ==
  LET u == RntiRing[nextRnti] IN
  /\ enb' = [enb EXCEPT !.mac = @ \cup {u}]
  /\ macQ' = Append(macQ, [kind |-> "rach", rnti |-> u, lcid |-> Srb0, msg |-> "none"])
  /\ nextRnti' = (nextRnti % Len(RntiRing)) + 1
  /\ inputs' = inputs + 1

CtrlNprachRun ==
  \E found \in IF inputs < MaxInputs THEN BOOLEAN ELSE {FALSE} :
    /\ NprachRun(found)
    /\ IF found THEN RachDetected ELSE UNCHANGED <<enb, macQ, nextRnti, inputs>>
    /\ UNCHANGED <<mmeQ, syncQ>>

-----------------------------------------------------------------------------
(* Environment *)

\* A UE's PDU decoded for an rnti in ue_db: crc_info queues process_pdus.
UeUl(u, pdu) ==
  /\ inputs < MaxInputs
  /\ u \in enb.mac
  /\ macQ' = Append(macQ, [kind |-> "pdus", rnti |-> u, lcid |-> pdu[1], msg |-> pdu[2]])
  /\ inputs' = inputs + 1
  /\ UNCHANGED <<txrxVars, enb, mmeQ, syncQ, nextRnti>>

\* An S1AP message from the MME for a UE context it holds.
MmeRx(u, kind) ==
  /\ inputs < MaxInputs
  /\ u \in enb.s1
  /\ mmeQ' = Append(mmeQ, [kind |-> kind, rnti |-> u])
  /\ inputs' = inputs + 1
  /\ UNCHANGED <<txrxVars, enb, macQ, syncQ, nextRnti>>

-----------------------------------------------------------------------------
(* Stack thread tasks *)

\* The RACH task: sched ue_cfg, rrc add_user, dl_rach_info.
StackRach ==
  /\ macQ # <<>> /\ Head(macQ).kind = "rach"
  /\ enb' = AddUser(enb, Head(macQ).rnti)
  /\ macQ' = Tail(macQ)
  /\ UNCHANGED <<txrxVars, mmeQ, syncQ, nextRnti, inputs>>

\* mac::process_pdus: the ue's PDU goes to RLC, which delivers it to RRC
\* (rrc::write_pdu) on a bearer it holds; a ue no longer in ue_db has no
\* PDUs.
StackPdus ==
  /\ macQ # <<>> /\ Head(macQ).kind = "pdus"
  /\ LET p == Head(macQ) IN
     enb' = IF p.rnti \in enb.mac /\ p.lcid \in enb.rlc[p.rnti]
            THEN WritePdu(enb, p.rnti, p.lcid, p.msg) ELSE enb
  /\ macQ' = Tail(macQ)
  /\ UNCHANGED <<txrxVars, mmeQ, syncQ, nextRnti, inputs>>

\* s1ap::handle_mme_rx_msg, for a UE context S1AP still holds: DL NAS
\* Transport goes to rrc::write_dl_info; a UE Context Release Command ends
\* the S1AP context and calls rrc::release_complete.
StackMme ==
  /\ mmeQ # <<>>
  /\ LET m == Head(mmeQ) IN
     enb' = IF m.rnti \notin enb.s1 THEN enb
            ELSE IF m.kind = "dl_info" THEN WriteDlInfo(enb, m.rnti)
            ELSE ReleaseComplete([enb EXCEPT !.s1 = @ \ {m.rnti}], m.rnti)
  /\ mmeQ' = Tail(mmeQ)
  /\ UNCHANGED <<txrxVars, macQ, syncQ, nextRnti, inputs>>

\* enb_stack_nb::tti_clock_impl: deferred tasks, timers, rrc::tti_clock.
StackTtiClock ==
  /\ syncQ > 0
  /\ syncQ' = syncQ - 1
  /\ enb' = RrcTtiClock(enb)
  /\ UNCHANGED <<txrxVars, macQ, mmeQ, nextRnti, inputs>>

-----------------------------------------------------------------------------
CtrlInit ==
  /\ TxRxInit
  /\ enb = RrcInitState
  /\ macQ = <<>> /\ mmeQ = <<>>
  /\ syncQ = 0
  /\ nextRnti = 1
  /\ inputs = 0

CtrlNext ==
  \/ CtrlRxIteration \/ CtrlWorkerEnd \/ CtrlNprachRun
  \/ \E u \in Rntis :
       \/ \E pdu \in UlPdus : UeUl(u, pdu)
       \/ \E kind \in {"dl_info", "release"} : MmeRx(u, kind)
  \/ StackRach \/ StackPdus \/ StackMme \/ StackTtiClock

\* The PHY threads run with the radio clock; the stack thread serves
\* every non-empty queue of its task_multiqueue in turn.
CtrlFairness ==
  /\ WF_vars(CtrlRxIteration) /\ WF_vars(CtrlWorkerEnd) /\ WF_vars(CtrlNprachRun)
  /\ WF_vars(StackRach) /\ WF_vars(StackPdus) /\ WF_vars(StackMme)
  /\ WF_vars(StackTtiClock)

CtrlSpec == CtrlInit /\ [][CtrlNext]_vars /\ CtrlFairness

-----------------------------------------------------------------------------
(* Properties *)

CtrlTypeOK ==
  /\ TxRxTypeOK
  /\ RrcStateOK(enb)
  /\ syncQ \in 0 .. MaxSyncLag
  /\ nextRnti \in 1 .. Len(RntiRing)
  /\ inputs \in 0 .. MaxInputs

\* The (hfn, tti_tx_dl) pairs txrx::run_thread hands to the worker start at
\* subframe 0 of hyperframe 0 and advance by exactly one subframe per call
\* across both wraps: the tx-HFN test (tti >= 10240 - 4 - 1) and the hfn
\* update (tti >= 10240 - 1) implement the abstract transmit clock.
TxClockRefined == TxAbs!TxSpec

\* Every NPRACH buffer is somewhere: free in buffer_pool, being filled by
\* new_tti, or queued for the NPRACH thread, which gives it back.
PrachBuffersConserved ==
  freeBufs + Len(prachQ) + (IF sfCnt > 0 THEN 1 ELSE 0) = PoolSize

\* A UE Context Release Command for a user RRC holds ends with the user
\* gone from RRC, MAC, RLC and PDCP: release_complete queues REL_USER,
\* process_release_complete queues REM_USER and the same tti_clock drain
\* runs rem_user.
ReleaseRemovesUser ==
  \A u \in Rntis :
    (enb.users[u] # "none" /\ \E i \in DOMAIN mmeQ : mmeQ[i] = [kind |-> "release", rnti |-> u])
      ~> (enb.users[u] = "none" /\ u \notin enb.mac /\ u \notin enb.pdcp /\ enb.rlc[u] = {})
=============================================================================
