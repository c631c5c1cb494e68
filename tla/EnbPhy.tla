------------------------------- MODULE EnbPhy -------------------------------
(***************************************************************************)
(* The scheduler (CarrierSched) driven by the PHY subframe worker          *)
(* (SfWorker) through the MAC's PHY interface (mac::get_dl_sched,          *)
(* mac::get_ul_sched, mac::crc_info and the per-user receive buffers of    *)
(* ue::request_buffer / push_pdu / deallocate_pdu).                        *)
(*                                                                         *)
(* One call of sf_worker::work_imp is two steps: WorkerDl is get_dl_sched  *)
(* (the scheduler's DL call and the copy of its result into                *)
(* dl_sched_res_list[0]); WorkerUl is get_ul_sched and the rest of          *)
(* work_imp (arming the UL record, work_ul with its crc_info, work_dl).    *)
(* The stack thread may run between the two, as in CarrierSched.  Received *)
(* NPUSCHs reach ulRx, the stack's process_pdus queue, only through the    *)
(* worker's crc_info calls.                                                *)
(*                                                                         *)
(* The ghost variable ulStarts holds, for every UL reservation the         *)
(* scheduler has made and whose first subframe has not been received yet, *)
(* that subframe and the user: where a UE transmits its NPUSCH.           *)
(***************************************************************************)
EXTENDS CarrierSched, SfWorker

VARIABLES
  macDl,     \* dl_grants of work_imp: the result get_dl_sched returned
  macBuf,    \* ue::pending_buffers: the HARQ pids with a requested buffer
  ulStarts   \* ghost: <<first subframe, rnti, kind>> of each pending UL reservation

allVars == <<vars, phyVars, macDl, macBuf, ulStarts>>

NofRxHarqProc == 8                    \* the ue's nof_rx_harq_proc
Pid(t) == t % NofRxHarqProc

NoDl == [kind |-> "none", rnti |-> NoRnti, isf |-> 0, isNew |-> FALSE]
\* The number of subframes from b forward to a on the TTI ring.
TtiGap(a, b) == (a - b + NTti) % NTti

Sib2ISf == 6                          \* ra_dl_sib2.alloc.i_sf

-----------------------------------------------------------------------------
(* mac::get_dl_sched: every data, RAR and broadcast grant of the scheduler *)
(* result is copied into the one dl_sched_res_list[0], in that order, so   *)
(* the last one wins.  A data grant of a user not in ue_db is skipped.     *)
(* The result is read off the claims the DL call has just made.           *)
NewDl(tx) == dlUse'[tx] \ dlUse[tx]

RarRnti(tx) == {u \in Rntis : <<"rardci", u>> \in NewDl(tx)}

\* sf_sched::set_bc_sched_result: the broadcast DCI and is_new_sib.
SetBcSchedResult(k, isNew, isf) == [kind |-> k, rnti |-> SiRnti, isf |-> isf, isNew |-> isNew]

\* sf_sched::set_rar_sched_result: a format N1 DCI with i_sf 0 for the RAR.
SetRarSchedResult(u) == [NoDl EXCEPT !.kind = "rar", !.rnti = u, !.isf = 0]

MacDlResult ==
  LET tx == TtiTxDl(tti) IN
  CASE <<"sib1", SiRnti>> \in NewDl(tx) ->
         SetBcSchedResult("sib1", sib1SfIdx = 0, 0)
    [] <<"sib2", SiRnti>> \in NewDl(tx) ->
         SetBcSchedResult("sib2", FALSE, Sib2ISf)
    [] RarRnti(tx) # {} ->
         SetRarSchedResult(CHOOSE u \in RarRnti(tx) : TRUE)
    [] \E d \in sfData' : d[1] \in ueDb ->
         LET d == CHOOSE d \in sfData' : d[1] \in ueDb
         IN  [NoDl EXCEPT !.kind = "data", !.rnti = d[1], !.isf = d[2]]
    [] OTHER -> NoDl

\* generate_formatN0: tbs_table_npusch[i_tbs][i_ru] / 8 for the Msg3 grant
\* (mcs 0, 4 subframes) and the two NEWTX grants (mcs 9 with 4, mcs 10
\* with 6 subframes), i_ru = 5 for 6 subframes and 3 otherwise.
NpuschTbsBits == [m \in {0, 9, 10} |->
  CASE m = 0 -> <<16, 32, 56, 88, 120, 152, 208, 256>>
    [] m = 9 -> <<136, 296, 456, 616, 776, 936, 0, 0>>
    [] m = 10 -> <<144, 328, 504, 680, 872, 1000, 0, 0>>]
IRu(len) == IF len = 6 THEN 5 ELSE 3
UlTbs(mcs, len) == NpuschTbsBits[mcs][IRu(len) + 1] \div 8
UlMcs(len) == IF len = 6 THEN 10 ELSE 9

\* set_ul_sched_result and get_ul_sched for tti_tx_ul: the Msg3 put into
\* this sf_sched by an earlier RAR comes before the NEWTX grant of this
\* call; grants of users not in ue_db are skipped.
Msg3Users == {m[2] : m \in {m \in msg3Allocs : m[1] = tti}} \cap ueDb
NewtxUsers ==
  {u \in ueDb : <<"npusch", u>> \in ulUse'[TtiTxUl(tti)] \ ulUse[TtiTxUl(tti)]}

UlGrantOf(u, msg3) ==
  LET len == IF msg3 THEN Msg3Len ELSE ulGrant'[u][2]
  IN  [rnti |-> u, npdcch |-> ~msg3, len |-> len,
       tbs |-> UlTbs(IF msg3 THEN 0 ELSE UlMcs(len), len),
       buf |-> Pid(TtiTxUl(tti)) \notin macBuf[u]]

MacUlGrants ==
  [i \in 1 .. Cardinality(Msg3Users) |-> UlGrantOf(SetToSeq(Msg3Users)[i], TRUE)]
    \o [i \in 1 .. Cardinality(NewtxUsers) |-> UlGrantOf(SetToSeq(NewtxUsers)[i], FALSE)]

\* ue::request_buffer(tti_tx_ul) for each grant: a pid whose buffer was
\* requested and never pushed gives no buffer (nullptr).
Requested(ul) ==
  [u \in Rntis |-> IF \E i \in DOMAIN ul : ul[i].rnti = u
                   THEN macBuf[u] \cup {Pid(TtiTxUl(tti))} ELSE macBuf[u]]

\* mac::crc_info: for a user in ue_db, push_pdu (crc) or deallocate_pdu
\* of the buffer of pid tti % 8; a pushed PDU is queued for process_pdus.
\* ue::push_pdu and ue::deallocate_pdu: the pid's requested buffer, if
\* any, is queued or freed, and its slot emptied.
PushPdu(buf, u, p) == [buf EXCEPT ![u] = @ \ {p}]
DeallocatePdu(buf, u, p) == [buf EXCEPT ![u] = @ \ {p}]

MacCrcInfo(crc, buf) ==
  IF ~crc.call \/ crc.rnti \notin ueDb
  THEN macBuf' = buf /\ UNCHANGED ulRx
  ELSE LET p == Pid(crc.tti) IN
       /\ macBuf' = IF crc.crc THEN PushPdu(buf, crc.rnti, p) ELSE DeallocatePdu(buf, crc.rnti, p)
       /\ ulRx' = IF crc.crc /\ p \in buf[crc.rnti]
                  THEN ulRx \cup {<<crc.kind, crc.rnti>>} ELSE ulRx

-----------------------------------------------------------------------------
(* Worker steps *)

WorkerDl ==
  /\ SchedDl
  /\ macDl' = MacDlResult
  /\ ulStarts' = ulStarts \cup
       {<<TtiAdd(RarDataSf, Msg3RxDelay), m[2], "msg3">> : m \in msg3Allocs' \ msg3Allocs}
  /\ UNCHANGED <<phyVars, macBuf>>

WorkerUl ==
  /\ SchedUlCore
  /\ LET ul == MacUlGrants IN
     /\ WorkImp(tti, macDl, ul)
     /\ MacCrcInfo(lastCrc', Requested(ul))
  /\ macDl' = NoDl
  /\ ulStarts' = {s \in ulStarts : s[1] # tti} \cup
       {<<TtiTxUl(tti), u, "npusch">> : u \in NewtxUsers}

(* Stack-thread steps: a RACH creates a new MAC ue object (no buffers);    *)
(* ue_rem destroys it.                                                     *)
EnbRach ==
  /\ RachTask
  /\ macBuf' = [macBuf EXCEPT ![RntiRing[nextRnti]] = {}]
  /\ UNCHANGED <<phyVars, macDl, ulStarts>>

EnbUeRem ==
  /\ UeRem
  /\ macBuf' = [u \in Rntis |-> IF u \in ueDb' THEN macBuf[u] ELSE {}]
  /\ UNCHANGED <<phyVars, macDl, ulStarts>>

StackStep ==
  /\ \/ ProcessPdu \/ RrcConnReq \/ RlcWrite
     \/ \E u \in Rntis : RrcConRes(u) \/ RrcSrb0(u)
  /\ UNCHANGED <<phyVars, macDl, macBuf, ulStarts>>

EnbInit ==
  /\ Init
  /\ PhyInit
  /\ macDl = NoDl
  /\ macBuf = [u \in Rntis |-> {}]
  /\ ulStarts = {}

EnbNext == WorkerDl \/ WorkerUl \/ EnbRach \/ EnbUeRem \/ StackStep

EnbFairness ==
  /\ WF_allVars(WorkerDl) /\ WF_allVars(WorkerUl)
  /\ WF_allVars(RrcConnReq /\ UNCHANGED <<phyVars, macDl, macBuf, ulStarts>>)
  /\ \A u \in Rntis :
       /\ WF_allVars(RrcConRes(u) /\ UNCHANGED <<phyVars, macDl, macBuf, ulStarts>>)
       /\ WF_allVars(RrcSrb0(u) /\ UNCHANGED <<phyVars, macDl, macBuf, ulStarts>>)

EnbSpec == EnbInit /\ [][EnbNext]_allVars /\ EnbFairness

-----------------------------------------------------------------------------
(* Properties *)

EnbTypeOK ==
  /\ TypeOK
  /\ PhyTypeOK
  /\ macDl.kind \in {"none", "sib1", "sib2", "rar", "data"}
  /\ macBuf \in [Rntis -> SUBSET (0 .. NofRxHarqProc - 1)]
  /\ ulStarts \subseteq Ttis \X Rntis \X {"msg3", "npusch"}

\* Every SIB1 subframe the scheduler allocates goes on the air as SIB1: the
\* worker's SIB1 configuration (created on is_new_sib, cleared after
\* nof_sf * nof_rep subframes) stays in step with bc_sched::sib1_sf_idx.
Sib1OnAir ==
  [][phase = "ul" /\ phase' = "dl" /\ <<"sib1", SiRnti>> \in dlUse[TtiTxDl(tti)]
       => onAir'.sib1]_allVars

\* The receiver listens where the UE sends its Msg3: in the subframe the
\* scheduler reserved as the first of a user's Msg3 (RAR data subframe +
\* 13), work_ul configures the NPUSCH receiver for that user.  The worker
\* arms the record with npusch_start = tti_tx_dl + 9 of the step that
\* handed the Msg3 grant over, tti_rx + 9 after the RAR DCI.
Msg3RxAligned ==
  [][phase = "ul" /\ phase' = "dl" =>
       \A s \in ulStarts :
         s[1] = tti /\ s[3] = "msg3" /\ s[2] \in ueDb =>
           ulDec'.has /\ ulDec'.rnti = s[2] /\ ulDec'.num = 1]_allVars

\* The worker never arms a UL grant without a receive buffer: the buffer
\* mac::get_ul_sched asked of ue::request_buffer for the grant's HARQ pid
\* is there, so work_ul has somewhere to copy the decoded TB.  A pid whose
\* buffer was requested and never pushed or freed makes request_buffer
\* return nullptr.
UlBufferHeld == ugrant.has => ugrant.buf

\* No queued NPDSCH grant misses its start subframe: after work_dl of
\* subframe tti_tx_dl, every grant left in dl_pending_grants starts later.
\* A grant whose start has passed is never activated and blocks the FIFO.
DlGrantsNotStale ==
  \A i \in DOMAIN dlPending : TtiGap(dlPending[i].start, onAir.sf) \in 1 .. 20

\* The PHY never puts an NPDSCH into a subframe that carries an NPDCCH:
\* the queued grants (dl_dci_to_grant from the DCI subframe), the SIB2
\* configuration and the per-subframe DCIs of work_dl keep apart.
DciNotUnderNpdsch == onAir.dci # {} => onAir.pdsch = NoRnti

\* The synchronisation and broadcast signals go out intact: a subframe in
\* which put_base wrote the NPBCH, NPSS or NSSS carries no NPDCCH, no
\* NPDSCH and no SIB1, so nothing written after put_base overwrites them.
\* The scheduler's is_valid_dl_sf, bc_sched's SIB1 subframe and the
\* worker's guard on the NPDSCH must all agree with put_base.
SyncSignalsClear ==
  onAir.base \cap {"npbch", "npss", "nsss"} # {} =>
    onAir.dci = {} /\ onAir.pdsch = NoRnti /\ ~onAir.sib1
=============================================================================
