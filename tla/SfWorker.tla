------------------------------ MODULE SfWorker ------------------------------
(***************************************************************************)
(* The PHY subframe worker (sf_worker::work_imp) of the eNB: once per      *)
(* received subframe tti_rx it takes the MAC's DL result for tti_rx + 4    *)
(* and UL result for tti_rx + 13, arms the uplink record of the first UL   *)
(* grant, runs the NPUSCH receiver (work_ul) and builds the downlink       *)
(* subframe (work_dl).  phy.cc starts one worker, so the worker's state is *)
(* touched by one thread only.                                             *)
(*                                                                         *)
(* The worker's state:                                                     *)
(*   dlPending   dl_pending_grants, the FIFO of user/RAR NPDSCH grants     *)
(*   npdsch      npdsch_active, npdsch_rnti and npdsch_cfg (nof_sf, num_sf) *)
(*   sib1Cfg     sib1_npdsch_cfg.sf_idx (0: no SIB1 configuration)         *)
(*   ugrant      has_ugrant, npusch_rnti, npusch_start, ugrant, npusch_data*)
(*   ulDec       enb_ul.has_ul_grant and enb_ul.npusch_cfg                 *)
(*   msgCounter  the static msg_counter of the stub-data path             *)
(* and two ghost variables recording what the step put on the air          *)
(* (onAir) and the crc_info call it made (lastCrc).                        *)
(*                                                                         *)
(* A MAC DL result is a record [kind, rnti, isf, isNew]; kind "none" is no *)
(* grant.  A MAC UL result is the sequence ul_sched_res.npusch of records  *)
(* [rnti, npdcch, len, tbs, buf]: needs_npdcch, the grant length in        *)
(* subframes, the TB size in bytes and whether request_buffer gave a       *)
(* buffer.  Signal processing is abstracted: a decode succeeds or fails.  *)
(***************************************************************************)
EXTENDS NbTime, Integers, Sequences

NoRnti == 0

\* srslte_ra_nbiot_dl_dci_to_grant with i_delay = 0: the NPDSCH starts in
\* the first valid DL subframe from the DCI subframe + 5.
NpdschDelay == 5
DlGrantStart(t) == NextValidDlSf(TtiAdd(t, NpdschDelay))

\* srslte_ra_nbiot_ul_dci_to_grant with i_delay = 0: tx_tti = tti + k0 + 1
\* with k0 = 8, counted from tti_tx_dl.
NpuschDelay == 9
NpuschTxTti(t) == TtiAdd(t, NpuschDelay)

\* The stub byte strings of work_ul and their lengths.
DummyLen == 11       \* dummy_data: DPR + CCCH (an RRC Connection Request)
Dummy2Len == 125     \* dummy_data2
BsrStubLen == 15     \* dummy_data_bsr2

NoCrc == [call |-> FALSE, tti |-> 0, rnti |-> NoRnti, len |-> 0, crc |-> FALSE,
          kind |-> "none", real |-> FALSE]
NoAir == [sf |-> NTti, base |-> {}, dci |-> {}, pdsch |-> NoRnti, sib1 |-> FALSE]
Idle == [active |-> FALSE, rnti |-> NoRnti, nsf |-> 0, num |-> 0]

VARIABLES dlPending, npdsch, sib1Cfg, ugrant, ulDec, msgCounter, onAir, lastCrc

phyVars == <<dlPending, npdsch, sib1Cfg, ugrant, ulDec, msgCounter, onAir, lastCrc>>

-----------------------------------------------------------------------------
(* work_imp, before work_ul: the first UL grant of the result is recorded  *)
(* in the single has_ugrant slot, replacing whatever it held.             *)
ArmUgrant(ug, t, ul) ==
  IF ul = <<>> THEN ug
  ELSE [has |-> TRUE, rnti |-> ul[1].rnti, start |-> NpuschTxTti(TtiTxDl(t)),
        len |-> ul[1].len, tbs |-> ul[1].tbs, msg3 |-> ~ul[1].npdcch,
        buf |-> ul[1].buf]

\* sonica_enb_ul_nbiot_cfg_grant: a new NPUSCH configuration (num_sf = 0).
CfgGrant(ug) == [has |-> TRUE, rnti |-> ug.rnti, num |-> 0, len |-> ug.len,
                 tbs |-> ug.tbs, msg3 |-> ug.msg3]

\* The crc_info call of work_ul after a decode of the TB of decoder dec
\* that succeeded (ok) or returned -1, with the record ug: the stub data
\* paths report a failed 11- or 125-byte TB, and the first failed TB of
\* another size, as received.
CrcCall(ug, dec, ok, counter) ==
  LET base == [NoCrc EXCEPT !.call = TRUE, !.tti = ug.start, !.rnti = ug.rnti]
  IN  CASE ok -> [base EXCEPT !.len = dec.tbs, !.crc = TRUE, !.real = TRUE,
                              !.kind = IF dec.msg3 THEN "msg3" ELSE "npusch"]
        [] dec.tbs = DummyLen -> [base EXCEPT !.len = DummyLen, !.crc = TRUE, !.kind = "msg3"]
        [] dec.tbs = Dummy2Len -> [base EXCEPT !.len = Dummy2Len, !.crc = TRUE, !.kind = "npusch"]
        [] counter = 0 -> [base EXCEPT !.len = BsrStubLen, !.crc = TRUE, !.kind = "npusch"]
        [] OTHER -> [base EXCEPT !.len = dec.tbs]

\* work_ul with the armed record ug: configure the receiver when tti_rx is
\* the record's start; while the receiver holds a grant, collect one more
\* subframe (sonica_enb_ul_nbiot_decode_npusch) and decode on the last.
\* sonica_enb_ul_nbiot_decode_npusch: collect one more subframe; on the
\* grant's last subframe decode the TB and drop the grant (has_ul_grant).
DecodeNpusch(dec) == [dec EXCEPT !.num = @ + 1, !.has = dec.num + 1 < dec.len]

WorkUl(t, ug) ==
  LET dec == IF ug.has /\ t = ug.start THEN CfgGrant(ug) ELSE ulDec
      nxt == DecodeNpusch(dec)
  IN  IF ~dec.has
      THEN /\ ugrant' = ug /\ ulDec' = dec
           /\ UNCHANGED msgCounter /\ lastCrc' = NoCrc
      ELSE IF nxt.has
      THEN /\ ugrant' = ug /\ ulDec' = nxt
           /\ UNCHANGED msgCounter /\ lastCrc' = NoCrc
      ELSE \E ok \in BOOLEAN :
             LET crc == CrcCall(ug, dec, ok, msgCounter) IN
             /\ ulDec' = nxt
             /\ ugrant' = [ug EXCEPT !.has = FALSE]
             /\ lastCrc' = crc
             /\ msgCounter' = IF crc.len = BsrStubLen THEN msgCounter + 1 ELSE msgCounter

-----------------------------------------------------------------------------
(* work_dl: the broadcast and user grants of the MAC result, the NPDSCH   *)
(* FIFO, and the NPDSCH (SIB1 first) transmitted in subframe tti_tx_dl.   *)

\* SIB1: a new SIB1 configuration comes with is_new_sib, later SIB1
\* subframes reuse it while its sf_idx is above 0.
HasSib1Cfg(dl) == dl.kind = "sib1" /\ (dl.isNew \/ sib1Cfg > 0)

\* sib1_npdsch_cfg after the SIB1 put: the encoder advances sf_idx, and the
\* configuration is cleared once sf_idx reaches nof_sf * nof_rep.
Sib1DoneLate(n) == n = Sib1NumSf + 1
Sib1DoneEarly(n) == n = Sib1NumSf - 1
Sib1Done(n) == n = Sib1NumSf

Sib1Next(dl) ==
  LET n == (IF dl.isNew THEN 0 ELSE sib1Cfg) + 1
  IN  IF ~HasSib1Cfg(dl) THEN sib1Cfg ELSE IF Sib1Done(n) THEN 0 ELSE n

\* Another SIB (no NPDCCH) replaces npdsch_cfg at once, active or not.
AfterSib(dl) ==
  IF dl.kind = "sib2" THEN [active |-> TRUE, rnti |-> dl.rnti, nsf |-> NSfOfISf[dl.isf + 1], num |-> 0]
  ELSE npdsch

\* User data and RARs: the grant is queued and its DCI goes out now.
AfterQueue(dl, tx) ==
  IF dl.kind \in {"data", "rar"}
  THEN Append(dlPending, [start |-> DlGrantStart(tx), rnti |-> dl.rnti,
                          nsf |-> NSfOfISf[dl.isf + 1]])
  ELSE dlPending

\* The FIFO head becomes the NPDSCH only in exactly its start subframe and
\* only if no NPDSCH is active; otherwise it stays at the head.
HeadStartsLate(pd, act, tx) ==
  ~act.active /\ pd # <<>> /\ (tx - Head(pd).start + NTti) % NTti < NTti \div 2
HeadStarts(pd, act, tx) == ~act.active /\ pd # <<>> /\ Head(pd).start = tx

\* sonica_enb_dl_nbiot_put_base: clear the subframe, then NPBCH in subframe
\* 0, NPSS in subframe 5, NSSS in subframe 9 of even frames and the NRS in
\* every other subframe.
PutBaseOddNsss(t) ==
  (IF SfIdx(t) = 0 THEN {"npbch"} ELSE {})
    \cup CASE SfIdx(t) = 5 -> {"npss"}
         [] SfIdx(t) = 9 /\ Sfn(t) % 2 = 1 -> {"nsss"}
         [] OTHER -> {"nrs"}
PutBase(t) ==
  (IF SfIdx(t) = 0 THEN {"npbch"} ELSE {})
    \cup CASE SfIdx(t) = 5 -> {"npss"}
         [] SfIdx(t) = 9 /\ Sfn(t) % 2 = 0 -> {"nsss"}
         [] OTHER -> {"nrs"}

WorkDl(t, dl, ul) ==
  LET tx   == TtiTxDl(t)
      sib1 == HasSib1Cfg(dl)
      act  == AfterSib(dl)
      pd   == AfterQueue(dl, tx)
      go   == HeadStarts(pd, act, tx)
      cur  == IF go THEN [active |-> TRUE, rnti |-> Head(pd).rnti, nsf |-> Head(pd).nsf, num |-> 0]
              ELSE act
      put  == ~sib1 /\ cur.active /\ IsValidDlSf(tx)
      sent == [cur EXCEPT !.num = @ + 1]
      dcis == (IF ul # <<>> /\ ul[1].npdcch THEN {<<"ul", ul[1].rnti>>} ELSE {})
                \cup (IF dl.kind \in {"data", "rar"} THEN {<<"dl", dl.rnti>>} ELSE {})
  IN  /\ dlPending' = IF go THEN Tail(pd) ELSE pd
      /\ npdsch' = IF ~put THEN cur ELSE IF sent.num = sent.nsf THEN Idle ELSE sent
      /\ sib1Cfg' = Sib1Next(dl)
      /\ onAir' = [sf |-> tx, base |-> PutBase(tx), dci |-> dcis, pdsch |-> IF put THEN cur.rnti ELSE NoRnti,
                   sib1 |-> sib1]

\* sf_worker::work_imp for tti_rx = t with the MAC results dl and ul.
WorkImp(t, dl, ul) ==
  /\ WorkUl(t, ArmUgrant(ugrant, t, ul))
  /\ WorkDl(t, dl, ul)

PhyInit ==
  /\ dlPending = <<>>
  /\ npdsch = Idle
  /\ sib1Cfg = 0
  /\ ugrant = [has |-> FALSE, rnti |-> NoRnti, start |-> 0, len |-> 0, tbs |-> 0,
               msg3 |-> FALSE, buf |-> TRUE]
  /\ ulDec = [has |-> FALSE, rnti |-> NoRnti, num |-> 0, len |-> 0, tbs |-> 0, msg3 |-> FALSE]
  /\ msgCounter = 0
  /\ onAir = NoAir
  /\ lastCrc = NoCrc

PhyTypeOK ==
  /\ \A i \in DOMAIN dlPending : dlPending[i].start \in Ttis /\ dlPending[i].nsf \in Nat
  /\ npdsch.active \in BOOLEAN /\ npdsch.num \in 0 .. npdsch.nsf
  /\ sib1Cfg \in 0 .. Sib1NumSf - 1
  /\ ugrant.has \in BOOLEAN /\ ugrant.start \in Ttis /\ ugrant.len \in {0, 4, 6}
  /\ ulDec.has \in BOOLEAN /\ ulDec.num \in 0 .. ulDec.len
  /\ msgCounter \in {0, 1}
  /\ onAir.sf \in Ttis \cup {NTti}
  /\ lastCrc.len \in {0, DummyLen, BsrStubLen, 77, Dummy2Len}
=============================================================================
