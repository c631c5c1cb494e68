--------------------------------- MODULE Rrc ---------------------------------
(***************************************************************************)
(* The eNB's RRC (rrc.cc) and the per-user entities it creates and         *)
(* destroys in MAC, RLC and PDCP.  Every function here runs on the stack   *)
(* thread.  The state is one record, the layers' view of the users:        *)
(*   users  rrc::users: rnti -> ue::state ("none": not in the map)         *)
(*   rlc    the RLC bearers of each rnti ({}: no RLC entity)               *)
(*   pdcp   the rntis with a PDCP entity                                   *)
(*   mac    the keys of mac::ue_db                                         *)
(*   s1     the rntis with an S1AP UE context (initial_ue sent)            *)
(*   q      rrc::rx_pdu_queue of [rnti, lcid, msg]                         *)
(* Messages are abstracted to their type.  RLC, PDCP and S1AP are outside  *)
(* this repository: a PDU reaches RRC only on a bearer RLC holds; the RLC  *)
(* transmit queues RRC's DL messages go to are not modelled.               *)
(***************************************************************************)
EXTENDS Naturals, Sequences

CONSTANT Rntis

Srb0 == 0
Srb1 == 1
Srb1bis == 3
RemLcid == 65537   \* LCID_REM_USER 0xffff0001 (too wide for TLC; compared only)
RelLcid == 65538   \* LCID_REL_USER 0xffff0002

UeStates == {"idle", "wait_setup_complete", "wait_reconf"}
UlMsgs == {"conreq", "setup_complete", "ul_info"}

-----------------------------------------------------------------------------
(* Queue commands (the MAC, PDCP and S1AP interfaces). *)

\* rrc::write_pdu and rrc::rem_user_thread / release_complete: push to rx_pdu_queue.
WritePdu(st, u, lcid, msg) == [st EXCEPT !.q = Append(@, [rnti |-> u, lcid |-> lcid, msg |-> msg])]
RemUserThread(st, u) == WritePdu(st, u, RemLcid, "none")
ReleaseComplete(st, u) == WritePdu(st, u, RelLcid, "none")

\* rrc::add_user, from the RACH task: a new ue in IDLE with RLC (SRB0) and
\* PDCP entities; an rnti already in the map is left as it is.
AddUser(st, u) ==
  IF st.users[u] # "none" THEN st
  ELSE [st EXCEPT !.users[u] = "idle", !.rlc[u] = {Srb0}, !.pdcp = @ \cup {u}]

-----------------------------------------------------------------------------
(* Downlink: ue::send_dl_ccch (SRB0) and ue::send_dl_dcch (SRB1bis) pack  *)
(* the message and call rlc::write_sdu, which changes no state modelled.   *)
SendDlCcch(st, u) == st
SendDlDcch(st, u) == st

\* ue::send_connection_setup: MAC ue_set_crnti, RLC bearers 1 and 3, the
\* PDCP bearer, then the Connection Setup on SRB0.
SendConnectionSetup(st, u) ==
  SendDlCcch([st EXCEPT !.rlc[u] = @ \cup {Srb1, Srb1bis}], u)

IsIdle(st, u) == st.users[u] = "idle"

SendConnectionRelease(st, u) == SendDlDcch(st, u)

\* rrc::write_dl_info: a DL NAS message from S1AP, sent as DL Information
\* Transfer on SRB1bis if the user exists.
WriteDlInfo(st, u) == IF st.users[u] = "none" THEN st ELSE SendDlDcch(st, u)

-----------------------------------------------------------------------------
(* The handlers rrc::tti_clock dispatches to. *)

\* ue::handle_rrc_con_req: send the setup, then WAIT_FOR_CON_SETUP_COMPLETE.
HandleRrcConReq(st, u) ==
  [SendConnectionSetup(st, u) EXCEPT !.users[u] = "wait_setup_complete"]

\* ue::handle_rrc_con_setup_complete: S1AP initial_ue with the NAS PDU,
\* then WAIT_FOR_CON_RECONF_COMPLETE.
HandleRrcConSetupComplete(st, u) ==
  [st EXCEPT !.s1 = @ \cup {u}, !.users[u] = "wait_reconf"]

\* rrc::parse_ul_ccch: an RRC Connection Request of a known user.
ParseUlCcch(st, u, msg) ==
  IF msg = "conreq" /\ st.users[u] # "none" THEN HandleRrcConReq(st, u) ELSE st

\* ue::parse_ul_dcch: Setup Complete goes to initial_ue, UL Information
\* Transfer to s1ap write_pdu (no RRC state change); others are ignored.
UeParseUlDcch(st, u, msg) ==
  IF msg = "setup_complete" THEN HandleRrcConSetupComplete(st, u) ELSE st

ParseUlDcch(st, u, msg) == IF st.users[u] = "none" THEN st ELSE UeParseUlDcch(st, u, msg)

\* rrc::process_release_complete: a user that is not IDLE has its RLC
\* buffers cleared and gets a Connection Release, then the stack thread
\* sleeps 50 ms; the removal is queued behind everything already queued.
ProcessReleaseCompleteNoRem(st, u) ==
  IF st.users[u] = "none" THEN st
  ELSE IF IsIdle(st, u) THEN st ELSE SendConnectionRelease(st, u)
ProcessReleaseComplete(st, u) ==
  IF st.users[u] = "none" THEN st
  ELSE RemUserThread(IF IsIdle(st, u) THEN st ELSE SendConnectionRelease(st, u), u)

\* rrc::rem_user: MAC ue_rem, then the RLC and PDCP entities, then the map.
RemUser(st, u) ==
  IF st.users[u] = "none" THEN st
  ELSE [st EXCEPT !.mac = @ \ {u}, !.rlc[u] = {}, !.pdcp = @ \ {u}, !.users[u] = "none"]

\* One PDU of rx_pdu_queue: PDUs of an rnti not in the map are discarded.
HandlePdu(st, p) ==
  IF st.users[p.rnti] = "none" THEN st
  ELSE CASE p.lcid = Srb0 -> ParseUlCcch(st, p.rnti, p.msg)
         [] p.lcid \in {Srb1, Srb1bis} -> ParseUlDcch(st, p.rnti, p.msg)
         [] p.lcid = RemLcid -> RemUser(st, p.rnti)
         [] p.lcid = RelLcid -> ProcessReleaseComplete(st, p.rnti)

\* rrc::tti_clock: pop and handle PDUs until the queue is empty, the ones
\* the handlers push on the way included.
RECURSIVE RrcTtiClock(_)
RrcTtiClock(st) ==
  IF st.q = <<>> THEN st
  ELSE RrcTtiClock(HandlePdu([st EXCEPT !.q = Tail(@)], Head(st.q)))

RrcInitState ==
  [users |-> [u \in Rntis |-> "none"], rlc |-> [u \in Rntis |-> {}],
   pdcp |-> {}, mac |-> {}, s1 |-> {}, q |-> <<>>]

RrcStateOK(st) ==
  /\ st.users \in [Rntis -> UeStates \cup {"none"}]
  /\ st.rlc \in [Rntis -> SUBSET {Srb0, Srb1, Srb1bis}]
  /\ st.pdcp \subseteq Rntis /\ st.mac \subseteq Rntis /\ st.s1 \subseteq Rntis
  /\ \A i \in DOMAIN st.q : st.q[i].rnti \in Rntis
=============================================================================
