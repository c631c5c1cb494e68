---------------------------- MODULE CarrierSched ----------------------------
(***************************************************************************)
(* The NB-IoT MAC scheduler of one carrier (sched::carrier_sched and the   *)
(* sf_sched grid it drives), the MAC/RRC stack-thread calls that feed it,  *)
(* and the RLC transmit queues its buffer counters stand for.              *)
(*                                                                         *)
(* The PHY worker asks the scheduler twice per received TTI tti_rx: first  *)
(* for the downlink of tti_rx + 4 (SchedDl), then for the uplink of        *)
(* tti_rx + 13 (SchedUl).  Both calls run generate_tti_result on the same  *)
(* sf_sched, whose allocation lists survive from the first call to the     *)
(* second.  Between any two scheduler calls the stack thread may run one   *)
(* of its own scheduler calls (each under sched_mutex, hence atomic): a    *)
(* RACH task, an uplink MAC PDU, one step of an RRC connection setup, an   *)
(* RLC write or a user removal.  The stack thread is one thread: a setup   *)
(* in progress finishes before it runs anything else.                      *)
(*                                                                         *)
(* Data is abstracted to byte counts; the ghost variables dlUse and ulUse  *)
(* record which allocation claimed which subframe, so that the properties  *)
(* can talk about the occupancy the tables are meant to track.            *)
(***************************************************************************)
EXTENDS NbTime, Integers, Sequences, SequencesExt, FiniteSets

CONSTANTS
  Rntis,          \* C-RNTIs mac::allocate_rnti hands out, in ring order
  MaxInputs,      \* bound on the stack-thread calls of one behaviour
  RlcLoads,       \* byte counts an RLC SDU written to SRB1/SRB1bis carries
  BsrValues,      \* buffer sizes a short BSR may report
  ConnSetupBytes  \* bytes of the RRC Connection Setup written to SRB0

ASSUME Rntis \subseteq Nat /\ Rntis # {}
ASSUME MaxInputs \in Nat
ASSUME RlcLoads \subseteq Nat /\ BsrValues \subseteq Nat

\* Literal constants of the scheduler code.
DlCooldown == 25          \* allocate_user: separation of DL allocations
UlPollBytes == 70         \* alloc_dl_user: implicit UL poll on lcid 3
UlWaitTti == 30           \* alloc_dl_user / process_pdu: msg_wait_timer
DprBytes == 125           \* process_pdu: BSR assumed for a DPR
Sib2NumSf == 8            \* sib2_num_sf
RarDataDelay == 5         \* RAR / NPDSCH data starts at DCI + 5
Msg3Delay == 9            \* NB-IoT MSG3_DELAY_MS
Msg3RxDelay == 13         \* msg3_rx_tti = rar_tx_tti + 13
Msg3Len == 4              \* alloc_msg3: msg3_alloc.len
ConResBytes == 7          \* ce_total_size(CON_RES_ID): CE plus subheader
MinSduBytes == 5          \* min_mac_sdu_size / min_alloc_bytes

\* tbs_table_nbiot[mcs][i_sf] / 8 for the two i_sf alloc_dl_user uses.
TbsBytesOf == [isf \in {0, 2} |->
  IF isf = 0 THEN <<2, 3, 4, 5, 7, 9, 11, 13, 15, 17, 18, 22, 26>>
             ELSE <<7, 11, 18, 22, 26, 28, 32, 41, 49, 57, 63, 73, 85>>]

Lcids == {0, 1, 3}        \* SRB0, SRB1 and SRB1bis (lcid 3)
RntiRing == SetToSortSeq(Rntis, <)

VARIABLES
  tti,          \* tti_rx of the worker's current scheduler call
  phase,        \* "dl": next call is dl_sched, "ul": next is ul_sched
  dlTable,      \* carrier_sched::dl_sched_table
  ulTable,      \* carrier_sched::ul_sched_table
  sib1SfIdx,    \* bc_sched::sib1_sf_idx
  pendingRars,  \* ra_sched::pending_rars (temp C-RNTI of each RAR)
  msg3Allocs,   \* <<tti_rx, rnti>>: Msg3 in sf_sched[tti_rx].ul_data_allocs
  sfData,       \* <<rnti, i_sf>>: sf_sched[tti].data_allocs
  ueDb,         \* keys of sched::ue_db (and of the MAC and RRC user maps)
  bearers,      \* lcids configured (BOTH directions) in sched_ue::lch
  dlCe,         \* sched_ue::pending_ces: number of ConRes CEs
  dlRlc,        \* sched_ue::lch[lcid].buf_tx
  rlcQ,         \* bytes the RLC entity of each lcid really holds
  bsr,          \* sched_ue::lch[lcid].bsr
  waitTimer,    \* sched_ue::msg_wait_timer
  lastAlloc,    \* static last_alloc
  allocActive,  \* static alloc_active
  nextRnti,     \* mac::last_rnti, as a position in RntiRing
  setupStep,    \* step of the RRC connection setup the stack thread runs
  inputs,       \* stack-thread calls taken so far
  dlUse,        \* ghost: DL subframe -> claims <<kind, rnti>> on it
  ulUse,        \* ghost: UL subframe -> claims <<kind, rnti>> on it
  ulGrant,      \* ghost: <<pending, len>> of each user's last NEWTX grant
  ulRx,         \* users with a received NPUSCH not yet processed by MAC
  rrcReq        \* users whose CCCH message waits in the RRC queue

vars == <<tti, phase, dlTable, ulTable, sib1SfIdx, pendingRars, msg3Allocs,
          sfData, ueDb, bearers, dlCe, dlRlc, rlcQ, bsr, waitTimer, lastAlloc,
          allocActive, nextRnti, setupStep, inputs, dlUse, ulUse, ulGrant,
          ulRx, rrcReq>>

-----------------------------------------------------------------------------
(* Helpers *)

\* The first n subframes at or after t that are in the set Ok, skipping
\* the others.
RECURSIVE TakeSfs(_, _, _)
TakeSfs(t, n, Ok) ==
  IF n = 0 THEN {}
  ELSE IF t \in Ok THEN {t} \cup TakeSfs(TtiAdd(t, 1), n - 1, Ok)
  ELSE TakeSfs(TtiAdd(t, 1), n, Ok)

ValidDlSfs == {t \in Ttis : IsValidDlSf(t)}

\* n consecutive subframes starting at t.
Span(t, n) == {TtiAdd(t, i) : i \in 0 .. n - 1}

Mark(table, S) == [s \in DOMAIN table |-> IF s \in S THEN TRUE ELSE table[s]]
Claim(use, S, c) == [s \in DOMAIN use |-> IF s \in S THEN use[s] \cup {c} ELSE use[s]]

\* ue_db is a std::map: users in RNTI order, visited round-robin from
\* index start % size.
UeOrder(start) ==
  LET s == SetToSortSeq(ueDb, <)
      n == Len(s)
  IN  [i \in 1 .. n |-> s[((start + i - 1) % n) + 1]]

\* Seeded fault: alloc_rlc_pdu taking rem_tbs without the min with buf.
LesserIgnoringFirst(a, b) == b

Lesser(a, b) == IF a < b THEN a ELSE b

\* get_mac_subheader_sdu_size / compute_subheader_size of a non-empty SDU.
SubhdrLen(b) == IF b > 128 THEN 3 ELSE 2

\* get_requested_dl_bytes (second): SRB0 data with its subheader, the CEs,
\* and the data of the DL-configured bearers, at least min_alloc_bytes each.
SduTotal(l, b) ==
  IF b = 0 THEN 0
  ELSE IF l = 0 THEN b + SubhdrLen(b)
  ELSE IF b + SubhdrLen(b) > MinSduBytes THEN b + SubhdrLen(b) ELSE MinSduBytes

ReqBytes(ce, rlc, u) ==
  IF 0 \notin bearers[u] THEN 0
  ELSE ConResBytes * ce[u]
         + FoldSet(LAMBDA l, acc : acc + SduTotal(l, rlc[u][l]), 0,
                   {0} \cup (bearers[u] \ {0}))

\* get_pending_ul_new_data: BSRs of the UL-configured bearers (no SR).
PendingUl(b, u) == FoldFunctionOnSet(LAMBDA x, y : x + y, 0, b[u], bearers[u])

\* generate_formatN1: the smallest TB of the i_sf column larger than the
\* request, or the one of mcs 12.
TbsBytes(req, isf) ==
  LET fits == {m \in 1 .. 13 : TbsBytesOf[isf][m] > req}
  IN  TbsBytesOf[isf][IF fits = {} THEN 13 ELSE Min(fits)]

\* allocate_mac_sdus / alloc_rlc_pdu: while rem >= 5 bytes, the lowest lcid
\* with data gives min(buf, rem - subheader) bytes.
RECURSIVE AllocSdus(_, _)
AllocSdus(buf, rem) ==
  LET busy == {l \in Lcids : buf[l] > 0} IN
  IF rem < MinSduBytes \/ busy = {} THEN buf
  ELSE LET l == Min(busy)
           a == Lesser(buf[l], rem - SubhdrLen(rem - 2))
       IN  AllocSdus([buf EXCEPT ![l] = @ - a], rem - (a + SubhdrLen(a)))

-----------------------------------------------------------------------------
(* One generate_tti_result call reads and writes this record; its steps   *)
(* are operators on it, composed in the order the code runs them.         *)

Cur == [dl |-> dlTable, ul |-> ulTable, dlUse |-> dlUse, ulUse |-> ulUse,
        sib1 |-> sib1SfIdx, rars |-> pendingRars, msg3 |-> msg3Allocs,
        data |-> sfData, ce |-> dlCe, rlc |-> dlRlc, rlcq |-> rlcQ,
        bsr |-> bsr, timer |-> waitTimer, last |-> lastAlloc,
        active |-> allocActive, grant |-> ulGrant]

Store(S) ==
  /\ dlTable' = S.dl       /\ ulTable' = S.ul
  /\ dlUse' = S.dlUse      /\ ulUse' = S.ulUse
  /\ sib1SfIdx' = S.sib1   /\ pendingRars' = S.rars
  /\ dlCe' = S.ce          /\ dlRlc' = S.rlc
  /\ rlcQ' = S.rlcq        /\ bsr' = S.bsr
  /\ waitTimer' = S.timer  /\ lastAlloc' = S.last
  /\ allocActive' = S.active /\ ulGrant' = S.grant

\* generate_tti_result, DL call: clear the table entry of tti_rx.
ClearDl(S) == [S EXCEPT !.dl[tti] = FALSE, !.dlUse[tti] = {}]

\* bc_sched::alloc_sibs at tti_tx_dl.  SIB1 is skipped if its subframe is
\* taken; SIB2 checks only its first subframe and marks 8 valid ones.
AllocSibs(S) ==
  LET t == TtiTxDl(tti) IN
  IF IsSib1Tti(t)
  THEN IF S.dl[t] THEN S
       ELSE [S EXCEPT !.dl[t] = TRUE, !.dlUse[t] = @ \cup {<<"sib1", SiRnti>>},
                      !.sib1 = (@ + 1) % Sib1NumSf]
  ELSE IF IsSib2Start(t) /\ ~S.dl[t]
  THEN LET sfs == TakeSfs(t, Sib2NumSf, ValidDlSfs)
       IN  [S EXCEPT !.dl = Mark(@, sfs), !.dlUse = Claim(@, sfs, <<"sib2", SiRnti>>)]
  ELSE S

\* ra_sched::dl_sched: the oldest RAR is sent when tti_tx_dl is valid,
\* free and in the RAR search space (alloc_rar always succeeds with the
\* one grant the model's RARs carry).
RarOk(S) ==
  LET t == TtiTxDl(tti) IN
  S.rars # <<>> /\ IsValidDlSf(t) /\ ~S.dl[t] /\ t % 16 < 8

RarDataSf == NextValidDlSf(TtiAdd(TtiTxDl(tti), RarDataDelay))

\* sf_sched::alloc_dl_ctrl and alloc_rar: the RAR (one grant) joins
\* rar_allocs of this sf_sched; the claims record its DCI subframe and the
\* data subframe the PHY sends it in.  alloc_rar marks no table.
AllocRar(S, u) ==
  [S EXCEPT !.dlUse = Claim(Claim(@, {TtiTxDl(tti)}, <<"rardci", u>>), {RarDataSf}, <<"rar", u>>)]

\* Seeded fault: the RAR is sent but pending_rars.pop_front is missing.
RarSchedNoPop(S) ==
  [AllocRar(S, Head(S.rars)) EXCEPT !.dl = Mark(@, {TtiTxDl(tti), RarDataSf})]

\* The DCI and the RAR data subframe are marked, the latter unchecked.
RarSched(S) ==
  [AllocRar(S, Head(S.rars)) EXCEPT !.rars = Tail(@), !.dl = Mark(@, {TtiTxDl(tti), RarDataSf})]

\* ra_sched::ul_sched on sf_sched(tti_rx + 9) and sf_sched::alloc_ul MSG3:
\* the user must still be in ue_db and the 4 subframes from rar_tx + 13
\* must be free.  generate_tti_result passes tti_rx + 9 unwrapped, so the
\* Msg3 of a tti_rx in the last 9 of the ring goes to an sf_sched whose
\* tti_rx is past the ring (the tables it marks are wrapped by TTI_ADD).
Msg3Sfs == Span(TtiAdd(RarDataSf, Msg3RxDelay), Msg3Len)

Msg3Free(S) == \A s \in Msg3Sfs : ~S.ul[s]

AllocMsg3(S, u) ==
  IF u \in ueDb /\ Msg3Free(S)
  THEN [S EXCEPT !.ul = Mark(@, Msg3Sfs), !.ulUse = Claim(@, Msg3Sfs, <<"msg3", u>>),
                 !.msg3 = @ \cup {<<tti + Msg3Delay, u>>}]
  ELSE S

\* carrier_sched::get_sf_sched(tti_rx) for the DL call: the slot of tti_rx
\* still holds the sf_sched of tti_rx + NTti that an unwrapped
\* get_sf_sched(tti_rx + 9) set up; its tti_rx differs, so new_tti clears
\* it and the Msg3 it held is dropped.
GetSfSched(S) == [S EXCEPT !.msg3 = {m \in @ : m[1] # tti + NTti}]

\* sf_sched::alloc_dl_user: the checks before anything is marked.
DlUserOk(S) ==
  LET t == TtiTxDl(tti) IN
  IsValidDlSf(t) /\ ~S.dl[t] /\ t % 8 < 2 /\ ~IsSib1Tti(t)

\* Seeded fault: the NPDSCH loop without the is_sib1_sf test.
NpdschOkNoSib1(S, s) == IsValidDlSf(s) /\ ~S.dl[s]

\* The test of the NPDSCH subframe loop of alloc_dl_user.
NpdschOk(S, s) == IsValidDlSf(s) /\ ~S.dl[s] /\ ~IsSib1Tti(s)

\* alloc_dl_user after the checks: the DCI subframe, then n_sf subframes
\* from tti_tx_dl + 5 that are valid, free and not SIB1; the data alloc;
\* the implicit UL poll and its wait timer.
AllocDlUser(S, u, req) ==
  LET t   == TtiTxDl(tti)
      isf == IF req > 20 THEN 2 ELSE 0
      ok  == {s \in Ttis : NpdschOk(S, s)} \ {t}
      sfs == TakeSfs(TtiAdd(t, RarDataDelay), NSfOfISf[isf + 1], ok)
  IN  [S EXCEPT !.dl = Mark(@, {t} \cup sfs),
                !.dlUse = Claim(Claim(@, {t}, <<"dci", u>>), sfs, <<"npdsch", u>>),
                !.data = @ \cup {<<u, isf>>},
                !.bsr[u][3] = @ + UlPollBytes,
                !.timer[u] = UlWaitTti]

\* Seeded fault: alloc_active is never reset.
CooldownNeverOver(t, last) == FALSE

\* The cooldown test of allocate_user: more than 25 TTIs since last_alloc.
CooldownOver(t, last) == (t + NTti - last) % NTti > DlCooldown

\* carrier_sched::allocate_user with the static cooldown: while a DL
\* allocation is active no user is served, and the flag clears only on a
\* visit more than 25 TTIs after it.
AllocateUser(S, u) ==
  LET t   == TtiTxDl(tti)
      req == ReqBytes(S.ce, S.rlc, u)
  IN  IF S.active
      THEN IF CooldownOver(t, S.last)
           THEN [S EXCEPT !.active = FALSE] ELSE S
      ELSE IF req > 0 /\ DlUserOk(S)
      THEN [AllocDlUser(S, u, req) EXCEPT !.last = t, !.active = TRUE]
      ELSE S

\* sched_users_dl: round robin from tti_tx_dl % |ue_db|.
SchedUsersDl(S) ==
  IF ueDb = {} THEN S ELSE FoldLeft(AllocateUser, S, UeOrder(TtiTxDl(tti)))

\* ue::allocate_sdu: an SDU of n bytes is read out of the RLC entity of its
\* lcid by ue::read_pdu calls while at least 2 bytes are left to fill; the
\* RLC gives at most what it holds.  An SDU under 2 bytes reads nothing.
AllocateSdu(q, n) == IF n >= 2 THEN q - Lesser(n, q) ELSE q

\* ue::generate_pdu, called by mac::get_dl_sched for the DL result: every
\* SDU of the PDU list is read from the RLC (allocate_ce reads nothing).
GeneratePdu(q, take) == [l \in Lcids |-> AllocateSdu(q[l], take[l])]

\* sched_ue::generate_formatN1 for one data allocation <<rnti, i_sf>>:
\* the TB is the first one larger than the request computed now; ConRes
\* CEs go first, then RLC data.  Only the DL call's result reaches the
\* MAC, whose generate_pdu reads the SDUs out of the RLC (sent = TRUE).
GenerateN1(S, d, sent) ==
  LET u   == d[1]
      tbs == TbsBytes(ReqBytes(S.ce, S.rlc, u), d[2])
      nce == Lesser(S.ce[u], tbs \div ConResBytes)
      buf == AllocSdus(S.rlc[u], tbs - ConResBytes * nce)
  IN  [S EXCEPT !.ce[u] = @ - nce, !.rlc[u] = buf,
                !.rlcq[u] = IF sent THEN GeneratePdu(@, [l \in Lcids |-> S.rlc[u][l] - buf[l]])
                            ELSE @]

\* sf_sched::generate_sched_results: set_dl_data_sched_result visits every
\* entry of data_allocs (users are independent, so the order is immaterial).
GenerateResults(S, sent) ==
  FoldSet(LAMBDA d, acc : GenerateN1(acc, d, sent), S, S.data)

\* generate_tti_result, UL call: clear the table entry of tti_rx.
ClearUl(S) == [S EXCEPT !.ul[tti] = FALSE, !.ulUse[tti] = {}]

UlLongBytes == 125   \* alloc_ul: pending_data >= 125 selects len 6

\* Seeded fault: the UL DCI is placed without the dl_sched_table test.
UlUserOkNoDlCheck(S) ==
  LET d == TtiTxDl(tti) IN
  IsValidDlSf(d) /\ d % 8 < 2 /\ ~S.ul[TtiTxUl(tti)]

\* alloc_ul NEWTX: the DCI must go out at tti_tx_dl, which must be valid,
\* free in the DL table and in the UE search space, and tti_tx_ul free.
UlUserOk(S) ==
  LET d == TtiTxDl(tti) IN
  IsValidDlSf(d) /\ ~S.dl[d] /\ d % 8 < 2 /\ ~S.ul[TtiTxUl(tti)]

\* Seeded fault: the wait timer is checked but never decremented.
WaitTickMissing(S, u) == S

\* alloc_ul: msg_wait_timer-- when the timer has not run out.
WaitTick(S, u) == [S EXCEPT !.timer[u] = @ - 1]

\* allocate_user_newtx_prbs and alloc_ul NEWTX.  A user with a Msg3 in this
\* sf_sched is skipped.  A running wait timer is decremented per attempt.
\* The len loops mark only tti_tx_ul; the DCI position is written to the
\* UL table.  On success the BSRs of lcid 0 and 3 are reset.
AllocateUserUl(S, u) ==
  LET p   == PendingUl(S.bsr, u)
      len == IF p >= UlLongBytes THEN 6 ELSE 4
      d   == TtiTxDl(tti)
      x   == TtiTxUl(tti)
  IN  IF <<tti, u>> \in S.msg3 \/ p = 0 THEN S
      ELSE IF S.timer[u] # 0 THEN WaitTick(S, u)
      ELSE IF ~UlUserOk(S) THEN S
      ELSE [S EXCEPT !.ul = Mark(@, {x, d}),
                     !.ulUse = Claim(@, Span(x, len), <<"npusch", u>>),
                     !.dlUse = Claim(@, {d}, <<"uldci", u>>),
                     !.grant[u] = <<p, len>>,
                     !.bsr[u] = [@ EXCEPT ![0] = 0, ![3] = 0]]

\* sched_users_ul: round robin from tti_tx_ul % |ue_db|.
SchedUsersUl(S) ==
  IF ueDb = {} THEN S ELSE FoldLeft(AllocateUserUl, S, UeOrder(TtiTxUl(tti)))

-----------------------------------------------------------------------------
(* Worker actions: sched::dl_sched and sched::ul_sched for tti_rx.         *)

\* generate_tti_result(tti_rx, dl_flag = true).
SchedDl ==
  /\ phase = "dl"
  /\ LET S1 == AllocSibs(ClearDl(GetSfSched(Cur)))
         S2 == IF RarOk(S1) THEN AllocMsg3(RarSched(S1), Head(S1.rars)) ELSE S1
         S3 == GenerateResults(SchedUsersDl(S2), TRUE)
     IN  /\ Store(S3)
         /\ msg3Allocs' = S3.msg3
         /\ sfData' = S3.data
  /\ phase' = "ul"
  /\ UNCHANGED <<tti, ueDb, bearers, nextRnti, setupStep, inputs, ulRx, rrcReq>>

\* NPUSCHs whose last subframe is tti_rx have been received.
Received(use) == {c \in use[tti] : c \notin use[TtiAdd(tti, 1)]}

\* sf_sched::new_tti, run by get_sf_sched when the slot of tti_rx is next
\* taken for another tti: data_allocs and ul_data_allocs (the Msg3 put
\* here 9 TTIs ago) are cleared.  Nothing reads them after the UL call.
NewTti(S) == [S EXCEPT !.data = {}, !.msg3 = {m \in @ : m[1] # tti}]

\* generate_tti_result(tti_rx, dl_flag = false): the same sf_sched, so its
\* data_allocs are run through generate_formatN1 a second time.  The
\* sf_sched is then done with (new_tti clears it before reuse).
\* SchedUlCore leaves ulRx to the PHY that receives the NPUSCHs; SchedUl
\* takes an ideal PHY, which delivers every NPUSCH on its last subframe.
SchedUlCore ==
  /\ phase = "ul"
  /\ LET S == NewTti(GenerateResults(SchedUsersUl(ClearUl(Cur)), FALSE))
     IN  /\ Store(S)
         /\ msg3Allocs' = S.msg3
         /\ sfData' = S.data
  /\ phase' = "dl"
  /\ tti' = TtiAdd(tti, 1)
  /\ UNCHANGED <<ueDb, bearers, nextRnti, setupStep, inputs, rrcReq>>

SchedUl == SchedUlCore /\ ulRx' = ulRx \cup Received(ulUse)

-----------------------------------------------------------------------------
(* Stack-thread actions.  Each is one task of the stack thread; its        *)
(* scheduler calls take sched_mutex, so they fall between worker calls.    *)

NoBytes == [l \in Lcids |-> 0]

\* The stack thread is not in the middle of an RRC connection setup.
StackIdle == \A u \in Rntis : setupStep[u] = "none"

\* The sched_ue state ue_db erase destroys, and a new sched_ue starts with.
ResetUe(u) ==
  /\ dlCe' = [dlCe EXCEPT ![u] = 0]
  /\ dlRlc' = [dlRlc EXCEPT ![u] = NoBytes]
  /\ bsr' = [bsr EXCEPT ![u] = NoBytes]
  /\ waitTimer' = [waitTimer EXCEPT ![u] = 0]
  /\ ulGrant' = [ulGrant EXCEPT ![u] = <<0, 0>>]

\* sched::ue_rem: the sched_ue is erased from ue_db.
SchedUeRem(u) == ueDb' = ueDb \ {u} /\ ResetUe(u)

\* sched_ue::set_cfg: set_bearer_cfg_unlocked for every lcid, so the
\* user's bearers become exactly those configured (not IDLE) in cfg.
SetCfg(u, lcids) == bearers' = [bearers EXCEPT ![u] = lcids]

\* mac::ue_cfg: for an rnti in ue_db, sched::ue_cfg with the new config.
MacUeCfg(u, lcids) == IF u \in ueDb THEN SetCfg(u, lcids) ELSE UNCHANGED bearers

\* ra_sched::dl_rach_info (through sched and carrier_sched): the RAR is
\* queued in pending_rars.  Each RACH of the model has an NPRACH TTI of its
\* own, so it never joins the grants of a pending_rar already queued.
DlRachInfo(u) == pendingRars' = Append(pendingRars, u)

\* sched_ue::dl_buffer_state: the RLC's report replaces the lcid's queue;
\* mac::rlc_buffer_state passes it on only for an rnti in ue_db.
DlBufferState(u, l, q) == dlRlc' = [dlRlc EXCEPT ![u][l] = q]
RlcBufferState(u, l, q) == IF u \in ueDb THEN DlBufferState(u, l, q) ELSE UNCHANGED dlRlc

\* sched_ue::mac_buffer_state: nof_cmds CEs join pending_ces.
MacBufferState(u, n) == dlCe' = [dlCe EXCEPT ![u] = @ + n]

\* sched_ue::ul_buffer_state and ul_wait_timer: set the value, or add to it.
UlBufferState(b, u, l, v, set) == [b EXCEPT ![u][l] = IF set THEN v ELSE @ + v]
UlWaitTimer(w, u, t, set) == [w EXCEPT ![u] = IF set THEN t ELSE @ + t]

\* ue::process_ce, short or truncated BSR: the value is set on lcid 3.
ProcessCe(u, v) == UlBufferState(bsr, u, 3, v, TRUE)

\* mac::rach_detected and its stack task: allocate_rnti takes the next RNTI
\* of the ring; sched::ue_cfg adds the user with SRB0 only, or, if the RNTI
\* is still in ue_db, only replaces its bearer configuration (buffers, CEs
\* and BSRs stay); rrc::add_user; dl_rach_info queues the RAR.
RachTask ==
  /\ StackIdle /\ inputs < MaxInputs
  /\ LET u == RntiRing[nextRnti] IN
     /\ nextRnti' = (nextRnti % Len(RntiRing)) + 1
     /\ ueDb' = ueDb \cup {u}
     /\ SetCfg(u, {0})
     /\ DlRachInfo(u)
     /\ IF u \in ueDb THEN UNCHANGED <<dlCe, dlRlc, bsr, waitTimer, ulGrant>>
                      ELSE ResetUe(u)
  /\ inputs' = inputs + 1
  /\ UNCHANGED <<tti, phase, dlTable, ulTable, sib1SfIdx, msg3Allocs, sfData,
                 rlcQ, lastAlloc, allocActive, setupStep, dlUse, ulUse, ulRx,
                 rrcReq>>

\* ue::process_pdu of a received NPUSCH (crc_info, process_pdus task).  A
\* Msg3 carries the CCCH message on lcid 0 behind a DPR: 125 bytes are
\* added to the BSR of lcid_most_data (0), the wait timer is set to 30,
\* and the message is queued for the RRC.  Another PDU carries a short BSR
\* (set on lcid 3) or an SDU on lcid l without BSR (+125 on l if l > 2).
\* A PDU that fails decoding, or of a user MAC no longer knows, is dropped.
ProcessPdu ==
  /\ StackIdle /\ inputs < MaxInputs
  /\ \E c \in ulRx :
       LET u == c[2] IN
       /\ ulRx' = ulRx \ {c}
       /\ \/ /\ u \in ueDb /\ c[1] = "msg3"
             /\ bsr' = UlBufferState(bsr, u, 0, DprBytes, FALSE)
             /\ waitTimer' = UlWaitTimer(waitTimer, u, UlWaitTti, TRUE)
             /\ rrcReq' = Append(rrcReq, u)
          \/ /\ u \in ueDb /\ c[1] = "npusch"
             /\ \/ \E b \in BsrValues : bsr' = ProcessCe(u, b)
                \/ \E l \in {1, 3} :
                     bsr' = IF l > 2 THEN UlBufferState(bsr, u, l, DprBytes, FALSE) ELSE bsr
             /\ UNCHANGED <<waitTimer, rrcReq>>
          \/ UNCHANGED <<bsr, waitTimer, rrcReq>>
  /\ inputs' = inputs + 1
  /\ UNCHANGED <<tti, phase, dlTable, ulTable, sib1SfIdx, pendingRars,
                 msg3Allocs, sfData, ueDb, bearers, dlCe, dlRlc, rlcQ,
                 lastAlloc, allocActive, nextRnti, setupStep, dlUse, ulUse,
                 ulGrant>>

\* rrc::tti_clock pops the RRC queue; for a known user parse_ul_ccch
\* answers with send_connection_setup, whose first scheduler call is
\* ue_set_crnti -> mac::ue_cfg -> sched::ue_cfg with SRB0, SRB1, SRB1bis.
RrcConnReq ==
  /\ StackIdle /\ rrcReq # <<>>
  /\ LET u == Head(rrcReq) IN
     /\ rrcReq' = Tail(rrcReq)
     /\ MacUeCfg(u, Lcids)
     /\ setupStep' = IF u \in ueDb THEN [setupStep EXCEPT ![u] = "conres"] ELSE setupStep
  /\ UNCHANGED <<tti, phase, dlTable, ulTable, sib1SfIdx, pendingRars,
                 msg3Allocs, sfData, ueDb, dlCe, dlRlc, rlcQ, bsr, waitTimer,
                 lastAlloc, allocActive, nextRnti, inputs, dlUse, ulUse,
                 ulGrant, ulRx>>

\* ue_set_crnti, second scheduler call: dl_mac_buffer_state(CON_RES_ID).
RrcConRes(u) ==
  /\ setupStep[u] = "conres"
  /\ IF u \in ueDb THEN MacBufferState(u, 1) ELSE UNCHANGED dlCe
  /\ setupStep' = [setupStep EXCEPT ![u] = "srb0"]
  /\ UNCHANGED <<tti, phase, dlTable, ulTable, sib1SfIdx, pendingRars,
                 msg3Allocs, sfData, ueDb, bearers, dlRlc, rlcQ, bsr,
                 waitTimer, lastAlloc, allocActive, nextRnti, inputs, dlUse,
                 ulUse, ulGrant, ulRx, rrcReq>>

\* send_dl_ccch: the RRC Connection Setup is written to the SRB0 (TM) RLC
\* entity, which reports its whole queue: dl_rlc_buffer_state(0, queue).
RrcSrb0(u) ==
  /\ setupStep[u] = "srb0"
  /\ rlcQ' = [rlcQ EXCEPT ![u][0] = @ + ConnSetupBytes]
  /\ RlcBufferState(u, 0, rlcQ'[u][0])
  /\ setupStep' = [setupStep EXCEPT ![u] = "none"]
  /\ UNCHANGED <<tti, phase, dlTable, ulTable, sib1SfIdx, pendingRars,
                 msg3Allocs, sfData, ueDb, bearers, dlCe, bsr, waitTimer,
                 lastAlloc, allocActive, nextRnti, inputs, dlUse, ulUse,
                 ulGrant, ulRx, rrcReq>>

\* An RRC/PDCP message written to SRB1 or SRB1bis: the RLC queue grows and
\* the entity reports its whole queue to the scheduler.
RlcWrite ==
  /\ StackIdle /\ inputs < MaxInputs
  /\ \E u \in ueDb, l \in Lcids \ {0}, b \in RlcLoads :
       /\ l \in bearers[u]
       /\ rlcQ' = [rlcQ EXCEPT ![u][l] = @ + b]
       /\ RlcBufferState(u, l, rlcQ'[u][l])
  /\ inputs' = inputs + 1
  /\ UNCHANGED <<tti, phase, dlTable, ulTable, sib1SfIdx, pendingRars,
                 msg3Allocs, sfData, ueDb, bearers, dlCe, bsr, waitTimer,
                 lastAlloc, allocActive, nextRnti, setupStep, dlUse, ulUse,
                 ulGrant, ulRx, rrcReq>>

\* rrc::rem_user: mac::ue_rem -> sched::ue_rem erases the sched_ue (the
\* sf_scheds keep their pointers to it), then the RLC entities go.
UeRem ==
  /\ StackIdle /\ inputs < MaxInputs
  /\ \E u \in ueDb :
       /\ SchedUeRem(u)
       /\ bearers' = [bearers EXCEPT ![u] = {}]
       /\ rlcQ' = [rlcQ EXCEPT ![u] = NoBytes]
  /\ inputs' = inputs + 1
  /\ UNCHANGED <<tti, phase, dlTable, ulTable, sib1SfIdx, pendingRars,
                 msg3Allocs, sfData, lastAlloc, allocActive, nextRnti,
                 setupStep, dlUse, ulUse, ulRx, rrcReq>>

-----------------------------------------------------------------------------
(* Specification *)

\* The first tti_rx the worker schedules: the TX/RX thread starts its
\* counter at 10235 and increments it before the first subframe.
Init ==
  /\ tti = NTti - 4
  /\ phase = "dl"
  /\ dlTable = [t \in Ttis |-> FALSE]
  /\ ulTable = [t \in Ttis |-> FALSE]
  /\ sib1SfIdx = 0
  /\ pendingRars = <<>>
  /\ msg3Allocs = {}
  /\ sfData = {}
  /\ ueDb = {}
  /\ bearers = [u \in Rntis |-> {}]
  /\ dlCe = [u \in Rntis |-> 0]
  /\ dlRlc = [u \in Rntis |-> NoBytes]
  /\ rlcQ = [u \in Rntis |-> NoBytes]
  /\ bsr = [u \in Rntis |-> NoBytes]
  /\ waitTimer = [u \in Rntis |-> 0]
  /\ lastAlloc = 0
  /\ allocActive = FALSE
  /\ nextRnti = 1
  /\ setupStep = [u \in Rntis |-> "none"]
  /\ inputs = 0
  /\ dlUse = [t \in Ttis |-> {}]
  /\ ulUse = [t \in Ttis |-> {}]
  /\ ulGrant = [u \in Rntis |-> <<0, 0>>]
  /\ ulRx = {}
  /\ rrcReq = <<>>

Next ==
  \/ SchedDl
  \/ SchedUl
  \/ RachTask
  \/ ProcessPdu
  \/ RrcConnReq
  \/ \E u \in Rntis : RrcConRes(u) \/ RrcSrb0(u)
  \/ RlcWrite
  \/ UeRem

\* The worker calls the scheduler once per direction and TTI for ever: a
\* worker step is the only step that flips phase, so weak fairness on the
\* flip is fairness of the worker.  The stack thread runs the queued RRC
\* work (tti_clock is queued every TTI) and finishes a setup it started.
DlTick == phase = "dl" /\ phase' = "ul"
UlTick == phase = "ul" /\ phase' = "dl"

Fairness ==
  /\ WF_phase(DlTick)
  /\ WF_phase(UlTick)
  /\ WF_vars(RrcConnReq)
  /\ \A u \in Rntis : WF_vars(RrcConRes(u)) /\ WF_vars(RrcSrb0(u))

Spec == Init /\ [][Next]_vars /\ Fairness

-----------------------------------------------------------------------------
(* Properties *)

Kinds == {"sib1", "sib2", "rardci", "rar", "dci", "npdsch", "uldci", "msg3", "npusch"}
Owners == Rntis \cup {SiRnti}

TypeOK ==
  /\ tti \in Ttis /\ phase \in {"dl", "ul"}
  /\ DOMAIN dlTable = Ttis /\ \A t \in Ttis : dlTable[t] \in BOOLEAN
  /\ DOMAIN ulTable = Ttis /\ \A t \in Ttis : ulTable[t] \in BOOLEAN
  /\ sib1SfIdx \in 0 .. Sib1NumSf - 1
  /\ pendingRars \in Seq(Rntis)
  /\ msg3Allocs \subseteq (0 .. NTti + Msg3Delay - 1) \X Rntis
  /\ sfData \subseteq Rntis \X {0, 2}
  /\ ueDb \subseteq Rntis
  /\ \A u \in Rntis :
       /\ bearers[u] \subseteq Lcids
       /\ dlCe[u] \in Nat /\ waitTimer[u] \in 0 .. UlWaitTti
       /\ \A l \in Lcids : dlRlc[u][l] \in Nat /\ rlcQ[u][l] \in Nat /\ bsr[u][l] \in Nat
       /\ ulGrant[u] \in Nat \X {0, 4, 6}
       /\ setupStep[u] \in {"none", "conres", "srb0"}
  /\ lastAlloc \in Ttis /\ allocActive \in BOOLEAN
  /\ nextRnti \in 1 .. Len(RntiRing) /\ inputs \in 0 .. MaxInputs
  /\ \A t \in Ttis : dlUse[t] \subseteq Kinds \X Owners /\ ulUse[t] \subseteq Kinds \X Owners
  /\ ulRx \subseteq {"msg3", "npusch"} \X Rntis
  /\ rrcReq \in Seq(Rntis)

\* bc_sched::alloc_sibs never finds a SIB1 subframe already taken: no RAR,
\* user DCI or NPDSCH allocated in an earlier TTI lands on a later SIB1
\* subframe, so every SIB1 repetition goes out (spec 8.2 for SIB1).
Sib1NeverSkipped ==
  [][phase = "dl" /\ phase' = "ul" /\ IsSib1Tti(TtiTxDl(tti))
       => <<"sib1", SiRnti>> \in dlUse'[TtiTxDl(tti)]]_vars

\* A subframe carrying an NPDCCH (SIB1, a RAR, DL or UL DCI) carries
\* nothing else.  The UL grant's DCI is not marked in dl_sched_table
\* (alloc_ul writes ul_sched_table[tti_tx_dl]); this holds only because the
\* DL call of the same tti_rx runs first and later calls never allocate
\* at or before their own tti_tx_dl.
DciKinds == {"sib1", "rardci", "dci", "uldci"}

NpdcchExclusive ==
  \A t \in Ttis : \A c \in dlUse[t] : c[1] \in DciKinds => dlUse[t] = {c}

\* Every DL subframe is claimed by at most one transmission: SIB2 marks
\* its 8 subframes and ra_sched marks the RAR data subframe without
\* checking them (spec 8.7, scheduler table safety).
NoDlDoubleClaim == \A t \in Ttis : Cardinality(dlUse[t]) <= 1

\* Every UL subframe carries at most one NPUSCH: alloc_ul NEWTX reserves
\* "the contiguous UL subframes starting at tti_tx_ul" (spec 4.J).
NoUlOverlap == \A t \in Ttis : Cardinality(ulUse[t]) <= 1

\* Whenever ra_sched::dl_sched sends a RAR, the Msg3 grant it carries is
\* reserved in sf_sched(tti_rx + 9).
RarHasMsg3 ==
  [][phase = "dl" /\ phase' = "ul" /\ Len(pendingRars') < Len(pendingRars)
       => \E u \in Rntis : <<tti + Msg3Delay, u>> \in msg3Allocs' \ msg3Allocs]_vars

\* The scheduler's DL buffer counters (sched_ue::lch[].buf_tx) equal what
\* the RLC entities hold, for every user in ue_db, between worker calls.
SchedMatchesRlc == \A u \in ueDb : dlRlc[u] = rlcQ[u]

\* Every user an sf_sched still points to (data_allocs, Msg3 in
\* ul_data_allocs) is still in ue_db.
NoDanglingAlloc ==
  /\ \A d \in sfData : d[1] \in ueDb
  /\ \A m \in msg3Allocs : m[2] \in ueDb

\* alloc_ul chooses len 4 for at most 125 pending bytes and len 6 for more
\* (spec 4.J).
GrantLenMatchesSpec ==
  \A u \in Rntis : ulGrant[u][2] # 0 => (ulGrant[u][2] = 6 <=> ulGrant[u][1] > 125)

\* A queued RAR is eventually sent.
RarServed == pendingRars # <<>> ~> pendingRars = <<>>

\* A user with DL data (CEs or RLC data) is eventually served until it has
\* none (or leaves ue_db).
DlDrained ==
  \A u \in Rntis :
    (u \in ueDb /\ ReqBytes(dlCe, dlRlc, u) > 0)
      ~> (u \notin ueDb \/ ReqBytes(dlCe, dlRlc, u) = 0)

\* A user with UL data reported eventually gets an UL grant for it.
UlServed ==
  \A u \in Rntis :
    (u \in ueDb /\ PendingUl(bsr, u) > 0) ~> (u \notin ueDb \/ PendingUl(bsr, u) = 0)

====
