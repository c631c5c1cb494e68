------------------------------- MODULE NbTime -------------------------------
(***************************************************************************)
(* NB-IoT timing shared by the eNB components: the TTI ring of one         *)
(* hyperframe, the scheduler's fixed delays between the subframe being     *)
(* received and the subframes being scheduled, the valid-downlink-subframe *)
(* test, and the broadcast (SIB1-NB, SIB2-NB) subframe patterns.           *)
(*                                                                         *)
(* The code counts TTIs modulo 10240 (1024 frames of 10 subframes).  The   *)
(* model keeps every formula and shrinks the hyperframe to NFrames frames; *)
(* NFrames must keep the periods the code tests (2 frames for the NRS      *)
(* pattern, 4 frames for SIB2, 16 TTIs for the RAR search space).          *)
(***************************************************************************)
EXTENDS Naturals

CONSTANTS
  NFrames,     \* frames per hyperframe (1024 in the code)
  Sib1NumSf    \* sib1_num_sf = nof_sf * nof_rep of the SIB1 grant

ASSUME NFrames \in Nat /\ NFrames > 0 /\ NFrames % 8 = 0
ASSUME Sib1NumSf \in Nat \ {0}

NTti == 10 * NFrames  \* 10240 in the code
Ttis == 0 .. NTti - 1

\* tti_params_t: FDD_HARQ_DELAY_UL_MS = 4 and, for the uplink,
\* FDD_DELAY_UL_NB_MS + FDD_HARQ_DELAY_DL_MS = 9 + 4.
FddHarqDelayUlMs == 4
UlTxDelay == 13
TtiAdd(t, d) == (t + d) % NTti
TtiTxDl(ttiRx) == TtiAdd(ttiRx, FddHarqDelayUlMs)
TtiTxUl(ttiRx) == TtiAdd(ttiRx, UlTxDelay)
SfIdx(t) == t % 10
Sfn(t) == t \div 10

\* srslte_ra_nbiot_is_valid_dl_sf: subframes 0 (NPBCH) and 5 (NPSS), and
\* subframe 9 of even frames (NSSS), carry no NPDCCH/NPDSCH.
IsValidDlSf(t) ==
  ~(SfIdx(t) \in {0, 5} \/ (SfIdx(t) = 9 /\ Sfn(t) % 2 = 0))

\* The first subframe at or after t that is a valid downlink subframe (the
\* "while (!is_valid_dl_sf(x)) x++" loops of the scheduler).
RECURSIVE NextValidDlSf(_)
NextValidDlSf(t) == IF IsValidDlSf(t) THEN t ELSE NextValidDlSf(TtiAdd(t, 1))

(***************************************************************************)
(* SIB1-NB.  bc_sched hard-codes sched_info_sib1 = 5 and the cell id 99;   *)
(* with them srsLTE gives 16 repetitions and a starting frame of 1.        *)
(***************************************************************************)
Sib1NbTti == 256          \* SIB1_NB_TTI, frames per SIB1 period
NRepSib1 == 16            \* srslte_ra_n_rep_sib1_nb(sched_info_sib1 = 5)
Sib1Start == 1            \* srslte_ra_nbiot_get_starting_sib1_frame(99, ..)

\* bc_sched::bc_sched: the first frame of each of the 4 * nrep SIB1 blocks.
Sib1Sfn ==
  [idx \in 0 .. 4 * NRepSib1 - 1 |->
     (idx \div NRepSib1) * Sib1NbTti + Sib1Start
       + ((idx % NRepSib1) * Sib1NbTti) \div NRepSib1]

\* bc_sched::is_sib1_sf: subframe 4 of every second frame of a 16-frame
\* window starting at one of the Sib1Sfn frames.
IsSib1Sf(sfn, sfIdx) ==
  /\ sfIdx = 4
  /\ \E i \in DOMAIN Sib1Sfn :
       /\ sfn >= Sib1Sfn[i]
       /\ sfn < Sib1Sfn[i] + 16
       /\ (sfn + Sib1Start) % 2 = 0

IsSib1Tti(t) == IsSib1Sf(Sfn(t), SfIdx(t))

SiRnti == 65535           \* SRSLTE_SIRNTI, owner of the broadcasts
NSfOfISf == <<1, 2, 3, 4, 5, 6, 8, 10>>   \* i_sf_to_n_sf_npdsch

\* bc_sched::alloc_sibs: SIB2-NB starts in subframe 1 of every fourth frame
\* of the first 16 frames of each 512-frame period.
IsSib2Start(t) ==
  /\ SfIdx(t) = 1
  /\ Sfn(t) % 512 < 16
  /\ Sfn(t) % 4 = 0

=============================================================================
