# TLA+ models of the sonica NB-IoT eNB

This directory holds TLA+ specifications of the sonica eNB (`src/sonica_enb`, with the
NB-IoT baseband helpers of `src/src/nbiot_enb`). TLC checks them. Every definition is
translated from the sources, and `PROJECT.json` maps each one to the lines it models.
`PROJECT.json` also lists:

- the runs;
- the seeded faults (mutants);
- the findings;
- the hazards.

## The system and its interacting parts

- **TX/RX thread** (`txrx::run_thread`). It counts `tti` and `hfn` for each received
  subframe. For each one, it waits for the subframe worker and hands it the subframe
  (`sf_worker::set_time`). It also copies the subframe to the NPRACH worker
  (`nprach_worker::new_tti`).
- **Subframe worker** (`sf_worker::work_imp`). There is one worker (`phy::init` starts
  one). Per subframe it:
  1. asks MAC for the DL result of `tti_tx_dl = tti_rx + 4` (`mac::get_dl_sched`, which
     calls `sched::dl_sched`);
  2. asks for the UL result of `tti_rx + 13` (`mac::get_ul_sched`);
  3. receives NPUSCH (`work_ul`), which ends in `mac::crc_info`;
  4. builds the DL subframe (`work_dl`): `put_base`, the NPDCCHs, the SIB1 and the
     NPDSCH FIFO;
  5. ends in `phy_common::worker_end`, which queues `tti_clock` on the stack thread.
- **NPRACH thread** (`nprach_worker::run_thread`). It runs detection on the buffers
  `new_tti` collected. A preamble calls `mac::rach_detected`.
- **Scheduler** (`scheduler*.cc`). The worker's two calls both enter
  `carrier_sched::generate_tti_result` with the same `sf_sched`. The scheduler keeps:
  - the 10240-entry DL and UL occupancy tables;
  - the SIB1 counter;
  - the pending RARs;
  - a static DL cooldown;
  - one `sched_ue` per user.
- **Stack thread** (`enb_stack_nb::run_thread`). It pops tasks from three FIFO queues:
  - the sync queue: `tti_clock`, which runs `rrc::tti_clock`;
  - the MAC queue: the RACH task and `process_pdus`;
  - the MME queue: S1AP messages.

  Every scheduler call takes `sched_mutex`, so a stack task falls between two worker
  calls, never inside one.
- **Start-up and shutdown** (`main`, `enb_nb`). Radio, PHY (which starts the threads)
  and then the stack are initialised. On exit, PHY, stack and radio are stopped in that
  order.

## Modules

| Module | Models |
|---|---|
| `NbTime` | The TTI ring, the delays of `tti_params_t`, `is_valid_dl_sf`, and the SIB1/SIB2 patterns of `bc_sched`. |
| `CarrierSched` | The scheduler (`carrier_sched`, `bc_sched`, `ra_sched`, `sf_sched`, `sched_ue`), with the worker calls and the stack tasks that feed it (RACH, `process_pdu`, the RRC connection setup, RLC writes, `rem_user`). |
| `SfWorker` | The worker's own state: the NPDSCH FIFO, the SIB1 configuration, the single UL grant record, the NPUSCH decoder, `put_base`, and the `crc_info` call of `work_ul`. |
| `EnbPhy` | `CarrierSched` and `SfWorker` composed through the MAC glue: `get_dl_sched`, `get_ul_sched`, `crc_info`, and the HARQ buffers of `mac::ue`. |
| `TxTime` | The abstract transmit clock the TX/RX thread promises the worker. |
| `TxRx` | The TX/RX thread, `worker_end`, and the NPRACH buffer pool and thread. It refines `TxTime`. |
| `Rrc` | `rrc.cc` and the per-user RLC, PDCP and MAC entities it creates and removes. It is a record of operators with no variables. |
| `EnbControl` | `TxRx` and `Rrc` driven by the stack thread's three queues, with the UE and the MME as environment. |
| `EnbLifecycle` | `enb_nb::init`/`stop`, `phy::stop`, `nprach_worker::stop`, and the stack thread's start and stop, with the threads running concurrently. |
| `MC_*` | Model values for TLC. |

### CarrierSched

**State.** The two tables, `sib1_sf_idx` and `pending_rars`. Also the `sf_sched`
allocation lists that outlive a call:

- `data_allocs`, from the DL call to the UL call;
- the Msg3 in `sf_sched(tti_rx + 9)`.

Also the `ue_db` keys, and per user: bearers, ConRes CEs, DL buffer counters, BSRs,
the wait timer and the last UL grant. Also the static cooldown. `rlcQ` holds what each
RLC entity really holds. The ghost variables `dlUse` and `ulUse` record which allocation
claimed each subframe.

**Actions.** `SchedDl` and `SchedUl` are the two halves of a worker step. Each composes
the functions the code calls, in order:

- `GetSfSched` (the slot of `tti_rx` is renewed), `ClearDl`, `AllocSibs`, `RarSched` (with `AllocRar`) and `AllocMsg3`, `SchedUsersDl`,
  `GenerateResults`. In the DL call `GenerateResults` also runs `ue::generate_pdu`
  (`GeneratePdu`, with `AllocateSdu`), which reads every scheduled SDU out of the RLC;
- `ClearUl`, `SchedUsersUl`, `GenerateResults`, `NewTti` (the `sf_sched` lists are
  cleared before the slot is reused).

`generate_tti_result` passes `tti_rx + 9` to `get_sf_sched` without wrapping it. So a
Msg3 allocated in the last 9 TTIs of the ring goes to an `sf_sched` whose `tti_rx` is
past the ring. When the wrapped `tti_rx` comes round, `GetSfSched` models the
`new_tti` that drops that Msg3. Its UL table marks stay, because `TTI_ADD` wraps
them. The model assumes the slot array's size (`TTIMOD_SZ * 2`, defined outside this
repository) divides 10240.

The stack tasks are `RachTask`, `ProcessPdu`, the three scheduler calls of the RRC setup
(`RrcConnReq`, `RrcConRes`, `RrcSrb0`), `RlcWrite` and `UeRem`. The scheduler entry
points they call are their own operators, for example `SetCfg`, `MacUeCfg`,
`DlRachInfo`, `RlcBufferState`, `ProcessCe` and `SchedUeRem`.

### SfWorker and EnbPhy

`WorkerDl` is `SchedDl` followed by `mac::get_dl_sched`, which is `MacDlResult`, built
with `SetBcSchedResult` and `SetRarSchedResult`. `WorkerUl` is `SchedUlCore` followed by
`get_ul_sched` (`MacUlGrants`), `WorkImp` and `crc_info`:

- `WorkImp` runs `ArmUgrant`, then `WorkUl` (with `CfgGrant`, `DecodeNpusch` and
  `CrcCall`), then `WorkDl` (with `PutBase`).
- `crc_info` is `MacCrcInfo`, with `PushPdu` and `DeallocatePdu`.

The radio is abstracted: decoding nondeterministically succeeds or fails, and the stub
paths of `work_ul` for a failed decode are modelled as written. `onAir` records what
`work_dl` put into subframe `tti_tx_dl`.

### TxRx and EnbControl

`RxIteration` is one loop of `txrx::run_thread`: it updates `tti` and `hfn`, calls
`SetTime` and runs `NprachNewTti`. `WorkerEnd` frees the worker. `NprachRun` pops a
buffer, detects, and gives the buffer back. In `EnbControl`:

- a detection is `RachDetected`;
- the stack tasks are `StackRach`, `StackPdus`, `StackMme` and `StackTtiClock`.

`StackTtiClock` drains the RRC queue with the recursive `RrcTtiClock`.

### EnbLifecycle

The main thread goes through init, running or failed init, and the stop sequence, one
action per step:

1. `TxRxStop`, `TxRxJoin`;
2. `WorkersStop`;
3. `NprachStopFree`, `NprachStopJoin`, `NprachJoined`;
4. `StackStop`, `StackJoin`.

The TX/RX thread, the worker, the NPRACH thread and the stack thread are separate
actions that interleave with it.

## Runs

| Run | Expect | What it shows |
|---|---|---|
| `safety` | pass | `NpdcchExclusive`: no NPDCCH subframe carries anything else. `Sib1NeverSkipped`: no SIB1 repetition is dropped. Both hold over two users, RACH, Msg3, RRC setup, RLC writes and removals. |
| `liveness` | pass | `RarServed`, `DlDrained`, `UlServed`: every RAR is sent, DL data drains, and reported UL data gets a grant. |
| `dl_double_claim` | violation | SIB2 and the RAR data subframe are marked without a check, so two transmissions share a DL subframe. |
| `ul_overlap` | violation | A NEWTX grant reserves only its first subframe, so a Msg3 overlaps the NPUSCH. |
| `phantom_drain` | violation | The UL call re-runs `generate_formatN1`, which empties the SRB0 counter while RLC still holds the RRC Connection Setup. |
| `dangling_alloc` | violation | `ue_rem` erases a `sched_ue` that an `sf_sched` still points to. |
| `phy_safety` | pass | `Sib1OnAir`: every SIB1 subframe the scheduler allocates is sent as SIB1. `DciNotUnderNpdsch`: no NPDSCH shares a subframe with an NPDCCH. `SyncSignalsClear`: nothing is written over the NPBCH, NPSS or NSSS. |
| `msg3_rx_timing` | violation | The worker arms the Msg3 receiver in a different subframe from the one the scheduler reserved. This happens when the RAR NPDSCH is pushed past an invalid subframe. |
| `ul_null_buffer` | violation | A second user's UL grant overwrites the single UL record before the first user's NPUSCH is received. The first user's HARQ buffer is never released, so a later grant on that pid is armed with the nullptr that `request_buffer` returns. Three inputs (`MaxInputs = 3`) are needed. |
| `dl_fifo_stale` | violation | A RAR queued while SIB2 is on the air misses its exact start subframe and blocks the NPDSCH FIFO. |
| `control` | pass | `TxClockRefined`: the tti/hfn counting implements `TxTime` across both wraps. `PrachBuffersConserved`: no NPRACH buffer is lost. `ReleaseRemovesUser`: a released user is removed everywhere. |
| `nprach_stop_uaf` | violation | `nprach_worker::stop` frees the detector before it joins the thread. The thread, started late or inside `run_tti`, runs detection on freed memory. |

Each violation run has a finding in `PROJECT.json`. Each property of a passing run has
a mutant: a plausible fault in the code it is about, which TLC then finds.

## Bounds

- **Scheduler and PHY runs.** `NFrames = 8` gives 80 TTIs. This keeps:
  - the 2-frame NSSS pattern;
  - the 4-frame SIB2 period;
  - the 16-TTI RAR search space;
  - the 25-TTI cooldown;
  - the 30-TTI wait timer.

  SIB1 falls in subframe 4 of the odd frames, TTIs 14, 34, 54 and 74 (`Sib1NumSf = 4`). Behaviours wrap the ring, so
  every table entry and every FIFO start is reused. The model has two RNTIs, reused in
  ring order as `allocate_rnti` reuses them. `MaxInputs` (2–3) bounds RACHs, PDUs, RLC
  writes and removals; the RRC setup steps are not counted. Data sizes (30-byte RLC
  writes, a 50-byte BSR, a 24-byte Connection Setup) select both TBS columns, both grant
  lengths and the 125-byte boundary.
- **Control run.** A 10-subframe ring (`NTtiMod`) with 2 hyperframes (`NHfn`). This is
  enough to cross both wraps, and the tx-HFN test depends only on the last 5 subframes of
  the ring. There is one NPRACH window per ring and a pool of 1 buffer, so the pool
  empties. `MaxSyncLag = 2` bounds pending `tti_clock` tasks. `MaxInputs = 4` allows a
  RACH, the setup messages and a release.
- **Lifecycle run.** A pool of 2 buffers and 3 NPRACH windows. This lets the NPRACH
  thread be inside detection when `stop` runs.

## Fairness

- **Scheduler and PHY runs.** Weak fairness on the worker's DL and UL halves (the radio
  clock drives them every subframe). Also weak fairness on the RRC setup steps, because
  a started stack task runs to its end. RACHs, PDUs, writes and removals are environment
  inputs with no fairness.
- **Control run.** Weak fairness on the TX/RX, worker-end and NPRACH threads, and on
  each stack task kind. The stack thread serves every non-empty queue of its
  `task_multiqueue`.
- **Lifecycle run.** No fairness; it checks safety only.

## Not modelled

See `components` in `PROJECT.json`:

- Signal processing (OFDM, FFT, NPRACH detection, channel coding). Its outcomes are
  nondeterministic choices.
- The packing of MAC PDUs and RAR payloads.
- S1AP, NAS and security. The S1AP UE-context handlers of `rrc.cc` are commented out
  in the source.
- Configuration parsing and the test applications.
- The failure of radio init and of `sonica_nprach_init`.
- The RLC entities themselves. Their byte counts are `rlcQ`.
- `sched::dl_sched` and `sched::ul_sched` test a `configured` flag, and use the
  `FDD_*` delay macros. These are declared in headers that are not in this
  repository. The model assumes a configured scheduler and the 4/13-subframe delays
  that `tti_params_t` implies.
- The rest of `rrc.cc` is the commented-out S1AP context handlers, `upd_user` and
  `generate_sibs`. `generate_sibs` packs the SIB buffers once at init.
- The rest of `enb_ul_nbiot.c` is channel estimation. Its only state is a noise
  estimate that feeds the decoder, and the decoder's outcome is already a
  nondeterministic choice.
- Two shutdown hazards are reproduced in `EnbLifecycle` but have no run of their own:
  - the stack is destroyed while the PHY threads run (`enb_nb.cc:40`);
  - a RACH arrives before `mac::init` (`enb_nb.cc:89`).

  The lifecycle module's one run is spent on the NPRACH detector. A composed run of the
  lifecycle with `EnbControl` multiplies two state spaces that each already take
  most of the time budget. So does checking the scheduler's liveness properties
  under the composed PHY model (`EnbPhy`).
- A scheduler defect is stated but has no run of its own. `RarHasMsg3` says that
  a RAR that goes out has its Msg3 subframes reserved. TLC finds it violated under
  `MC_CarrierSched.cfg`: RARs sent in consecutive TTIs have Msg3 spans one subframe
  apart, so `alloc_ul` MSG3 fails for the second one after its RAR was already sent
  (`scheduler_grid.cc:445`).

The `hazards` section of `PROJECT.json` lists what a test would hardly reach, with the
properties that cover each hazard or why none does.
