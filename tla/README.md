# Verification of the Observer cell survey

Observer is a C++23 program that surveys the radio cells around a Qualcomm modem: it decodes the modem's DIAG
stream, folds what it hears into a registry of cells, and steers the modem over AT (and QMI) from cell to cell
until every cell has shown its identity.
The TLA+ modules here model the parts of it that carry its own logic.
TLC checks them on small instances, TLAPS proves theorems about them for all values of their constants.
Paths below are relative to the repository; `PROJECT.json` maps every definition to the lines it translates.

1. [Inventory](#1-inventory)
2. [Plan](#2-plan)
3. [The modules](#3-the-modules)
4. [The runs](#4-the-runs)
5. [Fairness](#5-fairness)
6. [What is proved](#6-what-is-proved)
7. [Findings and observations](#7-findings-and-observations)
8. [What is not modelled](#8-what-is-not-modelled)

## 1. Inventory

### Components

| Component | State it keeps | Operations | Talks to |
|---|---|---|---|
| **Cell registry** `include/observer/model/CellTracker.h` | `m_registry` (key EARFCN/PCI to row), `m_pending_passports`, the surround-search hint; one mutex | `handle_rrc_event`, `handle_l1_signal`, `set_gsm_surround_arfcn_hint`, `snapshot`, serving queries, QMI pruning | fed by parsers, AT injection, QMI bridge; read by planner, sinks, dashboard |
| **Hop planner** `include/observer/lte/LteHopPlanner.h` | none | `pick_hop_targets`, `pick_full_walk_targets`, `pick_seed_targets`, `pick_neigh_targets` and the neighbour key sets | snapshot in, ranked targets out |
| **Survey engine** `include/observer/engine/` | session: sinks, announced ECIs, last result; strategy: target, visited set, lock time | `poll`, `refresh`, `ingest`, `start`, `stop`; `decide`, `on_status` | registry, planner, control port |
| **Control port** `ModemControl.h`, `qcom/linux/SimcomAtControl.h` | none on the host; two sticky locks in the modem | `apply` of lock, unlock, EARFCN lock, PLMN, RF, rediscovery | AT transactions |
| **AT port** `app/observer/AtSession.h`, `AtBus.h` | tty, path; one mutex on the bus | `transact`, `cmd`, reopen | modem tty; hop thread, rat-guard, search, serving and main thread share it |
| **DIAG link** `qcom/linux/LinuxSource.h`, `qcom/protocol/DiagCommands.h` | tty, epoll, worker thread, `m_running`, `m_stop_requested`, wanted and applied LTE mask pack | `start`, `stop`, `reconnect`, `set_device_path`, `request_lte_diag_pack`; worker: `read_loop`, revive, apply pack | modem tty; disconnect callback into the survey process |
| **DIAG framing** `HdlcCodec.h`, `DiagSerialDemux.h` | partial frame, framing mode | feed bytes, emit packets | link worker to engine |
| **Scanner engine, RAT parsers** `qcom/io/ScannerEngine.h`, `src/{core,lte,gsm,nr,wcdma}` | small per-technology stashes | log code to events | registry |
| **Survey process** `app/observer/SurveyProc.cpp` | all threads, `at_`, `engine_`, last reconnect | `setup`, `pump`, `reconnect_diag`, `stop_feeds`, `restore_radio`, thread loops | everything |
| **Survey context, rat-guard** `app/observer/SurveyCtx.h` | about thirty atomics shared by all threads | `ensure_scan_rat`, `wipe_fplmn`, `FlagGuard` | AT port |
| **Hop thread** `app/observer/SurveyHop.cpp` | phase, cool-downs, waves, forced operators, current target | discover, complete, rediscover, 3G grind | planner, AT, DIAG packs, registry |
| **Stop signals** `app/observer/Signals.h` | `g_user_stop` | signal handler | every loop |
| **QMI session, control, scans, health** `qmi_observer/src` | libqmi client, health phase | connect, recover, scan rounds, probes | modem, registry through a bridge |
| **Device manager** `qmi_observer/src/device` | catalog, profiles, dossiers on disk | enumerate, probe, match, store | sysfs, QMI, AT |
| Presentation, options, offline tools, Tower GUI | files and screens | export, replay, view | registry snapshots |

Threads of a running survey: the main loop (`SurveyProc::pump`), the DIAG worker, the hop thread, rat-guard,
PLMN search, serving poll and QMI.
They share the registry (mutex), the AT bus (mutex), the atomics of `SurveyCtx` and the DIAG link (atomics only).

### Hard behaviours, and what makes each component correct

* **Registry.** Messages name a cell completely, by carrier only (EARFCN|0), or not at all; a passport can come
  before its cell, after it, or for the wrong one. Correct means: a row has its own cell's identity or none; an
  ECI is on one row; a complete identity is not rewritten; one row per technology serves; nothing is minted from
  an event that names nothing.
* **Planner.** Five selections over one snapshot, with up to nine criteria. Correct means: each ranking is a
  strict order (`std::sort` is undefined otherwise), no cell is lost or offered in a weaker form, finished cells
  are not offered, and the selections agree with each other.
* **Walk.** Locks fail, or succeed unnoticed, or hold on to the cell of before; cells appear and complete at any time.
  Correct means: a lock of the modem is on the cell for which the strategy waits, no cell is visited twice, and it is
  known which ones can be left out.
* **Locking over AT.** Answers arrive late, in parts, or for the command before; a second thread uses the port;
  a stop cuts every wait. Correct means: "held" is true, and the modem is left without locks.
* **DIAG link.** Two threads start, stop, revive and reopen the same tty with atomics and no lock, while the
  modem hangs up, reboots, moves to another path, and another port takes its own. Correct means: one owner at a time,
  recovery whenever the modem stays where it can be found, the wanted masks in the modem in the end, and no stop that hangs.
* **Rat-guard, hop thread, main thread.** Each steers mode, operator and radio of one modem with sequences of AT
  commands that interleave; a flag tells the others what is intended, a try-lock keeps a second guard out, a decision
  is taken on a CPSI of before. Correct means: the modem is left as a modem (radio on, COPS automatic, unlocked),
  it gets back to the technology of the survey, and no thread's mode outlives its intention.
* **Hop frontier.** Cells cool down, carriers are banned, neighbours come before seeds, empty carriers are hunted. Correct
  means: the survey never comes to rest, and it is known which cells can wait for ever.
* **Framing.** Two framings in one byte stream, in chunks of any size. Correct means: the chunks do not matter, and
  the demultiplexer stays in step with the modem until something arrives that it cannot tell from the other framing.
* **Device manager.** Modems come and go while they are probed, some share a serial number, a save is cut short. Correct
  means: no dossier is made up, and what is reported of a modem was said by it.

`PROJECT.json` lists each hazard at its line with the properties that cover it.

## 2. Plan

Order: what decides whether the survey tells the truth (registry, planner, walk), then what it stands on (link, AT,
locks), then the threads around it. Steps 1 to 10 and 12 are done; 11 and 13 were dropped for the reasons in section 8.

| Step | Modules | Composition, abstract specification | Runs and bounds | Theorems |
|---|---|---|---|---|
| 1 | `CellTracker`, `CellTrackerProps` | - | two LTE cells; GSM, NR and WCDMA worlds | types, all nine invariants and three action properties (done) |
| 2 | `HopPlanner`, `HopSnapshots` | registry rows as snapshots | six cells, up to six kinds of rows each | both rankings are strict orders, the merge loses nothing, and all five properties of the run (done) |
| 3 | `LteWalk` | planner inside the session's poll, against two sticky locks | four cells, one perhaps refused, one failing lock | `TargetIsPinned`, `NoSecondVisit` (done) |
| 4 | `DiagLink` | worker, main loop, hop thread, modem | two paths, two packs, three faults | types, `ThreadConfined` (done) |
| 5 | `AtPort` | the shared port | through `CellLock` | - |
| 6 | `CellLock` | `AtPort` with two callers and the modem | two cells, two timeouts | `HeldIsLocked` for up to five expired waits (done) |
| 7 | `ControlPort` (abstract) | "a lock answered Ok holds until it is given up": `CellLock` implements it | none, it is proved | `DialogueKeepsPort` (done) |
| 8 | `SurveyGuards` | rat-guard, search and hop thread, main thread over the flags of `SurveyCtx` and one modem | a full walk and three watches, one drop, one lost command | `EndRestored` (done); not proved: `busy` is exclusive |
| 9 | `SurveyHop` | planner inside the hop thread's loop | five cells, an empty carrier, small clocks | none; its properties are liveness |
| 10 | `DiagDemux` | two framings over cells, the chunked run against one read of all | streams of three messages, every split | `ChunkInsensitive`, for any stream (done) |
| 11 | QMI session and scans | - | dropped | - |
| 12 | `DeviceCatalog` | enumerate, probe, dossiers across crashes | three modems | `NothingInvented`, `ReportIsOwn` (done) |
| 13 | sinks of the session | - | dropped | - |

## 3. The modules

### CellTracker, CellTrackerProps, CellTrackerMC, CellTrackerProofs

`registry`, `pending` and `hint` stand for `m_registry`, `m_pending_passports` and the two members of the surround
hint. A row keeps its technology, the serving and the ever-served mark, the passport (cell identity, TAC/LAC, PLMN
and whether the PLMN is a guess) and the PCI of its radio stamp.
Each public operation holds the mutex from its first line to its last and is one action.
`handle_rrc_event` is split by the type of event: `PassportEvent`, `ServingChanged`, `RadioParams`, `Observe` and
the neighbour lists, each with everything the code does before it returns: promotion and absorption of EARFCN|0
rows, relocation of bare-CID rows, claims of an ECI, fan-out of a PLMN, attachment of identities without PCI.
`FirstKey` is the first hit of an iteration over `std::map`, in key order.
Levels, time stamps, display lists and counters are left out.
A neighbour list is modelled entry by entry: the loops of the code look back at the row on which the list came in and at
nothing else, so that a list is a sequence of one-entry events. The exception is a list on an EARFCN|0 row that its first
entry absorbs: the code's later entries still copy the absorbed row's PLMN, the model's do not.

`CellTrackerProps` states what the registry promises: `IdentityIsOwn`, `TacIsOwn`, `EciUnique`,
`WeakRowHasNoIdentity`, `CampedIsIdentified`, `PendingIsUnbound`, `NoNullRow`, `OneServingPerRat`,
`CidRowIsLastResort`, and the action properties `FullIsSticky`, `HardPlmnStaysHard`, `RatIsStable`.
`CellTrackerMC` gives it worlds: cells with their true identities and the events a radio hearing them can feed in.
`CellTrackerProps` also states what a property may suppose of the events (`CarriersApart`, `OnlyLteWaits`,
`WeakIsPassportOnly`, `BoundOnce`, `HonestInputs`); the theorems have them as hypotheses, and `WorldsAssumption` lets TLC confirm
that the worlds of the runs satisfy them.
`CellTrackerProofs` has three parts: types, what holds row by row, and what relates several rows, the pending passports and
the true cells.

### HopPlanner, HopSnapshots, HopPlannerProofs

`HopPlanner` is the planner as operators: no state, the same selections, comparators and merge rules
(`pick_full_walk_targets` keeps the richer of two offers of a cell; `pick_seed_targets` and `pick_neigh_targets`
have conditions of their own). RSRP is a level: 0 for no measurement (-160), 1 for the -155 of a bare SIB5 offer, 2 and
more for measured values. Bands are the sets `Fdd` and `Ghosts`.
`Sorted` puts each element at the place given by the number of elements before it, which is what `std::sort` yields when the
comparator is a strict order. `HopCandidates` and `WalkCandidates` are what the loops of the code have collected when they
come to the sort: the offers in the order of the code, folded by recursive functions.
`HopSnapshots` builds snapshots row by row, so that TLC visits every combination of row kinds. `HopPlannerProofs` proves the
five properties of that run for every snapshot.

### LteWalk

`SurveySession::poll` with `LteWalkStrategy`: `target`, `visited` are `m_target`, `m_visited`; `expired` stands for
`now - m_locked_at >= dwell`. A poll is one action, since only the polling thread touches the strategy: it keeps the target
(`PollKeep`), finds nothing (`PollEnd`) or locks the next cell (`PollLock`) and hands the status to `on_status`.
`lock_lte` is what the port does: two sticky locks (`locks`, CCELLCFG and CLECELL) are set and read back one after the
other, and one that verifies is enough. The other one stays as it was, goes away, or is on the new cell all the same; the walk
never clears it, so that it can hold the cell of an earlier target, and the modem can camp there. Some cells are refused
for ever (`refused`), other locks fail once.
The rest is the environment: `Camp` reads the SIB1 of a cell that a lock names, if it can be read at all (`Sib1`); `Hear` adds
a cell. `tick` flips with each poll, so that fairness can speak of polls that change nothing else. What happens to a command
that the modem executes late is the subject of `CellLock`.
`WalkFinishes` says that every cell heard is walked in the end, with two exceptions, which are what the code does (`PassedOver`): the
planner's list is cut to `Frontier` before visited cells are skipped, and a refused cell is asked for again at every poll.

### DiagLink

The worker (`read_loop`, `revive_serial_on_worker`, `maybe_apply_lte_pack`, the disconnect callback), the main loop
(`pump`, `reconnect_diag`, `reconnect`, `start`, `stop`), the hop thread's `request_lte_diag_pack` and the modem.
Each load or store of an atomic that another thread can see is a step of its own: the two stores of the callback, the
stores of `stop`, the join, the initialisation and the two stores at the end of a reconnect.
`applied = Unknown` is the note after a revive, `modem = Unknown` a modem without LTE masks.
Environment: `Unplug`, `Replug` under any free path with or without a reboot, `HangUp` of the tty, `UserStop`, and `OtherPorts`,
the ports of other devices that come and go under the paths the modem does not have. `access` and `open` see a path only
(`CanOpen`): behind it may stand the modem (`fd` open) or another port (foreign), which takes the masks in the modem's place.
`device` is the path of `--device`, or none; `resolve_modem` returns it whatever the catalog says (`Resolved`). Hence
`LinkRecovers` and `PackSettles` suppose `Findable`: the modem is plugged in, at the path of `--device` if one was given, and no
other port has the path in use. Without that neither holds of the code (section 7).
The sleep of a wait is a point at which anything may happen; the eight seconds of the throttle are `recent`.

### AtPort, CellLock, CellLockProofs

`AtPort` is one transaction at a time on the shared port: drain, write, read to a final result, give up, repeat
once after ATE0, return at once after a stop. `todo` is what the modem still has to execute, `inbuf` what has arrived
unread, so that a late answer is found by the next transaction, or drained by it.
`CellLock` is what runs over it: the hop thread's lock dialogue in the order of `SimcomAtControl::lock_lte` and
`send_ccell_lock` (CLEARFCN, CCELLCFG and its query, CLECELL and its query, COPS, the second look-up), the unlock, and
`restore_radio` after a stop; another thread with commands of its own; a modem with two sticky locks that refuses,
or says OK and does not lock.
Assumed of the environment: the AT tty can be reopened whenever the code tries, the modem executes commands in order and,
once a stop has come, does not refuse to clear a lock.

### ControlPort

What the callers of `IModemControl::apply` rely on: a lock that was answered Ok holds until its caller gives it up, a
failed one promises nothing, and once the radio is being restored nothing is granted any more. `CellLock!Port` maps the dialogue to
it (held: the cell the hop thread grinds; locked: the two locks of the modem; closing: `restore_radio` under way).
It is an abstract specification for the reader and for the theorem `DialogueKeepsPort`; no run has it as a property, since
`HeldIsLocked` and `StopReleases` check on the same states what could break it.

### SurveyGuards, SurveyGuardsProofs

Three threads, each with the rest of its program as a sequence of commands and stores (`prog`); every AT command is a
step, since the bus is free between two of them. The rat-guard runs `ensure_scan_rat`: try-lock (`Enter`), the hold of a
3G walk (`HoldCheck`), the judgement (`Judge`) on a CPSI read earlier, the trip with its waits and the airplane cycle. The
worker is the hop thread of a survey or the search thread of a watch; `Rounds` lists what one turn of its loop does to
the modem. The main thread pins the radio before the threads start and restores it after they have been joined.
`search`, `hold` and `busy` are `intentional_search`, `intentional_wcdma` and `rat_recover_busy`.
The modem camps where its mode, operator and radio allow, once falls to 3G against its mode and stays there until the
radio is switched off (`Drop`), and one command may get lost (`lost`); CFUN=1 is counted on its own, since it is the one
whose loss nothing repairs. A recipe says which threads run: a full-walk survey with a 3G walk, watches with and without ghost.
A full walk also pins an operator with AT+CMSSN (`modem.pin`): after the first discover, at every next operator, after every
kick, after an empty frontier, and in the recovery after a search (`recover_after_search`) unless a walk on 3G has made the
thread forget it. No exit path clears that pin: `EndRestored` is about the radio, COPS and the cell locks and leaves CMSSN out,
because of the code it would be false (section 7).
Left out: the selection of a target's own operator by COPS=1 (`ensure_plmn`, `SurveyHop.cpp:567-617`, which a full walk
reaches only after a lock that was lost and regained, `:1902`, and `ensure_plmn_utran` for targets of the 3G walk, `:753-783`).
It makes `pin_lte4g` and `send_ccell_lock` leave COPS alone for a while (`cops1_held`); the COPS=0 at the end of the hop thread and
in `restore_radio` are unconditional.

### SurveyHop

The frontier of `SurveyHop::loop`: one step of `Loop` is one turn, in which every cool-down comes nearer its end. Targets
are those of the planner, cut to `frontier_n` and then without the done, the weak and the cooling-down (`UsableOf`),
neighbours first (`stay_on_neigh`); a turn without a target hunts an empty SIB5 carrier, advances the wave or searches again
(`Empty`). A kick ends as FULL, refused or missed (`Full`, `Miss`): a miss cools the cell down, notes it under its carrier and may
ban the carrier; if the modem is on 3G without an LTE cell, a search follows at once (`after-3g`), which lets every carrier
be hunted again but leaves waves and neighbours as they are. `Camp` and `Hear` are the air. Clocks are counted in turns:
`Cool`, `FddBan`, `TddBan`, `BandWaves` and `OperWaves` stand for the constants of the loop, `HopMax` and `WalkMax` for `hop_max`
and the 32 of a full walk.
`CandidatesGetTheirTurn` is about cells on carriers too small to be banned. Such a cell gets its turn unless it is crowded out
(`Crowded`): as many other cells as the list is long, cut before the cooling cells are dropped, or more of them than kicks
in a cool-down, so that the strongest is warm again before the weakest was tried. Both parts of `Crowded`, and the exemption of a drop to
3G, are needed: TLC refutes the property without any one of them.

### DiagDemux, DiagDemuxProofs

The tty as a stream of cells: bytes, a checksum as one cell, a header word as two. `feed` hands over a chunk of any size,
`pump` is the loop of the demultiplexer as a function of the position in its buffer, `Deframed` the deframer between two
flags. `Messages` are what a modem sends, both framings, with flags, escapes, opcodes and headers in their
payloads, damaged and cut messages, and a log of 126 bytes, whose length field begins with a byte that looks like the flag.
`InStep` says that every message up to the first noise or the first such length (`Misread`) is taken as what it is; behind
it the code loses step (section 7).

### DeviceCatalog

`refresh` and the steps of a probe (QMI open, identity, radio, AT, store) against a host where modems are plugged in,
bound to drivers and unplugged between any two of them. A dossier records which modem said what; the file holds whole
objects and, after a save that was cut, one that is not. `load_dossiers` starts the program again.
Text fields are values that no brace or quote occurs in: the code ends an object of the file at the first `}`, also one inside a
string (`dossier_store.cpp:196`), and would lose the fields behind it.
`calm` is history: no modem came or went in the middle of a probe or between the list and the probe. `stored` is history
too: every dossier that a probe completed.

## 4. The runs

Every passing run finishes its whole state space. Deadlock is checked in `sh_hop` and `dc_catalog`, where a step is
always possible; in the other runs a system that has heard all there is, reached its bounds or stopped has no step left.

| Run | Instance | What it shows |
|---|---|---|
| `ct_honest` | two LTE cells of two operators on one carrier; messages under the full key of their own cell or measured for its PCI, complete, partial, EARFCN\|0 without identity, SIB4/SIB5 | identities and TACs stay with their cell, and a row that counts as camped has an identity |
| `ct_confused` | the same cells; identities stamped on the wrong row, identities without a key | one row per ECI and per service, sticky complete identities, bare EARFCN\|0 rows, pendings bound once, no null row |
| `ct_other` | GSM with ARFCN, ARFCN\|BSIC and bare CID rows and the surround hint; NR, WCDMA on carriers of their own | bare-CID rows as a last resort, technologies not mixed |
| `hs_planner` | six keys on four carriers (two FDD, a TDD, a carrier of no band), rows with and without identity that list each other | strict orders, no cell lost to the walk, strongest offer, new carriers first, selections that agree |
| `lw_walk` | four cells on three carriers, one TDD, some unreadable; a list of two; walk and classic hop; two sticky locks; no cell or one always refused; one failing lock | a lock is on the target, no second visit, every cell is walked unless the list is cut before it or it queues behind a refused one |
| `dl_link` | two paths, two packs, other ports, with and without `--device`, one open per revive, three faults, one request | confinement of the tty, recovery and settled masks of a modem that can be found, a stop that ends |
| `cl_lock` | two cells, two expired waits, one foreign command, a stop anywhere | "held" is true; after a stop the locks are gone |
| `dd_demux` | fourteen kinds of messages, streams of up to three, every split | the chunks do not matter; up to the first noise or flag-like length messages are taken one by one |
| `sg_guards` | a full-walk survey with 3G walk and three kinds of watches, one drop to 3G, one lost command (`MaxLost`), a stop anywhere | the end leaves the radio on, COPS automatic and the cell unlocked, a watch returns to LTE, the guard keeps a walk's mode and does not outlive it |
| `sh_hop` | five cells on two FDD and a TDD carrier and an empty SIB5 carrier; lists of one (hop) and five (full walk), cool-downs of two kicks | the survey goes on, and candidates that are not crowded out get their turn |
| `dc_catalog` | three modems, two with a stub serial, two ports, one node, three plugs, two probes, one crash | no dossier is made up, reports are a modem's own |

One run ends in a violation: `dl_init_fails`, see section 7.

### Bounds and why they are enough

* Registry: two cells on a carrier are the least that can be confused; a third would add a second bystander but no
  new relation. EARFCN|0 and the null key are always there. The registry is finite, so no counter is bounded.
* Planner: two cells share a carrier, two share an operator, one is TDD, one has no PCI, one has no band; every
  criterion of every comparator decides between some two rows of some snapshot.
* `MaxFaults` of `LteWalk` (1): a failed lock changes nothing but `locks`, which `Unverified` lets be anything it can be
  anyway, so a second one finds the strategy in a state it has been in; a refused cell fails without bound. `Frontier` (2, against four
  cells): the list is cut before unvisited cells once two visited ones lead it.
* `Attempts` of `DiagLink` (1; 20 in the code): the attempts of a revive only count; the second chance doubles them.
  `MaxFaults` (3): a fault during the recovery of a fault during a recovery. `MaxRequests` (1):
  with two packs a request is there, and the initialisation of a reconnect is back.
* `MaxTimeouts` of `AtPort` (2): the two attempts of a transaction, or two transactions in a row. `MaxOthers` (1).
* `MaxMessages` of `DiagDemux` (3): a message before, the message, and one after it, whatever their kinds. `CloseFlag` is
  small enough to be exceeded, by an opcode byte whose next flag is two messages away, `MaxTotalLen` by a header read in the
  wrong place; no frame of three such messages fills `MaxFrame`. `MaxCells` bounds the stream to 130 cells, so that the long log
  (126 bytes) comes with what fits beside it, before or behind.
* `MaxDrops` and `MaxLost` of `SurveyGuards` (1): the recovery from one fault is the longest program there is; a second
  drop finds the threads in a place where the first one found them. `UserModes` has one member: nothing but what is restored
  depends on the mode found.
* `SurveyHop`: cool-downs of two turns and a ban of two (TDD) or five (FDD) cells against two cells on the TDD carrier and
  three on the FDD carriers: the TDD carrier can be banned, the others cannot, cool-downs overlap and end, and end before every cell
  had its turn. `HopMax` (1) and `WalkMax` (5): in the classic hop any rival cuts a cell off, in the full walk it takes the cool-downs.
* `DeviceCatalog`: three events are the least for another modem in the place of one that was probed; two probes
  for a dossier that starts from an earlier one; one crash between any two steps.
* `MaxFaults`, `MaxRequests`, `MaxEvents`, `MaxProbes`, `MaxCrashes`, `MaxOthers` and `MaxTimeouts` bound the environment and the clock, never the program.

## 5. Fairness

* `LteWalk`: polls happen for ever (`[]<><<Poll>>_tick`): the application calls `poll` in a loop and a poll is
  possible in every state. `WF(DwellElapses)`: the clock runs. No fairness makes a cell answer.
* `DiagLink`: weak fairness of the worker, of the main thread and of the throttle's clock: both are OS threads that
  run their loops, and every wait of theirs has a timeout. No fairness of the modem: the liveness properties suppose that
  it stays plugged in from some time on, where they need it to.
* `CellLock`: weak fairness of the thread that holds the bus (`Host`), of `restore_radio`, which the main thread
  reaches after a stop, and of the modem executing what it was sent. No wait has to expire.
* `SurveyGuards`: weak fairness of each thread's steps, of the guard's two-second loop and of the start: OS threads whose
  waits have timeouts. A dwell need not end. Strong fairness of camping on LTE: a modem that could have service again and
  again camps some time.
* `SurveyHop`: turns happen for ever (a turn is possible in every state). Nothing makes a cell answer.
* `DiagDemux`, `DeviceCatalog` and `ControlPort` state safety only.

## 6. What is proved

Each theorem is for all values of the constants that satisfy the assumptions of its modules (`ConstantsAssumption`,
`PlannerAssumption`, `RowKindsAssumption`, `WalkAssumption`, `TimeoutsAssumption`, `LockAssumption`, `LinkAssumption`,
`DemuxAssumption`, `GuardsAssumption`, `CatalogAssumption`): any number of cells, carriers, paths, attempts, drops, lost
commands, any messages. `WorldsAssumption` is about the instances only.

| Theorem | Statement | Argument |
|---|---|---|
| `CellTrackerProofs!TypeCorrect` | `Spec => []TypeOK` | one lemma per helper of the registry, one per action; the delicate point is that the `CHOOSE` of `FirstKey` has a witness: every non-empty set of keys has a least one (`FirstKeyIn`, from the well-foundedness of the naturals) |
| `CellTrackerProofs!NullKeyStaysFree` | `Spec => []NoNullRow` | `Keeps` and `Strips`: what each helper of the registry leaves of a row, composed along each action |
| `CellTrackerProofs!FullStays` | `Spec => FullIsSticky` | the same |
| `CellTrackerProofs!HardPlmnStays` | `Spec => HardPlmnStaysHard` | the same |
| `CellTrackerProofs!OneServes` | `CarriersApart => (Spec => []OneServingPerRat)` | `Orderly`, see below |
| `CellTrackerProofs!RatStays` | `CarriersApart => (Spec => RatIsStable)` | `Orderly` |
| `CellTrackerProofs!EciStaysUnique` | `Confused => (Spec => []EciUnique)` | `IdentityInv`, see below |
| `CellTrackerProofs!WeakRowsStayBare` | `Confused => (Spec => []WeakRowHasNoIdentity)` | `IdentityInv` |
| `CellTrackerProofs!PendingStaysUnbound` | `Confused => (Spec => []PendingIsUnbound)` | `IdentityInv` |
| `CellTrackerProofs!CampedStaysIdentified` | `Honest => (Spec => []CampedIsIdentified)` | `HonestInv` |
| `CellTrackerProofs!CidRowIsLast` | `CarriersApart => (Spec => []CidRowIsLastResort)` | `GsmInv`, see below |
| `HopPlannerProofs!RankingsAreStrict` | both rankings order any targets of different cells strictly | criterion by criterion; the last two, carrier and PCI, are the key |
| `HopPlannerProofs!SeedsAreRanked`, `NeighboursAreRanked` | so are the candidates of `pick_seed_targets` and `pick_neigh_targets`, for every snapshot | they are typed (the camp count is a maximum of counts of a finite registry, `MaxOfBounded`) and one per cell |
| `HopPlannerProofs!MergeLosesNothing` | the upsert of a full walk never loses or weakens a target and takes an uncamped offer in | by the three ways of `Richer`; see below |
| `HopPlannerProofs!RankingsStayStrict` | `Spec => []RankingIsStrictOrder` | `RankingsAreStrict`, `SeedsAreRanked`, and the typed targets, one per cell, that the two loops collect (`HopLoops`, `WalkCollects`) |
| `HopPlannerProofs!NoUncampedMissed` | `Spec => []WalkCoversUncamped` | induction over the loop of offers, see below |
| `HopPlannerProofs!TargetsAreStrongest` | `Spec => []WalkTargetIsStrongest` | the same |
| `HopPlannerProofs!NewCarriersComeFirst` | `Spec => []NewCarrierFirst` | the first of a list sorted by `hop_target_better` is beaten by none |
| `HopPlannerProofs!SeedsAreWalked` | `Spec => []SeedsAreWalkTargets` | a seed is a usable cell that has not served, and the walk knows its own offer (`UncampedIsOffered`) |
| `CellLockProofs!HeldWhileModemKeepsUp` | `Spec /\ []KeepsUp => []HeldIsLocked` | `LockInv`, see below |
| `CellLockProofs!HeldStaysLocked` | `MaxTimeouts <= Backlog => (Spec => []HeldIsLocked)` | `Counted`, see below |
| `CellLockProofs!DialogueKeepsPort` | `MaxTimeouts <= Backlog => (Spec => Port!Spec)` | initial states map to initial states, every step to a step of `ControlPort` or a stutter, from `LockInv` |
| `DiagDemuxProofs!PumpInPieces` | a pump of a chunk, and of what it kept with the next chunk behind it, is one pump of both | see below |
| `DiagDemuxProofs!ChunksDoNotMatter` | `Spec => []ChunkInsensitive` | one `PumpInPieces` for each read |
| `SurveyGuardsProofs!RadioIsRestored` | `Spec => []EndRestored` (radio on, COPS automatic, unlocked; CMSSN is not claimed) | debts, see below |
| `DiagLinkProofs!TypeCorrect` | `Spec => []TypeOK` | by thread, then by action |
| `DiagLinkProofs!Confined` | `Spec => []ThreadConfined` | see below |
| `LteWalkProofs!Pinned` | `Spec => []TargetIsPinned` | inductive as it stands: a poll that sets a target has seen one of its locks verify, no other step touches either; the other lock may be anywhere |
| `LteWalkProofs!OneVisit` | `Spec => NoSecondVisit` | with `RealVisits` (the strategy never marks "no target" as visited) and `FirstIsUnvisited`; a lock that moves moves to the target or away |
| `DeviceCatalogProofs!DossiersWereStored` | `Spec => []NothingInvented` | `KeptWasStored`: what is in memory and every whole object of the file was stored; a save that is cut keeps whole objects whole (`WholeIsKept`), a load changes nothing but the AT text (`ReadKeepsName`) |
| `DeviceCatalogProofs!ReportsAreOwn` | `Spec => []ReportIsOwn` | see below |

**The registry.** The hypotheses are on the events, as conditions on the constants, and each is there because the code
does otherwise without it (section 7):
`CarriersApart` (technologies do not share carrier numbers; else an event without key reaches a row of another technology, `CellTracker.h:92`),
`OnlyLteWaits` (only LTE leaves passports pending; else they are bound to whatever row reports next),
`WeakIsPassportOnly` (no serving report and no CGI names EARFCN|0; else `:435` and `:593` give that row an identity),
`BoundOnce` (no identity comes both as a CGI and without a key; else it is bound twice),
`HonestInputs` (an identity arrives under the full key of its own cell, or as a CGI measured for its PCI). `Confused` is the first four, `Honest` the first two and the last.

`OneServingPerRat` is not inductive: a promotion or relocation moves the serving mark of a row whose place matters.
`Tidy` adds that an absent row is blank, that a row lives on a carrier of its technology (`AtHome`) and that no serving row
lacks a carrier; then an event touches the rows of its own technology only (`Spares`), and with `CarriersApart` the others' marks
are beyond it.

`EciUnique` needs `IdentityInv`: EARFCN|0 rows are bare *and do not serve* (what serves takes a late identity), and a pending
passport's identity is on no row and came without a key (`PendingApart`). Nearly every helper only copies an identity from a row
to itself (`Copies`). Exactly one row of a step learns one (`Learns`), and whoever learns has claimed the identity
beforehand (`LearnsClaiming`) or takes one that no row holds (`LearnsFresh`).

`Honest` is a strong hypothesis: it leaves out identities on EARFCN|0 and without key, and with them the two paths on which the
code lets identities cross between cells (section 7). `HonestInv` says that under it a physical row holds parts of what its cell
broadcasts, that no EARFCN|0 row counts as camped and that nothing pends; then a claim never finds another row to strip, which is
what keeps `CampedIsIdentified`: a claim takes the identity of a row and leaves its mark. `IdentitiesAreOwn` and `TacsAreOwn` are the
first of the three facts, that is, no more than that the other paths are sound, and not among the results above.

`GsmInv` adds `BareNames` to `CidRowIsLastResort`: a row {0, cid} holds the identity it is named by or none, so that taking
over such a row teaches a row with an ARFCN the identity whose bare row goes away in the same step.

**The planner.** The merge relies on something the code does not say: a FULL offer has an operator (`Offers`). `Richer` replaces
a target by an offer that knows the operator, and would lose the FULL mark of one that does not; FULL includes an operator, so
that this never happens.
The lists are proved about in three steps. Sorting: the places of a strict order are a bijection onto 1..n (`PlacedInOrder`), so that a
sorted list has the elements of its set, in order. The offers: joining the lists of the rows loses no element
(`JoinedElements`), and each row of the snapshot offers itself and its neighbours with keys that are usable (`SoundOffers`). The
loop: a sequence of its states exists (`Recursion`), and `CountUp` carries along it the invariant that every uncamped offer met so
far has a target no poorer than it and that a target is FULL only if its own row is (`WalkCollects`). What is proved of one
`Upsert` is thus proved of the loop. The list of the run has room for every cell (`RoomForAll`), so that nothing is cut off.

**The lock dialogue.** "Held" is wrong only if a line that names the cell was written before the lock went away, and read after it.
Between a query of a lock and the next question that could take its answer lie at least five commands: three of `unlock_lte` and
the first two of `lock_lte`. The modem executes in order, so while no more than five commands of the port are unanswered when the
hop thread asks (`KeepsUp`, `Backlog`), an old query is either executed or has nothing behind it that touches the lock. `LockInv`
says this of every pending query and of every unread line; `HeldIsLocked` alone says nothing of what is under way.
`Counted` relates the pending commands to the waits: each of them but the one just sent had its wait expire, so that five expired
waits are not enough. The bound is sharp: with six, TLC finds a cell that is held and not locked, in a trace of 66 states. In the code
that takes a modem that is six commands behind and answers them all afterwards.

**The framing.** A turn of `pump` looks ahead of its position only (`StepOfSuffix`), and a turn that takes something takes the same
when more has arrived (`StepOfPrefix`): a flag that was found stays the first one, a header that was read stays. `PumpRuns` gives the
loop its result from every position; going down from the end of the first chunk (`CountDown`) the pump of everything and the pump
of the rest meet (`RunGoesOn`). The deframer is not expanded: what a frame means does not enter. That the
demultiplexer waits, rather than decides, whenever more could change its mind is the point on which the proof would fail.

**The guards.** `EndRestored` speaks of the end only. `DebtInv` follows what is owed there: radio off, operator selected by
hand, a lock. Every command that opens a debt is followed in its program by the one that pays it, and no decision that could
skip it stands between (`ProgramsClosed`); so a debt is some thread's to pay unless the paying command was lost (`DebtsOwned`).
After the joins only debts with a lost payer remain; a kind of command is lost once, hence `restore_radio` pays them
(`RestorePays`). No bound is involved: `MaxLost`, `MaxDrops` and the recipes are arbitrary.

**The link.** `ThreadConfined` alone is not inductive: it says nothing of how the worker's end and the main thread's `stop` relate.
`ConfinedInv` adds
`DownIsStopped` (on its way to a reconnect the main thread has `m_running` down, also if all it saw was the flag of the
disconnect callback; once it has reopened the tty `m_running` is up),
`StoppedIsResting` (while nobody has told the worker to stop, `m_running` is down only if the worker is past its loop) and
`NoWorker` (between the join and the next start no worker exists).
The step that needs them is `set_device_path`: `reconnect_diag` calls it before `stop`, that is, with a worker
not yet joined, and is right to do so only because a worker takes `m_running` back as the last thing it does to the source.

**The device manager.** `ReportIsOwn` speaks of a report under an up-to-date list, which says nothing of the places a false one could come from.
The invariant `CalmIsOwn` follows what a modem said through all of them: while the host is calm, memory, whole objects of
the file and the probe under way hold under the name of a serial number only what its modem said, and whoever answers at
the node of a probe's endpoint is the modem of its name. The last part rests on `OneModemPerNode` and on the list being
up to date when the probe started (`EndpointIsOwn`).

Model-checked only:

* everything about liveness (`WalkFinishes`, `LinkRecovers`, `PackSettles`, `StopEnds`, `StopReleases`, `BackOnLte`,
  `HoldIsRestored`, `WalkModeEnds`, `SurveyGoesOn`, `CandidatesGetTheirTurn`): fairness is beyond the prover.
* `IdentityIsOwn` and `TacIsOwn` are proved, and checked, for the messages of `Honest` only. `HeldIsLocked` is false beyond
  five expired waits.
* `InStep`: it is a fact about the messages that are sent, escaped, framed and read back; what those recursions compute
  needs induction over data.

## 7. Findings and observations

The run that ends in a violation: after a failed mask initialisation the note of the applied pack is that of the old
boot and the masks are never written again (`dl_init_fails`; `LinuxSource.h:116-124,271`), against "Last pack we
believe the modem has" (`:169`).

Observed while modelling, without a run of their own; the models behave as the code does:

* Registry: a pending identity is merged into a serving EARFCN|0 row when it reports its radio parameters
  (`CellTracker.h:435-446`); the strip of `handle_rrc_event`, "LTE: never bind ECI/TAC to EARFCN|0" (`:101`), is not on that
  path. An identity without key goes to the serving row if that has none yet (`:85-88,292-299`), one on EARFCN|0 to the only
  PCI of the carrier (`:379-382`), also when another cell sent it: `IdentityIsOwn` and `TacIsOwn` say nothing of such
  messages. A PLMN copied from the serving row for a SIB4 or measured neighbour counts as confirmed, though it is as much
  a guess as one fanned out, and also if the source itself is a guess (`CellTracker.h:562,621`);
  a row keeps `rpci` 0 after absorbing an EARFCN|0 row (`:407`); a claim takes the identity of a row although it is
  complete (`:113`); identities wider than 28 bits are dropped, NR's 36 bits included (`:204`); a keyless event of
  one technology reaches a row of another if they share a carrier number (`:92`); a CGI reported for PCI 0 goes to the
  EARFCN|0 row (`:593`), and one that is also pending can be bound twice (`:435,593`).
* Planner: a cell that served is a walk target again when a neighbour list names it (`LteHopPlanner.h:202,256-275`), against
  "every visible EARFCN|PCI that is not yet camped" (`:190`). The camp count of a walk target can be the count of the operator of another offer of it (`LteHopPlanner.h:218`).
* Walk: a lock that is always refused is asked for on every poll for ever (`SurveyStrategy.h:118`), against "A lock the
  modem could not honour shouldn't wedge the walk" (`:116`). Visited cells that never completed fill the planner's list and
  the walk goes idle with cells it never locked (`:102`), against "dwell expired → mark visited, clear (advance)" (`:68`).
  `WalkFinishes` names both as its exceptions (`PassedOver`); without either of them TLC refutes it.
  A lock counts as Ok when one of the two sticky locks verifies (`SimcomAtControl.h:115-146`) and nothing unlocks between two
  targets: the other lock can still be on an earlier cell, the modem camps there, and the dwell is spent on a cell that was visited.
  A target that is FULL before the modem camps on it is marked visited uncamped; the end of a walk leaves the modem
  locked.
* Link: of a pack of two frames the mask may arrive and the commit fail; if the request then returns to the old
  pack, the note says that nothing is to be done (`LinuxSource.h:274`, `DiagCommands.h:247-250`). `dl_init_fails` has
  this behaviour too; `dl_link` sets `WritesMayFail` to FALSE. A successful initialisation
  overwrites a pack that was requested meanwhile. A revive does not repeat `init_modem`: after a reboot behind the same
  path the masks of other technologies stay unset. With `--device` a modem that comes back under another path is never followed
  (`SurveyProc.cpp:473`, `ModemSelect.h:110,146`). Without it, a port of another device that took the old path is opened at the first
  look, before the catalog is asked (`SurveyProc.cpp:471-487`), and kept as long as it does not hang up: both against "USB
  disconnect → auto-reconnect" (`SurveyProc.cpp:521`).
* AT: the late answer to a timed-out command is read as the answer to the next one (`AtSession.h:163`); `cl_lock`
  shows that the lock verification survives it, other callers have no such check.
* Framing: a length-prefixed message whose length has the low byte 0x7E is taken for the flag of a frame, and messages up to
  the next 0x7E are lost, against "Both must be handled for a live pipeline" (`DiagSerialDemux.h:4-8`); `dd_demux` has such a log, of
  126 bytes, and `InStep` ends there. A stray flag does the same. The acknowledgement `73 00 00 00 03 00 00 00` of a mask is a plausible header of 115 bytes. The buffer
  grows without bound while no flag comes.
* Guards: the mode that a survey restores is read by the hop thread (`SurveyHop.cpp:1367-1375`) after `pin_radio` has set
  CNMP=38 (`SurveyProc.cpp:221`), so that 38 is restored, against `docs/AT_COMMANDS.md:55` (the mode found is saved and
  restored at exit). A lost CFUN=1 in a watch leaves the radio off until the end, a lost COPS=0 after a search leaves the modem
  deregistered through the 3G walk. A stop in a trip still runs CFUN 4 and 1. A ghost watch without enrichment restores
  neither mode nor operator. The operator that a full walk pins with AT+CMSSN outlives the program: neither the end of the hop thread
  (`SurveyHop.cpp:2013-2031`) nor `restore_radio` (`SurveyProc.cpp:574-598`) sends the bare `AT+CMSSN` that removes it
  (`docs/AT_COMMANDS.md:98-99`). `scan_rat_ok` stops nobody. Guard and hop thread may have their CFUN windows at once.
* Hop: `earfcn_failed_pcis` is not cleared when the ban of a carrier ends, and ban and cool-down of a cell are equally long:
  one miss of the strongest cell bans the carrier again and its last cell is never tried
  (`SurveyHop.cpp:642-643,1953-1974`), against "Misses: stay in complete, try next target (PCI cooldown handles thrash)"
  (`:1364`). Targets are cut to `hop_max`, or 32 in a full walk, before those that cool down are dropped (`:1615-1655`), and the cool-down
  ends after 180 s, a handful of kicks: with enough stronger cells that cannot be read, weaker ones never get their turn, against the
  same line. `CandidatesGetTheirTurn` says which cells are spared.
* Devices: the line breaks of an AT answer come back from the file as letters (`dossier_store.cpp:65-86`; `json_escape`). A save
  that is cut short loses every other dossier as well. A QMI open that fails leaves the AT result and the phase of an earlier
  probe in the dossier (`probe.cpp:105-108`). Modems with a stub serial number share the dossier of their port. A modem swapped
  in the middle of a probe gives a dossier of two modems, which is why `ReportIsOwn` supposes `calm`. A text with a `}` in it cuts
  its object short when the file is read (`dossier_store.cpp:196`).

## 8. What is not modelled

Components without a module are listed in `PROJECT.json` with the reason; in short: parsers of binary layouts and of text,
presentation, options, replay tools and the Rust GUI are data conversion or input and output; QMI session, scans and
health are synchronous calls of which the application sees success or failure, and their recovery is reached from an example
program only; the sinks of `SurveySession` are used by tests only. ASN.1, libqmi, GLib's main loops and the kernel's tty are
external and appear only through what the code sees of them. Most of the repository's lines are vendored ASN.1 code and data.

Left out inside modelled components: levels and time stamps of the registry; PLMN and RF commands of the control port; the
serving thread and the reopening of the AT path; the masks of other technologies; the camp of the hop thread between lock and
verdict, the selection of a target's operator by COPS=1, the CFUN of a hop and the target selection of the 3G walk; the clipping of log bodies; the callbacks
and profiles of the device catalog.

## Running

`tlc -config <run>.cfg <module>` with the pairs of `PROJECT.json`, for instance
`tlc -config dl_link.cfg DiagLinkMC`; `tlapm DiagLinkProofs.tla`; `tlapm CellTrackerProofs.tla` takes four minutes, the
other proofs two at most. The longest runs, `sg_guards`,
`sh_hop` and `dd_demux`, take two to three minutes on two cores.
