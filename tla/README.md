# A TLA+ model of qa-agent-pro

qa-agent-pro is an MCP server for QA engineers: an editor talks JSON-RPC over
stdio to a launcher, the launcher runs the real server as a replaceable child
process, and the server generates test suites and drives Android devices.
These modules model the parts whose correctness depends on interleavings,
crashes and timeouts. Paths below are relative to `src/`.

## The system

| component | files | state | operations | what is hard | what makes it correct |
|---|---|---|---|---|---|
| launcher supervisor | `launcher.py` | current child, `idled`, `restarting`, `swallow_id`, recorded handshake, pending requests, reply ledger, qa-doctor retry (`setup_*`) | forward a client line, pump a child's output, idle-out and wake, crash respawn, watchdog and manual restart, hold and release the reload notice | five kinds of threads on one object, several small locks, a child that dies at any moment | each request answered, once; no request stranded; a dead child comes back |
| wire watchdog | `tools/wire_log.py`, `wire_lost.py` | timers, ids answered as lost | arm, disarm, expire | the timer races the reply | never a second, contradictory answer |
| server process control | `handlers/mcp_srv_*.py` | in-flight counters, recent activity, version at start | track a call, drift check, idle exit, parent check | deciding to exit while a call starts | never exits under a running call |
| device locks and run leases | `tools/mobile/locks*.py`, `device_lock*.py`, `run_lease*.py`, `heartbeat*.py`, `lock_reaper.py` | kernel locks with a JSON body, `_HELD` per process, `lease.json` per run, beat threads | acquire, relabel, release, claim, beat, revoke, reap | several server processes and threads, a stale lease taken over from a live but slow holder | one driver per device, a lock let go only by its holder or the kernel |
| updater | `tools/updater*.py` | install tree, backups, manifest, version stamp, update lock | check, download, swap, prune, heal | crash between two renames, a peer updating at the same time | the tree is the old or the new release |
| prep store and host-mode generation | `tools/prep_store*.py`, `handlers/submit_category_*.py`, `agents/host_submit_*.py` | a prep row with its categories, expiry, stamps | save, submit a category, finalize, purge | read, compare, write over SQLite by two callers | no category lost, one suite per prep |
| mobile runner, replay, knowledge, capture, evidence | `handlers/mobile/`, `tools/mobile/`, `tools/mobile_capture/`, `tools/mobile_evidence/` | the device, files of a run | observe, decide, act, record | the device itself | not modelled: heuristics over screens, and file output |
| agents, quality checks, suite/RAG/swagger stores | `agents/`, `tools/` | suites, SQLite and HTTP data | text analysis, queries | none across threads | not modelled: sequential data processing |
| configuration, installers | `config/`, `install.*` | `.env`, settings | run once | none | not modelled |

They interact so: the editor writes to the launcher, which writes to the
current child's stdin and passes the child's stdout on. The updater replaces
files under a running child; the child notices (drift) and exits, and the
launcher brings the next one up. Each connected editor has its own launcher and
child, so device locks, leases and the prep store are shared between processes.

`PROJECT.json` lists each hazard at its line, with the properties that watch it.

## Modules

| component | model | for TLC | proofs |
|---|---|---|---|
| launcher supervisor, wire watchdog | `Supervisor`, `ReplyChannel` (abstract), `SupervisorInvariants`, `SupervisorClaims` | `MCSupervisor` | `SupervisorTypes`, `SupervisorSafety`, `SupervisorAnswers` |
| server process control | `ServerProcess`, `ServingChild` (abstract) | `MCServerProcess` | `ServerSafety` |
| updater | `Updater`, `AtomicInstall` (abstract) | `MCUpdater` | `UpdaterSafety` |
| device locks and run leases | `DeviceRuns` | `MCDeviceRuns` | `DeviceTypes`, `DeviceSafety` |
| prep store and host-mode generation | `PrepStore` | `MCPrepStore` | `PrepSafety` |

Every module is written to be proved about as well as checked: constants with
named assumptions, one action per operation, invariants as conjunctions of named
parts, no RECURSIVE operator. An operator under a `\* Mutant:` comment is a
deliberately wrong variant of the one after it; `PROJECT.json` says which property
it breaks. No action uses one.

The supervisor and the server process are composed through `ServingChild`, which
says what they expect of each other: a server is started once, works on requests,
ends once, goes out for want of use only with nothing at work, and does nothing
after its end; any other end may leave calls running. `ServerProcess` implements it
(`ServesAsChild`, checked and proved), and so does every generation of child in the
supervisor (`ChildrenServe`, proved). The supervisor's `ChildExit` is therefore no
freer about an idle exit than the server's own watches are.

What is left: a second device with its re-serialling; a lease file whose read and
write are two steps. The components that
share no state at run time are not composed: the updater meets the supervisor only
through "a new release is on disk", which the supervisor models as `Updated` and
`ServerProcess` as `PeerWrites`, `PeerDone`.

## Supervisor

### Modules

| module | what it is |
|---|---|
| `Supervisor` | the model: state, actions, properties |
| `ReplyChannel` | what the client may rely on: an id is sent once, a server's answer to it comes at most once, and nothing is answered that was not asked; the launcher's own errors and notices are extra |
| `SupervisorInvariants` | the inductive invariants, the assumption of coverage, the two refinement mappings |
| `MCSupervisor` | for TLC, with the coverage assumption evaluated |
| `SupervisorClaims` | statements of the docs and comments the code does not keep |
| `SupervisorTypes`, `SupervisorSafety`, `SupervisorAnswers` | proofs |

### Actors and steps

- **Intake thread** (`pump_client_in`, `forward_client_line`): `Intake` (the head
  of the handler), then `Record`, `Wake`, `Write` for each attempt, with `BackOff`
  when the wake or the write raises, and `GiveUp` after `WriteRetries`. `target`
  is the child whose stdin the thread fetched under `child_lock`; the write comes
  after the lock is free, so the child may be gone.
- **Child processes** (external): `ChildRead`, `ChildReply` (a result, or for
  qa-doctor the reload notice), `ChildExit`. Each child has its own unread pipe,
  running calls and output; what it wrote is still pumped after it died.
- **Output pumps**, one per child: `PumpReply`, `PumpNotice` (loop body up to the
  decision), `PumpWrite` (the write under `stdout_lock`, a step of its own), and
  after EOF `PumpEOF`, then `MarkIdle`, `ResendWake`, `ResendWrite` for an idle
  exit, or `CrashSeen`, `CrashAsk`, `CrashNote` or `CrashRestart`, `Resetup`,
  `Requery` for any other. The test of `idled` in `restart_child` holds no lock,
  so it is a step (`RestartAsk`) before the restart itself.
- **Watchdog and manual restart**: `WatchdogAsk`, `WatchdogNote`,
  `WatchdogRestart`; `Updated` is a release that appears on disk.
- **Timers**: `LostTimer` (wire watchdog), `GuardRelease` (qa-doctor guard).

### What is abstracted

Time: a timer may fire whenever it is armed, a delay lasts any time. A request is
its id and ids are never reused, so the ledger's and the pending table's limit of
512 is not reached. Crash, drift exit and kill are one exit status, "gone"; an
idle exit whose status is not reaped in time counts as a crash, as in the code.
A handshake that cannot be written is a spawn that brings no child: the half-started
one gets no number of its own, `child` is then a dead child, and the reply to the
replayed initialize may already be awaited. `Reap` is what `wake_child` does after a
spawn that raised: it kills the current child, dead or (after a race of an idle-out
with a restart) alive; a second child such a race left running is taken as killed too.
Closing that child's pipe may end its pump at the read; a line already in the
pump's hand is taken as passed on.
Small lock sections of one handler are merged where nothing another thread does
between them can be told apart: the four of `PumpReply`, wake and fetch of the
child, the reset and the write of `release_setup_check`, all lines of one
re-send. Progress notifications, which re-arm the lost timer, and cancellations,
which disarm it, are left out; for liveness this assumes a call does not report
progress for ever. Not modelled: `maybe_self_exec` (the launcher's own file is
taken as unchanged), the client closing its stdin, a broken client stdout.

### Properties

- `TypeOK`: shapes, and a pump has a line in hand exactly when it is about to write.
- `ForwardOnce`: across respawns, re-sends and retries at most one child reply per
  id reaches the client.
- `NoContradiction`: the lost timer is never live for an id that is answered.
- `NeverForgotten`: a sent tools/call is answered or something still owes it an
  answer: its timer, a pump with its reply, or the held notice.
- `IdleStrandsNothing`: while the child is down for idleness each recorded request
  is in the intake thread's hands or in those of a pump about to re-send it.
- `IsReplyChannel`: every step is a step of `ReplyChannel` or leaves it alone.
- `DeadIsReplaced`: when the current child is down, it idled out, or a spawn has
  raised, or its own pump is still on the way to the restart: the respawn is not
  lost among the threads that race for it.
- `OneSpawnPerFault`: a child that ended, a restart somebody asked for, or a spawn that
  raised, is followed by at most one spawn, though its own pump, the watchdog, the
  wakes of an idle-out and the retries of a write may each start a child. A spawn
  that raised counts because its clean-up may kill a live child.
- `RunsOnce`: until a child has idled out, no request but initialize and qa-doctor
  runs twice, whatever crashes and is restarted.
- `Respawned`, `TrafficWakes`, `CallsAnswered`: liveness.

### Runs

| run | instance | shows |
|---|---|---|
| `sup_safety` | initialize and one qa-doctor call, 2 faults, 1 failing spawn, 2 write attempts; a third fault for initialize alone | the safety properties, the refinement |
| `sup_mixed` | initialize, a plain call and a qa-doctor call, 1 fault, 1 failing spawn, 2 versions | a crash or a restart for one request does not run the other twice |
| `sup_live` | initialize and one call, 1 fault, 2 failing spawns, 3 attempts, 2 versions | liveness |
| `claim_answered_once` | no wire log | a held notice is released, and the report comes after it: two answers |
| `claim_never_hangs` | two qa-doctor calls | the first one's held reply is discarded; nobody owes it an answer |
| `claim_snapshot` | one call | a call that ran is re-sent: its late reply left it on record |
| `claim_schemas` | one call, 2 versions | new server, old tool schemas |
| `claim_session` | initialize, with fair children | initialize is never answered |

Bounds. A qa-doctor call can do all a plain call can and be held besides, so one
of them is the richest single call. Two faults give three children: an old one
with output left, one that replaced it, and one after that; a failed spawn whose
clean-up kills a live child makes room for a fourth (`Gens`). A third fault lets an old
pump's restart find its successor idled out; `ThirdFaultEarly` in `MCSupervisor`
keeps it to the behaviours in which initialize is the only request, no spawn
raises and a pump waits to restart, and the proofs cover the rest. One failing spawn
reaches every `except`; in `sup_live` two of three attempts fail. The real
`CHILD_WRITE_RETRIES` is 8: the smaller values reach `GiveUp` sooner and the
claims use 8, so no counterexample rests on an early giving up.
`SETUP_CHECK_MAX_RETRIES` is 2 in the code and 1 here. `MaxFaults`,
`MaxSpawnFails` and `MaxVersion` bound the environment only; when a fault budget is
used up the last child simply stays. CHECK_DEADLOCK is off: the system rests when the client
has sent all it will.

Fairness (`FairSpec`): weak fairness of the intake thread's steps, each pump, each
lost timer, the guard and the watchdog's own steps. They are OS threads that are
never blocked for good, and timers that fire. Nothing is owed by client,
children, updater or the decision to restart. `FairChildren` (a child that is up
reads and answers) is used by `claim_session` alone, where the point is that even
then no answer comes. `Respawned` has an exception, `restarting`: a spawn that
raises in `restart_child` leaves the flag set and nobody tries again.

### Findings

The five `claim_*` runs are listed in `PROJECT.json` with the line each
contradicts. None can be seen by one thread alone.

### Proofs

All theorems are for every set of requests, every bound and both values of
`WireOn`, under `KindsAssumption` and `BoundsAssumption`.

- `TypeCorrect` (`SupervisorTypes`): `Spec => []TypeOK`, one lemma per action.
- `InductiveCorrect` (`SupervisorAnswers`): `ForwardOnce` is not inductive, since
  a second answer is refused because of the ledger, not of `fwd`. `Inductive` adds:
  nothing not yet sent is known to any table, pipe or pump (`OnlySent`,
  `UnreadSent`, `OthersSent`); an id passed on, or in a pump's hand, is in the
  ledger, once (`LedgerInv`); an armed id is a sent tools/call with no answer and
  nothing on its way (`TimerInv`); and, for
  `IdleStrandsNothing`, a line about to be written is never for a live child other
  than the current one, awake (`WriteAwake`). `Intake` takes ids off the ledger: that is
  harmless only because a fresh id is nowhere.
- `ForwardOnceCorrect`, `NoContradictionCorrect`: its consequences.
- `IdleStrandsNothingCorrect`: part of the invariant. A request leaves the intake
  thread only for the pipe of a child that is awake, so an idle-out finds it in that
  pipe and takes it into the snapshot of the pump that flagged it; a write to a
  child that has gone fails and stays with the intake thread.
- `NeverForgottenCorrect`: under `CoverAssumption` (a wire log, at most one
  qa-doctor call), by `CoverInv`. `claim_never_hangs` shows why the assumption is
  needed: with two such calls the property fails.
- `ImplementsReplyChannel`: `Spec => IsReplyChannel`; the mapping is the identity
  on `sent`, `fwd` and `errs` (answers the launcher makes itself).

- `DeadIsReplacedCorrect`: by `RespawnInv`. A live current child has its pump at
  `read` or `hand`, so the pump will see its end; only a spawn that raised leaves
  `restarting` set; and a pump leaves the way to the restart by `note` only while
  `idled` holds. The theorem is about every step but promises no progress: that the
  restart comes is `Respawned`.
- `OneSpawnPerFaultCorrect`: by `SpawnInv`, which counts, against
  `Budget == faults + spawnFails`, what no spawn has been made for: an idle-out, a
  restart asked for, a dead child whose pump has yet to see its end, and each pump
  between that and `restart_child`. A spawn uses one up, or takes away the reason of
  another (a pump that finds its child replaced stops). A spawn that raises in a
  restart forgets one; one that raises in a wake may kill the current child and pays
  for it itself. It follows that `Spawn`'s guard `g \in Gens` never
  blocks: the bound on generations is a consequence, not a restriction.
- `RunsOnceCorrect`: by `OnceInv`, which counts copies. A request neither written nor
  read before has run nowhere (`Untouched`, also while the intake thread holds it);
  else there is one copy, in one child's pipe, or it has run (`OneCopy`). The copy
  in the pipe of a child that ended is never read; what `Requery` writes again is a qa-doctor's.
  `Unborn` (no process beyond the current generation) makes the pipe of a new child
  empty but for initialize.
- `ChildrenAreServers`: `Spec => ChildrenServe`. A child starts where there was no
  process (`Unborn`), takes up, answers and ends as `ServingChild` does; terminating
  it is a `Die`. TLC does not evaluate a specification of an instance with a
  parameter, so no run states this one.

`SupervisorSafety` holds the step lemmas: one per action of the invariant's parts.
`Inductive`, `RespawnInv`, `SpawnInv` and `OnceInv` hold on the instances of the runs too.
Only model-checked: liveness, which is out of the prover's reach.

## Server process

`ServerProcess` models one server process, from its start to its exit, and the
threads that may end it while tool calls come and go.

- **Tool calls** (`_tracked`): `Open` counts a call in before its handler runs,
  `CountOut` counts it out and stamps the moment once its reply is settled, `Flush`
  is the MCP library writing that reply. `StartRun` and `EndRun` are the mobile runs
  the busy probe reports.
- **qa-doctor and its reload thread** (`run_reload_gate`, `schedule_reload`):
  `DoctorAsk` is `session_busy`, `DoctorTell` the update check and the decision to
  reload, `Drained` the end of `wait_until_drained`, `ReloadExit` the exit after
  `FLUSH_GRACE_S`.
- **Drift watch**: `DriftSeen` (the install is another release and verifies),
  `DriftGate` (`_exit_if_idle` after the jitter, under the counter's lock).
- **Idle watch**: `IdleBusy` and `IdleCheck` (`seconds_until_idle`), each with the
  sleep to its deadline.
- **Environment**: `PeerWrites`, `PeerDone` (a peer's overlay of the shared
  install), `EditEnv`, `Tick`.

Time is discrete. A clock counts to `Horizon`, which no comparison tells from later
moments. `TimingAssumption` says what the constants in the code are chosen for: the
grace (2 s), the quiet gap (120 s) and the idle limit (600 s) are longer than a
settled reply takes to be written, and the drain limit (30 s) is not shorter. That a
reply does not take longer is `Tick`'s guard; a client that stops reading its pipe
is outside the model. `overrun` and `held` are auxiliary: whether a reload's wait
timed out, and the calls that ran when it ended.

Properties. `QuietExit`: a drift or idle exit lands on no running handler and on no
reply still on its way out, although the thread that writes replies is outside the
count. `OwnReplyLeft`: the reply of the doctor that scheduled a reload is written
before the exit, even when other calls keep the drain from finishing. `KilledLate`:
what a reload kills came in after its wait was over, or outlasted it.
`ServesAsChild`: the process implements `ServingChild` for its launcher, the calls at
work being those counted in and not yet written; a drift exit and a reload are ends
like a crash to the launcher, though a drift exit is as quiet as an idle one.
`NewCodeLoads`: a run that never ends cannot keep old code for ever.
`IdlesOut`: a server nobody uses ends; the sleeps to the deadline add up.

The code does not promise more, and the model shows what it leaves: a reload exits
without a lock, so it kills a call that comes in during the grace, and live runs
are not asked about when the reload is for newer code or an edited `.env`; the drift
exit follows a jitter after the tree was verified, so a peer may be half way
through the next overlay.

Run `server`: one qa-doctor, one call that starts one run, and the smallest times
`TimingAssumption` allows with the orders between them that the code has: a reply
takes 1, the drain 1, grace, quiet gap and deferral 2, the idle limit and
`Horizon` 3. A call runs once, so the two calls overlap in every way two slots of
the counter can; the proofs cover any number. Fairness (`FairSpec`): time, the
reply path and both watches go on; a call or a run need not end, nor a peer finish
its overlay. CHECK_DEADLOCK is off: the process ends.

Proved in `ServerSafety`, for every set of calls and all times under
`TimingAssumption`: `TypeOK`, `QuietExit`, `ServesAsChild`, `OwnReplyLeft`,
`KilledLate`. The invariant says the
counter is the number of running handlers (`CountInv`); a settled reply is younger
than `ReplyTime` and the stamp of the last finish no older than it (`ReplyInv`); how
far a doctor's own reply is when its thread is in the drain or the grace (`OwnInv`);
and that a wait that did not time out found nothing running (`HeldInv`).
The refinement adds that each step but `Open` and `Flush` leaves what is at work
alone (`WorkSteps`). Only model-checked: `NewCodeLoads` and `IdlesOut`.

Not modelled: the parent watch, the cache of duplicate calls, the reload marker, a
probe that raises (the drift watch then counts no runs, the idle watch one), progress
pings. The idle watch runs only under a launcher that asks for it, the drift watch
only in a distribution install; the model has both.

## Updater

`Updater` models an install directory that several launchers keep up to date:
`check` (`ReadLocal`, `FetchLatest` or `FetchCached`, `CheckFails`), the integrity
pass under the update lock (`JudgeBegins`, `Judged`), the download for an update
or a heal (`Downloaded`), the swap (`SwapBegins`, `PruneOne`, `PruneSkips`,
`OverlayOne`, `OverlayFails`, `SwapEnds`) file by file in the sorted order the code
walks, and its rollback (`UndoCreated`, `UndoOverwritten`, `UndoPruned`, `UndoFails`,
`RollbackEnds`). `Skip` is a lock that was not free. The environment publishes
releases, edits or deletes an installed file, kills a launcher at any file, and
lets the heal marker age.

A file's content is the number of the body a release gives it, or `Damaged`: what a
cut-short copy or an edit leaves when nothing in it can be read. `load_manifest`
keeps every line that parses, so a manifest may also be one of the `Scraps`, which
has lines left (`Lines`) and lists the files of those alone: by a copy cut short
(`CutShort`: the copy of an overlay that fails, of a restore that fails, or one a
launcher was killed in) or by hand. `_local_version` returns any version it finds quoted, so
the version files may also hold `Behind` or `Ahead`, put in by hand. `before`, `clean`
and `blamed` are auxiliary: the tree a swap found, whether a fault has happened,
and the files a fault put out of the manifest's sight.

Properties. `SwapsAreAtomic`: the install implements `AtomicInstall`, in which a swap is one step:
it commits all of the release it brings or aborts, one swap at a time, and nothing
else touches the files; from the first harm on (`clean` lost) nothing is promised.
While a swap is on, the install counts as the swap found it. Hence
`QuietTreeIsARelease`, proved but not a run's: with the lock free and no harm so far,
the install is exactly one release, whatever swaps were rolled back.
`NoHealOfASoundTree`: the tree another launcher is half-way through replacing is
never judged, hence never healed. `OwnFilesKept`: what no release shipped is never
pruned, overwritten or rolled away. `LeftoversAreBlamed`: a released file survives
outside the manifest only through a fault on record. `Converges`: once releases and
faults stop, the launchers bring the tree to the latest release, in every file, with
two exceptions that the code has. Nobody can tell that the install is old when no
version can be read in it ("the caller then skips the update") or one put in by hand
is newer than every release (`Unplaced`). And a manifest that has lost lines but not
all of them is taken at its word: `integrity_problems` asks for the manifest itself
back only when no line is usable, so one line removed by hand, or a kill in the
middle of copying the manifest, can leave an install of the latest version in which a file
that is no longer listed differs, and no check heals it. It ends with the next
release. Without either exception TLC finds a behaviour that needs it.

Run `updater`: two launchers, two releases and seven files: one that comes with
the second release before its manifest, one that goes, the manifest, `VERSION`,
`pyproject.toml`, a module after it, and a file of the tester; two scraps of a manifest,
the first line of one release's and all but the last of the other's. One fault, of any
kind, at any point (a failed undo needs a failed overlay first and counts
one more). A second launcher is what the lock is for, and a third does nothing a
second does not. Fairness (`UFairness`): each launcher goes on with its check; the
release cache lives 300 s and the poll comes every 15 minutes, so a check reaches
the server again and again (`FetchLatest`), and downloads sometimes end, and swaps
sometimes begin, while nobody holds the lock: strong fairness of those three.

Proved for every number of launchers, releases and files: type correctness,
`QuietTreeIsARelease`, `SwapsAreAtomic`, `NoHealOfASoundTree`, `OwnFilesKept` and
`LeftoversAreBlamed`, and `RollbackRestores` (an undo whose steps work ends where the
swap began).
The invariant says what tree a swap is on its way to: while nothing is wrong, the
disk is the tree the swap found with the files already pruned and overlaid changed,
and the backups hold what they replaced. `LeftoversAreBlamed` needs another, which
must hold after faults: `LeftInv` says that, unless the manifest has gone out of sight
(then every file is blamed), an unlisted file is blamed between swaps, and during one
(`Traced`) each file was put there by the swap, or was there before, or is blamed
(`Known`); the old manifest is in place or in the backups (`ManifestKept`); and what
the new release does not ship is still to be pruned or blamed. Two theorems
are about the operators by themselves: `PruningIsEnough` (from an install with nothing
outside its manifest, prune and overlay arrive at exactly the new release, damaged
files or not) and `VerifiedIsWhole` (an install with no problems has a manifest with at
least one line, and each listed file is the body its line names; if no line was lost it
is the whole of a release, and its version is read as that release). Only model-checked: `Converges`.

The code does not promise that versions only rise. `AtomicInstall` lets a swap bring
any release that is out, and must: the installed version is read before the download
and not again under the lock, so a slow launcher can put an older release over the
one a faster peer has installed. Its next check takes the newer one (`Converges`).

Not modelled: signature and binding gates, download and zip handling, `.env`
migration and pip, the chmod of lock files, the Windows lock. `ReleaseAssumption` has
every release ship a manifest and every never-prune file, so the branches for a
release without a manifest (`updater_overlay.py:125`, `updater_heal.py:66`) and for one
that drops a never-prune file (`updater_paths.py:57`) are left out. A scrap's lines are
whole lines: one cut inside its path names a file that is not there, which the gate
reports. An edit that adds a tester's file to the manifest is left out.

## Device locks and run leases

`DeviceRuns` models one Android device, the chats that want it, and the server
processes they reach. A chat sets up a run in a background job: it opens the run
and takes the select lock (`SetupOpens`), claims the device under a label of its
own or ends an idle run in its way (`SetupClaimsDevice`, `SetupEvicts`), hands the
lock to the run it planned (`SetupHandsOff`), or gives up and cleans up
(`SetupGivesUp`, `SetupCleans`, `SetupCleanupFails`). The host may abandon the call
and come back to the job (`Abandon`, `Adopt`, `Reclaim`). A chat then drives: a step
claims the lease (`StepBegins`, `TakeOver`, `ClaimWrites`, `ClaimConfirms`), takes
the device again when it resumes (`ResumeRetakes`, `ResumeStops`) and ends
(`StepEnds`, `StepReports`, `FinishEnds`). Heartbeat writers are `Beat`, `BeatFinds`,
`BeatLoses`, `BeatFails`, `WriterLost`; a run is ended from outside by `StopRun`,
`IdleTimer` and `Sweep`, completed by `CloseEnds`; `Crash` is the death of a server,
whose locks the kernel frees.

Abstractions. One device (no re-serialling), one setup per chat, a run named after
its chat. A lease's age is fresh or not, and a fresh one may age at any time, also
under a live writer that is late. A step is shorter than the idle limit (`Quiet`). A beat, a
stamp and a claim's write are each one step on the lease file: the lost updates
between a read and a write of that file are not modelled and are listed as hazards
without a property. `Sweep` comes after any end of a hold, and in a server that has armed
an idle timer: the code sweeps once per process, at the first arm
(`run_idle_timer.py:55`), the model as often as it likes from then on. The sweep at
start-up (`run_idle_startup.py:21`) takes dead holders only and does nothing `Sweep`
does not. Timers of an ended run are dropped; runs that wait for the tester, the step without a token and the
resume with one are not separate calls. `exposed` is auxiliary: tokens whose chat may lose the device
without having given it up, because they were displaced or a beat of theirs
failed; `unbeaten` records a hold taken past a live writer of an older token.

Properties. `OneDriver`: of all chats that drive an open run without being exposed
there is one. `HolderKeepsDevice`: the holder of the current lease keeps the device
against displaced chats, late writers, stops of other runs and other setups.
`SetupKeepsHold`: a setup's device is taken from it neither by another call nor by
the healing of orphaned locks. `SelectIsGivenBack`: the select lock, which stops
every other setup on the machine, is not left behind. `HoldIsBeaten`: a device held
for a run has a writer that can give it back, with the exceptions the code has.

Those exceptions are real: a second take in `run_resume.py:60` can record the token
of a chat displaced meanwhile; `heartbeat.py:104` answers `already_running` for the
writer of an older token; the select lock stays with a setup whose clean-up raised.
`session_submit.py:65` frees the device before the restores have run, and
`heartbeat_beat.py:31` takes any error of a beat for a lost lease; both are in the
model as they are.

Run `mobile`: two chats, two servers, three calls or faults. Three are what the
worst cases need: a take-over, a step of the displaced chat, a crash or failed beat
between them. A third chat adds a second displacement, which needs two more calls.

Proved for every set of chats and servers and every budget: all six properties.
The invariant comes in layers: `TypeInv`; `RunsInv` (a run exists from its
hand-off, a chat does one thing at a time, a run being closed has ended);
`SetupInv` (which labels may still hold a lock); `LeaseInv` (each writer and each
rightful driver is backed by the device's hold or is exposed).

## Prep store and host-mode generation

`PrepStore` models one prepared generation in the SQLite store: its envelope (the
marks of refusals, the retained sidecar, the finalized stamp), its clock (live;
lapsed after the TTL, which a touch revives; spent after the lifetime), its staged
rows by category, the stored suite of this prep, and one host task, which lives in
the same table. The actors are tool calls, in any number side by side: fetching a
category's job, submitting a category, submitting the suite, closing the task.
Each store function is one transaction. A call loads the envelope when it begins
and writes back that copy with its own addition, so `held` is what it loaded and
`read` the rows it read.

- Category: `SubmitsCategory`, `CategoryReads` (the staged count and the shrink
  guard), `CategoryChecks` (the store's own look at the prep), `CategoryWrites`,
  `Touches`.
- Suite: `SubmitsSuite`, `SuiteReads` (staged rows, a sidecar, or the full JSON),
  `Retains`, the gates `Refuses` and `Overridden` in their fixed order, `Finalizes`,
  `Saves`, `Stamps`. `Refuses` stores the mark; the host is told by `Replies`, after the
  awaited audit and, for some gates, a load of the staged rows.
- Host task: `ClosesTask`, `Claims`.
- Environment: `Ages`, `Purges`, `Crashes` of a call, and store operations that fail.

Abstractions. What a gate judges is a free choice; that it refuses once, marks the
prep and lets the next submit pass is not. A refusal that changes nothing
(parse errors, oversize, gap replies, ambiguity) is the same as a call that ends
without effect. `Crashes` ends one call: the death of a server is that for each call
in it. It is also a call the host cancels: a store write under way in its thread then
still lands, and the call counts as crashed from that moment on. The shrink guard's
stamp is on, and fan-out is, so a staged finalize wants every category. `after`,
`failed`, `saved` and `closed` are auxiliary.
`after[c]` is the set of calls that were over when `c` began, so "ran beside" is
`Overlap`. Not modelled: several preps, `persist_step_zero` (it comes before the id
is known to anybody), export and workbook, listing and searching, legacy migration.

The code updates an envelope by writing the whole of an older copy. What that can
cost is therefore stated as properties with their causes, not as a blanket promise:

- `ShrinkIsKnown`: a staged category loses cases only on the host's word
  (`replace_smaller`), to a call beside the one it overwrites, or to one that could
  not read the count.
- `LateRowsOverlap`: after the finalize, a row the suite does not hold is from a
  call that ran beside it. `FinalizeSeesRows`: a suite has every row recorded before
  it began, or a later one.
- `AckIsInformed`: a finding is overridden only after an earlier submit was refused
  for it and the host told (the two beats). The mark is stored before the reply, so an
  acknowledgement also passes on the mark of a submit that died before it replied, or
  that runs beside; and a refusal that cannot be marked may be let through.
- `AloneIsKept`: what a submit with no submit beside it left on the prep is never
  lost, whatever envelopes other calls write back.
- `SecondSuiteHasACause`, `StampedSuite`: a second suite, or a stamp that names a
  suite not stored as submitted, needs a crash, a failed store operation or
  overlapping submits. Each cause does happen: a suite whose save failed is stamped
  finalized all the same, although the reply asks for a re-submit
  (`host_submit_persist.py`), which is then refused; and of two overlapping submits
  the stamp may carry the id of a suite the store never kept, because a
  second save keeps the first row's id.
- `TaskClosedOnce`: a host task is one-shot, but a delete that fails counts as a
  claim (`host_llm_task_close.py:76`), so it can then be closed again.

Dropping any one of these exceptions makes TLC find a behaviour that needs it.

Run `prep`: three calls of any kind, one category, sets of one or two cases, one gate before and
one after the finalize (one of them let through when it cannot be stamped), one
failing store operation. Three calls give an overlapping pair and a third that
begins after one or both of them; the proofs cover any number. With one category a partly staged
set is not met by TLC; the proofs cover it. Deadlock is not checked: when all calls
are used up and the prep is gone, nothing is left to do.

Proved in `PrepSafety`, for every set of calls, categories and gates and every bound:
all nine properties. `CallInv` says what a call at each step has and that it is over
before anybody can have it in `after`; on it stand `ReadOK` (what was read of a row
still holds, but for rows written beside), `Sealed` (nobody at work began after the
submit that stamped the prep), `SeesInv`, `MarkInv` (every mark, stored or held, is
that of a submit that was refused: told so before the holder began, or died, or beside) and `KeepInv` (a lone submit's addition is in the
prep and in every envelope opened since). The lost update is harmless exactly when
the writer opened the prep after the lone submit was over: `WriterAfter`.

## Not modelled

- Launcher and server: the parts named in their sections.
- Mobile runner, replay, knowledge store, capture and evidence: heuristics over
  screens and text, a real device, file output. Their only shared protocol is the
  lock and the lease, modelled in `DeviceRuns`.
- Generation agents and quality checks: sequential text analysis.
- Suite, RAG and swagger stores: queries, no protocol; the suites table is in
  `PrepStore` as far as submits use it.
- Configuration and installers: run once.

The repository has about 199,000 lines, most of them in these parts; the
map covers the code whose correctness depends on the order of events, which is a
small share of it.
