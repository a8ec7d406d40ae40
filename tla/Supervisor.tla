------------------------------ MODULE Supervisor ------------------------------
(***************************************************************************)
(* The launcher's Supervisor (launcher.py): one thread reads the editor's  *)
(* stdin, one thread per child server pumps that child's stdout, a         *)
(* watchdog restarts the child, and timers answer for a silent server.     *)
(* The child is replaceable: it crashes, exits to load a new version, or   *)
(* exits because nobody uses it and comes back on the next client line.    *)
(*                                                                         *)
(* A request is its JSON-RPC id; the client never reuses one.  A child is  *)
(* its generation number.  Time is abstracted: a timer may fire whenever   *)
(* it is armed, a delay may last any time.  The launcher file itself does  *)
(* not change here (maybe_self_exec returns at its first test), and the    *)
(* client keeps its stdin open.                                            *)
(***************************************************************************)
EXTENDS Naturals

CONSTANTS
  InitReq,        \* the client's initialize request
  Calls,          \* tools/call requests other than qa-doctor
  Doctors,        \* tools/call requests of qa-doctor (SETUP_CHECK_TOOL)
  Plain,          \* other requests, e.g. tools/list
  NoReq,          \* no request
  WireOn,         \* FALSE: the wire log could not be opened (no lost timer)
  WriteRetries,   \* CHILD_WRITE_RETRIES
  SetupRetries,   \* SETUP_CHECK_MAX_RETRIES
  MaxFaults,      \* bound: child exits of its own plus watchdog restarts
  MaxSpawnFails,  \* bound: Popen or handshake failures
  MaxVersion      \* bound: releases installed while the launcher runs

ToolCalls == Calls \cup Doctors
Req == {InitReq} \cup ToolCalls \cup Plain
Gens == 1 .. MaxFaults + MaxSpawnFails + 1   \* enough: see OneSpawnPerFault

ASSUME KindsAssumption ==
  /\ NoReq \notin Req
  /\ InitReq \notin ToolCalls
  /\ Calls \cap Doctors = {}
ASSUME BoundsAssumption ==
  /\ WireOn \in BOOLEAN
  /\ WriteRetries \in Nat \ {0}
  /\ SetupRetries \in Nat
  /\ MaxFaults \in Nat
  /\ MaxSpawnFails \in Nat
  /\ MaxVersion \in Nat \ {0}

VARIABLES
  \* the client
  sent, fwd, errs,
  \* the intake thread (pump_client_in, forward_client_line)
  ipc, cur, tries, target,
  \* Supervisor fields
  child, idled, restarting, handshake, swallow, pending, ledger, refresh,
  \* the wire watchdog (WireLog)
  armed, lostAns,
  \* qa-doctor auto-retry
  setupId, setupHeld, setupTries,
  \* child processes and their pipes
  proc, unread, running, out, notice, runs,
  \* one output pump per child
  pump, hand, lost,
  \* the thread asking for a restart (watchdog or _manual_restart)
  asker,
  \* installed version, version of the child, version of the client's schemas
  disk, childVer, schemaVer,
  \* bound counters
  faults, spawnFails

clientVars  == <<sent, fwd, errs>>
intakeVars  == <<ipc, cur, tries, target>>
supVars     == <<child, idled, restarting, handshake, swallow, pending, ledger,
                 refresh>>
wireVars    == <<armed, lostAns>>
setupVars   == <<setupId, setupHeld, setupTries>>
procVars    == <<proc, unread, running, out, notice, runs>>
pumpVars    == <<pump, hand, lost>>
versionVars == <<disk, childVer, schemaVer>>
boundVars   == <<faults, spawnFails>>
vars == <<clientVars, intakeVars, supVars, wireVars, setupVars, procVars,
          pumpVars, asker, versionVars, boundVars>>

\* Answers the client has read for one id: child replies and launcher-made ones.
got(r) == fwd[r] + errs[r]
Nobody == [r \in Req |-> 0]

Init ==
  /\ sent = {} /\ fwd = Nobody /\ errs = Nobody
  /\ ipc = "idle" /\ cur = NoReq /\ tries = 0 /\ target = 1
  /\ child = 1 /\ idled = FALSE /\ restarting = FALSE
  /\ handshake = FALSE /\ swallow = FALSE /\ refresh = FALSE
  /\ pending = {} /\ ledger = {}
  /\ armed = {} /\ lostAns = {}
  /\ setupId = NoReq /\ setupHeld = NoReq /\ setupTries = 0
  /\ proc = [g \in Gens |-> IF g = 1 THEN "up" ELSE "none"]
  /\ unread = [g \in Gens |-> Nobody]
  /\ running = [g \in Gens |-> Nobody]
  /\ out = [g \in Gens |-> Nobody]
  /\ notice = [g \in Gens |-> Nobody]
  /\ runs = Nobody
  /\ pump = [g \in Gens |-> IF g = 1 THEN "read" ELSE "none"]
  /\ hand = [g \in Gens |-> NoReq]
  /\ lost = [g \in Gens |-> {}]
  /\ asker = "idle"
  /\ disk = 1 /\ childVer = 1 /\ schemaVer = 1
  /\ faults = 0 /\ spawnFails = 0

-------------------------------------------------------------------------------
(* Helpers shared by the handlers *)

\* spawn tells the client to re-fetch its tool schemas, unless all it does is
\* end an idle-out nobody asked a restart during.
Tells == handshake /\ (~idled \/ refresh)

\* Supervisor.spawn: a new child with its own pump; a recorded handshake is
\* replayed to it and the reply to that initialize is to be swallowed.
\* procNow is proc after the caller terminated what it had to.
Spawn(procNow) ==
  LET g == child + 1
  IN /\ g \in Gens
     /\ child' = g
     /\ proc' = [procNow EXCEPT ![g] = "up"]
     /\ unread' = [unread EXCEPT ![g] =
                      IF handshake THEN [Nobody EXCEPT ![InitReq] = 1] ELSE @]
     /\ swallow' = (swallow \/ handshake)
     /\ childVer' = disk
     /\ schemaVer' = IF Tells THEN disk ELSE schemaVer
     /\ refresh' = (refresh /\ ~Tells)

\* child_lock holders terminate the current child and wait for it.
Terminated == [proc EXCEPT ![child] = IF @ = "up" THEN "gone" ELSE @]

\* Popen raises, or the handshake cannot be written to a child that is dying: the
\* current child is then a dead one.  Its number does not move on, but the reply
\* to the replayed initialize may be awaited from now on.
SpawnFails ==
  /\ spawnFails < MaxSpawnFails
  /\ spawnFails' = spawnFails + 1
  /\ proc' = Terminated
  /\ swallow' \in {swallow, swallow \/ handshake}

\* _reap: wake_child kills what the spawn left and closes its pipes.  A live
\* child's own pump reads on to the end, or dies of the closed pipe.
Reap(now) ==
  \/ pump' = now
  \/ /\ proc[child] = "up" /\ pump[child] = "read"
     /\ pump' = [now EXCEPT ![child] = "done"]

\* fail_request: a JSON-RPC error for each request of R, unless the wire
\* watchdog has already answered it.  The reply ledger is not told.
FailRequestsArmed(R) ==   \* mutant: the wire watchdog is not told
  /\ pending' = pending \ R
  /\ errs' = [r \in Req |-> IF r \in R \ lostAns THEN errs[r] + 1 ELSE errs[r]]
  /\ UNCHANGED wireVars
FailRequestsSilently(R) ==   \* mutant: taken off every table, answered by nobody
  /\ pending' = pending \ R /\ armed' = armed \ R /\ lostAns' = lostAns \ R
  /\ UNCHANGED errs
FailRequests(R) ==
  /\ pending' = pending \ R
  /\ armed' = armed \ R
  /\ lostAns' = lostAns \ R
  /\ errs' = [r \in Req |-> IF r \in R \ lostAns THEN errs[r] + 1 ELSE errs[r]]

ResetSetupKeepsHeld ==   \* mutant
  setupId' = NoReq /\ setupTries' = 0 /\ UNCHANGED setupHeld
ResetSetup == setupId' = NoReq /\ setupHeld' = NoReq /\ setupTries' = 0

\* release_setup_check: the held notice, if any, goes to the client after all.
\* It passes neither pending nor the reply ledger.
ReleaseSetupSilently == ResetSetup /\ UNCHANGED errs   \* mutant: notice dropped
ReleaseSetup ==
  /\ errs' = IF setupHeld = NoReq THEN errs
             ELSE [errs EXCEPT ![setupHeld] = @ + 1]
  /\ ResetSetup

-------------------------------------------------------------------------------
(* The intake thread *)

\* pump_client_in, head of forward_client_line: the client sends r.  Nothing
\* is sent before initialize is answered.  A new qa-doctor supersedes the old.
Intake(r) ==
  /\ ipc = "idle"
  /\ r \notin sent
  /\ r # InitReq => got(InitReq) > 0
  /\ sent' = sent \cup {r}
  /\ armed' = IF WireOn /\ r \in ToolCalls THEN armed \cup {r} ELSE armed
  /\ ledger' = ledger \ {r}
  /\ handshake' = (handshake \/ r = InitReq)
  /\ IF r \in Doctors
     THEN setupId' = r /\ setupHeld' = NoReq /\ setupTries' = 0
     ELSE UNCHANGED setupVars
  /\ ipc' = "record" /\ cur' = r /\ tries' = 0
  /\ UNCHANGED <<target, fwd, errs, child, idled, restarting, swallow, pending,
                 refresh, lostAns, procVars, pumpVars, asker, versionVars,
                 boundVars>>

\* pending.written: recorded BEFORE the write
Record ==
  /\ ipc = "record"
  /\ pending' = pending \cup {cur}
  /\ ipc' = "wake"
  /\ UNCHANGED <<clientVars, cur, tries, target, child, idled, restarting,
                 handshake, swallow, ledger, refresh, wireVars, setupVars,
                 procVars, pumpVars, asker, versionVars, boundVars>>

\* The except branch of the retry loop: take the record back, sleep, try again.
BackOff ==
  /\ pending' = pending \ {cur}
  /\ tries' = tries + 1
  /\ ipc' = IF tries + 1 < WriteRetries THEN "record" ELSE "fail"

\* wake_child on the intake thread: no-op unless idled out, else respawn.  Then
\* self.child is read; the write that follows is to that child.
AwakeOnRetry == ~idled \/ tries > 0   \* mutant: only the first attempt wakes
Awake == ~idled
Wake ==
  /\ ipc = "wake"
  /\ \/ /\ Awake
        /\ ipc' = "write" /\ target' = child
        /\ UNCHANGED <<tries, child, idled, swallow, pending, refresh, proc,
                       unread, pump, childVer, schemaVer, spawnFails>>
     \/ /\ idled
        /\ Spawn(proc)
        /\ pump' = [pump EXCEPT ![child + 1] = "read"]
        /\ idled' = FALSE
        /\ ipc' = "write" /\ target' = child'
        /\ UNCHANGED <<tries, pending, spawnFails>>
     \/ /\ idled
        /\ SpawnFails /\ Reap(pump)
        /\ BackOff
        /\ UNCHANGED <<target, child, idled, refresh, unread, childVer, schemaVer>>
  /\ UNCHANGED <<asker, clientVars, cur, restarting, handshake, ledger, wireVars,
                 setupVars, running, out, notice, runs, hand, lost, disk, faults>>

\* child.stdin.write: reaches the pipe of a live child, fails on a dead one.
Write ==
  /\ ipc = "write"
  /\ \/ /\ proc[target] = "up"
        /\ unread' = [unread EXCEPT ![target][cur] = @ + 1]
        /\ ipc' = "idle" /\ cur' = NoReq /\ tries' = 0
        /\ UNCHANGED pending
     \/ /\ proc[target] # "up"
        /\ BackOff
        /\ UNCHANGED <<unread, cur>>
  /\ UNCHANGED <<target, clientVars, child, idled, restarting, handshake, swallow,
                 ledger, refresh, wireVars, setupVars, proc, running, out, notice, runs,
                 asker, pumpVars, versionVars, boundVars>>

\* The for loop's else: never leave the editor waiting.
GiveUp ==
  /\ ipc = "fail"
  /\ FailRequests({cur})
  /\ ipc' = "idle" /\ cur' = NoReq /\ tries' = 0
  /\ UNCHANGED <<target, sent, fwd, child, idled, restarting, handshake, swallow,
                 ledger, refresh, setupVars, procVars, pumpVars, asker,
                 versionVars, boundVars>>

-------------------------------------------------------------------------------
(* The child process: how src/ uses it.  It reads requests, runs them,     *)
(* answers in any order, and exits.                                        *)

ChildRead(g, r) ==
  /\ proc[g] = "up" /\ unread[g][r] > 0
  /\ unread' = [unread EXCEPT ![g][r] = @ - 1]
  /\ running' = [running EXCEPT ![g][r] = @ + 1]
  /\ runs' = [runs EXCEPT ![r] = @ + 1]
  /\ UNCHANGED <<clientVars, intakeVars, supVars, wireVars, setupVars, proc, out,
                 asker, notice, pumpVars, versionVars, boundVars>>

\* A final answer, or for qa-doctor the notice that a reload was scheduled.
ChildReply(g, r) ==
  /\ proc[g] = "up" /\ running[g][r] > 0
  /\ running' = [running EXCEPT ![g][r] = @ - 1]
  /\ \/ out' = [out EXCEPT ![g][r] = @ + 1] /\ UNCHANGED notice
     \/ /\ r \in Doctors
        /\ notice' = [notice EXCEPT ![g][r] = @ + 1] /\ UNCHANGED out
  /\ UNCHANGED <<clientVars, intakeVars, supVars, wireVars, setupVars, proc,
                 asker, unread, runs, pumpVars, versionVars, boundVars>>

\* Idle-out (exit 87) only when nothing runs; a crash or a reload (86) any time.
ChildExit(g, how) ==
  /\ proc[g] = "up" /\ faults < MaxFaults
  /\ how = "idle" => running[g] = Nobody
  /\ proc' = [proc EXCEPT ![g] = how]
  /\ faults' = faults + 1
  /\ UNCHANGED <<clientVars, intakeVars, supVars, wireVars, setupVars, unread,
                 running, out, notice, runs, pumpVars, asker, versionVars,
                 spawnFails>>

-------------------------------------------------------------------------------
(* The output pump of child g *)

\* The tail of the loop body: pending.answered, then the reply ledger.
PassOnUnchecked(g, r) ==   \* mutant: the ledger is kept but not asked
  /\ pending' = pending \ {r}
  /\ ledger' = ledger \cup {r}
  /\ hand' = [hand EXCEPT ![g] = r]
  /\ pump' = [pump EXCEPT ![g] = "hand"]
PassOn(g, r) ==
  /\ pending' = pending \ {r}
  /\ IF r \in ledger
     THEN UNCHANGED <<ledger, hand, pump>>
     ELSE /\ ledger' = ledger \cup {r}
          /\ hand' = [hand EXCEPT ![g] = r]
          /\ pump' = [pump EXCEPT ![g] = "hand"]

Keep == UNCHANGED <<pending, ledger, hand, pump>>

\* A final answer: dropped when the wire watchdog already answered, or when it
\* answers a replayed initialize; otherwise it ends a tracked qa-doctor.
PumpReply(g, r) ==
  /\ pump[g] = "read" /\ out[g][r] > 0
  /\ out' = [out EXCEPT ![g][r] = @ - 1]
  /\ armed' = armed \ {r}
  /\ lostAns' = lostAns \ {r}
  /\ \/ r \in lostAns /\ Keep /\ UNCHANGED <<swallow, setupVars>>
     \/ /\ r \notin lostAns /\ swallow /\ r = InitReq
        /\ swallow' = FALSE /\ Keep /\ UNCHANGED setupVars
     \/ /\ r \notin lostAns /\ ~(swallow /\ r = InitReq)
        /\ IF setupId = r THEN ResetSetup ELSE UNCHANGED setupVars
        /\ PassOn(g, r)
        /\ UNCHANGED swallow
  /\ UNCHANGED <<clientVars, intakeVars, child, idled, restarting, handshake,
                 refresh, proc, unread, running, notice, runs, lost,
                 asker, versionVars, boundVars>>

\* maybe_hold_setup_check: the reload notice of the tracked qa-doctor is held,
\* up to SETUP_CHECK_MAX_RETRIES re-sends; any other notice is passed on.
PumpNotice(g, r) ==
  /\ pump[g] = "read" /\ notice[g][r] > 0
  /\ notice' = [notice EXCEPT ![g][r] = @ - 1]
  /\ armed' = armed \ {r}
  /\ lostAns' = lostAns \ {r}
  /\ \/ r \in lostAns /\ Keep /\ UNCHANGED setupVars
     \/ /\ r \notin lostAns /\ setupId = r /\ setupTries < SetupRetries
        /\ setupHeld' = r /\ Keep /\ UNCHANGED <<setupId, setupTries>>
     \/ /\ r \notin lostAns /\ setupId = r /\ setupTries >= SetupRetries
        /\ ResetSetup /\ PassOn(g, r)
     \/ /\ r \notin lostAns /\ setupId # r
        /\ PassOn(g, r) /\ UNCHANGED setupVars
  /\ UNCHANGED <<clientVars, intakeVars, child, idled, restarting, handshake,
                 swallow, refresh, proc, unread, running, out, runs, lost,
                 asker, versionVars, boundVars>>

\* out.write: the client reads the line.  After initialize it lists the tools.
PumpWrite(g) ==
  /\ pump[g] = "hand"
  /\ fwd' = [fwd EXCEPT ![hand[g]] = @ + 1]
  /\ schemaVer' = IF hand[g] = InitReq THEN childVer ELSE schemaVer
  /\ hand' = [hand EXCEPT ![g] = NoReq]
  /\ pump' = [pump EXCEPT ![g] = "read"]
  /\ UNCHANGED <<sent, errs, intakeVars, supVars, wireVars, setupVars, procVars,
                 asker, lost, disk, childVer, boundVars>>

AtEOF(g) ==
  /\ pump[g] = "read"
  /\ proc[g] \notin {"none", "up"}
  /\ out[g] = Nobody /\ notice[g] = Nobody

\* EOF: nothing to do for a child that was replaced on purpose.  Everything
\* below is decided after this test, on state that may have moved on.
ReplacedOrIdle(g) == restarting \/ child # g \/ proc[g] = "idle"   \* mutant
ReplacedByFlag(g) == restarting   \* mutant: the child's own pump or another's
Replaced(g) == restarting \/ child # g
PumpEOF(g) ==
  /\ AtEOF(g)
  /\ pump' = [pump EXCEPT ![g] = IF Replaced(g) THEN "done" ELSE "reap"]
  /\ UNCHANGED <<clientVars, intakeVars, supVars, wireVars, setupVars, procVars,
                 hand, lost, asker, versionVars, boundVars>>

\* _mark_idle under child_lock: flag the idle-out and snapshot the unanswered,
\* unless the child was replaced meanwhile.
UnansweredCalls == pending \cap armed   \* mutant: only what has a timer
Unanswered == pending
MarkIdle(g) ==
  /\ pump[g] = "reap" /\ proc[g] = "idle"
  /\ \/ /\ child = g
        /\ idled' = TRUE
        /\ lost' = [lost EXCEPT ![g] = Unanswered]
        /\ pump' = [pump EXCEPT ![g] =
                      IF Unanswered = {} THEN "done" ELSE "resend"]
     \/ /\ child # g
        /\ pump' = [pump EXCEPT ![g] = "done"]
        /\ UNCHANGED <<idled, lost>>
  /\ UNCHANGED <<clientVars, intakeVars, child, restarting, handshake, swallow,
                 pending, ledger, refresh, wireVars, setupVars, procVars, hand,
                 asker, versionVars, boundVars>>

\* Any other exit, or an idle exit whose status was not reaped in time: sleep
\* the respawn delay, then restart.
CrashSeen(g) ==
  /\ pump[g] = "reap"
  /\ pump' = [pump EXCEPT ![g] = "delay"]
  /\ UNCHANGED <<clientVars, intakeVars, supVars, wireVars, setupVars, procVars,
                 hand, lost, asker, versionVars, boundVars>>

\* _resend, first part: wake_child; when it raises, every lost line fails.
ResendWake(g) ==
  /\ pump[g] = "resend"
  /\ \/ /\ ~idled
        /\ pump' = [pump EXCEPT ![g] = "rewrite"]
        /\ UNCHANGED <<errs, child, idled, swallow, pending, refresh, wireVars,
                       proc, unread, lost, childVer, schemaVer, spawnFails>>
     \/ /\ idled
        /\ Spawn(proc)
        /\ pump' = [pump EXCEPT ![g] = "rewrite", ![child + 1] = "read"]
        /\ idled' = FALSE
        /\ UNCHANGED <<errs, pending, wireVars, lost, spawnFails>>
     \/ /\ idled
        /\ SpawnFails /\ Reap([pump EXCEPT ![g] = "done"])
        /\ FailRequests(lost[g])
        /\ lost' = [lost EXCEPT ![g] = {}]
        /\ UNCHANGED <<child, idled, refresh, unread, childVer, schemaVer>>
  /\ UNCHANGED <<sent, fwd, intakeVars, restarting, handshake, ledger, setupVars,
                 asker, running, out, notice, runs, hand, disk, faults>>

\* _resend, second part, under child_lock: write every lost line again.
ResendWrite(g) ==
  /\ pump[g] = "rewrite"
  /\ lost' = [lost EXCEPT ![g] = {}]
  /\ pump' = [pump EXCEPT ![g] = "done"]
  /\ \/ /\ proc[child] = "up"
        /\ unread' = [unread EXCEPT ![child] =
                        [r \in Req |-> IF r \in lost[g] THEN @[r] + 1 ELSE @[r]]]
        /\ UNCHANGED <<errs, pending, wireVars>>
     \/ /\ proc[child] # "up"
        /\ FailRequests(lost[g])
        /\ UNCHANGED unread
  /\ UNCHANGED <<sent, fwd, intakeVars, child, idled, restarting, handshake,
                 swallow, ledger, refresh, setupVars, proc, running, out, notice,
                 asker, runs, hand, versionVars, boundVars>>

\* restart_child, its test of `idled` (no lock held): "note" when there is
\* nothing to stop, since the next wake spawns on the new state; else "respawn".
RestartAskIfUp == IF proc[child] # "up" THEN "note" ELSE "respawn"   \* mutant
RestartAsk == IF idled THEN "note" ELSE "respawn"

\* restart_child, the rest in one child_lock section: terminate and respawn.  A
\* spawn that raises leaves `restarting` set.  next is the pump table the
\* calling thread wants, failed the one it has when the spawn raises.
RestartChild(next, failed) ==
  \/ /\ Spawn(Terminated)
     /\ pump' = [next EXCEPT ![child + 1] = "read"]
     /\ restarting' = FALSE
     /\ UNCHANGED spawnFails
  \/ /\ SpawnFails
     /\ restarting' = TRUE
     /\ pump' = failed
     /\ UNCHANGED <<child, refresh, unread, childVer, schemaVer>>

\* The pump thread after its delay.
CrashAsk(g) ==
  /\ pump[g] = "delay"
  /\ pump' = [pump EXCEPT ![g] = RestartAsk]
  /\ UNCHANGED <<clientVars, intakeVars, supVars, wireVars, setupVars, procVars,
                 hand, lost, asker, versionVars, boundVars>>

\* refresh_tools: the respawn that ends the idle-out is to tell the client.
CrashNote(g) ==
  /\ pump[g] = "note"
  /\ refresh' = TRUE
  /\ pump' = [pump EXCEPT ![g] = "resetup"]
  /\ UNCHANGED <<clientVars, intakeVars, child, idled, restarting, handshake,
                 swallow, pending, ledger, wireVars, setupVars, procVars, hand,
                 lost, asker, versionVars, boundVars>>

\* When the spawn raises the pump thread dies.
CrashRestart(g) ==
  /\ pump[g] = "respawn"
  /\ RestartChild([pump EXCEPT ![g] = "resetup"], [pump EXCEPT ![g] = "done"])
  /\ UNCHANGED <<clientVars, intakeVars, idled, handshake, pending, ledger,
                 wireVars, setupVars, running, out, notice, runs, hand, lost,
                 asker, disk, faults>>

\* Mutant: everything on record goes to the new child with the qa-doctor request.
ResetupAll(g) ==
  /\ pump[g] = "resetup"
  /\ \/ /\ setupHeld = NoReq
        /\ pump' = [pump EXCEPT ![g] = "done"]
        /\ UNCHANGED <<setupTries, lost>>
     \/ /\ setupHeld # NoReq
        /\ setupTries' = setupTries + 1
        /\ lost' = [lost EXCEPT ![g] = pending \cup {setupId}]
        /\ pump' = [pump EXCEPT ![g] = "requery"]
  /\ UNCHANGED <<clientVars, intakeVars, supVars, wireVars, setupId, setupHeld,
                 procVars, hand, asker, versionVars, boundVars>>

\* resend_setup_check, under setup_lock: take the held qa-doctor's request.
Resetup(g) ==
  /\ pump[g] = "resetup"
  /\ \/ /\ setupHeld = NoReq
        /\ pump' = [pump EXCEPT ![g] = "done"]
        /\ UNCHANGED <<setupTries, lost>>
     \/ /\ setupHeld # NoReq
        /\ setupTries' = setupTries + 1
        /\ lost' = [lost EXCEPT ![g] = {setupId}]
        /\ pump' = [pump EXCEPT ![g] = "requery"]
  /\ UNCHANGED <<clientVars, intakeVars, supVars, wireVars, setupId, setupHeld,
                 procVars, hand, asker, versionVars, boundVars>>

\* Then, with no lock held, it goes to the new child under its own id; when the
\* write fails the notice held by then is released.
Requery(g) ==
  /\ pump[g] = "requery"
  /\ lost' = [lost EXCEPT ![g] = {}]
  /\ pump' = [pump EXCEPT ![g] = "done"]
  /\ \/ /\ proc[child] = "up"
        /\ unread' = [unread EXCEPT ![child] =
                        [r \in Req |-> IF r \in lost[g] THEN @[r] + 1 ELSE @[r]]]
        /\ UNCHANGED <<errs, setupVars>>
     \/ /\ proc[child] # "up"
        /\ ReleaseSetup
        /\ UNCHANGED unread
  /\ UNCHANGED <<sent, fwd, intakeVars, supVars, wireVars, proc, running, out,
                 notice, runs, hand, asker, versionVars, boundVars>>

-------------------------------------------------------------------------------
(* Watchdog, timers *)

\* watchdog (healed tree or changed .env) and _manual_restart (SIGUSR1) call
\* restart_child: their idle wait sees stdio traffic only, so a call may be
\* running.
WatchdogAsk ==
  /\ asker = "idle" /\ faults < MaxFaults
  /\ asker' = RestartAsk
  /\ faults' = faults + 1
  /\ UNCHANGED <<clientVars, intakeVars, supVars, wireVars, setupVars, procVars,
                 pumpVars, versionVars, spawnFails>>

WatchdogNote ==
  /\ asker = "note"
  /\ refresh' = TRUE
  /\ asker' = "idle"
  /\ UNCHANGED <<clientVars, intakeVars, child, idled, restarting, handshake,
                 swallow, pending, ledger, wireVars, setupVars, procVars,
                 pumpVars, versionVars, boundVars>>

WatchdogRestart ==
  /\ asker = "respawn"
  /\ RestartChild(pump, pump)
  /\ asker' = "idle"
  /\ UNCHANGED <<clientVars, intakeVars, idled, handshake, pending, ledger,
                 wireVars, setupVars, running, out, notice, runs, hand, lost,
                 disk, faults>>

\* watchdog, status "updated": a release is on disk; the reload is left to the
\* child's own drift check.
Updated ==
  /\ disk < MaxVersion
  /\ disk' = disk + 1
  /\ UNCHANGED <<clientVars, intakeVars, supVars, wireVars, setupVars, procVars,
                 asker, pumpVars, childVer, schemaVer, boundVars>>

\* WireLog._expired and _answer_lost: no reply within NO_REPLY_S, so the
\* launcher answers the tools/call with a "lost" error.
LostTimer(r) ==
  /\ r \in armed
  /\ armed' = armed \ {r}
  /\ lostAns' = lostAns \cup {r}
  /\ errs' = [errs EXCEPT ![r] = @ + 1]
  /\ UNCHANGED <<sent, fwd, intakeVars, supVars, setupVars, procVars, pumpVars,
                 asker, versionVars, boundVars>>

\* _setup_check_guard: SETUP_CHECK_TIMEOUT_S is over.
GuardRelease ==
  /\ setupHeld # NoReq
  /\ ReleaseSetup
  /\ UNCHANGED <<sent, fwd, intakeVars, supVars, wireVars, procVars, pumpVars,
                 asker, versionVars, boundVars>>

WatchdogStep == WatchdogNote \/ WatchdogRestart
IntakeStep == Record \/ Wake \/ Write \/ GiveUp
ChildStep(g) ==
  \/ \E r \in Req : ChildRead(g, r) \/ ChildReply(g, r)
  \/ \E how \in {"idle", "gone"} : ChildExit(g, how)
PumpStep(g) ==
  \/ \E r \in Req : PumpReply(g, r) \/ PumpNotice(g, r)
  \/ PumpWrite(g) \/ PumpEOF(g) \/ MarkIdle(g) \/ CrashSeen(g)
  \/ ResendWake(g) \/ ResendWrite(g) \/ CrashAsk(g) \/ CrashNote(g)
  \/ CrashRestart(g) \/ Resetup(g) \/ Requery(g)

Next ==
  \/ \E r \in Req : Intake(r) \/ LostTimer(r)
  \/ IntakeStep
  \/ \E g \in Gens : ChildStep(g) \/ PumpStep(g)
  \/ WatchdogAsk \/ WatchdogStep \/ Updated \/ GuardRelease

Spec == Init /\ [][Next]_vars
-------------------------------------------------------------------------------
(* Properties *)

PumpStates == {"none", "read", "hand", "reap", "resend", "rewrite", "delay",
               "note", "respawn", "resetup", "requery", "done"}
Counts == [Req -> Nat]

ClientOK == sent \subseteq Req /\ fwd \in Counts /\ errs \in Counts
IntakeOK ==
  /\ ipc \in {"idle", "record", "wake", "write", "fail"}
  /\ cur \in Req \cup {NoReq} /\ (ipc # "idle" => cur \in Req)
  /\ tries \in Nat /\ target \in Gens
SupOK ==
  /\ child \in Gens /\ idled \in BOOLEAN /\ restarting \in BOOLEAN
  /\ handshake \in BOOLEAN /\ swallow \in BOOLEAN /\ refresh \in BOOLEAN
  /\ pending \subseteq Req /\ ledger \subseteq Req
WireOK == armed \subseteq ToolCalls /\ lostAns \subseteq ToolCalls
SetupOK == /\ setupId \in Doctors \cup {NoReq} /\ setupTries \in Nat
           /\ setupHeld \in {setupId, NoReq}
ProcOK ==
  /\ proc \in [Gens -> {"none", "up", "idle", "gone"}]
  /\ unread \in [Gens -> Counts] /\ running \in [Gens -> Counts]
  /\ out \in [Gens -> Counts] /\ notice \in [Gens -> Counts] /\ runs \in Counts
PumpOK ==
  /\ pump \in [Gens -> PumpStates]
  /\ hand \in [Gens -> Req \cup {NoReq}]
  /\ lost \in [Gens -> SUBSET Req]
  /\ \A g \in Gens : hand[g] \in Req <=> pump[g] = "hand"
  /\ \A g \in Gens : g > child => pump[g] = "none"
VersionOK == /\ asker \in {"idle", "note", "respawn"}
             /\ disk \in Nat /\ childVer \in Nat /\ schemaVer \in Nat
BoundOK == faults \in Nat /\ spawnFails \in Nat

\* Type invariant: every variable of launcher.py's supervisor keeps its shape;
\* the intake thread has a line, and a pump one to write, whenever it needs one.
TypeOK == /\ ClientOK /\ IntakeOK /\ SupOK /\ WireOK /\ SetupOK
          /\ ProcOK /\ PumpOK /\ VersionOK /\ BoundOK

\* A sent tools/call is answered, or something still owes it an answer: its
\* lost timer, a pump holding its reply, or the held qa-doctor notice whose
\* guard thread will release it.  Nothing in launcher.py may drop all three.
Covered(r) ==
  \/ got(r) > 0
  \/ r \in armed
  \/ setupHeld = r
  \/ \E g \in Gens : hand[g] = r
NeverForgotten == \A r \in sent \cap ToolCalls : Covered(r)

\* Two children can answer one id (a respawn, an idle-out re-send, a qa-doctor
\* retry); the pumps of both pass at most one of the answers to the client.
ForwardOnce == \A r \in Req : fwd[r] <= 1

\* The wire watchdog never adds its "lost" error to an id the client already
\* has an answer for (fail_request's comment; WireLog._disarm).
NoContradiction == \A r \in armed : got(r) = 0

\* While the child is down for idleness no request is stranded: each one on
\* record is in the hands of the intake thread or of a pump about to re-send.
IdleStrandsNothing ==
  idled => \A r \in pending :
             r = cur \/ \E g \in Gens : pump[g] = "resend" /\ r \in lost[g]

\* The respawn of a dead child is never dropped between the threads that race for
\* it: while the current child is down, either it idled out, or a spawn has
\* raised, or its own pump is still on the way to the restart.
DeadIsReplaced ==
  proc[child] # "up" =>
    \/ idled
    \/ restarting /\ spawnFails > 0
    \/ pump[child] \in {"read", "hand", "reap", "delay", "respawn"}

\* One fault, one spawn: the pump that sees a child end, the watchdog, the wakes of
\* an idle-out and the retries of a write never start two children between them
\* for one death, and whoever is about to start one has a fault to spend, or a
\* spawn that raised, whose clean-up may have killed a live child.
OneSpawnPerFault ==
  /\ child <= faults + spawnFails + 1
  /\ idled \/ asker = "respawn" \/ (\E g \in Gens : pump[g] = "respawn")
       => child <= faults + spawnFails

\* No request but initialize and qa-doctor is run a second time because its child
\* crashed, reloaded or was restarted: only the re-send after an idle-out may
\* repeat it.
RunsOnce ==
  (\A g \in Gens : proc[g] # "idle") =>
     \A r \in Req \ (Doctors \cup {InitReq}) : runs[r] <= 1

\* A dead child comes back, or is down because it idled out.  A spawn that
\* raised in restart_child is the one exception: it leaves `restarting` set.
Respawned ==
  (proc[child] # "up") ~> (proc[child] = "up" \/ idled \/ restarting)

\* A client line that finds the child idled out wakes it, even if the first
\* spawns raise (the retry loop of forward_client_line).
TrafficWakes == (idled /\ ipc = "record" /\ tries = 0) ~> ~idled

\* Every tools/call is answered, by a child or by the launcher.
CallsAnswered == \A r \in ToolCalls : (r \in sent) ~> (got(r) > 0)

\* Every thread of the launcher keeps running and every timer fires; the
\* client, the children and the updater owe nothing.
FairSpec ==
  /\ Spec
  /\ WF_vars(IntakeStep)
  /\ \A g \in Gens : WF_vars(PumpStep(g))
  /\ \A r \in ToolCalls : WF_vars(LostTimer(r))
  /\ WF_vars(GuardRelease)
  /\ WF_vars(WatchdogStep)
===============================================================================
