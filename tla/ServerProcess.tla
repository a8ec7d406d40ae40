---------------------------- MODULE ServerProcess ----------------------------
(***************************************************************************)
(* One server process and the threads that may end it while tool calls     *)
(* come and go: the drift watch, the idle watch, and the reload thread     *)
(* each qa-doctor call may start.  They agree through one counter of calls *)
(* in flight and one stamp of when the last of them finished.              *)
(***************************************************************************)
EXTENDS Integers

CONSTANTS
  Calls, Doctors, Drivers,   \* tool calls; qa-doctor; those that start a run
  NoCall,
  ReplyTime,      \* longest a settled reply takes to reach the client
  FlushGrace,     \* FLUSH_GRACE_S
  DrainTimeout,   \* DRAIN_TIMEOUT_S
  DrainIdle,      \* _DRAIN_IDLE_S
  RunDeferMax,    \* _RUN_DEFER_MAX_S
  IdleExit,       \* IDLE_EXIT_S
  MaxRuns,        \* bound on live mobile runs
  Horizon         \* where every clock stops counting

ASSUME CallsAssumption ==
  Doctors \subseteq Calls /\ Drivers \subseteq Calls /\ NoCall \notin Calls
\* The grace and the quiet gaps are chosen to outlast a reply on its way.
ASSUME TimingAssumption ==
  /\ {ReplyTime, FlushGrace, DrainTimeout, DrainIdle, RunDeferMax, IdleExit,
      MaxRuns, Horizon} \subseteq Nat
  /\ ReplyTime < FlushGrace /\ ReplyTime < DrainIdle /\ ReplyTime < IdleExit
  /\ ReplyTime <= DrainTimeout
  /\ \A t \in {FlushGrace, DrainTimeout, DrainIdle, IdleExit} : t <= Horizon
  /\ RunDeferMax < Horizon

VARIABLES
  phase,      \* of each call, from its dispatch to the client
  age,        \* since its reply was settled
  n, quiet,   \* _INFLIGHT: calls in flight, time since last_finish
  live,       \* live mobile runs (BUSY_PROBES)
  since,      \* _INFLIGHT["runs_since"]: time since, or Unset
  up, seen, runBusy, idleWait,   \* STARTED, _RUN, the idle watch's sleep
  changed, verified, env,        \* the install and .env against this process
  driftPc,    \* the drift watch: asleep, or past its checks of the tree
  alone,      \* doctors that found no other call and no run
  reload, rtime,   \* each doctor's reload thread and its clock
  overrun, held,   \* (history) whether its wait timed out, the calls it saw
  exit, by    \* why the process ended, the doctor whose thread ended it

callVars == <<phase, age, n, quiet>>
idleVars == <<seen, runBusy, idleWait>>
treeVars == <<changed, verified, env>>
reloadVars == <<reload, rtime, overrun, held>>
exitVars == <<exit, by>>
vars == <<callVars, live, since, up, idleVars, treeVars, driftPc, alone,
          reloadVars, exitVars>>

Unset == -1
Running == {c \in Calls : phase[c] \in {"body", "asked", "told"}}
Settled == {c \in Calls : phase[c] = "done"}
Leaving == {c \in Doctors : phase[c] = "told" /\ reload[c] # "none"}
Least(S) == CHOOSE x \in S : \A y \in S : x <= y
Later(t) == IF t = Unset \/ t = Horizon THEN t ELSE t + 1

\* last_finish is 0.0 at the start: a gap of any length since.
Init ==
  /\ phase = [c \in Calls |-> "none"] /\ age = [c \in Calls |-> 0]
  /\ n = 0 /\ quiet = Horizon
  /\ live = 0 /\ since = Unset
  /\ up = 0 /\ seen = Horizon /\ runBusy = FALSE /\ idleWait = 0
  /\ changed = FALSE /\ verified = TRUE /\ env = FALSE
  /\ driftPc = "sleep" /\ alone = {}
  /\ reload = [d \in Doctors |-> "none"] /\ rtime = [d \in Doctors |-> 0]
  /\ overrun = [d \in Doctors |-> FALSE] /\ held = [d \in Doctors |-> {}]
  /\ exit = "no" /\ by = NoCall

-------------------------------------------------------------------------------
(* Tool calls: _tracked *)

\* _open_tool_call: counted under the lock before the handler runs.  What is
\* in the pipe, or read and not dispatched yet, no thread here knows of.
OpenUncounted(c) ==   \* mutant: the handler runs before it is counted
  /\ phase[c] = "none"
  /\ phase' = [phase EXCEPT ![c] = "body"]
  /\ UNCHANGED <<age, n, quiet, live, since, up, idleVars, treeVars, driftPc,
                 alone, reloadVars, exitVars>>
Open(c) ==
  /\ phase[c] = "none"
  /\ phase' = [phase EXCEPT ![c] = "body"]
  /\ n' = n + 1
  /\ UNCHANGED <<age, quiet, live, since, up, idleVars, treeVars, driftPc,
                 alone, reloadVars, exitVars>>

\* _close_then_release: the handler returned, raised or was cancelled, its
\* outcome is on record, and the slot is given back last of all.
GiveBackUnstamped == n' = (IF n > 0 THEN n - 1 ELSE 0) /\ UNCHANGED quiet  \* mutant
GiveBack == n' = (IF n > 0 THEN n - 1 ELSE 0) /\ quiet' = 0
CountOut(c) ==
  /\ c \in Running
  /\ phase' = [phase EXCEPT ![c] = "done"] /\ age' = [age EXCEPT ![c] = 0]
  /\ GiveBack
  /\ UNCHANGED <<live, since, up, idleVars, treeVars, driftPc, alone,
                 reloadVars, exitVars>>

\* The MCP library serializes the reply and its stdio writer sends it.
Flush(c) ==
  /\ phase[c] = "done"
  /\ phase' = [phase EXCEPT ![c] = "written"] /\ age' = [age EXCEPT ![c] = 0]
  /\ UNCHANGED <<n, quiet, live, since, up, idleVars, treeVars, driftPc,
                 alone, reloadVars, exitVars>>

\* A call starts a run; it ends by a call, its idle timer or a lost lease.
StartRun(c) ==
  /\ c \in Drivers /\ phase[c] = "body" /\ live < MaxRuns
  /\ live' = live + 1
  /\ UNCHANGED <<callVars, since, up, idleVars, treeVars, driftPc, alone,
                 reloadVars, exitVars>>
EndRun ==
  /\ live > 0
  /\ live' = live - 1
  /\ UNCHANGED <<callVars, since, up, idleVars, treeVars, driftPc, alone,
                 reloadVars, exitVars>>

-------------------------------------------------------------------------------
(* qa-doctor and its reload thread *)

\* session_busy: the doctor counts itself as one call.
DoctorAsk(d) ==
  /\ phase[d] = "body"
  /\ phase' = [phase EXCEPT ![d] = "asked"]
  /\ alone' = IF n > 1 \/ live > 0 THEN alone ELSE alone \cup {d}
  /\ UNCHANGED <<age, n, quiet, live, since, up, idleVars, treeVars, driftPc,
                 reloadVars, exitVars>>

\* run_reload_gate: an update is installed only for a doctor that was alone
\* when it asked; newer code or an edited .env reload the process in any case.
DoctorTell(d) ==
  /\ phase[d] = "asked"
  /\ phase' = [phase EXCEPT ![d] = "told"]
  /\ \/ /\ d \in alone
        /\ changed' \in {changed, TRUE} /\ verified' = TRUE
        /\ reload' = [reload EXCEPT ![d] = "drain"]
     \/ /\ reload' = IF changed \/ env THEN [reload EXCEPT ![d] = "drain"]
                     ELSE reload
        /\ UNCHANGED <<changed, verified>>
  /\ age' = [age EXCEPT ![d] = 0] /\ rtime' = [rtime EXCEPT ![d] = 0]
  /\ alone' = alone \ {d}
  /\ UNCHANGED <<n, quiet, live, since, up, idleVars, env, driftPc, overrun,
                 held, exitVars>>

\* wait_until_drained.
WaitOverAtOnce(d) == TRUE   \* mutant: the exit does not wait for the drain
WaitOver(d) == n = 0 \/ rtime[d] >= DrainTimeout
Drained(d) ==
  /\ reload[d] = "drain"
  /\ WaitOver(d)
  /\ reload' = [reload EXCEPT ![d] = "grace"] /\ rtime' = [rtime EXCEPT ![d] = 0]
  /\ overrun' = [overrun EXCEPT ![d] = rtime[d] >= DrainTimeout]
  /\ held' = [held EXCEPT ![d] = Running]
  /\ UNCHANGED <<callVars, live, since, up, idleVars, treeVars, driftPc, alone,
                 exitVars>>

\* _exit_after_reply: the grace for the reply to flush, then exit 86.  No lock
\* is held: a call that came in meanwhile is not looked at.
GraceOverAtOnce(d) == TRUE   \* mutant: no grace before the exit
GraceOver(d) == rtime[d] >= FlushGrace
ReloadExit(d) ==
  /\ reload[d] = "grace"
  /\ GraceOver(d)
  /\ exit' = "reload" /\ by' = d
  /\ UNCHANGED <<callVars, live, since, up, idleVars, treeVars, driftPc, alone,
                 reloadVars>>

-------------------------------------------------------------------------------
(* The drift watch and the idle watch *)

\* _drift_loop: the tree is another release and verifies; then the jitter.
DriftSeen ==
  /\ driftPc = "sleep" /\ changed /\ verified
  /\ driftPc' = "gate"
  /\ UNCHANGED <<callVars, live, since, up, idleVars, treeVars, alone,
                 reloadVars, exitVars>>

\* _mobile_runs_active: runs defer the restart, for RunDeferMax in a row.
StampRunsAfresh == IF live = 0 THEN Unset ELSE 0   \* mutant: stamped each tick
StampRuns == IF live = 0 THEN Unset ELSE IF since = Unset THEN 0 ELSE since
Deferring == IF since' = Unset \/ since' > RunDeferMax THEN 0 ELSE live

\* _exit_if_idle, all of it under the lock a call is counted under.
DriftGate ==
  /\ driftPc = "gate"
  /\ since' = StampRuns
  /\ \/ /\ n + Deferring = 0 /\ quiet >= DrainIdle
        /\ exit' = "drift" /\ UNCHANGED <<by, driftPc>>
     \/ /\ n + Deferring > 0 \/ quiet < DrainIdle
        /\ driftPc' = "sleep" /\ UNCHANGED exitVars
  /\ UNCHANGED <<callVars, live, up, idleVars, treeVars, alone, reloadVars>>

\* seconds_until_idle, under the same lock, then sleep to the deadline.
IdleBusy ==
  /\ idleWait = 0 /\ (n > 0 \/ live > 0)
  /\ runBusy' = TRUE /\ idleWait' = IdleExit
  /\ UNCHANGED <<callVars, live, since, up, seen, treeVars, driftPc, alone,
                 reloadVars, exitVars>>
\* A run's end restarts the quiet clock, when it is noticed.
Notice == seen' = (IF runBusy THEN 0 ELSE seen) /\ UNCHANGED runBusy   \* mutant
NoticeEnd == seen' = (IF runBusy THEN 0 ELSE seen) /\ runBusy' = FALSE
TimeSpent(gap) == gap - IdleExit   \* mutant: operands swapped
TimeLeft(gap) == IdleExit - gap
IdleCheck ==
  /\ idleWait = 0 /\ n = 0 /\ live = 0
  /\ NoticeEnd
  /\ LET gap == Least({quiet, up, seen'})
     IN \/ gap >= IdleExit /\ exit' = "idle" /\ UNCHANGED <<by, idleWait>>
        \/ gap < IdleExit /\ idleWait' = TimeLeft(gap) /\ UNCHANGED exitVars
  /\ UNCHANGED <<callVars, live, since, up, treeVars, driftPc, alone,
                 reloadVars>>

-------------------------------------------------------------------------------
(* Outside this process *)

\* A peer's update overlays the shared install, VERSION before the code.
PeerWrites ==
  /\ verified
  /\ verified' = FALSE /\ changed' \in {changed, TRUE}
  /\ UNCHANGED <<callVars, live, since, up, idleVars, env, driftPc, alone,
                 reloadVars, exitVars>>
PeerDone ==
  /\ ~verified
  /\ verified' = TRUE /\ changed' \in {changed, TRUE}
  /\ UNCHANGED <<callVars, live, since, up, idleVars, env, driftPc, alone,
                 reloadVars, exitVars>>
EditEnv ==
  /\ ~env
  /\ env' = TRUE
  /\ UNCHANGED <<callVars, live, since, up, idleVars, changed, verified, driftPc,
                 alone, reloadVars, exitVars>>

\* Time passes; a settled reply, and a doctor's own, do not wait for long.
Tick ==
  /\ \A c \in Settled \cup Leaving : age[c] < ReplyTime
  /\ age' = [c \in Calls |-> IF c \in Settled \cup Leaving THEN age[c] + 1 ELSE age[c]]
  /\ rtime' = [d \in Doctors |-> IF reload[d] = "none" THEN 0 ELSE Later(rtime[d])]
  /\ quiet' = Later(quiet) /\ up' = Later(up) /\ seen' = Later(seen)
  /\ since' = Later(since)
  /\ idleWait' = IF idleWait = 0 THEN 0 ELSE idleWait - 1
  /\ UNCHANGED <<phase, n, live, runBusy, treeVars, driftPc, alone, reload,
                 overrun, held, exitVars>>

CallStep(c) == Open(c) \/ CountOut(c) \/ Flush(c) \/ StartRun(c)
DoctorStep(d) == DoctorAsk(d) \/ DoctorTell(d) \/ Drained(d) \/ ReloadExit(d)
Next ==
  /\ exit = "no"
  /\ \/ \E c \in Calls : CallStep(c)
     \/ \E d \in Doctors : DoctorStep(d)
     \/ EndRun \/ DriftSeen \/ DriftGate \/ IdleBusy \/ IdleCheck
     \/ PeerWrites \/ PeerDone \/ EditEnv \/ Tick

Spec == Init /\ [][Next]_vars
ReplyPath == \/ \E c \in Calls : Flush(c)
             \/ \E d \in Leaving : CountOut(d)
\* Time, both watches and the reply path go on; no other call has to end, no
\* run has to, no peer has to finish.
FairSpec ==
  /\ Spec
  /\ WF_vars(exit = "no" /\ Tick)
  /\ WF_vars(exit = "no" /\ ReplyPath)
  /\ WF_vars(exit = "no" /\ (DriftSeen \/ DriftGate))
  /\ WF_vars(exit = "no" /\ (IdleBusy \/ IdleCheck))
-------------------------------------------------------------------------------
(* Properties *)

Clock == 0 .. Horizon
\* Type invariant of the server's bookkeeping; the slots match the calls.
TypeOK ==
  /\ phase \in [Calls -> {"none", "body", "asked", "told", "done", "written"}]
  /\ age \in [Calls -> Clock]
  /\ n \in Nat /\ quiet \in Clock /\ live \in 0 .. MaxRuns
  /\ since \in Clock \cup {Unset}
  /\ up \in Clock /\ seen \in Clock /\ runBusy \in BOOLEAN
  /\ idleWait \in 0 .. IdleExit
  /\ changed \in BOOLEAN /\ verified \in BOOLEAN /\ env \in BOOLEAN
  /\ driftPc \in {"sleep", "gate"} /\ alone \subseteq Doctors
  /\ reload \in [Doctors -> {"none", "drain", "grace"}]
  /\ rtime \in [Doctors -> Clock] /\ overrun \in [Doctors -> BOOLEAN]
  /\ held \in [Doctors -> SUBSET Calls]
  /\ exit \in {"no", "drift", "idle", "reload"} /\ by \in Doctors \cup {NoCall}

\* A drift or idle exit lands on no tool body and on no reply that is still on
\* its way out, though the writer of replies is outside the count.
QuietExit ==
  [][exit = "no" /\ exit' \in {"drift", "idle"} => Running \cup Settled = {}]_vars

\* The reply of the qa-doctor that scheduled a reload reaches the client before
\* the process goes, however long other calls keep the count up.
OwnReplyLeft ==
  [][exit = "no" /\ exit' = "reload" => phase[by'] = "written"]_vars

\* A reload kills only calls that came in after the wait for the drain was over,
\* or that had it wait for all of DRAIN_TIMEOUT_S.
KilledLate ==
  [][exit = "no" /\ exit' = "reload" =>
       overrun[by'] \/ held[by'] \cap Running = {}]_vars

\* Refinement: seen from its launcher, the process is a child that goes out for
\* want of use only with every call it took up answered, and is silent after its
\* end.  A drift exit and a reload are ends like a crash to the launcher.
Status == IF exit = "no" THEN "up" ELSE IF exit = "idle" THEN "idle" ELSE "gone"
Child == INSTANCE ServingChild
           WITH Request <- Calls, status <- Status, work <- Running \cup Settled
ServesAsChild == Child!Spec

\* New code on disk is loaded at last, even under a run that stays live for
\* ever, once the tree stays verified and calls stay away.
NewCodeLoads == <>[](changed /\ verified /\ n = 0) => <>(exit # "no")

\* A server nobody uses idles out: the sleeps to the deadline add up.
IdlesOut == <>[](n = 0 /\ live = 0) => <>(exit # "no")
===============================================================================
