------------------------------ MODULE DeviceRuns ------------------------------
(* The mobile lane's hold on one device.  A new run is set up by a background  *)
(* job of the chat that asked for it: the job takes the machine-wide select    *)
(* lock, then the device's lock under a label of its own, and hands the lock   *)
(* to the run it planned.  From then on chats drive the run, one call at a     *)
(* time, under its lease: the last chat that claimed the run holds it, and a   *)
(* writer thread in that chat's server keeps the lease fresh.  The device is   *)
(* given back by the chat that finishes the run or learns that it lost it, by  *)
(* the writer, by whoever ends the run (a stop, the idle timer, a setup that   *)
(* wants the device, the sweep of abandoned runs) and by the kernel when the   *)
(* server dies: a lock belongs to a process, and only that process frees it.   *)
(* The lease is a file all servers share, read and written without a lock.     *)
EXTENDS Naturals

CONSTANTS
  Chats,      \* agent chats; each sets up at most one run, named after it
  Servers,    \* server processes on the machine
  None,       \* no chat, no hold
  Budget      \* calls on runs and faults in a behaviour

Runs == Chats
NoToken == [of |-> None, call |-> 0]
Token(c, n) == [of |-> c, call |-> n]     \* calls by a chat's n-th call, 0 its setup
Tokens == [of : Chats, call : 0 .. Budget] \cup {NoToken}

Label(c) == [kind |-> "prerun", of |-> c]
RunOwner(r) == [kind |-> "run", of |-> r]
Owners == [kind : {"prerun", "run"}, of : Chats]

Leases == [holder : Tokens, fresh : BOOLEAN, released : BOOLEAN]
NoLease == [holder |-> NoToken, fresh |-> FALSE, released |-> FALSE]

Holds == [by : Servers, owner : Owners, lease : Tokens]

ASSUME DeviceRunsAssumption ==
  /\ Budget \in Nat
  /\ None \notin Chats \cup Holds

VARIABLES
  server,    \* the server process each chat's calls reach
  setup,     \* the stage of each chat's setup job
  evict,     \* the run that job is ending to get at its device
  orphaned,  \* setup jobs whose call the host has abandoned
  call,      \* the call a chat has in progress on a run
  on,        \* that run, or the last one
  token,     \* the session token the chat presents for it
  status,    \* the run's manifest: planned, at its report, ended
  lease,     \* the run's lease file
  select,    \* the job that holds the select lock
  device,    \* the device's lock
  ended,     \* labels whose setup ended with a lock still held
  writer,    \* the heartbeat thread of each server and run
  timer,     \* armed idle timers, by server and run
  closing,   \* runs being ended, by the server that ends them
  minted,    \* session tokens each chat has minted by taking a run over
  spent,     \* calls on runs and faults so far
  exposed,   \* tokens whose chat may lose the device without having given it up
  unbeaten   \* tokens that took the device while no writer beat under them

setupVars == <<setup, evict, orphaned>>
callVars == <<call, on, token, minted>>
runVars == <<status, lease, exposed>>
lockVars == <<select, device, ended, unbeaten>>
agentVars == <<writer, timer, closing>>
vars == <<server, setupVars, callVars, runVars, lockVars, agentVars, spent>>

SetupStages == {"new", "selecting", "preparing", "cleaning", "done"}
SettingUp == SetupStages \ {"new", "done"}
Synchronous == {"claim", "claimed", "takenover"}
CallStages == Synchronous \cup {"none", "stage", "drive", "finish", "lost"}
WriterStages == {"gone", "waiting", "lost"}

NoWriter == [token |-> NoToken, at |-> "gone"]

TypeOK ==
  /\ server \in [Chats -> Servers]
  /\ setup \in [Chats -> SetupStages]
  /\ evict \in [Chats -> Runs \cup {None}]
  /\ orphaned \subseteq Chats
  /\ call \in [Chats -> CallStages]
  /\ on \in [Chats -> Runs]
  /\ token \in [Chats -> Tokens]
  /\ status \in [Runs -> {"none", "open", "report", "ended"}]
  /\ lease \in [Runs -> Leases]
  /\ select \in Chats \cup {None}
  /\ device \in Holds \cup {None}
  /\ ended \subseteq Chats
  /\ writer \in [Servers -> [Runs -> [token : Tokens, at : WriterStages]]]
  /\ timer \subseteq Servers \X Runs
  /\ closing \subseteq Servers \X Runs
  /\ minted \in [Chats -> 0 .. Budget]
  /\ spent \in 0 .. Budget
  /\ exposed \subseteq Tokens
  /\ unbeaten \in Tokens

Init ==
  /\ server \in [Chats -> Servers]
  /\ setup = [c \in Chats |-> "new"]
  /\ evict = [c \in Chats |-> None]
  /\ orphaned = {}
  /\ call = [c \in Chats |-> "none"]
  /\ on = [c \in Chats |-> c]
  /\ token = [c \in Chats |-> NoToken]
  /\ status = [r \in Runs |-> "none"]
  /\ lease = [r \in Runs |-> NoLease]
  /\ select = None
  /\ device = None
  /\ ended = {}
  /\ writer = [p \in Servers |-> [r \in Runs |-> NoWriter]]
  /\ timer = {}
  /\ closing = {}
  /\ minted = [c \in Chats |-> 0]
  /\ spent = 0
  /\ exposed = {}
  /\ unbeaten = NoToken

-----------------------------------------------------------------------------
(* A claim awaits nothing: while one is on its way, no other call of that      *)
(* server takes a step.  Writer threads and other servers do.                  *)
LoopFree(p) == \A c \in Chats : server[c] = p => call[c] \notin Synchronous

HeldBy(p, o) == device # None /\ device.by = p /\ device.owner = o

OrphanWhileRunning(p) ==
  device # None /\ device.by = p /\ device.owner.kind = "prerun"

(* The device's lock is free, this owner's in this process, or left by a setup *)
(* of this process that ended without giving it back, which is healed.         *)
Orphan(p) == /\ device # None
             /\ device.by = p
             /\ device.owner.kind = "prerun"
             /\ device.owner.of \in ended

CanTakePerProcess(p, o) == device = None \/ (device # None /\ device.by = p)

CanTake(p, o) == device = None \/ HeldBy(p, o) \/ Orphan(p)

Takes(p, o, t) ==
  /\ device' = IF HeldBy(p, o) /\ t = NoToken
                 THEN device
                 ELSE [by |-> p, owner |-> o, lease |-> t]
  /\ ended' = IF Orphan(p) /\ ~HeldBy(p, o) THEN ended \ {device.owner.of} ELSE ended

TakesForRun(p, r, t) ==
  /\ Takes(p, RunOwner(r), t)
  /\ unbeaten' = IF writer'[p][r].token = t THEN NoToken ELSE t

ReleasesUnchecked(p, o, t) == device' = IF HeldBy(p, o) THEN None ELSE device
ReleasesToNobody(p, o) ==
  device' = IF HeldBy(p, o) THEN [device EXCEPT !.lease = None] ELSE device

(* A release names the owner and presents a token; the force of a stop and the *)
(* holder authority of a setup need the owner alone.                           *)
Releases(p, o, t) ==
  device' = IF HeldBy(p, o) /\ device.lease = t THEN None ELSE device
ReleasesAny(p, o) ==
  device' = IF HeldBy(p, o) THEN None ELSE device

WritesLease(r, l) ==
  /\ lease' = [lease EXCEPT ![r] = l]
  /\ exposed' = exposed \cup ({lease[r].holder} \ {NoToken, l.holder})

StartsWriter(p, r, t) ==
  writer' = IF writer[p][r].at = "gone"
              THEN [writer EXCEPT ![p][r] = [token |-> t, at |-> "waiting"]]
              ELSE writer

-----------------------------------------------------------------------------
(* The bound on calls and faults. *)
Affordable == spent < Budget

(* Ending a run: its writer in this process is stopped and joined, the verdict *)
(* is recorded, and after the restores have been awaited the device is freed,  *)
(* if this process holds it for the run, and the lease stamped.                *)

(* Nobody in this process has stepped the run for the idle limit. *)
Quiet(p, r) == \A c \in Chats :
                 server[c] = p /\ on[c] = r => call[c] \in {"none", "stage", "lost"}

ClosingBegins(p, r) ==
  /\ LoopFree(p)
  /\ <<p, r>> \notin closing
  /\ writer[p][r].at \in {"gone", "waiting"}
  /\ writer' = [writer EXCEPT ![p][r] = NoWriter]
  /\ status' = [status EXCEPT ![r] = "ended"]
  /\ timer' = {t \in timer : t[2] # r}
  /\ closing' = closing \cup {<<p, r>>}

CloseEnds(p, r) ==
  /\ LoopFree(p)
  /\ <<p, r>> \in closing
  /\ closing' = closing \ {<<p, r>>}
  /\ ReleasesAny(p, RunOwner(r))
  /\ IF HeldBy(p, RunOwner(r)) /\ lease[r].holder # NoToken
       THEN WritesLease(r, [lease[r] EXCEPT !.released = TRUE])
       ELSE UNCHANGED <<lease, exposed>>
  /\ UNCHANGED <<server, setupVars, callVars, status, select, ended, unbeaten,
                 writer, timer, spent>>

StopRun(p, r) ==
  /\ writer[p][r].at # "gone"
  /\ Affordable
  /\ spent' = spent + 1
  /\ ClosingBegins(p, r)
  /\ UNCHANGED <<server, setupVars, callVars, lease, exposed, lockVars>>

IdleTimer(p, r) ==
  /\ <<p, r>> \in timer
  /\ Quiet(p, r)
  /\ ClosingBegins(p, r)
  /\ UNCHANGED <<server, setupVars, callVars, lease, exposed, lockVars, spent>>

(* Every end of a hold sweeps, and so does a server that has begun to arm idle *)
(* timers: it ends the other runs whose lease has gone stale unreleased, unless *)
(* this server still beats for them.                                           *)
Sweeping(p, r) ==
  \E c \in Chats : /\ server[c] = p
                   /\ \/ call[c] \in {"finish", "lost"} /\ on[c] # r
                      \/ setup[c] = "cleaning"
                      \/ \E s \in Runs \ {r} : <<p, s>> \in timer

Sweep(p, r) ==
  /\ Sweeping(p, r)
  /\ writer[p][r].at = "gone"
  /\ status[r] \in {"open", "report"}
  /\ lease[r].holder # NoToken /\ ~lease[r].fresh /\ ~lease[r].released
  /\ ClosingBegins(p, r)
  /\ UNCHANGED <<server, setupVars, callVars, lease, exposed, lockVars, spent>>

-----------------------------------------------------------------------------
(* The setup job of a chat. *)

Waited(c) == evict[c] = None \/ <<server[c], evict[c]>> \notin closing

SetupOpens(c) ==
  /\ setup[c] = "new"
  /\ call[c] = "none"
  /\ LoopFree(server[c])
  /\ Waited(c)
  /\ select = None
  /\ select' = c
  /\ setup' = [setup EXCEPT ![c] = "selecting"]
  /\ evict' = [evict EXCEPT ![c] = None]
  /\ UNCHANGED <<server, orphaned, callVars, runVars, device, ended, unbeaten,
                 agentVars, spent>>

(* A new setup call first ends the run an abandoned job of this server made    *)
(* for another request, if that run still holds its device.                    *)
Reclaim(c, d) ==
  /\ setup[c] = "new"
  /\ call[c] = "none"
  /\ evict[c] = None
  /\ c # d
  /\ server[d] = server[c]
  /\ d \in orphaned
  /\ setup[d] = "done"
  /\ HeldBy(server[c], RunOwner(d))
  /\ ClosingBegins(server[c], d)
  /\ evict' = [evict EXCEPT ![c] = d]
  /\ orphaned' = orphaned \ {d}
  /\ UNCHANGED <<server, setup, callVars, lease, exposed, lockVars, spent>>

SetupClaimsDevice(c) ==
  /\ setup[c] = "selecting"
  /\ LoopFree(server[c])
  /\ Waited(c)
  /\ CanTake(server[c], Label(c))
  /\ Takes(server[c], Label(c), NoToken)
  /\ select' = IF select = c THEN None ELSE select
  /\ setup' = [setup EXCEPT ![c] = "preparing"]
  /\ UNCHANGED <<server, evict, orphaned, callVars, runVars, unbeaten,
                 agentVars, spent>>

(* The device is busy with a run that looks idle from this server: end it. *)
SetupEvicts(c) ==
  /\ setup[c] = "selecting"
  /\ evict[c] = None
  /\ ~CanTake(server[c], Label(c))
  /\ device.owner.kind = "run"
  /\ Quiet(server[c], device.owner.of)
  /\ ClosingBegins(server[c], device.owner.of)
  /\ evict' = [evict EXCEPT ![c] = device.owner.of]
  /\ UNCHANGED <<server, setup, orphaned, callVars, lease, exposed, lockVars,
                 spent>>

(* A busy device, a stage that fails, or the restart of an abandoned job. *)
SetupGivesUp(c) ==
  /\ setup[c] \in {"selecting", "preparing"}
  /\ LoopFree(server[c])
  /\ Waited(c)
  /\ setup' = [setup EXCEPT ![c] = "cleaning"]
  /\ UNCHANGED <<server, evict, orphaned, callVars, runVars, lockVars,
                 agentVars, spent>>

SetupCleansDeviceOnly(c) ==
  /\ setup[c] = "cleaning"
  /\ LoopFree(server[c])
  /\ ReleasesAny(server[c], Label(c))
  /\ setup' = [setup EXCEPT ![c] = "done"]
  /\ UNCHANGED <<server, evict, orphaned, callVars, runVars, select, ended,
                 unbeaten, agentVars, spent>>

SetupCleans(c) ==
  /\ setup[c] = "cleaning"
  /\ LoopFree(server[c])
  /\ ReleasesAny(server[c], Label(c))
  /\ select' = IF select = c THEN None ELSE select
  /\ setup' = [setup EXCEPT ![c] = "done"]
  /\ UNCHANGED <<server, evict, orphaned, callVars, runVars, ended, unbeaten,
                 agentVars, spent>>

(* A restore raises: the release after it is never reached, and the label is   *)
(* remembered with what it holds.                                              *)
SetupCleanupFails(c) ==
  /\ setup[c] = "cleaning"
  /\ LoopFree(server[c])
  /\ Affordable
  /\ spent' = spent + 1
  /\ setup' = [setup EXCEPT ![c] = "done"]
  /\ ended' = IF HeldBy(server[c], Label(c)) \/ select = c THEN ended \cup {c} ELSE ended
  /\ UNCHANGED <<server, evict, orphaned, callVars, runVars, select, device,
                 unbeaten, agentVars>>

Learns(c) ==
  /\ on' = [on EXCEPT ![c] = c]
  /\ token' = [token EXCEPT ![c] = Token(c, 0)]

(* The planned run is claimed under a fresh token, the device's lock is moved  *)
(* to it and told the token, and its writer is started.                        *)
SetupHandsOff(c) ==
  /\ setup[c] = "preparing"
  /\ LoopFree(server[c])
  /\ status' = [status EXCEPT ![c] = "open"]
  /\ WritesLease(c, [holder |-> Token(c, 0), fresh |-> TRUE, released |-> FALSE])
  /\ IF HeldBy(server[c], Label(c))
       THEN /\ device' = [by |-> server[c], owner |-> RunOwner(c), lease |-> Token(c, 0)]
            /\ StartsWriter(server[c], c, Token(c, 0))
            /\ setup' = [setup EXCEPT ![c] = "done"]
            /\ IF c \in orphaned THEN UNCHANGED <<on, token>> ELSE Learns(c)
       ELSE /\ setup' = [setup EXCEPT ![c] = "cleaning"]
            /\ UNCHANGED <<on, token, device, writer>>
  /\ UNCHANGED <<server, evict, orphaned, call, minted, select, ended,
                 unbeaten, timer, closing, spent>>

Abandon(c) ==
  /\ setup[c] \in SettingUp
  /\ c \notin orphaned
  /\ Affordable
  /\ spent' = spent + 1
  /\ orphaned' = orphaned \cup {c}
  /\ UNCHANGED <<server, setup, evict, callVars, runVars, lockVars, agentVars>>

(* The next call for the same request gets the reply the job kept. *)
Adopt(c) ==
  /\ c \in orphaned
  /\ setup[c] = "done"
  /\ call[c] = "none"
  /\ LoopFree(server[c])
  /\ orphaned' = orphaned \ {c}
  /\ IF HeldBy(server[c], RunOwner(c))
       THEN Learns(c)
       ELSE UNCHANGED <<on, token>>
  /\ UNCHANGED <<server, setup, evict, call, minted, runVars, lockVars,
                 agentVars, spent>>

-----------------------------------------------------------------------------
(* A call on a run: claim the lease, start the writer, take the device. *)

Free(c) == call[c] = "none" /\ (setup[c] \in SettingUp => c \in orphaned)
Claimable(r) == status[r] \in {"open", "report"}

At(c, stage) == call' = [call EXCEPT ![c] = stage]

(* A step presents the chat's token.  The lease it reads decides: another      *)
(* holder's, while fresh, is not taken.                                        *)
StepBegins(c) ==
  LET l == lease[on[c]] IN
  /\ Free(c)
  /\ LoopFree(server[c])
  /\ token[c] # NoToken
  /\ Claimable(on[c])
  /\ Affordable
  /\ spent' = spent + 1
  /\ At(c, IF l.holder \notin {NoToken, token[c]} /\ l.fresh THEN "lost" ELSE "claim")
  /\ UNCHANGED <<server, setupVars, on, token, minted, runVars, lockVars,
                 agentVars>>

ClaimsFor(c, r, t) == WritesLease(r, [holder |-> t, fresh |-> TRUE, released |-> FALSE])

ClaimWrites(c) ==
  /\ call[c] = "claim"
  /\ ClaimsFor(c, on[c], token[c])
  /\ At(c, "claimed")
  /\ UNCHANGED <<server, setupVars, on, token, minted, status, lockVars,
                 agentVars, spent>>

(* A resume without a token takes the run over under a fresh one, whatever the *)
(* lease says.                                                                 *)
TakeOver(c, r) ==
  LET t == Token(c, minted[c] + 1) IN
  /\ Free(c)
  /\ LoopFree(server[c])
  /\ Claimable(r)
  /\ Affordable
  /\ spent' = spent + 1
  /\ on' = [on EXCEPT ![c] = r]
  /\ minted' = [minted EXCEPT ![c] = @ + 1]
  /\ token' = [token EXCEPT ![c] = t]
  /\ ClaimsFor(c, r, t)
  /\ At(c, "takenover")
  /\ UNCHANGED <<server, setupVars, status, lockVars, agentVars>>

(* The chat that reads its own token back starts the writer, which may already *)
(* beat under an older token, and takes the device or is told that it is busy. *)
ClaimConfirms(c) ==
  LET p == server[c]
      r == on[c]
  IN /\ call[c] \in {"claimed", "takenover"}
     /\ IF lease[r].holder # token[c]
          THEN At(c, "lost") /\ UNCHANGED <<device, ended, unbeaten, writer,
                                            timer>>
          ELSE /\ StartsWriter(p, r, token[c])
               /\ IF ~CanTake(p, RunOwner(r))
                    THEN At(c, "none") /\ UNCHANGED <<device, ended, unbeaten,
                                                      timer>>
                    ELSE /\ TakesForRun(p, r, token[c])
                         /\ IF call[c] = "claimed"
                              THEN At(c, "drive") /\ timer' = timer \cup {<<p, r>>}
                              ELSE At(c, "stage") /\ UNCHANGED timer
     /\ UNCHANGED <<server, setupVars, on, token, minted, runVars, select,
                    closing, spent>>

(* The device stage of a resume is over, which may have awaited a boot: the    *)
(* device is taken once more.                                                  *)
ResumeRetakes(c) ==
  LET p == server[c]
      r == on[c]
  IN /\ call[c] = "stage"
     /\ LoopFree(p)
     /\ UNCHANGED agentVars
     /\ IF CanTake(p, RunOwner(r))
          THEN /\ TakesForRun(p, r, token[c])
               /\ At(c, "drive")
               /\ exposed' = exposed \cup ({lease[r].holder} \ {token[c]})
          ELSE At(c, "none") /\ UNCHANGED <<exposed, device, ended, unbeaten>>
     /\ UNCHANGED <<server, setupVars, on, token, minted, status, lease,
                    select, spent>>

(* The stage answers with a pointer: the emulator is still starting. *)
ResumeStops(c) ==
  /\ call[c] = "stage"
  /\ LoopFree(server[c])
  /\ At(c, "none")
  /\ UNCHANGED <<server, setupVars, on, token, minted, runVars, lockVars,
                 agentVars, spent>>

StepEnds(c) ==
  /\ call[c] = "drive"
  /\ LoopFree(server[c])
  /\ status[on[c]] = "open"
  /\ At(c, "none")
  /\ UNCHANGED <<server, setupVars, on, token, minted, runVars, lockVars,
                 agentVars, spent>>

Stamps(r) == WritesLease(r, [lease[r] EXCEPT !.released = (lease[r].holder # NoToken)])

(* The run is at its report, by this step's verdict or before it: the submit   *)
(* frees the device and stamps the lease under its own token at once.          *)
StepReports(c) ==
  LET r == on[c] IN
  /\ call[c] = "drive"
  /\ LoopFree(server[c])
  /\ status' = [status EXCEPT ![r] = IF @ = "open" THEN "report" ELSE @]
  /\ \/ /\ Releases(server[c], RunOwner(r), token[c])
        /\ IF lease[r].holder = token[c] THEN Stamps(r) ELSE UNCHANGED <<lease,
                                                                         exposed>>
     \/ status[r] = "report" /\ UNCHANGED <<lease, exposed, device>>
  /\ At(c, "finish")
  /\ UNCHANGED <<server, setupVars, on, token, minted, select, ended, unbeaten,
                 agentVars, spent>>

(* After the restores, a chat that finished or lost its run gives back what it *)
(* holds under its own token, and stamps the lease, whoever holds that.  One   *)
(* that finished records the verdict.                                          *)
FinishEnds(c) ==
  LET r == on[c] IN
  /\ call[c] \in {"finish", "lost"}
  /\ LoopFree(server[c])
  /\ Releases(server[c], RunOwner(r), token[c])
  /\ Stamps(r)
  /\ IF call[c] = "finish"
       THEN /\ status' = [status EXCEPT ![r] = "ended"]
            /\ timer' = {t \in timer : t[2] # r}
       ELSE UNCHANGED <<status, timer>>
  /\ At(c, "none")
  /\ UNCHANGED <<server, setupVars, on, token, minted, select, ended, unbeaten,
                 writer, closing, spent>>

-----------------------------------------------------------------------------
(* The heartbeat writer of a run in a server: a thread of its own. *)

AtWriter(p, r, at) == writer' = [writer EXCEPT ![p][r].at = at]
WriterGone(p, r) == writer' = [writer EXCEPT ![p][r] = NoWriter]
Over(r) == status[r] \in {"report", "ended"}

(* A beat that finds the lease its own refreshes it, unless it is stamped. *)
Beat(p, r) ==
  /\ writer[p][r].at = "waiting"
  /\ lease[r].holder = writer[p][r].token
  /\ ~Over(r)
  /\ ~lease[r].released
  /\ lease' = [lease EXCEPT ![r].fresh = TRUE]
  /\ UNCHANGED <<server, setupVars, callVars, status, exposed, lockVars,
                 agentVars, spent>>

(* A run that is over gives its device back with the next beat. *)
BeatFinds(p, r) ==
  /\ writer[p][r].at = "waiting"
  /\ lease[r].holder = writer[p][r].token
  /\ Over(r)
  /\ Releases(p, RunOwner(r), writer[p][r].token)
  /\ Stamps(r)
  /\ WriterGone(p, r)
  /\ UNCHANGED <<server, setupVars, callVars, status, select, ended, unbeaten,
                 timer, closing, spent>>

BeatLoses(p, r) ==
  /\ writer[p][r].at = "waiting"
  /\ lease[r].holder # writer[p][r].token
  /\ AtWriter(p, r, "lost")
  /\ UNCHANGED <<server, setupVars, callVars, runVars, lockVars, timer,
                 closing, spent>>

(* A lease that cannot be read or written counts as lost. *)
BeatFails(p, r) ==
  /\ writer[p][r].at = "waiting"
  /\ Affordable
  /\ spent' = spent + 1
  /\ AtWriter(p, r, "lost")
  /\ exposed' = exposed \cup {writer[p][r].token}
  /\ UNCHANGED <<server, setupVars, callVars, status, lease, lockVars, timer,
                 closing>>

WriterLostInSilence(p, r) ==
  /\ writer[p][r].at = "lost"
  /\ WriterGone(p, r)
  /\ UNCHANGED <<server, setupVars, callVars, runVars, lockVars, timer, closing,
                 spent>>

WriterLost(p, r) ==
  /\ writer[p][r].at = "lost"
  /\ Releases(p, RunOwner(r), writer[p][r].token)
  /\ WriterGone(p, r)
  /\ UNCHANGED <<server, setupVars, callVars, runVars, select, ended, unbeaten,
                 timer, closing, spent>>

(* A lease goes stale when it is not refreshed in time, be it that nobody      *)
(* beats it, that it is stamped, or that its writer is late.                   *)
LeaseAges(r) ==
  /\ lease[r].fresh
  /\ status[r] # "ended"
  /\ lease' = [lease EXCEPT ![r].fresh = FALSE]
  /\ UNCHANGED <<server, setupVars, callVars, status, exposed, lockVars,
                 agentVars, spent>>

-----------------------------------------------------------------------------
(* A server dies: the kernel frees its locks, and its jobs, writers and *)
(* timers are gone.  The files stay, and a new process takes its place.        *)
Crash(p) ==
  /\ Affordable
  /\ spent' = spent + 1
  /\ setup' = [c \in Chats |-> IF server[c] = p /\ setup[c] # "new" THEN "done" ELSE setup[c]]
  /\ evict' = [c \in Chats |-> IF server[c] = p THEN None ELSE evict[c]]
  /\ orphaned' = {c \in orphaned : server[c] # p}
  /\ call' = [c \in Chats |-> IF server[c] = p THEN "none" ELSE call[c]]
  /\ select' = IF select # None /\ server[select] = p THEN None ELSE select
  /\ device' = IF device # None /\ device.by = p THEN None ELSE device
  /\ ended' = {c \in ended : server[c] # p}
  /\ writer' = [writer EXCEPT ![p] = [r \in Runs |-> NoWriter]]
  /\ timer' = {t \in timer : t[1] # p}
  /\ closing' = {t \in closing : t[1] # p}
  /\ UNCHANGED <<server, on, token, minted, runVars, unbeaten>>

SetupStep(c) ==
  \/ SetupOpens(c) \/ SetupClaimsDevice(c) \/ SetupEvicts(c) \/ SetupGivesUp(c)
  \/ SetupCleans(c) \/ SetupCleanupFails(c) \/ SetupHandsOff(c)
  \/ Abandon(c) \/ Adopt(c)
  \/ \E d \in Chats : Reclaim(c, d)

CallStep(c) ==
  \/ StepBegins(c) \/ ClaimWrites(c) \/ ClaimConfirms(c) \/ ResumeRetakes(c) \/ ResumeStops(c)
  \/ StepEnds(c) \/ StepReports(c) \/ FinishEnds(c)
  \/ \E r \in Runs : TakeOver(c, r)

CloseStep(p, r) ==
  StopRun(p, r) \/ IdleTimer(p, r) \/ Sweep(p, r) \/ CloseEnds(p, r)

WriterStep(p, r) ==
  \/ Beat(p, r) \/ BeatFinds(p, r) \/ BeatLoses(p, r) \/ BeatFails(p, r) \/ WriterLost(p, r)

Next ==
  \/ \E c \in Chats : SetupStep(c) \/ CallStep(c)
  \/ \E p \in Servers, r \in Runs : CloseStep(p, r) \/ WriterStep(p, r)
  \/ \E r \in Runs : LeaseAges(r)
  \/ \E p \in Servers : Crash(p)

Spec == Init /\ [][Next]_vars
-----------------------------------------------------------------------------

(* A device taken by a setup that is still running stays with it, whatever the *)
(* other calls and jobs of that process do, the healing of orphans included:   *)
(* it changes hands only as that setup itself moves on, or with its server.    *)
SetupKeepsHold ==
  [][\A c \in Chats :
       setup[c] \in SettingUp /\ HeldBy(server[c], Label(c)) /\ device' # device
         => setup'[c] # setup[c]]_vars

(* The select lock, which stops every other setup of the machine, is held only *)
(* while a setup is selecting or on its way out, but for one hole: a clean-up  *)
(* that raised keeps it, and no healing covers it.                             *)
SelectIsGivenBack ==
  select # None => setup[select] \in {"selecting", "cleaning"} \/ select \in ended

HoldsCurrent(r) ==
  /\ device # None
  /\ device.owner = RunOwner(r)
  /\ device.lease = lease[r].holder

(* An open run that holds the device under its current lease keeps it: a       *)
(* displaced chat, a late writer, a stop of another run or a setup cannot free *)
(* it, but for the death of its server and for a holder that is exposed.       *)
HolderKeepsDevice ==
  [][\A r \in Runs :
       HoldsCurrent(r) /\ status'[r] = "open" /\ device' # device
         => \/ HoldsCurrent(r)'
            \/ device.lease \in exposed'
            \/ Crash(device.by)]_vars

(* Two chats never both drive the device for runs that are still open, each    *)
(* without a take-over or a failed beat that it has yet to learn of.           *)
Rightful(c) == call[c] = "drive" /\ token[c] \notin exposed /\ status[on[c]] = "open"
OneDriver == \A c, d \in Chats : Rightful(c) /\ Rightful(d) => c = d

(* A device held for a run can be given back by a live writer: one that beats  *)
(* in the process that holds it, under the token the hold records.  A hold     *)
(* taken while an older token's writer was still there is the exception.       *)
HoldIsBeaten ==
  device # None /\ device.owner.kind = "run" =>
    LET p == device.by
        r == device.owner.of
    IN \/ writer[p][r].token = device.lease
       \/ device.lease = unbeaten
       \/ <<p, r>> \in closing
=============================================================================
