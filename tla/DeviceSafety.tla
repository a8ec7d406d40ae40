---------------------------- MODULE DeviceSafety ----------------------------
(* Proofs about DeviceRuns, for every set of chats and servers and every bound *)
(* on calls and faults: its safety invariants and action properties.           *)
EXTENDS DeviceTypes

\* A run exists from the hand-off of its setup on: until then nobody drives,
\* holds, beats or times it.
Planned == \A c \in Chats :
             setup[c] \in {"new", "selecting", "preparing"} => status[c] = "none"
Begun ==
  /\ \A c \in Chats : call[c] # "none" => status[on[c]] # "none" /\ token[c] # NoToken
  /\ \A t \in timer : status[t[2]] # "none"
  /\ device # None /\ device.owner.kind = "run" => status[device.owner.of] # "none"
  /\ \A p \in Servers, r \in Runs :
       /\ writer[p][r].at # "gone" => status[r] # "none"
       /\ writer[p][r].at = "gone" => writer[p][r] = NoWriter

\* A chat is in a call while it sets up only if its host gave the setup up; and
\* the token it presents is its own.
OneThing == \A c \in Chats :
              /\ call[c] # "none" /\ setup[c] \in SettingUp => c \in orphaned
              /\ token[c] # NoToken => token[c].of = c

ClosingEnded == \A t \in closing : status[t[2]] = "ended"

RunsInv == TypeInv /\ Planned /\ Begun /\ OneThing /\ ClosingEnded

LEMMA TokenFacts ==
  /\ None \notin Chats
  /\ \A c \in Chats : \A n : Token(c, n) # NoToken /\ Token(c, n).of = c
  /\ \A r, s : RunOwner(r) = RunOwner(s) => r = s
  /\ \A r : RunOwner(r).kind = "run" /\ RunOwner(r).of = r
  /\ \A r : Label(r).kind = "prerun" /\ Label(r).of = r
  /\ NoWriter.at = "gone" /\ NoWriter.token = NoToken
  /\ NoLease.holder = NoToken
BY DeviceRunsAssumption DEF DeviceRunsAssumption, Token, NoToken, RunOwner, Label,
    NoWriter, NoLease

LEMMA WriterSet ==
  ASSUME TypeOK, NEW p \in Servers, NEW r \in Runs, NEW w,
         writer' = [writer EXCEPT ![p][r] = w]
  PROVE  /\ writer'[p][r] = w
         /\ \A q \in Servers, s \in Runs :
              q # p \/ s # r => writer'[q][s] = writer[q][s]
BY DEF TypeOK

LEMMA WriterMoved ==
  ASSUME TypeOK, NEW p \in Servers, NEW r \in Runs, NEW at, AtWriter(p, r, at)
  PROVE  /\ writer'[p][r].token = writer[p][r].token
         /\ \A q \in Servers, s \in Runs :
              q # p \/ s # r => writer'[q][s] = writer[q][s]
<1>1. writer[p][r] \in [token : Tokens, at : WriterStages]
  BY DEF TypeOK
<1>2. writer' = [writer EXCEPT ![p][r] = [writer[p][r] EXCEPT !.at = at]]
  BY DEF AtWriter
<1>3. [writer[p][r] EXCEPT !.at = at].token = writer[p][r].token
  BY <1>1
<1> QED BY <1>2, <1>3, WriterSet

LEMMA RunsInit == Init => RunsInv
<1> SUFFICES ASSUME Init PROVE RunsInv
  OBVIOUS
<1>1. Planned /\ OneThing /\ ClosingEnded
  BY DEF Init, Planned, OneThing, ClosingEnded, Runs
<1>2. \A p \in Servers, r \in Runs : writer[p][r] = NoWriter
  BY DEF Init
<1>3. Begun
  BY <1>2, TokenFacts DEF Init, Begun
<1> QED BY <1>1, <1>3, TypeInit DEF RunsInv

\* The cases in which a run is ended: it has begun.
LEMMA RunsClosing ==
  ASSUME RunsInv, NEW p \in Servers, NEW r \in Runs, ClosingBegins(p, r),
         status[r] # "none",
         UNCHANGED <<setup, call, on, token, device>>,
         orphaned' = orphaned \/ \E d \in Chats : setup[d] = "done" /\ orphaned' = orphaned \ {d}
  PROVE  Planned' /\ Begun' /\ OneThing' /\ ClosingEnded'
<1> TypeOK
  BY DEF RunsInv, TypeInv
<1>1. /\ writer' = [writer EXCEPT ![p][r] = NoWriter]
      /\ status' = [status EXCEPT ![r] = "ended"]
      /\ timer' \subseteq timer
      /\ closing' = closing \cup {<<p, r>>}
  BY DEF ClosingBegins
<1>2. /\ \A s \in Runs : status[s] # "none" => status'[s] # "none"
      /\ \A s \in Runs : status[s] = "none" => status'[s] = "none"
      /\ \A s \in Runs : status[s] = "ended" => status'[s] = "ended"
      /\ status'[r] = "ended"
  BY <1>1 DEF TypeOK
<1>3. \A q \in Servers, s \in Runs : writer'[q][s] = writer[q][s] \/ writer'[q][s] = NoWriter
  BY <1>1 DEF TypeOK
<1>4. Planned'
  BY <1>2 DEF RunsInv, Planned, Runs
<1>5. OneThing'
  BY DEF RunsInv, OneThing, SettingUp
<1>6. ClosingEnded'
  BY <1>1, <1>2 DEF RunsInv, ClosingEnded, TypeOK
<1>7. Begun'
  <2>1. \A c \in Chats : call'[c] # "none" => status'[on'[c]] # "none" /\ token'[c] # NoToken
    BY <1>2 DEF RunsInv, Begun, TypeOK
  <2>2. \A t \in timer' : status'[t[2]] # "none"
    BY <1>1, <1>2 DEF RunsInv, Begun, TypeOK
  <2>3. device' # None /\ device'.owner.kind = "run" => status'[device'.owner.of] # "none"
    BY <1>2 DEF RunsInv, Begun, TypeOK, Holds, Owners, Runs
  <2>4. \A q \in Servers, s \in Runs :
          /\ writer'[q][s].at # "gone" => status'[s] # "none"
          /\ writer'[q][s].at = "gone" => writer'[q][s] = NoWriter
    BY <1>2, <1>3, TokenFacts DEF RunsInv, Begun
  <2> QED BY <2>1, <2>2, <2>3, <2>4 DEF Begun
<1> QED BY <1>4, <1>5, <1>6, <1>7

LEMMA RunsClose ==
  ASSUME RunsInv, NEW p \in Servers, NEW r \in Runs, CloseStep(p, r)
  PROVE  Planned' /\ Begun' /\ OneThing' /\ ClosingEnded'
<1> USE DEF setupVars, callVars, lockVars, runVars, agentVars
<1>1. CASE StopRun(p, r)
  BY <1>1, RunsClosing DEF StopRun, RunsInv, Begun
<1>2. CASE IdleTimer(p, r)
  <2>1. status[r] # "none"
    BY <1>2 DEF IdleTimer, RunsInv, Begun
  <2> QED BY <1>2, <2>1, RunsClosing DEF IdleTimer
<1>3. CASE Sweep(p, r)
  BY <1>3, RunsClosing DEF Sweep
<1>4. CASE CloseEnds(p, r)
  <2>1. device' = device \/ device' = None
    BY <1>4 DEF CloseEnds, ReleasesAny
  <2> QED BY <1>4, <2>1 DEF CloseEnds, RunsInv, Planned, Begun, OneThing, ClosingEnded
<1> QED BY <1>1, <1>2, <1>3, <1>4 DEF CloseStep

\* What most steps leave of these facts alone.
LEMMA RunsFrame ==
  ASSUME RunsInv, UNCHANGED <<setup, orphaned, on, token, status>>,
         \A c \in Chats : call'[c] = call[c] \/ call'[c] = "none"
                          \/ call[c] # "none"
                          \/ (/\ status[on[c]] # "none" /\ token[c] # NoToken
                              /\ (setup[c] \in SettingUp => c \in orphaned)),
         timer' = timer \/ \E t \in Servers \X Runs :
                             status[t[2]] # "none" /\ timer' = timer \cup {t},
         \/ device' = device \/ device' = None
         \/ device'.owner.kind = "prerun"
         \/ status[device'.owner.of] # "none",
         \A p \in Servers, r \in Runs :
           \/ writer'[p][r] = writer[p][r]
           \/ writer'[p][r] = NoWriter
           \/ writer'[p][r].at # "gone" /\ status[r] # "none",
         closing' \subseteq closing
  PROVE  Planned' /\ Begun' /\ OneThing' /\ ClosingEnded'
<1>1. Planned'
  BY DEF RunsInv, Planned
<1>2. ClosingEnded'
  BY DEF RunsInv, ClosingEnded
<1>3. OneThing'
  BY DEF RunsInv, OneThing
<1>4. Begun'
  <2>1. \A c \in Chats : call'[c] # "none" => status'[on'[c]] # "none" /\ token'[c] # NoToken
    BY DEF RunsInv, Begun
  <2>2. \A t \in timer' : status'[t[2]] # "none"
    BY DEF RunsInv, Begun
  <2>3. device' # None /\ device'.owner.kind = "run" => status'[device'.owner.of] # "none"
    BY DEF RunsInv, Begun
  <2>4. \A q \in Servers, s \in Runs :
          /\ writer'[q][s].at # "gone" => status'[s] # "none"
          /\ writer'[q][s].at = "gone" => writer'[q][s] = NoWriter
    BY TokenFacts DEF RunsInv, Begun
  <2> QED BY <2>1, <2>2, <2>3, <2>4 DEF Begun
<1> QED BY <1>1, <1>2, <1>3, <1>4

LEMMA RunsSetup ==
  ASSUME RunsInv, NEW c \in Chats, SetupStep(c)
  PROVE  Planned' /\ Begun' /\ OneThing' /\ ClosingEnded'
<1> TypeOK /\ Runs = Chats
  BY DEF RunsInv, TypeInv, Runs
<1> USE TokenFacts DEF setupVars, callVars, runVars, lockVars, agentVars
<1>1. CASE SetupOpens(c)
  BY <1>1 DEF SetupOpens, RunsInv, TypeOK, Planned, Begun, OneThing, ClosingEnded, SettingUp
<1>2. CASE \E d \in Chats : Reclaim(c, d)
  <2> PICK d \in Chats : Reclaim(c, d)
    BY <1>2
  <2>1. status[d] # "none"
    BY DEF Reclaim, HeldBy, RunsInv, Begun
  <2>2. /\ UNCHANGED <<setup, call, on, token, device>> /\ ClosingBegins(server[c], d)
        /\ setup[d] = "done" /\ orphaned' = orphaned \ {d} /\ server[c] \in Servers
    BY DEF Reclaim, TypeOK
  <2> QED BY <2>1, <2>2, RunsClosing DEF Runs
<1>3. CASE SetupClaimsDevice(c)
  <2>1. device' = device \/ device'.owner = Label(c)
    BY <1>3 DEF SetupClaimsDevice, Takes
  <2> QED BY <1>3, <2>1
        DEF SetupClaimsDevice, RunsInv, TypeOK, Planned, Begun, OneThing, ClosingEnded, SettingUp, SetupStages
<1>4. CASE SetupEvicts(c)
  <2>1. device # None /\ device.owner.of \in Runs /\ status[device.owner.of] # "none"
    BY <1>4 DEF SetupEvicts, RunsInv, Begun, CanTake, TypeOK, Holds, Owners
  <2>2. /\ UNCHANGED <<setup, orphaned, call, on, token, device>>
        /\ ClosingBegins(server[c], device.owner.of) /\ server[c] \in Servers
    BY <1>4 DEF SetupEvicts, TypeOK
  <2> QED BY <2>1, <2>2, RunsClosing
<1>5. CASE SetupGivesUp(c)
  BY <1>5 DEF SetupGivesUp, RunsInv, TypeOK, Planned, Begun, OneThing, ClosingEnded, SettingUp, SetupStages
<1>6. CASE SetupCleans(c)
  <2>1. device' = device \/ device' = None
    BY <1>6 DEF SetupCleans, ReleasesAny
  <2> QED BY <1>6, <2>1 DEF SetupCleans, RunsInv, TypeOK, Planned, Begun, OneThing, ClosingEnded, SettingUp
<1>7. CASE SetupCleanupFails(c)
  BY <1>7 DEF SetupCleanupFails, RunsInv, TypeOK, Planned, Begun, OneThing, ClosingEnded, SettingUp
<1>8. CASE SetupHandsOff(c)
  <2>1. /\ status' = [status EXCEPT ![c] = "open"] /\ UNCHANGED <<orphaned, call, timer, closing>>
        /\ setup[c] = "preparing"
    BY <1>8 DEF SetupHandsOff
  <2>2. status[c] = "none" /\ status'[c] = "open" /\ \A r \in Runs : r # c => status'[r] = status[r]
    BY <2>1 DEF RunsInv, Planned, TypeOK
  <2>3. \E s \in {"done", "cleaning"} : setup' = [setup EXCEPT ![c] = s]
    BY <1>8 DEF SetupHandsOff
  <2>4. \/ device' = device
        \/ device'.owner = RunOwner(c)
    BY <1>8 DEF SetupHandsOff
  <2>5. \/ writer' = writer
        \/ writer' = [writer EXCEPT ![server[c]][c] = [token |-> Token(c, 0), at |-> "waiting"]]
    BY <1>8 DEF SetupHandsOff, StartsWriter
  <2>6. \/ UNCHANGED <<on, token>>
        \/ c \notin orphaned /\ on' = [on EXCEPT ![c] = c] /\ token' = [token EXCEPT ![c] = Token(c, 0)]
    BY <1>8 DEF SetupHandsOff, Learns
  <2>7. Planned'
    BY <2>1, <2>2, <2>3 DEF RunsInv, Planned, TypeOK
  <2>8. ClosingEnded'
    BY <2>1, <2>2 DEF RunsInv, ClosingEnded, TypeOK
  <2>9. OneThing'
    <3>1. \A d \in Chats : call'[d] # "none" /\ setup'[d] \in SettingUp => d \in orphaned'
      BY <2>1, <2>3 DEF RunsInv, OneThing, TypeOK, SettingUp, SetupStages
    <3>2. \A d \in Chats : token'[d] # NoToken => token'[d].of = d
      BY <2>6 DEF RunsInv, OneThing, TypeOK
    <3> QED BY <3>1, <3>2 DEF OneThing
  <2>10. \A d \in Chats : call'[d] # "none" => status'[on'[d]] # "none" /\ token'[d] # NoToken
    <3>1. c \notin orphaned => call[c] = "none"
      BY <2>1 DEF RunsInv, OneThing, SettingUp, SetupStages
    <3>2. SUFFICES ASSUME NEW d \in Chats, call'[d] # "none"
                   PROVE  status'[on'[d]] # "none" /\ token'[d] # NoToken
      OBVIOUS
    <3>3. call[d] # "none" /\ status[on[d]] # "none" /\ token[d] # NoToken /\ on[d] \in Runs
      BY <2>1, <3>2 DEF RunsInv, Begun, TypeOK
    <3>4. on'[d] = on[d] /\ token'[d] = token[d]
      BY <2>6, <3>1, <3>3 DEF TypeOK
    <3> QED BY <2>2, <3>3, <3>4
  <2>11. \A t \in timer' : status'[t[2]] # "none"
    BY <2>1, <2>2 DEF RunsInv, Begun, TypeOK
  <2>12. device' # None /\ device'.owner.kind = "run" => status'[device'.owner.of] # "none"
    BY <2>2, <2>4 DEF RunsInv, Begun, TypeOK, Holds, Owners
  <2>13. \A q \in Servers, s \in Runs :
          /\ writer'[q][s].at # "gone" => status'[s] # "none"
          /\ writer'[q][s].at = "gone" => writer'[q][s] = NoWriter
    <3>1. \A q \in Servers, s \in Runs :
            \/ writer'[q][s] = writer[q][s]
            \/ s = c /\ writer'[q][s].at = "waiting"
      <4>1. CASE writer' = writer
        BY <4>1
      <4>2. CASE writer' = [writer EXCEPT ![server[c]][c] = [token |-> Token(c, 0), at |-> "waiting"]]
        <5>1. server[c] \in Servers
          BY DEF TypeOK
        <5> QED BY <4>2, <5>1, WriterSet
      <4> QED BY <2>5, <4>1, <4>2
    <3> QED BY <2>2, <3>1 DEF RunsInv, Begun
  <2> QED BY <2>7, <2>8, <2>9, <2>10, <2>11, <2>12, <2>13 DEF Begun
<1>9. CASE Abandon(c)
  BY <1>9 DEF Abandon, RunsInv, TypeOK, Planned, Begun, OneThing, ClosingEnded
<1>10. CASE Adopt(c)
  <2>1. \/ UNCHANGED <<on, token>>
        \/ on' = [on EXCEPT ![c] = c] /\ token' = [token EXCEPT ![c] = Token(c, 0)]
    BY <1>10 DEF Adopt, Learns
  <2>2. setup[c] = "done" /\ call[c] = "none" /\ orphaned' = orphaned \ {c}
        /\ UNCHANGED <<setup, call, status, timer, device, writer, closing>>
    BY <1>10 DEF Adopt
  <2>3. Planned' /\ ClosingEnded'
    BY <2>2 DEF RunsInv, Planned, ClosingEnded
  <2>4. OneThing'
    BY <2>1, <2>2 DEF RunsInv, OneThing, TypeOK, SettingUp
  <2>5. \A d \in Chats : call'[d] # "none" => status'[on'[d]] # "none" /\ token'[d] # NoToken
    BY <2>1, <2>2 DEF RunsInv, Begun, TypeOK
  <2> QED BY <2>2, <2>3, <2>4, <2>5 DEF RunsInv, Begun
<1> QED BY <1>1, <1>2, <1>3, <1>4, <1>5, <1>6, <1>7, <1>8, <1>9, <1>10 DEF SetupStep

\* A run's status, once it has begun, moves on and never back.
LEMMA RunsMoves ==
  ASSUME RunsInv, NEW c \in Chats, call[c] # "none", At(c, "finish") \/ At(c, "none"),
         \/ status' = status
         \/ status' = [status EXCEPT ![on[c]] = "ended"]
         \/ status' = [status EXCEPT ![on[c]] = IF @ = "open" THEN "report" ELSE @],
         device' = device \/ device' = None, timer' \subseteq timer,
         UNCHANGED <<setup, orphaned, on, token, writer, closing>>
  PROVE  Planned' /\ Begun' /\ OneThing' /\ ClosingEnded'
<1> TypeOK /\ Runs = Chats
  BY DEF RunsInv, TypeInv, Runs
<1>1. status[on[c]] # "none"
  BY DEF RunsInv, Begun
<1>2. \A r \in Runs :
        /\ status[r] # "none" <=> status'[r] # "none"
        /\ status[r] = "ended" => status'[r] = "ended"
  BY <1>1 DEF TypeOK
<1>3. \A d \in Chats : call'[d] = call[d] \/ call[d] # "none"
  BY DEF At, TypeOK
<1>4. Planned' /\ OneThing'
  BY <1>2, <1>3 DEF RunsInv, Planned, OneThing, Runs, SettingUp
<1>5. ClosingEnded'
  BY <1>2 DEF RunsInv, ClosingEnded, TypeOK
<1>6. \A d \in Chats : call'[d] # "none" => status'[on'[d]] # "none" /\ token'[d] # NoToken
  <2>1. SUFFICES ASSUME NEW d \in Chats, call'[d] # "none"
                 PROVE  status'[on'[d]] # "none" /\ token'[d] # NoToken
    OBVIOUS
  <2>2. call[d] # "none" /\ on[d] \in Runs
    BY <1>3, <2>1 DEF TypeOK
  <2> QED BY <1>2, <2>2 DEF RunsInv, Begun
<1>7. \A t \in timer' : status'[t[2]] # "none"
  BY <1>2 DEF RunsInv, Begun, TypeOK
<1>8. device' # None /\ device'.owner.kind = "run" => status'[device'.owner.of] # "none"
  BY <1>2 DEF RunsInv, Begun, TypeOK, Holds, Owners
<1>9. \A q \in Servers, s \in Runs :
        /\ writer'[q][s].at # "gone" => status'[s] # "none"
        /\ writer'[q][s].at = "gone" => writer'[q][s] = NoWriter
  <2>1. writer' = writer
    OBVIOUS
  <2> QED BY <1>2, <2>1 DEF RunsInv, Begun
<1> QED BY <1>4, <1>5, <1>6, <1>7, <1>8, <1>9 DEF Begun

LEMMA RunsCall ==
  ASSUME RunsInv, NEW c \in Chats, CallStep(c)
  PROVE  Planned' /\ Begun' /\ OneThing' /\ ClosingEnded'
<1> TypeOK /\ Runs = Chats
  BY DEF RunsInv, TypeInv, Runs
<1> USE TokenFacts DEF setupVars, callVars, runVars, lockVars, agentVars
<1>1. CASE StepBegins(c)
  <2>1. \A d \in Chats : d = c \/ call'[d] = call[d]
    BY <1>1 DEF StepBegins, At, TypeOK
  <2>2. status[on[c]] # "none" /\ token[c] # NoToken /\ (setup[c] \in SettingUp => c \in orphaned)
    BY <1>1 DEF StepBegins, Claimable, Free
  <2> QED BY <1>1, <2>1, <2>2, RunsFrame DEF StepBegins
<1>2. CASE ClaimWrites(c)
  <2>1. \A d \in Chats : call'[d] = call[d] \/ call[d] # "none"
    BY <1>2 DEF ClaimWrites, At, TypeOK
  <2> QED BY <1>2, <2>1, RunsFrame DEF ClaimWrites
<1>3. CASE \E r \in Runs : TakeOver(c, r)
  <2> PICK r \in Runs : TakeOver(c, r)
    BY <1>3
  <2>1. /\ on' = [on EXCEPT ![c] = r] /\ token' = [token EXCEPT ![c] = Token(c, minted[c] + 1)]
        /\ call' = [call EXCEPT ![c] = "takenover"] /\ status[r] # "none"
        /\ (setup[c] \in SettingUp => c \in orphaned)
        /\ UNCHANGED <<setup, orphaned, status, device, writer, timer, closing>>
    BY DEF TakeOver, At, Claimable, Free
  <2>2. Planned' /\ ClosingEnded'
    BY <2>1 DEF RunsInv, Planned, ClosingEnded
  <2>3. OneThing'
    BY <2>1 DEF RunsInv, OneThing, TypeOK
  <2>4. \A d \in Chats : call'[d] # "none" => status'[on'[d]] # "none" /\ token'[d] # NoToken
    BY <2>1 DEF RunsInv, Begun, TypeOK
  <2> QED BY <2>1, <2>2, <2>3, <2>4 DEF RunsInv, Begun
<1>4. CASE ClaimConfirms(c)
  <2>0. call[c] # "none" /\ status[on[c]] # "none" /\ on[c] \in Runs /\ server[c] \in Servers
    BY <1>4 DEF ClaimConfirms, RunsInv, Begun, TypeOK
  <2>1. \A d \in Chats : call'[d] = call[d] \/ call[d] # "none"
    BY <1>4, <2>0 DEF ClaimConfirms, At, TypeOK
  <2>2. timer' = timer \/ timer' = timer \cup {<<server[c], on[c]>>}
    BY <1>4 DEF ClaimConfirms
  <2>3. device' = device \/ device'.owner = RunOwner(on[c])
    BY <1>4 DEF ClaimConfirms, TakesForRun, Takes
  <2>4. \A p \in Servers, r \in Runs :
           \/ writer'[p][r] = writer[p][r]
           \/ writer'[p][r].at # "gone" /\ status[r] # "none"
    <3>1. \/ writer' = writer
          \/ writer' = [writer EXCEPT ![server[c]][on[c]] = [token |-> token[c], at |-> "waiting"]]
      BY <1>4 DEF ClaimConfirms, StartsWriter
    <3>2. CASE writer' = writer
      BY <3>2
    <3>3. CASE writer' = [writer EXCEPT ![server[c]][on[c]] = [token |-> token[c], at |-> "waiting"]]
      BY <2>0, <3>3, WriterSet
    <3> QED BY <3>1, <3>2, <3>3
  <2>5. UNCHANGED <<setup, orphaned, on, token, status, closing>>
    BY <1>4 DEF ClaimConfirms
  <2>6. <<server[c], on[c]>> \in Servers \X Runs /\ status[<<server[c], on[c]>>[2]] # "none"
    BY <2>0
  <2>7. device' = device \/ device' = None \/ status[device'.owner.of] # "none"
    BY <2>0, <2>3
  <2> QED BY <2>0, <2>1, <2>2, <2>4, <2>5, <2>6, <2>7, RunsFrame
<1>5. CASE ResumeRetakes(c)
  <2>0. call[c] # "none" /\ status[on[c]] # "none"
    BY <1>5 DEF ResumeRetakes, RunsInv, Begun
  <2>1. \A d \in Chats : call'[d] = call[d] \/ call[d] # "none"
    BY <1>5, <2>0 DEF ResumeRetakes, At, TypeOK
  <2>2. device' = device \/ device'.owner = RunOwner(on[c])
    BY <1>5 DEF ResumeRetakes, TakesForRun, Takes
  <2> QED BY <1>5, <2>0, <2>1, <2>2, RunsFrame DEF ResumeRetakes
<1>6. CASE ResumeStops(c)
  BY <1>6, RunsMoves DEF ResumeStops
<1>7. CASE StepEnds(c)
  BY <1>7, RunsMoves DEF StepEnds
<1>8. CASE StepReports(c)
  <2>1. device' = device \/ device' = None
    BY <1>8 DEF StepReports, Releases
  <2> QED BY <1>8, <2>1, RunsMoves DEF StepReports
<1>9. CASE FinishEnds(c)
  <2>1. device' = device \/ device' = None
    BY <1>9 DEF FinishEnds, Releases
  <2>2. timer' \subseteq timer
    BY <1>9 DEF FinishEnds
  <2>3. status' = status \/ status' = [status EXCEPT ![on[c]] = "ended"]
    BY <1>9 DEF FinishEnds
  <2> QED BY <1>9, <2>1, <2>2, <2>3, RunsMoves DEF FinishEnds
<1> QED BY <1>1, <1>2, <1>3, <1>4, <1>5, <1>6, <1>7, <1>8, <1>9 DEF CallStep

LEMMA RunsWriter ==
  ASSUME RunsInv, NEW p \in Servers, NEW r \in Runs, WriterStep(p, r)
  PROVE  Planned' /\ Begun' /\ OneThing' /\ ClosingEnded'
<1> TypeOK
  BY DEF RunsInv, TypeInv
<1> USE DEF setupVars, callVars, runVars, lockVars, agentVars
<1>1. device' = device \/ device' = None
  BY DEF WriterStep, Beat, BeatFinds, BeatLoses, BeatFails, WriterLost, Releases
<1>2. \/ writer' = writer
      \/ WriterGone(p, r)
      \/ AtWriter(p, r, "lost") /\ writer[p][r].at = "waiting"
  BY DEF WriterStep, Beat, BeatFinds, BeatLoses, BeatFails, WriterLost
<1>3. UNCHANGED <<setup, orphaned, on, token, status, call, timer, closing>>
  BY DEF WriterStep, Beat, BeatFinds, BeatLoses, BeatFails, WriterLost
<1>4. \A q \in Servers, s \in Runs :
           \/ writer'[q][s] = writer[q][s]
           \/ writer'[q][s] = NoWriter
           \/ writer'[q][s].at # "gone" /\ status[s] # "none"
  <2>1. CASE writer' = writer
    BY <2>1
  <2>2. CASE WriterGone(p, r)
    BY <2>2 DEF WriterGone, TypeOK
  <2>3. CASE AtWriter(p, r, "lost") /\ writer[p][r].at = "waiting"
    <3>1. status[r] # "none"
      BY <2>3 DEF RunsInv, Begun
    <3>2. writer'[p][r].at = "lost"
      BY <2>3 DEF AtWriter, TypeOK
    <3>3. \A q \in Servers, s \in Runs : <<q, s>> # <<p, r>> => writer'[q][s] = writer[q][s]
      BY <2>3 DEF AtWriter, TypeOK
    <3> QED BY <3>1, <3>2, <3>3
  <2> QED BY <1>2, <2>1, <2>2, <2>3
<1> QED BY <1>1, <1>3, <1>4, RunsFrame

LEMMA RunsCrash ==
  ASSUME RunsInv, NEW p \in Servers, Crash(p)
  PROVE  Planned' /\ Begun' /\ OneThing' /\ ClosingEnded'
<1> TypeOK
  BY DEF RunsInv, TypeInv
<1>1. UNCHANGED <<server, on, token, status>> /\ timer' \subseteq timer /\ closing' \subseteq closing
      /\ (device' = device \/ device' = None)
  BY DEF Crash, callVars, runVars
<1>2. \A c \in Chats :
        /\ setup'[c] = setup[c] \/ (setup[c] # "new" /\ setup'[c] = "done")
        /\ call'[c] = call[c] \/ call'[c] = "none"
        /\ server[c] # p => setup'[c] = setup[c]
        /\ server[c] = p => call'[c] = "none"
        /\ server[c] # p /\ c \in orphaned => c \in orphaned'
  BY DEF Crash, TypeOK
<1>3. \A q \in Servers, s \in Runs : writer'[q][s] = writer[q][s] \/ writer'[q][s] = NoWriter
  BY DEF Crash, TypeOK
<1>4. Planned' /\ ClosingEnded'
  BY <1>1, <1>2 DEF RunsInv, Planned, ClosingEnded
<1>5. OneThing'
  BY <1>1, <1>2 DEF RunsInv, OneThing, SettingUp
<1>6. Begun'
  BY <1>1, <1>2, <1>3, TokenFacts DEF RunsInv, Begun
<1> QED BY <1>4, <1>5, <1>6

LEMMA RunsStep == RunsInv /\ [Next]_vars => RunsInv'
<1> SUFFICES ASSUME RunsInv, [Next]_vars PROVE RunsInv'
  OBVIOUS
<1>0. TypeInv'
  BY TypeStep DEF RunsInv
<1>1. ASSUME NEW r \in Runs, LeaseAges(r) PROVE Planned' /\ Begun' /\ OneThing' /\ ClosingEnded'
  BY <1>1 DEF LeaseAges, RunsInv, Planned, Begun, OneThing, ClosingEnded,
       setupVars, callVars, lockVars, agentVars
<1>2. CASE UNCHANGED vars
  BY <1>2, <1>0 DEF RunsInv, Planned, Begun, OneThing, ClosingEnded,
       vars, setupVars, callVars, runVars, lockVars, agentVars
<1> QED BY <1>0, <1>1, <1>2, RunsSetup, RunsCall, RunsClose, RunsWriter, RunsCrash DEF Next, RunsInv
-----------------------------------------------------------------------------
\* A label is remembered only once its setup is over, and a device under a label
\* was taken by a setup that let the select lock go.
EndedDone == \A c \in ended : setup[c] = "done"
LabelHeld ==
  device # None /\ device.owner.kind = "prerun" =>
    /\ select # device.owner.of
    /\ setup[device.owner.of] \in {"preparing", "cleaning", "done"}

SetupInv == RunsInv /\ EndedDone /\ LabelHeld /\ SelectIsGivenBack

LEMMA SetupInit == Init => SetupInv
BY RunsInit DEF Init, SetupInv, EndedDone, LabelHeld, SelectIsGivenBack

\* What taking a device does to the labels that are remembered.
LEMMA TakesEnded ==
  ASSUME NEW p, NEW o, NEW t, Takes(p, o, t)
  PROVE  \/ ended' = ended
         \/ /\ device # None /\ device.owner.kind = "prerun"
            /\ ended' = ended \ {device.owner.of}
BY DEF Takes, Orphan

LEMMA SetupFrame ==
  ASSUME SetupInv, UNCHANGED <<setup, select>>,
         device' = device \/ device' = None \/ device'.owner.kind = "run",
         \/ ended' = ended
         \/ /\ device # None /\ device.owner.kind = "prerun"
            /\ ended' = ended \ {device.owner.of}
  PROVE  EndedDone' /\ LabelHeld' /\ SelectIsGivenBack'
<1>1. EndedDone'
  BY DEF SetupInv, EndedDone
<1>2. LabelHeld'
  BY DEF SetupInv, LabelHeld
<1>3. SelectIsGivenBack'
  BY DEF SetupInv, LabelHeld, SelectIsGivenBack
<1> QED BY <1>1, <1>2, <1>3

LEMMA SetupOfCall ==
  ASSUME SetupInv, NEW c \in Chats, CallStep(c)
  PROVE  EndedDone' /\ LabelHeld' /\ SelectIsGivenBack'
<1> USE DEF setupVars, callVars, runVars, lockVars, agentVars
<1>1. UNCHANGED <<setup, select>>
  BY DEF CallStep, StepBegins, ClaimWrites, TakeOver, ClaimConfirms, ResumeRetakes,
      ResumeStops, StepEnds, StepReports, FinishEnds
<1>2. \/ UNCHANGED <<device, ended>>
      \/ \E p \in Servers, r \in Runs, t \in Tokens : Takes(p, RunOwner(r), t)
      \/ device' = None /\ ended' = ended
  <2> TypeOK
    BY DEF SetupInv, RunsInv, TypeInv
  <2>0. server[c] \in Servers /\ on[c] \in Runs /\ token[c] \in Tokens
    BY DEF TypeOK
  <2>1. CASE ClaimConfirms(c)
    BY <2>0, <2>1 DEF ClaimConfirms, TakesForRun
  <2>2. CASE ResumeRetakes(c)
    BY <2>0, <2>2 DEF ResumeRetakes, TakesForRun
  <2>3. CASE StepReports(c) \/ FinishEnds(c)
    BY <2>3 DEF StepReports, FinishEnds, Releases
  <2>4. CASE StepBegins(c) \/ ClaimWrites(c) \/ ResumeStops(c) \/ StepEnds(c)
             \/ \E r \in Runs : TakeOver(c, r)
    BY <2>4 DEF StepBegins, ClaimWrites, TakeOver, ResumeStops, StepEnds
  <2> QED BY <2>1, <2>2, <2>3, <2>4 DEF CallStep
<1>3. CASE \E p \in Servers, r \in Runs, t \in Tokens : Takes(p, RunOwner(r), t)
  <2> PICK p \in Servers, r \in Runs, t \in Tokens : Takes(p, RunOwner(r), t)
    BY <1>3
  <2>1. device' = device \/ device'.owner.kind = "run"
    BY TokenFacts DEF Takes
  <2> QED BY <1>1, <2>1, TakesEnded, SetupFrame
<1> QED BY <1>1, <1>2, <1>3, SetupFrame

LEMMA SetupOfOthers ==
  ASSUME SetupInv, NEW p \in Servers, NEW r \in Runs,
         CloseStep(p, r) \/ WriterStep(p, r) \/ LeaseAges(r)
  PROVE  EndedDone' /\ LabelHeld' /\ SelectIsGivenBack'
<1> USE DEF setupVars, callVars, runVars, lockVars, agentVars
<1>1. UNCHANGED <<setup, select, ended>>
  BY DEF CloseStep, StopRun, IdleTimer, Sweep, CloseEnds, WriterStep, Beat, BeatFinds,
      BeatLoses, BeatFails, WriterLost, LeaseAges
<1>2. device' = device \/ device' = None
  BY DEF CloseStep, StopRun, IdleTimer, Sweep, CloseEnds, WriterStep, Beat, BeatFinds,
      BeatLoses, BeatFails, WriterLost, LeaseAges, Releases, ReleasesAny
<1> QED BY <1>1, <1>2, SetupFrame

LEMMA SetupOfSetup ==
  ASSUME SetupInv, NEW c \in Chats, SetupStep(c)
  PROVE  EndedDone' /\ LabelHeld' /\ SelectIsGivenBack'
<1> TypeOK
  BY DEF SetupInv, RunsInv, TypeInv
<1> USE TokenFacts DEF setupVars, callVars, runVars, lockVars, agentVars
<1>1. CASE SetupOpens(c)
  BY <1>1 DEF SetupOpens, SetupInv, TypeOK, EndedDone, LabelHeld, SelectIsGivenBack
<1>2. CASE \E d \in Chats : Reclaim(c, d)
  BY <1>2, SetupFrame DEF Reclaim
<1>3. CASE SetupClaimsDevice(c)
  <2>1. /\ setup[c] = "selecting" /\ setup' = [setup EXCEPT ![c] = "preparing"]
        /\ select' = IF select = c THEN None ELSE select
        /\ device' = device \/ device'.owner = Label(c)
    BY <1>3 DEF SetupClaimsDevice, Takes
  <2>2. \/ ended' = ended
        \/ /\ device # None /\ device.owner.kind = "prerun"
           /\ ended' = ended \ {device.owner.of}
    BY <1>3, TakesEnded DEF SetupClaimsDevice
  <2>3. EndedDone'
    BY <2>1, <2>2 DEF SetupInv, EndedDone, TypeOK
  <2>4. LabelHeld'
    BY <2>1 DEF SetupInv, LabelHeld, TypeOK, Holds, Owners
  <2>5. SelectIsGivenBack'
    BY <2>1, <2>2 DEF SetupInv, LabelHeld, SelectIsGivenBack, TypeOK
  <2> QED BY <2>3, <2>4, <2>5
<1>4. CASE SetupEvicts(c)
  BY <1>4, SetupFrame DEF SetupEvicts
<1>5. CASE SetupGivesUp(c)
  BY <1>5 DEF SetupGivesUp, SetupInv, TypeOK, Holds, Owners, EndedDone, LabelHeld, SelectIsGivenBack
<1>6. CASE SetupCleans(c)
  <2>1. /\ setup[c] = "cleaning" /\ setup' = [setup EXCEPT ![c] = "done"] /\ ended' = ended
        /\ select' = IF select = c THEN None ELSE select
        /\ device' = device \/ device' = None
    BY <1>6 DEF SetupCleans, ReleasesAny
  <2> QED BY <2>1 DEF SetupInv, TypeOK, Holds, Owners, EndedDone, LabelHeld, SelectIsGivenBack
<1>7. CASE SetupCleanupFails(c)
  BY <1>7 DEF SetupCleanupFails, SetupInv, TypeOK, Holds, Owners, EndedDone, LabelHeld, SelectIsGivenBack
<1>8. CASE SetupHandsOff(c)
  <2>1. /\ setup[c] = "preparing" /\ UNCHANGED <<select, ended>>
        /\ \E s \in {"done", "cleaning"} : setup' = [setup EXCEPT ![c] = s]
        /\ device' = device \/ device'.owner = RunOwner(c)
    BY <1>8 DEF SetupHandsOff
  <2>2. select # c /\ c \notin ended
    BY <2>1 DEF SetupInv, EndedDone, SelectIsGivenBack
  <2>3. EndedDone' /\ SelectIsGivenBack'
    BY <2>1, <2>2 DEF SetupInv, EndedDone, SelectIsGivenBack, TypeOK
  <2>4. LabelHeld'
    BY <2>1 DEF SetupInv, LabelHeld, TypeOK, Holds, Owners
  <2> QED BY <2>3, <2>4
<1>9. CASE Abandon(c)
  BY <1>9, SetupFrame DEF Abandon
<1>10. CASE Adopt(c)
  BY <1>10, SetupFrame DEF Adopt
<1> QED BY <1>1, <1>2, <1>3, <1>4, <1>5, <1>6, <1>7, <1>8, <1>9, <1>10 DEF SetupStep

LEMMA SetupOfCrash ==
  ASSUME SetupInv, NEW p \in Servers, Crash(p)
  PROVE  EndedDone' /\ LabelHeld' /\ SelectIsGivenBack'
<1> TypeOK
  BY DEF SetupInv, RunsInv, TypeInv
<1>1. \A c \in Chats :
        /\ setup'[c] = setup[c] \/ (server[c] = p /\ setup[c] # "new" /\ setup'[c] = "done")
        /\ server[c] # p /\ c \in ended => c \in ended'
  BY DEF Crash, TypeOK
<1>2. ended' \subseteq ended /\ (device' = device \/ device' = None)
  BY DEF Crash
<1>3. select' = None \/ (select' = select /\ server[select] # p)
  BY DEF Crash
<1>4. EndedDone'
  BY <1>1, <1>2 DEF SetupInv, EndedDone, TypeOK
<1>5. LabelHeld'
  BY <1>1, <1>2, <1>3, TokenFacts DEF SetupInv, LabelHeld, TypeOK, Holds, Owners
<1>6. SelectIsGivenBack'
  BY <1>1, <1>2, <1>3 DEF SetupInv, SelectIsGivenBack, TypeOK
<1> QED BY <1>4, <1>5, <1>6

LEMMA SetupStepInv == SetupInv /\ [Next]_vars => SetupInv'
<1> SUFFICES ASSUME SetupInv, [Next]_vars PROVE SetupInv'
  OBVIOUS
<1>0. RunsInv'
  BY RunsStep DEF SetupInv
<1>1. ASSUME UNCHANGED vars PROVE EndedDone' /\ LabelHeld' /\ SelectIsGivenBack'
  <2>1. UNCHANGED <<setup, select, device, ended>>
    BY <1>1 DEF vars, setupVars, lockVars
  <2> QED BY <2>1, SetupFrame
<1>2. ASSUME NEW r \in Runs, LeaseAges(r) PROVE EndedDone' /\ LabelHeld' /\ SelectIsGivenBack'
  BY <1>2, SetupFrame DEF LeaseAges, setupVars, lockVars
<1>3. EndedDone' /\ LabelHeld' /\ SelectIsGivenBack'
  <2>1. ASSUME NEW p \in Servers, NEW r \in Runs, CloseStep(p, r) \/ WriterStep(p, r)
        PROVE  EndedDone' /\ LabelHeld' /\ SelectIsGivenBack'
    BY <2>1, SetupOfOthers
  <2> QED BY <1>1, <1>2, <2>1, SetupOfCall, SetupOfSetup, SetupOfCrash DEF Next
<1> QED BY <1>0, <1>3 DEF SetupInv

(* Select is held only by a setup at work, or by one whose clean-up raised.    *)
THEOREM SelectGivenBack == Spec => []SelectIsGivenBack
<1>1. SetupInv => SelectIsGivenBack
  BY DEF SetupInv
<1> QED BY <1>1, SetupInit, SetupStepInv, PTL DEF Spec

LEMMA HoldOfSetup ==
  ASSUME SetupInv, [Next]_vars, NEW c \in Chats, setup[c] \in SettingUp,
         HeldBy(server[c], Label(c)), device' # device
  PROVE  setup'[c] # setup[c]
<1> TypeOK
  BY DEF SetupInv, RunsInv, TypeInv
<1> USE TokenFacts DEF setupVars, callVars, runVars, lockVars, agentVars
<1>1. setup[c] \notin {"new", "done"} /\ c \notin ended /\ device # None /\ device.owner = Label(c)
  BY DEF SettingUp, SetupInv, EndedDone, HeldBy
<1>2. Label(c).kind # "run" /\ \A r : RunOwner(r) # Label(c)
  OBVIOUS
<1>3. \A p, r : ~HeldBy(p, RunOwner(r)) /\ ~CanTake(p, RunOwner(r))
  BY <1>1, <1>2 DEF HeldBy, CanTake, Orphan
<1>4. ASSUME NEW d \in Chats, CallStep(d) PROVE FALSE
  <2>1. \A r, t : ~(Releases(server[d], RunOwner(r), t) /\ device' # device)
    BY <1>3 DEF Releases
  <2>2. CASE ClaimConfirms(d) \/ ResumeRetakes(d)
    BY <2>2, <1>3 DEF ClaimConfirms, ResumeRetakes
  <2>3. CASE StepReports(d) \/ FinishEnds(d)
    BY <2>1, <2>3 DEF StepReports, FinishEnds
  <2>4. CASE StepBegins(d) \/ ClaimWrites(d) \/ ResumeStops(d) \/ StepEnds(d)
             \/ \E r \in Runs : TakeOver(d, r)
    BY <2>4 DEF StepBegins, ClaimWrites, TakeOver, ResumeStops, StepEnds
  <2> QED BY <1>4, <2>2, <2>3, <2>4 DEF CallStep
<1>5. ASSUME NEW p \in Servers, NEW r \in Runs, CloseStep(p, r) \/ WriterStep(p, r) PROVE FALSE
  <2>1. \A t : Releases(p, RunOwner(r), t) \/ ReleasesAny(p, RunOwner(r)) => device' = device
    BY <1>3 DEF Releases, ReleasesAny
  <2> QED BY <1>5, <2>1 DEF CloseStep, StopRun, IdleTimer, Sweep, CloseEnds, WriterStep, Beat,
        BeatFinds, BeatLoses, BeatFails, WriterLost
<1>6. ASSUME NEW d \in Chats, SetupStep(d) PROVE setup'[c] # setup[c]
  <2>1. CASE SetupClaimsDevice(d)
    <3>1. CanTake(server[d], Label(d)) /\ setup' = [setup EXCEPT ![d] = "preparing"]
          /\ setup[d] = "selecting"
      BY <2>1 DEF SetupClaimsDevice
    <3>2. Label(d) = Label(c)
      BY <3>1, <1>1 DEF CanTake, HeldBy, Orphan
    <3> QED BY <3>1, <3>2 DEF TypeOK, Label
  <2>2. CASE SetupCleans(d)
    <3>1. HeldBy(server[d], Label(d)) /\ setup' = [setup EXCEPT ![d] = "done"]
      BY <2>2 DEF SetupCleans, ReleasesAny
    <3> QED BY <3>1, <1>1 DEF TypeOK, HeldBy, Label
  <2>3. CASE SetupHandsOff(d)
    <3>1. HeldBy(server[d], Label(d)) /\ setup[d] = "preparing"
          /\ \E s \in {"done", "cleaning"} : setup' = [setup EXCEPT ![d] = s]
      BY <2>3 DEF SetupHandsOff
    <3> QED BY <3>1, <1>1 DEF TypeOK, HeldBy, Label
  <2>4. CASE SetupOpens(d) \/ SetupEvicts(d) \/ SetupGivesUp(d) \/ SetupCleanupFails(d)
             \/ Abandon(d) \/ Adopt(d) \/ \E e \in Chats : Reclaim(d, e)
    BY <2>4 DEF SetupOpens, SetupEvicts, SetupGivesUp, SetupCleanupFails, Abandon, Adopt, Reclaim
  <2> QED BY <1>6, <2>1, <2>2, <2>3, <2>4 DEF SetupStep
<1>7. ASSUME NEW p \in Servers, Crash(p) PROVE setup'[c] # setup[c]
  <2>1. device.by = p /\ device.by = server[c]
    BY <1>7 DEF Crash, HeldBy
  <2> QED BY <1>1, <1>7, <2>1 DEF Crash, TypeOK
<1>8. ASSUME NEW r \in Runs, LeaseAges(r) PROVE FALSE
  BY <1>8 DEF LeaseAges
<1>9. CASE UNCHANGED vars
  BY <1>9 DEF vars
<1> QED BY <1>4, <1>5, <1>6, <1>7, <1>8, <1>9 DEF Next

(* A running setup keeps the device it took: only that setup, or the death of  *)
(* its server, ends the hold.                                                  *)
THEOREM SetupHoldKept == Spec => SetupKeepsHold
<1>1. SetupInv /\ [Next]_vars =>
        [\A c \in Chats :
           setup[c] \in SettingUp /\ HeldBy(server[c], Label(c)) /\ device' # device
             => setup'[c] # setup[c]]_vars
  BY HoldOfSetup
<1> QED BY <1>1, SetupInit, SetupStepInv, PTL DEF Spec, SetupKeepsHold
-----------------------------------------------------------------------------
\* A writer beats under the run's lease, or its chat was displaced; one that is
\* on its way out was.
WriterBacked ==
  \A p \in Servers, r \in Runs :
    writer[p][r].at # "gone" =>
      /\ writer[p][r].token # NoToken
      /\ writer[p][r].token \in exposed
         \/ (writer[p][r].at = "waiting" /\ writer[p][r].token = lease[r].holder)

\* A chat that drives, or is about to, holds the lease and the device under its
\* token, unless it was displaced or the run is over.
Backed(c) ==
  /\ lease[on[c]].holder = token[c]
  /\ HeldBy(server[c], RunOwner(on[c]))
  /\ device.lease = token[c]
DriverBacked ==
  \A c \in Chats :
    /\ call[c] \in {"stage", "drive"}
    /\ token[c] \notin exposed
    /\ status[on[c]] = "open"
    => Backed(c)

\* A chat that was told it lost its run does not hold the lease.
LostBacked == \A c \in Chats : call[c] = "lost" => lease[on[c]].holder # token[c]

LeaseInv == SetupInv /\ WriterBacked /\ DriverBacked /\ LostBacked

LEMMA LeaseInit == Init => LeaseInv
<1> SUFFICES ASSUME Init PROVE LeaseInv
  OBVIOUS
<1>1. \A p \in Servers, r \in Runs : writer[p][r] = NoWriter
  BY DEF Init
<1>2. DriverBacked /\ LostBacked
  BY DEF Init, DriverBacked, LostBacked
<1> QED BY <1>1, <1>2, SetupInit, TokenFacts DEF LeaseInv, WriterBacked

LEMMA WritesFacts ==
  ASSUME TypeOK, NEW r \in Runs, NEW l, WritesLease(r, l)
  PROVE  /\ lease'[r] = l /\ \A s \in Runs : s # r => lease'[s] = lease[s]
         /\ exposed \subseteq exposed'
         /\ lease[r].holder \in {NoToken, l.holder} \cup exposed'
BY DEF WritesLease, TypeOK

\* A step that leaves every holder in place or exposes the one it replaces.
HoldersKept ==
  /\ exposed \subseteq exposed'
  /\ \A r \in Runs : lease'[r].holder = lease[r].holder
                     \/ lease[r].holder \in exposed' \cup {NoToken}

LEMMA WritesKeeps ==
  ASSUME TypeOK, NEW r \in Runs, NEW l, WritesLease(r, l) PROVE HoldersKept
<1>1. \A s \in Runs : s # r => lease'[s] = lease[s]
  BY WritesFacts
<1>2. lease'[r].holder = lease[r].holder \/ lease[r].holder \in exposed' \cup {NoToken}
  BY WritesFacts
<1>3. exposed \subseteq exposed'
  BY WritesFacts
<1> QED BY <1>1, <1>2, <1>3 DEF HoldersKept

LEMMA StampsFacts ==
  ASSUME TypeOK, NEW r \in Runs, NEW b, WritesLease(r, [lease[r] EXCEPT !.released = b])
  PROVE  exposed' = exposed /\ \A s \in Runs : lease'[s].holder = lease[s].holder
<1>1. lease[r] \in Leases
  BY DEF TypeOK
<1>2. [lease[r] EXCEPT !.released = b].holder = lease[r].holder
  BY <1>1 DEF Leases
<1>3. exposed' = exposed
  BY <1>2 DEF WritesLease
<1>4. lease'[r].holder = lease[r].holder
  BY <1>2, WritesFacts
<1>5. \A s \in Runs : s # r => lease'[s].holder = lease[s].holder
  BY WritesFacts
<1> QED BY <1>3, <1>4, <1>5

\* No two chats present the same token.
LEMMA OwnTokens ==
  ASSUME RunsInv, NEW c \in Chats, NEW d \in Chats, token[c] = token[d],
         token[c] # NoToken
  PROVE  c = d
BY DEF RunsInv, OneThing

\* A writer keeps its backing where writers stay or go and holders are kept.
LEMMA WritersKept ==
  ASSUME LeaseInv, HoldersKept,
         \A p \in Servers, r \in Runs :
           \/ writer'[p][r] = writer[p][r]
           \/ writer'[p][r].at = "gone"
           \/ /\ writer'[p][r].token # NoToken
              /\ writer'[p][r].token \in exposed'
                 \/ (writer'[p][r].at = "waiting" /\ writer'[p][r].token = lease'[r].holder)
  PROVE  WriterBacked'
<1> SUFFICES ASSUME NEW p \in Servers, NEW r \in Runs, writer'[p][r].at # "gone"
             PROVE  /\ writer'[p][r].token # NoToken
                    /\ writer'[p][r].token \in exposed'
                       \/ (writer'[p][r].at = "waiting" /\ writer'[p][r].token = lease'[r].holder)
  BY DEF WriterBacked
<1>1. CASE writer'[p][r] = writer[p][r]
  BY <1>1 DEF LeaseInv, WriterBacked, HoldersKept
<1> QED BY <1>1

\* A chat that drives an open run and was not displaced.
Driving(d) ==
  call[d] \in {"stage", "drive"} /\ token[d] \notin exposed /\ status[on[d]] = "open"

\* It keeps its backing in a step that leaves it and the device alone.
LEMMA DriverKept ==
  ASSUME LeaseInv, HoldersKept, UNCHANGED <<server, device>>, NEW d \in Chats,
         Driving(d), on'[d] = on[d], token'[d] = token[d], token[d] \notin exposed'
  PROVE  Backed(d)'
<1>1. token[d] # NoToken /\ on[d] \in Runs
  BY DEF LeaseInv, SetupInv, RunsInv, TypeInv, TypeOK, Begun, Driving
<1>2. Backed(d)
  BY DEF LeaseInv, DriverBacked, Driving
<1>3. lease'[on[d]].holder = token[d]
  BY <1>1, <1>2 DEF Backed, HoldersKept
<1> QED BY <1>2, <1>3 DEF Backed, HeldBy

\* Its device is out of reach of every owner but its run's.
LEMMA DriverHolds ==
  ASSUME LeaseInv, NEW d \in Chats, Driving(d)
  PROVE  /\ \A p, o : CanTake(p, o) => HeldBy(p, o) /\ o = RunOwner(on[d])
         /\ \A p, o : HeldBy(p, o) => p = server[d] /\ o = RunOwner(on[d])
         /\ device # None /\ device.owner = RunOwner(on[d])
         /\ device.lease = token[d] /\ lease[on[d]].holder = token[d]
<1>1. Backed(d)
  BY DEF LeaseInv, DriverBacked, Driving
<1> QED BY <1>1, TokenFacts DEF Backed, HeldBy, CanTake, Orphan

LEMMA LeaseOfClose ==
  ASSUME LeaseInv, NEW p \in Servers, NEW r \in Runs, CloseStep(p, r)
  PROVE  WriterBacked' /\ DriverBacked' /\ LostBacked'
<1> TypeOK
  BY DEF LeaseInv, SetupInv, RunsInv, TypeInv
<1> USE DEF setupVars, callVars, lockVars, runVars, agentVars
<1>1. UNCHANGED <<server, callVars>>
  BY DEF CloseStep, StopRun, IdleTimer, Sweep, CloseEnds
<1>2. /\ HoldersKept /\ exposed' = exposed
      /\ \A s \in Runs : lease'[s].holder = lease[s].holder
  <2>1. CASE UNCHANGED <<lease, exposed>>
    BY <2>1 DEF HoldersKept
  <2>2. CASE WritesLease(r, [lease[r] EXCEPT !.released = TRUE])
    BY <2>2, WritesKeeps, StampsFacts
  <2> QED BY <2>1, <2>2 DEF CloseStep, StopRun, IdleTimer, Sweep, CloseEnds
<1>3. writer' = writer \/ writer' = [writer EXCEPT ![p][r] = NoWriter]
  BY DEF CloseStep, StopRun, IdleTimer, Sweep, CloseEnds, ClosingBegins
<1>4. \A q \in Servers, s \in Runs : writer'[q][s] = writer[q][s] \/ writer'[q][s].at = "gone"
  BY <1>3, WriterSet, TokenFacts
<1>5. WriterBacked'
  BY <1>2, <1>4, WritersKept
<1>6. LostBacked'
  BY <1>1, <1>2 DEF LeaseInv, LostBacked, TypeOK
<1>7. ASSUME NEW d \in Chats, Driving(d)' PROVE Backed(d)'
  <2>1. status' = status \/ status' = [status EXCEPT ![r] = "ended"]
    BY DEF CloseStep, StopRun, IdleTimer, Sweep, CloseEnds, ClosingBegins
  <2>2. Driving(d) /\ token[d] \notin exposed'
    BY <1>1, <1>2, <1>7, <2>1 DEF Driving, TypeOK
  <2>3. device' = device
    <3>1. CASE CloseEnds(p, r)
      <4>1. status[r] = "ended"
        BY <3>1 DEF CloseEnds, LeaseInv, SetupInv, RunsInv, ClosingEnded
      <4>2. ~HeldBy(p, RunOwner(r))
        BY <2>2, <4>1, DriverHolds, TokenFacts DEF Driving
      <4> QED BY <3>1, <4>2 DEF CloseEnds, ReleasesAny
    <3> QED BY <3>1 DEF CloseStep, StopRun, IdleTimer, Sweep
  <2> QED BY <1>1, <1>2, <2>2, <2>3, DriverKept
<1> QED BY <1>5, <1>6, <1>7 DEF DriverBacked, Driving

LEMMA LeaseOfWriter ==
  ASSUME LeaseInv, NEW p \in Servers, NEW r \in Runs, WriterStep(p, r)
  PROVE  WriterBacked' /\ DriverBacked' /\ LostBacked'
<1> TypeOK
  BY DEF LeaseInv, SetupInv, RunsInv, TypeInv
<1> USE DEF setupVars, callVars, lockVars, runVars, agentVars
<1>1. UNCHANGED <<server, callVars, status>>
  BY DEF WriterStep, Beat, BeatFinds, BeatLoses, BeatFails, WriterLost
<1>2. exposed \subseteq exposed' /\ \A s \in Runs : lease'[s].holder = lease[s].holder
  <2>1. CASE Beat(p, r)
    BY <2>1 DEF Beat, TypeOK, Leases
  <2>2. CASE BeatFinds(p, r)
    BY <2>2, StampsFacts DEF BeatFinds, Stamps
  <2> QED BY <2>1, <2>2 DEF WriterStep, BeatLoses, BeatFails, WriterLost
<1>3. HoldersKept
  BY <1>2 DEF HoldersKept
<1>4. WriterBacked'
  <2>1. CASE Beat(p, r)
    BY <1>3, <2>1, WritersKept DEF Beat
  <2>2. CASE BeatFinds(p, r) \/ WriterLost(p, r)
    <3>1. \A q \in Servers, s \in Runs : writer'[q][s] = writer[q][s] \/ writer'[q][s].at = "gone"
      BY <2>2, WriterSet, TokenFacts DEF BeatFinds, WriterLost, WriterGone
    <3> QED BY <1>3, <3>1, WritersKept
  <2>3. CASE BeatLoses(p, r) \/ BeatFails(p, r)
    <3>1. writer[p][r].token # NoToken /\ writer[p][r].token \in exposed'
      BY <1>2, <2>3 DEF LeaseInv, WriterBacked, BeatLoses, BeatFails
    <3>2. /\ writer'[p][r].token = writer[p][r].token
          /\ \A q \in Servers, s \in Runs : writer'[q][s] = writer[q][s] \/ (q = p /\ s = r)
      BY <2>3, WriterMoved DEF BeatLoses, BeatFails
    <3> QED BY <1>3, <3>1, <3>2, WritersKept
  <2> QED BY <2>1, <2>2, <2>3 DEF WriterStep
<1>5. LostBacked'
  BY <1>1, <1>2 DEF LeaseInv, LostBacked, TypeOK
<1>6. ASSUME NEW d \in Chats, Driving(d)' PROVE Backed(d)'
  <2>1. Driving(d) /\ token[d] \notin exposed'
    BY <1>1, <1>2, <1>6 DEF Driving
  <2>2. device' = device
    <3>1. CASE BeatFinds(p, r)
      <4>1. ~HeldBy(p, RunOwner(r))
        BY <2>1, <3>1, DriverHolds, TokenFacts DEF Driving, BeatFinds, Over
      <4> QED BY <3>1, <4>1 DEF BeatFinds, Releases
    <3>2. CASE WriterLost(p, r)
      <4>1. writer[p][r].token \in exposed
        BY <3>2 DEF WriterLost, LeaseInv, WriterBacked
      <4>2. device.lease # writer[p][r].token
        BY <2>1, <4>1, DriverHolds DEF Driving
      <4> QED BY <3>2, <4>2 DEF WriterLost, Releases
    <3> QED BY <3>1, <3>2 DEF WriterStep, Beat, BeatLoses, BeatFails
  <2> QED BY <1>1, <1>3, <2>1, <2>2, DriverKept
<1> QED BY <1>4, <1>5, <1>6 DEF DriverBacked, Driving

\* The hand-off starts a run under a fresh token; every other setup step leaves
\* leases and calls alone, and writers but for those of a run it ends.
LEMMA LeaseOfSetup ==
  ASSUME LeaseInv, NEW c \in Chats, SetupStep(c)
  PROVE  WriterBacked' /\ DriverBacked' /\ LostBacked'
<1> TypeOK /\ Runs = Chats /\ server[c] \in Servers /\ RunsInv
  BY DEF LeaseInv, SetupInv, RunsInv, TypeInv, TypeOK, Runs
<1> USE DEF setupVars, callVars, lockVars, runVars, agentVars
<1>1. UNCHANGED <<server, call>>
  BY DEF SetupStep, SetupOpens, SetupClaimsDevice, SetupEvicts, SetupGivesUp, SetupCleans,
      SetupCleanupFails, SetupHandsOff, Abandon, Adopt, Reclaim
<1>2. \A d \in Chats : call[d] # "none" => on'[d] = on[d] /\ token'[d] = token[d]
  <2>1. \/ UNCHANGED <<on, token>>
        \/ Learns(c) /\ call[c] = "none"
    <3>1. CASE SetupHandsOff(c)
      <4>1. c \notin orphaned => call[c] = "none"
        BY <3>1 DEF RunsInv, OneThing, SetupHandsOff, SettingUp, SetupStages
      <4> QED BY <3>1, <4>1 DEF SetupHandsOff
    <3>2. CASE Adopt(c)
      BY <3>2 DEF Adopt
    <3> QED BY <3>1, <3>2 DEF SetupStep, SetupOpens, SetupClaimsDevice, SetupEvicts,
          SetupGivesUp, SetupCleans, SetupCleanupFails, Abandon, Reclaim
  <2> QED BY <2>1 DEF Learns, TypeOK
<1>3. CASE SetupHandsOff(c)
  <2> DEFINE t == Token(c, 0)
  <2>1. /\ setup[c] = "preparing" /\ status' = [status EXCEPT ![c] = "open"]
        /\ WritesLease(c, [holder |-> t, fresh |-> TRUE, released |-> FALSE])
    BY <1>3 DEF SetupHandsOff
  <2>2. /\ status[c] = "none" /\ t # NoToken
        /\ \A d \in Chats : call[d] # "none" => on[d] # c
    BY <2>1, TokenFacts DEF RunsInv, Planned, Begun
  <2>3. HoldersKept /\ lease'[c].holder = t /\ \A r \in Runs : r # c => lease'[r] = lease[r]
    BY <2>1, WritesFacts, WritesKeeps
  <2>4. writer' = writer \/ writer' = [writer EXCEPT ![server[c]][c] = [token |-> t, at |-> "waiting"]]
    BY <1>3 DEF SetupHandsOff, StartsWriter
  <2>5. \A q \in Servers, s \in Runs :
          \/ writer'[q][s] = writer[q][s]
          \/ s = c /\ writer'[q][s] = [token |-> t, at |-> "waiting"]
    <3>1. CASE writer' = writer
      BY <3>1
    <3>2. CASE writer' = [writer EXCEPT ![server[c]][c] = [token |-> t, at |-> "waiting"]]
      BY <3>2, WriterSet
    <3> QED BY <2>4, <3>1, <3>2
  <2>6. WriterBacked'
    BY <2>2, <2>3, <2>5, WritersKept
  <2>7. LostBacked'
    <3>1. SUFFICES ASSUME NEW d \in Chats, call[d] = "lost"
                   PROVE  lease'[on'[d]].holder # token'[d]
      BY <1>1 DEF LostBacked
    <3>2. on[d] \in Runs /\ on[d] # c /\ on'[d] = on[d] /\ token'[d] = token[d]
      BY <1>2, <2>2, <3>1 DEF TypeOK
    <3> QED BY <2>3, <3>1, <3>2 DEF LeaseInv, LostBacked
  <2>8. ASSUME NEW d \in Chats, Driving(d)' PROVE Backed(d)'
    <3>1. call[d] \in {"stage", "drive"} /\ on'[d] = on[d] /\ token'[d] = token[d]
      BY <1>1, <1>2, <2>8 DEF Driving
    <3>2. Driving(d) /\ token[d] \notin exposed'
      BY <2>1, <2>2, <2>3, <2>8, <3>1 DEF Driving, HoldersKept, TypeOK
    <3>3. ~HeldBy(server[c], Label(c))
      BY <3>2, DriverHolds, TokenFacts
    <3>4. device' = device
      BY <1>3, <3>3 DEF SetupHandsOff
    <3> QED BY <1>1, <2>3, <3>1, <3>2, <3>4, DriverKept
  <2> QED BY <2>6, <2>7, <2>8 DEF DriverBacked, Driving
<1>4. CASE ~SetupHandsOff(c)
  <2>1. UNCHANGED <<lease, exposed>>
    BY <1>4 DEF SetupStep, SetupOpens, SetupClaimsDevice, SetupEvicts, SetupGivesUp,
        SetupCleans, SetupCleanupFails, Abandon, Adopt, Reclaim
  <2>2. HoldersKept
    BY <2>1 DEF HoldersKept
  <2>3. \/ UNCHANGED <<writer, status>>
        \/ \E r \in Runs : /\ writer' = [writer EXCEPT ![server[c]][r] = NoWriter]
                           /\ status' = [status EXCEPT ![r] = "ended"]
    <3>1. ASSUME SetupEvicts(c) PROVE device.owner.of \in Runs
      BY <3>1 DEF SetupEvicts, TypeOK, Holds, Owners, CanTake
    <3> QED BY <1>4, <3>1 DEF SetupStep, SetupOpens, SetupClaimsDevice, SetupEvicts,
          SetupGivesUp, SetupCleans, SetupCleanupFails, Abandon, Adopt, Reclaim, ClosingBegins
  <2>4. \A q \in Servers, s \in Runs : writer'[q][s] = writer[q][s] \/ writer'[q][s].at = "gone"
    <3>1. ASSUME NEW r \in Runs, writer' = [writer EXCEPT ![server[c]][r] = NoWriter],
                 NEW q \in Servers, NEW s \in Runs
          PROVE  writer'[q][s] = writer[q][s] \/ writer'[q][s].at = "gone"
      BY <3>1, WriterSet, TokenFacts
    <3> QED BY <2>3, <3>1
  <2>5. WriterBacked'
    BY <2>2, <2>4, WritersKept
  <2>6. LostBacked'
    BY <1>1, <1>2, <2>1 DEF LeaseInv, LostBacked
  <2>7. ASSUME NEW d \in Chats, Driving(d)' PROVE Backed(d)'
    <3>1. call[d] \in {"stage", "drive"} /\ on'[d] = on[d] /\ token'[d] = token[d]
      BY <1>1, <1>2, <2>7 DEF Driving
    <3>2. Driving(d) /\ token[d] \notin exposed'
      BY <2>1, <2>3, <2>7, <3>1 DEF Driving, TypeOK
    <3>3. ~HeldBy(server[c], Label(c)) /\ ~CanTake(server[c], Label(c))
      BY <3>2, DriverHolds, TokenFacts
    <3>4. device' = device
      BY <1>4, <3>3 DEF SetupStep, SetupOpens, SetupClaimsDevice, SetupEvicts, SetupGivesUp,
          SetupCleans, SetupCleanupFails, Abandon, Adopt, Reclaim, ReleasesAny
    <3> QED BY <1>1, <2>2, <3>1, <3>2, <3>4, DriverKept
  <2> QED BY <2>5, <2>6, <2>7 DEF DriverBacked, Driving
<1> QED BY <1>3, <1>4

LEMMA LeaseOfCrash ==
  ASSUME LeaseInv, NEW p \in Servers, Crash(p)
  PROVE  WriterBacked' /\ DriverBacked' /\ LostBacked'
<1> TypeOK
  BY DEF LeaseInv, SetupInv, RunsInv, TypeInv
<1> USE DEF runVars
<1>1. HoldersKept /\ UNCHANGED <<server, on, token, lease, exposed, status>>
  BY DEF Crash, HoldersKept
<1>2. \A q \in Servers, s \in Runs : writer'[q][s] = writer[q][s] \/ writer'[q][s].at = "gone"
  BY TokenFacts DEF Crash, TypeOK
<1>3. WriterBacked'
  BY <1>1, <1>2, WritersKept
<1>4. \A d \in Chats : call'[d] = call[d] \/ call'[d] = "none"
  BY DEF Crash
<1>5. LostBacked'
  BY <1>1, <1>4 DEF LeaseInv, LostBacked
<1>6. ASSUME NEW d \in Chats, Driving(d)' PROVE Backed(d)'
  <2>1. server[d] # p /\ Driving(d) /\ token[d] \notin exposed'
    BY <1>1, <1>4, <1>6 DEF Driving, Crash
  <2>2. HeldBy(server[d], RunOwner(on[d]))
    BY <2>1 DEF LeaseInv, DriverBacked, Driving, Backed
  <2>3. device' = device
    BY <2>1, <2>2 DEF Crash, HeldBy
  <2> QED BY <1>1, <2>1, <2>3, DriverKept
<1> QED BY <1>3, <1>5, <1>6 DEF DriverBacked, Driving

LEMMA LeaseOfAges ==
  ASSUME LeaseInv, NEW r \in Runs, LeaseAges(r)
  PROVE  WriterBacked' /\ DriverBacked' /\ LostBacked'
<1> TypeOK
  BY DEF LeaseInv, SetupInv, RunsInv, TypeInv
<1> USE DEF setupVars, callVars, lockVars, agentVars
<1>1. \A s \in Runs : lease'[s].holder = lease[s].holder
  BY DEF LeaseAges, TypeOK, Leases
<1>2. HoldersKept /\ UNCHANGED <<server, call, on, token, exposed, status, device, writer>>
  BY <1>1 DEF LeaseAges, HoldersKept
<1>3. WriterBacked'
  BY <1>2, WritersKept
<1>4. LostBacked'
  BY <1>1, <1>2 DEF LeaseInv, LostBacked, TypeOK
<1>5. DriverBacked'
  BY <1>2, DriverKept DEF DriverBacked, Driving
<1> QED BY <1>3, <1>4, <1>5

LEMMA TakesHold ==
  ASSUME NEW p \in Servers, NEW r \in Runs, NEW t \in Tokens, t # NoToken,
         Takes(p, RunOwner(r), t)
  PROVE  HeldBy(p, RunOwner(r))' /\ device'.lease = t
<1>1. device' = [by |-> p, owner |-> RunOwner(r), lease |-> t]
  BY DEF Takes
<1>2. device' \in Holds
  BY <1>1, OwnerTypes DEF Holds, Runs
<1>3. device' # None
  BY <1>2, DeviceRunsAssumption DEF DeviceRunsAssumption
<1> QED BY <1>1, <1>3 DEF HeldBy

LEMMA LeaseOfCall ==
  ASSUME LeaseInv, NEW c \in Chats, CallStep(c)
  PROVE  WriterBacked' /\ DriverBacked' /\ LostBacked'
<1> TypeOK /\ Runs = Chats /\ server[c] \in Servers /\ RunsInv /\ on[c] \in Runs
    /\ token[c] \in Tokens
  BY DEF LeaseInv, SetupInv, RunsInv, TypeInv, TypeOK, Runs
<1> USE DEF setupVars, callVars, lockVars, runVars, agentVars
<1> DEFINE Only == \A d \in Chats : d # c => call'[d] = call[d] /\ on'[d] = on[d] /\ token'[d] = token[d]
           Now(stage) == call'[c] = stage
<1>0. server' = server /\ Only
  BY DEF CallStep, StepBegins, ClaimWrites, TakeOver, ClaimConfirms, ResumeRetakes,
      ResumeStops, StepEnds, StepReports, FinishEnds, At, TypeOK
<1>a. \A d \in Chats : d # c /\ token[d] = token[c] => token[d] = NoToken
  BY DEF RunsInv, OneThing
<1>b. token[c] = NoToken => call[c] = "none"
  BY DEF RunsInv, Begun
\* Another chat that drives keeps its backing where its device is left alone.
<1>c. ASSUME HoldersKept, NEW d \in Chats, d # c, Driving(d)',
             \A s \in Runs : status'[s] = "open" => status[s] = "open",
             Driving(d) => device' = device
      PROVE  Backed(d)'
  <2>1. Driving(d) /\ token[d] \notin exposed'
    BY <1>0, <1>c DEF Driving, HoldersKept, TypeOK
  <2> QED BY <1>0, <1>c, <2>1, DriverKept
<1>1. CASE StepBegins(c) \/ ResumeStops(c) \/ StepEnds(c)
  <2>1. UNCHANGED <<on, token, writer, lease, exposed, device, status>>
    BY <1>1 DEF StepBegins, ResumeStops, StepEnds
  <2>2. HoldersKept
    BY <2>1 DEF HoldersKept
  <2>3. call'[c] \notin {"stage", "drive"}
    BY <1>1 DEF StepBegins, ResumeStops, StepEnds, At, TypeOK
  <2>4. call'[c] = "lost" => lease[on[c]].holder # token[c]
    BY <1>1 DEF StepBegins, ResumeStops, StepEnds, At, TypeOK
  <2>5. WriterBacked'
    BY <2>1, <2>2, WritersKept
  <2>6. LostBacked'
    BY <1>0, <2>1, <2>4 DEF LeaseInv, LostBacked
  <2>7. DriverBacked'
    BY <1>c, <2>1, <2>2, <2>3 DEF DriverBacked, Driving
  <2> QED BY <2>5, <2>6, <2>7
<1>2. CASE ClaimWrites(c) \/ \E r \in Runs : TakeOver(c, r)
  <2>0. PICK r \in Runs : \E t : /\ WritesLease(r, [holder |-> t, fresh |-> TRUE, released |-> FALSE])
                                 /\ t # NoToken /\ t.of = c
    <3>1. CASE ClaimWrites(c)
      BY <1>b, <3>1 DEF ClaimWrites, ClaimsFor, RunsInv, OneThing
    <3>2. CASE \E r \in Runs : TakeOver(c, r)
      <4> PICK r \in Runs : TakeOver(c, r)
        BY <3>2
      <4> DEFINE t == Token(c, minted[c] + 1)
      <4>1. WritesLease(r, [holder |-> t, fresh |-> TRUE, released |-> FALSE])
        BY DEF TakeOver, ClaimsFor
      <4> QED BY <4>1, TokenFacts
    <3> QED BY <1>2, <3>1, <3>2
  <2>1. PICK t : /\ WritesLease(r, [holder |-> t, fresh |-> TRUE, released |-> FALSE])
                 /\ t # NoToken /\ t.of = c
    BY <2>0
  <2>2. HoldersKept /\ lease'[r].holder = t /\ \A s \in Runs : s # r => lease'[s] = lease[s]
    BY <2>1, WritesFacts, WritesKeeps
  <2>3. UNCHANGED <<writer, device, status>> /\ call'[c] \in {"claimed", "takenover"}
    BY <1>2 DEF ClaimWrites, TakeOver, At, TypeOK
  <2>4. WriterBacked'
    BY <2>2, <2>3, WritersKept
  <2>5. LostBacked'
    <3>1. SUFFICES ASSUME NEW d \in Chats, call'[d] = "lost"
                   PROVE  lease'[on'[d]].holder # token'[d]
      BY DEF LostBacked
    <3>2. d # c /\ call[d] = "lost" /\ on'[d] = on[d] /\ token'[d] = token[d] /\ on[d] \in Runs
      BY <1>0, <2>3, <3>1 DEF TypeOK
    <3>3. token[d] # t
      BY <2>1, <3>2 DEF RunsInv, OneThing
    <3> QED BY <2>2, <3>2, <3>3 DEF LeaseInv, LostBacked
  <2>6. DriverBacked'
    BY <1>c, <2>2, <2>3 DEF DriverBacked, Driving
  <2> QED BY <2>4, <2>5, <2>6
<1>3. CASE ClaimConfirms(c) /\ lease[on[c]].holder # token[c]
  <2>1. UNCHANGED <<on, token, writer, lease, exposed, device, status>> /\ Now("lost")
    BY <1>3 DEF ClaimConfirms, At, TypeOK
  <2>2. HoldersKept
    BY <2>1 DEF HoldersKept
  <2>3. WriterBacked'
    BY <2>1, <2>2, WritersKept
  <2>4. LostBacked'
    BY <1>0, <1>3, <2>1 DEF LeaseInv, LostBacked
  <2>5. DriverBacked'
    BY <1>c, <2>1, <2>2 DEF DriverBacked, Driving
  <2> QED BY <2>3, <2>4, <2>5
<1>4. CASE ClaimConfirms(c) /\ lease[on[c]].holder = token[c]
  <2> DEFINE p == server[c]
             r == on[c]
  <2>1. UNCHANGED <<on, token, lease, exposed, status>> /\ StartsWriter(p, r, token[c])
        /\ token[c] # NoToken /\ call'[c] # "lost"
    BY <1>4, <1>b DEF ClaimConfirms, At, TypeOK
  <2>2. HoldersKept
    BY <2>1 DEF HoldersKept
  <2>3. \A q \in Servers, s \in Runs :
          \/ writer'[q][s] = writer[q][s]
          \/ s = r /\ writer'[q][s] = [token |-> token[c], at |-> "waiting"]
    BY <2>1, WriterSet DEF StartsWriter
  <2>4. WriterBacked'
    BY <1>4, <2>1, <2>2, <2>3, WritersKept
  <2>5. LostBacked'
    BY <1>0, <2>1 DEF LeaseInv, LostBacked
  <2>6. ASSUME NEW d \in Chats, d # c, Driving(d) PROVE ~CanTake(p, RunOwner(r))
    <3>1. token[d] # token[c]
      BY <1>a, <2>1, <2>6
    <3> QED BY <1>4, <2>6, <3>1, DriverHolds, TokenFacts
  <2>7. ASSUME NEW d \in Chats, d # c, Driving(d)' PROVE Backed(d)'
    <3>1. Driving(d) => device' = device
      BY <1>4, <2>6, <2>7 DEF ClaimConfirms
    <3> QED BY <1>c, <2>1, <2>2, <2>7, <3>1
  <2>8. ASSUME Driving(c)' PROVE Backed(c)'
    <3>1. Takes(p, RunOwner(r), token[c])
      BY <1>4, <2>8 DEF ClaimConfirms, TakesForRun, Driving, At, TypeOK
    <3> QED BY <1>0, <1>4, <2>1, <3>1, TakesHold DEF Backed
  <2> QED BY <2>4, <2>5, <2>7, <2>8 DEF DriverBacked, Driving
<1>5. CASE ResumeRetakes(c)
  <2> DEFINE p == server[c]
             r == on[c]
  <2>1. /\ UNCHANGED <<on, token, lease, writer, status>>
        /\ call[c] = "stage" /\ call'[c] # "lost"
        /\ IF CanTake(p, RunOwner(r))
             THEN /\ Takes(p, RunOwner(r), token[c])
                  /\ exposed' = exposed \cup ({lease[r].holder} \ {token[c]})
             ELSE UNCHANGED <<exposed, device>> /\ call'[c] = "none"
    BY <1>5 DEF ResumeRetakes, TakesForRun, At, TypeOK
  <2>2. HoldersKept /\ token[c] # NoToken
    BY <1>b, <2>1 DEF HoldersKept
  <2>3. WriterBacked'
    BY <2>1, <2>2, WritersKept
  <2>4. LostBacked'
    BY <1>0, <2>1 DEF LeaseInv, LostBacked
  <2>5. ASSUME NEW d \in Chats, d # c, Driving(d)' PROVE Backed(d)'
    <3>1. ASSUME Driving(d), CanTake(p, RunOwner(r)) PROVE FALSE
      <4>1. lease[r].holder = token[d]
        BY <3>1, DriverHolds, TokenFacts
      <4>2. token[d] # token[c]
        BY <1>a, <2>2, <2>5
      <4> QED BY <1>0, <2>1, <2>5, <3>1, <4>1, <4>2 DEF Driving
    <3> QED BY <1>c, <2>1, <2>2, <2>5, <3>1
  <2>6. ASSUME Driving(c)' PROVE Backed(c)'
    <3>1. Driving(c) /\ CanTake(p, RunOwner(r))
      BY <2>1, <2>2, <2>6 DEF Driving, HoldersKept
    <3>2. lease[r].holder = token[c]
      BY <3>1, DriverHolds
    <3> QED BY <1>0, <2>1, <2>2, <3>1, <3>2, TakesHold DEF Backed
  <2> QED BY <2>3, <2>4, <2>5, <2>6 DEF DriverBacked, Driving
<1>6. CASE StepReports(c) \/ FinishEnds(c)
  <2> DEFINE r == on[c]
  <2>1. /\ UNCHANGED <<on, token, writer>> /\ call[c] # "none" /\ call'[c] \in {"none", "finish"}
        /\ (device' = device \/ (device' = None /\ device # None /\ device.lease = token[c]))
        /\ \A s \in Runs : status'[s] = "open" => status[s] = "open"
        /\ UNCHANGED <<lease, exposed>> \/ Stamps(r)
    BY <1>6 DEF StepReports, FinishEnds, Releases, HeldBy, At, TypeOK
  <2>2. exposed' = exposed /\ \A s \in Runs : lease'[s].holder = lease[s].holder
    BY <2>1, StampsFacts DEF Stamps
  <2>3. HoldersKept
    BY <2>2 DEF HoldersKept
  <2>4. WriterBacked'
    BY <2>1, <2>3, WritersKept
  <2>5. LostBacked'
    BY <1>0, <2>1, <2>2 DEF LeaseInv, LostBacked, TypeOK
  <2>6. ASSUME NEW d \in Chats, d # c, Driving(d)' PROVE Backed(d)'
    <3>1. Driving(d) => device.lease # token[c]
      BY <1>a, <1>b, <2>1, <2>6, DriverHolds
    <3> QED BY <1>c, <2>1, <2>3, <2>6, <3>1
  <2> QED BY <2>1, <2>4, <2>5, <2>6 DEF DriverBacked, Driving
<1> QED BY <1>1, <1>2, <1>3, <1>4, <1>5, <1>6 DEF CallStep

LEMMA LeaseStepInv == LeaseInv /\ [Next]_vars => LeaseInv'
<1> SUFFICES ASSUME LeaseInv, [Next]_vars PROVE LeaseInv'
  OBVIOUS
<1>0. SetupInv'
  BY SetupStepInv DEF LeaseInv
<1>1. ASSUME UNCHANGED vars PROVE WriterBacked' /\ DriverBacked' /\ LostBacked'
  BY <1>1 DEF LeaseInv, WriterBacked, DriverBacked, LostBacked, Backed, HeldBy, vars,
      callVars, runVars, lockVars, agentVars
<1> QED BY <1>0, <1>1, LeaseOfClose, LeaseOfWriter, LeaseOfSetup, LeaseOfCrash, LeaseOfAges,
      LeaseOfCall DEF LeaseInv, Next

(* Two chats never both drive the device for open runs, neither displaced: both *)
(* would hold it under their own token.                                        *)
THEOREM DriverIsOne == Spec => []OneDriver
<1>1. LeaseInv => OneDriver
  <2> SUFFICES ASSUME LeaseInv, NEW c \in Chats, NEW d \in Chats, Rightful(c), Rightful(d)
               PROVE  c = d
    BY DEF OneDriver
  <2>1. Driving(c) /\ Driving(d)
    BY DEF Rightful, Driving
  <2>2. token[c] = token[d]
    BY <2>1, DriverHolds
  <2>3. RunsInv /\ token[c] # NoToken
    BY <2>1 DEF LeaseInv, SetupInv, RunsInv, Begun, Driving
  <2> QED BY <2>2, <2>3, OwnTokens
<1> QED BY <1>1, LeaseInit, LeaseStepInv, PTL DEF Spec

LEMMA HoldOfRun ==
  ASSUME LeaseInv, [Next]_vars, NEW r \in Runs, HoldsCurrent(r), status'[r] = "open",
         device' # device
  PROVE  HoldsCurrent(r)' \/ device.lease \in exposed' \/ Crash(device.by)
<1> TypeOK /\ RunsInv
  BY DEF LeaseInv, SetupInv, RunsInv, TypeInv
<1> USE TokenFacts DEF setupVars, callVars, runVars, lockVars, agentVars
<1>1. device # None /\ device.owner = RunOwner(r) /\ device.lease = lease[r].holder
  BY DEF HoldsCurrent
<1>2. /\ \A p, s : HeldBy(p, RunOwner(s)) => s = r
      /\ \A p, s : CanTake(p, RunOwner(s)) => s = r
      /\ \A p, s : ~HeldBy(p, Label(s)) /\ ~CanTake(p, Label(s))
  BY <1>1 DEF HeldBy, CanTake, Orphan
<1>3. ASSUME NEW c \in Chats, CallStep(c) PROVE HoldsCurrent(r)' \/ device.lease \in exposed'
  <2>0. server[c] \in Servers /\ on[c] \in Runs /\ token[c] \in Tokens
        /\ (call[c] # "none" => token[c] # NoToken)
    BY DEF TypeOK, RunsInv, Begun
  <2>1. CASE ClaimConfirms(c)
    <3>1. /\ Takes(server[c], RunOwner(on[c]), token[c]) /\ on[c] = r /\ lease' = lease
          /\ lease[r].holder = token[c] /\ token[c] # NoToken
      BY <1>2, <2>0, <2>1 DEF ClaimConfirms, TakesForRun
    <3> QED BY <2>0, <3>1, TakesHold DEF HoldsCurrent, HeldBy
  <2>2. CASE ResumeRetakes(c)
    <3>1. /\ Takes(server[c], RunOwner(on[c]), token[c]) /\ on[c] = r /\ lease' = lease
          /\ token[c] # NoToken /\ exposed' = exposed \cup ({lease[r].holder} \ {token[c]})
      BY <1>2, <2>0, <2>2 DEF ResumeRetakes, TakesForRun
    <3>2. CASE lease[r].holder = token[c]
      BY <2>0, <3>1, <3>2, TakesHold DEF HoldsCurrent, HeldBy
    <3> QED BY <1>1, <3>1, <3>2
  <2>3. CASE StepReports(c) \/ FinishEnds(c)
    <3>1. on[c] = r /\ lease[r].holder = token[c]
      BY <1>1, <1>2, <2>3 DEF StepReports, FinishEnds, Releases
    <3>2. call[c] # "lost"
      BY <3>1 DEF LeaseInv, LostBacked
    <3> QED BY <2>3, <3>1, <3>2 DEF StepReports, FinishEnds, TypeOK
  <2>4. CASE StepBegins(c) \/ ClaimWrites(c) \/ ResumeStops(c) \/ StepEnds(c)
             \/ \E s \in Runs : TakeOver(c, s)
    BY <2>4 DEF StepBegins, ClaimWrites, TakeOver, ResumeStops, StepEnds
  <2> QED BY <1>3, <2>1, <2>2, <2>3, <2>4 DEF CallStep
<1>4. ASSUME NEW c \in Chats, SetupStep(c) PROVE FALSE
  BY <1>2, <1>4 DEF SetupStep, SetupOpens, SetupClaimsDevice, SetupEvicts, SetupGivesUp,
      SetupCleans, SetupCleanupFails, SetupHandsOff, Abandon, Adopt, Reclaim, ReleasesAny
<1>5. ASSUME NEW p \in Servers, NEW s \in Runs, CloseStep(p, s) PROVE FALSE
  <2>1. CASE CloseEnds(p, s)
    <3>1. s = r /\ status[s] = "ended" /\ status' = status
      BY <1>2, <2>1 DEF CloseEnds, ReleasesAny, RunsInv, ClosingEnded
    <3> QED BY <3>1
  <2> QED BY <1>5, <2>1 DEF CloseStep, StopRun, IdleTimer, Sweep
<1>6. ASSUME NEW p \in Servers, NEW s \in Runs, WriterStep(p, s) PROVE device.lease \in exposed'
  <2>1. CASE BeatFinds(p, s)
    BY <1>2, <2>1 DEF BeatFinds, Over, Releases
  <2>2. CASE WriterLost(p, s)
    BY <1>2, <2>2 DEF WriterLost, Releases, LeaseInv, WriterBacked
  <2> QED BY <1>6, <2>1, <2>2 DEF WriterStep, Beat, BeatLoses, BeatFails
<1>7. ASSUME NEW p \in Servers, Crash(p) PROVE Crash(device.by)
  BY <1>7 DEF Crash
<1>8. ASSUME NEW s \in Runs, LeaseAges(s) PROVE FALSE
  BY <1>8 DEF LeaseAges
<1>9. CASE UNCHANGED vars
  BY <1>9 DEF vars
<1> QED BY <1>3, <1>4, <1>5, <1>6, <1>7, <1>8, <1>9 DEF Next

(* The holder of an open run's current lease keeps the device, but for the     *)
(* death of its server and for a displacement or a failed beat.                *)
THEOREM HolderKept == Spec => HolderKeepsDevice
<1>1. LeaseInv /\ [Next]_vars =>
        [\A r \in Runs :
           HoldsCurrent(r) /\ status'[r] = "open" /\ device' # device
             => \/ HoldsCurrent(r)'
                \/ device.lease \in exposed'
                \/ Crash(device.by)]_vars
  BY HoldOfRun
<1> QED BY <1>1, LeaseInit, LeaseStepInv, PTL DEF Spec, HolderKeepsDevice
-----------------------------------------------------------------------------
\* What keeps a hold beaten: the lock and the writers as they were, or the hold
\* gone, or the writer of that hold gone with its run being ended.
LEMMA BeatenKept ==
  ASSUME TypeOK, HoldIsBeaten, unbeaten' = unbeaten, device' = device \/ device' = None
             \/ device'.owner.kind = "prerun",
         \A p \in Servers, r \in Runs :
           HeldBy(p, RunOwner(r))' =>
             \/ writer'[p][r].token = writer[p][r].token
                  /\ (<<p, r>> \in closing => <<p, r>> \in closing')
             \/ device.lease # writer[p][r].token
                  /\ (<<p, r>> \in closing => <<p, r>> \in closing')
             \/ <<p, r>> \in closing'
  PROVE  HoldIsBeaten'
<1> SUFFICES ASSUME device' # None, device'.owner.kind = "run"
             PROVE  LET p == device.by
                        r == device.owner.of
                    IN \/ writer'[p][r].token = device.lease
                       \/ device.lease = unbeaten
                       \/ <<p, r>> \in closing'
  BY DEF HoldIsBeaten
<1>1. device' = device /\ device.by \in Servers /\ device.owner.of \in Runs
      /\ device.owner = RunOwner(device.owner.of)
  BY DEF TypeOK, Holds, Owners, Runs, RunOwner
<1>2. HeldBy(device.by, RunOwner(device.owner.of))'
  BY <1>1 DEF HeldBy
<1> QED BY <1>1, <1>2 DEF HoldIsBeaten

LEMMA StartsFresh ==
  ASSUME TypeOK, NEW p \in Servers, NEW r \in Runs, NEW t, StartsWriter(p, r, t),
         writer[p][r].at = "gone"
  PROVE  writer'[p][r] = [token |-> t, at |-> "waiting"]
<1> DEFINE w == [token |-> t, at |-> "waiting"]
<1>1. writer' = [writer EXCEPT ![p][r] = w]
  BY DEF StartsWriter
<1> HIDE DEF w
<1>2. writer'[p][r] = w
  BY <1>1 DEF TypeOK
<1> QED BY <1>2 DEF w

LEMMA BeatenSetup ==
  ASSUME RunsInv, HoldIsBeaten, NEW c \in Chats, SetupStep(c)
  PROVE  HoldIsBeaten'
<1> TypeOK /\ server[c] \in Servers /\ Runs = Chats
  BY DEF RunsInv, TypeInv, TypeOK, Runs
<1> USE TokenFacts DEF setupVars, callVars, lockVars, runVars, agentVars
<1>1. CASE SetupHandsOff(c)
  <2>1. status[c] = "none" /\ writer[server[c]][c] = NoWriter
    BY <1>1 DEF SetupHandsOff, RunsInv, Planned, Begun
  <2>2. CASE HeldBy(server[c], Label(c))
    <3>1. writer'[server[c]][c] = [token |-> Token(c, 0), at |-> "waiting"]
      <4>1. StartsWriter(server[c], c, Token(c, 0)) /\ writer[server[c]][c].at = "gone"
        BY <1>1, <2>1, <2>2 DEF SetupHandsOff
      <4> QED BY <4>1, StartsFresh
    <3>2. device' = [by |-> server[c], owner |-> RunOwner(c), lease |-> Token(c, 0)]
      BY <1>1, <2>2 DEF SetupHandsOff
    <3> QED BY <3>1, <3>2 DEF HoldIsBeaten
  <2>3. CASE ~HeldBy(server[c], Label(c))
    BY <1>1, <2>3 DEF SetupHandsOff, HoldIsBeaten
  <2> QED BY <2>2, <2>3
<1>2. ASSUME NEW r \in Runs, ClosingBegins(server[c], r), UNCHANGED lockVars PROVE HoldIsBeaten'
  <2>1. \A p \in Servers, s \in Runs :
          (writer'[p][s].token = writer[p][s].token /\ (<<p, s>> \in closing => <<p, s>> \in closing'))
          \/ <<p, s>> \in closing'
    <3>1. writer' = [writer EXCEPT ![server[c]][r] = NoWriter]
          /\ closing' = closing \cup {<<server[c], r>>}
      BY <1>2 DEF ClosingBegins
    <3> QED BY <3>1, WriterSet
  <2> QED BY <1>2, <2>1, BeatenKept
<1>3. CASE SetupEvicts(c)
  <2>1. device.owner.of \in Runs
    BY <1>3 DEF SetupEvicts, TypeOK, Holds, Owners, CanTake
  <2> QED BY <1>2, <1>3, <2>1 DEF SetupEvicts
<1>4. CASE \E d \in Chats : Reclaim(c, d)
  BY <1>2, <1>4 DEF Reclaim
<1>5. CASE SetupOpens(c) \/ SetupClaimsDevice(c) \/ SetupGivesUp(c) \/ SetupCleans(c)
           \/ SetupCleanupFails(c) \/ Abandon(c) \/ Adopt(c)
  <2>1. UNCHANGED <<writer, closing, unbeaten>>
    BY <1>5 DEF SetupOpens, SetupClaimsDevice, SetupGivesUp, SetupCleans, SetupCleanupFails,
        Abandon, Adopt
  <2>2. device' = device \/ device' = None \/ device'.owner.kind = "prerun"
    BY <1>5 DEF SetupOpens, SetupClaimsDevice, SetupGivesUp, SetupCleans, SetupCleanupFails,
        Abandon, Adopt, Takes, ReleasesAny
  <2> QED BY <2>1, <2>2, BeatenKept
<1> QED BY <1>1, <1>3, <1>4, <1>5 DEF SetupStep

LEMMA BeatenTakes ==
  ASSUME RunsInv, HoldIsBeaten, NEW p \in Servers, NEW r \in Runs, NEW t \in Tokens,
         t # NoToken, TakesForRun(p, r, t)
  PROVE  HoldIsBeaten'
<1>1. device' = [by |-> p, owner |-> RunOwner(r), lease |-> t]
  BY DEF TakesForRun, Takes
<1>2. unbeaten' = IF writer'[p][r].token = t THEN NoToken ELSE t
  BY DEF TakesForRun
<1> QED BY <1>1, <1>2, TokenFacts DEF HoldIsBeaten

LEMMA BeatenCall ==
  ASSUME RunsInv, HoldIsBeaten, NEW c \in Chats, CallStep(c)
  PROVE  HoldIsBeaten'
<1> TypeOK /\ server[c] \in Servers /\ on[c] \in Runs /\ token[c] \in Tokens
    /\ (call[c] # "none" => token[c] # NoToken)
  BY DEF RunsInv, TypeInv, TypeOK, Begun
<1> USE DEF setupVars, callVars, lockVars, runVars, agentVars
<1>1. CASE ClaimConfirms(c)
  <2>1. CASE lease[on[c]].holder # token[c]
    BY <1>1, <2>1 DEF ClaimConfirms, HoldIsBeaten
  <2>2. CASE lease[on[c]].holder = token[c] /\ CanTake(server[c], RunOwner(on[c]))
    BY <1>1, <2>2, BeatenTakes DEF ClaimConfirms
  <2>3. CASE lease[on[c]].holder = token[c] /\ ~CanTake(server[c], RunOwner(on[c]))
    <3>1. /\ UNCHANGED <<device, unbeaten, closing>> /\ StartsWriter(server[c], on[c], token[c])
          /\ ~HeldBy(server[c], RunOwner(on[c]))
      BY <1>1, <2>3 DEF ClaimConfirms, CanTake
    <3>2. \A p \in Servers, r \in Runs :
            writer'[p][r] = writer[p][r] \/ (p = server[c] /\ r = on[c])
      BY <3>1, WriterSet DEF StartsWriter
    <3> QED BY <3>1, <3>2, BeatenKept DEF HeldBy
  <2> QED BY <2>1, <2>2, <2>3
<1>2. CASE ResumeRetakes(c)
  <2>1. CASE CanTake(server[c], RunOwner(on[c]))
    BY <1>2, <2>1, BeatenTakes DEF ResumeRetakes
  <2>2. CASE ~CanTake(server[c], RunOwner(on[c]))
    BY <1>2, <2>2 DEF ResumeRetakes, HoldIsBeaten
  <2> QED BY <2>1, <2>2
<1>3. CASE StepReports(c) \/ FinishEnds(c) \/ StepBegins(c) \/ ClaimWrites(c)
           \/ ResumeStops(c) \/ StepEnds(c) \/ \E r \in Runs : TakeOver(c, r)
  <2>1. UNCHANGED <<writer, closing, unbeaten>> /\ (device' = device \/ device' = None)
    BY <1>3 DEF StepReports, FinishEnds, StepBegins, ClaimWrites, ResumeStops, StepEnds,
        TakeOver, Releases
  <2> QED BY <2>1, BeatenKept
<1> QED BY <1>1, <1>2, <1>3 DEF CallStep

LEMMA BeatenClose ==
  ASSUME RunsInv, HoldIsBeaten, NEW p \in Servers, NEW r \in Runs, CloseStep(p, r)
  PROVE  HoldIsBeaten'
<1> TypeOK
  BY DEF RunsInv, TypeInv
<1> USE DEF setupVars, callVars, lockVars, runVars, agentVars
<1>1. CASE CloseEnds(p, r)
  <2>1. /\ closing' = closing \ {<<p, r>>} /\ UNCHANGED <<writer, unbeaten>>
        /\ device' = IF HeldBy(p, RunOwner(r)) THEN None ELSE device
    BY <1>1 DEF CloseEnds, ReleasesAny
  <2>2. \A q \in Servers, s \in Runs :
          HeldBy(q, RunOwner(s))' /\ <<q, s>> \in closing => <<q, s>> \in closing'
    BY <2>1 DEF HeldBy
  <2> QED BY <2>1, <2>2, BeatenKept
<1>2. CASE StopRun(p, r) \/ IdleTimer(p, r) \/ Sweep(p, r)
  <2>1. ClosingBegins(p, r) /\ UNCHANGED <<device, unbeaten>>
    BY <1>2 DEF StopRun, IdleTimer, Sweep
  <2>2. writer' = [writer EXCEPT ![p][r] = NoWriter] /\ closing' = closing \cup {<<p, r>>}
    BY <2>1 DEF ClosingBegins
  <2>3. \A q \in Servers, s \in Runs :
          (writer'[q][s].token = writer[q][s].token /\ (<<q, s>> \in closing => <<q, s>> \in closing'))
          \/ <<q, s>> \in closing'
    BY <2>2, WriterSet
  <2> QED BY <2>1, <2>3, BeatenKept
<1> QED BY <1>1, <1>2 DEF CloseStep

LEMMA BeatenWriter ==
  ASSUME RunsInv, HoldIsBeaten, NEW p \in Servers, NEW r \in Runs, WriterStep(p, r)
  PROVE  HoldIsBeaten'
<1> TypeOK
  BY DEF RunsInv, TypeInv
<1> USE DEF setupVars, callVars, lockVars, runVars, agentVars
<1>1. UNCHANGED <<closing, unbeaten>> /\ (device' = device \/ device' = None)
  BY DEF WriterStep, Beat, BeatFinds, BeatLoses, BeatFails, WriterLost, Releases
<1>2. CASE Beat(p, r)
  BY <1>1, <1>2, BeatenKept DEF Beat
<1>3. CASE BeatLoses(p, r) \/ BeatFails(p, r)
  <2>1. \A q \in Servers, s \in Runs : writer'[q][s].token = writer[q][s].token
    BY <1>3, WriterMoved DEF BeatLoses, BeatFails
  <2> QED BY <1>1, <2>1, BeatenKept
<1>4. CASE BeatFinds(p, r) \/ WriterLost(p, r)
  <2>1. \A q \in Servers, s \in Runs : writer'[q][s] = writer[q][s] \/ (q = p /\ s = r)
    BY <1>4, WriterSet DEF BeatFinds, WriterLost, WriterGone
  <2>2. HeldBy(p, RunOwner(r))' => device.lease # writer[p][r].token
    BY <1>4 DEF BeatFinds, WriterLost, Releases, HeldBy
  <2> QED BY <1>1, <2>1, <2>2, BeatenKept
<1> QED BY <1>2, <1>3, <1>4 DEF WriterStep

LEMMA BeatenCrash ==
  ASSUME RunsInv, HoldIsBeaten, NEW p \in Servers, Crash(p)
  PROVE  HoldIsBeaten'
<1> TypeOK
  BY DEF RunsInv, TypeInv
<1>1. unbeaten' = unbeaten /\ device' = IF device # None /\ device.by = p THEN None ELSE device
  BY DEF Crash
<1>2. \A q \in Servers, s \in Runs : q # p => writer'[q][s] = writer[q][s]
  BY DEF Crash, TypeOK
<1>3. \A q \in Servers, s \in Runs : q # p /\ <<q, s>> \in closing => <<q, s>> \in closing'
  BY DEF Crash
<1>4. \A q, s : HeldBy(q, RunOwner(s))' => q # p
  BY <1>1 DEF HeldBy
<1> QED BY <1>1, <1>2, <1>3, <1>4, BeatenKept

(* A device held for a run is beaten for by a live writer under the hold's own *)
(* token, but for a run being ended and for a hold taken past an older writer. *)
THEOREM HoldBeaten == Spec => []HoldIsBeaten
<1>1. Init => HoldIsBeaten
  BY DEF Init, HoldIsBeaten
<1>2. RunsInv /\ HoldIsBeaten /\ [Next]_vars => HoldIsBeaten'
  <2> SUFFICES ASSUME RunsInv, HoldIsBeaten, [Next]_vars PROVE HoldIsBeaten'
    OBVIOUS
  <2> USE DEF setupVars, callVars, lockVars, runVars, agentVars
  <2>1. CASE UNCHANGED vars
    BY <2>1 DEF vars, HoldIsBeaten
  <2>2. ASSUME NEW r \in Runs, LeaseAges(r) PROVE HoldIsBeaten'
    BY <2>2 DEF LeaseAges, HoldIsBeaten
  <2> QED BY <2>1, <2>2, BeatenSetup, BeatenCall, BeatenClose, BeatenWriter, BeatenCrash
        DEF Next
<1> QED BY <1>1, <1>2, RunsInit, RunsStep, PTL DEF Spec
=============================================================================
