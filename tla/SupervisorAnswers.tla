-------------------------- MODULE SupervisorAnswers ---------------------------
(***************************************************************************)
(* What the client may rely on: no forgotten call, no second answer from a *)
(* server, no late "lost" error; and the reply channel it implements.      *)
(***************************************************************************)
EXTENDS SupervisorSafety, FiniteSetTheorems

\* A final answer of a child leaves every sent call covered.
LEMMA ReplyCovers ==
  ASSUME TypeOK, OnlySent, LedgerInv, CoverInv, NEW g \in Gens, NEW r \in Req,
         PumpReply(g, r)
  PROVE  CoverInv'
<1> USE Kinds DEF clientVars, setupVars, pumpVars
<1>1. \A x \in ledger' : fwd'[x] > 0 \/ \E h \in Gens : hand'[h] = x
  <2>1. \/ ledger' = ledger /\ hand' = hand
        \/ ledger' = ledger \cup {r} /\ hand' = [hand EXCEPT ![g] = r]
    <3>1. Keep \/ PassOn(g, r)
      BY DEF PumpReply
    <3> QED
      BY <3>1 DEF PassOn, Keep
  <2>2. fwd' = fwd /\ hand[g] = NoReq
    BY DEF PumpReply, TypeOK, PumpOK
  <2> QED
    BY <2>1, <2>2, Kinds DEF CoverInv, TypeOK, PumpOK, SupOK
<1>2. \A x \in lostAns' : errs'[x] > 0
  BY DEF PumpReply, CoverInv
<1>3. ASSUME NEW x \in sent \cap ToolCalls PROVE Covered(x)'
  <2>1. Covered(x)
    BY DEF CoverInv, NeverForgotten
  <2>2. CASE r \in lostAns
    <3>1. errs[r] > 0 /\ got(r) > 0
      BY <2>2 DEF CoverInv, got, TypeOK, ClientOK, Counts
    <3> QED
      BY <2>1, <2>2, <3>1 DEF PumpReply, Keep, Covered, got
  <2>3. CASE r \notin lostAns /\ swallow /\ r = InitReq
    <3>1. armed' = armed \ {InitReq} /\ UNCHANGED <<setupHeld, hand, fwd, errs>>
      BY <2>3 DEF PumpReply, Keep
    <3> QED
      BY <2>1, <3>1 DEF Covered, got
  <2>4. CASE r \notin lostAns /\ ~(swallow /\ r = InitReq)
    <3>1. CASE x = r
      <4>1. x \in ledger'
        BY <2>4, <3>1 DEF PumpReply, PassOn
      <4>2. fwd'[x] > 0 => got(x)' > 0
        BY DEF PumpReply, got, TypeOK, ClientOK, Counts
      <4> QED
        BY <1>1, <4>1, <4>2 DEF Covered
    <3>2. CASE x # r
      <4>1. \A h \in Gens : hand[h] = x => hand'[h] = x
        BY <2>4, <3>2, Kinds DEF PumpReply, PassOn, Keep, TypeOK, PumpOK,
               ClientOK
      <4>2. setupHeld = x => setupHeld' = x
        BY <2>4, <3>2, Kinds DEF PumpReply, ResetSetup, TypeOK, SetupOK
      <4> QED
        BY <2>1, <3>2, <4>1, <4>2 DEF PumpReply, Keep, Covered, got
    <3> QED
      BY <3>1, <3>2
  <2> QED
    BY <2>2, <2>3, <2>4
<1> QED
  BY <1>1, <1>2, <1>3 DEF CoverInv, NeverForgotten, PumpReply

\* So does a reload notice, held or passed on.
LEMMA NoticeCovers ==
  ASSUME TypeOK, OnlySent, LedgerInv, CoverInv, NEW g \in Gens, NEW r \in Req,
         PumpNotice(g, r)
  PROVE  CoverInv'
<1> USE Kinds DEF clientVars, setupVars, pumpVars
<1>1. \A x \in ledger' : fwd'[x] > 0 \/ \E h \in Gens : hand'[h] = x
  <2>1. \/ ledger' = ledger /\ hand' = hand
        \/ ledger' = ledger \cup {r} /\ hand' = [hand EXCEPT ![g] = r]
    <3>1. Keep \/ PassOn(g, r)
      BY DEF PumpNotice
    <3> QED
      BY <3>1 DEF PassOn, Keep
  <2>2. fwd' = fwd /\ hand[g] = NoReq
    BY DEF PumpNotice, TypeOK, PumpOK
  <2> QED
    BY <2>1, <2>2, Kinds DEF CoverInv, TypeOK, PumpOK, SupOK
<1>2. \A x \in lostAns' : errs'[x] > 0
  BY DEF PumpNotice, CoverInv
<1>3. ASSUME NEW x \in sent \cap ToolCalls PROVE Covered(x)'
  <2>1. Covered(x)
    BY DEF CoverInv, NeverForgotten
  <2>2. CASE r \in lostAns
    <3>1. errs[r] > 0 /\ got(r) > 0
      BY <2>2 DEF CoverInv, got, TypeOK, ClientOK, Counts
    <3> QED
      BY <2>1, <2>2, <3>1 DEF PumpNotice, Keep, Covered, got
  <2>3. CASE setupHeld' = r /\ setupId = r /\ hand' = hand
    BY <2>1, <2>3 DEF PumpNotice, Covered, got, TypeOK, SetupOK
  <2>4. CASE PassOn(g, r) /\ (setupId = r \/ setupHeld' = setupHeld)
    <3>1. CASE x = r
      <4>1. x \in ledger'
        BY <2>4, <3>1 DEF PassOn
      <4>2. fwd'[x] > 0 => got(x)' > 0
        BY DEF PumpNotice, got, TypeOK, ClientOK, Counts
      <4> QED
        BY <1>1, <4>1, <4>2 DEF Covered
    <3>2. CASE x # r
      <4>1. \A h \in Gens : hand[h] = x => hand'[h] = x
        BY <2>4, <3>2, Kinds DEF PumpNotice, PassOn, Keep, TypeOK, PumpOK,
               ClientOK
      <4>2. setupHeld = x => setupHeld' = x
        BY <2>4, <3>2, Kinds DEF TypeOK, SetupOK
      <4> QED
        BY <2>1, <3>2, <4>1, <4>2 DEF PumpNotice, Keep, Covered, got
    <3> QED
      BY <3>1, <3>2
  <2> QED
    BY <2>2, <2>3, <2>4 DEF PumpNotice, Keep
<1> QED
  BY <1>1, <1>2, <1>3 DEF CoverInv, NeverForgotten, PumpNotice

\* No step forgets a call: with one qa-doctor a held notice is never replaced.
LEMMA CoverStep ==
  CoverAssumption /\ TypeOK /\ OnlySent /\ LedgerInv /\ CoverInv /\ [Next]_vars => CoverInv'
<1> SUFFICES ASSUME CoverAssumption, TypeOK, OnlySent, LedgerInv, CoverInv,
       [Next]_vars
             PROVE  CoverInv'
  OBVIOUS
<1> USE Kinds DEF clientVars, intakeVars, supVars, wireVars, setupVars,
       procVars, pumpVars
<1>1. ASSUME NEW r \in Req, Intake(r)
      PROVE  CoverInv'
  BY <1>1
     DEF CoverAssumption, OneDoctor, Intake, CoverInv, NeverForgotten,
         Covered, got, OnlySent, TypeOK, SupOK, ClientOK, SetupOK
<1>2. ASSUME NEW r \in Req, LostTimer(r)
      PROVE  CoverInv'
  BY <1>2
     DEF LostTimer, CoverInv, NeverForgotten, Covered, got, TypeOK, WireOK,
         SetupOK, ClientOK, PumpOK, Counts
<1>3. ASSUME Record
      PROVE  CoverInv'
  BY <1>3
     DEF Record, CoverInv, NeverForgotten, Covered, got, TypeOK, WireOK,
         SetupOK, ClientOK, PumpOK, Counts
<1>4. ASSUME Wake
      PROVE  CoverInv'
  BY <1>4
     DEF Wake, Spawn, SpawnFails, BackOff, CoverInv, NeverForgotten, Covered,
         got, TypeOK, WireOK, SetupOK, ClientOK, PumpOK, Counts
<1>5. ASSUME Write
      PROVE  CoverInv'
  BY <1>5
     DEF Write, BackOff, CoverInv, NeverForgotten, Covered, got, TypeOK,
         WireOK, SetupOK, ClientOK, PumpOK, Counts
<1>6. ASSUME GiveUp
      PROVE  CoverInv'
  BY <1>6
     DEF GiveUp, FailRequests, CoverInv, NeverForgotten, Covered, got, TypeOK,
         WireOK, SetupOK, ClientOK, PumpOK, Counts
<1>7. ASSUME NEW g \in Gens, NEW r \in Req, ChildRead(g, r)
      PROVE  CoverInv'
  BY <1>7
     DEF ChildRead, CoverInv, NeverForgotten, Covered, got, TypeOK, WireOK,
         SetupOK, ClientOK, PumpOK, Counts
<1>8. ASSUME NEW g \in Gens, NEW r \in Req, ChildReply(g, r)
      PROVE  CoverInv'
  BY <1>8
     DEF ChildReply, CoverInv, NeverForgotten, Covered, got, TypeOK, WireOK,
         SetupOK, ClientOK, PumpOK, Counts
<1>9. ASSUME NEW g \in Gens, NEW how \in {"idle", "gone"}, ChildExit(g, how)
      PROVE  CoverInv'
  BY <1>9
     DEF ChildExit, CoverInv, NeverForgotten, Covered, got, TypeOK, WireOK,
         SetupOK, ClientOK, PumpOK, Counts
<1>10. ASSUME NEW g \in Gens, NEW r \in Req, PumpReply(g, r)
      PROVE  CoverInv'
  BY <1>10, ReplyCovers
<1>11. ASSUME NEW g \in Gens, NEW r \in Req, PumpNotice(g, r)
      PROVE  CoverInv'
  BY <1>11, NoticeCovers
<1>12. ASSUME NEW g \in Gens, PumpWrite(g)
      PROVE  CoverInv'
  BY <1>12
     DEF PumpWrite, CoverInv, NeverForgotten, Covered, got, TypeOK, WireOK,
         SetupOK, ClientOK, PumpOK, Counts
<1>13. ASSUME NEW g \in Gens, PumpEOF(g)
      PROVE  CoverInv'
  BY <1>13
     DEF PumpEOF, AtEOF, CoverInv, NeverForgotten, Covered, got, TypeOK,
         WireOK, SetupOK, ClientOK, PumpOK, Counts
<1>14. ASSUME NEW g \in Gens, MarkIdle(g)
      PROVE  CoverInv'
  BY <1>14
     DEF MarkIdle, Unanswered, CoverInv, NeverForgotten, Covered, got, TypeOK,
         WireOK, SetupOK, ClientOK, PumpOK, Counts
<1>15. ASSUME NEW g \in Gens, CrashSeen(g)
      PROVE  CoverInv'
  BY <1>15
     DEF CrashSeen, CoverInv, NeverForgotten, Covered, got, TypeOK, WireOK,
         SetupOK, ClientOK, PumpOK, Counts
<1>16. ASSUME NEW g \in Gens, ResendWake(g)
      PROVE  CoverInv'
  BY <1>16
     DEF ResendWake, Spawn, SpawnFails, FailRequests, CoverInv,
         NeverForgotten, Covered, got, TypeOK, WireOK, SetupOK, ClientOK,
         PumpOK, Counts
<1>17. ASSUME NEW g \in Gens, ResendWrite(g)
      PROVE  CoverInv'
  BY <1>17
     DEF ResendWrite, FailRequests, CoverInv, NeverForgotten, Covered, got,
         TypeOK, WireOK, SetupOK, ClientOK, PumpOK, Counts
<1>18. ASSUME NEW g \in Gens, CrashAsk(g)
      PROVE  CoverInv'
  BY <1>18
     DEF CrashAsk, RestartAsk, CoverInv, NeverForgotten, Covered, got, TypeOK,
         WireOK, SetupOK, ClientOK, PumpOK, Counts
<1>19. ASSUME NEW g \in Gens, CrashNote(g)
      PROVE  CoverInv'
  BY <1>19
     DEF CrashNote, CoverInv, NeverForgotten, Covered, got, TypeOK, WireOK,
         SetupOK, ClientOK, PumpOK, Counts
<1>20. ASSUME NEW g \in Gens, CrashRestart(g)
      PROVE  CoverInv'
  BY <1>20
     DEF CrashRestart, RestartChild, Spawn, SpawnFails, Terminated, CoverInv,
         NeverForgotten, Covered, got, TypeOK, WireOK, SetupOK, ClientOK,
         PumpOK, Counts
<1>21. ASSUME NEW g \in Gens, Resetup(g)
      PROVE  CoverInv'
  BY <1>21
     DEF Resetup, CoverInv, NeverForgotten, Covered, got, TypeOK, WireOK,
         SetupOK, ClientOK, PumpOK, Counts
<1>22. ASSUME NEW g \in Gens, Requery(g)
      PROVE  CoverInv'
  BY <1>22
     DEF Requery, ReleaseSetup, ResetSetup, CoverInv, NeverForgotten, Covered,
         got, TypeOK, WireOK, SetupOK, ClientOK, PumpOK, Counts
<1>23. ASSUME WatchdogAsk
      PROVE  CoverInv'
  BY <1>23
     DEF WatchdogAsk, RestartAsk, CoverInv, NeverForgotten, Covered, got,
         TypeOK, WireOK, SetupOK, ClientOK, PumpOK, Counts
<1>24. ASSUME WatchdogNote
      PROVE  CoverInv'
  BY <1>24
     DEF WatchdogNote, CoverInv, NeverForgotten, Covered, got, TypeOK, WireOK,
         SetupOK, ClientOK, PumpOK, Counts
<1>25. ASSUME WatchdogRestart
      PROVE  CoverInv'
  BY <1>25
     DEF WatchdogRestart, RestartChild, Spawn, SpawnFails, Terminated,
         CoverInv, NeverForgotten, Covered, got, TypeOK, WireOK, SetupOK,
         ClientOK, PumpOK, Counts
<1>26. ASSUME Updated
      PROVE  CoverInv'
  BY <1>26
     DEF Updated, CoverInv, NeverForgotten, Covered, got, TypeOK, WireOK,
         SetupOK, ClientOK, PumpOK, Counts
<1>27. ASSUME GuardRelease
      PROVE  CoverInv'
  BY <1>27
     DEF GuardRelease, ReleaseSetup, ResetSetup, CoverInv, NeverForgotten,
         Covered, got, TypeOK, WireOK, SetupOK, ClientOK, PumpOK, Counts
<1>28. CASE UNCHANGED vars
  BY <1>28
     DEF vars, CoverInv, NeverForgotten, Covered, got, TypeOK, WireOK,
         SetupOK, ClientOK, PumpOK, Counts
<1> QED
  BY <1>1, <1>2, <1>3, <1>4, <1>5, <1>6, <1>7, <1>8, <1>9, <1>10, <1>11,
     <1>12, <1>13, <1>14, <1>15, <1>16, <1>17, <1>18, <1>19, <1>20, <1>21,
     <1>22, <1>23, <1>24, <1>25, <1>26, <1>27, <1>28
     DEF Next, IntakeStep, ChildStep, PumpStep, WatchdogStep

\* A thread that keeps what is about to be re-sent keeps idle requests in sight.
LEMMA ResendKept ==
  ASSUME IdleStrandsNothing, idled' => idled, pending' \subseteq pending, cur' = cur,
         \A h \in Gens : pump[h] = "resend" => pump'[h] = "resend" /\ lost'[h] = lost[h]
  PROVE  IdleStrandsNothing'
BY DEF IdleStrandsNothing

\* A restart, whether its spawn raises or not, leaves no live child but its own.
LEMMA RestartIdle ==
  ASSUME TypeOK, IdleInv, NEW next \in [Gens -> PumpStates], NEW failed,
         \A h \in Gens : pump[h] = "resend" => next[h] = "resend" /\ failed[h] = "resend",
         RestartChild(next, failed), UNCHANGED <<intakeVars, idled, pending, lost>>
  PROVE  IdleInv'
<1> USE DEF intakeVars
<1>1. \A h \in Gens : Terminated[h] = "up" => proc[h] = "up" /\ h # child
  BY DEF Terminated, TypeOK, ProcOK, SupOK
<1>2. CASE SpawnFails /\ pump' = failed /\ child' = child
  <2>1. IdleStrandsNothing'
    BY <1>2, ResendKept DEF IdleInv
  <2>2. WriteAwake'
    BY <1>1, <1>2 DEF SpawnFails, IdleInv, WriteAwake, TypeOK, IntakeOK
  <2> QED
    BY <2>1, <2>2 DEF IdleInv
<1>3. CASE Spawn(Terminated) /\ pump' = [next EXCEPT ![child + 1] = "read"]
  <2>1. child + 1 \in Gens /\ child' = child + 1 /\ child \in Nat
        /\ proc' = [Terminated EXCEPT ![child + 1] = "up"]
    BY <1>3 DEF Spawn, TypeOK, SupOK, Gens
  <2>2. pump[child + 1] = "none"
    BY <2>1 DEF TypeOK, PumpOK, Gens
  <2>3. IdleStrandsNothing'
    BY <1>3, <2>2, ResendKept DEF IdleInv
  <2>4. target <= child' /\ target # child + 1 /\ target \in Gens
    BY <2>1 DEF IdleInv, WriteAwake, TypeOK, IntakeOK, Gens
  <2>5. WriteAwake'
    BY <1>1, <2>1, <2>4 DEF IdleInv, WriteAwake
  <2> QED
    BY <2>3, <2>5 DEF IdleInv
<1> QED
  BY <1>2, <1>3 DEF RestartChild

\* The line a wake lets through is for the current child, which is then awake.
LEMMA WakeIdle ==
  ASSUME TypeOK, OnlySent, IdleInv, Wake
  PROVE  IdleInv'
<1>1. CASE Awake /\ UNCHANGED <<child, idled, pending, pump, proc>>
           /\ ipc' = "write" /\ target' = child
  BY <1>1, ResendKept
     DEF Wake, Awake, IdleInv, WriteAwake, TypeOK, SupOK, Gens, pumpVars
<1>2. CASE Spawn(proc) /\ idled' = FALSE /\ ipc' = "write" /\ target' = child'
  BY <1>2 DEF Spawn, IdleInv, WriteAwake, IdleStrandsNothing, Gens
<1>3. CASE BackOff /\ Reap(pump) /\ UNCHANGED <<target, child, idled>>
  <2>1. ipc' \in {"record", "fail"} /\ pending' \subseteq pending
    BY <1>3 DEF BackOff
  <2>2. cur' = cur /\ lost' = lost
    BY DEF Wake
  <2>3. \A h \in Gens : pump[h] = "resend" => pump'[h] = "resend"
    BY <1>3 DEF Reap, TypeOK, PumpOK
  <2> QED
    BY <1>3, <2>1, <2>2, <2>3, ResendKept DEF IdleInv, WriteAwake
<1> QED
  BY <1>1, <1>2, <1>3 DEF Wake

\* The thread that flags the idle-out takes over everything on record.
LEMMA MarkIdleIdle ==
  ASSUME TypeOK, IdleInv, NEW g \in Gens, MarkIdle(g)
  PROVE  IdleInv'
<1> USE DEF intakeVars, procVars
<1>1. proc[g] = "idle" /\ UNCHANGED <<ipc, cur, target, child, proc, pending>>
  BY DEF MarkIdle
<1>2. CASE child = g /\ lost' = [lost EXCEPT ![g] = pending]
           /\ pump' = [pump EXCEPT ![g] = IF pending = {} THEN "done" ELSE "resend"]
  <2>1. lost'[g] = pending /\ (pending # {} => pump'[g] = "resend")
    BY <1>2 DEF TypeOK, PumpOK
  <2>2. IdleStrandsNothing'
    BY <1>1, <2>1 DEF IdleStrandsNothing
  <2>3. WriteAwake'
    BY <1>1, <1>2 DEF IdleInv, WriteAwake
  <2> QED
    BY <2>2, <2>3 DEF IdleInv
<1>3. CASE pump' = [pump EXCEPT ![g] = "done"] /\ UNCHANGED <<idled, lost>>
  <2>1. pump[g] = "reap"
    BY DEF MarkIdle
  <2> QED
    BY <1>1, <1>3, <2>1, ResendKept DEF IdleInv, WriteAwake
<1> QED
  BY <1>2, <1>3 DEF MarkIdle, Unanswered

\* A pump that re-sends either finds the child awake, wakes it, or answers all.
LEMMA ResendWakeIdle ==
  ASSUME TypeOK, IdleInv, NEW g \in Gens, ResendWake(g)
  PROVE  IdleInv'
<1> USE DEF intakeVars
<1>1. UNCHANGED <<ipc, cur, target>>
  BY DEF ResendWake
<1>2. CASE ~idled /\ UNCHANGED <<child, idled, proc>>
  BY <1>1, <1>2 DEF IdleInv, WriteAwake, IdleStrandsNothing
<1>3. CASE idled /\ Spawn(proc) /\ idled' = FALSE
  <2>1. child' = child + 1 /\ proc' = [proc EXCEPT ![child + 1] = "up"] /\ child \in Nat
    BY <1>3 DEF Spawn, TypeOK, SupOK, Gens
  <2>2. target <= child /\ target \in Nat /\ target # child + 1
    BY <2>1 DEF IdleInv, WriteAwake, TypeOK, IntakeOK, Gens
  <2> QED
    BY <1>1, <1>3, <2>1, <2>2 DEF IdleInv, WriteAwake, IdleStrandsNothing
<1>4. CASE /\ FailRequests(lost[g]) /\ lost' = [lost EXCEPT ![g] = {}] /\ SpawnFails
           /\ Reap([pump EXCEPT ![g] = "done"]) /\ UNCHANGED <<child, idled>>
  <2>1. pending' = pending \ lost[g]
    BY <1>4 DEF FailRequests
  <2>2. \A h \in Gens \ {g} : /\ pump[h] = "resend" => pump'[h] = "resend"
                              /\ lost'[h] = lost[h]
    BY <1>4 DEF Reap, TypeOK, PumpOK
  <2>3. IdleStrandsNothing'
    BY <1>1, <1>4, <2>1, <2>2 DEF IdleInv, IdleStrandsNothing
  <2>4. proc'[target] = "up" => proc[target] = "up"
    BY <1>4, TerminatedOnly DEF SpawnFails, TypeOK, IntakeOK
  <2>5. WriteAwake'
    BY <1>1, <1>4, <2>4 DEF IdleInv, WriteAwake
  <2> QED
    BY <2>3, <2>5 DEF IdleInv
<1> QED
  BY <1>2, <1>3, <1>4 DEF ResendWake

\* No step leaves a request behind while the child is down for idleness.
LEMMA IdleStep ==
  TypeOK /\ OnlySent /\ IdleInv /\ [Next]_vars => IdleInv'
<1> SUFFICES ASSUME TypeOK, OnlySent, IdleInv, [Next]_vars
             PROVE  IdleInv'
  OBVIOUS
<1> USE Kinds DEF clientVars, intakeVars, supVars, wireVars, setupVars,
       procVars, pumpVars, IdleInv, WriteAwake, IdleStrandsNothing, TypeOK,
       IntakeOK, SupOK, ProcOK, PumpOK, Gens
<1>1. ASSUME NEW r \in Req, Intake(r)
      PROVE  IdleInv'
  BY <1>1 DEF Intake, OnlySent
<1>2. ASSUME NEW r \in Req, LostTimer(r)
      PROVE  IdleInv'
  BY <1>2 DEF LostTimer
<1>3. ASSUME Record
      PROVE  IdleInv'
  BY <1>3 DEF Record
<1>4. ASSUME Wake
      PROVE  IdleInv'
  BY <1>4, WakeIdle
<1>5. ASSUME Write
      PROVE  IdleInv'
  BY <1>5 DEF Write, BackOff
<1>6. ASSUME GiveUp
      PROVE  IdleInv'
  BY <1>6 DEF GiveUp, FailRequests
<1>7. ASSUME NEW g \in Gens, NEW r \in Req, ChildRead(g, r)
      PROVE  IdleInv'
  BY <1>7 DEF ChildRead
<1>8. ASSUME NEW g \in Gens, NEW r \in Req, ChildReply(g, r)
      PROVE  IdleInv'
  BY <1>8 DEF ChildReply
<1>9. ASSUME NEW g \in Gens, NEW how \in {"idle", "gone"}, ChildExit(g, how)
      PROVE  IdleInv'
  BY <1>9 DEF ChildExit
<1>10. ASSUME NEW g \in Gens, NEW r \in Req, PumpReply(g, r)
      PROVE  IdleInv'
  BY <1>10 DEF PumpReply, PassOn, Keep
<1>11. ASSUME NEW g \in Gens, NEW r \in Req, PumpNotice(g, r)
      PROVE  IdleInv'
  BY <1>11 DEF PumpNotice, PassOn, Keep
<1>12. ASSUME NEW g \in Gens, PumpWrite(g)
      PROVE  IdleInv'
  BY <1>12 DEF PumpWrite
<1>13. ASSUME NEW g \in Gens, PumpEOF(g)
      PROVE  IdleInv'
  BY <1>13 DEF PumpEOF, AtEOF
<1>14. ASSUME NEW g \in Gens, MarkIdle(g)
      PROVE  IdleInv'
  BY <1>14, MarkIdleIdle
<1>15. ASSUME NEW g \in Gens, CrashSeen(g)
      PROVE  IdleInv'
  BY <1>15 DEF CrashSeen
<1>16. ASSUME NEW g \in Gens, ResendWake(g)
      PROVE  IdleInv'
  BY <1>16, ResendWakeIdle
<1>17. ASSUME NEW g \in Gens, ResendWrite(g)
      PROVE  IdleInv'
  BY <1>17 DEF ResendWrite, FailRequests
<1>18. ASSUME NEW g \in Gens, CrashAsk(g)
      PROVE  IdleInv'
  BY <1>18 DEF CrashAsk, RestartAsk
<1>19. ASSUME NEW g \in Gens, CrashNote(g)
      PROVE  IdleInv'
  BY <1>19 DEF CrashNote
<1>20. ASSUME NEW g \in Gens, CrashRestart(g)
      PROVE  IdleInv'
  <2>1. RestartChild([pump EXCEPT ![g] = "resetup"], [pump EXCEPT ![g] = "done"])
        /\ pump[g] = "respawn" /\ UNCHANGED <<intakeVars, idled, pending, lost>>
    BY <1>20 DEF CrashRestart
  <2>2. [pump EXCEPT ![g] = "resetup"] \in [Gens -> PumpStates]
    BY DEF PumpStates
  <2> QED
    BY <2>1, <2>2, RestartIdle
<1>21. ASSUME NEW g \in Gens, Resetup(g)
      PROVE  IdleInv'
  <2>1. pump[g] = "resetup" /\ UNCHANGED <<ipc, cur, target, child, idled, pending, proc>>
    BY <1>21 DEF Resetup
  <2>2. \A h \in Gens \ {g} : pump'[h] = pump[h] /\ lost'[h] = lost[h]
    BY <1>21 DEF Resetup
  <2>3. \A h \in Gens : pump[h] = "resend" => pump'[h] = "resend" /\ lost'[h] = lost[h]
    BY <2>1, <2>2
  <2>4. IdleStrandsNothing'
    BY <2>1, <2>3, ResendKept
  <2> QED
    BY <2>1, <2>4
<1>22. ASSUME NEW g \in Gens, Requery(g)
      PROVE  IdleInv'
  BY <1>22 DEF Requery
<1>23. ASSUME WatchdogAsk
      PROVE  IdleInv'
  BY <1>23 DEF WatchdogAsk
<1>24. ASSUME WatchdogNote
      PROVE  IdleInv'
  BY <1>24 DEF WatchdogNote
<1>25. ASSUME WatchdogRestart
      PROVE  IdleInv'
  <2>1. RestartChild(pump, pump) /\ UNCHANGED <<intakeVars, idled, pending, lost>>
    BY <1>25 DEF WatchdogRestart
  <2> QED
    BY <2>1, RestartIdle
<1>26. ASSUME Updated
      PROVE  IdleInv'
  BY <1>26 DEF Updated
<1>27. ASSUME GuardRelease
      PROVE  IdleInv'
  BY <1>27 DEF GuardRelease
<1>28. CASE UNCHANGED vars
  BY <1>28 DEF vars
<1> QED
  BY <1>1, <1>2, <1>3, <1>4, <1>5, <1>6, <1>7, <1>8, <1>9, <1>10,
     <1>11, <1>12, <1>13, <1>14, <1>15, <1>16, <1>17, <1>18, <1>19,
     <1>20, <1>21, <1>22, <1>23, <1>24, <1>25, <1>26, <1>27, <1>28
     DEF Next, IntakeStep, ChildStep, PumpStep, WatchdogStep

\* Before the first request every table is empty.
LEMMA SafetyInit ==
  Init => OnlySent /\ UnreadSent /\ OthersSent /\ LedgerInv /\ TimerInv /\ CoverInv
          /\ IdleInv
BY Kinds DEF Init, OnlySent, UnreadSent, OthersSent, LedgerInv, ForwardOnce,
     TimerInv, CoverInv, NeverForgotten, Nobody, IdleInv, WriteAwake,
     IdleStrandsNothing

\* Inductive is an invariant: what every thread of the launcher may rely on.
THEOREM InductiveCorrect == Spec => []Inductive
<1>1. Init => Inductive
  BY TypeInit, SafetyInit DEF Inductive
<1>2. Inductive /\ [Next]_vars => Inductive'
  BY TypeStep, SentStep, UnreadStep, OthersStep, LedgerStep,
         TimerStep, IdleStep DEF Inductive
<1> QED
  BY <1>1, <1>2, PTL DEF Spec

\* At most one child reply per request id reaches the client, across any number
\* of respawns, re-sends and qa-doctor retries (ReplyLedger in _pump_child_out).
THEOREM ForwardOnceCorrect == Spec => []ForwardOnce
<1>1. Inductive => ForwardOnce
  BY DEF Inductive, LedgerInv
<1> QED
  BY <1>1, InductiveCorrect, PTL

\* The wire watchdog never adds a "lost" error to an id the client already has an
\* answer for (WireLog._disarm, fail_request).
THEOREM NoContradictionCorrect == Spec => []NoContradiction
<1>1. Inductive => NoContradiction
  BY DEF Inductive, LedgerInv, TimerInv, NoContradiction, got, TypeOK, WireOK,
         ClientOK, Counts, ToolCalls, Req
<1> QED
  BY <1>1, InductiveCorrect, PTL

\* With a wire log and one qa-doctor call per session, every sent tools/call is
\* answered or some timer, pump or guard thread still owes it the answer.
THEOREM NeverForgottenCorrect == CoverAssumption /\ Spec => []NeverForgotten
<1>1. Init => CoverInv
  BY SafetyInit
<1>2. CoverAssumption /\ Inductive /\ CoverInv /\ [Next]_vars => CoverInv'
  BY CoverStep DEF Inductive
<1>3. CoverInv => NeverForgotten
  BY DEF CoverInv
<1>4. CoverAssumption => CoverAssumption'
  BY DEF CoverAssumption, OneDoctor
<1> QED
  BY <1>1, <1>2, <1>3, <1>4, InductiveCorrect, PTL DEF Spec

\* While the child is down for idleness every request on record is in the hands
\* of the intake thread or of a pump about to re-send it (_mark_idle, _resend,
\* wake_child, forward_client_line), whichever of the spawns raise.
THEOREM IdleStrandsNothingCorrect == Spec => []IdleStrandsNothing
<1>1. Inductive => IdleStrandsNothing
  BY DEF Inductive, IdleInv
<1> QED
  BY <1>1, InductiveCorrect, PTL

\* A dead child that did not idle out is replaced by its own pump, unless a spawn
\* has raised, whatever the watchdog and the other pumps do meanwhile
\* (_pump_child_out after EOF, restart_child).
THEOREM DeadIsReplacedCorrect == Spec => []DeadIsReplaced
<1>1. Init => RespawnInv
  BY BoundsAssumption DEF Init, RespawnInv, DeadIsReplaced, Gens
<1>2. TypeOK /\ RespawnInv /\ [Next]_vars => RespawnInv'
  BY RespawnStep
<1>3. RespawnInv => DeadIsReplaced
  BY DEF RespawnInv
<1> QED
  BY <1>1, <1>2, <1>3, TypeCorrect, PTL DEF Spec

\* A set of children can be counted.
LEMMA GensFinite ==
  ASSUME NEW S \in SUBSET Gens
  PROVE  IsFiniteSet(S) /\ Cardinality(S) \in Nat
<1>1. MaxFaults + MaxSpawnFails + 1 \in Int /\ 1 \in Int
  BY BoundsAssumption
<1>2. IsFiniteSet(Gens)
  BY <1>1, FS_Interval DEF Gens
<1> QED BY <1>2, FS_Subset, FS_CardinalityType

\* A pump that turns to a restart, or from one, is one more or one less.
LEMMA RestartersMove ==
  ASSUME NEW g \in Gens, \A h \in Gens \ {g} : Due(h)' <=> Due(h)
  PROVE  /\ (Due(g)' <=> Due(g)) => Restarters' = Restarters
         /\ Due(g)' /\ ~Due(g) => Cardinality(Restarters') = Cardinality(Restarters) + 1
         /\ ~Due(g)' /\ Due(g) => Cardinality(Restarters') = Cardinality(Restarters) - 1
         /\ Cardinality(Restarters) \in Nat /\ Cardinality(Restarters') \in Nat
<1>1. Restarters \in SUBSET Gens /\ Restarters' \in SUBSET Gens
  BY DEF Restarters
<1>2. /\ IsFiniteSet(Restarters)
      /\ Cardinality(Restarters) \in Nat /\ Cardinality(Restarters') \in Nat
  BY <1>1, GensFinite
<1>3. ASSUME Due(g)' <=> Due(g) PROVE Restarters' = Restarters
  BY <1>3 DEF Restarters
<1>4. ASSUME Due(g)', ~Due(g)
      PROVE  Cardinality(Restarters') = Cardinality(Restarters) + 1
  <2>1. Restarters' = Restarters \cup {g} /\ g \notin Restarters
    BY <1>4 DEF Restarters
  <2> QED BY <1>2, <2>1, FS_AddElement
<1>5. ASSUME ~Due(g)', Due(g)
      PROVE  Cardinality(Restarters') = Cardinality(Restarters) - 1
  <2>1. Restarters' = Restarters \ {g} /\ g \in Restarters
    BY <1>5 DEF Restarters
  <2> QED BY <1>2, <2>1, FS_RemoveElement
<1> QED BY <1>2, <1>3, <1>4, <1>5

\* Nobody turns to a restart.
LEMMA RestartersSame ==
  ASSUME \A h \in Gens : Due(h)' <=> Due(h)
  PROVE  Restarters' = Restarters
BY DEF Restarters

LEMMA Shift ==
  ASSUME NEW a \in Nat, NEW m \in Nat, NEW n \in Int, n <= m
  PROVE  a + n <= a + m
OBVIOUS

LEMMA NoMore ==
  ASSUME NEW a \in Nat, NEW b \in Nat, NEW m \in Nat, NEW n \in Int, NEW f \in Nat,
         NEW e \in Nat, b + n <= a + m, a + m <= f, f <= e
  PROVE  b + n <= e
OBVIOUS

LEMMA OneMore ==
  ASSUME NEW a \in Nat, NEW m \in Nat, NEW n \in Int, NEW f \in Nat,
         a + n <= a + m + 1, a + m <= f + 1
  PROVE  a + n <= f + 1 + 1
OBVIOUS

\* One failed spawn more, within the bound, is all the bookkeeping it needs.
LEMMA FailedOnce ==
  ASSUME TypeOK, SpawnInv, SpawnFails
  PROVE  /\ spawnFails' = spawnFails + 1 /\ spawnFails' <= MaxSpawnFails
         /\ spawnFails' \in Nat /\ proc' = Terminated
BY BoundsAssumption DEF SpawnFails, TypeOK, BoundOK

LEMMA BudgetKept ==
  ASSUME TypeOK, faults' = faults, spawnFails' \in {spawnFails, spawnFails + 1}
  PROVE  Budget + 1 \in Nat /\ Budget' + 1 \in Nat /\ Budget + 1 <= Budget' + 1
<1>1. faults \in Nat /\ spawnFails \in Nat
  BY DEF TypeOK, BoundOK
<1>2. CASE spawnFails' = spawnFails
  BY <1>1, <1>2 DEF Budget
<1>3. CASE spawnFails' = spawnFails + 1
  BY <1>1, <1>3 DEF Budget
<1> QED BY <1>2, <1>3

\* Spare faults may be forgotten.
LEMMA SpawnForgets ==
  ASSUME TypeOK, SpawnInv, faults' = faults, UNCHANGED spawnFails \/ SpawnFails,
         Spares \in Nat, Spares' \in Int,
         child' + Spares' <= child + Spares, child' \in Nat
  PROVE  SpawnInv'
<1>1. child \in Nat /\ faults \in Nat /\ spawnFails \in Nat
  BY DEF TypeOK, SupOK, BoundOK, Gens
<1>2. spawnFails' \in {spawnFails, spawnFails + 1} /\ spawnFails' <= MaxSpawnFails
  BY FailedOnce DEF SpawnInv
<1>3. /\ Budget + 1 \in Nat /\ Budget' + 1 \in Nat /\ Budget + 1 <= Budget' + 1
  BY <1>2, BudgetKept
<1>4. child' + Spares' <= Budget' + 1
  <2>1. child + Spares <= Budget + 1
    BY DEF SpawnInv
  <2> QED BY <1>1, <1>3, <2>1, NoMore
<1> QED BY <1>2, <1>4 DEF SpawnInv

\* A fault, or a spawn that raised, pays for one more.
LEMMA SpawnPays ==
  ASSUME TypeOK, SpawnInv, Budget' = Budget + 1,
         faults' <= MaxFaults, spawnFails' <= MaxSpawnFails, child' = child,
         Spares \in Nat, Spares' \in Int, Spares' <= Spares + 1
  PROVE  SpawnInv'
<1>1. child \in Nat /\ Budget \in Nat
  BY DEF TypeOK, SupOK, BoundOK, Gens, Budget
<1>2. child + Spares <= Budget + 1
  BY DEF SpawnInv
<1>3. child + Spares' <= child + Spares + 1
  <2>1. Spares + 1 \in Nat /\ (child + Spares) + 1 = child + (Spares + 1)
    BY <1>1
  <2> QED BY <1>1, <2>1, Shift
<1>4. child' + Spares' <= Budget' + 1
  BY <1>1, <1>2, <1>3, OneMore
<1> QED BY <1>4 DEF SpawnInv

\* What a spawn is made for is a fault that no spawn has been made for.
LEMMA SpawnFrame ==
  ASSUME TypeOK, SpawnInv, UNCHANGED <<child, idled, restarting, faults, spawnFails>>,
         asker' = "respawn" => asker = "respawn", proc'[child] = proc[child], \A h \in Gens : Due(h)' <=> Due(h),
         pump'[child] \in {"read", "hand"} => pump[child] \in {"read", "hand"}
  PROVE  SpawnInv'
<1>1. Restarters' = Restarters /\ (Unseen' => Unseen)
  BY RestartersSame DEF Unseen
<1>2. Cardinality(Restarters) \in Nat /\ child \in Nat
  BY GensFinite DEF Restarters, TypeOK, SupOK, Gens
<1>3. Spares \in Nat /\ Spares' \in Nat /\ child' + Spares' <= child + Spares
  BY <1>1, <1>2 DEF Spares, One
<1> QED
  BY <1>2, <1>3, SpawnForgets

\* A fault pays for one spawn: of the child that ended, or of who asked.
LEMMA SpawnFault ==
  ASSUME TypeOK, SpawnInv, child' = child, idled' = idled, Restarters' = Restarters,
         faults' = faults + 1, faults < MaxFaults, spawnFails' = spawnFails,
         asker' = asker \/ (Unseen' <=> Unseen)
  PROVE  SpawnInv'
<1>1. Cardinality(Restarters) \in Nat
  BY GensFinite DEF Restarters
<1>2. Spares \in Nat /\ Spares' \in Int /\ Spares' <= Spares + 1
  BY <1>1 DEF Spares, One
<1>3. Budget' = Budget + 1 /\ faults' <= MaxFaults /\ spawnFails' <= MaxSpawnFails
  BY BoundsAssumption DEF Budget, SpawnInv, TypeOK, BoundOK
<1> QED BY <1>2, <1>3, SpawnPays

\* A wake whose spawn raises may kill a live child that its pump has yet to see
\* the end of: the failed spawn stands for that child's replacement.
LEMMA SpawnWakeFails ==
  ASSUME TypeOK, SpawnInv, SpawnFails, UNCHANGED <<child, idled, asker, faults>>,
         \A h \in Gens : Due(h)' <=> Due(h)
  PROVE  SpawnInv'
<1>1. Restarters' = Restarters /\ Cardinality(Restarters) \in Nat
  BY RestartersSame, GensFinite DEF Restarters
<1>2. Spares \in Nat /\ Spares' \in Int /\ Spares' <= Spares + 1
  BY <1>1 DEF Spares, One
<1>3. Budget' = Budget + 1 /\ faults' <= MaxFaults /\ spawnFails' <= MaxSpawnFails
  BY FailedOnce DEF Budget, SpawnInv, TypeOK, BoundOK
<1> QED BY <1>2, <1>3, SpawnPays

\* A new child's pump did not run before.
LEMMA NewPump ==
  ASSUME TypeOK, NEW P, Spawn(P)
  PROVE  child + 1 \in Gens /\ pump[child + 1] = "none"
BY DEF TypeOK, SupOK, PumpOK, Spawn, Gens

\* A spawn that ends an idle-out or a request to restart uses up its fault.
LEMMA SpawnSpends ==
  ASSUME TypeOK, SpawnInv, NEW P \in [Gens -> {"none", "up", "idle", "gone"}], Spawn(P),
         UNCHANGED <<faults, spawnFails>>,
         One(idled)' + One(asker = "respawn")' + Cardinality(Restarters')
           = One(idled) + One(asker = "respawn") + Cardinality(Restarters) - 1
  PROVE  SpawnInv'
<1>1. child' = child + 1 /\ child' \in Gens /\ proc'[child'] = "up"
  BY DEF Spawn
<1>2. ~Unseen'
  BY <1>1 DEF Unseen
<1>3. Cardinality(Restarters) \in Nat /\ Cardinality(Restarters') \in Nat
  BY GensFinite DEF Restarters
<1>4. child \in Nat /\ child' \in Nat
  BY <1>1 DEF TypeOK, SupOK, Gens
<1>5. Spares \in Nat /\ Spares' \in Int
  BY <1>3 DEF Spares, One
<1>6. child' + Spares' <= child + Spares
  BY <1>1, <1>2, <1>3, <1>4 DEF Spares, One
<1> QED
  BY <1>4, <1>5, <1>6, SpawnForgets

\* restart_child uses up the fault it was called for; when its spawn raises, the
\* fault is forgotten.  The caller's own table or pump says what it was called for.
LEMMA SpawnRestart ==
  ASSUME TypeOK, SpawnInv, NEW next, NEW failed, RestartChild(next, failed),
         idled' = idled, faults' = faults,
         One(asker = "respawn")' + Cardinality(Restarters')
           = One(asker = "respawn") + Cardinality(Restarters) - 1
  PROVE  SpawnInv'
<1>1. Cardinality(Restarters) \in Nat /\ Cardinality(Restarters') \in Nat
  BY GensFinite DEF Restarters
<1>2. CASE Spawn(Terminated) /\ UNCHANGED spawnFails
  <2>1. Terminated \in [Gens -> {"none", "up", "idle", "gone"}]
    BY TerminatedType DEF TypeOK
  <2>2. One(idled)' + One(asker = "respawn")' + Cardinality(Restarters')
          = One(idled) + One(asker = "respawn") + Cardinality(Restarters) - 1
    BY <1>1 DEF One
  <2> QED BY <1>2, <2>1, <2>2, SpawnSpends
<1>3. CASE SpawnFails /\ child' = child /\ restarting' = TRUE
  <2>1. ~Unseen'
    BY <1>3 DEF Unseen
  <2>2. Spares \in Nat /\ Spares' \in Int
    BY <1>1, <2>1 DEF Spares, One
  <2>3. child \in Nat
    BY DEF TypeOK, SupOK, Gens
  <2>4. child' + Spares' <= child + Spares
    BY <1>1, <1>3, <2>1, <2>3 DEF Spares, One
  <2> QED BY <1>3, <2>2, <2>3, <2>4, SpawnForgets
<1> QED BY <1>2, <1>3 DEF RestartChild

\* A pump thread that moves alone.
LEMMA SpawnMove ==
  ASSUME TypeOK, SpawnInv, NEW g \in Gens, NEW s,
         UNCHANGED <<child, asker, restarting, faults, spawnFails, proc>>,
         pump' = [pump EXCEPT ![g] = s],
         \/ /\ idled' = idled
            /\ \/ s \in {"read", "hand"} /\ pump[g] \in {"read", "hand"}
               \/ s \notin {"read", "hand"} /\ (Due(g)' => Due(g))
         \/ g = child /\ Unseen /\ idled' = idled /\ Due(g)'
         \/ Due(g) /\ ~Due(g)' /\ s \notin {"read", "hand"}
  PROVE  SpawnInv'
<1>1. pump \in [Gens -> PumpStates] /\ child \in Gens
  BY DEF TypeOK, PumpOK, SupOK
<1>2. /\ (Due(g)' <=> Due(g)) => Restarters' = Restarters
      /\ Due(g)' /\ ~Due(g) => Cardinality(Restarters') = Cardinality(Restarters) + 1
      /\ ~Due(g)' /\ Due(g) => Cardinality(Restarters') = Cardinality(Restarters) - 1
      /\ Cardinality(Restarters) \in Nat /\ Cardinality(Restarters') \in Nat
  <2>1. \A h \in Gens \ {g} : Due(h)' <=> Due(h)
    BY <1>1 DEF Due
  <2> QED BY <2>1, RestartersMove
<1>3. pump'[g] = s /\ pump'[child] \in {s, pump[child]}
      /\ (g # child => pump'[child] = pump[child])
  BY <1>1
<1>4. Spares \in Nat /\ Spares' \in Int
  BY <1>2 DEF Spares, One
<1>5. Spares' <= Spares
  <2>1. CASE idled' = idled /\ s \in {"read", "hand"} /\ pump[g] \in {"read", "hand"}
    BY <1>2, <1>3, <2>1 DEF Spares, One, Unseen, Due
  <2>2. CASE idled' = idled /\ s \notin {"read", "hand"} /\ (Due(g)' => Due(g))
    BY <1>2, <1>3, <2>2 DEF Spares, One, Unseen
  <2>3. CASE g = child /\ Unseen /\ idled' = idled /\ Due(g)'
    BY <1>2, <1>3, <2>3 DEF Spares, One, Unseen, Due
  <2>4. CASE Due(g) /\ ~Due(g)' /\ s \notin {"read", "hand"}
    BY <1>2, <1>3, <2>4 DEF Spares, One, Unseen
  <2> QED BY <2>1, <2>2, <2>3, <2>4
<1>6. child \in Nat /\ faults \in Nat
  BY DEF TypeOK, SupOK, BoundOK, Gens
<1>7. child' + Spares' <= child + Spares
  BY <1>4, <1>5, <1>6, Shift
<1> QED BY <1>4, <1>6, <1>7, SpawnForgets

\* One fault, one spawn, whichever threads race: each step accounts for the
\* faults it makes, passes on and spends.
LEMMA SpawnStep == TypeOK /\ SpawnInv /\ [Next]_vars => SpawnInv'
<1> SUFFICES ASSUME TypeOK, SpawnInv, [Next]_vars PROVE SpawnInv'
  OBVIOUS
<1>0. /\ child \in Gens /\ pump \in [Gens -> PumpStates] /\ child \in Nat /\ faults \in Nat
      /\ proc \in [Gens -> {"none", "up", "idle", "gone"}] /\ idled \in BOOLEAN
      /\ Cardinality(Restarters) \in Nat
  BY GensFinite DEF TypeOK, SupOK, PumpOK, ProcOK, BoundOK, Gens, Restarters
<1> USE <1>0 DEF clientVars, intakeVars, supVars, wireVars, setupVars, procVars, pumpVars,
       versionVars, boundVars
<1>1. CASE UNCHANGED <<child, idled, asker, restarting, faults, spawnFails, proc, pump>>
  BY <1>1, SpawnFrame DEF Due
<1>2. ASSUME Wake PROVE SpawnInv'
  <2>1. CASE Spawn(proc) /\ pump' = [pump EXCEPT ![child + 1] = "read"]
             /\ idled /\ idled' = FALSE /\ UNCHANGED spawnFails
    <3>1. \A h \in Gens : Due(h)' <=> Due(h)
      BY <2>1, NewPump DEF Due
    <3>2. Restarters' = Restarters
      BY <3>1, RestartersSame
    <3>3. One(idled)' = One(idled) - 1 /\ One(asker = "respawn")' = One(asker = "respawn")
      BY <1>2, <2>1 DEF Wake, One
    <3> QED BY <1>2, <2>1, <3>2, <3>3, SpawnSpends DEF Wake, One
  <2>2. CASE UNCHANGED <<child, idled, proc, pump, spawnFails>>
    BY <1>2, <2>2, SpawnFrame DEF Wake, Due
  <2>3. CASE SpawnFails /\ Reap(pump) /\ UNCHANGED <<child, idled>>
    <3>1. \A h \in Gens : Due(h)' <=> Due(h)
      BY <2>3 DEF Reap, Due
    <3> QED BY <1>2, <2>3, <3>1, SpawnWakeFails DEF Wake
  <2> QED BY <1>2, <2>1, <2>2, <2>3 DEF Wake
<1>3. ASSUME NEW g \in Gens, NEW how \in {"idle", "gone"}, ChildExit(g, how)
      PROVE  SpawnInv'
  <2>1. /\ UNCHANGED <<child, idled, asker, restarting, pump, spawnFails>>
        /\ faults' = faults + 1 /\ faults < MaxFaults
        /\ proc[g] = "up" /\ \A h \in Gens \ {g} : proc'[h] = proc[h]
    BY <1>3 DEF ChildExit
  <2>2. Restarters' = Restarters
    BY <2>1 DEF Restarters, Due
  <2>3. Unseen => Unseen'
    BY <2>1 DEF Unseen
  <2> QED BY <2>1, <2>2, <2>3, SpawnFault
<1>4. ASSUME NEW g \in Gens, NEW r \in Req, PumpReply(g, r) \/ PumpNotice(g, r)
      PROVE  SpawnInv'
  <2>1. UNCHANGED <<child, restarting, idled, asker, faults, spawnFails, proc>> /\ pump[g] = "read"
    BY <1>4 DEF PumpReply, PumpNotice
  <2>2. pump' = pump \/ pump' = [pump EXCEPT ![g] = "hand"]
    BY <1>4 DEF PumpReply, PumpNotice, PassOn, Keep
  <2> QED BY <1>1, <2>1, <2>2, SpawnMove
<1>5. ASSUME NEW g \in Gens, PumpWrite(g) PROVE SpawnInv'
  BY <1>5, SpawnMove DEF PumpWrite
<1>6. ASSUME NEW g \in Gens, PumpEOF(g) PROVE SpawnInv'
  <2>1. /\ UNCHANGED <<child, restarting, idled, asker, faults, spawnFails, proc>>
        /\ pump[g] = "read" /\ proc[g] # "up"
    BY <1>6 DEF PumpEOF, AtEOF
  <2>2. CASE Replaced(g) /\ pump' = [pump EXCEPT ![g] = "done"]
    BY <2>1, <2>2, SpawnMove DEF Due
  <2>3. CASE ~Replaced(g) /\ pump' = [pump EXCEPT ![g] = "reap"]
    BY <2>1, <2>3, SpawnMove DEF Due, Replaced, Unseen
  <2> QED BY <1>6, <2>2, <2>3 DEF PumpEOF
<1>7. ASSUME NEW g \in Gens, MarkIdle(g) PROVE SpawnInv'
  <2>1. /\ UNCHANGED <<child, restarting, asker, faults, spawnFails, proc>> /\ Due(g)
        /\ \E s \in {"done", "resend"} : pump' = [pump EXCEPT ![g] = s]
    BY <1>7 DEF MarkIdle, Due
  <2> QED BY <2>1, SpawnMove DEF Due
<1>8. ASSUME NEW g \in Gens,
             CrashSeen(g) \/ CrashAsk(g) \/ CrashNote(g) \/ Resetup(g) \/ Requery(g)
             \/ ResendWrite(g)
      PROVE  SpawnInv'
  <2>1. UNCHANGED <<child, restarting, idled, asker, faults, spawnFails, proc>>
    BY <1>8 DEF CrashSeen, CrashAsk, CrashNote, Resetup, Requery, ResendWrite
  <2>2. \E s \in {"delay", "respawn", "note", "resetup", "requery", "done"} :
          pump' = [pump EXCEPT ![g] = s] /\ (s \in {"delay", "respawn"} => Due(g))
    BY <1>8 DEF CrashSeen, CrashAsk, RestartAsk, CrashNote, Resetup, Requery, ResendWrite, Due
  <2> QED BY <2>1, <2>2, SpawnMove DEF Due
<1>9. ASSUME NEW g \in Gens, ResendWake(g) PROVE SpawnInv'
  <2>1. UNCHANGED <<asker, restarting, faults>> /\ pump[g] = "resend"
    BY <1>9 DEF ResendWake
  <2>2. CASE Spawn(proc) /\ pump' = [pump EXCEPT ![g] = "rewrite", ![child + 1] = "read"]
             /\ idled /\ idled' = FALSE /\ UNCHANGED spawnFails
    <3>1. \A h \in Gens : Due(h)' <=> Due(h)
      BY <2>1, <2>2, NewPump DEF Due
    <3>2. Restarters' = Restarters
      BY <3>1, RestartersSame
    <3>3. One(idled)' = One(idled) - 1 /\ One(asker = "respawn")' = One(asker = "respawn")
      BY <2>1, <2>2 DEF One
    <3> QED BY <2>1, <2>2, <3>2, <3>3, SpawnSpends DEF One
  <2>3. CASE UNCHANGED <<child, idled, proc, spawnFails>> /\ pump' = [pump EXCEPT ![g] = "rewrite"]
    BY <2>1, <2>3, SpawnMove DEF Due
  <2>4. CASE SpawnFails /\ Reap([pump EXCEPT ![g] = "done"]) /\ UNCHANGED <<child, idled>>
    <3>1. \A h \in Gens : Due(h)' <=> Due(h)
      BY <2>1, <2>4 DEF Reap, Due
    <3> QED BY <2>1, <2>4, <3>1, SpawnWakeFails
  <2> QED BY <1>9, <2>2, <2>3, <2>4 DEF ResendWake
<1>10. ASSUME NEW g \in Gens, CrashRestart(g) PROVE SpawnInv'
  <2>1. UNCHANGED <<idled, asker, faults>> /\ Due(g)
    BY <1>10 DEF CrashRestart, Due
  <2>2. /\ \A h \in Gens \ {g} : Due(h)' <=> Due(h)
        /\ ~Due(g)'
    BY <1>10, NewPump DEF CrashRestart, RestartChild, Due
  <2>3. Cardinality(Restarters') = Cardinality(Restarters) - 1
    BY <2>1, <2>2, RestartersMove
  <2>4. One(asker = "respawn")' = One(asker = "respawn") /\ One(asker = "respawn") \in Nat
    BY <2>1 DEF One
  <2> QED BY <1>10, <2>1, <2>3, <2>4, SpawnRestart DEF CrashRestart
<1>11. ASSUME WatchdogRestart PROVE SpawnInv'
  <2>1. /\ UNCHANGED <<idled, faults>> /\ asker = "respawn" /\ asker' = "idle"
        /\ RestartChild(pump, pump)
    BY <1>11 DEF WatchdogRestart
  <2>2. \A h \in Gens : Due(h)' <=> Due(h)
    BY <2>1, NewPump DEF RestartChild, Due
  <2>3. Restarters' = Restarters
    BY <2>2, RestartersSame
  <2>4. One(asker = "respawn")' = One(asker = "respawn") - 1 /\ One(asker = "respawn") = 1
    BY <2>1 DEF One
  <2> QED BY <2>1, <2>3, <2>4, SpawnRestart
<1>12. ASSUME WatchdogAsk PROVE SpawnInv'
  <2>1. /\ UNCHANGED <<child, idled, restarting, proc, pump, spawnFails>> /\ asker # "respawn"
        /\ faults' = faults + 1 /\ faults < MaxFaults
    BY <1>12 DEF WatchdogAsk
  <2>2. Restarters' = Restarters /\ (Unseen' <=> Unseen)
    BY <2>1 DEF Restarters, Due, Unseen
  <2> QED BY <2>1, <2>2, SpawnFault
<1>13. CASE \/ \E r \in Req : Intake(r) \/ LostTimer(r)
            \/ Record \/ Write \/ GiveUp
            \/ \E g \in Gens, r \in Req : ChildRead(g, r) \/ ChildReply(g, r)
            \/ Updated \/ GuardRelease \/ UNCHANGED vars
  BY <1>1, <1>13 DEF Intake, LostTimer, Record, Write, GiveUp, ChildRead, ChildReply,
     Updated, GuardRelease, vars
<1>14. ASSUME WatchdogNote PROVE SpawnInv'
  BY <1>14, SpawnFrame DEF WatchdogNote, Due
<1> QED
  BY <1>2, <1>3, <1>4, <1>5, <1>6, <1>7, <1>8, <1>9, <1>10, <1>11, <1>12, <1>13, <1>14
     DEF Next, IntakeStep, ChildStep, PumpStep, WatchdogStep

\* Each fault is followed by at most one spawn, and a thread that is about to
\* start a child (wake_child, restart_child) has a fault to start it for, or a spawn
\* that raised and whose clean-up may have killed a live child.
THEOREM OneSpawnPerFaultCorrect == Spec => []OneSpawnPerFault
<1>1. Init => SpawnInv
  <2> SUFFICES ASSUME Init PROVE SpawnInv
    OBVIOUS
  <2>1. Restarters = {} /\ ~Unseen /\ ~idled /\ asker = "idle" /\ child = 1 /\ faults = 0
        /\ spawnFails = 0
    BY BoundsAssumption DEF Init, Restarters, Due, Unseen, Gens
  <2>2. Cardinality(Restarters) = 0
    BY <2>1, FS_EmptySet
  <2> QED BY <2>1, <2>2, BoundsAssumption DEF SpawnInv, Budget, Spares, One
<1>2. TypeOK /\ SpawnInv => OneSpawnPerFault
  <2> SUFFICES ASSUME TypeOK, SpawnInv PROVE OneSpawnPerFault
    OBVIOUS
  <2>1. child \in Nat /\ faults \in Nat /\ spawnFails \in Nat /\ Cardinality(Restarters) \in Nat
    BY GensFinite DEF TypeOK, SupOK, BoundOK, Gens, Restarters
  <2>2. child <= faults + spawnFails + 1
    BY <2>1 DEF SpawnInv, Budget, Spares, One
  <2>3. ASSUME idled \/ asker = "respawn" PROVE child <= faults + spawnFails
    BY <2>1, <2>3 DEF SpawnInv, Budget, Spares, One
  <2>4. ASSUME NEW g \in Gens, pump[g] = "respawn" PROVE child <= faults + spawnFails
    <3>1. IsFiniteSet(Restarters)
      BY GensFinite DEF Restarters
    <3>2. g \in Restarters
      BY <2>4 DEF Restarters, Due
    <3>3. Cardinality(Restarters) # 0
      BY <3>1, <3>2, FS_EmptySet
    <3> QED BY <2>1, <3>3 DEF SpawnInv, Budget, Spares, One
  <2> QED BY <2>2, <2>3, <2>4 DEF OneSpawnPerFault
<1> QED
  BY <1>1, <1>2, SpawnStep, TypeCorrect, PTL DEF Spec

\* Until the first idle-out, and of what is not yet spawned, always.
LEMMA OnceCorrect == Spec => [](Unborn /\ OnceInv)
<1>1. Init => Unborn /\ OnceInv
  BY DEF Init, Unborn, OnceInv, Simple, OneCopy, Untouched, Nobody, Gens
<1>2. Inductive => TypeOK /\ OnlySent
  BY DEF Inductive
<1>3. TypeOK /\ OnlySent /\ Unborn /\ OnceInv /\ [Next]_vars => Unborn' /\ OnceInv'
  BY OnceStep
<1> QED
  BY <1>1, <1>2, <1>3, InductiveCorrect, PTL DEF Spec

\* Only the re-send after an idle-out makes a child run a request twice, but for
\* initialize and qa-doctor, which a new child is meant to get again
\* (forward_client_line, _resend, resend_setup_check).
THEOREM RunsOnceCorrect == Spec => []RunsOnce
<1>1. OnceInv => RunsOnce
  BY DEF OnceInv, RunsOnce, OneCopy, Simple
<1> QED
  BY <1>1, OnceCorrect, PTL

\* Nothing is asked or answered at the start.
LEMMA ChannelInit == Init => Channel!Init
BY DEF Init, Channel!Init, Nobody

\* Launcher-made errors for a set of sent requests are a Tell of the channel.
LEMMA TellMany ==
  ASSUME ClientOK, NEW R, R \subseteq sent, UNCHANGED <<sent, fwd>>,
         errs' = [r \in Req |-> IF r \in R THEN errs[r] + 1 ELSE errs[r]]
  PROVE  Channel!Next
<1>1. R \in SUBSET Req
  BY DEF ClientOK
<1>2. Channel!Tell(R)
  BY DEF Channel!Tell
<1> QED
  BY <1>1, <1>2 DEF Channel!Next

\* So is one launcher-made answer.
LEMMA TellOne ==
  ASSUME ClientOK, NEW s \in sent, UNCHANGED <<sent, fwd>>,
         errs' = [errs EXCEPT ![s] = errs[s] + 1]
  PROVE  Channel!Next
<1>1. errs' = [r \in Req |-> IF r \in {s} THEN errs[r] + 1 ELSE errs[r]]
  BY DEF ClientOK, Counts
<1> QED
  BY <1>1, TellMany

\* So is fail_request, for those of R the wire watchdog has not answered.
LEMMA TellFailed ==
  ASSUME ClientOK, NEW R, R \subseteq sent, UNCHANGED <<sent, fwd>>,
         FailRequests(R)
  PROVE  Channel!Next
BY TellMany DEF FailRequests

\* Every step of the supervisor is a step of the channel or leaves it alone:
\* Intake asks, PumpWrite shows, launcher-made errors tell.
LEMMA ChannelStep ==
  Inductive /\ [Next]_vars => [Channel!Next]_<<sent, fwd, errs>>
<1> SUFFICES ASSUME Inductive, [Next]_vars
             PROVE  Channel!Next \/ UNCHANGED <<sent, fwd, errs>>
  OBVIOUS
<1> USE Kinds DEF clientVars
<1>1. ASSUME NEW r \in Req, Intake(r)
      PROVE  Channel!Next \/ UNCHANGED <<sent, fwd, errs>>
  BY <1>1
     DEF Intake, Channel!Next, Channel!Ask, Channel!Show, Channel!Tell,
         TypeOK, ClientOK, Inductive
<1>2. ASSUME NEW r \in Req, LostTimer(r)
      PROVE  Channel!Next \/ UNCHANGED <<sent, fwd, errs>>
  BY <1>2, TellOne DEF LostTimer, Inductive, TypeOK, OnlySent
<1>3. ASSUME Record
      PROVE  Channel!Next \/ UNCHANGED <<sent, fwd, errs>>
  BY <1>3 DEF Record
<1>4. ASSUME Wake
      PROVE  Channel!Next \/ UNCHANGED <<sent, fwd, errs>>
  BY <1>4 DEF Wake
<1>5. ASSUME Write
      PROVE  Channel!Next \/ UNCHANGED <<sent, fwd, errs>>
  BY <1>5 DEF Write
<1>6. ASSUME GiveUp
      PROVE  Channel!Next \/ UNCHANGED <<sent, fwd, errs>>
  BY <1>6, TellFailed DEF GiveUp, Inductive, TypeOK, OnlySent, IntakeOK
<1>7. ASSUME NEW g \in Gens, NEW r \in Req, ChildRead(g, r)
      PROVE  Channel!Next \/ UNCHANGED <<sent, fwd, errs>>
  BY <1>7 DEF ChildRead
<1>8. ASSUME NEW g \in Gens, NEW r \in Req, ChildReply(g, r)
      PROVE  Channel!Next \/ UNCHANGED <<sent, fwd, errs>>
  BY <1>8 DEF ChildReply
<1>9. ASSUME NEW g \in Gens, NEW how \in {"idle", "gone"}, ChildExit(g, how)
      PROVE  Channel!Next \/ UNCHANGED <<sent, fwd, errs>>
  BY <1>9 DEF ChildExit
<1>10. ASSUME NEW g \in Gens, NEW r \in Req, PumpReply(g, r)
      PROVE  Channel!Next \/ UNCHANGED <<sent, fwd, errs>>
  BY <1>10 DEF PumpReply
<1>11. ASSUME NEW g \in Gens, NEW r \in Req, PumpNotice(g, r)
      PROVE  Channel!Next \/ UNCHANGED <<sent, fwd, errs>>
  BY <1>11 DEF PumpNotice
<1>12. ASSUME NEW g \in Gens, PumpWrite(g)
      PROVE  Channel!Next \/ UNCHANGED <<sent, fwd, errs>>
  <2>1. hand[g] \in sent /\ fwd[hand[g]] = 0
    BY <1>12 DEF PumpWrite, Inductive, LedgerInv, OnlySent, TypeOK, PumpOK
  <2>2. fwd' = [fwd EXCEPT ![hand[g]] = 1] /\ UNCHANGED <<sent, errs>>
    BY <1>12, <2>1 DEF PumpWrite
  <2>3. Channel!Show(hand[g])
    BY <2>1, <2>2 DEF Channel!Show
  <2> QED
    BY <1>12, <2>1, <2>3 DEF Channel!Next, Inductive, TypeOK, ClientOK
<1>13. ASSUME NEW g \in Gens, PumpEOF(g)
      PROVE  Channel!Next \/ UNCHANGED <<sent, fwd, errs>>
  BY <1>13 DEF PumpEOF
<1>14. ASSUME NEW g \in Gens, MarkIdle(g)
      PROVE  Channel!Next \/ UNCHANGED <<sent, fwd, errs>>
  BY <1>14 DEF MarkIdle
<1>15. ASSUME NEW g \in Gens, CrashSeen(g)
      PROVE  Channel!Next \/ UNCHANGED <<sent, fwd, errs>>
  BY <1>15 DEF CrashSeen
<1>16. ASSUME NEW g \in Gens, ResendWake(g)
      PROVE  Channel!Next \/ UNCHANGED <<sent, fwd, errs>>
  BY <1>16, TellFailed DEF ResendWake, Inductive, TypeOK, OnlySent
<1>17. ASSUME NEW g \in Gens, ResendWrite(g)
      PROVE  Channel!Next \/ UNCHANGED <<sent, fwd, errs>>
  BY <1>17, TellFailed DEF ResendWrite, Inductive, TypeOK, OnlySent
<1>18. ASSUME NEW g \in Gens, CrashAsk(g)
      PROVE  Channel!Next \/ UNCHANGED <<sent, fwd, errs>>
  BY <1>18 DEF CrashAsk
<1>19. ASSUME NEW g \in Gens, CrashNote(g)
      PROVE  Channel!Next \/ UNCHANGED <<sent, fwd, errs>>
  BY <1>19 DEF CrashNote
<1>20. ASSUME NEW g \in Gens, CrashRestart(g)
      PROVE  Channel!Next \/ UNCHANGED <<sent, fwd, errs>>
  BY <1>20 DEF CrashRestart
<1>21. ASSUME NEW g \in Gens, Resetup(g)
      PROVE  Channel!Next \/ UNCHANGED <<sent, fwd, errs>>
  BY <1>21 DEF Resetup
<1>22. ASSUME NEW g \in Gens, Requery(g)
      PROVE  Channel!Next \/ UNCHANGED <<sent, fwd, errs>>
  BY <1>22, TellOne
     DEF Requery, ReleaseSetup, Inductive, TypeOK, OnlySent, SetupOK
<1>23. ASSUME WatchdogAsk
      PROVE  Channel!Next \/ UNCHANGED <<sent, fwd, errs>>
  BY <1>23 DEF WatchdogAsk
<1>24. ASSUME WatchdogNote
      PROVE  Channel!Next \/ UNCHANGED <<sent, fwd, errs>>
  BY <1>24 DEF WatchdogNote
<1>25. ASSUME WatchdogRestart
      PROVE  Channel!Next \/ UNCHANGED <<sent, fwd, errs>>
  BY <1>25 DEF WatchdogRestart
<1>26. ASSUME Updated
      PROVE  Channel!Next \/ UNCHANGED <<sent, fwd, errs>>
  BY <1>26 DEF Updated
<1>27. ASSUME GuardRelease
      PROVE  Channel!Next \/ UNCHANGED <<sent, fwd, errs>>
  BY <1>27, TellOne
     DEF GuardRelease, ReleaseSetup, Inductive, TypeOK, OnlySent, SetupOK
<1>28. CASE UNCHANGED vars
  BY <1>28 DEF vars
<1> QED
  BY <1>1, <1>2, <1>3, <1>4, <1>5, <1>6, <1>7, <1>8, <1>9, <1>10, <1>11,
     <1>12, <1>13, <1>14, <1>15, <1>16, <1>17, <1>18, <1>19, <1>20, <1>21,
     <1>22, <1>23, <1>24, <1>25, <1>26, <1>27, <1>28
     DEF Next, IntakeStep, ChildStep, PumpStep, WatchdogStep

\* Seen from the client the supervisor is a ReplyChannel, whichever children
\* answer and however often they are replaced.
THEOREM ImplementsReplyChannel == Spec => IsReplyChannel
BY InductiveCorrect, ChannelInit, ChannelStep, PTL DEF Spec, IsReplyChannel,
       Channel!Spec

-------------------------------------------------------------------------------
(* Each generation of child is a server as ServerProcess is one *)

Working(g) == {r \in Req : running[g][r] > 0}
Serves(g) == Child(g)!Next \/ UNCHANGED <<proc[g], Working(g)>>

\* A new child starts where there was no process; the one it replaces may have
\* been terminated, whatever it had at work.
LEMMA SpawnServes ==
  ASSUME TypeOK, Unborn, NEW P, P \in {proc, Terminated}, UNCHANGED running,
         Spawn(P) \/ proc' = P, NEW g \in Gens
  PROVE  Serves(g)
<1>1. proc \in [Gens -> {"none", "up", "idle", "gone"}] /\ child \in Nat
  BY DEF TypeOK, ProcOK, SupOK, Gens
<1>2. P \in [Gens -> {"none", "up", "idle", "gone"}]
  BY <1>1, TerminatedType DEF TypeOK
<1>3. P[g] = proc[g] \/ (proc[g] = "up" /\ P[g] = "gone")
  BY TerminatedOnly
<1>4. \/ proc'[g] = P[g]
      \/ proc[g] = "none" /\ proc'[g] = "up"
  <2>1. CASE proc' = P
    BY <2>1
  <2>2. CASE Spawn(P)
    <3>1. child + 1 \in Gens /\ child + 1 > child /\ proc' = [P EXCEPT ![child + 1] = "up"]
      BY <1>1, <2>2 DEF Spawn
    <3> QED
      BY <1>2, <3>1 DEF Unborn
  <2> QED
    BY <2>1, <2>2
<1>5. Working(g)' = Working(g)
  BY DEF Working
<1> QED
  BY <1>3, <1>4, <1>5 DEF Serves, Child!Next, Child!Start, Child!Die, Working

\* A child takes a request up, answers one of the copies it has at work, or ends.
LEMMA ChildServes ==
  ASSUME TypeOK, NEW h \in Gens, ChildStep(h), NEW g \in Gens
  PROVE  Serves(g)
<1>0. /\ proc \in [Gens -> {"none", "up", "idle", "gone"}]
      /\ running \in [Gens -> [Req -> Nat]]
  BY DEF TypeOK, ProcOK, Counts
<1> USE <1>0 DEF clientVars, intakeVars, supVars, wireVars, setupVars, pumpVars,
                 versionVars, boundVars
<1>1. CASE g # h
  BY <1>1 DEF ChildStep, ChildRead, ChildReply, ChildExit, Serves, Working
<1>2. ASSUME NEW r \in Req, ChildRead(g, r) PROVE Serves(g)
  <2>1. running' = [running EXCEPT ![g][r] = running[g][r] + 1] /\ running[g][r] + 1 \in Nat
    BY <1>2 DEF ChildRead
  <2>2. Working(g)' = Working(g) \cup {r}
    BY <2>1 DEF Working
  <2> QED
    BY <1>2, <2>2 DEF ChildRead, Serves, Child!Next, Child!Take, Working
<1>3. ASSUME NEW r \in Req, ChildReply(g, r) PROVE Serves(g)
  <2>1. /\ running' = [running EXCEPT ![g][r] = running[g][r] - 1]
        /\ running[g][r] > 0 /\ running[g][r] - 1 \in Nat
    BY <1>3 DEF ChildReply
  <2>2. r \in Working(g) /\ (Working(g)' = Working(g) \/ Working(g)' = Working(g) \ {r})
    BY <2>1 DEF Working
  <2> QED
    BY <1>3, <2>2 DEF ChildReply, Serves, Child!Next, Child!Answer, Working
<1>4. ASSUME NEW how \in {"idle", "gone"}, ChildExit(g, how) PROVE Serves(g)
  <2>1. proc[g] = "up" /\ proc'[g] = how /\ Working(g)' = Working(g)
    BY <1>4 DEF ChildExit, Working
  <2>2. how = "idle" => Working(g) = {}
    BY <1>4 DEF ChildExit, Working, Nobody
  <2> QED
    BY <2>1, <2>2 DEF Serves, Child!Next, Child!IdleOut, Child!Die, Working
<1> QED
  BY <1>1, <1>2, <1>3, <1>4 DEF ChildStep

LEMMA ServeStep ==
  ASSUME TypeOK, Unborn, [Next]_vars, NEW g \in Gens
  PROVE  Serves(g)
<1> USE DEF clientVars, intakeVars, supVars, wireVars, setupVars, procVars, pumpVars,
            versionVars, boundVars
<1>1. CASE \E h \in Gens : ChildStep(h)
  BY <1>1, ChildServes
<1>2. CASE UNCHANGED running /\ (UNCHANGED proc \/ Spawn(proc) \/ Spawn(Terminated)
                                 \/ proc' = Terminated)
  BY <1>2, SpawnServes
<1>3. CASE \/ \E r \in Req : Intake(r) \/ LostTimer(r)
           \/ WatchdogAsk \/ WatchdogNote \/ Updated \/ GuardRelease \/ UNCHANGED vars
  BY <1>2, <1>3
     DEF Intake, LostTimer, WatchdogAsk, WatchdogNote, Updated, GuardRelease, vars
<1>4. CASE IntakeStep \/ WatchdogRestart
  BY <1>2, <1>4 DEF IntakeStep, Record, Wake, Write, GiveUp, WatchdogRestart, RestartChild,
                    SpawnFails
<1>5. ASSUME NEW h \in Gens, PumpStep(h) PROVE Serves(g)
  <2>1. CASE \E r \in Req : PumpReply(h, r) \/ PumpNotice(h, r)
    BY <1>2, <2>1 DEF PumpReply, PumpNotice
  <2>2. CASE \/ PumpWrite(h) \/ PumpEOF(h) \/ MarkIdle(h) \/ CrashSeen(h)
             \/ ResendWrite(h) \/ CrashAsk(h) \/ CrashNote(h) \/ Resetup(h) \/ Requery(h)
    BY <1>2, <2>2 DEF PumpWrite, PumpEOF, MarkIdle, CrashSeen, ResendWrite, CrashAsk,
                      CrashNote, Resetup, Requery
  <2>3. CASE ResendWake(h) \/ CrashRestart(h)
    BY <1>2, <2>3 DEF ResendWake, CrashRestart, RestartChild, SpawnFails
  <2> QED
    BY <1>5, <2>1, <2>2, <2>3 DEF PumpStep
<1> QED
  BY <1>1, <1>3, <1>4, <1>5 DEF Next, WatchdogStep

\* The composition: each child the supervisor starts, pumps, terminates or finds
\* ended is a ServingChild, the module ServerProcess is proved to implement.
THEOREM ChildrenAreServers == Spec => ChildrenServe
<1> SUFFICES ASSUME NEW g \in Gens PROVE Spec => Child(g)!Spec
  BY DEF ChildrenServe
<1>1. Init => Child(g)!Init
  BY DEF Init, Child!Init, Nobody
<1>2. TypeOK /\ Unborn /\ [Next]_vars
        => [Child(g)!Next]_<<proc[g], {r \in Req : running[g][r] > 0}>>
  BY ServeStep DEF Serves, Working
<1>3. Inductive => TypeOK
  BY DEF Inductive
<1> QED
  BY <1>1, <1>2, <1>3, OnceCorrect, InductiveCorrect, PTL DEF Spec, Child!Spec
===============================================================================
