--------------------------- MODULE SupervisorSafety ---------------------------
(***************************************************************************)
(* The steps that preserve the supervisor's inductive invariants: what was *)
(* not sent is known nowhere, the reply ledger, the timers of the wire log. *)
(***************************************************************************)
EXTENDS SupervisorInvariants, SupervisorTypes

\* A new child's pipe holds at most the recorded handshake, which was sent.
LEMMA SpawnSent ==
  ASSUME ProcOK, SupOK, OnlySent, UnreadSent, NEW P, Spawn(P), UNCHANGED sent
  PROVE  UnreadSent'
<1> SUFFICES ASSUME NEW g \in Gens, NEW r \in Req \ sent PROVE unread'[g][r] = 0
  BY DEF UnreadSent
<1>1. unread' = [unread EXCEPT ![child + 1] =
                   IF handshake THEN [Nobody EXCEPT ![InitReq] = 1] ELSE unread[child + 1]]
  BY DEF Spawn
<1>2. handshake => r # InitReq
  BY DEF OnlySent
<1>3. [Nobody EXCEPT ![InitReq] = 1][r] = 0 \/ r = InitReq
  BY DEF Nobody
<1> QED
  BY <1>1, <1>2, <1>3 DEF ProcOK, UnreadSent

\* Changing the count of a sent request leaves the unsent ones at zero.
LEMMA BumpSent ==
  ASSUME NEW F \in [Gens -> Counts], NEW g \in Gens, NEW s \in Req,
         NEW n \in Nat, NEW S, s \in S,
         \A k \in Gens, x \in Req \ S : F[k][x] = 0
  PROVE  \A k \in Gens, x \in Req \ S : [F EXCEPT ![g][s] = n][k][x] = 0
<1> SUFFICES ASSUME NEW k \in Gens,
       NEW x \in Req \ S PROVE [F EXCEPT ![g][s] = n][k][x] = 0
  OBVIOUS
<1>1. [F[g] EXCEPT ![s] = n][x] = F[g][x]
  BY DEF Counts
<1> QED
  BY <1>1

\* This action puts only sent requests into a child's stdin.
LEMMA WakeUnread ==
  ASSUME TypeOK, OnlySent, UnreadSent, Wake
  PROVE  UnreadSent'
<1> USE SpawnSent DEF TypeOK, UnreadSent, clientVars
<1> QED BY DEF Wake

\* This action puts only sent requests into a child's stdin.
LEMMA WriteUnread ==
  ASSUME TypeOK, OnlySent, UnreadSent, Write
  PROVE  UnreadSent'
<1>1. cur \in sent
  BY Kinds DEF Write, OnlySent, TypeOK, IntakeOK
<1>2. CASE UNCHANGED unread
  BY <1>2 DEF Write, UnreadSent, clientVars
<1>3. CASE unread' = [unread EXCEPT ![target][cur] = unread[target][cur] + 1]
  <2>1. unread[target][cur] + 1 \in Nat /\ target \in Gens /\ unread \in [Gens -> Counts] /\ cur \in Req /\ sent' = sent
    BY <1>1 DEF TypeOK, ProcOK, IntakeOK, ClientOK, Counts, Write, clientVars
  <2> QED
    BY <1>1, <1>3, <2>1, BumpSent DEF UnreadSent
<1> QED
  BY <1>2, <1>3 DEF Write

\* This action puts only sent requests into a child's stdin.
LEMMA ResendWakeUnread ==
  ASSUME TypeOK, OnlySent, UnreadSent, NEW g \in Gens, ResendWake(g)
  PROVE  UnreadSent'
BY SpawnSent DEF ResendWake, TypeOK, UnreadSent, clientVars

\* This action puts only sent requests into a child's stdin.
LEMMA ResendWriteUnread ==
  ASSUME TypeOK, OnlySent, UnreadSent, NEW g \in Gens,
         ResendWrite(g) \/ Requery(g)
  PROVE  UnreadSent'
<1> SUFFICES ASSUME NEW h \in Gens, NEW r \in Req \ sent PROVE unread'[h][r] = 0
  BY DEF UnreadSent, ResendWrite, Requery
<1>1. r \notin lost[g]
  BY DEF OnlySent
<1> DEFINE more == [x \in Req |-> IF x \in lost[g] THEN unread[child][x] + 1
                                                   ELSE unread[child][x]]
<1>2. unread' = [unread EXCEPT ![child] = more] \/ unread' = unread
  BY DEF ResendWrite, Requery
<1>3. more[r] = unread[child][r]
  BY <1>1
<1> HIDE DEF more
<1> QED
  BY <1>2, <1>3 DEF UnreadSent, TypeOK, ProcOK, SupOK

\* This action puts only sent requests into a child's stdin.
LEMMA RestartUnread ==
  ASSUME TypeOK, OnlySent, UnreadSent, NEW X, NEW Y, RestartChild(X, Y),
         UNCHANGED sent
  PROVE  UnreadSent'
BY SpawnSent DEF RestartChild, TypeOK, UnreadSent

\* This action puts only sent requests into a child's stdin.
LEMMA ReadUnread ==
  ASSUME TypeOK, OnlySent, UnreadSent, NEW g \in Gens, NEW r \in Req,
         ChildRead(g, r)
  PROVE  UnreadSent'
<1>1. unread[g][r] \in Nat /\ unread[g][r] > 0 /\ unread[g][r] - 1 \in Nat
  BY CountNat DEF ChildRead, TypeOK, ProcOK
<1>2. r \in sent
  BY <1>1 DEF UnreadSent
<1> QED
  BY <1>1, <1>2, BumpSent DEF ChildRead, clientVars, UnreadSent, TypeOK, ProcOK

\* No step puts an unsent request into a child's stdin.
LEMMA UnreadStep ==
  TypeOK /\ OnlySent /\ UnreadSent /\ [Next]_vars => UnreadSent'
<1> SUFFICES ASSUME TypeOK, OnlySent, UnreadSent, [Next]_vars
             PROVE  UnreadSent'
  OBVIOUS
<1> USE Kinds DEF clientVars, intakeVars, supVars, wireVars, setupVars,
       procVars, pumpVars
<1>1. ASSUME NEW r \in Req, Intake(r)
      PROVE  UnreadSent'
  BY <1>1 DEF Intake, UnreadSent
<1>2. ASSUME NEW r \in Req, LostTimer(r)
      PROVE  UnreadSent'
  BY <1>2 DEF LostTimer, UnreadSent
<1>3. ASSUME Record
      PROVE  UnreadSent'
  BY <1>3 DEF Record, UnreadSent
<1>4. ASSUME Wake
      PROVE  UnreadSent'
  BY <1>4, WakeUnread
<1>5. ASSUME Write
      PROVE  UnreadSent'
  BY <1>5, WriteUnread
<1>6. ASSUME GiveUp
      PROVE  UnreadSent'
  BY <1>6 DEF GiveUp, FailRequests, UnreadSent
<1>7. ASSUME NEW g \in Gens, NEW r \in Req, ChildRead(g, r)
      PROVE  UnreadSent'
  BY <1>7, ReadUnread
<1>8. ASSUME NEW g \in Gens, NEW r \in Req, ChildReply(g, r)
      PROVE  UnreadSent'
  BY <1>8 DEF ChildReply, UnreadSent
<1>9. ASSUME NEW g \in Gens, NEW how \in {"idle", "gone"}, ChildExit(g, how)
      PROVE  UnreadSent'
  BY <1>9 DEF ChildExit, UnreadSent
<1>10. ASSUME NEW g \in Gens, NEW r \in Req, PumpReply(g, r)
      PROVE  UnreadSent'
  BY <1>10 DEF PumpReply, PassOn, Keep, ResetSetup, UnreadSent
<1>11. ASSUME NEW g \in Gens, NEW r \in Req, PumpNotice(g, r)
      PROVE  UnreadSent'
  BY <1>11 DEF PumpNotice, PassOn, Keep, ResetSetup, UnreadSent
<1>12. ASSUME NEW g \in Gens, PumpWrite(g)
      PROVE  UnreadSent'
  BY <1>12 DEF PumpWrite, UnreadSent
<1>13. ASSUME NEW g \in Gens, PumpEOF(g)
      PROVE  UnreadSent'
  BY <1>13 DEF PumpEOF, AtEOF, UnreadSent
<1>14. ASSUME NEW g \in Gens, MarkIdle(g)
      PROVE  UnreadSent'
  BY <1>14 DEF MarkIdle, Unanswered, UnreadSent
<1>15. ASSUME NEW g \in Gens, CrashSeen(g)
      PROVE  UnreadSent'
  BY <1>15 DEF CrashSeen, UnreadSent
<1>16. ASSUME NEW g \in Gens, ResendWake(g)
      PROVE  UnreadSent'
  BY <1>16, ResendWakeUnread
<1>17. ASSUME NEW g \in Gens, ResendWrite(g)
      PROVE  UnreadSent'
  BY <1>17, ResendWriteUnread
<1>18. ASSUME NEW g \in Gens, CrashAsk(g)
      PROVE  UnreadSent'
  BY <1>18 DEF CrashAsk, RestartAsk, UnreadSent
<1>19. ASSUME NEW g \in Gens, CrashNote(g)
      PROVE  UnreadSent'
  BY <1>19 DEF CrashNote, UnreadSent
<1>20. ASSUME NEW g \in Gens, CrashRestart(g)
      PROVE  UnreadSent'
  BY <1>20, RestartUnread DEF CrashRestart
<1>21. ASSUME NEW g \in Gens, Resetup(g)
      PROVE  UnreadSent'
  BY <1>21 DEF Resetup, UnreadSent
<1>22. ASSUME NEW g \in Gens, Requery(g)
      PROVE  UnreadSent'
  BY <1>22, ResendWriteUnread
<1>23. ASSUME WatchdogAsk
      PROVE  UnreadSent'
  BY <1>23 DEF WatchdogAsk, RestartAsk, UnreadSent
<1>24. ASSUME WatchdogNote
      PROVE  UnreadSent'
  BY <1>24 DEF WatchdogNote, UnreadSent
<1>25. ASSUME WatchdogRestart
      PROVE  UnreadSent'
  BY <1>25, RestartUnread DEF WatchdogRestart
<1>26. ASSUME Updated
      PROVE  UnreadSent'
  BY <1>26 DEF Updated, UnreadSent
<1>27. ASSUME GuardRelease
      PROVE  UnreadSent'
  BY <1>27 DEF GuardRelease, ReleaseSetup, ResetSetup, UnreadSent
<1>28. CASE UNCHANGED vars
  BY <1>28 DEF vars, UnreadSent
<1> QED
  BY <1>1, <1>2, <1>3, <1>4, <1>5, <1>6, <1>7, <1>8, <1>9, <1>10, <1>11,
     <1>12, <1>13, <1>14, <1>15, <1>16, <1>17, <1>18, <1>19, <1>20, <1>21,
     <1>22, <1>23, <1>24, <1>25, <1>26, <1>27, <1>28
     DEF Next, IntakeStep, ChildStep, PumpStep, WatchdogStep

\* This action moves only sent requests through a child.
LEMMA ReadOthers ==
  ASSUME TypeOK, UnreadSent, OthersSent, NEW g \in Gens, NEW r \in Req,
         ChildRead(g, r)
  PROVE  OthersSent'
<1>1. running[g][r] + 1 \in Nat /\ unread[g][r] > 0
  BY CountNat DEF ChildRead, TypeOK, ProcOK
<1>2. r \in sent
  BY <1>1 DEF UnreadSent
<1>3. \A k \in Gens, x \in Req \ sent : running'[k][x] = 0
  BY <1>1, <1>2, BumpSent DEF ChildRead, OthersSent, TypeOK, ProcOK
<1> QED
  BY <1>3 DEF ChildRead, clientVars, OthersSent

\* This action moves only sent requests through a child.
LEMMA ReplyOthers ==
  ASSUME TypeOK, OthersSent, NEW g \in Gens, NEW r \in Req, ChildReply(g, r)
  PROVE  OthersSent'
<1>1. /\ running[g][r] > 0 /\ running[g][r] - 1 \in Nat
      /\ out[g][r] + 1 \in Nat /\ notice[g][r] + 1 \in Nat
  BY CountNat DEF ChildReply, TypeOK, ProcOK
<1>2. r \in sent
  BY <1>1 DEF OthersSent
<1>3. \A k \in Gens, x \in Req \ sent : running'[k][x] = 0
  BY <1>1, <1>2, BumpSent DEF ChildReply, OthersSent, TypeOK, ProcOK
<1>4. \A k \in Gens, x \in Req \ sent : out'[k][x] = 0
  <2>1. CASE out' = [out EXCEPT ![g][r] = out[g][r] + 1]
    BY <1>1, <1>2, <2>1, BumpSent DEF OthersSent, TypeOK, ProcOK
  <2>2. CASE out' = out
    BY <2>2 DEF OthersSent
  <2> QED
    BY <2>1, <2>2 DEF ChildReply
<1>5. \A k \in Gens, x \in Req \ sent : notice'[k][x] = 0
  <2>1. CASE notice' = [notice EXCEPT ![g][r] = notice[g][r] + 1]
    BY <1>1, <1>2, <2>1, BumpSent DEF OthersSent, TypeOK, ProcOK
  <2>2. CASE notice' = notice
    BY <2>2 DEF OthersSent
  <2> QED
    BY <2>1, <2>2 DEF ChildReply
<1> QED
  BY <1>3, <1>4, <1>5 DEF ChildReply, clientVars, OthersSent

\* This action moves only sent requests through a child.
LEMMA TakeOthers ==
  ASSUME TypeOK, OthersSent, NEW g \in Gens, NEW r \in Req,
         PumpReply(g, r) \/ PumpNotice(g, r)
  PROVE  OthersSent'
<1>1. CASE out[g][r] > 0 /\ out' = [out EXCEPT ![g][r] = out[g][r] - 1] /\ notice' = notice
  <2>1. out[g][r] - 1 \in Nat /\ r \in sent
    BY <1>1, CountNat DEF OthersSent, TypeOK, ProcOK
  <2>2. \A k \in Gens, x \in Req \ sent : out'[k][x] = 0
    BY <1>1, <2>1, BumpSent DEF OthersSent, TypeOK, ProcOK
  <2> QED
    BY <1>1, <2>2 DEF PumpReply, PumpNotice, clientVars, OthersSent
<1>2. CASE notice[g][r] > 0 /\ notice' = [notice EXCEPT ![g][r] = notice[g][r] - 1] /\ out' = out
  <2>1. notice[g][r] - 1 \in Nat /\ r \in sent
    BY <1>2, CountNat DEF OthersSent, TypeOK, ProcOK
  <2>2. \A k \in Gens, x \in Req \ sent : notice'[k][x] = 0
    BY <1>2, <2>1, BumpSent DEF OthersSent, TypeOK, ProcOK
  <2> QED
    BY <1>2, <2>2 DEF PumpReply, PumpNotice, clientVars, OthersSent
<1> QED
  BY <1>1, <1>2 DEF PumpReply, PumpNotice

\* No child runs or answers what was not sent.
LEMMA OthersStep ==
  TypeOK /\ UnreadSent /\ OthersSent /\ [Next]_vars => OthersSent'
<1> SUFFICES ASSUME TypeOK, UnreadSent, OthersSent, [Next]_vars
             PROVE  OthersSent'
  OBVIOUS
<1> USE Kinds DEF clientVars, intakeVars, supVars, wireVars, setupVars,
       procVars, pumpVars
<1>1. ASSUME NEW r \in Req, Intake(r)
      PROVE  OthersSent'
  BY <1>1 DEF Intake, OthersSent
<1>2. ASSUME NEW r \in Req, LostTimer(r)
      PROVE  OthersSent'
  BY <1>2 DEF LostTimer, OthersSent
<1>3. ASSUME Record
      PROVE  OthersSent'
  BY <1>3 DEF Record, OthersSent
<1>4. ASSUME Wake
      PROVE  OthersSent'
  BY <1>4 DEF Wake, Spawn, SpawnFails, BackOff, OthersSent
<1>5. ASSUME Write
      PROVE  OthersSent'
  BY <1>5 DEF Write, BackOff, OthersSent
<1>6. ASSUME GiveUp
      PROVE  OthersSent'
  BY <1>6 DEF GiveUp, FailRequests, OthersSent
<1>7. ASSUME NEW g \in Gens, NEW r \in Req, ChildRead(g, r)
      PROVE  OthersSent'
  BY <1>7, ReadOthers
<1>8. ASSUME NEW g \in Gens, NEW r \in Req, ChildReply(g, r)
      PROVE  OthersSent'
  BY <1>8, ReplyOthers
<1>9. ASSUME NEW g \in Gens, NEW how \in {"idle", "gone"}, ChildExit(g, how)
      PROVE  OthersSent'
  BY <1>9 DEF ChildExit, OthersSent
<1>10. ASSUME NEW g \in Gens, NEW r \in Req, PumpReply(g, r)
      PROVE  OthersSent'
  BY <1>10, TakeOthers
<1>11. ASSUME NEW g \in Gens, NEW r \in Req, PumpNotice(g, r)
      PROVE  OthersSent'
  BY <1>11, TakeOthers
<1>12. ASSUME NEW g \in Gens, PumpWrite(g)
      PROVE  OthersSent'
  BY <1>12 DEF PumpWrite, OthersSent
<1>13. ASSUME NEW g \in Gens, PumpEOF(g)
      PROVE  OthersSent'
  BY <1>13 DEF PumpEOF, AtEOF, OthersSent
<1>14. ASSUME NEW g \in Gens, MarkIdle(g)
      PROVE  OthersSent'
  BY <1>14 DEF MarkIdle, Unanswered, OthersSent
<1>15. ASSUME NEW g \in Gens, CrashSeen(g)
      PROVE  OthersSent'
  BY <1>15 DEF CrashSeen, OthersSent
<1>16. ASSUME NEW g \in Gens, ResendWake(g)
      PROVE  OthersSent'
  BY <1>16 DEF ResendWake, Spawn, SpawnFails, FailRequests, OthersSent
<1>17. ASSUME NEW g \in Gens, ResendWrite(g)
      PROVE  OthersSent'
  BY <1>17 DEF ResendWrite, FailRequests, OthersSent
<1>18. ASSUME NEW g \in Gens, CrashAsk(g)
      PROVE  OthersSent'
  BY <1>18 DEF CrashAsk, RestartAsk, OthersSent
<1>19. ASSUME NEW g \in Gens, CrashNote(g)
      PROVE  OthersSent'
  BY <1>19 DEF CrashNote, OthersSent
<1>20. ASSUME NEW g \in Gens, CrashRestart(g)
      PROVE  OthersSent'
  BY <1>20
     DEF CrashRestart, RestartChild, Spawn, SpawnFails, Terminated, OthersSent
<1>21. ASSUME NEW g \in Gens, Resetup(g)
      PROVE  OthersSent'
  BY <1>21 DEF Resetup, OthersSent
<1>22. ASSUME NEW g \in Gens, Requery(g)
      PROVE  OthersSent'
  BY <1>22 DEF Requery, ReleaseSetup, ResetSetup, OthersSent
<1>23. ASSUME WatchdogAsk
      PROVE  OthersSent'
  BY <1>23 DEF WatchdogAsk, RestartAsk, OthersSent
<1>24. ASSUME WatchdogNote
      PROVE  OthersSent'
  BY <1>24 DEF WatchdogNote, OthersSent
<1>25. ASSUME WatchdogRestart
      PROVE  OthersSent'
  BY <1>25
     DEF WatchdogRestart, RestartChild, Spawn, SpawnFails, Terminated,
         OthersSent
<1>26. ASSUME Updated
      PROVE  OthersSent'
  BY <1>26 DEF Updated, OthersSent
<1>27. ASSUME GuardRelease
      PROVE  OthersSent'
  BY <1>27 DEF GuardRelease, ReleaseSetup, ResetSetup, OthersSent
<1>28. CASE UNCHANGED vars
  BY <1>28 DEF vars, OthersSent
<1> QED
  BY <1>1, <1>2, <1>3, <1>4, <1>5, <1>6, <1>7, <1>8, <1>9, <1>10, <1>11,
     <1>12, <1>13, <1>14, <1>15, <1>16, <1>17, <1>18, <1>19, <1>20, <1>21,
     <1>22, <1>23, <1>24, <1>25, <1>26, <1>27, <1>28
     DEF Next, IntakeStep, ChildStep, PumpStep, WatchdogStep

\* No step lets the launcher know a request the client did not send.
LEMMA SentStep ==
  TypeOK /\ OnlySent /\ OthersSent /\ LedgerInv /\ [Next]_vars => OnlySent'
<1> SUFFICES ASSUME TypeOK, OnlySent, OthersSent, LedgerInv, [Next]_vars
             PROVE  OnlySent'
  OBVIOUS
<1> USE Kinds DEF clientVars, intakeVars, supVars, wireVars, setupVars,
       procVars, pumpVars
<1>1. ASSUME NEW r \in Req, Intake(r)
      PROVE  OnlySent'
  BY <1>1
     DEF Intake, OnlySent, TypeOK, ClientOK, IntakeOK, SupOK, WireOK, SetupOK,
         PumpOK, Counts
<1>2. ASSUME NEW r \in Req, LostTimer(r)
      PROVE  OnlySent'
  BY <1>2
     DEF LostTimer, OnlySent, TypeOK, ClientOK, IntakeOK, SupOK, WireOK,
         SetupOK, PumpOK, Counts
<1>3. ASSUME Record
      PROVE  OnlySent'
  BY <1>3
     DEF Record, OnlySent, TypeOK, ClientOK, IntakeOK, SupOK, WireOK, SetupOK,
         PumpOK, Counts
<1>4. ASSUME Wake
      PROVE  OnlySent'
  BY <1>4
     DEF Wake, Spawn, SpawnFails, BackOff, OnlySent, TypeOK, ClientOK,
         IntakeOK, SupOK, WireOK, SetupOK, PumpOK, Counts
<1>5. ASSUME Write
      PROVE  OnlySent'
  BY <1>5
     DEF Write, BackOff, OnlySent, TypeOK, ClientOK, IntakeOK, SupOK, WireOK,
         SetupOK, PumpOK, Counts
<1>6. ASSUME GiveUp
      PROVE  OnlySent'
  BY <1>6
     DEF GiveUp, FailRequests, OnlySent, TypeOK, ClientOK, IntakeOK, SupOK,
         WireOK, SetupOK, PumpOK, Counts
<1>7. ASSUME NEW g \in Gens, NEW r \in Req, ChildRead(g, r)
      PROVE  OnlySent'
  BY <1>7
     DEF ChildRead, OnlySent, TypeOK, ClientOK, IntakeOK, SupOK, WireOK,
         SetupOK, PumpOK, Counts
<1>8. ASSUME NEW g \in Gens, NEW r \in Req, ChildReply(g, r)
      PROVE  OnlySent'
  BY <1>8
     DEF ChildReply, OnlySent, TypeOK, ClientOK, IntakeOK, SupOK, WireOK,
         SetupOK, PumpOK, Counts
<1>9. ASSUME NEW g \in Gens, NEW how \in {"idle", "gone"}, ChildExit(g, how)
      PROVE  OnlySent'
  BY <1>9
     DEF ChildExit, OnlySent, TypeOK, ClientOK, IntakeOK, SupOK, WireOK,
         SetupOK, PumpOK, Counts
<1>10. ASSUME NEW g \in Gens, NEW r \in Req, PumpReply(g, r)
      PROVE  OnlySent'
  BY <1>10
     DEF PumpReply, PassOn, Keep, ResetSetup, OthersSent, OnlySent, TypeOK,
         ClientOK, IntakeOK, SupOK, WireOK, SetupOK, PumpOK, Counts
<1>11. ASSUME NEW g \in Gens, NEW r \in Req, PumpNotice(g, r)
      PROVE  OnlySent'
  BY <1>11
     DEF PumpNotice, PassOn, Keep, ResetSetup, OthersSent, OnlySent, TypeOK,
         ClientOK, IntakeOK, SupOK, WireOK, SetupOK, PumpOK, Counts
<1>12. ASSUME NEW g \in Gens, PumpWrite(g)
      PROVE  OnlySent'
  BY <1>12
     DEF PumpWrite, LedgerInv, OnlySent, TypeOK, ClientOK, IntakeOK, SupOK,
         WireOK, SetupOK, PumpOK, Counts
<1>13. ASSUME NEW g \in Gens, PumpEOF(g)
      PROVE  OnlySent'
  BY <1>13
     DEF PumpEOF, AtEOF, OnlySent, TypeOK, ClientOK, IntakeOK, SupOK, WireOK,
         SetupOK, PumpOK, Counts
<1>14. ASSUME NEW g \in Gens, MarkIdle(g)
      PROVE  OnlySent'
  BY <1>14
     DEF MarkIdle, Unanswered, OnlySent, TypeOK, ClientOK, IntakeOK, SupOK,
         WireOK, SetupOK, PumpOK, Counts
<1>15. ASSUME NEW g \in Gens, CrashSeen(g)
      PROVE  OnlySent'
  BY <1>15
     DEF CrashSeen, OnlySent, TypeOK, ClientOK, IntakeOK, SupOK, WireOK,
         SetupOK, PumpOK, Counts
<1>16. ASSUME NEW g \in Gens, ResendWake(g)
      PROVE  OnlySent'
  BY <1>16
     DEF ResendWake, Spawn, SpawnFails, FailRequests, OnlySent, TypeOK,
         ClientOK, IntakeOK, SupOK, WireOK, SetupOK, PumpOK, Counts
<1>17. ASSUME NEW g \in Gens, ResendWrite(g)
      PROVE  OnlySent'
  BY <1>17
     DEF ResendWrite, FailRequests, OnlySent, TypeOK, ClientOK, IntakeOK,
         SupOK, WireOK, SetupOK, PumpOK, Counts
<1>18. ASSUME NEW g \in Gens, CrashAsk(g)
      PROVE  OnlySent'
  BY <1>18
     DEF CrashAsk, RestartAsk, OnlySent, TypeOK, ClientOK, IntakeOK, SupOK,
         WireOK, SetupOK, PumpOK, Counts
<1>19. ASSUME NEW g \in Gens, CrashNote(g)
      PROVE  OnlySent'
  BY <1>19
     DEF CrashNote, OnlySent, TypeOK, ClientOK, IntakeOK, SupOK, WireOK,
         SetupOK, PumpOK, Counts
<1>20. ASSUME NEW g \in Gens, CrashRestart(g)
      PROVE  OnlySent'
  BY <1>20
     DEF CrashRestart, RestartChild, Spawn, SpawnFails, Terminated, OnlySent,
         TypeOK, ClientOK, IntakeOK, SupOK, WireOK, SetupOK, PumpOK, Counts
<1>21. ASSUME NEW g \in Gens, Resetup(g)
      PROVE  OnlySent'
  BY <1>21
     DEF Resetup, OnlySent, TypeOK, ClientOK, IntakeOK, SupOK, WireOK,
         SetupOK, PumpOK, Counts
<1>22. ASSUME NEW g \in Gens, Requery(g)
      PROVE  OnlySent'
  BY <1>22
     DEF Requery, ReleaseSetup, ResetSetup, OnlySent, TypeOK, ClientOK,
         IntakeOK, SupOK, WireOK, SetupOK, PumpOK, Counts
<1>23. ASSUME WatchdogAsk
      PROVE  OnlySent'
  BY <1>23
     DEF WatchdogAsk, RestartAsk, OnlySent, TypeOK, ClientOK, IntakeOK, SupOK,
         WireOK, SetupOK, PumpOK, Counts
<1>24. ASSUME WatchdogNote
      PROVE  OnlySent'
  BY <1>24
     DEF WatchdogNote, OnlySent, TypeOK, ClientOK, IntakeOK, SupOK, WireOK,
         SetupOK, PumpOK, Counts
<1>25. ASSUME WatchdogRestart
      PROVE  OnlySent'
  BY <1>25
     DEF WatchdogRestart, RestartChild, Spawn, SpawnFails, Terminated,
         OnlySent, TypeOK, ClientOK, IntakeOK, SupOK, WireOK, SetupOK, PumpOK,
         Counts
<1>26. ASSUME Updated
      PROVE  OnlySent'
  BY <1>26
     DEF Updated, OnlySent, TypeOK, ClientOK, IntakeOK, SupOK, WireOK,
         SetupOK, PumpOK, Counts
<1>27. ASSUME GuardRelease
      PROVE  OnlySent'
  BY <1>27
     DEF GuardRelease, ReleaseSetup, ResetSetup, OnlySent, TypeOK, ClientOK,
         IntakeOK, SupOK, WireOK, SetupOK, PumpOK, Counts
<1>28. CASE UNCHANGED vars
  BY <1>28
     DEF vars, OnlySent, TypeOK, ClientOK, IntakeOK, SupOK, WireOK, SetupOK,
         PumpOK, Counts
<1> QED
  BY <1>1, <1>2, <1>3, <1>4, <1>5, <1>6, <1>7, <1>8, <1>9, <1>10, <1>11,
     <1>12, <1>13, <1>14, <1>15, <1>16, <1>17, <1>18, <1>19, <1>20, <1>21,
     <1>22, <1>23, <1>24, <1>25, <1>26, <1>27, <1>28
     DEF Next, IntakeStep, ChildStep, PumpStep, WatchdogStep

\* No step breaks the reply ledger: an id is put in it before a pump may hold it,
\* and leaves it only when the client sends that id, which it does once.
LEMMA LedgerStep ==
  TypeOK /\ OnlySent /\ LedgerInv /\ [Next]_vars => LedgerInv'
<1> SUFFICES ASSUME TypeOK, OnlySent, LedgerInv, [Next]_vars
             PROVE  LedgerInv'
  OBVIOUS
<1> USE Kinds DEF clientVars, intakeVars, supVars, wireVars, setupVars,
       procVars, pumpVars
<1>1. ASSUME NEW r \in Req, Intake(r)
      PROVE  LedgerInv'
  BY <1>1
     DEF Intake, LedgerInv, ForwardOnce, OnlySent, TypeOK, ClientOK, IntakeOK,
         SupOK, WireOK, SetupOK, PumpOK, Counts
<1>2. ASSUME NEW r \in Req, LostTimer(r)
      PROVE  LedgerInv'
  BY <1>2
     DEF LostTimer, LedgerInv, ForwardOnce, OnlySent, TypeOK, ClientOK,
         IntakeOK, SupOK, WireOK, SetupOK, PumpOK, Counts
<1>3. ASSUME Record
      PROVE  LedgerInv'
  BY <1>3
     DEF Record, LedgerInv, ForwardOnce, OnlySent, TypeOK, ClientOK, IntakeOK,
         SupOK, WireOK, SetupOK, PumpOK, Counts
<1>4. ASSUME Wake
      PROVE  LedgerInv'
  BY <1>4
     DEF Wake, Spawn, SpawnFails, BackOff, LedgerInv, ForwardOnce, OnlySent,
         TypeOK, ClientOK, IntakeOK, SupOK, WireOK, SetupOK, PumpOK, Counts
<1>5. ASSUME Write
      PROVE  LedgerInv'
  BY <1>5
     DEF Write, BackOff, LedgerInv, ForwardOnce, OnlySent, TypeOK, ClientOK,
         IntakeOK, SupOK, WireOK, SetupOK, PumpOK, Counts
<1>6. ASSUME GiveUp
      PROVE  LedgerInv'
  BY <1>6
     DEF GiveUp, FailRequests, LedgerInv, ForwardOnce, OnlySent, TypeOK,
         ClientOK, IntakeOK, SupOK, WireOK, SetupOK, PumpOK, Counts
<1>7. ASSUME NEW g \in Gens, NEW r \in Req, ChildRead(g, r)
      PROVE  LedgerInv'
  BY <1>7
     DEF ChildRead, LedgerInv, ForwardOnce, OnlySent, TypeOK, ClientOK,
         IntakeOK, SupOK, WireOK, SetupOK, PumpOK, Counts
<1>8. ASSUME NEW g \in Gens, NEW r \in Req, ChildReply(g, r)
      PROVE  LedgerInv'
  BY <1>8
     DEF ChildReply, LedgerInv, ForwardOnce, OnlySent, TypeOK, ClientOK,
         IntakeOK, SupOK, WireOK, SetupOK, PumpOK, Counts
<1>9. ASSUME NEW g \in Gens, NEW how \in {"idle", "gone"}, ChildExit(g, how)
      PROVE  LedgerInv'
  BY <1>9
     DEF ChildExit, LedgerInv, ForwardOnce, OnlySent, TypeOK, ClientOK,
         IntakeOK, SupOK, WireOK, SetupOK, PumpOK, Counts
<1>10. ASSUME NEW g \in Gens, NEW r \in Req, PumpReply(g, r)
      PROVE  LedgerInv'
  BY <1>10
     DEF PumpReply, PassOn, Keep, ResetSetup, LedgerInv, ForwardOnce,
         OnlySent, TypeOK, ClientOK, IntakeOK, SupOK, WireOK, SetupOK, PumpOK,
         Counts
<1>11. ASSUME NEW g \in Gens, NEW r \in Req, PumpNotice(g, r)
      PROVE  LedgerInv'
  BY <1>11
     DEF PumpNotice, PassOn, Keep, ResetSetup, LedgerInv, ForwardOnce,
         OnlySent, TypeOK, ClientOK, IntakeOK, SupOK, WireOK, SetupOK, PumpOK,
         Counts
<1>12. ASSUME NEW g \in Gens, PumpWrite(g)
      PROVE  LedgerInv'
  BY <1>12
     DEF PumpWrite, LedgerInv, ForwardOnce, OnlySent, TypeOK, ClientOK,
         IntakeOK, SupOK, WireOK, SetupOK, PumpOK, Counts
<1>13. ASSUME NEW g \in Gens, PumpEOF(g)
      PROVE  LedgerInv'
  BY <1>13
     DEF PumpEOF, AtEOF, LedgerInv, ForwardOnce, OnlySent, TypeOK, ClientOK,
         IntakeOK, SupOK, WireOK, SetupOK, PumpOK, Counts
<1>14. ASSUME NEW g \in Gens, MarkIdle(g)
      PROVE  LedgerInv'
  BY <1>14
     DEF MarkIdle, Unanswered, LedgerInv, ForwardOnce, OnlySent, TypeOK,
         ClientOK, IntakeOK, SupOK, WireOK, SetupOK, PumpOK, Counts
<1>15. ASSUME NEW g \in Gens, CrashSeen(g)
      PROVE  LedgerInv'
  BY <1>15
     DEF CrashSeen, LedgerInv, ForwardOnce, OnlySent, TypeOK, ClientOK,
         IntakeOK, SupOK, WireOK, SetupOK, PumpOK, Counts
<1>16. ASSUME NEW g \in Gens, ResendWake(g)
      PROVE  LedgerInv'
  BY <1>16
     DEF ResendWake, Spawn, SpawnFails, FailRequests, LedgerInv, ForwardOnce,
         OnlySent, TypeOK, ClientOK, IntakeOK, SupOK, WireOK, SetupOK, PumpOK,
         Counts
<1>17. ASSUME NEW g \in Gens, ResendWrite(g)
      PROVE  LedgerInv'
  BY <1>17
     DEF ResendWrite, FailRequests, LedgerInv, ForwardOnce, OnlySent, TypeOK,
         ClientOK, IntakeOK, SupOK, WireOK, SetupOK, PumpOK, Counts
<1>18. ASSUME NEW g \in Gens, CrashAsk(g)
      PROVE  LedgerInv'
  BY <1>18
     DEF CrashAsk, RestartAsk, LedgerInv, ForwardOnce, OnlySent, TypeOK,
         ClientOK, IntakeOK, SupOK, WireOK, SetupOK, PumpOK, Counts
<1>19. ASSUME NEW g \in Gens, CrashNote(g)
      PROVE  LedgerInv'
  BY <1>19
     DEF CrashNote, LedgerInv, ForwardOnce, OnlySent, TypeOK, ClientOK,
         IntakeOK, SupOK, WireOK, SetupOK, PumpOK, Counts
<1>20. ASSUME NEW g \in Gens, CrashRestart(g)
      PROVE  LedgerInv'
  BY <1>20
     DEF CrashRestart, RestartChild, Spawn, SpawnFails, Terminated, LedgerInv,
         ForwardOnce, OnlySent, TypeOK, ClientOK, IntakeOK, SupOK, WireOK,
         SetupOK, PumpOK, Counts
<1>21. ASSUME NEW g \in Gens, Resetup(g)
      PROVE  LedgerInv'
  BY <1>21
     DEF Resetup, LedgerInv, ForwardOnce, OnlySent, TypeOK, ClientOK,
         IntakeOK, SupOK, WireOK, SetupOK, PumpOK, Counts
<1>22. ASSUME NEW g \in Gens, Requery(g)
      PROVE  LedgerInv'
  BY <1>22
     DEF Requery, ReleaseSetup, ResetSetup, LedgerInv, ForwardOnce, OnlySent,
         TypeOK, ClientOK, IntakeOK, SupOK, WireOK, SetupOK, PumpOK, Counts
<1>23. ASSUME WatchdogAsk
      PROVE  LedgerInv'
  BY <1>23
     DEF WatchdogAsk, RestartAsk, LedgerInv, ForwardOnce, OnlySent, TypeOK,
         ClientOK, IntakeOK, SupOK, WireOK, SetupOK, PumpOK, Counts
<1>24. ASSUME WatchdogNote
      PROVE  LedgerInv'
  BY <1>24
     DEF WatchdogNote, LedgerInv, ForwardOnce, OnlySent, TypeOK, ClientOK,
         IntakeOK, SupOK, WireOK, SetupOK, PumpOK, Counts
<1>25. ASSUME WatchdogRestart
      PROVE  LedgerInv'
  BY <1>25
     DEF WatchdogRestart, RestartChild, Spawn, SpawnFails, Terminated,
         LedgerInv, ForwardOnce, OnlySent, TypeOK, ClientOK, IntakeOK, SupOK,
         WireOK, SetupOK, PumpOK, Counts
<1>26. ASSUME Updated
      PROVE  LedgerInv'
  BY <1>26
     DEF Updated, LedgerInv, ForwardOnce, OnlySent, TypeOK, ClientOK,
         IntakeOK, SupOK, WireOK, SetupOK, PumpOK, Counts
<1>27. ASSUME GuardRelease
      PROVE  LedgerInv'
  BY <1>27
     DEF GuardRelease, ReleaseSetup, ResetSetup, LedgerInv, ForwardOnce,
         OnlySent, TypeOK, ClientOK, IntakeOK, SupOK, WireOK, SetupOK, PumpOK,
         Counts
<1>28. CASE UNCHANGED vars
  BY <1>28
     DEF vars, LedgerInv, ForwardOnce, OnlySent, TypeOK, ClientOK, IntakeOK,
         SupOK, WireOK, SetupOK, PumpOK, Counts
<1> QED
  BY <1>1, <1>2, <1>3, <1>4, <1>5, <1>6, <1>7, <1>8, <1>9, <1>10, <1>11,
     <1>12, <1>13, <1>14, <1>15, <1>16, <1>17, <1>18, <1>19, <1>20, <1>21,
     <1>22, <1>23, <1>24, <1>25, <1>26, <1>27, <1>28
     DEF Next, IntakeStep, ChildStep, PumpStep, WatchdogStep

\* No step answers an id and leaves its timer armed.
LEMMA TimerStep ==
  TypeOK /\ OnlySent /\ LedgerInv /\ TimerInv /\ [Next]_vars => TimerInv'
<1> SUFFICES ASSUME TypeOK, OnlySent, LedgerInv, TimerInv, [Next]_vars
             PROVE  TimerInv'
  OBVIOUS
<1> USE Kinds DEF clientVars, intakeVars, supVars, wireVars, setupVars,
       procVars, pumpVars
<1>1. ASSUME NEW r \in Req, Intake(r)
      PROVE  TimerInv'
  BY <1>1
     DEF Intake, TimerInv, LedgerInv, ForwardOnce, OnlySent, TypeOK, ClientOK,
         IntakeOK, SupOK, WireOK, SetupOK, PumpOK, Counts
<1>2. ASSUME NEW r \in Req, LostTimer(r)
      PROVE  TimerInv'
  BY <1>2
     DEF LostTimer, TimerInv, LedgerInv, ForwardOnce, OnlySent, TypeOK,
         ClientOK, IntakeOK, SupOK, WireOK, SetupOK, PumpOK, Counts
<1>3. ASSUME Record
      PROVE  TimerInv'
  BY <1>3
     DEF Record, TimerInv, LedgerInv, ForwardOnce, OnlySent, TypeOK, ClientOK,
         IntakeOK, SupOK, WireOK, SetupOK, PumpOK, Counts
<1>4. ASSUME Wake
      PROVE  TimerInv'
  BY <1>4
     DEF Wake, Spawn, SpawnFails, BackOff, TimerInv, LedgerInv, ForwardOnce,
         OnlySent, TypeOK, ClientOK, IntakeOK, SupOK, WireOK, SetupOK, PumpOK,
         Counts
<1>5. ASSUME Write
      PROVE  TimerInv'
  BY <1>5
     DEF Write, BackOff, TimerInv, LedgerInv, ForwardOnce, OnlySent, TypeOK,
         ClientOK, IntakeOK, SupOK, WireOK, SetupOK, PumpOK, Counts
<1>6. ASSUME GiveUp
      PROVE  TimerInv'
  BY <1>6
     DEF GiveUp, FailRequests, TimerInv, LedgerInv, ForwardOnce, OnlySent,
         TypeOK, ClientOK, IntakeOK, SupOK, WireOK, SetupOK, PumpOK, Counts
<1>7. ASSUME NEW g \in Gens, NEW r \in Req, ChildRead(g, r)
      PROVE  TimerInv'
  BY <1>7
     DEF ChildRead, TimerInv, LedgerInv, ForwardOnce, OnlySent, TypeOK,
         ClientOK, IntakeOK, SupOK, WireOK, SetupOK, PumpOK, Counts
<1>8. ASSUME NEW g \in Gens, NEW r \in Req, ChildReply(g, r)
      PROVE  TimerInv'
  BY <1>8
     DEF ChildReply, TimerInv, LedgerInv, ForwardOnce, OnlySent, TypeOK,
         ClientOK, IntakeOK, SupOK, WireOK, SetupOK, PumpOK, Counts
<1>9. ASSUME NEW g \in Gens, NEW how \in {"idle", "gone"}, ChildExit(g, how)
      PROVE  TimerInv'
  BY <1>9
     DEF ChildExit, TimerInv, LedgerInv, ForwardOnce, OnlySent, TypeOK,
         ClientOK, IntakeOK, SupOK, WireOK, SetupOK, PumpOK, Counts
<1>10. ASSUME NEW g \in Gens, NEW r \in Req, PumpReply(g, r)
      PROVE  TimerInv'
  BY <1>10
     DEF PumpReply, PassOn, Keep, ResetSetup, TimerInv, LedgerInv,
         ForwardOnce, OnlySent, TypeOK, ClientOK, IntakeOK, SupOK, WireOK,
         SetupOK, PumpOK, Counts
<1>11. ASSUME NEW g \in Gens, NEW r \in Req, PumpNotice(g, r)
      PROVE  TimerInv'
  BY <1>11
     DEF PumpNotice, PassOn, Keep, ResetSetup, TimerInv, LedgerInv,
         ForwardOnce, OnlySent, TypeOK, ClientOK, IntakeOK, SupOK, WireOK,
         SetupOK, PumpOK, Counts
<1>12. ASSUME NEW g \in Gens, PumpWrite(g)
      PROVE  TimerInv'
  BY <1>12
     DEF PumpWrite, TimerInv, LedgerInv, ForwardOnce, OnlySent, TypeOK,
         ClientOK, IntakeOK, SupOK, WireOK, SetupOK, PumpOK, Counts
<1>13. ASSUME NEW g \in Gens, PumpEOF(g)
      PROVE  TimerInv'
  BY <1>13
     DEF PumpEOF, AtEOF, TimerInv, LedgerInv, ForwardOnce, OnlySent, TypeOK,
         ClientOK, IntakeOK, SupOK, WireOK, SetupOK, PumpOK, Counts
<1>14. ASSUME NEW g \in Gens, MarkIdle(g)
      PROVE  TimerInv'
  BY <1>14
     DEF MarkIdle, Unanswered, TimerInv, LedgerInv, ForwardOnce, OnlySent,
         TypeOK, ClientOK, IntakeOK, SupOK, WireOK, SetupOK, PumpOK, Counts
<1>15. ASSUME NEW g \in Gens, CrashSeen(g)
      PROVE  TimerInv'
  BY <1>15
     DEF CrashSeen, TimerInv, LedgerInv, ForwardOnce, OnlySent, TypeOK,
         ClientOK, IntakeOK, SupOK, WireOK, SetupOK, PumpOK, Counts
<1>16. ASSUME NEW g \in Gens, ResendWake(g)
      PROVE  TimerInv'
  BY <1>16
     DEF ResendWake, Spawn, SpawnFails, FailRequests, TimerInv, LedgerInv,
         ForwardOnce, OnlySent, TypeOK, ClientOK, IntakeOK, SupOK, WireOK,
         SetupOK, PumpOK, Counts
<1>17. ASSUME NEW g \in Gens, ResendWrite(g)
      PROVE  TimerInv'
  BY <1>17
     DEF ResendWrite, FailRequests, TimerInv, LedgerInv, ForwardOnce,
         OnlySent, TypeOK, ClientOK, IntakeOK, SupOK, WireOK, SetupOK, PumpOK,
         Counts
<1>18. ASSUME NEW g \in Gens, CrashAsk(g)
      PROVE  TimerInv'
  BY <1>18
     DEF CrashAsk, RestartAsk, TimerInv, LedgerInv, ForwardOnce, OnlySent,
         TypeOK, ClientOK, IntakeOK, SupOK, WireOK, SetupOK, PumpOK, Counts
<1>19. ASSUME NEW g \in Gens, CrashNote(g)
      PROVE  TimerInv'
  BY <1>19
     DEF CrashNote, TimerInv, LedgerInv, ForwardOnce, OnlySent, TypeOK,
         ClientOK, IntakeOK, SupOK, WireOK, SetupOK, PumpOK, Counts
<1>20. ASSUME NEW g \in Gens, CrashRestart(g)
      PROVE  TimerInv'
  BY <1>20
     DEF CrashRestart, RestartChild, Spawn, SpawnFails, Terminated, TimerInv,
         LedgerInv, ForwardOnce, OnlySent, TypeOK, ClientOK, IntakeOK, SupOK,
         WireOK, SetupOK, PumpOK, Counts
<1>21. ASSUME NEW g \in Gens, Resetup(g)
      PROVE  TimerInv'
  BY <1>21
     DEF Resetup, TimerInv, LedgerInv, ForwardOnce, OnlySent, TypeOK,
         ClientOK, IntakeOK, SupOK, WireOK, SetupOK, PumpOK, Counts
<1>22. ASSUME NEW g \in Gens, Requery(g)
      PROVE  TimerInv'
  BY <1>22
     DEF Requery, ReleaseSetup, ResetSetup, TimerInv, LedgerInv, ForwardOnce,
         OnlySent, TypeOK, ClientOK, IntakeOK, SupOK, WireOK, SetupOK, PumpOK,
         Counts
<1>23. ASSUME WatchdogAsk
      PROVE  TimerInv'
  BY <1>23
     DEF WatchdogAsk, RestartAsk, TimerInv, LedgerInv, ForwardOnce, OnlySent,
         TypeOK, ClientOK, IntakeOK, SupOK, WireOK, SetupOK, PumpOK, Counts
<1>24. ASSUME WatchdogNote
      PROVE  TimerInv'
  BY <1>24
     DEF WatchdogNote, TimerInv, LedgerInv, ForwardOnce, OnlySent, TypeOK,
         ClientOK, IntakeOK, SupOK, WireOK, SetupOK, PumpOK, Counts
<1>25. ASSUME WatchdogRestart
      PROVE  TimerInv'
  BY <1>25
     DEF WatchdogRestart, RestartChild, Spawn, SpawnFails, Terminated,
         TimerInv, LedgerInv, ForwardOnce, OnlySent, TypeOK, ClientOK,
         IntakeOK, SupOK, WireOK, SetupOK, PumpOK, Counts
<1>26. ASSUME Updated
      PROVE  TimerInv'
  BY <1>26
     DEF Updated, TimerInv, LedgerInv, ForwardOnce, OnlySent, TypeOK,
         ClientOK, IntakeOK, SupOK, WireOK, SetupOK, PumpOK, Counts
<1>27. ASSUME GuardRelease
      PROVE  TimerInv'
  BY <1>27
     DEF GuardRelease, ReleaseSetup, ResetSetup, TimerInv, LedgerInv,
         ForwardOnce, OnlySent, TypeOK, ClientOK, IntakeOK, SupOK, WireOK,
         SetupOK, PumpOK, Counts
<1>28. CASE UNCHANGED vars
  BY <1>28
     DEF vars, TimerInv, LedgerInv, ForwardOnce, OnlySent, TypeOK, ClientOK,
         IntakeOK, SupOK, WireOK, SetupOK, PumpOK, Counts
<1> QED
  BY <1>1, <1>2, <1>3, <1>4, <1>5, <1>6, <1>7, <1>8, <1>9, <1>10, <1>11,
     <1>12, <1>13, <1>14, <1>15, <1>16, <1>17, <1>18, <1>19, <1>20, <1>21,
     <1>22, <1>23, <1>24, <1>25, <1>26, <1>27, <1>28
     DEF Next, IntakeStep, ChildStep, PumpStep, WatchdogStep

\* A step that moves no child and hinders no pump on its way to a restart.
LEMMA RespawnFrame ==
  ASSUME RespawnInv, UNCHANGED <<child, restarting, idled>>, spawnFails' = spawnFails,
         proc'[child] = proc[child],
         \/ pump'[child] = pump[child]
         \/ pump'[child] \in {"read", "hand"}
         \/ proc[child] # "up" /\ pump'[child] \in {"reap", "delay", "respawn"}
         \/ proc[child] # "up" /\ (idled \/ restarting)
         \/ pump[child] \notin {"read", "hand", "reap", "delay", "respawn"}
  PROVE  RespawnInv'
BY DEF RespawnInv, DeadIsReplaced

\* A new child is up, and its pump reads.
LEMMA RespawnSpawn ==
  ASSUME TypeOK, RespawnInv, NEW P \in [Gens -> {"none", "up", "idle", "gone"}], Spawn(P),
         NEW Q \in [Gens -> PumpStates], pump' = [Q EXCEPT ![child + 1] = "read"],
         restarting' \in {restarting, FALSE}, spawnFails' = spawnFails
  PROVE  RespawnInv'
<1>1. child + 1 \in Gens /\ child' = child + 1
      /\ proc'[child + 1] = "up" /\ pump'[child + 1] = "read"
  BY DEF Spawn
<1>2. restarting' => spawnFails' > 0
  BY DEF RespawnInv
<1>3. proc'[child'] = "up" /\ pump'[child'] = "read"
  BY <1>1
<1> QED BY <1>2, <1>3 DEF RespawnInv, DeadIsReplaced

\* terminate() leaves the current child dead.
LEMMA TerminatedDead == TypeOK => Terminated[child] # "up"
BY DEF Terminated, TypeOK, ProcOK, SupOK

\* A wake whose spawn raises leaves the child idled out, and so still to be woken.
LEMMA RespawnFailedWake ==
  ASSUME TypeOK, RespawnInv, SpawnFails, idled, UNCHANGED <<child, idled, restarting>>
  PROVE  RespawnInv'
<1>1. proc'[child'] # "up" /\ idled' /\ (restarting' => spawnFails' > 0)
  BY TerminatedDead DEF SpawnFails, RespawnInv, TypeOK, BoundOK
<1> QED BY <1>1 DEF RespawnInv, DeadIsReplaced

\* restart_child brings a new child, or leaves `restarting` set by a spawn that
\* raised.
LEMMA RespawnRestart ==
  ASSUME TypeOK, RespawnInv, NEW next \in [Gens -> PumpStates], NEW failed,
         RestartChild(next, failed)
  PROVE  RespawnInv'
<1>1. CASE Spawn(Terminated) /\ pump' = [next EXCEPT ![child + 1] = "read"]
           /\ restarting' = FALSE /\ UNCHANGED spawnFails
  BY <1>1, TerminatedType, RespawnSpawn DEF TypeOK
<1>2. CASE SpawnFails /\ restarting' = TRUE /\ child' = child
  <2>1. proc'[child] # "up" /\ spawnFails' > 0
    BY <1>2, TerminatedDead DEF SpawnFails, TypeOK, BoundOK
  <2> QED BY <1>2, <2>1 DEF RespawnInv, DeadIsReplaced
<1> QED BY <1>1, <1>2 DEF RestartChild

\* Whichever threads race, somebody is still going to replace a dead child.
LEMMA RespawnStep == TypeOK /\ RespawnInv /\ [Next]_vars => RespawnInv'
<1> SUFFICES ASSUME TypeOK, RespawnInv, [Next]_vars PROVE RespawnInv'
  OBVIOUS
<1>0. /\ child \in Gens /\ pump \in [Gens -> PumpStates] /\ spawnFails \in Nat
      /\ proc \in [Gens -> {"none", "up", "idle", "gone"}]
  BY DEF TypeOK, SupOK, PumpOK, ProcOK, BoundOK
<1> USE <1>0 DEF clientVars, intakeVars, supVars, wireVars, setupVars, procVars, pumpVars,
       versionVars, boundVars
<1>1. CASE UNCHANGED <<child, restarting, idled, spawnFails, proc, pump>>
  BY <1>1, RespawnFrame
<1>2. ASSUME Wake PROVE RespawnInv'
  <2>1. CASE Spawn(proc) /\ pump' = [pump EXCEPT ![child + 1] = "read"] /\ UNCHANGED spawnFails
    BY <1>2, <2>1, RespawnSpawn DEF Wake
  <2>2. CASE UNCHANGED <<child, restarting, idled, spawnFails, proc, pump>>
    BY <2>2, RespawnFrame
  <2>3. CASE SpawnFails /\ idled /\ UNCHANGED <<child, idled>>
    BY <1>2, <2>3, RespawnFailedWake DEF Wake
  <2> QED BY <1>2, <2>1, <2>2, <2>3 DEF Wake
<1>3. ASSUME NEW g \in Gens, NEW how \in {"idle", "gone"}, ChildExit(g, how)
      PROVE  RespawnInv'
  BY <1>3 DEF ChildExit, RespawnInv, DeadIsReplaced
<1>4. ASSUME NEW g \in Gens, NEW r \in Req, PumpReply(g, r) \/ PumpNotice(g, r)
      PROVE  RespawnInv'
  <2>1. UNCHANGED <<child, restarting, idled, spawnFails, proc>> /\ pump[g] = "read"
    BY <1>4 DEF PumpReply, PumpNotice
  <2>2. pump' = pump \/ pump' = [pump EXCEPT ![g] = "hand"]
    BY <1>4 DEF PumpReply, PumpNotice, PassOn, Keep
  <2> QED BY <2>1, <2>2, RespawnFrame
<1>5. ASSUME NEW g \in Gens, PumpWrite(g) PROVE RespawnInv'
  BY <1>5, RespawnFrame DEF PumpWrite
<1>6. ASSUME NEW g \in Gens, PumpEOF(g) PROVE RespawnInv'
  BY <1>6, RespawnFrame DEF PumpEOF, AtEOF, Replaced
<1>7. ASSUME NEW g \in Gens, MarkIdle(g) PROVE RespawnInv'
  <2>1. /\ UNCHANGED <<child, restarting, spawnFails, proc>> /\ proc[g] = "idle"
        /\ \/ child = g /\ idled' = TRUE
           \/ child # g /\ idled' = idled /\ pump'[child] = pump[child]
    BY <1>7 DEF MarkIdle
  <2> QED BY <2>1 DEF RespawnInv, DeadIsReplaced
<1>8. ASSUME NEW g \in Gens,
             CrashSeen(g) \/ CrashAsk(g) \/ CrashNote(g) \/ Resetup(g) \/ Requery(g)
      PROVE  RespawnInv'
  <2>1. /\ UNCHANGED <<child, restarting, idled, spawnFails, proc>>
        /\ pump[g] \notin {"read", "hand"}
        /\ \A h \in Gens \ {g} : pump'[h] = pump[h]
    BY <1>8 DEF CrashSeen, CrashAsk, CrashNote, Resetup, Requery
  <2>2. \/ pump'[g] \in {"delay", "respawn"} \/ idled
        \/ pump[g] \notin {"read", "hand", "reap", "delay", "respawn"}
    BY <1>8 DEF CrashSeen, CrashAsk, RestartAsk, CrashNote, Resetup, Requery
  <2>3. child = g => proc[g] # "up"
    BY <2>1 DEF RespawnInv
  <2> QED BY <2>1, <2>2, <2>3, RespawnFrame
<1>9. ASSUME NEW g \in Gens, ResendWake(g) PROVE RespawnInv'
  <2>1. pump[g] = "resend" /\ restarting' = restarting
    BY <1>9 DEF ResendWake
  <2>2. CASE Spawn(proc) /\ pump' = [pump EXCEPT ![g] = "rewrite", ![child + 1] = "read"]
             /\ UNCHANGED spawnFails
    <3>1. [pump EXCEPT ![g] = "rewrite"] \in [Gens -> PumpStates]
      BY DEF PumpStates
    <3> QED BY <2>1, <2>2, <3>1, RespawnSpawn
  <2>3. CASE /\ UNCHANGED <<spawnFails, child, idled, proc>>
             /\ \A h \in Gens \ {g} : pump'[h] = pump[h]
    BY <2>1, <2>3 DEF RespawnInv, DeadIsReplaced
  <2>4. CASE SpawnFails /\ idled /\ UNCHANGED <<child, idled>>
    BY <2>1, <2>4, RespawnFailedWake
  <2> QED BY <1>9, <2>2, <2>3, <2>4 DEF ResendWake
<1>10. ASSUME NEW g \in Gens, ResendWrite(g) PROVE RespawnInv'
  BY <1>10, RespawnFrame DEF ResendWrite
<1>11. ASSUME NEW g \in Gens, CrashRestart(g) PROVE RespawnInv'
  <2>1. [pump EXCEPT ![g] = "resetup"] \in [Gens -> PumpStates]
    BY DEF PumpStates
  <2> QED BY <1>11, <2>1, RespawnRestart DEF CrashRestart
<1>12. ASSUME WatchdogRestart PROVE RespawnInv'
  BY <1>12, RespawnRestart DEF WatchdogRestart
<1>13. CASE \/ \E r \in Req : Intake(r) \/ LostTimer(r)
            \/ Record \/ Write \/ GiveUp
            \/ \E g \in Gens, r \in Req : ChildRead(g, r) \/ ChildReply(g, r)
            \/ WatchdogAsk \/ WatchdogNote \/ Updated \/ GuardRelease \/ UNCHANGED vars
  BY <1>1, <1>13 DEF Intake, LostTimer, Record, Write, GiveUp, ChildRead, ChildReply,
     WatchdogAsk, WatchdogNote, Updated, GuardRelease, vars
<1> QED
  BY <1>2, <1>3, <1>4, <1>5, <1>6, <1>7, <1>8, <1>9, <1>10, <1>11, <1>12, <1>13
     DEF Next, IntakeStep, ChildStep, PumpStep, WatchdogStep

\* A new child has nothing but the handshake to read.
LEMMA OnceSpawn ==
  ASSUME TypeOK, NEW P, Spawn(P), NEW r \in Simple
  PROVE  \A g \in Gens : unread'[g][r] \in {unread[g][r], 0}
<1>1. unread' = [unread EXCEPT ![child + 1] =
                   IF handshake THEN [Nobody EXCEPT ![InitReq] = 1] ELSE unread[child + 1]]
  BY DEF Spawn
<1>2. [Nobody EXCEPT ![InitReq] = 1][r] = 0
  BY DEF Nobody, Simple
<1> QED BY <1>1, <1>2 DEF TypeOK, ProcOK

\* A step that writes and reads no request of these, or loses some.
LEMMA OnceFrame ==
  ASSUME TypeOK, OnceInv, \A g \in Gens : proc[g] = "idle" => proc'[g] = "idle",
         \A g \in Gens : proc'[g] # "idle" /\ pump'[g] \in {"rewrite", "resend"}
            => pump[g] \in {"rewrite", "resend"},
         \A g \in Gens : proc'[g] # "idle" => lost'[g] \subseteq lost[g] \cup Doctors,
         \A r \in Simple : r \notin sent' \/ r = cur' => r \notin sent \/ r = cur,
         UNCHANGED runs,
         \A r \in Simple, g \in Gens : unread'[g][r] \in {unread[g][r], 0}
  PROVE  OnceInv'
<1> SUFFICES ASSUME \A g \in Gens : proc'[g] # "idle"
             PROVE  /\ \A g \in Gens : /\ pump'[g] # "rewrite" /\ pump'[g] # "resend"
                                       /\ lost'[g] \subseteq Doctors
                    /\ \A r \in Simple : OneCopy(r)'
  BY DEF OnceInv, Simple
<1>1. /\ \A g \in Gens : pump[g] # "rewrite" /\ pump[g] # "resend" /\ lost[g] \subseteq Doctors
      /\ \A r \in Simple : OneCopy(r)
  BY DEF OnceInv, Simple
<1>2. \A g \in Gens : pump'[g] # "rewrite" /\ pump'[g] # "resend" /\ lost'[g] \subseteq Doctors
  BY <1>1
<1>3. ASSUME NEW r \in Simple PROVE OneCopy(r)'
  <2>1. /\ OneCopy(r) /\ (r \notin sent' \/ r = cur' => r \notin sent \/ r = cur)
        /\ \A g \in Gens : unread'[g][r] \in {unread[g][r], 0}
    BY <1>1
  <2> QED BY <2>1 DEF OneCopy, Untouched
<1> QED BY <1>2, <1>3

\* The intake thread's write is the first of its line, and the last.
LEMMA OnceWrite ==
  ASSUME TypeOK, OnlySent, OnceInv, Write PROVE OnceInv'
<1>0. /\ ipc = "write" /\ cur \in Req /\ target \in Gens /\ unread \in [Gens -> Counts]
      /\ UNCHANGED <<proc, pump, lost, runs, sent>>
  BY DEF Write, TypeOK, IntakeOK, ProcOK, pumpVars, clientVars
<1>1. CASE UNCHANGED <<unread, cur>>
  BY <1>0, <1>1, OnceFrame
<1>2. CASE /\ cur' = NoReq
           /\ unread' = [unread EXCEPT ![target][cur] = unread[target][cur] + 1]
  <2> SUFFICES ASSUME \A g \in Gens : proc[g] # "idle", NEW r \in Simple
               PROVE  OneCopy(r)'
    BY <1>0 DEF OnceInv, Simple
  <2>1. OneCopy(r) /\ r \in Req
    BY DEF OnceInv, Simple
  <2>2. CASE r = cur
    <3>1. Untouched(r) /\ r # cur' /\ r \in sent'
      BY <1>0, <1>2, <2>1, <2>2, Kinds DEF OneCopy, OnlySent, Untouched
    <3>2. \A g \in Gens : unread'[g][r] = IF g = target THEN 1 ELSE 0
      BY <1>0, <1>2, <2>2, <3>1 DEF Untouched, Counts
    <3> QED BY <1>0, <3>1, <3>2 DEF OneCopy, Untouched
  <2>3. CASE r # cur
    <3>1. \A g \in Gens : unread'[g][r] = unread[g][r]
      BY <1>0, <1>2, <2>3 DEF Counts
    <3> QED BY <1>0, <1>2, <2>1, <2>3, <3>1, Kinds DEF OneCopy, Untouched
  <2> QED BY <2>2, <2>3
<1> QED BY <1>0, <1>1, <1>2 DEF Write

\* A child runs a request off its pipe, and it is nowhere else.
LEMMA OnceRead ==
  ASSUME TypeOK, OnceInv, NEW g \in Gens, NEW s \in Req, ChildRead(g, s)
  PROVE  OnceInv'
<1>0. /\ UNCHANGED <<proc, pump, lost, sent, cur>> /\ runs \in Counts
      /\ unread \in [Gens -> Counts] /\ unread[g][s] > 0
      /\ unread' = [unread EXCEPT ![g][s] = unread[g][s] - 1]
      /\ runs' = [runs EXCEPT ![s] = runs[s] + 1]
  BY DEF ChildRead, TypeOK, ProcOK, pumpVars, clientVars, intakeVars
<1> SUFFICES ASSUME \A h \in Gens : proc[h] # "idle", NEW r \in Simple
             PROVE  OneCopy(r)'
  BY <1>0 DEF OnceInv, Simple
<1>1. OneCopy(r) /\ r \in Req
  BY DEF OnceInv, Simple
<1>2. CASE r = s
  <2>1. /\ unread[g][r] = 1 /\ runs[r] = 0 /\ \A h \in Gens \ {g} : unread[h][r] = 0
        /\ ~(r \notin sent \/ r = cur)
    BY <1>0, <1>1, <1>2 DEF OneCopy, Untouched
  <2>2. runs'[r] = 1 /\ \A h \in Gens : unread'[h][r] = 0
    BY <1>0, <1>2, <2>1 DEF Counts
  <2> QED BY <1>0, <2>1, <2>2 DEF OneCopy, Untouched
<1>3. CASE r # s
  <2>1. runs'[r] = runs[r] /\ \A h \in Gens : unread'[h][r] = unread[h][r]
    BY <1>0, <1>3 DEF Counts
  <2> QED BY <1>0, <1>1, <2>1 DEF OneCopy, Untouched
<1> QED BY <1>2, <1>3

\* What is sent again for a qa-doctor is no other request.
LEMMA OnceRequery ==
  ASSUME TypeOK, OnceInv, NEW g \in Gens, Requery(g) \/ ResendWrite(g)
  PROVE  OnceInv'
<1> DEFINE more == [r \in Req |-> IF r \in lost[g] THEN unread[child][r] + 1
                                             ELSE unread[child][r]]
<1>0. /\ UNCHANGED <<proc, runs, sent, cur>>
      /\ pump' = [pump EXCEPT ![g] = "done"] /\ lost' = [lost EXCEPT ![g] = {}]
      /\ pump \in [Gens -> PumpStates] /\ lost \in [Gens -> SUBSET Req]
      /\ unread' = unread \/ unread' = [unread EXCEPT ![child] = more]
  BY DEF Requery, ResendWrite, TypeOK, PumpOK, clientVars, intakeVars
<1>1. CASE \E h \in Gens : proc[h] = "idle"
  BY <1>0, <1>1 DEF OnceInv
<1>2. CASE \A h \in Gens : proc[h] # "idle"
  <2>1. lost[g] \subseteq Doctors
    BY <1>2 DEF OnceInv
  <2>2. \A r \in Simple : more[r] = unread[child][r]
    BY <2>1 DEF Simple
  <2> HIDE DEF more
  <2>3. \A r \in Simple, h \in Gens : unread'[h][r] = unread[h][r]
    BY <1>0, <2>2 DEF TypeOK, ProcOK
  <2> QED BY <1>0, <2>3, OnceFrame
<1> QED BY <1>1, <1>2

\* terminate() ends the current child, if it is up, and no other.
LEMMA TerminatedOnly ==
  ASSUME TypeOK, NEW g \in Gens
  PROVE  Terminated[g] = proc[g] \/ (proc[g] = "up" /\ Terminated[g] = "gone")
<1>1. proc \in [Gens -> {"none", "up", "idle", "gone"}] /\ child \in Gens
  BY DEF TypeOK, ProcOK, SupOK
<1>2. CASE g = child
  BY <1>1, <1>2 DEF Terminated
<1>3. CASE g # child
  BY <1>1, <1>3 DEF Terminated
<1> QED BY <1>2, <1>3

\* A child that was not spawned yet is no process.
LEMMA UnbornSpawn ==
  ASSUME TypeOK, Unborn, NEW P, Spawn(P),
         P \in {proc, Terminated}
  PROVE  /\ Unborn'
         /\ \A g \in Gens : proc[g] = "idle" => proc'[g] = "idle"
<1>1. /\ child \in Nat /\ child + 1 \in Gens /\ child' = child + 1
      /\ proc' = [P EXCEPT ![child + 1] = "up"] /\ proc[child + 1] = "none"
      /\ proc \in [Gens -> {"none", "up", "idle", "gone"}]
  BY DEF Spawn, TypeOK, SupOK, ProcOK, Unborn, Gens
<1>2. \A g \in Gens : P[g] = proc[g] \/ (proc[g] = "up" /\ P[g] = "gone")
  BY TerminatedOnly
<1>3. P \in [Gens -> {"none", "up", "idle", "gone"}]
  BY TerminatedType DEF TypeOK, ProcOK
<1> QED BY <1>1, <1>2, <1>3 DEF Unborn, Gens

\* A spawn that raised and its clean-up end a child and a pump at most.
LEMMA OnceFailed ==
  ASSUME TypeOK, Unborn, OnceInv, SpawnFails,
         UNCHANGED <<child, unread, runs, sent, cur>>,
         \A g \in Gens : pump'[g] \in {"rewrite", "resend"}
            => pump[g] \in {"rewrite", "resend"},
         \A g \in Gens : lost'[g] \subseteq lost[g]
  PROVE  Unborn' /\ OnceInv'
<1>1. \A g \in Gens : proc'[g] = proc[g] \/ (proc[g] = "up" /\ proc'[g] = "gone")
  BY TerminatedOnly DEF SpawnFails
<1> QED BY <1>1, OnceFrame DEF Unborn

\* No step but the re-send after an idle-out makes a second copy.
LEMMA OnceStep ==
  TypeOK /\ OnlySent /\ Unborn /\ OnceInv /\ [Next]_vars => Unborn' /\ OnceInv'
<1> SUFFICES ASSUME TypeOK, OnlySent, Unborn, OnceInv, [Next]_vars
             PROVE  Unborn' /\ OnceInv'
  OBVIOUS
<1>0. /\ child \in Gens /\ pump \in [Gens -> PumpStates] /\ cur \in sent \cup {NoReq}
      /\ proc \in [Gens -> {"none", "up", "idle", "gone"}] /\ lost \in [Gens -> SUBSET Req]
  BY DEF TypeOK, SupOK, PumpOK, ProcOK, OnlySent
<1> USE <1>0, Kinds DEF clientVars, intakeVars, supVars, wireVars, setupVars, procVars,
       pumpVars, versionVars, boundVars
<1>1. ASSUME UNCHANGED <<unread, runs, child, proc, lost, sent>>, cur' \in {cur, NoReq},
             \/ pump' = pump
             \/ \E g \in Gens, s \in PumpStates \ {"rewrite", "resend"} :
                   pump' = [pump EXCEPT ![g] = s]
      PROVE  Unborn' /\ OnceInv'
  <2>1. \A r \in Simple : r \notin sent' \/ r = cur' => r \notin sent \/ r = cur
    BY <1>1 DEF Simple
  <2>2. OnceInv'
    BY <1>1, <2>1, OnceFrame
  <2> QED BY <1>1, <2>2 DEF Unborn
<1>2. ASSUME NEW P, Spawn(P), P \in {proc, Terminated}, UNCHANGED <<runs, lost, sent, cur>>,
             \A g \in Gens : pump'[g] \in {"rewrite", "resend"}
                => pump[g] \in {"rewrite", "resend"}
      PROVE  Unborn' /\ OnceInv'
  <2>1. \A r \in Simple, g \in Gens : unread'[g][r] \in {unread[g][r], 0}
    BY <1>2, OnceSpawn
  <2>2. Unborn' /\ \A g \in Gens : proc[g] = "idle" => proc'[g] = "idle"
    BY <1>2, UnbornSpawn
  <2> QED BY <1>2, <2>1, <2>2, OnceFrame
<1>3. ASSUME NEW r \in Req, Intake(r) PROVE Unborn' /\ OnceInv'
  <2>1. UNCHANGED <<unread, runs, child, proc, pump, lost>> /\ sent' = sent \cup {r} /\ cur' = r
        /\ r \notin sent
    BY <1>3 DEF Intake
  <2> QED BY <2>1, OnceFrame DEF Unborn
<1>4. ASSUME Wake PROVE Unborn' /\ OnceInv'
  <2>1. CASE Spawn(proc) /\ pump' = [pump EXCEPT ![child + 1] = "read"]
    BY <1>2, <1>4, <2>1 DEF Wake
  <2>2. CASE UNCHANGED <<child, unread, proc, pump>>
    BY <1>1, <1>4, <2>2 DEF Wake
  <2>3. CASE SpawnFails /\ Reap(pump) /\ UNCHANGED <<child, unread>>
    BY <1>4, <2>3, OnceFailed DEF Wake, Reap
  <2> QED BY <1>4, <2>1, <2>2, <2>3 DEF Wake
<1>5. ASSUME Write PROVE Unborn' /\ OnceInv'
  BY <1>5, OnceWrite DEF Write, Unborn
<1>6. ASSUME NEW g \in Gens, NEW r \in Req, ChildRead(g, r) PROVE Unborn' /\ OnceInv'
  BY <1>6, OnceRead DEF ChildRead, Unborn
<1>7. ASSUME NEW g \in Gens, NEW how \in {"idle", "gone"}, ChildExit(g, how)
      PROVE  Unborn' /\ OnceInv'
  <2>1. /\ UNCHANGED <<unread, runs, child, pump, lost, sent, cur>>
        /\ proc' = [proc EXCEPT ![g] = how] /\ proc[g] = "up"
    BY <1>7 DEF ChildExit
  <2> QED BY <2>1, OnceFrame DEF Unborn
<1>8. ASSUME NEW g \in Gens, NEW r \in Req, PumpReply(g, r) \/ PumpNotice(g, r)
      PROVE  Unborn' /\ OnceInv'
  <2>1. UNCHANGED <<unread, runs, child, proc, lost, sent, cur>>
    BY <1>8 DEF PumpReply, PumpNotice
  <2>2. pump' = pump \/ pump' = [pump EXCEPT ![g] = "hand"]
    BY <1>8 DEF PumpReply, PumpNotice, PassOn, Keep
  <2> QED BY <1>1, <2>1, <2>2 DEF PumpStates
<1>9. ASSUME NEW g \in Gens, PumpWrite(g) \/ PumpEOF(g) \/ CrashSeen(g) \/ CrashAsk(g)
                             \/ CrashNote(g)
      PROVE  Unborn' /\ OnceInv'
  <2>1. UNCHANGED <<unread, runs, child, proc, lost, sent, cur>>
    BY <1>9 DEF PumpWrite, PumpEOF, CrashSeen, CrashAsk, CrashNote
  <2>2. \E s \in {"read", "done", "reap", "delay", "note", "respawn", "resetup"} :
           pump' = [pump EXCEPT ![g] = s]
    BY <1>9 DEF PumpWrite, PumpEOF, CrashSeen, CrashAsk, RestartAsk, CrashNote
  <2> QED BY <1>1, <2>1, <2>2 DEF PumpStates
<1>10. ASSUME NEW g \in Gens, MarkIdle(g) PROVE Unborn' /\ OnceInv'
  <2>1. proc[g] = "idle" /\ UNCHANGED <<child, proc>>
    BY <1>10 DEF MarkIdle
  <2> QED BY <2>1 DEF Unborn, OnceInv
<1>11. ASSUME NEW g \in Gens, ResendWake(g) PROVE Unborn' /\ OnceInv'
  <2>1. UNCHANGED <<runs, sent, cur>> /\ pump[g] = "resend"
    BY <1>11 DEF ResendWake
  <2>2. CASE Spawn(proc) /\ lost' = lost
             /\ pump' = [pump EXCEPT ![g] = "rewrite", ![child + 1] = "read"]
    BY <1>2, <2>1, <2>2
  <2>3. CASE UNCHANGED <<child, unread, proc>>
    BY <2>1, <2>3 DEF Unborn, OnceInv
  <2>4. CASE /\ SpawnFails /\ Reap([pump EXCEPT ![g] = "done"])
             /\ lost' = [lost EXCEPT ![g] = {}] /\ UNCHANGED <<child, unread>>
    BY <2>1, <2>4, OnceFailed DEF Reap
  <2> QED BY <1>11, <2>2, <2>3, <2>4 DEF ResendWake
<1>12. ASSUME NEW g \in Gens, ResendWrite(g) \/ Requery(g) PROVE Unborn' /\ OnceInv'
  BY <1>12, OnceRequery DEF ResendWrite, Requery, Unborn
<1>13. ASSUME NEW next \in [Gens -> PumpStates], NEW failed \in [Gens -> PumpStates],
              RestartChild(next, failed), UNCHANGED <<runs, lost, sent, cur>>,
              \A g \in Gens : {next[g], failed[g]} \cap {"rewrite", "resend"} # {}
                => pump[g] \in {"rewrite", "resend"}
       PROVE  Unborn' /\ OnceInv'
  <2>1. CASE Spawn(Terminated) /\ pump' = [next EXCEPT ![child + 1] = "read"]
    BY <1>2, <1>13, <2>1
  <2>2. CASE SpawnFails /\ pump' = failed /\ UNCHANGED <<child, unread>>
    BY <1>13, <2>2, OnceFailed
  <2> QED BY <1>13, <2>1, <2>2 DEF RestartChild
<1>14. ASSUME NEW g \in Gens, CrashRestart(g) PROVE Unborn' /\ OnceInv'
  <2>1. [pump EXCEPT ![g] = "resetup"] \in [Gens -> PumpStates]
        /\ [pump EXCEPT ![g] = "done"] \in [Gens -> PumpStates]
    BY DEF PumpStates
  <2>2. \A h \in Gens : {[pump EXCEPT ![g] = "resetup"][h], [pump EXCEPT ![g] = "done"][h]}
                             \cap {"rewrite", "resend"} # {}
                         => pump[h] \in {"rewrite", "resend"}
    OBVIOUS
  <2> QED BY <1>13, <1>14, <2>1, <2>2 DEF CrashRestart
<1>15. ASSUME WatchdogRestart PROVE Unborn' /\ OnceInv'
  BY <1>13, <1>15 DEF WatchdogRestart
<1>16. ASSUME NEW g \in Gens, Resetup(g) PROVE Unborn' /\ OnceInv'
  <2>1. /\ UNCHANGED <<unread, runs, child, proc, sent, cur>>
        /\ \E s \in {"done", "requery"} : pump' = [pump EXCEPT ![g] = s]
        /\ lost' = lost \/ (setupHeld # NoReq /\ lost' = [lost EXCEPT ![g] = {setupId}])
    BY <1>16 DEF Resetup
  <2>2. setupHeld # NoReq => setupId \in Doctors
    BY DEF TypeOK, SetupOK
  <2> QED BY <2>1, <2>2, OnceFrame DEF Unborn
<1>17. CASE \/ \E r \in Req : LostTimer(r)
            \/ Record \/ GiveUp \/ \E g \in Gens, r \in Req : ChildReply(g, r)
            \/ WatchdogAsk \/ WatchdogNote \/ Updated \/ GuardRelease \/ UNCHANGED vars
  BY <1>1, <1>17 DEF LostTimer, Record, GiveUp, ChildReply,
     WatchdogAsk, WatchdogNote, Updated, GuardRelease, vars
<1> QED
  BY <1>3, <1>4, <1>5, <1>6, <1>7, <1>8, <1>9, <1>10, <1>11, <1>12, <1>14, <1>15, <1>16,
     <1>17 DEF Next, IntakeStep, ChildStep, PumpStep, WatchdogStep
===============================================================================
