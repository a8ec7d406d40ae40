--------------------------- MODULE SupervisorTypes ----------------------------
(***************************************************************************)
(* Type correctness of the supervisor, for any requests, bounds, retries.  *)
(***************************************************************************)
EXTENDS Supervisor, TLAPS

\* The kinds of requests as KindsAssumption gives them.
LEMMA Kinds ==
  /\ InitReq \in Req /\ NoReq \notin Req
  /\ Doctors \subseteq ToolCalls /\ ToolCalls \subseteq Req
  /\ NoReq \notin Doctors /\ InitReq \notin ToolCalls
BY KindsAssumption DEF Req, ToolCalls

\* The empty count table.
LEMMA NobodyCounts == Nobody \in Counts
BY DEF Nobody, Counts

\* Changing one count of one child keeps a table of counts.
LEMMA Bump ==
  ASSUME NEW F \in [Gens -> Counts], NEW g \in Gens, NEW r \in Req,
         NEW n \in Nat
  PROVE  [F EXCEPT ![g][r] = n] \in [Gens -> Counts]
<1>1. [F[g] EXCEPT ![r] = n] \in Counts
  BY DEF Counts
<1> QED
  BY <1>1

\* What a table of counts holds.
LEMMA CountNat ==
  ASSUME NEW F \in [Gens -> Counts], NEW g \in Gens, NEW r \in Req
  PROVE  F[g][r] \in Nat
BY DEF Counts

\* Supervisor.spawn: the next generation, with the handshake in its pipe.
LEMMA SpawnTypes ==
  ASSUME ProcOK, NEW P \in [Gens -> {"none", "up", "idle", "gone"}], Spawn(P)
  PROVE  /\ child' \in Gens
         /\ proc' \in [Gens -> {"none", "up", "idle", "gone"}]
         /\ unread' \in [Gens -> Counts]
         /\ child' = child + 1
<1> DEFINE hello == IF handshake THEN [Nobody EXCEPT ![InitReq] = 1] ELSE unread[child + 1]
<1>1. child' = child + 1 /\ child + 1 \in Gens
  BY DEF Spawn
<1>2. hello \in Counts
  <2>1. [Nobody EXCEPT ![InitReq] = 1] \in Counts
    BY NobodyCounts DEF Counts
  <2> QED BY <1>1, <2>1 DEF ProcOK
<1>3. unread' = [unread EXCEPT ![child + 1] = hello]
  BY DEF Spawn
<1>4. unread' \in [Gens -> Counts]
  BY <1>1, <1>2, <1>3 DEF ProcOK
<1>5. proc' = [P EXCEPT ![child + 1] = "up"]
  BY DEF Spawn
<1> QED
  BY <1>1, <1>4, <1>5

\* terminate() leaves a process table.
LEMMA TerminatedType ==
  ProcOK /\ SupOK => Terminated \in [Gens -> {"none", "up", "idle", "gone"}]
BY DEF ProcOK, SupOK, Terminated

\* The types of the children's tables after this action.
LEMMA ChildReplyProc ==
  ASSUME TypeOK, NEW g \in Gens, NEW r \in Req, ChildReply(g,r)
  PROVE  ProcOK'
<3>1. /\ running[g][r] - 1 \in Nat
      /\ out[g][r] + 1 \in Nat /\ notice[g][r] + 1 \in Nat
  BY CountNat DEF ChildReply, TypeOK, ProcOK
<3>2. running' \in [Gens -> Counts]
  BY <3>1, Bump DEF ChildReply, TypeOK, ProcOK
<3>3. out' \in [Gens -> Counts]
  <4>1. CASE out' = [out EXCEPT ![g][r] = @ + 1]
    BY <3>1, <4>1, Bump DEF TypeOK, ProcOK
  <4>2. CASE out' = out
    BY <4>2 DEF TypeOK, ProcOK
  <4> QED
    BY <4>1, <4>2 DEF ChildReply
<3>4. notice' \in [Gens -> Counts]
  BY <3>1, Bump DEF ChildReply, TypeOK, ProcOK
<3> QED
  BY <3>2, <3>3, <3>4 DEF ChildReply, TypeOK, ProcOK

\* The types of the children's tables after this action.
LEMMA WakeProc ==
  ASSUME TypeOK, Wake
  PROVE  ProcOK'
BY SpawnTypes, TerminatedType DEF Wake, SpawnFails, TypeOK, ProcOK

\* The types of the children's tables after this action.
LEMMA WriteProc ==
  ASSUME TypeOK, Write
  PROVE  ProcOK'
<3>1. CASE proc[target] = "up" /\ unread' = [unread EXCEPT ![target][cur] = @ + 1]
  <4>1. unread[target][cur] + 1 \in Nat
    BY CountNat DEF Write, TypeOK, ProcOK, SupOK, IntakeOK
  <4> QED
    BY <3>1, <4>1, Bump DEF Write, TypeOK, ProcOK, SupOK, IntakeOK
<3>2. CASE proc[target] # "up"
  BY <3>2 DEF Write, TypeOK, ProcOK
<3> QED
  BY <3>1, <3>2 DEF Write

\* The types of the children's tables after this action.
LEMMA ResendWakeProc ==
  ASSUME TypeOK, NEW g \in Gens, ResendWake(g)
  PROVE  ProcOK'
BY SpawnTypes, TerminatedType DEF ResendWake, SpawnFails, TypeOK, ProcOK, procVars

\* Writing lines again keeps the table of pipes a table of counts.
LEMMA Rewritten ==
  ASSUME ProcOK, SupOK, NEW L,
         \/ UNCHANGED unread
         \/ unread' = [unread EXCEPT ![child] =
                         [r \in Req |-> IF r \in L THEN unread[child][r] + 1
                                                   ELSE unread[child][r]]]
  PROVE  unread' \in [Gens -> Counts]
<1> DEFINE more == [r \in Req |-> IF r \in L THEN unread[child][r] + 1
                                             ELSE unread[child][r]]
<1>1. more \in Counts
  BY CountNat DEF ProcOK, SupOK, Counts
<1> HIDE DEF more
<1>2. [unread EXCEPT ![child] = more] \in [Gens -> Counts]
  BY <1>1 DEF ProcOK
<1> QED
  BY <1>2 DEF ProcOK, more

\* The types of the children's tables after this action.
LEMMA ResendWriteProc ==
  ASSUME TypeOK, NEW g \in Gens, ResendWrite(g) \/ Requery(g)
  PROVE  ProcOK'
<1>1. unread' \in [Gens -> Counts]
  BY Rewritten DEF ResendWrite, Requery, TypeOK
<1> QED
  BY <1>1 DEF ResendWrite, Requery, TypeOK, ProcOK

\* The types of the children's tables after this action.
LEMMA RestartProc ==
  ASSUME TypeOK, NEW X, NEW Y, RestartChild(X, Y),
         UNCHANGED <<running, out, notice, runs>>
  PROVE  ProcOK'
BY SpawnTypes, TerminatedType DEF RestartChild, SpawnFails, TypeOK, ProcOK

\* The tail of _pump_child_out: a pump has a line exactly when it is to write one.
LEMMA PassOnTypes ==
  ASSUME SupOK, PumpOK, NEW g \in Gens, NEW r \in Req, pump[g] = "read",
         child' = child, lost' = lost, PassOn(g, r) \/ Keep
  PROVE  pending' \subseteq Req /\ ledger' \subseteq Req /\ PumpOK'
<1> USE Kinds DEF PumpStates
<1>1. CASE hand' = hand /\ pump' = pump
  BY <1>1 DEF PumpOK, SupOK, PassOn, Keep
<1>2. CASE hand' = [hand EXCEPT ![g] = r] /\ pump' = [pump EXCEPT ![g] = "hand"]
  BY <1>2 DEF PumpOK, SupOK, PassOn, Keep
<1> QED
  BY <1>1, <1>2 DEF PassOn, Keep, SupOK

\* q is the pump table after the calling thread parked its own pump.
Parked(q) ==
  /\ q \in [Gens -> PumpStates]
  /\ \A h \in Gens :
       q[h] = pump[h] \/ ("hand" \notin {q[h], pump[h]} /\ pump[h] # "none")

\* A new child gets a fresh pump; the calling thread parks its own elsewhere.
LEMMA SpawnPump ==
  ASSUME SupOK, PumpOK, NEW P, Spawn(P), NEW Q, Parked(Q),
         pump' = [Q EXCEPT ![child + 1] = "read"],
         hand' = hand, lost' = lost
  PROVE  PumpOK'
<1> USE DEF Parked
<1>1. child \in Nat /\ child + 1 \in Gens /\ child' = child + 1 /\ child' > child
  BY DEF SupOK, Gens, Spawn
<1>2. pump[child + 1] = "none" /\ hand[child + 1] \notin Req
  BY <1>1 DEF PumpOK
<1>3. ASSUME NEW h \in Gens PROVE hand'[h] \in Req <=> pump'[h] = "hand"
  BY <1>1, <1>2 DEF PumpOK
<1>4. ASSUME NEW h \in Gens, h > child' PROVE pump'[h] = "none"
  <2>1. h > child /\ h # child + 1
    BY <1>1, <1>4 DEF Gens
  <2> QED
    BY <1>1, <2>1 DEF PumpOK
<1> QED
  BY <1>1, <1>3, <1>4 DEF PumpOK, PumpStates

\* A pump thread past EOF may move on without touching the others.
LEMMA PumpMove ==
  ASSUME PumpOK, NEW g \in Gens, pump[g] \notin {"none", "hand"},
         NEW s \in PumpStates, s # "hand"
  PROVE  Parked([pump EXCEPT ![g] = s])
BY DEF Parked, PumpOK

\* The clean-up after a spawn that raised ends at most one pump thread, and not
\* with a line in its hand.
LEMMA ReapPump ==
  ASSUME SupOK, PumpOK, NEW Q, Parked(Q), Reap(Q),
         child' = child, hand' = hand, lost' \in [Gens -> SUBSET Req]
  PROVE  PumpOK'
<1>1. child \in Gens /\ child \in Nat
  BY DEF SupOK, Gens
<1>2. CASE pump' = Q
  BY <1>2 DEF PumpOK, Parked
<1>3. CASE pump[child] = "read" /\ pump' = [Q EXCEPT ![child] = "done"]
  <2>1. Q[child] # "hand" /\ hand[child] \notin Req
    BY <1>1, <1>3 DEF PumpOK, Parked
  <2>2. ASSUME NEW h \in Gens PROVE hand'[h] \in Req <=> pump'[h] = "hand"
    BY <1>1, <1>3, <2>1 DEF PumpOK, Parked
  <2>3. ASSUME NEW h \in Gens, h > child' PROVE pump'[h] = "none"
    BY <1>1, <1>3, <2>3 DEF PumpOK, Parked
  <2> QED
    BY <1>1, <1>3, <2>2, <2>3 DEF PumpOK, Parked, PumpStates
<1> QED
  BY <1>2, <1>3 DEF Reap

\* restart_child, from the pump thread or from the watchdog.
LEMMA RestartPump ==
  ASSUME SupOK, ProcOK, PumpOK, NEW next, NEW failed, RestartChild(next,
         failed),
         Parked(next), Parked(failed),
         hand' = hand, lost' = lost
  PROVE  PumpOK'
<1>1. CASE child' = child /\ pump' \in {next, failed}
  BY <1>1 DEF PumpOK, Parked
<1>2. CASE Spawn(Terminated) /\ pump' = [next EXCEPT ![child + 1] = "read"]
  BY <1>2, SpawnPump
<1> QED
  BY <1>1, <1>2 DEF RestartChild

\* Every step keeps the types; pipes and pump states need a lemma, the rest is
\* read off the action.
LEMMA TypeStep == TypeOK /\ [Next]_vars => TypeOK'
<1> SUFFICES ASSUME TypeOK, [Next]_vars PROVE TypeOK'
  OBVIOUS
<1> USE Kinds, NobodyCounts DEF Counts, PumpStates,
      clientVars, intakeVars, supVars, wireVars, setupVars, procVars, pumpVars,
      versionVars, boundVars
<1>1. ASSUME NEW r \in Req, Intake(r)
      PROVE  TypeOK'
  BY <1>1 DEF Intake, TypeOK, ProcOK, ClientOK, IntakeOK, SupOK, WireOK,
         SetupOK, PumpOK, VersionOK, BoundOK
<1>2. ASSUME NEW r \in Req, LostTimer(r)
      PROVE  TypeOK'
  BY <1>2 DEF LostTimer, TypeOK, ProcOK, ClientOK, IntakeOK, SupOK, WireOK,
         SetupOK, PumpOK, VersionOK, BoundOK
<1>3. ASSUME Record
      PROVE  TypeOK'
  BY <1>3 DEF Record, TypeOK, ProcOK, ClientOK, IntakeOK, SupOK, WireOK,
         SetupOK, PumpOK, VersionOK, BoundOK
<1>4. ASSUME Wake
      PROVE  TypeOK'
  <2>1. ProcOK'
    BY <1>4, WakeProc DEF Wake
  <2>2. ClientOK'
    BY <1>4 DEF Wake, Spawn, SpawnFails, BackOff, TypeOK, ClientOK, IntakeOK,
         SupOK, WireOK, SetupOK, PumpOK, VersionOK, BoundOK
  <2>3. SupOK'
    BY <1>4, SpawnTypes, TerminatedType DEF Wake, Spawn, SpawnFails, BackOff,
         TypeOK, ClientOK, IntakeOK, SupOK, WireOK, SetupOK, PumpOK,
         VersionOK, BoundOK, ProcOK
  <2>4. SetupOK'
    BY <1>4 DEF Wake, Spawn, SpawnFails, BackOff, TypeOK, ClientOK, IntakeOK,
         SupOK, WireOK, SetupOK, PumpOK, VersionOK, BoundOK
  <2>5. PumpOK'
    <3>1. CASE child' = child /\ pump' = pump
      BY <1>4, <3>1 DEF Wake, TypeOK, PumpOK
    <3>2. CASE Spawn(proc) /\ pump' = [pump EXCEPT ![child + 1] = "read"]
      BY <1>4, <3>2, SpawnPump DEF Wake, Parked, TypeOK, PumpOK
    <3>3. CASE Reap(pump) /\ child' = child
      BY <1>4, <3>3, ReapPump DEF Wake, Parked, TypeOK, PumpOK
    <3> QED
      BY <1>4, <3>1, <3>2, <3>3 DEF Wake
  <2>6. IntakeOK' /\ WireOK'
    BY <1>4 DEF Wake, Spawn, SpawnFails, BackOff, TypeOK, ClientOK, IntakeOK,
         SupOK, WireOK, SetupOK, PumpOK, VersionOK, BoundOK
  <2>7. VersionOK' /\ BoundOK'
    BY <1>4 DEF Wake, Spawn, SpawnFails, BackOff, TypeOK, ClientOK, IntakeOK,
         SupOK, WireOK, SetupOK, PumpOK, VersionOK, BoundOK
  <2> QED
    BY <2>1, <2>2, <2>3, <2>4, <2>5, <2>6, <2>7 DEF TypeOK
<1>5. ASSUME Write
      PROVE  TypeOK'
  BY <1>5, WriteProc DEF Write, BackOff, TypeOK, ClientOK, IntakeOK, SupOK,
         WireOK, SetupOK, PumpOK, VersionOK, BoundOK
<1>6. ASSUME GiveUp
      PROVE  TypeOK'
  BY <1>6 DEF GiveUp, FailRequests, TypeOK, ProcOK, ClientOK, IntakeOK, SupOK,
         WireOK, SetupOK, PumpOK, VersionOK, BoundOK
<1>7. ASSUME NEW g \in Gens, NEW r \in Req, ChildRead(g, r)
      PROVE  TypeOK'
  BY <1>7 DEF ChildRead, TypeOK, ProcOK, ClientOK, IntakeOK, SupOK, WireOK,
         SetupOK, PumpOK, VersionOK, BoundOK
<1>8. ASSUME NEW g \in Gens, NEW r \in Req, ChildReply(g, r)
      PROVE  TypeOK'
  <2>1. ProcOK'
    BY <1>8, ChildReplyProc DEF ChildReply
  <2>2. ClientOK'
    BY <1>8 DEF ChildReply, TypeOK, ClientOK, IntakeOK, SupOK, WireOK,
         SetupOK, PumpOK, VersionOK, BoundOK
  <2>3. SupOK'
    BY <1>8 DEF ChildReply, TypeOK, ClientOK, IntakeOK, SupOK, WireOK,
         SetupOK, PumpOK, VersionOK, BoundOK
  <2>4. SetupOK'
    BY <1>8 DEF ChildReply, TypeOK, ClientOK, IntakeOK, SupOK, WireOK,
         SetupOK, PumpOK, VersionOK, BoundOK
  <2>5. PumpOK'
    BY <1>8 DEF ChildReply, TypeOK, ClientOK, IntakeOK, SupOK, WireOK,
         SetupOK, PumpOK, VersionOK, BoundOK
  <2>6. IntakeOK' /\ WireOK'
    BY <1>8 DEF ChildReply, TypeOK, ClientOK, IntakeOK, SupOK, WireOK,
         SetupOK, PumpOK, VersionOK, BoundOK
  <2>7. VersionOK' /\ BoundOK'
    BY <1>8 DEF ChildReply, TypeOK, ClientOK, IntakeOK, SupOK, WireOK,
         SetupOK, PumpOK, VersionOK, BoundOK
  <2> QED
    BY <2>1, <2>2, <2>3, <2>4, <2>5, <2>6, <2>7 DEF TypeOK
<1>9. ASSUME NEW g \in Gens, NEW how \in {"idle", "gone"}, ChildExit(g, how)
      PROVE  TypeOK'
  BY <1>9 DEF ChildExit, TypeOK, ProcOK, ClientOK, IntakeOK, SupOK, WireOK,
         SetupOK, PumpOK, VersionOK, BoundOK
<1>10. ASSUME NEW g \in Gens, NEW r \in Req, PumpReply(g, r)
      PROVE  TypeOK'
  <2>1. ProcOK'
    BY <1>10 DEF PumpReply, PassOn, Keep, ResetSetup, TypeOK, ProcOK
  <2>2. ClientOK'
    BY <1>10 DEF PumpReply, PassOn, Keep, ResetSetup, TypeOK, ClientOK,
         IntakeOK, SupOK, WireOK, SetupOK, PumpOK, VersionOK, BoundOK, ProcOK
  <2>3. SupOK'
    BY <1>10, PassOnTypes DEF PumpReply, TypeOK, SupOK
  <2>4. SetupOK'
    BY <1>10 DEF PumpReply, PassOn, Keep, ResetSetup, TypeOK, ClientOK,
         IntakeOK, SupOK, WireOK, SetupOK, PumpOK, VersionOK, BoundOK, ProcOK
  <2>5. PumpOK'
    BY <1>10, PassOnTypes DEF PumpReply, TypeOK
  <2>6. IntakeOK' /\ WireOK'
    BY <1>10 DEF PumpReply, PassOn, Keep, ResetSetup, TypeOK, ClientOK,
         IntakeOK, SupOK, WireOK, SetupOK, PumpOK, VersionOK, BoundOK, ProcOK
  <2>7. VersionOK' /\ BoundOK'
    BY <1>10 DEF PumpReply, PassOn, Keep, ResetSetup, TypeOK, ClientOK,
         IntakeOK, SupOK, WireOK, SetupOK, PumpOK, VersionOK, BoundOK, ProcOK
  <2> QED
    BY <2>1, <2>2, <2>3, <2>4, <2>5, <2>6, <2>7 DEF TypeOK
<1>11. ASSUME NEW g \in Gens, NEW r \in Req, PumpNotice(g, r)
      PROVE  TypeOK'
  <2>1. ProcOK'
    BY <1>11 DEF PumpNotice, PassOn, Keep, ResetSetup, TypeOK, ProcOK
  <2>2. ClientOK'
    BY <1>11 DEF PumpNotice, PassOn, Keep, ResetSetup, TypeOK, ClientOK,
         IntakeOK, SupOK, WireOK, SetupOK, PumpOK, VersionOK, BoundOK
  <2>3. SupOK'
    BY <1>11, PassOnTypes DEF PumpNotice, TypeOK, SupOK
  <2>4. SetupOK'
    BY <1>11 DEF PumpNotice, PassOn, Keep, ResetSetup, TypeOK, ClientOK,
         IntakeOK, SupOK, WireOK, SetupOK, PumpOK, VersionOK, BoundOK
  <2>5. PumpOK'
    BY <1>11, PassOnTypes DEF PumpNotice, TypeOK
  <2>6. IntakeOK' /\ WireOK'
    BY <1>11 DEF PumpNotice, PassOn, Keep, ResetSetup, TypeOK, ClientOK,
         IntakeOK, SupOK, WireOK, SetupOK, PumpOK, VersionOK, BoundOK
  <2>7. VersionOK' /\ BoundOK'
    BY <1>11 DEF PumpNotice, PassOn, Keep, ResetSetup, TypeOK, ClientOK,
         IntakeOK, SupOK, WireOK, SetupOK, PumpOK, VersionOK, BoundOK
  <2> QED
    BY <2>1, <2>2, <2>3, <2>4, <2>5, <2>6, <2>7 DEF TypeOK
<1>12. ASSUME NEW g \in Gens, PumpWrite(g)
      PROVE  TypeOK'
  BY <1>12 DEF PumpWrite, TypeOK, ProcOK, ClientOK, IntakeOK, SupOK, WireOK,
         SetupOK, PumpOK, VersionOK, BoundOK
<1>13. ASSUME NEW g \in Gens, PumpEOF(g)
      PROVE  TypeOK'
  BY <1>13 DEF PumpEOF, AtEOF, TypeOK, ProcOK, ClientOK, IntakeOK, SupOK,
         WireOK, SetupOK, PumpOK, VersionOK, BoundOK
<1>14. ASSUME NEW g \in Gens, MarkIdle(g)
      PROVE  TypeOK'
  <2>1. ProcOK'
    BY <1>14 DEF MarkIdle, Unanswered, TypeOK, ProcOK
  <2>2. ClientOK'
    BY <1>14 DEF MarkIdle, Unanswered, TypeOK, ClientOK, IntakeOK, SupOK,
         WireOK, SetupOK, PumpOK, VersionOK, BoundOK
  <2>3. SupOK'
    BY <1>14 DEF MarkIdle, Unanswered, TypeOK, ClientOK, IntakeOK, SupOK,
         WireOK, SetupOK, PumpOK, VersionOK, BoundOK
  <2>4. SetupOK'
    BY <1>14 DEF MarkIdle, Unanswered, TypeOK, ClientOK, IntakeOK, SupOK,
         WireOK, SetupOK, PumpOK, VersionOK, BoundOK
  <2>5. PumpOK'
    BY <1>14 DEF MarkIdle, Unanswered, TypeOK, ClientOK, IntakeOK, SupOK,
         WireOK, SetupOK, PumpOK, VersionOK, BoundOK
  <2>6. IntakeOK' /\ WireOK'
    BY <1>14 DEF MarkIdle, Unanswered, TypeOK, ClientOK, IntakeOK, SupOK,
         WireOK, SetupOK, PumpOK, VersionOK, BoundOK
  <2>7. VersionOK' /\ BoundOK'
    BY <1>14 DEF MarkIdle, Unanswered, TypeOK, ClientOK, IntakeOK, SupOK,
         WireOK, SetupOK, PumpOK, VersionOK, BoundOK
  <2> QED
    BY <2>1, <2>2, <2>3, <2>4, <2>5, <2>6, <2>7 DEF TypeOK
<1>15. ASSUME NEW g \in Gens, CrashSeen(g)
      PROVE  TypeOK'
  BY <1>15 DEF CrashSeen, TypeOK, ProcOK, ClientOK, IntakeOK, SupOK, WireOK,
         SetupOK, PumpOK, VersionOK, BoundOK
<1>16. ASSUME NEW g \in Gens, ResendWake(g)
      PROVE  TypeOK'
  <2>1. ProcOK'
    BY <1>16, ResendWakeProc DEF ResendWake
  <2>2. ClientOK'
    BY <1>16 DEF ResendWake, Spawn, SpawnFails, FailRequests, TypeOK,
         ClientOK, IntakeOK, SupOK, WireOK, SetupOK, PumpOK, VersionOK,
         BoundOK
  <2>3. SupOK'
    BY <1>16, SpawnTypes, TerminatedType DEF ResendWake, Spawn, SpawnFails,
         FailRequests, TypeOK, ClientOK, IntakeOK, SupOK, WireOK, SetupOK,
         PumpOK, VersionOK, BoundOK, ProcOK
  <2>4. SetupOK'
    BY <1>16 DEF ResendWake, Spawn, SpawnFails, FailRequests, TypeOK,
         ClientOK, IntakeOK, SupOK, WireOK, SetupOK, PumpOK, VersionOK,
         BoundOK
  <2>5. PumpOK'
    <3>1. CASE child' = child /\ pump' = [pump EXCEPT ![g] = "rewrite"]
      BY <1>16, <3>1 DEF ResendWake, TypeOK, PumpOK
    <3>2. CASE /\ Spawn(proc) /\ lost' = lost
               /\ pump' = [[pump EXCEPT ![g] = "rewrite"] EXCEPT ![child + 1] = "read"]
      <4>1. Parked([pump EXCEPT ![g] = "rewrite"])
        BY <1>16, PumpMove DEF ResendWake, TypeOK
      <4> QED
        BY <1>16, <3>2, <4>1, SpawnPump DEF ResendWake, TypeOK
    <3>3. CASE /\ child' = child /\ Reap([pump EXCEPT ![g] = "done"])
               /\ lost' = [lost EXCEPT ![g] = {}]
      <4> DEFINE Q == [pump EXCEPT ![g] = "done"]
      <4>1. Parked(Q) /\ hand' = hand
        BY <1>16, PumpMove DEF ResendWake, TypeOK
      <4>2. lost' \in [Gens -> SUBSET Req]
        BY <3>3 DEF TypeOK, PumpOK
      <4> QED
        BY <3>3, <4>1, <4>2, ReapPump DEF TypeOK
    <3> QED
      BY <1>16, <3>1, <3>2, <3>3 DEF ResendWake
  <2>6. IntakeOK' /\ WireOK'
    BY <1>16 DEF ResendWake, Spawn, SpawnFails, FailRequests, TypeOK,
         ClientOK, IntakeOK, SupOK, WireOK, SetupOK, PumpOK, VersionOK,
         BoundOK
  <2>7. VersionOK' /\ BoundOK'
    BY <1>16 DEF ResendWake, Spawn, SpawnFails, FailRequests, TypeOK,
         ClientOK, IntakeOK, SupOK, WireOK, SetupOK, PumpOK, VersionOK,
         BoundOK
  <2> QED
    BY <2>1, <2>2, <2>3, <2>4, <2>5, <2>6, <2>7 DEF TypeOK
<1>17. ASSUME NEW g \in Gens, ResendWrite(g)
      PROVE  TypeOK'
  <2>1. ProcOK'
    BY <1>17, ResendWriteProc DEF ResendWrite
  <2>2. ClientOK'
    BY <1>17 DEF ResendWrite, FailRequests, TypeOK, ClientOK, IntakeOK, SupOK,
         WireOK, SetupOK, PumpOK, VersionOK, BoundOK
  <2>3. SupOK'
    BY <1>17 DEF ResendWrite, FailRequests, TypeOK, ClientOK, IntakeOK, SupOK,
         WireOK, SetupOK, PumpOK, VersionOK, BoundOK
  <2>4. SetupOK'
    BY <1>17 DEF ResendWrite, FailRequests, TypeOK, ClientOK, IntakeOK, SupOK,
         WireOK, SetupOK, PumpOK, VersionOK, BoundOK
  <2>5. PumpOK'
    BY <1>17 DEF ResendWrite, FailRequests, TypeOK, ClientOK, IntakeOK, SupOK,
         WireOK, SetupOK, PumpOK, VersionOK, BoundOK
  <2>6. IntakeOK' /\ WireOK'
    BY <1>17 DEF ResendWrite, FailRequests, TypeOK, ClientOK, IntakeOK, SupOK,
         WireOK, SetupOK, PumpOK, VersionOK, BoundOK
  <2>7. VersionOK' /\ BoundOK'
    BY <1>17 DEF ResendWrite, FailRequests, TypeOK, ClientOK, IntakeOK, SupOK,
         WireOK, SetupOK, PumpOK, VersionOK, BoundOK
  <2> QED
    BY <2>1, <2>2, <2>3, <2>4, <2>5, <2>6, <2>7 DEF TypeOK
<1>18. ASSUME NEW g \in Gens, CrashAsk(g)
      PROVE  TypeOK'
  BY <1>18 DEF CrashAsk, RestartAsk, TypeOK, ProcOK, ClientOK, IntakeOK,
         SupOK, WireOK, SetupOK, PumpOK, VersionOK, BoundOK
<1>19. ASSUME NEW g \in Gens, CrashNote(g)
      PROVE  TypeOK'
  BY <1>19 DEF CrashNote, TypeOK, ProcOK, ClientOK, IntakeOK, SupOK, WireOK,
         SetupOK, PumpOK, VersionOK, BoundOK
<1>20. ASSUME NEW g \in Gens, CrashRestart(g)
      PROVE  TypeOK'
  <2>1. ProcOK'
    BY <1>20, RestartProc DEF CrashRestart
  <2>2. ClientOK'
    BY <1>20 DEF CrashRestart, RestartChild, Spawn, SpawnFails, Terminated,
         TypeOK, ClientOK, IntakeOK, SupOK, WireOK, SetupOK, PumpOK,
         VersionOK, BoundOK
  <2>3. SupOK'
    BY <1>20, SpawnTypes, TerminatedType DEF CrashRestart, RestartChild,
         Spawn, SpawnFails, Terminated, TypeOK, ClientOK, IntakeOK, SupOK,
         WireOK, SetupOK, PumpOK, VersionOK, BoundOK, ProcOK
  <2>4. SetupOK'
    BY <1>20 DEF CrashRestart, RestartChild, Spawn, SpawnFails, Terminated,
         TypeOK, ClientOK, IntakeOK, SupOK, WireOK, SetupOK, PumpOK,
         VersionOK, BoundOK
  <2>5. PumpOK'
    <3>1. Parked([pump EXCEPT ![g] = "resetup"]) /\ Parked([pump EXCEPT ![g] = "done"])
      BY <1>20, PumpMove DEF CrashRestart, TypeOK
    <3> QED
      BY <1>20, <3>1, RestartPump DEF CrashRestart, TypeOK
  <2>6. IntakeOK' /\ WireOK'
    BY <1>20 DEF CrashRestart, RestartChild, Spawn, SpawnFails, Terminated,
         TypeOK, ClientOK, IntakeOK, SupOK, WireOK, SetupOK, PumpOK,
         VersionOK, BoundOK
  <2>7. VersionOK' /\ BoundOK'
    BY <1>20 DEF CrashRestart, RestartChild, Spawn, SpawnFails, Terminated,
         TypeOK, ClientOK, IntakeOK, SupOK, WireOK, SetupOK, PumpOK,
         VersionOK, BoundOK
  <2> QED
    BY <2>1, <2>2, <2>3, <2>4, <2>5, <2>6, <2>7 DEF TypeOK
<1>21. ASSUME NEW g \in Gens, Resetup(g)
      PROVE  TypeOK'
  <2>1. ProcOK'
    BY <1>21 DEF Resetup, TypeOK, ProcOK
  <2>2. ClientOK'
    BY <1>21 DEF Resetup, TypeOK, ClientOK, IntakeOK, SupOK, WireOK, SetupOK,
         PumpOK, VersionOK, BoundOK
  <2>3. SupOK'
    BY <1>21 DEF Resetup, TypeOK, ClientOK, IntakeOK, SupOK, WireOK, SetupOK,
         PumpOK, VersionOK, BoundOK
  <2>4. SetupOK'
    BY <1>21 DEF Resetup, TypeOK, ClientOK, IntakeOK, SupOK, WireOK, SetupOK,
         PumpOK, VersionOK, BoundOK
  <2>5. PumpOK'
    BY <1>21 DEF Resetup, TypeOK, ClientOK, IntakeOK, SupOK, WireOK, SetupOK,
         PumpOK, VersionOK, BoundOK
  <2>6. IntakeOK' /\ WireOK'
    BY <1>21 DEF Resetup, TypeOK, ClientOK, IntakeOK, SupOK, WireOK, SetupOK,
         PumpOK, VersionOK, BoundOK
  <2>7. VersionOK' /\ BoundOK'
    BY <1>21 DEF Resetup, TypeOK, ClientOK, IntakeOK, SupOK, WireOK, SetupOK,
         PumpOK, VersionOK, BoundOK
  <2> QED
    BY <2>1, <2>2, <2>3, <2>4, <2>5, <2>6, <2>7 DEF TypeOK
<1>22. ASSUME NEW g \in Gens, Requery(g)
      PROVE  TypeOK'
  <2>1. ProcOK'
    BY <1>22, ResendWriteProc DEF Requery
  <2>2. ClientOK'
    BY <1>22 DEF Requery, ReleaseSetup, ResetSetup, TypeOK, ClientOK,
         IntakeOK, SupOK, WireOK, SetupOK, PumpOK, VersionOK, BoundOK
  <2>3. SupOK'
    BY <1>22 DEF Requery, ReleaseSetup, ResetSetup, TypeOK, ClientOK,
         IntakeOK, SupOK, WireOK, SetupOK, PumpOK, VersionOK, BoundOK
  <2>4. SetupOK'
    BY <1>22 DEF Requery, ReleaseSetup, ResetSetup, TypeOK, ClientOK,
         IntakeOK, SupOK, WireOK, SetupOK, PumpOK, VersionOK, BoundOK
  <2>5. PumpOK'
    BY <1>22 DEF Requery, ReleaseSetup, ResetSetup, TypeOK, ClientOK,
         IntakeOK, SupOK, WireOK, SetupOK, PumpOK, VersionOK, BoundOK
  <2>6. IntakeOK' /\ WireOK'
    BY <1>22 DEF Requery, ReleaseSetup, ResetSetup, TypeOK, ClientOK,
         IntakeOK, SupOK, WireOK, SetupOK, PumpOK, VersionOK, BoundOK
  <2>7. VersionOK' /\ BoundOK'
    BY <1>22 DEF Requery, ReleaseSetup, ResetSetup, TypeOK, ClientOK,
         IntakeOK, SupOK, WireOK, SetupOK, PumpOK, VersionOK, BoundOK
  <2> QED
    BY <2>1, <2>2, <2>3, <2>4, <2>5, <2>6, <2>7 DEF TypeOK
<1>23. ASSUME WatchdogAsk
      PROVE  TypeOK'
  BY <1>23 DEF WatchdogAsk, RestartAsk, TypeOK, ProcOK, ClientOK, IntakeOK,
         SupOK, WireOK, SetupOK, PumpOK, VersionOK, BoundOK
<1>24. ASSUME WatchdogNote
      PROVE  TypeOK'
  BY <1>24 DEF WatchdogNote, TypeOK, ProcOK, ClientOK, IntakeOK, SupOK,
         WireOK, SetupOK, PumpOK, VersionOK, BoundOK
<1>25. ASSUME WatchdogRestart
      PROVE  TypeOK'
  <2>1. ProcOK'
    BY <1>25, RestartProc DEF WatchdogRestart
  <2>2. ClientOK'
    BY <1>25 DEF WatchdogRestart, RestartChild, Spawn, SpawnFails, Terminated,
         TypeOK, ClientOK, IntakeOK, SupOK, WireOK, SetupOK, PumpOK,
         VersionOK, BoundOK
  <2>3. SupOK'
    BY <1>25, SpawnTypes, TerminatedType DEF WatchdogRestart, RestartChild,
         Spawn, SpawnFails, Terminated, TypeOK, ClientOK, IntakeOK, SupOK,
         WireOK, SetupOK, PumpOK, VersionOK, BoundOK, ProcOK
  <2>4. SetupOK'
    BY <1>25 DEF WatchdogRestart, RestartChild, Spawn, SpawnFails, Terminated,
         TypeOK, ClientOK, IntakeOK, SupOK, WireOK, SetupOK, PumpOK,
         VersionOK, BoundOK
  <2>5. PumpOK'
    BY <1>25, RestartPump DEF WatchdogRestart, Parked, TypeOK, PumpOK
  <2>6. IntakeOK' /\ WireOK'
    BY <1>25 DEF WatchdogRestart, RestartChild, Spawn, SpawnFails, Terminated,
         TypeOK, ClientOK, IntakeOK, SupOK, WireOK, SetupOK, PumpOK,
         VersionOK, BoundOK
  <2>7. VersionOK' /\ BoundOK'
    BY <1>25 DEF WatchdogRestart, RestartChild, Spawn, SpawnFails, Terminated,
         TypeOK, ClientOK, IntakeOK, SupOK, WireOK, SetupOK, PumpOK,
         VersionOK, BoundOK
  <2> QED
    BY <2>1, <2>2, <2>3, <2>4, <2>5, <2>6, <2>7 DEF TypeOK
<1>26. ASSUME Updated
      PROVE  TypeOK'
  BY <1>26 DEF Updated, TypeOK, ProcOK, ClientOK, IntakeOK, SupOK, WireOK,
         SetupOK, PumpOK, VersionOK, BoundOK
<1>27. ASSUME GuardRelease
      PROVE  TypeOK'
  BY <1>27 DEF GuardRelease, ReleaseSetup, ResetSetup, TypeOK, ProcOK,
         ClientOK, IntakeOK, SupOK, WireOK, SetupOK, PumpOK, VersionOK,
         BoundOK
<1>28. CASE UNCHANGED vars
  BY <1>28 DEF vars, TypeOK, ProcOK, ClientOK, IntakeOK, SupOK, WireOK,
         SetupOK, PumpOK, VersionOK, BoundOK
<1> QED
  BY <1>1, <1>2, <1>3, <1>4, <1>5, <1>6, <1>7, <1>8, <1>9, <1>10, <1>11,
     <1>12, <1>13, <1>14, <1>15, <1>16, <1>17, <1>18, <1>19, <1>20, <1>21,
     <1>22, <1>23, <1>24, <1>25, <1>26, <1>27, <1>28
     DEF Next, IntakeStep, ChildStep, PumpStep, WatchdogStep

\* The launcher starts with one child up.
LEMMA TypeInit == Init => TypeOK
<1> SUFFICES ASSUME Init PROVE TypeOK
  OBVIOUS
<1>1. 1 \in Gens
  BY BoundsAssumption DEF Gens
<1>2. ClientOK /\ IntakeOK /\ SupOK /\ WireOK /\ SetupOK /\ VersionOK /\ BoundOK
  BY <1>1, NobodyCounts DEF Init, ClientOK, IntakeOK, SupOK, WireOK, SetupOK,
        VersionOK, BoundOK
<1>3. ProcOK
  BY NobodyCounts DEF Init, ProcOK
<1>4. PumpOK
  BY Kinds DEF Init, PumpOK, PumpStates, Gens
<1> QED
  BY <1>2, <1>3, <1>4 DEF TypeOK

\* TypeOK always: the supervisor's tables keep their shape, a pump has a line in
\* its hand exactly when it is about to write it, and only spawned children have
\* pumps, whatever the number of requests, faults and retries.
THEOREM TypeCorrect == Spec => []TypeOK
BY TypeInit, TypeStep, PTL DEF Spec
===============================================================================
