----------------------------- MODULE ServerSafety -----------------------------
(***************************************************************************)
(* Safety of ServerProcess, for every set of calls and every choice of the *)
(* times that TimingAssumption allows: the counter of calls in flight and  *)
(* the stamp of the last to finish know enough for an exit to be safe.     *)
(***************************************************************************)
EXTENDS ServerProcess, FiniteSets, FiniteSetTheorems, TLAPS

\* The counter is the number of calls whose handler runs.
CountInv == IsFiniteSet(Running) /\ n = Cardinality(Running)

\* A settled reply is younger than ReplyTime, and the stamp is younger still.
ReplyInv == \A c \in Settled : age[c] <= ReplyTime /\ quiet <= age[c]

\* Where a doctor's own reply is while its reload thread waits.  When the drain
\* ran out of time before the reply was settled, no time passes until it is.
OwnInv ==
  \A d \in Doctors :
    /\ reload[d] # "none" => phase[d] \in {"told", "done", "written"}
    /\ phase[d] = "told" /\ reload[d] = "drain" =>
         age[d] <= ReplyTime /\ rtime[d] <= age[d]
    /\ phase[d] = "told" /\ reload[d] = "grace" => age[d] = ReplyTime /\ rtime[d] = 0
    /\ phase[d] = "done" /\ reload[d] = "grace" => rtime[d] <= age[d]

\* A wait that did not time out saw no call.
HeldInv == \A d \in Doctors : reload[d] = "grace" => overrun[d] \/ held[d] = {}

Inv == TypeOK /\ CountInv /\ ReplyInv /\ OwnInv /\ HeldInv

LEMMA Times ==
  /\ ReplyTime \in Nat /\ FlushGrace \in Nat /\ DrainTimeout \in Nat
  /\ DrainIdle \in Nat /\ RunDeferMax \in Nat /\ IdleExit \in Nat
  /\ MaxRuns \in Nat /\ Horizon \in Nat
  /\ ReplyTime < FlushGrace /\ ReplyTime < DrainIdle /\ ReplyTime < IdleExit
  /\ ReplyTime <= DrainTimeout /\ ReplyTime <= Horizon
  /\ Doctors \subseteq Calls /\ Drivers \subseteq Calls
<1>1. DrainIdle <= Horizon /\ ReplyTime < DrainIdle
  BY TimingAssumption DEF TimingAssumption
<1> QED
  BY <1>1, TimingAssumption, CallsAssumption DEF TimingAssumption, CallsAssumption

\* A clock stays a clock, and moves by one at most.
LEMMA LaterClock ==
  ASSUME NEW t \in Clock
  PROVE  Later(t) \in Clock /\ t <= Later(t) /\ Later(t) <= t + 1
BY Times DEF Later, Clock, Unset

LEMMA LeastOfThree ==
  ASSUME NEW a \in Clock, NEW b \in Clock, NEW c \in Clock
  PROVE  /\ Least({a, b, c}) \in {a, b, c}
         /\ Least({a, b, c}) <= a /\ Least({a, b, c}) <= b /\ Least({a, b, c}) <= c
<1>1. \E x \in {a, b, c} : \A y \in {a, b, c} : x <= y
  <2>1. CASE a <= b /\ a <= c
    BY <2>1 DEF Clock
  <2>2. CASE b <= a /\ b <= c
    BY <2>2 DEF Clock
  <2>3. CASE c <= a /\ c <= b
    BY <2>3 DEF Clock
  <2> QED
    BY <2>1, <2>2, <2>3, Times DEF Clock
<1> QED
  BY <1>1 DEF Least

-------------------------------------------------------------------------------
(* Type correctness *)

LEMMA ZeroClock == 0 \in Clock /\ Horizon \in Clock /\ Clock \subseteq Nat
BY Times DEF Clock

LEMMA TypeInit == Init => TypeOK
<1> SUFFICES ASSUME Init PROVE TypeOK
  OBVIOUS
<1>1. age \in [Calls -> Clock] /\ rtime \in [Doctors -> Clock]
  BY ZeroClock DEF Init
<1>2. n \in Nat /\ quiet \in Clock /\ live \in 0 .. MaxRuns /\ up \in Clock
      /\ seen \in Clock /\ idleWait \in 0 .. IdleExit
  BY ZeroClock, Times DEF Init
<1> QED
  BY <1>1, <1>2 DEF Init, TypeOK

\* One step of a call.
LEMMA TypeCall ==
  ASSUME TypeOK, NEW c \in Calls, CallStep(c)
  PROVE  TypeOK'
<1> USE Times DEF TypeOK, Clock, callVars, idleVars, treeVars, reloadVars, exitVars
<1>1. CASE Open(c)
  BY <1>1 DEF Open
<1>2. CASE CountOut(c)
  BY <1>2 DEF CountOut, GiveBack, Running
<1>3. CASE Flush(c)
  BY <1>3 DEF Flush
<1>4. CASE StartRun(c)
  BY <1>4 DEF StartRun
<1> QED
  BY <1>1, <1>2, <1>3, <1>4 DEF CallStep

\* One step of a doctor or of its reload thread.
LEMMA TypeDoctor ==
  ASSUME TypeOK, NEW d \in Doctors, DoctorStep(d)
  PROVE  TypeOK'
<1> USE Times DEF TypeOK, Clock, callVars, idleVars, treeVars, reloadVars, exitVars
<1>1. CASE DoctorAsk(d)
  BY <1>1 DEF DoctorAsk
<1>2. CASE DoctorTell(d)
  <2>1. age' \in [Calls -> Clock] /\ rtime' \in [Doctors -> Clock]
    BY <1>2, ZeroClock DEF DoctorTell
  <2>2. reload' \in [Doctors -> {"none", "drain", "grace"}]
    BY <1>2 DEF DoctorTell
  <2>3. phase' \in [Calls -> {"none", "body", "asked", "told", "done", "written"}]
    BY <1>2 DEF DoctorTell
  <2> QED
    BY <1>2, <2>1, <2>2, <2>3 DEF DoctorTell
<1>3. CASE Drained(d)
  BY <1>3 DEF Drained, Running
<1>4. CASE ReloadExit(d)
  BY <1>4 DEF ReloadExit
<1> QED
  BY <1>1, <1>2, <1>3, <1>4 DEF DoctorStep

\* One step of a watch, of a peer, of the user or of time.
LEMMA TypeOther ==
  ASSUME TypeOK, EndRun \/ DriftSeen \/ DriftGate \/ IdleBusy \/ IdleCheck
                 \/ PeerWrites \/ PeerDone \/ EditEnv \/ Tick
  PROVE  TypeOK'
<1> USE Times DEF TypeOK, callVars, idleVars, treeVars, reloadVars, exitVars
<1>1. CASE EndRun
  BY <1>1 DEF EndRun
<1>2. CASE DriftSeen
  BY <1>2 DEF DriftSeen
<1>3. CASE DriftGate
  BY <1>3 DEF DriftGate, StampRuns, Clock, Unset
<1>4. CASE IdleBusy
  BY <1>4 DEF IdleBusy
<1>5. CASE IdleCheck
  <2>1. seen' \in Clock /\ runBusy' \in BOOLEAN
    <3>1. NoticeEnd
      BY <1>5 DEF IdleCheck
    <3> QED
      BY <3>1, ZeroClock DEF NoticeEnd
  <2>2. Least({quiet, up, seen'}) \in Clock
    BY <2>1, LeastOfThree
  <2>3. idleWait' \in 0 .. IdleExit /\ exit' \in {"no", "drift", "idle", "reload"}
        /\ by' = by
    BY <1>5, <2>2 DEF IdleCheck, TimeLeft, Clock
  <2> QED
    BY <1>5, <2>1, <2>3 DEF IdleCheck
<1>6. CASE PeerWrites
  BY <1>6 DEF PeerWrites
<1>7. CASE PeerDone
  BY <1>7 DEF PeerDone
<1>8. CASE EditEnv
  BY <1>8 DEF EditEnv
<1>9. CASE Tick
  <2>1. age' \in [Calls -> Clock]
    BY <1>9 DEF Tick, Clock
  <2>2. rtime' \in [Doctors -> Clock]
    BY <1>9, LaterClock DEF Tick, Clock
  <2>3. quiet' \in Clock /\ up' \in Clock /\ seen' \in Clock
    BY <1>9, LaterClock DEF Tick
  <2>4. since' \in Clock \cup {Unset}
    BY <1>9, LaterClock DEF Tick, Later
  <2>5. idleWait' \in 0 .. IdleExit
    BY <1>9 DEF Tick
  <2> QED
    BY <1>9, <2>1, <2>2, <2>3, <2>4, <2>5 DEF Tick
<1> QED
  BY <1>1, <1>2, <1>3, <1>4, <1>5, <1>6, <1>7, <1>8, <1>9

LEMMA TypeStep == TypeOK /\ [Next]_vars => TypeOK'
<1> SUFFICES ASSUME TypeOK, [Next]_vars PROVE TypeOK'
  OBVIOUS
<1>1. CASE UNCHANGED vars
  BY <1>1 DEF vars, TypeOK, callVars, idleVars, treeVars, reloadVars, exitVars
<1> QED
  BY <1>1, TypeCall, TypeDoctor, TypeOther DEF Next

\* The server's bookkeeping keeps its shape: slots, clocks, threads and exits.
THEOREM TypeCorrect == Spec => []TypeOK
BY TypeInit, TypeStep, PTL DEF Spec

-------------------------------------------------------------------------------
(* The counter *)

\* No other step than these changes which handlers run.
LEMMA CountKept ==
  ASSUME TypeOK, CountInv, UNCHANGED n, Running' = Running
  PROVE  CountInv'
BY DEF CountInv

LEMMA OpenCounts ==
  ASSUME TypeOK, CountInv, NEW c \in Calls, Open(c)
  PROVE  CountInv'
<1>1. c \notin Running /\ Running' = Running \cup {c} /\ n' = n + 1
  BY DEF Open, Running, TypeOK
<1>2. IsFiniteSet(Running')
  BY <1>1, FS_AddElement DEF CountInv
<1>3. Cardinality(Running') = Cardinality(Running) + 1
  BY <1>1, FS_AddElement DEF CountInv
<1> QED
  BY <1>1, <1>2, <1>3 DEF CountInv

LEMMA CountOutCounts ==
  ASSUME TypeOK, CountInv, NEW c \in Calls, CountOut(c)
  PROVE  CountInv' /\ n' < n
<1>1. c \in Running /\ Running' = Running \ {c}
  BY DEF CountOut, Running, TypeOK
<1>2. IsFiniteSet(Running') /\ Cardinality(Running') = Cardinality(Running) - 1
  BY <1>1, FS_RemoveElement DEF CountInv
<1>3. Cardinality(Running) # 0 /\ Cardinality(Running) \in Nat
  BY <1>1, FS_EmptySet, FS_CardinalityType DEF CountInv
<1>4. n' = n - 1
  BY <1>3 DEF CountOut, GiveBack, CountInv
<1> QED
  BY <1>2, <1>3, <1>4 DEF CountInv

LEMMA CountStep == TypeOK /\ CountInv /\ [Next]_vars => CountInv'
<1> SUFFICES ASSUME TypeOK, CountInv, [Next]_vars PROVE CountInv'
  OBVIOUS
<1> USE DEF callVars, idleVars, treeVars, reloadVars, exitVars
<1>1. ASSUME NEW c \in Calls, CallStep(c) PROVE CountInv'
  <2>1. CASE Open(c)
    BY <2>1, OpenCounts
  <2>2. CASE CountOut(c)
    BY <2>2, CountOutCounts
  <2>3. CASE Flush(c)
    BY <2>3, CountKept DEF Flush, Running, TypeOK
  <2>4. CASE StartRun(c)
    BY <2>4, CountKept DEF StartRun, Running
  <2> QED
    BY <1>1, <2>1, <2>2, <2>3, <2>4 DEF CallStep
<1>2. ASSUME NEW d \in Doctors, DoctorStep(d) PROVE CountInv'
  <2> d \in Calls
    BY Times
  <2>1. CASE DoctorAsk(d)
    BY <2>1, CountKept DEF DoctorAsk, Running, TypeOK
  <2>2. CASE DoctorTell(d)
    BY <2>2, CountKept DEF DoctorTell, Running, TypeOK
  <2>3. CASE Drained(d) \/ ReloadExit(d)
    BY <2>3, CountKept DEF Drained, ReloadExit, Running
  <2> QED
    BY <1>2, <2>1, <2>2, <2>3 DEF DoctorStep
<1>3. CASE EndRun \/ DriftSeen \/ DriftGate \/ IdleBusy \/ IdleCheck
           \/ PeerWrites \/ PeerDone \/ EditEnv \/ Tick
  BY <1>3, CountKept DEF EndRun, DriftSeen, DriftGate, IdleBusy, IdleCheck,
       PeerWrites, PeerDone, EditEnv, Tick, Running
<1>4. CASE UNCHANGED vars
  BY <1>4, CountKept DEF vars, Running
<1> QED
  BY <1>1, <1>2, <1>3, <1>4 DEF Next

\* Count zero: no handler runs.
LEMMA NothingRuns ==
  ASSUME CountInv, n = 0
  PROVE  Running = {}
BY FS_EmptySet DEF CountInv

-------------------------------------------------------------------------------
(* Replies on their way *)

\* Steps that touch neither calls nor clocks.
LEMMA ReplyKept ==
  ASSUME ReplyInv, UNCHANGED <<phase, age, quiet>>
  PROVE  ReplyInv'
BY DEF ReplyInv, Settled

LEMMA ReplyStep == TypeOK /\ ReplyInv /\ [Next]_vars => ReplyInv'
<1> SUFFICES ASSUME TypeOK, ReplyInv, [Next]_vars PROVE ReplyInv'
  OBVIOUS
<1> USE DEF callVars, idleVars, treeVars, reloadVars, exitVars
<1>1. ASSUME NEW c \in Calls, CallStep(c) PROVE ReplyInv'
  <2>1. CASE Open(c)
    BY <2>1 DEF Open, ReplyInv, Settled, TypeOK
  <2>2. CASE CountOut(c)
    <3> SUFFICES ASSUME NEW x \in Settled'
                 PROVE  age'[x] <= ReplyTime /\ quiet' <= age'[x]
      BY DEF ReplyInv
    <3>1. quiet' = 0 /\ x \in Calls
      BY <2>2 DEF CountOut, GiveBack, Settled
    <3>2. CASE x = c
      BY <2>2, <3>1, <3>2, Times DEF CountOut, TypeOK
    <3>3. CASE x # c
      <4>1. phase' = [phase EXCEPT ![c] = "done"] /\ age' = [age EXCEPT ![c] = 0]
        BY <2>2 DEF CountOut
      <4>2. x \in Settled /\ age'[x] = age[x]
        BY <3>1, <3>3, <4>1 DEF TypeOK, Settled
      <4>3. age[x] \in Nat
        BY <3>1, ZeroClock DEF TypeOK
      <4> QED
        BY <3>1, <4>2, <4>3 DEF ReplyInv
    <3> QED
      BY <3>2, <3>3
  <2>3. CASE Flush(c)
    BY <2>3 DEF Flush, ReplyInv, Settled, TypeOK
  <2>4. CASE StartRun(c)
    BY <2>4, ReplyKept DEF StartRun
  <2> QED
    BY <1>1, <2>1, <2>2, <2>3, <2>4 DEF CallStep
<1>2. ASSUME NEW d \in Doctors, DoctorStep(d) PROVE ReplyInv'
  <2> d \in Calls
    BY Times
  <2>1. CASE DoctorAsk(d)
    BY <2>1 DEF DoctorAsk, ReplyInv, Settled, TypeOK
  <2>2. CASE DoctorTell(d)
    BY <2>2 DEF DoctorTell, ReplyInv, Settled, TypeOK
  <2>3. CASE Drained(d) \/ ReloadExit(d)
    BY <2>3, ReplyKept DEF Drained, ReloadExit
  <2> QED
    BY <1>2, <2>1, <2>2, <2>3 DEF DoctorStep
<1>3. CASE EndRun \/ DriftSeen \/ DriftGate \/ IdleBusy \/ IdleCheck
           \/ PeerWrites \/ PeerDone \/ EditEnv
  BY <1>3, ReplyKept DEF EndRun, DriftSeen, DriftGate, IdleBusy, IdleCheck,
       PeerWrites, PeerDone, EditEnv
<1>4. CASE Tick
  <2> SUFFICES ASSUME NEW x \in Settled'
               PROVE  age'[x] <= ReplyTime /\ quiet' <= age'[x]
    BY DEF ReplyInv
  <2>1. x \in Settled /\ x \in Calls
    BY <1>4 DEF Tick, Settled
  <2>2. age[x] < ReplyTime /\ age'[x] = age[x] + 1 /\ age[x] \in Nat
    BY <1>4, <2>1, ZeroClock DEF Tick, TypeOK
  <2>3. quiet' <= quiet + 1 /\ quiet <= age[x] /\ quiet \in Nat /\ quiet' \in Nat
    BY <1>4, <2>1, LaterClock, ZeroClock DEF Tick, ReplyInv, TypeOK
  <2> QED
    BY <2>2, <2>3, Times
<1>5. CASE UNCHANGED vars
  BY <1>5, ReplyKept DEF vars
<1> QED
  BY <1>1, <1>2, <1>3, <1>4, <1>5 DEF Next

-------------------------------------------------------------------------------
(* The reload threads *)

\* Steps that touch neither calls nor reload threads.
LEMMA OwnKept ==
  ASSUME OwnInv, HeldInv, UNCHANGED <<phase, age, reloadVars>>
  PROVE  OwnInv' /\ HeldInv'
BY DEF OwnInv, HeldInv, reloadVars

\* A handler that ends leaves its reply to be sent, and its doctor's thread
\* no further than its own clock says.
LEMMA OwnCountOut ==
  ASSUME TypeOK, OwnInv, HeldInv, NEW c \in Calls, CountOut(c)
  PROVE  OwnInv' /\ HeldInv'
<1> USE DEF reloadVars
<1>1. HeldInv'
  BY DEF CountOut, HeldInv
<1>2. ASSUME NEW d \in Doctors, d # c
      PROVE  phase'[d] = phase[d] /\ age'[d] = age[d]
  BY <1>2, Times DEF CountOut, TypeOK
<1>3. c \in Doctors => phase'[c] = "done" /\ age'[c] = 0
                       /\ phase[c] \in {"body", "asked", "told"}
  BY DEF CountOut, TypeOK, Running
<1>4. UNCHANGED <<reload, rtime>>
  BY DEF CountOut
<1>5. c \in Doctors /\ reload[c] = "grace" => rtime[c] = 0
  BY <1>3 DEF OwnInv
<1> QED
  BY <1>1, <1>2, <1>3, <1>4, <1>5 DEF OwnInv

\* The gate of qa-doctor, which may start its thread.
LEMMA OwnTell ==
  ASSUME TypeOK, OwnInv, HeldInv, NEW d \in Doctors, DoctorTell(d)
  PROVE  OwnInv' /\ HeldInv'
<1>0. d \in Calls /\ phase[d] = "asked" /\ reload[d] = "none"
  BY Times DEF DoctorTell, OwnInv, TypeOK
<1>1. reload' \in {reload, [reload EXCEPT ![d] = "drain"]}
  BY DEF DoctorTell
<1>2. \A x \in Doctors : reload'[x] = "grace" => reload[x] = "grace"
  BY <1>1 DEF TypeOK
<1>3. HeldInv'
  BY <1>2 DEF DoctorTell, HeldInv
<1>4. \A x \in Doctors \ {d} : /\ phase'[x] = phase[x] /\ age'[x] = age[x]
                             /\ reload'[x] = reload[x] /\ rtime'[x] = rtime[x]
  BY <1>1, Times DEF DoctorTell, TypeOK
<1>5. /\ phase'[d] = "told" /\ age'[d] = 0 /\ rtime'[d] = 0
      /\ reload'[d] \in {"none", "drain"}
  BY <1>0, <1>1 DEF DoctorTell, TypeOK
<1> QED
  BY <1>3, <1>4, <1>5, Times DEF OwnInv

\* The wait for the drain is over: by the count, and then no handler runs, or
\* by its time, and then the doctor's own is as old as it gets.
LEMMA OwnDrained ==
  ASSUME TypeOK, CountInv, ReplyInv, OwnInv, HeldInv, NEW d \in Doctors, Drained(d)
  PROVE  OwnInv' /\ HeldInv'
<1> USE DEF callVars
<1>1. /\ d \in Calls /\ reload[d] = "drain" /\ reload'[d] = "grace" /\ rtime'[d] = 0
      /\ overrun'[d] = (rtime[d] >= DrainTimeout) /\ held'[d] = Running
      /\ n = 0 \/ rtime[d] >= DrainTimeout
  BY Times DEF Drained, WaitOver, TypeOK
<1>2. \A x \in Doctors \ {d} : /\ reload'[x] = reload[x] /\ rtime'[x] = rtime[x]
                             /\ overrun'[x] = overrun[x] /\ held'[x] = held[x]
  BY DEF Drained, TypeOK
<1>3. UNCHANGED <<phase, age>>
  BY DEF Drained
<1>4. HeldInv'
  <2>1. overrun'[d] \/ held'[d] = {}
    BY <1>1, NothingRuns
  <2> QED
    BY <1>2, <2>1 DEF HeldInv
<1>5. phase[d] = "told" => age[d] = ReplyTime
  <2> SUFFICES ASSUME phase[d] = "told" PROVE age[d] = ReplyTime
    OBVIOUS
  <2>1. d \in Running
    BY <1>1 DEF Running
  <2>2. rtime[d] >= DrainTimeout
    BY <1>1, <2>1, NothingRuns
  <2>3. age[d] <= ReplyTime /\ rtime[d] <= age[d] /\ age[d] \in Nat /\ rtime[d] \in Nat
    BY <1>1, ZeroClock DEF OwnInv, TypeOK
  <2> QED
    BY <2>2, <2>3, Times
<1>6. age[d] \in Nat
  BY <1>1, ZeroClock DEF TypeOK
<1> QED
  BY <1>1, <1>2, <1>3, <1>4, <1>5, <1>6 DEF OwnInv

LEMMA OwnTick ==
  ASSUME TypeOK, OwnInv, HeldInv, Tick
  PROVE  OwnInv' /\ HeldInv'
<1>1. HeldInv'
  BY DEF Tick, HeldInv
<1>2. UNCHANGED <<phase, reload>>
  BY DEF Tick
<1> SUFFICES ASSUME NEW d \in Doctors
             PROVE  /\ reload[d] # "none" => phase[d] \in {"told", "done", "written"}
                    /\ phase[d] = "told" /\ reload[d] = "drain" =>
                         age'[d] <= ReplyTime /\ rtime'[d] <= age'[d]
                    /\ ~(phase[d] = "told" /\ reload[d] = "grace")
                    /\ phase[d] = "done" /\ reload[d] = "grace" => rtime'[d] <= age'[d]
  BY <1>1, <1>2 DEF OwnInv
<1>3. d \in Calls /\ age[d] \in Nat /\ rtime[d] \in Clock /\ rtime[d] \in Nat
  BY Times, ZeroClock DEF TypeOK
<1>4. rtime'[d] <= rtime[d] + 1 /\ rtime'[d] \in Nat
  BY <1>3, LaterClock, ZeroClock DEF Tick
<1>5. ASSUME (phase[d] = "told" /\ reload[d] # "none") \/ phase[d] = "done"
      PROVE  age[d] < ReplyTime /\ age'[d] = age[d] + 1
  BY <1>3, <1>5 DEF Tick, Settled, Leaving
<1> QED
  BY <1>3, <1>4, <1>5, Times DEF OwnInv

LEMMA OwnStep ==
  TypeOK /\ CountInv /\ ReplyInv /\ OwnInv /\ HeldInv /\ [Next]_vars => OwnInv' /\ HeldInv'
<1> SUFFICES ASSUME TypeOK, CountInv, ReplyInv, OwnInv, HeldInv, [Next]_vars
             PROVE  OwnInv' /\ HeldInv'
  OBVIOUS
<1> USE DEF callVars, idleVars, treeVars, exitVars
<1>1. ASSUME NEW c \in Calls, CallStep(c) PROVE OwnInv' /\ HeldInv'
  <2>1. CASE Open(c)
    <3>1. phase[c] = "none" /\ UNCHANGED <<age, reloadVars>>
          /\ phase' = [phase EXCEPT ![c] = "body"]
      BY <2>1 DEF Open
    <3>2. c \in Doctors => reload[c] = "none" /\ phase'[c] = "body"
      BY <3>1 DEF OwnInv, TypeOK
    <3>3. \A d \in Doctors \ {c} : phase'[d] = phase[d]
      BY <3>1, Times DEF TypeOK
    <3> QED
      BY <3>1, <3>2, <3>3 DEF OwnInv, HeldInv, reloadVars
  <2>2. CASE CountOut(c)
    BY <2>2, OwnCountOut
  <2>3. CASE Flush(c)
    <3>1. /\ phase[c] = "done" /\ UNCHANGED reloadVars
          /\ phase' = [phase EXCEPT ![c] = "written"] /\ age' = [age EXCEPT ![c] = 0]
      BY <2>3 DEF Flush
    <3>2. phase'[c] = "written"
      BY <3>1 DEF TypeOK
    <3>3. \A d \in Doctors \ {c} : phase'[d] = phase[d] /\ age'[d] = age[d]
      BY <3>1, Times DEF TypeOK
    <3> QED
      BY <3>1, <3>2, <3>3 DEF OwnInv, HeldInv, reloadVars
  <2>4. CASE StartRun(c)
    BY <2>4, OwnKept DEF StartRun
  <2> QED
    BY <1>1, <2>1, <2>2, <2>3, <2>4 DEF CallStep
<1>2. ASSUME NEW d \in Doctors, DoctorStep(d) PROVE OwnInv' /\ HeldInv'
  <2>1. CASE DoctorAsk(d)
    <3>1. phase[d] = "body" /\ UNCHANGED <<age, reloadVars>>
          /\ phase' = [phase EXCEPT ![d] = "asked"]
      BY <2>1 DEF DoctorAsk
    <3>2. reload[d] = "none" /\ phase'[d] = "asked"
      BY <3>1, Times DEF OwnInv, TypeOK
    <3>3. \A x \in Doctors \ {d} : phase'[x] = phase[x]
      BY <3>1, Times DEF TypeOK
    <3> QED
      BY <3>1, <3>2, <3>3 DEF OwnInv, HeldInv, reloadVars
  <2>2. CASE DoctorTell(d)
    BY <2>2, OwnTell
  <2>3. CASE Drained(d)
    BY <2>3, OwnDrained
  <2>4. CASE ReloadExit(d)
    BY <2>4, OwnKept DEF ReloadExit
  <2> QED
    BY <1>2, <2>1, <2>2, <2>3, <2>4 DEF DoctorStep
<1>3. CASE EndRun \/ DriftSeen \/ DriftGate \/ IdleBusy \/ IdleCheck
           \/ PeerWrites \/ PeerDone \/ EditEnv
  BY <1>3, OwnKept DEF EndRun, DriftSeen, DriftGate, IdleBusy, IdleCheck,
       PeerWrites, PeerDone, EditEnv
<1>4. CASE Tick
  BY <1>4, OwnTick
<1>5. CASE UNCHANGED vars
  BY <1>5, OwnKept DEF vars
<1> QED
  BY <1>1, <1>2, <1>3, <1>4, <1>5 DEF Next

-------------------------------------------------------------------------------
(* What an exit may end *)

LEMMA InvCorrect == Spec => []Inv
<1>1. Init => Inv
  <2>1. Init => Running = {} /\ Settled = {}
    BY DEF Init, Running, Settled
  <2>2. Init => CountInv /\ ReplyInv /\ OwnInv /\ HeldInv
    BY <2>1, FS_EmptySet DEF Init, CountInv, ReplyInv, OwnInv, HeldInv
  <2> QED
    BY <2>2, TypeInit DEF Inv
<1>2. Inv /\ [Next]_vars => Inv'
  BY TypeStep, CountStep, ReplyStep, OwnStep DEF Inv
<1> QED
  BY <1>1, <1>2, PTL DEF Spec

\* Only four steps end the process.
LEMMA WhoExits ==
  ASSUME Next, exit' # "no"
  PROVE  \/ DriftGate /\ exit' = "drift" /\ n + Deferring = 0 /\ quiet >= DrainIdle
         \/ IdleCheck /\ exit' = "idle" /\ Least({quiet, up, seen'}) >= IdleExit
         \/ exit' = "reload" /\ \E d \in Doctors : ReloadExit(d)
<1> USE DEF Next, callVars, idleVars, treeVars, reloadVars, exitVars
<1>1. ASSUME NEW c \in Calls, CallStep(c) PROVE FALSE
  BY <1>1 DEF CallStep, Open, CountOut, Flush, StartRun
<1>2. ASSUME NEW d \in Doctors, DoctorStep(d) PROVE ReloadExit(d)
  BY <1>2 DEF DoctorStep, DoctorAsk, DoctorTell, Drained
<1>3. CASE EndRun \/ DriftSeen \/ IdleBusy \/ PeerWrites \/ PeerDone \/ EditEnv \/ Tick
  BY <1>3 DEF EndRun, DriftSeen, IdleBusy, PeerWrites, PeerDone, EditEnv, Tick
<1>4. CASE DriftGate
  BY <1>4 DEF DriftGate
<1>5. CASE IdleCheck
  BY <1>5 DEF IdleCheck
<1>6. \A d \in Doctors : ReloadExit(d) => exit' = "reload"
  BY DEF ReloadExit
<1> QED
  BY <1>1, <1>2, <1>3, <1>4, <1>5, <1>6

\* The drift and the idle exit are taken under the lock a call is counted under,
\* and after a gap no reply outlasts (_exit_if_idle, seconds_until_idle).
LEMMA NothingAtWork ==
  ASSUME Inv, Next, exit' \in {"drift", "idle"}
  PROVE  Running \cup Settled = {}
<1>1. n = 0 /\ quiet > ReplyTime
  <2>0. quiet \in Nat /\ quiet \in Clock /\ n \in Nat /\ live \in Nat /\ up \in Clock
    BY ZeroClock, Times DEF Inv, TypeOK
  <2>1. CASE n + Deferring = 0 /\ quiet >= DrainIdle
    BY <2>0, <2>1, Times DEF Deferring
  <2>2. CASE IdleCheck /\ Least({quiet, up, seen'}) >= IdleExit
    <3>1. n = 0 /\ seen' \in Clock
      BY <2>2, ZeroClock DEF IdleCheck, NoticeEnd, Inv, TypeOK
    <3>2. Least({quiet, up, seen'}) <= quiet /\ Least({quiet, up, seen'}) \in Nat
      BY <2>0, <3>1, LeastOfThree, ZeroClock
    <3> QED
      BY <2>0, <2>2, <3>1, <3>2, Times
  <2> QED
    BY <2>1, <2>2, WhoExits
<1>2. Running = {}
  BY <1>1, NothingRuns DEF Inv
<1>3. ASSUME NEW c \in Settled PROVE FALSE
  <2>1. age[c] <= ReplyTime /\ quiet <= age[c] /\ age[c] \in Nat /\ quiet \in Nat
    BY ZeroClock DEF Inv, ReplyInv, TypeOK, Settled
  <2> QED
    BY <1>1, <2>1, Times
<1> QED
  BY <1>2, <1>3

\* So neither of them lands on a tool body or on a reply on its way out.
THEOREM ExitsQuietly == Spec => QuietExit
<1>1. Inv /\ [Next]_vars =>
        [exit = "no" /\ exit' \in {"drift", "idle"} => Running \cup Settled = {}]_vars
  BY NothingAtWork
<1> QED
  BY <1>1, InvCorrect, PTL DEF Spec, QuietExit

\* The grace of a reload thread begins after its own doctor was counted out, or
\* lasts until it is, so its reply has left by then (_exit_after_reply).
THEOREM OwnReplyFirst == Spec => OwnReplyLeft
<1>1. ASSUME Inv, Next, exit = "no", exit' = "reload"
      PROVE  phase[by'] = "written"
  <2>1. PICK d \in Doctors : ReloadExit(d)
    BY <1>1, WhoExits
  <2>2. by' = d /\ reload[d] = "grace" /\ rtime[d] >= FlushGrace /\ d \in Calls
    BY <2>1, Times DEF ReloadExit, GraceOver
  <2>3. rtime[d] \in Nat /\ age[d] \in Nat
    BY <1>1, <2>2, ZeroClock DEF Inv, TypeOK
  <2>4. phase[d] # "told"
    BY <1>1, <2>2, <2>3, Times DEF Inv, OwnInv
  <2>5. phase[d] # "done"
    BY <1>1, <2>2, <2>3, Times DEF Inv, OwnInv, ReplyInv, Settled
  <2> QED
    BY <1>1, <2>2, <2>4, <2>5 DEF Inv, OwnInv
<1>2. Inv /\ [Next]_vars => [exit = "no" /\ exit' = "reload" => phase[by'] = "written"]_vars
  BY <1>1
<1> QED
  BY <1>2, InvCorrect, PTL DEF Spec, OwnReplyLeft

\* A reload ends a handler only if it came in after the wait, or the wait lasted
\* all of DRAIN_TIMEOUT_S (wait_until_drained).
THEOREM ReloadKillsLate == Spec => KilledLate
<1>1. ASSUME Inv, Next, exit = "no", exit' = "reload"
      PROVE  overrun[by'] \/ held[by'] \cap Running = {}
  <2>1. PICK d \in Doctors : ReloadExit(d)
    BY <1>1, WhoExits
  <2>2. by' = d /\ reload[d] = "grace"
    BY <2>1 DEF ReloadExit
  <2> QED
    BY <1>1, <2>2 DEF Inv, HeldInv
<1>2. Inv /\ [Next]_vars =>
        [exit = "no" /\ exit' = "reload" => overrun[by'] \/ held[by'] \cap Running = {}]_vars
  BY <1>1
<1> QED
  BY <1>2, InvCorrect, PTL DEF Spec, KilledLate

-------------------------------------------------------------------------------
(* What the launcher sees of the process *)

AtWork == Running \cup Settled

\* While the process lives, a call is taken up when it is counted in and let go
\* when its reply is written; every other step keeps what is at work.
LEMMA WorkSteps ==
  ASSUME Inv, Next, exit' = "no"
  PROVE  \/ \E c \in Calls : AtWork' = AtWork \cup {c}
         \/ \E c \in AtWork : AtWork' = AtWork \ {c}
         \/ AtWork' = AtWork
<1> USE DEF Inv, TypeOK, AtWork, Running, Settled, callVars, idleVars, treeVars,
            reloadVars, exitVars
<1>1. ASSUME NEW c \in Calls, Open(c) PROVE AtWork' = AtWork \cup {c}
  BY <1>1 DEF Open
<1>2. ASSUME NEW c \in Calls, CountOut(c) PROVE AtWork' = AtWork
  BY <1>2 DEF CountOut
<1>3. ASSUME NEW c \in Calls, Flush(c) PROVE c \in AtWork /\ AtWork' = AtWork \ {c}
  BY <1>3 DEF Flush
<1>4. ASSUME NEW d \in Doctors, DoctorStep(d) PROVE AtWork' = AtWork
  <2> d \in Calls
    BY Times
  <2> QED
    BY <1>4 DEF DoctorStep, DoctorAsk, DoctorTell, Drained, ReloadExit
<1>5. CASE \/ \E c \in Calls : StartRun(c)
           \/ EndRun \/ DriftSeen \/ DriftGate \/ IdleBusy \/ IdleCheck
           \/ PeerWrites \/ PeerDone \/ EditEnv \/ Tick
  BY <1>5 DEF StartRun, EndRun, DriftSeen, DriftGate, IdleBusy, IdleCheck,
       PeerWrites, PeerDone, EditEnv, Tick
<1> QED
  BY <1>1, <1>2, <1>3, <1>4, <1>5 DEF Next, CallStep

\* A step that ends the process leaves its calls where they are.
LEMMA ExitKeepsWork ==
  ASSUME Next, exit' # "no"
  PROVE  AtWork' = AtWork /\ exit' \in {"drift", "idle", "reload"}
BY WhoExits DEF DriftGate, IdleCheck, ReloadExit, AtWork, Running, Settled, callVars

LEMMA ChildStep ==
  Inv /\ [Next]_vars => [Child!Next]_<<Status, AtWork>>
<1> SUFFICES ASSUME Inv, [Next]_vars
             PROVE  Child!Next \/ UNCHANGED <<Status, AtWork>>
  OBVIOUS
<1>1. CASE Next /\ exit' = "no"
  <2>1. exit = "no" /\ Status = "up" /\ Status' = "up"
    BY <1>1 DEF Next, Status
  <2> QED
    BY <1>1, <2>1, WorkSteps DEF Child!Next, Child!Take, Child!Answer, AtWork
<1>2. CASE Next /\ exit' = "idle"
  <2>1. Status = "up" /\ Status' = "idle"
    BY <1>2 DEF Next, Status
  <2> QED
    BY <1>2, <2>1, NothingAtWork, ExitKeepsWork DEF Child!Next, Child!IdleOut, AtWork
<1>3. CASE Next /\ exit' \in {"drift", "reload"}
  <2>1. Status = "up" /\ Status' = "gone"
    BY <1>3 DEF Next, Status
  <2> QED
    BY <1>3, <2>1, ExitKeepsWork DEF Child!Next, Child!Die, AtWork
<1>4. CASE UNCHANGED vars
  BY <1>4 DEF vars, callVars, exitVars, Status, AtWork, Running, Settled
<1> QED
  BY <1>1, <1>2, <1>3, <1>4, ExitKeepsWork

\* Whatever threads and watches there are inside, the launcher has a child that
\* ends once, and for want of use only with every call it took up answered.
THEOREM ServerIsServingChild == Spec => ServesAsChild
<1>1. Init => Child!Init
  BY DEF Init, Child!Init, Status, Running, Settled
<1>2. Inv /\ [Next]_vars => [Child!Next]_<<Status, Running \cup Settled>>
  BY ChildStep DEF AtWork
<1> QED
  BY <1>1, <1>2, InvCorrect, PTL DEF Spec, ServesAsChild, Child!Spec
===============================================================================
