---------------------------- MODULE DeviceTypes ----------------------------
(* Proofs about DeviceRuns, for every set of chats and servers and every bound *)
(* on calls and faults: the type invariant.                                    *)
EXTENDS DeviceRuns, TLAPS

\* Every token a chat minted was paid for by a call.
MintedOK == \A c \in Chats : minted[c] <= spent
TypeInv == TypeOK /\ MintedOK

LEMMA TokenTypes ==
  /\ Budget \in Nat /\ None \notin Chats
  /\ NoToken \in Tokens
  /\ \A c \in Chats, n \in 0 .. Budget : Token(c, n) \in Tokens
  /\ \A c \in Chats : Token(c, 0) \in Tokens
BY DeviceRunsAssumption DEF DeviceRunsAssumption, Tokens, Token, NoToken

LEMMA OwnerTypes ==
  \A c \in Chats : Label(c) \in Owners /\ RunOwner(c) \in Owners
BY DEF Label, RunOwner, Owners

LEMMA LeaseTypes ==
  /\ NoLease \in Leases
  /\ \A t \in Tokens : [holder |-> t, fresh |-> TRUE, released |-> FALSE] \in Leases
BY TokenTypes DEF NoLease, Leases

LEMMA WriterTypes ==
  /\ NoWriter \in [token : Tokens, at : WriterStages]
  /\ \A t \in Tokens : [token |-> t, at |-> "waiting"] \in [token : Tokens, at : WriterStages]
BY TokenTypes DEF NoWriter, WriterStages

LEMMA TypeInit == Init => TypeInv
<1> SUFFICES ASSUME Init PROVE TypeInv
  OBVIOUS
<1> USE TokenTypes, LeaseTypes, WriterTypes DEF Init
<1>1. setup \in [Chats -> SetupStages] /\ call \in [Chats -> CallStages]
  BY DEF SetupStages, CallStages
<1>2. on \in [Chats -> Runs] /\ evict \in [Chats -> Runs \cup {None}]
  BY DEF Runs
<1>3. writer \in [Servers -> [Runs -> [token : Tokens, at : WriterStages]]]
  OBVIOUS
<1>4. minted \in [Chats -> 0 .. Budget] /\ spent \in 0 .. Budget /\ MintedOK
  BY DEF MintedOK
<1> QED BY <1>1, <1>2, <1>3, <1>4 DEF TypeInv, TypeOK

LEMMA TakesType ==
  ASSUME TypeOK, NEW p \in Servers, NEW o \in Owners, NEW t \in Tokens, Takes(p, o, t)
  PROVE  device' \in Holds \cup {None} /\ ended' \subseteq Chats
BY DEF TypeOK, Takes, Holds

LEMMA TakesForRunType ==
  ASSUME TypeOK, NEW p \in Servers, NEW r \in Runs, NEW t \in Tokens, TakesForRun(p, r, t)
  PROVE  device' \in Holds \cup {None} /\ ended' \subseteq Chats /\ unbeaten' \in Tokens
<1>1. RunOwner(r) \in Owners
  BY OwnerTypes DEF Runs
<1>2. unbeaten' \in Tokens
  BY TokenTypes DEF TakesForRun
<1> QED BY <1>1, <1>2, TakesType DEF TakesForRun

LEMMA ReleasesType ==
  ASSUME TypeOK, NEW p, NEW o, NEW t, Releases(p, o, t) \/ ReleasesAny(p, o)
  PROVE  device' \in Holds \cup {None}
BY DEF TypeOK, Releases, ReleasesAny

LEMMA WritesLeaseType ==
  ASSUME TypeOK, NEW r \in Runs, NEW l \in Leases, WritesLease(r, l)
  PROVE  lease' \in [Runs -> Leases] /\ exposed' \subseteq Tokens
<1>1. lease[r].holder \in Tokens
  BY DEF TypeOK, Leases
<1> QED BY <1>1 DEF TypeOK, WritesLease

LEMMA StampType ==
  ASSUME TypeOK, NEW r \in Runs, NEW b \in BOOLEAN
  PROVE  [lease[r] EXCEPT !.released = b] \in Leases /\ [lease[r] EXCEPT !.fresh = b] \in Leases
BY DEF TypeOK, Leases

LEMMA StampsType ==
  ASSUME TypeOK, NEW r \in Runs, Stamps(r)
  PROVE  lease' \in [Runs -> Leases] /\ exposed' \subseteq Tokens
BY StampType, WritesLeaseType DEF Stamps

LEMMA StartsWriterType ==
  ASSUME TypeOK, NEW p \in Servers, NEW r \in Runs, NEW t \in Tokens, StartsWriter(p, r, t)
  PROVE  writer' \in [Servers -> [Runs -> [token : Tokens, at : WriterStages]]]
BY WriterTypes DEF TypeOK, StartsWriter

LEMMA WriterMovesType ==
  ASSUME TypeOK, NEW p \in Servers, NEW r \in Runs,
         WriterGone(p, r) \/ AtWriter(p, r, "lost")
  PROVE  writer' \in [Servers -> [Runs -> [token : Tokens, at : WriterStages]]]
<1>1. CASE WriterGone(p, r)
  BY <1>1, WriterTypes DEF TypeOK, WriterGone
<1>2. CASE AtWriter(p, r, "lost")
  <2> DEFINE W == [token : Tokens, at : WriterStages]
  <2>1. writer[p] \in [Runs -> W] /\ writer[p][r] \in W
    BY DEF TypeOK
  <2>2. [writer[p][r] EXCEPT !.at = "lost"] \in W
    BY <2>1 DEF WriterStages
  <2>3. [writer[p] EXCEPT ![r].at = "lost"] \in [Runs -> W]
    BY <2>1, <2>2
  <2> QED BY <1>2, <2>3 DEF TypeOK, AtWriter
<1> QED BY <1>1, <1>2

LEMMA ClosingType ==
  ASSUME TypeOK, NEW p \in Servers, NEW r \in Runs, ClosingBegins(p, r)
  PROVE  /\ writer' \in [Servers -> [Runs -> [token : Tokens, at : WriterStages]]]
         /\ status' \in [Runs -> {"none", "open", "report", "ended"}]
         /\ timer' \subseteq Servers \X Runs
         /\ closing' \subseteq Servers \X Runs
<1>1. writer' \in [Servers -> [Runs -> [token : Tokens, at : WriterStages]]]
  BY WriterTypes DEF TypeOK, ClosingBegins
<1> QED BY <1>1 DEF TypeOK, ClosingBegins

LEMMA LearnsType ==
  ASSUME TypeOK, NEW c \in Chats, Learns(c) \/ UNCHANGED <<on, token>>
  PROVE  on' \in [Chats -> Runs] /\ token' \in [Chats -> Tokens]
<1>1. c \in Runs /\ Token(c, 0) \in Tokens
  BY TokenTypes DEF Runs
<1>2. on \in [Chats -> Runs] /\ token \in [Chats -> Tokens]
  BY DEF TypeOK
<1>3. CASE Learns(c)
  BY <1>1, <1>2, <1>3 DEF Learns
<1>4. CASE UNCHANGED <<on, token>>
  BY <1>2, <1>4
<1> QED BY <1>3, <1>4

LEMMA SpendType ==
  ASSUME TypeInv, Affordable, spent' = spent + 1
  PROVE  spent' \in 0 .. Budget /\ (minted' = minted => MintedOK')
BY TokenTypes DEF TypeInv, TypeOK, MintedOK, Affordable
-----------------------------------------------------------------------------
LEMMA TypeClose ==
  ASSUME TypeInv, NEW p \in Servers, NEW r \in Runs, CloseStep(p, r)
  PROVE  TypeInv'
<1> TypeOK
  BY DEF TypeInv
<1>1. CASE StopRun(p, r)
  BY <1>1, SpendType, ClosingType DEF StopRun, TypeOK, TypeInv, setupVars, callVars, lockVars
<1>2. CASE IdleTimer(p, r)
  BY <1>2, ClosingType DEF IdleTimer, TypeOK, TypeInv, MintedOK, setupVars, callVars, lockVars
<1>3. CASE Sweep(p, r)
  BY <1>3, ClosingType DEF Sweep, TypeOK, TypeInv, MintedOK, setupVars, callVars, lockVars
<1>4. CASE CloseEnds(p, r)
  <2>1. device' \in Holds \cup {None}
    BY <1>4, ReleasesType DEF CloseEnds
  <2>2. lease' \in [Runs -> Leases] /\ exposed' \subseteq Tokens
    BY <1>4, StampType, WritesLeaseType DEF CloseEnds, TypeOK
  <2> QED BY <1>4, <2>1, <2>2 DEF CloseEnds, TypeOK, TypeInv, MintedOK, setupVars, callVars
<1> QED BY <1>1, <1>2, <1>3, <1>4 DEF CloseStep

LEMMA TypeSetup ==
  ASSUME TypeInv, NEW c \in Chats, SetupStep(c)
  PROVE  TypeInv'
<1> TypeOK
  BY DEF TypeInv
<1>0. server[c] \in Servers /\ Runs = Chats /\ c \in Runs
  BY DEF TypeOK, Runs
<1> USE <1>0 DEF setupVars, callVars, runVars, lockVars, agentVars, SetupStages
<1>1. CASE SetupOpens(c)
  BY <1>1 DEF SetupOpens, TypeOK, TypeInv, MintedOK
<1>2. CASE \E d \in Chats : Reclaim(c, d)
  BY <1>2, ClosingType DEF Reclaim, TypeOK, TypeInv, MintedOK
<1>3. CASE SetupClaimsDevice(c)
  <2>1. device' \in Holds \cup {None} /\ ended' \subseteq Chats
    BY <1>3, TakesType, TokenTypes, OwnerTypes DEF SetupClaimsDevice
  <2> QED BY <1>3, <2>1 DEF SetupClaimsDevice, TypeOK, TypeInv, MintedOK
<1>4. CASE SetupEvicts(c)
  <2>1. device.owner.of \in Runs
    BY <1>4 DEF SetupEvicts, TypeOK, Holds, Owners, CanTake
  <2> QED BY <1>4, <2>1, ClosingType DEF SetupEvicts, TypeOK, TypeInv, MintedOK
<1>5. CASE SetupGivesUp(c)
  BY <1>5 DEF SetupGivesUp, TypeOK, TypeInv, MintedOK
<1>6. CASE SetupCleans(c)
  <2>1. device' \in Holds \cup {None}
    BY <1>6, ReleasesType DEF SetupCleans
  <2> QED BY <1>6, <2>1 DEF SetupCleans, TypeOK, TypeInv, MintedOK
<1>7. CASE SetupCleanupFails(c)
  BY <1>7, SpendType DEF SetupCleanupFails, TypeOK, TypeInv
<1>8. CASE SetupHandsOff(c)
  <2>1. lease' \in [Runs -> Leases] /\ exposed' \subseteq Tokens
    BY <1>8, WritesLeaseType, LeaseTypes, TokenTypes DEF SetupHandsOff
  <2>2. device' \in Holds \cup {None}
    BY <1>8, OwnerTypes, TokenTypes DEF SetupHandsOff, TypeOK, Holds
  <2>3. writer' \in [Servers -> [Runs -> [token : Tokens, at : WriterStages]]]
    BY <1>8, StartsWriterType, TokenTypes DEF SetupHandsOff, TypeOK
  <2>a. Learns(c) \/ UNCHANGED <<on, token>>
    BY <1>8 DEF SetupHandsOff
  <2>4. on' \in [Chats -> Runs] /\ token' \in [Chats -> Tokens]
    BY <2>a, LearnsType
  <2>b. \/ setup' = [setup EXCEPT ![c] = "done"]
        \/ setup' = [setup EXCEPT ![c] = "cleaning"]
    BY <1>8 DEF SetupHandsOff
  <2>5. setup' \in [Chats -> SetupStages]
    BY <2>b DEF TypeOK
  <2>6. status' \in [Runs -> {"none", "open", "report", "ended"}]
    BY <1>8 DEF SetupHandsOff, TypeOK
  <2> QED BY <1>8, <2>1, <2>2, <2>3, <2>4, <2>5, <2>6
        DEF SetupHandsOff, TypeOK, TypeInv, MintedOK
<1>9. CASE Abandon(c)
  BY <1>9, SpendType DEF Abandon, TypeOK, TypeInv
<1>10. CASE Adopt(c)
  <2>a. Learns(c) \/ UNCHANGED <<on, token>>
    BY <1>10 DEF Adopt
  <2>1. on' \in [Chats -> Runs] /\ token' \in [Chats -> Tokens]
    BY <2>a, LearnsType
  <2> QED BY <1>10, <2>1 DEF Adopt, TypeOK, TypeInv, MintedOK
<1> QED BY <1>1, <1>2, <1>3, <1>4, <1>5, <1>6, <1>7, <1>8, <1>9, <1>10 DEF SetupStep

LEMMA TypeCall ==
  ASSUME TypeInv, NEW c \in Chats, CallStep(c)
  PROVE  TypeInv'
<1> TypeOK
  BY DEF TypeInv
<1>0. server[c] \in Servers /\ on[c] \in Runs /\ token[c] \in Tokens /\ Runs = Chats
  BY DEF TypeOK, Runs
<1> USE <1>0 DEF setupVars, callVars, runVars, lockVars, agentVars, At, CallStages, Synchronous
<1>1. CASE StepBegins(c)
  BY <1>1, SpendType DEF StepBegins, TypeOK, TypeInv
<1>2. CASE ClaimWrites(c)
  <2>1. lease' \in [Runs -> Leases] /\ exposed' \subseteq Tokens
    BY <1>2, WritesLeaseType, LeaseTypes DEF ClaimWrites, ClaimsFor
  <2> QED BY <1>2, <2>1 DEF ClaimWrites, TypeOK, TypeInv, MintedOK
<1>3. CASE \E r \in Runs : TakeOver(c, r)
  <2> PICK r \in Runs : TakeOver(c, r)
    BY <1>3
  <2>1. minted[c] + 1 \in 0 .. Budget /\ spent' \in 0 .. Budget
    BY TokenTypes DEF TypeInv, TypeOK, MintedOK, TakeOver, Affordable
  <2>2. MintedOK' /\ minted' \in [Chats -> 0 .. Budget]
    BY <2>1 DEF TypeInv, TypeOK, MintedOK, TakeOver
  <2>3. Token(c, minted[c] + 1) \in Tokens
    BY <2>1, TokenTypes
  <2>4. lease' \in [Runs -> Leases] /\ exposed' \subseteq Tokens
    BY <2>3, WritesLeaseType, LeaseTypes DEF TakeOver, ClaimsFor
  <2> QED BY <2>1, <2>2, <2>3, <2>4 DEF TakeOver, TypeOK, TypeInv
<1>4. CASE ClaimConfirms(c)
  <2>1. writer' \in [Servers -> [Runs -> [token : Tokens, at : WriterStages]]]
    BY <1>4, StartsWriterType DEF ClaimConfirms, TypeOK
  <2>2. device' \in Holds \cup {None} /\ ended' \subseteq Chats /\ unbeaten' \in Tokens
    BY <1>4, TakesForRunType DEF ClaimConfirms, TypeOK
  <2>a. \E stage \in {"lost", "none", "drive", "stage"} : At(c, stage)
    BY <1>4 DEF ClaimConfirms
  <2>b. timer' = timer \/ timer' = timer \cup {<<server[c], on[c]>>}
    BY <1>4 DEF ClaimConfirms
  <2>c. call' \in [Chats -> CallStages]
    BY <2>a DEF TypeOK
  <2>3. call' \in [Chats -> CallStages] /\ timer' \subseteq Servers \X Runs
    BY <2>b, <2>c DEF TypeOK
  <2> QED BY <1>4, <2>1, <2>2, <2>3 DEF ClaimConfirms, TypeOK, TypeInv, MintedOK
<1>5. CASE ResumeRetakes(c)
  <2>1. device' \in Holds \cup {None} /\ ended' \subseteq Chats /\ unbeaten' \in Tokens
    BY <1>5, TakesForRunType DEF ResumeRetakes, TypeOK
  <2>2. lease[on[c]].holder \in Tokens
    BY DEF TypeOK, Leases
  <2>3. call' \in [Chats -> CallStages] /\ exposed' \subseteq Tokens
    BY <1>5, <2>2 DEF ResumeRetakes, TypeOK
  <2> QED BY <1>5, <2>1, <2>3 DEF ResumeRetakes, TypeOK, TypeInv, MintedOK
<1>6. CASE ResumeStops(c)
  BY <1>6 DEF ResumeStops, TypeOK, TypeInv, MintedOK
<1>7. CASE StepEnds(c)
  BY <1>7 DEF StepEnds, TypeOK, TypeInv, MintedOK
<1>8. CASE StepReports(c)
  <2>1. device' \in Holds \cup {None}
    BY <1>8, ReleasesType DEF StepReports, TypeOK
  <2>2. lease' \in [Runs -> Leases] /\ exposed' \subseteq Tokens
    BY <1>8, StampsType DEF StepReports, TypeOK
  <2> QED BY <1>8, <2>1, <2>2 DEF StepReports, TypeOK, TypeInv, MintedOK
<1>9. CASE FinishEnds(c)
  <2>1. device' \in Holds \cup {None}
    BY <1>9, ReleasesType DEF FinishEnds
  <2>2. lease' \in [Runs -> Leases] /\ exposed' \subseteq Tokens
    BY <1>9, StampsType DEF FinishEnds
  <2>3. status' \in [Runs -> {"none", "open", "report", "ended"}] /\ timer' \subseteq Servers \X Runs
    BY <1>9 DEF FinishEnds, TypeOK
  <2> QED BY <1>9, <2>1, <2>2, <2>3 DEF FinishEnds, TypeOK, TypeInv, MintedOK
<1> QED BY <1>1, <1>2, <1>3, <1>4, <1>5, <1>6, <1>7, <1>8, <1>9 DEF CallStep

LEMMA TypeWriter ==
  ASSUME TypeInv, NEW p \in Servers, NEW r \in Runs, WriterStep(p, r)
  PROVE  TypeInv'
<1> TypeOK
  BY DEF TypeInv
<1> USE DEF setupVars, callVars, runVars, lockVars, agentVars
<1>0. writer[p][r].token \in Tokens
  BY DEF TypeOK
<1>1. CASE Beat(p, r)
  <2>1. lease' \in [Runs -> Leases]
    BY <1>1, StampType DEF Beat, TypeOK
  <2> QED BY <1>1, <2>1 DEF Beat, TypeOK, TypeInv, MintedOK
<1>2. CASE BeatFinds(p, r)
  BY <1>2, ReleasesType, StampsType, WriterMovesType DEF BeatFinds, TypeOK, TypeInv, MintedOK
<1>3. CASE BeatLoses(p, r)
  BY <1>3, WriterMovesType DEF BeatLoses, TypeOK, TypeInv, MintedOK
<1>4. CASE BeatFails(p, r)
  BY <1>0, <1>4, SpendType, WriterMovesType DEF BeatFails, TypeOK, TypeInv
<1>5. CASE WriterLost(p, r)
  BY <1>5, ReleasesType, WriterMovesType DEF WriterLost, TypeOK, TypeInv, MintedOK
<1> QED BY <1>1, <1>2, <1>3, <1>4, <1>5 DEF WriterStep

LEMMA TypeAges ==
  ASSUME TypeInv, NEW r \in Runs, LeaseAges(r)
  PROVE  TypeInv'
<1> TypeOK
  BY DEF TypeInv
<1>1. lease' \in [Runs -> Leases]
  BY StampType DEF LeaseAges, TypeOK
<1> QED BY <1>1 DEF LeaseAges, TypeOK, TypeInv, MintedOK,
      setupVars, callVars, lockVars, agentVars

LEMMA TypeCrash ==
  ASSUME TypeInv, NEW p \in Servers, Crash(p)
  PROVE  TypeInv'
<1> TypeOK
  BY DEF TypeInv
<1>1. setup' \in [Chats -> SetupStages] /\ evict' \in [Chats -> Runs \cup {None}]
  BY DEF Crash, TypeOK, SetupStages
<1>2. call' \in [Chats -> CallStages] /\ orphaned' \subseteq Chats
  BY DEF Crash, TypeOK, CallStages
<1>3. writer' \in [Servers -> [Runs -> [token : Tokens, at : WriterStages]]]
  BY WriterTypes DEF Crash, TypeOK
<1>4. /\ device' \in Holds \cup {None} /\ select' \in Chats \cup {None} /\ ended' \subseteq Chats
      /\ timer' \subseteq Servers \X Runs /\ closing' \subseteq Servers \X Runs
  BY DEF Crash, TypeOK
<1> QED BY <1>1, <1>2, <1>3, <1>4, SpendType DEF Crash, TypeOK, TypeInv, runVars

LEMMA TypeStutter ==
  ASSUME TypeInv, UNCHANGED vars
  PROVE  TypeInv'
BY DEF TypeInv, TypeOK, MintedOK, vars, setupVars, callVars, runVars, lockVars, agentVars

LEMMA TypeStep == TypeInv /\ [Next]_vars => TypeInv'
BY TypeClose, TypeSetup, TypeCall, TypeWriter, TypeAges, TypeCrash, TypeStutter DEF Next

(* Every reachable state is well-typed: holds, leases and writers name a token *)
(* that some chat minted, and the bound on calls and faults is kept.           *)
THEOREM TypeCorrect == Spec => []TypeOK
<1>1. TypeInv => TypeOK
  BY DEF TypeInv
<1> QED BY <1>1, TypeInit, TypeStep, PTL DEF Spec

(* The form the later proofs use. *)
LEMMA Typed == Spec => []TypeInv
BY TypeInit, TypeStep, PTL DEF Spec
=============================================================================
