------------------------- MODULE SupervisorInvariants -------------------------
(***************************************************************************)
(* The inductive invariants behind the supervisor's safety properties, and *)
(* the reply channel it implements.                                        *)
(***************************************************************************)
EXTENDS Supervisor, FiniteSets

\* No thread, table or timer of the launcher knows a request the client did
\* not send, and nobody has answered one.
OnlySent ==
  /\ cur \in sent \cup {NoReq} /\ setupId \in sent \cup {NoReq}
  /\ handshake => InitReq \in sent
  /\ pending \subseteq sent /\ ledger \subseteq sent
  /\ armed \subseteq sent /\ lostAns \subseteq sent
  /\ \A g \in Gens : lost[g] \subseteq sent
  /\ \A r \in Req \ sent : fwd[r] = 0 /\ errs[r] = 0

\* Nor does a child, on its way in or out.
UnreadSent == \A g \in Gens, r \in Req \ sent : unread[g][r] = 0
OthersSent == \A g \in Gens, r \in Req \ sent :
                running[g][r] = 0 /\ out[g][r] = 0 /\ notice[g][r] = 0

\* The ledger knows every id that was passed on or that a pump is about to
\* write, and at most one pump holds an id.
LedgerInv ==
  /\ ForwardOnce
  /\ \A r \in Req : fwd[r] > 0 => r \in ledger
  /\ \A g \in Gens : hand[g] \in Req => hand[g] \in ledger /\ fwd[hand[g]] = 0
  /\ \A g, h \in Gens : hand[g] = hand[h] /\ hand[g] \in Req => g = h

\* An armed id has not been answered in any way, nor is its answer held back.
TimerInv == \A r \in armed : /\ errs[r] = 0 /\ r \notin ledger
                             /\ r # setupHeld /\ r \notin lostAns

\* Why an id may leave the timer: the ledger or lostAns then vouches for it.
CoverInv ==
  /\ \A r \in ledger : fwd[r] > 0 \/ \E g \in Gens : hand[g] = r
  /\ \A r \in lostAns : errs[r] > 0
  /\ NeverForgotten

\* Why an idle-out strands nothing: the line a write is about to deliver is
\* never for a live child that is not, awake, the current one.
WriteAwake ==
  /\ ipc = "idle" => cur = NoReq
  /\ target <= child
  /\ ipc = "write" /\ proc[target] = "up" => target = child /\ ~idled
IdleInv == WriteAwake /\ IdleStrandsNothing

\* Why a dead child is replaced: a live one has its pump at work, so the pump is
\* there to see the end of it, and only a spawn that raised leaves `restarting`.
RespawnInv ==
  /\ DeadIsReplaced
  /\ restarting => spawnFails > 0
  /\ proc[child] = "up" => pump[child] \in {"read", "hand"}

\* Why a request runs once: before any idle-out the intake thread writes a line
\* once, and what else a pump sends again is a qa-doctor's.
Untouched(r) == runs[r] = 0 /\ \A g \in Gens : unread[g][r] = 0
OneCopy(r) ==
  /\ r \notin sent \/ r = cur => Untouched(r)
  /\ runs[r] <= 1
  /\ \A g \in Gens : unread[g][r] > 0 =>
       /\ unread[g][r] = 1 /\ runs[r] = 0
       /\ \A h \in Gens \ {g} : unread[h][r] = 0
Simple == Req \ (Doctors \cup {InitReq})
Unborn == \A g \in Gens : g > child => proc[g] = "none"
OnceInv ==
  (\A g \in Gens : proc[g] # "idle") =>
     /\ \A g \in Gens : /\ pump[g] # "rewrite" /\ pump[g] # "resend"
                        /\ lost[g] \subseteq Doctors
     /\ \A r \in Simple : OneCopy(r)

\* Why a fault costs one spawn: an idle-out, a restart somebody asked for, a dead
\* child whose end its pump has yet to see and a pump on its way to a restart
\* each stand for a fault, or for a spawn that raised and killed a live child, that
\* no spawn has been made for.
One(b) == IF b THEN 1 ELSE 0
Unseen == proc[child] # "up" /\ pump[child] \in {"read", "hand"} /\ ~restarting
Due(g) == pump[g] \in {"reap", "delay", "respawn"}
Restarters == {g \in Gens : Due(g)}
Spares == One(idled) + One(asker = "respawn") + One(Unseen) + Cardinality(Restarters)
Budget == faults + spawnFails
SpawnInv == /\ child + Spares <= Budget + 1
            /\ faults <= MaxFaults /\ spawnFails <= MaxSpawnFails

\* What the proofs carry from step to step.
Inductive == TypeOK /\ OnlySent /\ UnreadSent /\ OthersSent /\ LedgerInv /\ TimerInv
             /\ IdleInv

\* NeverForgotten also needs a wire log, and at most one qa-doctor call per
\* session: a second one discards the held answer of the first.
OneDoctor == \A d, e \in Doctors : d = e
CoverAssumption == OneDoctor /\ WireOn

\* Refinement: seen from the client, the supervisor is a ReplyChannel -- each
\* id is answered by a server at most once, whichever children answer it.
Channel == INSTANCE ReplyChannel
             WITH Request <- Req, asked <- sent, shown <- fwd, told <- errs
IsReplyChannel == Channel!Spec

\* Refinement: what the launcher's children do is what a server process does
\* (ServerProcess refines the same module): each generation is started once, ends
\* once, and goes out for want of use with nothing at work.
Child(g) == INSTANCE ServingChild
              WITH Request <- Req, status <- proc[g],
                   work <- {r \in Req : running[g][r] > 0}
ChildrenServe == \A g \in Gens : Child(g)!Spec
===============================================================================
