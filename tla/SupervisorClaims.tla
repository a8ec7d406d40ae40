--------------------------- MODULE SupervisorClaims ---------------------------
(***************************************************************************)
(* What comments and docstrings of launcher.py say of the supervisor, as   *)
(* properties the model of its code does not have.  Each is checked alone. *)
(***************************************************************************)
EXTENDS Supervisor

\* "one reply per request id, across respawns" (Supervisor.__init__).  The
\* released qa-doctor notice bypasses the ledger, the late report follows it.
AnsweredOnce == \A r \in Req : got(r) <= 1

\* "a client tool call must never hang on us" (_setup_check_guard): with two
\* qa-doctor calls the second discards the first one's held reply.
NoCallHangs == NeverForgotten

\* "request still unread in its pipe; those (and only those) are re-sent"
\* (PendingRequests): what an idle-out snapshots was never run by a child.
SnapshotIsUnread ==
  [][\A g \in Gens : lost'[g] # lost[g] =>
       \A r \in lost'[g] \cap Calls : runs[r] = 0]_vars

\* "an update landed while idled: tell the client" (refresh_tools): a client
\* whose session is initialized knows the schemas of the child that serves it.
SchemasFresh ==
  proc[child] = "up" /\ fwd[InitReq] > 0 => schemaVer = childVer

\* "the editor keeps its session": initialize is answered once children answer
\* what they read, even if a child dies first (the swallowed replay loses it).
SessionSurvives == (InitReq \in sent) ~> (got(InitReq) > 0)

\* The servers are obliging too: they read and answer.
FairChildren ==
  /\ FairSpec
  /\ \A g \in Gens, r \in Req : WF_vars(ChildRead(g, r)) /\ WF_vars(ChildReply(g, r))
===============================================================================
