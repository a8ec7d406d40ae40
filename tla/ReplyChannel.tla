----------------------------- MODULE ReplyChannel -----------------------------
(***************************************************************************)
(* What the launcher promises its editor about one request id, without     *)
(* children, respawns or timers: a request that was asked is answered by   *)
(* the server at most once, and nothing is answered that was not asked.    *)
(* The launcher may add notices of its own (a lost-call error, "could not  *)
(* be restarted", the reload notice of qa-doctor).                         *)
(***************************************************************************)
EXTENDS Naturals

CONSTANT Request

VARIABLES asked,   \* requests the client has sent
          shown,   \* server answers the client has for each
          told     \* launcher-made answers the client has for each

Init == /\ asked = {}
        /\ shown = [r \in Request |-> 0]
        /\ told = [r \in Request |-> 0]

Ask(r) == /\ r \notin asked
          /\ asked' = asked \cup {r}
          /\ UNCHANGED <<shown, told>>

Show(r) == /\ r \in asked /\ shown[r] = 0
           /\ shown' = [shown EXCEPT ![r] = 1]
           /\ UNCHANGED <<asked, told>>

Tell(R) == /\ R \subseteq asked
           /\ told' = [r \in Request |-> IF r \in R THEN told[r] + 1 ELSE told[r]]
           /\ UNCHANGED <<asked, shown>>

Next == \/ \E r \in Request : Ask(r) \/ Show(r)
        \/ \E R \in SUBSET Request : Tell(R)

Spec == Init /\ [][Next]_<<asked, shown, told>>
===============================================================================
