----------------------------- MODULE ServingChild -----------------------------
(***************************************************************************)
(* What a server process and its launcher expect of each other, without   *)
(* clocks, watches or pipes: a server is started once, works on requests,  *)
(* and ends once; of its own accord, for want of use, it ends only while   *)
(* it has nothing at work; and it does nothing after its end.              *)
(***************************************************************************)

CONSTANT Request

VARIABLES
  status,   \* "none", "up", "idle" (ended for want of use) or "gone"
  work      \* the requests it has taken up and not answered yet

Init == status \in {"none", "up"} /\ work = {}

Start == /\ status = "none"
         /\ status' = "up"
         /\ UNCHANGED work

Take == /\ status = "up"
        /\ \E r \in Request : work' = work \cup {r}
        /\ UNCHANGED status

Answer == /\ status = "up"
          /\ \E r \in work : work' = work \ {r}
          /\ UNCHANGED status

IdleOut == /\ status = "up" /\ work = {}
           /\ status' = "idle"
           /\ UNCHANGED work

\* A crash, an exit to load new code, or the launcher's terminate().
Die == /\ status = "up"
       /\ status' = "gone"
       /\ UNCHANGED work

Next == Start \/ Take \/ Answer \/ IdleOut \/ Die

Spec == Init /\ [][Next]_<<status, work>>
===============================================================================
