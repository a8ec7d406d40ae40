------------------------------ MODULE PrepSafety ------------------------------
(***************************************************************************)
(* Proofs about PrepStore, for every set of calls, categories and gates    *)
(* and every bound on cases and faults.                                    *)
(***************************************************************************)
EXTENDS PrepStore, TLAPS

Jobs == {"fetch", "category"} \cup Submits
AtWork == {"loaded", "checking", "writing", "touching", "retaining", "front", "back", "saved"}

\* A call at work holds the envelope it opened; one that checks or writes a
\* category has sent it.
HoldsOK ==
  \A c \in Calls :
    /\ at[c] \in AtWork => held[c] # None
    /\ at[c] \in {"checking", "writing"} => sent[c] # None

TypeInv == TypeOK /\ HoldsOK

LEMMA ConstantTypes ==
  /\ MaxCases \in Nat /\ Gates \subseteq DOMAIN Rank
  /\ None \notin Calls /\ None \notin Envelopes /\ None \notin Rows /\ None \notin Sent
  /\ None \notin Suites
BY PrepAssumption DEF PrepAssumption

LEMMA TypeInit == Init => TypeInv
<1> SUFFICES ASSUME Init PROVE TypeInv
  OBVIOUS
<1>1. prep \in Envelopes
  BY DEF Init, Envelopes
<1>2. NoRows \in Staged
  BY DEF NoRows, Staged
<1> QED BY <1>1, <1>2 DEF Init, TypeInv, TypeOK, HoldsOK, Steps, Over, AtWork

LEMMA LoadType ==
  ASSUME TypeInv, Load
  PROVE  prep' \in Envelopes \cup {None} /\ rows' \in Staged
BY DEF TypeInv, TypeOK, Load, Deletes, NoRows, Staged

LEMMA TypeOpens ==
  ASSUME TypeInv, NEW c \in Calls, NEW j \in Jobs, OpensPrep(c, j)
  PROVE  TypeInv'
<1>1. prep' \in Envelopes \cup {None} /\ rows' \in Staged
  BY LoadType DEF OpensPrep
<1>2. job' \in [Calls -> {"none", "fetch", "category", "close"} \cup Submits]
      /\ after' \in [Calls -> SUBSET Calls]
  BY DEF OpensPrep, Begins, TypeInv, TypeOK, Jobs
<1>3. /\ held' \in [Calls -> Envelopes \cup {None}] /\ at' \in [Calls -> Steps]
      /\ reply' \in [Calls -> {"none", "no", "recorded", "retained", "finalized", "closed"} \cup Gates]
      /\ HoldsOK'
  <2> USE DEF TypeInv, TypeOK, HoldsOK, Steps, Over, AtWork, Goes, Ends
  <2>1. CASE Open
    BY <2>1 DEF OpensPrep, Open, Live
  <2>2. CASE ~Open
    BY <2>2 DEF OpensPrep
  <2> QED BY <2>1, <2>2
<1> QED BY <1>1, <1>2, <1>3 DEF OpensPrep, TypeInv, TypeOK

LEMMA TypeCategory ==
  ASSUME TypeInv, NEW c \in Calls,
         Touches(c) \/ CategoryReads(c) \/ CategoryChecks(c) \/ CategoryWrites(c)
  PROVE  TypeInv'
<1> USE ConstantTypes DEF TypeInv, TypeOK, HoldsOK, Steps, Over, AtWork, Goes, Ends, prepVars
<1>1. CASE Touches(c)
  BY <1>1 DEF Touches
<1>2. CASE CategoryReads(c)
  <2>1. PICK k \in Categories, n \in CaseCounts :
          CategoryReads(c)!2!(k, n)
    BY <1>2 DEF CategoryReads
  <2>2. sent' \in [Calls -> Sent \cup {None}] /\ sent'[c] # None
    <3>1. [cat |-> k, size |-> n] \in Sent
      BY DEF CaseCounts, Sent
    <3> QED BY <2>1, <3>1
  <2>3. read' \in [Calls -> Staged] /\ failed' \subseteq Calls
    BY <2>1 DEF StoreFails
  <2>4. passed' \in [Calls -> SUBSET (Gates \cup {"shrink"})]
    BY <2>1
  <2> QED BY <1>2, <2>1, <2>2, <2>3, <2>4 DEF CategoryReads
<1>3. CASE CategoryChecks(c)
  BY <1>3, LoadType DEF CategoryChecks
<1>4. CASE CategoryWrites(c)
  <2>1. rows' \in Staged
    <3>1. Row(c, rows[sent[c].cat]) \in Rows
      BY <1>4 DEF CategoryWrites, Row, Rows, Sent
    <3> QED BY <1>4, <3>1 DEF CategoryWrites, Staged
  <2> QED BY <1>4, <2>1 DEF CategoryWrites
<1> QED BY <1>1, <1>2, <1>3, <1>4

LEMMA UpdateType ==
  ASSUME TypeInv, NEW c \in Calls, UpdateFails(c)
  PROVE  prep' = prep /\ failed' \subseteq Calls
BY DEF TypeInv, TypeOK, UpdateFails, StoreFails

LEMMA TypeSuite ==
  ASSUME TypeInv, NEW c \in Calls,
         SuiteReads(c) \/ Retains(c) \/ Gate(c) \/ Replies(c) \/ Finalizes(c) \/ Saves(c)
         \/ Stamps(c)
  PROVE  TypeInv'
<1> USE ConstantTypes DEF TypeInv, TypeOK, HoldsOK, Steps, Over, AtWork, Goes, Ends, prepVars, callVars
<1>1. CASE SuiteReads(c)
  BY <1>1 DEF SuiteReads
<1>2. CASE Retains(c)
  <2>1. [held[c] EXCEPT !.sidecar = TRUE] \in Envelopes
    <3>1. held[c] \in Envelopes
      BY <1>2 DEF Retains
    <3> QED BY <3>1 DEF Envelopes
  <2>2. prep' \in Envelopes \cup {None} /\ failed' \subseteq Calls
    BY <1>2, <2>1, UpdateType DEF Retains, Updates
  <2> QED BY <1>2, <2>2 DEF Retains
<1>3. ASSUME NEW g \in Gates, Overridden(c, g) PROVE TypeInv'
  BY <1>3 DEF Overridden
<1>4. ASSUME NEW g \in Gates, Refuses(c, g) PROVE TypeInv'
  <2>1. at[c] \in {"front", "back"}
    BY <1>4 DEF Refuses, Objects
  <2>2. Marked(c, g) \in Envelopes
    BY <2>1 DEF Marked, Envelopes
  <2>3. prep' \in Envelopes \cup {None} /\ failed' \subseteq Calls
    BY <1>4, <2>2, UpdateType DEF Refuses, Updates
  <2>4. passed' \in [Calls -> SUBSET (Gates \cup {"shrink"})]
    BY <1>4 DEF Refuses
  <2> QED BY <1>4, <2>1, <2>3, <2>4 DEF Refuses, Refusing
<1>5. CASE Finalizes(c)
  <2>1. prep' \in Envelopes \cup {None} /\ rows' \in Staged
    BY <1>5 DEF Finalizes, Deletes, NoRows, Staged
  <2> QED BY <1>5, <2>1 DEF Finalizes
<1>6. CASE Saves(c)
  <2>1. suite' \in Suites \cup {None}
    BY <1>6 DEF Saves, Suites
  <2> QED BY <1>6, <2>1 DEF Saves, StoreFails
<1>7. CASE Stamps(c)
  <2>1. [held[c] EXCEPT !.stamp = c] \in Envelopes
    BY <1>7 DEF Stamps, Envelopes
  <2>2. prep' \in Envelopes \cup {None} /\ rows' \in Staged /\ failed' \subseteq Calls
    BY <1>7, <2>1, UpdateType DEF Stamps, Updates, Deletes, NoRows, Staged, StoreFails
  <2> QED BY <1>7, <2>2 DEF Stamps
<1>8. CASE Replies(c)
  BY <1>8 DEF Replies
<1> QED BY <1>1, <1>2, <1>3, <1>4, <1>5, <1>6, <1>7, <1>8 DEF Gate

LEMMA TypeRest ==
  ASSUME TypeInv,
         Ages \/ Purges \/ (\E c \in Calls : Task(c) \/ Crashes(c)) \/ UNCHANGED vars
  PROVE  TypeInv'
<1> USE DEF TypeInv, TypeOK, HoldsOK, Steps, Over, AtWork, Goes, Ends, prepVars, callVars
<1>1. CASE Ages
  BY <1>1 DEF Ages
<1>2. CASE Purges
  BY <1>2 DEF Purges, Deletes, NoRows, Staged
<1>3. ASSUME NEW c \in Calls, ClosesTask(c) PROVE TypeInv'
  BY <1>3 DEF ClosesTask, Begins
<1>4. ASSUME NEW c \in Calls, Claims(c) PROVE TypeInv'
  <2>1. closed' \subseteq Calls /\ failed' \subseteq Calls /\ task' \in BOOLEAN
    BY <1>4 DEF Claims, StoreFails
  <2> QED BY <1>4, <2>1 DEF Claims
<1>5. ASSUME NEW c \in Calls, Crashes(c) PROVE TypeInv'
  BY <1>5 DEF Crashes
<1>6. CASE UNCHANGED vars
  BY <1>6 DEF vars
<1> QED BY <1>1, <1>2, <1>3, <1>4, <1>5, <1>6 DEF Task

LEMMA CallSteps ==
  ASSUME NEW c \in Calls, Call(c)
  PROVE  \/ \E j \in Jobs : OpensPrep(c, j)
         \/ Touches(c) \/ CategoryReads(c) \/ CategoryChecks(c) \/ CategoryWrites(c)
         \/ SuiteReads(c) \/ Retains(c) \/ Gate(c) \/ Replies(c) \/ Finalizes(c) \/ Saves(c)
         \/ Stamps(c) \/ Task(c) \/ Crashes(c)
BY DEF Call, Category, Suite, FetchesJob, SubmitsCategory, SubmitsSuite, Jobs

LEMMA TypeStep == TypeInv /\ [Next]_vars => TypeInv'
<1> SUFFICES ASSUME TypeInv, [Next]_vars PROVE TypeInv'
  OBVIOUS
<1>1. ASSUME NEW c \in Calls, Call(c) PROVE TypeInv'
  BY <1>1, CallSteps, TypeOpens, TypeCategory, TypeSuite, TypeRest
<1> QED BY <1>1, TypeRest DEF Next

(* Every variable of the prep's row, its suite, the host task and the calls    *)
(* keeps its type.                                                             *)
THEOREM TypeCorrect == Spec => []TypeOK
<1>1. TypeInv => TypeOK
  BY DEF TypeInv
<1> QED BY <1>1, TypeInit, TypeStep, PTL DEF Spec

--------------------------------------------------------------------------------
(* The host task.                                                              *)
TaskInv == TaskClosedOnce /\ (task => closed \subseteq failed)

LEMMA TaskStep == TaskInv /\ [Next]_vars => TaskInv'
<1> SUFFICES ASSUME TaskInv, [Next]_vars PROVE TaskInv'
  OBVIOUS
<1> USE DEF TaskInv, TaskClosedOnce
<1>1. ASSUME NEW c \in Calls, Claims(c) PROVE TaskInv'
  BY <1>1 DEF Claims, StoreFails, LostClaim
<1>2. ASSUME UNCHANGED <<task, closed>>, failed \subseteq failed' PROVE TaskInv'
  BY <1>2
<1>3. ASSUME NEW c \in Calls, Call(c), ~Claims(c)
      PROVE  UNCHANGED <<task, closed>> /\ failed \subseteq failed'
  <2> USE DEF StoreFails, UpdateFails
  <2>1. ASSUME NEW j \in Jobs, OpensPrep(c, j)
        PROVE  UNCHANGED <<task, closed>> /\ failed \subseteq failed'
    BY <2>1 DEF OpensPrep
  <2>2. CASE Touches(c) \/ CategoryReads(c) \/ CategoryChecks(c) \/ CategoryWrites(c)
    BY <2>2 DEF Touches, CategoryReads, CategoryChecks, CategoryWrites
  <2>3. CASE SuiteReads(c) \/ Retains(c) \/ Finalizes(c) \/ Saves(c) \/ Stamps(c)
    BY <2>3 DEF SuiteReads, Retains, Finalizes, Saves, Stamps
  <2>4. CASE Gate(c) \/ Replies(c)
    BY <2>4 DEF Gate, Overridden, Refuses, Replies
  <2>5. CASE ClosesTask(c) \/ Crashes(c)
    BY <2>5 DEF ClosesTask, Crashes
  <2> QED BY <1>3, <2>1, <2>2, <2>3, <2>4, <2>5, CallSteps DEF Task
<1>4. CASE Ages \/ Purges \/ UNCHANGED vars
  BY <1>2, <1>4 DEF Ages, Purges, vars
<1> QED BY <1>1, <1>2, <1>3, <1>4 DEF Next

(* A host task is handed to one call, except where its delete failed.          *)
THEOREM TaskClosed == Spec => []TaskClosedOnce
<1>1. Init => TaskInv
  BY DEF Init, TaskInv, TaskClosedOnce
<1>2. TaskInv => TaskClosedOnce
  BY DEF TaskInv
<1> QED BY <1>1, <1>2, TaskStep, PTL DEF Spec

--------------------------------------------------------------------------------
(* The calls: what each knows, and what was over when it began.                *)
Submitting == {"retaining", "front", "back", "saved"}

CallOK(c) ==
  /\ \A d \in after[c] : at[d] \in Over
  /\ at[c] = "new" =>
       /\ job[c] = "none" /\ held[c] = None /\ reply[c] = "none"
       /\ passed[c] = {} /\ sent[c] = None /\ c \notin saved
  /\ at[c] \in {"checking", "writing"} => job[c] = "category"
  /\ at[c] \in Submitting => job[c] \in Submits
  /\ at[c] \in {"loaded", "checking", "writing"} \cup Submitting => reply[c] = "none"
  /\ at[c] = "loaded" => passed[c] = {}
  /\ reply[c] \notin Gates \cup {"none", "no"} => at[c] = "ended"
  /\ reply[c] \in Gates => at[c] \in {"refusing"} \cup Over
  /\ at[c] = "refusing" => job[c] \in Submits /\ reply[c] \in Gates /\ c \notin saved
  /\ c \in saved => /\ job[c] \in Submits /\ held[c] # None
                    /\ at[c] \in {"saved"} \cup Over
                    /\ at[c] = "ended" => reply[c] = "finalized"
  /\ held[c] # None => held[c].stamp = None

CallInv == TypeInv /\ (prep = None => rows = NoRows) /\ \A c \in Calls : CallOK(c)

LEMMA GateNames ==
  \A g \in Gates : g \notin {"none", "no", "recorded", "retained", "finalized", "closed"}
BY ConstantTypes DEF Rank

\* Only the call that takes the step changes, and what it was called for stays.
Stays(c) ==
  /\ at'[c] = at[c] /\ job'[c] = job[c] /\ held'[c] = held[c] /\ read'[c] = read[c]
  /\ sent'[c] = sent[c] /\ passed'[c] = passed[c] /\ reply'[c] = reply[c]
  /\ after'[c] = after[c]
  /\ (c \in saved') = (c \in saved) /\ (c \in failed') = (c \in failed)

Moves(c) ==
  /\ \A d \in Calls \ {c} : Stays(d)
  /\ at[c] \notin Over /\ at'[c] # "new"
  /\ c \in saved => c \in saved'
  /\ c \in failed => c \in failed'
  /\ at[c] # "new" => job'[c] = job[c] /\ held'[c] = held[c] /\ after'[c] = after[c]
  /\ prep = None => prep' = None

LEMMA UpdateKeeps ==
  ASSUME NEW c \in Calls, UpdateFails(c)
  PROVE  prep' = prep /\ (failed' = failed \/ failed' = failed \cup {c})
BY DEF UpdateFails, StoreFails

LEMMA OneMoves == ASSUME TypeInv, NEW c \in Calls, Call(c) PROVE Moves(c)
<1> USE DEF TypeInv, TypeOK, Moves, Stays, Over, Goes, Ends, Begins, prepVars, callVars
<1>1. ASSUME NEW j \in Jobs, OpensPrep(c, j) PROVE Moves(c)
  <2>1. prep = None => prep' = None
    BY <1>1 DEF OpensPrep, Load, Deletes
  <2> QED BY <1>1, <2>1 DEF OpensPrep
<1>2. CASE Touches(c)
  BY <1>2 DEF Touches
<1>3. CASE CategoryReads(c)
  BY <1>3 DEF CategoryReads, StoreFails
<1>4. CASE CategoryChecks(c)
  <2>1. prep = None => prep' = None
    BY <1>4 DEF CategoryChecks, Load, Deletes
  <2> QED BY <1>4, <2>1 DEF CategoryChecks
<1>5. CASE CategoryWrites(c)
  BY <1>5 DEF CategoryWrites
<1>6. CASE SuiteReads(c)
  BY <1>6 DEF SuiteReads
<1>7. CASE Retains(c)
  BY <1>7, UpdateKeeps DEF Retains, Updates
<1>8. CASE Gate(c)
  <2>1. PICK g \in Gates : Overridden(c, g) \/ Refuses(c, g)
    BY <1>8 DEF Gate
  <2>2. CASE Overridden(c, g)
    BY <2>2 DEF Overridden, Objects
  <2>3. CASE Refuses(c, g)
    BY <2>3, UpdateKeeps DEF Refuses, Refusing, Objects, Updates
  <2> QED BY <2>1, <2>2, <2>3
<1>9. CASE Finalizes(c)
  BY <1>9 DEF Finalizes, Deletes
<1>10. CASE Saves(c)
  BY <1>10 DEF Saves, StoreFails
<1>11. CASE Stamps(c)
  <2>1. /\ prep = None => prep' = None
        /\ failed' = failed \/ failed' = failed \cup {c}
    BY <1>11, UpdateKeeps DEF Stamps, Updates, Deletes, StoreFails
  <2> QED BY <1>11, <2>1 DEF Stamps
<1>12. CASE ClosesTask(c)
  BY <1>12 DEF ClosesTask
<1>13. CASE Claims(c)
  BY <1>13 DEF Claims, StoreFails
<1>14. CASE Crashes(c) \/ Replies(c)
  BY <1>14 DEF Crashes, Replies
<1> QED BY <1>1, <1>2, <1>3, <1>4, <1>5, <1>6, <1>7, <1>8, <1>9, <1>10, <1>11, <1>12,
          <1>13, <1>14, CallSteps DEF Task

LEMMA NoneMoves ==
  ASSUME Ages \/ Purges \/ UNCHANGED vars
  PROVE  /\ \A c \in Calls : Stays(c)
         /\ prep = None => prep' = None
         /\ UNCHANGED <<suite, saved>>
BY DEF Ages, Purges, Deletes, vars, callVars, prepVars, Stays

LEMMA CallStays ==
  ASSUME CallInv, \A d \in Calls : at[d] \in Over => at'[d] = at[d],
         NEW d \in Calls, Stays(d)
  PROVE  CallOK(d)'
<1> CallOK(d) /\ after[d] \subseteq Calls
  BY DEF CallInv, TypeInv, TypeOK
<1> QED BY DEF CallOK, Stays

LEMMA OpenedFacts ==
  ASSUME NEW c \in Calls, NEW j \in Jobs, OpensPrep(c, j), TypeInv
  PROVE  /\ at[c] = "new" /\ job'[c] = j
         /\ after'[c] = {d \in Calls : at[d] \in Over} /\ after' = [after EXCEPT ![c] = after'[c]]
         /\ \/ /\ prep # None /\ prep.stamp = None /\ UNCHANGED <<prep, rows, reply>>
               /\ held'[c] = prep /\ at'[c] = IF j = "fetch" THEN "touching" ELSE "loaded"
            \/ at'[c] = "ended" /\ reply'[c] = "no" /\ UNCHANGED <<held, rows>> /\ UNCHANGED prep
            \/ at'[c] = "ended" /\ reply'[c] = "no" /\ UNCHANGED held /\ prep' = None
               /\ rows' = NoRows
<1> USE DEF TypeInv, TypeOK, OpensPrep, Begins, Goes, Ends
<1>1. CASE Open
  BY <1>1 DEF Open, Live, Load
<1>2. CASE ~Open /\ Live
  BY <1>2 DEF Load
<1>3. CASE ~Open /\ ~Live
  BY <1>3 DEF Load, Deletes
<1> QED BY <1>1, <1>2, <1>3

LEMMA CallOpens ==
  ASSUME CallInv, NEW c \in Calls, NEW j \in Jobs, OpensPrep(c, j)
  PROVE  CallOK(c)' /\ (prep' = None => rows' = NoRows)
<1>1. TypeInv /\ CallOK(c) /\ (prep = None => rows = NoRows)
  BY DEF CallInv
<1>2. at[c] = "new" /\ job'[c] = j /\ after'[c] = {d \in Calls : at[d] \in Over}
  BY <1>1, OpenedFacts
<1>3. \A d \in after'[c] : at'[d] \in Over
  BY <1>1, <1>2 DEF OpensPrep, Goes, Ends, TypeInv, TypeOK, Over
<1>4. UNCHANGED <<passed, sent, saved>>
  BY DEF OpensPrep
<1>5. CASE held'[c] = prep /\ prep.stamp = None /\ UNCHANGED <<prep, rows, reply>>
           /\ at'[c] = IF j = "fetch" THEN "touching" ELSE "loaded"
  <2>1. prep' = None => rows' = NoRows
    BY <1>1, <1>5 DEF NoRows
  <2>2. at'[c] = "touching" \/ at'[c] = "loaded"
    BY <1>5
  <2> QED BY <1>1, <1>2, <1>3, <1>4, <1>5, <2>1, <2>2 DEF CallOK, Over, Submitting
<1>6. CASE at'[c] = "ended" /\ reply'[c] = "no" /\ held' = held
  <2>1. prep' = None => rows' = NoRows
    BY <1>1, OpenedFacts DEF NoRows
  <2> QED BY <1>1, <1>2, <1>3, <1>4, <1>6, <2>1 DEF CallOK, Over, Submitting
<1> QED BY <1>1, <1>5, <1>6, OpenedFacts

LEMMA CallMoves ==
  ASSUME CallInv, NEW c \in Calls, Call(c)
  PROVE  CallOK(c)' /\ (prep' = None => rows' = NoRows)
<1>1. TypeOK /\ HoldsOK /\ CallOK(c) /\ (prep = None => rows = NoRows) /\ Moves(c)
  BY OneMoves DEF CallInv, TypeInv
<1>2. ASSUME at[c] # "new" PROVE \A d \in after'[c] : at'[d] \in Over
  BY <1>1, <1>2 DEF CallOK, Moves, Stays, TypeOK
<1>3. ASSUME UNCHANGED <<prep, rows>> PROVE prep' = None => rows' = NoRows
  BY <1>1, <1>3 DEF NoRows
<1>4. \A env \in Envelopes : env # None
  BY ConstantTypes
<1> USE DEF TypeOK, HoldsOK, AtWork, CallOK, Submitting, Over, Goes, Ends, prepVars, callVars
<1>5. ASSUME NEW j \in Jobs, OpensPrep(c, j) PROVE CallOK(c)' /\ (prep' = None => rows' = NoRows)
  BY <1>5, CallOpens
<1>6. CASE Touches(c)
  BY <1>1, <1>2, <1>3, <1>6 DEF Touches
<1>7. CASE CategoryReads(c)
  BY <1>1, <1>2, <1>3, <1>7, GateNames DEF CategoryReads
<1>8. CASE CategoryChecks(c)
  BY <1>1, <1>2, <1>3, <1>8 DEF CategoryChecks, Load, Deletes, NoRows
<1>9. CASE CategoryWrites(c)
  BY <1>1, <1>2, <1>9 DEF CategoryWrites, NoRows
<1>10. CASE SuiteReads(c)
  BY <1>1, <1>2, <1>3, <1>10 DEF SuiteReads
<1>11. CASE Retains(c)
  <2>1. [held[c] EXCEPT !.sidecar = TRUE] \in Envelopes
    <3>1. held[c] \in Envelopes
      BY <1>1, <1>11 DEF Retains
    <3> QED BY <3>1 DEF Envelopes
  <2>2. rows' = rows /\ (prep' = prep \/ prep' # None)
    BY <1>11, <2>1, <1>4, UpdateKeeps DEF Retains, Updates
  <2> QED BY <1>1, <1>2, <2>2, <1>11 DEF Retains, NoRows
<1>12. ASSUME NEW g \in Gates, Overridden(c, g) PROVE CallOK(c)' /\ (prep' = None => rows' = NoRows)
  BY <1>1, <1>2, <1>3, <1>12 DEF Overridden, Objects
<1>13. ASSUME NEW g \in Gates, Refuses(c, g) PROVE CallOK(c)' /\ (prep' = None => rows' = NoRows)
  <2>1. Marked(c, g) \in Envelopes
    <3>1. held[c] \in Envelopes
      BY <1>1, <1>13 DEF Refuses, Objects
    <3> QED BY <3>1 DEF Envelopes, Marked
  <2>2. rows' = rows /\ (prep' = prep \/ prep' # None)
    BY <1>13, <2>1, <1>4, UpdateKeeps DEF Refuses, Updates
  <2>3. prep' = None => rows' = NoRows
    BY <1>1, <2>2 DEF NoRows
  <2>4. at[c] \in {"front", "back"} /\ saved' = saved
    BY <1>13 DEF Refuses, Objects
  <2> QED BY <1>1, <1>2, <2>3, <2>4, <1>13 DEF Refuses, Refusing
<1>14. CASE Finalizes(c)
  BY <1>1, <1>2, <1>3, <1>14 DEF Finalizes, Deletes, NoRows
<1>15. CASE Saves(c)
  BY <1>1, <1>2, <1>3, <1>15 DEF Saves
<1>16. CASE Stamps(c)
  <2>1. [held[c] EXCEPT !.stamp = c] \in Envelopes
    <3>1. held[c] \in Envelopes
      BY <1>1, <1>16 DEF Stamps
    <3> QED BY <3>1 DEF Envelopes
  <2>2. prep' = None => rows' = NoRows
    BY <1>1, <1>16, <2>1, <1>4, UpdateKeeps DEF Stamps, Updates, Deletes, NoRows
  <2> QED BY <1>1, <1>2, <2>2, <1>16 DEF Stamps
<1>17. CASE Task(c)
  <2>1. \A d \in after'[c] : at'[d] \in Over
    BY <1>1, <1>2, <1>17 DEF Task, ClosesTask, Begins, Claims
  <2> QED BY <1>1, <1>3, <2>1, <1>17 DEF Task, ClosesTask, Claims, Begins, Submits
<1>18. CASE Crashes(c) \/ Replies(c)
  BY <1>1, <1>2, <1>3, <1>18 DEF Crashes, Replies
<1> QED BY <1>5, <1>6, <1>7, <1>8, <1>9, <1>10, <1>11, <1>12, <1>13, <1>14, <1>15, <1>16,
          <1>17, <1>18, CallSteps DEF Gate

LEMMA CallStep == CallInv /\ [Next]_vars => CallInv'
<1> SUFFICES ASSUME CallInv, [Next]_vars PROVE CallInv'
  OBVIOUS
<1>1. TypeInv'
  BY TypeStep DEF CallInv
<1>2. CASE Ages \/ Purges \/ UNCHANGED vars
  <2>1. prep' = None => rows' = NoRows
    BY <1>2 DEF CallInv, Ages, Purges, Deletes, NoRows, vars, prepVars
  <2>2. \A c \in Calls : Stays(c)
    BY <1>2, NoneMoves
  <2>3. \A c \in Calls : CallOK(c)'
    BY <2>2, CallStays DEF Stays
  <2> QED BY <1>1, <2>1, <2>3 DEF CallInv
<1>3. ASSUME NEW c \in Calls, Call(c) PROVE CallInv'
  <2>1. Moves(c)
    BY <1>3, OneMoves DEF CallInv
  <2>2. \A d \in Calls : at[d] \in Over => at'[d] = at[d]
    BY <2>1 DEF Moves, Stays
  <2>3. \A d \in Calls \ {c} : CallOK(d)'
    BY <2>1, <2>2, CallStays DEF Moves
  <2> QED BY <1>1, <1>3, <2>3, CallMoves DEF CallInv
<1> QED BY <1>2, <1>3 DEF Next

LEMMA CallInit == Init => CallInv
BY TypeInit, GateNames DEF Init, CallInv, CallOK, Over, Submitting, Submits

(* What a step does to the prep's row, to the staged rows, and to time.        *)
Quiet == Ages \/ Purges \/ UNCHANGED vars

LEMMA HeldType ==
  ASSUME TypeInv, NEW c \in Calls, at[c] \in AtWork
  PROVE  held[c] \in Envelopes
BY DEF TypeInv, TypeOK, HoldsOK

LEMMA QuietPrep ==
  ASSUME Quiet
  PROVE  UNCHANGED <<prep, rows>> \/ (prep' = None /\ rows' = NoRows)
BY DEF Quiet, Ages, Purges, Deletes, vars, prepVars

LEMMA PrepMoves ==
  ASSUME TypeInv, NEW c \in Calls, Call(c)
  PROVE  \/ UNCHANGED <<prep, rows>>
         \/ prep' = None /\ rows' = NoRows
         \/ prep' = prep /\ CategoryWrites(c)
         \/ /\ prep # None /\ rows' = rows /\ held[c] \in Envelopes
            /\ UNCHANGED <<suite, job, held, read, after, saved, failed>>
            /\ \/ at[c] = "retaining" /\ at'[c] = "ended" /\ reply'[c] = "retained"
                  /\ prep' = [held[c] EXCEPT !.sidecar = TRUE]
               \/ at[c] = "saved" /\ at'[c] = "ended" /\ reply'[c] = "finalized"
                  /\ prep' = [held[c] EXCEPT !.stamp = c]
               \/ \E g \in Gates : /\ Refuses(c, g) /\ at[c] \in {"front", "back"}
                                   /\ at'[c] = "refusing" /\ reply'[c] = g
                                   /\ prep' = Marked(c, g)
<1> DEFINE P == UNCHANGED <<prep, rows>> \/ (prep' = None /\ rows' = NoRows)
<1> USE DEF TypeInv, TypeOK, prepVars, callVars, Goes, Ends
<1>1. ASSUME NEW j \in Jobs, OpensPrep(c, j) PROVE P
  BY <1>1 DEF OpensPrep, Load, Deletes
<1>2. CASE Touches(c) \/ CategoryReads(c) \/ CategoryChecks(c) \/ SuiteReads(c) \/ Finalizes(c)
           \/ Saves(c) \/ Replies(c)
  BY <1>2 DEF Touches, CategoryReads, CategoryChecks, SuiteReads, Finalizes, Saves, Replies, Load,
      Deletes
<1>3. CASE CategoryWrites(c)
  BY <1>3 DEF CategoryWrites
<1>4. CASE Retains(c)
  <2>1. held[c] \in Envelopes
    BY <1>4, HeldType DEF Retains, AtWork
  <2> QED BY <1>4, <2>1, UpdateKeeps DEF Retains, Updates
<1>5. ASSUME NEW g \in Gates, Overridden(c, g) PROVE P
  BY <1>5 DEF Overridden
<1>6. ASSUME NEW g \in Gates, Refuses(c, g)
      PROVE  P \/ (/\ prep # None /\ rows' = rows /\ at'[c] = "refusing" /\ held[c] \in Envelopes
                   /\ UNCHANGED <<suite, job, held, read, after, saved, failed>>
                   /\ at[c] \in {"front", "back"} /\ reply'[c] = g /\ prep' = Marked(c, g))
  <2>1. at[c] \in {"front", "back"}
    BY <1>6 DEF Refuses, Objects
  <2>2. held[c] \in Envelopes
    BY <2>1, HeldType DEF AtWork
  <2> QED BY <1>6, <2>1, <2>2, UpdateKeeps DEF Refuses, Refusing, Updates
<1>7. CASE Stamps(c)
  <2>1. held[c] \in Envelopes
    BY <1>7, HeldType DEF Stamps, AtWork
  <2> QED BY <1>7, <2>1, UpdateKeeps DEF Stamps, Updates, Deletes
<1>8. CASE Task(c) \/ Crashes(c)
  BY <1>8 DEF Task, ClosesTask, Claims, Crashes
<1> QED BY <1>1, <1>2, <1>3, <1>4, <1>5, <1>6, <1>7, <1>8, CallSteps DEF Gate

LEMMA OverlapStays ==
  ASSUME CallInv, [Next]_vars, NEW a \in Calls, NEW b \in Calls, Overlap(a, b)
  PROVE  Overlap(a, b)'
<1>1. CASE Quiet
  BY <1>1, NoneMoves DEF Overlap, Stays, Quiet
<1>2. ASSUME NEW c \in Calls, Call(c) PROVE Overlap(a, b)'
  BY <1>2, OneMoves DEF Overlap, Moves, Stays, CallInv
<1> QED BY <1>1, <1>2 DEF Next, Quiet

\* Two calls under way overlap; one under way is over for nobody.
LEMMA RunsBeside ==
  ASSUME CallInv, NEW a \in Calls, at[a] \notin Over
  PROVE  /\ \A b \in Calls : a \notin after[b]
         /\ \A b \in Calls : at[a] # "new" /\ at[b] \notin Over \cup {"new"} => Overlap(a, b)
BY DEF CallInv, CallOK, Overlap

--------------------------------------------------------------------------------
(* The shrink guard.                                                           *)
\* What call c read of a staged row still holds, but for rows written beside it.
RowOK(c, k) == rows[k] \in {read[c][k], None} \/ Overlap(c, rows[k].by)
RowsOK(c) == \A k \in Categories : RowOK(c, k)

ReadOK(c) ==
  at[c] \in {"checking", "writing"} /\ c \notin failed =>
    /\ "shrink" \in passed[c] \/ ~Shrinks(read[c][sent[c].cat], sent[c].size)
    /\ RowsOK(c)

ShrinkInv == CallInv /\ \A c \in Calls : ReadOK(c)

LEMMA RowType ==
  ASSUME TypeInv, NEW k \in Categories, rows[k] # None
  PROVE  rows[k] \in Rows /\ rows[k].by \in Calls /\ rows[k].size \in Nat
BY DEF TypeInv, TypeOK, Staged, Rows

LEMMA WritesFacts ==
  ASSUME TypeInv, NEW c \in Calls, CategoryWrites(c)
  PROVE  /\ at[c] = "writing" /\ sent[c] \in Sent
         /\ \/ UNCHANGED rows /\ at'[c] = "ended" /\ reply'[c] = "no" /\ prep = None
            \/ /\ at'[c] = "touching" /\ prep # None /\ UNCHANGED reply
               /\ rows'[sent[c].cat] = [by |-> c, size |-> sent[c].size]
               /\ \A k \in Categories : k # sent[c].cat => rows'[k] = rows[k]
BY DEF CategoryWrites, TypeInv, TypeOK, HoldsOK, Goes, Ends, Row, Staged, Sent

LEMMA RowKept ==
  ASSUME CallInv, [Next]_vars, NEW c \in Calls, read' = read \/ Stays(c),
         NEW k \in Categories, RowOK(c, k), rows'[k] = rows[k]
  PROVE  RowOK(c, k)'
<1>1. CASE rows[k] \in {read[c][k], None}
  BY <1>1 DEF RowOK, Stays
<1>2. CASE rows[k] # None /\ Overlap(c, rows[k].by)
  <2> DEFINE b == rows[k].by
  <2>1. b \in Calls
    BY <1>2, RowType DEF CallInv
  <2> HIDE DEF b
  <2>2. Overlap(c, rows[k].by) /\ b = rows'[k].by
    BY <1>2 DEF b
  <2>3. ASSUME NEW d \in Calls, Overlap(c, d) PROVE Overlap(c, d)'
    BY <2>3, OverlapStays
  <2>4. PICK d \in Calls : d = b
    BY <2>1
  <2>5. Overlap(c, d) /\ d = rows'[k].by
    BY <2>2, <2>4 DEF b
  <2>6. Overlap(c, d)'
    BY <2>3, <2>5
  <2> QED BY <2>5, <2>6 DEF RowOK, Overlap
<1> QED BY <1>1, <1>2 DEF RowOK

LEMMA RowsKept ==
  ASSUME CallInv, [Next]_vars, NEW c \in Calls, Stays(c), RowsOK(c),
         \A d \in Calls : at[d] = "writing" => Overlap(c, d)
  PROVE  RowsOK(c)'
<1> TypeInv
  BY DEF CallInv
<1>1. CASE rows' = rows
  BY <1>1, RowKept DEF RowsOK
<1>2. CASE rows' = NoRows
  BY <1>2 DEF NoRows, RowsOK, RowOK
<1>3. ASSUME NEW d \in Calls, CategoryWrites(d) PROVE RowsOK(c)'
  <2>1. Overlap(c, d)
    BY <1>3 DEF CategoryWrites
  <2>2. Overlap(c, d)'
    BY <2>1, OverlapStays
  <2>3. SUFFICES ASSUME NEW k \in Categories PROVE RowOK(c, k)'
    BY DEF RowsOK
  <2>4. rows'[k] = rows[k] \/ rows'[k].by = d
    <3>1. CASE rows' = rows
      BY <3>1
    <3>2. CASE /\ rows'[sent[d].cat] = [by |-> d, size |-> sent[d].size]
               /\ \A h \in Categories : h # sent[d].cat => rows'[h] = rows[h]
      BY <3>2
    <3> QED BY <1>3, <3>1, <3>2, WritesFacts
  <2>5. CASE rows'[k].by = d
    BY <2>2, <2>5 DEF RowOK, Overlap
  <2> QED BY <2>4, <2>5, RowKept DEF RowsOK
<1> QED BY <1>1, <1>2, <1>3, QuietPrep, PrepMoves DEF Next, Quiet

LEMMA ReadMoves ==
  ASSUME ShrinkInv, [Next]_vars, NEW c \in Calls, Call(c)
  PROVE  ReadOK(c)'
<1> TypeInv /\ ReadOK(c) /\ TypeInv'
  BY TypeStep DEF ShrinkInv, CallInv
<1> SUFFICES ASSUME at'[c] \in {"checking", "writing"}, c \notin failed' PROVE ReadOK(c)'
  BY DEF ReadOK
<1>1. CASE CategoryReads(c)
  <2>1. PICK k \in Categories, n \in CaseCounts : CategoryReads(c)!2!(k, n)
    BY <1>1 DEF CategoryReads
  <2>2. read'[c] = rows /\ rows' = rows /\ sent'[c].cat = k /\ sent'[c].size = n
    BY <1>1, <2>1 DEF CategoryReads, StoreFails, TypeInv, TypeOK, prepVars
  <2>3. "shrink" \in passed'[c] \/ ~Shrinks(read'[c][k], n)
    BY <1>1, <2>1 DEF CategoryReads, Goes, Ends, TypeInv, TypeOK
  <2> QED BY <2>2, <2>3 DEF ReadOK, Shrinks, RowsOK, RowOK
<1>2. CASE CategoryChecks(c)
  <2>1. at[c] = "checking" /\ UNCHANGED <<sent, passed, read, failed>>
    BY <1>2 DEF CategoryChecks
  <2>2. rows' = rows \/ rows' = NoRows
    BY <1>2 DEF CategoryChecks, Load, Deletes
  <2>3. ASSUME rows' = rows PROVE RowsOK(c)'
    BY <2>1, <2>3, RowKept DEF ReadOK, RowsOK, ShrinkInv
  <2>4. ASSUME rows' = NoRows PROVE RowsOK(c)'
    BY <2>4 DEF NoRows, RowsOK, RowOK
  <2>5. "shrink" \in passed'[c] \/ ~Shrinks(read[c][sent[c].cat], sent[c].size)'
    BY <2>1 DEF ReadOK, Shrinks
  <2> QED BY <2>2, <2>3, <2>4, <2>5 DEF ReadOK
<1>3. ASSUME ~CategoryReads(c), ~CategoryChecks(c) PROVE FALSE
  <2> USE DEF TypeInv, TypeOK, Goes, Ends, Over
  <2>1. ASSUME NEW j \in Jobs, OpensPrep(c, j) PROVE FALSE
    BY <2>1 DEF OpensPrep
  <2>2. ASSUME Touches(c) \/ CategoryWrites(c) \/ SuiteReads(c) \/ Retains(c) \/ Finalizes(c)
               \/ Saves(c) \/ Stamps(c) \/ Replies(c) \/ Task(c) \/ Crashes(c)
        PROVE  FALSE
    BY <2>2 DEF Touches, CategoryWrites, SuiteReads, Retains, Finalizes, Saves, Stamps, Replies,
        Task, ClosesTask, Claims, Crashes
  <2>3. ASSUME Gate(c) PROVE FALSE
    BY <2>3 DEF Gate, Overridden, Refuses, Refusing, Objects
  <2> QED BY <1>3, <2>1, <2>2, <2>3, CallSteps
<1> QED BY <1>1, <1>2, <1>3

LEMMA ReadStays ==
  ASSUME ShrinkInv, [Next]_vars, NEW c \in Calls, Stays(c)
  PROVE  ReadOK(c)'
<1>1. ASSUME at[c] \in {"checking", "writing"} PROVE \A d \in Calls : at[d] = "writing" => Overlap(c, d)
  BY <1>1, RunsBeside DEF ShrinkInv, Over
<1> QED BY <1>1, RowsKept DEF ShrinkInv, ReadOK, Stays, Shrinks

LEMMA ShrinkStep == ShrinkInv /\ [Next]_vars => ShrinkInv'
<1> SUFFICES ASSUME ShrinkInv, [Next]_vars PROVE ShrinkInv'
  OBVIOUS
<1>1. CallInv'
  BY CallStep DEF ShrinkInv
<1>2. CASE Quiet
  BY <1>1, <1>2, NoneMoves, ReadStays DEF ShrinkInv, Quiet
<1>3. ASSUME NEW c \in Calls, Call(c) PROVE ShrinkInv'
  <2>1. Moves(c)
    BY <1>3, OneMoves DEF ShrinkInv, CallInv
  <2> QED BY <1>1, <1>3, <2>1, ReadMoves, ReadStays DEF ShrinkInv, Moves
<1> QED BY <1>2, <1>3 DEF Next, Quiet

LEMMA ShrinkInit == Init => ShrinkInv
BY CallInit DEF Init, ShrinkInv, ReadOK

(* A staged category loses cases only on the host's word, to a call beside the *)
(* one it overwrites, or to one that could not read the staged count.          *)
THEOREM ShrinkKnown == Spec => ShrinkIsKnown
<1> DEFINE Fine ==
      \A k \in Categories :
        (rows[k] # None /\ rows'[k] # None /\ rows'[k].size < rows[k].size) =>
          LET c == rows'[k].by IN
            \/ "shrink" \in passed[c]
            \/ c \in failed
            \/ Overlap(c, rows[k].by)
<1>1. ShrinkInv /\ [Next]_vars => Fine
  <2> SUFFICES ASSUME ShrinkInv, [Next]_vars, NEW k \in Categories,
                      rows[k] # None, rows'[k] # None, rows'[k].size < rows[k].size
               PROVE  \/ "shrink" \in passed[rows'[k].by]
                      \/ rows'[k].by \in failed
                      \/ Overlap(rows'[k].by, rows[k].by)
    OBVIOUS
  <2>1. TypeInv /\ rows[k].size \in Nat
    BY RowType DEF ShrinkInv, CallInv
  <2>2. rows' # rows /\ rows' # NoRows
    BY <2>1 DEF NoRows
  <2>3. PICK c \in Calls : CategoryWrites(c)
    BY <2>1, <2>2, QuietPrep, PrepMoves DEF Next, Quiet
  <2>4. k = sent[c].cat /\ rows'[k].by = c /\ rows'[k].size = sent[c].size
        /\ sent[c].size \in Nat /\ at[c] = "writing"
    <3>1. /\ at[c] = "writing" /\ sent[c] \in Sent
          /\ rows'[sent[c].cat] = [by |-> c, size |-> sent[c].size]
          /\ \A h \in Categories : h # sent[c].cat => rows'[h] = rows[h]
      BY <2>1, <2>2, <2>3, WritesFacts
    <3>2. sent[c].size \in Nat
      BY <3>1, ConstantTypes DEF Sent
    <3>3. k = sent[c].cat
      BY <2>1, <3>1
    <3> QED BY <3>1, <3>2, <3>3
  <2>5. "shrink" \in passed[c] \/ c \in failed
        \/ (~Shrinks(read[c][k], sent[c].size) /\ RowOK(c, k))
    BY <2>4 DEF ShrinkInv, ReadOK, RowsOK
  <2> QED BY <2>1, <2>4, <2>5 DEF Shrinks, RowOK
<1> QED BY <1>1, ShrinkInit, ShrinkStep, PTL DEF Spec, ShrinkIsKnown

--------------------------------------------------------------------------------
(* What a finalized prep's staged rows still say.                              *)
PastReading == {"front", "back", "saved"}
AllStaged == \A k \in Categories : rows[k] # None

ReadSuite(c) == RowsOK(c) /\ (prep # None => AllStaged)

\* Nobody at work began after the submit that stamped the prep was over.
Sealed(a) ==
  /\ at[a] = "ended"
  /\ \A d \in Calls : at[d] \in AtWork => a \notin after[d]
  /\ job[a] # "full" => ReadSuite(a)

Stamped == prep # None /\ prep.stamp # None

LateInv ==
  /\ CallInv
  /\ \A c \in Calls : at[c] \in PastReading /\ job[c] # "full" => ReadSuite(c)
  /\ Stamped => Sealed(prep.stamp)

LEMMA StagedKept ==
  ASSUME CallInv, [Next]_vars, prep # None => AllStaged
  PROVE  prep' # None => AllStaged'
<1> SUFFICES ASSUME prep' # None PROVE AllStaged'
  OBVIOUS
<1> TypeInv
  BY DEF CallInv
<1>1. ASSUME Quiet PROVE AllStaged'
  BY <1>1, QuietPrep DEF AllStaged, Quiet
<1>2. ASSUME NEW c \in Calls, Call(c) PROVE AllStaged'
  <2>1. prep # None
    BY <1>2, OneMoves DEF Moves
  <2>2. CASE rows' = rows
    BY <2>1, <2>2 DEF AllStaged
  <2>3. CASE CategoryWrites(c)
    <3>1. rows' = rows \/ (/\ rows'[sent[c].cat] = [by |-> c, size |-> sent[c].size]
                           /\ \A k \in Categories : k # sent[c].cat => rows'[k] = rows[k])
      BY <2>3, WritesFacts
    <3>2. [by |-> c, size |-> sent[c].size] # None
      BY <2>3, WritesFacts, ConstantTypes DEF Sent, Rows
    <3> QED BY <2>1, <3>1, <3>2 DEF AllStaged
  <2> QED BY <1>2, <2>2, <2>3, PrepMoves
<1> QED BY <1>1, <1>2 DEF Next, Quiet

LEMMA ReadSuiteKept ==
  ASSUME CallInv, [Next]_vars, NEW c \in Calls, Stays(c), ReadSuite(c),
         \A d \in Calls : at[d] = "writing" => Overlap(c, d)
  PROVE  ReadSuite(c)'
BY StagedKept, RowsKept DEF ReadSuite

LEMMA ReadSuiteMoves ==
  ASSUME LateInv, [Next]_vars, NEW c \in Calls, Call(c),
         at'[c] \in PastReading, job'[c] # "full"
  PROVE  ReadSuite(c)'
<1> TypeInv /\ CallInv
  BY DEF LateInv, CallInv
<1>1. CASE SuiteReads(c)
  <2>1. rows' = rows /\ prep' = prep /\ read'[c] = rows /\ None \notin {rows[k] : k \in Categories}
    BY <1>1 DEF SuiteReads, Goes, Ends, TypeInv, TypeOK, prepVars, PastReading
  <2> QED BY <2>1 DEF ReadSuite, AllStaged, RowsOK, RowOK
<1>2. ASSUME at[c] \in PastReading, job[c] # "full", UNCHANGED <<prep, rows, read>>
      PROVE  ReadSuite(c)'
  <2>1. ReadSuite(c)
    BY <1>2 DEF LateInv
  <2>2. RowsOK(c)'
    BY <1>2, <2>1, RowKept DEF ReadSuite, RowsOK
  <2> QED BY <1>2, <2>1, <2>2 DEF ReadSuite, AllStaged
<1>3. ASSUME ~SuiteReads(c) PROVE at[c] \in PastReading /\ job[c] # "full" /\ UNCHANGED <<prep, rows, read>>
  <2> USE DEF TypeInv, TypeOK, Goes, Ends, PastReading, prepVars
  <2>1. ASSUME NEW j \in Jobs, OpensPrep(c, j) PROVE FALSE
    BY <2>1 DEF OpensPrep
  <2>2. ASSUME Touches(c) \/ CategoryReads(c) \/ CategoryChecks(c) \/ CategoryWrites(c) \/ Retains(c)
               \/ Stamps(c) \/ Replies(c) \/ Task(c) \/ Crashes(c)
        PROVE  FALSE
    BY <2>2 DEF Touches, CategoryReads, CategoryChecks, CategoryWrites, Retains, Stamps, Replies,
        Task, ClosesTask, Claims, Crashes
  <2>3. ASSUME Gate(c) PROVE at[c] \in PastReading /\ job[c] # "full" /\ UNCHANGED <<prep, rows, read>>
    BY <2>3, UpdateKeeps DEF Gate, Overridden, Refuses, Refusing, Objects
  <2>4. ASSUME Finalizes(c) \/ Saves(c)
        PROVE  at[c] \in PastReading /\ job[c] # "full" /\ UNCHANGED <<prep, rows, read>>
    BY <2>4 DEF Finalizes, Saves
  <2> QED BY <1>3, <2>1, <2>2, <2>3, <2>4, CallSteps
<1> QED BY <1>1, <1>2, <1>3

\* The stamp changes only when it is written, and only where there was none.
LEMMA StampMoves ==
  ASSUME CallInv, [Next]_vars, Stamped'
  PROVE  \/ Stamped /\ prep' = prep
         \/ \E c \in Calls :
              /\ Call(c) /\ at[c] = "saved" /\ at'[c] = "ended" /\ prep'.stamp = c
              /\ prep # None /\ reply'[c] = "finalized"
              /\ UNCHANGED <<suite, rows, job, held, read, after, saved, failed>>
<1> TypeInv
  BY DEF CallInv
<1>1. CASE Quiet
  BY <1>1, QuietPrep DEF Stamped
<1>2. ASSUME NEW c \in Calls, Call(c)
      PROVE  \/ Stamped /\ prep' = prep
             \/ /\ Call(c) /\ at[c] = "saved" /\ at'[c] = "ended" /\ prep'.stamp = c
                /\ prep # None /\ reply'[c] = "finalized"
                /\ UNCHANGED <<suite, rows, job, held, read, after, saved, failed>>
  <2>1. held[c] \in Envelopes => held[c].stamp = None
    BY ConstantTypes DEF CallInv, CallOK
  <2>2. CASE prep' = prep \/ prep' = None
    BY <2>2 DEF Stamped
  <2>3. CASE held[c] \in Envelopes /\ prep' = [held[c] EXCEPT !.sidecar = TRUE]
    BY <2>1, <2>3 DEF Stamped, Envelopes
  <2>4. ASSUME held[c] \in Envelopes, NEW g \in Gates, prep' = Marked(c, g) PROVE FALSE
    BY <2>1, <2>4 DEF Stamped, Envelopes, Marked
  <2>5. ASSUME held[c] \in Envelopes, prep' = [held[c] EXCEPT !.stamp = c] PROVE prep'.stamp = c
    BY <2>5 DEF Envelopes
  <2> QED BY <1>2, <2>2, <2>3, <2>4, <2>5, PrepMoves
<1> QED BY <1>1, <1>2 DEF Next, Quiet

LEMMA LateStep == LateInv /\ [Next]_vars => LateInv'
<1> SUFFICES ASSUME LateInv, [Next]_vars PROVE LateInv'
  OBVIOUS
<1> CallInv /\ TypeInv
  BY DEF LateInv, CallInv
<1>1. CallInv'
  BY CallStep
<1>2. ASSUME NEW c \in Calls, Stays(c), at'[c] \in PastReading, job'[c] # "full"
      PROVE  ReadSuite(c)'
  <2>1. at[c] \in PastReading /\ job[c] # "full"
    BY <1>2 DEF Stays
  <2>2. \A d \in Calls : at[d] = "writing" => Overlap(c, d)
    BY <2>1, RunsBeside DEF PastReading, Over
  <2> QED BY <1>2, <2>1, <2>2, ReadSuiteKept DEF LateInv
<1>3. \A c \in Calls : at'[c] \in PastReading /\ job'[c] # "full" => ReadSuite(c)'
  <2>1. CASE Quiet
    BY <1>2, <2>1, NoneMoves DEF Quiet
  <2>2. ASSUME NEW c \in Calls, Call(c)
        PROVE  \A d \in Calls : at'[d] \in PastReading /\ job'[d] # "full" => ReadSuite(d)'
    BY <1>2, <2>2, OneMoves, ReadSuiteMoves DEF Moves
  <2> QED BY <2>1, <2>2 DEF Next, Quiet
<1>4. Stamped' => Sealed(prep.stamp)'
  <2> SUFFICES ASSUME Stamped' PROVE Sealed(prep.stamp)'
    OBVIOUS
  <2>1. ASSUME Stamped, prep' = prep PROVE Sealed(prep.stamp)'
    <3>1. PICK a \in Calls : a = prep.stamp /\ Sealed(prep.stamp)
      BY <2>1 DEF LateInv, Stamped, TypeInv, TypeOK, Envelopes
    <3>2. a = prep'.stamp /\ Sealed(a)
      BY <2>1, <3>1 DEF Sealed
    <3>3. \A d \in Calls : at[d] \in Over => Stays(d)
      BY OneMoves, NoneMoves DEF Next, Quiet, Moves
    <3>4. Stays(a)
      BY <3>2, <3>3 DEF Sealed, Over
    <3>5. \A d \in Calls : at[d] = "writing" => Overlap(a, d)
      BY <3>2, RunsBeside DEF Sealed, Overlap, Over, AtWork
    <3>6. ASSUME NEW d \in Calls, at'[d] \in AtWork PROVE a \notin after'[d]
      <4>1. CASE at[d] \in AtWork
        <5>1. after'[d] = after[d]
          BY <4>1, OneMoves, NoneMoves DEF Next, Quiet, Moves, Stays, AtWork
        <5> QED BY <3>2, <4>1, <5>1 DEF Sealed
      <4>2. CASE at[d] \notin AtWork
        <5>1. Call(d)
          BY <3>6, <4>2, OneMoves, NoneMoves DEF Next, Quiet, Moves, Stays
        <5>2. PICK j \in Jobs : OpensPrep(d, j)
          BY <3>6, <4>2, <5>1, CallSteps DEF Touches, CategoryReads, CategoryChecks, CategoryWrites,
             SuiteReads, Retains, Gate, Overridden, Refuses, Objects, Replies, Finalizes, Saves,
             Stamps, Task, ClosesTask, Claims, Crashes, Goes, Ends, AtWork, TypeInv, TypeOK
        <5> QED BY <2>1, <3>6, <5>2, OpenedFacts DEF Stamped, AtWork
      <4> QED BY <4>1, <4>2
    <3>7. job'[a] # "full" => ReadSuite(a)'
      BY <3>2, <3>4, <3>5, ReadSuiteKept DEF Sealed, Stays
    <3>8. Sealed(a)'
      BY <3>2, <3>4, <3>6, <3>7 DEF Sealed, Stays
    <3> QED BY <3>2, <3>8 DEF Sealed
  <2>2. ASSUME NEW c \in Calls, Call(c), at[c] = "saved", at'[c] = "ended", prep'.stamp = c,
               prep # None, UNCHANGED <<rows, job, read, after>>
        PROVE  Sealed(prep.stamp)'
    <3>1. \A d \in Calls : c \notin after'[d]
      BY <2>2, RunsBeside DEF Over
    <3>2. ASSUME job[c] # "full" PROVE ReadSuite(c)'
      <4>1. ReadSuite(c)
        BY <2>2, <3>2 DEF LateInv, PastReading
      <4>2. RowsOK(c)'
        BY <2>2, <4>1, RowKept DEF ReadSuite, RowsOK
      <4> QED BY <2>2, <4>1, <4>2 DEF ReadSuite, AllStaged
    <3>3. Sealed(c)'
      BY <2>2, <3>1, <3>2 DEF Sealed
    <3> QED BY <2>2, <3>3 DEF Sealed
  <2> QED BY <2>1, <2>2, StampMoves
<1> QED BY <1>1, <1>3, <1>4 DEF LateInv

LEMMA LateInit == Init => LateInv
BY CallInit DEF Init, LateInv, PastReading, Stamped

(* A row of a finalized prep that its suite does not hold was recorded beside  *)
(* the finalize.                                                               *)
THEOREM LateOverlap == Spec => []LateRowsOverlap
<1>1. LateInv => LateRowsOverlap
  <2> SUFFICES ASSUME LateInv, Stamped, job[prep.stamp] # "full", NEW k \in Categories,
                      rows[k] # read[prep.stamp][k]
               PROVE  rows[k] # None /\ Overlap(rows[k].by, prep.stamp)
    BY DEF LateRowsOverlap, Stamped
  <2> QED BY DEF LateInv, Stamped, Sealed, ReadSuite, AllStaged, RowsOK, RowOK, Overlap
<1> QED BY <1>1, LateInit, LateStep, PTL DEF Spec

--------------------------------------------------------------------------------
(* What a suite saw of the rows recorded before it.                            *)
Recorded(c) ==
  reply[c] = "recorded" \/ (at[c] = "touching" /\ sent[c] # None /\ reply[c] = "none")

Sees(c, row) == row # None /\ row.by \notin after[c]

RecordOK(c) ==
  Recorded(c) => sent[c] # None /\ (prep # None => Sees(c, rows[sent[c].cat]))

SawOK(a) ==
  (at[a] \in PastReading \/ a \in saved) /\ job[a] # "full" =>
    \A c \in after[a] : reply[c] = "recorded" => Sees(c, read[a][sent[c].cat])

SeesInv == CallInv /\ \A c \in Calls : RecordOK(c) /\ SawOK(c)

\* Every step is one call's, or leaves every call alone.
LEMMA StepCases ==
  ASSUME TypeInv, [Next]_vars
  PROVE  \/ Quiet /\ \A d \in Calls : Stays(d)
         \/ \E c \in Calls : Call(c) /\ Moves(c)
BY OneMoves, NoneMoves DEF Next, Quiet

LEMMA OverStays ==
  ASSUME TypeInv, [Next]_vars, NEW c \in Calls, at[c] \in Over
  PROVE  Stays(c)
BY StepCases DEF Moves

LEMMA RecordMoves ==
  ASSUME SeesInv, NEW c \in Calls, Call(c), Recorded(c)'
  PROVE  \/ Recorded(c) /\ UNCHANGED <<rows, sent, after>>
         \/ CategoryWrites(c) /\ at'[c] = "touching"
<1> TypeInv /\ CallOK(c)
  BY DEF SeesInv, CallInv
<1> USE DEF TypeInv, TypeOK, Goes, Ends, Recorded, CallOK, prepVars, callVars
<1>1. ASSUME NEW j \in Jobs, OpensPrep(c, j) PROVE FALSE
  <2>1. sent'[c] = None /\ reply'[c] \in {"none", "no"}
    BY <1>1, OpenedFacts DEF OpensPrep
  <2> QED BY <2>1
<1>2. CASE Touches(c)
  BY <1>2 DEF Touches
<1>3. ASSUME CategoryReads(c) \/ CategoryChecks(c) PROVE FALSE
  BY <1>3 DEF CategoryReads, CategoryChecks
<1>4. CASE CategoryWrites(c)
  BY <1>4 DEF CategoryWrites
<1>5. ASSUME SuiteReads(c) \/ Retains(c) \/ Finalizes(c) \/ Saves(c) \/ Stamps(c) PROVE FALSE
  BY <1>5 DEF SuiteReads, Retains, Finalizes, Saves, Stamps, Submitting
<1>6. ASSUME Gate(c) PROVE FALSE
  BY <1>6, GateNames DEF Gate, Overridden, Refuses, Refusing, Objects, Submitting
<1>7. ASSUME Task(c) \/ Replies(c) \/ Crashes(c) PROVE FALSE
  BY <1>7, GateNames DEF Task, ClosesTask, Begins, Claims, Replies, Crashes, Over
<1> QED BY <1>1, <1>2, <1>3, <1>4, <1>5, <1>6, <1>7, CallSteps

LEMMA RecordStep ==
  ASSUME SeesInv, [Next]_vars, NEW c \in Calls
  PROVE  RecordOK(c)'
<1> TypeInv /\ CallInv /\ RecordOK(c)
  BY DEF SeesInv, CallInv
<1> SUFFICES ASSUME Recorded(c)' PROVE sent'[c] # None /\ (prep' # None => Sees(c, rows[sent[c].cat])')
  BY DEF RecordOK
<1>1. CASE CategoryWrites(c) /\ Call(c) /\ at'[c] = "touching"
  <2>1. sent[c] \in Sent /\ rows'[sent[c].cat] = [by |-> c, size |-> sent[c].size] /\ at[c] = "writing"
    BY <1>1, WritesFacts
  <2>2. sent'[c] = sent[c] /\ after'[c] = after[c]
    BY <1>1 DEF CategoryWrites
  <2>3. c \notin after[c]
    BY <2>1, RunsBeside DEF Over
  <2>4. rows'[sent[c].cat] # None /\ sent[c] # None
    BY <2>1, ConstantTypes DEF Rows, Sent
  <2> QED BY <2>1, <2>2, <2>3, <2>4 DEF Sees
<1>2. ASSUME Recorded(c), sent'[c] = sent[c], after'[c] = after[c]
      PROVE  sent'[c] # None /\ (prep' # None => Sees(c, rows[sent[c].cat])')
  <2>1. sent[c] # None
    BY <1>2 DEF RecordOK
  <2>2. sent[c].cat \in Categories
    BY <2>1 DEF TypeInv, TypeOK, Sent
  <2> DEFINE k == sent[c].cat
  <2>3. ASSUME prep # None, rows' = rows PROVE Sees(c, rows[sent[c].cat])'
    BY <1>2, <2>3 DEF RecordOK, Sees
  <2>4. ASSUME prep # None, NEW d \in Calls, CategoryWrites(d) PROVE Sees(c, rows[sent[c].cat])'
    <3>1. CASE rows' = rows
      BY <2>3, <2>4, <3>1
    <3>2. CASE /\ rows'[sent[d].cat] = [by |-> d, size |-> sent[d].size]
               /\ \A h \in Categories : h # sent[d].cat => rows'[h] = rows[h]
      <4>1. d \notin after[c]
        BY <2>4, RunsBeside DEF CategoryWrites, Over
      <4>2. rows'[sent[d].cat] # None /\ rows'[sent[d].cat].by = d
        BY <2>4, <3>2, WritesFacts, ConstantTypes DEF Rows, Sent
      <4>3. Sees(c, rows[sent[c].cat])
        BY <1>2, <2>4 DEF RecordOK
      <4> QED BY <1>2, <2>2, <3>2, <4>1, <4>2, <4>3 DEF Sees
    <3> QED BY <2>4, <3>1, <3>2, WritesFacts
  <2>5. prep' # None => prep # None
    BY StepCases, QuietPrep DEF Moves
  <2> QED BY <1>2, <2>1, <2>3, <2>4, <2>5, StepCases, QuietPrep, PrepMoves
<1>3. CASE Stays(c)
  BY <1>2, <1>3 DEF Stays, Recorded
<1>4. CASE Call(c)
  BY <1>1, <1>2, <1>4, RecordMoves
<1> QED BY <1>3, <1>4, StepCases DEF Moves

LEMMA SawMoves ==
  ASSUME CallInv, NEW a \in Calls, Call(a), at'[a] \in PastReading \/ a \in saved'
  PROVE  \/ SuiteReads(a) /\ at'[a] = "front" /\ a \notin saved
         \/ (at[a] \in PastReading \/ a \in saved) /\ UNCHANGED read
<1> TypeInv /\ CallOK(a)
  BY DEF CallInv
<1> USE DEF TypeInv, TypeOK, Goes, Ends, PastReading, prepVars, callVars, CallOK, Over
<1>1. ASSUME NEW j \in Jobs, OpensPrep(a, j) PROVE FALSE
  BY <1>1 DEF OpensPrep, Begins
<1>2. ASSUME Touches(a) \/ CategoryReads(a) \/ CategoryChecks(a) \/ CategoryWrites(a) \/ Retains(a)
             \/ Replies(a) \/ Task(a)
      PROVE  FALSE
  BY <1>2 DEF Touches, CategoryReads, CategoryChecks, CategoryWrites, Retains, Replies, Task,
      ClosesTask, Begins, Claims
<1>3. CASE SuiteReads(a)
  BY <1>3 DEF SuiteReads
<1>4. CASE Gate(a)
  BY <1>4 DEF Gate, Overridden, Refuses, Refusing, Objects
<1>5. CASE Finalizes(a) \/ Saves(a) \/ Stamps(a) \/ Crashes(a)
  BY <1>5 DEF Finalizes, Saves, Stamps, Crashes
<1> QED BY <1>1, <1>2, <1>3, <1>4, <1>5, CallSteps

LEMMA SawStep ==
  ASSUME SeesInv, [Next]_vars, NEW a \in Calls
  PROVE  SawOK(a)'
<1> TypeInv /\ CallInv /\ SawOK(a)
  BY DEF SeesInv, CallInv
<1>1. ASSUME (at[a] \in PastReading \/ a \in saved) /\ job[a] # "full",
             read'[a] = read[a], after'[a] = after[a], NEW c \in after'[a], reply'[c] = "recorded"
      PROVE  Sees(c, read[a][sent[c].cat])'
  <2>1. c \in Calls /\ at[c] \in Over
    BY <1>1 DEF CallInv, CallOK, TypeInv, TypeOK
  <2>2. Stays(c)
    BY <2>1, OverStays
  <2> QED BY <1>1, <2>2 DEF SawOK, Sees, Stays
<1>2. CASE Stays(a)
  BY <1>1, <1>2 DEF SawOK, Stays
<1>3. ASSUME Call(a), (at'[a] \in PastReading \/ a \in saved') /\ job'[a] # "full",
             NEW c \in after'[a], reply'[c] = "recorded"
      PROVE  Sees(c, read[a][sent[c].cat])'
  <2>1. CASE SuiteReads(a) /\ at'[a] = "front"
    <3>1. /\ read'[a] = rows /\ after' = after /\ \A k \in Categories : rows[k] # None
      BY <1>3, <2>1 DEF SuiteReads, Goes, Ends, TypeInv, TypeOK
    <3>2. c \in Calls /\ at[c] \in Over
      BY <1>3, <3>1 DEF CallInv, CallOK, TypeInv, TypeOK
    <3>3. Stays(c)
      BY <3>2, OverStays
    <3>4. reply[c] = "recorded" /\ sent'[c] = sent[c]
      BY <1>3, <3>3 DEF Stays
    <3>5. sent[c] # None /\ (prep # None => Sees(c, rows[sent[c].cat]))
      BY <3>2, <3>4 DEF SeesInv, RecordOK, Recorded
    <3>6. sent[c].cat \in Categories
      BY <3>2, <3>5 DEF TypeInv, TypeOK, Sent
    <3>7. prep # None
      BY <3>1, <3>6 DEF CallInv, NoRows
    <3> QED BY <3>1, <3>4, <3>5, <3>7 DEF Sees
  <2>2. CASE (at[a] \in PastReading \/ a \in saved) /\ UNCHANGED read
    <3>1. at[a] # "new"
      BY <2>2 DEF CallInv, CallOK, PastReading, Over
    <3> QED BY <1>1, <1>3, <2>2, <3>1, OneMoves DEF Moves
  <2> QED BY <1>3, <2>1, <2>2, SawMoves
<1>4. CASE Call(a)
  BY <1>3, <1>4 DEF SawOK
<1> QED BY <1>2, <1>4, StepCases DEF Moves

(* A suite built from staged rows has each row recorded before it, or a later. *)
THEOREM FinalizeSees == Spec => []FinalizeSeesRows
<1>1. Init => SeesInv
  BY CallInit DEF Init, SeesInv, RecordOK, SawOK, Recorded, PastReading
<1>2. SeesInv /\ [Next]_vars => SeesInv'
  BY CallStep, RecordStep, SawStep DEF SeesInv
<1>3. SeesInv => FinalizeSeesRows
  BY DEF SeesInv, CallInv, TypeInv, TypeOK, FinalizeSeesRows, SawOK, Sees
<1> QED BY <1>1, <1>2, <1>3, PTL DEF Spec

--------------------------------------------------------------------------------
(* The two beats: a mark is some call's refusal, a held mark that of a call over  *)
(* when this one began, or beside it.                                             *)
Told(c, g) == \E d \in Calls \ {c} : reply[d] = g /\ (d \in after[c] \/ Overlap(c, d))

MarksOK == prep # None => \A g \in prep.marks : \E d \in Calls : reply[d] = g
HeldMarksOK(c) == held[c] # None => \A g \in held[c].marks : Told(c, g)
PassedOK(c) ==
  job[c] \in Submits =>
    \A g \in passed[c] : Told(c, g) \/ (g \in FailsOpen /\ (c \in failed \/ prep = None))

MarkInv == CallInv /\ MarksOK /\ \A c \in Calls : HeldMarksOK(c) /\ PassedOK(c)

LEMMA GateReply ==
  ASSUME CallInv, [Next]_vars, NEW d \in Calls, reply[d] \in Gates
  PROVE  at[d] \in {"refusing"} \cup Over /\ reply'[d] = reply[d]
<1> TypeInv /\ CallOK(d)
  BY DEF CallInv
<1>1. at[d] \in {"refusing"} \cup Over
  BY DEF CallOK
<1>2. ASSUME Call(d), at[d] = "refusing" PROVE reply'[d] = reply[d]
  <2>1. Replies(d) \/ Crashes(d)
    BY <1>2, CallSteps, OpenedFacts DEF Touches, CategoryReads, CategoryChecks, CategoryWrites,
       SuiteReads, Retains, Gate, Overridden, Refuses, Objects, Finalizes, Saves, Stamps, Task,
       ClosesTask, Begins, Claims
  <2> QED BY <2>1 DEF Replies, Crashes
<1> QED BY <1>1, <1>2, OverStays, StepCases DEF Stays, Moves

LEMMA ToldStays ==
  ASSUME CallInv, [Next]_vars, NEW c \in Calls, after'[c] = after[c], NEW g \in Gates, Told(c, g)
  PROVE  Told(c, g)'
<1>1. PICK d \in Calls \ {c} : reply[d] = g /\ (d \in after[c] \/ Overlap(c, d))
  BY DEF Told
<1>2. reply'[d] = g
  BY <1>1, GateReply
<1>3. d \in after'[c] \/ Overlap(c, d)'
  BY <1>1, OverlapStays
<1> QED BY <1>1, <1>2, <1>3 DEF Told

LEMMA MarksStep ==
  ASSUME MarkInv, [Next]_vars
  PROVE  MarksOK'
<1> TypeInv /\ CallInv
  BY DEF MarkInv, CallInv
<1> SUFFICES ASSUME prep' # None, NEW g \in prep'.marks PROVE \E d \in Calls : reply'[d] = g
  BY DEF MarksOK
<1>0. g \in Gates
  BY TypeStep DEF TypeInv, TypeOK, Envelopes
<1>1. ASSUME NEW d \in Calls, reply[d] = g PROVE \E e \in Calls : reply'[e] = g
  BY <1>0, <1>1, GateReply
<1>2. CASE prep' = prep
  BY <1>1, <1>2 DEF MarkInv, MarksOK
<1>3. ASSUME NEW c \in Calls, held[c] \in Envelopes, g \in held[c].marks
      PROVE  \E e \in Calls : reply'[e] = g
  <2>1. Told(c, g)
    BY <1>3, ConstantTypes DEF MarkInv, HeldMarksOK
  <2> QED BY <1>1, <2>1 DEF Told, TypeInv, TypeOK
<1>4. ASSUME NEW c \in Calls, Call(c) PROVE \E e \in Calls : reply'[e] = g
  <2>1. CASE held[c] \in Envelopes /\ prep' = [held[c] EXCEPT !.sidecar = TRUE]
    BY <1>3, <2>1 DEF Envelopes
  <2>2. CASE held[c] \in Envelopes /\ prep' = [held[c] EXCEPT !.stamp = c]
    BY <1>3, <2>2 DEF Envelopes
  <2>3. ASSUME held[c] \in Envelopes, NEW h \in Gates, prep' = Marked(c, h), reply'[c] = h
        PROVE  \E e \in Calls : reply'[e] = g
    <3>1. g \in held[c].marks \/ g = h
      BY <2>3 DEF Marked, Envelopes
    <3> QED BY <1>3, <2>3, <3>1
  <2> QED BY <1>2, <1>4, <2>1, <2>2, <2>3, PrepMoves
<1> QED BY <1>2, <1>4, StepCases, QuietPrep

\* A call's envelope, job and start are set when it opens the prep.
LEMMA HeldMoves ==
  ASSUME CallInv, NEW c \in Calls, Call(c), held'[c] # None
  PROVE  \/ held'[c] = held[c] /\ after'[c] = after[c] /\ job'[c] = job[c] /\ at[c] # "new"
         \/ /\ after'[c] = {d \in Calls : at[d] \in Over} /\ held'[c] = prep
            /\ prep # None /\ prep.stamp = None /\ \E j \in Jobs : OpensPrep(c, j)
<1> TypeInv /\ CallOK(c) /\ Moves(c)
  BY OneMoves DEF CallInv
<1>1. CASE at[c] # "new"
  BY <1>1 DEF Moves
<1>2. ASSUME NEW j \in Jobs, OpensPrep(c, j), at[c] = "new"
      PROVE  /\ after'[c] = {d \in Calls : at[d] \in Over} /\ held'[c] = prep
             /\ prep # None /\ prep.stamp = None /\ OpensPrep(c, j)
  BY <1>2, OpenedFacts DEF CallOK
<1>3. CASE at[c] = "new" /\ \A j \in Jobs : ~OpensPrep(c, j)
  <2>1. ClosesTask(c)
    BY <1>3, CallSteps DEF Touches, CategoryReads, CategoryChecks, CategoryWrites, SuiteReads, Retains,
       Gate, Overridden, Refuses, Objects, Replies, Finalizes, Saves, Stamps, Task, Claims, Crashes
  <2> QED BY <1>3, <2>1 DEF ClosesTask, CallOK
<1> QED BY <1>1, <1>2, <1>3

LEMMA HeldMarksStep ==
  ASSUME MarkInv, [Next]_vars, NEW c \in Calls
  PROVE  HeldMarksOK(c)'
<1> TypeInv /\ CallInv /\ TypeInv'
  BY TypeStep DEF MarkInv, CallInv
<1> SUFFICES ASSUME held'[c] # None, NEW g \in held'[c].marks PROVE Told(c, g)'
  BY DEF HeldMarksOK
<1>0. g \in Gates
  BY DEF TypeInv, TypeOK, Envelopes
<1>1. ASSUME held'[c] = held[c], after'[c] = after[c] PROVE Told(c, g)'
  <2>1. Told(c, g)
    BY <1>1 DEF MarkInv, HeldMarksOK
  <2> QED BY <1>0, <1>1, <2>1, ToldStays
<1>2. ASSUME NEW j \in Jobs, OpensPrep(c, j), held'[c] = prep, prep # None PROVE Told(c, g)'
  <2>1. PICK d \in Calls : reply[d] = g
    BY <1>2 DEF MarkInv, MarksOK
  <2>2. at[d] \in {"refusing"} \cup Over /\ reply'[d] = g
    BY <1>0, <2>1, GateReply
  <2>3. at[c] = "new" /\ after'[c] = {e \in Calls : at[e] \in Over}
    BY <1>2, OpenedFacts
  <2>4. d # c
    BY <2>2, <2>3 DEF Over
  <2>6. Moves(c)
    BY <1>2, OneMoves DEF Call, FetchesJob, Category, SubmitsCategory, Suite, SubmitsSuite, Jobs
  <2>5. ASSUME at[d] = "refusing" PROVE Overlap(c, d)'
    <3>1. at'[c] # "new" /\ at'[d] = "refusing" /\ after'[d] = after[d]
      BY <1>2, <2>4, <2>5, <2>6 DEF Moves, Stays
    <3>2. c \notin after[d]
      BY <2>3, RunsBeside DEF Over
    <3> QED BY <2>3, <2>5, <3>1, <3>2 DEF Overlap, Over
  <2> QED BY <2>2, <2>3, <2>4, <2>5 DEF Told
<1>3. CASE Stays(c)
  BY <1>1, <1>3 DEF Stays
<1>4. CASE Call(c)
  BY <1>1, <1>2, <1>4, HeldMoves
<1> QED BY <1>3, <1>4, StepCases DEF Moves

LEMMA PassedMoves ==
  ASSUME CallInv, NEW c \in Calls, Call(c), job'[c] \in Submits, NEW g \in passed'[c]
  PROVE  \/ g \in passed[c] /\ job[c] \in Submits /\ after'[c] = after[c]
         \/ /\ after'[c] = after[c] /\ at[c] \in PastReading
            /\ \/ g \in held[c].marks
               \/ g \in FailsOpen /\ (c \in failed' \/ prep' = None)
<1> TypeInv /\ CallOK(c) /\ Moves(c)
  BY OneMoves DEF CallInv
<1> USE DEF TypeInv, TypeOK, Goes, Ends, CallOK, prepVars, callVars
<1>1. ASSUME NEW j \in Jobs, OpensPrep(c, j) PROVE FALSE
  <2>1. passed'[c] = {}
    BY <1>1 DEF OpensPrep, Begins
  <2> QED BY <2>1
<1>2. CASE Touches(c) \/ CategoryChecks(c) \/ CategoryWrites(c) \/ SuiteReads(c) \/ Retains(c)
           \/ Replies(c) \/ Finalizes(c) \/ Saves(c) \/ Stamps(c) \/ Crashes(c) \/ Claims(c)
  BY <1>2 DEF Touches, CategoryChecks, CategoryWrites, SuiteReads, Retains, Replies, Finalizes,
      Saves, Stamps, Crashes, Claims
<1>3. ASSUME CategoryReads(c) \/ ClosesTask(c) PROVE FALSE
  BY <1>3 DEF CategoryReads, ClosesTask, Begins, Submits
<1>4. ASSUME NEW h \in Gates, Overridden(c, h)
      PROVE  g \in passed[c] \/ (g \in held[c].marks /\ at[c] \in PastReading)
  BY <1>4 DEF Overridden, Objects, RefusedBefore, PastReading
<1>5. ASSUME NEW h \in Gates, Refuses(c, h)
      PROVE  \/ g \in passed[c]
             \/ at[c] \in PastReading /\ g \in FailsOpen /\ (c \in failed' \/ prep' = None)
  BY <1>5 DEF Refuses, Objects, UpdateFails, StoreFails, PastReading
<1>6. ASSUME NEW h \in Gates, Overridden(c, h) \/ Refuses(c, h)
      PROVE  job'[c] = job[c] /\ after'[c] = after[c]
  BY <1>6 DEF Overridden, Refuses
<1> QED BY <1>1, <1>2, <1>3, <1>4, <1>5, <1>6, CallSteps DEF Gate, Task

LEMMA PassedStep ==
  ASSUME MarkInv, [Next]_vars, NEW c \in Calls
  PROVE  PassedOK(c)'
<1> TypeInv /\ CallInv
  BY DEF MarkInv, CallInv
<1>0. prep = None => prep' = None
  BY StepCases, QuietPrep DEF Moves
<1>1. c \in failed => c \in failed'
  BY StepCases DEF Moves, Stays
<1> SUFFICES ASSUME job'[c] \in Submits, NEW g \in passed'[c]
             PROVE  Told(c, g)' \/ (g \in FailsOpen /\ (c \in failed' \/ prep' = None))
  BY DEF PassedOK
<1>6. g \in passed[c] /\ Told(c, g) => g \in Gates
  BY DEF Told, TypeInv, TypeOK
<1>2. ASSUME g \in passed[c], job[c] \in Submits, after'[c] = after[c]
      PROVE  Told(c, g)' \/ (g \in FailsOpen /\ (c \in failed' \/ prep' = None))
  BY <1>0, <1>1, <1>2, <1>6, ToldStays DEF MarkInv, PassedOK
<1>3. ASSUME g \in held[c].marks, after'[c] = after[c], at[c] \in PastReading PROVE Told(c, g)'
  <2>1. held[c] # None
    BY <1>3 DEF TypeInv, HoldsOK, AtWork, PastReading
  <2>2. g \in Gates
    BY <1>3, HeldType DEF PastReading, AtWork, Envelopes
  <2> QED BY <1>3, <2>1, <2>2, ToldStays DEF MarkInv, HeldMarksOK
<1>4. CASE Stays(c)
  BY <1>2, <1>4 DEF Stays
<1>5. CASE Call(c)
  BY <1>2, <1>3, <1>5, PassedMoves
<1> QED BY <1>4, <1>5, StepCases DEF Moves

(* A finding is overridden only where another submit was refused for it: told  *)
(* so before this one began, dead before it was told, or beside this one.      *)
THEOREM AckInformed == Spec => []AckIsInformed
<1>1. Init => MarkInv
  BY CallInit DEF Init, MarkInv, MarksOK, HeldMarksOK, PassedOK
<1>2. MarkInv /\ [Next]_vars => MarkInv'
  BY CallStep, MarksStep, HeldMarksStep, PassedStep DEF MarkInv
<1>3. MarkInv => AckIsInformed
  <2> SUFFICES ASSUME MarkInv, NEW c \in saved, NEW g \in passed[c]
               PROVE  \/ \E d \in after[c] : reply[d] = g /\ at[d] = "ended"
                      \/ \E d \in after[c] : reply[d] = g /\ at[d] = "crashed"
                      \/ \E d \in Calls \ {c} : reply[d] = g /\ Overlap(c, d)
                      \/ g \in FailsOpen /\ (c \in failed \/ prep = None)
    BY DEF AckIsInformed
  <2>1. c \in Calls /\ CallOK(c)
    BY DEF MarkInv, CallInv, TypeInv, TypeOK
  <2>2. Told(c, g) \/ (g \in FailsOpen /\ (c \in failed \/ prep = None))
    BY <2>1 DEF MarkInv, PassedOK, CallOK
  <2>3. ASSUME NEW d \in Calls \ {c}, d \in after[c] PROVE at[d] \in Over
    BY <2>1, <2>3 DEF CallOK
  <2> QED BY <2>2, <2>3 DEF Told, Over
<1> QED BY <1>1, <1>2, <1>3, PTL DEF Spec

--------------------------------------------------------------------------------
(* What a submit alone left on the prep, and in every envelope opened since.   *)
Alone(c) == job[c] \in Submits /\ at[c] \in {"refusing", "ended"} /\ c \notin failed /\ ~Crowded(c)

Left(c, env) ==
  /\ reply[c] \in Gates => reply[c] \in env.marks
  /\ reply[c] = "retained" => env.sidecar

LeftOK(c) == Alone(c) /\ prep # None => Left(c, prep) /\ (reply[c] = "finalized" => prep.stamp = c)

HeldOK(d) ==
  held[d] # None =>
    \A c \in after[d] : Alone(c) => Left(c, held[d]) /\ reply[c] # "finalized"

KeepInv == CallInv /\ \A c \in Calls : LeftOK(c) /\ HeldOK(c)

LEMMA CrowdedStays ==
  ASSUME CallInv, [Next]_vars, NEW a \in Calls, Crowded(a)
  PROVE  Crowded(a)'
<1>1. PICK d \in Calls \ {a} : job[d] \in Submits /\ Overlap(a, d)
  BY DEF Crowded
<1>2. job'[d] = job[d]
  BY <1>1, StepCases DEF CallInv, Overlap, Moves, Stays
<1> QED BY <1>1, <1>2, OverlapStays DEF Crowded

LEMMA AloneWas ==
  ASSUME CallInv, [Next]_vars, NEW c \in Calls, Stays(c), Alone(c)'
  PROVE  Alone(c)
BY CrowdedStays DEF Alone, Stays

LEMMA LeftStays ==
  ASSUME NEW c \in Calls, Stays(c), NEW env, Left(c, env)
  PROVE  Left(c, env)'
BY DEF Left, Stays

LEMMA EndsFacts ==
  ASSUME CallInv, NEW c \in Calls, Call(c), ~Replies(c), at'[c] \in {"refusing", "ended"},
         prep' # None, c \notin failed', reply'[c] \in Gates \cup {"retained", "finalized"}
  PROVE  /\ held[c] \in Envelopes
         /\ \/ prep' = [held[c] EXCEPT !.sidecar = TRUE] /\ reply'[c] = "retained"
            \/ prep' = [held[c] EXCEPT !.stamp = c] /\ reply'[c] = "finalized"
            \/ prep' = Marked(c, reply'[c]) /\ reply'[c] \in Gates
<1> TypeInv /\ CallOK(c) /\ (prep = None => prep' = None)
  BY OneMoves DEF CallInv, Moves
<1> USE GateNames DEF TypeInv, TypeOK, Goes, Ends, CallOK, Over, prepVars, callVars
<1>1. ASSUME NEW j \in Jobs, OpensPrep(c, j) PROVE FALSE
  <2>1. reply'[c] \in {"none", "no"}
    BY <1>1, OpenedFacts DEF OpensPrep
  <2> QED BY <2>1
<1>2. ASSUME Touches(c) \/ CategoryReads(c) \/ CategoryChecks(c) \/ CategoryWrites(c) \/ SuiteReads(c)
             \/ Finalizes(c) \/ Saves(c) \/ Task(c) \/ Crashes(c)
      PROVE  FALSE
  BY <1>2 DEF Touches, CategoryReads, CategoryChecks, CategoryWrites, SuiteReads, Finalizes,
      Saves, Task, ClosesTask, Begins, Claims, Crashes, Over
<1>3. ASSUME Retains(c) PROVE prep' = [held[c] EXCEPT !.sidecar = TRUE] /\ reply'[c] = "retained"
  BY <1>3 DEF Retains, Updates, UpdateFails, StoreFails
<1>4. ASSUME Stamps(c) PROVE prep' = [held[c] EXCEPT !.stamp = c] /\ reply'[c] = "finalized"
  BY <1>4 DEF Stamps, Updates, UpdateFails, StoreFails, Deletes
<1>5. ASSUME NEW g \in Gates, Overridden(c, g) PROVE FALSE
  BY <1>5 DEF Overridden, Objects
<1>6. ASSUME NEW g \in Gates, Refuses(c, g) PROVE prep' = Marked(c, reply'[c]) /\ reply'[c] \in Gates
  BY <1>6 DEF Refuses, Refusing, Objects, Updates, UpdateFails, StoreFails
<1>7. ASSUME at[c] \in Submitting PROVE held[c] \in Envelopes
  BY <1>7, HeldType DEF Submitting, AtWork
<1>8. ASSUME NEW g \in Gates, Refuses(c, g) PROVE at[c] \in Submitting
  BY <1>8 DEF Refuses, Objects, Submitting
<1>9. Retains(c) \/ Stamps(c) => at[c] \in Submitting
  BY DEF Retains, Stamps, Submitting
<1> QED BY <1>1, <1>2, <1>3, <1>4, <1>5, <1>6, <1>7, <1>8, <1>9, CallSteps DEF Gate

\* A call that writes the prep back began after every lone call that is over.
LEMMA WriterAfter ==
  ASSUME CallInv, NEW c \in Calls, Alone(c), NEW d \in Calls, d # c, at[d] \in Submitting
  PROVE  c \in after[d]
<1>1. job[d] \in Submits /\ at[d] \notin Over \cup {"new"}
  BY DEF CallInv, CallOK, Submitting, Over
<1>2. d \notin after[c]
  BY <1>1, RunsBeside
<1> QED BY <1>1, <1>2 DEF Alone, Crowded, Overlap

LEMMA MarkedFacts ==
  ASSUME NEW c \in Calls, held[c] \in Envelopes, NEW g \in Gates
  PROVE  Marked(c, g).marks = held[c].marks \cup {g} /\ Marked(c, g).sidecar = held[c].sidecar
BY DEF Marked, Envelopes

LEMMA LeftStep ==
  ASSUME KeepInv, [Next]_vars, NEW c \in Calls
  PROVE  LeftOK(c)'
<1> TypeInv /\ CallInv
  BY DEF KeepInv, CallInv
<1> SUFFICES ASSUME Alone(c)', prep' # None
             PROVE  Left(c, prep)' /\ (reply'[c] = "finalized" => prep'.stamp = c)
  BY DEF LeftOK
<1>1. ASSUME Stays(c), prep' = prep PROVE Left(c, prep)' /\ (reply'[c] = "finalized" => prep'.stamp = c)
  <2>1. Left(c, prep) /\ (reply[c] = "finalized" => prep.stamp = c)
    BY <1>1, AloneWas DEF KeepInv, LeftOK
  <2> QED BY <1>1, <2>1 DEF Left, Stays
<1>2. ASSUME Stays(c), NEW d \in Calls \ {c}, at[d] \in Submitting, held[d] \in Envelopes,
             \/ prep' = [held[d] EXCEPT !.sidecar = TRUE]
             \/ prep' = [held[d] EXCEPT !.stamp = d]
             \/ \E g \in Gates : prep' = Marked(d, g)
      PROVE  Left(c, prep)' /\ (reply'[c] = "finalized" => prep'.stamp = c)
  <2>1. c \in after[d] /\ Alone(c)
    BY <1>2, AloneWas, WriterAfter
  <2>2. Left(c, held[d]) /\ reply[c] # "finalized"
    BY <1>2, <2>1, ConstantTypes DEF KeepInv, HeldOK
  <2>3. held[d].marks \subseteq prep'.marks /\ (held[d].sidecar => prep'.sidecar)
    BY <1>2, MarkedFacts DEF Envelopes
  <2> QED BY <1>2, <2>2, <2>3 DEF Left, Stays
<1>3. ASSUME NEW d \in Calls \ {c}, Call(d), Stays(c)
      PROVE  Left(c, prep)' /\ (reply'[c] = "finalized" => prep'.stamp = c)
  BY <1>1, <1>2, <1>3, PrepMoves DEF Submitting
<1>4. ASSUME Call(c)
      PROVE  Left(c, prep)' /\ (reply'[c] = "finalized" => prep'.stamp = c)
  <2> SUFFICES ASSUME reply'[c] \in Gates \cup {"retained", "finalized"}
               PROVE  Left(c, prep)' /\ (reply'[c] = "finalized" => prep'.stamp = c)
    BY DEF Left
  <2>1. at'[c] \in {"refusing", "ended"} /\ c \notin failed'
    BY DEF Alone
  <2>6. CASE Replies(c)
    <3>1. /\ prep' = prep /\ reply' = reply /\ at[c] = "refusing"
          /\ job' = job /\ failed' = failed
      BY <2>6 DEF Replies, prepVars
    <3>2. Alone(c)
      BY <3>1, CrowdedStays DEF Alone
    <3>3. Left(c, prep) /\ (reply[c] = "finalized" => prep.stamp = c)
      BY <3>1, <3>2 DEF KeepInv, LeftOK
    <3> QED BY <3>1, <3>3 DEF Left
  <2> SUFFICES ASSUME ~Replies(c)
               PROVE  Left(c, prep)' /\ (reply'[c] = "finalized" => prep'.stamp = c)
    BY <2>6
  <2>2. held[c] \in Envelopes
    BY <1>4, <2>1, EndsFacts
  <2>3. CASE prep' = [held[c] EXCEPT !.sidecar = TRUE] /\ reply'[c] = "retained"
    BY <2>2, <2>3, GateNames DEF Left, Envelopes
  <2>4. CASE prep' = [held[c] EXCEPT !.stamp = c] /\ reply'[c] = "finalized"
    BY <2>2, <2>4, GateNames DEF Left, Envelopes
  <2>5. CASE prep' = Marked(c, reply'[c]) /\ reply'[c] \in Gates
    BY <2>2, <2>5, MarkedFacts, GateNames DEF Left
  <2> QED BY <1>4, <2>1, <2>3, <2>4, <2>5, EndsFacts
<1>5. CASE Quiet /\ Stays(c)
  BY <1>1, <1>5, QuietPrep
<1> QED BY <1>3, <1>4, <1>5, StepCases DEF Moves

LEMMA HeldStep ==
  ASSUME KeepInv, [Next]_vars, NEW d \in Calls
  PROVE  HeldOK(d)'
<1> TypeInv /\ CallInv
  BY DEF KeepInv, CallInv
<1> SUFFICES ASSUME held'[d] # None, NEW c \in after'[d], Alone(c)'
             PROVE  Left(c, held[d])' /\ reply'[c] # "finalized"
  BY DEF HeldOK
<1>1. ASSUME held'[d] = held[d], after'[d] = after[d]
      PROVE  Left(c, held[d])' /\ reply'[c] # "finalized"
  <2>1. c \in Calls /\ at[c] \in Over
    BY <1>1 DEF CallInv, CallOK, TypeInv, TypeOK
  <2>2. Stays(c)
    BY <2>1, OverStays
  <2>3. Alone(c)
    BY <2>1, <2>2, AloneWas
  <2>4. Left(c, held[d]) /\ reply[c] # "finalized"
    BY <1>1, <2>3 DEF KeepInv, HeldOK
  <2> QED BY <1>1, <2>2, <2>4 DEF Left, Stays
<1>2. ASSUME after'[d] = {e \in Calls : at[e] \in Over}, held'[d] = prep, prep # None,
             prep.stamp = None
      PROVE  Left(c, held[d])' /\ reply'[c] # "finalized"
  <2>1. c \in Calls /\ at[c] \in Over
    BY <1>2
  <2>2. Stays(c)
    BY <2>1, OverStays
  <2>3. Alone(c)
    BY <2>1, <2>2, AloneWas
  <2>4. Left(c, prep) /\ reply[c] # "finalized"
    BY <1>2, <2>1, <2>3, ConstantTypes DEF KeepInv, LeftOK
  <2> QED BY <1>2, <2>2, <2>4 DEF Left, Stays
<1>3. CASE Stays(d)
  BY <1>1, <1>3 DEF Stays
<1>4. CASE Call(d)
  BY <1>1, <1>2, <1>4, HeldMoves
<1> QED BY <1>3, <1>4, StepCases DEF Moves

LEMMA KeepStep == KeepInv /\ [Next]_vars => KeepInv'
BY CallStep, LeftStep, HeldStep DEF KeepInv

LEMMA KeepInit == Init => KeepInv
BY CallInit DEF Init, KeepInv, LeftOK, HeldOK, Alone, Over, Submits

(* A lone submit's mark, sidecar or stamp stays on the prep.                   *)
THEOREM AloneKept == Spec => []AloneIsKept
<1>1. KeepInv => AloneIsKept
  BY DEF KeepInv, LeftOK, Left, Alone, AloneIsKept
<1> QED BY <1>1, KeepInit, KeepStep, PTL DEF Spec

\* A suite saved before this call opened the prep has its cause.
LEMMA SavedBefore ==
  ASSUME KeepInv, NEW b \in Calls, held[b] # None, NEW a \in saved, a \in after[b]
  PROVE  at[a] = "crashed" \/ a \in failed \/ Crowded(a)
<1>1. a \in Calls /\ CallOK(a) /\ at[a] \in Over
  BY DEF KeepInv, CallInv, CallOK, TypeInv, TypeOK
<1>2. at[a] = "ended" => reply[a] = "finalized" /\ job[a] \in Submits
  BY <1>1 DEF CallOK
<1>3. Alone(a) => reply[a] # "finalized"
  BY DEF KeepInv, HeldOK
<1> QED BY <1>1, <1>2, <1>3 DEF Alone, Over

(* A prep yields a second suite only with a cause.                             *)
THEOREM SecondSuite == Spec => []SecondSuiteHasACause
<1>1. KeepInv => SecondSuiteHasACause
  <2> SUFFICES ASSUME KeepInv, NEW b \in saved, NEW a \in saved, a \in after[b]
               PROVE  at[a] = "crashed" \/ a \in failed \/ Crowded(a)
    BY DEF SecondSuiteHasACause
  <2>1. b \in Calls /\ held[b] # None
    BY DEF KeepInv, CallInv, TypeInv, TypeOK, CallOK
  <2> QED BY <2>1, SavedBefore
<1> QED BY <1>1, KeepInit, KeepStep, PTL DEF Spec

--------------------------------------------------------------------------------
(* The suite a stamp names.                                                    *)
Named(a) ==
  \/ suite = [id |-> a, cases |-> a]
  \/ a \in failed \/ Crowded(a)
  \/ \E b \in saved \cap after[a] : at[b] = "crashed" \/ b \in failed \/ Crowded(b)

StampInv ==
  /\ KeepInv /\ LateInv
  /\ suite # None => suite.id \in saved
  /\ \A c \in Calls : at[c] = "saved" => Named(c)
  /\ Stamped => Named(prep.stamp)

LEMMA NamedStays ==
  ASSUME CallInv, [Next]_vars, NEW a \in Calls, after'[a] = after[a], Named(a),
         suite' = suite \/ suite # [id |-> a, cases |-> a]
  PROVE  Named(a)'
<1> TypeInv
  BY DEF CallInv
<1>1. failed \cap Calls \subseteq failed' /\ saved \cap Calls \subseteq saved'
  BY StepCases DEF Moves, Stays
<1>2. CASE suite = [id |-> a, cases |-> a] /\ suite' = suite
  BY <1>2 DEF Named
<1>3. CASE a \in failed \/ Crowded(a)
  BY <1>1, <1>3, CrowdedStays DEF Named
<1>4. ASSUME NEW b \in saved \cap after[a], at[b] = "crashed" \/ b \in failed \/ Crowded(b)
      PROVE  Named(a)'
  <2>1. b \in Calls /\ at[b] \in Over
    BY <1>4 DEF CallInv, CallOK, TypeInv, TypeOK
  <2>2. Stays(b)
    BY <2>1, OverStays
  <2>3. b \in saved' \cap after'[a] /\ (at'[b] = "crashed" \/ b \in failed' \/ Crowded(b)')
    BY <1>1, <1>4, <2>1, <2>2, CrowdedStays DEF Stays
  <2> QED BY <2>3 DEF Named
<1> QED BY <1>2, <1>3, <1>4 DEF Named

LEMMA SuiteMoves ==
  ASSUME TypeInv, NEW c \in Calls, Call(c)
  PROVE  /\ UNCHANGED <<suite, saved>> \/ Saves(c)
         /\ at'[c] = "saved" => Saves(c)
<1> USE DEF TypeInv, TypeOK, Goes, Ends, prepVars, callVars
<1> DEFINE P == UNCHANGED <<suite, saved>> /\ at'[c] # "saved"
<1>1. ASSUME NEW j \in Jobs, OpensPrep(c, j) PROVE P
  BY <1>1 DEF OpensPrep
<1>2. CASE Touches(c) \/ CategoryReads(c) \/ CategoryChecks(c) \/ CategoryWrites(c)
  <2>1. P
    BY <1>2 DEF Touches, CategoryReads, CategoryChecks, CategoryWrites
  <2> QED BY <2>1
<1>3. CASE SuiteReads(c) \/ Retains(c) \/ Replies(c) \/ Finalizes(c) \/ Stamps(c)
  <2>1. P
    BY <1>3 DEF SuiteReads, Retains, Replies, Finalizes, Stamps
  <2> QED BY <2>1
<1>4. CASE Gate(c)
  <2>1. P
    BY <1>4 DEF Gate, Overridden, Refuses, Refusing, Objects
  <2> QED BY <2>1
<1>5. CASE Task(c) \/ Crashes(c)
  <2>1. P
    BY <1>5 DEF Task, ClosesTask, Claims, Crashes
  <2> QED BY <2>1
<1> QED BY <1>1, <1>2, <1>3, <1>4, <1>5, CallSteps

\* The save of a call that is not crowded and had no cause before it is the suite.
LEMMA SavesNamed ==
  ASSUME StampInv, [Next]_vars, NEW c \in Calls, Saves(c), Call(c)
  PROVE  Named(c)' /\ (suite' # None => suite'.id \in saved')
<1> TypeInv /\ CallInv /\ CallOK(c) /\ KeepInv
  BY DEF StampInv, KeepInv, CallInv
<1>1. at[c] = "back" /\ held[c] # None /\ after'[c] = after[c] /\ c \notin saved
  BY DEF Saves, CallOK, TypeInv, HoldsOK, AtWork, Over
<1>2. CASE StoreFails(c) /\ UNCHANGED <<suite, saved>>
  BY <1>2 DEF StoreFails, Named, StampInv
<1>3. CASE suite = None /\ suite' = [id |-> c, cases |-> c] /\ saved' = saved \cup {c}
  BY <1>3 DEF Named
<1>4. CASE suite # None /\ suite'.id = suite.id /\ saved' = saved \cup {c}
  <2>1. PICK b \in saved : b = suite.id
    BY <1>4 DEF StampInv
  <2>2. b \in Calls /\ b # c /\ job[b] \in Submits /\ at[b] # "new"
    BY <1>1, <2>1 DEF CallInv, CallOK, TypeInv, TypeOK
  <2>3. Crowded(c) \/ b \in after[c]
    BY <1>1, <2>2, RunsBeside DEF Crowded, Overlap, Over
  <2>4. b \in after[c] => at[b] = "crashed" \/ b \in failed \/ Crowded(b)
    BY <1>1, SavedBefore
  <2>5. Named(c)
    BY <2>3, <2>4 DEF Named
  <2>6. suite # [id |-> c, cases |-> c]
    BY <2>1, <2>2
  <2> QED BY <1>1, <1>4, <2>1, <2>5, <2>6, NamedStays
<1>5. suite # None /\ suite' = [id |-> suite.id, cases |-> c] => suite'.id = suite.id
  OBVIOUS
<1> QED BY <1>2, <1>3, <1>4, <1>5 DEF Saves

\* Any other submit that reached its save or its stamp was beside this one.
LEMMA SavesCrowd ==
  ASSUME StampInv, NEW c \in Calls, Saves(c), NEW a \in Calls \ {c},
         at[a] = "saved" \/ (Stamped /\ prep.stamp = a)
  PROVE  Crowded(a)
<1> TypeInv /\ CallInv /\ CallOK(c) /\ LateInv
  BY DEF StampInv, KeepInv, CallInv
<1>1. at[c] = "back" /\ job[c] \in Submits
  BY DEF Saves, CallOK, Submitting
<1>2. CASE at[a] = "saved"
  BY <1>1, <1>2, RunsBeside DEF Crowded, Over
<1>3. CASE Stamped /\ prep.stamp = a
  <2>1. at[a] = "ended" /\ a \notin after[c]
    BY <1>1, <1>3 DEF LateInv, Sealed, AtWork
  <2>2. c \notin after[a]
    BY <1>1, RunsBeside DEF Over
  <2> QED BY <1>1, <2>1, <2>2 DEF Crowded, Overlap
<1> QED BY <1>2, <1>3

LEMMA StampStep == StampInv /\ [Next]_vars => StampInv'
<1> SUFFICES ASSUME StampInv, [Next]_vars PROVE StampInv'
  OBVIOUS
<1> TypeInv /\ CallInv
  BY DEF StampInv, KeepInv, CallInv
<1>1. KeepInv' /\ LateInv'
  BY KeepStep, LateStep DEF StampInv
<1>2. ASSUME NEW a \in Calls, at[a] = "saved" \/ (Stamped /\ prep.stamp = a),
             after'[a] = after[a], ~Saves(a)
      PROVE  Named(a)'
  <2>1. Named(a)
    BY <1>2 DEF StampInv
  <2>2. CASE suite' = suite
    BY <1>2, <2>1, <2>2, NamedStays
  <2>3. ASSUME NEW c \in Calls, Saves(c) PROVE Named(a)'
    <3>1. Crowded(a)
      BY <1>2, <2>3, SavesCrowd
    <3> QED BY <3>1, CrowdedStays DEF Named
  <2> QED BY <2>2, <2>3, StepCases, SuiteMoves, NoneMoves DEF Quiet
<1>3. suite' # None => suite'.id \in saved'
  <2>1. CASE UNCHANGED <<suite, saved>>
    BY <2>1 DEF StampInv
  <2> QED BY <2>1, StepCases, SuiteMoves, SavesNamed, NoneMoves DEF Quiet
<1>4. ASSUME NEW a \in Calls, at'[a] = "saved" PROVE Named(a)'
  <2>1. CASE Stays(a)
    <3>1. at[a] = "saved" /\ after'[a] = after[a] /\ ~Saves(a)
      BY <1>4, <2>1 DEF Stays, Saves
    <3> QED BY <1>2, <3>1
  <2>2. CASE Call(a)
    BY <1>4, <2>2, SuiteMoves, SavesNamed
  <2> QED BY <2>1, <2>2, StepCases DEF Moves
<1>5. Stamped' => Named(prep.stamp)'
  <2> SUFFICES ASSUME Stamped' PROVE Named(prep.stamp)'
    OBVIOUS
  <2>1. ASSUME NEW a \in Calls, prep'.stamp = a, Named(a)' PROVE Named(prep.stamp)'
    BY <2>1 DEF Named, Crowded, Overlap
  <2>2. CASE Stamped /\ prep' = prep
    <3>1. PICK a \in Calls : a = prep.stamp
      BY <2>2 DEF Stamped, TypeInv, TypeOK, Envelopes
    <3>2. at[a] = "ended"
      BY <2>2, <3>1 DEF StampInv, LateInv, Sealed
    <3>3. after'[a] = after[a] /\ ~Saves(a)
      BY <3>2, OverStays DEF Stays, Over, Saves
    <3> QED BY <1>2, <2>1, <2>2, <3>1, <3>3
  <2>3. ASSUME NEW c \in Calls, at[c] = "saved", prep'.stamp = c, UNCHANGED <<suite, after>>
        PROVE  Named(prep.stamp)'
    <3>1. Named(c)'
      BY <1>2, <2>3 DEF Saves
    <3> QED BY <2>1, <2>3, <3>1
  <2> QED BY <2>2, <2>3, StampMoves
<1> QED BY <1>1, <1>3, <1>4, <1>5 DEF StampInv

(* The finished prep names a suite that is stored with its submit's cases, but *)
(* for a failed save, company, or an earlier save that was never stamped.      *)
THEOREM SuiteStamped == Spec => []StampedSuite
<1>1. Init => StampInv
  BY KeepInit, LateInit DEF Init, StampInv, Stamped
<1>2. StampInv => StampedSuite
  BY DEF StampInv, Stamped, Named, StampedSuite
<1> QED BY <1>1, <1>2, StampStep, PTL DEF Spec
================================================================================
