------------------------------- MODULE PrepStore -------------------------------
(* One prepared generation in the shared SQLite store, from qa_prepare to its  *)
(* finished suite, and one host task, which lives in the same table.  The      *)
(* calls of the host model run side by side: workers that submit categories in *)
(* parallel, submits of the suite, several server processes on one file.  Each *)
(* store function is one transaction, and nothing spans two of them: a call    *)
(* loads the envelope once, and writes it back whole with its own addition.    *)
EXTENDS Naturals, FiniteSets

CONSTANTS
  Calls,       \* tool calls, each made once
  Categories,  \* the categories the prep expects
  MaxCases,    \* cases in one submitted category
  Gates,       \* the gates the host's cases can trip
  MaxFaults,   \* calls that meet a failing store operation
  None

Early == {"volume", "assertion", "images"}      \* before the suite is built
FailsOpen == {"dup", "warning"}                 \* let through when unstampable
Rank == [volume |-> 1, assertion |-> 2, images |-> 3, quality |-> 4, dup |-> 5,
         warning |-> 6]

Envelopes == [marks : SUBSET Gates, sidecar : BOOLEAN, stamp : Calls \cup {None}]
Rows == [by : Calls, size : 1 .. MaxCases]
Staged == [Categories -> Rows \cup {None}]
Sent == [cat : Categories, size : 1 .. MaxCases]
Suites == [id : Calls, cases : Calls]
Submits == {"staged", "sidecar", "full"}

ASSUME PrepAssumption ==
  /\ MaxCases \in Nat
  /\ Gates \subseteq DOMAIN Rank
  /\ MaxFaults \in Nat
  /\ IsFiniteSet(Calls)
  /\ None \notin Calls \cup Envelopes \cup Rows \cup Sent \cup Suites

VARIABLES
  prep,    \* the envelope of the prep's row, None once it is deleted
  age,     \* its clock: live, lapsed (no touch for the TTL), spent (lifetime)
  rows,    \* the staged row of each category, None if it has none
  suite,   \* the stored suite of this prep: whose id, whose cases
  task,    \* the host task is open
  at,      \* where each call is
  job,     \* what it is for
  held,    \* the envelope it loaded
  read,    \* the staged rows it read
  sent,    \* the category it submits and the number of cases in it
  passed,  \* what it went past on the host's word: gates, a shrunk category
  reply,   \* its answer, once settled; a gate's name is that gate's refusal
  after,   \* the calls that were over when it began
  saved,   \* calls that stored a suite
  closed,  \* calls that were given the host task's record
  failed   \* calls a store operation of which has failed

prepVars == <<prep, age, rows>>
callVars == <<at, job, held, read, sent, passed, reply, after>>
vars == <<prepVars, suite, task, callVars, saved, closed, failed>>

NoRows == [k \in Categories |-> None]
Over == {"ended", "crashed"}

Init ==
  /\ prep = [marks |-> {}, sidecar |-> FALSE, stamp |-> None] /\ age = "live"
  /\ rows = NoRows
  /\ suite = None /\ task = TRUE
  /\ at = [c \in Calls |-> "new"]
  /\ job = [c \in Calls |-> "none"]
  /\ held = [c \in Calls |-> None]
  /\ read = [c \in Calls |-> NoRows]
  /\ sent = [c \in Calls |-> None]
  /\ passed = [c \in Calls |-> {}]
  /\ reply = [c \in Calls |-> "none"]
  /\ after = [c \in Calls |-> {}]
  /\ saved = {} /\ closed = {} /\ failed = {}

--------------------------------------------------------------------------------
(* The store.  A load that finds the row expired deletes it, and the staged    *)
(* rows with it.  An update asks only whether the row is there.                *)
Live == prep # None /\ age = "live"
\* Mutant: the finalized refusal is dropped.
OpenThoughFinalized == Live
Open == Live /\ prep.stamp = None

Deletes == prep' = None /\ rows' = NoRows
Load == IF Live THEN UNCHANGED <<prep, rows>> ELSE Deletes

StoreFails(c) == Cardinality(failed) < MaxFaults /\ failed' = failed \cup {c}

Updates(env) == prep # None /\ prep' = env
UpdateFails(c) ==
  /\ prep' = prep
  /\ \/ prep = None /\ failed' = failed
     \/ StoreFails(c)

Goes(c, step) == at' = [at EXCEPT ![c] = step]
Ends(c, r) == Goes(c, "ended") /\ reply' = [reply EXCEPT ![c] = r]

Begins(c, j) ==
  /\ at[c] = "new"
  /\ job' = [job EXCEPT ![c] = j]
  /\ after' = [after EXCEPT ![c] = {d \in Calls : at[d] \in Over}]

(* Every tool opens the prep the same way: an expired, unknown or finalized    *)
(* prep is refused.                                                            *)
OpensPrep(c, j) ==
  /\ Begins(c, j) /\ Load
  /\ \/ /\ Open
        /\ held' = [held EXCEPT ![c] = prep]
        /\ Goes(c, IF j = "fetch" THEN "touching" ELSE "loaded")
        /\ UNCHANGED reply
     \/ ~Open /\ Ends(c, "no") /\ UNCHANGED held
  /\ UNCHANGED <<age, suite, task, read, sent, passed, saved, closed, failed>>

FetchesJob(c) == OpensPrep(c, "fetch")
SubmitsCategory(c) == OpensPrep(c, "category")
SubmitsSuite(c) == \E j \in Submits : OpensPrep(c, j)

Touches(c) ==
  /\ at[c] = "touching"
  /\ age' = IF age = "lapsed" THEN "live" ELSE age
  /\ Ends(c, IF sent[c] # None /\ reply[c] = "none" THEN "recorded" ELSE reply[c])
  /\ UNCHANGED <<prep, rows, suite, task, job, held, read, sent, passed, after, saved,
                 closed, failed>>

--------------------------------------------------------------------------------
(* qa_submit_category.  The staged row is read once, before the write; a count *)
(* that cannot be read is taken for zero and the guard is off.                 *)
\* Mutant: a suite without cases parses.
CaseCountsFromZero == 0 .. MaxCases
CaseCounts == 1 .. MaxCases

\* Mutant: compared the wrong way round.
ShrinksUnlessEqual(row, n) == row # None /\ n > row.size
Shrinks(row, n) == row # None /\ n < row.size

CategoryReads(c) ==
  /\ at[c] = "loaded" /\ job[c] = "category"
  /\ \E k \in Categories, n \in CaseCounts :
       /\ sent' = [sent EXCEPT ![c] = [cat |-> k, size |-> n]]
       /\ \/ read' = [read EXCEPT ![c] = rows] /\ UNCHANGED failed
          \/ StoreFails(c) /\ UNCHANGED read
       /\ \/ ~Shrinks(read'[c][k], n) /\ Goes(c, "checking") /\ UNCHANGED <<passed, reply>>
          \/ /\ Shrinks(read'[c][k], n)        \* replace_smaller was sent
             /\ Goes(c, "checking") /\ UNCHANGED reply
             /\ passed' = [passed EXCEPT ![c] = {"shrink"}]
          \/ /\ Shrinks(read'[c][k], n)
             /\ Goes(c, "touching") /\ reply' = [reply EXCEPT ![c] = "no"]
             /\ UNCHANGED passed
  /\ UNCHANGED <<prepVars, suite, task, job, held, after, saved, closed>>

CategoryChecks(c) ==
  /\ at[c] = "checking" /\ Load
  /\ \/ Live /\ Goes(c, "writing") /\ UNCHANGED reply
     \/ ~Live /\ Ends(c, "no")
  /\ UNCHANGED <<age, suite, task, job, held, read, sent, passed, after, saved, closed,
                 failed>>

\* Mutant: INSERT OR IGNORE, the first row stays.
RowIgnored(c, old) ==
  IF old # None THEN old ELSE [by |-> c, size |-> sent[c].size]
Row(c, old) == [by |-> c, size |-> sent[c].size]

CategoryWrites(c) ==
  /\ at[c] = "writing"
  /\ \/ /\ prep # None
        /\ rows' = [rows EXCEPT ![sent[c].cat] = Row(c, @)]
        /\ Goes(c, "touching") /\ UNCHANGED reply
     \/ prep = None /\ Ends(c, "no") /\ UNCHANGED rows
  /\ UNCHANGED <<prep, age, suite, task, job, held, read, sent, passed, after, saved,
                 closed, failed>>

--------------------------------------------------------------------------------
(* qa_submit_suite.                                                            *)
HasSidecar(c) == job[c] = "sidecar" \/ held[c].sidecar

SuiteReads(c) ==
  /\ at[c] = "loaded" /\ job[c] \in Submits
  /\ \/ job[c] = "full" /\ Goes(c, "front") /\ UNCHANGED <<read, reply>>
     \/ /\ job[c] # "full" /\ None \notin {rows[k] : k \in Categories}
        /\ read' = [read EXCEPT ![c] = rows]
        /\ Goes(c, "front") /\ UNCHANGED reply
     \/ /\ rows = NoRows
        /\ job[c] # "full" /\ HasSidecar(c)
        /\ Goes(c, "retaining") /\ UNCHANGED <<read, reply>>
     \/ /\ job[c] # "full" /\ None \in {rows[k] : k \in Categories}
        /\ rows = NoRows => ~HasSidecar(c)
        /\ Ends(c, "no") /\ UNCHANGED read
  /\ UNCHANGED <<prepVars, suite, task, job, held, sent, passed, after, saved, closed, failed>>

Retains(c) ==
  /\ at[c] = "retaining"
  /\ \/ /\ Updates([held[c] EXCEPT !.sidecar = TRUE])
        /\ Ends(c, "retained") /\ UNCHANGED failed
     \/ UpdateFails(c) /\ Ends(c, "no")
  /\ UNCHANGED <<age, rows, suite, task, job, held, read, sent, passed, after, saved, closed>>

(* A gate objects to the cases; gates are asked in a fixed order.              *)
Objects(c, g) ==
  /\ at[c] = IF g \in Early THEN "front" ELSE "back"
  /\ \A h \in passed[c] : Rank[h] < Rank[g]

\* Mutant: the host's acknowledgement is enough.
RefusedBeforeUnasked(c, g) == TRUE
RefusedBefore(c, g) == g \in held[c].marks
\* Mutant: the meta is written without its earlier marks.
MarkedAfresh(c, g) == [held[c] EXCEPT !.marks = {g}]
Marked(c, g) == [held[c] EXCEPT !.marks = @ \cup {g}]

Overridden(c, g) ==
  /\ Objects(c, g) /\ RefusedBefore(c, g)
  /\ passed' = [passed EXCEPT ![c] = @ \cup {g}]
  /\ UNCHANGED <<prepVars, suite, task, at, job, held, read, sent, reply, after, saved,
                 closed, failed>>

(* The mark is stored first.  The audit of the refusal, and for some gates a   *)
(* load of the staged rows, are awaited before the host is told: in between    *)
(* the call may die, and another submit may load the mark.                     *)
Refusing(c, g) == Goes(c, "refusing") /\ reply' = [reply EXCEPT ![c] = g]

Refuses(c, g) ==
  /\ Objects(c, g)
  /\ g = "dup" => ~RefusedBefore(c, g)
  /\ \/ /\ Updates(Marked(c, g))
        /\ Refusing(c, g) /\ UNCHANGED <<passed, failed>>
     \/ /\ UpdateFails(c) /\ g \notin FailsOpen
        /\ Refusing(c, g) /\ UNCHANGED passed
     \/ /\ UpdateFails(c) /\ g \in FailsOpen
        /\ passed' = [passed EXCEPT ![c] = @ \cup {g}] /\ UNCHANGED <<at, reply>>
  /\ UNCHANGED <<age, rows, suite, task, job, held, read, sent, after, saved, closed>>

Replies(c) ==
  /\ at[c] = "refusing" /\ Goes(c, "ended")
  /\ UNCHANGED <<prepVars, suite, task, job, held, read, sent, passed, reply, after, saved,
                 closed, failed>>

Finalizes(c) ==
  /\ at[c] = "front"
  /\ \/ Goes(c, "back") /\ UNCHANGED <<prep, rows, reply>>
     \/ Deletes /\ Ends(c, "no")                  \* no usable case
  /\ UNCHANGED <<age, suite, task, job, held, read, sent, passed, after, saved, closed, failed>>

(* The suites table holds one row per prep: a second save keeps the first id.  *)
Saves(c) ==
  /\ at[c] = "back" /\ Goes(c, "saved")
  /\ \/ /\ suite' = [id |-> IF suite = None THEN c ELSE suite.id, cases |-> c]
        /\ saved' = saved \cup {c} /\ UNCHANGED failed
     \/ StoreFails(c) /\ UNCHANGED <<suite, saved>>
  /\ UNCHANGED <<prepVars, task, job, held, read, sent, passed, reply, after, closed>>

Stamps(c) ==
  /\ at[c] = "saved" /\ Ends(c, "finalized")
  /\ \/ /\ Updates([held[c] EXCEPT !.stamp = c])
        /\ UNCHANGED <<rows, failed>>
     \/ UpdateFails(c) /\ UNCHANGED rows            \* and so does the delete
     \/ StoreFails(c) /\ Deletes
  /\ UNCHANGED <<age, suite, task, job, held, read, sent, passed, after, saved, closed>>

--------------------------------------------------------------------------------
(* A host task is closed by deleting it; a delete that fails counts as a claim. *)
ClosesTask(c) ==
  /\ Begins(c, "close")
  /\ IF task THEN Goes(c, "claiming") /\ UNCHANGED reply ELSE Ends(c, "no")
  /\ UNCHANGED <<prepVars, suite, task, held, read, sent, passed, saved, closed, failed>>

\* Mutant: the row count of the delete is not looked at.
LostClaimUnseen == FALSE
LostClaim == ~task

Claims(c) ==
  /\ at[c] = "claiming"
  /\ \/ /\ ~LostClaim
        /\ task' = FALSE /\ closed' = closed \cup {c} /\ Ends(c, "closed")
        /\ UNCHANGED failed
     \/ LostClaim /\ Ends(c, "no") /\ UNCHANGED <<task, closed, failed>>
     \/ StoreFails(c) /\ closed' = closed \cup {c} /\ Ends(c, "closed") /\ UNCHANGED task
  /\ UNCHANGED <<prepVars, suite, job, held, read, sent, passed, after, saved>>

--------------------------------------------------------------------------------
(* A server that dies takes its calls with it.  A call the host cancels is     *)
(* over once the store write it had under way in its thread has landed.        *)
Crashes(c) ==
  /\ at[c] \notin Over \cup {"new"}
  /\ Goes(c, "crashed")
  /\ UNCHANGED <<prepVars, suite, task, job, held, read, sent, passed, reply, after, saved,
                 closed, failed>>

Ages ==
  /\ prep # None
  /\ \/ age = "live" /\ age' = "lapsed"
     \/ age # "spent" /\ age' = "spent"
  /\ UNCHANGED <<prep, rows, suite, task, callVars, saved, closed, failed>>

(* Another prepare sweeps what is past its lifetime.                           *)
Purges ==
  /\ prep # None /\ age = "spent" /\ Deletes
  /\ UNCHANGED <<age, suite, task, callVars, saved, closed, failed>>

Category(c) == SubmitsCategory(c) \/ CategoryReads(c) \/ CategoryChecks(c) \/ CategoryWrites(c)
Gate(c) == \E g \in Gates : Overridden(c, g) \/ Refuses(c, g)
Suite(c) ==
  \/ SubmitsSuite(c) \/ SuiteReads(c) \/ Retains(c) \/ Gate(c) \/ Replies(c) \/ Finalizes(c)
  \/ Saves(c) \/ Stamps(c)
Task(c) == ClosesTask(c) \/ Claims(c)
Call(c) == FetchesJob(c) \/ Touches(c) \/ Category(c) \/ Suite(c) \/ Task(c) \/ Crashes(c)

Next == (\E c \in Calls : Call(c)) \/ Ages \/ Purges
Spec == Init /\ [][Next]_vars

--------------------------------------------------------------------------------
Steps == {"new", "loaded", "checking", "writing", "touching", "retaining", "front",
          "refusing", "back", "saved", "claiming"} \cup Over

\* Every variable has its type.
TypeOK ==
  /\ prep \in Envelopes \cup {None} /\ age \in {"live", "lapsed", "spent"}
  /\ rows \in Staged /\ suite \in Suites \cup {None} /\ task \in BOOLEAN
  /\ at \in [Calls -> Steps]
  /\ job \in [Calls -> {"none", "fetch", "category", "close"} \cup Submits]
  /\ held \in [Calls -> Envelopes \cup {None}]
  /\ read \in [Calls -> Staged]
  /\ sent \in [Calls -> Sent \cup {None}]
  /\ passed \in [Calls -> SUBSET (Gates \cup {"shrink"})]
  /\ reply \in [Calls -> {"none", "no", "recorded", "retained", "finalized", "closed"} \cup Gates]
  /\ after \in [Calls -> SUBSET Calls]
  /\ saved \subseteq Calls /\ closed \subseteq Calls /\ failed \subseteq Calls

Overlap(a, b) == at[a] # "new" /\ at[b] # "new" /\ a \notin after[b] /\ b \notin after[a]
Crowded(a) == \E d \in Calls \ {a} : job[d] \in Submits /\ Overlap(a, d)

\* A staged category loses cases only to a call that says so (replace_smaller),
\* to one that ran beside the call it overwrites, or to one that could not read
\* the staged count: the shrink guard of qa_submit_category is a read, a compare
\* and a write, and this is all it promises.
ShrinkIsKnown ==
  [][\A k \in Categories :
       (rows[k] # None /\ rows'[k] # None /\ rows'[k].size < rows[k].size) =>
         LET c == rows'[k].by IN
           \/ "shrink" \in passed[c]
           \/ c \in failed
           \/ Overlap(c, rows[k].by)]_vars

\* A prep yields a second suite only where the first submit crashed, met a
\* failing store, or ran beside another submit: the finalized refusal of
\* load_open_prep stops every other one.
SecondSuiteHasACause ==
  \A b \in saved : \A a \in saved \cap after[b] :
    at[a] = "crashed" \/ a \in failed \/ Crowded(a)

\* The finished prep names a suite that is stored, with that submit's cases,
\* unless its save failed, it had company, or an earlier save was left unstamped.
StampedSuite ==
  prep # None /\ prep.stamp # None =>
    LET a == prep.stamp IN
      \/ suite = [id |-> a, cases |-> a]
      \/ a \in failed \/ Crowded(a)
      \/ \E b \in saved \cap after[a] : at[b] = "crashed" \/ b \in failed \/ Crowded(b)

\* A row of a finalized prep that its suite does not hold was recorded by a call
\* that ran beside the finalize: no later call stages work where it is lost.
LateRowsOverlap ==
  prep # None /\ prep.stamp # None =>
    LET a == prep.stamp IN
      job[a] # "full" =>
        \A k \in Categories :
          rows[k] # read[a][k] => rows[k] # None /\ Overlap(rows[k].by, a)

\* A suite built from staged rows has, for each category recorded before it
\* began, that row or a later one.
FinalizeSeesRows ==
  \A a \in saved, c \in Calls :
    c \in after[a] /\ reply[c] = "recorded" /\ job[a] # "full" =>
      LET row == read[a][sent[c].cat] IN row # None /\ row.by \notin after[c]

\* A finding is overridden only after another submit was refused for it and told
\* so before this one began.  Otherwise that submit died between its mark and its
\* reply, or ran beside this one; or the refusal was one that could not be marked
\* and is let through.
AckIsInformed ==
  \A c \in saved : \A g \in passed[c] :
    \/ \E d \in after[c] : reply[d] = g /\ at[d] = "ended"
    \/ \E d \in after[c] : reply[d] = g /\ at[d] = "crashed"
    \/ \E d \in Calls \ {c} : reply[d] = g /\ Overlap(c, d)
    \/ g \in FailsOpen /\ (c \in failed \/ prep = None)

\* What a submit with no other submit beside it left on the prep stays there:
\* the mark of its refusal, the retained sidecar, the finalized stamp.
AloneIsKept ==
  \A c \in Calls :
    prep # None /\ job[c] \in Submits /\ at[c] = "ended" /\ c \notin failed /\ ~Crowded(c) =>
      /\ reply[c] \in Gates => reply[c] \in prep.marks
      /\ reply[c] = "retained" => prep.sidecar
      /\ reply[c] = "finalized" => prep.stamp = c

\* A host task is handed to one call, except where its delete failed.
TaskClosedOnce == \A a, b \in closed : a = b \/ a \in failed \/ b \in failed
================================================================================
