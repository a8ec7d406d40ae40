--------------------------- MODULE UpdaterSafety ---------------------------
(***************************************************************************)
(* Proofs about Updater, for every number of launchers, releases and files *)
(* and every bound on the faults: types first, then safety.  The           *)
(* strengthening says what a swap in progress has on record about every    *)
(* file: enough to finish it, enough to undo it.                           *)
(***************************************************************************)
EXTENDS Updater, TLAPS

\* What a launcher found never runs ahead of the server, and past the fetch it
\* is a release.
RemoteOK ==
    \A l \in Launchers :
        /\ remote[l] <= latest
        /\ pc[l] \notin {"idle", "fetch"} => remote[l] # 0

TypeInv == TypeOK /\ RemoteOK

LEMMA ConstantTypes ==
    /\ MaxRelease \in Nat \ {0} /\ None \notin Launchers
    /\ Body \in [Releases -> [Files -> Nat]] /\ MaxFaults \in Nat
    /\ Manifest \in Files /\ 1 \in Releases
BY ReleaseAssumption DEF ReleaseAssumption, Releases, Shipped

\* A version read from disk is one that can be told, or none.
LEMMA VersionType == \A d : LocalVersion(d) \in Versions \cup {0}
BY DEF LocalVersion, Quoted

LEMMA FirstIn == \A S : First(S) \subseteq S
BY DEF First

LEMMA BodyType == \A r \in Releases, f \in Files : Body[r][f] \in Content
BY ConstantTypes DEF Content

\* Whatever spoils a file, in the middle of a copy or by hand, leaves a content.
LEMMA SpoiltType ==
    /\ \A f, c : CutShort(f, c) \subseteq Content
    /\ \A f : Spoilt(f) \subseteq Content
<1>1. Scraps \subseteq Int /\ {NoFile, Damaged, Behind, Ahead} \subseteq Int
  BY ReleaseAssumption DEF ReleaseAssumption, NoFile, Damaged, Behind, Ahead
<1>2. \A f, c : CutShort(f, c) \subseteq Content
  BY <1>1 DEF CutShort, Content
<1>3. \A f : Spoilt(f) \subseteq Content
  BY <1>1 DEF Spoilt, Content
<1> QED BY <1>2, <1>3

\* What a whole manifest and a scrap of one list.
LEMMA ListedIs ==
    ASSUME NEW d
    PROVE  /\ Listed(d) \subseteq Files
           /\ d[Manifest] \in Releases => Listed(d) = Ships(d[Manifest]) \ {Manifest}
           /\ d[Manifest] \in Scraps => Listed(d) \cap Own = {}
           /\ d[Manifest] \notin Releases \cup Scraps => Listed(d) = {}
<1>1. Releases \cap Scraps = {}
  BY ReleaseAssumption DEF ReleaseAssumption, Releases, Behind
<1>2. d[Manifest] \in Releases => Listed(d) = Ships(d[Manifest]) \ {Manifest}
  BY <1>1 DEF Listed, Entry, Ships
<1>3. ASSUME d[Manifest] \in Scraps PROVE Listed(d) \cap Own = {}
  <2>1. \A f \in Own : Lines[d[Manifest]][f] = NoFile
    BY <1>3, ReleaseAssumption DEF ReleaseAssumption
  <2> QED BY <1>3, <2>1 DEF Listed, Entry
<1>4. d[Manifest] \notin Releases \cup Scraps => Listed(d) = {}
  BY DEF Listed, Entry
<1>5. Listed(d) \subseteq Files
  BY DEF Listed
<1> QED BY <1>2, <1>3, <1>4, <1>5

LEMMA TypeInit == Init => TypeInv
BY ConstantTypes DEF Init, TypeInv, TypeOK, RemoteOK, Phases, Nothing, Content,
    Releases, Damaged, NoFile

LEMMA RemoteType ==
    ASSUME TypeInv, NEW l \in Launchers
    PROVE  TypeOK /\ (pc[l] \notin {"idle", "fetch"} => remote[l] \in Releases)
<1>1. remote[l] \in 0 .. MaxRelease
  BY DEF TypeInv, TypeOK
<1> QED BY <1>1, ConstantTypes DEF TypeInv, RemoteOK, Releases

LEMMA TypeCheck ==
    ASSUME TypeInv, NEW l \in Launchers, Check(l) PROVE TypeOK'
<1> TypeOK /\ (pc[l] \notin {"idle", "fetch"} => remote[l] \in Releases)
  BY RemoteType
<1> USE ConstantTypes DEF TypeOK, Phases, Goto, CheckEnds,
        swapVars, checkVars, faultVars
<1>1. CASE ReadLocal(l)
  BY <1>1, VersionType DEF ReadLocal
<1>2. CASE FetchLatest(l)
  <2>1. pc' \in [Launchers -> Phases] /\ remote' \in [Launchers -> 0 .. MaxRelease]
    BY <1>2 DEF FetchLatest, Found, Releases
  <2> QED BY <1>2, <2>1 DEF FetchLatest, Found
<1>3. CASE FetchCached(l)
  BY <1>3 DEF FetchCached, Found
<1>4. CASE CheckFails(l)
  BY <1>4 DEF CheckFails, Fault
<1>5. CASE JudgeBegins(l)
  BY <1>5 DEF JudgeBegins
<1>6. CASE Judged(l)
  <2>1. /\ lock' = None /\ UNCHANGED <<latest, disk, remote, swapVars, faultVars>>
        /\ \/ Goto(l, "download") /\ healing' = [healing EXCEPT ![l] = TRUE]
              /\ marker' = remote[l] /\ local' = local
           \/ CheckEnds(l) /\ marker' = marker
    BY <1>6 DEF Judged
  <2>2. pc' \in [Launchers -> Phases] /\ local' \in [Launchers -> Versions \cup {0}]
    BY <2>1
  <2>4. healing' \in [Launchers -> BOOLEAN]
    BY <2>1
  <2>3. marker' \in 0 .. MaxRelease
    BY <2>1, <1>6 DEF Judged, Releases
  <2> QED BY <2>1, <2>2, <2>3, <2>4
<1>7. CASE Downloaded(l)
  BY <1>7 DEF Downloaded
<1>8. CASE Skip(l)
  BY <1>8 DEF Skip
<1> QED BY <1>1, <1>2, <1>3, <1>4, <1>5, <1>6, <1>7, <1>8 DEF Check

LEMMA TypeSwap ==
    ASSUME TypeInv, NEW l \in Launchers, Swap(l) PROVE TypeOK'
<1> TypeOK /\ (pc[l] \notin {"idle", "fetch"} => remote[l] \in Releases)
  BY RemoteType
<1> USE ConstantTypes DEF TypeOK, Phases, Goto, CheckEnds,
        swapVars, checkVars, faultVars
<1>1. CASE SwapBegins(l)
  <2>1. Ships(remote[l]) \subseteq Files /\ Prunable(disk, remote[l]) \subseteq Files
    <3>1. remote[l] \in Releases
      BY <1>1 DEF SwapBegins
    <3>2. Listed(disk) \subseteq Files /\ RemovedPaths[remote[l]] \subseteq Files
      BY <3>1, ListedIs, ReleaseAssumption DEF ReleaseAssumption, Shipped
    <3> QED BY <3>2 DEF Ships, Prunable
  <2>2. Nothing \in [Files -> Content]
    BY DEF Nothing, Content, NoFile
  <2> QED BY <1>1, <2>1, <2>2 DEF SwapBegins
<1>2. CASE PruneOne(l)
  <2>1. disk' \in [Files -> Content] /\ backup' \in [Files -> Content]
    BY <1>2, FirstIn DEF PruneOne, Content, NoFile
  <2>2. prunable' \subseteq Files /\ pruned' \subseteq Files
    BY <1>2, FirstIn DEF PruneOne
  <2> QED BY <1>2, <2>1, <2>2 DEF PruneOne
<1>3. CASE PruneSkips(l)
  <2>1. prunable' \subseteq Files /\ blamed' \subseteq Files
    BY <1>3, FirstIn DEF PruneSkips
  <2>2. clean' \in BOOLEAN
    BY <1>3 DEF PruneSkips
  <2>3. faults' \in 0 .. MaxFaults + 1
    BY <1>3 DEF PruneSkips, Fault
  <2> QED BY <1>3, <2>1, <2>2, <2>3 DEF PruneSkips
<1>4. CASE OverlayOne(l)
  <2>1. PICK f \in First(plan) : OverlayOne(l)!3!(f)
    BY <1>4 DEF OverlayOne
  <2>2. f \in Files /\ remote[l] \in Releases
    BY <1>4, FirstIn, <2>1 DEF OverlayOne
  <2>3. created' \subseteq Files /\ overwritten' \subseteq Files
        /\ backup' \in [Files -> Content]
    BY <2>1, <2>2 DEF Recorded
  <2>4. disk' \in [Files -> Content]
    BY <2>1, <2>2, BodyType
  <2> QED BY <1>4, <2>1, <2>3, <2>4 DEF OverlayOne
<1>5. CASE OverlayFails(l)
  <2>1. PICK f \in First(plan) :
           \/ UNCHANGED <<disk, backup, overwritten, created>>
           \/ /\ Recorded(f)
              /\ \E c \in CutShort(f, Body[remote[l]][f]) : disk' = [disk EXCEPT ![f] = c]
    BY <1>5 DEF OverlayFails
  <2>2. f \in Files
    BY FirstIn, <2>1
  <2>3. created' \subseteq Files /\ overwritten' \subseteq Files
        /\ backup' \in [Files -> Content]
    BY <2>1, <2>2 DEF Recorded
  <2>4. disk' \in [Files -> Content]
    BY <2>1, <2>2, SpoiltType
  <2> QED BY <1>5, <2>3, <2>4 DEF OverlayFails, Fault
<1>6. CASE SwapEnds(l)
  BY <1>6 DEF SwapEnds, SwapForgotten, Nothing, Content, NoFile
<1> QED BY <1>1, <1>2, <1>3, <1>4, <1>5, <1>6 DEF Swap

LEMMA TypeRollback ==
    ASSUME TypeInv, NEW l \in Launchers, Rollback(l) PROVE TypeOK'
<1> TypeOK /\ (pc[l] \notin {"idle", "fetch"} => remote[l] \in Releases)
  BY RemoteType
<1> USE ConstantTypes DEF TypeOK, Phases, Goto, CheckEnds,
        swapVars, checkVars, faultVars
<1>1. CASE UndoCreated(l)
  <2>1. disk' \in [Files -> Content] /\ created' \subseteq Files
    BY <1>1, FirstIn DEF UndoCreated, Content, NoFile
  <2> QED BY <1>1, <2>1 DEF UndoCreated
<1>2. CASE UndoOverwritten(l)
  BY <1>2 DEF UndoOverwritten, Content
<1>3. CASE UndoPruned(l)
  BY <1>3 DEF UndoPruned, Content
<1>4. CASE UndoFails(l)
  <2>1. created' \subseteq Files /\ overwritten' \subseteq Files /\ pruned' \subseteq Files
        /\ blamed' \subseteq Files
    BY <1>4, FirstIn DEF UndoFails
  <2>2. clean' \in BOOLEAN
    BY <1>4 DEF UndoFails
  <2>3. faults' \in 0 .. MaxFaults + 1
    BY <1>4 DEF UndoFails
  <2>4. disk' \in [Files -> Content]
    <3>1. disk' = disk \/ \E f : \E c \in Content : disk' = [disk EXCEPT ![f] = c]
      BY <1>4, SpoiltType DEF UndoFails, RestoreFails
    <3> QED BY <3>1
  <2> QED BY <1>4, <2>1, <2>2, <2>3, <2>4 DEF UndoFails
<1>5. CASE RollbackEnds(l)
  BY <1>5 DEF RollbackEnds, SwapForgotten, Nothing, Content, NoFile
<1> QED BY <1>1, <1>2, <1>3, <1>4, <1>5 DEF Rollback

LEMMA TypeCrash ==
    ASSUME TypeInv, NEW l \in Launchers, Crash(l) PROVE TypeOK'
<1> TypeOK /\ (pc[l] \notin {"idle", "fetch"} => remote[l] \in Releases)
  BY RemoteType
<1> USE ConstantTypes DEF TypeOK, Phases, Goto, CheckEnds,
        swapVars, checkVars, faultVars
<1>1. disk' \in [Files -> Content]
  <2>1. disk' = disk \/ \E f : \E c \in Content : disk' = [disk EXCEPT ![f] = c]
    BY SpoiltType DEF Crash
  <2> QED BY <2>1
<1>2. clean' \in BOOLEAN /\ blamed' \subseteq Files
  <2>1. First(plan) \subseteq Files /\ Unlisted(disk') \subseteq Files
    BY FirstIn DEF Unlisted, Shipped
  <2> QED BY <2>1 DEF Crash
<1>3. /\ prunable' \subseteq Files /\ plan' \subseteq Files
      /\ created' \subseteq Files /\ overwritten' \subseteq Files /\ pruned' \subseteq Files
      /\ backup' \in [Files -> Content] /\ before' \in [Files -> Content]
  <2>1. Nothing \in [Files -> Content]
    BY DEF Nothing, Content, NoFile
  <2>2. SwapForgotten \/ UNCHANGED swapVars
    BY DEF Crash
  <2>3. CASE SwapForgotten
    BY <2>1, <2>3 DEF SwapForgotten
  <2>4. CASE UNCHANGED swapVars
    BY <2>4
  <2> QED BY <2>2, <2>3, <2>4
<1> QED BY <1>1, <1>2, <1>3 DEF Crash, Fault

LEMMA RemoteNext ==
    ASSUME TypeInv, NEW l \in Launchers,
           Check(l) \/ Swap(l) \/ Rollback(l) \/ Crash(l)
    PROVE  RemoteOK'
<1>0. /\ pc \in [Launchers -> Phases] /\ remote \in [Launchers -> 0 .. MaxRelease]
      /\ latest \in Releases /\ MaxRelease \in Nat
  BY ConstantTypes DEF TypeInv, TypeOK
<1>1. ASSUME remote' = remote, latest' = latest,
             \/ pc' = pc
             \/ \E p \in Phases : pc' = [pc EXCEPT ![l] = p]
                                /\ (p \in {"idle", "fetch"} \/ pc[l] \notin {"idle", "fetch"})
      PROVE  RemoteOK'
  BY <1>0, <1>1 DEF TypeInv, RemoteOK, Phases
<1>2. CASE \E r \in {latest, remote[l]} : r # 0 /\ Found(l, r)
  BY <1>0, <1>2 DEF TypeInv, RemoteOK, Found, Goto, Releases, Phases
<1>3. CASE Crash(l)
  BY <1>0, <1>3 DEF TypeInv, RemoteOK, Crash, CheckEnds, Goto, Releases, Phases
<1>4. CASE Check(l) /\ ~(FetchLatest(l) \/ FetchCached(l))
  <2>1. remote' = remote /\ latest' = latest
    BY <1>4 DEF Check, ReadLocal, CheckFails, JudgeBegins, Judged, Downloaded, Skip, checkVars
  <2>2. \E p \in Phases : /\ pc' = [pc EXCEPT ![l] = p]
                          /\ p \in {"idle", "fetch"} \/ pc[l] \notin {"idle", "fetch"}
    BY <1>4 DEF Check, ReadLocal, CheckFails, JudgeBegins, Judged, Downloaded, Skip,
        CheckEnds, Goto, Phases
  <2> QED BY <1>1, <2>1, <2>2
<1>5. CASE Swap(l) \/ Rollback(l)
  <2>1. remote' = remote /\ latest' = latest
    BY <1>5 DEF Swap, SwapBegins, PruneOne, PruneSkips, OverlayOne, OverlayFails, SwapEnds,
        Rollback, UndoCreated, UndoOverwritten, UndoPruned, UndoFails, RollbackEnds, checkVars
  <2>2. \/ pc' = pc
        \/ \E p \in Phases : /\ pc' = [pc EXCEPT ![l] = p]
                             /\ p \in {"idle", "fetch"} \/ pc[l] \notin {"idle", "fetch"}
    BY <1>5 DEF Swap, SwapBegins, PruneOne, PruneSkips, OverlayOne, OverlayFails, SwapEnds,
        Rollback, UndoCreated, UndoOverwritten, UndoPruned, UndoFails, RollbackEnds,
        CheckEnds, Goto, Phases
  <2> QED BY <1>1, <2>1, <2>2
<1>6. latest # 0
  BY <1>0 DEF Releases
<1> QED BY <1>2, <1>3, <1>4, <1>5, <1>6 DEF FetchLatest, FetchCached

LEMMA TypeNext == TypeInv /\ [UNext]_uvars => TypeInv'
<1> SUFFICES ASSUME TypeInv, [UNext]_uvars PROVE TypeInv'
  OBVIOUS
<1> USE ConstantTypes
<1>1. CASE \E l \in Launchers : Check(l) \/ Swap(l) \/ Rollback(l) \/ Crash(l)
  BY <1>1, TypeCheck, TypeSwap, TypeRollback, TypeCrash, RemoteNext DEF TypeInv
<1>2. CASE Publish
  BY <1>2 DEF TypeInv, TypeOK, RemoteOK, Publish, swapVars, checkVars, faultVars, Releases
<1>3. CASE Edit
  <2>1. disk' \in [Files -> Content] /\ blamed' \subseteq Files
    <3>1. PICK f \in Editable : \E c \in Spoilt(f) :
             /\ disk' = [disk EXCEPT ![f] = c]
             /\ blamed' = IF f = Manifest THEN Files ELSE blamed
      BY <1>3 DEF Edit
    <3>2. Spoilt(f) \subseteq Content
      BY SpoiltType
    <3> QED BY <3>1, <3>2 DEF TypeInv, TypeOK
  <2>2. clean' \in BOOLEAN
    BY <1>3 DEF Edit
  <2>3. faults' \in 0 .. MaxFaults + 1
    BY <1>3 DEF Edit, Fault, TypeInv, TypeOK
  <2> QED BY <1>3, <2>1, <2>2, <2>3 DEF TypeInv, TypeOK, RemoteOK, Edit, swapVars, checkVars
<1>4. CASE MarkerAges
  BY <1>4 DEF TypeInv, TypeOK, RemoteOK, MarkerAges, swapVars, checkVars, faultVars
<1>5. CASE UNCHANGED uvars
  BY <1>5 DEF TypeInv, TypeOK, RemoteOK, uvars
<1> QED BY <1>1, <1>2, <1>3, <1>4, <1>5 DEF UNext

\* The launchers' variables keep their types, whatever is crashed or edited.
THEOREM UpdaterTypeCorrect == USpec => []TypeOK
<1>1. Init => TypeInv
  BY TypeInit
<1>2. TypeInv /\ [UNext]_uvars => TypeInv'
  BY TypeNext
<1>3. TypeInv => TypeOK
  BY DEF TypeInv
<1> QED BY <1>1, <1>2, <1>3, PTL DEF USpec

-------------------------------------------------------------------------------

\* The kernel's lock and the phases that run under it.
LockInv ==
    \A l \in Launchers : lock = l <=> pc[l] \in {"judging", "swap", "rollback"}

\* Outside a swap the install is one release.
Quiet ==
    clean /\ (\A l \in Launchers : ~Swapping(l)) => \E r \in 1 .. latest : Tree(disk, r)

\* What the record says about f is true of the install the swap began with.
Undoable(f) ==
    /\ f \in created => before[f] = NoFile
    /\ f \in overwritten \cup pruned => backup[f] = before[f]
    /\ f \notin created \cup overwritten \cup pruned => disk[f] = before[f]

\* How far the swap to release r has come with f.
Swapped(f, r) ==
    /\ f \in plan => f \in Ships(r) /\ f \notin created \cup overwritten \cup pruned
    /\ f \in prunable => f \notin Ships(r) /\ f \notin created \cup overwritten \cup pruned
    /\ f \in Ships(r) \ plan => disk[f] = Body[r][f]
    /\ f \in Shipped /\ f \notin Ships(r) \cup prunable => disk[f] = NoFile

SwapInv ==
    clean => \A l \in Launchers : Swapping(l) =>
        /\ \E b \in 1 .. latest : Tree(before, b)
        /\ \A f \in Files : Undoable(f) /\ (pc[l] = "swap" => Swapped(f, remote[l]))

HealInv == clean => \A l \in Launchers : ~healing[l]

IInv == TypeInv /\ LockInv /\ Quiet /\ SwapInv /\ HealInv

----------------------------------------------------------------------------

LEMMA InvInit == Init => IInv
<1> SUFFICES ASSUME Init PROVE IInv
  OBVIOUS
<1>1. TypeInv
  BY TypeInit
<1>2. LockInv
  BY ConstantTypes DEF Init, LockInv
<1>3. Tree(disk, 1) /\ 1 \in 1 .. latest
  BY ConstantTypes DEF Init, Tree, Shipped
<1>4. SwapInv /\ HealInv
  BY DEF Init, SwapInv, HealInv, Swapping
<1> QED BY <1>1, <1>2, <1>3, <1>4 DEF IInv, Quiet

\* At most one launcher swaps, and nobody does while the lock is free.
LEMMA OneSwapper ==
    ASSUME LockInv, NEW l \in Launchers, lock \in {l, None}
    PROVE  \A m \in Launchers : m # l => ~Swapping(m) /\ lock # m
BY ConstantTypes DEF LockInv, Swapping

LEMMA LockCheck ==
    ASSUME TypeOK, LockInv, NEW l \in Launchers, Check(l) PROVE LockInv'
<1> USE ConstantTypes DEF LockInv
<1>0. pc \in [Launchers -> Phases]
  BY DEF TypeOK
<1>1. CASE lock' = lock
  <2>1. PICK p \in Phases : pc' = [pc EXCEPT ![l] = p] /\ p \notin {"judging", "swap", "rollback"}
                            /\ pc[l] \notin {"judging", "swap", "rollback"}
    BY <1>1 DEF Check, ReadLocal, FetchLatest, FetchCached, Found, CheckFails, JudgeBegins,
       Judged, Downloaded, Skip, CheckEnds, Goto, Phases
  <2> QED BY <1>0, <1>1, <2>1
<1>2. CASE JudgeBegins(l)
  BY <1>0, <1>2 DEF JudgeBegins, Goto
<1>3. CASE Judged(l)
  <2>1. PICK p \in {"download", "idle"} : pc' = [pc EXCEPT ![l] = p] /\ lock' = None
    BY <1>3 DEF Judged, CheckEnds, Goto
  <2> QED BY <1>0, <1>3, <2>1 DEF Judged
<1> QED BY <1>1, <1>2, <1>3 DEF Check, ReadLocal, FetchLatest, FetchCached, Found,
        CheckFails, Downloaded, Skip

LEMMA LockSwap ==
    ASSUME TypeOK, LockInv, NEW l \in Launchers, Swap(l) \/ Rollback(l) PROVE LockInv'
<1> USE ConstantTypes DEF LockInv
<1>0. pc \in [Launchers -> Phases]
  BY DEF TypeOK
<1>1. CASE SwapBegins(l)
  BY <1>0, <1>1 DEF SwapBegins, Goto
<1>2. CASE SwapEnds(l) \/ RollbackEnds(l)
  BY <1>0, <1>2 DEF SwapEnds, RollbackEnds, CheckEnds, Goto
<1>3. CASE OverlayFails(l)
  BY <1>0, <1>3 DEF OverlayFails, Goto
<1>4. CASE UNCHANGED <<pc, lock>>
  BY <1>4
<1> QED BY <1>1, <1>2, <1>3, <1>4 DEF Swap, Rollback, PruneOne, PruneSkips, OverlayOne,
        UndoCreated, UndoOverwritten, UndoPruned, UndoFails

LEMMA LockNext == TypeOK /\ LockInv /\ [UNext]_uvars => LockInv'
<1> SUFFICES ASSUME TypeOK, LockInv, [UNext]_uvars PROVE LockInv'
  OBVIOUS
<1>1. CASE \E l \in Launchers : Check(l) \/ Swap(l) \/ Rollback(l)
  BY <1>1, LockCheck, LockSwap
<1>2. ASSUME NEW l \in Launchers, Crash(l) PROVE LockInv'
  BY <1>2, ConstantTypes DEF Crash, CheckEnds, Goto, LockInv, TypeOK
<1>3. CASE UNCHANGED <<pc, lock>>
  BY <1>3 DEF LockInv
<1> QED BY <1>1, <1>2, <1>3 DEF UNext, Publish, Edit, MarkerAges, uvars

----------------------------------------------------------------------------
(* Steps that leave the install and the record of the swap alone.          *)

LEMMA Frame ==
    ASSUME TypeOK, TypeOK', Quiet, SwapInv, latest' \in {latest, latest + 1},
           UNCHANGED <<disk, swapVars, clean>>,
           \A m \in Launchers : /\ Swapping(m)' <=> Swapping(m)
                                /\ Swapping(m) => UNCHANGED <<pc[m], remote[m]>>
    PROVE  Quiet' /\ SwapInv'
<1>1. latest \in Nat /\ latest' \in Nat
  BY ConstantTypes DEF TypeOK, Releases
<1>2. \A r \in 1 .. latest : r \in 1 .. latest'
  BY <1>1
<1>3. Quiet'
  <2> SUFFICES ASSUME clean', \A m \in Launchers : ~Swapping(m)'
               PROVE  \E r \in 1 .. latest' : Tree(disk', r)
    BY DEF Quiet, Tree
  <2>1. PICK r \in 1 .. latest : Tree(disk, r)
    BY DEF Quiet
  <2> QED BY <1>2, <2>1 DEF Tree
<1>4. SwapInv'
  <2> SUFFICES ASSUME clean', NEW m \in Launchers, Swapping(m)'
               PROVE  /\ \E b \in 1 .. latest' : Tree(before', b)
                      /\ \A f \in Files : /\ Undoable(f)'
                                          /\ pc'[m] = "swap" => Swapped(f, remote[m])'
    BY DEF SwapInv, Tree
  <2>1. Swapping(m) /\ pc'[m] = pc[m] /\ remote'[m] = remote[m] /\ clean
    OBVIOUS
  <2>2. PICK b \in 1 .. latest : Tree(before, b)
    BY <2>1 DEF SwapInv
  <2>3. before' = before /\ \E c \in 1 .. latest' : Tree(before', c)
    BY <1>2, <2>2 DEF swapVars, Tree
  <2>4. ASSUME NEW f \in Files
        PROVE  Undoable(f)' /\ (pc'[m] = "swap" => Swapped(f, remote[m])')
    <3>1. Undoable(f) /\ (pc[m] = "swap" => Swapped(f, remote[m]))
      BY <2>1 DEF SwapInv
    <3> QED BY <2>1, <3>1 DEF Undoable, Swapped, swapVars
  <2> QED BY <2>3, <2>4
<1> QED BY <1>3, <1>4

\* The files a release ships are the tester's in no case.
LEMMA ShipsShipped == \A r \in Releases : Ships(r) \subseteq Shipped
BY ReleaseAssumption DEF ReleaseAssumption, Ships, Shipped

\* An install that is one release verifies.
LEMMA SoundTree ==
    ASSUME NEW d, NEW r \in Releases, Tree(d, r)
    PROVE  Problems(d) = {}
<1>1. d[Manifest] = r /\ Project \in Ships(r) /\ Project # Manifest
  <2>1. /\ Manifest \in Shipped /\ Project \in Files /\ Project # Manifest
        /\ Body[r][Manifest] = r /\ Body[r][Project] = r
    BY ReleaseAssumption DEF ReleaseAssumption, Shipped
  <2>2. r # NoFile
    BY ReleaseAssumption DEF ReleaseAssumption, Releases, NoFile
  <2> QED BY <2>1, <2>2 DEF Tree, Ships
<1>2. Listed(d) = Ships(r) \ {Manifest} /\ Listed(d) # {}
  BY <1>1, ListedIs
<1>3. r \notin Scraps
  BY ReleaseAssumption DEF ReleaseAssumption, Releases, Behind
<1>4. Mismatched(d) = {}
  BY <1>1, <1>2, <1>3, ShipsShipped DEF Mismatched, Entry, Tree
<1> QED BY <1>2, <1>4 DEF Problems

LEMMA SafeCheck ==
    ASSUME IInv, TypeOK', NEW l \in Launchers, Check(l)
    PROVE  Quiet' /\ SwapInv' /\ HealInv'
<1>0. /\ TypeOK /\ LockInv /\ Quiet /\ SwapInv /\ HealInv
      /\ pc \in [Launchers -> Phases] /\ healing \in [Launchers -> BOOLEAN]
      /\ remote \in [Launchers -> 0 .. MaxRelease]
  BY DEF IInv, TypeInv, TypeOK
<1>1. UNCHANGED <<disk, swapVars, clean, latest>>
  BY DEF Check, ReadLocal, FetchLatest, FetchCached, Found, CheckFails, JudgeBegins,
     Judged, Downloaded, Skip, faultVars
<1>2. ~Swapping(l) /\ \E p \in Phases \ {"swap", "rollback"} : pc' = [pc EXCEPT ![l] = p]
  BY DEF Swapping, Phases, Check, ReadLocal, FetchLatest, FetchCached, Found, CheckFails,
     JudgeBegins, Judged, Downloaded, Skip, CheckEnds, Goto
<1>3. remote' = remote \/ \E r : remote' = [remote EXCEPT ![l] = r]
  BY DEF Check, ReadLocal, FetchLatest, FetchCached, Found, CheckFails, JudgeBegins,
     Judged, Downloaded, Skip, checkVars
<1>4. Quiet' /\ SwapInv'
  <2>1. \A m \in Launchers : /\ Swapping(m)' <=> Swapping(m)
                             /\ Swapping(m) => UNCHANGED <<pc[m], remote[m]>>
    BY <1>0, <1>2, <1>3 DEF Swapping
  <2> QED BY <1>0, <1>1, <2>1, Frame
<1>5. HealInv'
  <2>1. CASE Judged(l)
    <3> SUFFICES ASSUME clean PROVE \A m \in Launchers : ~healing'[m]
      BY <1>1 DEF HealInv
    <3>1. \A m \in Launchers : ~Swapping(m)
      BY <1>0, <1>2, <2>1, OneSwapper DEF Judged, LockInv
    <3>2. PICK r \in 1 .. latest : Tree(disk, r)
      BY <1>0, <3>1 DEF Quiet
    <3>3. Problems(disk) = {}
      <4>1. r \in Releases
        BY <1>0, <3>2, ConstantTypes DEF TypeOK, Releases
      <4> QED BY <3>2, <4>1, SoundTree
    <3>4. healing' = [healing EXCEPT ![l] = FALSE]
      BY <2>1, <3>3 DEF Judged, CheckEnds
    <3> QED BY <1>0, <3>4 DEF HealInv
  <2>2. CASE healing' = healing \/ healing' = [healing EXCEPT ![l] = FALSE]
    BY <1>0, <1>1, <2>2 DEF HealInv
  <2> QED BY <2>1, <2>2 DEF Check, ReadLocal, FetchLatest, FetchCached, Found, CheckFails,
          JudgeBegins, Downloaded, Skip, CheckEnds, checkVars
<1> QED BY <1>4, <1>5

----------------------------------------------------------------------------
(* The swap.                                                               *)

LEMMA SafeBegins ==
    ASSUME IInv, NEW l \in Launchers, SwapBegins(l)
    PROVE  Quiet' /\ SwapInv' /\ HealInv'
<1>0. /\ TypeOK /\ LockInv /\ Quiet /\ HealInv /\ pc \in [Launchers -> Phases]
      /\ remote[l] \in Releases
  BY RemoteType DEF IInv, TypeInv, TypeOK, SwapBegins
<1>1. \A m \in Launchers : ~Swapping(m)
  BY <1>0, OneSwapper DEF SwapBegins, LockInv, Swapping
<1>2. Swapping(l)' /\ \A m \in Launchers : Swapping(m)' => m = l
  BY <1>0, <1>1 DEF SwapBegins, Goto, Swapping
<1>3. HealInv'
  BY <1>0 DEF SwapBegins, HealInv, checkVars, faultVars
<1>4. SwapInv'
  <2> SUFFICES ASSUME clean
               PROVE  /\ \E b \in 1 .. latest : Tree(before', b)
                      /\ \A f \in Files : Undoable(f)' /\ Swapped(f, remote[l])'
    BY <1>2 DEF SwapInv, SwapBegins, checkVars, faultVars, Tree
  <2>1. PICK b \in 1 .. latest : Tree(disk, b)
    BY <1>0, <1>1 DEF Quiet
  <2>2. b \in Releases
    BY <1>0, <2>1, ConstantTypes DEF TypeOK, Releases
  <2>3. Tree(before', b)
    BY <2>1 DEF SwapBegins, Tree
  <2>4. ASSUME NEW f \in Files PROVE Undoable(f)' /\ Swapped(f, remote[l])'
    <3>1. Undoable(f)'
      BY DEF SwapBegins, Undoable
    <3>2. /\ plan' = Ships(remote[l]) /\ prunable' = Prunable(disk, remote[l])
          /\ created' = {} /\ overwritten' = {} /\ pruned' = {}
          /\ disk' = disk /\ remote' = remote
      BY DEF SwapBegins, checkVars
    <3>3. ASSUME f \in Shipped, f \notin Ships(remote[l]), f \notin Prunable(disk, remote[l])
          PROVE  disk[f] = NoFile
      <4>1. disk[Manifest] = b /\ Manifest \in Ships(remote[l])
        BY <1>0, <2>1, <2>2, ReleaseAssumption
           DEF ReleaseAssumption, Tree, Ships, Shipped, Releases, NoFile
      <4>2. f \notin NeverPrune /\ f # Manifest
        BY <1>0, <3>3, <4>1, ReleaseAssumption DEF ReleaseAssumption, Ships
      <4>3. f \in Ships(b) => f \in Listed(disk)
        BY <2>2, <4>1, <4>2, ListedIs
      <4>4. f \notin Ships(b) => disk[f] = NoFile
        BY <2>1, <3>3 DEF Tree, Ships
      <4> QED BY <3>3, <4>2, <4>3, <4>4 DEF Prunable
    <3>4. f \in Prunable(disk, remote[l]) => f \notin Ships(remote[l])
      BY DEF Prunable
    <3> QED BY <3>1, <3>2, <3>3, <3>4 DEF Swapped
  <2> QED BY <2>3, <2>4
<1>5. Quiet'
  BY <1>2 DEF Quiet
<1> QED BY <1>3, <1>4, <1>5

\* A step of the swap of l, or of its rollback, that keeps l swapping.
LEMMA SwapStep ==
    ASSUME IInv, NEW l \in Launchers, Swapping(l), Swapping(l)',
           UNCHANGED <<latest, remote, healing, before>>, clean' => clean,
           pc' = pc \/ pc' = [pc EXCEPT ![l] = "rollback"],
           clean' => \A f \in Files :
               Undoable(f)' /\ (pc'[l] = "swap" => Swapped(f, remote[l])')
    PROVE  Quiet' /\ SwapInv' /\ HealInv'
<1>0. LockInv /\ SwapInv /\ HealInv /\ pc \in [Launchers -> Phases]
  BY DEF IInv, TypeInv, TypeOK
<1>1. \A m \in Launchers : m # l => ~Swapping(m)
  BY <1>0, OneSwapper DEF LockInv, Swapping
<1>2. \A m \in Launchers : Swapping(m)' => m = l
  BY <1>0, <1>1 DEF Swapping
<1>3. Quiet'
  BY DEF Quiet
<1>4. SwapInv'
  <2> SUFFICES ASSUME clean'
               PROVE  /\ \E b \in 1 .. latest' : Tree(before', b)
                      /\ \A f \in Files : /\ Undoable(f)'
                                          /\ pc'[l] = "swap" => Swapped(f, remote[l])'
    BY <1>2 DEF SwapInv, Tree
  <2>1. PICK b \in 1 .. latest : Tree(before, b)
    BY <1>0 DEF SwapInv
  <2> QED BY <2>1 DEF Tree
<1>5. HealInv'
  BY <1>0 DEF HealInv
<1> QED BY <1>3, <1>4, <1>5

LEMMA SafeSwap ==
    ASSUME IInv, NEW l \in Launchers, Swap(l) \/ Rollback(l),
           ~SwapBegins(l), ~SwapEnds(l), ~RollbackEnds(l)
    PROVE  Quiet' /\ SwapInv' /\ HealInv'
<1>0. /\ TypeOK /\ SwapInv /\ pc \in [Launchers -> Phases]
      /\ disk \in [Files -> Content] /\ backup \in [Files -> Content]
      /\ plan \subseteq Files /\ prunable \subseteq Files
      /\ created \subseteq Files /\ overwritten \subseteq Files /\ pruned \subseteq Files
  BY DEF IInv, TypeInv, TypeOK
<1>1. /\ Swapping(l) /\ Swapping(l)' /\ UNCHANGED <<latest, remote, healing, before>>
      /\ clean' \in {clean, FALSE}
      /\ pc' = pc \/ pc' = [pc EXCEPT ![l] = "rollback"]
  BY <1>0 DEF Swap, Rollback, PruneOne, PruneSkips, OverlayOne, OverlayFails, UndoCreated,
     UndoOverwritten, UndoPruned, UndoFails, Goto, checkVars, faultVars, Swapping
<1>2. SUFFICES ASSUME clean', clean, NEW f \in Files,
                      Undoable(f) /\ (pc[l] = "swap" => Swapped(f, remote[l]))
               PROVE  Undoable(f)' /\ (pc'[l] = "swap" => Swapped(f, remote[l])')
  <2>1. clean' => clean
    BY <1>1
  <2>2. clean => \A f \in Files : Undoable(f) /\ (pc[l] = "swap" => Swapped(f, remote[l]))
    BY <1>0, <1>1 DEF SwapInv
  <2>3. clean' => \A f \in Files :
                     Undoable(f)' /\ (pc'[l] = "swap" => Swapped(f, remote[l])')
    BY <1>2, <2>1, <2>2
  <2> QED BY <1>1, <2>1, <2>3, SwapStep
<1>3. CASE PruneOne(l)
  <2>1. PICK g \in prunable : /\ prunable' = prunable \ {g}
                              /\ backup' = [backup EXCEPT ![g] = disk[g]]
                              /\ disk' = [disk EXCEPT ![g] = NoFile]
                              /\ pruned' = pruned \cup {g}
    BY <1>3, FirstIn DEF PruneOne
  <2>2. /\ UNCHANGED <<plan, created, overwritten, before, remote, pc>> /\ pc[l] = "swap"
    BY <1>3 DEF PruneOne, checkVars
  <2> QED BY <1>0, <1>2, <2>1, <2>2 DEF Undoable, Swapped
<1>4. CASE OverlayOne(l)
  <2>1. PICK g \in plan : /\ plan' = plan \ {g}
                          /\ Recorded(g)
                          /\ disk' = [disk EXCEPT ![g] = Body[remote[l]][g]]
    BY <1>4, FirstIn DEF OverlayOne
  <2>2. /\ UNCHANGED <<prunable, pruned, before, remote, pc>> /\ pc[l] = "swap"
        /\ prunable = {}
    BY <1>4 DEF OverlayOne, checkVars
  <2>3. Undoable(g) /\ Swapped(g, remote[l])
    BY <1>0, <1>1, <1>2, <2>1, <2>2 DEF SwapInv
  <2>4. disk[g] = before[g] /\ g \notin created \cup overwritten \cup pruned
        /\ g \in Ships(remote[l])
    BY <2>1, <2>3 DEF Undoable, Swapped
  <2>5. Undoable(f)'
    BY <1>0, <1>2, <2>1, <2>2, <2>4 DEF Undoable, Recorded
  <2>6. Swapped(f, remote[l])'
    BY <1>0, <1>2, <2>1, <2>2, <2>4 DEF Swapped, Recorded
  <2> QED BY <2>5, <2>6
<1>5. CASE OverlayFails(l)
  <2>1. PICK g \in plan :
           \/ UNCHANGED <<disk, backup, overwritten, created>>
           \/ Recorded(g) /\ \E c : disk' = [disk EXCEPT ![g] = c]
    BY <1>5, FirstIn DEF OverlayFails
  <2>2. UNCHANGED <<pruned, before>> /\ pc[l] = "swap" /\ pc'[l] = "rollback"
    BY <1>0, <1>5 DEF OverlayFails, Goto
  <2>3. Undoable(g) /\ Swapped(g, remote[l])
    BY <1>0, <1>1, <1>2, <2>1, <2>2 DEF SwapInv
  <2>4. disk[g] = before[g] /\ g \notin created \cup overwritten \cup pruned
    BY <2>1, <2>3 DEF Undoable, Swapped
  <2> QED BY <1>0, <1>2, <2>1, <2>2, <2>4 DEF Undoable, Recorded
<1>6. CASE UndoCreated(l)
  BY <1>0, <1>2, <1>6, FirstIn DEF UndoCreated, Undoable
<1>7. CASE UndoOverwritten(l)
  <2>1. PICK g \in overwritten : /\ overwritten' = overwritten \ {g}
                                 /\ disk' = [disk EXCEPT ![g] = backup[g]]
    BY <1>7, FirstIn DEF UndoOverwritten
  <2> QED BY <1>0, <1>2, <1>7, <2>1 DEF UndoOverwritten, Undoable
<1>8. CASE UndoPruned(l)
  <2>1. PICK g \in pruned : /\ pruned' = pruned \ {g}
                            /\ disk' = [disk EXCEPT ![g] = backup[g]]
    BY <1>8, FirstIn DEF UndoPruned
  <2> QED BY <1>0, <1>2, <1>8, <2>1 DEF UndoPruned, Undoable
<1>9. CASE PruneSkips(l) \/ UndoFails(l)
  BY <1>2, <1>9 DEF PruneSkips, UndoFails
<1> QED BY <1>3, <1>4, <1>5, <1>6, <1>7, <1>8, <1>9 DEF Swap, Rollback

\* With every step of the swap done, the install is the new release.
LEMMA SafeEnds ==
    ASSUME IInv, NEW l \in Launchers, SwapEnds(l) \/ RollbackEnds(l)
    PROVE  Quiet' /\ SwapInv' /\ HealInv'
<1>0. /\ TypeOK /\ LockInv /\ SwapInv /\ HealInv /\ pc \in [Launchers -> Phases]
      /\ remote[l] \in Releases /\ remote[l] \in 1 .. latest /\ Swapping(l)
      /\ healing \in [Launchers -> BOOLEAN]
  <2>1. Swapping(l)
    BY DEF SwapEnds, RollbackEnds, Swapping
  <2>2. remote[l] \in Releases /\ remote[l] <= latest /\ latest \in Releases
    BY <2>1, RemoteType DEF IInv, TypeInv, RemoteOK, Swapping, TypeOK
  <2> QED BY <2>1, <2>2, ConstantTypes DEF IInv, TypeInv, TypeOK, Releases
<1>1. UNCHANGED <<disk, clean, latest>> /\ pc' = [pc EXCEPT ![l] = "idle"]
      /\ healing' = [healing EXCEPT ![l] = FALSE]
  BY DEF SwapEnds, RollbackEnds, CheckEnds, Goto, faultVars
<1>2. \A m \in Launchers : ~Swapping(m)'
  BY <1>0, <1>1, OneSwapper DEF LockInv, Swapping
<1>3. SwapInv' /\ HealInv'
  BY <1>0, <1>1, <1>2 DEF SwapInv, HealInv
<1>4. Quiet'
  <2> SUFFICES ASSUME clean PROVE \E r \in 1 .. latest : Tree(disk, r)
    BY <1>1 DEF Quiet, Tree
  <2>1. \A f \in Files : Undoable(f) /\ (pc[l] = "swap" => Swapped(f, remote[l]))
    BY <1>0 DEF SwapInv
  <2>2. CASE SwapEnds(l)
    <3>1. Tree(disk, remote[l])
      BY <2>1, <2>2 DEF SwapEnds, Swapped, Tree, Ships, Shipped
    <3> QED BY <1>0, <3>1
  <2>3. CASE RollbackEnds(l)
    <3>1. PICK b \in 1 .. latest : Tree(before, b)
      BY <1>0 DEF SwapInv
    <3>2. \A f \in Files : disk[f] = before[f]
      BY <2>1, <2>3 DEF RollbackEnds, Undoable
    <3>3. Tree(disk, b)
      BY <3>1, <3>2 DEF Tree, Shipped
    <3> QED BY <3>3
  <2> QED BY <2>2, <2>3
<1> QED BY <1>3, <1>4

\* Only a launcher killed in a swap leaves its mark on the install.
LEMMA CrashOutside ==
    ASSUME NEW l \in Launchers, Crash(l), ~Swapping(l)
    PROVE  UNCHANGED <<disk, swapVars, clean, blamed, latest>>
<1>1. Copying(l) = {}
  BY DEF Copying, Swapping
<1> QED BY <1>1 DEF Crash, Swapping

LEMMA SafeWorld ==
    ASSUME IInv, TypeOK',
           Publish \/ Edit \/ MarkerAges \/ UNCHANGED uvars
           \/ \E l \in Launchers : Crash(l)
    PROVE  Quiet' /\ SwapInv' /\ HealInv'
<1>0. TypeOK /\ LockInv /\ Quiet /\ SwapInv /\ HealInv
  BY DEF IInv, TypeInv
<1>1. CASE Edit
  BY <1>1 DEF Edit, Quiet, SwapInv, HealInv
<1>2. CASE Publish \/ MarkerAges \/ UNCHANGED uvars
  <2>1. /\ UNCHANGED <<disk, swapVars, clean, pc, remote, healing>>
        /\ latest' \in {latest, latest + 1}
    BY <1>2 DEF Publish, MarkerAges, uvars, swapVars, checkVars, faultVars
  <2>2. Quiet' /\ SwapInv'
    BY <1>0, <2>1, Frame DEF Swapping
  <2> QED BY <1>0, <2>1, <2>2 DEF HealInv
<1>3. ASSUME NEW l \in Launchers, Crash(l) PROVE Quiet' /\ SwapInv' /\ HealInv'
  <2>1. CASE Swapping(l)
    BY <1>3, <2>1 DEF Crash, Swapping, Quiet, SwapInv, HealInv
  <2>2. CASE ~Swapping(l)
    <3>1. /\ UNCHANGED <<disk, swapVars, clean, latest>>
          /\ pc' = [pc EXCEPT ![l] = "idle"]
          /\ remote' = [remote EXCEPT ![l] = 0]
          /\ healing' = [healing EXCEPT ![l] = FALSE]
      BY <1>3, <2>2, CrashOutside DEF Crash, CheckEnds, Goto
    <3>2. \A m \in Launchers : /\ Swapping(m)' <=> Swapping(m)
                               /\ Swapping(m) => UNCHANGED <<pc[m], remote[m]>>
      BY <1>0, <2>2, <3>1 DEF Swapping, TypeOK
    <3>3. Quiet' /\ SwapInv'
      BY <1>0, <3>1, <3>2, Frame
    <3>4. HealInv'
      BY <1>0, <3>1 DEF HealInv, TypeOK
    <3> QED BY <3>3, <3>4
  <2> QED BY <2>1, <2>2
<1> QED BY <1>1, <1>2, <1>3

LEMMA InvNext == IInv /\ [UNext]_uvars => IInv'
<1> SUFFICES ASSUME IInv, [UNext]_uvars PROVE IInv'
  OBVIOUS
<1>1. TypeInv' /\ TypeOK' /\ LockInv'
  BY TypeNext, LockNext DEF IInv, TypeInv
<1>2. Quiet' /\ SwapInv' /\ HealInv'
  <2>1. ASSUME NEW l \in Launchers, Check(l) PROVE Quiet' /\ SwapInv' /\ HealInv'
    BY <1>1, <2>1, SafeCheck
  <2>2. ASSUME NEW l \in Launchers, Swap(l) \/ Rollback(l)
        PROVE  Quiet' /\ SwapInv' /\ HealInv'
    BY <2>2, SafeSwap, SafeBegins, SafeEnds
  <2> QED BY <1>1, <2>1, <2>2, SafeWorld DEF UNext
<1> QED BY <1>1, <1>2 DEF IInv

----------------------------------------------------------------------------

LEMMA UpdaterInvariant == USpec => []IInv
BY InvInit, InvNext, PTL DEF USpec

\* Whatever swaps failed and were rolled back, with the lock free and no crash,
\* edit or failed undo the install is exactly one published release.
THEOREM UpdaterQuietTree == USpec => []QuietTreeIsARelease
<1>1. IInv => QuietTreeIsARelease
  <2> SUFFICES ASSUME IInv, clean, lock = None
               PROVE  \E r \in 1 .. latest : Tree(disk, r)
    BY DEF QuietTreeIsARelease
  <2>1. \A l \in Launchers : ~Swapping(l)
    BY ConstantTypes DEF IInv, LockInv, Swapping
  <2> QED BY <2>1 DEF IInv, Quiet
<1> QED BY <1>1, UpdaterInvariant, PTL

\* A rollback whose steps all work leaves the install as the swap found it.
THEOREM UpdaterRollback == USpec => []RollbackRestores
<1>1. IInv => RollbackRestores
  <2> SUFFICES ASSUME IInv, NEW l \in Launchers, clean, pc[l] = "rollback",
                      created \cup overwritten \cup pruned = {}
               PROVE  disk = before
    BY DEF RollbackRestores
  <2>1. \A f \in Files : disk[f] = before[f]
    BY DEF IInv, SwapInv, Swapping, Undoable
  <2> QED BY <2>1 DEF IInv, TypeInv, TypeOK
<1> QED BY <1>1, UpdaterInvariant, PTL

\* No launcher heals an install that nobody has damaged.
THEOREM UpdaterHeals == USpec => []NoHealOfASoundTree
<1>1. IInv => NoHealOfASoundTree
  BY DEF IInv, HealInv, NoHealOfASoundTree
<1> QED BY <1>1, UpdaterInvariant, PTL

----------------------------------------------------------------------------
(* The tester's own files.                                                 *)

\* No swap has a file of the tester on any of its lists.
Spared(S) == S \cap Own = {}

OwnInv ==
    /\ OwnFilesKept
    /\ Spared(prunable) /\ Spared(plan)
    /\ Spared(created) /\ Spared(overwritten) /\ Spared(pruned)

LEMMA NoReleaseShipsOwn ==
    ASSUME NEW r \in Releases PROVE Spared(Ships(r)) /\ Spared(RemovedPaths[r])
BY ReleaseAssumption DEF ReleaseAssumption, Spared, Ships, Shipped, NoFile

LEMMA OwnSwapBegins ==
    ASSUME TypeInv, OwnInv, NEW l \in Launchers, SwapBegins(l) PROVE OwnInv'
<1>1. remote[l] \in Releases
  BY RemoteType DEF SwapBegins
<1>2. Spared(Listed(disk))
  BY NoReleaseShipsOwn, ListedIs DEF Spared
<1>3. Spared(Prunable(disk, remote[l]))
  BY <1>1, <1>2, NoReleaseShipsOwn DEF Prunable, Spared
<1>4. Spared(Ships(remote[l]))
  BY <1>1, NoReleaseShipsOwn
<1> QED BY <1>3, <1>4 DEF SwapBegins, OwnInv, OwnFilesKept, Spared

LEMMA OwnSwap ==
    ASSUME TypeInv, OwnInv, NEW l \in Launchers, Swap(l) \/ Rollback(l) PROVE OwnInv'
<1>1. Own \subseteq Files
  BY ReleaseAssumption DEF ReleaseAssumption
<1>0. disk \in [Files -> Content]
  BY DEF TypeInv, TypeOK
<1>2. CASE SwapBegins(l)
  BY <1>2, OwnSwapBegins
<1>3. CASE PruneOne(l) \/ PruneSkips(l)
  BY <1>0, <1>1, <1>3, FirstIn DEF PruneOne, PruneSkips, OwnInv, OwnFilesKept, Spared
<1>4. CASE OverlayOne(l)
  <2>1. PICK f \in First(plan) :
            /\ plan' = plan \ {f} /\ Recorded(f)
            /\ disk' = [disk EXCEPT ![f] = Body[remote[l]][f]]
    BY <1>4 DEF OverlayOne
  <2>2. f \notin Own
    BY <2>1, FirstIn DEF OwnInv, Spared
  <2>3. OwnFilesKept'
    BY <1>0, <1>1, <2>1, <2>2 DEF OwnInv, OwnFilesKept
  <2> QED BY <1>4, <2>1, <2>2, <2>3 DEF OverlayOne, Recorded, OwnInv, Spared
<1>5. CASE OverlayFails(l)
  <2>1. PICK f \in First(plan) :
            \/ UNCHANGED <<disk, backup, overwritten, created>>
            \/ Recorded(f) /\ \E c : disk' = [disk EXCEPT ![f] = c]
    BY <1>5 DEF OverlayFails
  <2>2. f \notin Own
    BY <2>1, FirstIn DEF OwnInv, Spared
  <2>3. OwnFilesKept'
    BY <1>0, <1>1, <2>1, <2>2 DEF OwnInv, OwnFilesKept
  <2> QED BY <1>5, <2>1, <2>2, <2>3 DEF OverlayFails, Recorded, OwnInv, Spared
<1>6. CASE SwapEnds(l) \/ RollbackEnds(l)
  BY <1>6 DEF SwapEnds, RollbackEnds, SwapForgotten, OwnInv, OwnFilesKept, Spared
<1>7. CASE UndoCreated(l)
  BY <1>0, <1>1, <1>7, FirstIn DEF UndoCreated, OwnInv, OwnFilesKept, Spared
<1>8. CASE UndoOverwritten(l) \/ UndoPruned(l)
  BY <1>0, <1>1, <1>8, FirstIn DEF UndoOverwritten, UndoPruned, OwnInv, OwnFilesKept, Spared
<1>9. CASE UndoFails(l)
  <2>1. disk' = disk \/ \E f \in overwritten \cup pruned : \E c : disk' = [disk EXCEPT ![f] = c]
    BY <1>9, FirstIn DEF UndoFails, RestoreFails
  <2>2. OwnFilesKept'
    BY <1>0, <1>1, <2>1 DEF OwnInv, OwnFilesKept, Spared
  <2>3. created' \subseteq created /\ overwritten' \subseteq overwritten /\ pruned' \subseteq pruned
        /\ UNCHANGED <<prunable, plan>>
    BY <1>9 DEF UndoFails
  <2> QED BY <2>2, <2>3 DEF OwnInv, Spared
<1> QED BY <1>2, <1>3, <1>4, <1>5, <1>6, <1>7, <1>8, <1>9 DEF Swap, Rollback

LEMMA OwnNext == TypeInv /\ OwnInv /\ [UNext]_uvars => OwnInv'
<1> SUFFICES ASSUME TypeInv, OwnInv, [UNext]_uvars PROVE OwnInv'
  OBVIOUS
<1>0. disk \in [Files -> Content] /\ Own \subseteq Files /\ Editable \cap Own = {}
  BY ReleaseAssumption DEF TypeInv, TypeOK, ReleaseAssumption, Shipped
<1>1. ASSUME NEW l \in Launchers, Crash(l) PROVE OwnInv'
  <2>1. UNCHANGED swapVars \/ SwapForgotten
    BY <1>1 DEF Crash
  <2>3. disk' = disk \/ \E f \in plan \cup overwritten \cup pruned : \E c :
                            disk' = [disk EXCEPT ![f] = c]
    BY <1>1, FirstIn DEF Crash, Copying
  <2>2. OwnFilesKept'
    BY <1>0, <2>3 DEF OwnInv, OwnFilesKept, Spared
  <2> QED BY <2>1, <2>2 DEF SwapForgotten, swapVars, OwnInv, Spared
<1>2. CASE Edit
  BY <1>0, <1>2 DEF Edit, swapVars, OwnInv, OwnFilesKept, Spared
<1>3. CASE UNCHANGED <<disk, swapVars>>
  BY <1>3 DEF swapVars, OwnInv, OwnFilesKept, Spared
<1>4. ASSUME NEW l \in Launchers, Check(l) PROVE OwnInv'
  BY <1>3, <1>4 DEF Check, ReadLocal, FetchLatest, FetchCached, Found, CheckFails,
     JudgeBegins, Judged, Downloaded, Skip
<1> QED BY <1>1, <1>2, <1>3, <1>4, OwnSwap DEF UNext, Publish, MarkerAges, uvars, swapVars

\* No update, heal, prune, rollback or crash touches a file of the tester's.
THEOREM UpdaterOwnFiles == USpec => []OwnFilesKept
<1>1. Init => OwnInv
  BY ReleaseAssumption DEF ReleaseAssumption, Init, OwnInv, OwnFilesKept, Spared
<1>2. OwnInv => OwnFilesKept
  BY DEF OwnInv
<1>3. IInv => TypeInv
  BY DEF IInv
<1> QED BY <1>1, <1>2, <1>3, OwnNext, UpdaterInvariant, PTL DEF USpec

----------------------------------------------------------------------------
(* What a swap leaves behind.  The argument holds as long as nobody has    *)
(* put the manifest out of sight; from then on every file is blamed.       *)

\* f was there when the swap began, was put there by it, or has a culprit.
Known(f) == before[f] # NoFile \/ f \in blamed

\* A content no release and no missing file has.
Torn(c) == c \notin Releases \cup {NoFile}

\* The installed manifest is the old one, or the new one with its old copy kept.
ManifestKept(r) ==
    /\ before[Manifest] # NoFile
    /\ Manifest \notin created \cup prunable \cup pruned
    /\ Manifest \notin overwritten => disk[Manifest] = before[Manifest]
    /\ Manifest \in overwritten => /\ prunable = {}
                                   /\ backup[Manifest] = before[Manifest]
                                   /\ disk[Manifest] = r \/ Torn(disk[Manifest])

\* While l swaps or rolls back, from the install `before` towards r and back.
Traced(l, r) ==
    /\ Unlisted(before) \subseteq blamed
    /\ ManifestKept(r)
    /\ created \cup overwritten \cup plan \subseteq Ships(r)
    /\ \A f \in overwritten \cup pruned \cup prunable : Known(f)
    /\ \A f \in Shipped : disk[f] # NoFile => f \in created \/ Known(f)
    /\ pc[l] = "swap" => /\ plan \cap created = {}
                         /\ Manifest \in plan <=> Manifest \notin overwritten
                         /\ Manifest \in overwritten => disk[Manifest] = r
    /\ pc[l] = "rollback" => prunable = {}
    /\ pc[l] = "swap" \/ Manifest \in overwritten =>
         \A f \in Shipped \ Ships(r) : disk[f] # NoFile => f \in prunable \cup blamed

LeftInv ==
    \/ blamed = Files
    \/ /\ disk[Manifest] # NoFile
       /\ (\A l \in Launchers : ~Swapping(l)) => Unlisted(disk) \subseteq blamed
       /\ \A l \in Launchers : Swapping(l) => Traced(l, remote[l])

\* A body some release puts at its manifest is that release.
LEMMA ReleaseFiles ==
    ASSUME NEW r \in Releases
    PROVE  /\ Ships(r) \subseteq Shipped /\ NeverPrune \subseteq Ships(r)
           /\ Manifest \in Ships(r) /\ Body[r][Manifest] = r
           /\ r # NoFile /\ ~Torn(r)
           /\ \A f, c : \A x \in CutShort(f, c) : Torn(x)
           /\ Manifest \in Shipped /\ Shipped \subseteq Files
<1>1. Torn(Damaged) /\ \A x \in Scraps : Torn(x)
  BY ReleaseAssumption DEF ReleaseAssumption, Torn, Releases, NoFile, Damaged, Behind
<1>2. \A f, c : \A x \in CutShort(f, c) : Torn(x)
  BY <1>1 DEF CutShort
<1> QED BY <1>2, ReleaseAssumption
        DEF ReleaseAssumption, Ships, Shipped, Releases, NoFile, Torn

\* What a manifest lists depends on its own body only.
LEMMA ListedSame ==
    ASSUME NEW d, NEW e, d[Manifest] = e[Manifest] PROVE Listed(d) = Listed(e)
BY DEF Listed

LEMMA LeftInit == Init => LeftInv
<1> SUFFICES ASSUME Init PROVE LeftInv
  OBVIOUS
<1>1. disk[Manifest] = 1 /\ 1 \in Releases
  BY ConstantTypes, ReleaseFiles, ReleaseAssumption DEF Init, Shipped, ReleaseAssumption
<1>2. Unlisted(disk) = {}
  BY <1>1, ListedIs DEF Init, Unlisted, Ships, Shipped, NoFile
<1>3. \A l \in Launchers : ~Swapping(l)
  BY DEF Init, Swapping
<1> QED BY <1>1, <1>2, <1>3 DEF LeftInv, NoFile

\* The install with f gone from it, or spoilt where it was, has no more
\* unlisted files than before.
LEMMA LeftEdit == ASSUME TypeInv, TypeOK', LeftInv, Edit PROVE LeftInv'
<1>1. PICK f \in Editable : \E c \in Spoilt(f) :
         /\ disk[f] # NoFile /\ disk' = [disk EXCEPT ![f] = c]
         /\ blamed' = IF f = Manifest THEN Files ELSE blamed
  BY DEF Edit
<1>2. UNCHANGED <<pc, remote, swapVars>> /\ disk \in [Files -> Content]
  BY DEF Edit, checkVars, TypeInv, TypeOK
<1>3. CASE f = Manifest \/ blamed = Files
  BY <1>1, <1>3 DEF LeftInv
<1>4. CASE f # Manifest /\ blamed # Files
  <2>1. disk'[Manifest] = disk[Manifest] /\ blamed' = blamed
        /\ \A g \in Files : disk'[g] # NoFile => disk[g] # NoFile
    BY <1>1, <1>2, <1>4, ConstantTypes
  <2>2. Listed(disk') = Listed(disk)
    BY <2>1, ListedSame
  <2>3. Unlisted(disk') \subseteq Unlisted(disk)
    BY <2>1, <2>2 DEF Unlisted, Shipped
  <2>4. ASSUME NEW l \in Launchers, Traced(l, remote[l]) PROVE Traced(l, remote[l])'
    BY <1>2, <2>1, <2>4 DEF Traced, ManifestKept, Known, swapVars, Unlisted, Listed, Shipped
  <2> QED BY <1>2, <1>4, <2>1, <2>3, <2>4 DEF LeftInv, Swapping
<1> QED BY <1>3, <1>4

\* Steps that leave the install, its record and the swapping launchers alone.
LEMMA LeftFrame ==
    ASSUME LeftInv, UNCHANGED <<disk, swapVars, blamed>>,
           \A m \in Launchers : /\ Swapping(m)' <=> Swapping(m)
                                /\ Swapping(m) => UNCHANGED <<pc[m], remote[m]>>
    PROVE  LeftInv'
<1>1. ASSUME NEW l \in Launchers, Swapping(l), Traced(l, remote[l])
      PROVE  Traced(l, remote[l])'
  BY <1>1 DEF Traced, ManifestKept, Known, swapVars, Unlisted, Listed
<1>2. Unlisted(disk') = Unlisted(disk)
  OBVIOUS
<1> QED BY <1>1, <1>2 DEF LeftInv

LEMMA LeftCheck ==
    ASSUME TypeInv, LeftInv, NEW l \in Launchers, Check(l) PROVE LeftInv'
<1>1. UNCHANGED <<disk, swapVars, blamed>>
  BY DEF Check, ReadLocal, FetchLatest, FetchCached, Found, CheckFails, JudgeBegins,
     Judged, Downloaded, Skip, faultVars
<1>2. PICK p \in Phases \ {"swap", "rollback"} : pc' = [pc EXCEPT ![l] = p]
  BY DEF Check, ReadLocal, FetchLatest, FetchCached, Found, CheckFails, JudgeBegins,
     Judged, Downloaded, Skip, CheckEnds, Goto, Phases
<1>3. ~Swapping(l) /\ \A m \in Launchers : m # l => remote'[m] = remote[m]
  BY DEF Check, ReadLocal, FetchLatest, FetchCached, Found, CheckFails, JudgeBegins,
     Judged, Downloaded, Skip, checkVars, Swapping, TypeInv, TypeOK
<1>4. \A m \in Launchers : /\ Swapping(m)' <=> Swapping(m)
                           /\ Swapping(m) => UNCHANGED <<pc[m], remote[m]>>
  BY <1>2, <1>3 DEF Swapping, TypeInv, TypeOK
<1> QED BY <1>1, <1>4, LeftFrame

\* A swap begins with what the installed manifest lists about to be pruned or
\* overlaid, and everything else accounted for.
LEMMA LeftBegins ==
    ASSUME IInv, TypeOK', LockInv', LeftInv, NEW l \in Launchers, SwapBegins(l)
    PROVE  LeftInv'
<1>0. /\ remote[l] \in Releases /\ pc \in [Launchers -> Phases]
      /\ blamed \subseteq Files /\ LockInv
  BY RemoteType DEF SwapBegins, IInv, TypeInv, TypeOK
<1>1. /\ lock = None /\ pc' = [pc EXCEPT ![l] = "swap"]
      /\ prunable' = Prunable(disk, remote[l]) /\ plan' = Ships(remote[l])
      /\ created' = {} /\ overwritten' = {} /\ pruned' = {} /\ before' = disk
      /\ UNCHANGED <<disk, remote, blamed>>
  BY DEF SwapBegins, Goto, checkVars, faultVars
<1>2. \A m \in Launchers : ~Swapping(m) /\ (m # l => ~Swapping(m)')
  BY <1>0, <1>1, ConstantTypes DEF LockInv, Swapping
<1>3. CASE blamed = Files
  BY <1>1, <1>3 DEF LeftInv
<1>4. CASE blamed # Files
  <2>1. disk[Manifest] # NoFile /\ Unlisted(disk) \subseteq blamed
    BY <1>2, <1>4 DEF LeftInv
  <2>2. ASSUME NEW f \in Shipped \ Ships(remote[l]), disk[f] # NoFile
        PROVE  f \in Prunable(disk, remote[l]) \cup blamed
    BY <1>0, <2>1, <2>2, ReleaseFiles DEF Prunable, Unlisted
  <2>3. Manifest \notin Prunable(disk, remote[l])
    BY <1>0, ReleaseFiles DEF Prunable
  <2>4. \A f \in Prunable(disk, remote[l]) : disk[f] # NoFile
    BY DEF Prunable
  <2>5. ManifestKept(remote[l])'
    BY <1>1, <2>1, <2>3 DEF ManifestKept
  <2>6. pc'[l] = "swap"
    BY <1>0, <1>1
  <2>7. Traced(l, remote[l])'
    BY <1>0, <1>1, <2>1, <2>2, <2>4, <2>5, <2>6, ReleaseFiles DEF Traced, Known
  <2> QED BY <1>1, <1>2, <2>1, <2>7 DEF LeftInv
<1> QED BY <1>3, <1>4

\* Whoever stops swapping leaves no file behind that is not listed or blamed.
LEMMA LeftEnds ==
    ASSUME IInv, LeftInv, TypeOK', LockInv', NEW l \in Launchers,
           SwapEnds(l) \/ RollbackEnds(l)
    PROVE  LeftInv'
<1>0. /\ remote[l] \in Releases /\ pc \in [Launchers -> Phases] /\ LockInv
      /\ Swapping(l) /\ plan \subseteq Files
  BY RemoteType DEF SwapEnds, RollbackEnds, Swapping, IInv, TypeInv, TypeOK
<1>1. UNCHANGED <<disk, blamed>> /\ pc' = [pc EXCEPT ![l] = "idle"]
  BY DEF SwapEnds, RollbackEnds, CheckEnds, Goto, faultVars
<1>2. \A m \in Launchers : ~Swapping(m)'
  BY <1>0, <1>1, OneSwapper DEF LockInv, Swapping
<1>3. CASE blamed = Files
  BY <1>1, <1>3 DEF LeftInv
<1>4. CASE blamed # Files
  <2>1. disk[Manifest] # NoFile /\ Traced(l, remote[l])
    BY <1>0, <1>4 DEF LeftInv
  <2>2. CASE SwapEnds(l)
    <3>1. disk[Manifest] = remote[l] /\ prunable = {}
      BY <1>0, <2>1, <2>2, ReleaseFiles DEF SwapEnds, Traced
    <3>2. Unlisted(disk) \subseteq blamed
      BY <1>0, <2>1, <2>2, <3>1, ReleaseFiles, ListedIs DEF SwapEnds, Unlisted, Traced
    <3> QED BY <1>1, <1>2, <2>1, <3>2 DEF LeftInv
  <2>3. CASE RollbackEnds(l)
    <3>1. disk[Manifest] = before[Manifest] /\ created = {}
      BY <2>1, <2>3 DEF RollbackEnds, Traced, ManifestKept
    <3>2. Listed(disk) = Listed(before)
      BY <3>1, ListedSame
    <3>3. Unlisted(disk) \subseteq blamed
      BY <2>1, <3>1, <3>2 DEF Unlisted, Traced, Known
    <3> QED BY <1>1, <1>2, <2>1, <3>3 DEF LeftInv
  <2> QED BY <2>2, <2>3
<1> QED BY <1>3, <1>4

\* A step within the swap or the rollback of l.
LEMMA TracedStep ==
    ASSUME IInv, LeftInv, TypeOK', LockInv', NEW l \in Launchers,
           Swapping(l), Swapping(l)', blamed \subseteq blamed', remote' = remote,
           blamed # Files /\ disk[Manifest] # NoFile /\ Traced(l, remote[l])
             => blamed' = Files \/ (disk'[Manifest] # NoFile /\ Traced(l, remote[l])')
    PROVE  LeftInv'
<1>1. \A m \in Launchers : m # l => ~Swapping(m)'
  BY ConstantTypes DEF LockInv, Swapping
<1>2. CASE blamed = Files
  BY <1>2 DEF LeftInv, TypeOK
<1>3. CASE blamed # Files
  BY <1>1, <1>3 DEF LeftInv
<1> QED BY <1>2, <1>3

LEMMA LeftPrune ==
    ASSUME IInv, TypeOK', NEW l \in Launchers, PruneOne(l) \/ PruneSkips(l),
           disk[Manifest] # NoFile, Traced(l, remote[l])
    PROVE  disk'[Manifest] # NoFile /\ Traced(l, remote[l])'
<1>0. /\ pc[l] = "swap" /\ disk \in [Files -> Content] /\ backup \in [Files -> Content]
      /\ remote[l] \in Releases /\ Manifest \in Files /\ Shipped \subseteq Files
      /\ UNCHANGED <<pc, remote, plan, created, overwritten, before>>
  BY RemoteType, ConstantTypes DEF PruneOne, PruneSkips, IInv, TypeInv, TypeOK,
     checkVars, Shipped
<1>1. CASE PruneOne(l)
  <2>1. PICK f \in prunable : /\ prunable' = prunable \ {f}
                              /\ backup' = [backup EXCEPT ![f] = disk[f]]
                              /\ disk' = [disk EXCEPT ![f] = NoFile]
                              /\ pruned' = pruned \cup {f} /\ blamed' = blamed
    BY <1>1, FirstIn DEF PruneOne, faultVars
  <2>2. f # Manifest /\ Manifest \notin overwritten
    BY <2>1 DEF Traced, ManifestKept
  <2>3. disk'[Manifest] = disk[Manifest] /\ ManifestKept(remote[l])'
    BY <1>0, <2>1, <2>2 DEF Traced, ManifestKept
  <2>4. \A g \in Shipped : disk'[g] # NoFile => g # f /\ disk[g] # NoFile
    BY <1>0, <2>1
  <2> QED BY <1>0, <2>1, <2>3, <2>4 DEF Traced, Known
<1>2. CASE PruneSkips(l)
  <2>1. PICK f \in prunable : prunable' = prunable \ {f} /\ blamed' = blamed \cup {f}
    BY <1>2, FirstIn DEF PruneSkips
  <2>2. UNCHANGED <<disk, backup, pruned>>
    BY <1>2 DEF PruneSkips
  <2>3. ManifestKept(remote[l])'
    BY <1>0, <2>1, <2>2 DEF Traced, ManifestKept
  <2> QED BY <1>0, <2>1, <2>2, <2>3 DEF Traced, Known
<1> QED BY <1>1, <1>2

\* A copy puts its file on record first; the manifest's is an overwrite.
LEMMA LeftCopy ==
    ASSUME IInv, TypeOK', NEW l \in Launchers, pc[l] = "swap", prunable = {},
           disk[Manifest] # NoFile, Traced(l, remote[l]),
           NEW g \in plan, NEW c, c = Body[remote[l]][g] \/ Torn(c),
           disk' = [disk EXCEPT ![g] = c], Recorded(g),
           UNCHANGED <<prunable, pruned, before, remote, blamed>>,
           \/ pc'[l] = "rollback" /\ plan' = plan
           \/ pc'[l] = "swap" /\ plan' = plan \ {g} /\ c = Body[remote[l]][g]
    PROVE  disk'[Manifest] # NoFile /\ Traced(l, remote[l])'
<1>0. /\ disk \in [Files -> Content] /\ backup \in [Files -> Content]
      /\ remote[l] \in Releases /\ Manifest \in Files /\ Shipped \subseteq Files
      /\ g \in Ships(remote[l]) /\ g \in Shipped /\ g \in Files
      /\ g \notin created
  BY RemoteType, ConstantTypes, ReleaseFiles DEF IInv, TypeInv, TypeOK, Shipped, Traced
<1>1. disk[g] = NoFile => g # Manifest
  OBVIOUS
<1>2. disk[g] # NoFile => Known(g)
  BY <1>0 DEF Traced
<1>3. /\ created' = IF disk[g] = NoFile THEN created \cup {g} ELSE created
      /\ overwritten' = IF disk[g] = NoFile THEN overwritten ELSE overwritten \cup {g}
      /\ backup' = IF disk[g] = NoFile THEN backup ELSE [backup EXCEPT ![g] = disk[g]]
  BY DEF Recorded
<1>4. disk'[Manifest] # NoFile /\ (g # Manifest => disk'[Manifest] = disk[Manifest])
      /\ (g = Manifest => disk'[Manifest] = c /\ (c = remote[l] \/ Torn(c)))
  BY <1>0, ReleaseFiles DEF Torn
<1>5. g = Manifest => Manifest \notin overwritten /\ disk[Manifest] = before[Manifest]
  BY DEF Traced, ManifestKept
<1>6. ManifestKept(remote[l])'
  <2>1. CASE g = Manifest
    BY <1>0, <1>3, <1>4, <1>5, <2>1 DEF Traced, ManifestKept
  <2>2. CASE g # Manifest
    BY <1>0, <1>3, <1>4, <2>2 DEF Traced, ManifestKept
  <2> QED BY <2>1, <2>2
<1>7. \A f \in Shipped : f # g => disk'[f] = disk[f]
  BY <1>0
<1>9. /\ created' \cup overwritten' \cup plan' \subseteq Ships(remote[l])
      /\ \A f \in overwritten' \cup pruned' \cup prunable' : Known(f)'
      /\ \A f \in Shipped : disk'[f] # NoFile => f \in created' \/ Known(f)'
  BY <1>0, <1>2, <1>3, <1>7 DEF Traced, Known
<1>10. pc'[l] = "swap" =>
          /\ plan' \cap created' = {}
          /\ Manifest \in plan' <=> Manifest \notin overwritten'
          /\ Manifest \in overwritten' => disk'[Manifest] = remote[l]
  BY <1>0, <1>1, <1>3, <1>4, <1>5, ReleaseFiles DEF Traced
<1>11. \A f \in Shipped \ Ships(remote[l]) : disk'[f] # NoFile => f \in blamed
  BY <1>0, <1>7 DEF Traced
<1>12. Unlisted(before)' \subseteq blamed' /\ prunable' = {} /\ remote'[l] = remote[l]
  BY DEF Traced, Unlisted, Listed
<1>13. Ships(remote[l])' = Ships(remote[l])
  BY <1>12 DEF Ships
<1> QED BY <1>4, <1>6, <1>9, <1>10, <1>11, <1>12, <1>13 DEF Traced

LEMMA LeftUndo ==
    ASSUME IInv, TypeOK', NEW l \in Launchers, Rollback(l), ~RollbackEnds(l),
           disk[Manifest] # NoFile, Traced(l, remote[l])
    PROVE  blamed' = Files \/ (disk'[Manifest] # NoFile /\ Traced(l, remote[l])')
<1>0. /\ pc[l] = "rollback" /\ disk \in [Files -> Content] /\ prunable = {}
      /\ remote[l] \in Releases /\ Manifest \in Files /\ Shipped \subseteq Files
      /\ UNCHANGED <<pc, remote, plan, prunable, backup, before>>
  BY RemoteType, ConstantTypes DEF Rollback, UndoCreated, UndoOverwritten, UndoPruned,
     UndoFails, Traced, IInv, TypeInv, TypeOK, checkVars, Shipped
<1>1. CASE UndoCreated(l)
  <2>1. PICK f \in created : created' = created \ {f} /\ disk' = [disk EXCEPT ![f] = NoFile]
    BY <1>1, FirstIn DEF UndoCreated
  <2>2. f # Manifest /\ UNCHANGED <<overwritten, pruned, blamed>>
    BY <1>1 DEF UndoCreated, Traced, ManifestKept, faultVars
  <2>3. \A g \in Shipped : disk'[g] # NoFile => g # f /\ disk[g] # NoFile
    BY <1>0, <2>1
  <2>4. disk'[Manifest] = disk[Manifest] /\ ManifestKept(remote[l])'
    BY <1>0, <2>1, <2>2 DEF Traced, ManifestKept
  <2> QED BY <1>0, <2>1, <2>2, <2>3, <2>4 DEF Traced, Known
<1>2. CASE UndoOverwritten(l)
  <2>1. PICK f \in overwritten : /\ overwritten' = overwritten \ {f}
                                 /\ disk' = [disk EXCEPT ![f] = backup[f]]
    BY <1>2, FirstIn DEF UndoOverwritten
  <2>2. UNCHANGED <<created, pruned, blamed>> /\ created = {}
    BY <1>2 DEF UndoOverwritten, faultVars
  <2>3. Known(f) /\ f \in Ships(remote[l])
    BY <2>1 DEF Traced
  <2>4. ManifestKept(remote[l])'
    BY <1>0, <2>1, <2>2 DEF Traced, ManifestKept
  <2>5. disk'[Manifest] # NoFile
    BY <1>0, <2>1 DEF Traced, ManifestKept
  <2> QED BY <1>0, <2>1, <2>2, <2>3, <2>4, <2>5 DEF Traced, Known
<1>3. CASE UndoPruned(l)
  <2>1. PICK f \in pruned : pruned' = pruned \ {f} /\ disk' = [disk EXCEPT ![f] = backup[f]]
    BY <1>3, FirstIn DEF UndoPruned
  <2>2. /\ UNCHANGED <<created, overwritten, blamed>> /\ created = {} /\ overwritten = {}
    BY <1>3 DEF UndoPruned, faultVars
  <2>3. f # Manifest /\ Known(f)
    BY <2>1 DEF Traced, ManifestKept
  <2>4. disk'[Manifest] = disk[Manifest] /\ ManifestKept(remote[l])'
    BY <1>0, <2>1, <2>2, <2>3 DEF Traced, ManifestKept
  <2> QED BY <1>0, <2>1, <2>2, <2>3, <2>4 DEF Traced, Known
<1>4. CASE UndoFails(l)
  <2>2. CASE \E f \in created : /\ created' = created \ {f} /\ blamed' = blamed \cup {f}
                                /\ UNCHANGED <<disk, overwritten, pruned>>
    <3>1. ManifestKept(remote[l])'
      BY <1>0, <2>2 DEF Traced, ManifestKept
    <3> QED BY <1>0, <2>2, <3>1 DEF Traced, Known
  <2>3. ASSUME created = {}, UNCHANGED <<created, pruned, blamed>>,
               NEW f \in overwritten \ {Manifest}, overwritten' = overwritten \ {f},
               disk' = disk \/ \E c : disk' = [disk EXCEPT ![f] = c]
        PROVE  disk'[Manifest] # NoFile /\ Traced(l, remote[l])'
    <3>1. disk'[Manifest] = disk[Manifest] /\ ManifestKept(remote[l])'
      BY <1>0, <2>3 DEF Traced, ManifestKept
    <3>2. Known(f) /\ f \in Ships(remote[l]) /\ \A g \in Shipped \ {f} : disk'[g] = disk[g]
      BY <1>0, <2>3 DEF Traced
    <3> QED BY <1>0, <2>3, <3>1, <3>2 DEF Traced, Known
  <2>4. ASSUME created = {}, overwritten = {},
               UNCHANGED <<created, overwritten, blamed>>,
               NEW f \in pruned, pruned' = pruned \ {f},
               disk' = disk \/ \E c : disk' = [disk EXCEPT ![f] = c]
        PROVE  disk'[Manifest] # NoFile /\ Traced(l, remote[l])'
    <3>1. f # Manifest /\ Known(f) /\ \A g \in Shipped \ {f} : disk'[g] = disk[g]
      BY <1>0, <2>4 DEF Traced, ManifestKept
    <3>2. disk'[Manifest] = disk[Manifest] /\ ManifestKept(remote[l])'
      BY <1>0, <2>4, <3>1 DEF Traced, ManifestKept
    <3> QED BY <1>0, <2>4, <3>1, <3>2 DEF Traced, Known
  <2>5. CASE blamed' = Files
    BY <2>5
  <2> QED BY <1>4, <2>2, <2>3, <2>4, <2>5, FirstIn DEF UndoFails, RestoreFails
<1> QED BY <1>1, <1>2, <1>3, <1>4 DEF Rollback

\* A launcher killed in a swap: what it created or was copying is blamed, and so
\* is everything when the copy was the manifest's own.
LEMMA LeftCrash ==
    ASSUME IInv, LeftInv, TypeOK', LockInv', NEW l \in Launchers, Crash(l)
    PROVE  LeftInv'
<1>0. /\ pc \in [Launchers -> Phases] /\ LockInv /\ disk \in [Files -> Content]
      /\ blamed \subseteq Files /\ Manifest \in Files /\ Shipped \subseteq Files
      /\ remote \in [Launchers -> 0 .. MaxRelease] /\ plan \subseteq Files
  BY ConstantTypes DEF IInv, TypeInv, TypeOK, Shipped
<1>1. /\ pc' = [pc EXCEPT ![l] = "idle"] /\ remote' = [remote EXCEPT ![l] = 0]
  BY DEF Crash, CheckEnds, Goto
<1>2. CASE ~Swapping(l)
  <2>1. UNCHANGED <<disk, swapVars, blamed>>
    BY <1>2, CrashOutside
  <2>2. \A m \in Launchers : /\ Swapping(m)' <=> Swapping(m)
                             /\ Swapping(m) => UNCHANGED <<pc[m], remote[m]>>
    BY <1>0, <1>1, <1>2 DEF Swapping
  <2> QED BY <2>1, <2>2, LeftFrame
<1>3. CASE Swapping(l)
  <2> DEFINE dropped == (created \cup First(plan)) \ Listed(disk')
             unseen == IF disk'[Manifest] \notin Releases THEN Unlisted(disk') ELSE {}
  <2>1. blamed' = blamed \cup dropped \cup unseen
    BY <1>3 DEF Crash, Swapping
  <2>2. \A m \in Launchers : ~Swapping(m)'
    BY <1>0, <1>1, <1>3, OneSwapper DEF LockInv, Swapping
  <2>3. CASE blamed = Files
    BY <2>1, <2>3 DEF LeftInv, TypeOK
  <2>4. CASE blamed # Files
    <3>1. remote[l] \in Releases /\ disk[Manifest] # NoFile /\ Traced(l, remote[l])
      BY <1>3, <2>4, RemoteType DEF LeftInv, Swapping, IInv
    <3>2. PICK g : \/ disk' = disk
                   \/ /\ \E c : Torn(c) /\ disk' = [disk EXCEPT ![g] = c]
                      /\ \/ g \in First(plan) \cup overwritten
                         \/ g \in pruned /\ overwritten = {}
      BY FirstIn, <3>1, ReleaseFiles DEF Crash, Copying
    <3>3. disk'[Manifest] # NoFile
      BY <1>0, <3>1, <3>2 DEF Torn
    <3>5. CASE disk'[Manifest] \notin Releases
      <4>1. Unlisted(disk') \subseteq blamed'
        BY <2>1, <3>5
      <4> QED BY <2>2, <3>3, <4>1 DEF LeftInv
    <3>4. CASE disk'[Manifest] \in Releases
      <4>1. /\ disk'[Manifest] = disk[Manifest]
            /\ \A f \in Shipped \ First(plan) : disk'[f] # NoFile => disk[f] # NoFile \/ Known(f)
        BY <1>0, <3>1, <3>2, <3>4 DEF Torn, Traced
      <4>2. SUFFICES ASSUME NEW f \in Unlisted(disk'), f \notin created \cup First(plan)
                     PROVE  f \in blamed
        BY <2>1, <2>2, <3>3 DEF LeftInv, Unlisted
      <4>3. /\ f \in Shipped /\ f # Manifest /\ f \notin Listed(disk) /\ Known(f)
        BY <3>1, <4>1, <4>2, ListedSame DEF Unlisted, Traced
      <4>4. CASE Manifest \notin overwritten
        <5>1. Listed(disk) = Listed(before)
          BY <3>1, <4>4, ListedSame DEF Traced, ManifestKept
        <5> QED BY <3>1, <4>3, <5>1 DEF Traced, Known, Unlisted
      <4>5. CASE Manifest \in overwritten
        <5>1. disk[Manifest] = remote[l] /\ prunable = {}
          BY <3>1, <3>4, <4>1, <4>5 DEF Traced, ManifestKept, Torn
        <5>2. f \notin Ships(remote[l])
          BY <3>1, <4>3, <5>1, ListedIs
        <5>3. disk[f] # NoFile
          BY <1>0, <3>1, <3>2, <4>2, <4>3, <4>5, <5>2 DEF Unlisted, Traced
        <5> QED BY <3>1, <4>3, <4>5, <5>1, <5>2, <5>3 DEF Traced
      <4> QED BY <4>4, <4>5
    <3> QED BY <3>4, <3>5
  <2> QED BY <2>3, <2>4
<1> QED BY <1>2, <1>3

LEMMA LeftNext == IInv /\ LeftInv /\ [UNext]_uvars => LeftInv'
<1> SUFFICES ASSUME IInv, LeftInv, [UNext]_uvars PROVE LeftInv'
  OBVIOUS
<1>0. TypeInv /\ TypeOK' /\ LockInv'
  BY TypeNext, LockNext DEF IInv, TypeInv
<1>1. CASE UNCHANGED <<disk, swapVars, blamed, pc, remote>>
  BY <1>1, LeftFrame DEF Swapping
<1>2. ASSUME NEW l \in Launchers, Swap(l), ~SwapBegins(l), ~SwapEnds(l) PROVE LeftInv'
  <2>1. /\ Swapping(l) /\ Swapping(l)' /\ blamed \subseteq blamed' /\ remote' = remote
    BY <1>2 DEF Swap, PruneOne, PruneSkips, OverlayOne, OverlayFails, Goto, Swapping,
       checkVars, faultVars, IInv, TypeInv, TypeOK
  <2>2. ASSUME disk[Manifest] # NoFile, Traced(l, remote[l])
        PROVE  disk'[Manifest] # NoFile /\ Traced(l, remote[l])'
    <3>1. CASE PruneOne(l) \/ PruneSkips(l)
      BY <1>0, <2>2, <3>1, LeftPrune
    <3>2. CASE OverlayOne(l)
      <4>1. PICK g \in plan : /\ plan' = plan \ {g} /\ Recorded(g)
                              /\ disk' = [disk EXCEPT ![g] = Body[remote[l]][g]]
        BY <3>2, FirstIn DEF OverlayOne
      <4>2. /\ UNCHANGED <<prunable, pruned, before, remote, blamed>> /\ prunable = {}
            /\ pc[l] = "swap" /\ pc'[l] = "swap"
        BY <3>2 DEF OverlayOne, checkVars, faultVars
      <4> QED BY <1>0, <2>2, <4>1, <4>2, LeftCopy
    <3>3. CASE OverlayFails(l)
      <4>1. PICK g \in plan :
               \/ UNCHANGED <<disk, backup, overwritten, created>>
               \/ Recorded(g) /\ \E c : Torn(c) /\ disk' = [disk EXCEPT ![g] = c]
        <5>1. \A f, c : \A x \in CutShort(f, c) : Torn(x)
          BY ReleaseFiles, ConstantTypes
        <5> QED BY <3>3, <5>1, FirstIn DEF OverlayFails
      <4>2. /\ UNCHANGED <<prunable, plan, pruned, before, remote, blamed>>
            /\ prunable = {} /\ pc[l] = "swap" /\ pc'[l] = "rollback"
        BY <3>3 DEF OverlayFails, checkVars, Goto, IInv, TypeInv, TypeOK
      <4>3. CASE UNCHANGED <<disk, backup, overwritten, created>>
        <5>1. ManifestKept(remote[l])'
          BY <2>2, <4>2, <4>3 DEF Traced, ManifestKept
        <5> QED BY <2>2, <4>2, <4>3, <5>1 DEF Traced, Known
      <4>4. CASE Recorded(g) /\ \E c : Torn(c) /\ disk' = [disk EXCEPT ![g] = c]
        BY <1>0, <2>2, <4>2, <4>4, LeftCopy
      <4> QED BY <4>1, <4>3, <4>4
    <3> QED BY <1>2, <3>1, <3>2, <3>3 DEF Swap
  <2> QED BY <1>0, <2>1, <2>2, TracedStep
<1>3. ASSUME NEW l \in Launchers, Rollback(l), ~RollbackEnds(l) PROVE LeftInv'
  <2>1. /\ Swapping(l) /\ Swapping(l)' /\ remote' = remote
    BY <1>3 DEF Rollback, UndoCreated, UndoOverwritten, UndoPruned, UndoFails, Swapping,
       checkVars
  <2>2. blamed \subseteq blamed'
    BY <1>3 DEF Rollback, UndoCreated, UndoOverwritten, UndoPruned, UndoFails, faultVars,
       IInv, TypeInv, TypeOK
  <2> QED BY <1>0, <1>3, <2>1, <2>2, LeftUndo, TracedStep
<1>4. ASSUME NEW l \in Launchers, Check(l) \/ Swap(l) \/ Rollback(l) \/ Crash(l)
      PROVE  LeftInv'
  BY <1>0, <1>2, <1>3, <1>4, LeftCheck, LeftBegins, LeftEnds, LeftCrash DEF Swap, Rollback
<1> QED BY <1>0, <1>1, <1>4, LeftEdit DEF UNext, Publish, MarkerAges, uvars, swapVars,
        checkVars, faultVars

\* Between swaps a file of some release is outside the installed manifest, where
\* no later prune can see it, only by a fault on record.
THEOREM UpdaterLeftovers == USpec => []LeftoversAreBlamed
<1>1. IInv /\ LeftInv => LeftoversAreBlamed
  <2> SUFFICES ASSUME IInv, LeftInv, lock = None PROVE Unlisted(disk) \subseteq blamed
    BY DEF LeftoversAreBlamed
  <2>1. \A l \in Launchers : ~Swapping(l)
    BY ConstantTypes DEF IInv, LockInv, Swapping
  <2> QED BY <2>1, ReleaseFiles DEF LeftInv, Unlisted, Shipped
<1> QED BY <1>1, LeftInit, LeftNext, UpdaterInvariant, PTL DEF USpec

-------------------------------------------------------------------------------
(* The swap is atomic                                                      *)

\* There is one launcher to choose.
LEMMA OneChosen ==
    ASSUME NEW p, NEW l \in Launchers,
           \A m \in Launchers : p[m] \in {"swap", "rollback"} <=> m = l
    PROVE  (CHOOSE m \in Launchers : p[m] \in {"swap", "rollback"}) = l
OBVIOUS

LEMMA ComingIs ==
    ASSUME NEW l \in Launchers
    PROVE  /\ LockInv /\ Swapping(l) => SwapOn /\ Coming = remote[l]
           /\ LockInv' /\ Swapping(l)' => SwapOn' /\ Coming' = remote'[l]
<1>1. ASSUME LockInv, Swapping(l) PROVE SwapOn /\ Coming = remote[l]
  <2>1. \A m \in Launchers : pc[m] \in {"swap", "rollback"} <=> m = l
    BY <1>1 DEF LockInv, Swapping
  <2> QED BY <1>1, <2>1, OneChosen DEF SwapOn, Coming, Swapping
<1>2. ASSUME LockInv', Swapping(l)' PROVE SwapOn' /\ Coming' = remote'[l]
  <2>1. \A m \in Launchers : pc'[m] \in {"swap", "rollback"} <=> m = l
    BY <1>2 DEF LockInv, Swapping
  <2> QED BY <1>2, <2>1, OneChosen DEF SwapOn, Coming, Swapping
<1> QED BY <1>1, <1>2

LEMMA AtomicInit == Init => Atomic!Init
<1> SUFFICES ASSUME Init PROVE Atomic!Init
  OBVIOUS
<1>1. ~SwapOn
  BY DEF Init, SwapOn, Swapping
<1>2. Seen = [f \in Shipped |-> Body[1][f]]
  BY <1>1 DEF Seen, Init, Shipped
<1> QED BY <1>1, <1>2, ConstantTypes DEF Atomic!Init, Init, Coming

\* Nothing to see: nobody begins or ends a swap, and outside one no file changes.
LEMMA SeenSame ==
    ASSUME LockInv, LockInv', before' = before, disk' = disk \/ SwapOn,
           \A m \in Launchers : /\ Swapping(m)' <=> Swapping(m)
                                /\ Swapping(m) => remote'[m] = remote[m]
    PROVE  UNCHANGED <<Seen, Coming>>
<1>1. CASE SwapOn
  <2>1. PICK l \in Launchers : Swapping(l)
    BY <1>1 DEF SwapOn
  <2>2. Swapping(l)' /\ remote'[l] = remote[l]
    BY <2>1
  <2>3. SwapOn' /\ Coming' = Coming
    BY <2>1, <2>2, ComingIs
  <2> QED BY <1>1, <2>3 DEF Seen
<1>2. CASE ~SwapOn
  BY <1>2 DEF SwapOn, Seen, Coming
<1> QED BY <1>1, <1>2

LEMMA AtomicCheck ==
    ASSUME IInv, LockInv', NEW l \in Launchers, Check(l)
    PROVE  UNCHANGED <<Seen, latest, Coming, clean>>
<1>1. UNCHANGED <<disk, before, clean, latest>>
  BY DEF Check, ReadLocal, FetchLatest, FetchCached, Found, CheckFails, JudgeBegins,
     Judged, Downloaded, Skip, faultVars, swapVars
<1>2. ~Swapping(l) /\ \E p \in Phases \ {"swap", "rollback"} : pc' = [pc EXCEPT ![l] = p]
  BY DEF Swapping, Phases, Check, ReadLocal, FetchLatest, FetchCached, Found, CheckFails,
     JudgeBegins, Judged, Downloaded, Skip, CheckEnds, Goto
<1>3. remote' = remote \/ \E r : remote' = [remote EXCEPT ![l] = r]
  BY DEF Check, ReadLocal, FetchLatest, FetchCached, Found, CheckFails, JudgeBegins,
     Judged, Downloaded, Skip, checkVars
<1>4. \A m \in Launchers : /\ Swapping(m)' <=> Swapping(m)
                           /\ Swapping(m) => remote'[m] = remote[m]
  BY <1>2, <1>3 DEF Swapping, IInv, TypeInv, TypeOK
<1> QED BY <1>1, <1>4, SeenSame DEF IInv

\* A sound swap brings a release that is out, and starts from what is seen.
LEMMA AtomicBegins ==
    ASSUME IInv, LockInv', NEW l \in Launchers, SwapBegins(l)
    PROVE  Atomic!Begin
<1>0. pc \in [Launchers -> Phases] /\ remote[l] \in 1 .. latest
  <2>1. remote[l] \in Releases /\ latest \in Releases /\ remote[l] <= latest
    BY RemoteType DEF IInv, TypeInv, RemoteOK, TypeOK, SwapBegins
  <2> QED BY <2>1, ConstantTypes DEF IInv, TypeInv, TypeOK, Releases
<1>1. pc' = [pc EXCEPT ![l] = "swap"] /\ before' = disk /\ UNCHANGED <<latest, remote, clean>>
  BY DEF SwapBegins, Goto, checkVars, faultVars
<1>2. ~SwapOn
  BY ConstantTypes DEF IInv, LockInv, SwapBegins, SwapOn, Swapping
<1>3. SwapOn' /\ Coming' = remote[l]
  BY <1>0, <1>1, ComingIs DEF Swapping
<1>4. Seen' = Seen /\ Coming = 0
  BY <1>1, <1>2, <1>3 DEF Seen, Coming
<1> QED BY <1>0, <1>1, <1>3, <1>4 DEF Atomic!Begin

\* While it goes on and none of its steps does harm, nothing is to be seen.
LEMMA AtomicGoesOn ==
    ASSUME IInv, LockInv', NEW l \in Launchers, clean',
           Swap(l) \/ Rollback(l), ~SwapBegins(l), ~SwapEnds(l), ~RollbackEnds(l)
    PROVE  UNCHANGED <<Seen, latest, Coming, clean>>
<1>0. pc \in [Launchers -> Phases]
  BY DEF IInv, TypeInv, TypeOK
<1>1. UNCHANGED <<before, latest, remote, clean>> /\ Swapping(l)
      /\ pc' \in {pc, [pc EXCEPT ![l] = "rollback"]}
  BY DEF Swap, PruneOne, PruneSkips, OverlayOne, OverlayFails, Rollback, UndoCreated,
     UndoOverwritten, UndoPruned, UndoFails, Goto, checkVars, faultVars, Swapping
<1>2. \A m \in Launchers : Swapping(m)' <=> Swapping(m)
  BY <1>0, <1>1 DEF Swapping
<1>3. SwapOn
  BY <1>1 DEF SwapOn
<1> QED BY <1>1, <1>2, <1>3, SeenSame DEF IInv

\* It ends with all of the new release, or with what it began with.
LEMMA AtomicEnds ==
    ASSUME IInv, LockInv', NEW l \in Launchers, clean, SwapEnds(l) \/ RollbackEnds(l)
    PROVE  Atomic!Commit \/ Atomic!Abort
<1>0. /\ LockInv /\ Swapping(l) /\ pc \in [Launchers -> Phases] /\ remote[l] \in Releases
  <2>1. Swapping(l)
    BY DEF SwapEnds, RollbackEnds, Swapping
  <2> QED BY <2>1, RemoteType DEF IInv, TypeInv, TypeOK, Swapping
<1>1. UNCHANGED <<disk, clean, latest>> /\ pc' = [pc EXCEPT ![l] = "idle"]
  BY DEF SwapEnds, RollbackEnds, CheckEnds, Goto, faultVars
<1>2. ~SwapOn' /\ SwapOn /\ Coming = remote[l]
  <2>1. \A m \in Launchers : ~Swapping(m)'
    BY <1>0, <1>1, OneSwapper DEF LockInv, Swapping
  <2> QED BY <1>0, <2>1, ComingIs DEF SwapOn
<1>3. Coming' = 0 /\ Seen' = [f \in Shipped |-> disk[f]] /\ Coming # 0
      /\ Seen = [f \in Shipped |-> before[f]]
  BY <1>0, <1>1, <1>2, ConstantTypes DEF Coming, Seen, Releases
<1>4. \A f \in Files : Undoable(f) /\ (pc[l] = "swap" => Swapped(f, remote[l]))
  BY <1>0 DEF IInv, SwapInv
<1>5. CASE SwapEnds(l)
  <2>1. \A f \in Shipped : disk[f] = Body[remote[l]][f]
    BY <1>4, <1>5 DEF SwapEnds, Swapped, Ships, Shipped
  <2>2. Seen' = [r \in Releases |-> [f \in Shipped |-> Body[r][f]]][Coming]
    BY <1>0, <1>2, <1>3, <2>1
  <2> QED BY <1>1, <1>3, <2>2 DEF Atomic!Commit
<1>6. CASE RollbackEnds(l)
  <2>1. \A f \in Shipped : disk[f] = before[f]
    BY <1>4, <1>6 DEF RollbackEnds, Undoable, Shipped
  <2>2. Seen' = Seen
    BY <1>3, <2>1
  <2> QED BY <1>1, <1>3, <2>2 DEF Atomic!Abort
<1> QED BY <1>5, <1>6

LEMMA AtomicWorld ==
    ASSUME IInv, LockInv', clean',
           Publish \/ Edit \/ MarkerAges \/ UNCHANGED uvars
           \/ \E l \in Launchers : Crash(l)
    PROVE  /\ latest' \in {latest, latest + 1}
           /\ UNCHANGED <<Seen, Coming, clean>>
<1>1. CASE Edit
  BY <1>1 DEF Edit
<1>2. CASE Publish \/ MarkerAges \/ UNCHANGED uvars
  <2>1. UNCHANGED <<disk, before, clean, pc, remote>> /\ latest' \in {latest, latest + 1}
    BY <1>2 DEF Publish, MarkerAges, uvars, swapVars, checkVars, faultVars
  <2> QED BY <2>1, SeenSame DEF IInv, Swapping
<1>3. ASSUME NEW l \in Launchers, Crash(l)
      PROVE  UNCHANGED <<Seen, latest, Coming, clean>>
  <2>1. ~Swapping(l)
    BY <1>3 DEF Crash, Swapping
  <2>2. /\ UNCHANGED <<disk, before, clean, latest>>
        /\ pc' = [pc EXCEPT ![l] = "idle"] /\ remote' = [remote EXCEPT ![l] = 0]
    BY <1>3, <2>1, CrashOutside DEF Crash, CheckEnds, Goto, swapVars
  <2>3. \A m \in Launchers : /\ Swapping(m)' <=> Swapping(m)
                             /\ Swapping(m) => remote'[m] = remote[m]
    BY <2>1, <2>2 DEF Swapping, IInv, TypeInv, TypeOK
  <2> QED BY <2>2, <2>3, SeenSame DEF IInv
<1> QED BY <1>1, <1>2, <1>3

LEMMA AtomicNext ==
    IInv /\ IInv' /\ [UNext]_uvars => [Atomic!Next]_<<Seen, latest, Coming, clean>>
<1> SUFFICES ASSUME IInv, IInv', [UNext]_uvars
             PROVE  Atomic!Next \/ UNCHANGED <<Seen, latest, Coming, clean>>
  OBVIOUS
<1>1. LockInv' /\ TypeOK /\ clean \in BOOLEAN /\ clean' \in BOOLEAN
  BY DEF IInv, TypeInv, TypeOK
<1>2. latest' \in {latest, latest + 1} /\ (clean' => clean)
  BY <1>1 DEF UNext, Check, Swap, Rollback, ReadLocal, FetchLatest, FetchCached, Found,
     CheckFails, JudgeBegins, Judged, Downloaded, Skip, SwapBegins, PruneOne, PruneSkips,
     OverlayOne, OverlayFails, SwapEnds, UndoCreated, UndoOverwritten, UndoPruned,
     UndoFails, RollbackEnds, Crash, Publish, Edit, MarkerAges, uvars, faultVars
<1>3. CASE clean' = FALSE
  BY <1>2, <1>3 DEF Atomic!Next, Atomic!Harm
<1>4. CASE clean' = TRUE
  <2>1. ASSUME NEW l \in Launchers, Check(l)
        PROVE  UNCHANGED <<Seen, latest, Coming, clean>>
    BY <1>1, <2>1, AtomicCheck
  <2>2. ASSUME NEW l \in Launchers, Swap(l) \/ Rollback(l)
        PROVE  Atomic!Next \/ UNCHANGED <<Seen, latest, Coming, clean>>
    <3>1. CASE SwapBegins(l)
      BY <1>1, <1>2, <1>4, <3>1, AtomicBegins DEF Atomic!Next
    <3>2. CASE SwapEnds(l) \/ RollbackEnds(l)
      BY <1>1, <1>2, <1>4, <3>2, AtomicEnds DEF Atomic!Next
    <3>3. CASE ~SwapBegins(l) /\ ~SwapEnds(l) /\ ~RollbackEnds(l)
      BY <1>1, <1>4, <2>2, <3>3, AtomicGoesOn
    <3> QED BY <3>1, <3>2, <3>3
  <2>3. CASE Publish \/ Edit \/ MarkerAges \/ UNCHANGED uvars
             \/ \E l \in Launchers : Crash(l)
    <3>1. latest' \in {latest, latest + 1} /\ UNCHANGED <<Seen, Coming, clean>>
      BY <1>1, <1>4, <2>3, AtomicWorld
    <3> QED BY <1>2, <1>4, <3>1 DEF Atomic!Next, Atomic!Publish
  <2> QED BY <2>1, <2>2, <2>3 DEF UNext
<1> QED BY <1>1, <1>3, <1>4

\* However many launchers check, download, swap and fail at once, the install
\* goes from one whole release to another or stays, until harm is done to it.
THEOREM UpdaterSwapsAreAtomic == USpec => SwapsAreAtomic
BY AtomicInit, AtomicNext, UpdaterInvariant, PTL DEF USpec, SwapsAreAtomic, Atomic!Spec

-------------------------------------------------------------------------------
(* What the operators promise by themselves                                *)

\* The tree a swap to release r leaves of d: prune, then overlay.
Overlaid(d, r) ==
    [f \in Files |-> IF f \in Ships(r) THEN Body[r][f]
                     ELSE IF f \in Prunable(d, r) THEN NoFile ELSE d[f]]

\* Pruning what the old manifest lists and the new tree lacks is enough: from an
\* install with nothing outside its manifest, whatever else is wrong with it, a
\* swap arrives at exactly the new release (_prunable).
THEOREM PruningIsEnough ==
    ASSUME NEW d, NEW r \in Releases, Unlisted(d) = {}
    PROVE  Tree(Overlaid(d, r), r)
<1> SUFFICES ASSUME NEW f \in Shipped PROVE Overlaid(d, r)[f] = Body[r][f]
  BY DEF Tree
<1>1. f \in Files /\ Manifest \in Ships(r) /\ NeverPrune \subseteq Ships(r)
  <2>1. /\ Manifest \in Files /\ NeverPrune \subseteq Files /\ f \in Files
        /\ Body[r][Manifest] = r /\ \A g \in NeverPrune : Body[r][g] # NoFile
    BY ReleaseAssumption DEF ReleaseAssumption, Shipped
  <2>2. r # NoFile
    BY ReleaseAssumption DEF Releases, NoFile
  <2> QED BY <2>1, <2>2 DEF Ships
<1>2. CASE f \in Ships(r)
  BY <1>1, <1>2 DEF Overlaid
<1>3. CASE f \notin Ships(r)
  <2>1. Body[r][f] = NoFile
    BY <1>1, <1>3 DEF Ships
  <2>2. d[f] # NoFile => f \in Prunable(d, r)
    BY <1>1, <1>3 DEF Unlisted, Prunable
  <2> QED BY <1>1, <1>3, <2>1, <2>2 DEF Overlaid
<1> QED BY <1>2, <1>3

\* An install that verifies holds each file its manifest lists with the body the
\* line names.  While no line is gone, that is the whole of a release, and the
\* version is read as that release; once one is, it is what the lines left say.
THEOREM VerifiedIsWhole ==
    ASSUME NEW d, Problems(d) = {}
    PROVE  /\ d[Manifest] \in Releases \cup Scraps
           /\ \A f \in Listed(d) : d[f] = Entry(d[Manifest], f)
           /\ d[Manifest] \in Releases =>
                /\ \A f \in Ships(d[Manifest]) : d[f] = Body[d[Manifest]][f]
                /\ LocalVersion(d) = d[Manifest]
<1>1. Listed(d) # {} /\ Mismatched(d) = {}
  BY DEF Problems
<1>2. d[Manifest] \in Releases \cup Scraps
  BY <1>1, ListedIs
<1>3. \A f \in Listed(d) : d[f] = Entry(d[Manifest], f)
  BY <1>1 DEF Mismatched
<1>4. ASSUME d[Manifest] \in Releases
      PROVE  /\ \A f \in Ships(d[Manifest]) : d[f] = Body[d[Manifest]][f]
             /\ LocalVersion(d) = d[Manifest]
  <2>1. /\ Project # Manifest /\ Project \in Files /\ d[Manifest] \notin Scraps
        /\ Body[d[Manifest]][Project] = d[Manifest]
        /\ Body[d[Manifest]][Manifest] = d[Manifest] /\ d[Manifest] # 0
    BY <1>4, ReleaseAssumption DEF ReleaseAssumption, Shipped, Releases, Behind
  <2>2. \A f \in Ships(d[Manifest]) \ {Manifest} : d[f] = Body[d[Manifest]][f]
    BY <1>3, <1>4, <2>1, ListedIs DEF Entry
  <2>3. d[Project] = d[Manifest]
    BY <2>1, <2>2 DEF Ships, NoFile
  <2> QED BY <1>4, <2>1, <2>2, <2>3 DEF LocalVersion, Quoted, Versions
<1> QED BY <1>2, <1>3, <1>4
=============================================================================
