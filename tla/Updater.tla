------------------------------ MODULE Updater ------------------------------
(***************************************************************************)
(* The self-update of an install directory that several launchers share    *)
(* (tools/updater*.py): the release check, the integrity pass and its      *)
(* heal, the swap of a release tree into the install with its prune and    *)
(* its rollback, and the update lock the kernel keeps for them.            *)
(*                                                                         *)
(* A file's content is the number of the body a release gives it; the      *)
(* bodies of one file in two releases may be equal.                        *)
(***************************************************************************)
EXTENDS Integers, FiniteSets

CONSTANTS
    Launchers,      \* the processes that poll for releases (launchers, qa-doctor)
    None,           \* no launcher: nobody holds the update lock
    Files,          \* the paths of the install the model tells apart
    Manifest,       \* MANIFEST.sha256
    VersionFile,    \* VERSION
    Project,        \* pyproject.toml, which the version is read from first
    Own,            \* files of the tester, which no release has shipped
    Rank,           \* the sorted order a release tree is walked in
    MaxRelease,     \* releases are 1..MaxRelease
    Body,           \* Body[r][f]: what release r puts at f, NoFile if nothing
    Scraps,         \* damaged contents of the manifest that still have lines
    Lines,          \* Lines[c][f]: the body scrap c has a line for at f, or NoFile
    RemovedPaths,   \* RemovedPaths[r]: the paths release r's REMOVED_PATHS lists
    NeverPrune,     \* release metadata and the launcher itself
    Editable,       \* files somebody may edit or delete by hand
    MaxFaults       \* bound: failed steps, killed launchers and edits by hand

NoFile == 0
Damaged == -1       \* a hand edit or a copy cut short: no release's body, and
                    \* no line of a manifest or version that can be read in it

Releases == 1 .. MaxRelease
Behind == -2        \* a version put in by hand: older than every release ...
Ahead == MaxRelease + 1     \* ... or newer
Versions == Releases \cup {Behind, Ahead}
Content == Int
Shipped == Files \ Own

ASSUME ReleaseAssumption ==
    /\ MaxRelease \in Nat \ {0}
    /\ None \notin Launchers
    /\ {Manifest, VersionFile, Project} \subseteq Shipped
    /\ Manifest \notin {VersionFile, Project}
    /\ Own \subseteq Files
    /\ NeverPrune \subseteq Shipped
    /\ Editable \subseteq Shipped
    /\ Rank \in [Files -> Int]
    /\ Body \in [Releases -> [Files -> Nat]]
    /\ Scraps \subseteq {c \in Int : c < Behind}
    /\ Lines \in [Scraps -> [Files -> Int]]
    /\ \A c \in Scraps : \A f \in Own \cup {Manifest} : Lines[c][f] = NoFile
    /\ RemovedPaths \in [Releases -> SUBSET Shipped]
    /\ \A r \in Releases :
        /\ \A f \in {Manifest, VersionFile, Project} : Body[r][f] = r
        /\ \A f \in NeverPrune : Body[r][f] # NoFile
        /\ \A f \in Own : Body[r][f] = NoFile
    /\ MaxFaults \in Nat

VARIABLES
    latest,         \* the newest release on the server
    disk,           \* disk[f]: the body at f in the install
    marker,         \* the release whose heal was tried inside the retry floor, or 0
    lock,           \* who the kernel has given the update lock, or None
    pc,             \* pc[l]: where launcher l is in its check
    local,          \* local[l]: the installed version as l read it, 0 if unreadable
    remote,         \* remote[l]: the release l found (and caches), or 0
    healing,        \* healing[l]: l downloads to heal, not to update
    prunable,       \* the swap in progress: files still to be pruned ...
    plan,           \* ... files still to be overlaid ...
    created,        \* ... and what it has done so far
    overwritten,
    pruned,
    backup,         \* backup[f]: the copy under backups/pre-update-*
    before,         \* auxiliary: the install as the swap in progress found it
    clean,          \* auxiliary: no crash, edit, skipped deletion or failed undo yet
    blamed,         \* auxiliary: files a fault has taken out of the manifest's sight
    faults          \* faults so far

swapVars == <<prunable, plan, created, overwritten, pruned, backup, before>>
checkVars == <<local, remote, healing>>
faultVars == <<clean, blamed, faults>>
uvars == <<latest, disk, marker, lock, pc, local, remote, healing, prunable,
           plan, created, overwritten, pruned, backup, before, clean, blamed,
           faults>>

----------------------------------------------------------------------------
(* What the code computes from the install and from a release.             *)

Ships(r) == {f \in Files : Body[r][f] # NoFile}

\* _parse_manifest_line: the body a manifest of content c has for f.  Every line
\* that parses counts, however many others are gone.
Entry(c, f) ==
    IF c \in Scraps THEN Lines[c][f]
    ELSE IF c \in Releases /\ f # Manifest THEN Body[c][f] ELSE NoFile

\* load_manifest: the paths a manifest lists, in part when it is damaged.
Listed(d) == {f \in Files : Entry(d[Manifest], f) # NoFile}

\* verify_integrity: the listed files that are missing or differ.
Mismatched(d) == {f \in Listed(d) : d[f] # Entry(d[Manifest], f)}

\* Mutant: the gate looks like a reader, for which no manifest means nothing wrong.
ProblemsOfReaders(d) == Mismatched(d)

\* integrity_problems: as above, and the manifest itself when it lists nothing.
Problems(d) == IF Listed(d) = {} THEN {Manifest} ELSE Mismatched(d)

\* The version a file of content c quotes, 0 when there is none to be read.
Quoted(c) == IF c \in Versions THEN c ELSE 0

\* Mutant: pyproject.toml is believed without its version being parsed.
LocalVersionUnparsed(d) == IF d[Project] # NoFile THEN d[Project] ELSE Quoted(d[VersionFile])

\* _local_version: pyproject.toml first, then VERSION.
LocalVersion(d) ==
    IF Quoted(d[Project]) # 0 THEN Quoted(d[Project]) ELSE Quoted(d[VersionFile])

\* is_newer: an unreadable version is never older.
IsNewer(r, v) == v # 0 /\ r > v

\* _is_same_release
IsSameRelease(r, v) == r = v

\* _manifest_heal_deferred: only the manifest is wrong, and a heal from this
\* release was tried inside the floor.
HealDeferred(d, r) == Problems(d) = {Manifest} /\ marker = r

\* Mutant: condition (c) dropped, so every file the release lacks goes.
PrunableUnlisted(d, r) ==
    {f \in Files : f \notin Ships(r) /\ f \notin NeverPrune /\ d[f] # NoFile}

\* Mutant: only the declared paths are pruned.
PrunableDeclared(d, r) ==
    {f \in RemovedPaths[r] : f \notin Ships(r) /\ f \notin NeverPrune /\ d[f] # NoFile}

\* _prunable: files the old manifest or REMOVED_PATHS names, which the new
\* tree does not ship and the install has.
Prunable(d, r) ==
    {f \in Listed(d) \cup RemovedPaths[r] :
        f \notin Ships(r) /\ f \notin NeverPrune /\ d[f] # NoFile}

First(S) == {f \in S : \A g \in S : Rank[f] <= Rank[g]}

Unlisted(d) == {f \in Shipped : d[f] # NoFile /\ f \notin Listed(d) \cup {Manifest}}

Tree(d, r) == \A f \in Shipped : d[f] = Body[r][f]

\* What a copy of content c to f leaves when it is cut short: a manifest keeps
\* some of its lines, or none.
CutShort(f, c) ==
    {Damaged} \cup {s \in Scraps : /\ f = Manifest
                                  /\ \A g \in Files : Lines[s][g] \in {NoFile, Entry(c, g)}}

\* What somebody may make of f by hand.
Spoilt(f) ==
    {NoFile, Damaged} \cup (IF f = Manifest THEN Scraps ELSE {})
        \cup (IF f \in {VersionFile, Project} THEN {Behind, Ahead} ELSE {})

----------------------------------------------------------------------------

Phases == {"idle", "fetch", "judge", "judging", "download", "apply", "swap",
           "rollback"}

Nothing == [f \in Files |-> NoFile]

Init ==
    /\ latest = 1
    /\ disk = [f \in Files |-> IF f \in Own THEN Damaged ELSE Body[1][f]]
    /\ marker = 0
    /\ lock = None
    /\ pc = [l \in Launchers |-> "idle"]
    /\ local = [l \in Launchers |-> 0]
    /\ remote = [l \in Launchers |-> 0]
    /\ healing = [l \in Launchers |-> FALSE]
    /\ prunable = {} /\ plan = {}
    /\ created = {} /\ overwritten = {} /\ pruned = {}
    /\ backup = Nothing /\ before = Nothing
    /\ clean = TRUE /\ blamed = {}
    /\ faults = 0

Goto(l, phase) == pc' = [pc EXCEPT ![l] = phase]

\* The check returns, and what it read is forgotten; the cached release stays.
CheckEnds(l) ==
    /\ Goto(l, "idle")
    /\ local' = [local EXCEPT ![l] = 0]
    /\ healing' = [healing EXCEPT ![l] = FALSE]

\* The swap is over: its record is gone, its backups are left behind.
SwapForgotten ==
    /\ prunable' = {} /\ plan' = {}
    /\ created' = {} /\ overwritten' = {} /\ pruned' = {}
    /\ backup' = Nothing /\ before' = Nothing

Fault == faults < MaxFaults /\ faults' = faults + 1

\* _check_release reads the installed version before it asks the server.
ReadLocal(l) ==
    /\ pc[l] = "idle"
    /\ Goto(l, "fetch")
    /\ local' = [local EXCEPT ![l] = LocalVersion(disk)]
    /\ UNCHANGED <<latest, disk, marker, lock, remote, healing, swapVars, faultVars>>

\* The release comes from the server, or from the cache of this process.
Found(l, r) ==
    /\ pc[l] = "fetch"
    /\ remote' = [remote EXCEPT ![l] = r]
    /\ Goto(l, IF IsNewer(r, local[l]) THEN "download" ELSE "judge")
    /\ UNCHANGED <<latest, disk, marker, lock, local, healing, swapVars, faultVars>>

FetchLatest(l) == Found(l, latest)

FetchCached(l) == remote[l] # 0 /\ Found(l, remote[l])

\* A failed request, a download that does not arrive or a tree the gates
\* refuse ends the check; so does a held lock further down.
CheckFails(l) ==
    /\ pc[l] \in {"fetch", "download"}
    /\ Fault
    /\ CheckEnds(l)
    /\ UNCHANGED <<latest, disk, marker, lock, remote, swapVars, clean, blamed>>

\* Mutant: the tree is hashed without the lock.
JudgeBeginsUnlocked(l) ==
    /\ pc[l] = "judge"
    /\ Goto(l, "judging")
    /\ UNCHANGED <<latest, disk, marker, lock, checkVars, swapVars, faultVars>>

\* The tree is hashed under the update lock ...
JudgeBegins(l) ==
    /\ pc[l] = "judge"
    /\ lock = None
    /\ lock' = l
    /\ Goto(l, "judging")
    /\ UNCHANGED <<latest, disk, marker, checkVars, swapVars, faultVars>>

\* ... and the verdict acted on after the lock is given back.
Judged(l) ==
    /\ pc[l] = "judging"
    /\ lock' = None
    /\ LET heal == /\ Problems(disk) # {}
                   /\ IsSameRelease(remote[l], local[l])
                   /\ ~HealDeferred(disk, remote[l])
       IN  IF heal
           THEN /\ Goto(l, "download")
                /\ healing' = [healing EXCEPT ![l] = TRUE]
                /\ marker' = remote[l]
                /\ local' = local
           ELSE CheckEnds(l) /\ marker' = marker
    /\ UNCHANGED <<latest, disk, remote, swapVars, faultVars>>

Downloaded(l) ==
    /\ pc[l] = "download"
    /\ Goto(l, "apply")
    /\ UNCHANGED <<latest, disk, marker, lock, checkVars, swapVars, faultVars>>

\* The lock does not wait: whoever does not get it skips the pass.
Skip(l) ==
    /\ pc[l] \in {"judge", "apply"}
    /\ lock # None
    /\ CheckEnds(l)
    /\ UNCHANGED <<latest, disk, marker, lock, remote, swapVars, faultVars>>

\* apply_update reads the old manifest before it writes anything.
SwapBegins(l) ==
    /\ pc[l] = "apply"
    /\ lock = None
    /\ lock' = l
    /\ Goto(l, "swap")
    /\ prunable' = Prunable(disk, remote[l])
    /\ plan' = Ships(remote[l])
    /\ created' = {} /\ overwritten' = {} /\ pruned' = {}
    /\ backup' = Nothing
    /\ before' = disk
    /\ UNCHANGED <<latest, disk, marker, checkVars, faultVars>>

\* Mutant: a deletion is not put on record.
PruneOneUnrecorded(l) ==
    /\ pc[l] = "swap"
    /\ \E f \in First(prunable) :
        /\ prunable' = prunable \ {f}
        /\ disk' = [disk EXCEPT ![f] = NoFile]
    /\ UNCHANGED <<latest, marker, lock, pc, checkVars, plan, created, overwritten,
                   pruned, backup, before, faultVars>>

PruneOne(l) ==
    /\ pc[l] = "swap"
    /\ \E f \in First(prunable) :
        /\ prunable' = prunable \ {f}
        /\ backup' = [backup EXCEPT ![f] = disk[f]]
        /\ disk' = [disk EXCEPT ![f] = NoFile]
        /\ pruned' = pruned \cup {f}
    /\ UNCHANGED <<latest, marker, lock, pc, checkVars, plan, created, overwritten,
                   before, faultVars>>

\* A file that cannot be deleted is logged and left.
PruneSkips(l) ==
    /\ pc[l] = "swap"
    /\ Fault
    /\ \E f \in First(prunable) :
        /\ prunable' = prunable \ {f}
        /\ blamed' = blamed \cup {f}
    /\ clean' = FALSE
    /\ UNCHANGED <<latest, disk, marker, lock, pc, checkVars, plan, created,
                   overwritten, pruned, backup, before>>

\* The record of what a copy is about to change, made before the copy.
Recorded(f) ==
    IF disk[f] # NoFile
    THEN /\ backup' = [backup EXCEPT ![f] = disk[f]]
         /\ overwritten' = overwritten \cup {f}
         /\ created' = created
    ELSE /\ created' = created \cup {f}
         /\ UNCHANGED <<backup, overwritten>>

OverlayOne(l) ==
    /\ pc[l] = "swap"
    /\ prunable = {}
    /\ \E f \in First(plan) :
        /\ plan' = plan \ {f}
        /\ Recorded(f)
        /\ disk' = [disk EXCEPT ![f] = Body[remote[l]][f]]
    /\ UNCHANGED <<latest, marker, lock, pc, checkVars, prunable, pruned, before,
                   faultVars>>

\* A copy that raises: its backup failed and nothing is on record, or the
\* copy itself did, and the file is cut short.
OverlayFails(l) ==
    /\ pc[l] = "swap"
    /\ prunable = {}
    /\ Fault
    /\ Goto(l, "rollback")
    /\ \E f \in First(plan) :
        \/ UNCHANGED <<disk, backup, overwritten, created>>
        \/ /\ Recorded(f)
           /\ \E c \in CutShort(f, Body[remote[l]][f]) : disk' = [disk EXCEPT ![f] = c]
    /\ UNCHANGED <<latest, marker, lock, checkVars, prunable, plan, pruned, before,
                   clean, blamed>>

\* A finished heal is not a reason to wait: its marker defers nothing.
SwapEnds(l) ==
    /\ pc[l] = "swap"
    /\ prunable = {} /\ plan = {}
    /\ lock' = None
    /\ CheckEnds(l)
    /\ SwapForgotten
    /\ marker' = IF healing[l] THEN 0 ELSE marker
    /\ UNCHANGED <<latest, disk, remote, faultVars>>

----------------------------------------------------------------------------
(* _rollback: the created files go, then the overwritten and then the      *)
(* pruned ones come back.                                                  *)

UndoCreated(l) ==
    /\ pc[l] = "rollback"
    /\ \E f \in First(created) :
        /\ created' = created \ {f}
        /\ disk' = [disk EXCEPT ![f] = NoFile]
    /\ UNCHANGED <<latest, marker, lock, pc, checkVars, prunable, plan, overwritten,
                   pruned, backup, before, faultVars>>

UndoOverwritten(l) ==
    /\ pc[l] = "rollback"
    /\ created = {}
    /\ \E f \in First(overwritten) :
        /\ overwritten' = overwritten \ {f}
        /\ disk' = [disk EXCEPT ![f] = backup[f]]
    /\ UNCHANGED <<latest, marker, lock, pc, checkVars, prunable, plan, created,
                   pruned, backup, before, faultVars>>

UndoPruned(l) ==
    /\ pc[l] = "rollback"
    /\ created = {} /\ overwritten = {}
    /\ \E f \in First(pruned) :
        /\ pruned' = pruned \ {f}
        /\ disk' = [disk EXCEPT ![f] = backup[f]]
    /\ UNCHANGED <<latest, marker, lock, pc, checkVars, prunable, plan, created,
                   overwritten, backup, before, faultVars>>

\* The restore of f fails: before its copy, or in the middle of it.
RestoreFails(f) ==
    \/ disk' = disk
    \/ \E c \in CutShort(f, backup[f]) : disk' = [disk EXCEPT ![f] = c]

\* An undo that fails is logged; the rest of the rollback goes on.  (Bound: a
\* rollback is the work of a fault, and one more is let happen in it.)
UndoFails(l) ==
    /\ pc[l] = "rollback"
    /\ faults <= MaxFaults
    /\ faults' = faults + 1
    /\ clean' = FALSE
    /\ \/ \E f \in First(created) :
            /\ created' = created \ {f}
            /\ blamed' = blamed \cup {f}
            /\ UNCHANGED <<disk, overwritten, pruned>>
       \/ /\ created = {}
          /\ \E f \in First(overwritten) :
                /\ overwritten' = overwritten \ {f}
                /\ RestoreFails(f)
                /\ blamed' = IF f = Manifest THEN Files ELSE blamed
          /\ UNCHANGED <<created, pruned>>
       \/ /\ created = {} /\ overwritten = {}
          /\ \E f \in First(pruned) : pruned' = pruned \ {f} /\ RestoreFails(f)
          /\ UNCHANGED <<created, overwritten, blamed>>
    /\ UNCHANGED <<latest, marker, lock, pc, checkVars, prunable, plan, backup, before>>

RollbackEnds(l) ==
    /\ pc[l] = "rollback"
    /\ created = {} /\ overwritten = {} /\ pruned = {}
    /\ lock' = None
    /\ CheckEnds(l)
    /\ SwapForgotten
    /\ UNCHANGED <<latest, disk, marker, remote, faultVars>>

----------------------------------------------------------------------------
(* The world around the launchers.                                         *)

Publish ==
    /\ latest < MaxRelease
    /\ latest' = latest + 1
    /\ UNCHANGED <<disk, marker, lock, pc, checkVars, swapVars, faultVars>>

\* The copies l may be in the middle of, as file and content.
Copying(l) ==
    IF pc[l] = "swap" /\ prunable = {}
    THEN {<<f, Body[remote[l]][f]>> : f \in First(plan)}
    ELSE IF pc[l] = "rollback" /\ created = {}
    THEN {<<f, backup[f]>> : f \in First(IF overwritten # {} THEN overwritten ELSE pruned)}
    ELSE {}

\* A launcher killed in the middle of a check: the kernel frees its lock, the
\* swap stays as far as it was, and a copy under way may be cut short.
Crash(l) ==
    /\ pc[l] # "idle"
    /\ Fault
    /\ CheckEnds(l)
    /\ remote' = [remote EXCEPT ![l] = 0]
    /\ lock' = IF lock = l THEN None ELSE lock
    /\ \/ disk' = disk
       \/ \E k \in Copying(l) : \E c \in CutShort(k[1], k[2]) :
            disk' = [disk EXCEPT ![k[1]] = c]
    /\ IF pc[l] \in {"swap", "rollback"}
       THEN /\ clean' = FALSE
            /\ SwapForgotten
            /\ blamed' = blamed
                  \cup ((created \cup First(plan)) \ Listed(disk'))
                  \cup (IF disk'[Manifest] \notin Releases THEN Unlisted(disk') ELSE {})
       ELSE UNCHANGED <<clean, blamed, swapVars>>
    /\ UNCHANGED <<latest, marker>>

\* Somebody edits or deletes an installed file by hand.
Edit ==
    /\ Fault
    /\ clean' = FALSE
    /\ \E f \in Editable : \E c \in Spoilt(f) :
        /\ disk[f] # NoFile /\ disk[f] # c
        /\ disk' = [disk EXCEPT ![f] = c]
        /\ blamed' = IF f = Manifest THEN Files ELSE blamed
    /\ UNCHANGED <<latest, marker, lock, pc, checkVars, swapVars>>

\* MANIFEST_HEAL_RETRY_INTERVAL_S passes.
MarkerAges ==
    /\ marker # 0
    /\ marker' = 0
    /\ UNCHANGED <<latest, disk, lock, pc, checkVars, swapVars, faultVars>>

----------------------------------------------------------------------------

Check(l) ==
    \/ ReadLocal(l) \/ FetchLatest(l) \/ FetchCached(l) \/ CheckFails(l)
    \/ JudgeBegins(l) \/ Judged(l) \/ Downloaded(l) \/ Skip(l)

Swap(l) ==
    \/ SwapBegins(l) \/ PruneOne(l) \/ PruneSkips(l) \/ OverlayOne(l)
    \/ OverlayFails(l) \/ SwapEnds(l)

Rollback(l) ==
    \/ UndoCreated(l) \/ UndoOverwritten(l) \/ UndoPruned(l) \/ UndoFails(l)
    \/ RollbackEnds(l)

UNext ==
    \/ \E l \in Launchers : Check(l) \/ Swap(l) \/ Rollback(l) \/ Crash(l)
    \/ Publish \/ Edit \/ MarkerAges

USpec == Init /\ [][UNext]_uvars

\* Every launcher goes on with its check. The cache lives 5 minutes and the
\* poll comes every 15, so a check sometimes asks the server; and a download
\* sometimes ends, and a swap begins, while nobody holds the lock.
UFairness ==
    /\ WF_uvars(MarkerAges)
    /\ \A l \in Launchers :
        /\ WF_uvars(\/ ReadLocal(l) \/ FetchCached(l) \/ JudgeBegins(l) \/ Judged(l)
                    \/ Downloaded(l) \/ Skip(l)
                    \/ PruneOne(l) \/ OverlayOne(l) \/ SwapEnds(l)
                    \/ UndoCreated(l) \/ UndoOverwritten(l) \/ UndoPruned(l)
                    \/ RollbackEnds(l))
        /\ SF_uvars(FetchLatest(l))
        /\ SF_uvars(lock = None /\ Downloaded(l))
        /\ SF_uvars(SwapBegins(l))

----------------------------------------------------------------------------

TypeOK ==
    /\ latest \in Releases
    /\ disk \in [Files -> Content]
    /\ marker \in 0 .. MaxRelease
    /\ lock \in Launchers \cup {None}
    /\ pc \in [Launchers -> Phases]
    /\ local \in [Launchers -> Versions \cup {0}]
    /\ remote \in [Launchers -> 0 .. MaxRelease]
    /\ healing \in [Launchers -> BOOLEAN]
    /\ prunable \subseteq Files /\ plan \subseteq Files
    /\ created \subseteq Files /\ overwritten \subseteq Files /\ pruned \subseteq Files
    /\ backup \in [Files -> Content]
    /\ before \in [Files -> Content]
    /\ clean \in BOOLEAN
    /\ blamed \subseteq Files
    /\ faults \in 0 .. MaxFaults + 1

\* With the lock free and no crash, edit or failed undo behind it, the install
\* is exactly one published release, whatever swaps have failed and been
\* rolled back: a deletion, a copy or a restore is never lost half-way.
QuietTreeIsARelease ==
    clean /\ lock = None => \E r \in 1 .. latest : Tree(disk, r)

\* A rollback whose every step works leaves the install as the swap found it.
RollbackRestores ==
    \A l \in Launchers :
        clean /\ pc[l] = "rollback" /\ created \cup overwritten \cup pruned = {}
            => disk = before

Swapping(l) == pc[l] \in {"swap", "rollback"}
SwapOn == \E l \in Launchers : Swapping(l)

\* While a swap is on, the install counts as the swap found it.
Seen == [f \in Shipped |-> IF SwapOn THEN before[f] ELSE disk[f]]
Coming == IF SwapOn THEN remote[CHOOSE l \in Launchers : Swapping(l)] ELSE 0

\* Refinement: a swap takes the install from one whole release to another in one
\* step or not at all, one swap at a time, however launchers check, download,
\* fail and roll back, until the first crash, edit or failed undo.
Atomic == INSTANCE AtomicInstall
            WITH Release <- [r \in Releases |-> [f \in Shipped |-> Body[r][f]]],
                 tree <- Seen, newest <- latest, coming <- Coming, sound <- clean
SwapsAreAtomic == Atomic!Spec

\* No launcher heals an install nobody has damaged: the half-overlaid tree of
\* another launcher's swap is never judged (the double update of 2026-10-21).
NoHealOfASoundTree ==
    clean => \A l \in Launchers : ~(healing[l] /\ pc[l] # "idle")

\* What the tester keeps in the install and no release ships is never touched.
OwnFilesKept == \A f \in Own : disk[f] = Damaged

\* Between swaps a file of some release is left behind outside the installed
\* manifest, where no later prune can see it, only by a fault on record: a
\* deletion that failed, a crash before the manifest was written, or a
\* manifest damaged by hand.
LeftoversAreBlamed == lock = None => Unlisted(disk) \subseteq blamed

\* Nobody can tell that the install is old: no version can be read in it, or one
\* put in by hand is newer than every release.
Unplaced(d) == LocalVersion(d) \in {0, Ahead}

\* Once releases, faults and edits stop, the shared checks bring an install
\* whose version can be told to the latest release and keep it there, in every
\* file; only a manifest that has lost lines and not all of them may hide that
\* files it no longer lists differ, for the gate takes what is left at its word.
Converges ==
    <>[](\/ Unplaced(disk)
         \/ /\ LocalVersion(disk) = latest
            /\ \/ \A f \in Ships(latest) : disk[f] = Body[latest][f]
               \/ disk[Manifest] \in Scraps /\ Problems(disk) = {})
=============================================================================
