---------------------------- MODULE AtomicInstall ----------------------------
(***************************************************************************)
(* What the update of a shared install promises: the files are those of    *)
(* one release, and a swap takes them to another in one step or not at     *)
(* all, one swap at a time.  After harm (a crash in a swap, a hand edit,   *)
(* an undo that fails) it promises nothing until it has healed.            *)
(***************************************************************************)
EXTENDS Naturals

CONSTANT Release    \* Release[r]: the files of release r

VARIABLES
    tree,       \* the files, as the last swap to end left them
    newest,     \* the newest release there is
    coming,     \* the release a swap in progress brings, or 0
    sound       \* no harm yet

Init == tree = Release[1] /\ newest = 1 /\ coming = 0 /\ sound = TRUE

Publish == newest' = newest + 1 /\ UNCHANGED <<tree, coming, sound>>

\* The release a swap brings was the newest when it was found, not always now.
Begin == /\ coming = 0
         /\ coming' \in 1 .. newest
         /\ UNCHANGED <<tree, newest, sound>>

Commit == /\ coming # 0
          /\ tree' = Release[coming] /\ coming' = 0
          /\ UNCHANGED <<newest, sound>>

Abort == /\ coming # 0
         /\ coming' = 0
         /\ UNCHANGED <<tree, newest, sound>>

\* From here on tree and coming may be anything.
Harm == sound' = FALSE /\ newest' \in {newest, newest + 1}

Next == (sound /\ (Publish \/ Begin \/ Commit \/ Abort)) \/ Harm

Spec == Init /\ [][Next]_<<tree, newest, coming, sound>>
==============================================================================
