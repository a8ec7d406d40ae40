----------------------------- MODULE MCUpdater -----------------------------
(***************************************************************************)
(* Updater for TLC: two releases that differ in every way one file can.    *)
(* BUILD.md comes with the second, before its manifest in the sorted       *)
(* order; CHANGELOG.md goes with it; tools comes after pyproject.toml.     *)
(***************************************************************************)
EXTENDS Updater

MCFiles == {"BUILD.md", "CHANGELOG.md", "MANIFEST.sha256", "VERSION",
            "pyproject.toml", "tools", "notes"}

MCRank == [f \in MCFiles |->
    CASE f = "BUILD.md" -> 1 [] f = "CHANGELOG.md" -> 2 [] f = "MANIFEST.sha256" -> 3
      [] f = "VERSION" -> 4 [] f = "pyproject.toml" -> 5 [] f = "tools" -> 6
      [] f = "notes" -> 7]

MCBody == [r \in 1 .. MaxRelease |-> [f \in MCFiles |->
    CASE f = "BUILD.md" -> (IF r = 1 THEN NoFile ELSE 1)
      [] f = "CHANGELOG.md" -> (IF r = 1 THEN 1 ELSE NoFile)
      [] f = "notes" -> NoFile
      [] OTHER -> r]]

MCRemovedPaths == [r \in 1 .. MaxRelease |-> IF r = 1 THEN {} ELSE {"CHANGELOG.md"}]

\* What is left of a manifest: of the first release's its first line, of the
\* second's all lines but the last.
MCScraps == {-3, -4}
MCLines == [c \in MCScraps |-> [f \in MCFiles |->
    CASE c = -3 /\ f = "CHANGELOG.md" -> 1
      [] c = -4 /\ f = "BUILD.md" -> 1
      [] c = -4 /\ f \in {"VERSION", "pyproject.toml"} -> 2
      [] OTHER -> NoFile]]

USpecLive == USpec /\ UFairness
=============================================================================
