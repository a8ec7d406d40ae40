SPECIFICATION USpecLive
CONSTANTS
  Launchers = {l1, l2}
  None = None
  Files <- MCFiles
  Manifest = "MANIFEST.sha256"
  VersionFile = "VERSION"
  Project = "pyproject.toml"
  Own = {"notes"}
  Rank <- MCRank
  MaxRelease = 2
  Body <- MCBody
  Scraps <- MCScraps
  Lines <- MCLines
  RemovedPaths <- MCRemovedPaths
  NeverPrune = {"MANIFEST.sha256", "VERSION"}
  Editable = {"MANIFEST.sha256", "pyproject.toml", "tools"}
  MaxFaults = 1
INVARIANTS TypeOK NoHealOfASoundTree OwnFilesKept LeftoversAreBlamed
PROPERTIES SwapsAreAtomic Converges
