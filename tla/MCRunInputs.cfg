SPECIFICATION Spec
CONSTANTS
  Curators = {"driver", "peer"}
  Roots = {"split", "runs"}
  RootsOf <- MCRootsOf
  Manifests <- MCManifests
  Modules <- MCModules
  Dirs = {"dev", "base"}
  Texts = {"first", "second", "base"}
  Drafts = {"second"}
  Contents <- MCContents
  Kinds <- MCKinds
  Published <- MCPublished
  Capabilities = {"read", "write"}
  Domain = {"read"}
  MaxEdits = 1
  MaxSaves = 1
  Driver = "driver"
  RunDirRoots <- MCRunDirRoots
  PackageDirs <- MCPackageDirs
  Baseline = "base"
  Tools = {"search_pages", "update_page", "summarize"}
  Required <- MCRequired
  Offers <- MCOffers
  Granted = {"read"}
  None = None
  Missing = Missing
  Torn = Torn
INVARIANTS
  InputsTypeOK
  MaterializedAsAllocated
  StartsFromOwnSplit
  RunsWhatItVouchesFor
CHECK_DEADLOCK FALSE
