SPECIFICATION Spec
CONSTANTS
  Pages <- MCPages
  Spaces <- MCSpaces
  Users <- MCUsers
  UserOrder <- MCUserOrder
  Aliases <- MCAliases
  GlobalAdmins = {}
  SpaceOf <- MCSpaceOf
  SpaceAdmins <- MCSpaceAdmins
  Target = "page-6"
  Seeded = {"page-6", "page-1"}
  SeedBody <- MCSeedBody
  SeedOwner <- MCSeedOwner
  Fragments = {"overview", "old", "new", "note", "deployment", "denied"}
  Old = "old"
  New = "new"
  Note = "note"
  Titles = {"policy", "retitled"}
  SeedTitle = "policy"
  NamedOwners = {"Alice Chen"}
  Reader = "alice"
  Stranger = "bob"
  None = None
  Grants <- MCGrants
  Drafts <- MCDrafts
  Invented = {"new"}
  Explanation = "denied"
  MaxCalls = 4
INVARIANTS
  TypeOK
  WriteImpliesRead
  AccessWasGranted
  PassWasEarned
  DutifulRunPasses
  CollateralIsFlagged
CHECK_DEADLOCK FALSE
