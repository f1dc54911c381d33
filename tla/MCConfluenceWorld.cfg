SPECIFICATION Spec
CONSTANTS
  ann = ann
  ben = ben
  home = home
  draft = draft
  t1 = t1
  t2 = t2
  t3 = t3
  Pages = {home, draft}
  Clients = {ann, ben}
  Contents = {t1, t2, t3}
  Trusted = Trusted
  Unset = Unset
  NoIfVersion = NoIfVersion
  BadIfVersion = BadIfVersion
  Seeded = {home}
  SeedContent <- MCSeedContent
  SeedOwner <- MCSeedOwner
  Readers <- MCReaders
  Writers <- MCWriters
  Creators = {ann}
  Located = {draft}
  NamedOwners = {ben}
  Guesses <- MCGuesses
  Drafts <- MCDrafts
  Tools <- MCTools
  MaxRequests <- MCMaxRequests
  MaxInFlight = 2
  MaxVersion = 2
INVARIANTS
  TypeOK
  HistoryMatchesPage
  NoLostUpdate
  AckedWritesKept
  ConflictHasWinner
PROPERTY
  ImplementsVersionedPages
CHECK_DEADLOCK FALSE
