SPECIFICATION ServicesSpec
CONSTANTS
  r1 = r1
  r2 = r2
  m1 = m1
  m2 = m2
  Requests = {r1, r2}
  Workloads <- ThreeWorkloads
  TenantOf <- TwoTenants
  Existing = {"x", "y"}
  RoleActions <- TwoRoles
  MembershipIds = {m1, m2}
  OwnerOf <- Owners
  KeySets = {{"k1"}, {"k1", "k2"}}
  MaxRevision = 2
  None = None
  Tasks = {t1}
  Digests = {d1, d2}
  Creators = {c1, c2, c3}
  Principals = {p1, p2}
  Results = {ok, other}
  LeaseSeconds = 2
  MaxTime = 5
  MaxClaims = 3
  Absent = Absent
  Reports = {"v1", "v2", "v3"}
  TransactionOf <- ThreeReports
  Billable = {"v1", "v2"}
  MeterScopes = {"s1", "s2"}
  Terms = {"one", "two"}
  Relays = {a1, a2, a3}
  Candidates <- SomeArtifacts
  Contents = {"small", "large"}
  SizeOf <- Sizes
  Rules <- TwoRules
  NoReceipt = NoReceipt
  BackupCalls = {b1, b2, b3}
  Paths = {"one", "two"}
  MaxVersion = 2
  UserVersion <- Migrations
  Empty = Empty
  Damaged = Damaged
  NoFile = NoFile
  Messages <- SomeMessages
  MaxTotal = 1
  MaxDepth = 1
  MaxParts = 4
  MaxAttachments = 2
  MaxAttachmentSize = 1
INVARIANTS
  EffectsAreAuthorized
  ReportedIsDurable
  ChainsVerify
  PublishedKeyIsFound
  LastHolderDecides
  AcknowledgedIsStored
  ChargedOnce
  ReceiptsAgree
  ManifestsHold
  AcceptedIsScanned
CHECK_DEADLOCK FALSE
