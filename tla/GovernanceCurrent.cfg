SPECIFICATION Spec
CONSTANTS
  None = None
  one = one
  two = two
  x1 = x1
  x2 = x2
  x3 = x3
  y1 = y1
  y2 = y2
  Readers = {x1, x2, x3}
  Snapshots <- MCSnapshots
  Roots <- MCRoots
  Instance = two
  MaxLifetime = 2
  Horizon = 2
  Principals = {x1, x2}
  Trusted = {x1, x2}
  Sessions = {y1, y2}
  Adapters = {one, two}
  Proofs = {one}
  SequenceNumbers = {1}
  Offered <- MCOffered
  Decisions <- MCDecisions
  TranscriptFreshness = 0
  EvidenceFreshness = 0
  MaxText = 2
  MaxHistory = 1
  RootSigners = {one}
  Callers <- MCCallers
  Issuers = {one}
  SnapshotIds = {one, two}
  Loaders = {one}
  Kinds = {one}
  Grants <- MCGrants
  Files = {one}
  Images <- MCImages
  Unusable = {}
  RootEnd = 3
  SnapshotLife = 2
  GrantLife = 1
  ApprovalLife = 1
  MaxSnapshotLife = 3
  MaxRoots = 8
  MaxDescriptors = 2
  MaxVersions = 2
  MaxRootVersions = 2
  MaxRestarts = 0
  MaxWrites = 0
  AnyPlace = FALSE
  Calls = {one}
  Executors = {one}
  Inodes = {one, two}
  Contents = {"good", "bad"}
  TrustedSigners = {one}
  Manifests <- MCManifests
  LaunchDecisions <- MCLaunchDecisions
  PrivateNames = {"secret"}
  DotDotNames = {"..", "..tmp"}
  MaxArguments = 2
  MaxRuntime = 2
  MaxAuthorizationLifetime = 2
  MaxTrustLifetime = 3
  EvidenceLifetime = 1
  MaxChanges = 2
SYMMETRY Symmetry
PROPERTIES
  DecisionIsLinearized
CHECK_DEADLOCK FALSE
