SPECIFICATION Spec
CONSTANTS
  p1 = p1
  p2 = p2
  kernel = kernel
  initrd = initrd
  disk = disk
  image = image
  dir = dir
  store = store
  id = id
  log = log
  odd = odd
  None = None
  Proc <- Procs
  Config <- Configs
  Path <- Paths
  Loose <- TheLoose
  NotUtf8 <- TheNotUtf8
SYMMETRY Symmetry
INVARIANT TypeOK
INVARIANT ValidateForesees
INVARIANT CreateInv
PROPERTY StoreIsNeverReset
PROPERTY LeftoversAreReusable
