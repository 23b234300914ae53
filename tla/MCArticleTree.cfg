SPECIFICATION Spec
CONSTANTS
  a1 = a1 a2 = a2 a3 = a3 a4 = a4 i1 = i1 r1 = r1 r2 = r2
  Ids = {a1, a2, a3, a4}
  Images = {i1}
  Requests = {r1, r2}
  NoArticle = NoArticle
  NoImage = NoImage
  NoRequest = NoRequest
  MaxDepth = 3
  ChainLimit = 4
  MaxImages = 1
  Faults = {"upload", "commitReply", "crash"}
CHECK_DEADLOCK FALSE
SYMMETRY Interchangeable
INVARIANTS TreeIntact GalleryIntact LinkedIsStored
PROPERTIES ForestPromise
