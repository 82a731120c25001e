CONSTANTS
  Thread = {t1, t2}
  Page = {p1, p2, p3}
  HeaderSize = 16
  PageSize = 24
  Request <- MCRequest
  NoPage = NoPage
  Free = Free
SPECIFICATION Spec
SYMMETRY MCSymmetry
INVARIANTS
  Disjoint
  PagesAccounted
  GivenUpOnlyWhenFull
  ChunksStayInUse
