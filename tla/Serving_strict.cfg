SPECIFICATION Spec
SYMMETRY MCSymmetry
CONSTANTS
  bare = bare
  rich = rich
  r1 = r1
  single = single
  h1 = h1
  h2 = h2
  u = u
  site = site
  elsewhere = elsewhere
  Nil = Nil
  Provider = {bare, rich}
  Ref = {r1, single}
  SingleRef = single
  Environment <- MCEnvironment
  Uncacheable = {bare}
  Seeded <- MCSeeded
  MaxEvents = 4
  Handler = {h1, h2}
  Search <- MCSearch
  Fetch <- MCFetch
  Page = {u}
  Entry = {site, elsewhere}
  Covers <- MCCovers
  Format = {"markdown"}
  Supports <- MCSupports
  DocTtl = 1
  MaxTtl = 2
  MaxTime = 2
INVARIANT
  StrictAnswerEnriched
CHECK_DEADLOCK FALSE
