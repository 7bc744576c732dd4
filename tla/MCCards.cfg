SPECIFICATION CardsSpec
CONSTANTS
  Swaps = {s1}
  Native = {}
  Requotable = {s1}
  Preflights = {p1, p2, p3}
  None = None
  Slots = {t1, t2}
  Kinds <- CardOrRun
  Sims = {x1, x2}
  Workers = {w1, w2}
  NoSim = NoSim
SYMMETRY Symmetric
VIEW Unreported
INVARIANTS
  CardsTypeOK
  RunIsBounded
  ReceiptsAgree
  OneSwap
  SentOnce
  LimitReceiptsTrue
PROPERTIES
  KeepsPromise
  DecidedStays
