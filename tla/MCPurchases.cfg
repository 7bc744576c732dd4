SPECIFICATION PurchasesSpec
CONSTANTS
  Previews = {p1}
  Builds = {b1}
  None = None
  Slots = {s1, s2}
  Instants = {i1, i2}
  Cards = {k1, k2}
  Resources = {r1, r2}
  Offers <- MCOffers
  k1 = k1
  k2 = k2
  r1 = r1
  r2 = r2
  Plans = {n1, n2, n3}
  Budget = 1
  Nothing = Nothing
SYMMETRY Symmetric
INVARIANTS
  PurchasesTypeOK
  OneBroadcast
  LedgerSound
  FinalizedIsCounted
  SettledIsOnRecord
  SpendIsBounded
PROPERTIES
  KeepsPromise
