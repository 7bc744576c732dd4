SPECIFICATION WebSpec
CONSTANTS
  e1 = e1
  s1 = s1
  s2 = s2
  Wallets = {s1, e1}
  Primary = s1
  Solana = s1
  Challenges = {c1, c2}
  Requests = {r1, r2}
  None = None
  MissingIsNull = TRUE
  Addresses = {e1, s1, s2}
  Namespace <- NamespaceOf
  Proofs = {c1, c2, c3}
  Handlers = {h1, h2}
  NoAddress = NoAddress
  Txs = {x1, x2}
  NoTx = NoTx
SYMMETRY Symmetric
CHECK_DEADLOCK FALSE
INVARIANTS
  WebTypeOK
  OneGrantPerSignature
  KillIsSeen
  ScopesAreDisjoint
  OneSessionPerSignature
  DepositedOnce
  BridgeStatusTrue
