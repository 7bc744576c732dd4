SPECIFICATION DesktopSpec
CONSTANTS
  s1 = s1
  j1 = j1
  m1 = m1
  m2 = m2
  Sessions = {s1}
  Grants = {g1, g2}
  Jobs = {j1}
  SessionOf <- OneSession
  Slots = {c1, c2}
  NoGrant = NoGrant
  Services = {sessions, grants, receipts}
  Name <- OwnName
  Cached = {grants}
  Forgiving = {sessions}
  Wiped = {sessions, receipts}
  Keys = {k1, k2, k3}
  NoKey = NoKey
  New = {n1}
  Existing = {e1}
  Limit = 2
  NoWallet = NoWallet
  Edits = {d1, d2}
  Mints = {m1, m2}
  Clicks = {u1, u2}
  NoMint = NoMint
SYMMETRY Symmetric
INVARIANTS
  StopClearsSigning
