SPECIFICATION PumpSpec
CONSTANTS
  Previews = {p1}
  Builds = {b1}
  None = None
  Slots = {s1, s2}
  Instants = {i1, i2}
INVARIANTS
  SignatureKept
