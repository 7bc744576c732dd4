SPECIFICATION BridgeSpec
CONSTANTS
  Txs = {x1, x2}
  NoTx = NoTx
INVARIANTS
  SubmittedOnce
