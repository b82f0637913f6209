CONSTANTS
  w1 = w1
  w2 = w2
  w3 = w3
  w4 = w4
  w5 = w5
  r1 = r1
  r2 = r2
  r3 = r3
  Rival = Rival
  Writes = {w1, w2, w3}
  Records = {r1}
  Target <- RapidTarget
  Op <- RapidOp
  OfflineOk = {}
  Versioned = {r1}
  Cached = {r1}
  Sourced = {w1, w2, w3}
  Upserts = FALSE
  Existing = {r1}
  Faults = {}
  MaxFaults = 0
  MaxRivals = 1
  MaxReads = 1
SPECIFICATION Spec
INVARIANTS NoSelfConflict OwnWriteStaysVisible LoserSeesWinner
