SPECIFICATION Spec
CONSTANTS
  MaxCount = 2
  Keys = {k1, k2}
  NoKey = NoKey
  Mortal = {}
  Holders = {}
INVARIANTS KeyRegisteredOnce
