SPECIFICATION FairSpec
CONSTANTS
  MaxCount = 2
  Keys = {k1, k2}
  NoKey = NoKey
  Mortal = {1, 2}
  Holders = {2}
INVARIANTS KeyInv OneOwnerPerKey
  
