CONSTANTS
  a1 = a1
  a2 = a2
  n1 = n1
  None = None
  Empty = Empty
  Attempt = {c1, c2, c3}
  Authorization <- MCAuthorization
  Nonce <- MCNonce
  nonceOf <- MCNonceOf
  MAX_CONSUMPTION_SLOTS = 2
SPECIFICATION FairSpec
PROPERTIES
  SingleUseSpec
  EveryCallReturns
CHECK_DEADLOCK FALSE
