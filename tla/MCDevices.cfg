CONSTANTS
  h1 = h1
  h2 = h2
  pc1 = pc1
  pc2 = pc2
  nobody = nobody
  Handler = {h1, h2}
  Client = {pc1, pc2}
  Default <- OneDevice
  Values = {1, 2}
  NoOne = nobody
  MaxToken = 4
  MaxRequests = 5
SYMMETRY Handlers
SPECIFICATION Spec
INVARIANT HeldTokenWorks
PROPERTIES OverQuotaTwoWays
CHECK_DEADLOCK FALSE
