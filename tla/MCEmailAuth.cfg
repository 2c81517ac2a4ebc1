CONSTANTS
  h1 = h1
  h2 = h2
  anna = anna
  berta = berta
  root = root
  Handler = {h1, h2}
  Email = {anna, berta}
  Admin = root
  Registered = {berta}
  MaxAttempts = 2
  CodeLife = 1
  ResendAfter = 1
  TokenLife = 1
  SessionLife = 0
  Do <- AllRequests
  MaxChallenges = 2
  MaxPassword = 2
  MaxTime = 1
  MaxRequests = 6
SYMMETRY Handlers
SPECIFICATION Spec
INVARIANTS GuessesAreBounded OneGrantPerCode OneSetupPerEmail ResendNeedsOverlap OldPasswordNeedsOverlap
PROPERTY NoSessionWhenDisabled
CHECK_DEADLOCK FALSE
