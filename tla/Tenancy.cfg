SPECIFICATION GatewaySpec
SYMMETRY Symmetry
CONSTRAINT OneByOneUnderSockets
CONSTANTS
  Subs = {s1, s2}
  Admins = {s1}
  platform = platform
  first = first
  Names = {platform, custom}
  PlatformNames = {platform}
  LocalParts = {first, other}
  suggestAddress <- MCSuggestion
  AutoApprove = TRUE
  Requests = {r1, r2}
  Sockets = {k1}
  MaxMailboxes = 2
  Null = Null
  Gone = Gone
INVARIANTS TypeOK PlanesAgree AddressBudget NewsReachOwner
PROPERTY StandingIsAdmins
