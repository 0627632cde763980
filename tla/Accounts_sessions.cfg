SPECIFICATION Spec
CONSTANTS
  b1 = b1
  b2 = b2
  h1 = h1
  h2 = h2
  n1 = n1
  n2 = n2
  p1 = p1
  p2 = p2
  Browsers <- MCBrowsers
  Hosts <- MCHosts
  Names <- MCNames
  Passwords <- MCPasswordOne
  NoHost = NoHost
  NoPassword = NoPassword
  MaxUsers = 2
  MaxLogins = 2
SYMMETRY MCSymmetry
INVARIANTS
  TypeOK
  ActsOnlyAsItself
  LogoutIsFinal
PROPERTIES
  EditsOwnRow
