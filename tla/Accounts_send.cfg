SPECIFICATION Spec
CONSTANTS
  b1 = b1
  b2 = b2
  h1 = h1
  h2 = h2
  n1 = n1
  n2 = n2
  p1 = p1
  p2 = p2
  Browsers <- MCBrowserOne
  Hosts <- MCHostOne
  Names <- MCNames
  Passwords <- MCPasswords
  NoHost = NoHost
  NoPassword = NoPassword
  MaxUsers = 2
  MaxLogins = 3
INVARIANTS
  SendHasSession
