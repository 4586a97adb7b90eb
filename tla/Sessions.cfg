\* Two requests at a time work on three refresh tokens, the first two of which may come
\* from logins, over three seconds, of which two instants each are told apart; one
\* access token is presented.
CONSTANTS
  Requests = {r1, r2}
  AccessLife = 2
  RefreshLife = 2
  Parts = 2
  MaxSecond = 2
  MaxLogins = 2
  MaxRows = 3
  Presented = {0}
  None = None
SPECIFICATION Spec
SYMMETRY RequestSymmetry
INVARIANTS TypeOK OneSession LoggedOutIsRefused
PROPERTIES ImplementsSessionLife
CHECK_DEADLOCK FALSE
