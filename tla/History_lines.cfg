SPECIFICATION MCSpec
CONSTANTS
  b1 = b1
  Browsers <- MCBrowsers
  Users <- MCUsers
  PageRows = 2
  MaxLines = 3
  MaxTime = 1
  Typeable <- MCTypeable
  MaxTyped = 3
INVARIANTS
  TypeOK
  NothingTwice
  ShownInOrder
  EveryLineAccounted
  FormFieldAsTyped
  BothThreadsFindTheSession
  LineAsTyped
  PageShowsTheLiveLine
