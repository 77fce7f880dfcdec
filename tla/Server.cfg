SPECIFICATION Spec
CONSTANTS
  t1 = t1
  t2 = t2
  c1 = c1
  c2 = c2
  b1 = b1
  b2 = b2
  NoThread = NoThread
  NoConnection = NoConnection
  Thread <- MCThread
  Connection <- MCConnection
  Browser <- MCBrowser
  Secret <- MCSecret
  Files <- MCFiles
  Plans <- MCPlans
  MaxUser = 2
  MaxSession = 3
  PageSize = 2
  MaxPage = 2
INVARIANTS TypeOK OneHandler Transactions OwnAnswer
PROPERTIES Served Answers
CHECK_DEADLOCK FALSE
