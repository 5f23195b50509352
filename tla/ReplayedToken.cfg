CONSTANTS
  Requests = {r1, r2}
  Tokens = {t1, t2, t3}
  NoToken = NoToken
SPECIFICATION FairSpec
PROPERTY ReplayRevokesAll
CHECK_DEADLOCK FALSE
