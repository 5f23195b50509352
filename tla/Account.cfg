CONSTANTS
  Requests = {r1, r2}
  Tokens = {t1, t2, t3}
  NoToken = NoToken
SPECIFICATION FairSpec
INVARIANTS AccountInvariant OneSession ExchangedOnce ResetObliges
PROPERTIES DisabledCannotLogIn RequestsEnd
CHECK_DEADLOCK FALSE
