SPECIFICATION FairSpec
CONSTANTS
  App = {a1}
  Yielder = y
  Request = {r1, r2, r3}
  AppMethod = {"GET"}
  NULL = NULL
  MAX_APPENDING_REQUEST_AT_ANY_GIVEN_TIME = 2
  ControlCodes = {TRUE, FALSE}
  MaxMessages = 2
CHECK_DEADLOCK FALSE
INVARIANTS
  TypeOK
  AnsweredOnce
  SentIsPending
  RepliesDoNotLinger
PROPERTIES
  RequestsEnd
