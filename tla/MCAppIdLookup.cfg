CONSTANTS
  Senders = {s1, s2}
  PidKnown = {s1}
  Requests = {r1, r2, r3}
  AppIds = {app1, host}
  None = None
SPECIFICATION FairSpec
CHECK_DEADLOCK FALSE
INVARIANTS
  AnswersAgree
  ExitedForgotten
PROPERTIES
  NoneNamedAfterExit
  EveryRequestAnswered
