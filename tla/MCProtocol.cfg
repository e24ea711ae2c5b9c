\* One connection that may break, an owner that may leave.
CONSTANTS
  Request = {r1, r2, r3}
  MaxMessages = 1
SPECIFICATION PFairSpec
CHECK_DEADLOCK FALSE
INVARIANTS
  ChannelsKept
PROPERTIES
  RequestEnds
  AnswerArrives
  ImplementsRequests
