SPECIFICATION Spec
CONSTANTS
  Sessions = {s1, s2}
  MaxRequests = 3
  BodyParts = 2
  Responses <- AllResponses
  Interims <- AllInterims
  InterceptedHeaders <- Headers
INVARIANTS
  AnswerIsLastResponse
  LatestSettingWins
  AnswerDecidesSession
PROPERTIES
  SessionSettingsStick
  RequestReturns
CHECK_DEADLOCK FALSE
