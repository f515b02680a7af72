SPECIFICATION Spec
CHECK_DEADLOCK FALSE
CONSTANT MaxSessions = 2
INVARIANT ForgottenIsSilent
INVARIANT StrayDecoderIsTardy
PROPERTY NoStaleScreen
PROPERTY StoppedSessionEnds
