SPECIFICATION QuietSpec
CONSTANTS
  Handle = {h1}
  NoHandle = NoHandle
  Task = {t1}
  NoTask = NoTask
  Flow = {"direct", "broker"}
  DirectoryError = {"Timeout", "AuthRejected"}
  AuthError = {"RateLimited"}
  Lease = {3}
  ConnectTimeout = 2
  HandshakeTimeout = 1
  RetryDelay = 1
  MinLead = 1
  MaxLead = 2
  ReplyCanBeLost = FALSE
PROPERTIES
  AttemptsEnd
  ReleaseIsRetried
CHECK_DEADLOCK FALSE
