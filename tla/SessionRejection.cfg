SPECIFICATION Spec
CONSTANTS
  Handle = {h1, h2}
  NoHandle = NoHandle
  Task = {t1, t2}
  NoTask = NoTask
  Flow = {"direct"}
  DirectoryError = {"Timeout", "SessionClosed", "AuthRejected"}
  AuthError = {"RateLimited"}
  Lease = {0, 3}
  ConnectTimeout = 2
  HandshakeTimeout = 1
  RetryDelay = 1
  MinLead = 1
  MaxLead = 2
  ReplyCanBeLost = TRUE
PROPERTIES
  RejectionReasonReported
CHECK_DEADLOCK FALSE
