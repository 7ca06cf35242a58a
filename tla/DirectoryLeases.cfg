SPECIFICATION Spec
CONSTANTS
  n1 = n1
  n2 = n2
  b1 = b1
  b2 = b2
  c1 = c1
  c2 = c2
  address = address
  Name = {n1, n2}
  NoName = NoName
  Handle = {h1, h2}
  NoHandle = NoHandle
  Build = {b1, b2}
  Address = {address}
  NoAddress = NoAddress
  AnyAddress = AnyAddress
  Ttl = 1
  Caller = {c1, c2}
  Config <- MCConfig
  Service = {"local", "broker"}
  Hosting <- MCHosting
  Joining <- MCJoining
SYMMETRY Symmetric
INVARIANTS
  TypeOK
  MapsAgree
  SuccessIsTrue
  OnlyLostRepliesHide
  GoneIsTrue
  BuiltServiceIsTrusted
PROPERTIES
  KeepsLeases
CHECK_DEADLOCK FALSE
