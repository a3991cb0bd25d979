SPECIFICATION MCSpec
CONSTANTS
  owner = owner
  clerk = clerk
  temp = temp
  STAFF = STAFF
  MESSAGING = MESSAGING
  im = im
  admin = admin
  User = {owner, clerk, temp}
  Owner = owner
  Session = {1, 2, 3}
  Code = {1, 2}
  Role = {STAFF, MESSAGING}
  Staff = STAFF
  Permission = {im, admin}
  RoleGrants <- ByName
  Seats = {0, 2}
  SessionTtl = 2
  CacheTtl = 1
  CodeTtl = 2
  Cooldown = 1
  MaxAttempts = 1
  Pair = {owner, clerk}
  Message = {1, 2}
  Chatting = im
  Directing = admin
  Request = {r1, r2}
  MaxOps = 3
  MaxTime = 3
SYMMETRY Symmetry
INVARIANTS
  OldPasswordsExplained
  AdmittedByRight
  SeatsExplained
  GuessesBounded
  ScreensAgree
PROPERTY
  EndedStaysEnded
CHECK_DEADLOCK FALSE
