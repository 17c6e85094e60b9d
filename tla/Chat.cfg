SPECIFICATION Spec
CONSTANTS
  alice = alice
  bob = bob
  a1 = a1
  b1 = b1
  b2 = b2
  User = {alice, bob}
  Conn = {a1, b1, b2}
  Worker = {w1}
  Nobody = Nobody
  Msg = {1, 2}
  Owner <- OwnerOf
  From <- FromAlice
  To <- ToBob
  MaxVersion = 2
  MaxQueue = 2
  Connected = {a1}
  Stored = {1}
  MaxEvents = 2
INVARIANT TypeOK
INVARIANT MarkedOnce
INVARIANT ReadIsWritten
PROPERTY DeadSocketsLeave
CHECK_DEADLOCK FALSE
