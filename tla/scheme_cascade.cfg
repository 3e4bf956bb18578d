SPECIFICATION PrSpec
CONSTANTS
  PrProjects = {p1, p2}
  PrRooms = {r1, r2}
  PrSensorRows = {s1}
  PrDeviceRows = {d1}
  PrAdmins = {u1, u2}
  PrMaxEdits = 4
  PrFirst = p1
  PrHere = r1
  PrNone = PrNone
PROPERTY SchemeBlocksDeletion
CHECK_DEADLOCK FALSE
