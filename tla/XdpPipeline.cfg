SPECIFICATION Spec
CONSTANTS
  CPU = {c1, c2}
  a = a
  b = b
  tcp = tcp
  Address = {a, b}
  Nowhere = Nowhere
  Proto = {tcp}
  OtherProto = OtherProto
  U16 = 2
  Elem = {e1, e2}
  NoElem = NoElem
  Request <- Requests
  Packet <- Packets
  NoPacket = NoPacket
  U32 = 256
  MaxPackets = 2
  MaxRequests = 3
  MaxReports = 2
SYMMETRY Symmetry
INVARIANTS
  TypeOK
  RulesDecide
  RateIsReal
