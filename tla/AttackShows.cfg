SPECIFICATION Spec
CONSTANTS
  Check = {"log"}
  CPU = {c1, c2}
  Elem = {e1, e2}
  NoElem = NoElem
  NoPacket = NoPacket
  Window = 3
  SynFloodRate = 2
  AckFactor = 2
  DnsPacket <- DnsKinds
  DnsAmpRate = 1
  DnsLeniency = 2
  UdpPacket <- UdpKinds
  MinGap = 1
  UdpFloodRate = 2
  UdpBurst = 2
  UdpLeniency = 2
  FragPacket = {"sound"}
  FragTimeout = 2
  MaxFrags = 2
  FlowGrace = 1
  IcmpFloodRate = 2
  U32 = 256
  U64 = 1024
  MaxClock = 3
  MaxShared = 1
  Foreign = {0, 2}
  MaxPackets = 4
  Recorder = {r1, r2, r3}
  MaxAttacks = 3
  MaxDetected = 4
SYMMETRY Symmetry
INVARIANT
  NewAttackShows
