SPECIFICATION Spec
CONSTANTS
  Check = {"syn"}
  CPU = {c1, c2}
  Elem = {e1, e2}
  NoElem = NoElem
  NoPacket = NoPacket
  Window = 3
  SynFloodRate = 2
  AckFactor = 2
  DnsPacket <- DnsKinds
  DnsAmpRate = 1
  DnsLeniency = 2
  UdpPacket <- UdpKinds
  MinGap = 1
  UdpFloodRate = 2
  UdpBurst = 2
  UdpLeniency = 2
  FragPacket = {"sound"}
  FragTimeout = 2
  MaxFrags = 2
  FlowGrace = 1
  IcmpFloodRate = 2
  U32 = 256
  U64 = 1024
  MaxClock = 3
  MaxShared = 0
  Foreign = {0, 2}
  MaxPackets = 4
  Recorder = {r1}
  MaxAttacks = 1
  MaxDetected = 1
SYMMETRY Symmetry
INVARIANT
  SynWindowSafe
