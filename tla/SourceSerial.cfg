SPECIFICATION Spec
CONSTANTS
  Check = {"syn", "dns", "frag", "icmp", "flow"}
  CPU = {c1}
  Elem = {e1, e2}
  NoElem = NoElem
  NoPacket = NoPacket
  Window = 2
  SynFloodRate = 1
  AckFactor = 3
  DnsPacket <- DnsKinds
  DnsAmpRate = 1
  DnsLeniency = 8
  UdpPacket <- UdpKinds
  MinGap = 1
  UdpFloodRate = 2
  UdpBurst = 2
  UdpLeniency = 2
  FragPacket = {"sound", "malformed"}
  FragTimeout = 2
  MaxFrags = 2
  FlowGrace = 2
  IcmpFloodRate = 2
  U32 = 6
  U64 = 1000
  MaxClock = 5
  MaxShared = 0
  Foreign = {0, 2}
  MaxPackets = 4
  Recorder = {r1}
  MaxAttacks = 1
  MaxDetected = 1
SYMMETRY Symmetry
INVARIANTS
  DropsJustified
  RatesCapped
  IcmpConforms
  FlowExact
