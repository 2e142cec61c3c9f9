SPECIFICATION Spec
CONSTANTS
  Check = {"syn", "dns", "udp", "frag", "icmp", "flow", "log"}
  CPU = {c1, c2}
  Elem = {e1, e2}
  NoElem = NoElem
  NoPacket = NoPacket
  Window = 2
  SynFloodRate = 1
  AckFactor = 2
  DnsPacket <- DnsQuery
  DnsAmpRate = 1
  DnsLeniency = 2
  UdpPacket <- UdpKinds
  MinGap = 0
  UdpFloodRate = 1
  UdpBurst = 2
  UdpLeniency = 2
  FragPacket = {"sound"}
  FragTimeout = 1
  MaxFrags = 1
  FlowGrace = 1
  IcmpFloodRate = 1
  U32 = 256
  U64 = 1024
  MaxClock = 2
  MaxShared = 1
  Foreign = {0, 2}
  MaxPackets = 3
  Recorder = {r1, r2}
  MaxAttacks = 3
  MaxDetected = 4
SYMMETRY Symmetry
INVARIANTS
  TypeOK
  SynDropsNeedRate
  SynNotShutOut
  DnsNotShutOut
  
  FlowCountsAtMost
  NoHoles
  OnlyOverlapsLose
  
PROPERTY
  ReportNeverShrinks
