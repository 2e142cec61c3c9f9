SPECIFICATION Spec
CONSTANTS
  Hour = 1
  Day = 1
  IntMax = 15
  Days = {0, 1, 2, 17, 33}
  Epoch = 10
  MaxClock = 2
  MaxLogins = 2
  MaxKeys = 3
  Ip = {i1}
  ZeroIp = ZeroIp
  First <- OtherFirst
  MaxActs = 2
  MaxChanges = 1
  EventLimit = 1
  MaxEvents = 2
  Policy = {p1}
  Config = config
  Content = {x, y}
  NoFile = NoFile
  Torn = Torn
  NoJob = NoJob
  MaxKills = 1
CHECK_DEADLOCK FALSE
INVARIANTS
  TypeOK
  RulesShown
  
  KeyLastsItsDays
  DeployedIsCurrent
  NoOrphan
PROPERTIES
  OrphansStay
