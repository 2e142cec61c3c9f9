SPECIFICATION Spec
CONSTANTS
  Interface <- MCInterface
  Native <- MCNative
  MaxStarts = 2
  Field <- MCField
  Default <- MCDefault
  Given <- MCGiven
  U32 = 64
  MaxPosts = 2
CHECK_DEADLOCK FALSE
INVARIANTS
  TypeOK
  ServingIsFiltering
  LeftBehind
  LateUse
  SettingsInForce
  
