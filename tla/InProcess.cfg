SPECIFICATION ApiSpec
CONSTANTS
  Api = Api
  panel = panel
  Tools = {Api}
  Controls = {Api, panel}
  NoTool = NoTool
  Versions <- NewVersions
  ControlVersion <- PanelIsOld
  Window = 1
  StepCounts = {1}
  StartTimeout = 0
  MaxMails = 1
  MaxOrders = 3
  MaxChunks = 1
  MaxCalls = 0
  Plans <- AllPlans
INVARIANTS
  ApiTypeOK
  NoLostWakeup
  BeliefIsRight
  CapturedIsWhole
PROPERTIES
  
  FinishReturns
  TraceEnds
CHECK_DEADLOCK FALSE
