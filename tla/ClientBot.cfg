SPECIFICATION Spec
CONSTANTS
  MaxCommander = 3
  observer = 1
  MaxPlace = 2
  Distance <- MCDistance
  viewDist = 1
  ViewSlots = 2
  Name <- MCName
  MaxMove = 1
  MaxNet = 5
  MaxCut = 1
  Garbage <- MCGarbage
INVARIANTS
  SightIsMutual
  ClientShowsPosition
  ViewIsCurrentUnlessAlone
  TornNeedsTwoSends
PROPERTIES
  NearerEveryTick
CHECK_DEADLOCK FALSE
