SPECIFICATION Spec
CONSTANTS
  f1 = f1
  f2 = f2
  f3 = f3
  b1 = b1
  b2 = b2
  c1 = c1
  c2 = c2
  None = None
  Flows <- ThreeFlows
  Callbacks <- TwoCallbacks
  Browsers <- TwoBrowsers
  BrowserOf <- TwoTabs
SYMMETRY Symmetry
INVARIANTS OwnBrowserOnly RefusalsExplained
PROPERTY ImplementsOneUse
CHECK_DEADLOCK FALSE
