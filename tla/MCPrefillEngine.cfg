SPECIFICATION FairSpec
CONSTANTS
  Configs <- MCConfigs
  Shapes <- MCShapes
  Microbatch = 2
  PadUnit = 4
  Zero = Zero
  Unset = Unset
  None = None
INVARIANTS
  TypeOK
  ViewInitialised
  FedInOrder
  AttendsCausally
  ReturnsWholePrompt
  OnlyExpectedErrors
PROPERTIES
  Terminates
  RefinesCausalPass
