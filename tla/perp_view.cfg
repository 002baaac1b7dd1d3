CONSTANTS
  p1 = p1  p2 = p2
  Texts <- TypedTexts
  Answers = {}
  Balances = {1000}
  MaxLeverage = 20
  Limits <- DefaultLimits
  None = None
  MaxOps = 3
  Slots = {p1, p2}
  MaxMounts = 2
  MaxFaults = 1
SPECIFICATION Spec
INVARIANT AnswersAreTrue
PROPERTIES OperationsEnd DisplayConverges
CHECK_DEADLOCK FALSE
