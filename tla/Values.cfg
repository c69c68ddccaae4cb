CONSTANTS
  Asked <- MCAsked
  MaxSize = 64
  PtrSize = 8
  Heap = 248
  Shapes <- MCShapes
  Paths <- MCPaths
  Sources <- MCSources
  MaxLen = 2
  Samples <- MCSamples
  Numerals <- MCNumerals
  PathTexts <- MCPathTexts
  Characters = {"/", "a", "b", "0", "1", "2", "3", "4", "5", "6", "7", "8", "9"}
  Letters = {"/", "a", "0", "1"}
  Routes <- MCRoutes
  MaxIndex = 10
  MaxRoute = 2
  MaxText = 3
  Units <- MCUnits
  MaxCount = 31
  Exact = 16
  MaxHalves = 7
  MaxWords = 4
SPECIFICATION Spec
INVARIANTS
  TypesDescribed ValuesSound SameValuesAgree WrittenWhereAsked
  DocumentsMean FailuresAreLocal PathsSurviveText TimesSurviveText
CHECK_DEADLOCK FALSE
