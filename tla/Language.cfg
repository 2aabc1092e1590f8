CONSTANTS
  Answers = {"yes", "no", "fail", "mismatch"}
  Length = 3
  MaxDepth = 2
  Segments <- DottedNames
  Pools <- AllPools
  Machinery = {"programs", "fusions"}
  Idents = {"a", "b", "c", "d"}
  Anonymous = ""
  Scale = 3
  Fusions <- MCFusions
  Capitalized <- Capitals
  Writing <- TheText
  Reading <- TheParser
  Linking <- TheLinker
  Judging <- TheChecker
  Drawing <- TheGraph
  Starting <- TheMachine
  Running <- TheInterpreter
  Prompting <- ThePrompt
SPECIFICATION MCSpec
INVARIANTS
  SourceReadsBack NothingUnendorsedActs CheckerIsSound FusionIsExact
  NamesResolveToExports BlocksEndClean GraphShowsWhatRuns
CHECK_DEADLOCK FALSE
