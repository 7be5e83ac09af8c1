SPECIFICATION Spec
CONSTANTS
  Tools <- MCTools
  Registry = {"shell", "deploy", "read"}
  Responses <- MCResponses
  Rewrites <- MCRewrites
  AutoApprove = {"read", "deploy"}
  AlwaysAsk = {"deploy"}
  Exempt = {"read"}
  MaxIterations = 2
  MaxHistory = 4
  KeepRecent = 3
  MaxTurns = 2
INVARIANTS TypeOK ResultsWhole RunsAreApproved OncePerTurn EffectsAreTold NothingForgotten
PROPERTIES TurnEnds
CHECK_DEADLOCK FALSE
