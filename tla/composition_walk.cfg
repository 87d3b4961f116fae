SPECIFICATION Spec
CONSTANTS
  s1 = s1  s2 = s2  r1 = r1  r2 = r2
  StylePath = {s1, s2}
  RustPath = {r1, r2}
  Layouts <- TwoStylesheets
  Rule <- PlainRules
  Impl = {}
  ColourBody = {}
  SpacingBody = {}
  Head120 <- UpToTheLiteral
  Head60 <- WholeSelector
  DerivableTrait = {"debug"}
  TrivialBudget = 10
  MinLines = 3
  MaxLines = 2
  Subcommand = {"all"}
INVARIANT OnlyNewFindingsFail
