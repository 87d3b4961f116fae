SPECIFICATION Spec
CONSTANTS
  s1 = s1  s2 = s2  r1 = r1  r2 = r2
  StylePath = {s1, s2}
  RustPath = {r1, r2}
  Layouts <- TwoOfAKind
  Rule <- StyleRules
  Impl <- Impls
  ColourBody <- HasColour
  SpacingBody <- HasLength
  Head120 <- UpToTheLiteral
  Head60 <- WholeSelector
  DerivableTrait = {"debug"}
  TrivialBudget = 1
  MinLines = 1
  MaxLines = 2
  Subcommand = {"all", "css", "rust", "dry", "derive"}
SYMMETRY Interchangeable
INVARIANTS TypeOK LineRatchet NoBaselineHidesNothing
