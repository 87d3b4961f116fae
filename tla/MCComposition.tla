--------------------------- MODULE MCComposition ---------------------------
(* Instances of Composition for TLC.                                        *)
EXTENDS Composition, TLC

CONSTANTS s1, s2, r1, r2

\* a tree of two stylesheets, and one of two Rust files
TwoOfAKind == {{s1, s2}, {r1, r2}}
TwoStylesheets == {{s1, s2}}

Interchangeable == Permutations(StylePath) \cup Permutations(RustPath)

\* a rule with a colour, the same one exempted, and one whose line differs from
\* it past the 120th character only, where it holds a length
StyleRules ==
  {[selector |-> "a", body |-> "colour", newlines |-> 0, marked |-> FALSE],
   [selector |-> "a", body |-> "colour", newlines |-> 0, marked |-> TRUE],
   [selector |-> "a", body |-> "colour, length", newlines |-> 2, marked |-> FALSE]}
HasColour == {"colour", "colour, length"}
HasLength == {"colour, length"}
UpToTheLiteral(rule) == rule.selector
WholeSelector(selector) == selector

\* one selector with either of two bodies that hold no literal
PlainRules ==
  {[selector |-> "a", body |-> b, newlines |-> 0, marked |-> FALSE] : b \in {"plain", "other"}}

\* impls of a trait that is derivable, short and too long, and of one that is not
Impls ==
  {[trait |-> "debug", type |-> "x", body |-> "f", lines |-> 1],
   [trait |-> "debug", type |-> "x", body |-> "g", lines |-> 2],
   [trait |-> "display", type |-> "x", body |-> "f", lines |-> 1]}
=============================================================================
