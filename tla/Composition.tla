---------------------------- MODULE Composition ----------------------------
(***************************************************************************)
(* .github/scripts/composition.py: the duplication audit that the CI runs  *)
(* over the tree, and the committed baseline that suppresses the findings  *)
(* known when it was written.                                              *)
(*                                                                         *)
(* Files are sequences of entries.  An entry of a stylesheet is a rule     *)
(* `selector { body }` with its literals on one line, an entry of a Rust   *)
(* file an `impl trait for type { body }`; the line number of a finding is *)
(* the place of its entry.  os.walk yields the files in whatever order the *)
(* file system holds them, which differs from one checkout to the next.    *)
(***************************************************************************)
EXTENDS Naturals, Sequences, FiniteSets

CONSTANTS
  StylePath, RustPath,  \* files that the audit looks at
  Layouts,              \* the sets of files that a tree may consist of
  Rule,                 \* the entries of stylesheets: [selector, body, newlines, marked],
                        \* newlines counted within the braces
  Impl,                 \* the entries of Rust files: [trait, type, body, lines]
  ColourBody,           \* the bodies of rules with a colour literal ...
  SpacingBody,          \* ... and with a spacing literal
  Head120(_),           \* line.strip()[:120], of the line with the literals
  Head60(_),            \* selector[:60]
  DerivableTrait,
  TrivialBudget,        \* TRIVIAL_BODY_LINE_BUDGET
  MinLines,             \* COMPOSITION_DRY_MIN_LINES, counted in entries
  MaxLines,             \* bound on the length of a file, in entries
  Subcommand            \* the subcommands in use besides `baseline`

Path == StylePath \cup RustPath
FileOf(p) == UNION {[1..n -> IF p \in StylePath THEN Rule ELSE Impl] : n \in 0..MaxLines}
\* the orders in which os.walk may yield the files of a tree
WalkOrder(t) ==
  {w \in [DOMAIN t -> 1..Cardinality(DOMAIN t)] :
     \A p, q \in DOMAIN t : w[p] = w[q] => p = q}

ASSUME PathAssumption == IsFiniteSet(Path) /\ StylePath \cap RustPath = {}
                         /\ Layouts \subseteq SUBSET Path
ASSUME LinesAssumption == MinLines \in Nat \ {0} /\ MaxLines \in Nat
ASSUME RuleAssumption == \A r \in Rule : r.newlines \in Nat
ASSUME SubcommandAssumption == Subcommand \subseteq {"all", "css", "rust", "dry", "derive"}

VARIABLES
  tree,       \* the contents of each file
  baseline,   \* .composition-baseline.json: whether it is there and is JSON, and
              \* the keys that were last written to it
  run,        \* the subcommand of an audit of the present tree, or "none"
  reported,   \* the findings it printed: it exits with 0 iff there are none
  snapshot    \* history: the tree that the baseline was written from, or a tree
              \* of empty files while there is none that can be read

vars == <<tree, baseline, run, reported, snapshot>>

----------------------------------------------------------------------------
(* Findings                                                                 *)

Lines(t) == UNION {{p} \X DOMAIN t[p] : p \in DOMAIN t}
LineAt(t, at) == t[at[1]][at[2]]

\* Occurrences are collected file by file, so the first one is in the file that
\* was walked first, on its first line there.
Head1(occs, w) ==
  CHOOSE o \in occs : \A q \in occs : w[o[1]] < w[q[1]] \/ (o[1] = q[1] /\ o[2] <= q[2])
PathsOf(occs) == {o[1] : o \in occs}

\* What is found entry by entry, on its own.
LineRule == {"css-raw-colour", "css-raw-spacing", "rust-manual-derivable"}

Raw(t, rule, bodies) ==
  {[rule |-> rule, path |-> at[1], line |-> at[2], detail |-> Head120(LineAt(t, at))] :
     at \in {a \in Lines(t) : /\ a[1] \in StylePath
                              /\ LineAt(t, a).body \in bodies
                              /\ ~LineAt(t, a).marked}}
\* mutated: lines are counted from zero
MutRawLiterals(t) ==
  {[f EXCEPT !.line = @ - 1] :
     f \in Raw(t, "css-raw-colour", ColourBody) \cup Raw(t, "css-raw-spacing", SpacingBody)}
\* check_css: literals, line by line, unless the line carries a marker ...
RawLiterals(t) == Raw(t, "css-raw-colour", ColourBody) \cup Raw(t, "css-raw-spacing", SpacingBody)

\* ... and a body that three rules share, reported where it was met first, with
\* the length of that body for a line number
DuplicatedBodies(t, w) ==
  LET Occs(b) == {a \in Lines(t) : a[1] \in StylePath /\ LineAt(t, a).body = b}
      Report(occs) ==
        LET head == LineAt(t, Head1(occs, w))
        IN [rule |-> "css-duplicated-body", path |-> Head1(occs, w)[1],
            line |-> IF head.newlines = 0 THEN 1 ELSE head.newlines,
            detail |-> <<Cardinality(occs), Head60(head.selector)>>]
  IN {Report(Occs(b)) : b \in {c \in {r.body : r \in Rule} : Cardinality(Occs(c)) >= 3}}

\* check_rust: short impls that a derive could replace ...
ManualImpls(t) ==
  {[rule |-> "rust-manual-derivable", path |-> at[1], line |-> at[2],
    detail |-> <<LineAt(t, at).trait, LineAt(t, at).type>>] :
     at \in {a \in Lines(t) : /\ a[1] \in RustPath
                              /\ LineAt(t, a).trait \in DerivableTrait
                              /\ LineAt(t, a).lines <= TrivialBudget}}

\* ... and repeated impls.  _slurp_block starts at the line of the header, so the
\* text that is compared holds the trait and the type besides the body; blank
\* lines and comments are dropped from it.
SameText(i, j) == i.trait = j.trait /\ i.type = j.type /\ i.body = j.body
DuplicatedImpls(t, w) ==
  LET Occs(i) == {a \in Lines(t) : a[1] \in RustPath /\ SameText(LineAt(t, a), i)}
  IN {[rule |-> "rust-impl-dupe", path |-> Head1(Occs(i), w)[1], line |-> Head1(Occs(i), w)[2],
       detail |-> <<i.trait, {i.type}>>] :
        i \in {j \in Impl : j.trait \notin DerivableTrait /\ Cardinality(Occs(j)) >= 3}}

\* check_dry: a window of text that recurs three times and in more than one
\* file, taken here as MinLines entries; a marker within exempts it
Window(t, at) == SubSeq(t[at[1]], at[2], at[2] + MinLines - 1)
Windows(t) ==
  {a \in Lines(t) : /\ a[2] + MinLines - 1 <= Len(t[a[1]])
                    /\ a[1] \in StylePath => \A i \in DOMAIN Window(t, a) : ~Window(t, a)[i].marked}
DuplicatedBlocks(t, w) ==
  LET Occs(at) == {a \in Windows(t) : Window(t, a) = Window(t, at)}
  IN {[rule |-> "dry-duplicate-block", path |-> Head1(Occs(at), w)[1], line |-> Head1(Occs(at), w)[2],
       detail |-> <<Cardinality(Occs(at)), Cardinality(PathsOf(Occs(at)))>>] :
        at \in {a \in Windows(t) : Cardinality(Occs(a)) >= 3 /\ Cardinality(PathsOf(Occs(a))) > 1}}

\* CHECKS: `derive` runs all of check_rust
Findings(sub, t, w) ==
  (IF sub \in {"all", "css"} THEN RawLiterals(t) \cup DuplicatedBodies(t, w) ELSE {})
    \cup (IF sub \in {"all", "rust", "derive"} THEN ManualImpls(t) \cup DuplicatedImpls(t, w) ELSE {})
    \cup (IF sub \in {"all", "dry"} THEN DuplicatedBlocks(t, w) ELSE {})

\* mutated: the line number is part of the identity
MutKey(f) == <<f.rule, f.path, f.line, f.detail>>
\* baseline_key
Key(f) == <<f.rule, f.path, f.detail>>

----------------------------------------------------------------------------
(* Commits, baselines and audits                                            *)

Blank(files) == [p \in files |-> <<>>]

Init ==
  /\ \E files \in Layouts : tree = Blank(files)
  /\ baseline = [form |-> "absent", keys |-> {}]
  /\ run = "none" /\ reported = {}
  /\ snapshot = tree

\* a commit changes a file
Commit(p, content) ==
  /\ content # tree[p]
  /\ tree' = [tree EXCEPT ![p] = content]
  /\ run' = "none" /\ reported' = {}
  /\ UNCHANGED <<baseline, snapshot>>

\* `composition.py baseline`, committed
WriteBaseline(w) ==
  /\ baseline' = [form |-> "json", keys |-> {Key(f) : f \in Findings("all", tree, w)}]
  /\ snapshot' = tree
  /\ run' = "none" /\ reported' = {}
  /\ UNCHANGED tree

\* the file is cut short, or a merge leaves conflict markers among its keys
DamageBaseline ==
  /\ baseline.form = "json"
  /\ baseline' = [baseline EXCEPT !.form = "damaged"]
  /\ snapshot' = Blank(DOMAIN tree)
  /\ run' = "none" /\ reported' = {}
  /\ UNCHANGED tree

\* mutated: the keys are picked out of a text that is no JSON
MutLoadBaseline == IF baseline.form # "absent" THEN baseline.keys ELSE {}
\* load_baseline
LoadBaseline == IF baseline.form = "json" THEN baseline.keys ELSE {}

\* main: what the baseline suppresses
Suppressed(f) == Key(f) \in LoadBaseline

\* an audit: the CI runs `all`
Audit(sub, w) ==
  /\ reported' = {f \in Findings(sub, tree, w) : ~Suppressed(f)}
  /\ run' = sub
  /\ UNCHANGED <<tree, baseline, snapshot>>

Next ==
  \/ \E p \in DOMAIN tree : \E content \in FileOf(p) : Commit(p, content)
  \/ \E w \in WalkOrder(tree) : WriteBaseline(w)
  \/ DamageBaseline
  \/ \E sub \in Subcommand, w \in WalkOrder(tree) : Audit(sub, w)

Spec == Init /\ [][Next]_vars

----------------------------------------------------------------------------
(* Properties                                                               *)

\* Every variable has its type; what is reported is on an entry that the tree
\* has, except that a duplicated body has a number of another kind.
TypeOK ==
  /\ DOMAIN tree \in Layouts
  /\ \A p \in DOMAIN tree : tree[p] \in FileOf(p) /\ snapshot[p] \in FileOf(p)
  /\ DOMAIN snapshot = DOMAIN tree
  /\ baseline.form \in {"absent", "json", "damaged"}
  /\ run \in Subcommand \cup {"none"}
  /\ \A f \in reported :
       /\ f.path \in DOMAIN tree
       /\ IF f.rule = "css-duplicated-body" THEN f.line \in Nat \ {0}
                                            ELSE f.line \in DOMAIN tree[f.path]

\* what is wrong with single entries of a file
Flagged(t, p) ==
  LET In(bodies) == {i \in DOMAIN t[p] : t[p][i].body \in bodies /\ ~t[p][i].marked}
      Short == {i \in DOMAIN t[p] : t[p][i].trait \in DerivableTrait /\ t[p][i].lines <= TrivialBudget}
  IN IF p \in StylePath
       THEN {<<"css-raw-colour", Head120(t[p][i])>> : i \in In(ColourBody)}
              \cup {<<"css-raw-spacing", Head120(t[p][i])>> : i \in In(SpacingBody)}
       ELSE {<<"rust-manual-derivable", <<t[p][i].trait, t[p][i].type>>>> : i \in Short}

\* The ratchet, for what is found line by line: the gate reports exactly the
\* literals and derivable impls that are new to their file since the baseline
\* was written, however the entries of the files moved and whatever was written
\* in between; and all of them while there is no baseline that can be read.
\* Literals of one kind count as one where their lines agree in 120 characters,
\* and an impl that a commit made short enough counts as new.
LineRatchet ==
  run = "all" =>
    \A p \in DOMAIN tree :
      {<<f.rule, f.detail>> : f \in {g \in reported : g.rule \in LineRule /\ g.path = p}}
        = Flagged(tree, p) \ Flagged(snapshot, p)

\* Without a baseline that is JSON the gate is closed: every kind of problem that
\* a walk in any order would meet has been reported, whatever keys are left in
\* the text of a damaged one.
NoBaselineHidesNothing ==
  run # "none" /\ baseline.form # "json" =>
    \A w \in WalkOrder(tree) : \A f \in Findings(run, tree, w) :
      \E g \in reported : g.rule = f.rule

\* "The CI gate fails only on NEW findings": on the tree the baseline was
\* written from it passes.
OnlyNewFindingsFail == run = "all" /\ snapshot = tree => reported = {}

=============================================================================
