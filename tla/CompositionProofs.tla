------------------------- MODULE CompositionProofs -------------------------
(* Theorems about Composition, for any files, lines, layouts and orders of  *)
(* the walk.                                                                *)
EXTENDS Composition, FiniteSetTheorems, WellFoundedInduction, TLAPS

IsTree(t) ==
  /\ DOMAIN t \in Layouts
  /\ \A p \in DOMAIN t : t[p] \in FileOf(p)

\* A line of a tree is a place in one of its files.
LEMMA LinesOf ==
  ASSUME NEW t, NEW a
  PROVE  a \in Lines(t) <=> /\ a = <<a[1], a[2]>>
                            /\ a[1] \in DOMAIN t
                            /\ a[2] \in DOMAIN t[a[1]]
<1>1. ASSUME a \in Lines(t)
      PROVE  a = <<a[1], a[2]>> /\ a[1] \in DOMAIN t /\ a[2] \in DOMAIN t[a[1]]
  <2>1. PICK p \in DOMAIN t : a \in {p} \X DOMAIN t[p]
    BY <1>1 DEF Lines
  <2> QED BY <2>1
<1>2. ASSUME a = <<a[1], a[2]>>, a[1] \in DOMAIN t, a[2] \in DOMAIN t[a[1]]
      PROVE  a \in Lines(t)
  <2>1. a \in {a[1]} \X DOMAIN t[a[1]]
    BY <1>2
  <2> QED BY <1>2, <2>1 DEF Lines
<1> QED BY <1>1, <1>2

LEMMA LineNumbers ==
  ASSUME NEW t, IsTree(t), NEW p \in DOMAIN t
  PROVE  p \in Path /\ \E n \in Nat : DOMAIN t[p] = 1..n
<1>1. t[p] \in FileOf(p) /\ p \in Path
  BY PathAssumption DEF IsTree
<1>2. PICK n \in 0..MaxLines : t[p] \in [1..n -> IF p \in StylePath THEN Rule ELSE Impl]
  BY <1>1 DEF FileOf
<1> QED BY <1>1, <1>2, LinesAssumption

\* The files of a tree are counted by naturals in the order of a walk.
LEMMA WalkNumbers ==
  ASSUME NEW t, IsTree(t), NEW w \in WalkOrder(t), NEW p \in DOMAIN t
  PROVE  w[p] \in Nat
<1>1. IsFiniteSet(DOMAIN t)
  <2>1. DOMAIN t \in SUBSET Path
    BY PathAssumption DEF IsTree
  <2> QED BY <2>1, PathAssumption, FS_Subset
<1>2. Cardinality(DOMAIN t) \in Nat
  BY <1>1, FS_CardinalityType
<1>3. w[p] \in 1..Cardinality(DOMAIN t)
  BY DEF WalkOrder
<1> QED BY <1>2, <1>3

\* Of any occurrences one was met first.
LEMMA FirstMet ==
  ASSUME NEW t, IsTree(t), NEW w \in WalkOrder(t), NEW occs \in SUBSET Lines(t), occs # {}
  PROVE  Head1(occs, w) \in occs
<1> DEFINE R == OpToRel(<, Nat)
           Place(o) == <<w[o[1]], o[2]>>
           Places == {Place(o) : o \in occs}
<1>1. \A o \in occs : o[1] \in DOMAIN t /\ w[o[1]] \in Nat /\ o[2] \in Nat
  <2> SUFFICES ASSUME NEW o \in occs PROVE o[1] \in DOMAIN t /\ w[o[1]] \in Nat /\ o[2] \in Nat
    OBVIOUS
  <2>1. o[1] \in DOMAIN t /\ o[2] \in DOMAIN t[o[1]]
    BY LinesOf
  <2> QED BY <2>1, LineNumbers, WalkNumbers
<1>2. IsWellFoundedOn(LexPairOrdering(R, R, Nat, Nat), Nat \X Nat)
  <2>1. IsWellFoundedOn(R, Nat)
    BY NatLessThanWellFounded
  <2> HIDE DEF R
  <2> QED BY <2>1, WFLexPairOrdering
<1>3. Places \subseteq Nat \X Nat /\ Places # {}
  <2>1. \A o \in occs : Place(o) \in Nat \X Nat
    BY <1>1
  <2>2. Places \subseteq Nat \X Nat
    <3> HIDE DEF Place
    <3> QED BY <2>1
  <2>3. PICK o : o \in occs
    OBVIOUS
  <2> QED BY <2>2, <2>3
<1>4. PICK x \in Places : \A y \in Places : ~ (<<y, x>> \in LexPairOrdering(R, R, Nat, Nat))
  <2> HIDE DEF R, Places
  <2> QED BY <1>2, <1>3, WFMin
<1>5. PICK o \in occs : x = Place(o)
  BY <1>4
<1>6. ASSUME NEW q \in occs
      PROVE  w[o[1]] < w[q[1]] \/ (o[1] = q[1] /\ o[2] <= q[2])
  <2>1. ~ (<<Place(q), Place(o)>> \in LexPairOrdering(R, R, Nat, Nat))
    BY <1>4, <1>5
  <2>2. ~ (w[q[1]] < w[o[1]]) /\ ~ (w[q[1]] = w[o[1]] /\ q[2] < o[2])
    BY <1>1, <2>1 DEF LexPairOrdering, OpToRel
  <2>3. w[q[1]] = w[o[1]] => q[1] = o[1]
    BY <1>1 DEF WalkOrder
  <2> QED BY <1>1, <2>2, <2>3
<1> QED BY <1>6 DEF Head1

----------------------------------------------------------------------------
(* Findings                                                                 *)

OnLine(f, t) == f.path \in DOMAIN t /\ f.line \in DOMAIN t[f.path]

\* What is found entry by entry, whatever the order of the walk.
LineFindings(t) == RawLiterals(t) \cup ManualImpls(t)
GroupFindings(t, w) == DuplicatedBodies(t, w) \cup DuplicatedImpls(t, w) \cup DuplicatedBlocks(t, w)

LEMMA RawOf ==
  ASSUME NEW t, IsTree(t), NEW rule, NEW bodies, NEW f \in Raw(t, rule, bodies)
  PROVE  /\ OnLine(f, t)
         /\ f.rule = rule /\ f.path \in StylePath
         /\ \E i \in DOMAIN t[f.path] : /\ t[f.path][i].body \in bodies /\ ~t[f.path][i].marked
                                        /\ f.detail = Head120(t[f.path][i])
<1>1. PICK a \in Lines(t) :
        /\ a[1] \in StylePath /\ LineAt(t, a).body \in bodies /\ ~LineAt(t, a).marked
        /\ f = [rule |-> rule, path |-> a[1], line |-> a[2], detail |-> Head120(LineAt(t, a))]
  BY DEF Raw
<1>2. a[1] \in DOMAIN t /\ a[2] \in DOMAIN t[a[1]]
  BY LinesOf
<1>3. PICK h : h = Head120(LineAt(t, a))
  OBVIOUS
<1>4. f.rule = rule /\ f.path = a[1] /\ f.line = a[2] /\ f.detail = h
  BY <1>1, <1>3
<1>5. LineAt(t, a) = t[a[1]][a[2]]
  BY DEF LineAt
<1>6. h = Head120(t[a[1]][a[2]])
  BY <1>3, <1>5
<1> QED BY <1>1, <1>2, <1>4, <1>5, <1>6 DEF OnLine

LEMMA LineFindingsOf ==
  ASSUME NEW t, IsTree(t), NEW f \in LineFindings(t)
  PROVE  /\ OnLine(f, t)
         /\ f.rule \in LineRule
         /\ <<f.rule, f.detail>> \in Flagged(t, f.path)
         /\ Key(f) = <<f.rule, f.path, f.detail>>
<1>1. CASE f \in Raw(t, "css-raw-colour", ColourBody)
  BY <1>1, RawOf DEF LineRule, Key, Flagged
<1>2. CASE f \in Raw(t, "css-raw-spacing", SpacingBody)
  BY <1>2, RawOf DEF LineRule, Key, Flagged
<1>3. CASE f \in ManualImpls(t)
  <2>1. PICK a \in Lines(t) :
          /\ a[1] \in RustPath /\ LineAt(t, a).trait \in DerivableTrait
          /\ LineAt(t, a).lines <= TrivialBudget
          /\ f = [rule |-> "rust-manual-derivable", path |-> a[1], line |-> a[2],
                  detail |-> <<LineAt(t, a).trait, LineAt(t, a).type>>]
    BY <1>3 DEF ManualImpls
  <2>2. a[1] \in DOMAIN t /\ a[2] \in DOMAIN t[a[1]] /\ a[1] \notin StylePath
    BY <2>1, LinesOf, PathAssumption
  <2>3. /\ f.rule = "rust-manual-derivable" /\ f.path = a[1] /\ f.line = a[2]
        /\ f.detail = <<t[a[1]][a[2]].trait, t[a[1]][a[2]].type>>
    BY <2>1 DEF LineAt
  <2>4. <<f.rule, f.detail>> \in Flagged(t, f.path)
    BY <2>1, <2>2, <2>3 DEF Flagged, LineAt
  <2> QED BY <2>1, <2>2, <2>3, <2>4 DEF OnLine, LineRule, Key
<1> QED BY <1>1, <1>2, <1>3 DEF LineFindings, RawLiterals

LEMMA RawFound ==
  ASSUME NEW t, NEW rule, NEW bodies, NEW p \in DOMAIN t \cap StylePath, NEW i \in DOMAIN t[p],
         t[p][i].body \in bodies, ~t[p][i].marked
  PROVE  \E f \in Raw(t, rule, bodies) :
           f.path = p /\ f.rule = rule /\ f.detail = Head120(t[p][i])
<1>1. PICK a \in Lines(t) : a[1] = p /\ a[2] = i
  <2>1. <<p, i>> \in Lines(t)
    BY LinesOf
  <2> QED BY <2>1
<1>2. LineAt(t, a) = t[p][i]
  BY <1>1 DEF LineAt
<1> DEFINE f == [rule |-> rule, path |-> a[1], line |-> a[2], detail |-> Head120(LineAt(t, a))]
<1>3. f \in Raw(t, rule, bodies)
  BY <1>1, <1>2 DEF Raw
<1>4. f.path = p /\ f.rule = rule /\ f.detail = Head120(LineAt(t, a))
  BY <1>1
<1>5. Head120(LineAt(t, a)) = Head120(t[p][i])
  BY <1>2
<1> QED BY <1>3, <1>4, <1>5

LEMMA FlaggedFound ==
  ASSUME NEW t, IsTree(t), NEW p \in DOMAIN t, NEW d \in Flagged(t, p)
  PROVE  \E f \in LineFindings(t) : f.path = p /\ <<f.rule, f.detail>> = d
<1>1. CASE p \in StylePath
  <2>1. \/ \E i \in DOMAIN t[p] : /\ t[p][i].body \in ColourBody /\ ~t[p][i].marked
                                  /\ d = <<"css-raw-colour", Head120(t[p][i])>>
        \/ \E i \in DOMAIN t[p] : /\ t[p][i].body \in SpacingBody /\ ~t[p][i].marked
                                  /\ d = <<"css-raw-spacing", Head120(t[p][i])>>
    BY <1>1 DEF Flagged
  <2>2. CASE \E i \in DOMAIN t[p] : /\ t[p][i].body \in ColourBody /\ ~t[p][i].marked
                                    /\ d = <<"css-raw-colour", Head120(t[p][i])>>
    BY <1>1, <2>2, RawFound DEF LineFindings, RawLiterals
  <2>3. CASE \E i \in DOMAIN t[p] : /\ t[p][i].body \in SpacingBody /\ ~t[p][i].marked
                                    /\ d = <<"css-raw-spacing", Head120(t[p][i])>>
    BY <1>1, <2>3, RawFound DEF LineFindings, RawLiterals
  <2> QED BY <2>1, <2>2, <2>3
<1>2. CASE p \notin StylePath
  <2>1. PICK i \in DOMAIN t[p] :
          /\ t[p][i].trait \in DerivableTrait /\ t[p][i].lines <= TrivialBudget
          /\ d = <<"rust-manual-derivable", <<t[p][i].trait, t[p][i].type>>>>
    BY <1>2 DEF Flagged
  <2>2. PICK a \in Lines(t) : a[1] = p /\ a[2] = i /\ p \in RustPath
    <3>1. <<p, i>> \in Lines(t) /\ p \in RustPath
      BY <1>2, LinesOf, LineNumbers DEF Path
    <3> QED BY <3>1
  <2>3. LineAt(t, a) = t[p][i]
    BY <2>2 DEF LineAt
  <2> DEFINE f == [rule |-> "rust-manual-derivable", path |-> a[1], line |-> a[2],
                   detail |-> <<LineAt(t, a).trait, LineAt(t, a).type>>]
  <2>4. f \in ManualImpls(t)
    BY <2>1, <2>2, <2>3 DEF ManualImpls
  <2>5. f.path = p /\ <<f.rule, f.detail>> = d
    BY <2>1, <2>2, <2>3
  <2> QED BY <2>4, <2>5 DEF LineFindings
<1> QED BY <1>1, <1>2

\* What is found about groups of entries is of a rule of its own, and reported
\* on an entry of the tree; the number of a duplicated body is that of its lines.
Numbered(f, t) ==
  /\ f.path \in DOMAIN t
  /\ IF f.rule = "css-duplicated-body" THEN f.line \in Nat \ {0} ELSE f.line \in DOMAIN t[f.path]

LEMMA GroupFindingsOf ==
  ASSUME NEW t, NEW w, NEW f \in GroupFindings(t, w)
  PROVE  /\ f.rule \notin LineRule
         /\ f.rule = "css-duplicated-body" <=> f \in DuplicatedBodies(t, w)
         /\ f.rule = "rust-impl-dupe" <=> f \in DuplicatedImpls(t, w)
         /\ f.rule = "dry-duplicate-block" <=> f \in DuplicatedBlocks(t, w)
<1>1. ASSUME NEW g \in DuplicatedBodies(t, w) PROVE g.rule = "css-duplicated-body"
  <2>1. \E p, l, d : g = [rule |-> "css-duplicated-body", path |-> p, line |-> l, detail |-> d]
    BY DEF DuplicatedBodies
  <2> QED BY <2>1
<1>2. ASSUME NEW g \in DuplicatedImpls(t, w) PROVE g.rule = "rust-impl-dupe"
  <2>1. \E p, l, d : g = [rule |-> "rust-impl-dupe", path |-> p, line |-> l, detail |-> d]
    BY DEF DuplicatedImpls
  <2> QED BY <2>1
<1>3. ASSUME NEW g \in DuplicatedBlocks(t, w) PROVE g.rule = "dry-duplicate-block"
  <2>1. \E p, l, d : g = [rule |-> "dry-duplicate-block", path |-> p, line |-> l, detail |-> d]
    BY DEF DuplicatedBlocks
  <2> QED BY <2>1
<1> QED BY <1>1, <1>2, <1>3 DEF GroupFindings, LineRule

LEMMA GroupNumbered ==
  ASSUME NEW t, IsTree(t), NEW w \in WalkOrder(t), NEW f \in GroupFindings(t, w)
  PROVE  Numbered(f, t)
<1>1. ASSUME NEW occs \in SUBSET Lines(t), occs # {}
      PROVE  LET o == Head1(occs, w)
             IN o \in occs /\ o[1] \in DOMAIN t /\ o[2] \in DOMAIN t[o[1]]
  <2>1. Head1(occs, w) \in occs
    BY <1>1, FirstMet
  <2>2. PICK o : o = Head1(occs, w)
    OBVIOUS
  <2> QED BY <2>1, <2>2, LinesOf
<1>2. \A S : Cardinality(S) >= 3 => S # {}
  BY FS_EmptySet
<1>3. CASE f \in DuplicatedBodies(t, w)
  <2>1. PICK b :
          LET occs == {a \in Lines(t) : a[1] \in StylePath /\ LineAt(t, a).body = b}
              head == LineAt(t, Head1(occs, w))
          IN /\ Cardinality(occs) >= 3 /\ f.path = Head1(occs, w)[1]
             /\ f.line = IF head.newlines = 0 THEN 1 ELSE head.newlines
    BY <1>3 DEF DuplicatedBodies
  <2> DEFINE occs == {a \in Lines(t) : a[1] \in StylePath /\ LineAt(t, a).body = b}
  <2>2. PICK o : o = Head1(occs, w)
    OBVIOUS
  <2>3. o \in occs /\ o[1] \in DOMAIN t /\ o[2] \in DOMAIN t[o[1]]
    BY <1>1, <1>2, <2>1, <2>2
  <2>4. LineAt(t, o).newlines \in Nat
    <3>1. o[1] \in StylePath /\ t[o[1]] \in FileOf(o[1])
      BY <2>3 DEF IsTree
    <3>2. PICK n \in 0..MaxLines : t[o[1]] \in [1..n -> Rule]
      BY <3>1 DEF FileOf
    <3>3. t[o[1]][o[2]] \in Rule
      BY <2>3, <3>2
    <3> QED BY <3>3, RuleAssumption DEF LineAt
  <2>5. f.line \in Nat \ {0}
    BY <2>1, <2>2, <2>4
  <2>6. f.rule = "css-duplicated-body" /\ f.path \in DOMAIN t
    BY <1>3, <2>1, <2>2, <2>3, GroupFindingsOf
  <2> QED BY <2>5, <2>6 DEF Numbered
<1>4. CASE f \in DuplicatedImpls(t, w)
  <2>1. PICK i : LET occs == {a \in Lines(t) : a[1] \in RustPath /\ SameText(LineAt(t, a), i)}
                 IN /\ Cardinality(occs) >= 3 /\ f.rule = "rust-impl-dupe"
                    /\ f.path = Head1(occs, w)[1] /\ f.line = Head1(occs, w)[2]
    BY <1>4 DEF DuplicatedImpls
  <2> QED BY <1>1, <1>2, <2>1 DEF Numbered
<1>5. CASE f \in DuplicatedBlocks(t, w)
  <2>1. PICK at \in Windows(t) :
          LET occs == {a \in Windows(t) : Window(t, a) = Window(t, at)}
          IN /\ f.rule = "dry-duplicate-block"
             /\ f.path = Head1(occs, w)[1] /\ f.line = Head1(occs, w)[2]
    BY <1>5 DEF DuplicatedBlocks
  <2>2. Windows(t) \subseteq Lines(t)
    BY DEF Windows
  <2> QED BY <1>1, <2>1, <2>2 DEF Numbered
<1> QED BY <1>3, <1>4, <1>5 DEF GroupFindings

\* `all` finds both kinds; every subcommand finds some of them.
LEMMA FindingsOf ==
  ASSUME NEW t, NEW w, NEW sub
  PROVE  /\ Findings("all", t, w) = LineFindings(t) \cup GroupFindings(t, w)
         /\ Findings(sub, t, w) \subseteq LineFindings(t) \cup GroupFindings(t, w)
BY DEF Findings, LineFindings, GroupFindings

----------------------------------------------------------------------------
(* The inductive invariant: of the findings made entry by entry, the keys   *)
(* that load_baseline finds are those of the tree the baseline was written  *)
(* from, and what is reported is what is found and not suppressed.          *)

\* What an audit prints, some walk found and the baseline does not suppress.
Reported(w) == reported = {f \in Findings(run, tree, w) : ~Suppressed(f)}

IInv ==
  /\ IsTree(tree) /\ IsTree(snapshot) /\ DOMAIN snapshot = DOMAIN tree
  /\ baseline.form \in {"absent", "json", "damaged"}
  /\ {k \in LoadBaseline : k[1] \in LineRule} = {Key(f) : f \in LineFindings(snapshot)}
  /\ run \in Subcommand \cup {"none"}
  /\ run = "none" => reported = {}
  /\ run # "none" => \E w \in WalkOrder(tree) : Reported(w)

\* A tree of empty files has nothing wrong with any line.
LEMMA BlankTree ==
  ASSUME NEW files \in Layouts
  PROVE  /\ IsTree(Blank(files)) /\ DOMAIN Blank(files) = files
         /\ LineFindings(Blank(files)) = {}
<1>1. DOMAIN Blank(files) = files /\ \A p \in files : Blank(files)[p] = <<>>
  BY DEF Blank
<1>2. \A p \in files : <<>> \in FileOf(p)
  <2>1. 0 \in 0..MaxLines /\ \A S : <<>> \in [1..0 -> S]
    BY LinesAssumption
  <2> QED BY <2>1 DEF FileOf
<1>3. IsTree(Blank(files))
  BY <1>1, <1>2 DEF IsTree
<1>4. Lines(Blank(files)) = {}
  BY <1>1 DEF Lines
<1> QED BY <1>1, <1>3, <1>4 DEF LineFindings, RawLiterals, Raw, ManualImpls

LEMMA InitIInv == Init => IInv
<1> SUFFICES ASSUME Init PROVE IInv
  OBVIOUS
<1>1. PICK files \in Layouts : tree = Blank(files) /\ snapshot = tree
  BY DEF Init
<1>2. IsTree(tree) /\ LineFindings(snapshot) = {}
  BY <1>1, BlankTree
<1>3. baseline.form = "absent" /\ LoadBaseline = {} /\ run = "none" /\ reported = {}
  BY DEF Init, LoadBaseline
<1> QED BY <1>1, <1>2, <1>3 DEF IInv

LEMMA CommitIInv ==
  ASSUME IInv, NEW p \in DOMAIN tree, NEW content \in FileOf(p), Commit(p, content)
  PROVE  IInv'
<1>1. DOMAIN tree' = DOMAIN tree /\ IsTree(tree')
  BY DEF IInv, IsTree, Commit
<1>2. run' = "none" /\ reported' = {} /\ UNCHANGED <<baseline, snapshot>>
  BY DEF Commit
<1> QED BY <1>1, <1>2 DEF IInv, IsTree, LoadBaseline

\* The keys of one baseline, by the rule they begin with.
LEMMA KeysOf ==
  ASSUME NEW t, IsTree(t), NEW w, NEW K, K = {Key(f) : f \in Findings("all", t, w)}
  PROVE  {k \in K : k[1] \in LineRule} = {Key(f) : f \in LineFindings(t)}
<1>1. \A f \in LineFindings(t) \cup GroupFindings(t, w) : Key(f)[1] = f.rule
  BY DEF Key
<1>2. \A f \in LineFindings(t) \cup GroupFindings(t, w) : f.rule \in LineRule <=> f \in LineFindings(t)
  BY LineFindingsOf, GroupFindingsOf
<1>3. K = {Key(f) : f \in LineFindings(t) \cup GroupFindings(t, w)}
  BY FindingsOf
<1> QED BY <1>1, <1>2, <1>3

LEMMA WriteBaselineIInv ==
  ASSUME IInv, NEW w \in WalkOrder(tree), WriteBaseline(w)
  PROVE  IInv'
<1>1. UNCHANGED tree /\ snapshot' = tree /\ run' = "none" /\ reported' = {}
  BY DEF WriteBaseline
<1>2. baseline'.form = "json" /\ LoadBaseline' = {Key(f) : f \in Findings("all", tree, w)}
  BY DEF WriteBaseline, LoadBaseline
<1>3. {k \in LoadBaseline' : k[1] \in LineRule} = {Key(f) : f \in LineFindings(tree)}
  BY <1>2, KeysOf DEF IInv
<1> QED BY <1>1, <1>2, <1>3 DEF IInv, IsTree

LEMMA DamageBaselineIInv ==
  ASSUME IInv, DamageBaseline
  PROVE  IInv'
<1>1. /\ UNCHANGED tree /\ snapshot' = Blank(DOMAIN tree)
      /\ run' = "none" /\ reported' = {}
  BY DEF DamageBaseline
<1>2. IsTree(snapshot') /\ DOMAIN snapshot' = DOMAIN tree /\ LineFindings(snapshot') = {}
  BY <1>1, BlankTree DEF IInv, IsTree
<1>3. baseline'.form \in {"absent", "json", "damaged"} /\ LoadBaseline' = {}
  <2>1. baseline' = [baseline EXCEPT !.form = "damaged"] /\ baseline.form = "json"
    BY DEF DamageBaseline
  <2> QED BY <2>1 DEF IInv, LoadBaseline
<1> QED BY <1>1, <1>2, <1>3 DEF IInv, IsTree

LEMMA AuditIInv ==
  ASSUME IInv, NEW sub \in Subcommand, NEW w \in WalkOrder(tree), Audit(sub, w)
  PROVE  IInv'
<1>1. UNCHANGED <<tree, baseline, snapshot>> /\ run' = sub
  BY DEF Audit
<1>2. Reported(w)' /\ w \in WalkOrder(tree)'
  BY <1>1 DEF Audit, Reported, Suppressed, LoadBaseline
<1>3. run' # "none"
  BY <1>1, SubcommandAssumption
<1> QED BY <1>1, <1>2, <1>3 DEF IInv, IsTree, LoadBaseline

LEMMA StepIInv == IInv /\ [Next]_vars => IInv'
<1> SUFFICES ASSUME IInv, [Next]_vars PROVE IInv'
  OBVIOUS
<1>1. CASE UNCHANGED vars
  BY <1>1 DEF vars, IInv, IsTree, Reported, Suppressed, LoadBaseline
<1>2. CASE Next
  BY <1>2, CommitIInv, WriteBaselineIInv, DamageBaselineIInv, AuditIInv DEF Next
<1> QED BY <1>1, <1>2

LEMMA InvHolds == Spec => []IInv
BY InitIInv, StepIInv, PTL DEF Spec

----------------------------------------------------------------------------
(* The theorems                                                             *)

\* What is reported is on entries the tree has, for any files and walks; the
\* number of a duplicated body is positive.
THEOREM TypeCorrect == Spec => []TypeOK
<1>1. IInv => TypeOK
  <2> SUFFICES ASSUME IInv PROVE TypeOK
    OBVIOUS
  <2>1. ASSUME NEW f \in reported PROVE Numbered(f, tree)
    <3>1. PICK w \in WalkOrder(tree) : Reported(w)
      BY <2>1 DEF IInv
    <3>2. f \in LineFindings(tree) \cup GroupFindings(tree, w)
      BY <2>1, <3>1, FindingsOf DEF Reported
    <3>3. CASE f \in LineFindings(tree)
      <4>1. OnLine(f, tree) /\ f.rule \in LineRule
        BY <3>3, LineFindingsOf DEF IInv
      <4> QED BY <4>1 DEF OnLine, Numbered, LineRule
    <3> QED BY <3>2, <3>3, GroupNumbered DEF IInv
  <2> QED BY <2>1 DEF IInv, IsTree, TypeOK, Numbered
<1> QED BY <1>1, InvHolds, PTL

\* Whether a finding on a line is suppressed.
LEMMA SuppressedLine ==
  ASSUME IInv, NEW f \in LineFindings(tree)
  PROVE  Suppressed(f) <=> <<f.rule, f.detail>> \in Flagged(snapshot, f.path)
<1>1. Key(f) = <<f.rule, f.path, f.detail>> /\ f.rule \in LineRule /\ f.path \in DOMAIN snapshot
  BY LineFindingsOf DEF IInv, OnLine
<1>2. Suppressed(f) <=> \E g \in LineFindings(snapshot) : Key(g) = Key(f)
  BY <1>1 DEF Suppressed, IInv
<1>3. ASSUME NEW g \in LineFindings(snapshot), Key(g) = Key(f)
      PROVE  <<f.rule, f.detail>> \in Flagged(snapshot, f.path)
  <2>1. Key(g) = <<g.rule, g.path, g.detail>> /\ <<g.rule, g.detail>> \in Flagged(snapshot, g.path)
    BY LineFindingsOf DEF IInv
  <2>2. g.rule = f.rule /\ g.path = f.path /\ g.detail = f.detail
    BY <1>1, <1>3, <2>1
  <2> QED BY <2>1, <2>2
<1>4. ASSUME <<f.rule, f.detail>> \in Flagged(snapshot, f.path)
      PROVE  \E g \in LineFindings(snapshot) : Key(g) = Key(f)
  <2>1. PICK g \in LineFindings(snapshot) : g.path = f.path /\ <<g.rule, g.detail>> = <<f.rule, f.detail>>
    BY <1>1, <1>4, FlaggedFound DEF IInv
  <2> QED BY <2>1 DEF Key
<1> QED BY <1>2, <1>3, <1>4

\* The gate reports exactly the literals and the derivable impls that are new to
\* their file since the baseline was written, whatever else is in the files, in
\* whatever order they are walked and whatever lines agree in 120 characters.
THEOREM Ratchet == Spec => []LineRatchet
<1>1. IInv => LineRatchet
  <2> SUFFICES ASSUME IInv, run = "all", NEW p \in DOMAIN tree
               PROVE  {<<f.rule, f.detail>> : f \in {g \in reported : g.rule \in LineRule /\ g.path = p}}
                        = Flagged(tree, p) \ Flagged(snapshot, p)
    BY DEF LineRatchet
  <2>1. PICK w \in WalkOrder(tree) : Reported(w)
    BY DEF IInv
  <2>2. \A f : f \in reported <=> /\ f \in LineFindings(tree) \cup GroupFindings(tree, w)
                                  /\ ~Suppressed(f)
    BY <2>1, FindingsOf DEF Reported
  <2>3. \A f : f \in reported /\ f.rule \in LineRule <=> f \in LineFindings(tree) /\ ~Suppressed(f)
    BY <2>2, LineFindingsOf, GroupFindingsOf DEF IInv
  <2>4. ASSUME NEW f \in reported, f.rule \in LineRule, f.path = p
        PROVE  <<f.rule, f.detail>> \in Flagged(tree, p) \ Flagged(snapshot, p)
    BY <2>3, <2>4, LineFindingsOf, SuppressedLine DEF IInv
  <2>5. ASSUME NEW d \in Flagged(tree, p) \ Flagged(snapshot, p)
        PROVE  \E f \in reported : f.rule \in LineRule /\ f.path = p /\ <<f.rule, f.detail>> = d
    <3>1. PICK f \in LineFindings(tree) : f.path = p /\ <<f.rule, f.detail>> = d
      BY FlaggedFound DEF IInv
    <3> QED BY <2>3, <3>1, SuppressedLine
  <2> QED BY <2>4, <2>5
<1> QED BY <1>1, InvHolds, PTL

\* What one walk finds, any other finds something of the same rule of.
LEMMA EveryWalkFinds ==
  ASSUME NEW t, NEW w, NEW v, NEW sub, NEW f \in Findings(sub, t, w)
  PROVE  \E g \in Findings(sub, t, v) : g.rule = f.rule
<1>1. CASE sub \in {"all", "css"} /\ f \in RawLiterals(t)
  BY <1>1 DEF Findings
<1>2. CASE sub \in {"all", "rust", "derive"} /\ f \in ManualImpls(t)
  BY <1>2 DEF Findings
<1>3. CASE sub \in {"all", "css"} /\ f \in DuplicatedBodies(t, w)
  <2>1. PICK g : g \in DuplicatedBodies(t, v)
    <3> DEFINE occs(b) == {a \in Lines(t) : a[1] \in StylePath /\ LineAt(t, a).body = b}
               HeadOf(o) == LineAt(t, Head1(o, v))
               Report(o) == [rule |-> "css-duplicated-body", path |-> Head1(o, v)[1],
                             line |-> IF HeadOf(o).newlines = 0 THEN 1 ELSE HeadOf(o).newlines,
                             detail |-> <<Cardinality(o), Head60(HeadOf(o).selector)>>]
    <3>1. PICK b \in {r.body : r \in Rule} : Cardinality(occs(b)) >= 3
      BY <1>3 DEF DuplicatedBodies
    <3>2. Report(occs(b)) \in DuplicatedBodies(t, v)
      BY <3>1 DEF DuplicatedBodies
    <3> QED BY <3>2
  <2>2. g.rule = f.rule
    BY <1>3, <2>1, GroupFindingsOf DEF GroupFindings
  <2> QED BY <1>3, <2>1, <2>2 DEF Findings
<1>4. CASE sub \in {"all", "rust", "derive"} /\ f \in DuplicatedImpls(t, w)
  <2>1. PICK g : g \in DuplicatedImpls(t, v)
    <3> DEFINE occs(i) == {a \in Lines(t) : a[1] \in RustPath /\ SameText(LineAt(t, a), i)}
               Report(i) == [rule |-> "rust-impl-dupe", path |-> Head1(occs(i), v)[1],
                             line |-> Head1(occs(i), v)[2], detail |-> <<i.trait, {i.type}>>]
    <3>1. PICK i \in Impl : i.trait \notin DerivableTrait /\ Cardinality(occs(i)) >= 3
      BY <1>4 DEF DuplicatedImpls
    <3>2. Report(i) \in DuplicatedImpls(t, v)
      BY <3>1 DEF DuplicatedImpls
    <3> QED BY <3>2
  <2>2. g.rule = f.rule
    BY <1>4, <2>1, GroupFindingsOf DEF GroupFindings
  <2> QED BY <1>4, <2>1, <2>2 DEF Findings
<1>5. CASE sub \in {"all", "dry"} /\ f \in DuplicatedBlocks(t, w)
  <2>1. PICK g : g \in DuplicatedBlocks(t, v)
    <3> DEFINE occs(at) == {a \in Windows(t) : Window(t, a) = Window(t, at)}
               Report(o) == [rule |-> "dry-duplicate-block", path |-> Head1(o, v)[1],
                             line |-> Head1(o, v)[2],
                             detail |-> <<Cardinality(o), Cardinality(PathsOf(o))>>]
    <3>1. PICK at \in Windows(t) : Cardinality(occs(at)) >= 3 /\ Cardinality(PathsOf(occs(at))) > 1
      BY <1>5 DEF DuplicatedBlocks
    <3>2. Report(occs(at)) \in DuplicatedBlocks(t, v)
      BY <3>1 DEF DuplicatedBlocks
    <3> QED BY <3>2
  <2>2. g.rule = f.rule
    BY <1>5, <2>1, GroupFindingsOf DEF GroupFindings
  <2> QED BY <1>5, <2>1, <2>2 DEF Findings
<1> QED BY <1>1, <1>2, <1>3, <1>4, <1>5 DEF Findings

\* Without a baseline that is JSON nothing is suppressed, whatever is left in its
\* text: every kind of problem that a walk in any order would meet is reported.
THEOREM ClosedGate == Spec => []NoBaselineHidesNothing
<1>1. IInv => NoBaselineHidesNothing
  <2> SUFFICES ASSUME IInv, run # "none", baseline.form # "json", NEW w \in WalkOrder(tree),
                      NEW f \in Findings(run, tree, w)
               PROVE  \E g \in reported : g.rule = f.rule
    BY DEF NoBaselineHidesNothing
  <2>1. PICK v \in WalkOrder(tree) : Reported(v)
    BY DEF IInv
  <2>2. reported = Findings(run, tree, v)
    BY <2>1 DEF Reported, Suppressed, LoadBaseline
  <2> QED BY <2>2, EveryWalkFinds
<1> QED BY <1>1, InvHolds, PTL

=============================================================================
