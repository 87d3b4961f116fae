----------------------- MODULE PrePublishAuditProofs -----------------------
(***************************************************************************)
(* Proofs about PrePublishAudit, for any lengths, slugs, block kinds,      *)
(* thresholds and critics.                                                 *)
(***************************************************************************)
EXTENDS PrePublishAudit, SequenceTheorems, TLAPS

\* The sequences of at most m elements of S, as SectionList is built from them.
LEMMA BoundedSequences ==
  ASSUME NEW S, NEW m \in Nat, NEW q
  PROVE  q \in UNION {[1..n -> S] : n \in 0..m} <=> q \in Seq(S) /\ Len(q) <= m
<1>1. ASSUME q \in UNION {[1..n -> S] : n \in 0..m} PROVE q \in Seq(S) /\ Len(q) <= m
  <2>1. PICK n \in 0..m : q \in [1..n -> S]
    BY <1>1
  <2>2. q \in Seq(S)
    BY <2>1
  <2>3. DOMAIN q = 1..Len(q) /\ Len(q) \in Nat /\ DOMAIN q = 1..n
    BY <2>1, <2>2, LenProperties
  <2> QED
    BY <2>1, <2>2, <2>3
<1>2. ASSUME q \in Seq(S), Len(q) <= m PROVE q \in UNION {[1..n -> S] : n \in 0..m}
  <2>1. Len(q) \in 0..m /\ q \in [1..Len(q) -> S]
    BY <1>2, LenProperties
  <2> QED
    BY <2>1
<1> QED
  BY <1>1, <1>2

\* Appending to a list of sections, or to one of them, or taking away at either
\* end, is again a list of sections, within the bounds.
LEMMA SectionLists ==
  ASSUME NEW s \in SectionList
  PROVE  /\ s \in Seq(Seq(BlockKind))
         /\ Len(s) < MaxSections => Append(s, <<>>) \in SectionList
         /\ s # <<>> => SubSeq(s, 1, Len(s) - 1) \in SectionList
         /\ \A i \in DOMAIN s, kind \in BlockKind :
              Len(s[i]) < MaxBlocks => [s EXCEPT ![i] = Append(@, kind)] \in SectionList
         /\ \A i \in DOMAIN s : s[i] # <<>> => [s EXCEPT ![i] = Tail(@)] \in SectionList
<1> DEFINE Blocks == UNION {[1..m -> BlockKind] : m \in 0..MaxBlocks}
<1>1. MaxSections \in Nat /\ MaxBlocks \in Nat
  BY BoundAssumption
<1>2. \A b : b \in Blocks <=> b \in Seq(BlockKind) /\ Len(b) <= MaxBlocks
  BY <1>1, BoundedSequences
<1>3. SectionList = UNION {[1..n -> Blocks] : n \in 0..MaxSections}
  BY DEF SectionList
<1> HIDE DEF Blocks
<1>4. \A t : t \in SectionList <=> t \in Seq(Blocks) /\ Len(t) <= MaxSections
  BY <1>1, <1>3, BoundedSequences
<1>5. s \in Seq(Blocks) /\ Len(s) <= MaxSections /\ Len(s) \in Nat /\ DOMAIN s = 1..Len(s)
  BY <1>4, LenProperties
<1>6. s \in Seq(Seq(BlockKind))
  <2>1. \A i \in 1..Len(s) : s[i] \in Seq(BlockKind)
    BY <1>2, <1>5, ElementOfSeq
  <2>2. s \in [1..Len(s) -> Blocks]
    BY <1>5, LenProperties
  <2> QED
    BY <1>5, <2>1, <2>2
<1>7. ASSUME Len(s) < MaxSections PROVE Append(s, <<>>) \in SectionList
  <2>1. <<>> \in Seq(BlockKind) /\ Len(<<>>) <= MaxBlocks
    BY <1>1, EmptySeq
  <2>2. <<>> \in Blocks
    BY Zenon, <1>2, <2>1
  <2>3. Append(s, <<>>) \in Seq(Blocks) /\ Len(Append(s, <<>>)) = Len(s) + 1
    BY <1>5, <2>2, AppendProperties
  <2>4. Len(Append(s, <<>>)) <= MaxSections
    BY <1>1, <1>5, <1>7, <2>3
  <2> QED
    BY Zenon, <1>4, <2>3, <2>4
<1>8. ASSUME s # <<>> PROVE SubSeq(s, 1, Len(s) - 1) \in SectionList
  <2>1. Len(s) - 1 \in Nat
    BY <1>5, <1>8, EmptySeq
  <2>2. \A i \in 1..(Len(s) - 1) : s[i] \in Blocks
    BY <1>5, <2>1, ElementOfSeq
  <2>3. /\ SubSeq(s, 1, Len(s) - 1) \in Seq(Blocks)
        /\ Len(SubSeq(s, 1, Len(s) - 1)) = IF 1 <= Len(s) - 1 THEN (Len(s) - 1) - 1 + 1 ELSE 0
    BY <2>1, <2>2, SubSeqProperties
  <2>4. Len(SubSeq(s, 1, Len(s) - 1)) <= MaxSections
    BY <1>1, <1>5, <2>1, <2>3
  <2> QED
    BY Zenon, <1>4, <2>3, <2>4
<1>9. ASSUME NEW i \in DOMAIN s, NEW b \in Blocks PROVE [s EXCEPT ![i] = b] \in SectionList
  BY <1>4, <1>5, ExceptSeq
<1>10. ASSUME NEW i \in DOMAIN s, NEW kind \in BlockKind, Len(s[i]) < MaxBlocks
       PROVE  [s EXCEPT ![i] = Append(@, kind)] \in SectionList
  <2>1. s[i] \in Seq(BlockKind) /\ Len(s[i]) \in Nat
    BY <1>2, <1>5, ElementOfSeq, LenProperties
  <2>2. Append(s[i], kind) \in Seq(BlockKind) /\ Len(Append(s[i], kind)) = Len(s[i]) + 1
    BY <2>1, AppendProperties
  <2>3. Len(Append(s[i], kind)) <= MaxBlocks
    BY <1>1, <1>10, <2>1, <2>2
  <2>4. Append(s[i], kind) \in Blocks
    BY Zenon, <1>2, <2>2, <2>3
  <2> QED
    BY <1>9, <2>4
<1>11. ASSUME NEW i \in DOMAIN s, s[i] # <<>>
       PROVE  [s EXCEPT ![i] = Tail(@)] \in SectionList
  <2>1. s[i] \in Seq(BlockKind) /\ Len(s[i]) \in Nat /\ Len(s[i]) <= MaxBlocks
    BY <1>2, <1>5, ElementOfSeq, LenProperties
  <2>2. Tail(s[i]) \in Seq(BlockKind) /\ Len(Tail(s[i])) = Len(s[i]) - 1
    BY <1>11, <2>1, HeadTailProperties
  <2>3. Len(Tail(s[i])) <= MaxBlocks
    BY <1>1, <2>1, <2>2
  <2>4. Tail(s[i]) \in Blocks
    BY Zenon, <1>2, <2>2, <2>3
  <2> QED
    BY <1>9, <2>4
<1> QED
  BY <1>6, <1>7, <1>8, <1>10, <1>11

----------------------------------------------------------------------------
(* Slugs                                                                    *)

\* validate_slug accepts exactly the words joined by single dashes.
LEMMA ValidSlugIsDashedWords ==
  ASSUME NEW s \in Seq(CharClass)
  PROVE  ValidSlug(s) <=> DashedWords(s)
<1> USE DEF CharClass
<1>1. ASSUME ValidSlug(s) PROVE DashedWords(s)
  <2>1. /\ Len(s) \in 1..41 /\ DOMAIN s = 1..Len(s)
        /\ s[1] = "alnum" /\ s[Len(s)] # "dash"
        /\ \A i \in 1..Len(s) : s[i] \in {"alnum", "dash"}
        /\ \A i \in 1..Len(s)-1 : ~(s[i] = "dash" /\ s[i+1] = "dash")
    BY <1>1, LenProperties DEF ValidSlug
  <2>2. ASSUME NEW i \in DOMAIN s, s[i] # "alnum"
        PROVE  s[i] = "dash" /\ i \in 2..Len(s)-1 /\ s[i-1] = "alnum" /\ s[i+1] = "alnum"
    <3>1. s[i] = "dash" /\ i # 1 /\ i # Len(s)
      BY <2>1, <2>2
    <3>2. i \in 2..Len(s)-1
      BY <3>1, <2>1
    <3>3. s[i-1] # "dash"
      <4>1. i - 1 \in 1..Len(s)-1 /\ (i - 1) + 1 = i
        BY <3>2, <2>1
      <4> QED
        BY <4>1, <3>1, <2>1
    <3>4. s[i+1] # "dash"
      BY <3>1, <3>2, <2>1
    <3> QED
      BY <3>1, <3>2, <3>3, <3>4, <2>1
  <2> QED
    BY <2>1, <2>2 DEF DashedWords
<1>2. ASSUME DashedWords(s) PROVE ValidSlug(s)
  <2> DOMAIN s = 1..Len(s)
    BY LenProperties
  <2>1. /\ Len(s) \in 1..41 /\ DOMAIN s = 1..Len(s)
        /\ \A i \in 1..Len(s) :
             \/ s[i] = "alnum"
             \/ s[i] = "dash" /\ i \in 2..Len(s)-1 /\ s[i-1] = "alnum" /\ s[i+1] = "alnum"
    BY <1>2 DEF DashedWords
  <2>2. s[1] = "alnum" /\ s[Len(s)] # "dash"
    BY <2>1
  <2>3. \A i \in 1..Len(s)-1 : ~(s[i] = "dash" /\ s[i+1] = "dash")
    BY <2>1
  <2> QED
    BY <2>1, <2>2, <2>3 DEF ValidSlug
<1> QED
  BY <1>1, <1>2

----------------------------------------------------------------------------
(* The invariants                                                           *)

\* The types are inductive.
LEMMA InitInv == Init => TypeOK
<1> SUFFICES ASSUME Init PROVE TypeOK
  OBVIOUS
<1>1. <<>> \in SectionList
  <2>1. 0 \in 0..MaxSections
    BY BoundAssumption
  <2>2. <<>> \in [1..0 -> UNION {[1..m -> BlockKind] : m \in 0..MaxBlocks}]
    OBVIOUS
  <2> QED
    BY <2>1, <2>2 DEF SectionList
<1> QED
  BY <1>1 DEF Init, TypeOK, Page

\* Every edit leaves a page, and the thresholds alone.
LEMMA StepInv == TypeOK /\ [Next]_vars => TypeOK'
<1> SUFFICES ASSUME TypeOK, Next PROVE TypeOK'
  BY DEF TypeOK, vars
<1> USE DEF TypeOK, Page
<1>1. UNCHANGED thresholds
  BY DEF Next, SetTitle, SetSlug, SetDescription, AddSection,
         RemoveLastSection, AddBlock, RemoveFirstBlock
<1>2. page' \in Page
  <2>1. CASE \E n \in TitleLength : SetTitle(n)
    BY <2>1 DEF SetTitle
  <2>2. CASE \E d \in DescriptionLength \cup {NoDescription} : SetDescription(d)
    BY <2>2 DEF SetDescription
  <2>3. CASE \E s \in Slug : SetSlug(s)
    BY <2>3 DEF SetSlug
  <2>4. CASE AddSection
    BY <2>4, SectionLists DEF AddSection
  <2>5. CASE RemoveLastSection
    BY <2>5, SectionLists DEF RemoveLastSection
  <2>6. CASE \E i \in DOMAIN page.sections, kind \in BlockKind : AddBlock(i, kind)
    <3>1. PICK i \in DOMAIN page.sections, kind \in BlockKind : AddBlock(i, kind)
      BY <2>6
    <3>2. [page.sections EXCEPT ![i] = Append(@, kind)] \in SectionList
      BY <3>1, SectionLists DEF AddBlock
    <3>3. page' = [page EXCEPT !.sections = [page.sections EXCEPT ![i] = Append(@, kind)]]
      BY <3>1 DEF AddBlock
    <3> QED
      BY <3>2, <3>3
  <2>7. CASE \E i \in DOMAIN page.sections : RemoveFirstBlock(i)
    <3>1. PICK i \in DOMAIN page.sections : RemoveFirstBlock(i)
      BY <2>7
    <3>2. [page.sections EXCEPT ![i] = Tail(@)] \in SectionList
      BY <3>1, SectionLists DEF RemoveFirstBlock
    <3>3. page' = [page EXCEPT !.sections = [page.sections EXCEPT ![i] = Tail(@)]]
      BY <3>1 DEF RemoveFirstBlock
    <3> QED
      BY <3>2, <3>3
  <2> QED
    BY <2>1, <2>2, <2>3, <2>4, <2>5, <2>6, <2>7 DEF Next
<1> QED
  BY <1>1, <1>2

\* Type correctness.
LEMMA TypeCorrect == Spec => []TypeOK
  BY InitInv, StepInv, PTL DEF Spec

----------------------------------------------------------------------------
(* What the findings say                                                    *)

\* The strict findings of the built-in rules.
LEMMA StrictFindings ==
  ASSUME NEW p \in Page, NEW t \in AuditThresholds
  PROVE  (\E f \in BuiltIn(p, t) : f.severity = "strict") <=>
           \/ p.title < t.title_min
           \/ ~ValidSlug(p.slug)
           \/ p.sections = <<>>
           \/ \E i \in DOMAIN p.sections : p.sections[i] = <<>>
<1>1. (\E f \in TitleFindings(p, t) : f.severity = "strict") <=> p.title < t.title_min
  <2>1. p.title \in Nat /\ t.title_min \in Nat
    BY LengthAssumption, ThresholdAssumption DEF Page
  <2> DEFINE short == p.title < t.title_min
             long == p.title >= t.title_min /\ p.title > t.title_max
  <2>2. TitleFindings(p, t) = FindingIf(short, "strict", "title.too-short")
                                \cup FindingIf(long, "warn", "title.too-long")
    BY DEF TitleFindings
  <2>3. ~\E f \in FindingIf(long, "warn", "title.too-long") : f.severity = "strict"
    BY DEF FindingIf, Finding
  <2>4. (\E f \in FindingIf(short, "strict", "title.too-short") : f.severity = "strict") <=> short
    BY DEF FindingIf, Finding
  <2> QED
    BY <2>2, <2>3, <2>4
<1>2. ~\E f \in DescriptionFindings(p, t) : f.severity = "strict"
  BY DEF DescriptionFindings, FindingIf, Finding
<1>3. ~\E f \in CompositionFindings(p) : f.severity = "strict"
  BY DEF CompositionFindings, FindingIf, Finding
<1>4. (\E f \in EmptySectionFindings(p) : f.severity = "strict")
        <=> \E i \in DOMAIN p.sections : p.sections[i] = <<>>
  <2>1. ASSUME NEW i \in DOMAIN p.sections, p.sections[i] = <<>>
        PROVE  \E f \in EmptySectionFindings(p) : f.severity = "strict"
    <3> DEFINE f == [severity |-> "strict", kind |-> "sections.empty-section", section |-> i]
    <3>1. f \in EmptySectionFindings(p) /\ f.severity = "strict"
      BY <2>1 DEF EmptySectionFindings
    <3> QED
      BY <3>1
  <2>2. ASSUME NEW f \in EmptySectionFindings(p)
        PROVE  \E i \in DOMAIN p.sections : p.sections[i] = <<>>
    BY <2>2 DEF EmptySectionFindings
  <2> QED
    BY <2>1, <2>2
<1>5. \A c \in BOOLEAN : \A kind : (\E f \in FindingIf(c, "strict", kind) : f.severity = "strict") <=> c
  BY DEF FindingIf, Finding
<1> QED
  BY <1>1, <1>2, <1>3, <1>4, <1>5 DEF BuiltIn

\* For every page, thresholds and critics, publication is blocked exactly over
\* what makes a page unusable.
THEOREM BlocksExactly == Spec => []BlocksExactlyBrokenPages
<1>1. ASSUME TypeOK PROVE BlocksExactlyBrokenPages
  <2>1. page \in Page /\ thresholds \in AuditThresholds
    BY <1>1 DEF TypeOK
  <2>2. page.slug \in Seq(CharClass) /\ page.sections \in Seq(Seq(BlockKind))
    BY <2>1, SlugAssumption, SectionLists DEF Page
  <2>3. ValidSlug(page.slug) <=> DashedWords(page.slug)
    BY <2>2, ValidSlugIsDashedWords
  <2>4. \A i \in DOMAIN page.sections : Len(page.sections[i]) = 0 <=> page.sections[i] = <<>>
    BY <2>2
  <2>5. BlocksPublish(Audit(page, thresholds)) <=>
          \/ \E f \in BuiltIn(page, thresholds) : f.severity = "strict"
          \/ \E f \in Critique(page) : f.severity = "strict"
    BY DEF BlocksPublish, Audit
  <2> QED
    BY <2>1, <2>3, <2>4, <2>5, StrictFindings DEF BlocksExactlyBrokenPages
<1> QED
  BY <1>1, TypeCorrect, PTL

\* A block at the end of a section leaves what is before it where it was.
LEMMA AddBlockKeeps ==
  ASSUME TypeOK, NEW i \in DOMAIN page.sections, NEW kind \in BlockKind, AddBlock(i, kind)
  PROVE  /\ page'.title = page.title /\ page'.slug = page.slug
         /\ page'.description = page.description
         /\ Len(page'.sections) = Len(page.sections)
         /\ DOMAIN page'.sections = DOMAIN page.sections
         /\ page'.sections = <<>> <=> page.sections = <<>>
         /\ \A j \in DOMAIN page.sections : page'.sections[j] = <<>> => page.sections[j] = <<>>
         /\ \A j \in DOMAIN page.sections : \A b \in DOMAIN page.sections[j] :
              b \in DOMAIN page'.sections[j] /\ page'.sections[j][b] = page.sections[j][b]
<1>1. page \in Page /\ page.sections \in Seq(Seq(BlockKind))
  BY SectionLists DEF TypeOK, Page
<1>2. page' = [page EXCEPT !.sections = [page.sections EXCEPT ![i] = Append(@, kind)]]
  BY DEF AddBlock
<1>3. /\ page'.title = page.title /\ page'.slug = page.slug
      /\ page'.description = page.description
      /\ page'.sections = [page.sections EXCEPT ![i] = Append(@, kind)]
  BY <1>1, <1>2 DEF Page
<1>4. page.sections[i] \in Seq(BlockKind) /\ Append(page.sections[i], kind) # <<>>
  BY <1>1, LenProperties, ElementOfSeq, AppendProperties
<1>5. page'.sections \in Seq(Seq(BlockKind))
  BY <1>1, <1>3
<1>6. /\ Len(page'.sections) = Len(page.sections)
      /\ DOMAIN page'.sections = DOMAIN page.sections
  BY <1>1, <1>3, <1>5
<1>7. \A b \in DOMAIN page.sections[i] :
        /\ b \in DOMAIN Append(page.sections[i], kind)
        /\ Append(page.sections[i], kind)[b] = page.sections[i][b]
  BY <1>4
<1> QED
  BY <1>1, <1>3, <1>4, <1>5, <1>6, <1>7

\* More content never brings up a finding of the built-in rules, whatever the
\* page and the thresholds.
THEOREM MoreBlocks == Spec => MoreBlocksNoNewFinding
<1>1. ASSUME TypeOK, NEW i \in DOMAIN page.sections, NEW kind \in BlockKind, AddBlock(i, kind)
      PROVE  BuiltIn(page', thresholds) \subseteq BuiltIn(page, thresholds)
  <2>1. /\ TitleFindings(page', thresholds) = TitleFindings(page, thresholds)
        /\ DescriptionFindings(page', thresholds) = DescriptionFindings(page, thresholds)
    BY <1>1, AddBlockKeeps DEF TitleFindings, DescriptionFindings
  <2>2. EmptySectionFindings(page') \subseteq EmptySectionFindings(page)
    BY <1>1, AddBlockKeeps DEF EmptySectionFindings
  <2>3. \A k : HasBlock(page, k) => HasBlock(page', k)
    BY <1>1, AddBlockKeeps DEF HasBlock
  <2>4. HasHeroAtTop(page) => HasHeroAtTop(page')
    <3>1. page.sections \in Seq(Seq(BlockKind))
      BY <1>1, SectionLists DEF TypeOK, Page
    <3>2. ASSUME HasHeroAtTop(page)
          PROVE  1 \in DOMAIN page.sections /\ 1 \in DOMAIN page.sections[1]
      <4>1. page.sections # <<>> /\ page.sections[1] # <<>>
        BY <3>2 DEF HasHeroAtTop
      <4>2. 1 \in DOMAIN page.sections
        BY <3>1, <4>1
      <4>3. page.sections[1] \in Seq(BlockKind)
        BY <3>1, <4>2
      <4> QED
        BY <4>1, <4>2, <4>3
    <3> QED
      BY <1>1, <3>2, AddBlockKeeps DEF HasHeroAtTop
  <2>5. CompositionFindings(page') \subseteq CompositionFindings(page)
    BY <1>1, <2>3, <2>4, AddBlockKeeps DEF CompositionFindings, FindingIf
  <2>6. page'.slug = page.slug /\ (page'.sections = <<>> <=> page.sections = <<>>)
    BY <1>1, AddBlockKeeps
  <2> QED
    BY <2>1, <2>2, <2>5, <2>6 DEF BuiltIn, FindingIf
<1>2. TypeOK /\ [Next]_vars =>
        [(\E i \in DOMAIN page.sections, kind \in BlockKind : AddBlock(i, kind))
           => BuiltIn(page', thresholds) \subseteq BuiltIn(page, thresholds)]_vars
  BY <1>1
<1> QED
  BY <1>2, TypeCorrect, PTL DEF Spec, MoreBlocksNoNewFinding

=============================================================================
