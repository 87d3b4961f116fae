-------------------------- MODULE PrePublishAudit --------------------------
(***************************************************************************)
(* cms-pre-publish-audit/src/lib.rs: the findings the audit has about one  *)
(* page, while an editor works on the page.                                *)
(*                                                                         *)
(* Of a page the model keeps what the rules look at: lengths in characters *)
(* instead of texts, the slug as a sequence of character classes, and the  *)
(* kinds of the blocks in each section.  The editor and the critics are    *)
(* the embedding program's: any edit may happen, and Critique is any       *)
(* function of the page.                                                   *)
(***************************************************************************)
EXTENDS Naturals, Sequences, FiniteSets

CONSTANTS
  TitleLength,        \* lengths the editor gives to titles
  Slug,               \* slugs, sequences over CharClass
  DescriptionLength,
  NoDescription,      \* description: None
  BlockKind,
  MaxSections,        \* bound on the sections of a page
  MaxBlocks,          \* bound on the blocks of a section
  AuditThresholds,    \* the thresholds operators configure
  Critique(_)         \* the findings of all critics about a page

CharClass == {"alnum", "dash", "other"}
Severity == {"strict", "warn", "info"}
SectionList == UNION {[1..n -> UNION {[1..m -> BlockKind] : m \in 0..MaxBlocks}] :
                        n \in 0..MaxSections}
Page == [title : TitleLength, slug : Slug,
         description : DescriptionLength \cup {NoDescription},
         sections : SectionList]

ASSUME LengthAssumption == TitleLength \subseteq Nat /\ DescriptionLength \subseteq Nat
ASSUME SlugAssumption == Slug \subseteq Seq(CharClass)
ASSUME ThresholdAssumption ==
  AuditThresholds \subseteq
    [title_min : Nat, title_max : Nat, description_min : Nat, description_max : Nat]
ASSUME NoDescriptionAssumption == NoDescription \notin Nat
ASSUME BoundAssumption == MaxSections \in Nat /\ MaxBlocks \in Nat

VARIABLES
  page,        \* the page in the editor
  thresholds

vars == <<page, thresholds>>

----------------------------------------------------------------------------
(* The rules                                                                *)

\* Page::validate_slug
ValidSlug(s) ==
  /\ Len(s) \in 1..41
  /\ s[1] = "alnum"
  /\ \A i \in DOMAIN s : s[i] \in {"alnum", "dash"}
  /\ s[Len(s)] # "dash"
  /\ ~\E i \in 1..Len(s)-1 : s[i] = "dash" /\ s[i+1] = "dash"

Finding(severity, kind) == [severity |-> severity, kind |-> kind]
FindingIf(condition, severity, kind) ==
  IF condition THEN {Finding(severity, kind)} ELSE {}

\* the detail of an empty-section finding is the number of the section
EmptySectionFindings(p) ==
  {[severity |-> "strict", kind |-> "sections.empty-section", section |-> i] :
     i \in {j \in DOMAIN p.sections : p.sections[j] = <<>>}}

TitleFindings(p, t) ==
  FindingIf(p.title < t.title_min, "strict", "title.too-short")
    \cup FindingIf(p.title >= t.title_min /\ p.title > t.title_max,
                   "warn", "title.too-long")

DescriptionFindings(p, t) ==
  IF p.description = NoDescription
    THEN {Finding("warn", "description.missing")}
    ELSE FindingIf(p.description < t.description_min,
                   "warn", "description.too-short")
           \cup FindingIf(/\ p.description >= t.description_min
                          /\ p.description > t.description_max,
                          "warn", "description.too-long")

HasHeroAtTop(p) ==
  /\ p.sections # <<>>
  /\ p.sections[1] # <<>>
  /\ p.sections[1][1] = "hero"

HasBlock(p, kind) ==
  \E i \in DOMAIN p.sections : \E j \in DOMAIN p.sections[i] : p.sections[i][j] = kind

\* mutated: no heading is missed while the first section is empty
MutCompositionFindings(p) ==
  FindingIf(p.sections # <<>> /\ ~HasHeroAtTop(p), "info", "composition.no-hero")
    \cup FindingIf(p.sections # <<>> /\ ~HasBlock(p, "cta"),
                   "info", "composition.no-cta")
    \cup FindingIf(/\ Len(p.sections) > 1 /\ p.sections[1] # <<>>
                   /\ ~HasBlock(p, "heading_body"), "warn", "composition.headings")

CompositionFindings(p) ==
  FindingIf(p.sections # <<>> /\ ~HasHeroAtTop(p), "info", "composition.no-hero")
    \cup FindingIf(p.sections # <<>> /\ ~HasBlock(p, "cta"),
                   "info", "composition.no-cta")
    \cup FindingIf(Len(p.sections) > 1 /\ ~HasBlock(p, "heading_body"),
                   "warn", "composition.headings")

\* what the rules of this crate find
BuiltIn(p, t) ==
  TitleFindings(p, t)
    \cup FindingIf(~ValidSlug(p.slug), "strict", "slug.invalid")
    \cup DescriptionFindings(p, t)
    \cup FindingIf(p.sections = <<>>, "strict", "sections.empty")
    \cup EmptySectionFindings(p)
    \cup CompositionFindings(p)

\* audit_page_with
Audit(p, t) == BuiltIn(p, t) \cup Critique(p)

\* mutated: a warning blocks as well
MutBlocksPublish(findings) == \E f \in findings : f.severity # "info"

BlocksPublish(findings) == \E f \in findings : f.severity = "strict"

----------------------------------------------------------------------------
(* Editing                                                                  *)

\* Page::draft: a new page has a slug and a title and nothing else
Init ==
  /\ page \in [title : TitleLength, slug : Slug,
               description : {NoDescription}, sections : {<<>>}]
  /\ thresholds \in AuditThresholds

SetTitle(n) ==
  /\ page' = [page EXCEPT !.title = n]
  /\ UNCHANGED thresholds

SetSlug(s) ==
  /\ page' = [page EXCEPT !.slug = s]
  /\ UNCHANGED thresholds

SetDescription(d) ==
  /\ page' = [page EXCEPT !.description = d]
  /\ UNCHANGED thresholds

AddSection ==
  /\ Len(page.sections) < MaxSections
  /\ page' = [page EXCEPT !.sections = Append(@, <<>>)]
  /\ UNCHANGED thresholds

RemoveLastSection ==
  /\ page.sections # <<>>
  /\ page' = [page EXCEPT !.sections = SubSeq(@, 1, Len(@) - 1)]
  /\ UNCHANGED thresholds

AddBlock(i, kind) ==
  /\ Len(page.sections[i]) < MaxBlocks
  /\ page' = [page EXCEPT !.sections[i] = Append(@, kind)]
  /\ UNCHANGED thresholds

RemoveFirstBlock(i) ==
  /\ page.sections[i] # <<>>
  /\ page' = [page EXCEPT !.sections[i] = Tail(@)]
  /\ UNCHANGED thresholds

Next ==
  \/ \E n \in TitleLength : SetTitle(n)
  \/ \E s \in Slug : SetSlug(s)
  \/ \E d \in DescriptionLength \cup {NoDescription} : SetDescription(d)
  \/ AddSection
  \/ RemoveLastSection
  \/ \E i \in DOMAIN page.sections, kind \in BlockKind : AddBlock(i, kind)
  \/ \E i \in DOMAIN page.sections : RemoveFirstBlock(i)

Spec == Init /\ [][Next]_vars

----------------------------------------------------------------------------
(* Properties                                                               *)

\* Every variable has its type.
TypeOK ==
  /\ page \in Page
  /\ thresholds \in AuditThresholds

\* A slug in other words: letters and digits, with single dashes between them.
DashedWords(s) ==
  /\ Len(s) \in 1..41
  /\ \A i \in DOMAIN s :
       \/ s[i] = "alnum"
       \/ /\ s[i] = "dash"
          /\ i \in 2..Len(s)-1
          /\ s[i-1] = "alnum" /\ s[i+1] = "alnum"

\* "Strict blocks publish, Warn surfaces but doesn't block": publication is
\* blocked exactly when the page has no usable title or address, has nothing or
\* an empty band to render, or a critic objects; never over the length of a
\* description or a missing hero, even when the operator's thresholds contradict
\* each other.
BlocksExactlyBrokenPages ==
  BlocksPublish(Audit(page, thresholds)) <=>
    \/ page.title < thresholds.title_min
    \/ ~DashedWords(page.slug)
    \/ page.sections = <<>>
    \/ \E i \in DOMAIN page.sections : Len(page.sections[i]) = 0
    \/ \E f \in Critique(page) : f.severity = "strict"

\* Writing more content into the sections a page has never brings up a finding
\* that was not there before.
MoreBlocksNoNewFinding ==
  [][(\E i \in DOMAIN page.sections, kind \in BlockKind : AddBlock(i, kind))
       => BuiltIn(page', thresholds) \subseteq BuiltIn(page, thresholds)]_vars

=============================================================================
