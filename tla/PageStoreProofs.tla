-------------------------- MODULE PageStoreProofs --------------------------
(* Theorems about PageStore, for any processes, slugs, ids and uses.        *)
EXTENDS PageStore, TLAPS

LEMMA ContentOf ==
  ASSUME NEW w \in Content
  PROVE  Readable(w) \/ w \in {Absent, Empty, Torn}
BY DEF Content, Readable

LEMMA PageMark ==
  ASSUME NEW p \in Page
  PROVE  p \in Content /\ Readable(p) /\ p # Absent /\ p # Empty /\ p # Torn /\ p # NoPage
BY MarkAssumption DEF Content, Readable

\* A page with other sections, or another status, is a page with the same id.
LEMMA PageExcept ==
  ASSUME NEW p \in Page, NEW b \in 0..MaxBody, NEW st \in Status, NEW i \in PageId
  PROVE  /\ [p EXCEPT !.body = b] \in Page /\ [p EXCEPT !.body = b].id = p.id
         /\ [p EXCEPT !.status = st] \in Page /\ [p EXCEPT !.status = st].id = p.id
         /\ [p EXCEPT !.status = st, !.body = b] \in Page
         /\ [p EXCEPT !.status = st, !.body = b].id = p.id
         /\ [p EXCEPT !.id = i] \in Page /\ [p EXCEPT !.id = i].id = i
         /\ [p EXCEPT !.id = i, !.status = st] \in Page
         /\ [p EXCEPT !.id = i, !.status = st].id = i
BY DEF Page

\* A whole write leaves the page that was written, or nothing that parses.
LEMMA OverlayOf ==
  ASSUME NEW p \in Page, NEW c \in Content, NEW w \in Overlay(p, c)
  PROVE  w \in Content /\ (Readable(w) => w.id = p.id /\ w.status = p.status)
<1>1. CASE w = p \/ w = Torn
  BY <1>1, MarkAssumption DEF Content, Readable
<1>2. ASSUME NEW b \in p.body + 1..MaxBody, w = [p EXCEPT !.body = b]
      PROVE  w \in Page /\ w.id = p.id /\ w.status = p.status
  <2>1. p.body \in 0..MaxBody
    BY DEF Page
  <2>2. b \in 0..MaxBody
    BY <2>1, BodyAssumption
  <2> QED BY <1>2, <2>2 DEF Page
<1> QED BY <1>1, <1>2 DEF Overlay, Content

\* A write cut short may also leave what was there, under either id.
LEMMA CutOverlayOf ==
  ASSUME NEW p \in Page, NEW c \in Content, NEW w \in CutOverlay(p, c)
  PROVE  w \in Content /\ (Readable(w) => w.id = p.id \/ (Readable(c) /\ w.id = c.id))
<1>1. CASE w \in {c, Torn}
  BY <1>1, MarkAssumption DEF Content, Readable
<1>2. ASSUME NEW q \in Shortened(p) \cup {p}, w \in Overlay(q, c)
      PROVE  w \in Content /\ (Readable(w) => w.id = p.id)
  <2>1. q \in Page /\ q.id = p.id
    <3>1. p.body \in 0..MaxBody
      BY DEF Page
    <3>2. \A b \in 1..p.body - 1 : b \in 0..MaxBody
      BY <3>1, BodyAssumption
    <3> QED BY <1>2, <3>2 DEF Shortened, Page
  <2> QED BY <1>2, <2>1, OverlayOf
<1>3. CASE c \in Page /\ w \in {[c EXCEPT !.id = p.id], [c EXCEPT !.id = p.id, !.status = p.status]}
  <2>1. p.id \in PageId /\ p.status \in Status
    BY DEF Page
  <2>2. w \in Page /\ w.id = p.id
    BY <1>3, <2>1 DEF Page
  <2> QED BY <2>2 DEF Content
<1>4. \/ w \in {c, Torn}
      \/ \E q \in Shortened(p) \cup {p} : w \in Overlay(q, c)
      \/ c \in Page /\ w \in {[c EXCEPT !.id = p.id], [c EXCEPT !.id = p.id, !.status = p.status]}
  BY DEF CutOverlay
<1> QED BY <1>1, <1>2, <1>3, <1>4

----------------------------------------------------------------------------
(* Types                                                                    *)

LEMMA InitTypeOK == Init => TypeOK
<1> SUFFICES ASSUME Init PROVE TypeOK
  OBVIOUS
<1>1. IsUse(use)
  BY UsesAssumption DEF Init
<1>2. file \in [Slug -> Page \cup {Absent}]
  BY <1>1 DEF Init, IsUse
<1>3. file \in [Slug -> Content]
  BY <1>2 DEF Content
<1>4. \A s \in Slug : file[s] # Absent => file[s].id \in PageId
  BY <1>2 DEF Page
<1>5. used \in SUBSET PageId /\ live \in SUBSET PageId
  BY <1>4 DEF Init
<1>6. owner \in [Slug -> PageId \cup {NoId}]
  BY <1>4 DEF Init
<1>7. page \in [Client -> Page \cup {NoPage}] /\ prior \in [Client -> Content]
  BY DEF Init, Content
<1>8. dir \in BOOLEAN /\ meta \in Meta
  BY DEF Init, Meta
<1> QED BY <1>3, <1>5, <1>6, <1>7, <1>8 DEF Init, TypeOK, InWrite

\* What Put and Return do to the types.
LEMMA PutType ==
  ASSUME TypeOK, NEW s \in Slug, NEW w \in Content, Put(s, w)
  PROVE  file' \in [Slug -> Content] /\ owner' \in [Slug -> PageId \cup {NoId}]
<1>1. Readable(w) => w.id \in PageId
  BY DEF Readable, Page
<1> QED BY <1>1 DEF Put, TypeOK

LEMMA ReturnType ==
  ASSUME TypeOK, NEW c \in Client, Return(c), UNCHANGED use,
         dir' \in BOOLEAN, meta' \in Meta, file' \in [Slug -> Content],
         owner' \in [Slug -> PageId \cup {NoId}],
         used' \in SUBSET PageId, live' \in SUBSET PageId
  PROVE  TypeOK'
BY DEF TypeOK, Return, Goto, InWrite, Content

LEMMA SubmitType ==
  ASSUME TypeOK, NEW c \in Client, NEW s \in Slug, NEW p \in Page, Submit(c, s, p),
         UNCHANGED <<use, dir, meta, fileVars, live>>, used' \in SUBSET PageId
  PROVE  TypeOK'
BY DEF TypeOK, Submit, Goto, InWrite, fileVars

LEMMA NewType ==
  ASSUME TypeOK, UNCHANGED use, NEW c \in Client, NEW s \in Slug, NEW i \in PageId, New(c, s, i)
  PROVE  TypeOK'
<1>1. [id |-> i, status |-> "draft", body |-> 0] \in Page
  BY StatusAssumption, BodyAssumption DEF Page
<1> QED BY <1>1, SubmitType DEF New, TypeOK

LEMMA PublishType ==
  ASSUME TypeOK, UNCHANGED use, NEW c \in Client, NEW s \in Slug, Publish(c, s)
  PROVE  TypeOK'
<1>1. [file[s] EXCEPT !.status = "published"] \in Page
  BY StatusAssumption DEF Publish, Readable, Page
<1> QED BY <1>1, SubmitType DEF Publish, TypeOK, history

LEMMA EditType ==
  ASSUME TypeOK, UNCHANGED use, NEW c \in Client, NEW s \in Slug, NEW st \in Status,
         NEW b \in 0..MaxBody, Edit(c, s, st, b)
  PROVE  TypeOK'
<1>1. [file[s] EXCEPT !.status = st, !.body = b] \in Page
  BY PageExcept DEF Edit, Readable, Page
<1> QED BY <1>1, SubmitType DEF Edit, TypeOK, history

LEMMA RenameType ==
  ASSUME TypeOK, UNCHANGED use, NEW c \in Client, NEW s \in Slug, NEW t \in Slug, Rename(c, s, t)
  PROVE  TypeOK'
BY SubmitType DEF Rename, TypeOK, history, Readable

LEMMA CheckType ==
  ASSUME TypeOK, UNCHANGED use, NEW c \in Client, Check(c)
  PROVE  TypeOK'
<1>1. CASE Return(c)
  BY <1>1, ReturnType DEF Check, TypeOK, fileVars, history
<1>2. CASE Goto(c, "create") /\ UNCHANGED <<slug, page, linked, prior>>
  BY <1>2 DEF Check, Goto, TypeOK, fileVars, history, InWrite
<1> QED BY <1>1, <1>2 DEF Check

LEMMA CreateType ==
  ASSUME TypeOK, UNCHANGED use, NEW c \in Client, Create(c)
  PROVE  TypeOK'
<1>1. slug[c] \in Slug /\ Empty \in Content
  BY DEF Create, TypeOK, InWrite, Content
<1>2. file' \in [Slug -> Content] /\ owner' \in [Slug -> PageId \cup {NoId}]
  BY <1>1, PutType DEF Create
<1> QED BY <1>1, <1>2 DEF Create, Goto, TypeOK, history, InWrite

\* What a write leaves, whole or cut short, has its type.
LEMMA WriteType ==
  ASSUME TypeOK, NEW c \in Client, InWrite(c),
         \/ \E w \in Overlay(page[c], file[slug[c]]) : Put(slug[c], w)
         \/ \E w \in CutOverlay(page[c], file[slug[c]]) : Put(slug[c], w)
         \/ UNCHANGED fileVars
  PROVE  file' \in [Slug -> Content] /\ owner' \in [Slug -> PageId \cup {NoId}]
<1>1. slug[c] \in Slug /\ page[c] \in Page /\ file[slug[c]] \in Content
  BY DEF TypeOK, InWrite
<1>2. ASSUME NEW w \in Overlay(page[c], file[slug[c]]), Put(slug[c], w)
      PROVE  file' \in [Slug -> Content] /\ owner' \in [Slug -> PageId \cup {NoId}]
  BY <1>1, <1>2, OverlayOf, PutType
<1>3. ASSUME NEW w \in CutOverlay(page[c], file[slug[c]]), Put(slug[c], w)
      PROVE  file' \in [Slug -> Content] /\ owner' \in [Slug -> PageId \cup {NoId}]
  BY <1>1, <1>3, CutOverlayOf, PutType
<1>4. CASE UNCHANGED fileVars
  BY <1>4 DEF fileVars, TypeOK
<1> QED BY <1>2, <1>3, <1>4

LEMMA FillType ==
  ASSUME TypeOK, UNCHANGED use, NEW c \in Client, Fill(c)
  PROVE  TypeOK'
<1>1. InWrite(c) /\ page[c].id \in PageId
  BY DEF Fill, InWrite, TypeOK, Page
<1>2. file' \in [Slug -> Content] /\ owner' \in [Slug -> PageId \cup {NoId}]
  BY <1>1, WriteType DEF Fill
<1>3. live' \in SUBSET PageId /\ dir' \in BOOLEAN /\ meta' \in Meta /\ used' \in SUBSET PageId
  BY <1>1 DEF Fill, TypeOK
<1> QED BY <1>2, <1>3, ReturnType DEF Fill

LEMMA DeleteType ==
  ASSUME TypeOK, UNCHANGED use, NEW c \in Client, NEW s \in Slug, Delete(c, s)
  PROVE  TypeOK'
BY DEF Delete, Goto, TypeOK, InWrite, fileVars, history

LEMMA UnlinkType ==
  ASSUME TypeOK, UNCHANGED use, NEW c \in Client, Unlink(c)
  PROVE  TypeOK'
<1>1. slug[c] \in Slug /\ Absent \in Content
  BY DEF Unlink, TypeOK, Content
<1>2. file' \in [Slug -> Content] /\ owner' \in [Slug -> PageId \cup {NoId}]
  BY <1>1, PutType DEF Unlink
<1>3. linked' \in [Client -> BOOLEAN]
  BY DEF Unlink, TypeOK
<1> QED BY <1>2, <1>3 DEF Unlink, Goto, TypeOK, InWrite, history

LEMMA SiteType ==
  ASSUME TypeOK, UNCHANGED use, NEW c \in Client,
         InitSite(c) \/ SiteCreate(c) \/ SiteFill(c)
  PROVE  TypeOK'
<1>1. CASE InitSite(c)
  BY <1>1 DEF InitSite, Goto, TypeOK, InWrite, fileVars, history
<1>2. CASE SiteCreate(c)
  BY <1>2 DEF SiteCreate, Goto, TypeOK, InWrite, fileVars, history, Meta
<1>3. CASE SiteFill(c)
  <2>1. meta' \in Meta
    BY <1>3 DEF SiteFill, Meta
  <2> QED BY <1>3, <2>1, ReturnType DEF SiteFill, TypeOK, fileVars, history
<1> QED BY <1>1, <1>2, <1>3

LEMMA AbandonType ==
  ASSUME TypeOK, UNCHANGED use, NEW c \in Client, Abandon(c)
  PROVE  TypeOK'
<1>1. meta' \in Meta
  BY DEF Abandon, TypeOK, Meta
<1>2. file' \in [Slug -> Content] /\ owner' \in [Slug -> PageId \cup {NoId}]
  <2>1. CASE InWrite(c)
    BY <2>1, WriteType DEF Abandon
  <2>2. CASE ~InWrite(c)
    BY <2>2 DEF Abandon, InWrite, TypeOK, fileVars
  <2> QED BY <2>1, <2>2
<1> QED BY <1>1, <1>2, ReturnType DEF Abandon, TypeOK

LEMMA OwnsSlugs ==
  ASSUME TypeOK, NEW c \in Client, NEW s \in use.owns[c]
  PROVE  s \in Slug
BY UsesAssumption DEF TypeOK, IsUse

LEMMA StepTypeOK == TypeOK /\ [Next]_vars => TypeOK'
<1> SUFFICES ASSUME TypeOK, [Next]_vars PROVE TypeOK'
  OBVIOUS
<1>1. ASSUME UNCHANGED use, NEW c \in Client, Start(c)
      PROVE  TypeOK'
  BY <1>1, OwnsSlugs, NewType, PublishType, EditType, RenameType, DeleteType, SiteType DEF Start
<1>2. ASSUME UNCHANGED use, NEW c \in Client, Continue(c)
      PROVE  TypeOK'
  BY <1>2, CheckType, CreateType, FillType, UnlinkType, SiteType DEF Continue
<1>3. CASE UNCHANGED vars
  BY <1>3 DEF vars, fileVars, clientVars, history, TypeOK, InWrite
<1> QED BY <1>1, <1>2, <1>3, AbandonType DEF Next

\* The files, the metadata and what every process holds keep their types, with
\* writes overlapping and cut short anywhere.
THEOREM TypeCorrect == Spec => []TypeOK
BY InitTypeOK, StepTypeOK, PTL DEF Spec

----------------------------------------------------------------------------
(* Page ids.  A page is held under a slug by the file that reads as it, and *)
(* by a process that is about to write it there, possibly over a file that  *)
(* is empty at the moment: uniqueness of what the files read is not         *)
(* inductive without the writes in progress.                                *)

FileHolds(i, s) == Readable(file[s]) /\ file[s].id = i
WriteHolds(c, i, s) == InWrite(c) /\ slug[c] = s /\ page[c].id = i
Holds(i, s) == FileHolds(i, s) \/ \E c \in Client : WriteHolds(c, i, s)

\* The id of a page that is held was given out, and it is held under one slug.
HeldUsed == \A i \in PageId, s \in Slug : Holds(i, s) => i \in used
HeldOnce == \A i \in PageId, s, t \in Slug : Holds(i, s) /\ Holds(i, t) => s = t
IdInv == TypeOK /\ ("rename" \notin use.op => HeldUsed /\ HeldOnce)

LEMMA InitIdInv == Init => IdInv
<1> SUFFICES ASSUME Init PROVE IdInv
  OBVIOUS
<1>1. IsUse(use) /\ file = use.seed
  BY UsesAssumption DEF Init
<1>2. ASSUME NEW i \in PageId, NEW s \in Slug, Holds(i, s)
      PROVE  FileHolds(i, s) /\ file[s] # Absent /\ file[s].id = i
  BY <1>2, PageMark DEF Init, Holds, FileHolds, WriteHolds, InWrite, Readable
<1>3. HeldUsed
  BY <1>2 DEF HeldUsed, Init
<1>4. HeldOnce
  BY <1>1, <1>2 DEF HeldOnce, FileHolds, Readable, IsUse
<1> QED BY <1>3, <1>4, InitTypeOK DEF IdInv

\* What a file reads as after a write, whole or cut short, was held before.
LEMMA FileKept ==
  ASSUME TypeOK, NEW c \in Client, InWrite(c),
         \/ \E w \in Overlay(page[c], file[slug[c]]) : Put(slug[c], w)
         \/ \E w \in CutOverlay(page[c], file[slug[c]]) : Put(slug[c], w)
         \/ UNCHANGED fileVars,
         NEW i \in PageId, NEW s \in Slug, FileHolds(i, s)'
  PROVE  Holds(i, s)
<1>1. slug[c] \in Slug /\ page[c] \in Page /\ file[slug[c]] \in Content
  BY DEF TypeOK, InWrite
<1>2. CASE file'[s] = file[s]
  BY <1>2 DEF FileHolds, Holds, Readable
<1>3. ASSUME NEW w, Put(slug[c], w), file'[s] # file[s],
             Readable(w) => \/ w.id = page[c].id
                            \/ Readable(file[slug[c]]) /\ w.id = file[slug[c]].id
      PROVE  Holds(i, s)
  <2>1. s = slug[c] /\ file'[s] = w
    BY <1>1, <1>3 DEF Put, TypeOK
  <2>2. Readable(w) /\ w.id = i
    BY <2>1 DEF FileHolds, Readable
  <2>3. CASE w.id = page[c].id
    BY <2>1, <2>2, <2>3 DEF Holds, WriteHolds
  <2>4. CASE Readable(file[s]) /\ w.id = file[s].id
    BY <2>2, <2>4 DEF Holds, FileHolds
  <2> QED BY <1>3, <2>1, <2>2, <2>3, <2>4
<1>4. CASE \E w \in Overlay(page[c], file[slug[c]]) : Put(slug[c], w)
  BY <1>1, <1>2, <1>3, <1>4, OverlayOf
<1>5. CASE \E w \in CutOverlay(page[c], file[slug[c]]) : Put(slug[c], w)
  BY <1>1, <1>2, <1>3, <1>5, CutOverlayOf
<1>6. CASE UNCHANGED fileVars
  BY <1>2, <1>6 DEF fileVars
<1> QED BY <1>4, <1>5, <1>6

\* An operation that returns takes what it was about to write with it.
LEMMA ReturnKept ==
  ASSUME TypeOK, NEW c \in Client, Return(c), NEW d \in Client, NEW i \in PageId,
         NEW s \in Slug, WriteHolds(d, i, s)'
  PROVE  WriteHolds(d, i, s)
<1>1. d # c
  BY DEF WriteHolds, InWrite, Return, Goto, TypeOK
<1> QED BY <1>1 DEF WriteHolds, InWrite, Return, Goto, TypeOK

\* A call of write_page adds one page under one slug to what is held.
LEMMA SubmitHolds ==
  ASSUME TypeOK, NEW c \in Client, NEW t \in Slug, NEW p \in Page, Submit(c, t, p),
         UNCHANGED fileVars, NEW i \in PageId, NEW s \in Slug, Holds(i, s)'
  PROVE  Holds(i, s) \/ (s = t /\ i = p.id)
<1>1. CASE FileHolds(i, s)'
  BY <1>1 DEF FileHolds, Holds, Readable, fileVars
<1>2. ASSUME NEW d \in Client, WriteHolds(d, i, s)', d # c
      PROVE  WriteHolds(d, i, s)
  BY <1>2 DEF WriteHolds, InWrite, Submit, Goto, TypeOK
<1>3. CASE WriteHolds(c, i, s)'
  BY <1>3 DEF WriteHolds, InWrite, Submit, Goto, TypeOK
<1> QED BY <1>1, <1>2, <1>3 DEF Holds

\* Only new-page makes anything held that was not held before.
LEMMA StartHolds ==
  ASSUME TypeOK, "rename" \notin use.op, NEW c \in Client, Start(c),
         NEW i \in PageId, NEW s \in Slug, Holds(i, s)'
  PROVE  \/ Holds(i, s)
         \/ New(c, s, i)
<1>1. ASSUME NEW t \in Slug, NEW j \in PageId, New(c, t, j)
      PROVE  Holds(i, s) \/ New(c, s, i)
  <2>1. [id |-> j, status |-> "draft", body |-> 0] \in Page
    BY StatusAssumption, BodyAssumption DEF Page
  <2>2. Holds(i, s) \/ (s = t /\ i = j)
    BY <1>1, <2>1, SubmitHolds DEF New
  <2> QED BY <1>1, <2>2
<1>2. ASSUME NEW t \in Slug, Publish(c, t) \/ \E st \in Status, b \in 0..MaxBody : Edit(c, t, st, b)
      PROVE  Holds(i, s)
  <2>1. file[t] \in Page
    BY <1>2 DEF Publish, Edit, Readable
  <2>2. PICK p \in Page : p.id = file[t].id /\ Submit(c, t, p) /\ UNCHANGED fileVars
    <3>1. CASE Publish(c, t)
      BY <2>1, <3>1, PageExcept, StatusAssumption DEF Publish, Page
    <3>2. ASSUME NEW st \in Status, NEW b \in 0..MaxBody, Edit(c, t, st, b)
          PROVE  \E p \in Page : p.id = file[t].id /\ Submit(c, t, p) /\ UNCHANGED fileVars
      <4> DEFINE p == [file[t] EXCEPT !.status = st, !.body = b]
      <4>1. p \in Page /\ p.id = file[t].id
        BY <2>1, PageExcept
      <4>2. Submit(c, t, p) /\ UNCHANGED fileVars
        BY <3>2 DEF Edit
      <4> HIDE DEF p
      <4> QED BY <4>1, <4>2
    <3> QED BY <1>2, <3>1, <3>2
  <2>3. Holds(i, s) \/ (s = t /\ i = file[t].id)
    BY <2>2, SubmitHolds
  <2> QED BY <2>1, <2>3 DEF Holds, FileHolds, Readable
<1>3. ASSUME NEW t \in Slug, Delete(c, t)
      PROVE  Holds(i, s)
  BY <1>3 DEF Delete, Goto, Holds, FileHolds, WriteHolds, InWrite, Readable, fileVars, TypeOK
<1>4. CASE InitSite(c)
  BY <1>4 DEF InitSite, Goto, Holds, FileHolds, WriteHolds, InWrite, Readable, fileVars, TypeOK
<1> QED BY <1>1, <1>2, <1>3, <1>4, OwnsSlugs DEF Start, Rename

LEMMA ContinueHolds ==
  ASSUME TypeOK, NEW c \in Client, Continue(c) \/ Abandon(c),
         NEW i \in PageId, NEW s \in Slug, Holds(i, s)'
  PROVE  Holds(i, s) /\ UNCHANGED used
<1>1. CASE Check(c)
  <2>1. FileHolds(i, s)' => FileHolds(i, s)
    BY <1>1 DEF Check, fileVars, FileHolds, Readable
  <2>2. ASSUME NEW d \in Client, WriteHolds(d, i, s)'
        PROVE  WriteHolds(d, i, s)
    <3>1. CASE Return(c)
      BY <2>2, <3>1, ReturnKept
    <3>2. CASE Goto(c, "create") /\ UNCHANGED <<slug, page, linked, prior>>
      BY <1>1, <2>2, <3>2 DEF Check, Goto, WriteHolds, InWrite, TypeOK
    <3> QED BY <1>1, <3>1, <3>2 DEF Check
  <2> QED BY <1>1, <2>1, <2>2 DEF Holds, Check, history
<1>2. CASE Create(c)
  <2>1. FileHolds(i, s)' => FileHolds(i, s)
    BY <1>2, MarkAssumption DEF Create, Put, FileHolds, Readable, TypeOK
  <2>2. ASSUME NEW d \in Client, WriteHolds(d, i, s)'
        PROVE  WriteHolds(d, i, s)
    BY <1>2, <2>2 DEF Create, Goto, WriteHolds, InWrite, TypeOK
  <2> QED BY <1>2, <2>1, <2>2 DEF Holds, Create, history
<1>3. CASE Fill(c)
  <2>1. FileHolds(i, s)' => Holds(i, s)
    BY <1>3, FileKept DEF Fill, InWrite
  <2>2. ASSUME NEW d \in Client, WriteHolds(d, i, s)'
        PROVE  WriteHolds(d, i, s)
    BY <1>3, <2>2, ReturnKept DEF Fill
  <2> QED BY <1>3, <2>1, <2>2 DEF Holds, Fill
<1>4. CASE Unlink(c)
  <2>1. FileHolds(i, s)' => FileHolds(i, s)
    BY <1>4, MarkAssumption DEF Unlink, Put, FileHolds, Readable, TypeOK
  <2>2. ASSUME NEW d \in Client, WriteHolds(d, i, s)'
        PROVE  WriteHolds(d, i, s)
    BY <1>4, <2>2 DEF Unlink, Goto, WriteHolds, InWrite, TypeOK
  <2> QED BY <1>4, <2>1, <2>2 DEF Holds, Unlink, history
<1>5. CASE SiteCreate(c)
  BY <1>5 DEF SiteCreate, Goto, Holds, FileHolds, WriteHolds, InWrite, Readable, fileVars,
              history, TypeOK
<1>6. CASE SiteFill(c)
  <2>1. ASSUME NEW d \in Client, WriteHolds(d, i, s)'
        PROVE  WriteHolds(d, i, s)
    BY <1>6, <2>1, ReturnKept DEF SiteFill
  <2> QED BY <1>6, <2>1 DEF SiteFill, Holds, FileHolds, Readable, fileVars, history
<1>7. CASE Abandon(c)
  <2>1. FileHolds(i, s)' => Holds(i, s)
    <3>1. CASE pc[c] = "fill"
      BY <1>7, <3>1, FileKept DEF Abandon, InWrite
    <3>2. CASE pc[c] # "fill"
      BY <1>7, <3>2 DEF Abandon, fileVars, FileHolds, Holds, Readable
    <3> QED BY <3>1, <3>2
  <2>2. ASSUME NEW d \in Client, WriteHolds(d, i, s)'
        PROVE  WriteHolds(d, i, s)
    BY <1>7, <2>2, ReturnKept DEF Abandon
  <2> QED BY <1>7, <2>1, <2>2 DEF Holds, Abandon
<1> QED BY <1>1, <1>2, <1>3, <1>4, <1>5, <1>6, <1>7 DEF Continue

\* What is held after a step was held before it, or is the one page that
\* new-page made, whose id nobody had.
LEMMA StepHolds ==
  ASSUME TypeOK, "rename" \notin use.op, [Next]_vars
  PROVE  /\ used \subseteq used'
         /\ \A i \in PageId, s \in Slug :
              Holds(i, s)' => Holds(i, s) \/ (i \notin used /\ i \in used')
         /\ \A i \in PageId, s, t \in Slug :
              i \notin used /\ Holds(i, s)' /\ Holds(i, t)' =>
                s = t \/ Holds(i, s) \/ Holds(i, t)
<1>1. CASE UNCHANGED vars
  BY <1>1 DEF vars, fileVars, clientVars, history, Holds, FileHolds, WriteHolds, InWrite, Readable
<1>2. ASSUME NEW c \in Client, Continue(c) \/ Abandon(c)
      PROVE  UNCHANGED used /\ \A i \in PageId, s \in Slug : Holds(i, s)' => Holds(i, s)
  <2>1. UNCHANGED used
    BY <1>2 DEF Continue, Check, Create, Fill, Unlink, SiteCreate, SiteFill, Abandon, history
  <2> QED BY <1>2, <2>1, ContinueHolds
<1>3. ASSUME NEW c \in Client, Start(c)
      PROVE  /\ used \subseteq used'
             /\ \A i \in PageId, s \in Slug : Holds(i, s)' => Holds(i, s) \/ New(c, s, i)
             /\ \A i, j \in PageId, s, t \in Slug : New(c, s, i) /\ New(c, t, j) => s = t
             /\ \A i \in PageId, s \in Slug : New(c, s, i) => i \notin used /\ i \in used'
  <2>1. used \subseteq used'
    BY <1>3 DEF Start, New, Publish, Edit, Rename, Delete, InitSite, history
  <2>2. ASSUME NEW i, NEW j, NEW s \in Slug, NEW t \in Slug, New(c, s, i), New(c, t, j)
        PROVE  s = t
    BY <2>2 DEF New, Submit, TypeOK
  <2> QED BY <1>3, <2>1, <2>2, StartHolds DEF New
<1> QED BY <1>1, <1>2, <1>3 DEF Next

LEMMA StepIdInv == IdInv /\ [Next]_vars => IdInv'
<1> SUFFICES ASSUME IdInv, [Next]_vars, ("rename" \notin use.op)'
             PROVE  HeldUsed' /\ HeldOnce'
  BY StepTypeOK DEF IdInv
<1>1. TypeOK /\ "rename" \notin use.op /\ HeldUsed /\ HeldOnce
  BY DEF IdInv, Next, vars
<1> QED BY <1>1, StepHolds DEF HeldUsed, HeldOnce

\* Where nobody changes a slug, no two pages that can be read have the same id,
\* whatever processes write over each other, fail, delete and die: write_page's
\* look before the write cannot give that, only fresh ids and one slug per page.
THEOREM UniqueIds == Spec => []IdsUnique
<1>1. IdInv => IdsUnique
  <2> SUFFICES ASSUME IdInv, "rename" \notin use.op, NEW s \in Slug, NEW t \in Slug,
                      Readable(file[s]), Readable(file[t]), file[s].id = file[t].id
               PROVE  s = t
    BY DEF IdsUnique
  <2>1. file[s].id \in PageId
    BY DEF Readable, Page
  <2> QED BY <2>1 DEF IdInv, HeldOnce, Holds, FileHolds
<1> QED BY <1>1, InitIdInv, StepIdInv, PTL DEF Spec

----------------------------------------------------------------------------
(* Published pages.  A process that is about to write a page that is not    *)
(* published has made it with new-page, so nobody else has it yet; one that *)
(* has truncated a file finds it empty or published when it fills it.       *)

CommandOnly == use.op \cap {"edit", "rename"} = {} /\ ~use.fault

LiveIsPublished ==
  \A s \in Slug : Readable(file[s]) /\ file[s].id \in live => file[s].status = "published"
DraftIsAlone ==
  \A c \in Client : InWrite(c) /\ page[c].status # "published" =>
    /\ page[c].id \notin live
    /\ \A s \in Slug : ~FileHolds(page[c].id, s)
    /\ \A d \in Client : InWrite(d) /\ page[d].id = page[c].id => d = c
RewriteIsPublished ==
  \A c \in Client : pc[c] = "fill" /\ FileHolds(page[c].id, slug[c]) =>
    file[slug[c]].status = "published"
PubInv ==
  CommandOnly => live \subseteq used /\ LiveIsPublished /\ DraftIsAlone /\ RewriteIsPublished

LEMMA InitPubInv == Init => PubInv
<1> SUFFICES ASSUME Init PROVE live \subseteq used /\ LiveIsPublished /\ DraftIsAlone /\ RewriteIsPublished
  BY DEF PubInv
<1>1. live \subseteq used /\ DraftIsAlone /\ RewriteIsPublished
  BY DEF Init, DraftIsAlone, RewriteIsPublished, InWrite
<1>2. ASSUME NEW s \in Slug, Readable(file[s]), file[s].id \in live
      PROVE  file[s].status = "published"
  <2>1. PICK t \in Slug : file[t] # Absent /\ file[t].status = "published" /\ file[t].id = file[s].id
    BY <1>2 DEF Init
  <2>2. IsUse(use) /\ file = use.seed
    BY UsesAssumption DEF Init
  <2>3. s = t
    BY <1>2, <2>1, <2>2 DEF IsUse, Readable
  <2> QED BY <2>1, <2>3
<1> QED BY <1>1, <1>2 DEF LiveIsPublished

\* A step that writes no page and calls no write_page.
LEMMA QuietPubInv ==
  ASSUME TypeOK, PubInv, CommandOnly, UNCHANGED <<live, used>>,
         \A s \in Slug : file'[s] = file[s] \/ ~Readable(file'[s]),
         \A c \in Client : InWrite(c)' => InWrite(c) /\ slug'[c] = slug[c] /\ page'[c] = page[c],
         \A c \in Client : pc'[c] = "fill" => pc[c] = "fill" \/ ~Readable(file'[slug[c]])
  PROVE  (live \subseteq used /\ LiveIsPublished /\ DraftIsAlone /\ RewriteIsPublished)'
<1>1. \A i, s : s \in Slug /\ FileHolds(i, s)' => FileHolds(i, s) /\ file'[s] = file[s]
  BY DEF FileHolds, Readable
<1>2. (live \subseteq used /\ LiveIsPublished)'
  BY DEF PubInv, LiveIsPublished, Readable
<1>3. DraftIsAlone'
  BY <1>1 DEF PubInv, DraftIsAlone
<1>4. RewriteIsPublished'
  <2> SUFFICES ASSUME NEW c \in Client, pc'[c] = "fill", FileHolds(page[c].id, slug[c])',
                      slug'[c] = slug[c], page'[c] = page[c], slug[c] \in Slug
               PROVE  file'[slug[c]].status = "published"
    BY DEF RewriteIsPublished, InWrite, FileHolds, TypeOK
  <2>1. FileHolds(page[c].id, slug[c]) /\ file'[slug[c]] = file[slug[c]] /\ Readable(file'[slug[c]])
    BY <1>1 DEF FileHolds, Readable
  <2> QED BY <2>1 DEF PubInv, RewriteIsPublished
<1> QED BY <1>2, <1>3, <1>4

LEMMA NewPubInv ==
  ASSUME IdInv, PubInv, CommandOnly, UNCHANGED use, NEW c \in Client, NEW s \in Slug,
         NEW i \in PageId, New(c, s, i)
  PROVE  PubInv'
<1>1. TypeOK /\ HeldUsed /\ live \subseteq used /\ LiveIsPublished /\ DraftIsAlone /\ RewriteIsPublished
  BY DEF IdInv, PubInv, CommandOnly
<1>2. UNCHANGED <<file, live>> /\ used' = used \cup {i} /\ i \notin used
  BY DEF New, fileVars
<1>3. \A d \in Client : d # c => /\ InWrite(d)' <=> InWrite(d)
                                 /\ pc'[d] = pc[d] /\ page'[d] = page[d] /\ slug'[d] = slug[d]
  BY <1>1 DEF New, Submit, Goto, InWrite, TypeOK
<1>4. InWrite(c)' /\ page'[c].id = i /\ pc'[c] = "check"
  BY <1>1 DEF New, Submit, Goto, InWrite, TypeOK
<1>5. \A d \in Client : InWrite(d) => page[d].id \in used
  BY <1>1 DEF HeldUsed, Holds, WriteHolds, TypeOK, InWrite, Page
<1>6. \A j, t : FileHolds(j, t)' <=> FileHolds(j, t)
  BY <1>2 DEF FileHolds, Readable
<1>7. \A t \in Slug : ~FileHolds(i, t)
  BY <1>1, <1>2 DEF HeldUsed, Holds
<1>8. (live \subseteq used /\ LiveIsPublished)'
  BY <1>1, <1>2 DEF LiveIsPublished, Readable
<1>9. DraftIsAlone'
  BY <1>1, <1>2, <1>3, <1>4, <1>5, <1>6, <1>7 DEF DraftIsAlone
<1>10. RewriteIsPublished'
  BY <1>1, <1>2, <1>3, <1>4, <1>6 DEF RewriteIsPublished
<1> QED BY <1>8, <1>9, <1>10 DEF PubInv

LEMMA PublishPubInv ==
  ASSUME IdInv, PubInv, CommandOnly, UNCHANGED use, NEW c \in Client, NEW s \in Slug, Publish(c, s)
  PROVE  PubInv'
<1>1. TypeOK /\ live \subseteq used /\ LiveIsPublished /\ DraftIsAlone /\ RewriteIsPublished
  BY DEF IdInv, PubInv
<1>2. UNCHANGED <<file, live, used>> /\ FileHolds(file[s].id, s) /\ file[s] \in Page
  BY DEF Publish, fileVars, history, FileHolds, Readable
<1>3. \A d \in Client : d # c => /\ InWrite(d)' <=> InWrite(d)
                                 /\ pc'[d] = pc[d] /\ page'[d] = page[d] /\ slug'[d] = slug[d]
  BY <1>1 DEF Publish, Submit, Goto, InWrite, TypeOK
<1>4. page'[c].id = file[s].id /\ page'[c].status = "published" /\ pc'[c] = "check"
  BY <1>1, <1>2 DEF Publish, Submit, Goto, TypeOK, Page
<1>5. \A j, t : FileHolds(j, t)' <=> FileHolds(j, t)
  BY <1>2 DEF FileHolds, Readable
<1>6. (live \subseteq used /\ LiveIsPublished)'
  BY <1>1, <1>2 DEF LiveIsPublished, Readable
<1>7. DraftIsAlone'
  BY <1>1, <1>2, <1>3, <1>4, <1>5 DEF DraftIsAlone
<1>8. RewriteIsPublished'
  BY <1>1, <1>2, <1>3, <1>4, <1>5 DEF RewriteIsPublished
<1> QED BY <1>6, <1>7, <1>8 DEF PubInv

LEMMA FillPubInv ==
  ASSUME IdInv, PubInv, CommandOnly, UNCHANGED use, NEW c \in Client, Fill(c)
  PROVE  PubInv'
<1>1. TypeOK /\ HeldUsed /\ HeldOnce /\ live \subseteq used
      /\ LiveIsPublished /\ DraftIsAlone /\ RewriteIsPublished
  BY DEF IdInv, PubInv, CommandOnly
<1>2. PICK i \in PageId, s \in Slug :
        /\ i = page[c].id /\ s = slug[c]
        /\ InWrite(c) /\ pc[c] = "fill" /\ page[c] \in Page /\ file[s] \in Content
  BY <1>1 DEF Fill, InWrite, TypeOK, Page
<1>3. used' = used /\ live' = live \cup (IF page[c].status = "published" THEN {i} ELSE {})
  BY <1>2 DEF Fill
<1>4. \A d \in Client : InWrite(d)' => d # c /\ InWrite(d) /\ pc'[d] = pc[d]
                                       /\ page'[d] = page[d] /\ slug'[d] = slug[d]
  BY <1>1 DEF Fill, Return, Goto, InWrite, TypeOK
<1>5. i \in used /\ \A t \in Slug : FileHolds(i, t) => t = s
  BY <1>1, <1>2 DEF HeldUsed, HeldOnce, Holds, WriteHolds
<1>6. \A t \in Slug : \/ file'[t] = file[t]
                      \/ t = s /\ (Readable(file'[t]) => file'[t].id = i
                                                         /\ file'[t].status = page[c].status)
  <2>1. CASE UNCHANGED fileVars
    BY <2>1 DEF fileVars
  <2>2. ASSUME NEW w \in Overlay(page[c], file[s]), Put(s, w)
        PROVE  \A t \in Slug : file'[t] = file[t] \/ (t = s /\ file'[t] = w)
    BY <1>1, <2>2 DEF Put, TypeOK
  <2> QED BY <1>2, <2>1, <2>2, OverlayOf DEF Fill
<1>7. (live \subseteq used)'
  BY <1>1, <1>3, <1>5
<1>8. CASE page[c].status = "published"
  <2>1. ASSUME NEW t \in Slug, FileHolds(i, t)'
        PROVE  file'[t].status = "published"
    <3>1. CASE file'[t] = file[t]
      <4>1. FileHolds(i, t) /\ t = s
        BY <1>5, <2>1, <3>1 DEF FileHolds, Readable
      <4> QED BY <1>1, <1>2, <3>1, <4>1 DEF RewriteIsPublished
    <3>2. CASE file'[t] # file[t]
      BY <1>6, <1>8, <2>1, <3>2 DEF FileHolds, Readable
    <3> QED BY <3>1, <3>2
  <2>2. ASSUME NEW t \in Slug, NEW j, j # i, FileHolds(j, t)'
        PROVE  file'[t] = file[t] /\ FileHolds(j, t)
    BY <1>6, <2>2 DEF FileHolds, Readable
  <2>3. LiveIsPublished'
    <3> SUFFICES ASSUME NEW t \in Slug, NEW j, FileHolds(j, t)', j \in live'
                 PROVE  file'[t].status = "published"
      BY DEF LiveIsPublished, FileHolds, Readable
    <3>1. CASE j = i
      BY <2>1, <3>1
    <3>2. CASE j # i
      <4>1. file'[t] = file[t] /\ FileHolds(j, t) /\ j \in live
        BY <1>3, <2>2, <3>2
      <4> QED BY <1>1, <4>1 DEF LiveIsPublished, FileHolds
    <3> QED BY <3>1, <3>2
  <2>4. DraftIsAlone'
    <3> SUFFICES ASSUME NEW d \in Client, InWrite(d)', page'[d].status # "published"
                 PROVE  /\ page'[d].id \notin live'
                        /\ \A t \in Slug : ~FileHolds(page[d].id, t)'
                        /\ \A e \in Client : InWrite(e)' /\ page'[e].id = page'[d].id => e = d
      BY <1>4 DEF DraftIsAlone, FileHolds
    <3>1. d # c /\ InWrite(d) /\ page'[d] = page[d]
      BY <1>4
    <3>2. page[d].id # i
      BY <1>1, <1>2, <3>1 DEF DraftIsAlone
    <3> QED BY <1>1, <1>3, <1>4, <2>2, <3>1, <3>2 DEF DraftIsAlone
  <2>5. RewriteIsPublished'
    <3> SUFFICES ASSUME NEW d \in Client, pc'[d] = "fill", FileHolds(page[d].id, slug[d])',
                        page'[d] = page[d], slug'[d] = slug[d], slug[d] \in Slug, pc[d] = "fill"
                 PROVE  file'[slug[d]].status = "published"
      BY <1>1, <1>4 DEF RewriteIsPublished, FileHolds, InWrite, TypeOK
    <3>1. CASE page[d].id = i
      BY <2>1, <3>1
    <3>2. CASE page[d].id # i
      BY <1>1, <2>2, <3>2 DEF RewriteIsPublished
    <3> QED BY <3>1, <3>2
  <2> QED BY <1>7, <2>3, <2>4, <2>5 DEF PubInv
<1>9. CASE page[c].status # "published"
  <2>1. live' = live /\ i \notin live
        /\ \A d \in Client : InWrite(d) /\ page[d].id = i => d = c
    BY <1>1, <1>2, <1>3, <1>9 DEF DraftIsAlone
  <2>2. ASSUME NEW t \in Slug, NEW j, j # i, FileHolds(j, t)'
        PROVE  file'[t] = file[t] /\ FileHolds(j, t)
    BY <1>6, <2>2 DEF FileHolds, Readable
  <2>3. LiveIsPublished'
    BY <1>1, <2>1, <2>2 DEF LiveIsPublished, FileHolds, Readable
  <2>4. DraftIsAlone'
    <3> SUFFICES ASSUME NEW d \in Client, InWrite(d)', page'[d].status # "published"
                 PROVE  /\ page'[d].id \notin live'
                        /\ \A t \in Slug : ~FileHolds(page[d].id, t)'
                        /\ \A e \in Client : InWrite(e)' /\ page'[e].id = page'[d].id => e = d
      BY <1>4 DEF DraftIsAlone, FileHolds
    <3>1. d # c /\ InWrite(d) /\ page'[d] = page[d] /\ page[d].id # i
      BY <1>4, <2>1
    <3> QED BY <1>1, <1>4, <2>1, <2>2, <3>1 DEF DraftIsAlone
  <2>5. RewriteIsPublished'
    <3> SUFFICES ASSUME NEW d \in Client, pc'[d] = "fill", FileHolds(page[d].id, slug[d])',
                        page'[d] = page[d], slug'[d] = slug[d], slug[d] \in Slug, pc[d] = "fill",
                        d # c, InWrite(d)
                 PROVE  file'[slug[d]].status = "published"
      BY <1>1, <1>4 DEF RewriteIsPublished, FileHolds, InWrite, TypeOK
    <3>1. page[d].id # i
      BY <2>1
    <3> QED BY <1>1, <2>2, <3>1 DEF RewriteIsPublished
  <2> QED BY <1>7, <2>3, <2>4, <2>5 DEF PubInv
<1> QED BY <1>8, <1>9

LEMMA StepPubInv == IdInv /\ PubInv /\ [Next]_vars => PubInv'
<1> SUFFICES ASSUME IdInv, PubInv, [Next]_vars, CommandOnly' PROVE PubInv'
  BY DEF PubInv
<1>1. TypeOK /\ UNCHANGED use /\ CommandOnly
  BY DEF IdInv, Next, vars, CommandOnly
<1>2. CASE UNCHANGED vars
  BY <1>1, <1>2, QuietPubInv DEF vars, fileVars, clientVars, history, InWrite, PubInv
<1>3. ASSUME NEW c \in Client, Start(c) PROVE PubInv'
  <2>1. ASSUME NEW s \in Slug, Delete(c, s) PROVE PubInv'
    BY <1>1, <2>1, QuietPubInv DEF Delete, Goto, InWrite, PubInv, TypeOK, fileVars, history
  <2>2. CASE InitSite(c)
    BY <1>1, <2>2, QuietPubInv DEF InitSite, Goto, InWrite, PubInv, TypeOK, fileVars, history
  <2> QED BY <1>1, <1>3, <2>1, <2>2, OwnsSlugs, NewPubInv, PublishPubInv
          DEF Start, Edit, Rename, CommandOnly
<1>4. ASSUME NEW c \in Client, Continue(c) PROVE PubInv'
  <2>1. CASE Check(c)
    BY <1>1, <2>1, QuietPubInv DEF Check, Return, Goto, InWrite, PubInv, TypeOK, fileVars, history
  <2>2. CASE Create(c)
    <3>1. ~Readable(Empty)
      BY MarkAssumption DEF Readable
    <3> QED BY <1>1, <2>2, <3>1, QuietPubInv
            DEF Create, Put, Goto, InWrite, PubInv, TypeOK, history
  <2>3. CASE Unlink(c)
    <3>1. ~Readable(Absent)
      BY MarkAssumption DEF Readable
    <3> QED BY <1>1, <2>3, <3>1, QuietPubInv
            DEF Unlink, Put, Goto, InWrite, PubInv, TypeOK, history
  <2>4. CASE SiteCreate(c)
    BY <1>1, <2>4, QuietPubInv DEF SiteCreate, Goto, InWrite, PubInv, TypeOK, fileVars, history
  <2>5. CASE SiteFill(c)
    BY <1>1, <2>5, QuietPubInv DEF SiteFill, Return, Goto, InWrite, PubInv, TypeOK, fileVars, history
  <2> QED BY <1>1, <1>4, <2>1, <2>2, <2>3, <2>4, <2>5, FillPubInv DEF Continue
<1> QED BY <1>1, <1>2, <1>3, <1>4 DEF Next, Abandon, CommandOnly

\* With any number of runs of the cms command at once, a page that publish-page
\* has published reads as published from then on.
THEOREM PublishedForGood == Spec => []PublishedStays
<1>1. PubInv => PublishedStays
  BY DEF PubInv, CommandOnly, LiveIsPublished, PublishedStays
<1>2. Spec => []IdInv
  BY InitIdInv, StepIdInv, PTL DEF Spec
<1> QED BY <1>1, <1>2, InitPubInv, StepPubInv, PTL DEF Spec

----------------------------------------------------------------------------
(* Processes that work on slugs of their own.  What check found out about a *)
(* file then still holds when the file is truncated and when it is filled.  *)

Disjoint(u) == \A c, d \in Client : c # d => u.owns[c] \cap u.owns[d] = {}

\* No two processes work on one slug, whichever way the site is used.
OwnSlugs == \A u \in Uses : Disjoint(u)

Acts(c) == InWrite(c) \/ pc[c] = "unlink"
AloneOf(c) ==
  /\ Acts(c) => slug[c] \in use.owns[c]
  /\ pc[c] = "create" /\ Readable(file[slug[c]]) => file[slug[c]].id = page[c].id
  /\ pc[c] = "fill" => /\ linked[c] /\ file[slug[c]] = Empty
                       /\ Readable(prior[c]) => prior[c].id = page[c].id
AloneInv == TypeOK /\ (Disjoint(use) => \A c \in Client : AloneOf(c))

\* Without faults a file that cannot be read is one that is being filled, by
\* the page whose slug it is.
Kept ==
  /\ \A s \in Slug : Readable(file[s]) => owner[s] = file[s].id
  /\ \A s \in Slug : file[s] = Absent => owner[s] = NoId
  /\ \A s \in Slug : file[s] \in {Empty, Torn} => \E c \in Client : pc[c] = "fill" /\ slug[c] = s
  /\ \A c \in Client : pc[c] = "fill" => owner[slug[c]] \in {NoId, page[c].id}
KeepInv == Disjoint(use) /\ ~use.fault => Kept

Steps(c) == Start(c) \/ Continue(c) \/ Abandon(c)

\* A process writes under the slug it works on only.
LEMMA WritesOwn ==
  ASSUME TypeOK, NEW c \in Client, Steps(c), NEW s \in Slug, ~(Acts(c) /\ slug[c] = s)
  PROVE  file'[s] = file[s] /\ owner'[s] = owner[s]
<1>1. ASSUME Start(c) PROVE UNCHANGED fileVars
  BY <1>1 DEF Start, New, Publish, Edit, Rename, Delete, InitSite
<1>2. ASSUME NEW w, Put(slug[c], w), slug[c] # s PROVE file'[s] = file[s] /\ owner'[s] = owner[s]
  BY <1>2 DEF Put, TypeOK
<1>3. ASSUME Continue(c) \/ Abandon(c), UNCHANGED fileVars \/ \E w : Put(slug[c], w)
      PROVE  UNCHANGED fileVars \/ (Acts(c) /\ \E w : Put(slug[c], w))
  BY <1>3 DEF Continue, Check, Create, Fill, Unlink, SiteCreate, SiteFill, Abandon, Acts, InWrite
<1>4. Continue(c) \/ Abandon(c) => UNCHANGED fileVars \/ \E w : Put(slug[c], w)
  BY DEF Continue, Check, Create, Fill, Unlink, SiteCreate, SiteFill, Abandon
<1> QED BY <1>1, <1>2, <1>3, <1>4 DEF Steps, fileVars

\* It changes nothing of what another process has in hand, but that a delete
\* takes the name from a file that is open for writing.
LEMMA OthersKept ==
  ASSUME TypeOK, NEW c \in Client, Steps(c), NEW d \in Client, d # c
  PROVE  /\ pc'[d] = pc[d] /\ slug'[d] = slug[d] /\ page'[d] = page[d] /\ prior'[d] = prior[d]
         /\ linked'[d] = linked[d] \/ (Acts(c) /\ slug[c] = slug[d])
<1>1. CASE Start(c)
  BY <1>1 DEF Start, New, Publish, Edit, Rename, Delete, InitSite, Submit, Goto, TypeOK
<1>2. CASE Continue(c)
  <2>1. CASE Check(c) \/ Create(c) \/ SiteCreate(c)
    BY <1>2, <2>1 DEF Check, Create, SiteCreate, Return, Goto, TypeOK
  <2>2. CASE Fill(c) \/ SiteFill(c)
    BY <1>2, <2>2 DEF Fill, SiteFill, Return, Goto, TypeOK
  <2>3. CASE Unlink(c)
    BY <1>2, <2>3 DEF Unlink, Goto, TypeOK, Acts
  <2> QED BY <1>2, <2>1, <2>2, <2>3 DEF Continue
<1>3. CASE Abandon(c)
  BY <1>3 DEF Abandon, Return, Goto, TypeOK
<1> QED BY <1>1, <1>2, <1>3 DEF Steps

LEMMA InitAloneInv == Init => AloneInv
BY InitTypeOK DEF Init, AloneInv, AloneOf, Acts, InWrite

\* Whoever works on another slug is not disturbed.
LEMMA OtherAlone ==
  ASSUME AloneInv, Disjoint(use), UNCHANGED use, NEW c \in Client, Steps(c),
         NEW d \in Client, d # c
  PROVE  AloneOf(d)'
<1>1. TypeOK /\ AloneOf(c) /\ AloneOf(d)
  BY DEF AloneInv
<1>2. /\ pc'[d] = pc[d] /\ slug'[d] = slug[d] /\ page'[d] = page[d] /\ prior'[d] = prior[d]
      /\ linked'[d] = linked[d] \/ (Acts(c) /\ slug[c] = slug[d])
  BY <1>1, OthersKept
<1>3. CASE Acts(d)
  <2>1. ~(Acts(c) /\ slug[c] = slug[d]) /\ slug[d] \in Slug
    BY <1>1, <1>3 DEF AloneOf, Disjoint, TypeOK, Acts
  <2>2. file'[slug[d]] = file[slug[d]]
    BY <1>1, <2>1, WritesOwn
  <2> QED BY <1>1, <1>2, <1>3, <2>1, <2>2 DEF AloneOf, Acts, InWrite, Readable
<1>4. CASE ~Acts(d)
  BY <1>2, <1>4 DEF AloneOf, Acts, InWrite
<1> QED BY <1>3, <1>4

LEMMA SelfAlone ==
  ASSUME AloneInv, Disjoint(use), UNCHANGED use, NEW c \in Client, Steps(c)
  PROVE  AloneOf(c)'
<1>1. TypeOK /\ AloneOf(c)
  BY DEF AloneInv
<1>2. CASE Start(c)
  <2>1. ASSUME NEW s \in use.owns[c], NEW p, Submit(c, s, p)
        PROVE  AloneOf(c)'
    BY <1>1, <2>1 DEF Submit, Goto, TypeOK, AloneOf, Acts, InWrite
  <2>2. ASSUME NEW s \in use.owns[c], Delete(c, s) PROVE AloneOf(c)'
    BY <1>1, <2>2 DEF Delete, Goto, TypeOK, AloneOf, Acts, InWrite
  <2>3. CASE InitSite(c)
    BY <1>1, <2>3 DEF InitSite, Goto, TypeOK, AloneOf, Acts, InWrite
  <2> QED BY <1>2, <2>1, <2>2, <2>3 DEF Start, New, Publish, Edit, Rename
<1>3. ASSUME pc'[c] \in {"idle", "site_create", "site_fill"} PROVE AloneOf(c)'
  BY <1>3 DEF AloneOf, Acts, InWrite
<1>4. ASSUME Return(c) PROVE AloneOf(c)'
  BY <1>1, <1>3, <1>4 DEF Return, Goto, TypeOK
<1>5. CASE Check(c)
  <2>1. CASE Return(c)
    BY <1>4, <2>1
  <2>2. CASE ~Return(c)
    <3>1. /\ ~(Readable(file[slug[c]]) /\ file[slug[c]].id # page[c].id)
          /\ UNCHANGED <<slug, page, file>> /\ pc'[c] = "create" /\ pc[c] = "check"
      BY <1>1, <1>5, <2>2 DEF Check, Goto, TypeOK, fileVars
    <3> QED BY <1>1, <3>1 DEF AloneOf, Acts, InWrite, Readable
  <2> QED BY <2>1, <2>2
<1>6. CASE Create(c)
  <2>1. /\ pc[c] = "create" /\ pc'[c] = "fill" /\ UNCHANGED <<slug, page>> /\ linked'[c]
        /\ slug[c] \in Slug /\ file'[slug[c]] = Empty /\ prior'[c] = file[slug[c]]
    BY <1>1, <1>6 DEF Create, Goto, Put, TypeOK, InWrite
  <2> QED BY <1>1, <2>1 DEF AloneOf, Acts, InWrite, Readable
<1>7. CASE Fill(c) \/ SiteFill(c) \/ Abandon(c)
  BY <1>4, <1>7 DEF Fill, SiteFill, Abandon
<1>8. CASE Unlink(c) \/ SiteCreate(c)
  BY <1>1, <1>3, <1>8 DEF Unlink, SiteCreate, Goto, TypeOK
<1> QED BY <1>2, <1>5, <1>6, <1>7, <1>8 DEF Steps, Continue

LEMMA StepAloneInv == AloneInv /\ [Next]_vars => AloneInv'
<1> SUFFICES ASSUME AloneInv, [Next]_vars PROVE AloneInv'
  OBVIOUS
<1>1. TypeOK'
  BY StepTypeOK DEF AloneInv
<1>2. CASE UNCHANGED vars
  BY <1>1, <1>2 DEF vars, fileVars, clientVars, AloneInv, AloneOf, Acts, InWrite, Readable, Disjoint
<1>3. ASSUME NEW c \in Client, Steps(c), UNCHANGED use, Disjoint(use), NEW d \in Client
      PROVE  AloneOf(d)'
  BY <1>3, OtherAlone, SelfAlone
<1> QED BY <1>1, <1>2, <1>3 DEF Next, Steps, AloneInv, Disjoint

----------------------------------------------------------------------------
(* What is kept without faults.                                             *)

\* What is written to an empty file is there from its start, and nothing else.
LEMMA EmptyOverlay ==
  ASSUME NEW p
  PROVE  Overlay(p, Empty) = {p}
BY MarkAssumption DEF Overlay

LEMMA InitKeepInv == Init => KeepInv
<1> SUFFICES ASSUME Init PROVE Kept
  BY DEF KeepInv
<1>1. \A s \in Slug : file[s] \in Page \cup {Absent}
  BY UsesAssumption DEF Init, IsUse
<1> QED BY <1>1, MarkAssumption DEF Init, Kept, Readable

\* A step that leaves the files as they are, and nobody begins or ends a write.
LEMMA QuietKept ==
  ASSUME TypeOK, Kept, UNCHANGED fileVars,
         \A c \in Client : pc'[c] = "fill" <=> pc[c] = "fill",
         \A c \in Client : pc[c] = "fill" => slug'[c] = slug[c] /\ page'[c] = page[c]
  PROVE  Kept'
BY DEF Kept, Readable, fileVars

LEMMA CreateKept ==
  ASSUME AloneInv, Disjoint(use), Kept, NEW c \in Client, Create(c)
  PROVE  Kept'
<1>1. TypeOK /\ AloneOf(c)
  BY DEF AloneInv
<1>2. PICK s \in Slug : s = slug[c]
  BY <1>1 DEF Create, TypeOK, InWrite
<1>3. /\ pc[c] = "create" /\ pc' = [pc EXCEPT ![c] = "fill"] /\ UNCHANGED <<slug, page>>
      /\ file' = [file EXCEPT ![s] = Empty] /\ owner' = owner /\ page[c] \in Page
  BY <1>1, <1>2, MarkAssumption DEF Create, Goto, Put, TypeOK, InWrite, Readable
<1>4. \A d \in Client : pc[d] = "fill" => slug[d] # s
  <2> SUFFICES ASSUME NEW d \in Client, pc[d] = "fill", slug[d] = s, d # c PROVE FALSE
    BY <1>3
  <2> QED BY <1>1, <1>2, <1>3 DEF AloneInv, AloneOf, Acts, InWrite, Disjoint
<1>5. owner[s] \in {NoId, page[c].id}
  <2>1. file[s] \in Page \/ file[s] = Absent
    BY <1>1, <1>4 DEF Kept, TypeOK, Content
  <2> QED BY <1>1, <1>2, <1>3, <2>1 DEF Kept, AloneOf, Readable
<1>6. Empty \notin Page /\ Empty # Absent
  BY MarkAssumption
<1>7. /\ \A t \in Slug : Readable(file'[t]) => owner'[t] = file'[t].id
      /\ \A t \in Slug : file'[t] = Absent => owner'[t] = NoId
  BY <1>1, <1>3, <1>6 DEF Kept, Readable, TypeOK
<1>8. \A t \in Slug : file'[t] \in {Empty, Torn} => \E d \in Client : pc'[d] = "fill" /\ slug'[d] = t
  <2> SUFFICES ASSUME NEW t \in Slug, file'[t] \in {Empty, Torn}
               PROVE  \E d \in Client : pc'[d] = "fill" /\ slug'[d] = t
    OBVIOUS
  <2>1. CASE t = s
    BY <1>1, <1>2, <1>3, <2>1 DEF TypeOK
  <2>2. CASE t # s
    BY <1>1, <1>3, <2>2 DEF Kept, TypeOK
  <2> QED BY <2>1, <2>2
<1>9. \A d \in Client : pc'[d] = "fill" => owner'[slug'[d]] \in {NoId, page'[d].id}
  BY <1>1, <1>2, <1>3, <1>5 DEF Kept, TypeOK
<1> QED BY <1>7, <1>8, <1>9 DEF Kept, Readable

LEMMA FillKept ==
  ASSUME AloneInv, Disjoint(use), Kept, NEW c \in Client, Fill(c)
  PROVE  Kept'
<1>1. TypeOK /\ AloneOf(c)
  BY DEF AloneInv
<1>2. PICK s \in Slug : s = slug[c]
  BY <1>1 DEF Fill, TypeOK, InWrite
<1>3. pc[c] = "fill" /\ linked[c] /\ file[s] = Empty /\ page[c] \in Page
  BY <1>1, <1>2 DEF Fill, AloneOf, TypeOK, InWrite
<1>4. file' = [file EXCEPT ![s] = page[c]] /\ owner' = [owner EXCEPT ![s] = page[c].id]
  <2>1. Put(s, page[c])
    BY <1>2, <1>3, EmptyOverlay DEF Fill
  <2>2. owner[s] \in {NoId, page[c].id}
    BY <1>2, <1>3 DEF Kept
  <2> QED BY <1>1, <1>3, <2>1, <2>2, MarkAssumption DEF Put, Readable, TypeOK
<1>5. pc' = [pc EXCEPT ![c] = "idle"] /\ \A d \in Client : d # c => slug'[d] = slug[d] /\ page'[d] = page[d]
  BY <1>1 DEF Fill, Return, Goto, TypeOK
<1>6. \A d \in Client : pc'[d] = "fill" => d # c /\ pc[d] = "fill" /\ slug[d] # s
  <2> SUFFICES ASSUME NEW d \in Client, pc'[d] = "fill", slug[d] = s, d # c PROVE FALSE
    BY <1>1, <1>5 DEF TypeOK
  <2> QED BY <1>1, <1>2, <1>3, <1>5 DEF AloneInv, AloneOf, Acts, InWrite, Disjoint, TypeOK
<1>7. page[c] # Absent /\ page[c] # Empty /\ page[c] # Torn
  BY <1>3, MarkAssumption
<1>8. /\ \A t \in Slug : Readable(file'[t]) => owner'[t] = file'[t].id
      /\ \A t \in Slug : file'[t] = Absent => owner'[t] = NoId
  BY <1>1, <1>4, <1>7 DEF Kept, Readable, TypeOK
<1>9. \A t \in Slug : file'[t] \in {Empty, Torn} => \E d \in Client : pc'[d] = "fill" /\ slug'[d] = t
  <2> SUFFICES ASSUME NEW t \in Slug, file'[t] \in {Empty, Torn}
               PROVE  \E d \in Client : pc'[d] = "fill" /\ slug'[d] = t
    OBVIOUS
  <2>1. t # s /\ file[t] \in {Empty, Torn}
    BY <1>1, <1>4, <1>7 DEF TypeOK
  <2>2. PICK d \in Client : pc[d] = "fill" /\ slug[d] = t
    BY <2>1 DEF Kept
  <2> QED BY <1>1, <1>2, <1>5, <2>1, <2>2 DEF TypeOK
<1>10. \A d \in Client : pc'[d] = "fill" => owner'[slug'[d]] \in {NoId, page'[d].id}
  <2> SUFFICES ASSUME NEW d \in Client, pc'[d] = "fill"
               PROVE  owner'[slug'[d]] \in {NoId, page'[d].id}
    OBVIOUS
  <2>1. d # c /\ pc[d] = "fill" /\ slug[d] # s /\ slug'[d] = slug[d] /\ page'[d] = page[d]
    BY <1>5, <1>6
  <2>2. slug[d] \in Slug /\ owner[slug[d]] \in {NoId, page[d].id}
    BY <1>1, <2>1 DEF Kept, TypeOK, InWrite
  <2> QED BY <1>1, <1>4, <2>1, <2>2 DEF TypeOK
<1> QED BY <1>8, <1>9, <1>10 DEF Kept, Readable

LEMMA UnlinkKept ==
  ASSUME AloneInv, Disjoint(use), Kept, NEW c \in Client, Unlink(c)
  PROVE  Kept'
<1>1. TypeOK /\ AloneOf(c)
  BY DEF AloneInv
<1>2. PICK s \in Slug : s = slug[c]
  BY <1>1 DEF Unlink, TypeOK
<1>3. file' = [file EXCEPT ![s] = Absent] /\ owner' = [owner EXCEPT ![s] = NoId] /\ page' = page
  BY <1>1, <1>2 DEF Unlink, Put, TypeOK
<1>4. pc[c] = "unlink" /\ pc' = [pc EXCEPT ![c] = "idle"] /\ \A d \in Client : d # c => slug'[d] = slug[d]
  BY <1>1 DEF Unlink, Goto, TypeOK
<1>5. Absent \notin Page /\ Absent # Empty /\ Absent # Torn
  BY MarkAssumption
<1>6. /\ \A t \in Slug : Readable(file'[t]) => owner'[t] = file'[t].id
      /\ \A t \in Slug : file'[t] = Absent => owner'[t] = NoId
  BY <1>1, <1>3, <1>5 DEF Kept, Readable, TypeOK
<1>7. \A t \in Slug : file'[t] \in {Empty, Torn} => \E d \in Client : pc'[d] = "fill" /\ slug'[d] = t
  <2> SUFFICES ASSUME NEW t \in Slug, file'[t] \in {Empty, Torn}
               PROVE  \E d \in Client : pc'[d] = "fill" /\ slug'[d] = t
    OBVIOUS
  <2>1. PICK d \in Client : pc[d] = "fill" /\ slug[d] = t
    BY <1>1, <1>3, <1>5 DEF Kept, TypeOK
  <2> QED BY <1>1, <1>4, <2>1 DEF TypeOK
<1>8. \A d \in Client : pc'[d] = "fill" => owner'[slug'[d]] \in {NoId, page'[d].id}
  <2> SUFFICES ASSUME NEW d \in Client, pc'[d] = "fill"
               PROVE  owner'[slug'[d]] \in {NoId, page'[d].id}
    OBVIOUS
  <2>1. d # c /\ pc[d] = "fill" /\ slug'[d] = slug[d] /\ slug[d] \in Slug
    BY <1>1, <1>4 DEF TypeOK, InWrite
  <2> QED BY <1>1, <1>3, <2>1 DEF Kept, TypeOK
<1> QED BY <1>6, <1>7, <1>8 DEF Kept, Readable

LEMMA StepKeepInv == AloneInv /\ KeepInv /\ [Next]_vars => KeepInv'
<1> SUFFICES ASSUME AloneInv, KeepInv, [Next]_vars, Disjoint(use'), ~use'.fault PROVE Kept'
  BY DEF KeepInv, Disjoint
<1>1. use' = use /\ TypeOK /\ Disjoint(use) /\ ~use.fault /\ Kept
  BY DEF Next, vars, AloneInv, KeepInv
<1>2. CASE UNCHANGED vars
  BY <1>1, <1>2, QuietKept DEF vars, fileVars, clientVars
<1>3. ASSUME NEW c \in Client, Start(c) PROVE Kept'
  <2>1. UNCHANGED fileVars /\ pc[c] = "idle" /\ pc'[c] # "fill"
    BY <1>1, <1>3 DEF Start, New, Publish, Edit, Rename, Delete, InitSite, Submit, Goto, TypeOK
  <2>2. \A d \in Client : d # c => pc'[d] = pc[d] /\ slug'[d] = slug[d] /\ page'[d] = page[d]
    BY <1>1, <1>3, OthersKept DEF Steps
  <2> QED BY <1>1, <2>1, <2>2, QuietKept
<1>4. ASSUME NEW c \in Client, Check(c) \/ SiteCreate(c) \/ SiteFill(c) PROVE Kept'
  <2>1. UNCHANGED fileVars /\ pc[c] # "fill" /\ pc'[c] # "fill"
    BY <1>1, <1>4 DEF Check, SiteCreate, SiteFill, Return, Goto, TypeOK
  <2>2. \A d \in Client : d # c => pc'[d] = pc[d] /\ slug'[d] = slug[d] /\ page'[d] = page[d]
    BY <1>1, <1>4, OthersKept DEF Steps, Continue
  <2> QED BY <1>1, <2>1, <2>2, QuietKept
<1> QED BY <1>1, <1>2, <1>3, <1>4, CreateKept, FillKept, UnlinkKept DEF Next, Continue, Abandon

LEMMA KeepHolds == Spec => [](AloneInv /\ KeepInv)
BY InitAloneInv, StepAloneInv, InitKeepInv, StepKeepInv, PTL DEF Spec

\* Where no two processes work on one slug and none dies, a slug passes to
\* another page only after its page was deleted.
THEOREM SlugAlone == OwnSlugs /\ Spec => []SlugAloneKeepsItsPage
<1> SUFFICES ASSUME OwnSlugs PROVE Spec => []SlugAloneKeepsItsPage
  OBVIOUS
<1>1. AloneInv /\ KeepInv => SlugAloneKeepsItsPage
  BY DEF OwnSlugs, AloneInv, TypeOK, KeepInv, Kept, SlugAloneKeepsItsPage, SlugKeepsItsPage
<1> QED BY <1>1, KeepHolds, PTL

----------------------------------------------------------------------------
(* The refinement.  Pages is read off a slug's file, or, while the file is  *)
(* rewritten, off what the file held.                                       *)

Seen(w) == CASE w = Absent -> NoPage [] Readable(w) -> w [] OTHER -> Torn

Filling(c, s) == pc[c] = "fill" /\ slug[c] = s

\* The page seen under every slug.
PagesSeen ==
  /\ \A c \in Client : pc[c] = "fill" => Pages[slug[c]] = Seen(prior[c])
  /\ \A s \in Slug : (\A c \in Client : ~Filling(c, s)) => Pages[s] = Seen(file[s])

LEMMA PagesAre == AloneInv /\ Disjoint(use) => PagesSeen
<1> SUFFICES ASSUME AloneInv, Disjoint(use) PROVE PagesSeen
  OBVIOUS
<1> DEFINE Rewriting(s) == {c \in Client : pc[c] = "fill" /\ linked[c] /\ slug[c] = s}
<1>1. \A s \in Slug :
        Pages[s] = Seen(IF Rewriting(s) = {} THEN file[s] ELSE prior[CHOOSE d \in Rewriting(s) : TRUE])
  BY DEF Pages, Seen
<1>2. ASSUME NEW c \in Client, pc[c] = "fill"
      PROVE  Pages[slug[c]] = Seen(prior[c])
  <2>1. linked[c] /\ slug[c] \in Slug
    BY <1>2 DEF AloneInv, AloneOf, TypeOK, InWrite
  <2>2. \A d \in Rewriting(slug[c]) : d = c
    BY <1>2 DEF AloneInv, AloneOf, Acts, InWrite, Disjoint
  <2>3. c \in Rewriting(slug[c])
    BY <1>2, <2>1
  <2>4. (CHOOSE d \in Rewriting(slug[c]) : TRUE) = c
    BY <2>2, <2>3
  <2> QED BY <1>1, <2>1, <2>3, <2>4
<1>3. ASSUME NEW s \in Slug, \A c \in Client : ~Filling(c, s)
      PROVE  Pages[s] = Seen(file[s])
  <2>1. Rewriting(s) = {}
    BY <1>3 DEF Filling
  <2> QED BY <1>1, <2>1
<1> QED BY <1>2, <1>3 DEF PagesSeen

LEMMA PagesAreNext == (AloneInv /\ Disjoint(use) => PagesSeen)'
BY PagesAre, PTL

\* What is seen under a slug that nobody begins or ends to rewrite.
LEMMA SeenStays ==
  ASSUME AloneInv, AloneInv', Disjoint(use), use' = use, NEW s \in Slug, file'[s] = file[s],
         \A d \in Client : Filling(d, s)' <=> Filling(d, s),
         \A d \in Client : Filling(d, s) => prior'[d] = prior[d]
  PROVE  Pages'[s] = Pages[s]
<1>1. PagesSeen /\ PagesSeen'
  BY PagesAre, PagesAreNext DEF Disjoint
<1>2. ASSUME NEW d \in Client, Filling(d, s)
      PROVE  Pages'[s] = Pages[s]
  <2>1. pc'[d] = "fill" /\ slug'[d] = s /\ prior'[d] = prior[d]
    BY <1>2 DEF Filling
  <2>2. Pages[s] = Seen(prior[d])
    BY <1>1, <1>2 DEF PagesSeen, Filling
  <2>3. Pages'[s] = Seen(prior'[d])
    BY <1>1, <2>1 DEF PagesSeen, Seen, Readable
  <2> QED BY <2>1, <2>2, <2>3
<1>3. ASSUME \A d \in Client : ~Filling(d, s)
      PROVE  Pages'[s] = Pages[s]
  <2>1. Pages[s] = Seen(file[s]) /\ Pages'[s] = Seen(file'[s])
    BY <1>1, <1>3 DEF PagesSeen, Seen, Readable
  <2> QED BY <2>1
<1> QED BY <1>2, <1>3

\* A step is seen under the slug its process works on, if anywhere.
LEMMA SeenElsewhere ==
  ASSUME AloneInv, AloneInv', Disjoint(use), use' = use, NEW c \in Client, Steps(c),
         NEW s \in Slug, ~(Acts(c) /\ slug[c] = s)
  PROVE  Pages'[s] = Pages[s]
<1>1. TypeOK
  BY DEF AloneInv
<1>2. file'[s] = file[s]
  BY <1>1, WritesOwn
<1>3. \A d \in Client : d # c => (Filling(d, s)' <=> Filling(d, s)) /\ prior'[d] = prior[d]
  BY <1>1, OthersKept DEF Filling
<1>4. ~Filling(c, s) /\ ~Filling(c, s)'
  <2>1. pc'[c] = "fill" => Create(c)
    BY <1>1 DEF Steps, Start, New, Publish, Edit, Rename, Delete, InitSite, Submit, Continue, Check,
                Fill, Unlink, SiteCreate, SiteFill, Abandon, Return, Goto, TypeOK
  <2> QED BY <2>1 DEF Filling, Acts, InWrite, Create
<1> QED BY <1>2, <1>3, <1>4, SeenStays

\* A step that is seen under one slug at most.
LEMMA SeenThere ==
  ASSUME NEW t \in Slug, \A s \in Slug : s # t => Pages'[s] = Pages[s]
  PROVE  Promise!Put(t, Pages'[t])
<1>1. Pages = [s \in Slug |-> Pages[s]]
  BY DEF Pages
<1>2. Pages' = [s \in Slug |-> Pages'[s]]
  BY DEF Pages
<1>3. Pages' = [Pages EXCEPT ![t] = Pages'[t]]
  BY <1>1, <1>2
<1> QED BY <1>3 DEF Promise!Put

LEMMA SeenNowhere ==
  ASSUME \A s \in Slug : Pages'[s] = Pages[s]
  PROVE  UNCHANGED Pages
<1>1. Pages = [s \in Slug |-> Pages[s]]
  BY DEF Pages
<1>2. Pages' = [s \in Slug |-> Pages'[s]]
  BY DEF Pages
<1> QED BY <1>1, <1>2

\* A page is seen where no page was, or where the same page was.
LEMMA WriteIsSeen ==
  ASSUME NEW t \in Slug, NEW p \in Page, Promise!Put(t, p), NEW w \in Content,
         Pages[t] = Seen(w), Readable(w) => w.id = p.id
  PROVE  Promise!Next
<1>1. CASE Readable(w)
  <2>1. Pages[t] = w /\ w \in Page
    BY <1>1, MarkAssumption DEF Seen, Readable
  <2>2. Promise!Update(t)
    BY <1>1, <2>1 DEF Promise!Update
  <2> QED BY <2>2 DEF Promise!Next
<1>2. CASE ~Readable(w)
  <2>1. Pages[t] \in {NoPage, Torn}
    BY <1>2 DEF Seen
  <2>2. Promise!Create(t)
    BY <2>1 DEF Promise!Create
  <2> QED BY <2>2 DEF Promise!Next
<1> QED BY <1>1, <1>2

\* What is left of a write that is cut short is nothing that parses, or a state
\* of the page that was written.
LEMMA EmptyCutOverlay ==
  ASSUME NEW p \in Page, NEW w \in CutOverlay(p, Empty)
  PROVE  w \in {Empty, Torn} \/ (w \in Page /\ w.id = p.id)
<1>1. Empty \in Content /\ ~Readable(Empty)
  BY MarkAssumption DEF Content, Readable
<1>2. w \in Content /\ (Readable(w) => w.id = p.id)
  BY <1>1, CutOverlayOf
<1>3. w # Absent
  <2>1. \A q : Overlay(q, Empty) = {q}
    BY EmptyOverlay
  <2>2. ASSUME NEW q \in Shortened(p) \cup {p} PROVE q # Absent
    <3>1. CASE q \in Shortened(p)
      <4>1. PICK b \in 1..p.body - 1 : q = [p EXCEPT !.body = b]
        BY <3>1 DEF Shortened
      <4>2. b \in 0..MaxBody
        <5>1. p.body \in 0..MaxBody
          BY DEF Page
        <5> QED BY <5>1, BodyAssumption
      <4> QED BY <4>1, <4>2, MarkAssumption DEF Page
    <3> QED BY <3>1, MarkAssumption
  <2> QED BY <2>1, <2>2, MarkAssumption DEF CutOverlay
<1> QED BY <1>2, <1>3 DEF Content, Readable

LEMMA FillIsSeen ==
  ASSUME AloneInv, AloneInv', Disjoint(use), use' = use, NEW c \in Client,
         pc[c] = "fill", Fill(c) \/ Abandon(c)
  PROVE  Promise!Next
<1>1. TypeOK /\ TypeOK' /\ AloneOf(c) /\ PagesSeen /\ PagesSeen'
  BY PagesAre, PagesAreNext DEF AloneInv, Disjoint
<1>2. /\ slug[c] \in Slug /\ page[c] \in Page /\ prior[c] \in Content
      /\ linked[c] /\ file[slug[c]] = Empty /\ (Readable(prior[c]) => prior[c].id = page[c].id)
  BY <1>1 DEF TypeOK, InWrite, AloneOf
<1>3. PICK t \in Slug, w \in CutOverlay(page[c], Empty) : t = slug[c] /\ file'[t] = w
  <2>1. PICK w \in CutOverlay(page[c], Empty) : Put(slug[c], w)
    <3>1. CASE Fill(c)
      <4>1. Put(slug[c], page[c])
        BY <1>2, <3>1, EmptyOverlay DEF Fill
      <4>2. page[c] \in CutOverlay(page[c], Empty)
        BY EmptyOverlay DEF CutOverlay
      <4> QED BY <4>1, <4>2
    <3>2. CASE Abandon(c)
      BY <1>2, <3>2 DEF Abandon
    <3> QED BY <3>1, <3>2
  <2> QED BY <1>1, <1>2, <2>1 DEF Put, TypeOK
<1>4. Pages[t] = Seen(prior[c])
  BY <1>1, <1>3 DEF PagesSeen
<1>5. \A d \in Client : ~Filling(d, t)'
  <2> SUFFICES ASSUME NEW d \in Client, pc'[d] = "fill", slug'[d] = t PROVE FALSE
    BY DEF Filling
  <2>1. d # c
    BY <1>1 DEF Fill, Abandon, Return, Goto, TypeOK
  <2>2. pc[d] = "fill" /\ slug[d] = t
    BY <1>1, <2>1, OthersKept DEF Steps, Continue
  <2> QED BY <1>3, <2>1, <2>2 DEF AloneInv, AloneOf, Acts, InWrite, Disjoint
<1>6. Pages'[t] = Seen(w)
  BY <1>1, <1>3, <1>5 DEF PagesSeen, Seen, Readable
<1>7. \A s \in Slug : s # t => Pages'[s] = Pages[s]
  BY <1>3, SeenElsewhere DEF Steps, Continue
<1>8. Promise!Put(t, Seen(w))
  BY <1>6, <1>7, SeenThere
<1>9. CASE w \in {Empty, Torn}
  <2>1. Seen(w) = Torn
    BY <1>9, MarkAssumption DEF Seen, Readable
  <2> QED BY <1>8, <2>1 DEF Promise!Damage, Promise!Next
<1>10. CASE w \in Page /\ w.id = page[c].id
  <2>1. Seen(w) = w
    BY <1>10, MarkAssumption DEF Seen, Readable
  <2> QED BY <1>2, <1>4, <1>8, <1>10, <2>1, WriteIsSeen
<1> QED BY <1>2, <1>3, <1>9, <1>10, EmptyCutOverlay

\* A delete is seen when the file is removed.
LEMMA UnlinkIsSeen ==
  ASSUME AloneInv, AloneInv', Disjoint(use), use' = use, NEW c \in Client, Unlink(c)
  PROVE  Promise!Next \/ UNCHANGED Pages
<1>1. TypeOK /\ TypeOK' /\ PagesSeen /\ PagesSeen'
  BY PagesAre, PagesAreNext DEF AloneInv, Disjoint
<1>2. PICK t \in Slug : t = slug[c]
  BY <1>1 DEF Unlink, TypeOK
<1>3. file'[t] = Absent /\ pc[c] = "unlink" /\ pc'[c] = "idle"
  BY <1>1, <1>2 DEF Unlink, Put, Goto, TypeOK
<1>4. ASSUME NEW d \in Client PROVE ~Filling(d, t) /\ ~Filling(d, t)'
  <2>1. CASE d = c
    BY <1>3, <2>1 DEF Filling
  <2>2. CASE d # c
    <3>1. pc'[d] = pc[d] /\ slug'[d] = slug[d]
      BY <1>1, <2>2, OthersKept DEF Steps, Continue
    <3>2. ~Filling(d, t)
      BY <1>2, <1>3, <2>2 DEF AloneInv, AloneOf, Acts, InWrite, Disjoint, Filling
    <3> QED BY <3>1, <3>2 DEF Filling
  <2> QED BY <2>1, <2>2
<1>5. Pages[t] = Seen(file[t]) /\ Pages'[t] = NoPage
  <2>1. Pages[t] = Seen(file[t])
    BY <1>1, <1>4 DEF PagesSeen
  <2>2. Pages'[t] = Seen(file'[t])
    BY <1>1, <1>4 DEF PagesSeen, Seen, Readable
  <2> QED BY <1>3, <2>1, <2>2, MarkAssumption DEF Seen, Readable
<1>6. \A s \in Slug : s # t => Pages'[s] = Pages[s]
  BY <1>2, SeenElsewhere DEF Steps, Continue
<1>7. CASE Pages[t] = NoPage
  BY <1>5, <1>6, <1>7, SeenNowhere
<1>8. CASE Pages[t] # NoPage
  BY <1>5, <1>6, <1>8, SeenThere DEF Promise!Delete, Promise!Next, Promise!Put
<1> QED BY <1>7, <1>8

\* Truncating a file is not seen.
LEMMA CreateUnseen ==
  ASSUME AloneInv, AloneInv', Disjoint(use), use' = use, NEW c \in Client, Create(c)
  PROVE  UNCHANGED Pages
<1>1. TypeOK /\ TypeOK' /\ PagesSeen /\ PagesSeen'
  BY PagesAre, PagesAreNext DEF AloneInv, Disjoint
<1>2. PICK t \in Slug : t = slug[c]
  BY <1>1 DEF Create, TypeOK, InWrite
<1>3. pc[c] = "create" /\ pc'[c] = "fill" /\ slug'[c] = t /\ prior'[c] = file[t]
  BY <1>1, <1>2 DEF Create, Goto, TypeOK
<1>4. \A d \in Client : ~Filling(d, t)
  BY <1>2, <1>3 DEF AloneInv, AloneOf, Acts, InWrite, Disjoint, Filling
<1>5. Pages[t] = Seen(file[t])
  BY <1>1, <1>4 DEF PagesSeen
<1>6. Pages'[t] = Seen(file[t])
  BY <1>1, <1>3 DEF PagesSeen, Seen, Readable
<1>7. \A s \in Slug : s # t => Pages'[s] = Pages[s]
  BY <1>2, SeenElsewhere DEF Steps, Continue
<1> QED BY <1>5, <1>6, <1>7, SeenNowhere

\* Nor is any step that leaves the files as they are.
LEMMA QuietUnseen ==
  ASSUME AloneInv, AloneInv', Disjoint(use), use' = use, NEW c \in Client, Steps(c),
         file' = file, pc[c] # "fill", pc'[c] # "fill"
  PROVE  UNCHANGED Pages
<1>1. TypeOK
  BY DEF AloneInv
<1>2. \A d \in Client, s \in Slug : d # c => (Filling(d, s)' <=> Filling(d, s)) /\ prior'[d] = prior[d]
  BY <1>1, OthersKept DEF Filling
<1>3. \A s \in Slug : ~Filling(c, s) /\ ~Filling(c, s)'
  BY DEF Filling
<1>4. \A s \in Slug : Pages'[s] = Pages[s]
  BY <1>2, <1>3, SeenStays
<1> QED BY <1>4, SeenNowhere

LEMMA StepIsSeen ==
  AloneInv /\ AloneInv' /\ Disjoint(use) /\ [Next]_vars => [Promise!Next]_Pages
<1> SUFFICES ASSUME AloneInv, AloneInv', Disjoint(use), [Next]_vars
             PROVE  Promise!Next \/ UNCHANGED Pages
  OBVIOUS
<1>1. CASE UNCHANGED vars
  BY <1>1 DEF vars, fileVars, clientVars, Pages, Readable
<1>2. ASSUME use' = use, NEW c \in Client, Steps(c)
      PROVE  Promise!Next \/ UNCHANGED Pages
  <2>1. TypeOK
    BY DEF AloneInv
  <2>2. CASE Start(c)
    <3>1. file' = file /\ pc[c] = "idle" /\ pc'[c] # "fill"
      BY <2>1, <2>2 DEF Start, New, Publish, Edit, Rename, Delete, InitSite, Submit, Goto, TypeOK, fileVars
    <3> QED BY <1>2, <3>1, QuietUnseen
  <2>3. CASE Check(c) \/ SiteCreate(c) \/ SiteFill(c)
    <3>1. file' = file /\ pc[c] # "fill" /\ pc'[c] # "fill"
      BY <2>1, <2>3 DEF Check, SiteCreate, SiteFill, Return, Goto, TypeOK, fileVars
    <3> QED BY <1>2, <3>1, QuietUnseen
  <2>4. CASE Create(c)
    BY <1>2, <2>4, CreateUnseen
  <2>5. CASE Fill(c)
    BY <1>2, <2>5, FillIsSeen DEF Fill
  <2>6. CASE Unlink(c)
    BY <1>2, <2>6, UnlinkIsSeen
  <2>7. CASE Abandon(c) /\ pc[c] = "fill"
    BY <1>2, <2>7, FillIsSeen
  <2>8. CASE Abandon(c) /\ pc[c] # "fill"
    <3>1. file' = file /\ pc'[c] # "fill"
      BY <2>1, <2>8 DEF Abandon, Return, Goto, TypeOK, fileVars
    <3> QED BY <1>2, <2>8, <3>1, QuietUnseen
  <2> QED BY <1>2, <2>2, <2>3, <2>4, <2>5, <2>6, <2>7, <2>8 DEF Steps, Continue
<1> QED BY <1>1, <1>2 DEF Next, Steps

LEMMA InitIsSeen == Init => Promise!Init
<1> SUFFICES ASSUME Init PROVE Pages \in [Slug -> Page \cup {NoPage}]
  BY DEF Promise!Init
<1>1. \A s \in Slug : file[s] \in Page \cup {Absent}
  BY UsesAssumption DEF Init, IsUse
<1> QED BY <1>1 DEF Init, Pages, Readable

\* Where no two processes work on one slug, the store is a map of pages, also
\* when a process dies, or has a call fail, at any step: a slug never passes to
\* another page but over a page that was deleted or damaged.
THEOREM ImplementsPageMap == OwnSlugs /\ Spec => StoreIsPageMap
<1> SUFFICES ASSUME OwnSlugs PROVE Spec => StoreIsPageMap
  OBVIOUS
<1>1. AloneInv => Disjoint(use)
  BY DEF OwnSlugs, AloneInv, TypeOK
<1> QED BY <1>1, InitIsSeen, StepIsSeen, KeepHolds, PTL DEF Spec, StoreIsPageMap, Promise!Spec

=============================================================================
