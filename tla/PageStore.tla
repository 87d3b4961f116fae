----------------------------- MODULE PageStore -----------------------------
(***************************************************************************)
(* cms-core/src/storage.rs: the pages and the metadata of one site under   *)
(* FsStorage, used by several processes at once: runs of the cms command   *)
(* (cms-cli/src/main.rs), or other programs that embed the crate.  Nothing *)
(* is locked and nothing is written aside and renamed: fs::write truncates *)
(* the file, then fills it.  Each step is one system call that other       *)
(* processes can observe; a process may die, or the call fail, at each.    *)
(*                                                                         *)
(* A page is its id, its status and how many sections its body has.  TOML  *)
(* puts the sections last, so a file cut between two of them still parses, *)
(* as a shorter page; cut anywhere else it does not.  A page's slug is its *)
(* file name: read_page looks it up by that name and write_page derives    *)
(* the name from the slug.                                                 *)
(***************************************************************************)
EXTENDS Naturals, FiniteSets

CONSTANTS
  Client,    \* processes using the store, one operation at a time each
  Slug,      \* page slugs that validate_slug accepts
  PageId,    \* page ids; bounds the number of pages ever created
  Status,    \* the page statuses in use
  MaxBody,   \* bound on the sections of a page
  Uses,      \* the ways the site may be used, see Use below
  Absent,    \* no such file
  Empty,     \* a file of length 0
  Torn,      \* a file that does not parse
  Site,      \* a whole site.toml
  NoId, NoSlug, NoPage   \* nothing there yet

PageStatus == {"draft", "reviewed", "published", "archived"}
Page == [id : PageId, status : Status, body : 0..MaxBody]
Content == Page \cup {Absent, Empty, Torn}
Meta == {Absent, Empty, Torn, Site}

\* One way of using a site: the operations in use, the slugs each client works
\* on, whether processes may die and calls may fail, and the pages at the start.
IsUse(u) ==
  /\ u.op \subseteq {"init", "new", "publish", "edit", "rename", "delete", "read"}
  /\ u.owns \in [Client -> SUBSET Slug]
  /\ u.fault \in BOOLEAN
  /\ u.seed \in [Slug -> Page \cup {Absent}]
  /\ \A s, t \in Slug : u.seed[s] \in Page /\ u.seed[t] \in Page /\ s # t
                        => u.seed[s].id # u.seed[t].id

ASSUME UsesAssumption == \A u \in Uses : IsUse(u)
ASSUME StatusAssumption == {"draft", "published"} \subseteq Status
                           /\ Status \subseteq PageStatus
ASSUME BodyAssumption == MaxBody \in Nat
ASSUME MarkAssumption == Absent \notin Page /\ Empty \notin Page /\ Torn \notin Page
                         /\ NoPage \notin Page /\ NoId \notin PageId
                         /\ Absent \notin {Empty, Torn} /\ Torn # NoPage

VARIABLES
  use,      \* the way the site is used; never changes
  dir,      \* <site>/pages exists
  meta,     \* <site>/site.toml
  file,     \* <site>/pages/<slug>.toml, per slug
  pc,       \* per client: the next system call of its operation
  slug,     \* per client: the page it works on
  page,     \* per client: the Page value in its memory
  linked,   \* per client: the file it has open for writing still has its name
  prior,    \* history, per client: what its file held when it truncated it
  used,     \* history: page ids given out
  live,     \* history: ids of pages written as published by a call that returned Ok
  owner     \* history, per slug: the first page that was readable there since
            \* the file was last absent

clientVars == <<pc, slug, page, linked, prior>>
fileVars == <<file, owner>>
history == <<used, live>>
vars == <<use, dir, meta, fileVars, clientVars, history>>

----------------------------------------------------------------------------
(* What a write leaves in a file.                                           *)

\* cut between two sections
Shortened(p) == {[p EXCEPT !.body = b] : b \in 1..p.body - 1}

\* p written from the start of a file that holds c: c is Empty unless another
\* process wrote since the truncation; then the end of what it wrote may stick
\* out, as garbage or as further sections
Overlay(p, c) ==
  {p} \cup (IF c = Empty THEN {} ELSE {Torn})
      \cup (IF c \in Page /\ p.body > 0
            THEN {[p EXCEPT !.body = b] : b \in p.body + 1..MaxBody} ELSE {})

\* the same, stopped half way: also nothing, a piece that does not parse, or
\* the head of p in front of what another process wrote
CutOverlay(p, c) ==
  {c, Torn}
    \cup (UNION {Overlay(q, c) : q \in Shortened(p) \cup {p}})
    \cup (IF c \in Page
          THEN {[c EXCEPT !.id = p.id], [c EXCEPT !.id = p.id, !.status = p.status]}
          ELSE {})

\* read_page returns Ok
Readable(c) == c \in Page

----------------------------------------------------------------------------
Init ==
  /\ use \in Uses
  /\ file = use.seed
  /\ dir = (\E s \in Slug : file[s] # Absent)
  /\ meta = IF dir THEN Site ELSE Absent
  /\ pc = [c \in Client |-> "idle"]
  /\ slug = [c \in Client |-> NoSlug]
  /\ page = [c \in Client |-> NoPage]
  /\ linked = [c \in Client |-> FALSE]
  /\ prior = [c \in Client |-> Absent]
  /\ used = {file[s].id : s \in {t \in Slug : file[t] # Absent}}
  /\ live = {file[s].id : s \in {t \in Slug : /\ file[t] # Absent
                                             /\ file[t].status = "published"}}
  /\ owner = [s \in Slug |-> IF file[s] = Absent THEN NoId ELSE file[s].id]

Goto(c, l) == pc' = [pc EXCEPT ![c] = l]

\* the file of a slug changes; with it the history of whose page it is
Put(s, w) ==
  /\ file' = [file EXCEPT ![s] = w]
  /\ owner' = [owner EXCEPT ![s] = IF w = Absent THEN NoId
                                  ELSE IF @ = NoId /\ Readable(w) THEN w.id ELSE @]

\* the operation returns, Ok or Err, and the process forgets what it read
Return(c) ==
  /\ Goto(c, "idle")
  /\ slug' = [slug EXCEPT ![c] = NoSlug]
  /\ page' = [page EXCEPT ![c] = NoPage]
  /\ linked' = [linked EXCEPT ![c] = FALSE]
  /\ prior' = [prior EXCEPT ![c] = Absent]

\* write_page is called with page p for slug s
Submit(c, s, p) ==
  /\ Goto(c, "check")
  /\ slug' = [slug EXCEPT ![c] = s]
  /\ page' = [page EXCEPT ![c] = p]
  /\ UNCHANGED <<linked, prior>>

\* mutated: the new page takes over the id of the page already there
MutNew(c, s, i) ==
  /\ "new" \in use.op /\ pc[c] = "idle" /\ i \notin used
  /\ Submit(c, s, [id |-> IF Readable(file[s]) THEN file[s].id ELSE i,
                   status |-> "draft", body |-> 0])
  /\ used' = used \cup {i}
  /\ UNCHANGED <<dir, meta, fileVars, live>>

\* mutated: the id is not fresh
MutNewStale(c, s, i) ==
  /\ "new" \in use.op /\ pc[c] = "idle"
  /\ Submit(c, s, [id |-> i, status |-> "draft", body |-> 0])
  /\ used' = used \cup {i}
  /\ UNCHANGED <<dir, meta, fileVars, live>>

\* mutated: the id is fresh among the pages on disk only
MutNewReused(c, s, i) ==
  /\ "new" \in use.op /\ pc[c] = "idle"
  /\ \A t \in Slug : Readable(file[t]) => file[t].id # i
  /\ Submit(c, s, [id |-> i, status |-> "draft", body |-> 0])
  /\ used' = used \cup {i}
  /\ UNCHANGED <<dir, meta, fileVars, live>>

\* mutated: the status is not one of the closed set
MutNewStatus(c, s, i) ==
  /\ "new" \in use.op /\ pc[c] = "idle" /\ i \notin used
  /\ Submit(c, s, [id |-> i, status |-> "new", body |-> 0])
  /\ used' = used \cup {i}
  /\ UNCHANGED <<dir, meta, fileVars, live>>

\* new-page: Page::draft has a fresh id and no sections
New(c, s, i) ==
  /\ "new" \in use.op /\ pc[c] = "idle" /\ i \notin used
  /\ Submit(c, s, [id |-> i, status |-> "draft", body |-> 0])
  /\ used' = used \cup {i}
  /\ UNCHANGED <<dir, meta, fileVars, live>>

\* publish-page: read_page, set the status, write_page
Publish(c, s) ==
  /\ "publish" \in use.op /\ pc[c] = "idle" /\ Readable(file[s])
  /\ Submit(c, s, [file[s] EXCEPT !.status = "published"])
  /\ UNCHANGED <<dir, meta, fileVars, history>>

\* an embedding program edits a page: read_page, change anything but the id
\* and the slug, write_page
Edit(c, s, st, b) ==
  /\ "edit" \in use.op /\ pc[c] = "idle" /\ Readable(file[s])
  /\ Submit(c, s, [file[s] EXCEPT !.status = st, !.body = b])
  /\ UNCHANGED <<dir, meta, fileVars, history>>

\* an embedding program gives a page another slug: read_page, change the slug,
\* write_page.  Nothing removes the file under the old slug
Rename(c, s, t) ==
  /\ "rename" \in use.op /\ pc[c] = "idle" /\ Readable(file[s]) /\ t # s
  /\ Submit(c, t, file[s])
  /\ UNCHANGED <<dir, meta, fileVars, history>>

\* mutated: no look at whose page is there
MutCheck(c) ==
  /\ pc[c] = "check"
  /\ dir' = TRUE
  /\ Goto(c, "create")
  /\ UNCHANGED <<meta, fileVars, slug, page, linked, prior, history>>

\* write_page: create_dir_all, then the slug must not be taken by another
\* page; a file that cannot be read takes no slug
Check(c) ==
  LET there == file[slug[c]]
  IN /\ pc[c] = "check"
     /\ dir' = TRUE
     /\ \/ Readable(there) /\ there.id # page[c].id /\ Return(c)
        \/ ~ (Readable(there) /\ there.id # page[c].id)
           /\ Goto(c, "create") /\ UNCHANGED <<slug, page, linked, prior>>
     /\ UNCHANGED <<meta, fileVars, history>>

\* write_page: fs::write creates the file or truncates it ...
Create(c) ==
  /\ pc[c] = "create"
  /\ Put(slug[c], Empty)
  /\ linked' = [linked EXCEPT ![c] = TRUE]
  /\ prior' = [prior EXCEPT ![c] = file[slug[c]]]
  /\ Goto(c, "fill")
  /\ UNCHANGED <<dir, meta, slug, page, history>>

\* mutated: a page without sections is not worth writing
MutFill(c) ==
  /\ pc[c] = "fill"
  /\ IF linked[c] /\ page[c].body > 0
     THEN \E w \in Overlay(page[c], file[slug[c]]) : Put(slug[c], w)
     ELSE UNCHANGED fileVars
  /\ live' = live \cup (IF page[c].status = "published" THEN {page[c].id} ELSE {})
  /\ Return(c)
  /\ UNCHANGED <<dir, meta, used>>

\* ... and fills it; without its name the file takes the bytes with it
Fill(c) ==
  /\ pc[c] = "fill"
  /\ IF linked[c]
     THEN \E w \in Overlay(page[c], file[slug[c]]) : Put(slug[c], w)
     ELSE UNCHANGED fileVars
  /\ live' = live \cup (IF page[c].status = "published" THEN {page[c].id} ELSE {})
  /\ Return(c)
  /\ UNCHANGED <<dir, meta, used>>

\* delete_page: the file is there ...
Delete(c, s) ==
  /\ "delete" \in use.op /\ pc[c] = "idle" /\ file[s] # Absent
  /\ Goto(c, "unlink")
  /\ slug' = [slug EXCEPT ![c] = s]
  /\ UNCHANGED <<dir, meta, fileVars, page, linked, prior, history>>

\* ... and is removed, if it is still there
Unlink(c) ==
  /\ pc[c] = "unlink"
  /\ Put(slug[c], Absent)
  /\ linked' = [d \in Client |-> linked[d] /\ slug[d] # slug[c]]
  /\ Goto(c, "idle")
  /\ slug' = [slug EXCEPT ![c] = NoSlug]
  /\ UNCHANGED <<dir, meta, page, prior, history>>

\* init-site: write_site never looks whether the site exists
InitSite(c) ==
  /\ "init" \in use.op /\ pc[c] = "idle"
  /\ dir' = TRUE
  /\ Goto(c, "site_create")
  /\ UNCHANGED <<meta, fileVars, slug, page, linked, prior, history>>

SiteCreate(c) ==
  /\ pc[c] = "site_create"
  /\ meta' = Empty
  /\ Goto(c, "site_fill")
  /\ UNCHANGED <<dir, fileVars, slug, page, linked, prior, history>>

SiteFill(c) ==
  /\ pc[c] = "site_fill"
  /\ meta' \in (IF meta = Empty THEN {Site} ELSE {Site, Torn})
  /\ Return(c)
  /\ UNCHANGED <<dir, fileVars, history>>

\* the process dies, or its call fails and the operation returns Err
Abandon(c) ==
  /\ use.fault /\ pc[c] # "idle"
  /\ IF pc[c] = "fill" /\ linked[c]
     THEN \E w \in CutOverlay(page[c], file[slug[c]]) : Put(slug[c], w)
     ELSE UNCHANGED fileVars
  /\ meta' \in (IF pc[c] = "site_fill" THEN {meta, Torn, Site} ELSE {meta})
  /\ Return(c)
  /\ UNCHANGED <<dir, used, live>>

\* the next system call of an operation in progress
Continue(c) ==
  \/ Check(c) \/ Create(c) \/ Fill(c) \/ Unlink(c) \/ SiteCreate(c) \/ SiteFill(c)

Start(c) ==
  \/ \E s \in use.owns[c] :
       \/ \E i \in PageId : New(c, s, i)
       \/ Publish(c, s)
       \/ \E st \in Status, b \in 0..MaxBody : Edit(c, s, st, b)
       \/ \E t \in use.owns[c] : Rename(c, s, t)
       \/ Delete(c, s)
  \/ InitSite(c)

Next == (\E c \in Client : Start(c) \/ Continue(c) \/ Abandon(c)) /\ UNCHANGED use

Spec == Init /\ [][Next]_vars

\* a process that has started an operation goes on with it
FairSpec == Spec /\ \A c \in Client : WF_vars(Continue(c) /\ UNCHANGED use)

----------------------------------------------------------------------------
(* Properties                                                               *)

InWrite(c) == pc[c] \in {"check", "create", "fill"}

\* Every variable has its type; a write in progress has a page and a slug.
TypeOK ==
  /\ use \in Uses
  /\ dir \in BOOLEAN
  /\ meta \in Meta
  /\ file \in [Slug -> Content]
  /\ pc \in [Client -> {"idle", "check", "create", "fill", "unlink",
                        "site_create", "site_fill"}]
  /\ slug \in [Client -> Slug \cup {NoSlug}]
  /\ page \in [Client -> Page \cup {NoPage}]
  /\ linked \in [Client -> BOOLEAN]
  /\ prior \in [Client -> Content]
  /\ used \in SUBSET PageId
  /\ live \in SUBSET PageId
  /\ owner \in [Slug -> PageId \cup {NoId}]
  /\ \A c \in Client : InWrite(c) => page[c] \in Page
  /\ \A c \in Client : InWrite(c) \/ pc[c] = "unlink" => slug[c] \in Slug

\* "Stable identifier for a page within its site": where nobody changes a slug,
\* no two pages of the site that can be read have the same id, whatever
\* processes write, race, delete and die, and whatever mixture of two of their
\* writes a file ends up with.
IdsUnique ==
  "rename" \notin use.op => \A s, t \in Slug :
    Readable(file[s]) /\ Readable(file[t]) /\ file[s].id = file[t].id => s = t

\* "Reject when the slug exists under a different id": from the time a page
\* can be read under a slug until its file is deleted, no other page can be
\* read there, through all the moments the file is empty for a rewrite.
SlugKeepsItsPage == \A s \in Slug : Readable(file[s]) => file[s].id = owner[s]

\* Where no two processes work on one slug and none dies, the promise is kept.
SlugAloneKeepsItsPage == ~use.fault => SlugKeepsItsPage

\* With the cms command alone, any number of runs at once, and as long as no
\* call fails and no run dies: once publish-page has returned Ok for a page, that
\* page never reads as anything but published again (another page may take its
\* slug).
PublishedStays ==
  use.op \cap {"edit", "rename"} = {} /\ ~use.fault =>
    \A s \in Slug : Readable(file[s]) /\ file[s].id \in live => file[s].status = "published"

\* Processes that work on slugs of their own and do not die: a page file that
\* cannot be read (list_pages then fails for the whole site) is one that is
\* being rewritten, and will be readable, or gone, again.
UnreadableHeals ==
  \A s \in Slug : ~use.fault /\ file[s] \in {Empty, Torn} ~> file[s] \in Page \cup {Absent}

\* The pages as one process at a time sees them change: a file that is being
\* rewritten still counts as what it held.
Pages ==
  [s \in Slug |->
     LET rewriting == {c \in Client : pc[c] = "fill" /\ linked[c] /\ slug[c] = s}
         c == IF rewriting = {} THEN file[s] ELSE prior[CHOOSE d \in rewriting : TRUE]
     IN CASE c = Absent -> NoPage
          [] Readable(c) -> c
          [] OTHER -> Torn]

\* One process per slug, which may die, or have a call fail, at every step:
\* the store is a map of pages in which a slug passes to another page only
\* after its page was deleted or damaged.
Promise == INSTANCE PageMap WITH pages <- Pages, Damaged <- Torn
StoreIsPageMap == Promise!Spec

=============================================================================
