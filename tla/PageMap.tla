------------------------------ MODULE PageMap ------------------------------
(***************************************************************************)
(* What the Storage trait of cms-core/src/storage.rs promises of the pages *)
(* of one site: a map from slugs to pages in which a slug never passes     *)
(* from one page to another ("reject when the slug exists under a          *)
(* different id"), except that a write that is cut short may leave it      *)
(* without a readable page.                                                *)
(***************************************************************************)
EXTENDS Naturals

CONSTANTS Slug, Page, NoPage, Damaged

VARIABLE pages

Init == pages \in [Slug -> Page \cup {NoPage}]

Put(s, p) == pages' = [pages EXCEPT ![s] = p]

\* a page appears where no page can be read
Create(s) ==
  /\ pages[s] \in {NoPage, Damaged}
  /\ \E p \in Page : Put(s, p)

\* a page is replaced by another state of the same page
Update(s) ==
  /\ pages[s] \in Page
  /\ \E p \in Page : p.id = pages[s].id /\ Put(s, p)

Delete(s) == pages[s] # NoPage /\ Put(s, NoPage)

Damage(s) == Put(s, Damaged)

Next == \E s \in Slug : Create(s) \/ Update(s) \/ Delete(s) \/ Damage(s)

Spec == Init /\ [][Next]_pages

=============================================================================
