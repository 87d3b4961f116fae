--------------------------- MODULE MCSiteReaders ---------------------------
(* Instances of PageStore with readers for TLC.                             *)
EXTENDS MCPageStore, SiteReaders

\* a reader beside two programs that write and delete pages, share one slug and
\* may die; and beside two that share none, initialise the site and do not die
ReadOps == {"new", "publish", "delete", "read"}
SharedAndRead ==
  Shared \cup {Using(ReadOps, (c1 :> Slug) @@ (c2 :> {s2}), TRUE, OneDraft),
              Using(ReadOps \cup {"init"}, OwnSlug, FALSE, NoPages)}
=============================================================================
