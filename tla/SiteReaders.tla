---------------------------- MODULE SiteReaders ----------------------------
(***************************************************************************)
(* cms-core/src/storage.rs: the reads that take several files one after    *)
(* the other (list_pages, list_sites, export_site), and read_page and      *)
(* read_site, beside the writers of PageStore.                             *)
(*                                                                         *)
(* The reader is one process: it changes nothing, so two readers cannot    *)
(* disturb each other.  A directory gives out its names in any order and   *)
(* at different moments; a name that is there all along is given out once. *)
(* Taking a file's content is one step, which may fall into the middle of  *)
(* a write.                                                                *)
(***************************************************************************)
EXTENDS PageStore

CONSTANT SiteToml   \* the name of the metadata file beside the page files

ASSUME SiteTomlAssumption == SiteToml \notin Slug

VARIABLES
  reader,   \* the operation under way, or how the last one ended
  ahead,    \* the names its directory scan may still give out
  entries,  \* the names it knows and has not taken the content of
  found,    \* the contents it has taken, by name
  steady    \* history: the names whose file nobody has written, begun to
            \* write or removed since the operation began

readerVars == <<reader, ahead, entries, found, steady>>

Name == Slug \cup {SiteToml}
At(n) == IF n = SiteToml THEN meta ELSE file[n]

Operation == {"read_site", "list_sites", "read_page", "list_pages", "export_site"}

\* Ok, or the variant of CmsError that a read of a valid name returns
Outcome == {"ok", "io", "toml", "page_not_found", "site_not_found"}

\* a process is between the truncation of the file and the end of its write
Writers(n) ==
  IF n = SiteToml THEN {c \in Client : pc[c] = "site_fill"}
  ELSE {c \in Client : pc[c] = "fill" /\ linked[c] /\ slug[c] = n}

\* what a read finds in a file: of a write under way any part
Sight(n) ==
  {At(n)} \cup (IF n = SiteToml /\ Writers(n) # {} THEN {Torn, Site}
                ELSE UNION {CutOverlay(page[c], file[n]) : c \in Writers(n)})

\* toml::from_str gives a page or a site
Parses(w) == w \in Page \cup {Site}

ReadersInit ==
  /\ Init
  /\ reader = "ok" /\ ahead = {} /\ entries = {} /\ found = <<>> /\ steady = {}

----------------------------------------------------------------------------
Idle == reader \in Outcome

\* the operation begins, with the names it knows already and those to scan for
Begin(op, known, scanned) ==
  /\ reader' = op
  /\ entries' = known
  /\ ahead' = scanned
  /\ found' = <<>>
  /\ steady' = {n \in Name : Writers(n) = {}}

\* the operation returns
Finish(outcome) ==
  /\ reader' = outcome
  /\ ahead' = {} /\ entries' = {} /\ found' = <<>> /\ steady' = {}

\* read_site, unless there is no site.toml
ReadSite ==
  IF meta = Absent THEN Finish("site_not_found") ELSE Begin("read_site", {SiteToml}, {})

\* list_sites, in a store with this site: a site without its site.toml, or with
\* one that cannot be read, is passed over
ListSites == Begin("list_sites", IF meta = Absent THEN {} ELSE {SiteToml}, {})

\* read_page, unless the file is not there
ReadPage(s) ==
  IF file[s] = Absent THEN Finish("page_not_found") ELSE Begin("read_page", {s}, {})

\* list_pages, unless the site has no pages directory
ListPages ==
  IF ~dir THEN Finish("site_not_found") ELSE Begin("list_pages", {}, Slug)

\* export_site reads the site directory first, then, in it, pages/
ExportSite ==
  IF ~dir THEN Finish("site_not_found")
  ELSE Begin("export_site", {n \in {SiteToml} : meta # Absent}, Slug)

\* the cms commands that only read: list-sites, list-pages, show-page and
\* export-manifest; read_site is left to embedding programs
Ask ==
  /\ "read" \in use.op /\ Idle
  /\ ListSites \/ ListPages \/ (\E s \in Slug : ReadPage(s)) \/ ExportSite \/ ReadSite

\* mutated: the directory may give out a name again
MutScan(n) ==
  /\ n \in ahead
  /\ entries' = IF file[n] = Absent THEN entries ELSE entries \cup {n}
  /\ UNCHANGED <<reader, ahead, found, steady>>

\* the directory gives out a name, if there is such a file at that moment
Scan(n) ==
  /\ n \in ahead
  /\ ahead' = ahead \ {n}
  /\ entries' = IF file[n] = Absent THEN entries ELSE entries \cup {n}
  /\ UNCHANGED <<reader, found, steady>>

\* walkdir reads a directory to its end and sorts it: the pages before site.toml
InTurn(n) ==
  reader = "export_site" => ahead = {} /\ (n = SiteToml => entries = {SiteToml})

\* whether the operation goes on with content w: the export takes any bytes,
\* the others parse them
Keeps(op, w) == IF op = "export_site" THEN w # Absent ELSE Parses(w)

\* mutated: a page that does not parse is passed over
MutFails(op, w) == op # "list_sites" /\ w = Absent

\* list_sites goes on without a file it cannot use, the others return the error
Fails(op, w) == op # "list_sites" /\ ~Keeps(op, w)

\* the content of one file is taken; the file may have gone since its name was
Take(n) ==
  /\ n \in entries /\ InTurn(n)
  /\ \E w \in Sight(n) :
       \/ Fails(reader, w) /\ Finish(IF w = Absent THEN "io" ELSE "toml")
       \/ /\ ~Fails(reader, w)
          /\ found' = IF Keeps(reader, w)
                      THEN [m \in DOMAIN found \cup {n} |-> IF m = n THEN w ELSE found[m]]
                      ELSE found
          /\ entries' = entries \ {n}
          /\ UNCHANGED <<reader, ahead, steady>>

\* every name has been dealt with
Done == ~Idle /\ ahead = {} /\ entries = {} /\ Finish("ok")

Read == (Ask \/ (\E n \in Name : Scan(n) \/ Take(n)) \/ Done) /\ UNCHANGED vars

\* a writer's step, with what it means for the names the reader counts on
Write ==
  /\ Next
  /\ steady' = {n \in steady : At(n)' = At(n) /\ Writers(n)' = {}}
  /\ UNCHANGED <<reader, ahead, entries, found>>

ReadersSpec == ReadersInit /\ [][Read \/ Write]_<<vars, readerVars>>

----------------------------------------------------------------------------
(* Properties                                                               *)

\* Every variable of the reader has its type; what it has read it had to read.
ReadersTypeOK ==
  /\ reader \in Operation \cup Outcome
  /\ ahead \subseteq Slug
  /\ entries \subseteq Name \ ahead
  /\ DOMAIN found \subseteq Name \ (ahead \cup entries)
  /\ \A n \in DOMAIN found : found[n] \in Content \cup Meta
  /\ steady \subseteq Name

\* "Stable identifier for a page within its site": list_pages and export_site
\* read their files at different moments, and may read one in the middle of a
\* write; yet what one of them returns never holds two pages with the same id,
\* whatever was written, deleted and written again meanwhile.
ReadIdsUnique ==
  "rename" \notin use.op =>
    \A s, t \in DOMAIN found \cap Slug :
      Readable(found[s]) /\ Readable(found[t]) /\ found[s].id = found[t].id => s = t

\* The files the operation op is about.
Scope(op) ==
  CASE op = "list_pages" -> Slug
    [] op = "export_site" -> Name
    [] op \in {"read_site", "list_sites"} -> {SiteToml}
    [] OTHER -> DOMAIN found \cup entries

\* What an operation that ends has made of the files that were left alone.
EndsSteadily ==
  /\ ~Idle /\ reader' = "ok" =>
       \A n \in steady \cap Scope(reader) :
         IF n \in DOMAIN found THEN found[n] = At(n)
         ELSE At(n) = Absent \/ (reader = "list_sites" /\ At(n) # Site)
  /\ ~Idle /\ reader' \in Outcome \ {"ok"} =>
       \E n \in Scope(reader) :
         n \notin steady \/ (reader # "export_site" /\ At(n) \in {Empty, Torn})

\* Other processes only disturb what they touch.  An operation that returns Ok
\* shows every file that was left alone while it ran exactly as it is (only
\* list_sites passes over one it cannot read); one that fails does so over a
\* file that cannot be read or was not left alone, and an export over the
\* latter only.
SteadyFilesAreRead == [][EndsSteadily]_readerVars

\* No process dies and no two work on one slug.
Apart == ~use.fault /\ \A c, d \in Client : c # d => use.owns[c] \cap use.owns[d] = {}

\* Where processes that do not die keep to pages of their own, a listing fails
\* only beside a write or a delete: what it then failed over, no earlier and no
\* later listing need fail over.
ListingFailsBesideWrites ==
  [][Apart /\ reader = "list_pages" /\ reader' \in {"io", "toml"} => ~(Slug \subseteq steady)]_readerVars

=============================================================================
