# PlausiDen-CMS: models, checks and proofs

TLA+ models of the core of PlausiDen-CMS, configurations that TLC checks on small
instances, and theorems that TLAPS checks for every value of the constants.
Every definition is taken from the source; `PROJECT.json` names the lines.

    tlc -workers 2 -config <run>.cfg <module>     # the runs listed below
    tlapm <Module>Proofs.tla                      # the proofs

## 1. Inventory

The program is a set of Rust libraries with one command line front end. It has no
server, no threads and no locks; what makes it concurrent is that several
processes (runs of `cms`, or programs that embed the crates) work on the same
files, each file operation being several system calls.

| Component | State | Operations | Hard behaviour | Correct means |
|---|---|---|---|---|
| Audit log (`cms-core/src/audit_log.rs`) | the file; per handle the cached hash and number of the last entry | `open`, `append`, `verify` | `append` reads, truncates and rewrites the whole file; handles cache; crashes at each call | the log only grows; entries are chained and numbered; `verify` accepts nothing else |
| Page store (`cms-core/src/storage.rs`) | directories, `site.toml`, one file per page | `write_site`, `read_site`, `list_sites`, `write_page`, `read_page`, `delete_page`, `list_pages`, `export_site` | the uniqueness check and the write are separate, the write truncates first, torn files, deletes in between; listings and exports read file by file, beside writers | a slug belongs to one page; ids are unique, on disk and in every listing; readers see what is left alone as it is; a published page stays published |
| Page and site types (`cms-core/src/page.rs`) | none | `Page::draft`, `validate_slug` | length and dash boundaries | slugs are words joined by dashes; names stay in their directories and never meet on disk |
| `cms` command (`cms-cli/src/main.rs`) | none of its own | `init-site`, `new-page`, `publish-page`, listings, export | read, modify, write without a lock | as for the store |
| Version graph (`cms-collab/src/lib.rs`) | versions by hash, branch heads with a policy | `add_version`, `advance` | stale and diverged work, versions inserted again | no dangling references, no cycles, history as the policy promises |
| CRDT and transport seam (`cms-collab/src/lib.rs`) | traits only | - | - | - |
| Pre-publish audit (`cms-pre-publish-audit/src/lib.rs`) | none | `audit_page_with`, `blocks_publish` | contradictory thresholds, empty sections in between, pages changed after the audit | exactly the unusable pages are blocked |
| Composition audit (`.github/scripts/composition.py`) | the committed baseline | subcommands, `baseline` | order of `os.walk`, identity of findings over time, unreadable baseline | old findings pass, new ones do not |
| CI workflows | none | run the above and cargo | - | - |
| Admin authentication (`cms-admin-auth/src/lib.rs`) | none (a trait for stores, without an implementation) | expiry test, cookie builder, tenant paths | a third copy of the name rule | tenants never meet on disk; the name rules agree |
| Error type (`cms-core/src/error.rs`) | none | - | - | - |
| Crate roots, manifests, documents | none | - | - | - |

Interactions: the command calls the page store; the store checks every name with
`validate_slug`, which the pre-publish audit uses as well; the audit log is beside
the pages on disk. Two connections that the documents describe have no code: no
operation of the store or the command writes an audit-log entry
(`audit_log.rs:3-4` says every transition does), and nothing calls the pre-publish
audit before a page is published. Section 4 lists the other places where
code and documents part.

## 2. Modules

| Module | What it models |
|---|---|
| `AuditLog` | any number of `AuditLog` handles on one file |
| `AppendOnlyLog` | the abstract log: one entry at a time, numbered and linked |
| `AuditLogProofs` | type correctness, the chain invariant and what it implies; handles open one at a time: what `append` acknowledges, what `open` accepts, `AppendOnlyLog` implemented |
| `PageStore` | processes working on the pages and the metadata of one site |
| `PageMap` | the abstract store: a map in which a slug keeps its page |
| `PageStoreProofs` | type correctness, unique ids, published pages stay published; processes on slugs of their own: a slug keeps its page, `PageMap` implemented |
| `SiteReaders` | listings, exports and single reads beside the processes of `PageStore`, which it extends |
| `SiteReadersProofs` | type correctness of the reader, unique ids in what it reads, files left alone, when listings fail |
| `Names`, `NamesProofs` | slugs, tenants, branches and hashes: their checks, and the paths built from them |
| `VersionGraph`, `VersionGraphProofs` | versions, branches and policies |
| `PrePublishAudit`, `PrePublishAuditProofs` | the rules of the audit, over a page that an editor changes |
| `Composition`, `CompositionProofs` | the duplication audit, its baseline and its verdicts |
| `MC*` | the constants of the runs and the symmetries |

### AuditLog

`file` is the sequence of lines and whether the last has its newline; `tail[h]` is
`last_entry_hash` and `next_seq`. `open` is `OpenExisting`, or `OpenMissing` then
`CreateFile` (test, then write: the gap in between is a state). `append` is
`BeginAppend` (build and sign the entry from the caches, read the file, add the
line), `Truncate` and `WriteAll` (the two halves of `fs::write`). `OpenFails`,
`WriteFails` and `Crash` are what may happen at each call. `PartialWrite` says what a
write that stops half way leaves. `Cuts` are the prefixes of what it wrote, `Overlay`
puts one over what another handle wrote to the file since the truncation; a piece of a
line, or two lines run together, is `Garbage`. Lines have one fixed shape, though, so
the head of one and the tail of another may also parse: `Mixtures` are the entries such
a line can be, by the field in which it was cut, and `MixLines` puts one where two lines
meet. Nobody signed it, `open` takes its hash and number into the caches all the same,
and `verify` accepts it where it has no key for its signer, or where the cut changed
nothing that is signed. `intact` says that no write has stopped half way so far.
Hashes are ideal: every entry, signed or mixed, gets a new `Digest`. `minted`, `acked` and
`intact` are history variables, as `landed` in `VersionGraph`, `used`, `live`, `owner` and `prior`
in `PageStore`, `steady` in `SiteReaders` and `snapshot` in `Composition` are: no action reads them except to
keep a name fresh (`minted` for digests, `used` for ids, which are random in the code), and
that `Pieces` lets a piece of a line be one of any entry in `minted`.
`Faults` is a set of sets of failures; `Init` picks one into `fault`, which never
changes, so that one run compares a machine where writes fail by themselves with one
where they do not.
`HonestHashes` restricts callers of `add_version` to one set of
parents per hash; without it callers may pass any hash.

### PageStore

`write_page` is `Submit`, `Check` (create the directory, refuse a slug another page
has), `Create` (truncate) and `Fill`; `delete_page` is `Delete` and `Unlink`;
`write_site` is `InitSite`, `SiteCreate` and `SiteFill`. `New` and `Publish` are the
commands; `Edit` is any other program that reads a page, changes it and writes it
back, and `Rename` one that changes the slug, which leaves the file under the old one.
The two `create_dir_all` of an operation count as one step with the one before them. A page is its id, its status and how many sections it has: TOML puts the
sections last, so a file cut between sections is a shorter page and cut elsewhere
is `Torn`. `Abandon` is a crash or a failed call at any step. `linked` says whether
the file being written still has its name: a delete may have taken it away. What
differs from one way of using a site to the next (the operations, who works on which
slugs, whether anything fails, the pages at the start) is the constant set `Uses`;
`Init` picks one into `use`, which never changes, so that one run compares several.

### SiteReaders

One reader beside the processes of `PageStore`. One is enough: it changes nothing, so
two cannot disturb each other. `Ask` begins an operation: what `exists` finds, and the
names that the directory may give out. `Scan` gives out one name, in any order, and
none for a file that is not there at that moment; `Take` reads one file, which may have
gone since (`io`), may not parse (`toml`; `list_sites` then passes over it, the export
takes any bytes), or may be in the middle of a write: `Sight` is then any part of the
write, by the same `CutOverlay` as a write cut short. `export_site` goes through
the directory in the order of `walkdir`, `pages` before `site.toml` (`InTurn`). `Done`
returns what was found. `steady` is the set of the names whose file nobody has
written, begun to write or removed since the operation began.

### Names

A text is a sequence of characters, one of each sort that a check, a path or letter
case tells apart. `ValidSlug`, `ValidTenant` and `ValidBranch` are the three loops of
the three crates, `ParseHash` is what `VersionHash::parse` keeps. Paths are sequences
of components; `JoinPath` is `Path::join`: an absolute name replaces the path, any other
adds its parts, and `..` is a part like any other, which the file system would resolve
later. `DirectlyIn` therefore asks that no such part is there. The actions type and erase one character, so that the runs meet
every text up to a bound.

### VersionGraph

A version is its parents. `Advance` checks the policy of the branch as the code
does (`Allows`); `SetPolicy` is the embedding program, which the public map lets set
any policy. With `HonestHashes` callers compute hashes from contents, so a known hash
keeps its parents.

### PrePublishAudit

A page is the lengths of its texts, its slug as character classes, and the kinds of
the blocks in each section. Each rule of `audit_page_with` is an operator; `Critique`
is any function. The actions are the edits of an embedding editor. Saving and
publishing are those of `PageStore`: neither asks the audit.

### Composition

Files are sequences of entries, rules or impls. `RawLiterals`, `DuplicatedBodies`,
`ManualImpls`, `DuplicatedImpls` and `DuplicatedBlocks` are the checks; a rule has its
literals on one line, the line number of a finding is the place of its entry, and for
`check_dry` an entry counts as a line. `Head120` and `Head60` are the cuts of the script
to 120 and 60 characters, any functions of a line and of a selector. The order of
`os.walk` is chosen anew for every run of the script, as checkouts differ in it.
`Commit`, `WriteBaseline`, `DamageBaseline` and `Audit` interleave freely. `Init`
picks the set of files from `Layouts`. `baseline` is the file: absent, JSON, or damaged,
and the keys last written to it; `LoadBaseline` is what the script makes of it. A
baseline that is JSON without the list `suppressed` is one with an empty list.

## 3. Runs

Each passing run's properties are also violated by a mutated version of the code
(`PROJECT.json`, "mutants").

| Run | Instance | What it shows |
|---|---|---|
| `audit_log_writers` | 2 handles, 4 entries, every failure | `ChainInv`, `VerifiedSeqContiguous`, `HeadPinsHistory`: two handles do overwrite each other's entries, and cut writes mix them, but nothing left behind both verifies and is misnumbered at an entry whose signer is known, and the last entry of a verified log pins everything before it |
| `audit_log_single` | 1 handle, 2 keys; opens and reads that fail and a process that may die at each call, on a machine where writes fail as well or where they do not | `LogIsExactlyAcked` until a write stops half way, and `AppendOnly`: the file implements `AppendOnlyLog`, whose promise ends there; `OpenedLogVerifies`: `open` checks no hash, yet refuses whatever a crash leaves that does not verify, and in the second case all that does not |
| `pages_embedded` | 2 processes on 2 slugs, 2 ids: two runs of the command without failures, or every operation but `init-site` with every failure; and a reader beside two processes that share a slug and may die, or that share none, initialise the site and do not | `IdsUnique`; `PublishedStays` in the first case; `ReadIdsUnique`: no listing or export holds one id twice; `SteadyFilesAreRead`: readers are disturbed only by changes to the files they read; `ListingFailsBesideWrites` in the last case |
| `pages_alone` | 1 process with failures, that edits pages or moves them to other slugs, or 2 processes on a slug each without | `StoreIsPageMap`: the files implement `PageMap`; `SlugAloneKeepsItsPage` and `UnreadableHeals` without failures |
| `names` | all texts of up to 4 of 9 characters | `NamesKeepToThemselves`, `OneNameRule`, `HashesAreKeys` |
| `versions` | 4 honest hashes, 2 branches | `NoDangling` (for any hashes: theorem `NothingDangles`), `NoCycle`, `LinearKeepsHistory` |
| `audit_rules` | all pages of 2 sections of 2 blocks, two thresholds | `BlocksExactlyBrokenPages`, `MoreBlocksNoNewFinding` |
| `composition` | 2 stylesheets or 2 Rust files, of 2 entries | `LineRatchet`, `NoBaselineHidesNothing` |

Four runs each show a statement of the code's own documents failing:

| Run | Statement | What happens |
|---|---|---|
| `audit_log_fused_line` | "JSON-Lines, one per line" | after a crash the next entry is fused to an unterminated line, and acknowledged |
| `pages_race` | "reject when the slug exists under a different id" | the check cannot read a file another process has just truncated, and passes |
| `versions_replaced` | "One frozen page version" | a version is replaced under its hash |
| `composition_walk` | "fails only on NEW findings" | another walk order, other keys, failure on the unchanged tree |

### Bounds

* Two handles or processes: every race in this code is between two, one step of
  the other falling between two of one's own.
* Four entries: entry 0, a successor, and one more for each handle, enough for a fork
  with a continuation, a failed append in it, and a third generation; a mixed entry takes
  one of the four. `TornSeq` is what two numbers run together read as, here 12, a number no log of four entries
  reaches otherwise; the theorems hold for any. `audit_log_writers` has one key, a registered
  one; the fingerprints that a cut tears are the ones that are not. Without a bound
  on entries the log would grow for ever; a run stops when the digests are used up,
  and where it may also stop because nobody can open a damaged log the
  configuration turns deadlock checking off.
* Two slugs, so that a page can appear beside or instead of another; two ids,
  so that a slug can pass on; bodies of up to two sections, so that a cut can fall
  between two.
* The reader meets every order of the names and every moment between them: with two
  slugs and `site.toml`, a page can disappear behind it, appear before it, or be
  created again under the other slug. The program that shares a slug with another one
  keeps one to itself.
* Once all ids are given out and all pages deleted, the processes of `pages_embedded` have
  nothing left to do, which is the bound on ids and not a deadlock: the configuration
  turns the check off. `pages_alone`, in which they can always initialise the site,
  leaves it on.
* Texts of four characters hold a name that is too long for a slug and not for a tenant
  (limits 3 and 4 for 41 and 64), a double dash inside a name, `..` and an absolute name;
  the theorems hold for all limits.
* Four versions hold a merge of two children of a root; the list of parents goes up
  to three, one more than `validate` allows.
* Thresholds in order and crossed; slugs at both limits of the length, and one for each
  rule a slug can break; sections before and after empty ones.
* Two files of two entries hold the three occurrences that the rules ask for, split
  over the files in both ways. The passing run sets `MinLines` to 1 (the environment
  variable of the script) so that blocks of lines exist in files this short; the
  other keeps blocks out of the way. One pair of rules agrees up to the literal, as lines
  that agree in 120 characters do, and one impl is longer than the limit (1 for 10).

Symmetry is used for handles, hashes, processes, branches and files, over safety
properties only; the runs with a liveness property or a refinement have none.

### Fairness

Only `pages_alone` needs it: weak fairness of `Continue(c)`, that is, a process
that has begun an operation goes on to its next system call. The operating system
schedules every process and no call waits for another process, so nothing can
prevent it. Processes need not start anything, and `UnreadableHeals` speaks of uses
without faults: a process that dies inside a rewrite leaves a file that stays
unreadable until somebody repairs it.

## 4. Where code and documents part

Beyond the four runs above, reading the code for the models showed these
differences. Each is plain once the definitions are side by side, so none has a run.

* `audit_log.rs:15` "append-only on disk": `append` truncates the file and writes it
  again (`Truncate`, `WriteAll`); a crash in between, or a write that fails, loses
  acknowledged entries.
* `audit_log.rs:7` "monotonic sequence number": `verify` reads no number (`Verifies`), so it accepts
  the line that a write cut inside another handle's line has made, with a number that is already
  there, as long as it has no key for the fingerprint in it (`Mixtures`, `MixLines`).
* `audit_log.rs:16-17`: log rotation has no code; `:3-4`: no operation writes an entry.
* `error.rs:26` SiteNotFound, "no such site directory": `write_page` makes the directory,
  `read_site` looks for `site.toml` (`Check`, `ReadSite`), and `list_pages` for the directory.
* `storage.rs:38` "list every site": `list_sites` passes over a site whose `site.toml` is
  torn or being rewritten, without an error (`Fails`); one page file in that state
  fails `list_pages` for the whole site (`Take`).
* `page.rs:19-20` "the slug can change": no operation changes one, and a page written
  under a new slug stays under the old one too (`Rename`).
* `page.rs:101-102`: the pattern allows a dash at the end and two in a row, `validate_slug`
  does not (`ValidSlug`); the same holds for `cms-collab/src/lib.rs:90` (`ValidBranch`).
* `cms-collab/src/lib.rs:188-189`: the merge policy accepts diverged versions that are no
  merges; `:191-192`: the rebase-only policy accepts diverged versions as they are (`Allows`).
* `cms-pre-publish-audit/src/lib.rs:47` "`Strict` blocks publish": `publish-page` runs no audit;
  `:34` no rule finds `block.video.no-third-party`; `composition.headings` is called "no HeadingBody
  at all", but pages of one section are exempt, as a test of the crate wants it.
* `composition.py:20` "new findings present (CI gate fails)": the key of a duplicated body
  names a selector and the size of the group, so a new group can have the key of a
  suppressed one (`DuplicatedBodies`, `Key`); and the key of a literal is the first 120 characters
  of its line, so a new literal behind them passes (`:206`, `Raw`, `Head120`). `:298` "same trait, same body": the text that is
  compared starts with the header that names the type (`DuplicatedImpls`). `:14` `derive`
  runs every Rust check (`Findings`).

## 5. Theorems

For every value of the constants, under the named assumptions of each module (they
say that marks such as `Garbage` or `Unknown` are not values of the data they mark
the absence of, and that bounds are naturals). TLC evaluates the assumptions on every run.

* **AuditLogProofs.** The inductive invariant is `IInv == TypeOK /\ ChainInv`.
  `VerifiedSeqContiguous` and `HeadPinsHistory` are not inductive: they speak of the
  file, which overlapping writes rearrange arbitrarily. `ChainInv` does not care about the
  arrangement: it says that whatever is in the file was signed or mixed, that a signed entry
  continues another one, be it a mixed one, with the next number, and that the caches a handle signs
  from describe one entry, in the same handle, together. Each step keeps it, because a
  failed write forgets the entry and both caches move at once. A mixed entry adds
  no link that a signature vouches for, except where the cut changed nothing that is signed, and
  then it continues what the entry it copies continues (`MixtureJoins`). In a log that
  verifies, each entry of a known signer therefore has the number after its
  predecessor's, and where all are known a least counterexample shows that they are 0, 1, 2 ...;
  two logs with the same last entry agree backwards from it.
  Theorems `TypeCorrect`, `Chained`, `SeqContiguous`, `RegisteredCounts`, `HeadDeterminesHistory`.
  The other three assume `Alone`: handles are open one at a time, by which a handle stands
  for any number of processes that take turns; without it the handle's caches and the
  file part, which is what `ChainInv` is left to say of the general case. Where signatures matter they
  assume `HonestCallers` too: callers sign with the key that they name, if it is registered.
  Nothing is assumed of the failures. Their invariant `SoloInv` adds two parts.
  `SoundInv` holds in spite of crashes, until a write fails in a process that lives on, whose
  caches may then be older than the file: the lines up to the first piece of garbage verify,
  in the file and in every buffer, and a handle on a file that parses continues its last
  line. `open` refuses a file that does not parse, so what it accepts verifies
  (`OpenedVerifies`). `AckedInv` holds as long as no write stopped half way (`intact`): file, buffer and
  caches are those of the acknowledged entries, except between truncation and write
  (`LogIsAcked`). The step that puts the file back is then one step of `AppendOnlyLog`,
  the first one that stops half way is its `CutShort`, which loses some of the last entries or
  completes the new one, and all others change nothing there (`ImplementsAppendOnlyLog`).
* **VersionGraphProofs.** `NoDangling` is inductive with the types. For `Acyclic` and
  `LinearHistory` the hashes must be honest: then a version that is added either changes
  nothing or is new, and nothing points to it yet, so a set of versions without a
  source would have been one before. A linear step puts the old head under the new one.
  Theorems `TypeCorrect`, `NothingDangles`, `Acyclic`, `LinearHistory`.
* **PrePublishAuditProofs.** The types are inductive; that lists of sections stay within
  their bounds is a lemma about sequences. `BlocksExactly` rests on lemmas about the strict
  findings and on `validate_slug` accepting exactly words joined by single dashes;
  `MoreBlocks` on what appending to a section leaves in place. Theorems `BlocksExactly`,
  `MoreBlocks`.
* **PageStoreProofs.** `IdsUnique` is not inductive: a file may be empty now and be filled
  with an id that another file holds by then. The invariant is about what is held:
  by a file that reads as the page, or by a process that is about to write it
  (`Holds`). An id that is held was given out (`HeldUsed`) and is held under one slug
  (`HeldOnce`). Every step but `New` only lets go of pages, since whatever a write leaves,
  whole, cut short or mixed with another, has the id of the page written or of the one
  that was there (`OverlayOf`, `CutOverlayOf`); `New` brings an id nobody held.
  For `PublishedStays` (`PubInv`): a process about to write a page that is not published
  made it with `New`, so nobody else holds it (`DraftIsAlone`), and a file that was
  truncated to publish a page is empty or published when it is filled
  (`RewriteIsPublished`), also when it was deleted in between.
  Theorems `TypeCorrect`, `UniqueIds`, `PublishedForGood`.
  The other two assume `OwnSlugs`: no two processes work on one slug, which the code leaves
  to its callers and without which `pages_race` refutes them. What `check` found out then
  still holds at the truncation and at the write (`AloneInv`), with or without crashes. So a
  truncation changes nothing in `PageMap`, where a file being filled maps to the page that
  was there before, and the write or the crash that ends it is a step there: a page put,
  with fewer sections if it was cut, or damaged (`ImplementsPageMap`). Without crashes an
  unreadable file is one that its own page is about to fill (`KeepInv`), hence `SlugAlone`.
* **SiteReadersProofs.** What the reader sees of a page is held under that name at that
  moment (`SightOf`). A page found earlier may be gone, but it is held nowhere else and
  its id was given out, so it never comes back under another name (`FoundInv`). For
  `SteadyFilesAreRead` the invariant says of every file left alone how the operation has
  treated it so far (`Treated`). A listing that fails over a file that was left alone would
  have found it unreadable with nobody writing, which `KeepInv` excludes. Theorems
  `ReadersTypeCorrect`, `ReadIds`, `SteadyRead`, `ListingFails`.
* **NamesProofs.** The checks are compared character by character, without induction.
  For `NamesKeep` an accepted name holds no slash, so it is one part of a path (`OnePart`);
  it does not begin with a dot, so it is none of the parts that stay or climb (`NameOf`);
  and folding leaves it as it is (`LoweredSame`), so two names differ after folding
  as before. Theorems `OneRule`, `HashKeys`, `NamesKeep`.
* **CompositionProofs.** The invariant ties the baseline to the tree it was written from:
  the keys that `LoadBaseline` finds of rules checked line by line are those of the findings in
  `snapshot`, and what was reported is what some walk of the present tree finds and the
  baseline does not suppress. `LineRatchet` follows because such a key names the rule, the file and
  what is wrong with the line, neither its number nor the walk; that lines may agree in 120
  characters is in the statement (`Flagged`). `ClosedGate` needs that a group of
  occurrences has a first one whatever the walk (`FirstMet`) and that the size of a group does
  not depend on it, so another walk reports another place but the same rule.
  Theorems `TypeCorrect`, `Ratchet`, `ClosedGate`.

Only model-checked: liveness (`UnreadableHeals`), which the prover cannot do. The
properties of the four runs of section 3 that end in a violation are no theorems, of course;
`SlugAlone` says when the one of `pages_race` does hold.

## 6. Not modelled

* `check_ts`, and the regular expressions and normalisation of the script.
* The traits `AdminAuthBackend` and `CrdtState` with their messages: nothing
  in the repository implements them, and what their comments
  ask of an implementation (counters that grow, merges that converge) binds code that
  is elsewhere. A model of them would describe no code of this repository.
* Credential ids, the expiry comparison and the cookie header: one expression each.
* Encryption of drafts, and the errors that nothing returns (`DraftCipher`,
  `EditorIdentityMissing`).
* Texts, timestamps, themes, block fields, signatures as bytes: no property depends on
  them.
* Symbolic links and other programs' files in the store.

## 7. Plan

1. `SiteHistory`: the command together with the audit log, with an abstract specification
   of what `audit_log.rs:3-4` describes, and what an embedding program has to do
   (order of the entry and of the write) so that a crash leaves the two consistent.
2. `Composition`: `check_ts` and three files.
3. More to prove: how far `Alone` and `OwnSlugs` can be weakened. Handles that stay open but
   take turns, none keeping its caches over another's append, should do as well as one; so
   should processes that share a slug but not its file at the same time.

The list of runs stays short: variants of one system are chosen in `Init`, as `Uses`,
`Faults` and `Layouts` are, so that a new component costs one run at most.
