------------------------- MODULE SiteReadersProofs -------------------------
(* Theorems about SiteReaders, for any writers, pages and uses.             *)
EXTENDS SiteReaders, PageStoreProofs

\* The steps of the reader leave the store alone, those of the writers are the
\* steps of PageStore.
LEMMA StoreStep ==
  ASSUME [Read \/ Write]_<<vars, readerVars>>
  PROVE  [Next]_vars
BY DEF Read, Write

LEMMA StoreTypeOK == ReadersSpec => []TypeOK
<1>1. ReadersInit => TypeOK
  BY InitTypeOK DEF ReadersInit
<1>2. TypeOK /\ [Read \/ Write]_<<vars, readerVars>> => TypeOK'
  BY StoreStep, StepTypeOK
<1> QED BY <1>1, <1>2, PTL DEF ReadersSpec

LEMMA StoreIdInv == ReadersSpec => []IdInv
<1>1. ReadersInit => IdInv
  BY InitIdInv DEF ReadersInit
<1>2. IdInv /\ [Read \/ Write]_<<vars, readerVars>> => IdInv'
  BY StoreStep, StepIdInv
<1> QED BY <1>1, <1>2, PTL DEF ReadersSpec

----------------------------------------------------------------------------
(* Types                                                                    *)

\* A read finds what the file holds, or part of a write under way.
LEMMA SightOf ==
  ASSUME TypeOK, NEW n \in Name, NEW w \in Sight(n)
  PROVE  /\ w \in Content \cup Meta
         /\ Writers(n) = {} => w = At(n)
         /\ n \in Slug /\ Readable(w) => w.id \in PageId /\ Holds(w.id, n)
<1>1. At(n) \in Content \cup Meta
  BY DEF TypeOK, At, Name
<1>2. ASSUME n \in Slug, NEW c \in Writers(n), w \in CutOverlay(page[c], file[n])
      PROVE  w \in Content /\ (Readable(w) => w.id \in PageId /\ Holds(w.id, n))
  <2>1. c \in Client /\ InWrite(c) /\ slug[c] = n /\ page[c] \in Page
    BY <1>2, SiteTomlAssumption DEF Writers, TypeOK, InWrite
  <2>2. file[n] \in Content
    BY <1>2 DEF TypeOK
  <2>3. w \in Content /\ (Readable(w) => w.id = page[c].id \/ (Readable(file[n]) /\ w.id = file[n].id))
    BY <1>2, <2>1, <2>2, CutOverlayOf
  <2>4. Readable(w) => w.id \in PageId
    BY DEF Readable, Page
  <2> QED BY <2>1, <2>3, <2>4 DEF Holds, FileHolds, WriteHolds
<1>3. CASE w = At(n)
  <2>1. n \in Slug /\ Readable(w) => w.id \in PageId /\ Holds(w.id, n)
    BY <1>3, SiteTomlAssumption DEF At, Readable, Page, Holds, FileHolds
  <2> QED BY <1>1, <1>3, <2>1
<1>4. CASE w # At(n)
  <2>1. CASE n = SiteToml
    BY <1>4, <2>1, SiteTomlAssumption DEF Sight, Writers, Meta
  <2>2. CASE n \in Slug
    <3>1. PICK c \in Writers(n) : w \in CutOverlay(page[c], file[n])
      BY <1>4, <2>2, SiteTomlAssumption DEF Sight
    <3> QED BY <1>2, <2>2, <3>1
  <2> QED BY <2>1, <2>2 DEF Name
<1> QED BY <1>3, <1>4

LEMMA FinishType ==
  ASSUME NEW o \in Outcome, Finish(o)
  PROVE  ReadersTypeOK'
BY DEF Finish, ReadersTypeOK

LEMMA BeginType ==
  ASSUME NEW op \in Operation, NEW known \in SUBSET Name, NEW scanned \in SUBSET Slug,
         known \cap scanned = {}, Begin(op, known, scanned)
  PROVE  ReadersTypeOK'
BY DEF Begin, ReadersTypeOK

LEMMA AskType == Ask => ReadersTypeOK'
<1> SUFFICES ASSUME Ask PROVE ReadersTypeOK'
  OBVIOUS
<1>1. CASE ListSites
  BY <1>1, BeginType, SiteTomlAssumption DEF ListSites, Operation, Name
<1>2. CASE ListPages
  BY <1>2, BeginType, FinishType DEF ListPages, Operation, Outcome, Name
<1>3. ASSUME NEW s \in Slug, ReadPage(s)
      PROVE  ReadersTypeOK'
  BY <1>3, BeginType, FinishType DEF ReadPage, Operation, Outcome, Name
<1>4. CASE ExportSite
  BY <1>4, BeginType, FinishType, SiteTomlAssumption DEF ExportSite, Operation, Outcome, Name
<1>5. CASE ReadSite
  BY <1>5, BeginType, FinishType DEF ReadSite, Operation, Outcome, Name
<1> QED BY <1>1, <1>2, <1>3, <1>4, <1>5 DEF Ask

LEMMA ReadType ==
  ASSUME TypeOK, ReadersTypeOK, Read
  PROVE  ReadersTypeOK'
<1>1. ASSUME NEW n \in Name, Scan(n)
      PROVE  ReadersTypeOK'
  BY <1>1 DEF Scan, ReadersTypeOK, Name
<1>2. ASSUME NEW n \in Name, Take(n)
      PROVE  ReadersTypeOK'
  <2>1. ASSUME NEW w \in Sight(n), UNCHANGED <<reader, ahead, steady>>, entries' = entries \ {n},
               \/ UNCHANGED found
               \/ found' = [m \in DOMAIN found \cup {n} |-> IF m = n THEN w ELSE found[m]]
        PROVE  ReadersTypeOK'
    <3>1. n \in entries /\ n \notin ahead /\ n \in Name
      BY <1>2 DEF Take, ReadersTypeOK
    <3>2. w \in Content \cup Meta
      BY <2>1, SightOf
    <3> QED BY <2>1, <3>1, <3>2 DEF ReadersTypeOK
  <2> QED BY <1>2, <2>1, FinishType DEF Take, Outcome
<1>3. CASE Done
  BY <1>3, FinishType DEF Done, Outcome
<1> QED BY <1>1, <1>2, <1>3, AskType DEF Read

LEMMA ReadersStepTypeOK ==
  TypeOK /\ ReadersTypeOK /\ [Read \/ Write]_<<vars, readerVars>> => ReadersTypeOK'
<1>1. ASSUME TypeOK, ReadersTypeOK, Write PROVE ReadersTypeOK'
  BY <1>1 DEF Write, ReadersTypeOK
<1>2. ASSUME ReadersTypeOK, UNCHANGED readerVars PROVE ReadersTypeOK'
  BY <1>2 DEF readerVars, ReadersTypeOK
<1> QED BY <1>1, <1>2, ReadType DEF readerVars

\* A reader knows names of files only, and what it has read was there to read.
THEOREM ReadersTypeCorrect == ReadersSpec => []ReadersTypeOK
<1>1. ReadersInit => ReadersTypeOK
  BY DEF ReadersInit, ReadersTypeOK, Outcome
<1> QED BY <1>1, ReadersStepTypeOK, StoreTypeOK, PTL DEF ReadersSpec

----------------------------------------------------------------------------
(* The pages that are read.  A page found under a slug may be gone there by *)
(* now, but it is held nowhere else: its id was given out before, so        *)
(* new-page cannot have made another page with it since.                    *)

FoundPage(i, s) == s \in DOMAIN found /\ Readable(found[s]) /\ found[s].id = i
FoundInv ==
  "rename" \notin use.op =>
    \A i \in PageId, s \in Slug : FoundPage(i, s) =>
      /\ i \in used
      /\ \A t \in Slug : Holds(i, t) \/ FoundPage(i, t) => t = s

LEMMA EmptyFoundInv == found' = <<>> => FoundInv'
BY DEF FoundInv, FoundPage

LEMMA HoldsUnchanged ==
  ASSUME UNCHANGED vars, NEW i, NEW s
  PROVE  Holds(i, s)' <=> Holds(i, s)
BY DEF vars, fileVars, clientVars, history, Holds, FileHolds, WriteHolds, InWrite, Readable

LEMMA WriteFoundInv ==
  ASSUME TypeOK, FoundInv, Next, UNCHANGED found
  PROVE  FoundInv'
<1> SUFFICES ASSUME ("rename" \notin use.op)' PROVE FoundInv'
  BY DEF FoundInv
<1>1. "rename" \notin use.op
  BY DEF Next
<1>2. \A i, s : FoundPage(i, s)' <=> FoundPage(i, s)
  BY DEF FoundPage, Readable
<1> QED BY <1>1, <1>2, StepHolds DEF FoundInv

LEMMA TakeFoundInv ==
  ASSUME IdInv, FoundInv, UNCHANGED vars, NEW n \in Name, Take(n)
  PROVE  FoundInv'
<1>1. CASE found' = <<>>
  BY <1>1, EmptyFoundInv
<1>2. ASSUME NEW w \in Sight(n),
             \/ UNCHANGED found
             \/ found' = [m \in DOMAIN found \cup {n} |-> IF m = n THEN w ELSE found[m]]
      PROVE  FoundInv'
  <2> SUFFICES ASSUME "rename" \notin use.op, NEW i \in PageId, NEW s \in Slug, FoundPage(i, s)'
               PROVE  /\ i \in used
                      /\ \A t \in Slug : Holds(i, t) \/ FoundPage(i, t)' => t = s
    BY HoldsUnchanged DEF FoundInv, vars, history
  <2>1. HeldUsed /\ HeldOnce /\ TypeOK
    BY DEF IdInv
  <2>2. \A t \in Slug : FoundPage(i, t)' => FoundPage(i, t) \/ (t = n /\ Holds(i, t))
    BY <1>2, <2>1, SightOf DEF FoundPage, Readable
  <2> QED BY <2>1, <2>2 DEF FoundInv, HeldUsed, HeldOnce
<1> QED BY <1>1, <1>2 DEF Take, Finish

LEMMA StepFoundInv ==
  IdInv /\ FoundInv /\ [Read \/ Write]_<<vars, readerVars>> => FoundInv'
<1> SUFFICES ASSUME IdInv, FoundInv, [Read \/ Write]_<<vars, readerVars>> PROVE FoundInv'
  OBVIOUS
<1>1. CASE Write
  BY <1>1, WriteFoundInv DEF Write, IdInv
<1>2. ASSUME UNCHANGED vars, UNCHANGED found PROVE FoundInv'
  BY <1>2, HoldsUnchanged DEF FoundInv, FoundPage, Readable, vars, history
<1>3. ASSUME UNCHANGED vars, Ask \/ Done PROVE FoundInv'
  BY <1>3, EmptyFoundInv
     DEF Ask, Done, Finish, Begin, ListSites, ListPages, ReadPage, ExportSite, ReadSite
<1>4. ASSUME UNCHANGED vars, NEW n \in Name, Scan(n) PROVE FoundInv'
  BY <1>2, <1>4 DEF Scan
<1>5. CASE UNCHANGED <<vars, readerVars>>
  BY <1>2, <1>5 DEF readerVars
<1> QED BY <1>1, <1>3, <1>4, <1>5, TakeFoundInv DEF Read

\* A listing or an export, whose files are read at different moments and in the
\* middle of writes, never holds two pages with one id.
THEOREM ReadIds == ReadersSpec => []ReadIdsUnique
<1>1. ReadersInit => FoundInv
  BY DEF ReadersInit, FoundInv, FoundPage
<1>2. FoundInv => ReadIdsUnique
  <2> SUFFICES ASSUME FoundInv, "rename" \notin use.op,
                      NEW s \in DOMAIN found \cap Slug, NEW t \in DOMAIN found \cap Slug,
                      Readable(found[s]), Readable(found[t]), found[s].id = found[t].id
               PROVE  s = t
    BY DEF ReadIdsUnique
  <2>1. found[s].id \in PageId
    BY DEF Readable, Page
  <2> QED BY <2>1 DEF FoundInv, FoundPage
<1> QED BY <1>1, <1>2, StepFoundInv, StoreIdInv, PTL DEF ReadersSpec

----------------------------------------------------------------------------
(* The files that are left alone.                                           *)

Passed(n) == n \notin DOMAIN found \cup entries \cup ahead

\* What the operation has made so far of a file left alone.
Treated(n) ==
  /\ Writers(n) = {}
  /\ n \in DOMAIN found => found[n] = At(n)
  /\ n \in entries => At(n) # Absent
  /\ n \in Scope(reader) /\ Passed(n) => At(n) = Absent \/ (reader = "list_sites" /\ At(n) # Site)

SteadyInv ==
  ~Idle => /\ entries \cup ahead \subseteq Scope(reader)
           /\ \A n \in steady : Treated(n)

LEMMA StoreUnchanged ==
  ASSUME UNCHANGED vars, NEW n
  PROVE  At(n)' = At(n) /\ Writers(n)' = Writers(n)
BY DEF vars, fileVars, clientVars, history, At, Writers

LEMMA EndSteadyInv == ASSUME NEW o \in Outcome, Finish(o) PROVE SteadyInv'
BY DEF Finish, SteadyInv, Idle

LEMMA BeginSteadyInv ==
  ASSUME UNCHANGED vars, NEW op \in Operation, NEW known \in SUBSET Name,
         NEW scanned \in SUBSET Slug, Begin(op, known, scanned),
         \A n \in known : At(n) # Absent,
         known \cup scanned \subseteq Scope(op)',
         \A n \in Scope(op)' : n \in known \cup scanned \/ At(n) = Absent
  PROVE  SteadyInv'
<1>1. \A n : At(n)' = At(n) /\ Writers(n)' = Writers(n)
  BY StoreUnchanged
<1>2. \A n \in steady' : Treated(n)'
  BY <1>1 DEF Begin, Treated, Passed
<1> QED BY <1>2 DEF Begin, SteadyInv

LEMMA AskSteadyInv ==
  ASSUME UNCHANGED vars, Ask
  PROVE  SteadyInv'
<1>1. CASE ListSites
  BY <1>1, BeginSteadyInv, SiteTomlAssumption
     DEF ListSites, Operation, Name, Scope, At
<1>2. CASE ListPages
  BY <1>2, BeginSteadyInv, EndSteadyInv DEF ListPages, Operation, Outcome, Name, Scope
<1>3. ASSUME NEW s \in Slug, ReadPage(s) PROVE SteadyInv'
  BY <1>3, BeginSteadyInv, EndSteadyInv, SiteTomlAssumption
     DEF ReadPage, Operation, Outcome, Name, Scope, At, Begin
<1>4. CASE ExportSite
  BY <1>4, BeginSteadyInv, EndSteadyInv, SiteTomlAssumption
     DEF ExportSite, Operation, Outcome, Name, Scope, At
<1>5. CASE ReadSite
  BY <1>5, BeginSteadyInv, EndSteadyInv, SiteTomlAssumption
     DEF ReadSite, Operation, Outcome, Name, Scope, At
<1> QED BY <1>1, <1>2, <1>3, <1>4, <1>5 DEF Ask

LEMMA ScanSteadyInv ==
  ASSUME UNCHANGED vars, SteadyInv, ReadersTypeOK, NEW n \in Name, Scan(n)
  PROVE  SteadyInv'
<1>1. \A m : At(m)' = At(m) /\ Writers(m)' = Writers(m)
  BY StoreUnchanged
<1>2. n \in Slug /\ At(n) = file[n]
  BY SiteTomlAssumption DEF Scan, ReadersTypeOK, At
<1>3. UNCHANGED <<reader, found, steady>> /\ (Idle' <=> Idle)
  BY DEF Scan, Idle
<1>4. \/ file[n] # Absent /\ entries' = entries \cup {n} /\ ahead' = ahead \ {n}
      \/ file[n] = Absent /\ entries' = entries /\ ahead' = ahead \ {n}
  BY DEF Scan
<1>5. CASE Idle
  BY <1>3, <1>5 DEF SteadyInv
<1>6. CASE ~Idle
  <2>1. n \in ahead /\ n \notin entries /\ n \notin DOMAIN found /\ n \in Scope(reader)
    BY <1>6 DEF Scan, ReadersTypeOK, SteadyInv
  <2>2. Scope(reader)' = Scope(reader)
    BY <1>3, <2>1 DEF Scope
  <2>3. entries' \cup ahead' \subseteq Scope(reader)
    BY <1>4, <1>6, <2>1 DEF SteadyInv
  <2>4. ASSUME NEW m \in steady PROVE Treated(m)'
    <3>1. Treated(m)
      BY <1>6 DEF SteadyInv
    <3>2. CASE m # n
      <4>1. Passed(m)' <=> Passed(m)
        BY <1>3, <1>4, <3>2 DEF Passed
      <4>2. m \in entries' <=> m \in entries
        BY <1>4, <3>2
      <4> QED BY <1>1, <1>3, <2>2, <3>1, <4>1, <4>2 DEF Treated
    <3>3. CASE m = n
      BY <1>1, <1>2, <1>3, <1>4, <2>1, <3>1, <3>3 DEF Treated, Passed
    <3> QED BY <3>2, <3>3
  <2> QED BY <1>3, <2>2, <2>3, <2>4 DEF SteadyInv
<1> QED BY <1>5, <1>6

\* The content of a file left alone is the file's.
LEMMA TakeSteadyInv ==
  ASSUME UNCHANGED vars, TypeOK, SteadyInv, ReadersTypeOK, NEW n \in Name, Take(n)
  PROVE  SteadyInv'
<1>1. \A m : At(m)' = At(m) /\ Writers(m)' = Writers(m)
  BY StoreUnchanged
<1>2. CASE \E o \in Outcome : Finish(o)
  BY <1>2, EndSteadyInv
<1>3. ASSUME NEW w \in Sight(n), ~Fails(reader, w), UNCHANGED <<reader, ahead, steady>>,
             entries' = entries \ {n},
             found' = IF Keeps(reader, w)
                      THEN [m \in DOMAIN found \cup {n} |-> IF m = n THEN w ELSE found[m]]
                      ELSE found
      PROVE  SteadyInv'
  <2> SUFFICES ASSUME ~Idle PROVE SteadyInv'
    BY <1>3 DEF SteadyInv, Idle
  <2>1. n \in entries /\ n \notin ahead /\ n \notin DOMAIN found
    BY DEF Take, ReadersTypeOK
  <2>2. reader = "list_sites" \/ Keeps(reader, w)
    BY <1>3 DEF Fails
  <2>3. Scope(reader)' = Scope(reader)
    <3>1. CASE reader = "list_sites"
      BY <1>3, <3>1 DEF Scope
    <3>2. CASE Keeps(reader, w)
      <4>1. DOMAIN found' \cup entries' = DOMAIN found \cup entries
        BY <1>3, <2>1, <3>2
      <4> QED BY <1>3, <4>1 DEF Scope
    <3> QED BY <2>2, <3>1, <3>2
  <2>4. entries' \cup ahead' \subseteq Scope(reader)
    BY <1>3 DEF SteadyInv
  <2>5. ASSUME NEW m \in steady PROVE Treated(m)'
    <3>1. Treated(m)
      BY DEF SteadyInv
    <3>2. CASE m # n
      <4>1. m \in DOMAIN found' <=> m \in DOMAIN found
        BY <1>3, <3>2
      <4>2. m \in DOMAIN found => found'[m] = found[m]
        BY <1>3, <3>2
      <4>3. Passed(m)' <=> Passed(m)
        BY <1>3, <3>2, <4>1 DEF Passed
      <4>4. m \in entries' <=> m \in entries
        BY <1>3, <3>2
      <4> QED BY <1>1, <1>3, <2>3, <3>1, <4>1, <4>2, <4>3, <4>4 DEF Treated
    <3>3. CASE m = n
      <4>1. w = At(n) /\ n \notin entries'
        BY <1>3, <3>1, <3>3, SightOf DEF Treated
      <4>2. CASE Keeps(reader, w)
        <5>1. n \in DOMAIN found' /\ found'[n] = w
          BY <1>3, <4>2
        <5> QED BY <1>1, <3>1, <3>3, <4>1, <5>1 DEF Treated, Passed
      <4>3. CASE ~Keeps(reader, w) /\ reader = "list_sites"
        <5>1. w # Site
          BY <4>3 DEF Keeps, Parses
        <5> QED BY <1>1, <1>3, <2>1, <3>1, <3>3, <4>1, <4>3, <5>1 DEF Treated, Passed
      <4> QED BY <2>2, <4>2, <4>3
    <3> QED BY <3>2, <3>3
  <2> QED BY <1>3, <2>3, <2>4, <2>5 DEF SteadyInv
<1> QED BY <1>2, <1>3 DEF Take, Outcome

LEMMA StepSteadyInv ==
  TypeOK /\ ReadersTypeOK /\ SteadyInv /\ [Read \/ Write]_<<vars, readerVars>> => SteadyInv'
<1> SUFFICES ASSUME TypeOK, ReadersTypeOK, SteadyInv, [Read \/ Write]_<<vars, readerVars>>
             PROVE  SteadyInv'
  OBVIOUS
<1>1. CASE Write
  <2>1. UNCHANGED <<reader, ahead, entries, found>>
    BY <1>1 DEF Write
  <2>2. \A n \in steady' : n \in steady /\ At(n)' = At(n) /\ Writers(n)' = {}
    BY <1>1 DEF Write
  <2>3. Scope(reader)' = Scope(reader) /\ \A n : Passed(n)' <=> Passed(n)
    BY <2>1 DEF Scope, Passed
  <2>4. ASSUME ~Idle, NEW n \in steady' PROVE Treated(n)'
    BY <2>1, <2>2, <2>3, <2>4 DEF Treated, SteadyInv
  <2> QED BY <2>1, <2>3, <2>4 DEF SteadyInv, Idle
<1>2. CASE UNCHANGED <<vars, readerVars>>
  <2>1. \A n : At(n)' = At(n) /\ Writers(n)' = Writers(n)
    BY <1>2, StoreUnchanged
  <2>2. Scope(reader)' = Scope(reader) /\ \A n : Passed(n)' <=> Passed(n)
    BY <1>2 DEF Scope, Passed, readerVars
  <2> QED BY <1>2, <2>1, <2>2 DEF SteadyInv, Treated, Idle, readerVars
<1>3. CASE Done /\ UNCHANGED vars
  BY <1>3, EndSteadyInv DEF Done, Outcome
<1> QED BY <1>1, <1>2, <1>3, AskSteadyInv, ScanSteadyInv, TakeSteadyInv DEF Read

\* How an operation may end, given what it has made of the files left alone.
LEMMA StepEndsSteadily ==
  TypeOK /\ ReadersTypeOK /\ SteadyInv /\ [Read \/ Write]_<<vars, readerVars>>
    => [EndsSteadily]_readerVars
<1> SUFFICES ASSUME TypeOK, ReadersTypeOK, SteadyInv, Read \/ Write, ~Idle, reader' \in Outcome
             PROVE  EndsSteadily
  BY DEF EndsSteadily, Outcome, readerVars
<1>1. ~Write /\ ~Ask /\ \A n \in Name : ~Scan(n)
  BY DEF Write, Ask, Scan, Idle
<1>2. CASE Done
  <2>1. ASSUME NEW n \in steady \cap Scope(reader)
        PROVE  IF n \in DOMAIN found THEN found[n] = At(n)
               ELSE At(n) = Absent \/ (reader = "list_sites" /\ At(n) # Site)
    BY <1>2 DEF Done, SteadyInv, Treated, Passed
  <2>2. reader' = "ok"
    BY <1>2 DEF Done, Finish
  <2> QED BY <2>1, <2>2 DEF EndsSteadily
<1>3. ASSUME NEW n \in Name, Take(n)
      PROVE  EndsSteadily
  <2>1. PICK w \in Sight(n) : Fails(reader, w) /\ Finish(IF w = Absent THEN "io" ELSE "toml")
    BY <1>3 DEF Take, Idle
  <2>2. reader' # "ok" /\ n \in Scope(reader)
    BY <1>3, <2>1 DEF Finish, Take, SteadyInv
  <2>3. ASSUME n \in steady
        PROVE  reader # "export_site" /\ At(n) \in {Empty, Torn}
    <3>1. w = At(n) /\ w # Absent
      BY <1>3, <2>1, <2>3, SightOf DEF SteadyInv, Treated, Take
    <3>2. w \in Content \cup Meta
      BY <2>1, SightOf
    <3>3. reader # "export_site" /\ ~Parses(w)
      BY <2>1, <3>1 DEF Fails, Keeps
    <3> QED BY <3>1, <3>2, <3>3 DEF Parses, Content, Meta
  <2> QED BY <2>2, <2>3 DEF EndsSteadily
<1> QED BY <1>1, <1>2, <1>3 DEF Read

\* A read of several files that returns Ok shows every file that was left alone
\* exactly as it is, and one that fails does so over a file that cannot be read
\* or was not left alone.
THEOREM SteadyRead == ReadersSpec => SteadyFilesAreRead
<1>1. ReadersInit => SteadyInv
  BY DEF ReadersInit, SteadyInv, Idle, Outcome
<1>2. ReadersSpec => []SteadyInv
  BY <1>1, StepSteadyInv, StoreTypeOK, ReadersTypeCorrect, PTL DEF ReadersSpec
<1> QED BY <1>2, StepEndsSteadily, StoreTypeOK, ReadersTypeCorrect, PTL
        DEF ReadersSpec, SteadyFilesAreRead

----------------------------------------------------------------------------
(* What a listing fails over.                                               *)

LEMMA StoreKeep == ReadersSpec => [](AloneInv /\ KeepInv)
<1>1. ReadersInit => AloneInv /\ KeepInv
  BY InitAloneInv, InitKeepInv DEF ReadersInit
<1>2. AloneInv /\ KeepInv /\ [Read \/ Write]_<<vars, readerVars>> => (AloneInv /\ KeepInv)'
  BY StoreStep, StepAloneInv, StepKeepInv
<1> QED BY <1>1, <1>2, PTL DEF ReadersSpec

\* A page file that cannot be read is one that is being written.
LEMMA UnreadableIsWritten ==
  ASSUME AloneInv, KeepInv, Apart, NEW n \in Slug, At(n) \in {Empty, Torn}
  PROVE  Writers(n) # {}
<1>1. Disjoint(use) /\ ~use.fault /\ At(n) = file[n]
  BY SiteTomlAssumption DEF Apart, Disjoint, At
<1>2. PICK c \in Client : pc[c] = "fill" /\ slug[c] = n
  BY <1>1 DEF KeepInv, Kept
<1>3. linked[c]
  BY <1>1, <1>2 DEF AloneInv, AloneOf
<1> QED BY <1>2, <1>3, SiteTomlAssumption DEF Writers

LEMMA StepFailsBesideWrites ==
  SteadyInv /\ AloneInv /\ KeepInv /\ [EndsSteadily]_readerVars
    => [Apart /\ reader = "list_pages" /\ reader' \in {"io", "toml"} => ~(Slug \subseteq steady)]_readerVars
<1> SUFFICES ASSUME SteadyInv, AloneInv, KeepInv, EndsSteadily, Apart, reader = "list_pages",
                    reader' \in {"io", "toml"}, Slug \subseteq steady
             PROVE  FALSE
  OBVIOUS
<1>1. ~Idle /\ reader' \in Outcome \ {"ok"} /\ Scope(reader) = Slug
  BY DEF Idle, Outcome, Scope
<1>2. PICK n \in Slug : n \notin steady \/ At(n) \in {Empty, Torn}
  BY <1>1 DEF EndsSteadily
<1>3. Writers(n) = {}
  BY <1>1, <1>2 DEF SteadyInv, Treated
<1> QED BY <1>2, <1>3, UnreadableIsWritten

\* Where processes that do not die keep to pages of their own, list_pages fails
\* only if a page is written or deleted while it runs.
THEOREM ListingFails == ReadersSpec => ListingFailsBesideWrites
<1>1. ReadersInit => SteadyInv
  BY DEF ReadersInit, SteadyInv, Idle, Outcome
<1>2. ReadersSpec => []SteadyInv
  BY <1>1, StepSteadyInv, StoreTypeOK, ReadersTypeCorrect, PTL DEF ReadersSpec
<1> QED BY <1>2, SteadyRead, StoreKeep, StepFailsBesideWrites, PTL
        DEF SteadyFilesAreRead, ListingFailsBesideWrites

=============================================================================
