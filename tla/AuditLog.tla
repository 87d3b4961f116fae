------------------------------ MODULE AuditLog ------------------------------
(***************************************************************************)
(* cms-core/src/audit_log.rs: the signed audit log of one site.            *)
(*                                                                         *)
(* A Handle is one `AuditLog` value: it caches the hash and sequence       *)
(* number its next entry continues from, and rewrites the whole file on    *)
(* every append (read everything, add a line, truncate, write everything). *)
(* Each system call is a step, so several handles interleave between them, *)
(* and a process may die, or a call may fail, at each of them.             *)
(*                                                                         *)
(* The file is a sequence of lines and a flag that tells whether its last  *)
(* line ends in a newline.  A line that does not parse as one entry (half  *)
(* of one, or two run together) is Garbage.  A write that stops half way   *)
(* over another handle's lines may also leave the head of one line and the *)
(* tail of another that parse together: an entry that nobody signed.       *)
(* SHA-256 is ideal: each entry, signed or mixed, has a hash of its own.   *)
(* Blank lines, which open and verify skip, never arise on their own and   *)
(* are left out.                                                           *)
(***************************************************************************)
EXTENDS Naturals, SequencesExt

CONSTANTS
  Handle,      \* the AuditLog values that processes hold on this site's log
  Digest,      \* the hashes entries can have; bounds the number of entries
  Genesis,     \* the literal "genesis", the prev_hash of entry 0
  Key,         \* signing keys; a fingerprint names the key it belongs to
  Registered,  \* the keys the verify_with callback knows
  Signing,     \* <<fingerprint, key>> pairs that callers of append pass
  Garbage,     \* a line that is not the JSON of one entry
  NoEntry,     \* no append in flight
  Torn,        \* a fingerprint, hash or signature run together out of two
  TornSeq,     \* what the digits of two sequence numbers run together read as
  Faults       \* sets of failures: each is one machine the log may be kept on

ASSUME GenesisAssumption == Genesis \notin Digest
ASSUME KeyAssumption == Registered \subseteq Key /\ Signing \subseteq Key \X Key
ASSUME FaultAssumption == Faults \subseteq SUBSET {"crash", "open_fails", "write_fails"}

ASSUME TornAssumption == Torn \notin Key \cup Digest \cup {Genesis} /\ TornSeq \subseteq Nat

(* `hash` stands for hash_entry(entry); `fp` is editor.key_fingerprint and  *)
(* `signer` the key under which signature_hex verifies, Torn if none.       *)
Entry == [hash : Digest, seq : Nat, prev : Digest \cup {Genesis, Torn},
          fp : Key \cup {Torn}, signer : Key \cup {Torn}]

ASSUME GarbageAssumption == Garbage \notin Entry
ASSUME NoEntryAssumption == NoEntry \notin Entry

\* contents whose parsable lines are among E
ContentOf(E) == [lines : Seq(E \cup {Garbage}), nl : BOOLEAN]
Cache == [hash : Digest \cup {Genesis}, seq : Nat]

VARIABLES
  fault,    \* the failures that may happen; never changes
  exists,   \* the file exists
  file,     \* its content
  pc,       \* per handle: where its current operation stands
  tail,     \* per handle: last_entry_hash and next_seq
  buf,      \* per handle: the bytes `existing` that append is about to write
  pend,     \* per handle: the entry being appended
  minted,   \* history: every entry append has signed or a cut write has mixed
  acked,    \* history: the entries append returned Ok for, in that order
  intact    \* history: no write has stopped half way

vars == <<fault, exists, file, pc, tail, buf, pend, minted, acked, intact>>

----------------------------------------------------------------------------
(* What the code computes from the file.                                    *)

EmptyFile == [lines |-> <<>>, nl |-> TRUE]
GenesisTail == [hash |-> Genesis, seq |-> 0]

\* mutated: looks at the last line only
MutParses(lines) == \A i \in {Len(lines)} \cap DOMAIN lines : lines[i] # Garbage
Parses(lines) == \A i \in DOMAIN lines : lines[i] # Garbage

\* mutated: the number of the entry itself, or of the one before it
MutTailAfterSame(e) == [hash |-> e.hash, seq |-> e.seq]
MutTailAfterLess(e) == [hash |-> e.hash, seq |-> e.seq - 1]
TailAfter(e) == [hash |-> e.hash, seq |-> e.seq + 1]

\* the loop of open keeps what the last line says
TailOf(lines) ==
  IF lines = <<>> THEN GenesisTail ELSE TailAfter(lines[Len(lines)])

\* mutated: the new line only
MutAddLineOnly(c, line) == [lines |-> <<line>>, nl |-> TRUE]

\* existing + line + '\n': an unterminated last line and the new one become
\* a single line, which no longer parses
AddLine(c, line) ==
  IF c.nl \/ c.lines = <<>>
  THEN [lines |-> Append(c.lines, line), nl |-> TRUE]
  ELSE [lines |-> [c.lines EXCEPT ![Len(c.lines)] = Garbage], nl |-> TRUE]

SignatureOK(e) == e.fp \in Registered => e.signer = e.fp

PrevOf(lines, i) == IF i = 1 THEN Genesis ELSE lines[i - 1].hash

\* mutated: the link to the entry before is not compared
MutVerifies(lines) ==
  \A i \in DOMAIN lines : lines[i] # Garbage /\ SignatureOK(lines[i])

\* verify returns Ok: it never looks at entry.seq
Verifies(lines) ==
  \A i \in DOMAIN lines :
    /\ lines[i] # Garbage
    /\ lines[i].prev = PrevOf(lines, i)
    /\ SignatureOK(lines[i])

(* What a write leaves in the file.  Cuts(w) is what a write of w that  *)
(* stops half way has put out: whole lines, a last line without its newline *)
(* or a piece of a line.                                                    *)
Cuts(w) ==
  {[lines |-> SubSeq(w.lines, 1, n), nl |-> TRUE] : n \in 0..Len(w.lines)}
  \cup {[lines |-> SubSeq(w.lines, 1, n), nl |-> FALSE] : n \in 1..Len(w.lines)}
  \cup {[lines |-> Append(SubSeq(w.lines, 1, n - 1), Garbage), nl |-> FALSE] :
           n \in 1..Len(w.lines)}

\* the lines of s from the first on that t does not share
Differing(s, t) == {j \in 1..Len(s) : ~IsPrefix(SubSeq(s, 1, j), t)}

(* The file after p, a prefix of the bytes of w, is written at offset 0     *)
(* over c, which is empty unless another handle wrote since the truncation. *)
(* Where the two agree c stays; otherwise what c has beyond p sticks out,   *)
(* from the start of one of its lines or from the middle of one.            *)
Overlay(p, w, c) ==
  LET n == Len(p.lines)
      own == Differing(c.lines, w.lines)
      rest(j) == SubSeq(c.lines, j + 1, Len(c.lines))
  IN IF n <= Len(c.lines) /\ SubSeq(c.lines, 1, n) = SubSeq(w.lines, 1, n)
     THEN {c}
     ELSE {p}
          \cup {[lines |-> p.lines \o rest(j), nl |-> c.nl] : j \in own \ {Len(c.lines)}}
          \cup {[lines |-> AddLine(p, Garbage).lines \o rest(j), nl |-> c.nl] : j \in own}

(* The head of line x and the tail of line y, cut inside the same field:    *)
(* seq, what lies between it and the fingerprint, fingerprint, prev_hash,   *)
(* or what follows it.  What is before the cut is x's, what is after it     *)
(* y's; no signature fits, except where nothing that is signed changed (the *)
(* display name is not).                                                    *)
Mixtures(x, y, d) ==
  LET Mixed(seq, fp, prev) ==
        [hash |-> d, seq |-> seq, prev |-> prev, fp |-> fp, signer |-> Torn]
  IN {Mixed(s, y.fp, y.prev) : s \in TornSeq}
     \cup {Mixed(x.seq, f, y.prev) : f \in {x.fp, y.fp, Torn}}
     \cup {Mixed(x.seq, x.fp, p) : p \in {x.prev, Torn}}
     \cup {e \in {[y EXCEPT !.hash = d]} :
              x.seq = y.seq /\ x.fp = y.fp /\ x.prev = y.prev}

----------------------------------------------------------------------------
Init ==
  /\ fault \in Faults
  /\ exists = FALSE
  /\ file = EmptyFile
  /\ pc = [h \in Handle |-> "closed"]
  /\ tail = [h \in Handle |-> GenesisTail]
  /\ buf = [h \in Handle |-> EmptyFile]
  /\ pend = [h \in Handle |-> NoEntry]
  /\ minted = {}
  /\ acked = <<>>
  /\ intact = TRUE

Forget(h) ==
  /\ buf' = [buf EXCEPT ![h] = EmptyFile]
  /\ pend' = [pend EXCEPT ![h] = NoEntry]

\* open on an existing file: every line has to parse; the chain is not checked
OpenExisting(h) ==
  /\ pc[h] = "closed" /\ exists
  /\ Parses(file.lines)
  /\ tail' = [tail EXCEPT ![h] = TailOf(file.lines)]
  /\ pc' = [pc EXCEPT ![h] = "ready"]
  /\ UNCHANGED <<exists, file, buf, pend, minted, acked, intact>>

\* open found no file ...
OpenMissing(h) ==
  /\ pc[h] = "closed" /\ ~exists
  /\ pc' = [pc EXCEPT ![h] = "creating"]
  /\ UNCHANGED <<exists, file, tail, buf, pend, minted, acked, intact>>

\* ... and now writes an empty one, whatever another handle did meanwhile
CreateFile(h) ==
  /\ pc[h] = "creating"
  /\ exists' = TRUE
  /\ file' = EmptyFile
  /\ tail' = [tail EXCEPT ![h] = GenesisTail]
  /\ pc' = [pc EXCEPT ![h] = "ready"]
  /\ UNCHANGED <<buf, pend, minted, acked, intact>>

NewEntry(t, d, s) ==
  [hash |-> d, seq |-> t.seq, prev |-> t.hash, fp |-> s[1], signer |-> s[2]]

\* append up to its read: the entry continues the cached tail, the bytes
\* to write continue the file as it is now
BeginAppend(h, d, s) ==
  LET e == NewEntry(tail[h], d, s)
  IN /\ pc[h] = "ready"
     /\ \A m \in minted : m.hash # d
     /\ minted' = minted \cup {e}
     /\ pend' = [pend EXCEPT ![h] = e]
     /\ buf' = [buf EXCEPT ![h] = AddLine(file, e)]
     /\ pc' = [pc EXCEPT ![h] = "read"]
     /\ UNCHANGED <<exists, file, tail, acked, intact>>

\* fs::write opens the file with O_TRUNC ...
Truncate(h) ==
  /\ pc[h] = "read"
  /\ file' = EmptyFile
  /\ pc' = [pc EXCEPT ![h] = "truncated"]
  /\ UNCHANGED <<exists, tail, buf, pend, minted, acked, intact>>

\* mutated: next_seq moves on, last_entry_hash does not
MutWriteAll(h) ==
  /\ pc[h] = "truncated"
  /\ file' \in Overlay(buf[h], buf[h], file)
  /\ tail' = [tail EXCEPT ![h].seq = @ + 1]
  /\ acked' = Append(acked, pend[h])
  /\ pc' = [pc EXCEPT ![h] = "ready"]
  /\ Forget(h)
  /\ UNCHANGED <<exists, minted, intact>>

\* ... and writes the bytes; then the caches move on and append returns Ok
WriteAll(h) ==
  /\ pc[h] = "truncated"
  /\ file' \in Overlay(buf[h], buf[h], file)
  /\ tail' = [tail EXCEPT ![h] = [hash |-> pend[h].hash, seq |-> @.seq + 1]]
  /\ acked' = Append(acked, pend[h])
  /\ pc' = [pc EXCEPT ![h] = "ready"]
  /\ Forget(h)
  /\ UNCHANGED <<exists, minted, intact>>

\* the entries that a line may hold a piece of
Pieces(line) == IF line = Garbage THEN minted ELSE {line}

\* the write of w was cut inside its line n, where the file has its own line j;
\* what they make together was seen before or has a hash of its own
MixLines(w, c, n, j) ==
  \E x \in Pieces(w.lines[n]), y \in Pieces(c.lines[j]), d \in Digest :
  \E e \in Mixtures(x, y, d) :
    /\ e \in minted \/ \A m \in minted : m.hash # d
    /\ file' = [lines |-> Append(SubSeq(w.lines, 1, n - 1), e) \o SubSeq(c.lines, j + 1, Len(c.lines)),
                nl |-> c.nl]
    /\ minted' = minted \cup {e}

PartialWrite(h) ==
  /\ \/ /\ \E p \in Cuts(buf[h]) : file' \in Overlay(p, buf[h], file)
        /\ UNCHANGED minted
     \/ \E n \in Differing(buf[h].lines, file.lines), j \in Differing(file.lines, buf[h].lines) :
          MixLines(buf[h], file, n, j)
  /\ intact' = FALSE

\* mutated: next_seq has moved on before the write is attempted
MutOpenFails(h) ==
  /\ "open_fails" \in fault
  /\ pc[h] = "read"
  /\ pc' = [pc EXCEPT ![h] = "ready"]
  /\ tail' = [tail EXCEPT ![h].seq = @ + 1]
  /\ Forget(h)
  /\ UNCHANGED <<exists, file, minted, acked, intact>>

\* creating the file fails: open returns Err.  The read, or opening the file
\* for writing, fails: append returns Err and the handle is as before
OpenFails(h) ==
  /\ "open_fails" \in fault
  /\ \/ pc[h] = "creating" /\ pc' = [pc EXCEPT ![h] = "closed"]
     \/ pc[h] = "read" /\ pc' = [pc EXCEPT ![h] = "ready"]
  /\ Forget(h)
  /\ UNCHANGED <<exists, file, tail, minted, acked, intact>>

\* the write fails half way: append returns Err, the handle and its caches
\* stay as they were
WriteFails(h) ==
  /\ "write_fails" \in fault
  /\ pc[h] = "truncated"
  /\ PartialWrite(h)
  /\ pc' = [pc EXCEPT ![h] = "ready"]
  /\ Forget(h)
  /\ UNCHANGED <<exists, tail, acked>>

\* the process drops the handle between operations
Close(h) ==
  /\ pc[h] = "ready"
  /\ pc' = [pc EXCEPT ![h] = "closed"]
  /\ tail' = [tail EXCEPT ![h] = GenesisTail]
  /\ UNCHANGED <<exists, file, buf, pend, minted, acked, intact>>

\* the process dies inside an operation; what it had written so far stays
Crash(h) ==
  /\ "crash" \in fault
  /\ pc[h] \in {"creating", "read", "truncated"}
  /\ IF pc[h] = "truncated" THEN PartialWrite(h) ELSE UNCHANGED <<file, minted, intact>>
  /\ pc' = [pc EXCEPT ![h] = "closed"]
  /\ tail' = [tail EXCEPT ![h] = GenesisTail]
  /\ Forget(h)
  /\ UNCHANGED <<exists, acked>>

Step(h) ==
  \/ OpenExisting(h) \/ OpenMissing(h) \/ CreateFile(h)
  \/ \E d \in Digest, s \in Signing : BeginAppend(h, d, s)
  \/ Truncate(h) \/ WriteAll(h)
  \/ OpenFails(h) \/ WriteFails(h)
  \/ Close(h) \/ Crash(h)

Next == (\E h \in Handle : Step(h)) /\ UNCHANGED fault

Spec == Init /\ [][Next]_vars

----------------------------------------------------------------------------
(* Properties                                                               *)

Busy(h) == pc[h] \in {"read", "truncated"}

\* Every variable has its type; a buffer to write always ends in a newline.
TypeOK ==
  /\ fault \in Faults
  /\ exists \in BOOLEAN
  /\ file \in ContentOf(Entry)
  /\ pc \in [Handle -> {"closed", "creating", "ready", "read", "truncated"}]
  /\ tail \in [Handle -> Cache]
  /\ buf \in [Handle -> ContentOf(Entry)]
  /\ pend \in [Handle -> Entry \cup {NoEntry}]
  /\ minted \in SUBSET Entry
  /\ acked \in Seq(Entry)
  /\ intact \in BOOLEAN

Signed(e) == e.signer # Torn

\* Hashes identify entries, and all chain back to "genesis" or to nothing that
\* exists.  A signed entry continues "genesis" with sequence number 0 and any
\* other entry, be it a mixed one, with the number after that one's.
MintedChained ==
  /\ \A e, f \in minted : e.hash = f.hash => e = f
  /\ \A e \in minted : e.prev \in {Genesis, Torn} \cup {f.hash : f \in minted}
  /\ \A e \in minted : Signed(e) /\ e.prev = Genesis => e.seq = 0
  /\ \A e \in minted : Signed(e) => e.prev # Torn
  /\ \A e, f \in minted : Signed(e) /\ e.prev = f.hash => e.seq = f.seq + 1

\* Nothing but entries that append signed, and mixtures of such, is in the
\* file or on its way there; what is being appended is signed.
OnlyMinted ==
  /\ file \in ContentOf(minted)
  /\ \A h \in Handle : buf[h] \in ContentOf(minted)
  /\ \A h \in Handle : Busy(h) => pend[h] \in minted /\ Signed(pend[h])
  /\ \A h \in Handle : ~Busy(h) => pend[h] = NoEntry

\* The cached hash and sequence number of a handle belong together, and an
\* append in flight continues them.
CachesAgree ==
  \A h \in Handle :
    /\ tail[h] = GenesisTail \/ \E e \in minted : tail[h] = TailAfter(e)
    /\ Busy(h) => pend[h].prev = tail[h].hash /\ pend[h].seq = tail[h].seq

\* Together: however the appends of several handles interleave and fail, every
\* handle's caches (last_entry_hash, next_seq) describe one entry that was
\* written whole or mixed by a cut write, and every signature an append makes
\* is for a number and a hash that belong together.
ChainInv == MintedChained /\ OnlyMinted /\ CachesAgree

\* verify checks hashes and signatures and never reads entry.seq; yet in a log
\* it accepts every entry whose signer it knows has the number after that of
\* the entry before it ("monotonic sequence number"), whatever two handles,
\* failed appends and crashes did to the file and whatever mixed entries they
\* left in between.  Where all signers are known the numbers are 0, 1, 2 ...
VerifiedSeqContiguous ==
  Verifies(file.lines) =>
    \A i \in DOMAIN file.lines :
      file.lines[i].fp \in Registered =>
        file.lines[i].seq = IF i = 1 THEN 0 ELSE file.lines[i - 1].seq + 1

\* The last entry of a verified log pins its whole history: no other
\* arrangement of entries that were ever signed or mixed on this site (those
\* of a lost fork, of a failed append, in another order, with one left out)
\* verifies and ends in the same entry.
Rivals == UNION {[1..n -> minted] : n \in 1..Cardinality(minted)}
HeadPinsHistory ==
  Verifies(file.lines) /\ file.lines # <<>> =>
    \A s \in Rivals :
      s[Len(s)] = file.lines[Len(file.lines)] /\ Verifies(s) => s = file.lines

\* One handle at a time: as long as no write was cut short, by a crash or by
\* the call failing, the log on disk is between appends the entries append
\* returned Ok for, in that order, and it verifies.  Processes that die, and
\* calls that fail, before the write begins change nothing.
LogIsExactlyAcked ==
  intact /\ (\A h \in Handle : pc[h] # "truncated") =>
    file.lines = acked /\ Verifies(file.lines)

\* One handle at a time, which may die at any step: open, which checks no hash
\* and no signature, never hands out a handle on a log that does not verify.
\* Only a write that failed in a process that lives on, whose caches are then
\* older than the file, can bring such a log about.
OpenedLogVerifies ==
  [][intact \/ "write_fails" \notin fault =>
       \A h \in Handle : pc[h] = "closed" /\ pc'[h] = "ready" => Verifies(file'.lines)]_vars

\* "JSON-Lines, one per line": when append returns Ok its entry is a line of
\* the file.
AckedIsALine ==
  [][acked' # acked => acked'[Len(acked')] \in ToSet(file'.lines)]_vars

\* The append-only log that the file of a single handle implements.  While it
\* is rewritten the log is what the buffer holds before its new last line;
\* otherwise it is what open can read: the lines before the first that does not
\* parse.
Leading(lines) ==
  SubSeq(lines, 1, CHOOSE n \in 0..Len(lines) :
                     /\ \A i \in 1..n : lines[i] # Garbage
                     /\ n = Len(lines) \/ lines[n + 1] = Garbage)
LogicalLog ==
  IF intact /\ \E h \in Handle : pc[h] = "truncated"
  THEN Front(buf[CHOOSE h \in Handle : pc[h] = "truncated"].lines)
  ELSE Leading(file.lines)

Promise == INSTANCE AppendOnlyLog WITH log <- LogicalLog
AppendOnly == Promise!Spec

=============================================================================
