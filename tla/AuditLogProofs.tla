--------------------------- MODULE AuditLogProofs ---------------------------
(***************************************************************************)
(* Proofs about AuditLog, for any handles, hashes, keys and faults.        *)
(***************************************************************************)
EXTENDS AuditLog, SequenceTheorems, WellFoundedInduction, TLAPS

\* A set of naturals has a least element: where the proofs argue by a least
\* counterexample.
LEMMA LeastNat ==
  ASSUME NEW T, T \subseteq Nat, T # {}
  PROVE  \E n \in T : \A m \in T : n <= m
<1> DEFINE R == {ss \in Nat \X Nat : ss[1] < ss[2]}
<1>1. IsWellFoundedOn(R, Nat)
  BY NatLessThanWellFounded DEF OpToRel
<1>2. PICK n \in T : \A m \in T : ~ (<<m, n>> \in R)
  <2> HIDE DEF R
  <2> QED BY <1>1, WFMin
<1>3. \A m \in T : ~ (m < n)
  BY <1>2 
<1> QED BY <1>3

----------------------------------------------------------------------------
(* What the file operations keep: whatever they leave in the file is made   *)
(* of lines that were there or that they added.  E is the set of entries in *)
(* question: all of Entry for the types, the minted ones for the chain.     *)

LEMMA EmptyFileOf ==
  ASSUME NEW E
  PROVE  EmptyFile \in ContentOf(E)
BY EmptySeq DEF EmptyFile, ContentOf

LEMMA ContentMonotonic ==
  ASSUME NEW E, NEW F, E \subseteq F, NEW c \in ContentOf(E)
  PROVE  c \in ContentOf(F)
<1>1. c.lines \in Seq(F \cup {Garbage})
  BY SeqMonotonic DEF ContentOf
<1> QED BY <1>1 DEF ContentOf

LEMMA AddLineOf ==
  ASSUME NEW E, NEW c \in ContentOf(E), NEW line \in E \cup {Garbage}
  PROVE  AddLine(c, line) \in ContentOf(E)
<1> DEFINE L == E \cup {Garbage}
<1>1. c.lines \in Seq(L)
  BY DEF ContentOf
<1>2. Append(c.lines, line) \in Seq(L)
  BY <1>1, AppendProperties
<1>3. ASSUME c.lines # <<>>
      PROVE  [c.lines EXCEPT ![Len(c.lines)] = Garbage] \in Seq(L)
  <2>1. Len(c.lines) \in 1..Len(c.lines)
    BY <1>1, <1>3, EmptySeq
  <2> QED BY <1>1, <2>1, ExceptSeq
<1> QED BY <1>2, <1>3 DEF AddLine, ContentOf

LEMMA SubSeqOf ==
  ASSUME NEW S, NEW s \in Seq(S), NEW m \in 1..Len(s) + 1, NEW n \in 0..Len(s)
  PROVE  SubSeq(s, m, n) \in Seq(S)
<1>1. \A i \in m..n : s[i] \in S
  BY LenProperties, ElementOfSeq
<1> QED BY <1>1, LenProperties, SubSeqProperties

LEMMA CutsOf ==
  ASSUME NEW E, NEW w \in ContentOf(E), NEW p \in Cuts(w)
  PROVE  p \in ContentOf(E)
<1> DEFINE L == E \cup {Garbage}
<1>1. w.lines \in Seq(L) /\ Len(w.lines) \in Nat
  BY LenProperties DEF ContentOf
<1>2. ASSUME NEW n \in 0..Len(w.lines)
      PROVE  SubSeq(w.lines, 1, n) \in Seq(L)
  BY <1>1, SubSeqOf
<1>3. ASSUME NEW n \in 1..Len(w.lines)
      PROVE  Append(SubSeq(w.lines, 1, n - 1), Garbage) \in Seq(L)
  BY <1>1, <1>2, AppendProperties
<1>4. \/ \E n \in 0..Len(w.lines) : p = [lines |-> SubSeq(w.lines, 1, n), nl |-> TRUE]
      \/ \E n \in 1..Len(w.lines) : p = [lines |-> SubSeq(w.lines, 1, n), nl |-> FALSE]
      \/ \E n \in 1..Len(w.lines) :
            p = [lines |-> Append(SubSeq(w.lines, 1, n - 1), Garbage), nl |-> FALSE]
  BY DEF Cuts
<1>5. ASSUME NEW s \in Seq(L), NEW b \in BOOLEAN
      PROVE  [lines |-> s, nl |-> b] \in ContentOf(E)
  BY DEF ContentOf
<1> HIDE DEF L
<1>6. CASE \E n \in 0..Len(w.lines) : p = [lines |-> SubSeq(w.lines, 1, n), nl |-> TRUE]
  BY <1>2, <1>5, <1>6
<1>7. CASE \E n \in 1..Len(w.lines) : p = [lines |-> SubSeq(w.lines, 1, n), nl |-> FALSE]
  <2>1. PICK n \in 1..Len(w.lines) : p = [lines |-> SubSeq(w.lines, 1, n), nl |-> FALSE]
    BY <1>7
  <2>2. n \in 0..Len(w.lines)
    BY <1>1
  <2> QED BY <1>2, <1>5, <2>1, <2>2
<1>8. CASE \E n \in 1..Len(w.lines) :
             p = [lines |-> Append(SubSeq(w.lines, 1, n - 1), Garbage), nl |-> FALSE]
  BY <1>3, <1>5, <1>8
<1> QED BY <1>4, <1>6, <1>7, <1>8

LEMMA OverlayOf ==
  ASSUME NEW E, NEW p \in ContentOf(E), NEW w \in ContentOf(E), NEW c \in ContentOf(E),
         NEW r \in Overlay(p, w, c)
  PROVE  r \in ContentOf(E)
<1> DEFINE L == E \cup {Garbage}
           rest(j) == SubSeq(c.lines, j + 1, Len(c.lines))
<1>1. c.lines \in Seq(L) /\ p.lines \in Seq(L) /\ Len(c.lines) \in Nat
  BY LenProperties DEF ContentOf
<1>2. AddLine(p, Garbage) \in ContentOf(E)
  BY AddLineOf
<1>3. ASSUME NEW j \in 1..Len(c.lines)
      PROVE  /\ p.lines \o rest(j) \in Seq(L)
             /\ AddLine(p, Garbage).lines \o rest(j) \in Seq(L)
  <2>1. rest(j) \in Seq(L)
    BY <1>1, SubSeqOf
  <2>2. AddLine(p, Garbage).lines \in Seq(L)
    BY <1>2 DEF ContentOf
  <2> QED BY <1>1, <2>1, <2>2, ConcatProperties
<1>4. c.nl \in BOOLEAN
  BY DEF ContentOf
<1>5. \/ r = c \/ r = p
      \/ \E j \in 1..Len(c.lines) : r = [lines |-> p.lines \o rest(j), nl |-> c.nl]
      \/ \E j \in 1..Len(c.lines) :
            r = [lines |-> AddLine(p, Garbage).lines \o rest(j), nl |-> c.nl]
  BY DEF Overlay, Differing
<1>6. ASSUME NEW s \in Seq(L)
      PROVE  [lines |-> s, nl |-> c.nl] \in ContentOf(E)
  BY <1>4 DEF ContentOf
<1> HIDE DEF L, rest
<1> QED BY <1>3, <1>5, <1>6

----------------------------------------------------------------------------
(* The inductive invariant.                                                 *)

IInv == TypeOK /\ ChainInv

LEMMA InitIInv == Init => IInv
<1> SUFFICES ASSUME Init PROVE IInv
  OBVIOUS
<1>1. \A E : EmptyFile \in ContentOf(E)
  BY EmptyFileOf
<1>2. TypeOK
  BY <1>1, EmptySeq DEF Init, TypeOK, Cache, GenesisTail
<1>3. ChainInv
  BY <1>1 DEF Init, ChainInv, MintedChained, OnlyMinted, CachesAgree, Busy
<1> QED BY <1>2, <1>3 DEF IInv

\* A minted entry's successor state is a well-typed pair of caches.
LEMMA TailAfterType ==
  ASSUME NEW e \in Entry
  PROVE  TailAfter(e) \in Cache
BY DEF TailAfter, Entry, Cache

\* open takes its caches from the file: they are those after a minted entry.
LEMMA TailOfMinted ==
  ASSUME IInv, Parses(file.lines)
  PROVE  /\ TailOf(file.lines) \in Cache
         /\ \/ TailOf(file.lines) = GenesisTail
            \/ \E e \in minted : TailOf(file.lines) = TailAfter(e)
<1>1. file.lines \in Seq(minted \cup {Garbage})
  BY DEF IInv, ChainInv, OnlyMinted, ContentOf
<1>2. CASE file.lines = <<>>
  BY <1>2 DEF TailOf, GenesisTail, Cache
<1>3. CASE file.lines # <<>>
  <2> DEFINE e == file.lines[Len(file.lines)]
  <2>1. Len(file.lines) \in 1..Len(file.lines)
    BY <1>1, <1>3, EmptySeq
  <2>2. e \in minted \cup {Garbage}
    BY <1>1, <2>1, ElementOfSeq
  <2>3. e # Garbage
    BY <1>1, <2>1, LenProperties DEF Parses
  <2>4. e \in minted /\ e \in Entry
    BY <2>2, <2>3 DEF IInv, TypeOK
  <2>5. TailOf(file.lines) = TailAfter(e)
    BY <1>3 DEF TailOf
  <2> QED BY <2>4, <2>5, TailAfterType
<1> QED BY <1>2, <1>3

\* A step that mints nothing keeps MintedChained, and what each handle holds
\* needs checking only where it changes.
LEMMA OpenExistingStep ==
  ASSUME IInv, UNCHANGED fault, NEW h \in Handle, OpenExisting(h)
  PROVE  IInv'
<1> USE DEF IInv, OpenExisting
<1>1. TypeOK'
  BY TailOfMinted DEF TypeOK
<1>2. MintedChained'
  BY DEF ChainInv, MintedChained
<1>3. OnlyMinted'
  BY DEF ChainInv, OnlyMinted, TypeOK, Busy
<1>4. CachesAgree'
  BY TailOfMinted DEF ChainInv, CachesAgree, TypeOK, Busy
<1> QED BY <1>1, <1>2, <1>3, <1>4 DEF ChainInv

LEMMA OpenMissingStep ==
  ASSUME IInv, UNCHANGED fault, NEW h \in Handle, OpenMissing(h)
  PROVE  IInv'
<1> USE DEF IInv, OpenMissing
<1>1. TypeOK'
  BY DEF TypeOK
<1>2. ChainInv'
  BY DEF ChainInv, MintedChained, OnlyMinted, CachesAgree, TypeOK, Busy
<1> QED BY <1>1, <1>2

LEMMA CreateFileStep ==
  ASSUME IInv, UNCHANGED fault, NEW h \in Handle, CreateFile(h)
  PROVE  IInv'
<1> USE DEF IInv, CreateFile
<1>1. EmptyFile \in ContentOf(Entry) /\ EmptyFile \in ContentOf(minted)
  BY EmptyFileOf
<1>2. TypeOK'
  BY <1>1 DEF TypeOK, Cache, GenesisTail
<1>3. MintedChained'
  BY DEF ChainInv, MintedChained
<1>4. OnlyMinted'
  BY <1>1 DEF ChainInv, OnlyMinted, TypeOK, Busy
<1>5. CachesAgree'
  BY DEF ChainInv, CachesAgree, TypeOK, Busy
<1> QED BY <1>2, <1>3, <1>4, <1>5 DEF ChainInv

LEMMA TruncateStep ==
  ASSUME IInv, UNCHANGED fault, NEW h \in Handle, Truncate(h)
  PROVE  IInv'
<1> USE DEF IInv, Truncate
<1>1. EmptyFile \in ContentOf(Entry) /\ EmptyFile \in ContentOf(minted)
  BY EmptyFileOf
<1>2. TypeOK'
  BY <1>1 DEF TypeOK
<1>3. MintedChained'
  BY DEF ChainInv, MintedChained
<1>4. OnlyMinted'
  BY <1>1 DEF ChainInv, OnlyMinted, TypeOK, Busy
<1>5. CachesAgree'
  BY DEF ChainInv, CachesAgree, TypeOK, Busy
<1> QED BY <1>2, <1>3, <1>4, <1>5 DEF ChainInv

LEMMA CloseStep ==
  ASSUME IInv, UNCHANGED fault, NEW h \in Handle, Close(h)
  PROVE  IInv'
<1> USE DEF IInv, Close
<1>1. TypeOK'
  BY DEF TypeOK, Cache, GenesisTail
<1>2. ChainInv'
  BY DEF ChainInv, MintedChained, OnlyMinted, CachesAgree, TypeOK, Busy
<1> QED BY <1>1, <1>2

\* An entry with a fresh hash joins the chain if it fits where it is signed.
LEMMA MintOne ==
  ASSUME MintedChained, \A f \in minted : f.hash \in Digest,
         NEW e, e.hash \in Digest, \A f \in minted : f.hash # e.hash,
         minted' = minted \cup {e},
         e.prev \in {Genesis, Torn} \cup {f.hash : f \in minted},
         Signed(e) => /\ e.prev = Genesis => e.seq = 0
                      /\ e.prev # Torn
                      /\ \A f \in minted : e.prev = f.hash => e.seq = f.seq + 1
  PROVE  MintedChained'
<1>1. \A f, g \in minted' : f.hash = g.hash => f = g
  BY DEF MintedChained
<1>2. \A f \in minted' : f.prev \in {Genesis, Torn} \cup {g.hash : g \in minted}
  BY DEF MintedChained
<1>3. \A f \in minted' : f.prev \in {Genesis, Torn} \cup {g.hash : g \in minted'}
  BY <1>2
<1>4. \A f \in minted' : Signed(f) => (f.prev = Genesis => f.seq = 0) /\ f.prev # Torn
  BY DEF MintedChained
<1>5. \A f \in minted' : f.prev # e.hash
  BY <1>2, GenesisAssumption, TornAssumption
<1>6. \A f, g \in minted' : Signed(f) /\ f.prev = g.hash => f.seq = g.seq + 1
  BY <1>5 DEF MintedChained
<1> QED BY <1>1, <1>3, <1>4, <1>6 DEF MintedChained, Signed

\* The one step that mints: the new entry's hash is fresh, and it continues
\* the handle's caches, which describe a minted entry or the start.
LEMMA BeginAppendStep ==
  ASSUME IInv, UNCHANGED fault, NEW h \in Handle, NEW d \in Digest, NEW s \in Signing, BeginAppend(h, d, s)
  PROVE  IInv'
<1> DEFINE e == NewEntry(tail[h], d, s)
<1>1. /\ e \in Entry /\ e.hash = d /\ Signed(e)
      /\ e.prev = tail[h].hash /\ e.seq = tail[h].seq
  BY KeyAssumption, TornAssumption DEF IInv, TypeOK, Cache, Entry, NewEntry, Signed
<1>2. /\ pc[h] = "ready" /\ \A m \in minted : m.hash # d
      /\ minted' = minted \cup {e}
      /\ pend' = [pend EXCEPT ![h] = e]
      /\ buf' = [buf EXCEPT ![h] = AddLine(file, e)]
      /\ pc' = [pc EXCEPT ![h] = "read"]
      /\ UNCHANGED <<exists, file, tail, acked, intact>>
  BY DEF BeginAppend
<1> HIDE DEF e
<1>3. \/ e.prev = Genesis /\ e.seq = 0
      \/ \E f \in minted : e.prev = f.hash /\ e.seq = f.seq + 1
  <2>1. tail[h] = GenesisTail \/ \E f \in minted : tail[h] = TailAfter(f)
    BY DEF IInv, ChainInv, CachesAgree
  <2>2. CASE tail[h] = GenesisTail
    BY <1>1, <2>2 DEF GenesisTail
  <2>3. CASE \E f \in minted : tail[h] = TailAfter(f)
    BY <1>1, <2>3 DEF TailAfter
  <2> QED BY <2>1, <2>2, <2>3
<1>4. minted \subseteq Entry /\ minted \subseteq minted' /\ minted' \subseteq Entry /\ e \in minted'
  BY <1>1, <1>2 DEF IInv, TypeOK
<1>5. MintedChained'
  <2>1. MintedChained /\ \A f \in minted : f.hash \in Digest
    BY <1>4 DEF IInv, ChainInv, Entry
  <2>2. e.prev \in {Genesis} \cup {f.hash : f \in minted}
    BY <1>3
  <2>3. e.prev = Genesis => e.seq = 0
    BY <1>3, <2>1, GenesisAssumption
  <2>4. e.prev # Torn
    BY <2>1, <2>2, TornAssumption
  <2>5. \A f \in minted : e.prev = f.hash => e.seq = f.seq + 1
    <3> SUFFICES ASSUME NEW f \in minted, e.prev = f.hash
                 PROVE  e.seq = f.seq + 1
      OBVIOUS
    <3>1. PICK g \in minted : e.prev = g.hash /\ e.seq = g.seq + 1
      BY <1>3, <2>1, GenesisAssumption
    <3>2. f = g
      BY <2>1, <3>1 DEF MintedChained
    <3> QED BY <3>1, <3>2
  <2> QED BY <1>1, <1>2, <2>1, <2>2, <2>3, <2>4, <2>5, MintOne
<1>6. file \in ContentOf(minted') /\ \A g \in Handle : buf[g] \in ContentOf(minted')
  BY <1>4, ContentMonotonic DEF IInv, ChainInv, OnlyMinted
<1>7. AddLine(file, e) \in ContentOf(minted') /\ AddLine(file, e) \in ContentOf(Entry)
  BY <1>1, <1>4, <1>6, AddLineOf DEF IInv, TypeOK
<1>8. OnlyMinted'
  <2>1. \A g \in Handle : buf'[g] \in ContentOf(minted')
    BY <1>2, <1>6, <1>7 DEF IInv, TypeOK
  <2>2. \A g \in Handle : Busy(g)' => pend'[g] \in minted' /\ Signed(pend'[g])
    BY <1>1, <1>2, <1>4 DEF IInv, TypeOK, ChainInv, OnlyMinted, Busy
  <2>3. \A g \in Handle : ~Busy(g)' => pend'[g] = NoEntry
    BY <1>2 DEF IInv, TypeOK, ChainInv, OnlyMinted, Busy
  <2> QED BY <1>2, <1>6, <2>1, <2>2, <2>3 DEF OnlyMinted, Signed
<1>9. CachesAgree'
  <2>1. \A g \in Handle : tail'[g] = GenesisTail \/ \E f \in minted' : tail'[g] = TailAfter(f)
    BY <1>2 DEF IInv, ChainInv, CachesAgree
  <2>2. \A g \in Handle : Busy(g)' => pend'[g].prev = tail'[g].hash /\ pend'[g].seq = tail'[g].seq
    BY <1>1, <1>2 DEF IInv, TypeOK, ChainInv, CachesAgree, Busy
  <2> QED BY <2>1, <2>2 DEF CachesAgree
<1>10. TypeOK'
  BY <1>1, <1>2, <1>4, <1>7 DEF IInv, TypeOK
<1> QED BY <1>5, <1>8, <1>9, <1>10 DEF IInv, ChainInv

\* The append completes: the caches move on to the entry just written.
LEMMA WriteAllStep ==
  ASSUME IInv, UNCHANGED fault, NEW h \in Handle, WriteAll(h)
  PROVE  IInv'
<1>1. /\ pc[h] = "truncated" /\ Busy(h)
      /\ file' \in Overlay(buf[h], buf[h], file)
      /\ tail' = [tail EXCEPT ![h] = [hash |-> pend[h].hash, seq |-> tail[h].seq + 1]]
      /\ acked' = Append(acked, pend[h])
      /\ pc' = [pc EXCEPT ![h] = "ready"]
      /\ buf' = [buf EXCEPT ![h] = EmptyFile]
      /\ pend' = [pend EXCEPT ![h] = NoEntry]
      /\ UNCHANGED <<exists, minted, intact>>
  BY DEF WriteAll, Forget, Busy, IInv, TypeOK
<1>2. pend[h] \in minted /\ pend[h] \in Entry /\ pend[h].seq = tail[h].seq
  BY <1>1 DEF IInv, TypeOK, ChainInv, OnlyMinted, CachesAgree
<1>3. file' \in ContentOf(minted) /\ file' \in ContentOf(Entry)
  BY <1>1, OverlayOf DEF IInv, TypeOK, ChainInv, OnlyMinted
<1>4. EmptyFile \in ContentOf(Entry) /\ EmptyFile \in ContentOf(minted)
  BY EmptyFileOf
<1>5. tail' = [tail EXCEPT ![h] = TailAfter(pend[h])]
  BY <1>1, <1>2 DEF TailAfter
<1>6. acked' \in Seq(Entry)
  BY <1>1, <1>2, AppendProperties DEF IInv, TypeOK
<1>7. TypeOK'
  BY <1>1, <1>2, <1>3, <1>4, <1>5, <1>6, TailAfterType DEF IInv, TypeOK
<1>8. MintedChained'
  BY <1>1 DEF IInv, ChainInv, MintedChained
<1>9. OnlyMinted'
  BY <1>1, <1>3, <1>4 DEF IInv, ChainInv, OnlyMinted, TypeOK, Busy
<1>10. CachesAgree'
  BY <1>1, <1>2, <1>5 DEF IInv, ChainInv, CachesAgree, TypeOK, Busy
<1> QED BY <1>7, <1>8, <1>9, <1>10 DEF IInv, ChainInv

\* What a cut write may add to the entries: a mixture under a fresh hash.
LEMMA MixtureJoins ==
  ASSUME IInv, NEW x \in minted, NEW y \in minted, NEW d \in Digest,
         NEW e \in Mixtures(x, y, d), \A m \in minted : m.hash # d,
         minted' = minted \cup {e}
  PROVE  e \in Entry /\ MintedChained'
<1>1. MintedChained /\ minted \subseteq Entry /\ \A f \in minted : f.hash \in Digest
  BY DEF IInv, TypeOK, ChainInv, Entry
<1> DEFINE Mixed(seq, fp, prev) ==
             [hash |-> d, seq |-> seq, prev |-> prev, fp |-> fp, signer |-> Torn]
<1>2. \/ \E n \in Nat, f \in Key \cup {Torn}, p \in {x.prev, y.prev, Torn} : e = Mixed(n, f, p)
      \/ e = [y EXCEPT !.hash = d]
  <2>1. /\ x.seq \in Nat /\ x.fp \in Key \cup {Torn}
        /\ y.fp \in Key \cup {Torn} /\ TornSeq \subseteq Nat
    BY <1>1, TornAssumption DEF Entry
  <2>2. \/ \E n \in TornSeq : e = Mixed(n, y.fp, y.prev)
        \/ \E f \in {x.fp, y.fp, Torn} : e = Mixed(x.seq, f, y.prev)
        \/ \E p \in {x.prev, Torn} : e = Mixed(x.seq, x.fp, p)
        \/ e = [y EXCEPT !.hash = d]
    BY DEF Mixtures
  <2> HIDE DEF Mixed
  <2> QED BY <2>1, <2>2
<1>3. CASE \E n \in Nat, f \in Key \cup {Torn}, p \in {x.prev, y.prev, Torn} : e = Mixed(n, f, p)
  <2>1. e \in Entry /\ e.hash = d /\ ~Signed(e) /\ e.prev \in {x.prev, y.prev, Torn}
    BY <1>1, <1>3 DEF Entry, Signed
  <2>2. e.prev \in {Genesis, Torn} \cup {f.hash : f \in minted}
    BY <1>1, <2>1 DEF MintedChained
  <2> QED BY <1>1, <2>1, <2>2, MintOne
<1>4. CASE e = [y EXCEPT !.hash = d]
  <2>1. /\ e \in Entry /\ e.hash = d /\ e.prev = y.prev /\ e.seq = y.seq
        /\ e.signer = y.signer
    BY <1>1, <1>4 DEF Entry
  <2>2. e.prev \in {Genesis, Torn} \cup {f.hash : f \in minted}
    BY <1>1, <2>1 DEF MintedChained
  <2>3. Signed(e) => /\ e.prev = Genesis => e.seq = 0
                     /\ e.prev # Torn
                     /\ \A f \in minted : e.prev = f.hash => e.seq = f.seq + 1
    BY <1>1, <2>1 DEF MintedChained, Signed
  <2> QED BY <1>1, <2>1, <2>2, <2>3, MintOne
<1> QED BY <1>2, <1>3, <1>4

LEMMA MixLinesOf ==
  ASSUME IInv, NEW w \in ContentOf(minted), NEW n \in 1..Len(w.lines),
         NEW c \in ContentOf(minted), NEW j \in 1..Len(c.lines),
         MixLines(w, c, n, j)
  PROVE  /\ file' \in ContentOf(minted') /\ minted \subseteq minted'
         /\ minted' \subseteq Entry /\ MintedChained'
<1> DEFINE L == minted' \cup {Garbage}
<1>1. PICK x \in Pieces(w.lines[n]), y \in Pieces(c.lines[j]), d \in Digest :
        \E e \in Mixtures(x, y, d) :
          /\ e \in minted \/ \A m \in minted : m.hash # d
          /\ file' = [lines |-> Append(SubSeq(w.lines, 1, n - 1), e)
                                  \o SubSeq(c.lines, j + 1, Len(c.lines)),
                      nl |-> c.nl]
          /\ minted' = minted \cup {e}
  BY DEF MixLines
<1>2. PICK e \in Mixtures(x, y, d) :
        /\ e \in minted \/ \A m \in minted : m.hash # d
        /\ file' = [lines |-> Append(SubSeq(w.lines, 1, n - 1), e)
                                \o SubSeq(c.lines, j + 1, Len(c.lines)),
                    nl |-> c.nl]
        /\ minted' = minted \cup {e}
  BY <1>1
<1>3. /\ w.lines \in Seq(minted \cup {Garbage}) /\ Len(w.lines) \in Nat
      /\ c.lines \in Seq(minted \cup {Garbage}) /\ Len(c.lines) \in Nat
      /\ c.nl \in BOOLEAN
  BY LenProperties DEF ContentOf
<1>4. x \in minted /\ y \in minted
  <2>1. w.lines[n] \in minted \cup {Garbage} /\ c.lines[j] \in minted \cup {Garbage}
    BY <1>3, ElementOfSeq
  <2> QED BY <2>1 DEF Pieces
<1>5. minted \subseteq minted' /\ e \in minted'
  BY <1>2
<1>6. minted' \subseteq Entry /\ MintedChained'
  <2>1. CASE e \in minted
    <3>1. minted' = minted
      BY <1>2, <2>1
    <3> QED BY <3>1 DEF IInv, TypeOK, ChainInv, MintedChained
  <2>2. CASE \A m \in minted : m.hash # d
    <3>1. e \in Entry /\ MintedChained'
      BY <1>2, <1>4, <2>2, MixtureJoins
    <3> QED BY <1>2, <3>1 DEF IInv, TypeOK
  <2> QED BY <1>2, <2>1, <2>2
<1>7. file' \in ContentOf(minted')
  <2>1. w.lines \in Seq(L) /\ c.lines \in Seq(L) /\ e \in L
    BY <1>3, <1>5, SeqMonotonic
  <2>2. n - 1 \in 0..Len(w.lines) /\ j + 1 \in 1..Len(c.lines) + 1 /\ 1 \in 1..Len(w.lines) + 1
    BY <1>3
  <2>3. SubSeq(w.lines, 1, n - 1) \in Seq(L) /\ SubSeq(c.lines, j + 1, Len(c.lines)) \in Seq(L)
    <3>1. Len(c.lines) \in 0..Len(c.lines)
      BY <1>3
    <3> HIDE DEF L
    <3> QED BY <2>1, <2>2, <3>1, SubSeqOf
  <2>4. Append(SubSeq(w.lines, 1, n - 1), e) \o SubSeq(c.lines, j + 1, Len(c.lines)) \in Seq(L)
    <3> HIDE DEF L
    <3> QED BY <2>1, <2>3, AppendProperties, ConcatProperties
  <2> QED BY <1>2, <1>3, <2>4 DEF ContentOf
<1> QED BY <1>5, <1>6, <1>7

\* A handle that gives up, or dies: its caches stay or are dropped, and the
\* file holds part of what it meant to write.
LEMMA PartialWriteOf ==
  ASSUME IInv, NEW h \in Handle, PartialWrite(h)
  PROVE  /\ file' \in ContentOf(minted') /\ minted \subseteq minted'
         /\ minted' \subseteq Entry /\ MintedChained'
         /\ intact' \in BOOLEAN
<1>1. file \in ContentOf(minted) /\ buf[h] \in ContentOf(minted)
  BY DEF IInv, ChainInv, OnlyMinted
<1>2. CASE (\E p \in Cuts(buf[h]) : file' \in Overlay(p, buf[h], file)) /\ UNCHANGED minted
  <2>1. PICK p \in Cuts(buf[h]) : file' \in Overlay(p, buf[h], file)
    BY <1>2
  <2>2. p \in ContentOf(minted)
    BY <1>1, CutsOf
  <2>3. file' \in ContentOf(minted)
    BY <1>1, <2>1, <2>2, OverlayOf
  <2> QED BY <1>2, <2>3 DEF PartialWrite, IInv, TypeOK, ChainInv, MintedChained
<1>3. CASE \E n \in Differing(buf[h].lines, file.lines), j \in Differing(file.lines, buf[h].lines) :
             MixLines(buf[h], file, n, j)
  <2>1. PICK n \in 1..Len(buf[h].lines), j \in 1..Len(file.lines) :
               MixLines(buf[h], file, n, j)
    BY <1>3 DEF Differing
  <2>2. intact' \in BOOLEAN
    BY DEF PartialWrite
  <2> QED BY <1>1, <2>1, <2>2, MixLinesOf
<1> QED BY <1>2, <1>3 DEF PartialWrite

LEMMA GivingUp ==
  ASSUME IInv, UNCHANGED fault, NEW h \in Handle,
         file' \in ContentOf(minted'), minted \subseteq minted', minted' \subseteq Entry,
         MintedChained', intact' \in BOOLEAN,
         \/ pc' = [pc EXCEPT ![h] = "ready"] /\ tail' = tail
         \/ pc' = [pc EXCEPT ![h] = "closed"] /\ tail' = tail
         \/ pc' = [pc EXCEPT ![h] = "closed"] /\ tail' = [tail EXCEPT ![h] = GenesisTail],
         Forget(h), UNCHANGED <<exists, acked>>
  PROVE  IInv'
<1> USE DEF IInv, Forget
<1>1. EmptyFile \in ContentOf(Entry) /\ EmptyFile \in ContentOf(minted')
  BY EmptyFileOf
<1>2. GenesisTail \in Cache
  BY DEF GenesisTail, Cache
<1>3. pc' \in [Handle -> {"closed", "creating", "ready", "read", "truncated"}]
  BY DEF TypeOK
<1>4. tail' \in [Handle -> Cache]
  BY <1>2 DEF TypeOK
<1>5. TypeOK'
  <2>1. file' \in ContentOf(Entry)
    BY ContentMonotonic
  <2> QED BY <1>1, <1>3, <1>4, <2>1 DEF TypeOK
<1>6. OnlyMinted'
  <2>1. \A g \in Handle : buf[g] \in ContentOf(minted')
    BY ContentMonotonic DEF ChainInv, OnlyMinted
  <2>2. \A g \in Handle : buf'[g] \in ContentOf(minted')
    BY <1>1, <2>1 DEF TypeOK
  <2> QED BY <2>2 DEF ChainInv, OnlyMinted, TypeOK, Busy, Signed
<1>7. CachesAgree'
  BY DEF ChainInv, CachesAgree, TypeOK, Busy
<1> QED BY <1>5, <1>6, <1>7 DEF ChainInv

LEMMA FaultStep ==
  ASSUME IInv, UNCHANGED fault, NEW h \in Handle, OpenFails(h) \/ WriteFails(h) \/ Crash(h)
  PROVE  IInv'
<1>1. UNCHANGED <<file, minted, intact>>
        => /\ file' \in ContentOf(minted') /\ minted \subseteq minted'
           /\ minted' \subseteq Entry /\ MintedChained' /\ intact' \in BOOLEAN
  BY DEF IInv, TypeOK, ChainInv, OnlyMinted, MintedChained
<1>2. CASE OpenFails(h)
  BY <1>1, <1>2, GivingUp DEF OpenFails
<1>3. CASE WriteFails(h)
  BY <1>3, PartialWriteOf, GivingUp DEF WriteFails
<1>4. CASE Crash(h)
  <2>1. /\ file' \in ContentOf(minted') /\ minted \subseteq minted'
        /\ minted' \subseteq Entry /\ MintedChained' /\ intact' \in BOOLEAN
    BY <1>1, <1>4, PartialWriteOf DEF Crash
  <2> QED BY <1>4, <2>1, GivingUp DEF Crash
<1> QED BY <1>2, <1>3, <1>4

\* Every step of the specification keeps the inductive invariant.
LEMMA StepIInv == IInv /\ [Next]_vars => IInv'
<1> SUFFICES ASSUME IInv, [Next]_vars PROVE IInv'
  OBVIOUS
<1>1. ASSUME NEW h \in Handle, Step(h), UNCHANGED fault
      PROVE  IInv'
  BY <1>1, OpenExistingStep, OpenMissingStep, CreateFileStep, BeginAppendStep,
     TruncateStep, WriteAllStep, FaultStep, CloseStep DEF Step
<1>2. CASE UNCHANGED vars
  BY <1>2 DEF vars, IInv, TypeOK, ChainInv, MintedChained, OnlyMinted, CachesAgree, Busy
<1> QED BY <1>1, <1>2 DEF Next

LEMMA IInvHolds == Spec => []IInv
BY InitIInv, StepIInv, PTL DEF Spec

\* The audit log's variables keep their types: in particular no sequence
\* number falls below zero and no buffer holds anything but lines.
THEOREM TypeCorrect == Spec => []TypeOK
BY IInvHolds, PTL DEF IInv

\* The entries append signs form one chain from genesis whatever the handles
\* do, and every handle's caches (last_entry_hash, next_seq) describe one of
\* them.
THEOREM Chained == Spec => []ChainInv
BY IInvHolds, PTL DEF IInv

----------------------------------------------------------------------------
(* What a verified sequence of minted entries looks like.                   *)

\* An entry whose signer is registered carries a signature for its number and
\* for the hash of its predecessor, so its number is the next one.
LEMMA VerifiedSeq ==
  ASSUME IInv, NEW s \in Seq(minted \cup {Garbage}), Verifies(s), NEW i \in 1..Len(s)
  PROVE  /\ s[i] \in minted /\ s[i].prev = PrevOf(s, i)
         /\ s[i].fp \in Registered => s[i].seq = IF i = 1 THEN 0 ELSE s[i - 1].seq + 1
<1>1. DOMAIN s = 1..Len(s) /\ Len(s) \in Nat
  BY LenProperties
<1>2. \A k \in 1..Len(s) : s[k] \in minted /\ s[k].prev = PrevOf(s, k) /\ SignatureOK(s[k])
  BY <1>1, ElementOfSeq DEF Verifies
<1>3. ASSUME s[i].fp \in Registered
      PROVE  s[i].seq = IF i = 1 THEN 0 ELSE s[i - 1].seq + 1
  <2>1. Signed(s[i])
    BY <1>2, <1>3, KeyAssumption, TornAssumption DEF SignatureOK, Signed
  <2>2. CASE i = 1
    BY <1>2, <2>1, <2>2 DEF PrevOf, IInv, ChainInv, MintedChained, Signed
  <2>3. CASE i # 1
    <3>1. i - 1 \in 1..Len(s)
      BY <1>1, <2>3
    <3>2. s[i - 1] \in minted
      BY <1>2, <3>1
    <3> QED BY <1>2, <2>1, <2>3, <3>2 DEF PrevOf, IInv, ChainInv, MintedChained, Signed
  <2> QED BY <2>2, <2>3
<1> QED BY <1>2, <1>3

\* Where all signers are registered the numbers are 0, 1, 2, ...: by a least
\* counterexample.
LEMMA RegisteredSeq ==
  ASSUME IInv, NEW s \in Seq(minted \cup {Garbage}), Verifies(s),
         \A k \in 1..Len(s) : s[k].fp \in Registered,
         NEW i \in 1..Len(s)
  PROVE  s[i].seq = i - 1
<1>1. Len(s) \in Nat
  BY LenProperties
<1> DEFINE Bad == {k \in 1..Len(s) : s[k].seq # k - 1}
<1>2. SUFFICES ASSUME Bad # {} PROVE FALSE
  OBVIOUS
<1>3. PICK k \in Bad : \A m \in Bad : k <= m
  <2>1. Bad \subseteq Nat
    BY <1>1
  <2> HIDE DEF Bad
  <2> QED BY <1>2, <2>1, LeastNat
<1>4. k \in 1..Len(s) /\ s[k].seq # k - 1
  BY <1>3
<1>5. s[k].seq = IF k = 1 THEN 0 ELSE s[k - 1].seq + 1
  BY <1>4, VerifiedSeq
<1>6. k # 1
  BY <1>4, <1>5
<1>7. k - 1 \in 1..Len(s) /\ k - 1 \notin Bad
  BY <1>1, <1>3, <1>4, <1>6
<1>8. s[k - 1].seq = k - 2
  BY <1>7
<1> QED BY <1>1, <1>4, <1>5, <1>6, <1>8

\* Two verified sequences that end in the same entry agree all the way back
\* from there: the hash in an entry that both have names the one before it in
\* both, and is not "genesis" in one of them only.
LEMMA AgreeBackwards ==
  ASSUME IInv,
         NEW s \in Seq(minted \cup {Garbage}), Verifies(s), s # <<>>,
         NEW t \in Seq(minted \cup {Garbage}), Verifies(t), t # <<>>,
         s[Len(s)] = t[Len(t)],
         NEW k \in 0..Len(s) - 1
  PROVE  k \in 0..Len(t) - 1 /\ s[Len(s) - k] = t[Len(t) - k]
<1> DEFINE n == Len(s)
           m == Len(t)
           Bad == {b \in 0..n - 1 : ~(b \in 0..m - 1 /\ s[n - b] = t[m - b])}
<1>1. n \in Nat \ {0} /\ m \in Nat \ {0}
  BY EmptySeq, LenProperties
<1>2. SUFFICES ASSUME Bad # {} PROVE FALSE
  OBVIOUS
<1>3. PICK b \in Bad : \A a \in Bad : b <= a
  <2>1. Bad \subseteq Nat
    BY <1>1
  <2> HIDE DEF Bad
  <2> QED BY <1>2, <2>1, LeastNat
<1>4. b \in 0..n - 1 /\ ~(b \in 0..m - 1 /\ s[n - b] = t[m - b])
  BY <1>3
<1>5. b # 0
  BY <1>1, <1>4
<1>6. b - 1 \in 0..m - 1 /\ s[n - (b - 1)] = t[m - (b - 1)]
  <2>1. b - 1 \in 0..n - 1 /\ ~(b <= b - 1)
    BY <1>1, <1>4, <1>5
  <2>2. b - 1 \notin Bad
    <3> HIDE DEF Bad
    <3> QED BY <1>3, <2>1
  <2> QED BY <2>1, <2>2
<1> DEFINE i == n - (b - 1)
           j == m - (b - 1)
<1>7. /\ i \in 1..n /\ i - 1 \in 1..n /\ i # 1 /\ i - 1 = n - b
      /\ j \in 1..m /\ j - 1 = m - b
      /\ j # 1 => j - 1 \in 1..m /\ b \in 0..m - 1
  <2>1. b \in 0..n - 1 /\ b # 0 /\ b - 1 \in 0..m - 1
    BY <1>4, <1>5, <1>6
  <2> HIDE DEF n, m, Bad
  <2> QED BY <1>1, <2>1
<1>8. s[i] = t[j]
  BY <1>6
<1> HIDE DEF n, m, i, j
<1>9. s[i].prev = s[i - 1].hash /\ s[i - 1] \in minted /\ t[j].prev = PrevOf(t, j)
  BY <1>7, VerifiedSeq DEF n, m, PrevOf
<1>10. s[i - 1].hash # Genesis
  BY <1>9, GenesisAssumption DEF IInv, TypeOK, Entry
<1>11. j # 1
  BY <1>8, <1>9, <1>10 DEF PrevOf
<1>12. t[j - 1] \in minted /\ t[j].prev = t[j - 1].hash
  BY <1>7, <1>9, <1>11, VerifiedSeq DEF m, PrevOf
<1>13. s[i - 1] = t[j - 1]
  BY <1>8, <1>9, <1>12 DEF IInv, ChainInv, MintedChained
<1> QED BY <1>4, <1>7, <1>11, <1>13

LEMMA SameHeadSameHistory ==
  ASSUME IInv,
         NEW s \in Seq(minted \cup {Garbage}), Verifies(s), s # <<>>,
         NEW t \in Seq(minted \cup {Garbage}), Verifies(t), t # <<>>,
         s[Len(s)] = t[Len(t)]
  PROVE  s = t
<1> DEFINE n == Len(s)
           m == Len(t)
<1>1. n \in Nat \ {0} /\ m \in Nat \ {0}
  BY EmptySeq, LenProperties
<1>2. \A k \in 0..n - 1 : k \in 0..m - 1 /\ s[n - k] = t[m - k]
  BY AgreeBackwards
<1>3. \A k \in 0..m - 1 : k \in 0..n - 1
  BY AgreeBackwards
<1> HIDE DEF n, m
<1>4. n = m
  <2>1. n - 1 \in 0..n - 1 /\ m - 1 \in 0..m - 1
    BY <1>1
  <2>2. n - 1 <= m - 1 /\ m - 1 <= n - 1
    BY <1>1, <1>2, <1>3, <2>1
  <2> QED BY <1>1, <2>2
<1>5. \A j \in 1..n : s[j] = t[j]
  <2> SUFFICES ASSUME NEW j \in 1..n PROVE s[j] = t[j]
    OBVIOUS
  <2>1. n - j \in 0..n - 1 /\ n - (n - j) = j
    BY <1>1
  <2> QED BY <1>2, <1>4, <2>1
<1> QED BY <1>4, <1>5, SeqEqual DEF n, m

LEMMA IInvSeqContiguous == IInv => VerifiedSeqContiguous
<1> SUFFICES ASSUME IInv, Verifies(file.lines), NEW i \in DOMAIN file.lines
             PROVE  file.lines[i].fp \in Registered =>
                      file.lines[i].seq = IF i = 1 THEN 0 ELSE file.lines[i - 1].seq + 1
  BY DEF VerifiedSeqContiguous
<1>1. file.lines \in Seq(minted \cup {Garbage})
  BY DEF IInv, ChainInv, OnlyMinted, ContentOf
<1> QED BY <1>1, VerifiedSeq, LenProperties

\* A log that verify accepts, with a known key for every fingerprint in it.
RegisteredLogCounts ==
  Verifies(file.lines) /\ (\A i \in DOMAIN file.lines : file.lines[i].fp \in Registered)
    => \A i \in DOMAIN file.lines : file.lines[i].seq = i - 1

LEMMA IInvRegisteredLogCounts == IInv => RegisteredLogCounts
<1> SUFFICES ASSUME IInv, Verifies(file.lines),
                    \A i \in DOMAIN file.lines : file.lines[i].fp \in Registered
             PROVE  \A i \in DOMAIN file.lines : file.lines[i].seq = i - 1
  BY DEF RegisteredLogCounts
<1>1. file.lines \in Seq(minted \cup {Garbage})
  BY DEF IInv, ChainInv, OnlyMinted, ContentOf
<1> QED BY <1>1, RegisteredSeq, LenProperties

LEMMA IInvHeadPinsHistory == IInv => HeadPinsHistory
<1> SUFFICES ASSUME IInv, Verifies(file.lines), file.lines # <<>>,
                    NEW s \in Rivals, Verifies(s),
                    s[Len(s)] = file.lines[Len(file.lines)]
             PROVE  s = file.lines
  BY DEF HeadPinsHistory
<1>1. file.lines \in Seq(minted \cup {Garbage})
  BY DEF IInv, ChainInv, OnlyMinted, ContentOf
<1>2. s \in Seq(minted \cup {Garbage}) /\ s # <<>>
  BY DEF Rivals
<1> QED BY <1>1, <1>2, SameHeadSameHistory

\* In a log that verify accepts every entry of a registered signer has the
\* number after that of the entry before it, for any number of handles and
\* entries, any mix of failures and any mixed entries that cut writes left.
THEOREM SeqContiguous == Spec => []VerifiedSeqContiguous
BY IInvHolds, IInvSeqContiguous, PTL

\* So where verify knows the key of every fingerprint in the log, and accepts
\* it, the entries are numbered 0, 1, 2 ... without gap or repetition.
THEOREM RegisteredCounts == Spec => []RegisteredLogCounts
BY IInvHolds, IInvRegisteredLogCounts, PTL

\* The last entry of a log that verify accepts determines the whole log among
\* all arrangements of all entries that were ever signed, or mixed by cut writes.
THEOREM HeadDeterminesHistory == Spec => []HeadPinsHistory
BY IInvHolds, IInvHeadPinsHistory, PTL

----------------------------------------------------------------------------
(* One handle.                                                              *)

\* What the next results assume: there is no second handle ...
Alone == \A g, h \in Handle : g = h

\* ... and, where signatures matter, callers sign with the key that their
\* fingerprint names if it is a registered one.
HonestCallers == \A s \in Signing : s[1] \in Registered => s[2] = s[1]
Trusted(e) == HonestCallers => SignatureOK(e)

\* The lines before the first piece of garbage verify.
Sound(s) ==
  \A i \in DOMAIN s : (\A j \in 1..i : s[j] # Garbage)
                       => s[i].prev = PrevOf(s, i) /\ Trusted(s[i])

\* As long as nobody lives on after a write of its own that stopped half way:
\* whatever the file holds is sound, and a handle on a file that parses
\* continues its last line.
SoundInv ==
  /\ \A e \in minted : Trusted(e)
  /\ \A h \in Handle : pc[h] = "truncated" => file = EmptyFile
  /\ intact \/ "write_fails" \notin fault =>
       /\ Sound(file.lines)
       /\ \A h \in Handle :
            /\ pc[h] \in {"ready", "read"} /\ Parses(file.lines) => tail[h] = TailOf(file.lines)
            /\ Busy(h) => /\ Sound(buf[h].lines) /\ buf[h].lines # <<>>
                          /\ buf[h].lines[Len(buf[h].lines)] \in {pend[h], Garbage}

\* As long as no write stopped half way: the file, the buffer and the caches
\* are those of the entries that were acknowledged.
AckedInv ==
  intact =>
    /\ file.nl
    /\ acked # <<>> => exists
    /\ TailOf(acked).seq = Len(acked)
    /\ (\A h \in Handle : pc[h] # "truncated") => file.lines = acked
    /\ \A h \in Handle :
         /\ pc[h] = "creating" => ~exists
         /\ pc[h] \in {"ready", "read", "truncated"} => exists /\ tail[h] = TailOf(acked)
         /\ Busy(h) => buf[h] = [lines |-> Append(acked, pend[h]), nl |-> TRUE]

SoloInv == IInv /\ SoundInv /\ AckedInv

\* What parses and is sound verifies.
LEMMA SoundVerifies ==
  ASSUME HonestCallers, NEW S, NEW s \in Seq(S), Sound(s), Parses(s)
  PROVE  Verifies(s)
<1>1. DOMAIN s = 1..Len(s) /\ Len(s) \in Nat
  BY LenProperties
<1>2. ASSUME NEW i \in DOMAIN s
      PROVE  \A j \in 1..i : s[j] # Garbage
  BY <1>1, <1>2 DEF Parses
<1> QED BY <1>2 DEF Sound, Verifies, Parses, Trusted

\* Two sequences that agree on a stretch have the same predecessors there.
LEMMA SoundAlike ==
  ASSUME NEW S, NEW s \in Seq(S), NEW t \in Seq(S), Sound(s),
         NEW n \in 0..Len(s), n <= Len(t), \A i \in 1..n : t[i] = s[i]
  PROVE  \A i \in 1..n : (\A j \in 1..i : t[j] # Garbage)
                           => t[i].prev = PrevOf(t, i) /\ Trusted(t[i])
<1> SUFFICES ASSUME NEW i \in 1..n, \A j \in 1..i : t[j] # Garbage
             PROVE  t[i].prev = PrevOf(t, i) /\ Trusted(t[i])
  OBVIOUS
<1>1. Len(s) \in Nat /\ DOMAIN s = 1..Len(s)
  BY LenProperties
<1>2. \A j \in 1..i : s[j] = t[j]
  BY <1>1
<1>3. s[i].prev = PrevOf(s, i) /\ Trusted(s[i])
  BY <1>1, <1>2 DEF Sound
<1>4. PrevOf(t, i) = PrevOf(s, i)
  BY <1>1 DEF PrevOf
<1> QED BY <1>3, <1>4

LEMMA SoundPrefix ==
  ASSUME NEW S, NEW s \in Seq(S), Sound(s), NEW n \in 0..Len(s)
  PROVE  Sound(SubSeq(s, 1, n))
<1> DEFINE t == SubSeq(s, 1, n)
<1>1. Len(s) \in Nat
  BY LenProperties
<1>2. t \in Seq(S)
  BY <1>1, SubSeqOf
<1>3. Len(t) = n /\ \A i \in 1..n : t[i] = s[i]
  <2>1. \A i \in 1..n : s[i] \in S
    BY <1>1, ElementOfSeq
  <2> QED BY <1>1, <2>1, SubSeqProperties
<1>4. DOMAIN t = 1..n
  BY <1>2, <1>3, LenProperties
<1> HIDE DEF t
<1>5. \A i \in 1..n : (\A j \in 1..i : t[j] # Garbage)
                        => t[i].prev = PrevOf(t, i) /\ Trusted(t[i])
  BY <1>1, <1>2, <1>3, SoundAlike
<1>6. Sound(t)
  BY <1>4, <1>5 DEF Sound
<1> QED BY <1>6 DEF t

\* Garbage, or an entry that continues the last line if all lines parse.
LEMMA SoundAppend ==
  ASSUME NEW S, NEW s \in Seq(S), Sound(s), NEW e \in S,
         \/ e = Garbage
         \/ Trusted(e) /\ (Parses(s) => e.prev = TailOf(s).hash)
  PROVE  Sound(Append(s, e))
<1> DEFINE t == Append(s, e)
           n == Len(s)
<1>1. n \in Nat /\ DOMAIN s = 1..n
  BY LenProperties
<1>2. t \in Seq(S) /\ Len(t) = n + 1 /\ t[n + 1] = e /\ \A i \in 1..n : t[i] = s[i]
  BY AppendProperties
<1>3. DOMAIN t = 1..n + 1
  BY <1>2, LenProperties
<1> HIDE DEF t
<1>4. \A i \in 1..n : (\A j \in 1..i : t[j] # Garbage)
                        => t[i].prev = PrevOf(t, i) /\ Trusted(t[i])
  BY <1>1, <1>2, SoundAlike
<1>5. ASSUME \A j \in 1..n + 1 : t[j] # Garbage
      PROVE  t[n + 1].prev = PrevOf(t, n + 1) /\ Trusted(t[n + 1])
  <2>1. e # Garbage
    BY <1>1, <1>2, <1>5
  <2>2. Parses(s)
    BY <1>1, <1>2, <1>5 DEF Parses
  <2>3. Trusted(e) /\ e.prev = TailOf(s).hash
    BY <2>1, <2>2
  <2>4. TailOf(s).hash = PrevOf(t, n + 1)
    <3>1. CASE s = <<>>
      <4>1. n = 0
        BY <3>1, EmptySeq
      <4> QED BY <3>1, <4>1 DEF TailOf, PrevOf, GenesisTail
    <3>2. CASE s # <<>>
      <4>1. n \in Nat \ {0}
        BY <3>2, EmptySeq
      <4>2. t[n + 1 - 1] = s[n] /\ n + 1 # 1
        BY <1>2, <4>1
      <4> QED BY <3>2, <4>2 DEF TailOf, PrevOf, TailAfter
    <3> QED BY <3>1, <3>2
  <2> QED BY <1>2, <2>3, <2>4
<1>6. Sound(t)
  <2> SUFFICES ASSUME NEW i \in 1..n + 1, \A j \in 1..i : t[j] # Garbage
               PROVE  t[i].prev = PrevOf(t, i) /\ Trusted(t[i])
    BY <1>3 DEF Sound
  <2>1. i \in 1..n \/ i = n + 1
    BY <1>1
  <2> QED BY <1>4, <1>5, <2>1
<1> QED BY <1>6 DEF t

\* A last line that becomes garbage disturbs nothing before it.
LEMMA SoundFused ==
  ASSUME NEW E, NEW s \in Seq(E \cup {Garbage}), s # <<>>, Sound(s)
  PROVE  /\ Sound([s EXCEPT ![Len(s)] = Garbage])
         /\ ~Parses([s EXCEPT ![Len(s)] = Garbage])
         /\ [s EXCEPT ![Len(s)] = Garbage] # <<>>
         /\ [s EXCEPT ![Len(s)] = Garbage][Len([s EXCEPT ![Len(s)] = Garbage])] = Garbage
<1> DEFINE n == Len(s)
           t == [s EXCEPT ![n] = Garbage]
<1>1. n \in Nat \ {0} /\ DOMAIN s = 1..n
  BY EmptySeq, LenProperties
<1>2. /\ t \in Seq(E \cup {Garbage}) /\ Len(t) = n
      /\ \A i \in 1..n - 1 : t[i] = s[i]
      /\ t[n] = Garbage
  <2>1. \A k \in Nat \ {0} : k \in 1..k /\ \A i \in 1..k - 1 : i \in 1..k /\ i # k
    OBVIOUS
  <2>2. n \in 1..Len(s) /\ Garbage \in E \cup {Garbage}
    BY <1>1, <2>1
  <2>3. t \in Seq(E \cup {Garbage}) /\ Len(t) = n /\ \A j \in 1..n : t[j] = IF j = n THEN Garbage ELSE s[j]
    BY <2>2, ExceptSeq
  <2> HIDE DEF t, n
  <2> QED BY <1>1, <2>1, <2>3
<1>3. DOMAIN t = 1..n
  BY <1>2, LenProperties
<1> HIDE DEF t
<1>4. \A i \in 1..n - 1 : (\A j \in 1..i : t[j] # Garbage)
                            => t[i].prev = PrevOf(t, i) /\ Trusted(t[i])
  <2>1. n - 1 \in 0..Len(s) /\ n - 1 <= Len(t)
    BY <1>1, <1>2
  <2> HIDE DEF n
  <2> QED BY <1>2, <2>1, SoundAlike
<1>5. Sound(t)
  <2> SUFFICES ASSUME NEW i \in 1..n, \A j \in 1..i : t[j] # Garbage
               PROVE  t[i].prev = PrevOf(t, i) /\ Trusted(t[i])
    BY <1>3 DEF Sound
  <2>1. i \in 1..n - 1
    BY <1>1, <1>2
  <2> QED BY <1>4, <2>1
<1>6. ~Parses(t) /\ t # <<>> /\ t[Len(t)] = Garbage
  BY <1>1, <1>2, <1>3, EmptySeq DEF Parses
<1> QED BY <1>5, <1>6 DEF t

\* A write that is cut short, and a write into the file just truncated.
LEMMA CutsSound ==
  ASSUME NEW E, NEW w \in ContentOf(E), Sound(w.lines), NEW p \in Cuts(w)
  PROVE  Sound(p.lines)
<1> DEFINE L == E \cup {Garbage}
<1>1. w.lines \in Seq(L) /\ Len(w.lines) \in Nat
  BY LenProperties DEF ContentOf
<1>2. ASSUME NEW n \in 0..Len(w.lines)
      PROVE  SubSeq(w.lines, 1, n) \in Seq(L) /\ Sound(SubSeq(w.lines, 1, n))
  BY <1>1, SubSeqOf, SoundPrefix
<1>3. ASSUME NEW n \in 0..Len(w.lines)
      PROVE  Sound(Append(SubSeq(w.lines, 1, n), Garbage))
  BY <1>2, SoundAppend
<1>4. \/ \E n \in 0..Len(w.lines) : p.lines = SubSeq(w.lines, 1, n)
      \/ \E n \in 0..Len(w.lines) : p.lines = Append(SubSeq(w.lines, 1, n), Garbage)
  <2>1. \A n \in 1..Len(w.lines) : n \in 0..Len(w.lines) /\ n - 1 \in 0..Len(w.lines)
    BY <1>1
  <2>2. \/ \E n \in 0..Len(w.lines) : p = [lines |-> SubSeq(w.lines, 1, n), nl |-> TRUE]
        \/ \E n \in 1..Len(w.lines) : p = [lines |-> SubSeq(w.lines, 1, n), nl |-> FALSE]
        \/ \E n \in 1..Len(w.lines) :
              p = [lines |-> Append(SubSeq(w.lines, 1, n - 1), Garbage), nl |-> FALSE]
    BY DEF Cuts
  <2>3. CASE \E n \in 0..Len(w.lines) : p = [lines |-> SubSeq(w.lines, 1, n), nl |-> TRUE]
    BY <2>3
  <2>4. CASE \E n \in 1..Len(w.lines) : p = [lines |-> SubSeq(w.lines, 1, n), nl |-> FALSE]
    BY <2>1, <2>4
  <2>5. CASE \E n \in 1..Len(w.lines) :
               p = [lines |-> Append(SubSeq(w.lines, 1, n - 1), Garbage), nl |-> FALSE]
    BY <2>1, <2>5
  <2> QED BY <2>2, <2>3, <2>4, <2>5
<1> HIDE DEF L
<1> QED BY <1>2, <1>3, <1>4

LEMMA OverlayOnEmpty ==
  ASSUME NEW E, NEW p \in ContentOf(E), NEW w \in ContentOf(E),
         NEW r \in Overlay(p, w, EmptyFile)
  PROVE  r.lines = p.lines /\ (p.nl => r.nl)
<1>1. EmptyFile.lines = <<>> /\ EmptyFile.nl /\ Len(EmptyFile.lines) = 0
  BY EmptySeq DEF EmptyFile
<1>2. p.lines \in Seq(E \cup {Garbage}) /\ Len(p.lines) \in Nat
  BY LenProperties DEF ContentOf
<1>3. 1..Len(EmptyFile.lines) = {}
  BY <1>1
<1>4. r = p \/ (Len(p.lines) <= 0 /\ r = EmptyFile)
  BY <1>1, <1>3 DEF Overlay, Differing
<1>5. Len(p.lines) <= 0 => p.lines = <<>>
  BY <1>2, EmptySeq
<1> QED BY <1>1, <1>4, <1>5

----------------------------------------------------------------------------
(* Each step of the one handle keeps the invariant.                          *)

LEMMA InitSolo == Init => SoundInv /\ AckedInv
<1> SUFFICES ASSUME Init PROVE SoundInv /\ AckedInv
  OBVIOUS
<1>1. Sound(<<>>) /\ TailOf(<<>>).seq = 0 /\ Len(<<>>) = 0
  BY EmptySeq DEF Sound, TailOf, GenesisTail
<1> QED BY <1>1 DEF Init, SoundInv, AckedInv, EmptyFile, Busy

\* What a step of the file's only handle h has to establish.
LEMMA SoloByOne ==
  ASSUME Alone, NEW h \in Handle,
         (\A e \in minted : Trusted(e))',
         (pc[h] = "truncated" => file = EmptyFile)',
         (intact \/ "write_fails" \notin fault =>
            /\ Sound(file.lines)
            /\ pc[h] \in {"ready", "read"} /\ Parses(file.lines) => tail[h] = TailOf(file.lines)
            /\ Busy(h) => /\ Sound(buf[h].lines) /\ buf[h].lines # <<>>
                          /\ buf[h].lines[Len(buf[h].lines)] \in {pend[h], Garbage})',
         (intact =>
            /\ file.nl
            /\ acked # <<>> => exists
            /\ TailOf(acked).seq = Len(acked)
            /\ pc[h] # "truncated" => file.lines = acked
            /\ pc[h] = "creating" => ~exists
            /\ pc[h] \in {"ready", "read", "truncated"} => exists /\ tail[h] = TailOf(acked)
            /\ Busy(h) => buf[h] = [lines |-> Append(acked, pend[h]), nl |-> TRUE])'
  PROVE  SoundInv' /\ AckedInv'
<1>1. \A g \in Handle : g = h
  BY DEF Alone
<1> QED BY <1>1 DEF SoundInv, AckedInv

\* What the invariant says of the file's only handle.
LEMMA SoloOfOne ==
  ASSUME SoloInv, Alone, NEW h \in Handle
  PROVE  /\ \A e \in minted : Trusted(e)
         /\ file.lines \in Seq(Entry \cup {Garbage}) /\ acked \in Seq(Entry)
         /\ pc[h] = "truncated" => file = EmptyFile
         /\ Busy(h) => /\ pend[h] \in minted /\ pend[h] \in Entry
                       /\ pend[h].prev = tail[h].hash /\ pend[h].seq = tail[h].seq
         /\ intact \/ "write_fails" \notin fault =>
              /\ Sound(file.lines)
              /\ pc[h] \in {"ready", "read"} /\ Parses(file.lines) => tail[h] = TailOf(file.lines)
              /\ Busy(h) => /\ Sound(buf[h].lines) /\ buf[h].lines # <<>>
                            /\ buf[h].lines[Len(buf[h].lines)] \in {pend[h], Garbage}
         /\ intact =>
              /\ file.nl
              /\ acked # <<>> => exists
              /\ TailOf(acked).seq = Len(acked)
              /\ pc[h] # "truncated" => file.lines = acked
              /\ pc[h] = "creating" => ~exists
              /\ pc[h] \in {"ready", "read", "truncated"} => exists /\ tail[h] = TailOf(acked)
              /\ Busy(h) => buf[h] = [lines |-> Append(acked, pend[h]), nl |-> TRUE]
<1>1. \A g \in Handle : g = h
  BY DEF Alone
<1>2. IInv /\ SoundInv /\ AckedInv
  BY DEF SoloInv
<1>3. file.lines \in Seq(Entry \cup {Garbage}) /\ acked \in Seq(Entry)
  BY <1>2 DEF IInv, TypeOK, ContentOf
<1>4. Busy(h) => /\ pend[h] \in minted /\ pend[h] \in Entry
                 /\ pend[h].prev = tail[h].hash /\ pend[h].seq = tail[h].seq
  BY <1>2 DEF IInv, TypeOK, ChainInv, OnlyMinted, CachesAgree
<1> QED BY <1>1, <1>2, <1>3, <1>4 DEF SoundInv, AckedInv

LEMMA EmptyFileSound ==
  /\ Sound(EmptyFile.lines) /\ Parses(EmptyFile.lines)
  /\ TailOf(EmptyFile.lines) = GenesisTail /\ EmptyFile.nl /\ EmptyFile.lines = <<>>
BY DEF Sound, Parses, TailOf, EmptyFile

\* Opening, closing and the calls that fail leave the file as it is, or empty.
LEMMA OpenSolo ==
  ASSUME SoloInv, Alone, UNCHANGED fault, NEW h \in Handle,
         OpenExisting(h) \/ OpenMissing(h) \/ CreateFile(h)
  PROVE  SoundInv' /\ AckedInv'
<1> USE SoloOfOne DEF Busy
<1>1. pc \in [Handle -> {"closed", "creating", "ready", "read", "truncated"}]
      /\ tail \in [Handle -> Cache]
  BY DEF SoloInv, IInv, TypeOK
<1>2. CASE OpenExisting(h)
  <2>1. pc[h] = "closed" /\ pc'[h] = "ready" /\ tail'[h] = TailOf(file.lines)
        /\ UNCHANGED <<exists, file, acked, minted, intact>> /\ exists
    BY <1>1, <1>2 DEF OpenExisting
  <2> QED BY <2>1, SoloByOne
<1>3. CASE OpenMissing(h)
  <2>1. pc[h] = "closed" /\ pc'[h] = "creating" /\ ~exists /\ UNCHANGED <<exists, file, acked, minted, intact>>
    BY <1>1, <1>3 DEF OpenMissing
  <2> QED BY <2>1, SoloByOne
<1>4. CASE CreateFile(h)
  <2>1. pc[h] = "creating" /\ pc'[h] = "ready" /\ tail'[h] = GenesisTail /\ exists'
        /\ file' = EmptyFile /\ UNCHANGED <<acked, minted, intact>>
    BY <1>1, <1>4 DEF CreateFile
  <2>2. intact => acked = <<>>
    BY <2>1
  <2>3. TailOf(<<>>) = GenesisTail
    BY DEF TailOf
  <2> QED BY <1>4, <2>1, <2>2, <2>3, EmptyFileSound, SoloByOne
<1> QED BY <1>2, <1>3, <1>4

LEMMA QuietSolo ==
  ASSUME SoloInv, Alone, UNCHANGED fault, NEW h \in Handle,
         Close(h) \/ OpenFails(h) \/ Truncate(h)
  PROVE  SoundInv' /\ AckedInv'
<1> USE SoloOfOne DEF Busy
<1>1. pc \in [Handle -> {"closed", "creating", "ready", "read", "truncated"}]
  BY DEF SoloInv, IInv, TypeOK
<1>2. CASE Close(h)
  <2>1. pc[h] = "ready" /\ pc'[h] = "closed" /\ UNCHANGED <<exists, file, acked, minted, intact>>
    BY <1>1, <1>2 DEF Close
  <2> QED BY <2>1, SoloByOne
<1>3. CASE OpenFails(h)
  <2>1. /\ \/ pc[h] = "creating" /\ pc'[h] = "closed"
           \/ pc[h] = "read" /\ pc'[h] = "ready"
        /\ UNCHANGED <<exists, file, tail, acked, minted, intact>>
    BY <1>1, <1>3 DEF OpenFails
  <2> QED BY <2>1, SoloByOne
<1>4. CASE Truncate(h)
  <2>1. pc[h] = "read" /\ pc'[h] = "truncated" /\ file' = EmptyFile
        /\ UNCHANGED <<exists, tail, buf, pend, acked, minted, intact>>
    BY <1>1, <1>4 DEF Truncate
  <2> QED BY <2>1, EmptyFileSound, SoloByOne
<1> QED BY <1>2, <1>3, <1>4

\* The entry continues the last line of the file, if that parses; otherwise it
\* is fused to it, or stands behind garbage.
LEMMA BeginAppendSolo ==
  ASSUME SoloInv, Alone, UNCHANGED fault, NEW h \in Handle,
         NEW d \in Digest, NEW s \in Signing, BeginAppend(h, d, s)
  PROVE  SoundInv' /\ AckedInv'
<1> DEFINE e == NewEntry(tail[h], d, s)
           L == Entry \cup {Garbage}
<1>1. /\ pc[h] = "ready" /\ pc'[h] = "read" /\ pend'[h] = e
      /\ buf'[h] = AddLine(file, e) /\ minted' = minted \cup {e}
      /\ UNCHANGED <<exists, file, tail, acked, intact>>
  BY DEF BeginAppend, SoloInv, IInv, TypeOK
<1>2. e \in Entry /\ e.prev = tail[h].hash
  BY KeyAssumption DEF SoloInv, IInv, TypeOK, Cache, Entry, NewEntry
<1>3. Trusted(e)
  BY DEF NewEntry, SignatureOK, Trusted, HonestCallers
<1> HIDE DEF e
<1>4. CASE ~(intact \/ "write_fails" \notin fault)
  BY <1>1, <1>3, <1>4, SoloOfOne, SoloByOne
<1>5. CASE intact \/ "write_fails" \notin fault
  <2>1. Parses(file.lines) => e.prev = TailOf(file.lines).hash
    BY <1>1, <1>2, <1>5, SoloOfOne
  <2>2. file.lines \in Seq(L) /\ Sound(file.lines) /\ Len(file.lines) \in Nat
    BY <1>5, SoloOfOne, LenProperties
  <2>3. CASE file.nl \/ file.lines = <<>>
    <3>1. buf'[h] = [lines |-> Append(file.lines, e), nl |-> TRUE]
      BY <1>1, <2>3 DEF AddLine
    <3>2. Sound(buf'[h].lines)
      BY <1>2, <1>3, <2>1, <2>2, <3>1, SoundAppend
    <3>3. buf'[h].lines # <<>> /\ buf'[h].lines[Len(buf'[h].lines)] = e
      BY <1>2, <2>2, <3>1, AppendProperties
    <3> QED BY <1>1, <1>3, <1>5, <3>1, <3>2, <3>3, SoloOfOne, SoloByOne DEF Busy
  <2>4. CASE ~(file.nl \/ file.lines = <<>>)
    <3>1. buf'[h].lines = [file.lines EXCEPT ![Len(file.lines)] = Garbage]
      BY <1>1, <2>4 DEF AddLine
    <3>2. /\ Sound(buf'[h].lines) /\ buf'[h].lines # <<>>
          /\ buf'[h].lines[Len(buf'[h].lines)] = Garbage
      BY <2>2, <2>4, <3>1, SoundFused
    <3>3. ~intact
      BY <2>4, SoloOfOne
    <3> QED BY <1>1, <1>3, <1>5, <3>2, <3>3, SoloOfOne, SoloByOne DEF Busy
  <2> QED BY <2>3, <2>4
<1> QED BY <1>4, <1>5

\* The file becomes what the buffer holds, and its last entry the tail.
LEMMA WriteAllSolo ==
  ASSUME SoloInv, Alone, UNCHANGED fault, NEW h \in Handle, WriteAll(h)
  PROVE  SoundInv' /\ AckedInv'
<1>1. /\ pc[h] = "truncated" /\ Busy(h) /\ pc'[h] = "ready"
      /\ file' \in Overlay(buf[h], buf[h], EmptyFile)
      /\ tail'[h] = TailAfter(pend[h])
      /\ acked' = Append(acked, pend[h])
      /\ UNCHANGED <<exists, minted, intact>>
  BY SoloOfOne DEF WriteAll, Busy, SoloInv, IInv, TypeOK, TailAfter
<1>2. buf[h] \in ContentOf(Entry)
  BY DEF SoloInv, IInv, TypeOK
<1>3. file'.lines = buf[h].lines /\ (buf[h].nl => file'.nl)
  BY <1>1, <1>2, OverlayOnEmpty
<1>4. buf[h].lines \in Seq(Entry \cup {Garbage})
  BY <1>2 DEF ContentOf
<1>5. (intact \/ "write_fails" \notin fault) /\ Parses(buf[h].lines)
        => TailOf(buf[h].lines) = TailAfter(pend[h])
  <2> SUFFICES ASSUME intact \/ "write_fails" \notin fault, Parses(buf[h].lines)
               PROVE  TailOf(buf[h].lines) = TailAfter(pend[h])
    OBVIOUS
  <2>1. buf[h].lines # <<>> /\ buf[h].lines[Len(buf[h].lines)] \in {pend[h], Garbage}
    BY <1>1, SoloOfOne
  <2>2. Len(buf[h].lines) \in DOMAIN buf[h].lines
    BY <1>4, <2>1, EmptySeq, LenProperties
  <2> QED BY <2>1, <2>2 DEF Parses, TailOf
<1>6. /\ TailOf(acked') = TailAfter(pend[h])
      /\ intact => TailOf(acked').seq = Len(acked')
  <2>1. Len(acked') = Len(acked) + 1 /\ acked'[Len(acked) + 1] = pend[h] /\ acked' # <<>>
    BY <1>1, SoloOfOne, AppendProperties
  <2>2. intact => pend[h].seq = Len(acked)
    BY <1>1, SoloOfOne
  <2> QED BY <2>1, <2>2 DEF TailOf, TailAfter
<1>7. intact => file'.lines = acked' /\ file'.nl /\ exists
  <2>1. intact => exists /\ buf[h] = [lines |-> Append(acked, pend[h]), nl |-> TRUE]
    BY <1>1, SoloOfOne
  <2> QED BY <1>1, <1>3, <2>1
<1> QED BY <1>1, <1>3, <1>5, <1>6, <1>7, SoloOfOne, SoloByOne DEF Busy

\* There is nothing for a cut write to mix with: it leaves a piece of the
\* buffer.
LEMMA CutSolo ==
  ASSUME SoloInv, Alone, NEW h \in Handle, pc[h] = "truncated", PartialWrite(h)
  PROVE  /\ UNCHANGED minted /\ intact' = FALSE
         /\ \E p \in Cuts(buf[h]) : file'.lines = p.lines
<1>1. file = EmptyFile
  BY SoloOfOne
<1>2. Differing(file.lines, buf[h].lines) = {}
  BY <1>1, EmptySeq DEF Differing, EmptyFile
<1>3. PICK p \in Cuts(buf[h]) : file' \in Overlay(p, buf[h], EmptyFile) /\ UNCHANGED minted
  BY <1>1, <1>2 DEF PartialWrite
<1>4. buf[h] \in ContentOf(Entry)
  BY DEF SoloInv, IInv, TypeOK
<1>5. p \in ContentOf(Entry)
  BY <1>4, CutsOf
<1>6. file'.lines = p.lines
  BY <1>3, <1>4, <1>5, OverlayOnEmpty
<1> QED BY <1>3, <1>6 DEF PartialWrite

\* What a process that dies leaves is sound, and nobody continues it unread.
LEMMA CrashSolo ==
  ASSUME SoloInv, Alone, UNCHANGED fault, NEW h \in Handle, Crash(h)
  PROVE  SoundInv' /\ AckedInv'
<1>1. pc'[h] = "closed" /\ ~Busy(h)' /\ UNCHANGED <<exists, acked>>
  BY DEF Crash, SoloInv, IInv, TypeOK, Busy
<1>2. CASE pc[h] # "truncated"
  <2>1. UNCHANGED <<file, minted, intact>>
    BY <1>2 DEF Crash
  <2> QED BY <1>1, <1>2, <2>1, SoloOfOne, SoloByOne
<1>3. CASE pc[h] = "truncated"
  <2>1. PartialWrite(h)
    BY <1>3 DEF Crash
  <2>2. PICK p \in Cuts(buf[h]) : file'.lines = p.lines
    BY <1>3, <2>1, CutSolo
  <2>3. UNCHANGED minted /\ intact' = FALSE
    BY <1>3, <2>1, CutSolo
  <2>4. "write_fails" \notin fault => Sound(file'.lines)
    <3> SUFFICES ASSUME "write_fails" \notin fault PROVE Sound(p.lines)
      BY <2>2
    <3>1. buf[h] \in ContentOf(Entry) /\ Sound(buf[h].lines)
      BY <1>3, SoloOfOne DEF SoloInv, IInv, TypeOK, Busy
    <3> QED BY <3>1, CutsSound
  <2> QED BY <1>1, <2>3, <2>4, SoloOfOne, SoloByOne
<1> QED BY <1>2, <1>3

\* A process that lives on after a write that stopped half way is the one case
\* of which nothing more is said.
LEMMA WriteFailsSolo ==
  ASSUME SoloInv, Alone, UNCHANGED fault, NEW h \in Handle, WriteFails(h)
  PROVE  SoundInv' /\ AckedInv'
<1>1. pc[h] = "truncated" /\ pc'[h] = "ready" /\ "write_fails" \in fault /\ PartialWrite(h)
  BY DEF WriteFails, SoloInv, IInv, TypeOK
<1>2. UNCHANGED minted /\ intact' = FALSE
  BY <1>1, CutSolo
<1> QED BY <1>1, <1>2, SoloOfOne, SoloByOne

LEMMA StepSolo ==
  ASSUME SoloInv, Alone, [Next]_vars
  PROVE  SoloInv'
<1>1. IInv'
  BY StepIInv DEF SoloInv
<1>2. ASSUME NEW h \in Handle, Step(h), UNCHANGED fault
      PROVE  SoundInv' /\ AckedInv'
  BY <1>2, OpenSolo, QuietSolo, BeginAppendSolo, WriteAllSolo, CrashSolo, WriteFailsSolo DEF Step
<1>3. CASE UNCHANGED vars
  <2>1. SoundInv'
    BY <1>3 DEF vars, SoloInv, SoundInv, Busy
  <2>2. AckedInv'
    BY <1>3 DEF vars, SoloInv, AckedInv, Busy
  <2> QED BY <1>1, <2>1, <2>2 DEF SoloInv
<1> QED BY <1>1, <1>2, <1>3 DEF Next, SoloInv

LEMMA SoloHolds == Alone /\ Spec => []SoloInv
<1> SUFFICES ASSUME Alone PROVE Spec => []SoloInv
  OBVIOUS
<1>1. Init => SoloInv
  BY InitIInv, InitSolo DEF SoloInv
<1>2. SoloInv /\ [Next]_vars => SoloInv'
  BY StepSolo
<1> QED BY <1>1, <1>2, PTL DEF Spec

----------------------------------------------------------------------------
(* What the one handle's log is, and the abstract log it implements.         *)

LEMMA AckedParses ==
  ASSUME SoloInv
  PROVE  acked \in Seq(Entry) /\ Parses(acked) /\ \A i \in 1..Len(acked) : acked[i] \in Entry
<1>1. acked \in Seq(Entry)
  BY DEF SoloInv, IInv, TypeOK
<1>2. \A i \in 1..Len(acked) : acked[i] \in Entry
  BY <1>1, ElementOfSeq
<1> QED BY <1>1, <1>2, LenProperties, GarbageAssumption DEF Parses

LEMMA SoloIsExactlyAcked == HonestCallers /\ SoloInv => LogIsExactlyAcked
<1> SUFFICES ASSUME HonestCallers, SoloInv, intact, \A h \in Handle : pc[h] # "truncated"
             PROVE  file.lines = acked /\ Verifies(file.lines)
  BY DEF LogIsExactlyAcked
<1>1. file.lines = acked /\ Sound(file.lines)
  BY DEF SoloInv, SoundInv, AckedInv
<1> QED BY <1>1, AckedParses, SoundVerifies

\* A single handle: as long as no write was cut short, the file is between two
\* appends the list of the acknowledged entries, and verifies, however many
\* there are and however many processes died before their write began.
THEOREM LogIsAcked == Alone /\ HonestCallers /\ Spec => []LogIsExactlyAcked
<1> SUFFICES ASSUME Alone, HonestCallers PROVE Spec => []LogIsExactlyAcked
  OBVIOUS
<1>1. SoloInv => LogIsExactlyAcked
  BY SoloIsExactlyAcked
<1> QED BY <1>1, SoloHolds, PTL

LEMMA OpeningStep ==
  ASSUME SoloInv, Alone, HonestCallers, [Next]_vars, intact \/ "write_fails" \notin fault,
         NEW h \in Handle, pc[h] = "closed", pc'[h] = "ready"
  PROVE  Verifies(file'.lines)
<1>1. Next
  BY DEF vars
<1>2. PICK g \in Handle : Step(g)
  BY <1>1 DEF Next
<1>3. g = h
  BY DEF Alone
<1>4. pc \in [Handle -> {"closed", "creating", "ready", "read", "truncated"}]
  BY DEF SoloInv, IInv, TypeOK
<1>5. OpenExisting(h)
  BY <1>2, <1>3, <1>4 DEF Step, OpenMissing, CreateFile, BeginAppend, Truncate, WriteAll,
     OpenFails, WriteFails, Close, Crash
<1>6. file' = file /\ Parses(file.lines)
  BY <1>5 DEF OpenExisting
<1> QED BY <1>6, SoloOfOne, SoundVerifies

\* A single handle, on a machine that may die at every step: open checks neither
\* hashes nor signatures, and yet every log it accepts verifies, unless a write
\* failed in a process that went on.
THEOREM OpenedVerifies == Alone /\ HonestCallers /\ Spec => OpenedLogVerifies
<1> SUFFICES ASSUME Alone, HonestCallers PROVE Spec => OpenedLogVerifies
  OBVIOUS
<1>1. SoloInv /\ [Next]_vars
        => [intact \/ "write_fails" \notin fault =>
              \A h \in Handle : pc[h] = "closed" /\ pc'[h] = "ready" => Verifies(file'.lines)]_vars
  BY OpeningStep
<1> QED BY <1>1, SoloHolds, PTL DEF Spec, OpenedLogVerifies

\* Sequences that agree up to k have the same first k elements.
LEMMA SamePrefix ==
  ASSUME NEW S, NEW s \in Seq(S), NEW t \in Seq(S),
         NEW k \in 0..Len(s), k <= Len(t), \A i \in 1..k : s[i] = t[i]
  PROVE  SubSeq(s, 1, k) = SubSeq(t, 1, k)
<1>1. Len(s) \in Nat /\ Len(t) \in Nat
  BY LenProperties
<1>2. \A i \in 1..k : s[i] \in S /\ t[i] \in S
  BY <1>1, ElementOfSeq
<1>3. /\ SubSeq(s, 1, k) \in Seq(S) /\ Len(SubSeq(s, 1, k)) = k
      /\ \A i \in 1..k : SubSeq(s, 1, k)[i] = s[i]
  BY <1>1, <1>2, SubSeqProperties
<1>4. /\ SubSeq(t, 1, k) \in Seq(S) /\ Len(SubSeq(t, 1, k)) = k
      /\ \A i \in 1..k : SubSeq(t, 1, k)[i] = t[i]
  BY <1>1, <1>2, SubSeqProperties
<1> QED BY <1>3, <1>4, SeqEqual

\* All of a sequence is the sequence.
LEMMA WholePrefix ==
  ASSUME NEW S, NEW s \in Seq(S)
  PROVE  SubSeq(s, 1, Len(s)) = s
<1>1. Len(s) \in Nat /\ \A i \in 1..Len(s) : s[i] \in S
  BY LenProperties, ElementOfSeq
<1>2. /\ SubSeq(s, 1, Len(s)) \in Seq(S) /\ Len(SubSeq(s, 1, Len(s))) = Len(s)
      /\ \A i \in 1..Len(s) : SubSeq(s, 1, Len(s))[i] = s[i]
  BY <1>1, SubSeqProperties
<1> QED BY <1>2, SeqEqual

\* What open can read ends at the first piece of garbage.
LEMMA LeadingIs ==
  ASSUME NEW S, NEW s \in Seq(S), NEW n \in 0..Len(s),
         \A i \in 1..n : s[i] # Garbage,
         n = Len(s) \/ s[n + 1] = Garbage
  PROVE  Leading(s) = SubSeq(s, 1, n)
<1> DEFINE P(k) == (\A i \in 1..k : s[i] # Garbage) /\ (k = Len(s) \/ s[k + 1] = Garbage)
<1>1. Len(s) \in Nat
  BY LenProperties
<1>2. \A k \in 0..Len(s) : P(k) => k = n
  <2> SUFFICES ASSUME NEW k \in 0..Len(s), P(k) PROVE k = n
    OBVIOUS
  <2>1. CASE k < n
    <3>1. k + 1 \in 1..n /\ k # Len(s)
      BY <1>1, <2>1
    <3> QED BY <3>1
  <2>2. CASE n < k
    <3>1. n + 1 \in 1..k /\ n # Len(s)
      BY <1>1, <2>2
    <3> QED BY <3>1
  <2> QED BY <1>1, <2>1, <2>2
<1>3. P(n)
  OBVIOUS
<1>4. (CHOOSE k \in 0..Len(s) : P(k)) = n
  <2> HIDE DEF P
  <2> QED BY <1>2, <1>3
<1> QED BY <1>4 DEF Leading

LEMMA LeadingParsed ==
  ASSUME NEW S, NEW s \in Seq(S), Parses(s)
  PROVE  Leading(s) = s
<1>1. Len(s) \in 0..Len(s) /\ \A i \in 1..Len(s) : s[i] # Garbage
  BY LenProperties DEF Parses
<1> QED BY <1>1, LeadingIs, WholePrefix

\* What can be read of a log that was cut short is its beginning.
LEMMA CutLeading ==
  ASSUME NEW E, NEW w \in ContentOf(E), Parses(w.lines), NEW p \in Cuts(w)
  PROVE  \E n \in 0..Len(w.lines) : Leading(p.lines) = SubSeq(w.lines, 1, n)
<1> DEFINE L == E \cup {Garbage}
<1>1. w.lines \in Seq(L) /\ Len(w.lines) \in Nat /\ \A i \in 1..Len(w.lines) : w.lines[i] # Garbage
  BY LenProperties DEF ContentOf, Parses
<1>2. p.lines \in Seq(L)
  BY CutsOf DEF ContentOf
<1>3. ASSUME NEW n \in 0..Len(w.lines)
      PROVE  /\ SubSeq(w.lines, 1, n) \in Seq(L) /\ Len(SubSeq(w.lines, 1, n)) = n
             /\ \A i \in 1..n : SubSeq(w.lines, 1, n)[i] = w.lines[i]
  <2>1. \A i \in 1..n : w.lines[i] \in L
    BY <1>1, ElementOfSeq
  <2> QED BY <1>1, <2>1, SubSeqProperties
<1>4. \/ \E n \in 0..Len(w.lines) : p.lines = SubSeq(w.lines, 1, n)
      \/ \E n \in 0..Len(w.lines) : p.lines = Append(SubSeq(w.lines, 1, n), Garbage)
  <2>1. \A n \in 1..Len(w.lines) : n \in 0..Len(w.lines) /\ n - 1 \in 0..Len(w.lines)
    BY <1>1
  <2>2. \/ \E n \in 0..Len(w.lines) : p = [lines |-> SubSeq(w.lines, 1, n), nl |-> TRUE]
        \/ \E n \in 1..Len(w.lines) : p = [lines |-> SubSeq(w.lines, 1, n), nl |-> FALSE]
        \/ \E n \in 1..Len(w.lines) :
              p = [lines |-> Append(SubSeq(w.lines, 1, n - 1), Garbage), nl |-> FALSE]
    BY DEF Cuts
  <2>3. CASE \E n \in 0..Len(w.lines) : p = [lines |-> SubSeq(w.lines, 1, n), nl |-> TRUE]
    BY <2>3
  <2>4. CASE \E n \in 1..Len(w.lines) : p = [lines |-> SubSeq(w.lines, 1, n), nl |-> FALSE]
    BY <2>1, <2>4
  <2>5. CASE \E n \in 1..Len(w.lines) :
               p = [lines |-> Append(SubSeq(w.lines, 1, n - 1), Garbage), nl |-> FALSE]
    BY <2>1, <2>5
  <2> QED BY <2>2, <2>3, <2>4, <2>5
<1>5. ASSUME NEW n \in 0..Len(w.lines), n \in 0..Len(p.lines),
             \A i \in 1..n : p.lines[i] = w.lines[i],
             n = Len(p.lines) \/ p.lines[n + 1] = Garbage
      PROVE  Leading(p.lines) = SubSeq(w.lines, 1, n)
  <2>1. \A i \in 1..n : p.lines[i] # Garbage
    BY <1>1, <1>5
  <2>2. Leading(p.lines) = SubSeq(p.lines, 1, n)
    BY <1>2, <1>5, <2>1, LeadingIs
  <2>3. n <= Len(w.lines)
    BY <1>1
  <2> HIDE DEF L
  <2> QED BY <1>1, <1>2, <1>5, <2>2, <2>3, SamePrefix
<1>6. CASE \E n \in 0..Len(w.lines) : p.lines = SubSeq(w.lines, 1, n)
  <2>1. PICK n \in 0..Len(w.lines) : p.lines = SubSeq(w.lines, 1, n)
    BY <1>6
  <2>2. Len(p.lines) = n /\ \A i \in 1..n : p.lines[i] = w.lines[i]
    BY <1>3, <2>1
  <2>3. n \in 0..Len(p.lines)
    BY <1>1, <2>2
  <2> QED BY <1>5, <2>2, <2>3
<1>7. CASE \E n \in 0..Len(w.lines) : p.lines = Append(SubSeq(w.lines, 1, n), Garbage)
  <2>1. PICK n \in 0..Len(w.lines) : p.lines = Append(SubSeq(w.lines, 1, n), Garbage)
    BY <1>7
  <2> DEFINE t == SubSeq(w.lines, 1, n)
  <2>2. t \in Seq(L) /\ Len(t) = n /\ \A i \in 1..n : t[i] = w.lines[i]
    BY <1>3
  <2> HIDE DEF t, L
  <2>3. /\ Len(Append(t, Garbage)) = n + 1 /\ Append(t, Garbage)[n + 1] = Garbage
        /\ \A i \in 1..n : Append(t, Garbage)[i] = w.lines[i]
    BY <2>2, AppendProperties DEF L
  <2>4. p.lines = Append(t, Garbage)
    BY <2>1 DEF t
  <2>5. n \in 0..Len(p.lines)
    BY <1>1, <2>3, <2>4
  <2> QED BY <1>5, <2>3, <2>4, <2>5
<1> QED BY <1>4, <1>6, <1>7

\* The mapping: with the half-done rewrites undone, the log is what was
\* acknowledged.
LEMMA LogicalIsAcked ==
  ASSUME SoloInv, Alone, intact
  PROVE  LogicalLog = acked
<1>1. CASE \E h \in Handle : pc[h] = "truncated"
  <2> DEFINE h == CHOOSE g \in Handle : pc[g] = "truncated"
  <2>1. h \in Handle /\ pc[h] = "truncated"
    BY <1>1
  <2> HIDE DEF h
  <2>2. buf[h].lines = Append(acked, pend[h]) /\ pend[h] \in Entry /\ acked \in Seq(Entry)
    <3>1. Busy(h)
      BY <2>1 DEF Busy
    <3>2. buf[h] = [lines |-> Append(acked, pend[h]), nl |-> TRUE]
      BY <2>1, <3>1, SoloOfOne
    <3> QED BY <2>1, <3>1, <3>2, SoloOfOne
  <2>3. Front(Append(acked, pend[h])) = acked
    <3> DEFINE n == Len(acked)
               t == Append(acked, pend[h])
    <3>1. n \in Nat /\ t \in Seq(Entry) /\ Len(t) = n + 1 /\ \A i \in 1..n : t[i] = acked[i]
      BY <2>2, LenProperties, AppendProperties
    <3>2. Front(t) = SubSeq(t, 1, n)
      <4> HIDE DEF t, n
      <4> QED BY <3>1 DEF Front
    <3>3. SubSeq(t, 1, n) = SubSeq(acked, 1, n)
      <4> HIDE DEF t
      <4> QED BY <2>2, <3>1, SamePrefix
    <3> QED BY <2>2, <3>2, <3>3, WholePrefix
  <2>4. LogicalLog = Front(buf[h].lines)
    BY <1>1 DEF LogicalLog, h
  <2> QED BY <2>2, <2>3, <2>4
<1>2. CASE ~ \E h \in Handle : pc[h] = "truncated"
  <2>1. file.lines = acked
    BY <1>2 DEF SoloInv, AckedInv
  <2> QED BY <1>2, <2>1, AckedParses, LeadingParsed DEF LogicalLog
<1> QED BY <1>1, <1>2

LEMMA LogicalIsAckedNext ==
  Alone => (SoloInv /\ intact => LogicalLog = acked)'
<1> SUFFICES ASSUME Alone
             PROVE  (SoloInv /\ intact => LogicalLog = acked)'
  OBVIOUS
<1>1. SoloInv /\ intact => LogicalLog = acked
  BY LogicalIsAcked
<1> QED BY <1>1, PTL

\* Only the completion of an append acknowledges an entry, and only a write cut
\* short ends the promise.
LEMMA AckedGrows ==
  ASSUME SoloInv, [Next]_vars, acked' # acked
  PROVE  \E h \in Handle : WriteAll(h)
BY DEF Next, vars, Step, OpenExisting, OpenMissing, CreateFile, BeginAppend, Truncate,
   OpenFails, WriteFails, Close, Crash

LEMMA IntactEnds ==
  ASSUME SoloInv, [Next]_vars, intact' # intact
  PROVE  \E h \in Handle : pc[h] = "truncated" /\ PartialWrite(h) /\ pc'[h] # "truncated"
<1>1. PICK h \in Handle : WriteFails(h) \/ Crash(h)
  BY DEF Next, vars, Step, OpenExisting, OpenMissing, CreateFile, BeginAppend, Truncate,
     OpenFails, WriteAll, Close
<1>2. pc \in [Handle -> {"closed", "creating", "ready", "read", "truncated"}]
  BY DEF SoloInv, IInv, TypeOK
<1> QED BY <1>1, <1>2 DEF WriteFails, Crash

\* The entry in flight is the one that the log grows by.
LEMMA OneMore ==
  ASSUME SoloInv, Alone, intact, LogicalLog = acked,
         NEW h \in Handle, Busy(h), LogicalLog' = Append(LogicalLog, pend[h])
  PROVE  Promise!Grows
<1> DEFINE e == pend[h]
           n == Len(acked)
<1>1. /\ e \in Entry /\ e.prev = tail[h].hash /\ e.seq = tail[h].seq
      /\ tail[h] = TailOf(acked) /\ TailOf(acked).seq = n
  BY SoloOfOne DEF Busy
<1>2. acked \in Seq(Entry) /\ n \in Nat
  BY AckedParses, LenProperties
<1>3. LogicalLog'[n + 1] = e /\ n + 1 \in DOMAIN LogicalLog'
  <2>1. Append(acked, e) \in Seq(Entry) /\ Len(Append(acked, e)) = n + 1
        /\ Append(acked, e)[n + 1] = e
    BY <1>1, <1>2, AppendProperties
  <2>2. DOMAIN Append(acked, e) = 1..n + 1
    BY <2>1, LenProperties
  <2> QED BY <1>2, <2>1, <2>2
<1>4. Promise!Follows(e, acked)
  <2>1. e.prev = IF acked = <<>> THEN Genesis ELSE acked[n].hash
    BY <1>1 DEF TailOf, TailAfter, GenesisTail
  <2> QED BY <1>1, <2>1 DEF Promise!Follows
<1>5. e \in {LogicalLog'[i] : i \in DOMAIN LogicalLog'}
  BY <1>3
<1> QED BY <1>1, <1>4, <1>5 DEF Promise!Grows

LEMMA AppendStep ==
  ASSUME SoloInv, Alone, [Next]_vars, intact, intact'
  PROVE  [Promise!AppendEntry]_<<LogicalLog, intact>>
<1>1. LogicalLog = acked /\ LogicalLog' = acked'
  BY StepSolo, LogicalIsAcked, LogicalIsAckedNext
<1>2. intact' = intact
  BY DEF SoloInv, IInv, TypeOK, Next, vars, Step, OpenExisting, OpenMissing, CreateFile,
     BeginAppend, Truncate, WriteAll, OpenFails, WriteFails, Close, Crash, PartialWrite
<1>3. CASE acked' = acked
  BY <1>1, <1>2, <1>3
<1>4. CASE acked' # acked
  <2>1. PICK h \in Handle : WriteAll(h)
    BY <1>4, AckedGrows
  <2>2. acked' = Append(acked, pend[h])
    BY <2>1 DEF WriteAll
  <2>3. Busy(h)
    BY <2>1 DEF WriteAll, Busy
  <2>4. LogicalLog' = Append(LogicalLog, pend[h])
    BY <1>1, <2>2
  <2> QED BY <1>1, <2>3, <2>4, OneMore DEF Promise!AppendEntry
<1> QED BY <1>3, <1>4

\* A write that stops half way leaves a beginning of the log and the new entry.
LEMMA CutStep ==
  ASSUME SoloInv, Alone, [Next]_vars, intact, ~intact'
  PROVE  Promise!CutShort
<1>1. PICK h \in Handle : pc[h] = "truncated" /\ PartialWrite(h) /\ pc'[h] # "truncated"
  BY IntactEnds
<1> DEFINE e == pend[h]
           w == buf[h]
<1>2. Busy(h) /\ e \in Entry /\ w = [lines |-> Append(acked, e), nl |-> TRUE] /\ acked \in Seq(Entry)
  BY <1>1, SoloOfOne DEF Busy
<1>3. PICK p \in Cuts(w) : file'.lines = p.lines
  BY <1>1, CutSolo
<1>4. LogicalLog = acked /\ LogicalLog' = Leading(p.lines)
  <2>1. LogicalLog' = Leading(file'.lines)
    BY DEF LogicalLog
  <2> QED BY <1>3, <2>1, LogicalIsAcked
<1> HIDE DEF e
<1>5. /\ w.lines = Append(acked, e) /\ w.lines \in Seq(Entry)
      /\ Len(acked) \in Nat /\ Len(w.lines) = Len(acked) + 1
      /\ \A i \in 1..Len(acked) : w.lines[i] = acked[i]
  BY <1>2, LenProperties, AppendProperties
<1>6. Parses(w.lines) /\ w \in ContentOf(Entry)
  <2>1. \A i \in DOMAIN w.lines : w.lines[i] \in Entry
    BY <1>5, LenProperties, ElementOfSeq
  <2>2. w \in ContentOf(Entry)
    BY DEF SoloInv, IInv, TypeOK
  <2> QED BY <2>1, <2>2, GarbageAssumption DEF Parses
<1> HIDE DEF w
<1>7. PICK n \in 0..Len(w.lines) : Leading(p.lines) = SubSeq(w.lines, 1, n)
  BY <1>6, CutLeading
<1>8. CASE n = Len(w.lines)
  <2>1. LogicalLog' = Append(LogicalLog, e)
    BY <1>4, <1>5, <1>7, <1>8, WholePrefix
  <2> QED BY <1>2, <1>4, <2>1, OneMore DEF Promise!CutShort, e
<1>9. CASE n # Len(w.lines)
  <2>1. n \in 0..Len(acked) /\ n <= Len(w.lines)
    BY <1>5, <1>9
  <2>2. \A i \in 1..n : acked[i] = w.lines[i]
    BY <1>5, <2>1
  <2>3. SubSeq(w.lines, 1, n) = SubSeq(acked, 1, n)
    BY <1>2, <1>5, <2>1, <2>2, SamePrefix
  <2> QED BY <1>4, <1>7, <2>1, <2>3 DEF Promise!CutShort
<1> QED BY <1>8, <1>9

LEMMA AppendOnlyStep ==
  ASSUME SoloInv, Alone, [Next]_vars
  PROVE  [Promise!AppendEntry \/ Promise!CutShort \/ Promise!Broken]_<<LogicalLog, intact>>
<1>1. CASE intact /\ intact'
  BY <1>1, AppendStep
<1>2. CASE intact /\ ~intact'
  BY <1>2, CutStep
<1>3. CASE ~intact
  <2>1. ~intact'
    <3> SUFFICES ASSUME intact' PROVE FALSE
      OBVIOUS
    <3>1. intact' # intact
      BY <1>3 DEF SoloInv, IInv, TypeOK
    <3> QED BY <3>1, IntactEnds DEF PartialWrite
  <2> QED BY <1>3, <2>1 DEF Promise!Broken
<1> QED BY <1>1, <1>2, <1>3

\* A single handle implements the abstract append-only log: although every
\* append rewrites the file, the log only ever grows by one entry that follows
\* its last one.  Calls that fail and processes that die before the write
\* begins do not show; the first write that is cut short loses entries from the
\* end only, and after it nothing more is promised.
THEOREM ImplementsAppendOnlyLog == Alone /\ Spec => AppendOnly
<1> SUFFICES ASSUME Alone PROVE Spec => AppendOnly
  OBVIOUS
<1>1. Init => Promise!Init
  <2>1. Init => LogicalLog = Leading(<<>>)
    BY DEF Init, LogicalLog, EmptyFile
  <2>2. Leading(<<>>) = <<>>
    <3>1. <<>> \in Seq(Entry) /\ DOMAIN <<>> = {}
      BY EmptySeq, LenProperties
    <3>2. Parses(<<>>)
      BY <3>1 DEF Parses
    <3> QED BY <3>1, <3>2, LeadingParsed
  <2> QED BY <2>1, <2>2 DEF Init, Promise!Init
<1>2. SoloInv /\ [Next]_vars
        => [Promise!AppendEntry \/ Promise!CutShort \/ Promise!Broken]_<<LogicalLog, intact>>
  BY AppendOnlyStep
<1> QED BY <1>1, <1>2, SoloHolds, PTL DEF Spec, AppendOnly, Promise!Spec

=============================================================================
