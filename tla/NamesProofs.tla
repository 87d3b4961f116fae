---------------------------- MODULE NamesProofs ----------------------------
(* Theorems about Names, for every limit.                                   *)
EXTENDS Names, FiniteSetTheorems, TLAPS

\* What can be typed stays within its bound.
LEMMA StepTypeOK == TypeOK /\ [Next]_vars => TypeOK'
<1> SUFFICES ASSUME TypeOK, [Next]_vars PROVE TypeOK'
  OBVIOUS
<1> USE DEF TypeOK, Text
<1>1. CASE Erase
  BY <1>1, LimitAssumption DEF Erase
<1>2. ASSUME NEW ch \in Char, Type(ch)
      PROVE  TypeOK'
  BY <1>2, LimitAssumption DEF Type
<1>3. CASE UNCHANGED vars
  BY <1>3 DEF vars
<1> QED BY <1>1, <1>2, <1>3 DEF Next

LEMMA InitTypeOK == Init => TypeOK
BY LimitAssumption DEF Init, TypeOK, Text

\* The text being typed is a text within its bound, for every bound.
LEMMA TypeCorrect == Spec => []TypeOK
BY InitTypeOK, StepTypeOK, PTL DEF Spec

----------------------------------------------------------------------------
\* The two ways of looking at the first character agree: the slug rule names
\* what it may be, the tenant rule only that it is no dash.
LEMMA FirstCharacter ==
  ASSUME NEW t \in Text, Len(t) >= 1, Only(t, NameChar)
  PROVE  t[1] \in Lower \cup Digit <=> t[1] # "-"
BY DEF Text, Only, NameChar, Lower, Digit

LEMMA SlugIsShortTenant ==
  ASSUME NEW t \in Text
  PROVE  ValidSlug(t) <=> ValidTenant(t) /\ Len(t) <= SlugMax
<1>1. Len(t) \in Nat
  BY DEF Text
<1>2. CASE Len(t) \in 1..SlugMax /\ Only(t, NameChar)
  BY <1>1, <1>2, FirstCharacter, LimitAssumption DEF ValidSlug, ValidTenant
<1>3. CASE ~(Len(t) \in 1..SlugMax /\ Only(t, NameChar))
  BY <1>1, <1>3, LimitAssumption DEF ValidSlug, ValidTenant
<1> QED BY <1>2, <1>3

LEMMA BranchIsTenant ==
  ASSUME NEW t \in Text
  PROVE  ValidBranch(t) <=> /\ ValidTenant(t) /\ Len(t) <= BranchMax
                            /\ t[1] \in Lower
<1>1. Len(t) \in Nat /\ DOMAIN t = 1..Len(t)
  BY DEF Text
<1>2. ASSUME t[1] \in Lower
      PROVE  (\A i \in DOMAIN t : i > 1 => t[i] \in NameChar) <=> Only(t, NameChar)
  BY <1>1, <1>2 DEF Only, NameChar
<1>3. t[1] \in Lower => t[1] # "-"
  BY DEF Lower
<1> QED BY <1>1, <1>2, <1>3, LimitAssumption DEF ValidBranch, ValidTenant

\* The rules of the three crates are one rule, whatever the limits: a slug is
\* a short tenant, a branch a tenant that begins with a letter.
THEOREM OneRule == Spec => []OneNameRule
<1>1. TypeOK => OneNameRule
  BY SlugIsShortTenant, BranchIsTenant DEF TypeOK, OneNameRule
<1> QED BY <1>1, TypeCorrect, PTL

----------------------------------------------------------------------------
LEMMA LowerCaseOf ==
  ASSUME NEW a \in Char, NEW b \in Char
  PROVE  /\ LowerCase(a) \in Char
         /\ LowerCase(LowerCase(a)) = LowerCase(a)
         /\ LowerCase(a) = LowerCase(b)
              <=> a = b \/ {a, b} \in {{"a", "A"}, {"g", "G"}}
         /\ a \in Digit \cup {"a", "A"} => LowerCase(a) \in Digit \cup {"a", "A"}
<1>1. a \in {"a", "g", "A", "G", "0", "-", "_", ".", "/"}
      /\ b \in {"a", "g", "A", "G", "0", "-", "_", ".", "/"}
  BY DEF Char, Lower, Upper, Digit
<1>2. LowerCase(a) \in Char /\ LowerCase(LowerCase(a)) = LowerCase(a)
  BY <1>1 DEF LowerCase, Char, Lower, Upper, Digit
<1>3. a \in Digit \cup {"a", "A"} => LowerCase(a) \in Digit \cup {"a", "A"}
  BY <1>1 DEF LowerCase, Digit
<1>4. LowerCase(a) = LowerCase(b) => a = b \/ {a, b} \in {{"a", "A"}, {"g", "G"}}
  BY <1>1 DEF LowerCase
<1>5. {a, b} = {"a", "A"} => LowerCase(a) = LowerCase(b)
  BY <1>1 DEF LowerCase
<1>6. {a, b} = {"g", "G"} => LowerCase(a) = LowerCase(b)
  BY <1>1 DEF LowerCase
<1> QED BY <1>2, <1>3, <1>4, <1>5, <1>6

LEMMA LoweredOf ==
  ASSUME NEW t \in Text
  PROVE  /\ Lowered(t) \in Text /\ Len(Lowered(t)) = Len(t)
         /\ DOMAIN Lowered(t) = DOMAIN t
         /\ \A i \in DOMAIN t : t[i] \in Char /\ Lowered(t)[i] = LowerCase(t[i])
<1>1. Len(t) \in Nat /\ DOMAIN t = 1..Len(t) /\ \A i \in DOMAIN t : t[i] \in Char
  BY DEF Text
<1>2. \A i \in DOMAIN t : LowerCase(t[i]) \in Char
  BY <1>1, LowerCaseOf
<1> QED BY <1>1, <1>2 DEF Lowered, Text

\* The keys of a version graph: what parse makes of a valid text is valid, is
\* its own parse, and is shared exactly by the texts with the same letters.
THEOREM HashKeys == Spec => []HashesAreKeys
<1>1. ASSUME NEW t \in Text, ValidHash(t)
      PROVE  ValidHash(ParseHash(t)) /\ ParseHash(ParseHash(t)) = ParseHash(t)
  <2>1. Len(Lowered(t)) = HashLength
    BY <1>1, LoweredOf DEF ValidHash
  <2>2. Only(Lowered(t), Digit \cup {"a", "A"})
    BY <1>1, LoweredOf, LowerCaseOf DEF ValidHash, Only
  <2>3. Lowered(Lowered(t)) = Lowered(t)
    <3>1. \A i \in DOMAIN t : LowerCase(LowerCase(t[i])) = LowerCase(t[i])
      BY LoweredOf, LowerCaseOf
    <3> QED BY <3>1, LoweredOf DEF Lowered
  <2> QED BY <2>1, <2>2, <2>3 DEF ValidHash, ParseHash
<1>2. ASSUME NEW t \in Text, NEW u \in Text, ValidHash(t), ValidHash(u)
      PROVE  ParseHash(t) = ParseHash(u) <=> SameLetters(t, u)
  <2>1. Len(t) = Len(u) /\ DOMAIN t = DOMAIN u
    BY <1>2 DEF ValidHash, Text
  <2>2. Lowered(t) = Lowered(u) <=> \A i \in DOMAIN t : LowerCase(t[i]) = LowerCase(u[i])
    BY <2>1, LoweredOf DEF Lowered
  <2>3. \A i \in DOMAIN t : LowerCase(t[i]) = LowerCase(u[i])
          <=> t[i] = u[i] \/ {t[i], u[i]} \in {{"a", "A"}, {"g", "G"}}
    BY <2>1, LoweredOf, LowerCaseOf
  <2> QED BY <2>1, <2>2, <2>3 DEF ParseHash, SameLetters
<1>3. \A t \in Typeable : t \in Text
  BY LimitAssumption DEF Typeable, Text
<1>4. TypeOK => HashesAreKeys
  BY <1>1, <1>2, <1>3 DEF TypeOK, HashesAreKeys
<1> QED BY <1>4, TypeCorrect, PTL

----------------------------------------------------------------------------
(* The paths.  An accepted name has no slash, so it is one part, and no     *)
(* letter that folding would change.                                        *)

Word == {"store", "sites", "tenants", "pages", "site", "toml", "db"}
Component == Seq(Char \cup Word)
Suffix == {<<>>, <<".", "toml">>, <<".", "db">>}

\* a name of its own: neither a directory itself nor the one above
Proper(c) == c \notin {<<>>, <<".">>, <<".", ".">>}

Accepted(t) == t \in Text /\ Len(t) >= 1 /\ Only(t, NameChar)

\* An accepted name, or one with a suffix.
FileChar == NameChar \cup {".", "toml", "db"}
FileName(t) == t \in Seq(FileChar) /\ t # <<>>

LEMMA OnePart ==
  ASSUME NEW t, FileName(t)
  PROVE  Parts(t) = <<t>>
<1> DEFINE n == Len(t)
<1>1. n \in Nat \ {0} /\ \A i \in DOMAIN t : t[i] \in FileChar
  BY DEF FileName
<1>2. Slashes(t) = {}
  BY <1>1 DEF Slashes, FileChar, NameChar, Lower, Digit
<1>3. Cuts(t) = {0, n + 1}
  BY <1>2 DEF Cuts
<1>4. CutsBefore(t, 0) = 0
  <2>1. {j \in Cuts(t) : j < 0} = {}
    BY <1>1, <1>3
  <2> QED BY <2>1, FS_EmptySet DEF CutsBefore
<1>5. CutsBefore(t, n + 1) = 1
  <2>1. {j \in Cuts(t) : j < n + 1} = {0}
    BY <1>1, <1>3
  <2> QED BY <2>1, FS_Singleton DEF CutsBefore
<1>6. Cut(t, 0) = 0 /\ Cut(t, 1) = n + 1
  BY <1>3, <1>4, <1>5 DEF Cut
<1>7. Cardinality(Slashes(t)) + 1 = 1
  BY <1>2, FS_EmptySet
<1>8. Parts(t) = [k \in 1..1 |-> SubSeq(t, Cut(t, k - 1) + 1, Cut(t, k) - 1)]
  BY <1>7 DEF Parts
<1>9. SubSeq(t, 0 + 1, n + 1 - 1) = t
  BY <1>1 DEF FileName
<1>10. \A k \in 1..1 : SubSeq(t, Cut(t, k - 1) + 1, Cut(t, k) - 1) = t
  BY <1>6, <1>9
<1>11. Parts(t) = [k \in 1..1 |-> t]
  BY <1>8, <1>10
<1>12. [k \in 1..1 |-> t] = <<t>>
  OBVIOUS
<1> QED BY <1>11, <1>12

LEMMA JoinName ==
  ASSUME NEW t, FileName(t), NEW path
  PROVE  JoinPath(path, t) = path \o <<t>>
<1>1. t # <<>> /\ t[1] # "/"
  BY DEF FileName, FileChar, NameChar, Lower, Digit
<1> QED BY <1>1, OnePart DEF JoinPath

LEMMA AcceptedNames ==
  ASSUME NEW t \in Text
  PROVE  (ValidSlug(t) => Accepted(t)) /\ (ValidTenant(t) => Accepted(t))
BY LimitAssumption DEF ValidSlug, ValidTenant, Accepted, Text

\* Folding changes nothing in a name of lower case.
LEMMA LoweredSame ==
  ASSUME NEW t \in Seq(FileChar)
  PROVE  Lowered(t) = t
<1>1. \A c \in FileChar : LowerCase(c) = c
  BY DEF LowerCase, FileChar, NameChar, Lower, Digit
<1>2. \A i \in DOMAIN t : LowerCase(t[i]) = t[i]
  BY <1>1
<1>3. t = [i \in DOMAIN t |-> t[i]]
  OBVIOUS
<1> QED BY <1>2, <1>3 DEF Lowered

\* An accepted name, with or without a suffix, is a name of a file.
LEMMA NameOf ==
  ASSUME NEW t, Accepted(t), NEW suffix \in Suffix
  PROVE  /\ FileName(t \o suffix) /\ t \o suffix \in Component
         /\ Lowered(t \o suffix) = t \o suffix
         /\ Proper(t \o suffix)
<1>1. t \in Seq(NameChar) /\ Len(t) >= 1 /\ Len(t) \in Nat
  <2>1. DOMAIN t = 1..Len(t) /\ Len(t) \in Nat /\ \A i \in 1..Len(t) : t[i] \in NameChar
    BY DEF Accepted, Only, Text
  <2> QED BY <2>1 DEF Accepted, Text
<1>2. suffix \in Seq({".", "toml", "db"})
  <2>1. CASE suffix = <<>>
    BY <2>1
  <2>2. CASE suffix = <<".", "toml">>
    BY <2>2
  <2>3. CASE suffix = <<".", "db">>
    BY <2>3
  <2> QED BY <2>1, <2>2, <2>3 DEF Suffix
<1>3. PICK f : f = t \o suffix
  OBVIOUS
<1>4. f \in Seq(FileChar) /\ Len(f) >= 1 /\ f[1] = t[1] /\ t[1] \in NameChar
  BY <1>1, <1>2, <1>3 DEF FileChar
<1>5. f \in Component
  <2>1. FileChar \subseteq Char \cup Word
    BY DEF FileChar, Word, Char, NameChar
  <2> QED BY <1>4, <2>1 DEF Component
<1>6. t[1] # "."
  BY <1>4 DEF NameChar, Lower, Digit
<1>7. Proper(f)
  BY <1>4, <1>6 DEF Proper
<1>8. FileName(f) /\ Lowered(f) = f
  BY <1>4, LoweredSame DEF FileName
<1> QED BY <1>3, <1>5, <1>7, <1>8

LEMMA PlainName ==
  ASSUME NEW t, Accepted(t)
  PROVE  /\ FileName(t) /\ t \in Component /\ Lowered(t) = t
         /\ Proper(t)
<1>1. t \o <<>> = t /\ <<>> \in Suffix
  BY DEF Accepted, Text, Suffix
<1> QED BY <1>1, NameOf

\* Two accepted names, with one suffix, are two.
LEMMA NamesDiffer ==
  ASSUME NEW t, NEW u, Accepted(t), Accepted(u), t # u, NEW suffix \in Suffix
  PROVE  t \o suffix # u \o suffix
<1>1. t \in Seq(Char) /\ u \in Seq(Char) /\ suffix \in Seq({".", "toml", "db"})
  <2>1. CASE suffix = <<>>
    BY <2>1 DEF Accepted, Text
  <2>2. CASE suffix = <<".", "toml">>
    BY <2>2 DEF Accepted, Text
  <2>3. CASE suffix = <<".", "db">>
    BY <2>3 DEF Accepted, Text
  <2> QED BY <2>1, <2>2, <2>3 DEF Suffix
<1>2. CASE Len(t) # Len(u)
  BY <1>1, <1>2
<1>3. CASE Len(t) = Len(u)
  <2>1. PICK i \in 1..Len(t) : t[i] # u[i]
    BY <1>1, <1>3
  <2>2. (t \o suffix)[i] = t[i] /\ (u \o suffix)[i] = u[i]
    BY <1>1, <1>3, <2>1
  <2> QED BY <2>1, <2>2
<1> QED BY <1>2, <1>3

\* A component added to a path.
LEMMA Added ==
  ASSUME NEW path \in Seq(Component), NEW k \in Nat, Len(path) = k, NEW c \in Component
  PROVE  /\ path \o <<c>> \in Seq(Component) /\ Len(path \o <<c>>) = k + 1
         /\ Proper(c) => DirectlyIn(path \o <<c>>, path)
         /\ Folded(path \o <<c>>)[k + 1] = Lowered(c)
<1>1. PICK p : p = path \o <<c>>
  OBVIOUS
<1>2. /\ p \in Seq(Component) /\ Len(p) = Len(path) + 1
      /\ SubSeq(p, 1, Len(path)) = path /\ p[Len(path) + 1] = c
      /\ Len(path) + 1 \in DOMAIN p
  BY <1>1
<1> QED BY <1>1, <1>2 DEF DirectlyIn, Folded, Proper

\* The paths of accepted names.
LEMMA Roots ==
  /\ Sites \in Seq(Component) /\ Len(Sites) = 2
  /\ Tenants \in Seq(Component) /\ Len(Tenants) = 1
  /\ <<"pages">> \in Component /\ <<"site", ".", "toml">> \in Component
<1>1. /\ <<"store">> \in Component /\ <<"sites">> \in Component /\ <<"tenants">> \in Component
      /\ <<"pages">> \in Component /\ <<"site", ".", "toml">> \in Component
  BY DEF Component, Word, Char
<1> QED BY <1>1 DEF Sites, Tenants

LEMMA SitePaths ==
  ASSUME NEW s, Accepted(s)
  PROVE  /\ DirectlyIn(SiteDir(s), Sites) /\ Folded(SiteDir(s))[3] = s
         /\ PagesDir(s) \in Seq(Component) /\ Len(PagesDir(s)) = 4
         /\ Len(SiteMetaPath(s)) = 4
<1>1. SiteDir(s) = Sites \o <<s>>
  BY PlainName, JoinName DEF SiteDir
<1>2. s \in Component /\ Proper(s) /\ Lowered(s) = s
  BY PlainName
<1>3. /\ Sites \o <<s>> \in Seq(Component) /\ Len(Sites \o <<s>>) = 2 + 1
      /\ DirectlyIn(Sites \o <<s>>, Sites) /\ Folded(Sites \o <<s>>)[2 + 1] = s
  BY <1>2, Roots, Added
<1>4. /\ SiteDir(s) \in Seq(Component) /\ Len(SiteDir(s)) = 3
      /\ DirectlyIn(SiteDir(s), Sites) /\ Folded(SiteDir(s))[3] = s
  BY <1>1, <1>3
<1>5. PICK dir \in Seq(Component) : dir = SiteDir(s) /\ Len(dir) = 3
  BY <1>4
<1>6. ASSUME NEW c \in Component
      PROVE  Append(dir, c) \in Seq(Component) /\ Len(Append(dir, c)) = 4
  <2>1. Len(dir) = 3
    BY <1>5
  <2>2. Append(dir, c) \in Seq(Component) /\ Len(Append(dir, c)) = Len(dir) + 1
    OBVIOUS
  <2> QED BY <2>1, <2>2
<1>7. /\ PagesDir(s) \in Seq(Component) /\ Len(PagesDir(s)) = 4
      /\ Len(SiteMetaPath(s)) = 4
  BY <1>5, <1>6, Roots DEF PagesDir, SiteMetaPath
<1> QED BY <1>4, <1>7

LEMMA TenantPaths ==
  ASSUME NEW s, Accepted(s)
  PROVE  /\ DirectlyIn(TenantPath(s), Tenants)
         /\ Folded(TenantPath(s))[2] = s \o <<".", "db">>
<1>1. PICK f : f = s \o <<".", "db">>
  OBVIOUS
<1>2. f \in Component /\ Proper(f) /\ Lowered(f) = f /\ FileName(f)
  BY <1>1, NameOf DEF Suffix
<1>3. TenantPath(s) = Tenants \o <<f>>
  BY <1>1, <1>2, JoinName DEF TenantPath
<1>4. DirectlyIn(Tenants \o <<f>>, Tenants) /\ Folded(Tenants \o <<f>>)[1 + 1] = f
  <2>1. Tenants \in Seq(Component) /\ Len(Tenants) = 1 /\ 1 \in Nat
    BY Roots
  <2>2. /\ Proper(f) => DirectlyIn(Tenants \o <<f>>, Tenants)
        /\ Folded(Tenants \o <<f>>)[1 + 1] = Lowered(f)
    BY <1>2, <2>1, Added
  <2> QED BY <1>2, <2>2
<1>5. Folded(TenantPath(s))[2] = f
  BY <1>3, <1>4
<1> QED BY <1>1, <1>3, <1>4, <1>5

LEMMA PagePaths ==
  ASSUME NEW s, NEW t, Accepted(s), Accepted(t)
  PROVE  /\ DirectlyIn(PagePath(s, t), PagesDir(s)) /\ Len(PagePath(s, t)) = 5
         /\ Folded(PagePath(s, t))[5] = t \o <<".", "toml">>
<1>1. PICK f : f = t \o <<".", "toml">>
  OBVIOUS
<1>2. f \in Component /\ Proper(f) /\ Lowered(f) = f /\ FileName(f)
  BY <1>1, NameOf DEF Suffix
<1>3. PICK dir \in Seq(Component) : dir = PagesDir(s) /\ Len(dir) = 4
  BY SitePaths
<1>4. PagePath(s, t) = dir \o <<f>>
  BY <1>1, <1>2, <1>3, JoinName DEF PagePath
<1>5. /\ DirectlyIn(dir \o <<f>>, dir) /\ Len(dir \o <<f>>) = 4 + 1
      /\ Folded(dir \o <<f>>)[4 + 1] = f
  <2>1. /\ Len(dir \o <<f>>) = 4 + 1 /\ (Proper(f) => DirectlyIn(dir \o <<f>>, dir))
        /\ Folded(dir \o <<f>>)[4 + 1] = Lowered(f)
    BY <1>2, <1>3, 4 \in Nat, Added
  <2> QED BY <1>2, <2>1
<1>6. Len(PagePath(s, t)) = 5 /\ Folded(PagePath(s, t))[5] = f
  BY <1>4, <1>5
<1> QED BY <1>1, <1>3, <1>4, <1>5, <1>6

\* "A name cannot climb out of its directory", whatever the limits: accepted
\* sites, pages and tenants lie directly where the code looks for them, and two
\* of them never meet, whether or not the file system heeds letter case.
THEOREM NamesKeep == Spec => []NamesKeepToThemselves
<1>1. ASSUME NEW s, NEW t, Accepted(s), Accepted(t)
      PROVE  SiteMetaPath(s) # PagePath(t, s)
  <2>1. Len(SiteMetaPath(s)) = 4 /\ Len(PagePath(t, s)) = 5
    BY <1>1, SitePaths, PagePaths
  <2> QED BY <2>1
<1>2. ASSUME NEW s, NEW t, Accepted(s), Accepted(t), s # t
      PROVE  /\ Folded(SiteDir(t)) # Folded(SiteDir(s))
             /\ Folded(PagePath(s, t)) # Folded(PagePath(s, s))
             /\ Folded(TenantPath(t)) # Folded(TenantPath(s))
  <2>1. Folded(SiteDir(t)) # Folded(SiteDir(s))
    <3>1. Folded(SiteDir(t))[3] = t /\ Folded(SiteDir(s))[3] = s
      BY <1>2, SitePaths
    <3> QED BY <1>2, <3>1
  <2>2. Folded(PagePath(s, t)) # Folded(PagePath(s, s))
    <3>1. Folded(PagePath(s, t))[5] # Folded(PagePath(s, s))[5]
      BY <1>2, PagePaths, NamesDiffer DEF Suffix
    <3> QED BY <3>1
  <2>3. Folded(TenantPath(t)) # Folded(TenantPath(s))
    <3>1. Folded(TenantPath(t))[2] # Folded(TenantPath(s))[2]
      BY <1>2, TenantPaths, NamesDiffer DEF Suffix
    <3> QED BY <3>1
  <2> QED BY <2>1, <2>2, <2>3
<1>3. \A t \in Typeable : t \in Text
  BY LimitAssumption DEF Typeable, Text
<1>4. TypeOK => NamesKeepToThemselves
  <2> SUFFICES ASSUME TypeOK PROVE NamesKeepToThemselves
    OBVIOUS
  <2>1. typed \in Text
    BY DEF TypeOK
  <2>2. ASSUME ValidSlug(typed)
        PROVE  /\ DirectlyIn(SiteDir(typed), Sites)
               /\ \A t \in Typeable : ValidSlug(t) /\ t # typed =>
                    /\ Folded(SiteDir(t)) # Folded(SiteDir(typed))
                    /\ DirectlyIn(PagePath(typed, t), PagesDir(typed))
                    /\ Folded(PagePath(typed, t)) # Folded(PagePath(typed, typed))
                    /\ SiteMetaPath(typed) # PagePath(t, typed)
    <3>1. Accepted(typed) /\ \A t \in Typeable : ValidSlug(t) => Accepted(t)
      BY <1>3, <2>1, <2>2, AcceptedNames
    <3> QED BY <1>1, <1>2, <3>1, SitePaths, PagePaths
  <2>3. ASSUME ValidTenant(typed)
        PROVE  /\ DirectlyIn(TenantPath(typed), Tenants)
               /\ \A t \in Typeable : ValidTenant(t) /\ t # typed =>
                    Folded(TenantPath(t)) # Folded(TenantPath(typed))
    <3>1. Accepted(typed) /\ \A t \in Typeable : ValidTenant(t) => Accepted(t)
      BY <1>3, <2>1, <2>3, AcceptedNames
    <3> QED BY <1>2, <3>1, TenantPaths
  <2> QED BY <2>2, <2>3 DEF NamesKeepToThemselves
<1> QED BY <1>4, TypeCorrect, PTL

=============================================================================
