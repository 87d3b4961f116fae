------------------------------- MODULE Names -------------------------------
(***************************************************************************)
(* The names that callers type: site and page slugs (page.rs, storage.rs), *)
(* tenants (cms-admin-auth), branches and version hashes (cms-collab).     *)
(* Each crate checks them with a loop of its own; accepted slugs and       *)
(* tenants become paths, accepted hashes become keys.                      *)
(*                                                                         *)
(* A text is a sequence of characters, of which there is one of each sort  *)
(* that a check, a path or letter case tells apart.                        *)
(***************************************************************************)
EXTENDS Naturals, Sequences, FiniteSets

CONSTANTS
  SlugMax,     \* 41
  TenantMax,   \* 64
  BranchMax,   \* 64
  HashLength,  \* 64
  MaxTyped     \* bound on the texts that are typed

ASSUME LimitAssumption ==
  /\ {SlugMax, TenantMax, BranchMax, HashLength, MaxTyped} \subseteq Nat \ {0}
  /\ SlugMax <= TenantMax /\ BranchMax <= TenantMax

\* "a" and "A" are hexadecimal digits, "g" and "G" are not
Lower == {"a", "g"}
Upper == {"A", "G"}
Digit == {"0"}
Char == Lower \cup Upper \cup Digit \cup {"-", "_", ".", "/"}
Text == Seq(Char)

VARIABLE typed   \* the text typed so far
vars == <<typed>>

Init == typed = <<>>
Type(ch) == Len(typed) < MaxTyped /\ typed' = Append(typed, ch)
Erase == typed # <<>> /\ typed' = SubSeq(typed, 1, Len(typed) - 1)
Next == Erase \/ \E ch \in Char : Type(ch)
Spec == Init /\ [][Next]_vars

----------------------------------------------------------------------------
(* The checks                                                               *)

Only(t, chars) == \A i \in DOMAIN t : t[i] \in chars
DoubleDash(t) == \E i \in DOMAIN t : i > 1 /\ t[i - 1] = "-" /\ t[i] = "-"
NameChar == Lower \cup Digit \cup {"-"}

\* mutated: the last character is not looked at
MutValidSlug(t) ==
  /\ Len(t) \in 1..SlugMax
  /\ t[1] \in Lower \cup Digit
  /\ Only(t, NameChar)
  /\ ~DoubleDash(t)

\* mutated: the characters after the first are not looked at
MutLooseSlug(t) ==
  /\ Len(t) \in 1..SlugMax
  /\ t[1] \in Lower \cup Digit
  /\ t[Len(t)] # "-"
  /\ ~DoubleDash(t)

\* Page::validate_slug, which checked_name applies to sites and pages
ValidSlug(t) ==
  /\ Len(t) \in 1..SlugMax
  /\ t[1] \in Lower \cup Digit
  /\ Only(t, NameChar)
  /\ t[Len(t)] # "-"
  /\ ~DoubleDash(t)

\* TenantSqlitePath::for_tenant
ValidTenant(t) ==
  /\ Len(t) \in 1..TenantMax
  /\ Only(t, NameChar)
  /\ t[1] # "-" /\ t[Len(t)] # "-" /\ ~DoubleDash(t)

\* BranchId::parse
ValidBranch(t) ==
  /\ Len(t) \in 1..BranchMax
  /\ t[1] \in Lower
  /\ \A i \in DOMAIN t : i > 1 => t[i] \in NameChar
  /\ t[Len(t)] # "-" /\ ~DoubleDash(t)

ValidHash(t) == Len(t) = HashLength /\ Only(t, Digit \cup {"a", "A"})

LowerCase(ch) == CASE ch = "A" -> "a" [] ch = "G" -> "g" [] OTHER -> ch
Lowered(t) == [i \in DOMAIN t |-> LowerCase(t[i])]

\* mutated: the hash is kept as it was typed
MutParseHash(t) == t

\* VersionHash::parse of a valid text: the key it stands for
ParseHash(t) == Lowered(t)

----------------------------------------------------------------------------
(* The paths.  A path is the sequence of its components, as Path::join puts *)
(* them together: nothing is resolved, and ".." is a component, which the   *)
(* file system takes for the directory above.  A word in a name that the    *)
(* code itself gives stands for its characters, none of which is a slash.   *)

Slashes(t) == {i \in DOMAIN t : t[i] = "/"}

\* where a part of a text ends and the next begins: its slashes and its ends
Cuts(t) == Slashes(t) \cup {0, Len(t) + 1}
CutsBefore(t, i) == Cardinality({j \in Cuts(t) : j < i})
Cut(t, k) == CHOOSE i \in Cuts(t) : CutsBefore(t, i) = k

\* the parts of a text between slashes
Parts(t) ==
  [k \in 1..Cardinality(Slashes(t)) + 1 |-> SubSeq(t, Cut(t, k - 1) + 1, Cut(t, k) - 1)]

\* Path::join: an absolute text, whose first part is empty, replaces the path
JoinPath(path, t) == IF t # <<>> /\ t[1] = "/" THEN Parts(t) ELSE path \o Parts(t)

Sites == << <<"store">>, <<"sites">> >>
Tenants == << <<"tenants">> >>

SiteDir(site) == JoinPath(Sites, site)
PagesDir(site) == Append(SiteDir(site), <<"pages">>)
PagePath(site, slug) == JoinPath(PagesDir(site), slug \o <<".", "toml">>)
SiteMetaPath(site) == Append(SiteDir(site), <<"site", ".", "toml">>)
TenantPath(tenant) == JoinPath(Tenants, tenant \o <<".", "db">>)

----------------------------------------------------------------------------
(* Properties                                                               *)

\* Everything that can be typed.
Typeable == UNION {[1..n -> Char] : n \in 0..MaxTyped}

\* What is typed is a text within its bound.
TypeOK == typed \in Text /\ Len(typed) <= MaxTyped

\* path lies directly in directory dir, under a name of its own
DirectlyIn(path, dir) ==
  /\ Len(path) = Len(dir) + 1 /\ SubSeq(path, 1, Len(dir)) = dir
  /\ path[Len(path)] \notin {<<>>, <<".">>, <<".", ".">>}

\* path without regard to letter case, as some file systems compare it
Folded(path) == [i \in DOMAIN path |-> Lowered(path[i])]

\* "A name cannot climb out of its directory": the directory of an accepted
\* site, the file of an accepted page and that of an accepted tenant lie
\* directly where the code looks for them, and those of two names are two,
\* even on a file system that ignores letter case.
NamesKeepToThemselves ==
  /\ ValidSlug(typed) =>
       /\ DirectlyIn(SiteDir(typed), Sites)
       /\ \A t \in Typeable : ValidSlug(t) /\ t # typed =>
            /\ Folded(SiteDir(t)) # Folded(SiteDir(typed))
            /\ DirectlyIn(PagePath(typed, t), PagesDir(typed))
            /\ Folded(PagePath(typed, t)) # Folded(PagePath(typed, typed))
            /\ SiteMetaPath(typed) # PagePath(t, typed)
  /\ ValidTenant(typed) =>
       /\ DirectlyIn(TenantPath(typed), Tenants)
       /\ \A t \in Typeable : ValidTenant(t) /\ t # typed =>
            Folded(TenantPath(t)) # Folded(TenantPath(typed))

\* Three crates, three loops, one rule, "lowercase letters, digits and single
\* dashes": a text is a slug exactly if it is a tenant and short enough, and a
\* branch exactly if it is a tenant, short enough, and begins with a letter; so
\* every site can have a tenant and a branch can be named after either.
OneNameRule ==
  /\ ValidSlug(typed) <=> ValidTenant(typed) /\ Len(typed) <= SlugMax
  /\ ValidBranch(typed) <=> /\ ValidTenant(typed) /\ Len(typed) <= BranchMax
                            /\ typed[1] \in Lower

\* the same letters, in whatever case
SameLetters(t, u) ==
  /\ Len(t) = Len(u)
  /\ \A i \in DOMAIN t : t[i] = u[i] \/ {t[i], u[i]} \in {{"a", "A"}, {"g", "G"}}

\* A version graph is keyed by what VersionHash::parse makes of a text: the
\* texts with one key are those that differ in letter case only, a key is a
\* text that parse accepts, and parsing it again changes nothing.
HashesAreKeys ==
  ValidHash(typed) =>
    /\ ValidHash(ParseHash(typed))
    /\ ParseHash(ParseHash(typed)) = ParseHash(typed)
    /\ \A t \in Typeable : ValidHash(t) =>
         (ParseHash(t) = ParseHash(typed) <=> SameLetters(t, typed))

=============================================================================
