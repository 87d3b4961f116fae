---------------------------- MODULE VersionGraph ----------------------------
(***************************************************************************)
(* cms-collab/src/lib.rs: the versions of one page, each naming up to two  *)
(* parents by hash, and the named branches that point into them.           *)
(*                                                                         *)
(* Authors work from whatever version they have seen, so a new version may *)
(* name any known versions as its parents and a branch may be asked to     *)
(* move to any version, stale or diverged.  Of a version only its parents  *)
(* are modelled: the rest is opaque to this code.                          *)
(***************************************************************************)
EXTENDS Naturals, Sequences

CONSTANTS
  Hash,         \* version hashes that VersionHash::parse accepts
  Branch,       \* branch names
  Unknown,      \* no version under this hash
  NoBranch,     \* no head under this name
  HonestHashes  \* callers compute v.hash from v (nothing here checks that)

Policy == {"linear", "merge", "rebase_only"}

\* `parents`, up to one more than add_version accepts
ParentList == UNION {[1..n -> Hash] : n \in 0..3}
BranchHead == [version : Hash, policy : Policy]

ASSUME UnknownAssumption == Unknown \notin ParentList
ASSUME NoBranchAssumption == NoBranch \notin BranchHead
ASSUME HonestAssumption == HonestHashes \in BOOLEAN

VARIABLES
  versions,   \* the parents of the version under each hash
  branches,   \* the head of each branch
  landed      \* history, per branch: the heads it had since its policy was set

vars == <<versions, branches, landed>>

Known == {h \in Hash : versions[h] # Unknown}
ParentsOf(h) == {versions[h][i] : i \in DOMAIN versions[h]}

Init ==
  /\ versions = [h \in Hash |-> Unknown]
  /\ branches = [b \in Branch |-> NoBranch]
  /\ landed = [b \in Branch |-> {}]

\* validate: it does not recompute the hash
Validates(ps) == Len(ps) <= 2

\* mutated: a parent may be missing
MutAddVersion(h, ps) ==
  /\ Validates(ps)
  /\ HonestHashes => versions[h] \in {Unknown, ps}
  /\ versions' = [versions EXCEPT ![h] = ps]
  /\ UNCHANGED <<branches, landed>>

\* add_version: the parents must be known; whatever was under h is replaced
AddVersion(h, ps) ==
  /\ Validates(ps)
  /\ \A i \in DOMAIN ps : ps[i] \in Known
  /\ HonestHashes => versions[h] \in {Unknown, ps}
  /\ versions' = [versions EXCEPT ![h] = ps]
  /\ UNCHANGED <<branches, landed>>

\* mutated: no parent list at all passes too
MutAllows(head, ps) ==
  CASE head.policy = "linear" -> \A i \in DOMAIN ps : ps[i] = head.version
    [] head.policy = "rebase_only" -> Len(ps) # 2
    [] head.policy = "merge" -> TRUE

\* what advance asks of the parents of the target
Allows(head, ps) ==
  CASE head.policy = "linear" -> Len(ps) = 1 /\ ps[1] = head.version
    [] head.policy = "rebase_only" -> Len(ps) # 2
    [] head.policy = "merge" -> TRUE

\* mutated: a new branch starts with a policy of its own
MutAdvance(b, h) ==
  /\ h \in Known
  /\ branches[b] # NoBranch => Allows(branches[b], versions[h])
  /\ branches' = [branches EXCEPT ![b] =
                    [version |-> h,
                     policy |-> IF @ = NoBranch THEN "unset" ELSE @.policy]]
  /\ landed' = [landed EXCEPT ![b] = @ \cup {h}]
  /\ UNCHANGED versions

\* advance: the head moves to a known version, if the policy allows it; a new
\* branch starts with the merge policy
Advance(b, h) ==
  /\ h \in Known
  /\ branches[b] # NoBranch => Allows(branches[b], versions[h])
  /\ branches' = [branches EXCEPT ![b] =
                    [version |-> h,
                     policy |-> IF @ = NoBranch THEN "merge" ELSE @.policy]]
  /\ landed' = [landed EXCEPT ![b] = @ \cup {h}]
  /\ UNCHANGED versions

\* the embedding program sets the policy in the public `branches` map
SetPolicy(b, p) ==
  /\ branches[b] # NoBranch
  /\ branches' = [branches EXCEPT ![b].policy = p]
  /\ landed' = [landed EXCEPT ![b] = {branches[b].version}]
  /\ UNCHANGED versions

Next ==
  \/ \E h \in Hash, ps \in ParentList : AddVersion(h, ps)
  \/ \E b \in Branch, h \in Hash : Advance(b, h)
  \/ \E b \in Branch, p \in Policy : SetPolicy(b, p)

Spec == Init /\ [][Next]_vars

----------------------------------------------------------------------------
(* Properties                                                               *)

\* Every variable has its type.
TypeOK ==
  /\ versions \in [Hash -> ParentList \cup {Unknown}]
  /\ branches \in [Branch -> BranchHead \cup {NoBranch}]
  /\ landed \in [Branch -> SUBSET Hash]

\* Parents and branch heads are versions the graph holds, also after versions
\* were inserted again under the same hash.
NoDangling ==
  /\ \A h \in Known : ParentsOf(h) \subseteq Known
  /\ \A b \in Branch : branches[b] # NoBranch => branches[b].version \in Known
  /\ \A b \in Branch : landed[b] \subseteq Known

\* "Version DAG": no versions are each other's ancestors, as long as callers
\* compute the hashes they pass: every set of versions has one with no parent
\* in it.
NoCycle ==
  \A S \in SUBSET Known : S # {} => \E h \in S : ParentsOf(h) \cap S = {}

\* The sets of versions that hold h and, with a version, its parents: what they
\* have in common is h and its ancestors.
Closures(h) ==
  {S \in SUBSET Known : h \in S /\ \A g \in S : ParentsOf(g) \subseteq S}

\* "Rejects diverged histories outright": while a branch is linear nothing that
\* was ever its head drops out of the history of its head.
LinearKeepsHistory ==
  \A b \in Branch :
    branches[b] # NoBranch /\ branches[b].policy = "linear" =>
      \A S \in Closures(branches[b].version) : landed[b] \subseteq S

\* "One frozen page version": what a known hash stands for never changes.
FrozenVersions == [][\A h \in Known : versions'[h] = versions[h]]_vars

=============================================================================
