------------------------- MODULE VersionGraphProofs -------------------------
(***************************************************************************)
(* Proofs about VersionGraph, for any hashes and branches.                 *)
(***************************************************************************)
EXTENDS VersionGraph, TLAPS

\* Nothing the graph refers to is missing, whoever computes the hashes.
IInv == TypeOK /\ NoDangling

LEMMA InitIInv == Init => IInv
BY DEF Init, IInv, TypeOK, NoDangling, Known

LEMMA AddVersionStep ==
  ASSUME IInv, NEW h \in Hash, NEW ps \in ParentList, AddVersion(h, ps)
  PROVE  IInv' /\ Known' = Known \cup {h}
<1>1. /\ versions' = [versions EXCEPT ![h] = ps]
      /\ \A i \in DOMAIN ps : ps[i] \in Known
      /\ UNCHANGED <<branches, landed>>
  BY DEF AddVersion
<1>2. ps # Unknown
  BY UnknownAssumption
<1>3. TypeOK'
  BY <1>1 DEF IInv, TypeOK
<1>4. Known' = Known \cup {h}
  BY <1>1, <1>2 DEF IInv, TypeOK, Known
<1>5. \A g \in Known' : ParentsOf(g)' \subseteq Known'
  <2> SUFFICES ASSUME NEW g \in Known' PROVE ParentsOf(g)' \subseteq Known'
    OBVIOUS
  <2>1. CASE g = h
    BY <1>1, <1>4, <2>1 DEF IInv, TypeOK, ParentsOf
  <2>2. CASE g # h
    BY <1>1, <1>4, <2>2 DEF IInv, TypeOK, NoDangling, ParentsOf
  <2> QED BY <2>1, <2>2
<1>6. NoDangling'
  BY <1>1, <1>4, <1>5 DEF IInv, NoDangling
<1> QED BY <1>3, <1>4, <1>6 DEF IInv

\* The branch that advances or whose policy is set has a known head and past;
\* the versions do not change.
LEMMA AdvanceStep ==
  ASSUME IInv, NEW b \in Branch, NEW h \in Hash, Advance(b, h)
  PROVE  IInv' /\ Known' = Known
<1> DEFINE hd == [version |-> h,
                  policy |-> IF branches[b] = NoBranch THEN "merge" ELSE branches[b].policy]
<1>1. /\ h \in Known /\ UNCHANGED versions
      /\ branches' = [branches EXCEPT ![b] = hd]
      /\ landed' = [landed EXCEPT ![b] = landed[b] \cup {h}]
  BY DEF Advance, IInv, TypeOK
<1>2. hd \in BranchHead /\ hd # NoBranch /\ hd.version = h
  BY NoBranchAssumption DEF IInv, TypeOK, BranchHead, Policy
<1> HIDE DEF hd
<1>3. Known' = Known /\ \A g \in Hash : ParentsOf(g)' = ParentsOf(g)
  BY <1>1 DEF Known, ParentsOf
<1>4. TypeOK'
  BY <1>1, <1>2 DEF IInv, TypeOK
<1>5. NoDangling'
  BY <1>1, <1>2, <1>3 DEF IInv, TypeOK, NoDangling, Known
<1> QED BY <1>3, <1>4, <1>5 DEF IInv

LEMMA SetPolicyStep ==
  ASSUME IInv, NEW b \in Branch, NEW p \in Policy, SetPolicy(b, p)
  PROVE  IInv' /\ Known' = Known
<1> DEFINE hd == [branches[b] EXCEPT !.policy = p]
<1>1. /\ branches[b] # NoBranch /\ UNCHANGED versions
      /\ branches' = [branches EXCEPT ![b] = hd]
      /\ landed' = [landed EXCEPT ![b] = {branches[b].version}]
  BY DEF SetPolicy
<1>2. branches[b] \in BranchHead
  BY <1>1 DEF IInv, TypeOK
<1>3. hd \in BranchHead /\ hd.version = branches[b].version
  BY <1>2 DEF BranchHead
<1> HIDE DEF hd
<1>4. Known' = Known /\ \A g \in Hash : ParentsOf(g)' = ParentsOf(g)
  BY <1>1 DEF Known, ParentsOf
<1>5. TypeOK'
  BY <1>1, <1>2, <1>3 DEF IInv, TypeOK, BranchHead
<1>6. NoDangling'
  BY <1>1, <1>2, <1>3, <1>4 DEF IInv, TypeOK, NoDangling, Known
<1> QED BY <1>4, <1>5, <1>6 DEF IInv

LEMMA StepIInv == IInv /\ [Next]_vars => IInv'
<1> SUFFICES ASSUME IInv, [Next]_vars PROVE IInv'
  OBVIOUS
<1>1. CASE UNCHANGED vars
  BY <1>1 DEF vars, IInv, TypeOK, NoDangling, Known, ParentsOf
<1> QED BY <1>1, AddVersionStep, AdvanceStep, SetPolicyStep DEF Next

LEMMA IInvHolds == Spec => []IInv
BY InitIInv, StepIInv, PTL DEF Spec

\* The graph's maps keep their types; a branch has one of the three policies.
THEOREM TypeCorrect == Spec => []TypeOK
BY IInvHolds, PTL DEF IInv

\* Parents and heads are always versions the graph holds, even when callers
\* insert other versions under known hashes.
THEOREM NothingDangles == Spec => []NoDangling
BY IInvHolds, PTL DEF IInv

----------------------------------------------------------------------------
(* With honest hashes a version never changes once it is known.             *)

LEMMA HonestAdd ==
  ASSUME IInv, HonestHashes, NEW h \in Hash, NEW ps \in ParentList, AddVersion(h, ps)
  PROVE  /\ \A g \in Known : ParentsOf(g)' = ParentsOf(g)
         /\ h \in Known \/ ParentsOf(h)' \subseteq Known
<1>1. /\ versions' = [versions EXCEPT ![h] = ps]
      /\ versions[h] \in {Unknown, ps}
      /\ \A i \in DOMAIN ps : ps[i] \in Known
  BY DEF AddVersion
<1>2. \A g \in Known : versions'[g] = versions[g]
  BY <1>1 DEF IInv, TypeOK, Known
<1>3. versions'[h] = ps
  BY <1>1 DEF IInv, TypeOK
<1> QED BY <1>1, <1>2, <1>3 DEF ParentsOf

LEMMA HonestAddNoCycle ==
  ASSUME IInv, HonestHashes, NoCycle,
         NEW h \in Hash, NEW ps \in ParentList, AddVersion(h, ps)
  PROVE  NoCycle'
<1> SUFFICES ASSUME NEW S \in SUBSET Known', S # {}
             PROVE  \E g \in S : ParentsOf(g)' \cap S = {}
  BY DEF NoCycle
<1>1. Known' = Known \cup {h}
  BY AddVersionStep
<1>2. \A g \in Known : ParentsOf(g)' = ParentsOf(g)
  BY HonestAdd
<1>3. CASE S \subseteq Known
  BY <1>2, <1>3 DEF NoCycle
<1>4. CASE ~ (S \subseteq Known)
  <2>1. h \in S /\ h \notin Known /\ ParentsOf(h)' \subseteq Known
    BY <1>1, <1>4, HonestAdd
  <2>2. CASE S = {h}
    BY <2>1, <2>2
  <2>3. CASE S # {h}
    <3> DEFINE T == S \ {h}
    <3>1. T \in SUBSET Known /\ T # {}
      BY <1>1, <2>1, <2>3
    <3>2. PICK g \in T : ParentsOf(g) \cap T = {}
      BY <3>1 DEF NoCycle
    <3>3. ParentsOf(g) \subseteq Known
      BY <3>1, <3>2 DEF IInv, NoDangling
    <3>4. ParentsOf(g)' \cap S = {}
      BY <1>2, <2>1, <3>1, <3>2, <3>3
    <3> QED BY <3>2, <3>4
  <2> QED BY <2>2, <2>3
<1> QED BY <1>3, <1>4

\* Steps that keep the versions keep the graph acyclic.
LEMMA SameVersions ==
  ASSUME versions' = versions
  PROVE  /\ NoCycle => NoCycle'
         /\ \A h \in Hash : Closures(h)' = Closures(h)
<1>1. Known' = Known /\ \A g \in Hash : ParentsOf(g)' = ParentsOf(g)
  BY DEF Known, ParentsOf
<1>2. Known \subseteq Hash
  BY DEF Known
<1>3. NoCycle => NoCycle'
  BY <1>1, <1>2 DEF NoCycle
<1>4. \A h \in Hash : Closures(h)' = Closures(h)
  BY DEF Closures, Known, ParentsOf
<1> QED BY <1>3, <1>4

\* The version graph is a DAG if callers compute the hashes they pass.
THEOREM Acyclic == HonestHashes /\ Spec => []NoCycle
<1> SUFFICES ASSUME HonestHashes PROVE Spec => []NoCycle
  OBVIOUS
<1>1. Init => NoCycle
  BY DEF Init, NoCycle, Known
<1>2. IInv /\ NoCycle /\ [Next]_vars => NoCycle'
  <2> SUFFICES ASSUME IInv, NoCycle, [Next]_vars PROVE NoCycle'
    OBVIOUS
  <2>1. ASSUME NEW h \in Hash, NEW ps \in ParentList, AddVersion(h, ps) PROVE NoCycle'
    BY <2>1, HonestAddNoCycle
  <2>2. ASSUME NEW b \in Branch, NEW h \in Hash, Advance(b, h) PROVE NoCycle'
    BY <2>2, SameVersions DEF Advance
  <2>3. ASSUME NEW b \in Branch, NEW p \in Policy, SetPolicy(b, p) PROVE NoCycle'
    BY <2>3, SameVersions DEF SetPolicy
  <2>4. CASE UNCHANGED vars
    BY <2>4, SameVersions DEF vars
  <2> QED BY <2>1, <2>2, <2>3, <2>4 DEF Next
<1> QED BY <1>1, <1>2, IInvHolds, PTL DEF Spec

----------------------------------------------------------------------------
(* A linear branch never loses a former head.                               *)

\* A new version takes nothing out of the history of a known one: what it adds
\* to a closed set can be taken away again.
LEMMA AddKeepsLinear ==
  ASSUME IInv, HonestHashes, LinearKeepsHistory,
         NEW h \in Hash, NEW ps \in ParentList, AddVersion(h, ps)
  PROVE  LinearKeepsHistory'
<1>1. UNCHANGED <<branches, landed>>
  BY DEF AddVersion
<1> SUFFICES ASSUME NEW b \in Branch, branches[b] # NoBranch, branches[b].policy = "linear",
                    NEW S \in Closures(branches[b].version)'
             PROVE  landed[b] \subseteq S
  BY <1>1 DEF LinearKeepsHistory, Closures, Known, ParentsOf
<1> DEFINE v == branches[b].version
           T == S \cap Known
<1>2. S \in SUBSET Known' /\ v \in S /\ \A g \in S : ParentsOf(g)' \subseteq S
  BY <1>1 DEF Closures
<1>3. v \in Known
  BY DEF IInv, NoDangling
<1>4. \A g \in T : ParentsOf(g) \subseteq T
  BY <1>2, HonestAdd DEF IInv, NoDangling
<1>5. T \in Closures(v)
  BY <1>2, <1>3, <1>4 DEF Closures
<1> QED BY <1>5 DEF LinearKeepsHistory

LEMMA AdvanceKeepsLinear ==
  ASSUME IInv, LinearKeepsHistory, NEW b \in Branch, NEW h \in Hash, Advance(b, h)
  PROVE  LinearKeepsHistory'
<1> DEFINE hd == [version |-> h,
                  policy |-> IF branches[b] = NoBranch THEN "merge" ELSE branches[b].policy]
<1>1. /\ UNCHANGED versions
      /\ branches[b] # NoBranch => Allows(branches[b], versions[h])
      /\ branches' = [branches EXCEPT ![b] = hd]
      /\ landed' = [landed EXCEPT ![b] = landed[b] \cup {h}]
  BY DEF Advance, IInv, TypeOK
<1>2. hd.version = h /\ (branches[b] = NoBranch => hd.policy = "merge")
      /\ (branches[b] # NoBranch => hd.policy = branches[b].policy)
  OBVIOUS
<1> HIDE DEF hd
<1>3. \A g \in Hash : Closures(g)' = Closures(g)
  BY <1>1, SameVersions
<1> SUFFICES ASSUME NEW a \in Branch, branches'[a] # NoBranch, branches'[a].policy = "linear",
                    NEW S \in Closures(branches'[a].version)
             PROVE  landed'[a] \subseteq S
  BY <1>1 DEF LinearKeepsHistory, Closures, Known, ParentsOf
<1>4. CASE a # b
  BY <1>1, <1>4 DEF LinearKeepsHistory, IInv, TypeOK
<1>5. CASE a = b
  <2>1. branches'[b] = hd /\ landed'[b] = landed[b] \cup {h}
    BY <1>1 DEF IInv, TypeOK
  <2>2. branches[b] # NoBranch /\ branches[b].policy = "linear"
    BY <1>2, <1>5, <2>1
  <2>3. Len(versions[h]) = 1 /\ versions[h][1] = branches[b].version
    BY <1>1, <2>2 DEF Allows
  <2>4. h \in S /\ S \in SUBSET Known /\ \A g \in S : ParentsOf(g) \subseteq S
    BY <1>2, <1>5, <2>1 DEF Closures
  <2>5. branches[b].version \in ParentsOf(h)
    <3>1. versions[h] \in ParentList
      BY <2>4 DEF IInv, TypeOK, Known
    <3>2. 1 \in DOMAIN versions[h]
      BY <2>3, <3>1 DEF ParentList
    <3> QED BY <2>3, <3>2 DEF ParentsOf
  <2>6. S \in Closures(branches[b].version)
    BY <2>4, <2>5 DEF Closures
  <2>7. landed[b] \subseteq S
    BY <2>2, <2>6 DEF LinearKeepsHistory
  <2> QED BY <1>5, <2>1, <2>4, <2>7
<1> QED BY <1>4, <1>5

LEMMA SetPolicyKeepsLinear ==
  ASSUME IInv, LinearKeepsHistory, NEW b \in Branch, NEW p \in Policy, SetPolicy(b, p)
  PROVE  LinearKeepsHistory'
<1> DEFINE hd == [branches[b] EXCEPT !.policy = p]
<1>1. /\ branches[b] # NoBranch /\ UNCHANGED versions
      /\ branches' = [branches EXCEPT ![b] = hd]
      /\ landed' = [landed EXCEPT ![b] = {branches[b].version}]
  BY DEF SetPolicy
<1>2. hd.version = branches[b].version
  BY <1>1 DEF IInv, TypeOK, BranchHead
<1> HIDE DEF hd
<1> SUFFICES ASSUME NEW a \in Branch, branches'[a] # NoBranch, branches'[a].policy = "linear",
                    NEW S \in Closures(branches'[a].version)
             PROVE  landed'[a] \subseteq S
  BY <1>1 DEF LinearKeepsHistory, Closures, Known, ParentsOf
<1>3. CASE a # b
  BY <1>1, <1>3 DEF LinearKeepsHistory, IInv, TypeOK
<1>4. CASE a = b
  BY <1>1, <1>2, <1>4 DEF Closures, IInv, TypeOK
<1> QED BY <1>3, <1>4

\* While a branch has the linear policy, every head it ever had stays an
\* ancestor of its head.
THEOREM LinearHistory == HonestHashes /\ Spec => []LinearKeepsHistory
<1> SUFFICES ASSUME HonestHashes PROVE Spec => []LinearKeepsHistory
  OBVIOUS
<1>1. Init => LinearKeepsHistory
  BY DEF Init, LinearKeepsHistory
<1>2. IInv /\ LinearKeepsHistory /\ [Next]_vars => LinearKeepsHistory'
  <2> SUFFICES ASSUME IInv, LinearKeepsHistory, [Next]_vars
               PROVE  LinearKeepsHistory'
    OBVIOUS
  <2>1. CASE UNCHANGED vars
    BY <2>1 DEF vars, LinearKeepsHistory, Closures, Known, ParentsOf
  <2> QED BY <2>1, AddKeepsLinear, AdvanceKeepsLinear, SetPolicyKeepsLinear DEF Next
<1> QED BY <1>1, <1>2, IInvHolds, PTL DEF Spec

=============================================================================
