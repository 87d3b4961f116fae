---------------------------- MODULE MCPageStore ----------------------------
(* Instances of PageStore for TLC.                                          *)
EXTENDS PageStore, TLC

CONSTANTS c1, c2, s1, s2, i1, i2

\* an empty site, and one with a draft of as many sections as there can be
NoPages == [s \in Slug |-> Absent]
OneDraft == [NoPages EXCEPT ![s1] = [id |-> i1, status |-> "draft", body |-> MaxBody]]

CliOps == {"init", "new", "publish"}
AllOps == CliOps \cup {"edit", "delete"}
MoveOps == {"init", "new", "rename", "delete"}

AllOn(clients) == [c \in Client |-> IF c \in clients THEN Slug ELSE {}]
OwnSlug == (c1 :> {s1}) @@ (c2 :> {s2})
Using(ops, owns, fault, seed) == [op |-> ops, owns |-> owns, fault |-> fault, seed |-> seed]

\* several runs of the command on a healthy machine; any programs, with faults,
\* on a site whose metadata stays as it is
Shared == {Using(CliOps, AllOn(Client), FALSE, OneDraft),
           Using(AllOps \ {"init"}, AllOn(Client), TRUE, OneDraft)}
\* one program, with faults, that edits pages or moves them; two programs that
\* share no page, without
Alone == {Using(AllOps, AllOn({c1}), TRUE, OneDraft),
          Using(MoveOps, AllOn({c1}), TRUE, OneDraft),
          Using(AllOps, OwnSlug, FALSE, NoPages)}
\* two programs that create the same page
Race == {Using({"init", "new"}, AllOn(Client), FALSE, NoPages)}

Interchangeable == Permutations(Client)
=============================================================================
