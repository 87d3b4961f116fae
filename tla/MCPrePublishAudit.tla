------------------------- MODULE MCPrePublishAudit -------------------------
(* Instances of PrePublishAudit for TLC.                                    *)
EXTENDS PrePublishAudit

\* slugs that are valid, the longest ones among them, and slugs that break one
\* of the rules each
Letters(n) == [i \in 1..n |-> "alnum"]
FewSlugs == {Letters(1), Letters(41), <<"alnum", "dash", "alnum">>,
             <<>>, Letters(42), <<"dash">>, <<"alnum", "dash">>, <<"alnum", "other">>,
             <<"alnum", "dash", "dash", "alnum">>}

\* thresholds in order, and thresholds that contradict each other
OrderedThresholds ==
  [title_min |-> 1, title_max |-> 2, description_min |-> 1, description_max |-> 2]
CrossedThresholds ==
  [title_min |-> 3, title_max |-> 1, description_min |-> 3, description_max |-> 1]
BothThresholds == {OrderedThresholds, CrossedThresholds}

\* a critic that objects to videos and comments on titles
AgainstVideos(p) ==
  FindingIf(HasBlock(p, "video"), "strict", "critic.video")
    \cup FindingIf(p.title > 2, "warn", "critic.title")
=============================================================================
