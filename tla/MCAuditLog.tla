----------------------------- MODULE MCAuditLog -----------------------------
(* Instances of AuditLog for TLC.                                           *)
EXTENDS AuditLog

CONSTANTS h1, h2, d1, d2, d3, d4, k1, k2

\* callers sign with the key their fingerprint names
HonestSigning == {<<k, k>> : k \in Key}

\* every failure; processes that die while writes do not fail on their own, or
\* do; crashes alone
AnyFailure == {{"crash", "open_fails", "write_fails"}}
WritesFailOrNot == {{"crash", "open_fails"}, {"crash", "open_fails", "write_fails"}}
OnlyCrashes == {{"crash"}}

\* handles, and hashes, are interchangeable
Interchangeable == Permutations(Handle) \cup Permutations(Digest)
=============================================================================
