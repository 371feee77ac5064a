-------------------------- MODULE MCStatusResolver --------------------------
(* Instances of StatusResolver for TLC. *)
EXTENDS StatusResolver

CONSTANTS i1, i2, i3, url1, url2, c1, c2

\* Each issuer at a URL of its own, and two issuers pinned at one URL.
OwnUrls == [i \in Issuers |-> IF i = i1 THEN url1 ELSE url2]
OneUrl  == [i \in Issuers |-> url1]
=============================================================================
