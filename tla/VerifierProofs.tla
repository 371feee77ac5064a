--------------------------- MODULE VerifierProofs ---------------------------
(***************************************************************************)
(* Proofs about the status list resolver and the off-chain verifier over   *)
(* it, for every number of issuers, lists, callers and redirects, every    *)
(* timeout, age and window, and every answer of the network: how long a    *)
(* fetch may take, whose list is served and how old it is, and what an     *)
(* accepted presentation says of its credential, its challenge and its     *)
(* revocation.                                                             *)
(***************************************************************************)
EXTENDS Verifier, TLAPS

(* The resolver by itself.                                                 *)

\* What is known of a fetch, from the pinned issuer it is for to the time it took.
FetchesBounded ==
    \A c \in Callers : Fetching(c) =>
        /\ calls[c].issuer \in Issuers /\ calls[c].purpose \in Purposes
        /\ calls[c].now =< calls[c].hopAt /\ calls[c].hopAt =< clock
        /\ calls[c].hopAt - calls[c].now =< Timeout * calls[c].hops
        /\ clock - calls[c].hopAt =< Timeout
        /\ calls[c].hops =< MaxRedirects

\* A signed list names its signer; its validFrom is at most the longest lead after its
\* signing, when it had the bit of every index revoked by then.
ListsHonest ==
    \A d \in published :
        /\ d.signer = d.issuer
        /\ d.from =< clock + Lead
        /\ d.purpose = "revocation" =>
             \A k \in Indexes \ d.bits : d.from =< revokedAt[d.signer][k] + Lead

\* What the resolver has accepted at a URL: a list signed by an issuer pinned there.
PinnedAt(doc, u) == doc \in published /\ \E i \in Issuers : UrlOf[i] = u /\ doc.issuer = i

CopiesPinned == \A u \in Urls : cache[u] # NoCopy => PinnedAt(cache[u].doc, u)

\* A list that is handed over, and how old it may be by then.
ServedFresh ==
    \A c \in Callers : calls[c].stage = "done" =>
        /\ calls[c].issuer \in Issuers
        /\ PinnedAt(calls[c].doc, UrlOf[calls[c].issuer])
        /\ calls[c].doc.purpose = calls[c].purpose
        /\ clock < calls[c].doc.until + FetchBound
        /\ clock =< calls[c].doc.from + MaxAge + FetchBound

ResolverInv == TypeOK /\ FetchesBounded /\ ListsHonest /\ CopiesPinned /\ ServedFresh

\* Every pinned issuer has a URL, and with it a cache entry, of its own.
OwnUrl == \A i, j \in Issuers : UrlOf[i] = UrlOf[j] => i = j

\* A default issuer is configured only where one issuer is pinned ("configure
\* defaultIssuerId explicitly for a single-issuer deployment", resolver.ts).
SingleDefault == DefaultIssuer # NoIssuer => Issuers = {DefaultIssuer}

-----------------------------------------------------------------------------
(* The verifications.                                                      *)

Options == {VerifyOptions(q, s) : q \in Questions, s \in Subjects}

Verification == [stage : {"proving", "status", "accepted"}, proof : Presentations,
                 key : Issuers, binding : Bindings, options : Options]

VerTypeOK ==
    /\ ver \in [Callers -> Verification \cup {Waiting}]
    /\ consumed \subseteq {BindingDigest(b) : b \in Bindings}
    /\ accepts \in [{BindingDigest(b) : b \in Bindings} -> Nat]

\* A digest is in the guard from the one acceptance it was counted for.
GuardCounts ==
    \A d \in {BindingDigest(b) : b \in Bindings} :
        /\ d \in consumed => accepts[d] = 1
        /\ d \notin consumed => accepts[d] = 0

\* What the checks before ProofVerify have shown.
Structured(r) ==
    DOMAIN r.proof.messages = r.options.expectedDisclosedIndexes /\ Decodable(r.proof.messages)

\* What ProofVerify and the checks on the disclosed values have shown.
Vouched(r) ==
    /\ r.proof.cred.signer = r.key
    /\ r.proof.madeFor = BindingDigest(r.binding)
    /\ r.proof.cred.claims.subjectBinding = r.options.expectedSubjectBinding
    /\ \A allowed \in r.options.label : r.proof.cred.country \in allowed
    /\ \A n \in DOMAIN r.options.expectedClaims :
         r.proof.cred.claims[n] = r.options.expectedClaims[n]
    /\ "revocationIndex" \in DOMAIN r.proof.messages
    /\ r.proof.messages["revocationIndex"].value = r.proof.cred.claims.revocationIndex

ChecksHold ==
    \A v \in Callers :
        /\ ver[v] # Waiting => Structured(ver[v])
        /\ ver[v].stage \in {"status", "accepted"} => Vouched(ver[v])

\* By when a verification is used, counted from time t.
Within(r, t) == t =< r.binding.ledgerExpiry /\ t =< r.proof.cred.claims.expiresAt

\* The resolver a verification waits for was called in time, with the purpose the
\* verifier asks for, and its fetch is the only delay.
WaitsInTime ==
    \A v \in Callers :
        /\ ver[v].stage = "proving" => clock =< ver[v].binding.ledgerExpiry
        /\ ver[v].stage = "status" =>
             /\ calls[v].stage # "idle" /\ calls[v].purpose = "revocation"
             /\ Fetching(v) => Within(ver[v], calls[v].now)
             /\ calls[v].stage = "done" => Within(ver[v], clock - FetchBound)
        /\ ver[v].stage = "accepted" => Within(ver[v], clock - FetchBound)

VerifierInv == ResolverInv /\ VerTypeOK /\ GuardCounts /\ ChecksHold /\ WaitsInTime

\* The list asked for is the one of the issuer whose key verified the proof.
AskedOfSigner ==
    \A v \in Callers : ver[v].stage = "status" /\ calls[v].stage \in {"fetching", "done"} =>
        calls[v].issuer = ver[v].key

RevocationInv == AskedOfSigner /\ RevocationRespected

-----------------------------------------------------------------------------
(* Bounds.                                                                 *)

\* The resolver's constants are numbers.
LEMMA Bounds ==
    /\ Timeout \in Nat /\ MaxRedirects \in Nat /\ FetchBound \in Nat /\ Horizon \in Nat
    /\ MaxAge \in Nat /\ CacheTtl \in Nat /\ CacheTtl =< MaxAge
BY ResolverConfig DEF FetchBound

\* Each GET of a redirect chain has Timeout for itself.
LEMMA HopBudget ==
    ASSUME NEW h \in Nat, h =< MaxRedirects
    PROVE  /\ FetchBound \in Nat
           /\ Timeout * h + Timeout = Timeout * (h + 1)
           /\ Timeout * (h + 1) =< FetchBound
<1>1. Timeout \in Nat /\ MaxRedirects \in Nat
  BY ResolverConfig
<1> DEFINE d == MaxRedirects - h
<1>2. d \in Nat /\ MaxRedirects + 1 = (h + 1) + d
  BY <1>1
<1> HIDE DEF d
<1>3. Timeout * (MaxRedirects + 1) = Timeout * (h + 1) + Timeout * d
  BY <1>1, <1>2
<1>4. Timeout * d \in Nat /\ Timeout * (h + 1) \in Nat
  BY <1>1, <1>2
<1>5. Timeout * h + Timeout = Timeout * (h + 1)
  BY <1>1
<1>6. QED
  BY <1>3, <1>4, <1>5 DEF FetchBound

\* No lead of a signed list is longer than Lead.
LEMMA LongestLead == Lead \in Nat /\ \A n \in Leads : n =< Lead
<1>1. CASE Leads = {}
  BY <1>1 DEF Lead
<1>2. CASE Leads # {}
  <2>1. \E n \in Leads : \A m \in Leads : m =< n
    BY <1>2, ResolverConfig
  <2>2. Lead \in Leads /\ \A m \in Leads : m =< Lead
    BY <1>2, <2>1 DEF Lead
  <2>3. QED
    BY <2>2, ResolverConfig
<1>3. QED
  BY <1>1, <1>2

\* A resolution that ends keeps whom and what it was for.
LEMMA SettledCall ==
    ASSUME NEW call \in Call, NEW stage \in {"done", "failed"}, NEW doc \in Document \cup {NoDoc}
    PROVE  /\ Settled(call, stage, doc) \in Call
           /\ Settled(call, stage, doc).stage = stage
           /\ Settled(call, stage, doc).doc = doc
           /\ Settled(call, stage, doc).issuer = call.issuer
           /\ Settled(call, stage, doc).purpose = call.purpose
BY DEF Settled, Call

\* No copy that is kept is the missing one, and what is kept is a list.
LEMMA CopyKept ==
    ASSUME TypeOK, NEW u \in Urls, cache[u] # NoCopy
    PROVE  cache[u].doc \in Document /\ cache[u].fetchedAt \in Nat
BY DEF TypeOK, CacheEntry

-----------------------------------------------------------------------------
(* What an action leaves of the resolver's state.                          *)

\* Every resolution but c's is where it was, and c's is over, or no older than its
\* own bounds allow.
LEMMA OneCall ==
    ASSUME ResolverInv, NEW c \in Callers, NEW call \in Call,
           calls' = [calls EXCEPT ![c] = call],
           overtaken' \subseteq Callers,
           UNCHANGED <<clock, revokedAt, published>>,
           cache' \in [Urls -> CacheEntry \cup {NoCopy}], CopiesPinned',
           call.stage = "fetching" =>
             /\ call.issuer \in Issuers /\ call.purpose \in Purposes
             /\ call.now =< call.hopAt /\ call.hopAt =< clock
             /\ call.hopAt - call.now =< Timeout * call.hops
             /\ clock - call.hopAt =< Timeout
             /\ call.hops =< MaxRedirects,
           call.stage = "done" =>
             /\ call.issuer \in Issuers
             /\ PinnedAt(call.doc, UrlOf[call.issuer])
             /\ call.doc.purpose = call.purpose
             /\ clock < call.doc.until + FetchBound
             /\ clock =< call.doc.from + MaxAge + FetchBound
    PROVE  ResolverInv'
<1>1. calls' \in [Callers -> Call] /\ calls'[c] = call
      /\ \A d \in Callers \ {c} : calls'[d] = calls[d]
  BY DEF ResolverInv, TypeOK
<1>2. TypeOK'
  BY <1>1 DEF ResolverInv, TypeOK
<1>3. FetchesBounded'
  BY <1>1 DEF ResolverInv, FetchesBounded, Fetching
<1>4. ListsHonest'
  BY DEF ResolverInv, ListsHonest
<1>5. ServedFresh'
  BY <1>1 DEF ResolverInv, ServedFresh, PinnedAt
<1>6. QED
  BY <1>2, <1>3, <1>4, <1>5 DEF ResolverInv

\* Before the first list and the first call nothing is kept.
LEMMA InitResolver == ResolverInit => ResolverInv
<1> SUFFICES ASSUME ResolverInit PROVE ResolverInv
  OBVIOUS
<1>1. Horizon \in Nat
  BY ResolverConfig
<1>2. TypeOK
  <2>1. Idle \in Call
    BY DEF Idle, Call
  <2>2. QED
    BY <1>1, <2>1 DEF ResolverInit, TypeOK, Never
<1>3. QED
  BY <1>2 DEF ResolverInit, ResolverInv, FetchesBounded, Fetching, ListsHonest, CopiesPinned,
              ServedFresh, Idle

\* A revocation carries the present instant, and no list starts later than the
\* longest lead from it.
LEMMA RevokeResolver ==
    ASSUME ResolverInv, NEW i \in Issuers, NEW k \in Indexes, RevokeIndex(i, k)
    PROVE  ResolverInv'
<1>1. /\ revokedAt' = [revokedAt EXCEPT ![i] = [revokedAt[i] EXCEPT ![k] = clock]]
      /\ UNCHANGED <<clock, published, cache, overtaken, calls>>
  BY DEF RevokeIndex, ResolverInv, TypeOK
<1>2. clock \in 0 .. Never /\ revokedAt[i] \in [Indexes -> 0 .. Never]
  BY ResolverConfig DEF ResolverInv, TypeOK, Never
<1>3. revokedAt' \in [Issuers -> [Indexes -> 0 .. Never]]
  BY <1>1, <1>2 DEF ResolverInv, TypeOK
<1>4. TypeOK'
  BY <1>1, <1>3 DEF ResolverInv, TypeOK
<1>5. \A j \in Issuers, n \in Indexes :
        revokedAt'[j][n] = revokedAt[j][n] \/ revokedAt'[j][n] = clock
  BY <1>1, <1>2 DEF ResolverInv, TypeOK
<1>6. ListsHonest'
  <2>1. \A d \in published : d.signer \in Issuers
    BY DEF ResolverInv, TypeOK, Document
  <2>2. QED
    BY <1>1, <1>5, <2>1 DEF ResolverInv, ListsHonest
<1>7. QED
  BY <1>1, <1>4, <1>6
     DEF ResolverInv, FetchesBounded, Fetching, CopiesPinned, ServedFresh, PinnedAt

\* A list is signed with the bits of all that is revoked by now.
LEMMA PublishResolver ==
    ASSUME ResolverInv, NEW i \in Issuers, NEW p \in Purposes, NEW lead \in Leads,
           NEW life \in Lifetimes, PublishStatusList(i, p, lead, life)
    PROVE  ResolverInv'
<1> DEFINE bits == IF p = "revocation" THEN Revoked(i) ELSE {}
<1> DEFINE new == [signer |-> i, issuer |-> i, purpose |-> p, from |-> clock + lead,
                   until |-> clock + lead + life, bits |-> bits]
<1>1. /\ published' = published \cup {new}
      /\ UNCHANGED <<clock, revokedAt, cache, overtaken, calls>>
  BY DEF PublishStatusList, SignStatusListCredential
<1>2. /\ lead \in Nat /\ life \in Nat /\ clock \in 0 .. Horizon /\ Horizon \in Nat
      /\ lead =< Lead /\ Lead \in Nat
  BY ResolverConfig, LongestLead DEF ResolverInv, TypeOK
<1>3. bits \in SUBSET Indexes
  BY DEF Revoked
<1>4. new \in Document
  BY <1>2, <1>3 DEF Document
<1>5. TypeOK'
  BY <1>1, <1>4 DEF ResolverInv, TypeOK
<1>6. p = "revocation" => \A k \in Indexes \ bits : revokedAt[i][k] = Horizon + 1
  BY DEF Revoked, Never
<1>7. /\ new.signer = i /\ new.issuer = i /\ new.purpose = p /\ new.from = clock + lead
      /\ new.bits = bits
  OBVIOUS
<1> HIDE DEF new, bits
<1>8. ListsHonest'
  <2> SUFFICES ASSUME NEW d \in published'
               PROVE  /\ d.signer = d.issuer
                      /\ d.from =< clock + Lead
                      /\ d.purpose = "revocation" =>
                           \A k \in Indexes \ d.bits : d.from =< revokedAt[d.signer][k] + Lead
    BY <1>1 DEF ListsHonest
  <2>1. CASE d \in published
    BY <2>1 DEF ResolverInv, ListsHonest
  <2>2. CASE d = new
    BY <1>2, <1>6, <1>7, <2>2
  <2>3. QED
    BY <1>1, <2>1, <2>2
<1>9. QED
  BY <1>1, <1>5, <1>8
     DEF ResolverInv, FetchesBounded, Fetching, CopiesPinned, ServedFresh, PinnedAt

\* resolve() up to its await: an unpinned issuer, a kept copy checked again, or a
\* fetch that reads the clock.
LEMMA ResolveResolver ==
    ASSUME ResolverInv, NEW c \in Callers, NEW id \in IssuerIds \cup {NoIssuer},
           NEW p \in Purposes, Resolve(c, id, p)
    PROVE  ResolverInv'
<1> DEFINE i == IF id = NoIssuer THEN DefaultIssuer ELSE id
<1> DEFINE doc == cache[UrlOf[i]].doc
<1> DEFINE call == [stage |-> "fetching", issuer |-> i, purpose |-> p, now |-> clock,
                    hopAt |-> clock, hops |-> 0, doc |-> NoDoc]
<1>1. i \in IssuerIds \cup {NoIssuer} /\ UNCHANGED <<clock, revokedAt, published, cache, overtaken>>
  BY ResolverConfig DEF Resolve
<1>2. clock \in Nat /\ Timeout \in Nat /\ MaxRedirects \in Nat /\ FetchBound \in Nat
      /\ CacheTtl \in Nat /\ MaxAge \in Nat /\ CacheTtl =< MaxAge
  BY Bounds DEF ResolverInv, TypeOK
<1>3. call \in Call
  BY <1>1, <1>2 DEF Call
<1>4. /\ cache' \in [Urls -> CacheEntry \cup {NoCopy}] /\ CopiesPinned'
      /\ overtaken' \subseteq Callers
  BY <1>1 DEF ResolverInv, TypeOK, CopiesPinned, PinnedAt
<1>5. CASE calls' = [calls EXCEPT ![c] = Settled(call, "failed", NoDoc)]
  <2>1. Settled(call, "failed", NoDoc) \in Call /\ Settled(call, "failed", NoDoc).stage = "failed"
    BY <1>3, SettledCall
  <2>2. QED
    BY <1>1, <1>4, <1>5, <2>1, OneCall
<1>6. CASE /\ i \in Issuers /\ CacheHit(i) /\ Usable(doc, clock, p)
           /\ calls' = [calls EXCEPT ![c] = Settled(call, "done", doc)]
  <2>1. /\ UrlOf[i] \in Urls /\ cache[UrlOf[i]] # NoCopy
        /\ PinnedAt(doc, UrlOf[i]) /\ doc \in Document
    BY <1>6, CopyKept, ResolverConfig DEF CacheHit, ResolverInv, CopiesPinned
  <2>2. doc.purpose = p /\ clock < doc.until /\ clock - doc.from =< MaxAge
        /\ doc.until \in Nat /\ doc.from \in Nat
    BY <1>6, <2>1 DEF Usable, TemporallyUsable, Document
  <2>3. /\ Settled(call, "done", doc) \in Call
        /\ Settled(call, "done", doc).stage = "done" /\ Settled(call, "done", doc).doc = doc
        /\ Settled(call, "done", doc).issuer = i /\ Settled(call, "done", doc).purpose = p
    BY <1>3, <2>1, SettledCall
  <2> HIDE DEF doc, call
  <2>4. clock < doc.until + FetchBound /\ clock =< doc.from + MaxAge + FetchBound
    BY <1>2, <2>2
  <2>5. QED
    BY <1>1, <1>4, <1>6, <2>1, <2>2, <2>3, <2>4, OneCall
<1>7. CASE i \in Issuers /\ calls' = [calls EXCEPT ![c] = call]
  <2>1. call.stage = "fetching" /\ call.issuer = i /\ call.purpose = p /\ call.now = clock
        /\ call.hopAt = clock /\ call.hops = 0
    OBVIOUS
  <2>2. /\ call.now =< call.hopAt /\ call.hopAt =< clock
        /\ call.hopAt - call.now =< Timeout * call.hops
        /\ clock - call.hopAt =< Timeout
        /\ call.hops =< MaxRedirects
    BY <1>2, <2>1
  <2> HIDE DEF call
  <2>3. QED
    BY <1>1, <1>2, <1>3, <1>4, <1>7, <2>1, <2>2, OneCall
<1>8. QED
  BY <1>5, <1>6, <1>7 DEF Resolve

\* A fetch that ends without a list leaves the copies alone.
LEMMA FailedResolver ==
    ASSUME ResolverInv, NEW c \in Callers, End(c, "failed", NoDoc),
           UNCHANGED <<clock, revokedAt, published, cache>>
    PROVE  ResolverInv'
<1>1. /\ calls' = [calls EXCEPT ![c] = Settled(calls[c], "failed", NoDoc)]
      /\ overtaken' \subseteq Callers
  BY DEF End, ResolverInv, TypeOK
<1>2. /\ Settled(calls[c], "failed", NoDoc) \in Call
      /\ Settled(calls[c], "failed", NoDoc).stage = "failed"
  BY SettledCall DEF ResolverInv, TypeOK
<1>3. cache' \in [Urls -> CacheEntry \cup {NoCopy}] /\ CopiesPinned'
  BY DEF ResolverInv, TypeOK, CopiesPinned, PinnedAt
<1>4. QED
  BY <1>1, <1>2, <1>3, OneCall

\* A redirect that is followed has a timer of its own, one hop fewer to go, and the
\* clock the fetch began with.
LEMMA RedirectedResolver ==
    ASSUME ResolverInv, NEW c \in Callers, Redirected(c)
    PROVE  ResolverInv'
<1>1. CASE calls[c].hops + 1 > MaxRedirects
  BY <1>1, FailedResolver DEF Redirected
<1>2. CASE ~(calls[c].hops + 1 > MaxRedirects)
  <2> DEFINE call == [calls[c] EXCEPT !.hops = calls[c].hops + 1, !.hopAt = clock]
  <2>1. calls[c] \in Call /\ calls \in [Callers -> Call] /\ Fetching(c)
    BY DEF Redirected, ResolverInv, TypeOK
  <2>2. calls[c].hops \in Nat /\ calls[c].now \in Nat /\ calls[c].hopAt \in Nat
        /\ clock \in Nat /\ Timeout \in Nat /\ MaxRedirects \in Nat
    <3>1. calls[c].hops \in Nat /\ calls[c].now \in Nat /\ calls[c].hopAt \in Nat
      BY <2>1 DEF Call
    <3>2. clock \in Nat
      BY DEF ResolverInv, TypeOK
    <3>3. QED
      BY <3>1, <3>2, Bounds
  <2>3. /\ calls' = [calls EXCEPT ![c] = call]
        /\ UNCHANGED <<clock, revokedAt, published, cache, overtaken>>
    BY <1>2, <2>1 DEF Redirected
  <2>4. call \in Call /\ call.stage = "fetching" /\ call.issuer = calls[c].issuer
        /\ call.purpose = calls[c].purpose /\ call.now = calls[c].now /\ call.hopAt = clock
        /\ call.hops = calls[c].hops + 1
    <3>1. calls[c].hops + 1 \in Nat
      BY <2>2
    <3>2. call \in Call
      BY <2>1, <2>2, <3>1 DEF Call
    <3>3. QED
      BY <2>1, <3>2 DEF Call, Fetching
  <2> HIDE DEF call
  <2>5. Timeout * calls[c].hops + Timeout = Timeout * (calls[c].hops + 1)
    BY <1>2, <2>2, HopBudget
  <2>6. Timeout * calls[c].hops \in Nat
    BY <2>2
  <2>7. /\ calls[c].now =< clock /\ clock - calls[c].now =< Timeout * (calls[c].hops + 1)
        /\ calls[c].issuer \in Issuers /\ calls[c].purpose \in Purposes
    <3>1. /\ calls[c].now =< calls[c].hopAt /\ calls[c].hopAt =< clock
          /\ calls[c].hopAt - calls[c].now =< Timeout * calls[c].hops
          /\ clock - calls[c].hopAt =< Timeout
          /\ calls[c].issuer \in Issuers /\ calls[c].purpose \in Purposes
      BY <2>1 DEF ResolverInv, FetchesBounded
    <3> DEFINE t == Timeout * calls[c].hops
    <3> DEFINE u == Timeout * (calls[c].hops + 1)
    <3>2. u = t + Timeout /\ t \in Nat /\ calls[c].hopAt - calls[c].now =< t
      BY <2>5, <2>6, <3>1
    <3> HIDE DEF t, u
    <3>3. clock - calls[c].now =< u
      BY <2>2, <3>1, <3>2
    <3>4. QED
      BY <2>2, <3>1, <3>3 DEF u
  <2>8. /\ cache' \in [Urls -> CacheEntry \cup {NoCopy}] /\ CopiesPinned'
        /\ overtaken' \subseteq Callers
    BY <2>3 DEF ResolverInv, TypeOK, CopiesPinned, PinnedAt
  <2>9. /\ call.now =< call.hopAt /\ call.hopAt =< clock
        /\ call.hopAt - call.now =< Timeout * call.hops
        /\ clock - call.hopAt =< Timeout
        /\ call.hops =< MaxRedirects
    BY <1>2, <2>2, <2>4, <2>7
  <2>10. QED
    BY <2>3, <2>4, <2>7, <2>8, <2>9, OneCall
<1>3. QED
  BY <1>1, <1>2

\* How old what a fetch brings may be: its own time, whatever it took.
LEMMA FetchAge ==
    ASSUME ResolverInv, NEW c \in Callers, Fetching(c)
    PROVE  /\ calls[c] \in Call /\ clock \in Nat /\ calls[c].now \in Nat
           /\ calls[c].issuer \in Issuers /\ calls[c].purpose \in Purposes
           /\ calls[c].hops \in Nat /\ calls[c].hops =< MaxRedirects
           /\ calls[c].now =< calls[c].hopAt
           /\ clock - calls[c].now =< Timeout * (calls[c].hops + 1)
           /\ clock - calls[c].now =< FetchBound
<1>1. calls[c] \in Call /\ clock \in Nat
  BY DEF ResolverInv, TypeOK
<1>2. calls[c].hops \in Nat /\ calls[c].now \in Nat /\ calls[c].hopAt \in Nat
  BY <1>1 DEF Call
<1>3. /\ calls[c].now =< calls[c].hopAt /\ calls[c].hopAt =< clock
      /\ calls[c].hopAt - calls[c].now =< Timeout * calls[c].hops
      /\ clock - calls[c].hopAt =< Timeout
      /\ calls[c].issuer \in Issuers /\ calls[c].purpose \in Purposes
      /\ calls[c].hops =< MaxRedirects
  BY DEF ResolverInv, FetchesBounded
<1> DEFINE t == Timeout * calls[c].hops
<1> DEFINE u == Timeout * (calls[c].hops + 1)
<1>4. /\ t \in Nat /\ u = t + Timeout /\ u =< FetchBound /\ FetchBound \in Nat
      /\ Timeout \in Nat
  <2>1. u = t + Timeout /\ u =< FetchBound
    BY <1>2, <1>3, HopBudget
  <2>2. t \in Nat
    BY <1>2, Bounds
  <2>3. QED
    BY <2>1, <2>2, Bounds
<1>5. calls[c].hopAt - calls[c].now =< t
  BY <1>3
<1> HIDE DEF t, u
<1>6. clock - calls[c].now =< u /\ clock - calls[c].now =< FetchBound
  BY <1>1, <1>2, <1>3, <1>4, <1>5
<1>7. QED
  BY <1>1, <1>2, <1>3, <1>6 DEF u

\* What a 200 carries is kept and handed over only when the pinned issuer signed it,
\* so only a list that was published is.
LEMMA AnsweredResolver ==
    ASSUME ResolverInv, NEW c \in Callers, NEW doc \in OnTheWire, Answered(c, doc)
    PROVE  ResolverInv'
<1> DEFINE i == calls[c].issuer
<1> DEFINE now == calls[c].now
<1>1. Fetching(c) /\ UNCHANGED <<clock, revokedAt, published>>
  BY DEF Answered
<1>2. /\ calls[c] \in Call /\ clock \in Nat /\ now \in Nat /\ i \in Issuers
      /\ clock - now =< FetchBound
  BY <1>1, FetchAge
<1>3. CASE End(c, "failed", NoDoc) /\ UNCHANGED cache
  BY <1>1, <1>3, FailedResolver
<1>4. CASE /\ VerifyStatusListCredential(doc, i) /\ Usable(doc, now, calls[c].purpose)
           /\ End(c, "done", doc)
           /\ cache' = [cache EXCEPT ![UrlOf[i]] = [doc |-> doc, fetchedAt |-> now]]
  <2>1. doc.signer = i /\ doc.issuer = i
    BY <1>4 DEF VerifyStatusListCredential
  <2>2. doc \in published
    <3>1. NoDoc.signer = NoIssuer
          /\ \A j \in Issuers, p \in Purposes : Forged(j, p).signer = NoIssuer
      BY DEF NoDoc, Forged
    <3>2. i # NoIssuer
      BY <1>2, ResolverConfig
    <3>3. QED
      BY <2>1, <3>1, <3>2 DEF OnTheWire
  <2>3. doc \in Document /\ doc.from \in Nat /\ doc.until \in Nat
    BY <2>2 DEF ResolverInv, TypeOK, Document
  <2>4. doc.purpose = calls[c].purpose /\ now < doc.until /\ now - doc.from =< MaxAge
    BY <1>4 DEF Usable, TemporallyUsable
  <2>5. UrlOf[i] \in Urls /\ PinnedAt(doc, UrlOf[i])
    BY <1>2, <2>1, <2>2, ResolverConfig DEF PinnedAt
  <2>6. [doc |-> doc, fetchedAt |-> now] \in CacheEntry
    BY <1>2, <2>3 DEF CacheEntry
  <2>7. cache' \in [Urls -> CacheEntry \cup {NoCopy}] /\ CopiesPinned'
    <3>1. cache' \in [Urls -> CacheEntry \cup {NoCopy}]
      BY <1>4, <2>5, <2>6 DEF ResolverInv, TypeOK
    <3>2. cache'[UrlOf[i]].doc = doc /\ \A u \in Urls \ {UrlOf[i]} : cache'[u] = cache[u]
      BY <1>4, <2>5 DEF ResolverInv, TypeOK
    <3>3. QED
      BY <1>1, <2>5, <3>1, <3>2 DEF ResolverInv, CopiesPinned, PinnedAt
  <2> DEFINE call == Settled(calls[c], "done", doc)
  <2>8. /\ calls' = [calls EXCEPT ![c] = call]
        /\ overtaken' \subseteq Callers
    BY <1>4 DEF End, ResolverInv, TypeOK
  <2>9. call \in Call /\ call.stage = "done" /\ call.doc = doc /\ call.issuer = i
        /\ call.purpose = calls[c].purpose
    BY <1>2, <2>3, SettledCall
  <2>10. clock < doc.until + FetchBound /\ clock =< doc.from + MaxAge + FetchBound
    BY <1>2, <2>3, <2>4, Bounds
  <2> HIDE DEF call
  <2>11. QED
    BY <1>1, <1>2, <2>4, <2>5, <2>7, <2>8, <2>9, <2>10, OneCall
<1>5. QED
  BY <1>3, <1>4 DEF Answered

\* The caller goes on.
LEMMA TakenResolver ==
    ASSUME ResolverInv, NEW c \in Callers, Taken(c)
    PROVE  ResolverInv'
<1>1. /\ calls' = [calls EXCEPT ![c] = Idle]
      /\ UNCHANGED <<clock, revokedAt, published, cache, overtaken>>
  BY DEF Taken
<1>2. Idle \in Call /\ Idle.stage = "idle"
  BY DEF Idle, Call
<1>3. /\ cache' \in [Urls -> CacheEntry \cup {NoCopy}] /\ CopiesPinned'
      /\ overtaken' \subseteq Callers
  BY <1>1 DEF ResolverInv, TypeOK, CopiesPinned, PinnedAt
<1>4. QED
  BY <1>1, <1>2, <1>3, OneCall

\* invalidate() drops copies and touches no fetch.
LEMMA InvalidateResolver ==
    ASSUME ResolverInv, Invalidate
    PROVE  ResolverInv'
<1>1. /\ UNCHANGED <<clock, revokedAt, published, calls>>
      /\ cache' = [u \in Urls |-> NoCopy] /\ overtaken' \subseteq Callers
  BY DEF Invalidate
<1>2. QED
  BY <1>1
     DEF ResolverInv, TypeOK, FetchesBounded, Fetching, ListsHonest, CopiesPinned, ServedFresh,
         PinnedAt

\* Time passes while no GET is due and no list waits to be used.
LEMMA TickResolver ==
    ASSUME ResolverInv, Tick
    PROVE  ResolverInv'
<1>1. /\ clock < Horizon /\ clock' = clock + 1
      /\ \A c \in Callers : Fetching(c) => clock - calls[c].hopAt < Timeout
      /\ \A c \in Callers : calls[c].stage # "done"
      /\ UNCHANGED <<revokedAt, published, cache, overtaken, calls>>
  BY DEF Tick
<1>2. clock \in 0 .. Horizon
  BY DEF ResolverInv, TypeOK
<1>3. TypeOK'
  BY <1>1, <1>2, Bounds DEF ResolverInv, TypeOK
<1>4. FetchesBounded'
  <2> SUFFICES ASSUME NEW c \in Callers, Fetching(c)
               PROVE  /\ calls[c].hopAt =< clock'
                      /\ clock' - calls[c].hopAt =< Timeout
    BY <1>1 DEF FetchesBounded, ResolverInv, Fetching
  <2>1. calls[c].hopAt \in Nat /\ calls[c].hopAt =< clock
    BY DEF ResolverInv, TypeOK, Call, FetchesBounded
  <2>2. QED
    BY <1>1, <1>2, <2>1, Bounds
<1>5. ListsHonest'
  <2>1. \A d \in published : d.from \in Nat
    BY DEF ResolverInv, TypeOK, Document
  <2>2. \A d \in published : d.from =< clock'+ Lead
    BY <1>1, <1>2, <2>1, LongestLead DEF ResolverInv, ListsHonest
  <2>3. QED
    BY <1>1, <2>2 DEF ResolverInv, ListsHonest
<1>6. CopiesPinned' /\ ServedFresh'
  BY <1>1 DEF ResolverInv, CopiesPinned, ServedFresh, PinnedAt
<1>7. QED
  BY <1>3, <1>4, <1>5, <1>6 DEF ResolverInv

\* The steps of a fetch under way.
LEMMA FetchResolver ==
    ASSUME ResolverInv, NEW c \in Callers, FetchStep(c)
    PROVE  ResolverInv'
<1>1. CASE Redirected(c)
  BY <1>1, RedirectedResolver
<1>2. CASE FetchFailed(c) \/ AnswerRefused(c) \/ AbortTimer(c)
  BY <1>2, FailedResolver DEF FetchFailed, AnswerRefused, AbortTimer
<1>3. CASE \E doc \in OnTheWire : Answered(c, doc)
  BY <1>3, AnsweredResolver
<1>4. QED
  BY <1>1, <1>2, <1>3 DEF FetchStep

\* A step that leaves the resolver alone.
LEMMA ResolverStays ==
    ASSUME ResolverInv, UNCHANGED resolverVars
    PROVE  ResolverInv'
BY DEF resolverVars, ResolverInv, TypeOK, FetchesBounded, Fetching, ListsHonest, CopiesPinned,
       ServedFresh, PinnedAt

\* Every step of the issuers, the network, the clock and the callers keeps it.
LEMMA StepResolver == ResolverInv /\ [ResolverNext]_resolverVars => ResolverInv'
<1> SUFFICES ASSUME ResolverInv, [ResolverNext]_resolverVars PROVE ResolverInv'
  OBVIOUS
<1>1. CASE IssuerStep
  BY <1>1, RevokeResolver, PublishResolver DEF IssuerStep
<1>2. CASE Invalidate
  BY <1>2, InvalidateResolver
<1>3. CASE Tick
  BY <1>3, TickResolver
<1>4. ASSUME NEW c \in Callers, NEW id \in IssuerIds \cup {NoIssuer}, NEW p \in Purposes,
             Resolve(c, id, p)
      PROVE  ResolverInv'
  BY <1>4, ResolveResolver
<1>5. ASSUME NEW c \in Callers, FetchStep(c) PROVE ResolverInv'
  BY <1>5, FetchResolver
<1>6. ASSUME NEW c \in Callers, Taken(c) PROVE ResolverInv'
  BY <1>6, TakenResolver
<1>7. CASE UNCHANGED resolverVars
  BY <1>7, ResolverStays
<1>8. QED
  BY <1>1, <1>2, <1>3, <1>4, <1>5, <1>6, <1>7 DEF ResolverNext

\* The invariant holds in every state of the resolver.
LEMMA ResolverInvariant == ResolverSpec => []ResolverInv
BY InitResolver, StepResolver, PTL DEF ResolverSpec

\* A fetch never runs longer than its GETs allow, through every redirect, so the clock
\* it read before the await is at most FetchBound old when the list is used (resolve,
\* #fetchAndVerify).
THEOREM FetchesAreBounded == ResolverSpec => []FetchBounded
<1>1. ResolverInv => FetchBounded
  BY FetchAge DEF FetchBounded
<1>2. QED
  BY <1>1, ResolverInvariant, PTL

\* Where every issuer is pinned at a URL of its own, a list that is served was signed
\* by the issuer it is served for, and had not expired when its fetch began, whether it
\* came from the network or out of the cache.
THEOREM ServedListsAreOwn == OwnUrl => (ResolverSpec => []ServedSound)
<1>1. OwnUrl /\ ResolverInv => ServedSound
  BY DEF ResolverInv, ServedSound, ServedOwnList, ServedUnexpired, ServedFresh, PinnedAt, OwnUrl
<1>2. SUFFICES ASSUME OwnUrl PROVE ResolverSpec => []ServedSound
  OBVIOUS
<1>3. ResolverInv => ServedSound
  BY <1>1, <1>2
<1>4. QED
  BY <1>3, ResolverInvariant, PTL

-----------------------------------------------------------------------------
(* Questions.                                                              *)

\* Every predicate the library hands out asks well.
LEMMA BasicQuestions ==
    /\ AskedQuestion(CredentialAudit)
    /\ \A name \in DisclosableClaims : AskedQuestion(ClaimPredicate(name))
    /\ \A allowed : CountryAllowedDefined(allowed, Policy) =>
         AskedQuestion(CountryAllowed(allowed))
BY DEF AskedQuestion, CredentialAudit, ClaimPredicate, CountryAllowed

\* allOf of predicates that ask well asks well: what one of them expects of a claim
\* all that name the claim expect, or allOf throws.
LEMMA ConjunctionAsked ==
    ASSUME NEW ps, AllOfDefined(ps), \A p \in ps : AskedQuestion(p)
    PROVE  AskedQuestion(AllOf(ps))
<1> SUFFICES ASSUME NEW allowed \in AllOf(ps).label
             PROVE  /\ CountryAllowedDefined(allowed, Policy)
                    /\ "jurisdictionOk" \in DOMAIN AllOf(ps).expect
                    /\ AllOf(ps).expect["jurisdictionOk"] = TRUE
  BY DEF AskedQuestion
<1>1. PICK p \in ps : allowed \in p.label
  BY DEF AllOf
<1>2. /\ CountryAllowedDefined(allowed, Policy)
      /\ "jurisdictionOk" \in DOMAIN p.expect /\ p.expect["jurisdictionOk"] = TRUE
  BY <1>1 DEF AskedQuestion
<1>3. /\ "jurisdictionOk" \in DOMAIN AllOf(ps).expect
      /\ AllOf(ps).expect["jurisdictionOk"] =
           (CHOOSE q \in ps : "jurisdictionOk" \in DOMAIN q.expect).expect["jurisdictionOk"]
  BY <1>2 DEF AllOf
<1>4. PICK q \in ps : /\ q = CHOOSE x \in ps : "jurisdictionOk" \in DOMAIN x.expect
                      /\ "jurisdictionOk" \in DOMAIN q.expect
  BY <1>2
<1>5. q.expect["jurisdictionOk"] = p.expect["jurisdictionOk"]
  BY <1>2, <1>4 DEF AllOfDefined, Conflict
<1>6. QED
  BY <1>2, <1>3, <1>4, <1>5

-----------------------------------------------------------------------------
(* What the checks of a verification show.                                 *)

\* A verification is of a credential that was issued, against a challenge that ends.
LEMMA VerificationOf ==
    ASSUME NEW r \in Verification
    PROVE  /\ r.proof.cred \in Credentials /\ IssuedCredential(r.proof.cred)
           /\ r.proof.cred.claims.expiresAt \in Nat
           /\ r.proof.cred.claims.revocationIndex \in Indexes
           /\ r.binding.ledgerExpiry \in Nat
           /\ r.key \in Issuers /\ r.binding \in Bindings
           /\ r.stage \in {"proving", "status", "accepted"} /\ r # Waiting
<1>1. /\ r.proof \in Presentations /\ r.key \in Issuers /\ r.binding \in Bindings
      /\ r.stage \in {"proving", "status", "accepted"}
  BY DEF Verification
<1>2. Waiting.stage = "idle"
  BY DEF Waiting
<1>3. r.proof.cred \in Credentials /\ ValidBinding(r.binding)
  BY <1>1, VerifierConfig
<1>4. QED
  BY <1>1, <1>2, <1>3, VerifierConfig DEF IssuedCredential, ValidBinding

\* A proof that verifies under the key, for the challenge, and passes the checks on
\* what it discloses, vouches for its credential; a holder accepted under an allowlist
\* lives in the issuer's jurisdictions, all of which the allowlist names.
LEMMA ChecksVouch ==
    ASSUME NEW r \in Verification, Structured(r), NEW now,
           BbsVerifies(r.proof, r.key, r.binding), PolicyOk(r.proof, r.options, r.key, now)
    PROVE  /\ Vouched(r)
           /\ now =< r.proof.cred.claims.expiresAt
           /\ "issuerId" \in DOMAIN r.proof.messages =>
                r.proof.messages["issuerId"].value = r.key
<1> DEFINE msgs == r.proof.messages
<1> DEFINE claims == r.proof.cred.claims
<1>1. DOMAIN DecodeDisclosed(msgs) = DOMAIN msgs
      /\ \A n \in DOMAIN msgs : DecodeDisclosed(msgs)[n] = msgs[n].value
  BY DEF DecodeDisclosed
<1>2. \A n \in DOMAIN msgs : msgs[n].value = claims[n]
  <2> SUFFICES ASSUME NEW n \in DOMAIN msgs PROVE msgs[n].value = claims[n]
    OBVIOUS
  <2>1. n \in ClaimNames
    BY DEF Structured, Decodable
  <2>2. msgs[n] = EncodeClaims(claims)[n]
    BY DEF BbsVerifies
  <2>3. EncodeClaims(claims)[n] = [name |-> n, value |-> claims[n]]
    BY <2>1 DEF EncodeClaims
  <2>4. QED
    BY <2>2, <2>3
<1> DEFINE shown == DecodeDisclosed(msgs)
<1>3. /\ "expiresAt" \in DOMAIN shown /\ now =< shown.expiresAt
      /\ "subjectBinding" \in DOMAIN shown
      /\ shown.subjectBinding = r.options.expectedSubjectBinding
      /\ ExpectationsMet(r.options.expectedClaims, shown)
      /\ "revocationIndex" \in DOMAIN shown
      /\ "issuerId" \in DOMAIN shown => shown.issuerId = r.key
  BY DEF PolicyOk
<1> HIDE DEF msgs, claims, shown
<1>4. \A n \in DOMAIN r.options.expectedClaims : claims[n] = r.options.expectedClaims[n]
  BY <1>1, <1>2, <1>3 DEF ExpectationsMet, shown
<1>5. \A allowed \in r.options.label : r.proof.cred.country \in allowed
  <2> SUFFICES ASSUME NEW allowed \in r.options.label PROVE r.proof.cred.country \in allowed
    OBVIOUS
  <2>1. PICK q \in Questions : r.options.expectedClaims = q.expect /\ r.options.label = q.label
    BY DEF Verification, Options, VerifyOptions
  <2>2. /\ Policy \subseteq allowed
        /\ "jurisdictionOk" \in DOMAIN q.expect /\ q.expect["jurisdictionOk"] = TRUE
    BY <2>1, VerifierConfig DEF AskedQuestion, CountryAllowedDefined
  <2>3. claims["jurisdictionOk"] = TRUE
    BY <1>4, <2>1, <2>2
  <2>4. claims["jurisdictionOk"] = (r.proof.cred.country \in Policy)
    BY VerificationOf DEF IssuedCredential, claims
  <2>5. QED
    BY <2>2, <2>3, <2>4
<1>6. r.proof.cred.signer = r.key /\ r.proof.madeFor = BindingDigest(r.binding)
  BY DEF BbsVerifies
<1>7. /\ claims.subjectBinding = r.options.expectedSubjectBinding
      /\ now =< claims.expiresAt
      /\ "issuerId" \in DOMAIN msgs => msgs["issuerId"].value = r.key
      /\ "revocationIndex" \in DOMAIN msgs
      /\ msgs["revocationIndex"].value = claims.revocationIndex
  BY <1>1, <1>2, <1>3 DEF shown
<1>8. QED
  BY <1>4, <1>5, <1>6, <1>7 DEF Vouched, msgs, claims

\* Two calls of the resolver ask it the same.
SameCall(call, of) == call.issuer = of.issuer /\ call.purpose = of.purpose

\* A promise that settles is for the issuer and the purpose it was made for.
LEMMA SettledKeeps ==
    ASSUME NEW call, call \in Call \/ DOMAIN call = DOMAIN Idle, NEW stage, NEW doc
    PROVE  /\ Settled(call, stage, doc).stage = stage
           /\ SameCall(Settled(call, stage, doc), call)
<1>1. DOMAIN call = {"stage", "issuer", "purpose", "now", "hopAt", "hops", "doc"}
  BY DEF Call, Idle
<1>2. QED
  BY <1>1 DEF Settled, SameCall

\* resolve() answers at once or starts a fetch with the clock it reads.
LEMMA ResolveStarts ==
    ASSUME TypeOK, NEW c \in Callers, NEW id, NEW p, Resolve(c, id, p)
    PROVE  /\ UNCHANGED <<clock, revokedAt, published>>
           /\ \A d \in Callers \ {c} : calls'[d] = calls[d]
           /\ calls'[c].stage \in {"fetching", "done", "failed"}
           /\ calls'[c].purpose = p
           /\ calls'[c].issuer = IF id = NoIssuer THEN DefaultIssuer ELSE id
           /\ Fetching(c)' => calls'[c].now = clock
<1> DEFINE i == IF id = NoIssuer THEN DefaultIssuer ELSE id
<1> DEFINE call == [stage |-> "fetching", issuer |-> i, purpose |-> p, now |-> clock,
                    hopAt |-> clock, hops |-> 0, doc |-> NoDoc]
<1>1. UNCHANGED <<clock, revokedAt, published>> /\ calls \in [Callers -> Call]
  BY DEF Resolve, TypeOK
<1>2. /\ DOMAIN call = DOMAIN Idle
      /\ call.stage = "fetching" /\ call.issuer = i /\ call.purpose = p /\ call.now = clock
  BY DEF Idle
<1>3. PICK next : /\ calls' = [calls EXCEPT ![c] = next]
                  /\ \/ next = call
                     \/ \E stage \in {"done", "failed"} : \E doc : next = Settled(call, stage, doc)
  BY DEF Resolve
<1>4. calls'[c] = next /\ \A d \in Callers \ {c} : calls'[d] = calls[d]
  BY <1>1, <1>3
<1> HIDE DEF call
<1>5. CASE next = call
  BY <1>1, <1>2, <1>4, <1>5 DEF Fetching
<1>6. CASE \E stage \in {"done", "failed"} : \E doc : next = Settled(call, stage, doc)
  <2>1. PICK stage \in {"done", "failed"} : \E doc : next = Settled(call, stage, doc)
    BY <1>6
  <2>2. PICK doc : next = Settled(call, stage, doc)
    BY <2>1
  <2>3. next.stage = stage /\ SameCall(next, call)
    BY <1>2, <2>2, SettledKeeps
  <2>4. QED
    BY <1>1, <1>2, <1>4, <2>3 DEF Fetching, SameCall
<1>7. QED
  BY <1>3, <1>5, <1>6

\* A step of a fetch keeps whom it is for and the clock it began with.
LEMMA FetchKeeps ==
    ASSUME TypeOK, NEW c \in Callers, FetchStep(c)
    PROVE  /\ Fetching(c) /\ UNCHANGED <<clock, revokedAt, published>>
           /\ \A d \in Callers \ {c} : calls'[d] = calls[d]
           /\ calls'[c].stage \in {"fetching", "done", "failed"}
           /\ calls'[c].purpose = calls[c].purpose
           /\ calls'[c].issuer = calls[c].issuer
           /\ Fetching(c)' => calls'[c].now = calls[c].now
<1>1. calls \in [Callers -> Call] /\ calls[c] \in Call
  BY DEF TypeOK
<1>2. Fetching(c) /\ UNCHANGED <<clock, revokedAt, published>>
  BY DEF FetchStep, Redirected, FetchFailed, AnswerRefused, AbortTimer, Answered
<1>3. CASE calls' = [calls EXCEPT ![c].hops = @ + 1, ![c].hopAt = clock]
  BY <1>1, <1>2, <1>3 DEF Fetching, Call
<1>4. CASE \E stage \in {"done", "failed"} : \E doc :
             calls' = [calls EXCEPT ![c] = Settled(calls[c], stage, doc)]
  <2>1. PICK stage \in {"done", "failed"} :
          \E doc : calls' = [calls EXCEPT ![c] = Settled(calls[c], stage, doc)]
    BY <1>4
  <2>2. PICK doc : calls' = [calls EXCEPT ![c] = Settled(calls[c], stage, doc)]
    BY <2>1
  <2>3. /\ calls'[c] = Settled(calls[c], stage, doc)
        /\ \A d \in Callers \ {c} : calls'[d] = calls[d]
    BY <1>1, <2>2
  <2>4. calls'[c].stage = stage /\ SameCall(calls'[c], calls[c])
    BY <1>1, <2>3, SettledKeeps
  <2>5. QED
    BY <1>2, <2>3, <2>4 DEF Fetching, SameCall
<1>5. QED
  BY <1>2, <1>3, <1>4
     DEF FetchStep, Redirected, FetchFailed, AnswerRefused, AbortTimer, Answered, End

-----------------------------------------------------------------------------
(* The steps of a verification.                                            *)

\* Nothing is verified, burnt or accepted before the first presentation.
LEMMA InitVerifier == Init => VerifierInv
<1> SUFFICES ASSUME Init PROVE VerifierInv
  OBVIOUS
<1>1. ResolverInv
  BY InitResolver DEF Init
<1>2. \A v \in Callers : ver[v] = Waiting /\ ver[v].stage = "idle"
  BY DEF Init, Waiting
<1>3. VerTypeOK /\ GuardCounts
  BY DEF Init, VerTypeOK, GuardCounts
<1>4. ChecksHold /\ WaitsInTime
  BY <1>2 DEF ChecksHold, WaitsInTime
<1>5. QED
  BY <1>1, <1>3, <1>4 DEF VerifierInv

\* What the checks have shown is about the verification alone.
LEMMA VerificationsStay ==
    ASSUME VerTypeOK, GuardCounts, ChecksHold, UNCHANGED <<ver, consumed, accepts>>
    PROVE  VerTypeOK' /\ GuardCounts' /\ ChecksHold'
BY DEF VerTypeOK, GuardCounts, ChecksHold, Structured, Vouched

\* The issuers revoke and publish and the operator drops copies beside it.
LEMMA AroundVerifier ==
    ASSUME VerifierInv, IssuerStep \/ Invalidate, UNCHANGED <<ver, consumed, accepts>>
    PROVE  VerifierInv'
<1>1. ResolverInv'
  BY StepResolver DEF VerifierInv, ResolverNext
<1>2. clock' = clock /\ calls' = calls
  BY DEF IssuerStep, RevokeIndex, PublishStatusList, Invalidate
<1>3. WaitsInTime'
  BY <1>2 DEF VerifierInv, WaitsInTime, Within, Fetching
<1>4. QED
  BY <1>1, <1>3, VerificationsStay DEF VerifierInv

\* Time passes only during fetches: what is settled or proved is used at once.
LEMMA TickVerifier ==
    ASSUME VerifierInv, VerifierTick
    PROVE  VerifierInv'
<1>1. ResolverInv'
  BY TickResolver DEF VerifierInv, VerifierTick
<1>2. /\ \A v \in Callers : ver[v].stage \in {"idle", "status"}
      /\ \A v \in Callers : calls[v].stage # "done"
      /\ UNCHANGED <<ver, consumed, accepts, calls>>
  BY DEF VerifierTick, Tick
<1>3. WaitsInTime'
  BY <1>2 DEF VerifierInv, WaitsInTime, Within, Fetching
<1>4. QED
  BY <1>1, <1>2, <1>3, VerificationsStay DEF VerifierInv

\* One verification moves: the others, and what their resolver calls are, stay.
LEMMA OneVerification ==
    ASSUME VerifierInv, ResolverInv', NEW v \in Callers, NEW r \in Verification \cup {Waiting},
           ver' = [ver EXCEPT ![v] = r],
           clock' = clock, \A d \in Callers \ {v} : calls'[d] = calls[d],
           VerTypeOK' /\ GuardCounts',
           r # Waiting => Structured(r),
           r.stage \in {"status", "accepted"} => Vouched(r),
           r.stage = "proving" => clock =< r.binding.ledgerExpiry,
           r.stage = "status" =>
             /\ calls'[v].stage # "idle" /\ calls'[v].purpose = "revocation"
             /\ Fetching(v)' => Within(r, calls'[v].now)
             /\ calls'[v].stage = "done" => Within(r, clock - FetchBound),
           r.stage = "accepted" => Within(r, clock - FetchBound)
    PROVE  VerifierInv'
<1>1. ver'[v] = r /\ \A d \in Callers \ {v} : ver'[d] = ver[d]
  BY DEF VerifierInv, VerTypeOK
<1>2. ChecksHold'
  <2> SUFFICES ASSUME NEW d \in Callers
               PROVE  /\ ver'[d] # Waiting => Structured(ver'[d])
                      /\ ver'[d].stage \in {"status", "accepted"} => Vouched(ver'[d])
    BY DEF ChecksHold, Structured, Vouched
  <2>1. QED
    BY <1>1 DEF VerifierInv, ChecksHold
<1>3. WaitsInTime'
  <2> SUFFICES ASSUME NEW d \in Callers
               PROVE  /\ ver'[d].stage = "proving" => clock =< ver'[d].binding.ledgerExpiry
                      /\ ver'[d].stage = "status" =>
                           /\ calls'[d].stage # "idle" /\ calls'[d].purpose = "revocation"
                           /\ Fetching(d)' => Within(ver'[d], calls'[d].now)
                           /\ calls'[d].stage = "done" => Within(ver'[d], clock - FetchBound)
                      /\ ver'[d].stage = "accepted" => Within(ver'[d], clock - FetchBound)
    BY DEF WaitsInTime, Within
  <2>1. CASE d = v
    BY <1>1, <2>1
  <2>2. CASE d # v
    BY <1>1, <2>2 DEF VerifierInv, WaitsInTime, Fetching
  <2>3. QED
    BY <2>1, <2>2
<1>4. QED
  BY <1>2, <1>3 DEF VerifierInv

\* The checks before ProofVerify, at one reading of the clock.
LEMMA PresentVerifier ==
    ASSUME VerifierInv, NEW v \in Callers, NEW p \in Presentations, NEW q \in Questions,
           NEW i \in Issuers, NEW b \in Bindings, NEW s \in Subjects, Present(v, p, q, i, b, s)
    PROVE  VerifierInv'
<1> DEFINE r == [stage |-> "proving", proof |-> p, key |-> i, binding |-> b,
                 options |-> VerifyOptions(q, s)]
<1>1. /\ ver' = [ver EXCEPT ![v] = r] /\ UNCHANGED <<resolverVars, consumed, accepts>>
      /\ StructureOk(p, VerifyOptions(q, s), b, clock)
  BY DEF Present
<1>2. r \in Verification
  BY DEF Verification, Options
<1>3. Structured(r) /\ clock =< r.binding.ledgerExpiry
  BY <1>1 DEF StructureOk, Structured
<1>4. r.stage = "proving"
  OBVIOUS
<1> HIDE DEF r
<1>5. ResolverInv' /\ clock' = clock /\ calls' = calls
  BY <1>1, ResolverStays DEF VerifierInv, resolverVars
<1>6. VerTypeOK' /\ GuardCounts'
  BY <1>1, <1>2 DEF VerifierInv, VerTypeOK, GuardCounts
<1>7. QED
  BY <1>1, <1>2, <1>3, <1>4, <1>5, <1>6, OneVerification

\* The proof verifies and its values pass, and the resolver is asked at that instant;
\* or the verification ends.
LEMMA ProofVerifier ==
    ASSUME VerifierInv, NEW v \in Callers, ProofVerified(v)
    PROVE  VerifierInv'
<1> DEFINE r == ver[v]
<1> DEFINE id == IF "issuerId" \in DOMAIN r.proof.messages
                 THEN r.proof.messages["issuerId"].value ELSE NoIssuer
<1>1. /\ r.stage = "proving" /\ consumed' = consumed /\ accepts' = accepts
      /\ ver \in [Callers -> Verification \cup {Waiting}]
  BY DEF ProofVerified, VerifierInv, VerTypeOK
<1>2. r \in Verification /\ r # Waiting
  BY <1>1 DEF Waiting
<1>3. Structured(r) /\ clock =< r.binding.ledgerExpiry
  BY <1>1, <1>2 DEF VerifierInv, ChecksHold, WaitsInTime
<1>4. CASE ver' = [ver EXCEPT ![v] = Waiting] /\ UNCHANGED resolverVars
  <2>1. ResolverInv' /\ clock' = clock /\ calls' = calls
    BY <1>4, ResolverStays DEF VerifierInv, resolverVars
  <2>2. VerTypeOK' /\ GuardCounts'
    BY <1>1, <1>4 DEF VerifierInv, VerTypeOK, GuardCounts
  <2>3. Waiting.stage = "idle"
    BY DEF Waiting
  <2>4. QED
    BY <1>4, <2>1, <2>2, <2>3, OneVerification
<1>5. CASE /\ BbsVerifies(r.proof, r.key, r.binding)
           /\ PolicyOk(r.proof, r.options, r.key, clock)
           /\ ver' = [ver EXCEPT ![v].stage = "status"]
           /\ Resolve(v, id, "revocation")
  <2> DEFINE s == [r EXCEPT !.stage = "status"]
  <2>1. /\ Vouched(r) /\ clock =< r.proof.cred.claims.expiresAt
        /\ "issuerId" \in DOMAIN r.proof.messages =>
             r.proof.messages["issuerId"].value = r.key
    BY <1>2, <1>3, <1>5, ChecksVouch
  <2>2. id \in IssuerIds \cup {NoIssuer}
    BY <1>2, <2>1, ResolverConfig, VerificationOf
  <2>3. /\ s \in Verification /\ s.stage = "status" /\ s # Waiting
        /\ s.proof = r.proof /\ s.key = r.key /\ s.binding = r.binding
        /\ s.options = r.options
    BY <1>2 DEF Verification, Waiting
  <2>4. ver' = [ver EXCEPT ![v] = s]
    BY <1>1, <1>2, <1>5
  <2> HIDE DEF id, s
  <2>5. ResolverInv'
    BY <1>5, <2>2, ResolveResolver, VerifierConfig DEF VerifierInv
  <2>6. /\ clock' = clock /\ \A d \in Callers \ {v} : calls'[d] = calls[d]
        /\ calls'[v].stage \in {"fetching", "done", "failed"}
        /\ calls'[v].purpose = "revocation"
        /\ Fetching(v)' => calls'[v].now = clock
    BY <1>5, ResolveStarts DEF VerifierInv, ResolverInv
  <2>7. VerTypeOK' /\ GuardCounts'
    BY <1>1, <2>3, <2>4 DEF VerifierInv, VerTypeOK, GuardCounts
  <2>8. Within(s, clock) /\ Within(s, clock - FetchBound)
    <3>1. clock \in Nat /\ r.binding.ledgerExpiry \in Nat
          /\ r.proof.cred.claims.expiresAt \in Nat
      BY <1>2, VerificationOf DEF VerifierInv, ResolverInv, TypeOK
    <3>2. QED
      BY <1>3, <2>1, <2>3, <3>1, Bounds DEF Within
  <2>9. Structured(s) /\ Vouched(s)
    BY <1>3, <2>1, <2>3 DEF Structured, Vouched
  <2>10. QED
    BY <2>3, <2>4, <2>5, <2>6, <2>7, <2>8, <2>9, OneVerification
<1>6. QED
  BY <1>4, <1>5 DEF ProofVerified

\* The fetch a verification waits for goes on, or ends no later than it may.
LEMMA FetchVerifier ==
    ASSUME VerifierInv, NEW c \in Callers, FetchStep(c), UNCHANGED <<ver, consumed, accepts>>
    PROVE  VerifierInv'
<1>1. ResolverInv'
  BY FetchResolver DEF VerifierInv
<1>2. /\ Fetching(c) /\ clock' = clock
      /\ \A d \in Callers \ {c} : calls'[d] = calls[d]
      /\ calls'[c].stage \in {"fetching", "done", "failed"}
      /\ calls'[c].purpose = calls[c].purpose
      /\ Fetching(c)' => calls'[c].now = calls[c].now
  BY FetchKeeps DEF VerifierInv, ResolverInv
<1>3. ver[c].stage = "status" => Within(ver[c], clock - FetchBound)
  <2> SUFFICES ASSUME ver[c].stage = "status" PROVE Within(ver[c], clock - FetchBound)
    OBVIOUS
  <2>1. ver[c] \in Verification
    BY DEF VerifierInv, VerTypeOK, Waiting
  <2>2. Within(ver[c], calls[c].now)
    BY <1>2 DEF VerifierInv, WaitsInTime
  <2>3. clock \in Nat /\ calls[c].now \in Nat /\ clock - calls[c].now =< FetchBound
    BY <1>2, FetchAge DEF VerifierInv
  <2>4. ver[c].binding.ledgerExpiry \in Nat /\ ver[c].proof.cred.claims.expiresAt \in Nat
    BY <2>1, VerificationOf
  <2>5. QED
    BY <2>2, <2>3, <2>4, Bounds DEF Within
<1>4. WaitsInTime'
  <2> SUFFICES ASSUME NEW d \in Callers
               PROVE  /\ ver[d].stage = "proving" => clock =< ver[d].binding.ledgerExpiry
                      /\ ver[d].stage = "status" =>
                           /\ calls'[d].stage # "idle" /\ calls'[d].purpose = "revocation"
                           /\ Fetching(d)' => Within(ver[d], calls'[d].now)
                           /\ calls'[d].stage = "done" => Within(ver[d], clock - FetchBound)
                      /\ ver[d].stage = "accepted" => Within(ver[d], clock - FetchBound)
    BY <1>2 DEF WaitsInTime, Within
  <2>1. CASE d = c
    BY <1>2, <1>3, <2>1 DEF VerifierInv, WaitsInTime
  <2>2. CASE d # c
    BY <1>2, <2>2 DEF VerifierInv, WaitsInTime, Fetching
  <2>3. QED
    BY <2>1, <2>2
<1>5. QED
  BY <1>1, <1>4, VerificationsStay DEF VerifierInv

\* The answer is read and, when the bit is clear and the nonce unused, accepted: the
\* nonce is burnt and the acceptance counted in one step.
LEMMA StatusVerifier ==
    ASSUME VerifierInv, NEW v \in Callers, StatusReturned(v)
    PROVE  VerifierInv'
<1> DEFINE r == ver[v]
<1> DEFINE dg == BindingDigest(r.binding)
<1> DEFINE clear == /\ calls[v].stage = "done"
                    /\ r.proof.messages["revocationIndex"].value \notin calls[v].doc.bits
<1> DEFINE ok == clear /\ Consume(r.binding)
<1> DEFINE s == IF ok THEN [r EXCEPT !.stage = "accepted"] ELSE Waiting
<1>1. /\ r.stage = "status" /\ Taken(v)
      /\ ver' = [ver EXCEPT ![v] = s]
      /\ consumed' = IF clear THEN consumed \cup {dg} ELSE consumed
      /\ accepts' = IF ok THEN [accepts EXCEPT ![dg] = accepts[dg] + 1] ELSE accepts
  BY DEF StatusReturned
<1>2. r \in Verification /\ r # Waiting /\ ver \in [Callers -> Verification \cup {Waiting}]
  BY <1>1 DEF VerifierInv, VerTypeOK, Waiting
<1>3. dg \in {BindingDigest(b) : b \in Bindings}
  BY <1>2, VerificationOf
<1>4. Structured(r) /\ Vouched(r)
  BY <1>1, <1>2 DEF VerifierInv, ChecksHold
<1>5. ok => Within(r, clock - FetchBound)
  BY <1>1 DEF VerifierInv, WaitsInTime
<1>6. /\ s \in Verification \cup {Waiting}
      /\ s.stage \in {"accepted", "idle"}
      /\ s # Waiting => /\ ok /\ s.stage = "accepted" /\ s.proof = r.proof /\ s.key = r.key
                        /\ s.binding = r.binding /\ s.options = r.options
      /\ s.stage = "accepted" => ok
  BY <1>2 DEF Verification, Waiting
<1>7. ok => dg \notin consumed
  BY DEF Consume
<1>8. consumed \subseteq {BindingDigest(b) : b \in Bindings}
      /\ accepts \in [{BindingDigest(b) : b \in Bindings} -> Nat]
      /\ GuardCounts
  BY DEF VerifierInv, VerTypeOK
<1>9. clear /\ ~ok => dg \in consumed
  BY DEF Consume
<1>10. ok => clear
  OBVIOUS
<1> HIDE DEF s, dg, clear, ok
<1>11. ResolverInv' /\ clock' = clock /\ \A d \in Callers \ {v} : calls'[d] = calls[d]
  BY <1>1, TakenResolver DEF VerifierInv, Taken, ResolverInv, TypeOK
<1>12. VerTypeOK' /\ GuardCounts'
  <2>1. ver' \in [Callers -> Verification \cup {Waiting}]
    BY <1>1, <1>2, <1>6
  <2>2. consumed' \subseteq {BindingDigest(b) : b \in Bindings}
    BY <1>1, <1>3, <1>8
  <2>3. accepts' \in [{BindingDigest(b) : b \in Bindings} -> Nat]
    BY <1>1, <1>3, <1>8
  <2>4. GuardCounts'
    BY <1>1, <1>3, <1>7, <1>8, <1>9, <1>10 DEF GuardCounts
  <2>5. QED
    BY <2>1, <2>2, <2>3, <2>4 DEF VerTypeOK
<1>13. /\ s # Waiting => Structured(s)
       /\ s.stage = "accepted" => Vouched(s) /\ Within(s, clock - FetchBound)
  <2>1. Waiting.stage = "idle"
    BY DEF Waiting
  <2>2. QED
    BY <1>4, <1>5, <1>6, <2>1 DEF Structured, Vouched, Within
<1>14. QED
  BY <1>1, <1>6, <1>11, <1>12, <1>13, OneVerification

\* The relying party is answered.
LEMMA AcceptedVerifier ==
    ASSUME VerifierInv, NEW v \in Callers, Accepted(v)
    PROVE  VerifierInv'
<1>1. /\ ver' = [ver EXCEPT ![v] = Waiting]
      /\ UNCHANGED <<resolverVars, consumed, accepts>>
  BY DEF Accepted
<1>2. ResolverInv' /\ clock' = clock /\ calls' = calls
  BY <1>1, ResolverStays DEF VerifierInv, resolverVars
<1>3. VerTypeOK' /\ GuardCounts'
  BY <1>1 DEF VerifierInv, VerTypeOK, GuardCounts
<1>4. Waiting.stage = "idle"
  BY DEF Waiting
<1>5. QED
  BY <1>1, <1>2, <1>3, <1>4, OneVerification

\* Every step of every verification, and of what goes on beside them, keeps it.
LEMMA StepVerifier == VerifierInv /\ [Next]_vars => VerifierInv'
<1> SUFFICES ASSUME VerifierInv, [Next]_vars PROVE VerifierInv'
  OBVIOUS
<1>1. CASE (IssuerStep \/ Invalidate) /\ UNCHANGED <<ver, consumed, accepts>>
  BY <1>1, AroundVerifier
<1>2. CASE VerifierTick
  BY <1>2, TickVerifier
<1>3. ASSUME NEW v \in Callers, NEW p \in Presentations, NEW q \in Questions,
             NEW i \in Issuers, NEW b \in Bindings, NEW s \in Subjects, Present(v, p, q, i, b, s)
      PROVE  VerifierInv'
  BY <1>3, PresentVerifier
<1>4. ASSUME NEW v \in Callers, ProofVerified(v) PROVE VerifierInv'
  BY <1>4, ProofVerifier
<1>5. ASSUME NEW v \in Callers, FetchStep(v), UNCHANGED <<ver, consumed, accepts>>
      PROVE  VerifierInv'
  BY <1>5, FetchVerifier
<1>6. ASSUME NEW v \in Callers, StatusReturned(v) PROVE VerifierInv'
  BY <1>6, StatusVerifier
<1>7. ASSUME NEW v \in Callers, Accepted(v) PROVE VerifierInv'
  BY <1>7, AcceptedVerifier
<1>8. CASE UNCHANGED vars
  <2>1. UNCHANGED resolverVars /\ UNCHANGED <<ver, consumed, accepts>>
    BY <1>8 DEF vars
  <2>2. clock' = clock /\ calls' = calls
    BY <2>1 DEF resolverVars
  <2>3. WaitsInTime'
    BY <2>1, <2>2 DEF VerifierInv, WaitsInTime, Within, Fetching
  <2>4. QED
    BY <2>1, <2>3, ResolverStays, VerificationsStay DEF VerifierInv
<1>9. QED
  BY <1>1, <1>2, <1>3, <1>4, <1>5, <1>6, <1>7, <1>8 DEF Next

\* The invariant holds in every state of the verifier.
LEMMA VerifierInvariant == Spec => []VerifierInv
BY InitVerifier, StepVerifier, PTL DEF Spec

-----------------------------------------------------------------------------
(* Revocation.                                                             *)

\* Nothing is asked or accepted at first.
LEMMA InitRevocation == Init => RevocationInv
<1> SUFFICES ASSUME Init PROVE RevocationInv
  OBVIOUS
<1>1. \A v \in Callers : ver[v].stage = "idle"
  BY DEF Init, Waiting
<1>2. QED
  BY <1>1 DEF RevocationInv, AskedOfSigner, RevocationRespected

\* The resolver is asked for the list of the key that verified the proof: of the
\* disclosed issuer, which the checks compare with that key, or of the default one,
\* which is the only one there is.
LEMMA AskedOfSignerStep ==
    ASSUME SingleDefault, VerifierInv, AskedOfSigner, NEW v \in Callers, ProofVerified(v)
    PROVE  AskedOfSigner'
<1> DEFINE r == ver[v]
<1> DEFINE id == IF "issuerId" \in DOMAIN r.proof.messages
                 THEN r.proof.messages["issuerId"].value ELSE NoIssuer
<1>1. /\ r.stage = "proving" /\ ver \in [Callers -> Verification \cup {Waiting}]
  BY DEF ProofVerified, VerifierInv, VerTypeOK
<1>2. r \in Verification /\ r # Waiting /\ Structured(r)
  BY <1>1 DEF Waiting, VerifierInv, ChecksHold
<1>3. CASE ver' = [ver EXCEPT ![v] = Waiting] /\ UNCHANGED resolverVars
  <2>1. calls' = calls /\ ver'[v] = Waiting /\ \A d \in Callers \ {v} : ver'[d] = ver[d]
    BY <1>1, <1>3 DEF resolverVars
  <2>2. QED
    BY <2>1 DEF AskedOfSigner, Waiting
<1>4. CASE /\ BbsVerifies(r.proof, r.key, r.binding)
           /\ PolicyOk(r.proof, r.options, r.key, clock)
           /\ ver' = [ver EXCEPT ![v].stage = "status"]
           /\ Resolve(v, id, "revocation")
  <2>1. "issuerId" \in DOMAIN r.proof.messages => r.proof.messages["issuerId"].value = r.key
    BY <1>2, <1>4, ChecksVouch
  <2>2. r.key \in Issuers /\ r.key # NoIssuer
    BY <1>2, VerificationOf, ResolverConfig
  <2>3. /\ ver'[v].key = r.key /\ \A d \in Callers \ {v} : ver'[d] = ver[d]
    BY <1>1, <1>2, <1>4 DEF Verification
  <2>4. \A d \in Callers \ {v} : calls'[d] = calls[d]
    BY <1>4, ResolveStarts DEF VerifierInv, ResolverInv
  <2>5. calls'[v].stage \in {"fetching", "done"} => calls'[v].issuer = r.key
    <3>1. calls'[v].issuer = IF id = NoIssuer THEN DefaultIssuer ELSE id
      BY <1>4, ResolveStarts DEF VerifierInv, ResolverInv
    <3>2. CASE "issuerId" \in DOMAIN r.proof.messages
      BY <2>1, <2>2, <3>1, <3>2
    <3>3. CASE "issuerId" \notin DOMAIN r.proof.messages
      <4>1. calls'[v].issuer = DefaultIssuer
        BY <3>1, <3>3
      <4>2. CASE DefaultIssuer # NoIssuer
        BY <2>2, <4>1, <4>2 DEF SingleDefault
      <4>3. CASE DefaultIssuer = NoIssuer
        <5>1. ResolverInv'
          BY <1>4, <3>3, ResolveResolver, VerifierConfig DEF VerifierInv
        <5>2. calls'[v].stage \in {"fetching", "done"} => calls'[v].issuer \in Issuers
          BY <5>1 DEF ResolverInv, FetchesBounded, Fetching, ServedFresh
        <5>3. QED
          BY <4>1, <4>3, <5>2, ResolverConfig
      <4>4. QED
        BY <4>2, <4>3
    <3>4. QED
      BY <3>2, <3>3
  <2>6. QED
    BY <2>3, <2>4, <2>5 DEF AskedOfSigner
<1>5. QED
  BY <1>3, <1>4 DEF ProofVerified

\* A list with the bit clear is as old as the window at most, so a credential it clears
\* was not revoked before then.
LEMMA ClearedInWindow ==
    ASSUME OwnUrl, VerifierInv, AskedOfSigner, NEW v \in Callers,
           ver[v].stage = "status", calls[v].stage = "done",
           ver[v].proof.messages["revocationIndex"].value \notin calls[v].doc.bits
    PROVE  clock =< revokedAt[ver[v].proof.cred.signer]
                             [ver[v].proof.cred.claims.revocationIndex]
                      + Lead + MaxAge + FetchBound
<1> DEFINE r == ver[v]
<1> DEFINE c == r.proof.cred
<1> DEFINE doc == calls[v].doc
<1> DEFINE k == c.claims.revocationIndex
<1>1. r \in Verification /\ Vouched(r)
  BY DEF VerifierInv, VerTypeOK, ChecksHold, Waiting
<1>2. c.signer = r.key /\ k \in Indexes \ doc.bits
  BY <1>1, VerificationOf DEF Vouched
<1>3. /\ calls[v].issuer \in Issuers /\ PinnedAt(doc, UrlOf[calls[v].issuer])
      /\ doc.purpose = "revocation"
      /\ clock =< doc.from + MaxAge + FetchBound
  BY DEF VerifierInv, ResolverInv, ServedFresh, WaitsInTime
<1>4. doc \in published /\ doc.issuer = calls[v].issuer /\ calls[v].issuer = r.key
  BY <1>3 DEF PinnedAt, OwnUrl, AskedOfSigner
<1>5. doc.signer = c.signer /\ doc.from =< revokedAt[doc.signer][k] + Lead
  BY <1>2, <1>3, <1>4 DEF VerifierInv, ResolverInv, ListsHonest
<1>6. /\ clock \in Nat /\ doc.from \in Nat
      /\ revokedAt[c.signer][k] \in Int
  <2>1. doc.from \in Nat /\ clock \in Nat
    BY <1>4 DEF VerifierInv, ResolverInv, TypeOK, Document
  <2>2. c.signer \in Issuers
    BY <1>1, <1>2, VerificationOf
  <2>3. revokedAt[c.signer][k] \in 0 .. Never
    BY <1>2, <2>2 DEF VerifierInv, ResolverInv, TypeOK
  <2>4. QED
    BY <2>1, <2>3
<1> DEFINE at == revokedAt[c.signer][k]
<1>7. doc.from =< at + Lead /\ at \in Int
  BY <1>5, <1>6
<1> HIDE DEF at, doc, k, c, r
<1>8. clock =< at + Lead + MaxAge + FetchBound
  BY <1>3, <1>6, <1>7, Bounds, LongestLead
<1>9. QED
  BY <1>8 DEF at, k, c, r

\* Nothing that is accepted is moved by what goes on around it, and a revocation that
\* comes after the acceptance has not been there for long.
LEMMA StepRevocation ==
    ASSUME OwnUrl, SingleDefault, VerifierInv, RevocationInv, [Next]_vars
    PROVE  RevocationInv'
<1> DEFINE InWindow(c) ==
             clock =< revokedAt[c.signer][c.claims.revocationIndex] + Lead + MaxAge + FetchBound
<1>1. \A v \in Callers : ver[v].stage = "accepted" => InWindow(ver[v].proof.cred)
  BY DEF RevocationInv, RevocationRespected
<1>2. CASE IssuerStep /\ UNCHANGED <<ver, consumed, accepts>>
  <2>1. calls' = calls /\ clock' = clock
    BY <1>2 DEF IssuerStep, RevokeIndex, PublishStatusList
  <2>2. AskedOfSigner'
    BY <1>2, <2>1 DEF RevocationInv, AskedOfSigner
  <2>3. \A i \in Issuers, k \in Indexes :
          revokedAt'[i][k] = revokedAt[i][k] \/ revokedAt'[i][k] = clock
    <3>1. CASE UNCHANGED revokedAt
      BY <3>1
    <3>2. CASE \E i \in Issuers, k \in Indexes : RevokeIndex(i, k)
      <4>1. PICK i \in Issuers, k \in Indexes :
              revokedAt' = [revokedAt EXCEPT ![i] = [revokedAt[i] EXCEPT ![k] = clock]]
        BY <3>2 DEF RevokeIndex, VerifierInv, ResolverInv, TypeOK
      <4>2. \A j \in Issuers : revokedAt[j] \in [Indexes -> 0 .. Never]
        BY DEF VerifierInv, ResolverInv, TypeOK
      <4>3. QED
        BY <4>1, <4>2 DEF VerifierInv, ResolverInv, TypeOK
    <3>3. QED
      BY <1>2, <3>1, <3>2 DEF IssuerStep, PublishStatusList
  <2>4. RevocationRespected'
    <3> SUFFICES ASSUME NEW v \in Callers, ver[v].stage = "accepted"
                 PROVE  clock =< revokedAt'[ver[v].proof.cred.signer]
                                           [ver[v].proof.cred.claims.revocationIndex]
                                   + Lead + MaxAge + FetchBound
      BY <1>2, <2>1 DEF RevocationRespected
    <3>1. /\ ver[v].proof.cred.signer \in Issuers
          /\ ver[v].proof.cred.claims.revocationIndex \in Indexes
      <4>1. ver[v] \in Verification /\ Vouched(ver[v])
        BY DEF VerifierInv, VerTypeOK, ChecksHold, Waiting
      <4>2. QED
        BY <4>1, VerificationOf DEF Vouched
    <3>2. clock \in Nat
      BY DEF VerifierInv, ResolverInv, TypeOK
    <3>3. clock =< clock + Lead + MaxAge + FetchBound
      BY <3>2, Bounds, LongestLead
    <3>4. QED
      BY <1>1, <2>3, <3>1, <3>3
  <2>5. QED
    BY <2>2, <2>4 DEF RevocationInv
<1>3. CASE Invalidate /\ UNCHANGED <<ver, consumed, accepts>>
  BY <1>3 DEF Invalidate, RevocationInv, AskedOfSigner, RevocationRespected
<1>4. CASE VerifierTick
  <2>1. /\ \A v \in Callers : ver[v].stage \in {"idle", "status"}
        /\ UNCHANGED <<ver, calls>>
    BY <1>4 DEF VerifierTick, Tick
  <2>2. QED
    BY <2>1 DEF RevocationInv, AskedOfSigner, RevocationRespected
<1>5. ASSUME NEW v \in Callers, NEW p \in Presentations, NEW q \in Questions,
             NEW i \in Issuers, NEW b \in Bindings, NEW s \in Subjects, Present(v, p, q, i, b, s)
      PROVE  RevocationInv'
  <2>1. /\ \A d \in Callers \ {v} : ver'[d] = ver[d]
        /\ ver'[v].stage = "proving"
        /\ UNCHANGED <<calls, clock, revokedAt>>
    BY <1>5 DEF Present, VerifierInv, VerTypeOK, resolverVars
  <2>2. QED
    BY <2>1 DEF RevocationInv, AskedOfSigner, RevocationRespected
<1>6. ASSUME NEW v \in Callers, ProofVerified(v) PROVE RevocationInv'
  <2>1. AskedOfSigner'
    BY <1>6, AskedOfSignerStep DEF RevocationInv
  <2>2. clock' = clock /\ revokedAt' = revokedAt
    BY <1>6, ResolveStarts DEF ProofVerified, resolverVars, VerifierInv, ResolverInv
  <2>3. \A d \in Callers : ver'[d].stage = "accepted" => ver'[d] = ver[d]
    <3>1. ver \in [Callers -> Verification \cup {Waiting}] /\ ver[v] \in Verification
      BY <1>6 DEF ProofVerified, VerifierInv, VerTypeOK, Waiting
    <3>2. ver'[v].stage # "accepted" /\ \A d \in Callers \ {v} : ver'[d] = ver[d]
      BY <1>6, <3>1 DEF ProofVerified, Verification, Waiting
    <3>3. QED
      BY <3>2
  <2>4. QED
    BY <2>1, <2>2, <2>3 DEF RevocationInv, RevocationRespected
<1>7. ASSUME NEW v \in Callers, FetchStep(v), UNCHANGED <<ver, consumed, accepts>>
      PROVE  RevocationInv'
  <2>1. /\ Fetching(v) /\ UNCHANGED <<clock, revokedAt, published>>
        /\ \A d \in Callers \ {v} : calls'[d] = calls[d]
        /\ calls'[v].issuer = calls[v].issuer
    BY <1>7, FetchKeeps DEF VerifierInv, ResolverInv
  <2>2. QED
    BY <1>7, <2>1 DEF RevocationInv, AskedOfSigner, RevocationRespected, Fetching
<1>8. ASSUME NEW v \in Callers, StatusReturned(v) PROVE RevocationInv'
  <2>1. /\ ver[v].stage = "status" /\ UNCHANGED <<clock, revokedAt>>
        /\ \A d \in Callers \ {v} : calls'[d] = calls[d]
    BY <1>8 DEF StatusReturned, Taken, VerifierInv, ResolverInv, TypeOK
  <2>2. ver \in [Callers -> Verification \cup {Waiting}] /\ ver[v] \in Verification
    BY <2>1 DEF VerifierInv, VerTypeOK, Waiting
  <2>3. /\ \A d \in Callers \ {v} : ver'[d] = ver[d]
        /\ ver'[v].stage # "status"
        /\ ver'[v].stage = "accepted" =>
             /\ ver'[v].proof = ver[v].proof /\ calls[v].stage = "done"
             /\ ver[v].proof.messages["revocationIndex"].value \notin calls[v].doc.bits
    BY <1>8, <2>2 DEF StatusReturned, Verification, Waiting
  <2>4. AskedOfSigner'
    BY <2>1, <2>3 DEF RevocationInv, AskedOfSigner
  <2>5. ver'[v].stage = "accepted" => InWindow(ver[v].proof.cred)
    BY <2>1, <2>3, ClearedInWindow DEF RevocationInv
  <2>6. RevocationRespected'
    BY <1>1, <2>1, <2>3, <2>5 DEF RevocationRespected
  <2>7. QED
    BY <2>4, <2>6 DEF RevocationInv
<1>9. ASSUME NEW v \in Callers, Accepted(v) PROVE RevocationInv'
  <2>1. /\ \A d \in Callers \ {v} : ver'[d] = ver[d]
        /\ ver'[v].stage = "idle"
        /\ UNCHANGED <<calls, clock, revokedAt>>
    BY <1>9 DEF Accepted, VerifierInv, VerTypeOK, resolverVars, Waiting
  <2>2. QED
    BY <2>1 DEF RevocationInv, AskedOfSigner, RevocationRespected
<1>10. CASE UNCHANGED vars
  BY <1>10 DEF vars, resolverVars, RevocationInv, AskedOfSigner, RevocationRespected
<1>11. QED
  BY <1>2, <1>3, <1>4, <1>5, <1>6, <1>7, <1>8, <1>9, <1>10 DEF Next

-----------------------------------------------------------------------------
(* The theorems.                                                           *)

\* A challenge is accepted at most once, however many verifications of it overlap, and
\* its nonce is burnt by that acceptance and by nothing else (ReplayGuard.consume).
THEOREM ChallengesAnsweredOnce == Spec => []GuardExact
<1>1. VerifierInv => GuardExact
  BY DEF VerifierInv, VerTypeOK, GuardCounts, GuardExact, AcceptedOnce, BurntByAcceptance
<1>2. QED
  BY <1>1, VerifierInvariant, PTL

\* An accepted presentation is of a credential signed by the key it was verified with,
\* for this challenge and this subject, with the values asked for and no claim beside
\* them; and neither the challenge nor the credential ended more than a fetch ago
\* (checkPredicate, verifyDetailed).
THEOREM AcceptancesHold == Spec => []AcceptanceHolds
<1>1. ASSUME VerifierInv PROVE AcceptanceHolds
  <2>1. AcceptanceSound
    <3> SUFFICES ASSUME NEW v \in Callers, ver[v].stage = "accepted"
                 PROVE  /\ ver[v].proof.cred \in Credentials
                        /\ Vouched(ver[v]) /\ Structured(ver[v])
      BY DEF AcceptanceSound, Vouched, Structured
    <3>1. ver[v] \in Verification /\ ver[v] # Waiting
      BY <1>1 DEF VerifierInv, VerTypeOK, Waiting
    <3>2. QED
      BY <1>1, <3>1, VerificationOf DEF VerifierInv, ChecksHold
  <2>2. AcceptedInTime
    <3> SUFFICES ASSUME NEW v \in Callers, ver[v].stage = "accepted"
                 PROVE  /\ clock =< ver[v].binding.ledgerExpiry + FetchBound
                        /\ clock =< ver[v].proof.cred.claims.expiresAt + FetchBound
      BY DEF AcceptedInTime
    <3>1. ver[v] \in Verification
      BY <1>1 DEF VerifierInv, VerTypeOK, Waiting
    <3>2. clock \in Nat /\ ver[v].binding.ledgerExpiry \in Nat
          /\ ver[v].proof.cred.claims.expiresAt \in Nat
      BY <1>1, <3>1, VerificationOf DEF VerifierInv, ResolverInv, TypeOK
    <3>3. QED
      BY <1>1, <3>2, Bounds DEF VerifierInv, WaitsInTime, Within
  <2>3. QED
    BY <2>1, <2>2 DEF AcceptanceHolds
<1>2. VerifierInv => AcceptanceHolds
  BY <1>1
<1>3. QED
  BY <1>2, VerifierInvariant, PTL

\* Where every issuer has a URL of its own and a default issuer is configured for a
\* single one, a credential revoked longer ago than the longest lead, the age a list
\* may have and one fetch is refused (readStatus, HardenedStatusListResolver).
THEOREM RevocationsReachTheVerifier ==
    OwnUrl /\ SingleDefault => (Spec => []RevocationRespected)
<1> SUFFICES ASSUME OwnUrl, SingleDefault PROVE Spec => []RevocationRespected
  OBVIOUS
<1>1. VerifierInv /\ RevocationInv /\ [Next]_vars => RevocationInv'
  BY StepRevocation
<1>2. RevocationInv => RevocationRespected
  BY DEF RevocationInv
<1>3. QED
  BY <1>1, <1>2, InitRevocation, VerifierInvariant, PTL DEF Spec
=============================================================================
