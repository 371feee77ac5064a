-------------------------- MODULE StatusResolver --------------------------
(***************************************************************************)
(* The verifier's side of revocation: HardenedStatusListResolver (a pinned *)
(* key per issuer, a cache per URL, a fetch that awaits) against an issuer *)
(* that signs lists and a network that may answer with any list it ever    *)
(* saw, a forged one, a redirect or an error.                              *)
(*                                                                         *)
(* One step of the resolver is the code between two awaits: Resolve runs   *)
(* up to the first await, Redirected is one turn of the redirect loop, and *)
(* Answered is everything after the last response.  The clock moves        *)
(* between them, and other callers' steps do too.                          *)
(***************************************************************************)
EXTENDS Integers, FiniteSets

CONSTANTS
    Issuers,        \* the pinned issuer ids
    IssuerIds,      \* every issuer id a presentation may disclose
    NoIssuer,       \* issuerId undisclosed, or a signature by no issuer
    DefaultIssuer,  \* config.defaultIssuerId, NoIssuer when unset
    Urls,
    UrlOf,          \* the pinned URL of each issuer
    Purposes,
    Indexes,        \* revocation indexes
    Callers,        \* verifications that may overlap
    MaxAge,         \* config.maxAgeSeconds
    CacheTtl,       \* config.cacheTtlSeconds
    Skew,           \* the 60 s a validFrom may lie ahead
    Timeout,        \* config.timeoutMs: one GET, body included
    MaxRedirects,
    Leads,          \* how far ahead of its signing a list's validFrom may lie
    Lifetimes,      \* validUntil - validFrom of the lists signed
    MaxLists,       \* bound: lists signed
    Horizon         \* bound: the last instant

\* What the resolver's constructor refuses, and the bounds.
ASSUME ResolverConfig ==
    /\ Issuers # {} /\ Issuers \subseteq IssuerIds /\ NoIssuer \notin IssuerIds
    /\ DefaultIssuer \in Issuers \cup {NoIssuer}
    /\ UrlOf \in [Issuers -> Urls]
    /\ MaxAge \in Nat \ {0} /\ CacheTtl \in 0 .. MaxAge
    /\ Skew \in Nat /\ Timeout \in Nat /\ MaxRedirects \in Nat
    /\ Leads \subseteq Nat /\ Lifetimes \subseteq Nat
    /\ Leads = {} \/ \E n \in Leads : \A m \in Leads : m =< n
    /\ MaxLists \in Nat /\ Horizon \in Nat

VARIABLES
    clock,          \* unix time, as the injected now() reads it
    revokedAt,      \* when each issuer revoked each index, Never if it did not
    published,      \* every list any issuer has signed
    cache,          \* #cache: per URL the copy kept, or NoCopy
    overtaken,      \* history: callers whose fetch an invalidate() overtook
    calls           \* the resolution each caller has under way

resolverVars == <<clock, revokedAt, published, cache, overtaken, calls>>

Never == Horizon + 1
Revoked(i) == {k \in Indexes : revokedAt[i][k] # Never}

\* A list document: who signed it, whom it names as issuer, and what it says.
Document == [signer : Issuers, issuer : Issuers, purpose : Purposes,
             from : Nat, until : Nat, bits : SUBSET Indexes]
NoDoc  == [signer |-> NoIssuer]
NoCopy == [doc |-> NoDoc, fetchedAt |-> 0]
CacheEntry == [doc : Document, fetchedAt : Nat]

Call == [stage : {"idle", "fetching", "done", "failed"}, issuer : IssuerIds \cup {NoIssuer},
         purpose : Purposes \cup {""}, now : Nat, hopAt : Nat, hops : Nat, doc : Document \cup {NoDoc}]
Idle == [stage |-> "idle", issuer |-> NoIssuer, purpose |-> "", now |-> 0, hopAt |-> 0,
         hops |-> 0, doc |-> NoDoc]

TypeOK ==
    /\ clock \in 0 .. Horizon
    /\ revokedAt \in [Issuers -> [Indexes -> 0 .. Never]]
    /\ published \subseteq Document
    /\ cache \in [Urls -> CacheEntry \cup {NoCopy}]
    /\ overtaken \subseteq Callers
    /\ calls \in [Callers -> Call]

ResolverInit ==
    /\ clock = 0
    /\ revokedAt = [i \in Issuers |-> [k \in Indexes |-> Never]]
    /\ published = {}
    /\ cache = [u \in Urls |-> NoCopy]
    /\ overtaken = {}
    /\ calls = [c \in Callers |-> Idle]

---------------------------------------------------------------------------
(* The issuer's side *)

\* RevocationIndex / StatusListStore: the operator revokes an index.
RevokeIndex(i, k) ==
    /\ revokedAt[i][k] = Never
    /\ revokedAt' = [revokedAt EXCEPT ![i][k] = clock]
    /\ UNCHANGED <<clock, published, cache, overtaken, calls>>

\* signStatusListCredential: the signature covers the proof configuration and
\* every field, so a changed document is one that nobody signed.
SignStatusListCredential(i, doc) == [doc EXCEPT !.signer = i]

\* publishStatusList: refuses an empty validity window, encodes the set handed
\* to it and signs the document.
PublishStatusList(i, p, lead, life) ==
    /\ Cardinality(published) < MaxLists
    /\ life > 0
    /\ published' = published \cup
          {SignStatusListCredential(i,
             [signer |-> NoIssuer, issuer |-> i, purpose |-> p, from |-> clock + lead,
              until |-> clock + lead + life,
              bits |-> IF p = "revocation" THEN Revoked(i) ELSE {}])}
    /\ UNCHANGED <<clock, revokedAt, cache, overtaken, calls>>

\* A document nobody signed, well formed and current, with every bit clear.
Forged(i, p) == [signer |-> NoIssuer, issuer |-> i, purpose |-> p, from |-> clock,
                 until |-> clock + MaxAge, bits |-> {}]

\* What a 200 may carry: any list ever signed, however old, a forgery, or a JSON
\* value that is no list.
OnTheWire == published \cup {Forged(i, p) : i \in Issuers, p \in Purposes} \cup {NoDoc}

---------------------------------------------------------------------------
(* The resolver *)

\* assertDocumentShape: the envelope's fields are all there.
AssertDocumentShape(doc) == {"issuer", "purpose", "from", "until", "bits"} \subseteq DOMAIN doc

VerifyStatusListCredentialAnyIssuer(doc, i) == doc.signer # NoIssuer

\* verifyStatusListCredential with the pinned key and the pinned issuer label.
VerifyStatusListCredential(doc, i) ==
    AssertDocumentShape(doc) /\ doc.issuer = i /\ doc.signer = i

TemporallyUsableNoMaxAge(doc, now) ==
    /\ now + Skew >= doc.from
    /\ now < doc.until

\* #assertTemporallyUsable: not from the future, not expired, not too old.
TemporallyUsable(doc, now) ==
    /\ now + Skew >= doc.from
    /\ now < doc.until
    /\ now - doc.from =< MaxAge

Usable(doc, now, p) == TemporallyUsable(doc, now) /\ doc.purpose = p

Fetching(c) == calls[c].stage = "fetching"

CacheHit(i) ==
    /\ cache[UrlOf[i]] # NoCopy
    /\ clock - cache[UrlOf[i]].fetchedAt < CacheTtl

\* The promise settles; the times of the fetch are of no further use.
Settled(call, stage, doc) == [call EXCEPT !.stage = stage, !.doc = doc, !.now = 0,
                                          !.hopAt = 0, !.hops = 0]

End(c, stage, doc) ==
    /\ calls' = [calls EXCEPT ![c] = Settled(@, stage, doc)]
    /\ overtaken' = overtaken \ {c}

\* resolve() up to its first await: refuse an undisclosed or unpinned issuer,
\* answer from the cache after checking the copy again, or start the fetch with
\* the clock read here.
Resolve(c, id, p) ==
    LET i    == IF id = NoIssuer THEN DefaultIssuer ELSE id
        doc  == cache[UrlOf[i]].doc
        call == [stage |-> "fetching", issuer |-> i, purpose |-> p, now |-> clock,
                 hopAt |-> clock, hops |-> 0, doc |-> NoDoc]
    IN /\ calls[c] = Idle
       /\ clock + Timeout * (MaxRedirects + 1) =< Horizon
       /\ \/ /\ i \notin Issuers
             /\ calls' = [calls EXCEPT ![c] = Settled(call, "failed", NoDoc)]
          \/ /\ i \in Issuers
             /\ CacheHit(i)
             /\ calls' = [calls EXCEPT ![c] = IF Usable(doc, clock, p)
                                              THEN Settled(call, "done", doc)
                                              ELSE Settled(call, "failed", NoDoc)]
          \/ /\ i \in Issuers
             /\ ~CacheHit(i)
             /\ calls' = [calls EXCEPT ![c] = call]
       /\ UNCHANGED <<clock, revokedAt, published, cache, overtaken>>

RedirectedOneMore(c) ==
    /\ Fetching(c)
    /\ IF calls[c].hops > MaxRedirects
       THEN End(c, "failed", NoDoc)
       ELSE /\ calls' = [calls EXCEPT ![c].hops = @ + 1, ![c].hopAt = clock]
            /\ UNCHANGED overtaken
    /\ UNCHANGED <<clock, revokedAt, published, cache>>

\* One turn of the loop in #fetchAndVerify: a 3xx to an https URL is followed,
\* with a timer of its own, until the hops run out.
Redirected(c) ==
    /\ Fetching(c)
    /\ IF calls[c].hops + 1 > MaxRedirects
       THEN End(c, "failed", NoDoc)
       ELSE /\ calls' = [calls EXCEPT ![c].hops = @ + 1, ![c].hopAt = clock]
            /\ UNCHANGED overtaken
    /\ UNCHANGED <<clock, revokedAt, published, cache>>

\* http.get threw: a transport error, or a body that ran past the cap.
FetchFailed(c) ==
    /\ Fetching(c)
    /\ End(c, "failed", NoDoc)
    /\ UNCHANGED <<clock, revokedAt, published, cache>>

\* An answer that is refused unread: a Location that is missing, malformed or
\* not https, a status other than 200, a body that is not JSON.
AnswerRefused(c) ==
    /\ Fetching(c)
    /\ End(c, "failed", NoDoc)
    /\ UNCHANGED <<clock, revokedAt, published, cache>>

\* Mutant: the timer is not armed again for the GET after a redirect.
AbortTimerOnce(c) ==
    /\ Fetching(c)
    /\ calls[c].hops = 0
    /\ clock - calls[c].hopAt >= Timeout
    /\ End(c, "failed", NoDoc)
    /\ UNCHANGED <<clock, revokedAt, published, cache>>

\* The AbortController's timer, armed for each GET and cleared after its body.
AbortTimer(c) ==
    /\ Fetching(c)
    /\ clock - calls[c].hopAt >= Timeout
    /\ End(c, "failed", NoDoc)
    /\ UNCHANGED <<clock, revokedAt, published, cache>>

\* A 200 with a document: everything after the await, with the time read before
\* it.  The copy is kept only after every check, over whatever is there.
Answered(c, doc) ==
    LET call == calls[c]
        i    == call.issuer
    IN /\ Fetching(c)
       /\ IF /\ VerifyStatusListCredential(doc, i)
             /\ doc.until > doc.from
             /\ Usable(doc, call.now, call.purpose)
          THEN /\ End(c, "done", doc)
               /\ cache' = [cache EXCEPT ![UrlOf[i]] = [doc |-> doc, fetchedAt |-> call.now]]
          ELSE /\ End(c, "failed", NoDoc)
               /\ UNCHANGED cache
       /\ UNCHANGED <<clock, revokedAt, published>>

\* The caller's continuation runs with the list or the error.
Taken(c) ==
    /\ calls[c].stage \in {"done", "failed"}
    /\ calls' = [calls EXCEPT ![c] = Idle]
    /\ UNCHANGED <<clock, revokedAt, published, cache, overtaken>>

\* invalidate(): the operator drops every copy.
Invalidate ==
    /\ cache' = [u \in Urls |-> NoCopy]
    /\ overtaken' = {c \in Callers : Fetching(c)}
    /\ UNCHANGED <<clock, revokedAt, published, calls>>

\* Time passes; first a GET whose timer is due is aborted and a caller whose
\* promise has settled goes on.
Tick ==
    /\ clock < Horizon
    /\ \A c \in Callers : Fetching(c) => clock - calls[c].hopAt < Timeout
    /\ \A c \in Callers : calls[c].stage \in {"idle", "fetching"}
    /\ clock' = clock + 1
    /\ UNCHANGED <<revokedAt, published, cache, overtaken, calls>>

IssuerStep ==
    \E i \in Issuers :
        \/ \E k \in Indexes : RevokeIndex(i, k)
        \/ \E p \in Purposes, lead \in Leads, life \in Lifetimes :
              PublishStatusList(i, p, lead, life)

FetchStep(c) ==
    \/ Redirected(c)
    \/ FetchFailed(c)
    \/ AnswerRefused(c)
    \/ AbortTimer(c)
    \/ \E doc \in OnTheWire : Answered(c, doc)

ResolverNext ==
    \/ IssuerStep
    \/ Invalidate
    \/ Tick
    \/ \E c \in Callers :
          \/ \E id \in IssuerIds \cup {NoIssuer}, p \in Purposes : Resolve(c, id, p)
          \/ FetchStep(c)
          \/ Taken(c)

\* Time passes, however often callers are answered from the cache in between, a due
\* timer fires and a settled promise's continuation runs; nothing is assumed of the
\* network.
ResolverSpec ==
    /\ ResolverInit /\ [][ResolverNext]_resolverVars
    /\ SF_resolverVars(Tick)
    /\ \A c \in Callers : WF_resolverVars(AbortTimer(c)) /\ WF_resolverVars(Taken(c))

---------------------------------------------------------------------------
(* What the resolver promises *)

\* The longest a fetch may take: every GET of the redirect chain at its timeout.
FetchBound == Timeout * (MaxRedirects + 1)
Lead == IF Leads = {} THEN 0 ELSE CHOOSE n \in Leads : \A m \in Leads : m =< n

\* A resolution under way never runs longer than its GETs allow, so the clock
\* it read before the await is at most FetchBound old when the list is used.
FetchBounded ==
    \A c \in Callers : Fetching(c) =>
        /\ calls[c].now =< calls[c].hopAt
        /\ clock - calls[c].now =< Timeout * (calls[c].hops + 1)
        /\ calls[c].hops =< MaxRedirects

\* A list handed to a caller was signed by the issuer the caller asked about,
\* whether it came from the network or out of the cache.
ServedOwnList ==
    \A c \in Callers : calls[c].stage = "done" =>
        /\ calls[c].doc \in published
        /\ calls[c].doc.issuer = calls[c].issuer
        /\ calls[c].doc.purpose = calls[c].purpose

\* A list that is served had not expired when its fetch began, whatever the
\* await took: it is used at most FetchBound past its validUntil.
ServedUnexpired ==
    \A c \in Callers : calls[c].stage = "done" =>
        clock < calls[c].doc.until + FetchBound

\* A resolution ends: it neither hangs on a silent server nor follows
\* redirects for ever.
ResolutionEnds == \A c \in Callers : Fetching(c) ~> ~Fetching(c)

\* A list that is served is the issuer's own and not past its end (resolve()).
ServedSound == TypeOK /\ ServedOwnList /\ ServedUnexpired

---------------------------------------------------------------------------
(* What the repository says and the code does not meet: README, section 6. *)

\* invalidate() is the operator's answer to an emergency revocation: no copy
\* requested before it is kept after it, so the end of a fetch it overtook leaves
\* the cache as it is.
InvalidateDropsOlder ==
    [][\A c \in overtaken : c \notin overtaken' => UNCHANGED cache]_resolverVars
===========================================================================
