-------------------------------- MODULE Jws --------------------------------
(***************************************************************************)
(* Compact JWS tokens: signJws mints them, verifyJws decides about them.   *)
(* The algorithm follows from the configured key, the claims are judged    *)
(* under one of two policies, and a replay store, when there is one, is    *)
(* asked last, across an await.  Verifications overlap, and a token may be *)
(* presented to any verifier, as it was minted or altered on the way.      *)
(*                                                                         *)
(* A signature is what its key's holder signed; the DER transcription of   *)
(* an ECDSA signature is module DerSignature.                              *)
(***************************************************************************)
EXTENDS Integers, FiniteSets

CONSTANTS
    KeyType,            \* the keys, each with its type
    OurKey,             \* the key signJws is called with
    Verifiers,          \* configured verifiers: key, issuer, audience, policy, replay
    SignRequests,       \* the claim sets signJws is asked to sign
    OthersTokens,       \* what the holders of the other keys signed, with any library
    Call,               \* calls of verifyJws
    MaxTime

Key == DOMAIN KeyType

\* A string claim that is not there, and one that is no string or is empty; likewise
\* for a time.
Absent == "absent"
Malformed == "malformed"
NoTime == -1
NotATime == -2

StringClaims == {"iss", "sub", "aud"}
TimeClaims == {"iat", "nbf", "exp"}

Time == Nat \cup {NoTime, NotATime}
ClaimSet ==
    [iss : STRING, sub : STRING, aud : STRING, iat : Time, nbf : Time, exp : Time,
     jti : STRING, extra : BOOLEAN]

\* One of the two frozen headers, that of another algorithm, or no proper header at all.
Header == {"ES256", "EdDSA", "RS256", "none", "embeds a key", "not JSON", "not base64url"}
Payload == {"object", "not an object"}

\* Three segments, or another number; the signature tells whose it is and over what.
JwsSignature == [key : Key, over : Header \X Payload \X ClaimSet, length : Nat]
JwsToken ==
    [segments : Nat, header : Header, payload : Payload, claims : ClaimSet,
     signature : JwsSignature]

ASSUME JwsAssumption ==
    /\ OurKey \in Key
    /\ MaxTime \in Nat
    /\ \A v \in Verifiers : v.key \in Key /\ v.policy \in {"strict", "sep10"}
    /\ SignRequests \subseteq ClaimSet
    /\ OthersTokens \subseteq JwsToken

VARIABLES
    now,
    minted,             \* tokens signJws has returned
    seen,               \* the replay store: (provider, jti) recorded
    calls

jwsVars == <<now, minted, seen, calls>>

Reasons == {"none", "malformed-token", "bad-header", "alg-mismatch", "key-type",
            "signature-length", "signature-mismatch", "payload-malformed", "claim-absent",
            "claim-type", "invalid-window", "unknown-claim", "issuer-mismatch",
            "audience-mismatch", "token-not-yet-valid", "token-expired", "replay-detected",
            "store-failed"}

\* A call that was refused before the store, and one that got as far.
CallState ==
    [at : {"new", "refused"}, reason : Reasons]
    \cup [at : {"sighting", "accepted", "refused"}, reason : Reasons,
          token : JwsToken, by : Verifiers, time : 0 .. MaxTime]

JwsTypeOK ==
    /\ now \in 0 .. MaxTime
    /\ minted \subseteq JwsToken
    /\ \A t \in minted : t.header \in {"ES256", "EdDSA"} /\ t.signature.length = 64
    /\ seen \subseteq {<<v.replay, t.claims.jti>> : v \in Verifiers,
                                                    t \in minted \cup OthersTokens}
    /\ calls \in [Call -> CallState]
    /\ \A c \in Call : (calls[c].at = "refused") = (calls[c].reason # "none")

NewCall == [at |-> "new", reason |-> "none"]

JwsInit ==
    /\ now = 0
    /\ minted = {}
    /\ seen = {}
    /\ calls = [c \in Call |-> NewCall]

-----------------------------------------------------------------------------
\* keyAlgorithm: the one algorithm a key speaks, or a refusal.
KeyAlgorithm(key) ==
    CASE KeyType[key] = "ec-p256" -> "ES256"
      [] KeyType[key] = "ed25519" -> "EdDSA"
      [] OTHER -> "refused"

\* The first claim of the list that is missing or of the wrong type decides.
ClaimFault(claims, strings, times) ==
    LET absent(k) == IF k \in strings THEN claims[k] = Absent ELSE claims[k] = NoTime
        bad(k) == IF k \in strings THEN claims[k] = Malformed ELSE claims[k] = NotATime
        order == <<"iss", "sub", "aud", "iat", "nbf", "exp">>
        faulty == {i \in DOMAIN order : /\ order[i] \in strings \cup times
                                        /\ absent(order[i]) \/ bad(order[i])}
    IN  IF faulty = {} THEN "none"
        ELSE LET first == CHOOSE i \in faulty : \A j \in faulty : i <= j
             IN  IF absent(order[first]) THEN "claim-absent" ELSE "claim-type"

\* checkRequiredClaims and serializeClaims, before anything is signed.
SerializeClaims(claims) ==
    LET fault == ClaimFault(claims, StringClaims, TimeClaims)
    IN  CASE fault # "none" -> fault
          [] fault = "none" /\ claims.nbf >= claims.exp -> "invalid-window"
          [] fault = "none" /\ claims.nbf < claims.exp /\ claims.extra -> "unknown-claim"
          [] OTHER -> "none"

\* A signature of a key over the header and payload segments.
Signature(key, header, payload, claims, length) ==
    [key |-> key, over |-> <<header, payload, claims>>, length |-> length]

\* A token of three segments over a JSON object, header frozen by the key.
Token(key, header, claims) ==
    [segments |-> 3, header |-> header, payload |-> "object", claims |-> claims,
     signature |-> Signature(key, header, "object", claims, 64)]

SignJws(key, claims) ==
    /\ KeyAlgorithm(key) # "refused"
    /\ SerializeClaims(claims) = "none"
    /\ minted' = minted \cup {Token(key, KeyAlgorithm(key), claims)}
    /\ UNCHANGED <<now, seen, calls>>

-----------------------------------------------------------------------------
\* What reaches a verifier: a token as its signer made it, or with one of its parts
\* replaced.  A header that is not one of the frozen two is judged by what it says.
Altered(t, others) ==
    {[t EXCEPT !.segments = 2],
     [t EXCEPT !.payload = "not an object"],
     [t EXCEPT !.signature.length = 71]}
    \cup {[t EXCEPT !.header = h] : h \in Header}
    \cup {[t EXCEPT !.claims = u.claims] : u \in others}
    \cup {[t EXCEPT !.signature = u.signature] : u \in others}

Presentable ==
    LET signed == minted \cup OthersTokens
    IN  signed \cup UNION {Altered(t, signed) : t \in signed}

\* The header must be the frozen one of the key's algorithm; the rest only chooses the reason.
HeaderFault(t, alg) ==
    CASE t.header = alg -> "none"
      [] t.header = "not base64url" -> "malformed-token"
      [] t.header \in {"embeds a key", "not JSON"} -> "bad-header"
      [] OTHER -> "alg-mismatch"

\* Mutant: a signature of the right key will do, whatever it was made over.
SignatureFaultLoose(t, key) ==
    IF t.signature.key = key THEN "none" ELSE "signature-mismatch"

SignatureFault(t, key) ==
    CASE t.signature.length # 64 -> "signature-length"
      [] t.signature.length = 64
           /\ t.signature # Signature(key, t.header, t.payload, t.claims, 64) ->
               "signature-mismatch"
      [] OTHER -> "none"

\* Under "sep10" aud and nbf may be absent, and are checked like the others when present.
PresenceFault(claims, policy) ==
    LET required == ClaimFault(claims, StringClaims \ {"aud"}, TimeClaims \ {"nbf"})
        optional == ClaimFault(claims, IF claims.aud = Absent THEN {} ELSE {"aud"},
                                       IF claims.nbf = NoTime THEN {} ELSE {"nbf"})
    IN  IF policy = "strict" THEN ClaimFault(claims, StringClaims, TimeClaims)
        ELSE IF required # "none" THEN required ELSE optional

ScopeFault(claims, v) ==
    CASE claims.iss # v.issuer -> "issuer-mismatch"
      [] /\ claims.iss = v.issuer
         /\ v.policy = "strict" \/ claims.aud # Absent
         /\ claims.aud # v.audience -> "audience-mismatch"
      [] OTHER -> "none"

WindowFault(claims) ==
    IF claims.nbf # NoTime /\ now < claims.nbf THEN "token-not-yet-valid"
    ELSE IF now >= claims.exp THEN "token-expired" ELSE "none"

Replays(v) == v.replay # "none"

\* With a store a jti is required; without one it only has to be well formed.
JtiFault(claims, v) ==
    CASE Replays(v) /\ claims.jti \in {Absent, Malformed} -> "claim-absent"
      [] ~Replays(v) /\ claims.jti = Malformed -> "claim-type"
      [] OTHER -> "none"

\* verifyJws up to the store: the first fault, in the order of the code.
Fault(t, v) ==
    LET alg == KeyAlgorithm(v.key)
    IN  CASE alg = "refused" -> "key-type"
          [] alg # "refused" /\ t.segments # 3 -> "malformed-token"
          [] alg # "refused" /\ t.segments = 3 ->
               IF HeaderFault(t, alg) # "none" THEN HeaderFault(t, alg)
               ELSE IF SignatureFault(t, v.key) # "none" THEN SignatureFault(t, v.key)
               ELSE IF t.payload # "object" THEN "payload-malformed"
               ELSE IF PresenceFault(t.claims, v.policy) # "none"
                    THEN PresenceFault(t.claims, v.policy)
               ELSE IF ScopeFault(t.claims, v) # "none" THEN ScopeFault(t.claims, v)
               ELSE IF WindowFault(t.claims) # "none" THEN WindowFault(t.claims)
               ELSE JtiFault(t.claims, v)

VerifyJws(c, t, v) ==
    /\ calls[c].at = "new"
    /\ calls' = [calls EXCEPT ![c] =
         IF Fault(t, v) # "none" THEN [at |-> "refused", reason |-> Fault(t, v)]
         ELSE [at |-> IF Replays(v) THEN "sighting" ELSE "accepted", reason |-> "none",
               token |-> t, by |-> v, time |-> now]]
    /\ UNCHANGED <<now, minted, seen>>

Slot(c) == <<calls[c].by.replay, calls[c].token.claims.jti>>

\* Mutant: a token the store knows is let through.
FirstSightIgnored(c) ==
    /\ calls[c].at = "sighting"
    /\ seen' = seen \cup {Slot(c)}
    /\ calls' = [calls EXCEPT ![c].at = "accepted"]
    /\ UNCHANGED <<now, minted>>

\* firstSight decides and records in one step.
FirstSight(c) ==
    /\ calls[c].at = "sighting"
    /\ seen' = seen \cup {Slot(c)}
    /\ calls' = [calls EXCEPT ![c].at = IF Slot(c) \in seen THEN "refused" ELSE "accepted",
                              ![c].reason = IF Slot(c) \in seen THEN "replay-detected"
                                            ELSE "none"]
    /\ UNCHANGED <<now, minted>>

\* The store throws, with the sighting recorded or not; verifyJws passes the throw on.
FirstSightThrows(c) ==
    /\ calls[c].at = "sighting"
    /\ seen' \in {seen, seen \cup {Slot(c)}}
    /\ calls' = [calls EXCEPT ![c].at = "refused", ![c].reason = "store-failed"]
    /\ UNCHANGED <<now, minted>>

JwsTick ==
    /\ now < MaxTime
    /\ now' = now + 1
    /\ UNCHANGED <<minted, seen, calls>>

JwsNext ==
    \/ \E claims \in SignRequests : SignJws(OurKey, claims)
    \/ \E c \in Call :
         \/ \E t \in Presentable, v \in Verifiers : VerifyJws(c, t, v)
         \/ FirstSight(c)
         \/ FirstSightThrows(c)
    \/ JwsTick

JwsSpec == JwsInit /\ [][JwsNext]_jwsVars

-----------------------------------------------------------------------------
Accepted(c) == calls[c].at = "accepted"

\* What verifyJws returns was signed, header and claims together, by the holder of the key
\* the verifier was configured with, under that key's own algorithm: no token of another
\* key, another scheme or another verifier's scope gets through, whole or in parts.
AcceptedIsAuthentic ==
    \A c \in Call : Accepted(c) =>
        LET t == calls[c].token
        IN  /\ \E s \in minted \cup OthersTokens :
                 /\ s.signature.key = calls[c].by.key
                 /\ s.signature.over = <<t.header, t.payload, t.claims>>
            /\ t.header = KeyAlgorithm(calls[c].by.key)

\* Every claim is checked and none is defaulted: the issuer is the expected one, so is the
\* audience (only "sep10" lets it be absent), and the call was made inside the window.
AcceptedInScope ==
    \A c \in Call : Accepted(c) =>
        LET claims == calls[c].token.claims
        IN  /\ claims.iss = calls[c].by.issuer
            /\ \/ claims.aud = calls[c].by.audience
               \/ claims.aud = Absent /\ calls[c].by.policy = "sep10"
            /\ calls[c].time < claims.exp
            /\ claims.nbf <= calls[c].time
            /\ claims.sub \notin {Absent, Malformed} /\ claims.iat >= 0

\* An accepted token is what its key's holder signed, for this verifier and this time.
AcceptedSound == JwsTypeOK /\ AcceptedIsAuthentic /\ AcceptedInScope

\* The same jti is accepted once per store, however the verifications overlap, and no
\* token burns a slot unless everything else about it was in order.
JtiAcceptedOnce ==
    /\ \A c, d \in Call : Accepted(c) /\ Accepted(d) /\ Replays(calls[c].by)
                            /\ Replays(calls[d].by) /\ Slot(c) = Slot(d) => c = d
    /\ \A slot \in seen : \E c \in Call : /\ calls[c].at # "new"
                                          /\ calls[c].reason \in {"none", "replay-detected",
                                                                  "store-failed"}
                                          /\ Slot(c) = slot

-----------------------------------------------------------------------------
(* What the repository says and the code does not meet: README, section 6. *)

\* "a token we would refuse to verify should not exist to be issued": a verifier of our key
\* in the token's scope refuses it for the time of the call only.
MintedIsVerifiable ==
    \A t \in minted, v \in Verifiers :
        v.key = OurKey /\ t.claims.iss = v.issuer /\ t.claims.aud = v.audience =>
            Fault(t, v) \in {"none", "token-not-yet-valid", "token-expired"}
=============================================================================
