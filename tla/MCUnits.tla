------------------------------ MODULE MCUnits ------------------------------
(***************************************************************************)
(* Four units that share no state, side by side: a behaviour belongs to    *)
(* one of them and the others rest.  Tokens, with the gateway's session    *)
(* verifier, an anchor verifier with a replay store and a verifier         *)
(* configured with a key of a type nobody speaks; DER signatures; status   *)
(* lists; and the rate limiter.                                            *)
(***************************************************************************)
EXTENDS Jws, DerSignature, StatusList, RateLimiter, TLC

Symmetry == Permutations(Call) \cup Permutations(Caller)

MCKeyType == [gateway |-> "ec-p256", anchor |-> "ed25519", rsa |-> "rsa"]

MCVerifiers ==
    {[key |-> "gateway", issuer |-> "gw", audience |-> "sdk", policy |-> "strict",
      replay |-> "none"],
     [key |-> "anchor", issuer |-> "anchor", audience |-> "gw", policy |-> "sep10",
      replay |-> "sep10"],
     [key |-> "rsa", issuer |-> "gw", audience |-> "sdk", policy |-> "strict",
      replay |-> "none"]}

Good == [iss |-> "gw", sub |-> "wallet", aud |-> "sdk", iat |-> 0, nbf |-> 1, exp |-> 2,
         jti |-> Absent, extra |-> FALSE]

\* A good request and one fault in each place.
MCSignRequests ==
    {Good} \cup {[Good EXCEPT !.jti = "j"], [Good EXCEPT !.nbf = 2], [Good EXCEPT !.extra = TRUE],
                 [Good EXCEPT !.aud = Absent], [Good EXCEPT !.sub = Malformed],
                 [Good EXCEPT !.exp = NoTime], [Good EXCEPT !.iat = NotATime],
                 [Good EXCEPT !.aud = "other"]}
EmptyJti == MCSignRequests \cup {[Good EXCEPT !.jti = Malformed]}

AnchorClaims == [iss |-> "anchor", sub |-> "account", aud |-> Absent, iat |-> 0,
                 nbf |-> NoTime, exp |-> 1, jti |-> "j", extra |-> FALSE]

\* What is signed is no JSON object.
NoObject == [Token("anchor", "EdDSA", AnchorClaims) EXCEPT !.payload = "not an object",
                                                          !.signature.over[2] = "not an object"]

MCOthersTokens ==
    {Token("anchor", "EdDSA", claims) :
       claims \in {AnchorClaims, [AnchorClaims EXCEPT !.aud = "gw", !.exp = 2],
                   [AnchorClaims EXCEPT !.aud = "other"], [AnchorClaims EXCEPT !.jti = Absent],
                   [AnchorClaims EXCEPT !.nbf = NotATime], [AnchorClaims EXCEPT !.exp = NoTime]}}
    \cup {Token("rsa", "RS256", Good), Token("anchor", "EdDSA", Good), NoObject}

-----------------------------------------------------------------------------
VARIABLE unit

\* At rest the signature is the refused one, and the list the refused one.
UnitInit ==
    /\ unit \in {"jws", "derSignature", "statusList", "rateLimiter"}
    /\ JwsInit /\ DerInit /\ ListInit /\ LimiterInit
    /\ unit # "derSignature" => \A half \in Range(raw) : IsZero(half)
    /\ unit # "statusList" =>
         options.entries = Min(EntryCounts) /\ options.statusSize = Min(Sizes)
                                            /\ options.statusPurpose = "revocation"

UnitNext ==
    /\ UNCHANGED unit
    /\ \/ unit = "jws" /\ JwsNext /\ UNCHANGED <<derVars, listVars, limiterVars>>
       \/ unit = "derSignature" /\ DerNext /\ UNCHANGED <<jwsVars, listVars, limiterVars>>
       \/ unit = "statusList" /\ ListNext /\ UNCHANGED <<jwsVars, derVars, limiterVars>>
       \/ unit = "rateLimiter" /\ LimiterNext /\ UNCHANGED <<jwsVars, derVars, listVars>>

UnitSpec == UnitInit /\ [][UnitNext]_<<unit, jwsVars, derVars, listVars, limiterVars>>
=============================================================================
