---------------------------- MODULE GatewayHttp ----------------------------
(***************************************************************************)
(* The gateway's HTTP service: the pipeline every request goes through     *)
(* (encoding, body capture, routing, authentication, JSON, handler, one    *)
(* answer), the session and issue handlers with the session tokens between *)
(* them, and the SDK client's reading of an answer.  Requests overlap, and *)
(* each of a request's stream events is a callback of its own.             *)
(*                                                                         *)
(* Issuance has what the issue handler spends; module Jws how a token is   *)
(* verified.  Here a token is its subject and its window.                  *)
(***************************************************************************)
EXTENDS Integers, FiniteSets

CONSTANTS
    Req,                \* requests
    Address,             \* well formed contract addresses
    SessionId,          \* ids sessionStore.create hands out
    BODY_CAP_BYTES,
    Chunks,             \* sizes of the chunks a body comes in
    SESSION_JWT_MAX_TTL_SECONDS,
    MaxSeconds,
    Paths, Methods      \* the paths and methods tried

ASSUME GatewayAssumption ==
    /\ BODY_CAP_BYTES \in Nat /\ SESSION_JWT_MAX_TTL_SECONDS \in Nat \ {0}
    /\ MaxSeconds \in Nat
    /\ Chunks \subseteq Nat \ {0}

VARIABLES
    seam,               \* kycApplicantCreator as deployed: "built", or "unimplemented" (501)
    seconds,
    sessionStore,       \* session store: wallet and status; "none" before create
    handedOut,          \* session tokens handed out: subject and window
    req,                \* where each request stands
    body,               \* bytes captured of each request
    answers,            \* the codes answered to each request
    issued              \* what the issue handler went on to sign: session, token, time

httpVars == <<seam, seconds, sessionStore, handedOut, req, body, answers, issued>>

None == "none"
NoToken == [sub |-> None, nbf |-> 0, exp |-> 0]

\* The route table of buildServer; schema and status-list name this issuer's own parameter.
Routes ==
    [issuer  |-> [method |-> "GET",  json |-> FALSE, auth |-> "none"],
     schema  |-> [method |-> "GET",  json |-> FALSE, auth |-> "none"],
     status  |-> [method |-> "GET",  json |-> FALSE, auth |-> "none"],
     health  |-> [method |-> "GET",  json |-> FALSE, auth |-> "none"],
     session |-> [method |-> "POST", json |-> TRUE,  auth |-> "none"],
     issue   |-> [method |-> "POST", json |-> TRUE,  auth |-> "session"]]

\* What toHttpError and the handlers answer: status and the server's own retriable flag.
Answer(status, retriable) == [status |-> status, retriable |-> retriable]
Answers ==
    [ok |-> Answer(200, FALSE), created |-> Answer(201, FALSE),
     bad_encoding |-> Answer(400, FALSE), body_too_large |-> Answer(413, FALSE),
     not_found |-> Answer(404, FALSE), method_not_allowed |-> Answer(405, FALSE),
     unauthorized |-> Answer(401, FALSE), invalid_json |-> Answer(400, FALSE),
     invalid_field |-> Answer(400, FALSE), missing_field |-> Answer(400, FALSE),
     subject_mismatch |-> Answer(403, FALSE), session_not_approved |-> Answer(409, FALSE),
     not_implemented |-> Answer(501, FALSE), kyc_provider_error |-> Answer(400, FALSE),
     issuance_error |-> Answer(400, FALSE),
     internal_error |-> Answer(500, TRUE)]

\* toGatewayError: the client's flag is computed from the status alone.
ClientRetriable(code) == Answers[code].status >= 500 /\ Answers[code].status # 501

Bodies ==
    {[kind |-> "unparsable"], [kind |-> "other"]}
    \cup [kind : {"session"}, wallet : Address \cup {None}]
    \cup [kind : {"issue"}, session : SessionId \cup {None}, claims : BOOLEAN]

\* Only a POST to a JSON route has its token and its body looked at.
HttpRequest ==
    [path : Paths, method : Methods, token : {NoToken}, body : {[kind |-> "other"]}]
    \cup [path : {p \in Paths \cap DOMAIN Routes : Routes[p].json}, method : Methods \cap {"POST"},
          token : handedOut \cup {NoToken}, body : Bodies]

NewRequest == [at |-> "new", what |-> [path |-> None], time |-> 0, session |-> None]

TokenRecord == [sub : Address, nbf : 0 .. MaxSeconds, exp : Nat]

\* A request in the service: where it stands, what it asks, and what its handler has read.
HttpRequestState ==
    [at : {"new", "reading", "applicant", "issuing", "answered"},
     what : {NewRequest.what} \cup [path : Paths, method : Methods,
                                   token : TokenRecord \cup {NoToken}, body : Bodies],
     time : 0 .. MaxSeconds,
     session : SessionId \cup {None}]

HttpTypeOK ==
    /\ seam \in {"built", "unimplemented"}
    /\ seconds \in 0 .. MaxSeconds
    /\ sessionStore \in [SessionId -> [wallet : Address \cup {None},
                                       status : {"pending", "approved", "rejected"}]]
    /\ handedOut \subseteq TokenRecord
    /\ req \in [Req -> HttpRequestState]
    /\ body \in [Req -> 0 .. BODY_CAP_BYTES]
    /\ answers \in [Req -> SUBSET DOMAIN Answers]
    /\ issued \subseteq [session : SessionId, token : TokenRecord, time : 0 .. MaxSeconds]

HttpInit ==
    /\ seam \in {"built", "unimplemented"}
    /\ seconds = 0
    /\ sessionStore = [s \in SessionId |-> [wallet |-> None, status |-> "pending"]]
    /\ handedOut = {}
    /\ req = [q \in Req |-> NewRequest]
    /\ body = [q \in Req |-> 0]
    /\ answers = [q \in Req |-> {}]
    /\ issued = {}

-----------------------------------------------------------------------------
\* writeJson and writeError end the response; nothing of the request is read after that.
Writes(q, code) ==
    /\ answers' = [answers EXCEPT ![q] = @ \cup {code}]
    /\ req' = [req EXCEPT ![q] = [NewRequest EXCEPT !.at = "answered"]]

\* handle() up to the body: the encoding, then the declared length.
Arrives(q, r, declaredTooLong) ==
    /\ req[q].at = "new"
    /\ CASE r.path = "%zz" -> Writes(q, "bad_encoding")
         [] r.path # "%zz" /\ declaredTooLong -> Writes(q, "body_too_large")
         [] OTHER -> /\ req' = [req EXCEPT ![q] = [@ EXCEPT !.at = "reading", !.what = r]]
                     /\ UNCHANGED answers
    /\ UNCHANGED <<seconds, sessionStore, handedOut, body, issued>>

\* Mutant: past the cap the answer is written, but the listeners stay.
DataKeepsListening(q, n) ==
    /\ req[q].at = "reading"
    /\ IF body[q] + n > BODY_CAP_BYTES
       THEN answers' = [answers EXCEPT ![q] = @ \cup {"body_too_large"}] /\ UNCHANGED body
       ELSE body' = [body EXCEPT ![q] = @ + n] /\ UNCHANGED answers
    /\ UNCHANGED <<seconds, sessionStore, handedOut, req, issued>>

\* onData; past the cap the stream is paused and its listeners are gone.
Data(q, n) ==
    /\ req[q].at = "reading"
    /\ IF body[q] + n > BODY_CAP_BYTES
       THEN Writes(q, "body_too_large") /\ UNCHANGED body
       ELSE body' = [body EXCEPT ![q] = @ + n] /\ UNCHANGED <<req, answers>>
    /\ UNCHANGED <<seconds, sessionStore, handedOut, issued>>

\* onError: the client went away; the answer goes nowhere.
StreamFails(q) ==
    /\ req[q].at = "reading"
    /\ Writes(q, "internal_error")
    /\ UNCHANGED <<seconds, sessionStore, handedOut, body, issued>>

\* Router.match: the route of a path and method, or why there is none.
Match(r) ==
    CASE r.path \notin DOMAIN Routes -> "not_found"
      [] r.path \in DOMAIN Routes /\ Routes[r.path].method # r.method -> "method_not_allowed"
      [] OTHER -> "route"

\* Mutant: a token is good until it is older than the longest lifetime.
VerifiesByAge(t) == t \in handedOut /\ seconds - t.nbf <= SESSION_JWT_MAX_TTL_SECONDS

\* verifySessionBearer, at the clock of the moment.
Verifies(t) == t \in handedOut /\ t.nbf <= seconds /\ seconds < t.exp

\* parseJsonObject; an empty body is refused too.
JsonObject(q) == body[q] > 0 /\ req[q].what.body.kind # "unparsable"

\* Mutant: the approval is asked before the owner.
IssueFaultApprovalFirst(r) ==
    CASE r.body.kind # "issue" -> "missing_field"
      [] r.body.kind = "issue" ->
           IF r.body.session = None \/ sessionStore[r.body.session].status # "approved"
           THEN "session_not_approved"
           ELSE IF sessionStore[r.body.session].wallet # r.token.sub THEN "subject_mismatch"
           ELSE IF ~r.body.claims THEN "invalid_field" ELSE None

\* The gates of the issue handler: session named, known, the caller's, approved, claims.
IssueFault(r) ==
    CASE r.body.kind # "issue" -> "missing_field"
      [] r.body.kind = "issue" ->
           IF r.body.session = None THEN "session_not_approved"
           ELSE IF sessionStore[r.body.session].wallet = None THEN "session_not_approved"
           ELSE IF sessionStore[r.body.session].wallet # r.token.sub THEN "subject_mismatch"
           ELSE IF sessionStore[r.body.session].status # "approved" THEN "session_not_approved"
           ELSE IF ~r.body.claims THEN "invalid_field" ELSE None

\* The session handler: the address is checked, the session created, and only then the
\* provider asked for an applicant.
SessionHandler(q, r) ==
    IF r.body.kind # "session" \/ r.body.wallet = None
    THEN Writes(q, "invalid_field") /\ UNCHANGED sessionStore
    ELSE \E s \in SessionId :
           /\ sessionStore[s].wallet = None
           /\ sessionStore' = [sessionStore EXCEPT ![s].wallet = r.body.wallet]
           /\ req' = [req EXCEPT ![q] = [@ EXCEPT !.at = "applicant", !.time = seconds,
                                                  !.session = s]]
           /\ UNCHANGED answers

IssueHandler(q, r) ==
    /\ IF IssueFault(r) # None THEN Writes(q, IssueFault(r)) /\ UNCHANGED issued
       ELSE /\ req' = [req EXCEPT ![q] = [@ EXCEPT !.at = "issuing", !.time = seconds,
                                                   !.session = r.body.session]]
            /\ issued' = issued \cup {[session |-> r.body.session, token |-> r.token,
                                       time |-> seconds]}
            /\ UNCHANGED answers
    /\ UNCHANGED sessionStore

\* handle() after the body: route, caller, JSON, handler.
Dispatch(q, r) ==
    CASE Match(r) # "route" -> Writes(q, Match(r)) /\ UNCHANGED <<sessionStore, issued>>
      [] Match(r) = "route" /\ Routes[r.path].auth = "session" /\ ~Verifies(r.token) ->
           Writes(q, "unauthorized") /\ UNCHANGED <<sessionStore, issued>>
      [] OTHER ->
           IF Routes[r.path].json /\ ~JsonObject(q)
           THEN Writes(q, "invalid_json") /\ UNCHANGED <<sessionStore, issued>>
           ELSE CASE r.path = "session" -> SessionHandler(q, r) /\ UNCHANGED issued
                  [] r.path = "issue" -> IssueHandler(q, r)
                  [] OTHER -> Writes(q, "ok") /\ UNCHANGED <<sessionStore, issued>>

\* onEnd, and everything up to the next await that waits for something.
BodyEnds(q) ==
    /\ req[q].at = "reading"
    /\ Dispatch(q, req[q].what)
    /\ UNCHANGED <<seconds, handedOut, body>>

\* Es256SessionJwtIssuer's longest lifetime, which the handler asks for.
Lifetime == SESSION_JWT_MAX_TTL_SECONDS

\* The provider answered: the token starts at the time the handler read before it asked.
ApplicantCreated(q) ==
    /\ req[q].at = "applicant" /\ seam = "built"
    /\ handedOut' = handedOut \cup {[sub |-> sessionStore[req[q].session].wallet,
                                     nbf |-> req[q].time, exp |-> req[q].time + Lifetime]}
    /\ Writes(q, "created")
    /\ UNCHANGED <<seconds, sessionStore, body, issued>>

\* The seam throws: 501 when it is not built, a provider's failure otherwise.  The session
\* is there, its id and its token are not handed out.
ApplicantFails(q) ==
    /\ req[q].at = "applicant"
    /\ \E code \in IF seam = "built" THEN {"kyc_provider_error", "internal_error"}
                   ELSE {"not_implemented"} : Writes(q, code)
    /\ UNCHANGED <<seconds, sessionStore, handedOut, body, issued>>

\* issueKycCredential returned or threw.
IssueReturns(q) ==
    /\ req[q].at = "issuing"
    /\ \E code \in {"created", "issuance_error", "internal_error"} : Writes(q, code)
    /\ UNCHANGED <<seconds, sessionStore, handedOut, body, issued>>

\* setStatus, on the provider's verdict.
SetStatus(s, status) ==
    /\ sessionStore[s].wallet # None
    /\ sessionStore' = [sessionStore EXCEPT ![s].status = status]
    /\ UNCHANGED <<seconds, handedOut, req, body, answers, issued>>

SecondPasses ==
    /\ seconds < MaxSeconds
    /\ seconds' = seconds + 1
    /\ UNCHANGED <<sessionStore, handedOut, req, body, answers, issued>>

HandlerStep(q) == ApplicantCreated(q) \/ ApplicantFails(q) \/ IssueReturns(q)

HttpStep ==
    \/ \E q \in Req :
         \/ \E r \in HttpRequest, long \in BOOLEAN : Arrives(q, r, long)
         \/ \E n \in Chunks : Data(q, n)
         \/ StreamFails(q)
         \/ BodyEnds(q)
         \/ HandlerStep(q)
    \/ \E s \in SessionId, status \in {"approved", "rejected"} : SetStatus(s, status)
    \/ SecondPasses

HttpNext == HttpStep /\ UNCHANGED seam

HttpSpec == HttpInit /\ [][HttpNext]_httpVars

-----------------------------------------------------------------------------
\* One answer per request, whatever order its stream's events and the handler's awaits
\* come in, and none of another kind after it.
AnsweredOnce ==
    \A q \in Req : /\ Cardinality(answers[q]) <= 1
                   /\ (answers[q] # {}) = (req[q].at = "answered")

\* Nothing is signed for an expired token, however slowly the body that carries it comes
\* in, nor for another wallet's session; and no token lives longer than fifteen minutes
\* from the creation of its session.
IssuedForLiveToken ==
    \A i \in issued : /\ i.token.nbf <= i.time /\ i.time < i.token.exp
                      /\ i.token.sub = sessionStore[i.session].wallet
                      /\ i.token.exp - i.token.nbf <= SESSION_JWT_MAX_TTL_SECONDS

\* An unauthenticated caller learns nothing of the body checks, and nobody learns the state
\* of another wallet's session: a 409 is about the caller's own session or an unknown one.
AnswersDiscreet ==
    [][\A q \in Req : req[q].what.path = "issue" /\ answers'[q] # answers[q] =>
         LET r == req[q].what
         IN  /\ answers'[q] \cap {"invalid_json", "missing_field", "session_not_approved",
                                  "invalid_field"} # {} => Verifies(r.token)
             /\ "session_not_approved" \in answers'[q] /\ r.body.session # None =>
                  sessionStore[r.body.session].wallet \in {None, r.token.sub}]_httpVars

\* The client's retriable flag is the server's, for every answer there is.
RetriableAgrees ==
    \A q \in Req : \A code \in answers[q] : ClientRetriable(code) = Answers[code].retriable

\* One answer for each request, which the client reads the way the service meant it.
AnswersSound == HttpTypeOK /\ AnsweredOnce /\ RetriableAgrees
=============================================================================
