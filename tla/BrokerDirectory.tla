--------------------------- MODULE BrokerDirectory ---------------------------
(***************************************************************************)
(* Session managers calling a session directory.  The directory is either  *)
(* the one of the process, called directly, or a broker reached through    *)
(* BrokerBackedSessionDirectoryService, SessionDirectoryRemoteBrokerClient *)
(* and the WinHTTP transport.  The broker is not in this repository: it is *)
(* taken to keep the same maps (SessionDirectory), to answer in any of the *)
(* ways the client has code for, and to be too busy now and then.          *)
(*                                                                         *)
(* Between the two, a request or an answer may be lost, a request that was *)
(* given up may still arrive, and what comes back may be somebody else's   *)
(* page, the answer to another call, of another version, or damaged.       *)
(***************************************************************************)
EXTENDS SessionDirectory

CONSTANTS
  Caller,          \* session managers, each with one call under way at most
  Config,          \* broker settings they are given
  Service,         \* how they reach a directory: "local", "broker"
  Hosting, Joining \* the sessions each caller may register, and look up

BrokerConfig ==
  [enabled : BOOLEAN, scheme : {"none", "https", "http", "other"}, authToken : BOOLEAN,
   tokenSource : BOOLEAN, timeout : Nat, insecureAllowed : BOOLEAN]

ASSUME BrokerAssumption ==
  /\ Config \subseteq BrokerConfig
  /\ Service \subseteq {"local", "broker"}
  /\ Hosting \in [Caller -> SUBSET Registration]
  /\ Joining \in [Caller -> SUBSET ((Name \cup {NoName}) \X Build)]

VARIABLES
  service,   \* the directory in use and its settings
  call,      \* the call each caller has under way
  held,      \* the registration handle each caller knows
  late,      \* a request its caller gave up and that still travels
  report     \* what the call that just returned was told
vars == <<dir, answer, service, call, held, late, report>>

BrokerError ==
  {"InvalidRequest", "SessionNotFound", "SessionAlreadyExists", "VersionMismatch",
   "Unauthorized", "RateLimited", "Timeout", "ServiceUnavailable", "ProtocolError"}

DisconnectReason == Reason \cup {"Timeout", "TransportError", "RateLimited", "ProtocolError"}

Request ==
  [op : {"register"}, registration : Registration]
    \cup [op : {"lookup"}, name : Name \cup {NoName}, build : Build]
    \cup [op : {"refresh", "unregister"}, handle : Handle \cup {NoHandle}]

Nothing == [op |-> "none"]
IdleCall == [stage |-> "idle", request |-> Nothing, truth |-> Silence]
NoReport == [op |-> "none", handle |-> NoHandle, truth |-> Silence, result |-> Silence]

Init ==
  /\ DirectoryInit
  /\ service \in [kind : Service, config : Config]
  /\ call = [c \in Caller |-> IdleCall]
  /\ held = [c \in Caller |-> NoHandle]
  /\ late = Nothing
  /\ report = NoReport

-----------------------------------------------------------------------------
\* Settings and the two places that check them.

\* Mutant: plain HTTP is accepted as if it were allowed.
ValidateWithoutScheme(config) ==
  config.enabled /\ config.tokenSource /\ config.authToken /\ config.timeout # 0

ValidateSessionDirectoryBrokerConfig(config) ==
  /\ config.enabled
  /\ config.scheme \in {"https", "http"}
  /\ config.scheme = "http" => config.insecureAllowed
  /\ config.tokenSource
  /\ config.authToken
  /\ config.timeout # 0

GetSecurityState(config) ==
  [secureChannel |-> config.scheme = "https", hostnameValidated |-> config.scheme = "https",
   authenticatedBroker |-> config.authToken,
   allowInsecureLocalDevelopment |-> config.insecureAllowed]

ValidateTransportSecurityState(security) ==
  CASE ~security.authenticatedBroker -> "Unauthorized"
    [] security.authenticatedBroker /\ ~security.secureChannel
         /\ ~security.allowInsecureLocalDevelopment -> "ProtocolError"
    [] security.authenticatedBroker /\ security.secureChannel
         /\ ~security.hostnameValidated -> "ProtocolError"
    [] OTHER -> "None"

HasTransport(config) == config.scheme \in {"https", "http"}

\* BuildSessionDirectoryService: without a valid configuration there is no service.
IsBuilt ==
  ValidateSessionDirectoryBrokerConfig(service.config) /\ HasTransport(service.config)

-----------------------------------------------------------------------------
\* How the client reads an answer.

\* The ways WinHTTP fails; a certificate that is refused counts as a broker out of reach.
MapWinHttpError(error) ==
  [timeout |-> "Timeout", connection |-> "Unreachable", certificate |-> "Unreachable",
   other |-> "InvalidResponse"][error]

MapTransportError(error) ==
  [Timeout |-> "Timeout", Unreachable |-> "ServiceUnavailable",
   InvalidResponse |-> "ProtocolError"][error]

StatusOf ==
  [InvalidRequest |-> 400, Unauthorized |-> 401, SessionNotFound |-> 404, Timeout |-> 408,
   SessionAlreadyExists |-> 409, VersionMismatch |-> 412, RateLimited |-> 429,
   ServiceUnavailable |-> 503, ProtocolError |-> 300]

MapStatusCode(status) ==
  CASE \E e \in BrokerError : StatusOf[e] = status ->
         CHOOSE e \in BrokerError : StatusOf[e] = status
    [] status = 403 -> "Unauthorized"
    [] status \notin {403, 503} /\ status >= 500 -> "ServiceUnavailable"
    [] OTHER -> "ProtocolError"

Failure(error) == [said |-> <<"refused">>, error |-> error]

Declared(response, default) ==
  IF response.errorCode \in BrokerError THEN response.errorCode ELSE default

\* An error response: "unclear" is the error when the body does not say that it is one.
ReadError(response, fallback, unclear) ==
  CASE response.body \in {"empty", "garbled"} -> Failure(fallback)
    [] response.body = "fields" /\ ~response.version -> Failure("ProtocolError")
    [] response.body = "fields" /\ response.version /\ response.success # "0" ->
         Failure(unclear)
    [] OTHER -> Failure(Declared(response, fallback))

ParseRegisterErrorResponse(response) ==
  ReadError(response, MapStatusCode(response.status), MapStatusCode(response.status))
ParseLookupErrorResponse(response) ==
  ReadError(response, MapStatusCode(response.status), MapStatusCode(response.status))
ParseRefreshErrorResponse(response) ==
  ReadError(response, MapStatusCode(response.status), "ProtocolError")
ParseUnregisterErrorResponse(response) ==
  ReadError(response, MapStatusCode(response.status), "ProtocolError")

\* A response with a success status: it must say which, and have the fields of a success.
ReadFields(response, isWhole) ==
  CASE response.body # "fields" \/ ~response.version \/ response.success = "missing" ->
         Failure("ProtocolError")
    [] response.body = "fields" /\ response.version /\ response.success = "0" ->
         Failure(Declared(response, "ProtocolError"))
    [] OTHER -> IF isWhole THEN [said |-> response.said, error |-> "None"]
                ELSE Failure("ProtocolError")

PopulateSessionDescriptor(response) == response.lacks # "descriptor"
TryParseRequiredPositiveUint64Field(response) == response.lacks # "expiry"

ParseRegisterResponse(response) ==
  ReadFields(response, /\ response.lacks # "handle"
                       /\ TryParseRequiredPositiveUint64Field(response)
                       /\ PopulateSessionDescriptor(response))
ParseLookupResponse(response) == ReadFields(response, PopulateSessionDescriptor(response))
ParseRefreshResponse(response) ==
  ReadFields(response, TryParseRequiredPositiveUint64Field(response))
ParseUnregisterResponse(response) == ReadFields(response, TRUE)

\* Mutant: whatever answer comes back is taken for the answer to this request.
AnyCorrelation(response) == TRUE

\* Mutant: a missing correlation identifier is let through.
CorrelationUnlessMissing(response) == response.id # "other"

ValidateResponseCorrelation(response) == response.id = "this"

\* The part of the four client methods that follows Send.
IsAnswer(response) == response.error = "None" /\ ValidateResponseCorrelation(response)
NoAnswer(response) ==
  Failure(IF response.error # "None" THEN MapTransportError(response.error)
          ELSE "ProtocolError")
IsSuccessStatus(response) == response.status \in 200..299

ReadRegister(response) ==
  IF ~IsAnswer(response) THEN NoAnswer(response)
  ELSE IF IsSuccessStatus(response) THEN ParseRegisterResponse(response)
  ELSE ParseRegisterErrorResponse(response)

ReadLookup(response) ==
  IF ~IsAnswer(response) THEN NoAnswer(response)
  ELSE IF IsSuccessStatus(response) THEN ParseLookupResponse(response)
  ELSE ParseLookupErrorResponse(response)

ReadRefresh(response) ==
  IF ~IsAnswer(response) THEN NoAnswer(response)
  ELSE IF IsSuccessStatus(response) THEN ParseRefreshResponse(response)
  ELSE ParseRefreshErrorResponse(response)

ReadUnregister(response) ==
  IF ~IsAnswer(response) THEN NoAnswer(response)
  ELSE IF IsSuccessStatus(response) THEN ParseUnregisterResponse(response)
  ELSE ParseUnregisterErrorResponse(response)

ReadAnswer(op, response) ==
  CASE op = "register" -> ReadRegister(response)
    [] op = "lookup" -> ReadLookup(response)
    [] op = "refresh" -> ReadRefresh(response)
    [] op = "unregister" -> ReadUnregister(response)

\* Mutant: an answer that cannot be understood counts as a refusal.
MapProtocolErrorToFailed(error) ==
  CASE error \in {"InvalidRequest", "SessionAlreadyExists", "ProtocolError"} ->
         "BootstrapFailed"
    [] error = "SessionNotFound" -> "SessionClosed"
    [] error = "VersionMismatch" -> "VersionMismatch"
    [] error = "Unauthorized" -> "AuthRejected"
    [] error = "RateLimited" -> "RateLimited"
    [] error = "Timeout" -> "Timeout"
    [] error = "ServiceUnavailable" -> "TransportError"

MapBrokerError(error) ==
  CASE error \in {"InvalidRequest", "SessionAlreadyExists"} -> "BootstrapFailed"
    [] error = "SessionNotFound" -> "SessionClosed"
    [] error = "VersionMismatch" -> "VersionMismatch"
    [] error = "Unauthorized" -> "AuthRejected"
    [] error = "RateLimited" -> "RateLimited"
    [] error = "Timeout" -> "Timeout"
    [] error = "ServiceUnavailable" -> "TransportError"
    [] error = "ProtocolError" -> "ProtocolError"

\* What {Register, Lookup, Refresh, Unregister}HostedSession of the broker-backed service
\* reports.
Reported(result) ==
  IF result.error = "None"
    THEN [said |-> result.said, reason |-> "None"]
    ELSE [said |-> <<"refused">>, reason |-> MapBrokerError(result.error)]

-----------------------------------------------------------------------------
\* The broker and the network, as far as the client has code for what they do.

Perform(d, request) ==
  CASE request.op = "register" -> RegisterHostedSession(d, request.registration)
    [] request.op = "lookup" -> {LookupSession(d, request.name, request.build)}
    [] request.op = "refresh" -> {RefreshHostedSession(d, request.handle)}
    [] request.op = "unregister" -> {UnregisterHostedSession(d, request.handle)}

\* The error a broker names for a refusal of the directory.
Verdict(reason) ==
  [None |-> "None", BootstrapFailed |-> "SessionAlreadyExists",
   SessionClosed |-> "SessionNotFound", AuthRejected |-> "Unauthorized",
   VersionMismatch |-> "VersionMismatch", RateLimited |-> "RateLimited",
   TransportError |-> "ServiceUnavailable"][reason]

WireAnswer(status, body, success, errorCode, said) ==
  [error |-> "None", id |-> "this", status |-> status, body |-> body, version |-> TRUE,
   success |-> success, errorCode |-> errorCode, said |-> said, lacks |-> "nothing"]

\* The ways to put a reply: a refusal may be a status, a body, or both.
Rendered(reply) ==
  LET verdict == Verdict(reply.reason)
  IN IF verdict = "None"
       THEN {WireAnswer(200, "fields", "1", "None", reply.said)}
       ELSE {WireAnswer(200, "fields", "0", verdict, <<"refused">>),
             WireAnswer(StatusOf[verdict], "empty", "missing", "None", <<"refused">>),
             WireAnswer(StatusOf[verdict], "fields", "0", "None", <<"refused">>)}

\* An answer to another call, or a page of a gateway that knows nothing of the protocol.
Foreign(op) ==
  {[w EXCEPT !.id = i] :
     i \in {"other", "none"},
     w \in {WireAnswer(status, "empty", "missing", "None", <<"refused">>) :
              status \in {404, 503}}
           \cup {WireAnswer(200, "fields", "1", "None", said) :
                   said \in CASE op = "register" -> {"granted"} \X Handle
                              [] op = "lookup" -> {"resolved"} \X Name \X Build
                              [] op = "refresh" -> {"renewed"} \X Handle
                              [] op = "unregister" -> {"released"} \X Handle}}

Damaged(reply) ==
  (UNION {{[w EXCEPT !.version = FALSE], [w EXCEPT !.body = "garbled"],
           [w EXCEPT !.success = "missing"]} : w \in Rendered(reply)})
    \cup {[w EXCEPT !.lacks = field] :
             w \in Rendered(reply), field \in {"handle", "expiry", "descriptor"}}

\* A status line without a body keeps its meaning; the rest of a damaged answer loses it.
Answers(op, reply) == Rendered(reply) \cup Damaged(reply) \cup Foreign(op)

Lost ==
  {[error |-> MapWinHttpError(e)] : e \in {"timeout", "connection", "certificate", "other"}}

-----------------------------------------------------------------------------
\* What a session manager asks for: it registers when it holds nothing, and refreshes and
\* releases what it holds.
Requests(c) ==
  {[op |-> "lookup", name |-> j[1], build |-> j[2]] : j \in Joining[c]}
    \cup IF held[c] = NoHandle
           THEN {[op |-> "register", registration |-> r] : r \in Hosting[c]}
           ELSE {[op |-> o, handle |-> held[c]] : o \in {"refresh", "unregister"}}

\* CaptureHostedSessionRegistration and ClearHostedSessionRegistrationState.
Known(c, request, result) ==
  CASE request.op = "register" /\ result.reason = "None" ->
         {h \in Handle : result.said = <<"granted", h>>}
    [] request.op = "unregister" /\ result.reason \in {"None", "SessionClosed"} -> {NoHandle}
    [] OTHER -> {held[c]}

Return(c, request, truth, result) ==
  /\ call' = [call EXCEPT ![c] = IdleCall]
  /\ report' = [op |-> request.op, truth |-> truth, result |-> result,
                 handle |-> IF request.op \in {"refresh", "unregister"}
                              THEN request.handle ELSE NoHandle]
  /\ \E h \in Known(c, request, result) : held' = [held EXCEPT ![c] = h]

IsIdle(c) == call[c].stage = "idle"

CallLocal(c) ==
  /\ service.kind = "local" /\ IsIdle(c)
  /\ \E request \in Requests(c) :
       \E o \in Perform(dir, request) :
         /\ Answer(o)
         /\ Return(c, request, o.reply, o.reply)
  /\ UNCHANGED <<service, late>>

\* Without a service, or over a transport the client does not trust, nothing is sent.
CallRefused(c) ==
  /\ service.kind = "broker" /\ IsIdle(c)
  /\ \E request \in Requests(c), reason \in DisconnectReason :
       /\ \/ ~IsBuilt /\ reason = "BootstrapFailed"
          \/ LET error == ValidateTransportSecurityState(GetSecurityState(service.config))
             IN IsBuilt /\ error # "None" /\ reason = MapBrokerError(error)
       /\ Return(c, request, Silence, [said |-> <<"refused">>, reason |-> reason])
  /\ NoCall
  /\ UNCHANGED <<service, late>>

Send(c) ==
  /\ service.kind = "broker" /\ IsIdle(c) /\ IsBuilt
  /\ ValidateTransportSecurityState(GetSecurityState(service.config)) = "None"
  /\ \E request \in Requests(c) :
       call' = [call EXCEPT ![c] = [stage |-> "sent", request |-> request,
                                    truth |-> Silence]]
  /\ report' = NoReport
  /\ NoCall
  /\ UNCHANGED <<service, held, late>>

Served(c, reply) ==
  call' = [call EXCEPT ![c] = [stage |-> "served", request |-> call[c].request,
                               truth |-> reply]]

\* The broker obeys, or is too busy to look at its maps.
Serve(c) ==
  /\ call[c].stage = "sent"
  /\ \/ \E o \in Perform(dir, call[c].request) : Answer(o) /\ Served(c, o.reply)
     \/ \E reason \in {"RateLimited", "TransportError"} :
          Served(c, [said |-> <<"refused">>, reason |-> reason]) /\ NoCall
  /\ report' = NoReport
  /\ UNCHANGED <<service, held, late>>

\* A request nobody waits for any more is dropped or travels on, one at a time.  Lookups
\* are left out: one more of them is as good as a late one.
GivenUp(c) ==
  {late} \cup IF /\ call[c].stage = "sent" /\ call[c].request.op # "lookup"
                 /\ late = Nothing
                THEN {call[c].request} ELSE {}

\* Send returns: with the broker's answer, somebody else's, or a transport error.
Results(op, responses) == {Reported(ReadAnswer(op, w)) : w \in responses}

Complete(c) ==
  LET op == call[c].request.op
  IN /\ call[c].stage \in {"sent", "served"}
     /\ \E result \in IF call[c].stage = "sent"
                        THEN Results(op, Foreign(op) \cup Lost)
                        ELSE Results(op, Answers(op, call[c].truth) \cup Lost) :
          Return(c, call[c].request, call[c].truth, result)
     /\ late' \in GivenUp(c)
     /\ NoCall /\ UNCHANGED service

LateArrives ==
  /\ late # Nothing
  /\ \E o \in Perform(dir, late) : Answer(o)
  /\ late' = Nothing /\ report' = NoReport
  /\ UNCHANGED <<service, call, held>>

\* A process of a broker's session ends; what it registered stays listed.
Crash(c) ==
  /\ service.kind = "broker"
  /\ call' = [call EXCEPT ![c] = IdleCall]
  /\ held' = [held EXCEPT ![c] = NoHandle]
  /\ late' \in GivenUp(c) /\ report' = NoReport
  /\ NoCall
  /\ UNCHANGED service

TimePasses == Tick /\ report' = NoReport /\ UNCHANGED <<service, call, held, late>>

Next ==
  \/ \E c \in Caller :
       CallLocal(c) \/ CallRefused(c) \/ Send(c) \/ Serve(c) \/ Complete(c) \/ Crash(c)
  \/ LateArrives
  \/ TimePasses

Spec == Init /\ [][Next]_vars

-----------------------------------------------------------------------------
TypeOK ==
  /\ DirectoryTypeOK
  /\ service \in [kind : Service, config : BrokerConfig]
  /\ held \in [Caller -> Handle \cup {NoHandle}]
  /\ \A c \in Caller :
       /\ call[c].stage \in {"idle", "sent", "served"}
       /\ call[c].stage # "idle" => call[c].request \in Request
       /\ call[c].truth \in [said : Said, reason : DisconnectReason]
  /\ late \in Request \cup {Nothing}
  /\ {report.truth, report.result} \subseteq [said : Said, reason : DisconnectReason]

(***************************************************************************)
(* A success is what the directory said to this very request: never the    *)
(* answer to another call, a gateway's page or a damaged answer.           *)
(***************************************************************************)
SuccessIsTrue == report.result.reason = "None" => report.result = report.truth

(***************************************************************************)
(* A call the directory obeyed is reported as failed only for a timeout, a *)
(* lost connection or an unreadable answer: the failures after which       *)
(* SessionManager allows for a call that was obeyed (LostReply).           *)
(***************************************************************************)
OnlyLostRepliesHide ==
  report.truth.reason = "None" /\ report.truth # Silence
    => report.result.reason \in {"None", "Timeout", "TransportError", "ProtocolError"}

(***************************************************************************)
(* A host told that its registration is gone, for good or at its own       *)
(* request, is not listed any more: it may forget its handle.              *)
(***************************************************************************)
GoneIsTrue ==
  \/ report.op = "refresh" /\ report.result.reason = "SessionClosed"
  \/ report.op = "unregister" /\ report.result.reason \in {"None", "SessionClosed"}
  => dir.handles[report.handle] = NoName

(***************************************************************************)
(* The settings are checked when the service is built and the transport at *)
(* every call: a service that could be built is never refused its calls.   *)
(***************************************************************************)
BuiltServiceIsTrusted ==
  service.kind = "broker" /\ IsBuilt
    => ValidateTransportSecurityState(GetSecurityState(service.config)) = "None"
=============================================================================
