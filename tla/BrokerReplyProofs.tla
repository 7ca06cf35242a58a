-------------------------- MODULE BrokerReplyProofs --------------------------
(***************************************************************************)
(* What a caller may conclude from the reply to a call: whatever the       *)
(* network does, a success is true, a call that was obeyed only fails as   *)
(* if its answer had been lost, and a registration reported gone is gone.  *)
(*                                                                         *)
(* A reply is read in two steps.  First, of all that may come back, only   *)
(* the broker's own answer is let through as one, and it is read as what   *)
(* the broker said or as a protocol error.  Second, what the broker said   *)
(* when it served the call is still so when the call returns.              *)
(***************************************************************************)
EXTENDS BrokerDirectoryProofs

Operation == {"register", "lookup", "refresh", "unregister"}
Spoken == Reason \cup {"RateLimited", "TransportError"}
Truth == [said : Said, reason : Spoken]

\* What an answer of the broker says of a call that is granted, or refused with a verdict.
Grants(w, truth) ==
  /\ w.status = 200 /\ w.said = truth.said /\ w.errorCode = "None" /\ w.success # "0"

Refuses(w, verdict) ==
  /\ w.success \in {"0", "missing"}
  /\ \/ w.status = 200 /\ w.errorCode = verdict
     \/ w.status = StatusOf[verdict] /\ w.errorCode = "None"

-----------------------------------------------------------------------------
(***************************************************************************)
(* Reading an answer.                                                      *)
(***************************************************************************)

\* Statuses and errors are told apart from each other.
LEMMA StatusesDiffer ==
  ASSUME NEW e \in BrokerError
  PROVE  /\ StatusOf[e] \in Nat /\ StatusOf[e] \notin 200..299
         /\ \A f \in BrokerError : StatusOf[f] = StatusOf[e] => f = e
<1>1. /\ StatusOf["InvalidRequest"] = 400 /\ StatusOf["Unauthorized"] = 401
      /\ StatusOf["SessionNotFound"] = 404 /\ StatusOf["Timeout"] = 408
      /\ StatusOf["SessionAlreadyExists"] = 409 /\ StatusOf["VersionMismatch"] = 412
      /\ StatusOf["RateLimited"] = 429 /\ StatusOf["ServiceUnavailable"] = 503
      /\ StatusOf["ProtocolError"] = 300
  BY DEF StatusOf
<1> HIDE DEF StatusOf
<1> QED BY <1>1 DEF BrokerError

\* The status of an error is read back as that error.
LEMMA StatusIsVerdict ==
  ASSUME NEW e \in BrokerError
  PROVE  MapStatusCode(StatusOf[e]) = e
<1> DEFINE status == StatusOf[e]
<1>1. \E f \in BrokerError : StatusOf[f] = status
  OBVIOUS
<1>2. (CHOOSE f \in BrokerError : StatusOf[f] = status) = e
  BY StatusesDiffer
<1>3. status # 403 /\ ~(status >= 500 /\ status # 503)
  BY DEF BrokerError, StatusOf
<1> QED BY <1>1, <1>2, <1>3 DEF MapStatusCode

\* Only a granted call has no verdict; the others have an error each.
LEMMA VerdictIsError ==
  ASSUME NEW reason \in Spoken
  PROVE  /\ reason = "None" <=> Verdict(reason) = "None"
         /\ reason # "None" => Verdict(reason) \in BrokerError
         /\ reason # "SessionClosed" => Verdict(reason) # "SessionNotFound"
<1>1. /\ Verdict("None") = "None" /\ Verdict("BootstrapFailed") = "SessionAlreadyExists"
      /\ Verdict("SessionClosed") = "SessionNotFound"
      /\ Verdict("AuthRejected") = "Unauthorized"
      /\ Verdict("VersionMismatch") = "VersionMismatch"
      /\ Verdict("RateLimited") = "RateLimited"
      /\ Verdict("TransportError") = "ServiceUnavailable"
  BY DEF Verdict
<1> QED BY <1>1 DEF Spoken, Reason, BrokerError

\* A response with a success status is a success or names the error it has.
LEMMA FieldsRead ==
  ASSUME NEW w, NEW whole \in BOOLEAN
  PROVE  \/ /\ ReadFields(w, whole) = [said |-> w.said, error |-> "None"]
            /\ w.success # "0" /\ w.success # "missing"
         \/ ReadFields(w, whole) = Failure("ProtocolError")
         \/ w.errorCode \in BrokerError /\ ReadFields(w, whole) = Failure(w.errorCode)
<1>1. \/ Declared(w, "ProtocolError") = "ProtocolError"
      \/ w.errorCode \in BrokerError /\ Declared(w, "ProtocolError") = w.errorCode
  <2>1. CASE w.errorCode \in BrokerError
    BY <2>1 DEF Declared
  <2>2. CASE w.errorCode \notin BrokerError
    BY <2>2 DEF Declared
  <2> QED BY <2>1, <2>2
<1>2. CASE w.body # "fields" \/ ~w.version \/ w.success = "missing"
  BY <1>2 DEF ReadFields
<1>3. CASE w.body = "fields" /\ w.version /\ w.success = "0"
  BY <1>1, <1>3 DEF ReadFields
<1>4. CASE ~(w.body # "fields" \/ ~w.version \/ w.success = "missing")
             /\ ~(w.body = "fields" /\ w.version /\ w.success = "0")
  BY <1>4 DEF ReadFields
<1> QED BY <1>2, <1>3, <1>4

\* An error response that names no error is one of its status, or not understood.
LEMMA ErrorRead ==
  ASSUME NEW w, NEW fallback, NEW unclear, w.errorCode \notin BrokerError
  PROVE  ReadError(w, fallback, unclear)
           \in {Failure(fallback), Failure(unclear), Failure("ProtocolError")}
<1>1. Declared(w, fallback) = fallback
  BY DEF Declared
<1>2. CASE w.body \in {"empty", "garbled"}
  BY <1>2 DEF ReadError
<1>3. CASE w.body = "fields" /\ ~w.version
  BY <1>3 DEF ReadError
<1>4. CASE w.body = "fields" /\ w.version /\ w.success # "0"
  BY <1>4 DEF ReadError
<1>5. CASE /\ ~(w.body \in {"empty", "garbled"}) /\ ~(w.body = "fields" /\ ~w.version)
           /\ ~(w.body = "fields" /\ w.version /\ w.success # "0")
  BY <1>1, <1>5 DEF ReadError
<1> QED BY <1>2, <1>3, <1>4, <1>5

\* What one of the four methods makes of an answer, by its status.
LEMMA AnswerRead ==
  ASSUME NEW op \in Operation, NEW w, w.error = "None", w.id = "this"
  PROVE  /\ w.status \in 200..299 =>
              \E whole \in BOOLEAN : ReadAnswer(op, w) = ReadFields(w, whole)
         /\ w.status \notin 200..299 =>
              \E unclear \in {MapStatusCode(w.status), "ProtocolError"} :
                ReadAnswer(op, w) = ReadError(w, MapStatusCode(w.status), unclear)
<1>1. IsAnswer(w)
  BY DEF IsAnswer, ValidateResponseCorrelation
<1>2. CASE op = "register"
  <2>1. ReadAnswer(op, w) = ReadRegister(w)
    BY <1>2 DEF ReadAnswer
  <2>2. (/\ w.lacks # "handle" /\ w.lacks # "expiry" /\ w.lacks # "descriptor") \in BOOLEAN
    OBVIOUS
  <2>3. ParseRegisterResponse(w) = ReadFields(w, /\ w.lacks # "handle"
                                                 /\ w.lacks # "expiry"
                                                 /\ w.lacks # "descriptor")
    BY DEF ParseRegisterResponse, TryParseRequiredPositiveUint64Field,
           PopulateSessionDescriptor
  <2> QED BY <1>1, <2>1, <2>2, <2>3
          DEF ReadRegister, IsSuccessStatus, ParseRegisterErrorResponse
<1>3. CASE op = "lookup"
  <2>1. ReadAnswer(op, w) = ReadLookup(w)
    BY <1>3 DEF ReadAnswer
  <2>2. (w.lacks # "descriptor") \in BOOLEAN
    OBVIOUS
  <2>3. ParseLookupResponse(w) = ReadFields(w, w.lacks # "descriptor")
    BY DEF ParseLookupResponse, PopulateSessionDescriptor
  <2> QED BY <1>1, <2>1, <2>2, <2>3 DEF ReadLookup, IsSuccessStatus, ParseLookupErrorResponse
<1>4. CASE op = "refresh"
  <2>1. ReadAnswer(op, w) = ReadRefresh(w)
    BY <1>4 DEF ReadAnswer
  <2>2. (w.lacks # "expiry") \in BOOLEAN
    OBVIOUS
  <2>3. ParseRefreshResponse(w) = ReadFields(w, w.lacks # "expiry")
    BY DEF ParseRefreshResponse, TryParseRequiredPositiveUint64Field
  <2> QED BY <1>1, <2>1, <2>2, <2>3
          DEF ReadRefresh, IsSuccessStatus, ParseRefreshErrorResponse
<1>5. CASE op = "unregister"
  <2>1. ReadAnswer(op, w) = ReadUnregister(w)
    BY <1>5 DEF ReadAnswer
  <2>2. ParseUnregisterResponse(w) = ReadFields(w, TRUE)
    BY DEF ParseUnregisterResponse
  <2> QED BY <1>1, <2>1, <2>2
          DEF ReadUnregister, IsSuccessStatus, ParseUnregisterErrorResponse
<1> QED BY <1>2, <1>3, <1>4, <1>5 DEF Operation

-----------------------------------------------------------------------------
(***************************************************************************)
(* What comes back from the network.                                       *)
(***************************************************************************)

\* Damage changes one field of what the broker put.
LEMMA DamagedForms ==
  ASSUME NEW reply, NEW w \in Rendered(reply) \cup Damaged(reply)
  PROVE  \E v \in Rendered(reply) :
           \/ w = v
           \/ w = [v EXCEPT !.version = FALSE]
           \/ w = [v EXCEPT !.body = "garbled"]
           \/ w = [v EXCEPT !.success = "missing"]
           \/ \E field \in {"handle", "expiry", "descriptor"} : w = [v EXCEPT !.lacks = field]
<1> DEFINE Spoilt(v) == {[v EXCEPT !.version = FALSE], [v EXCEPT !.body = "garbled"],
                         [v EXCEPT !.success = "missing"]}
<1>1. CASE w \in Rendered(reply)
  BY <1>1
<1>2. CASE w \in UNION {Spoilt(v) : v \in Rendered(reply)}
  <2>1. PICK v \in Rendered(reply) : w \in Spoilt(v)
    BY <1>2
  <2> QED BY <2>1
<1>3. CASE w \in {[v EXCEPT !.lacks = field] :
                   v \in Rendered(reply), field \in {"handle", "expiry", "descriptor"}}
  BY <1>3
<1>4. Damaged(reply) = (UNION {Spoilt(v) : v \in Rendered(reply)})
        \cup {[v EXCEPT !.lacks = field] :
                v \in Rendered(reply), field \in {"handle", "expiry", "descriptor"}}
  BY DEF Damaged
<1> HIDE DEF Spoilt
<1> QED BY <1>1, <1>2, <1>3, <1>4

\* The answer of a broker that granted the call, whole or damaged.
LEMMA GrantRendered ==
  ASSUME NEW truth \in Truth, truth.reason = "None",
         NEW w \in Rendered(truth) \cup Damaged(truth)
  PROVE  w.error = "None" /\ w.id = "this" /\ Grants(w, truth)
<1> DEFINE whole == WireAnswer(200, "fields", "1", "None", truth.said)
<1>1. whole = [error |-> "None", id |-> "this", status |-> 200, body |-> "fields",
               version |-> TRUE, success |-> "1", errorCode |-> "None",
               said |-> truth.said, lacks |-> "nothing"]
  BY DEF WireAnswer
<1>2. Rendered(truth) = {whole}
  BY VerdictIsError, "None" \in Spoken DEF Rendered, Spoken, Reason
<1> HIDE DEF whole
<1>3. CASE w = whole
  BY <1>1, <1>3 DEF Grants
<1>4. CASE \/ w = [whole EXCEPT !.version = FALSE] \/ w = [whole EXCEPT !.body = "garbled"]
           \/ w = [whole EXCEPT !.success = "missing"]
  BY <1>1, <1>4 DEF Grants
<1>5. CASE \E field \in {"handle", "expiry", "descriptor"} :
             w = [whole EXCEPT !.lacks = field]
  BY <1>1, <1>5 DEF Grants
<1> QED BY <1>2, <1>3, <1>4, <1>5, DamagedForms

\* The answers of a broker that refused the call, whole or damaged.
LEMMA RefusalRendered ==
  ASSUME NEW truth \in Truth, truth.reason # "None",
         NEW w \in Rendered(truth) \cup Damaged(truth)
  PROVE  w.error = "None" /\ w.id = "this" /\ Refuses(w, Verdict(truth.reason))
<1> DEFINE verdict == Verdict(truth.reason)
           Told(v, status, code, success) ==
             /\ v.error = "None" /\ v.id = "this" /\ v.status = status
             /\ v.errorCode = code /\ v.success \in {"0", "missing"}
<1>1. verdict # "None"
  BY VerdictIsError DEF Truth
<1>2. PICK v \in Rendered(truth) :
        \/ w = v
        \/ w = [v EXCEPT !.version = FALSE]
        \/ w = [v EXCEPT !.body = "garbled"]
        \/ w = [v EXCEPT !.success = "missing"]
        \/ \E field \in {"handle", "expiry", "descriptor"} : w = [v EXCEPT !.lacks = field]
  BY DamagedForms
<1>3. \/ v = WireAnswer(200, "fields", "0", verdict, <<"refused">>)
      \/ v = WireAnswer(StatusOf[verdict], "empty", "missing", "None", <<"refused">>)
      \/ v = WireAnswer(StatusOf[verdict], "fields", "0", "None", <<"refused">>)
  BY <1>1 DEF Rendered
<1> HIDE DEF verdict
<1>4. ASSUME NEW status, NEW body, NEW success \in {"0", "missing"}, NEW code, NEW said,
             v = WireAnswer(status, body, success, code, said)
      PROVE  Told(w, status, code, success)
  <2>1. v = [error |-> "None", id |-> "this", status |-> status, body |-> body,
             version |-> TRUE, success |-> success, errorCode |-> code, said |-> said,
             lacks |-> "nothing"]
    BY <1>4 DEF WireAnswer
  <2>2. CASE w = v
    BY <2>1, <2>2
  <2>3. CASE w = [v EXCEPT !.version = FALSE]
    BY <2>1, <2>3
  <2>4. CASE w = [v EXCEPT !.body = "garbled"]
    BY <2>1, <2>4
  <2>5. CASE w = [v EXCEPT !.success = "missing"]
    BY <2>1, <2>5
  <2>6. CASE \E field \in {"handle", "expiry", "descriptor"} : w = [v EXCEPT !.lacks = field]
    BY <2>1, <2>6
  <2> QED BY <1>2, <2>2, <2>3, <2>4, <2>5, <2>6
<1>5. \/ Told(w, 200, verdict, "0")
      \/ Told(w, StatusOf[verdict], "None", "missing")
      \/ Told(w, StatusOf[verdict], "None", "0")
  BY <1>3, <1>4
<1> QED BY <1>5 DEF Refuses, verdict

\* An answer that grants is read as the grant or not understood.
LEMMA GrantRead ==
  ASSUME NEW op \in Operation, NEW truth \in Truth, NEW w,
         w.error = "None", w.id = "this", Grants(w, truth)
  PROVE  ReadAnswer(op, w) \in {[said |-> truth.said, error |-> "None"],
                                Failure("ProtocolError")}
<1>1. w.status \in 200..299 /\ w.said = truth.said /\ w.errorCode = "None"
  BY DEF Grants
<1>2. PICK whole \in BOOLEAN : ReadAnswer(op, w) = ReadFields(w, whole)
  BY <1>1, AnswerRead
<1>3. w.errorCode \notin BrokerError
  BY <1>1 DEF BrokerError
<1> QED BY <1>1, <1>2, <1>3, FieldsRead

\* An answer that refuses is read as its verdict or not understood.
LEMMA RefusalRead ==
  ASSUME NEW op \in Operation, NEW verdict \in BrokerError, NEW w,
         w.error = "None", w.id = "this", Refuses(w, verdict)
  PROVE  ReadAnswer(op, w) \in {Failure(verdict), Failure("ProtocolError")}
<1>1. CASE w.status = 200 /\ w.errorCode = verdict
  <2>1. w.status \in 200..299
    BY <1>1
  <2>2. PICK whole \in BOOLEAN : ReadAnswer(op, w) = ReadFields(w, whole)
    BY <2>1, AnswerRead
  <2>3. w.success = "0" \/ w.success = "missing"
    BY DEF Refuses
  <2> QED BY <1>1, <2>2, <2>3, FieldsRead
<1>2. CASE w.status = StatusOf[verdict] /\ w.errorCode = "None"
  <2>1. w.status \notin 200..299 /\ MapStatusCode(w.status) = verdict
    BY <1>2, StatusesDiffer, StatusIsVerdict
  <2>2. PICK unclear \in {verdict, "ProtocolError"} :
          ReadAnswer(op, w) = ReadError(w, verdict, unclear)
    BY <2>1, AnswerRead
  <2>3. w.errorCode \notin BrokerError
    BY <1>2 DEF BrokerError
  <2> QED BY <2>2, <2>3, ErrorRead
<1> QED BY <1>1, <1>2 DEF Refuses

\* The reasons a call fails with when its answer was lost or made no sense.
Unheard == {"Timeout", "TransportError", "ProtocolError"}

\* What a caller is told is what was answered, or that the answer was not heard.
Heard(truth, result) ==
  \/ truth.reason = "None" /\ result = truth
  \/ truth.reason # "None" /\ result = [said |-> <<"refused">>, reason |-> truth.reason]
  \/ \E reason \in Unheard : result = [said |-> <<"refused">>, reason |-> reason]

\* Every error of the broker has a reason, and the reason of a refusal comes back.
LEMMA ErrorsMapped ==
  /\ \A e \in {"Timeout", "ServiceUnavailable", "ProtocolError"} :
       MapBrokerError(e) \in Unheard
  /\ \A reason \in Spoken \ {"None"} : MapBrokerError(Verdict(reason)) = reason
<1>1. /\ MapBrokerError("SessionAlreadyExists") = "BootstrapFailed"
      /\ MapBrokerError("SessionNotFound") = "SessionClosed"
      /\ MapBrokerError("Unauthorized") = "AuthRejected"
      /\ MapBrokerError("VersionMismatch") = "VersionMismatch"
      /\ MapBrokerError("RateLimited") = "RateLimited"
      /\ MapBrokerError("ServiceUnavailable") = "TransportError"
      /\ MapBrokerError("Timeout") = "Timeout"
      /\ MapBrokerError("ProtocolError") = "ProtocolError"
  BY DEF MapBrokerError
<1>2. /\ Verdict("BootstrapFailed") = "SessionAlreadyExists"
      /\ Verdict("SessionClosed") = "SessionNotFound"
      /\ Verdict("AuthRejected") = "Unauthorized"
      /\ Verdict("VersionMismatch") = "VersionMismatch"
      /\ Verdict("RateLimited") = "RateLimited"
      /\ Verdict("TransportError") = "ServiceUnavailable"
  BY DEF Verdict
<1> QED BY <1>1, <1>2 DEF Unheard, Spoken, Reason

\* A failure is reported as a refusal, for the reason of its error.
LEMMA FailureReported ==
  ASSUME NEW error, error # "None"
  PROVE  Reported(Failure(error)) = [said |-> <<"refused">>, reason |-> MapBrokerError(error)]
BY DEF Reported, Failure

\* Whatever is no answer to this call is reported as a failure to hear one.
LEMMA NothingHeard ==
  ASSUME NEW op \in Operation, NEW w \in Foreign(op) \cup Lost
  PROVE  \E reason \in Unheard :
           Reported(ReadAnswer(op, w)) = [said |-> <<"refused">>, reason |-> reason]
<1>1. ~IsAnswer(w) /\ NoAnswer(w) \in {Failure("Timeout"), Failure("ServiceUnavailable"),
                                       Failure("ProtocolError")}
  <2>1. CASE w \in Lost
    <3>1. PICK e \in {"timeout", "connection", "certificate", "other"} :
            w = [error |-> MapWinHttpError(e)]
      BY <2>1 DEF Lost
    <3>2. w.error \in {"Timeout", "Unreachable", "InvalidResponse"}
      BY <3>1 DEF MapWinHttpError
    <3>3. MapTransportError(w.error) \in {"Timeout", "ServiceUnavailable", "ProtocolError"}
      BY <3>2 DEF MapTransportError
    <3> QED BY <3>2, <3>3 DEF IsAnswer, NoAnswer
  <2>2. CASE w \in Foreign(op)
    <3>1. PICK i, status, body, success, said :
            i \in {"other", "none"}
              /\ w = [WireAnswer(status, body, success, "None", said) EXCEPT !.id = i]
      BY <2>2 DEF Foreign
    <3>2. w.error = "None" /\ w.id # "this"
      BY <3>1 DEF WireAnswer
    <3> QED BY <3>2 DEF IsAnswer, NoAnswer, ValidateResponseCorrelation
  <2> QED BY <2>1, <2>2
<1>2. ReadAnswer(op, w) = NoAnswer(w)
  BY <1>1 DEF ReadAnswer, ReadRegister, ReadLookup, ReadRefresh, ReadUnregister, Operation
<1> QED BY <1>1, <1>2, FailureReported, ErrorsMapped

\* What Send can return, for a call the broker has answered.
LEMMA AnswerHeard ==
  ASSUME NEW op \in Operation, NEW truth \in Truth, NEW result \in
           Results(op, Answers(op, truth) \cup Lost)
  PROVE  Heard(truth, result)
<1>1. PICK w \in Answers(op, truth) \cup Lost : result = Reported(ReadAnswer(op, w))
  BY DEF Results
<1>2. CASE w \in Foreign(op) \cup Lost
  BY <1>1, <1>2, NothingHeard DEF Heard
<1>3. CASE w \in Rendered(truth) \cup Damaged(truth) /\ truth.reason = "None"
  <2>1. ReadAnswer(op, w) \in {[said |-> truth.said, error |-> "None"],
                               Failure("ProtocolError")}
    BY <1>3, GrantRendered, GrantRead
  <2>2. CASE ReadAnswer(op, w) = [said |-> truth.said, error |-> "None"]
    <3>1. result = [said |-> truth.said, reason |-> "None"]
      BY <1>1, <2>2 DEF Reported
    <3>2. truth = [said |-> truth.said, reason |-> "None"]
      BY <1>3 DEF Truth
    <3> QED BY <1>3, <3>1, <3>2 DEF Heard
  <2>3. CASE ReadAnswer(op, w) = Failure("ProtocolError")
    BY <1>1, <2>3, FailureReported, ErrorsMapped DEF Heard
  <2> QED BY <2>1, <2>2, <2>3
<1>4. CASE w \in Rendered(truth) \cup Damaged(truth) /\ truth.reason # "None"
  <2>1. truth.reason \in Spoken \ {"None"} /\ Verdict(truth.reason) \in BrokerError
    BY <1>4, VerdictIsError DEF Truth
  <2>2. ReadAnswer(op, w) \in {Failure(Verdict(truth.reason)), Failure("ProtocolError")}
    BY <1>4, <2>1, RefusalRendered, RefusalRead
  <2>3. Verdict(truth.reason) # "None"
    BY <2>1 DEF BrokerError
  <2>4. CASE ReadAnswer(op, w) = Failure(Verdict(truth.reason))
    <3>1. result = [said |-> <<"refused">>, reason |-> MapBrokerError(Verdict(truth.reason))]
      BY <1>1, <2>3, <2>4, FailureReported
    <3> QED BY <1>4, <2>1, <3>1, ErrorsMapped DEF Heard
  <2>5. CASE ReadAnswer(op, w) = Failure("ProtocolError")
    BY <1>1, <2>5, FailureReported, ErrorsMapped DEF Heard
  <2> QED BY <2>2, <2>4, <2>5
<1> QED BY <1>1, <1>2, <1>3, <1>4 DEF Answers

-----------------------------------------------------------------------------
(***************************************************************************)
(* What the broker said stays so.                                          *)
(***************************************************************************)

\* No registration is under this handle.
Gone(d, h) == d.handles[h] = NoName

\* Handles stay issued, and one whose registration is gone stays so.
Ages(d, e) ==
  d.issued \subseteq e.issued /\ \A h \in d.issued : Gone(d, h) => Gone(e, h)

\* A handle is gone when no lease has it.
LEMMA GoneIsUnleased ==
  ASSUME NEW d, Sound(d), NEW h \in Handle
  PROVE  Gone(d, h) <=> \A l \in LeasesOf(d) : l.handle # h
<1>1. ASSUME Gone(d, h), NEW l \in LeasesOf(d), l.handle = h
      PROVE  FALSE
  <2>1. l.name \in Name /\ d.sessions[l.name].handle = h
    BY <1>1, LeaseFacts DEF LeaseAt
  <2>2. d.handles[h] = l.name
    BY <2>1 DEF Sound, Agree
  <2> QED BY <1>1, <2>1, <2>2, DirectoryAssumption DEF Gone
<1>2. ASSUME ~Gone(d, h)
      PROVE  \E l \in LeasesOf(d) : l.handle = h
  <2> DEFINE n == d.handles[h]
  <2>1. n \in Name /\ d.sessions[n].handle = h /\ IsListed(d, n)
    BY <1>2, HandleLeads DEF Gone
  <2>2. LeaseAt(d, n) \in LeasesOf(d) /\ LeaseAt(d, n).handle = h
    BY <2>1, LeaseFacts DEF LeaseAt
  <2> QED BY <2>2
<1> QED BY <1>1, <1>2

\* A step of the directory only grants handles never issued before.
LEMMA DirectoryAges ==
  ASSUME IInv, [DirectoryNext]_directoryVars
  PROVE  Ages(dir, dir')
<1> DEFINE old == LeasesOf(dir)
           new == LeasesOf(dir')
<1>1. Sound(dir) /\ Sound(dir') /\ [Leases!Next]_Leases!vars
  BY DirectoryStep DEF IInv, Sound, Agree, Real, IsListed
<1>2. dir.issued \subseteq Handle
  BY <1>1 DEF Sound, Directory
<1>3. /\ dir.issued \subseteq dir'.issued
      /\ \A l \in new : l.handle \notin dir.issued \/ \E k \in old : k.handle = l.handle
  <2>0. LeasesOf(dir)' = new
    BY DEF LeasesOf, IsListed
  <2>1. CASE Leases!Tick
    <3>1. new = {[l EXCEPT !.left = IF @ = 0 THEN 0 ELSE @ - 1] : l \in old}
          /\ dir'.issued = dir.issued
      BY <2>0, <2>1 DEF Leases!Tick
    <3>2. ASSUME NEW k \in old
          PROVE  [k EXCEPT !.left = IF @ = 0 THEN 0 ELSE @ - 1].handle = k.handle
      BY <1>1, LeaseFacts DEF LeaseAt
    <3> QED BY <3>1, <3>2
  <2>2. CASE Leases!Quiet \/ Leases!Refuse \/ UNCHANGED Leases!vars
    BY <2>0, <2>2 DEF Leases!Quiet, Leases!Refuse, Leases!vars
  <2>3. CASE \E l \in Leases!Lease : Leases!Grant(l)
    BY <2>0, <2>3 DEF Leases!Grant
  <2>4. CASE \E l \in Leases!Lease : Leases!Renew(l)
    <3>1. PICK l \in old : new = (old \ {l}) \cup {[l EXCEPT !.left = Ttl]}
                           /\ dir'.issued = dir.issued
      BY <2>0, <2>4 DEF Leases!Renew
    <3>2. [l EXCEPT !.left = Ttl].handle = l.handle
      BY <1>1, LeaseFacts DEF LeaseAt
    <3> QED BY <3>1, <3>2
  <2>5. CASE \E l \in Leases!Lease : Leases!Release(l) \/ Leases!Lapse(l)
    BY <2>0, <2>5 DEF Leases!Release, Leases!Lapse
  <2>6. CASE \E l \in Leases!Lease, build \in Build : Leases!Resolve(l, build)
    BY <2>0, <2>6 DEF Leases!Resolve
  <2> QED BY <1>1, <2>1, <2>2, <2>3, <2>4, <2>5, <2>6 DEF Leases!Next
<1> HIDE DEF old, new
<1>4. ASSUME NEW h \in dir.issued, Gone(dir, h)
      PROVE  Gone(dir', h)
  BY <1>1, <1>2, <1>3, <1>4, GoneIsUnleased DEF old, new
<1> QED BY <1>3, <1>4 DEF Ages

\* What a reply says of the directory: a granted handle was issued, and a registration
\* said to be gone is.
Stands(d, request, truth) ==
  /\ truth \in Truth
  /\ request.op = "register" =>
       \A h \in Handle : truth.said = <<"granted", h>> => h \in d.issued
  /\ request.op = "refresh" /\ truth.reason = "SessionClosed" => Gone(d, request.handle)
  /\ request.op = "unregister" /\ truth.reason \in {"None", "SessionClosed"}
       => Gone(d, request.handle)

\* A caller only asks about handles that were issued.
Owns(d, request) ==
  request.op \in {"refresh", "unregister"} => request.handle \in d.issued

\* What a reply says outlasts the steps of the directory.
LEMMA StandsLonger ==
  ASSUME NEW d, NEW e, NEW request, NEW truth, Ages(d, e), Owns(d, request),
         Stands(d, request, truth)
  PROVE  Stands(e, request, truth)
BY DEF Ages, Owns, Stands

\* The reply to a request says how the directory is left.
LEMMA PerformStands ==
  ASSUME NEW d, Sound(d), NEW request \in Request, Owns(d, request),
         NEW o \in Perform(d, request), o.reply \in Reply
  PROVE  Stands(o.dir, request, o.reply)
<1>1. o.reply \in Truth
  BY DEF Reply, Truth, Spoken
<1>2. d.issued \subseteq Handle /\ d.handles \in [Handle -> Name \cup {NoName}]
  BY DEF Sound, Directory
<1>3. CASE request.op = "register"
  <2>1. o \in RegisterHostedSession(d, request.registration)
    BY <1>3 DEF Perform
  <2>2. \/ o = Refused(d, "BootstrapFailed")
        \/ \E n \in Requested(d, request.registration), h \in Fresh(d) :
             o = Outcome(List(d, n, h, request.registration.build), <<"granted", h>>, "None")
    <3> DEFINE r == request.registration
    <3>1. CASE ~IsJoinable(r)
      BY <2>1, <3>1 DEF RegisterHostedSession
    <3>2. CASE IsJoinable(r)
      <4>1. o \in {Refused(d, "BootstrapFailed") :
                     n \in {n \in Requested(d, r) : IsListed(d, n)}}
                 \cup {Outcome(List(d, n, h, r.build), <<"granted", h>>, "None") :
                         n \in {n \in Requested(d, r) : ~IsListed(d, n)}, h \in Fresh(d)}
        BY <2>1, <3>2 DEF RegisterHostedSession
      <4> QED BY <4>1
    <3> QED BY <3>1, <3>2
  <2>3. \A h \in Handle : o.reply.said = <<"granted", h>> => h \in o.dir.issued
    BY <2>2 DEF Refused, Outcome, List
  <2> QED BY <1>1, <1>3, <2>3 DEF Stands
<1>4. CASE request.op = "lookup"
  BY <1>1, <1>4 DEF Stands
<1>5. CASE request.op = "refresh"
  <2> DEFINE h == request.handle
  <2>1. o = RefreshHostedSession(d, h) /\ h \in Handle /\ h # NoHandle
    BY <1>2, <1>5, DirectoryAssumption DEF Perform, Owns
  <2>2. CASE d.handles[h] = NoName
    BY <1>1, <1>5, <2>1, <2>2 DEF RefreshHostedSession, Refused, Outcome, Stands, Gone
  <2>3. CASE d.handles[h] # NoName /\ ~IsListed(d, d.handles[h])
    BY <2>1, <2>3, HandleLeads
  <2>4. CASE /\ d.handles[h] # NoName /\ IsListed(d, d.handles[h])
             /\ Expired(d, d.handles[h])
    <3>1. o.dir = Erase(d, d.handles[h], h)
      BY <2>1, <2>4 DEF RefreshHostedSession, Refused, Outcome
    <3>2. Gone(o.dir, h)
      BY <1>2, <2>1, <3>1 DEF Erase, Gone
    <3> QED BY <1>1, <1>5, <3>2 DEF Stands
  <2>5. CASE /\ d.handles[h] # NoName /\ IsListed(d, d.handles[h])
             /\ ~Expired(d, d.handles[h])
    BY <1>1, <1>5, <2>1, <2>5 DEF RefreshHostedSession, Outcome, Stands
  <2> QED BY <2>2, <2>3, <2>4, <2>5
<1>6. CASE request.op = "unregister"
  <2> DEFINE h == request.handle
  <2>1. o = UnregisterHostedSession(d, h) /\ h \in Handle /\ h # NoHandle
    BY <1>2, <1>6, DirectoryAssumption DEF Perform, Owns
  <2>2. CASE d.handles[h] = NoName
    BY <1>1, <1>6, <2>1, <2>2 DEF UnregisterHostedSession, Refused, Outcome, Stands, Gone
  <2>3. CASE d.handles[h] # NoName
    <3>1. o.dir = Erase(d, d.handles[h], h)
      BY <2>1, <2>3 DEF UnregisterHostedSession, Outcome
    <3>2. Gone(o.dir, h)
      BY <1>2, <2>1, <3>1 DEF Erase, Gone
    <3> QED BY <1>1, <1>6, <3>2 DEF Stands
  <2> QED BY <2>2, <2>3
<1> QED BY <1>3, <1>4, <1>5, <1>6 DEF Request

-----------------------------------------------------------------------------
(***************************************************************************)
(* What the callers know, and what they are told.                          *)
(***************************************************************************)

Holds(d, h) == h \in d.issued \cup {NoHandle}

\* Nothing was answered to a call under way, or the answer it will get still stands.
Waits(d, k) ==
  /\ k.stage # "idle" => Owns(d, k.request)
  /\ k.stage = "sent" => k.truth = Silence
  /\ k.stage = "served" => Stands(d, k.request, k.truth)

Informed == \A c \in Caller : Holds(dir, held[c]) /\ Waits(dir, call[c])

Configured == service \in [kind : Service, config : Config]

Entry == [said : Said, reason : DisconnectReason]

Told(d, r) ==
  /\ {r.truth, r.result} \subseteq Entry
  /\ r.result.reason = "None" => r.result = r.truth
  /\ r.truth.reason = "None" /\ r.truth # Silence
       => r.result.reason \in {"None", "Timeout", "TransportError", "ProtocolError"}
  /\ r.op = "refresh" /\ r.result.reason = "SessionClosed" => Gone(d, r.handle)
  /\ r.op = "unregister" /\ r.result.reason \in {"None", "SessionClosed"}
       => Gone(d, r.handle)

RInv == BInv /\ Configured /\ Informed /\ Told(dir, report)

\* What a call can come back with: its answer, or nothing at all.
Concludes(d, request, truth, result) ==
  \/ Stands(d, request, truth) /\ (result = truth \/ Heard(truth, result))
  \/ /\ truth = Silence
     /\ \E reason \in DisconnectReason \ {"None", "SessionClosed"} :
          result = [said |-> <<"refused">>, reason |-> reason]

\* What a caller may rely on outlasts the steps of the directory.
LEMMA KnowledgeLasts ==
  ASSUME NEW d, NEW e, Ages(d, e)
  PROVE  /\ \A h : Holds(d, h) => Holds(e, h)
         /\ \A request : Owns(d, request) => Owns(e, request)
         /\ \A k : Waits(d, k) => Waits(e, k)
<1>1. \A h : Holds(d, h) => Holds(e, h)
  BY DEF Ages, Holds
<1>2. \A request : Owns(d, request) => Owns(e, request)
  BY DEF Ages, Owns
<1>3. ASSUME NEW k, Waits(d, k)
      PROVE  Waits(e, k)
  BY <1>2, <1>3, StandsLonger DEF Waits
<1> QED BY <1>1, <1>2, <1>3

\* A caller asks about a handle it holds.
LEMMA RequestsOwn ==
  ASSUME Informed, NEW c \in Caller, NEW request \in Requests(c)
  PROVE  Owns(dir, request)
<1>1. held[c] \in dir.issued \cup {NoHandle}
  BY DEF Informed, Holds
<1>2. CASE \E j \in Joining[c] : request = [op |-> "lookup", name |-> j[1], build |-> j[2]]
  BY <1>2 DEF Owns
<1>3. CASE \E r \in Hosting[c] : request = [op |-> "register", registration |-> r]
  BY <1>3 DEF Owns
<1>4. CASE held[c] # NoHandle
             /\ \E o \in {"refresh", "unregister"} : request = [op |-> o, handle |-> held[c]]
  BY <1>1, <1>4 DEF Owns
<1> QED BY <1>2, <1>3, <1>4 DEF Requests

\* The handle a caller keeps after its call was issued.
LEMMA KnownIsIssued ==
  ASSUME NEW c \in Caller, NEW request, NEW truth, NEW result, NEW d, Holds(d, held[c]),
         Concludes(d, request, truth, result), NEW h \in Known(c, request, result)
  PROVE  Holds(d, h)
<1>1. CASE request.op = "register" /\ result.reason = "None"
  <2>1. h \in Handle /\ result.said = <<"granted", h>>
    BY <1>1 DEF Known
  <2>2. Stands(d, request, truth) /\ result = truth
    BY <1>1 DEF Concludes, Heard, Unheard
  <2> QED BY <1>1, <2>1, <2>2 DEF Stands, Holds
<1>2. CASE request.op = "unregister" /\ result.reason \in {"None", "SessionClosed"}
  BY <1>2 DEF Known, Holds
<1>3. CASE /\ ~(request.op = "register" /\ result.reason = "None")
           /\ ~(request.op = "unregister" /\ result.reason \in {"None", "SessionClosed"})
  BY <1>3 DEF Known
<1> QED BY <1>1, <1>2, <1>3

\* What the caller is told is true, and is no more than what it may be told.
LEMMA ReportTells ==
  ASSUME NEW d, NEW request, NEW truth \in Entry, NEW result, NEW r,
         r.op = request.op, r.truth = truth, r.result = result,
         request.op \in {"refresh", "unregister"} => r.handle = request.handle,
         Concludes(d, request, truth, result)
  PROVE  Told(d, r)
<1>1. CASE Stands(d, request, truth) /\ result = truth
  BY <1>1 DEF Told, Stands
<1>2. CASE /\ Stands(d, request, truth) /\ truth.reason # "None"
           /\ result = [said |-> <<"refused">>, reason |-> truth.reason]
  <2>1. result \in Entry /\ result.reason = truth.reason
    BY <1>2 DEF Entry, Said
  <2> QED BY <1>2, <2>1 DEF Told, Stands
<1>3. CASE \E reason \in Unheard : result = [said |-> <<"refused">>, reason |-> reason]
  <2>1. result \in Entry /\ result.reason \in {"Timeout", "TransportError", "ProtocolError"}
    BY <1>3 DEF Entry, Said, DisconnectReason, Unheard
  <2> QED BY <2>1 DEF Told
<1>4. CASE truth = Silence /\ \E reason \in DisconnectReason \ {"None", "SessionClosed"} :
             result = [said |-> <<"refused">>, reason |-> reason]
  <2>1. result \in Entry /\ result.reason \notin {"None", "SessionClosed"}
    BY <1>4 DEF Entry, Said
  <2> QED BY <1>4, <2>1 DEF Told
<1> QED BY <1>1, <1>2, <1>3, <1>4 DEF Concludes, Heard

\* Returning from a call keeps every caller informed and reports the truth.
LEMMA ReturnTells ==
  ASSUME BInv, Informed, Ages(dir, dir'), NEW c \in Caller, NEW request, NEW truth \in Entry,
         NEW result, Return(c, request, truth, result),
         Concludes(dir', request, truth, result)
  PROVE  Informed' /\ Told(dir', report')
<1>1. PICK h \in Known(c, request, result) : held' = [held EXCEPT ![c] = h]
  BY DEF Return
<1>2. call' = [call EXCEPT ![c] = IdleCall]
  BY DEF Return
<1>3. \A b \in Caller : Holds(dir', held[b]) /\ Waits(dir', call[b])
  BY KnowledgeLasts DEF Informed
<1>4. Holds(dir', h)
  BY <1>3, KnownIsIssued
<1>5. Waits(dir', IdleCall)
  BY DEF Waits, IdleCall
<1>6. ASSUME NEW b \in Caller
      PROVE  Holds(dir', held'[b]) /\ Waits(dir', call'[b])
  <2>1. CASE b = c
    <3>1. held'[b] = h /\ call'[b] = IdleCall
      BY <1>1, <1>2, <2>1 DEF BInv, Asked
    <3> QED BY <1>4, <1>5, <3>1
  <2>2. CASE b # c
    <3>1. held'[b] = held[b] /\ call'[b] = call[b]
      BY <1>1, <1>2, <2>2 DEF BInv, Asked
    <3> QED BY <1>3, <3>1
  <2> QED BY <2>1, <2>2
<1>7. Informed'
  BY <1>6 DEF Informed, Holds, Waits, Owns, Stands, Gone
<1>8. Told(dir', report')
  <2>1. /\ report'.op = request.op /\ report'.truth = truth /\ report'.result = result
        /\ request.op \in {"refresh", "unregister"} => report'.handle = request.handle
    BY DEF Return
  <2> QED BY <2>1, ReportTells
<1> QED BY <1>7, <1>8

-----------------------------------------------------------------------------
\* What every step of the composition does to the directory.
LEMMA MapsAge ==
  ASSUME BInv, [Next]_vars
  PROVE  BInv' /\ Ages(dir, dir')
<1>1. BInv' /\ [DirectoryNext]_directoryVars
  BY BrokerStep
<1> QED BY <1>1, DirectoryAges DEF BInv

\* A caller that is told nothing new has nothing to doubt.
LEMMA NothingTold ==
  Told(dir', NoReport)
BY DEF Told, NoReport, Entry, Silence, Said, DisconnectReason, Reason

\* A call answered in the process reports the directory's own reply.
LEMMA CallLocalTells ==
  ASSUME RInv, Ages(dir, dir'), BInv', NEW c \in Caller, CallLocal(c)
  PROVE  Informed' /\ Told(dir', report')
<1>1. PICK request \in Requests(c) : \E o \in Perform(dir, request) :
        Answer(o) /\ Return(c, request, o.reply, o.reply)
  BY DEF CallLocal
<1>2. PICK o \in Perform(dir, request) : Answer(o) /\ Return(c, request, o.reply, o.reply)
  BY <1>1
<1>3. request \in Request /\ Owns(dir, request) /\ Sound(dir)
  BY RequestsAreTyped, RequestsOwn DEF RInv, BInv, IInv
<1>4. o.reply \in Reply /\ dir' = o.dir
  BY <1>2 DEF Answer, BInv, IInv
<1>5. Stands(dir', request, o.reply)
  BY <1>2, <1>3, <1>4, PerformStands
<1>6. o.reply \in Entry
  BY <1>4 DEF Reply, Entry, DisconnectReason
<1> QED BY <1>2, <1>5, <1>6, ReturnTells DEF Concludes, RInv

\* A call refused before it is sent claims nothing of the directory.
LEMMA CallRefusedTells ==
  ASSUME RInv, Ages(dir, dir'), NEW c \in Caller, CallRefused(c)
  PROVE  Informed' /\ Told(dir', report')
<1> DEFINE error == ValidateTransportSecurityState(GetSecurityState(service.config))
<1>1. PICK request \in Requests(c), reason \in DisconnectReason :
        /\ \/ reason = "BootstrapFailed"
           \/ error # "None" /\ reason = MapBrokerError(error)
        /\ Return(c, request, Silence, [said |-> <<"refused">>, reason |-> reason])
  BY DEF CallRefused
<1>2. error \in {"None", "Unauthorized", "ProtocolError"}
  BY DEF ValidateTransportSecurityState
<1> HIDE DEF error
<1>3. reason \notin {"None", "SessionClosed"}
  BY <1>1, <1>2 DEF MapBrokerError
<1>4. Silence \in Entry
  BY DEF Silence, Entry, Said, DisconnectReason, Reason
<1> QED BY <1>1, <1>3, <1>4, ReturnTells DEF Concludes, RInv

\* One caller's call moves on; the others and their calls are as before.
LEMMA CallMoves ==
  ASSUME BInv, Informed, Ages(dir, dir'), NEW c \in Caller, NEW k, Waits(dir', k),
         call' = [call EXCEPT ![c] = k],
         NEW h, Holds(dir', h), held' = [held EXCEPT ![c] = h]
  PROVE  Informed'
<1>1. \A b \in Caller : Holds(dir', held[b]) /\ Waits(dir', call[b])
  BY KnowledgeLasts DEF Informed
<1>2. ASSUME NEW b \in Caller
      PROVE  Holds(dir', held'[b]) /\ Waits(dir', call'[b])
  <2>1. CASE b = c
    BY <2>1 DEF BInv, Asked
  <2>2. CASE b # c
    <3>1. held'[b] = held[b] /\ call'[b] = call[b]
      BY <2>2 DEF BInv, Asked
    <3> QED BY <1>1, <3>1
  <2> QED BY <2>1, <2>2
<1> QED BY <1>2 DEF Informed, Holds, Waits, Owns, Stands, Gone

\* A call on its way has been answered by nobody.
LEMMA SendTells ==
  ASSUME RInv, Ages(dir, dir'), NEW c \in Caller, Send(c)
  PROVE  Informed' /\ Told(dir', report')
<1>1. PICK request \in Requests(c) :
        call' = [call EXCEPT ![c] = [stage |-> "sent", request |-> request,
                                     truth |-> Silence]]
  BY DEF Send
<1>2. Owns(dir', request)
  BY RequestsOwn, KnowledgeLasts DEF RInv
<1>3. Waits(dir', [stage |-> "sent", request |-> request, truth |-> Silence])
  BY <1>2 DEF Waits
<1>4. Holds(dir', held[c]) /\ held' = [held EXCEPT ![c] = held[c]]
  BY KnowledgeLasts DEF RInv, Informed, Send, BInv, Asked
<1>5. Informed'
  BY <1>1, <1>3, <1>4, CallMoves DEF RInv
<1> QED BY <1>5, NothingTold DEF Send

\* What the broker answers stands when it answers.
LEMMA ServeTells ==
  ASSUME RInv, Ages(dir, dir'), BInv', NEW c \in Caller, Serve(c)
  PROVE  Informed' /\ Told(dir', report')
<1> DEFINE request == call[c].request
<1>1. call[c].stage # "idle" /\ request \in Request /\ Owns(dir, request) /\ Sound(dir)
  BY DEF Serve, RInv, BInv, IInv, Asked, Informed, Waits
<1>2. ASSUME NEW truth, Stands(dir', request, truth), Served(c, truth)
      PROVE  Informed' /\ Told(dir', report')
  <2>1. Owns(dir', request)
    BY <1>1, KnowledgeLasts
  <2>2. Waits(dir', [stage |-> "served", request |-> request, truth |-> truth])
    BY <1>2, <2>1 DEF Waits
  <2>3. Holds(dir', held[c]) /\ held' = [held EXCEPT ![c] = held[c]]
    BY KnowledgeLasts DEF RInv, Informed, Serve, BInv, Asked
  <2>4. Informed'
    BY <1>2, <2>2, <2>3, CallMoves DEF RInv, Served
  <2> QED BY <2>4, NothingTold DEF Serve
<1>3. CASE \E o \in Perform(dir, request) : Answer(o) /\ Served(c, o.reply)
  <2>1. PICK o \in Perform(dir, request) : Answer(o) /\ Served(c, o.reply)
    BY <1>3
  <2>2. o.reply \in Reply /\ dir' = o.dir
    BY <2>1 DEF Answer, BInv, IInv
  <2>3. Stands(dir', request, o.reply)
    BY <1>1, <2>1, <2>2, PerformStands
  <2> QED BY <1>2, <2>1, <2>3
<1>4. CASE \E reason \in {"RateLimited", "TransportError"} :
             Served(c, [said |-> <<"refused">>, reason |-> reason]) /\ NoCall
  <2>1. PICK reason \in {"RateLimited", "TransportError"} :
          Served(c, [said |-> <<"refused">>, reason |-> reason])
    BY <1>4
  <2>2. Stands(dir', request, [said |-> <<"refused">>, reason |-> reason])
    BY DEF Stands, Truth, Said, Spoken
  <2> QED BY <1>2, <2>1, <2>2
<1> QED BY <1>3, <1>4 DEF Serve

\* What the broker answered still stands when the call returns.
LEMMA CompleteTells ==
  ASSUME RInv, Ages(dir, dir'), NEW c \in Caller, Complete(c)
  PROVE  Informed' /\ Told(dir', report')
<1> DEFINE request == call[c].request
           truth == call[c].truth
<1>1. /\ call[c].stage \in {"sent", "served"} /\ request.op \in Operation
      /\ truth \in Entry /\ Waits(dir', call[c])
  <2>1. request \in Request /\ truth \in Entry
    BY DEF Complete, RInv, BInv, Asked, Entry
  <2>2. Waits(dir', call[c])
    BY KnowledgeLasts DEF RInv, Informed
  <2> QED BY <2>1, <2>2 DEF Complete, Request, Operation
<1>2. CASE call[c].stage = "sent"
  <2>1. PICK result \in Results(request.op, Foreign(request.op) \cup Lost) :
          Return(c, request, truth, result)
    BY <1>2 DEF Complete
  <2>2. PICK reason \in Unheard : result = [said |-> <<"refused">>, reason |-> reason]
    BY <1>1, <2>1, NothingHeard DEF Results
  <2>3. truth = Silence
    BY <1>1, <1>2 DEF Waits
  <2>4. Concludes(dir', request, truth, result)
    BY <2>2, <2>3 DEF Concludes, Unheard, DisconnectReason
  <2> QED BY <1>1, <2>1, <2>4, ReturnTells DEF RInv
<1>3. CASE call[c].stage = "served"
  <2>1. PICK result \in Results(request.op, Answers(request.op, truth) \cup Lost) :
          Return(c, request, truth, result)
    BY <1>3 DEF Complete
  <2>2. Stands(dir', request, truth) /\ truth \in Truth
    BY <1>1, <1>3 DEF Waits, Stands
  <2>3. Heard(truth, result)
    BY <1>1, <2>1, <2>2, AnswerHeard
  <2>4. Concludes(dir', request, truth, result)
    BY <2>2, <2>3 DEF Concludes
  <2> QED BY <1>1, <2>1, <2>4, ReturnTells DEF RInv
<1> QED BY <1>1, <1>2, <1>3

\* A caller that ended forgets its handle and its call.
LEMMA CrashTells ==
  ASSUME RInv, Ages(dir, dir'), NEW c \in Caller, Crash(c)
  PROVE  Informed' /\ Told(dir', report')
<1>1. Waits(dir', IdleCall) /\ Holds(dir', NoHandle)
  BY DEF Waits, IdleCall, Holds
<1>2. Informed'
  BY <1>1, CallMoves DEF RInv, Crash
<1> QED BY <1>2, NothingTold DEF Crash

\* Steps in which no caller moves.
LEMMA OthersTell ==
  ASSUME RInv, Ages(dir, dir'), UNCHANGED <<call, held>>
  PROVE  Informed'
<1>1. \A c \in Caller : Holds(dir', held[c]) /\ Waits(dir', call[c])
  BY KnowledgeLasts DEF RInv, Informed
<1> QED BY <1>1 DEF Informed, Holds, Waits, Owns, Stands, Gone

\* One step of the composition.
LEMMA ReplyStep ==
  ASSUME RInv, [Next]_vars
  PROVE  RInv'
<1>1. BInv' /\ Ages(dir, dir')
  BY MapsAge DEF RInv
<1>2. Configured'
  BY DEF Next, vars, RInv, Configured, CallLocal, CallRefused, Send, Serve, Complete, Crash,
         LateArrives, TimePasses
<1>3. CASE \E c \in Caller : CallLocal(c) \/ CallRefused(c) \/ Send(c) \/ Serve(c)
                               \/ Complete(c) \/ Crash(c)
  <2>1. Informed' /\ Told(dir', report')
    BY <1>1, <1>3, CallLocalTells, CallRefusedTells, SendTells, ServeTells, CompleteTells,
       CrashTells
  <2> QED BY <1>1, <1>2, <2>1 DEF RInv, Told, Gone
<1>4. CASE LateArrives \/ TimePasses
  <2>1. Informed' /\ report' = NoReport
    BY <1>1, <1>4, OthersTell DEF LateArrives, TimePasses
  <2>2. Told(dir', report')
    BY <2>1, NothingTold
  <2> QED BY <1>1, <1>2, <2>1, <2>2 DEF RInv, Told, Gone
<1>5. CASE UNCHANGED vars
  <2>1. Informed'
    BY <1>1, <1>5, OthersTell DEF vars
  <2>2. Told(dir', report')
    BY <1>5 DEF vars, RInv
  <2> QED BY <1>1, <1>2, <2>1, <2>2 DEF RInv, Told, Gone
<1> QED BY <1>3, <1>4, <1>5 DEF Next

\* The invariant from which the properties of the replies follow.
LEMMA ReplyInvariant == Spec => []RInv
<1>1. Init => RInv
  <2> SUFFICES ASSUME Init
               PROVE  RInv
    OBVIOUS
  <2>1. BInv /\ Configured
    BY BrokerInitially DEF Init, Configured
  <2>2. Informed
    BY DEF Init, Informed, Holds, Waits, IdleCall
  <2>3. Told(dir, report)
    BY DEF Init, Told, NoReport, Entry, Silence, Said, DisconnectReason, Reason
  <2> QED BY <2>1, <2>2, <2>3 DEF RInv
<1>2. RInv /\ [Next]_vars => RInv'
  BY ReplyStep
<1> QED BY <1>1, <1>2, PTL DEF Spec

-----------------------------------------------------------------------------
(***************************************************************************)
(* Whatever comes back from the network, the callers, the calls under way  *)
(* and the last report keep their types.                                   *)
(***************************************************************************)
THEOREM BrokerTypeCorrect == Spec => []TypeOK
<1>1. RInv => TypeOK
  <2> SUFFICES ASSUME RInv
               PROVE  TypeOK
    OBVIOUS
  <2>1. DirectoryTypeOK
    BY DEF RInv, BInv, IInv, Sound, DirectoryTypeOK
  <2>2. service \in [kind : Service, config : BrokerConfig]
    BY BrokerAssumption DEF RInv, Configured
  <2>3. /\ held \in [Caller -> Handle \cup {NoHandle}] /\ late \in Request \cup {Nothing}
        /\ \A c \in Caller :
             /\ call[c].stage \in {"idle", "sent", "served"}
             /\ call[c].stage # "idle" => call[c].request \in Request
             /\ call[c].truth \in [said : Said, reason : DisconnectReason]
    BY DEF RInv, BInv, Asked
  <2>4. {report.truth, report.result} \subseteq [said : Said, reason : DisconnectReason]
    BY DEF RInv, Told, Entry
  <2> QED BY <2>1, <2>2, <2>3, <2>4 DEF TypeOK
<1> QED BY <1>1, ReplyInvariant, PTL

(***************************************************************************)
(* Whatever is lost, damaged or mistaken for an answer, a call that a      *)
(* caller sees succeed is one the directory answered with that success.    *)
(***************************************************************************)
THEOREM SuccessesAreTrue == Spec => []SuccessIsTrue
<1>1. RInv => SuccessIsTrue
  BY DEF RInv, Told, SuccessIsTrue
<1> QED BY <1>1, ReplyInvariant, PTL

(***************************************************************************)
(* A call the directory obeyed never comes back as a refusal: it succeeds, *)
(* or it fails in one of the ways after which the caller must allow for    *)
(* having been obeyed.                                                     *)
(***************************************************************************)
THEOREM ObeyedCallsAreNeverRefused == Spec => []OnlyLostRepliesHide
<1>1. RInv => OnlyLostRepliesHide
  BY DEF RInv, Told, OnlyLostRepliesHide
<1> QED BY <1>1, ReplyInvariant, PTL

(***************************************************************************)
(* A host told that its registration is gone may forget its handle: no     *)
(* other caller, no late request and no expiry brings the registration     *)
(* back between the answer and the return of the call.                     *)
(***************************************************************************)
THEOREM GoneRegistrationsStayGone == Spec => []GoneIsTrue
<1>1. RInv => GoneIsTrue
  BY DEF RInv, Told, GoneIsTrue, Gone
<1> QED BY <1>1, ReplyInvariant, PTL

(***************************************************************************)
(* Every configuration with which the service is built is one whose        *)
(* transport the client trusts with its calls.                             *)
(***************************************************************************)
THEOREM BuiltServicesAreTrusted == Spec => []BuiltServiceIsTrusted
<1>1. ASSUME NEW config, ValidateSessionDirectoryBrokerConfig(config)
      PROVE  ValidateTransportSecurityState(GetSecurityState(config)) = "None"
  <2> DEFINE security == GetSecurityState(config)
  <2>1. /\ security.authenticatedBroker
        /\ security.secureChannel \/ security.allowInsecureLocalDevelopment
        /\ security.secureChannel => security.hostnameValidated
    BY <1>1 DEF ValidateSessionDirectoryBrokerConfig, GetSecurityState
  <2> HIDE DEF security
  <2>2. ValidateTransportSecurityState(security) = "None"
    BY <2>1 DEF ValidateTransportSecurityState
  <2> QED BY <2>2 DEF security
<1>2. BuiltServiceIsTrusted
  BY <1>1 DEF BuiltServiceIsTrusted, IsBuilt
<1> QED BY <1>2, PTL

-----------------------------------------------------------------------------
(***************************************************************************)
(* What SessionManager assumes of a directory behind the network: as of    *)
(* one in its process, but that the reply to a call may be lost.           *)
(***************************************************************************)
Remote == INSTANCE DirectoryAnswers
            WITH DirectoryError <- DisconnectReason \ {"None"}, ReplyCanBeLost <- TRUE

Refusal(reason) == [said |-> <<"refused">>, reason |-> reason]

\* Serve: the broker obeys, or is too busy.
Serving(d, request) ==
  {[dir |-> o.dir, truth |-> o.reply] : o \in Perform(d, request)}
    \cup {[dir |-> d, truth |-> Refusal(busy)] : busy \in {"RateLimited", "TransportError"}}

\* Serve and then Complete, Complete alone, or CallRefused: what a call does to the directory
\* and what its caller is told.
RemoteOutcomes(d, request) ==
  (UNION {{[dir |-> s.dir, reply |-> r] :
             r \in Results(request.op, Answers(request.op, s.truth) \cup Lost)} :
            s \in Serving(d, request)})
    \cup {[dir |-> d, reply |-> r] : r \in Results(request.op, Foreign(request.op) \cup Lost)}
    \cup {[dir |-> d, reply |-> Refusal(e)] :
             e \in {"BootstrapFailed", "AuthRejected", "ProtocolError"}}

RemoteAnswersAsAssumed ==
  /\ \A r \in Registration :
       \A o \in RemoteOutcomes(dir, [op |-> "register", registration |-> r]) :
         AsRegistered(o) \in Remote!DirectoryRegister(Fresh(dir), Listing(dir))
  /\ \A h \in Handle : \A o \in RemoteOutcomes(dir, [op |-> "unregister", handle |-> h]) :
       AsReleased(o) \in Remote!DirectoryRelease(h, Listing(dir))
  /\ \A h \in Handle : \A o \in RemoteOutcomes(dir, [op |-> "refresh", handle |-> h]) :
       /\ Replied(o.reply) \in Remote!DirectoryRefresh(h, Listing(o.dir))
       /\ Listing(o.dir) \in {Listing(dir), Listing(dir) \ {h}}

\* A failure that says nothing of the registration.
Passing == DisconnectReason \ {"None", "SessionClosed"}

LEMMA PassingFacts ==
  /\ Unheard \subseteq Passing /\ "RateLimited" \in Passing
  /\ {"BootstrapFailed", "AuthRejected", "ProtocolError"} \subseteq Passing
  /\ Passing \subseteq DisconnectReason \ {"None"}
  /\ Remote!LostReply = Unheard
  /\ "SessionClosed" \in DisconnectReason \ {"None"}
BY DEF Passing, Unheard, DisconnectReason, Reason, Remote!LostReply

\* A call was obeyed and its caller heard what was said, or it was not and its caller is told so.
LEMMA RemoteCases ==
  ASSUME NEW d, NEW request, request.op \in Operation,
         \A p \in Perform(d, request) : p.reply \in Truth,
         NEW o \in RemoteOutcomes(d, request)
  PROVE  \/ \E p \in Perform(d, request) : o.dir = p.dir /\ Heard(p.reply, o.reply)
         \/ o.dir = d /\ \E e \in Passing : o.reply = Refusal(e)
<1> DEFINE op == request.op
<1>1. CASE \E s \in Serving(d, request) :
             \E r \in Results(op, Answers(op, s.truth) \cup Lost) : o = [dir |-> s.dir, reply |-> r]
  <2>1. PICK s \in Serving(d, request) :
          \E r \in Results(op, Answers(op, s.truth) \cup Lost) : o = [dir |-> s.dir, reply |-> r]
    BY <1>1
  <2>2. PICK r \in Results(op, Answers(op, s.truth) \cup Lost) : o = [dir |-> s.dir, reply |-> r]
    BY <2>1
  <2>0. o.dir = s.dir /\ o.reply = r
    BY <2>2
  <2>3. CASE \E p \in Perform(d, request) : s = [dir |-> p.dir, truth |-> p.reply]
    <3>1. PICK p \in Perform(d, request) : s = [dir |-> p.dir, truth |-> p.reply]
      BY <2>3
    <3>2. s.dir = p.dir /\ s.truth = p.reply /\ s.truth \in Truth
      BY <3>1
    <3>3. Heard(s.truth, r)
      BY <3>2, AnswerHeard
    <3> QED BY <2>0, <3>1, <3>2, <3>3
  <2>4. CASE \E busy \in {"RateLimited", "TransportError"} : s = [dir |-> d, truth |-> Refusal(busy)]
    <3>1. PICK busy \in {"RateLimited", "TransportError"} : s = [dir |-> d, truth |-> Refusal(busy)]
      BY <2>4
    <3>2. s.dir = d /\ s.truth = Refusal(busy)
      BY <3>1
    <3>3. s.truth \in Truth
      BY <3>2 DEF Refusal, Truth, Said, Spoken
    <3>4. Heard(s.truth, r)
      BY <3>3, AnswerHeard
    <3>5. s.truth.reason = busy /\ busy # "None" /\ busy \in Passing
      BY <3>2, PassingFacts DEF Refusal, Unheard
    <3>6. \E e \in Passing : r = Refusal(e)
      BY <3>4, <3>5, PassingFacts DEF Heard, Refusal
    <3> QED BY <2>0, <3>2, <3>6
  <2> QED BY <2>1, <2>3, <2>4 DEF Serving
<1>2. CASE \E r \in Results(op, Foreign(op) \cup Lost) : o = [dir |-> d, reply |-> r]
  <2>1. PICK r \in Results(op, Foreign(op) \cup Lost) : o = [dir |-> d, reply |-> r]
    BY <1>2
  <2>2. PICK w \in Foreign(op) \cup Lost : r = Reported(ReadAnswer(op, w))
    BY DEF Results
  <2>3. \E e \in Unheard : r = Refusal(e)
    BY <2>2, NothingHeard DEF Refusal
  <2> QED BY <2>1, <2>3, PassingFacts
<1>3. CASE \E e \in {"BootstrapFailed", "AuthRejected", "ProtocolError"} :
             o = [dir |-> d, reply |-> Refusal(e)]
  BY <1>3, PassingFacts
<1> QED
  <2> DEFINE Heeded(s) ==
               {[dir |-> s.dir, reply |-> r] : r \in Results(op, Answers(op, s.truth) \cup Lost)}
             unheeded == {[dir |-> d, reply |-> r] : r \in Results(op, Foreign(op) \cup Lost)}
             unsent == {[dir |-> d, reply |-> Refusal(e)] :
                          e \in {"BootstrapFailed", "AuthRejected", "ProtocolError"}}
  <2>1. RemoteOutcomes(d, request)
          = (UNION {Heeded(s) : s \in Serving(d, request)}) \cup unheeded \cup unsent
    BY DEF RemoteOutcomes
  <2>2. o \in unheeded => \E r \in Results(op, Foreign(op) \cup Lost) : o = [dir |-> d, reply |-> r]
    OBVIOUS
  <2>3. o \in unsent => \E e \in {"BootstrapFailed", "AuthRejected", "ProtocolError"} :
                          o = [dir |-> d, reply |-> Refusal(e)]
    OBVIOUS
  <2>4. \A s : o \in Heeded(s) =>
                \E r \in Results(op, Answers(op, s.truth) \cup Lost) : o = [dir |-> s.dir, reply |-> r]
    OBVIOUS
  <2> HIDE DEF Heeded, unheeded, unsent
  <2>5. \/ \E s \in Serving(d, request) : o \in Heeded(s)
        \/ o \in unheeded
        \/ o \in unsent
    BY <2>1
  <2> QED BY <1>1, <1>2, <1>3, <2>2, <2>3, <2>4, <2>5

\* What Heard comes to, for a call that was granted and for one that was refused.
LEMMA HeardCases ==
  ASSUME NEW truth, NEW reply, Heard(truth, reply)
  PROVE  \/ truth.reason = "None" /\ reply = truth
         \/ truth.reason # "None" /\ reply = Refusal(truth.reason)
         \/ \E e \in Unheard : reply = Refusal(e)
BY DEF Heard, Refusal

LEMMA RefusalReplied ==
  ASSUME NEW e, e # "None"
  PROVE  Replied(Refusal(e)) = e /\ Granted(Refusal(e)) = NoHandle
BY DEF Replied, Granted, Refusal

LEMMA RegisterForms ==
  ASSUME NEW fresh, NEW listed
  PROVE  /\ \A h \in fresh : [reply |-> "ok", handle |-> h, listed |-> listed \cup {h}]
                              \in Remote!DirectoryRegister(fresh, listed)
         /\ \A e \in Unheard, h \in fresh :
              [reply |-> e, handle |-> NoHandle, listed |-> listed \cup {h}]
                \in Remote!DirectoryRegister(fresh, listed)
         /\ \A e \in DisconnectReason \ {"None"} :
              [reply |-> e, handle |-> NoHandle, listed |-> listed]
                \in Remote!DirectoryRegister(fresh, listed)
<1> DEFINE granted == {[reply |-> "ok", handle |-> h, listed |-> listed \cup {h}] : h \in fresh}
           Lose(e, h) == [reply |-> e, handle |-> NoHandle, listed |-> listed \cup {h}]
           unheard == {Lose(e, h) : e \in Unheard, h \in fresh}
           failed == {[reply |-> e, handle |-> NoHandle, listed |-> listed] :
                        e \in DisconnectReason \ {"None"}}
<1>1. Remote!DirectoryRegister(fresh, listed) = (granted \cup unheard) \cup failed
  <2>1. Remote!LostReply = Unheard
    BY PassingFacts
  <2> QED BY <2>1 DEF Remote!DirectoryRegister
<1>2. \A h \in fresh : [reply |-> "ok", handle |-> h, listed |-> listed \cup {h}] \in granted
  OBVIOUS
<1>3. \A e \in Unheard, h \in fresh : Lose(e, h) \in unheard
  <2> HIDE DEF Lose
  <2> QED BY DEF unheard
<1>4. \A e \in DisconnectReason \ {"None"} :
        [reply |-> e, handle |-> NoHandle, listed |-> listed] \in failed
  OBVIOUS
<1> HIDE DEF granted, unheard, failed
<1> QED BY <1>1, <1>2, <1>3, <1>4

LEMMA RemoteRegister ==
  ASSUME NEW d, Sound(d), NEW r \in Registration,
         NEW o \in RemoteOutcomes(d, [op |-> "register", registration |-> r])
  PROVE  AsRegistered(o) \in Remote!DirectoryRegister(Fresh(d), Listing(d))
<1> DEFINE request == [op |-> "register", registration |-> r]
           allowed == Remote!DirectoryRegister(Fresh(d), Listing(d))
<1>1. request.op = "register" /\ request.registration = r
  OBVIOUS
<1>2. Perform(d, request) = RegisterHostedSession(d, r)
  BY <1>1 DEF Perform
<1> HIDE DEF request, allowed
<1>3. ASSUME NEW p \in RegisterHostedSession(d, r)
      PROVE  p.reply \in Truth
  <2>1. "BootstrapFailed" \in Spoken /\ "None" \in Spoken /\ Fresh(d) \subseteq Handle
    BY DEF Spoken, Reason, Fresh
  <2>2. CASE p.reply = [said |-> <<"refused">>, reason |-> "BootstrapFailed"]
    BY <2>1, <2>2 DEF Truth, Said
  <2>3. ASSUME NEW h \in Fresh(d), p.reply = [said |-> <<"granted", h>>, reason |-> "None"]
        PROVE  p.reply \in Truth
    <3>1. <<"granted", h>> \in Said
      BY <2>1 DEF Said
    <3> QED BY <2>1, <2>3, <3>1 DEF Truth
  <2>4. \/ p.reply = [said |-> <<"refused">>, reason |-> "BootstrapFailed"]
        \/ \E h \in Fresh(d) : p.reply = [said |-> <<"granted", h>>, reason |-> "None"]
    BY RegisterAnswers
  <2> QED BY <2>2, <2>3, <2>4
<1>4. ASSUME NEW e \in DisconnectReason \ {"None"}, o.reply = Refusal(e),
             Listing(o.dir) = Listing(d)
      PROVE  AsRegistered(o) \in allowed
  <2>1. Replied(o.reply) = e /\ Granted(o.reply) = NoHandle
    BY <1>4, RefusalReplied
  <2>2. AsRegistered(o) = [reply |-> e, handle |-> NoHandle, listed |-> Listing(d)]
    BY <1>4, <2>1, Zenon DEF AsRegistered
  <2>3. [reply |-> e, handle |-> NoHandle, listed |-> Listing(d)] \in allowed
    BY RegisterForms, Zenon DEF allowed
  <2> QED BY <2>2, <2>3, Zenon
<1>5. ASSUME NEW p \in RegisterHostedSession(d, r), o.dir = p.dir, Heard(p.reply, o.reply)
      PROVE  AsRegistered(o) \in allowed
  <2>1. CASE p.dir = d /\ p.reply = [said |-> <<"refused">>, reason |-> "BootstrapFailed"]
    <3>1. p.reply.reason = "BootstrapFailed" /\ Listing(o.dir) = Listing(d)
      BY <1>5, <2>1
    <3>2. \E e \in DisconnectReason \ {"None"} : o.reply = Refusal(e)
      BY <1>5, <3>1, HeardCases, PassingFacts
    <3> QED BY <1>4, <3>1, <3>2
  <2>2. ASSUME NEW h \in Fresh(d), Listing(p.dir) = Listing(d) \cup {h},
               p.reply = [said |-> <<"granted", h>>, reason |-> "None"]
        PROVE  AsRegistered(o) \in allowed
    <3>1. p.reply.reason = "None" /\ Listing(o.dir) = Listing(d) \cup {h}
      BY <1>5, <2>2
    <3>2. CASE o.reply = p.reply
      <4>1. Replied(o.reply) = "ok" /\ Granted(o.reply) = h
        BY <2>2, <3>2 DEF Replied, Granted
      <4>2. AsRegistered(o) = [reply |-> "ok", handle |-> h, listed |-> Listing(d) \cup {h}]
        BY <3>1, <4>1, Zenon DEF AsRegistered
      <4>3. [reply |-> "ok", handle |-> h, listed |-> Listing(d) \cup {h}] \in allowed
        BY RegisterForms, Zenon DEF allowed
      <4> QED BY <4>2, <4>3, Zenon
    <3>3. ASSUME NEW e \in Unheard, o.reply = Refusal(e)
          PROVE  AsRegistered(o) \in allowed
      <4>1. e # "None"
        BY PassingFacts
      <4>2. Replied(o.reply) = e /\ Granted(o.reply) = NoHandle
        BY <3>3, <4>1, RefusalReplied
      <4>3. AsRegistered(o) = [reply |-> e, handle |-> NoHandle, listed |-> Listing(d) \cup {h}]
        BY <3>1, <4>2, Zenon DEF AsRegistered
      <4>4. [reply |-> e, handle |-> NoHandle, listed |-> Listing(d) \cup {h}] \in allowed
        BY RegisterForms, Zenon DEF allowed
      <4> QED BY <4>3, <4>4, Zenon
    <3> QED BY <1>5, <3>1, <3>2, <3>3, HeardCases
  <2> QED BY <2>1, <2>2, RegisterAnswers
<1>6. ASSUME o.dir = d, \E e \in Passing : o.reply = Refusal(e)
      PROVE  AsRegistered(o) \in allowed
  <2>1. PICK e \in Passing : o.reply = Refusal(e)
    BY <1>6
  <2>2. e \in DisconnectReason \ {"None"} /\ Listing(o.dir) = Listing(d)
    BY <1>6, PassingFacts
  <2> QED BY <1>4, <2>1, <2>2
<1> QED
  <2>1. request.op \in Operation /\ o \in RemoteOutcomes(d, request)
    BY <1>1 DEF Operation, request
  <2>2. \A q \in Perform(d, request) : q.reply \in Truth
    BY <1>2, <1>3
  <2>3. \/ \E q \in Perform(d, request) : o.dir = q.dir /\ Heard(q.reply, o.reply)
        \/ o.dir = d /\ \E e \in Passing : o.reply = Refusal(e)
    BY <2>1, <2>2, RemoteCases
  <2> QED BY <1>2, <1>5, <1>6, <2>3 DEF allowed

LEMMA RemoteRelease ==
  ASSUME NEW d, Sound(d), NEW h \in Handle,
         NEW o \in RemoteOutcomes(d, [op |-> "unregister", handle |-> h])
  PROVE  AsReleased(o) \in Remote!DirectoryRelease(h, Listing(d))
<1> DEFINE request == [op |-> "unregister", handle |-> h]
           p == UnregisterHostedSession(d, h)
           Taken(e) == [reply |-> e, listed |-> Listing(d) \ {h}]
           Left(e) == [reply |-> e, listed |-> Listing(d)]
<1>1. /\ \A e \in Passing : Left(e) \in Remote!DirectoryRelease(h, Listing(d))
      /\ h \in Listing(d) =>
           \A e \in {"ok"} \cup Unheard : Taken(e) \in Remote!DirectoryRelease(h, Listing(d))
      /\ h \notin Listing(d) => Taken("SessionClosed") \in Remote!DirectoryRelease(h, Listing(d))
  <2>1. /\ Remote!LostReply = Unheard
        /\ {"SessionClosed"} \cap (DisconnectReason \ {"None"}) = {"SessionClosed"}
        /\ (DisconnectReason \ {"None"}) \ {"SessionClosed"} = Passing
    BY PassingFacts DEF Passing
  <2> QED BY <2>1 DEF Remote!DirectoryRelease
<1>2. request.op = "unregister" /\ request.handle = h
  OBVIOUS
<1>3. Perform(d, request) = {p}
  BY <1>2 DEF Perform
<1> HIDE DEF request, p
<1>4. \/ /\ h \notin Listing(d) /\ p.dir = d /\ p.reply = Refusal("SessionClosed")
      \/ /\ h \in Listing(d) /\ Listing(p.dir) = Listing(d) \ {h}
         /\ p.reply = [said |-> <<"released", h>>, reason |-> "None"]
  BY ReleaseAnswers DEF p, Refusal
<1>5. p.reply \in Truth
  BY <1>4 DEF Truth, Said, Spoken, Reason, Refusal
<1>6. ASSUME NEW e, e # "None", o.reply = Refusal(e)
      PROVE  /\ Listing(o.dir) = Listing(d) => AsReleased(o) = Left(e)
             /\ Listing(o.dir) = Listing(d) \ {h} => AsReleased(o) = Taken(e)
  BY <1>6, RefusalReplied DEF AsReleased
<1>7. CASE o.dir = d /\ \E e \in Passing : o.reply = Refusal(e)
  BY <1>1, <1>6, <1>7, PassingFacts
<1>8. CASE o.dir = p.dir /\ Heard(p.reply, o.reply)
  <2>1. CASE h \notin Listing(d) /\ p.dir = d /\ p.reply = Refusal("SessionClosed")
    <3>1. p.reply.reason = "SessionClosed" /\ o.dir = d
      BY <1>8, <2>1 DEF Refusal
    <3>2. \/ o.reply = Refusal("SessionClosed")
          \/ \E e \in Passing : o.reply = Refusal(e)
      BY <1>8, <3>1, HeardCases, PassingFacts
    <3>3. CASE o.reply = Refusal("SessionClosed")
      <4>1. Listing(o.dir) = Listing(d) \ {h}
        BY <2>1, <3>1
      <4> QED BY <1>1, <1>6, <2>1, <3>3, <4>1
    <3> QED BY <1>7, <3>1, <3>2, <3>3
  <2>2. CASE /\ h \in Listing(d) /\ Listing(p.dir) = Listing(d) \ {h}
             /\ p.reply = [said |-> <<"released", h>>, reason |-> "None"]
    <3>1. p.reply.reason = "None" /\ Listing(o.dir) = Listing(d) \ {h}
      BY <1>8, <2>2
    <3>2. CASE o.reply = p.reply
      <4>1. Replied(o.reply) = "ok"
        BY <3>1, <3>2 DEF Replied
      <4>2. AsReleased(o) = Taken("ok")
        BY <3>1, <4>1 DEF AsReleased
      <4> QED BY <1>1, <2>2, <4>2
    <3>3. CASE \E e \in Unheard : o.reply = Refusal(e)
      BY <1>1, <1>6, <2>2, <3>1, <3>3, PassingFacts
    <3> QED BY <1>8, <3>1, <3>2, <3>3, HeardCases
  <2> QED BY <1>4, <2>1, <2>2
<1> QED
  <2>1. request.op \in Operation /\ o \in RemoteOutcomes(d, request)
    BY <1>2 DEF Operation, request
  <2>2. \A q \in Perform(d, request) : q.reply \in Truth
    BY <1>3, <1>5
  <2>3. \/ \E q \in Perform(d, request) : o.dir = q.dir /\ Heard(q.reply, o.reply)
        \/ o.dir = d /\ \E e \in Passing : o.reply = Refusal(e)
    BY <2>1, <2>2, RemoteCases
  <2> QED BY <1>3, <1>7, <1>8, <2>3

LEMMA RemoteRefresh ==
  ASSUME NEW d, Sound(d), NEW h \in Handle,
         NEW o \in RemoteOutcomes(d, [op |-> "refresh", handle |-> h])
  PROVE  /\ Replied(o.reply) \in Remote!DirectoryRefresh(h, Listing(o.dir))
         /\ Listing(o.dir) \in {Listing(d), Listing(d) \ {h}}
<1> DEFINE request == [op |-> "refresh", handle |-> h]
           p == RefreshHostedSession(d, h)
<1>1. /\ \A e \in Passing : e \in Remote!DirectoryRefresh(h, Listing(o.dir))
      /\ h \in Listing(o.dir) => "ok" \in Remote!DirectoryRefresh(h, Listing(o.dir))
      /\ h \notin Listing(o.dir) =>
           "SessionClosed" \in Remote!DirectoryRefresh(h, Listing(o.dir))
  <2>1. "SessionClosed" \in DisconnectReason \ {"None"}
    BY PassingFacts
  <2> QED BY <2>1 DEF Remote!DirectoryRefresh, Passing
<1>2. request.op = "refresh" /\ request.handle = h
  OBVIOUS
<1>3. Perform(d, request) = {p}
  BY <1>2 DEF Perform
<1> HIDE DEF request, p
<1>4. /\ \/ h \notin Listing(p.dir) /\ p.reply = Refusal("SessionClosed")
         \/ /\ h \in Listing(p.dir)
            /\ p.reply = [said |-> <<"renewed", h>>, reason |-> "None"]
      /\ Listing(p.dir) \in {Listing(d), Listing(d) \ {h}}
  BY RefreshAnswers DEF p, Refusal
<1>5. p.reply \in Truth
  BY <1>4 DEF Truth, Said, Spoken, Reason, Refusal
<1>6. CASE o.dir = d /\ \E e \in Passing : o.reply = Refusal(e)
  BY <1>1, <1>6, RefusalReplied, PassingFacts
<1>7. CASE o.dir = p.dir /\ Heard(p.reply, o.reply)
  <2>1. CASE \E e \in Unheard : o.reply = Refusal(e)
    BY <1>1, <1>4, <1>7, <2>1, RefusalReplied, PassingFacts
  <2>2. CASE h \notin Listing(p.dir) /\ p.reply = Refusal("SessionClosed")
    <3>1. p.reply.reason = "SessionClosed"
      BY <2>2 DEF Refusal
    <3>2. CASE o.reply = Refusal("SessionClosed")
      BY <1>1, <1>4, <1>7, <2>2, <3>2, RefusalReplied
    <3> QED BY <1>7, <2>1, <3>1, <3>2, HeardCases
  <2>3. CASE /\ h \in Listing(p.dir)
             /\ p.reply = [said |-> <<"renewed", h>>, reason |-> "None"]
    <3>1. p.reply.reason = "None"
      BY <2>3
    <3>2. CASE o.reply = p.reply
      <4>1. Replied(o.reply) = "ok"
        BY <3>1, <3>2 DEF Replied
      <4> QED BY <1>1, <1>4, <1>7, <2>3, <4>1
    <3> QED BY <1>7, <2>1, <3>1, <3>2, HeardCases
  <2> QED BY <1>4, <2>2, <2>3
<1> QED
  <2>1. request.op \in Operation /\ o \in RemoteOutcomes(d, request)
    BY <1>2 DEF Operation, request
  <2>2. \A q \in Perform(d, request) : q.reply \in Truth
    BY <1>3, <1>5
  <2>3. \/ \E q \in Perform(d, request) : o.dir = q.dir /\ Heard(q.reply, o.reply)
        \/ o.dir = d /\ \E e \in Passing : o.reply = Refusal(e)
    BY <2>1, <2>2, RemoteCases
  <2> QED BY <1>3, <1>6, <1>7, <2>3

(***************************************************************************)
(* SessionManager allows for whatever a broker, the network and the client *)
(* that reads its answers can make of a call: as far as the caller can     *)
(* tell it was obeyed or not, and "gone" is said only of what is gone.     *)
(***************************************************************************)
THEOREM BrokerAnswersAsAssumed == Spec => []RemoteAnswersAsAssumed
<1>1. RInv => RemoteAnswersAsAssumed
  BY RemoteRegister, RemoteRelease, RemoteRefresh
  DEF RInv, BInv, IInv, RemoteAnswersAsAssumed
<1> QED BY <1>1, ReplyInvariant, PTL

(***************************************************************************)
(* The maps of the broker change only as SessionManager assumes, however   *)
(* many callers it has and however late their requests arrive.             *)
(***************************************************************************)
THEOREM BrokerListingsChangeAsAssumed == Spec => [][ListingChangesAsAssumed]_directoryVars
<1>1. Spec => DirectorySpec
  BY BrokerImplementsDirectory
<1> QED BY <1>1, ListingsChangeAsAssumed, PTL
=============================================================================
