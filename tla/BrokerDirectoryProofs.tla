------------------------ MODULE BrokerDirectoryProofs ------------------------
(***************************************************************************)
(* Whatever the network does between the callers and the broker, the       *)
(* broker's maps change only as those of SessionDirectory do: lost, late   *)
(* and repeated requests and crashes of the callers are further calls of   *)
(* the directory, or nothing at all.  What is proved of SessionDirectory   *)
(* therefore holds of the composition.                                     *)
(***************************************************************************)
EXTENDS BrokerDirectory, SessionDirectoryProofs

Asked ==
  /\ held \in [Caller -> Handle \cup {NoHandle}]
  /\ call \in [Caller -> [stage : {"idle", "sent", "served"}, request : Request \cup {Nothing},
                          truth : [said : Said, reason : DisconnectReason]]]
  /\ \A c \in Caller : call[c].stage # "idle" => call[c].request \in Request
  /\ late \in Request \cup {Nothing}

BInv == IInv /\ Asked

\* Obeying a request is one of the directory's own steps.
LEMMA PerformStep ==
  ASSUME NEW request \in Request, NEW o, o \in Perform(dir, request), Answer(o)
  PROVE  DirectoryNext
<1>1. CASE request \in [op : {"register"}, registration : Registration]
  <2>1. request.op = "register" /\ request.registration \in Registration
    BY <1>1
  <2>2. o \in RegisterHostedSession(dir, request.registration)
    BY <2>1 DEF Perform
  <2> QED BY <2>1, <2>2 DEF DirectoryNext, Register
<1>2. CASE request \in [op : {"lookup"}, name : Name \cup {NoName}, build : Build]
  <2>1. /\ request.op = "lookup" /\ request.name \in Name \cup {NoName}
        /\ request.build \in Build
    BY <1>2
  <2>2. o = LookupSession(dir, request.name, request.build)
    BY <2>1 DEF Perform
  <2>3. Lookup(request.name, request.build)
    BY <2>2 DEF Lookup
  <2> QED BY <2>1, <2>3 DEF DirectoryNext
<1>3. CASE request \in [op : {"refresh", "unregister"}, handle : Handle \cup {NoHandle}]
  <2>1. request.op \in {"refresh", "unregister"} /\ request.handle \in Handle \cup {NoHandle}
    BY <1>3
  <2>2. CASE request.op = "refresh"
    <3>1. o = RefreshHostedSession(dir, request.handle)
      BY <2>2 DEF Perform
    <3>2. Refresh(request.handle)
      BY <3>1 DEF Refresh
    <3> QED BY <2>1, <3>2 DEF DirectoryNext
  <2>3. CASE request.op = "unregister"
    <3>1. o = UnregisterHostedSession(dir, request.handle)
      BY <2>3 DEF Perform
    <3>2. Unregister(request.handle)
      BY <3>1 DEF Unregister
    <3> QED BY <2>1, <3>2 DEF DirectoryNext
  <2> QED BY <2>1, <2>2, <2>3
<1> QED BY <1>1, <1>2, <1>3 DEF Request

\* A directory step keeps the directory's invariant and types its reply.
LEMMA StepKeepsDirectory ==
  ASSUME IInv, DirectoryNext
  PROVE  IInv' /\ answer' \in Reply
<1>1. IInv'
  BY DirectoryStep
<1> QED BY <1>1 DEF IInv

LEMMA RequestsAreTyped ==
  ASSUME Asked, NEW c \in Caller
  PROVE  Requests(c) \subseteq Request
<1> SUFFICES ASSUME NEW request \in Requests(c)
             PROVE  request \in Request
  OBVIOUS
<1>1. /\ Joining[c] \subseteq (Name \cup {NoName}) \X Build
      /\ Hosting[c] \subseteq Registration
      /\ held[c] \in Handle \cup {NoHandle}
  BY BrokerAssumption DEF Asked
<1>2. CASE \E j \in Joining[c] : request = [op |-> "lookup", name |-> j[1], build |-> j[2]]
  BY <1>1, <1>2 DEF Request
<1>3. CASE \E r \in Hosting[c] : request = [op |-> "register", registration |-> r]
  BY <1>1, <1>3 DEF Request
<1>4. CASE \E o \in {"refresh", "unregister"} : request = [op |-> o, handle |-> held[c]]
  BY <1>1, <1>4 DEF Request
<1> QED BY <1>2, <1>3, <1>4 DEF Requests

\* A returned call leaves an idle caller that knows a handle or none.
LEMMA ReturnKeepsCalls ==
  ASSUME Asked, NEW c \in Caller, NEW request, NEW truth, NEW result,
         Return(c, request, truth, result), late' \in Request \cup {Nothing}
  PROVE  Asked'
<1>1. PICK h \in Known(c, request, result) : held' = [held EXCEPT ![c] = h]
  BY DEF Return
<1>2. h \in Handle \cup {NoHandle}
  BY <1>1 DEF Known, Asked
<1>3. held' \in [Caller -> Handle \cup {NoHandle}]
  BY <1>1, <1>2 DEF Asked
<1>4. call' = [call EXCEPT ![c] = IdleCall]
  BY DEF Return
<1>5. IdleCall \in [stage : {"idle", "sent", "served"}, request : Request \cup {Nothing},
                    truth : [said : Said, reason : DisconnectReason]]
  BY DEF IdleCall, Silence, Said, DisconnectReason, Reason
<1>6. IdleCall.stage = "idle"
  BY DEF IdleCall
<1> QED BY <1>3, <1>4, <1>5, <1>6 DEF Asked

LEMMA GivenUpIsTyped ==
  ASSUME Asked, NEW c \in Caller
  PROVE  GivenUp(c) \subseteq Request \cup {Nothing}
BY DEF Asked, GivenUp

LEMMA CallLocalStep ==
  ASSUME BInv, NEW c \in Caller, CallLocal(c)
  PROVE  BInv' /\ DirectoryNext
<1>1. PICK request \in Requests(c) : \E o \in Perform(dir, request) :
        Answer(o) /\ Return(c, request, o.reply, o.reply)
  BY DEF CallLocal
<1>2. PICK o \in Perform(dir, request) : Answer(o) /\ Return(c, request, o.reply, o.reply)
  BY <1>1
<1>3. request \in Request
  BY RequestsAreTyped DEF BInv
<1>4. DirectoryNext
  BY <1>2, <1>3, PerformStep
<1>5. late' \in Request \cup {Nothing}
  BY DEF CallLocal, BInv, Asked
<1> QED BY <1>2, <1>4, <1>5, StepKeepsDirectory, ReturnKeepsCalls DEF BInv

LEMMA QuietStep ==
  ASSUME IInv, NoCall
  PROVE  IInv' /\ DirectoryNext
BY StepKeepsDirectory DEF DirectoryNext

LEMMA CallRefusedStep ==
  ASSUME BInv, NEW c \in Caller, CallRefused(c)
  PROVE  BInv' /\ DirectoryNext
<1>1. PICK request \in Requests(c), reason \in DisconnectReason :
        Return(c, request, Silence, [said |-> <<"refused">>, reason |-> reason])
  BY DEF CallRefused
<1>2. NoCall /\ late' \in Request \cup {Nothing}
  BY DEF CallRefused, BInv, Asked
<1> QED BY <1>1, <1>2, QuietStep, ReturnKeepsCalls DEF BInv

LEMMA SendStep ==
  ASSUME BInv, NEW c \in Caller, Send(c)
  PROVE  BInv' /\ DirectoryNext
<1>1. PICK request \in Requests(c) :
        call' = [call EXCEPT ![c] = [stage |-> "sent", request |-> request,
                                     truth |-> Silence]]
  BY DEF Send
<1>2. request \in Request
  BY RequestsAreTyped DEF BInv
<1>3. NoCall /\ UNCHANGED <<held, late>>
  BY DEF Send
<1>4. [stage |-> "sent", request |-> request, truth |-> Silence]
        \in [stage : {"idle", "sent", "served"}, request : Request \cup {Nothing},
             truth : [said : Said, reason : DisconnectReason]]
  BY <1>2 DEF Silence, Said, DisconnectReason, Reason
<1>5. Asked'
  BY <1>1, <1>2, <1>3, <1>4 DEF BInv, Asked
<1> QED BY <1>3, <1>5, QuietStep DEF BInv

LEMMA ServeStep ==
  ASSUME BInv, NEW c \in Caller, Serve(c)
  PROVE  BInv' /\ DirectoryNext
<1> DEFINE CallRecord == [stage : {"idle", "sent", "served"}, request : Request \cup {Nothing},
                          truth : [said : Said, reason : DisconnectReason]]
<1>1. ASSUME NEW truth \in [said : Said, reason : DisconnectReason], Served(c, truth)
      PROVE  Asked'
  <2>1. call[c] \in CallRecord /\ call[c].request \in Request
    BY DEF BInv, Asked, Serve
  <2>2. [stage |-> "served", request |-> call[c].request, truth |-> truth] \in CallRecord
    BY <1>1, <2>1
  <2> QED BY <1>1, <2>1, <2>2 DEF BInv, Asked, Serve, Served
<1>2. CASE \E o \in Perform(dir, call[c].request) : Answer(o) /\ Served(c, o.reply)
  <2>1. PICK o \in Perform(dir, call[c].request) : Answer(o) /\ Served(c, o.reply)
    BY <1>2
  <2>2. call[c].request \in Request
    BY DEF BInv, Asked, Serve
  <2>3. DirectoryNext
    BY <2>1, <2>2, PerformStep
  <2>4. IInv' /\ answer' \in Reply
    BY <2>3, StepKeepsDirectory DEF BInv
  <2>5. o.reply \in [said : Said, reason : DisconnectReason]
    BY <2>1, <2>4 DEF Answer, Reply, DisconnectReason
  <2> QED BY <2>1, <2>3, <2>4, <2>5, <1>1 DEF BInv
<1>3. CASE \E reason \in {"RateLimited", "TransportError"} :
             Served(c, [said |-> <<"refused">>, reason |-> reason]) /\ NoCall
  <2>1. \A reason \in {"RateLimited", "TransportError"} :
          [said |-> <<"refused">>, reason |-> reason]
             \in [said : Said, reason : DisconnectReason]
    BY DEF Said, DisconnectReason
  <2> QED BY <1>3, <2>1, <1>1, QuietStep DEF BInv
<1> QED BY <1>2, <1>3 DEF Serve

LEMMA CompleteStep ==
  ASSUME BInv, NEW c \in Caller, Complete(c)
  PROVE  BInv' /\ DirectoryNext
<1>1. PICK result : Return(c, call[c].request, call[c].truth, result)
  BY DEF Complete
<1>2. NoCall /\ late' \in Request \cup {Nothing}
  BY GivenUpIsTyped DEF Complete, BInv
<1> QED BY <1>1, <1>2, QuietStep, ReturnKeepsCalls DEF BInv

LEMMA LateArrivesStep ==
  ASSUME BInv, LateArrives
  PROVE  BInv' /\ DirectoryNext
<1>1. PICK o \in Perform(dir, late) : Answer(o)
  BY DEF LateArrives
<1>2. late \in Request
  BY DEF LateArrives, BInv, Asked
<1>3. DirectoryNext
  BY <1>1, <1>2, PerformStep
<1>4. Asked'
  BY DEF LateArrives, BInv, Asked
<1> QED BY <1>3, <1>4, StepKeepsDirectory DEF BInv

LEMMA CrashStep ==
  ASSUME BInv, NEW c \in Caller, Crash(c)
  PROVE  BInv' /\ DirectoryNext
<1>1. /\ call' = [call EXCEPT ![c] = IdleCall] /\ held' = [held EXCEPT ![c] = NoHandle]
      /\ NoCall /\ late' \in Request \cup {Nothing}
  BY GivenUpIsTyped DEF Crash, BInv
<1>2. IdleCall \in [stage : {"idle", "sent", "served"}, request : Request \cup {Nothing},
                    truth : [said : Said, reason : DisconnectReason]]
  BY DEF IdleCall, Silence, Said, DisconnectReason, Reason
<1>3. IdleCall.stage = "idle"
  BY DEF IdleCall
<1>4. Asked'
  BY <1>1, <1>2, <1>3 DEF BInv, Asked
<1> QED BY <1>1, <1>4, QuietStep DEF BInv

LEMMA BrokerStep ==
  ASSUME BInv, [Next]_vars
  PROVE  BInv' /\ [DirectoryNext]_directoryVars
<1>1. CASE \E c \in Caller : CallLocal(c) \/ CallRefused(c) \/ Send(c) \/ Serve(c)
                               \/ Complete(c) \/ Crash(c)
  BY <1>1, CallLocalStep, CallRefusedStep, SendStep, ServeStep, CompleteStep, CrashStep
<1>2. CASE LateArrives
  BY <1>2, LateArrivesStep
<1>3. CASE TimePasses
  <2>1. DirectoryNext /\ UNCHANGED <<call, held, late>>
    BY <1>3 DEF TimePasses, DirectoryNext
  <2>2. Asked'
    BY <2>1 DEF BInv, Asked
  <2> QED BY <2>1, <2>2, StepKeepsDirectory DEF BInv
<1>4. CASE UNCHANGED vars
  <2>1. UNCHANGED directoryVars /\ UNCHANGED <<call, held, late>>
    BY <1>4 DEF vars, directoryVars
  <2>2. IInv'
    BY <2>1, DirectoryStep DEF BInv
  <2>3. Asked'
    BY <2>1 DEF BInv, Asked
  <2> QED BY <2>1, <2>2, <2>3 DEF BInv
<1> QED BY <1>1, <1>2, <1>3, <1>4 DEF Next

LEMMA BrokerInitially ==
  ASSUME Init
  PROVE  BInv /\ DirectoryInit
<1>1. IdleCall \in [stage : {"idle", "sent", "served"}, request : Request \cup {Nothing},
                    truth : [said : Said, reason : DisconnectReason]]
  BY DEF IdleCall, Silence, Said, DisconnectReason, Reason
<1>2. IdleCall.stage = "idle"
  BY DEF IdleCall
<1>3. Asked
  BY <1>1, <1>2 DEF Init, Asked
<1> QED BY <1>3, DirectoryInitially DEF Init, BInv

LEMMA BrokerInvariant == Spec => []BInv
<1>1. Init => BInv
  BY BrokerInitially
<1>2. BInv /\ [Next]_vars => BInv'
  BY BrokerStep
<1> QED BY <1>1, <1>2, PTL DEF Spec

(***************************************************************************)
(* The composition implements the directory: callers, network and broker   *)
(* together only ever do to the maps what the directory's methods do.      *)
(***************************************************************************)
THEOREM BrokerImplementsDirectory == Spec => DirectorySpec
<1>1. Init => DirectoryInit
  BY BrokerInitially
<1>2. BInv /\ [Next]_vars => [DirectoryNext]_directoryVars
  BY BrokerStep
<1> QED BY <1>1, <1>2, BrokerInvariant, PTL DEF Spec, DirectorySpec

(***************************************************************************)
(* With requests lost, late and repeated, and callers crashing, a handle   *)
(* still leads to the session registered under it and to no other.         *)
(***************************************************************************)
THEOREM BrokerMapsAgree == Spec => []MapsAgree
BY BrokerImplementsDirectory, DirectoryMapsAgree, PTL

(***************************************************************************)
(* The callers and the broker together keep the promise of LeaseDirectory. *)
(***************************************************************************)
THEOREM BrokerKeepsLeases == Spec => KeepsLeases
BY BrokerImplementsDirectory, DirectoryKeepsLeases, PTL
=============================================================================
