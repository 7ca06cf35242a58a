--------------------------- MODULE SessionManager ---------------------------
(***************************************************************************)
(* NetworkSessionManager: the session life cycle of one process.  Start,   *)
(* stop, the per-frame Update and the destructor run on the game thread;   *)
(* the bootstrap, refresh and release calls to a session directory run on  *)
(* detached threads whose futures the game thread polls.                   *)
(*                                                                         *)
(* A method is an operator from the state it finds to the set of states it *)
(* may leave, so that a handler is the composition of the methods it calls.*)
(* Times are kept relative to the clock: how long the current attempt has  *)
(* lasted, how long until a retry or a refresh is due.                     *)
(***************************************************************************)
EXTENDS Integers, DirectoryAnswers

CONSTANTS
  Task,              \* detached bootstrap threads that can exist at once
  NoTask,            \* no pending bootstrap
  Flow,              \* how sessions are bootstrapped, a subset of AllFlows
  AuthError,         \* reasons for which a handshake can be rejected
  Lease,             \* lease lengths the directory grants, 0 if it names none
  ConnectTimeout, HandshakeTimeout, RetryDelay,
  MinLead, MaxLead   \* bounds on how long before its expiry a lease is refreshed

AllFlows == {"direct", "injected", "broker"}

DisconnectReason ==
  {"None", "UserRequested", "Timeout", "TransportError", "RateLimited",
   "BootstrapFailed", "VersionMismatch", "AuthRejected", "ServerShutdown", "SessionClosed",
   "ProtocolError"}

ASSUME SessionAssumption ==
  /\ NoHandle \notin Handle
  /\ NoTask \notin Task
  /\ Flow \subseteq AllFlows
  /\ DirectoryError \subseteq DisconnectReason \ {"None"}
  /\ AuthError \subseteq DisconnectReason \ {"None"}
  /\ Lease \subseteq Nat
  /\ ConnectTimeout \in Nat \ {0}
  /\ HandshakeTimeout \in Nat \ {0}
  /\ RetryDelay \in Nat \ {0}
  /\ MinLead \in Nat \ {0}
  /\ MaxLead \in Nat \ {0}
  /\ ReplyCanBeLost \in BOOLEAN

\* "Destroyed" stands for the end of the object's life, not for a state it reports.
ConnectionState ==
  {"Idle", "Resolving", "Connecting", "Handshaking", "Connected",
   "Disconnected", "Failed", "Destroyed"}

HostingMode == {"None", "Client", "DedicatedServer", "ListenServer"}
Hosts(mode) == mode \in {"DedicatedServer", "ListenServer"}
Joins(mode) == mode \in {"Client", "ListenServer"}

Future == {"none", "running", "ok"} \cup DirectoryError

(***************************************************************************)
(* session: the manager's members, the transports and authentication state *)
(* of the runtime it drives, and the listings of the directory.  tasks:    *)
(* the detached bootstrap threads and what each has obtained so far.       *)
(***************************************************************************)
VARIABLES session, tasks
vars == <<session, tasks>>

Session ==
  [state : ConnectionState,
   reason : DisconnectReason,
   age : Nat,                              \* time spent Connecting or Handshaking
   server : BOOLEAN,                       \* has a server transport
   client : {"absent", "connecting", "connected", "lost"},
   auth : {"none", "pending", "accepted", "rejected"},
   authReason : DisconnectReason,
   handle : Handle \cup {NoHandle},        \* m_hostedRegistration ...
   async : BOOLEAN,
   leased : BOOLEAN,
   refreshIn : Nat,
   releasePending : BOOLEAN,
   releaseBlocked : BOOLEAN,
   retryIn : Nat,
   boot : Task \cup {NoTask},              \* m_pendingBootstrap
   refresh : Future,                       \* m_pendingRefresh
   release : Future,                       \* m_pendingRelease
   releaseReady : BOOLEAN,
   listed : SUBSET Handle]                 \* the directory

TaskRecord ==
  [phase : {"idle", "register", "resolve", "done"},
   mode : HostingMode,
   handle : Handle \cup {NoHandle},
   host : {"ok", "invalid"} \cup DisconnectReason,
   join : {"ok"} \cup DisconnectReason]

IdleTask ==
  [phase |-> "idle", mode |-> "None", handle |-> NoHandle, host |-> "ok", join |-> "ok"]

Init ==
  /\ session = [state |-> "Idle", reason |-> "None", age |-> 0, server |-> FALSE,
                client |-> "absent", auth |-> "none", authReason |-> "None",
                handle |-> NoHandle, async |-> FALSE, leased |-> FALSE,
                refreshIn |-> 0, releasePending |-> FALSE, releaseBlocked |-> FALSE,
                retryIn |-> 0, boot |-> NoTask, refresh |-> "none",
                release |-> "none", releaseReady |-> FALSE, listed |-> {}]
  /\ tasks = [t \in Task |-> IdleTask]

-----------------------------------------------------------------------------
Unused(t) == tasks[t].phase = "idle"

\* What a finished thread obtained is lost unless it is still the pending bootstrap.
Kept(boot) ==
  [t \in Task |-> IF tasks[t].phase = "done" /\ boot # t THEN IdleTask ELSE tasks[t]]

\* A directory does not hand out a handle that is listed or that somebody still holds.
Fresh == Handle \ (session.listed \cup {session.handle}
                     \cup {tasks[t].handle : t \in {t \in Task : ~Unused(t)}})

-----------------------------------------------------------------------------
\* The parts every handler is made of.

Report(s, state, reason) == [s EXCEPT !.state = state, !.reason = reason, !.age = 0]
Fail(s, reason) == Report(s, "Failed", reason)

\* Shutting the transports down also resets the runtime's authentication state.
StopTransports(s) ==
  IF s.server \/ s.client # "absent"
    THEN [s EXCEPT !.server = FALSE, !.client = "absent",
                   !.auth = "none", !.authReason = "None"]
    ELSE s

\* Mutant: no guard against a lead longer than the lease.
RefreshDelayUnguarded(lease) ==
  lease - (LET half == lease \div 2
           IN  IF half < MinLead THEN MinLead ELSE IF half > MaxLead THEN MaxLead ELSE half)

\* A refresh is due half a lease before it expires, at least MinLead, at most MaxLead.
RefreshDelay(lease) ==
  LET half == lease \div 2
      lead == IF half < MinLead THEN MinLead ELSE IF half > MaxLead THEN MaxLead ELSE half
  IN  IF lease <= lead THEN 0 ELSE lease - lead

CaptureRegistration(s, h, lease, async) ==
  [s EXCEPT !.handle = h, !.async = async, !.leased = (lease # 0),
            !.refreshIn = RefreshDelay(lease), !.releasePending = FALSE,
            !.releaseBlocked = FALSE, !.retryIn = 0]

\* Mutant: the pending refresh survives its registration.
ClearRegistrationOnly(s) ==
  [s EXCEPT !.handle = NoHandle, !.async = FALSE, !.leased = FALSE, !.refreshIn = 0,
            !.releasePending = FALSE, !.releaseBlocked = FALSE, !.retryIn = 0,
            !.release = "none", !.releaseReady = FALSE]

ClearRegistration(s) ==
  [s EXCEPT !.handle = NoHandle, !.async = FALSE, !.leased = FALSE, !.refreshIn = 0,
            !.releasePending = FALSE, !.releaseBlocked = FALSE, !.retryIn = 0,
            !.refresh = "none", !.release = "none", !.releaseReady = FALSE]

Retryable == {"Timeout", "TransportError", "RateLimited"}

\* Mutant: a failed release is forgotten.
RecordReleaseOnce(s, reply) ==
  IF reply \in Retryable THEN ClearRegistration(s) ELSE [s EXCEPT !.releaseBlocked = TRUE]

\* A directory that no longer knows the handle has nothing left to release.
RecordRelease(s, reply) ==
  IF reply \in {"ok", "SessionClosed"} THEN ClearRegistration(s)
  ELSE IF reply \in Retryable
    THEN [s EXCEPT !.releasePending = TRUE, !.releaseBlocked = FALSE, !.retryIn = RetryDelay]
    ELSE [s EXCEPT !.releasePending = FALSE, !.releaseBlocked = TRUE, !.retryIn = 0]

ConsumeRelease(s) ==
  IF ~s.releaseReady THEN s
  ELSE LET t == [s EXCEPT !.release = "none", !.releaseReady = FALSE]
       IN  IF s.handle = NoHandle THEN t ELSE RecordRelease(t, s.release)

\* Polled again later in a handler, a future may have become ready meanwhile.
ConsumeReleaseRacing(s) ==
  {ConsumeRelease(s)}
    \cup (IF s.release \in {"none", "running"} THEN {}
          ELSE {ConsumeRelease([s EXCEPT !.releaseReady = TRUE])})

MayAttempt(s, force, allowBlocked) ==
  /\ s.handle # NoHandle
  /\ s.releaseBlocked => allowBlocked
  /\ (s.releasePending /\ ~force) => s.retryIn = 0

\* On a detached thread ...
BeginRelease(s, force) ==
  IF s.release = "none" /\ MayAttempt(s, force, FALSE)
    THEN [s EXCEPT !.release = "running"] ELSE s

\* ... or waiting for the directory's answer.
ReleaseNow(s, force, allowBlocked) ==
  IF MayAttempt(s, force, allowBlocked)
    THEN {RecordRelease([s EXCEPT !.listed = d.listed], d.reply) :
             d \in DirectoryRelease(s.handle, s.listed)}
    ELSE {s}

EnsureRelease(s) ==
  IF s.handle = NoHandle THEN {s}
  ELSE IF s.async THEN {BeginRelease(t, TRUE) : t \in ConsumeReleaseRacing(s)}
  ELSE ReleaseNow(s, TRUE, FALSE)

\* Mutant: only releases made on the game thread are retried.
RetryReleaseHere(s) ==
  IF s.handle = NoHandle \/ ~s.releasePending \/ s.async THEN {s} ELSE ReleaseNow(s, FALSE, FALSE)

RetryRelease(s) ==
  IF s.handle = NoHandle \/ ~s.releasePending \/ s.releaseBlocked THEN {s}
  ELSE IF s.async THEN {BeginRelease(s, FALSE)}
  ELSE ReleaseNow(s, FALSE, FALSE)

-----------------------------------------------------------------------------
\* Keeping the listing alive.

Renew(s, lease) ==
  IF lease = 0 THEN s ELSE [s EXCEPT !.leased = TRUE, !.refreshIn = RefreshDelay(lease)]

\* Mutant: the session fails, its registration stays.
RefreshFailureOnly(s, r) == {Fail(StopTransports(s), r)}

RefreshFailure(s, r) == {Fail(t, r) : t \in EnsureRelease(StopTransports(s))}

RefreshHasFailed(s) == s.refresh \in DirectoryError /\ s.handle # NoHandle

ConsumeRefresh(s) ==
  LET t == [s EXCEPT !.refresh = "none"]
  IN  IF s.refresh \in {"none", "running"} THEN {s}
      ELSE IF s.handle = NoHandle THEN {t}
      ELSE IF s.refresh = "ok" THEN {Renew(t, l) : l \in Lease}
      ELSE RefreshFailure(t, s.refresh)

Refresh(s) ==
  IF s.handle = NoHandle \/ s.releasePending \/ ~s.leased \/ s.refreshIn > 0 THEN {s}
  ELSE IF s.async THEN {[s EXCEPT !.refresh = IF @ = "none" THEN "running" ELSE @]}
  ELSE LET reply == DirectoryRefresh(s.handle, s.listed)
       IN  {Renew(s, l) : l \in IF "ok" \in reply THEN Lease ELSE {}}
             \cup UNION {RefreshFailure(s, e) : e \in reply \ {"ok"}}

-----------------------------------------------------------------------------
\* Turning a bootstrap result into a running session.

\* Mutant: the server transport is left open.
GiveUpHostingOpen(s, mode) == IF Hosts(mode) THEN EnsureRelease(s) ELSE {s}

GiveUpHosting(s, mode) ==
  IF Hosts(mode) THEN EnsureRelease(StopTransports(s)) ELSE {s}

OpenClient(s, mode, join) ==
  IF join # "ok" THEN {Fail(t, join) : t \in GiveUpHosting(s, mode)}
  ELSE {[Report(s, "Connecting", "None") EXCEPT !.client = "connecting"]}
         \cup {Fail(t, "TransportError") : t \in GiveUpHosting(s, mode)}

OpenTransports(s, b) ==
  (IF Hosts(b.mode) THEN {Fail(t, "TransportError") : t \in EnsureRelease(s)} ELSE {})
    \cup (LET t == [s EXCEPT !.server = Hosts(b.mode)]
          IN  IF Joins(b.mode) THEN OpenClient(t, b.mode, b.join)
              ELSE {Report(t, "Connected", "None")})

\* Mutant: a registration is captured only after the result was found valid.
ValidateThenCapture(s, b, async) ==
  IF ~Hosts(b.mode) THEN OpenTransports(s, b)
  ELSE IF b.host # "ok" THEN {Fail(s, IF b.host = "invalid" THEN "BootstrapFailed" ELSE b.host)}
  ELSE UNION {OpenTransports(
                IF b.handle = NoHandle THEN s ELSE CaptureRegistration(s, b.handle, l, async),
                b) : l \in Lease}

ApplyBootstrap(s, b, async) ==
  IF ~Hosts(b.mode) THEN OpenTransports(s, b)
  ELSE IF b.host \notin {"ok", "invalid"} THEN {Fail(s, b.host)}
  ELSE UNION {
    LET t == IF b.handle = NoHandle THEN s ELSE CaptureRegistration(s, b.handle, l, async)
    IN  IF b.host = "invalid" THEN {Fail(u, "BootstrapFailed") : u \in EnsureRelease(t)}
        ELSE OpenTransports(t, b) : l \in Lease}

BootReady(s) == s.boot # NoTask /\ tasks[s.boot].phase = "done"

ConsumeBootstrap(s) == ApplyBootstrap([s EXCEPT !.boot = NoTask], tasks[s.boot], TRUE)

-----------------------------------------------------------------------------
\* One frame: collect what the threads have finished, then maintain and advance the session.

\* The frame ends here when a refresh or a bootstrap turns out to have failed ...
PollFailed(s) ==
  LET a == ConsumeRelease(s)
  IN  IF RefreshHasFailed(a) THEN ConsumeRefresh(a)
      ELSE UNION {{c \in ConsumeBootstrap(b) : c.state = "Failed"} :
                    b \in {b \in ConsumeRefresh(a) : BootReady(b)}}

\* ... and goes on otherwise.
Polled(s) ==
  LET a == ConsumeRelease(s)
  IN  IF RefreshHasFailed(a) THEN {}
      ELSE UNION {IF BootReady(b) THEN {c \in ConsumeBootstrap(b) : c.state # "Failed"} ELSE {b} :
                    b \in ConsumeRefresh(a)}

Dropped(s) == EnsureRelease(StopTransports(s))
TimeOut(s) == {Fail(t, "Timeout") : t \in Dropped(s)}
FailHandshake(s) == {Fail(t, t.authReason) : t \in Dropped(s)}

BeginHandshake(s) ==
  [Report(s, "Handshaking", "None") EXCEPT !.auth = "pending", !.authReason = "None"]

IsSessionAuthenticated(s) == s.auth = "accepted" /\ s.client = "connected"

Advance(s) ==
  CASE s.state = "Connecting" /\ s.age >= ConnectTimeout -> TimeOut(s)
    [] s.state = "Connecting" /\ s.age < ConnectTimeout /\ s.client = "connected" ->
         {BeginHandshake(s)}
    [] s.state = "Handshaking" /\ s.auth = "rejected" -> FailHandshake(s)
    [] s.state = "Handshaking" /\ s.auth # "rejected" /\ s.age >= HandshakeTimeout ->
         TimeOut(s)
    [] s.state = "Handshaking" /\ s.age < HandshakeTimeout /\ s.auth # "rejected"
         /\ IsSessionAuthenticated(s) -> {Report(s, "Connected", "None")}
    [] s.state = "Connected" /\ s.client \in {"connecting", "lost"} /\ ~s.server ->
         {Report(s, "Disconnected", "TransportError")}
    [] OTHER -> {s}

Maintain(s) == UNION {UNION {Advance(u) : u \in Refresh(t)} : t \in RetryRelease(s)}

Alive == session.state # "Destroyed"

Update ==
  /\ Alive
  /\ session' \in PollFailed(session) \cup UNION {Maintain(s) : s \in Polled(session)}
  /\ tasks' = Kept(session'.boot)

-----------------------------------------------------------------------------
\* Starting a session.

\* A registration left by the previous session must be released first.
StartAdmitted(s) ==
  IF s.handle = NoHandle THEN {s}
  ELSE IF s.async \/ s.releaseBlocked THEN {}
  ELSE {t \in ReleaseNow(s, TRUE, FALSE) : t.handle = NoHandle}

StartRefused(s) ==
  IF s.handle = NoHandle THEN {}
  ELSE {Fail(u, "BootstrapFailed") : u \in
          IF s.async THEN {BeginRelease(t, TRUE) : t \in ConsumeReleaseRacing(s)}
                     ELSE {t \in ReleaseNow(s, TRUE, FALSE) : t.handle # NoHandle}}

HostOutcome(mode, flow, listed) ==
  IF ~Hosts(mode) THEN {[reply |-> "ok", handle |-> NoHandle, listed |-> listed]}
  ELSE IF flow = "direct"
    THEN {[reply |-> r, handle |-> NoHandle, listed |-> listed] : r \in {"ok", "BootstrapFailed"}}
    ELSE DirectoryRegister(Fresh, listed)
           \cup {[d EXCEPT !.reply = "invalid"] :
                    d \in {d \in DirectoryRegister(Fresh, listed) : d.reply = "ok"}}

JoinOutcome(flow) ==
  {"ok", "BootstrapFailed"} \cup (IF flow = "direct" THEN {} ELSE DirectoryError)

StartHere(s, mode, flow) ==
  \E d \in HostOutcome(mode, flow, s.listed), j \in JoinOutcome(flow) :
    /\ session' \in ApplyBootstrap([s EXCEPT !.listed = d.listed],
                       [phase |-> "done", mode |-> mode, handle |-> d.handle,
                        host |-> d.reply, join |-> j], FALSE)
    /\ tasks' = Kept(session'.boot)

StartDetached(s, mode) ==
  \E t \in Task :
    /\ Unused(t)
    /\ session' = [Report(s, "Resolving", "None") EXCEPT !.boot = t]
    /\ tasks' = [Kept(t) EXCEPT ![t] =
                   [IdleTask EXCEPT !.mode = mode,
                                    !.phase = IF Hosts(mode) THEN "register" ELSE "resolve"]]

Launch(s) ==
  \/ session' = Report(s, "Idle", "None") /\ tasks' = Kept(session'.boot)
  \/ \E mode \in HostingMode \ {"None"} :
       \/ \E flow \in Flow \ {"broker"} : StartHere(s, mode, flow)
       \/ "broker" \in Flow /\ StartDetached(s, mode)
  \/ "broker" \in Flow /\ session' = Fail(s, "BootstrapFailed") /\ tasks' = Kept(session'.boot)

StartConfiguredSession ==
  /\ Alive
  /\ \/ /\ session' \in PollFailed(session)
              \cup {Fail(s, "BootstrapFailed") : s \in {p \in Polled(session) : p.boot # NoTask}}
        /\ tasks' = Kept(session'.boot)
     \/ \E s \in {StopTransports(p) : p \in {p \in Polled(session) : p.boot = NoTask}} :
          \/ session' \in StartRefused(s) /\ tasks' = Kept(session'.boot)
          \/ \E t \in StartAdmitted(s) : Launch(t)

-----------------------------------------------------------------------------
\* Stopping, and the end of the manager.  A detached bootstrap is abandoned, not stopped.

\* Mutant: the pending bootstrap stays pending.
StopTransportsOnly ==
  /\ Alive
  /\ session' \in {Report(s, "Disconnected", "UserRequested") :
                     s \in EnsureRelease(StopTransports(session))}
  /\ tasks' = Kept(session'.boot)

StopSession ==
  /\ Alive
  /\ session' \in {Report(s, "Disconnected", "UserRequested") :
                     s \in EnsureRelease(StopTransports([session EXCEPT !.boot = NoTask]))}
  /\ tasks' = Kept(session'.boot)

Destroy ==
  /\ Alive
  /\ session' \in {Report(ClearRegistration(s), "Destroyed", "None") :
                     s \in ReleaseNow(StopTransports([session EXCEPT !.boot = NoTask]), TRUE, TRUE)}
  /\ tasks' = Kept(session'.boot)

-----------------------------------------------------------------------------
\* The detached threads.

Finished(t, task) ==
  IF session.boot = t THEN [task EXCEPT !.phase = "done"] ELSE IdleTask

TaskRegister(t) ==
  /\ tasks[t].phase = "register"
  /\ \E d \in HostOutcome(tasks[t].mode, "broker", session.listed) :
       /\ session' = [session EXCEPT !.listed = d.listed]
       /\ tasks' = [tasks EXCEPT ![t] =
            IF d.reply \in {"ok", "invalid"} /\ Joins(@.mode)
              THEN [@ EXCEPT !.host = d.reply, !.handle = d.handle, !.phase = "resolve"]
              ELSE Finished(t, [@ EXCEPT !.host = d.reply, !.handle = d.handle])]

TaskResolve(t) ==
  /\ tasks[t].phase = "resolve"
  /\ \E j \in JoinOutcome("broker") :
       tasks' = [tasks EXCEPT ![t] = Finished(t, [@ EXCEPT !.join = j])]
  /\ UNCHANGED session

ReleaseReply ==
  /\ session.release = "running"
  /\ \E d \in DirectoryRelease(session.handle, session.listed) :
       session' = [session EXCEPT !.release = d.reply, !.listed = d.listed]
  /\ UNCHANGED tasks

ReleasePublish ==
  /\ session.release \notin {"none", "running"}
  /\ ~session.releaseReady
  /\ session' = [session EXCEPT !.releaseReady = TRUE]
  /\ UNCHANGED tasks

RefreshReply ==
  /\ session.refresh = "running"
  /\ \E r \in DirectoryRefresh(session.handle, session.listed) :
       session' = [session EXCEPT !.refresh = r]
  /\ UNCHANGED tasks

-----------------------------------------------------------------------------
\* The directory, the transport, the peer and the clock.

\* The directory drops a listing whose lease ran out.  (The release thread that a
\* destroyed manager leaves behind does no more than this.)
Expire ==
  /\ \E h \in session.listed : session' = [session EXCEPT !.listed = @ \ {h}]
  /\ UNCHANGED tasks

ClientConnects ==
  /\ session.client = "connecting"
  /\ session' = [session EXCEPT !.client = "connected"]
  /\ UNCHANGED tasks

\* The runtime forgets a handshake under way with the connection, but not a rejection.
ClientLost ==
  /\ session.client = "connected"
  /\ session' = [session EXCEPT !.client = "lost",
                    !.auth = IF @ = "rejected" THEN @ ELSE "none"]
  /\ UNCHANGED tasks

\* Mutant: an Accept counts although no handshake is under way.
AuthAcceptLate ==
  /\ session.client = "connected"
  /\ session.auth # "accepted"
  /\ session' = [session EXCEPT !.auth = "accepted", !.authReason = "None"]
  /\ UNCHANGED tasks

AuthAccept ==
  /\ session.client = "connected"
  /\ session.auth = "pending"
  /\ session' = [session EXCEPT !.auth = "accepted"]
  /\ UNCHANGED tasks

\* A rejection by the server, or of an Accept that does not fit, disconnects the client ...
AuthReject ==
  /\ session.client = "connected"
  /\ \E r \in AuthError :
       session' = [session EXCEPT !.auth = "rejected", !.authReason = r, !.client = "lost"]
  /\ UNCHANGED tasks

\* ... and one by the runtime itself does not.  A handshake packet of the wrong size is
\* reason enough at any time, also after the session has been accepted.
RejectLocalSession ==
  /\ session.client = "connected"
  /\ \E r \in AuthError : session' = [session EXCEPT !.auth = "rejected", !.authReason = r]
  /\ UNCHANGED tasks

\* Mutant: the clock of a handshake does not run.
TimedConnecting(s) == s.state = "Connecting"
Timed(s) == s.state \in {"Connecting", "Handshaking"}

\* Ages stop counting at the longer timeout, where nothing more depends on them.
Tick ==
  LET longest == IF ConnectTimeout > HandshakeTimeout THEN ConnectTimeout ELSE HandshakeTimeout
      next == [session EXCEPT
                 !.age = IF Timed(session) /\ @ < longest THEN @ + 1 ELSE @,
                 !.retryIn = IF @ > 0 THEN @ - 1 ELSE @,
                 !.refreshIn = IF @ > 0 THEN @ - 1 ELSE @]
  IN  /\ Alive
      /\ next # session
      /\ session' = next
      /\ UNCHANGED tasks

-----------------------------------------------------------------------------
Thread ==
  \/ \E t \in Task : TaskRegister(t) \/ TaskResolve(t)
  \/ ReleaseReply \/ ReleasePublish \/ RefreshReply

Outside ==
  \/ Expire \/ ClientConnects \/ ClientLost
  \/ AuthAccept \/ AuthReject \/ RejectLocalSession

Next ==
  \/ Update \/ StartConfiguredSession \/ StopSession \/ Destroy
  \/ Thread \/ Outside \/ Tick

Spec == Init /\ [][Next]_vars

\* The game loop keeps calling Update, every thread's call returns, and time passes.
FairSpec ==
  /\ Spec
  /\ WF_vars(Update) /\ WF_vars(Tick)
  /\ \A t \in Task : WF_vars(TaskRegister(t)) /\ WF_vars(TaskResolve(t))
  /\ WF_vars(ReleaseReply) /\ WF_vars(ReleasePublish) /\ WF_vars(RefreshReply)

\* ... and from some moment on nobody starts, stops or destroys the session any more.
QuietSpec == FairSpec /\ <>[][~(StartConfiguredSession \/ StopSession \/ Destroy)]_vars

-----------------------------------------------------------------------------
\* The members of the manager have the types their declarations give them.
TypeOK == session \in Session /\ tasks \in [Task -> TaskRecord]

NoTransports(s) == ~s.server /\ s.client = "absent"

\* The pending operations agree with the registration they are about: nothing is being
\* refreshed or released without one, a bootstrap is polled only while nothing else is
\* up, and a registration never waits for a retry and is blocked at once.
Bookkeeping(s) ==
  /\ s.boot # NoTask => NoTransports(s) /\ s.handle = NoHandle
  /\ s.handle = NoHandle => /\ s.release = "none" /\ s.refresh = "none"
                            /\ ~s.releasePending /\ ~s.releaseBlocked /\ ~s.async
  /\ ~s.async => s.release = "none" /\ s.refresh = "none"
  /\ s.releaseBlocked => s.release = "none" /\ ~s.releasePending
  /\ s.releaseReady => s.release \notin {"none", "running"}
PendingWorkIsOwned == Bookkeeping(session)

\* The reported state and the transports agree: no path that fails, stops or gives up
\* an attempt leaves a transport open behind a state that says nothing is running, and
\* no live state is reported without the transport it stands for.
StateMatches(s) ==
  /\ Timed(s) => s.client # "absent"
  /\ s.state = "Connected" => s.client # "connecting" /\ (s.server \/ s.client # "absent")
  /\ (s.state \in {"Connecting", "Handshaking", "Connected"} /\ s.handle # NoHandle) => s.server
  /\ s.state = "Disconnected" => ~s.server /\ s.client \in {"absent", "lost"}
  /\ s.state \in {"Idle", "Resolving", "Failed", "Destroyed"} => NoTransports(s)
TransportsMatchState == StateMatches(session)

\* A session with a client becomes Connected by an accepted handshake over the transport
\* it has, and by nothing else.  The runtime may reject it later, which Update does not
\* look at: it stays Connected, but neither a late Accept nor a frame that has not seen
\* the rejection makes it authenticated again.
Up(s) == s.state = "Connected" /\ s.client = "connected"
ConnectedByAcceptance ==
  [][Up(session') =>
       \/ session'.auth = "accepted" /\ (Up(session) => session.auth = "accepted")
       \/ session'.auth = "rejected" /\ Up(session)]_vars

\* A registration that outlives its session is on its way out: a release is running or
\* will be retried, unless the directory refused it for good.
Released(s) ==
  (s.state \in {"Idle", "Resolving", "Disconnected", "Failed"} /\ s.handle # NoHandle)
     => s.release # "none" \/ s.releasePending \/ s.releaseBlocked
ReleaseNotForgotten == Released(session)

\* The manager lets go of a registration only when the directory no longer lists it;
\* whatever replies are lost, whatever failed before, only destruction may leak one.
HandleKeptWhileListed ==
  [][(session.handle # NoHandle /\ session'.handle # session.handle)
       => session.handle \notin session'.listed \/ session'.state = "Destroyed"]_vars

\* What the pending bootstrap has registered reaches the manager: until then its thread
\* keeps the handle, and whichever way the result fails the manager has captured it, to
\* release it.  Only a stop, or destruction, abandons a registration on its way.
Obtained == IF session.boot = NoTask THEN NoHandle ELSE tasks[session.boot].handle
ObtainedIsKept ==
  [][(Obtained \in session'.listed /\ session'.state \notin {"Disconnected", "Destroyed"})
       => Obtained \in {session'.handle, Obtained'}]_vars

\* A session that is down comes back up only by being started again: no late release,
\* refresh or bootstrap result collected by Update revives it.  (A start refused because
\* a bootstrap is under way reports Failed; that bootstrap may still bring the session up.)
DownStaysDown ==
  [][(/\ Update
      /\ session.state \in {"Idle", "Disconnected", "Failed"}
      /\ session.state = "Failed" => session.boot = NoTask)
       => session'.state \in {"Idle", "Disconnected", "Failed"}]_vars

\* An attempt left alone is decided: no session stays Resolving, Connecting or
\* Handshaking for ever, whatever the directory, the peer and the network do.
AttemptsEnd == <>[](session.state \notin {"Resolving", "Connecting", "Handshaking"})

\* A release that failed for a passing reason is attempted again.
ReleaseIsRetried ==
  session.releasePending ~> (session.release # "none" \/ ~session.releasePending)

\* A rejected handshake reports the reason it was rejected for.
RejectionReasonReported ==
  [][(Update /\ session.state = "Handshaking" /\ session.auth = "rejected"
        /\ session'.state = "Failed") => session'.reason = session.authReason]_vars

\* A stopped session with no release left to make is listed nowhere.
StopUnlists ==
  (/\ session.state = "Disconnected" /\ session.reason = "UserRequested"
   /\ session.handle = NoHandle /\ \A t \in Task : Unused(t))
     => session.listed = {}
=============================================================================
