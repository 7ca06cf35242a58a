------------------------ MODULE SessionManagerProofs ------------------------
(***************************************************************************)
(* Safety of the session manager for every set of handles and threads,     *)
(* every subset of flows and errors, and every timeout and lease.          *)
(*                                                                         *)
(* A handler is a composition of methods, so the invariant is carried      *)
(* through them: Core holds of every state a method may find, Good of      *)
(* every state a handler may leave.  One lemma per method, then one step   *)
(* per action.                                                             *)
(***************************************************************************)
EXTENDS SessionManager, TLAPS

Core(s) == s \in Session /\ Bookkeeping(s)

\* What is left of a registration is being released.
Releasing(s) ==
  s.handle # NoHandle => s.release # "none" \/ s.releasePending \/ s.releaseBlocked

\* Nobody is up without having been accepted; a rejection may have followed.
Admitted(s) == Up(s) => s.auth \in {"accepted", "rejected"}

Good(s) == Core(s) /\ StateMatches(s) /\ Admitted(s) /\ Released(s)

\* Only sessions that host or join are bootstrapped.
TasksGood ==
  /\ tasks \in [Task -> TaskRecord]
  /\ \A t \in Task : tasks[t].phase # "idle" => tasks[t].mode # "None"

IInv == Good(session) /\ TasksGood

\* t differs from s only in the course of the registration, which goes on or ends.
Keeps(s, t) ==
  /\ t.state = s.state /\ t.server = s.server /\ t.client = s.client /\ t.auth = s.auth
  /\ t.boot = s.boot
  /\ t.handle \in {s.handle, NoHandle}
  /\ Releasing(s) => Releasing(t)

-----------------------------------------------------------------------------
\* Keeping the session and continuing the release keeps a state good.
LEMMA KeepsGood ==
  ASSUME NEW s, NEW t, Good(s), Core(t), Keeps(s, t)
  PROVE  Good(t)
  BY DEF Good, Core, Keeps, StateMatches, Admitted, Up, Released, Releasing, Timed,
         NoTransports, Session

\* Every answer to a release leaves a set of handles and is an error or "ok".
LEMMA ReleaseAnswers ==
  ASSUME NEW h, NEW listed \in SUBSET Handle, NEW d \in DirectoryRelease(h, listed)
  PROVE  d.reply \in {"ok"} \cup DirectoryError /\ d.listed \in SUBSET Handle
  BY DEF DirectoryRelease, LostReply

\* RecordRelease (NetworkSessionManager.cpp:703-735, 1048-1087) leaves nothing unreleased.
LEMMA RecordReleaseGood ==
  ASSUME NEW s, Core(s), s.release = "none", s.releaseReady = FALSE, s.handle # NoHandle,
         NEW reply \in {"ok"} \cup DirectoryError
  PROVE  Core(RecordRelease(s, reply)) /\ Keeps(s, RecordRelease(s, reply))
           /\ Releasing(RecordRelease(s, reply))
<1>1. CASE reply \in {"ok", "SessionClosed"}
  BY <1>1, SessionAssumption
     DEF RecordRelease, ClearRegistration, Core, Session, Bookkeeping, Keeps, Releasing,
         NoTransports, Future
<1>2. CASE reply \notin {"ok", "SessionClosed"} /\ reply \in Retryable
  BY <1>2, SessionAssumption
     DEF RecordRelease, Core, Session, Bookkeeping, Keeps, Releasing, NoTransports
<1>3. CASE reply \notin {"ok", "SessionClosed"} /\ reply \notin Retryable
  BY <1>3, SessionAssumption
     DEF RecordRelease, Core, Session, Bookkeeping, Keeps, Releasing, NoTransports
<1> QED BY <1>1, <1>2, <1>3

LEMMA ConsumeReleaseGood ==
  ASSUME NEW s, Core(s)
  PROVE  Core(ConsumeRelease(s)) /\ Keeps(s, ConsumeRelease(s))
<1> DEFINE t == [s EXCEPT !.release = "none", !.releaseReady = FALSE]
<1>1. CASE ~s.releaseReady
  BY <1>1 DEF ConsumeRelease, Keeps
<1>2. CASE s.releaseReady
  <2>1. s.handle # NoHandle /\ s.release \in {"ok"} \cup DirectoryError
    BY <1>2 DEF Core, Bookkeeping, Session, Future
  <2>2. Core(t) /\ t.release = "none" /\ t.releaseReady = FALSE /\ t.handle # NoHandle
    BY <1>2, <2>1 DEF Core, Bookkeeping, Session, Future, NoTransports
  <2>3. /\ Core(RecordRelease(t, s.release)) /\ Keeps(t, RecordRelease(t, s.release))
        /\ Releasing(RecordRelease(t, s.release))
    BY <2>1, <2>2, RecordReleaseGood
  <2>4. ConsumeRelease(s) = RecordRelease(t, s.release)
    BY <1>2, <2>1 DEF ConsumeRelease
  <2>5. t.state = s.state /\ t.server = s.server /\ t.client = s.client /\ t.auth = s.auth
        /\ t.boot = s.boot /\ t.handle = s.handle
    BY DEF Core, Session
  <2> QED BY <2>3, <2>4, <2>5 DEF Keeps
<1> QED BY <1>1, <1>2

LEMMA ConsumeReleaseRacingGood ==
  ASSUME NEW s, Core(s), NEW t \in ConsumeReleaseRacing(s)
  PROVE  Core(t) /\ Keeps(s, t)
<1> DEFINE r == [s EXCEPT !.releaseReady = TRUE]
<1>1. CASE t = ConsumeRelease(s)
  BY <1>1, ConsumeReleaseGood
<1>2. CASE s.release \notin {"none", "running"} /\ t = ConsumeRelease(r)
  <2>1. Core(r) /\ (Keeps(r, t) => Keeps(s, t))
    BY <1>2 DEF Core, Session, Bookkeeping, NoTransports, Keeps, Releasing
  <2> QED BY <1>2, <2>1, ConsumeReleaseGood
<1> QED BY <1>1, <1>2 DEF ConsumeReleaseRacing

LEMMA RacingKeepsAsync ==
  ASSUME NEW s, Core(s), s.async, NEW t \in ConsumeReleaseRacing(s), t.handle # NoHandle
  PROVE  t.async
<1>1. s \in Session
  BY DEF Core
<1>2. ASSUME NEW r \in Session, r.async = TRUE, NEW reply, RecordRelease(r, reply).handle # NoHandle
      PROVE  RecordRelease(r, reply).async
  <2>1. ClearRegistration(r).handle = NoHandle
    BY <1>2 DEF ClearRegistration, Session
  <2>2. reply \notin {"ok", "SessionClosed"}
    BY <1>2, <2>1 DEF RecordRelease
  <2> QED BY <1>2, <2>2 DEF RecordRelease, Session
<1>3. ASSUME NEW r \in Session, r.async = TRUE, ConsumeRelease(r).handle # NoHandle
      PROVE  ConsumeRelease(r).async
  <2> DEFINE u == [r EXCEPT !.release = "none", !.releaseReady = FALSE]
  <2>1. u \in Session /\ u.async = TRUE /\ u.handle = r.handle
    BY <1>3 DEF Session, Future
  <2>2. ConsumeRelease(r) \in {r, u, RecordRelease(u, r.release)}
    BY DEF ConsumeRelease
  <2> HIDE DEF u
  <2> QED BY <1>2, <1>3, <2>1, <2>2
<1>4. CASE t = ConsumeRelease(s)
  BY <1>1, <1>3, <1>4 DEF Session
<1>5. CASE t = ConsumeRelease([s EXCEPT !.releaseReady = TRUE])
  <2> DEFINE r == [s EXCEPT !.releaseReady = TRUE]
  <2>1. r \in Session /\ r.async = TRUE
    BY <1>1 DEF Session
  <2> HIDE DEF r
  <2> QED BY <1>3, <1>5, <2>1 DEF r
<1> QED BY <1>4, <1>5 DEF ConsumeReleaseRacing

\* A release begun by force on a detached thread leaves nothing unreleased.
LEMMA BeginReleaseGood ==
  ASSUME NEW s, Core(s), s.handle # NoHandle => s.async, NEW force \in BOOLEAN
  PROVE  /\ Core(BeginRelease(s, force)) /\ Keeps(s, BeginRelease(s, force))
         /\ force => Releasing(BeginRelease(s, force))
<1>1. CASE s.release = "none" /\ MayAttempt(s, force, FALSE)
  BY <1>1 DEF BeginRelease, MayAttempt, Core, Session, Bookkeeping, NoTransports, Keeps,
              Releasing, Future
<1>2. CASE ~(s.release = "none" /\ MayAttempt(s, force, FALSE))
  BY <1>2 DEF BeginRelease, MayAttempt, Core, Session, Keeps, Releasing
<1> QED BY <1>1, <1>2

\* So does one made on the game thread.
LEMMA ReleaseNowGood ==
  ASSUME NEW s, Core(s), ~s.async, NEW force \in BOOLEAN, NEW allow \in BOOLEAN,
         NEW t \in ReleaseNow(s, force, allow)
  PROVE  Core(t) /\ Keeps(s, t) /\ (force => Releasing(t))
<1>1. CASE MayAttempt(s, force, allow)
  <2>1. PICK d \in DirectoryRelease(s.handle, s.listed) :
          t = RecordRelease([s EXCEPT !.listed = d.listed], d.reply)
    BY <1>1 DEF ReleaseNow
  <2> DEFINE u == [s EXCEPT !.listed = d.listed]
  <2>2. d.reply \in {"ok"} \cup DirectoryError /\ d.listed \in SUBSET Handle
    <3>1. s.listed \in SUBSET Handle
      BY DEF Core, Session
    <3> QED BY <3>1, ReleaseAnswers
  <2>3. Core(u) /\ u.release = "none" /\ u.releaseReady = FALSE /\ u.handle # NoHandle
    BY <1>1, <2>2 DEF MayAttempt, Core, Session, Bookkeeping, NoTransports
  <2>4. Core(t) /\ Keeps(u, t) /\ Releasing(t)
    BY <2>1, <2>2, <2>3, RecordReleaseGood
  <2>5. Keeps(u, t) => Keeps(s, t)
    BY <1>1 DEF Core, Session, Keeps, Releasing
  <2> QED BY <2>4, <2>5
<1>2. CASE ~MayAttempt(s, force, allow)
  BY <1>2 DEF ReleaseNow, MayAttempt, Core, Session, Keeps, Releasing
<1> QED BY <1>1, <1>2

\* EnsureHostedSessionReleaseScheduled(true) does what its name says.
LEMMA EnsureReleaseGood ==
  ASSUME NEW s, Core(s), NEW t \in EnsureRelease(s)
  PROVE  Core(t) /\ Keeps(s, t) /\ Releasing(t)
<1>1. CASE s.handle = NoHandle
  BY <1>1 DEF EnsureRelease, Keeps, Releasing
<1>2. CASE s.handle # NoHandle /\ s.async
  <2>1. PICK u \in ConsumeReleaseRacing(s) : t = BeginRelease(u, TRUE)
    BY <1>2 DEF EnsureRelease
  <2>2. Core(u) /\ Keeps(s, u)
    BY ConsumeReleaseRacingGood
  <2>3. u.handle # NoHandle => u.async
    BY <1>2, RacingKeepsAsync
  <2>4. Core(t) /\ Keeps(u, t) /\ Releasing(t)
    BY <2>1, <2>2, <2>3, BeginReleaseGood
  <2> QED BY <2>2, <2>4 DEF Keeps
<1>3. CASE s.handle # NoHandle /\ ~s.async
  BY <1>3, ReleaseNowGood DEF EnsureRelease
<1> QED BY <1>1, <1>2, <1>3

LEMMA RetryReleaseGood ==
  ASSUME NEW s, Core(s), NEW t \in RetryRelease(s)
  PROVE  Core(t) /\ Keeps(s, t)
<1>1. CASE s.handle = NoHandle \/ ~s.releasePending \/ s.releaseBlocked
  BY <1>1 DEF RetryRelease, Keeps
<1>2. CASE ~(s.handle = NoHandle \/ ~s.releasePending \/ s.releaseBlocked) /\ s.async
  BY <1>2, BeginReleaseGood DEF RetryRelease
<1>3. CASE ~(s.handle = NoHandle \/ ~s.releasePending \/ s.releaseBlocked) /\ ~s.async
  BY <1>3, ReleaseNowGood DEF RetryRelease
<1> QED BY <1>1, <1>2, <1>3

-----------------------------------------------------------------------------
LEMMA StopTransportsGood ==
  ASSUME NEW s, Core(s)
  PROVE  /\ Core(StopTransports(s)) /\ NoTransports(StopTransports(s))
         /\ StopTransports(s).state = s.state /\ StopTransports(s).boot = s.boot
         /\ StopTransports(s).handle = s.handle /\ StopTransports(s).async = s.async
<1>1. CASE s.server \/ s.client # "absent"
  <2> DEFINE t == [s EXCEPT !.server = FALSE, !.client = "absent",
                            !.auth = "none", !.authReason = "None"]
  <2>1. StopTransports(s) = t
    BY <1>1 DEF StopTransports
  <2>2. t \in Session
    BY DEF Core, Session, DisconnectReason
  <2>3. Bookkeeping(t) /\ NoTransports(t) /\ t.state = s.state /\ t.boot = s.boot
        /\ t.handle = s.handle /\ t.async = s.async
    BY DEF Core, Session, Bookkeeping, NoTransports
  <2> QED BY <2>1, <2>2, <2>3 DEF Core
<1>2. CASE ~(s.server \/ s.client # "absent")
  BY <1>2 DEF StopTransports, NoTransports
<1> QED BY <1>1, <1>2

\* A failure is a good state once the transports are down and the release is under way.
LEMMA FailGood ==
  ASSUME NEW s, Core(s), NoTransports(s), Releasing(s), NEW r \in DisconnectReason
  PROVE  Good(Fail(s, r)) /\ Fail(s, r).boot = s.boot
  BY DEF Fail, Report, Good, Core, Session, Bookkeeping, NoTransports, StateMatches, Timed,
         Admitted, Up, Released, Releasing, ConnectionState

LEMMA CleanupGood ==
  ASSUME NEW s, Core(s), NEW t \in EnsureRelease(StopTransports(s)), NEW r \in DisconnectReason
  PROVE  /\ Core(t) /\ NoTransports(t) /\ Releasing(t) /\ t.boot = s.boot
         /\ Good(Fail(t, r)) /\ Fail(t, r).boot = s.boot
<1>1. Core(t) /\ Keeps(StopTransports(s), t) /\ Releasing(t)
  BY StopTransportsGood, EnsureReleaseGood
<1>2. NoTransports(t) /\ t.boot = s.boot
  BY <1>1, StopTransportsGood DEF Keeps, NoTransports
<1> QED BY <1>1, <1>2, FailGood

-----------------------------------------------------------------------------
\* A refresh is never due before now, however short the lease.
LEMMA RefreshDelayType ==
  ASSUME NEW lease \in Lease
  PROVE  RefreshDelay(lease) \in Nat
<1> DEFINE half == lease \div 2
           lead == IF half < MinLead THEN MinLead ELSE IF half > MaxLead THEN MaxLead ELSE half
<1>1. lease \in Nat /\ half \in Int
  BY SessionAssumption
<1>2. lead \in Int
  BY <1>1, SessionAssumption
<1>3. RefreshDelay(lease) = IF lease <= lead THEN 0 ELSE lease - lead
  BY DEF RefreshDelay
<1> HIDE DEF lead
<1> QED BY <1>1, <1>2, <1>3

LEMMA RenewGood ==
  ASSUME NEW s, Good(s), NEW l \in Lease
  PROVE  Good(Renew(s, l)) /\ Renew(s, l).boot = s.boot
<1>1. RefreshDelay(l) \in Nat
  BY RefreshDelayType
<1> DEFINE t == [s EXCEPT !.leased = TRUE, !.refreshIn = RefreshDelay(l)]
<1>2. t \in Session
  BY <1>1 DEF Good, Core, Session
<1>3. Good(t) /\ t.boot = s.boot
  BY <1>2 DEF Good, Core, Session, Bookkeeping, NoTransports, StateMatches, Timed,
              Admitted, Up, Released
<1> QED BY <1>3 DEF Renew

LEMMA RefreshFailureGood ==
  ASSUME NEW s, Core(s), NEW r \in DirectoryError, NEW t \in RefreshFailure(s, r)
  PROVE  Good(t) /\ t.boot = s.boot
<1>1. r \in DisconnectReason
  BY SessionAssumption
<1> QED BY <1>1, CleanupGood DEF RefreshFailure

\* Collecting a refresh takes one good state to another, and so does making one.
LEMMA ConsumeRefreshGood ==
  ASSUME NEW s, Good(s), NEW t \in ConsumeRefresh(s)
  PROVE  Good(t) /\ t.boot = s.boot
<1> DEFINE u == [s EXCEPT !.refresh = "none"]
<1>1. CASE s.refresh \in {"none", "running"}
  BY <1>1 DEF ConsumeRefresh
<1>2. CASE s.refresh \notin {"none", "running"}
  <2>1. Good(u) /\ u.boot = s.boot
    BY DEF Good, Core, Session, Bookkeeping, NoTransports, StateMatches, Timed,
           Admitted, Up, Released, Future
  <2>2. s.refresh \in {"ok"} \cup DirectoryError
    BY <1>2 DEF Good, Core, Session, Future
  <2>3. CASE s.handle = NoHandle
    BY <1>2, <2>1, <2>3 DEF ConsumeRefresh
  <2>4. CASE s.handle # NoHandle /\ s.refresh = "ok"
    <3>1. PICK l \in Lease : t = Renew(u, l)
      BY <1>2, <2>4 DEF ConsumeRefresh
    <3> QED BY <2>1, <3>1, RenewGood
  <2>5. CASE s.handle # NoHandle /\ s.refresh # "ok"
    <3>1. t \in RefreshFailure(u, s.refresh)
      BY <1>2, <2>5 DEF ConsumeRefresh
    <3> QED BY <2>1, <2>2, <2>5, <3>1, RefreshFailureGood DEF Good
  <2> QED BY <2>3, <2>4, <2>5
<1> QED BY <1>1, <1>2

LEMMA RefreshGood ==
  ASSUME NEW s, Good(s), NEW t \in Refresh(s)
  PROVE  Good(t)
<1>1. CASE s.handle = NoHandle \/ s.releasePending \/ ~s.leased \/ s.refreshIn > 0
  BY <1>1 DEF Refresh
<1>2. CASE ~(s.handle = NoHandle \/ s.releasePending \/ ~s.leased \/ s.refreshIn > 0) /\ s.async
  <2>1. t = [s EXCEPT !.refresh = IF @ = "none" THEN "running" ELSE @]
    BY <1>2 DEF Refresh
  <2> QED BY <1>2, <2>1 DEF Good, Core, Session, Bookkeeping, NoTransports, StateMatches, Timed,
                       Admitted, Up, Released, Future
<1>3. CASE ~(s.handle = NoHandle \/ s.releasePending \/ ~s.leased \/ s.refreshIn > 0) /\ ~s.async
  <2> DEFINE reply == DirectoryRefresh(s.handle, s.listed)
  <2>1. reply \ {"ok"} \subseteq DirectoryError
    BY DEF DirectoryRefresh
  <2>2. \/ \E l \in Lease : t = Renew(s, l)
        \/ \E e \in reply \ {"ok"} : t \in RefreshFailure(s, e)
    BY <1>3 DEF Refresh
  <2> QED BY <2>1, <2>2, RenewGood, RefreshFailureGood DEF Good
<1> QED BY <1>1, <1>2, <1>3

-----------------------------------------------------------------------------
\* Applying a bootstrap result.  Nothing is up and nothing is held when one is applied.
Ready(s) == Core(s) /\ NoTransports(s) /\ s.handle = NoHandle /\ s.boot = NoTask

\* A host that opens its transports holds a registration, or none.
Opening(s, hosting) ==
  /\ Core(s) /\ s.boot = NoTask /\ s.client = "absent"
  /\ ~hosting => s.handle = NoHandle

LEMMA CaptureGood ==
  ASSUME NEW s, Ready(s), NEW h \in Handle, NEW l \in Lease, NEW async \in BOOLEAN
  PROVE  /\ Core(CaptureRegistration(s, h, l, async))
         /\ NoTransports(CaptureRegistration(s, h, l, async))
         /\ CaptureRegistration(s, h, l, async).boot = NoTask
<1> DEFINE d == RefreshDelay(l)
           leased == (l # 0)
           t == [s EXCEPT !.handle = h, !.async = async, !.leased = leased,
                          !.refreshIn = d, !.releasePending = FALSE,
                          !.releaseBlocked = FALSE, !.retryIn = 0]
<1>1. d \in Nat /\ leased \in BOOLEAN
  BY RefreshDelayType
<1> HIDE DEF d, leased
<1>2. t \in Session
  <2> DEFINE t1 == [s EXCEPT !.handle = h, !.async = async, !.leased = leased]
             t2 == [t1 EXCEPT !.refreshIn = d, !.releasePending = FALSE,
                              !.releaseBlocked = FALSE, !.retryIn = 0]
  <2>1. t1 \in Session
    BY <1>1 DEF Ready, Core, Session
  <2>2. t = t2
    OBVIOUS
  <2> HIDE DEF t1
  <2>3. t2 \in Session
    BY <1>1, <2>1 DEF Session
  <2> QED BY <2>2, <2>3
<1>3. Bookkeeping(t) /\ NoTransports(t) /\ t.boot = NoTask
  <2>1. /\ t.handle # NoHandle /\ t.boot = NoTask /\ NoTransports(t) /\ ~t.releaseBlocked
        /\ t.release = s.release /\ t.refresh = s.refresh /\ t.releaseReady = s.releaseReady
    BY SessionAssumption DEF Ready, Core, Session, NoTransports
  <2> QED BY <2>1 DEF Ready, Core, Bookkeeping
<1>4. CaptureRegistration(s, h, l, async) = t
  BY DEF CaptureRegistration, d, leased
<1> QED BY <1>2, <1>3, <1>4 DEF Core

LEMMA OpenClientGood ==
  ASSUME NEW s, NEW mode \in HostingMode, Opening(s, Hosts(mode)), s.server = Hosts(mode),
         NEW join \in {"ok"} \cup DisconnectReason, NEW t \in OpenClient(s, mode, join)
  PROVE  Good(t)
<1>1. ASSUME NEW r \in DisconnectReason, NEW u \in GiveUpHosting(s, mode)
      PROVE  Good(Fail(u, r))
  <2>1. CASE Hosts(mode)
    BY <1>1, <2>1, CleanupGood DEF GiveUpHosting, Opening
  <2>2. CASE ~Hosts(mode)
    <3>1. u = s /\ NoTransports(s) /\ Releasing(s) /\ Core(s)
      BY <1>1, <2>2 DEF GiveUpHosting, Opening, NoTransports, Releasing
    <3> QED BY <3>1, FailGood
  <2> QED BY <2>1, <2>2
<1>2. CASE join # "ok"
  BY <1>1, <1>2 DEF OpenClient
<1>3. CASE join = "ok"
  <2> DEFINE c == [Report(s, "Connecting", "None") EXCEPT !.client = "connecting"]
  <2>1. c \in Session
    BY DEF Opening, Core, Session, Report, ConnectionState, DisconnectReason
  <2>2. Good(c)
    BY <2>1 DEF Opening, Good, Core, Session, Report, Bookkeeping, NoTransports, StateMatches,
                Timed, Admitted, Up, Released
  <2>3. t = c \/ \E u \in GiveUpHosting(s, mode) : t = Fail(u, "TransportError")
    BY <1>3 DEF OpenClient
  <2> QED BY <1>1, <2>2, <2>3 DEF DisconnectReason
<1> QED BY <1>2, <1>3

LEMMA OpenTransportsGood ==
  ASSUME NEW s, NEW b \in TaskRecord, b.mode # "None", Opening(s, Hosts(b.mode)),
         NoTransports(s), NEW t \in OpenTransports(s, b)
  PROVE  Good(t)
<1> DEFINE u == [s EXCEPT !.server = Hosts(b.mode)]
<1>1. b.mode \in HostingMode /\ b.join \in {"ok"} \cup DisconnectReason
      /\ (Hosts(b.mode) \/ Joins(b.mode)) /\ Hosts(b.mode) \in BOOLEAN
  BY DEF TaskRecord, HostingMode, Hosts, Joins
<1>2. CASE Hosts(b.mode) /\ \E v \in EnsureRelease(s) : t = Fail(v, "TransportError")
  <2>1. PICK v \in EnsureRelease(s) : t = Fail(v, "TransportError")
    BY <1>2
  <2>2. Core(v) /\ Keeps(s, v) /\ Releasing(v)
    BY EnsureReleaseGood DEF Opening
  <2>3. NoTransports(v)
    BY <2>2 DEF Keeps, NoTransports
  <2> QED BY <2>1, <2>2, <2>3, FailGood DEF DisconnectReason
<1> DEFINE hosts == Hosts(b.mode)
<1>3. Opening(u, Hosts(b.mode)) /\ u.server = Hosts(b.mode) /\ u.client = "absent"
  <2> HIDE DEF hosts
  <2> DEFINE v == [s EXCEPT !.server = hosts]
  <2>1. hosts \in BOOLEAN
    BY <1>1 DEF hosts
  <2>2. v \in Session
    BY <2>1 DEF Opening, Core, Session
  <2>3. Bookkeeping(v) /\ v.server = hosts /\ v.client = "absent" /\ v.boot = NoTask
        /\ v.handle = s.handle
    BY <2>1 DEF Opening, Core, Session, Bookkeeping, NoTransports
  <2> QED BY <2>2, <2>3 DEF Opening, Core, hosts
<1> HIDE DEF u
<1>4. CASE Joins(b.mode) /\ t \in OpenClient(u, b.mode, b.join)
  BY <1>1, <1>3, <1>4, OpenClientGood
<1>5. CASE ~Joins(b.mode) /\ t = Report(u, "Connected", "None")
  <2>1. t \in Session
    BY <1>3, <1>5 DEF Opening, Core, Session, Report, ConnectionState, DisconnectReason
  <2>2. t.state = "Connected" /\ t.server /\ t.client = "absent" /\ t.boot = NoTask
    BY <1>1, <1>3, <1>5 DEF Opening, Core, Session, Report
  <2>3. Bookkeeping(t)
    BY <1>3, <1>5, <2>2 DEF Opening, Core, Session, Report, Bookkeeping
  <2> QED BY <2>1, <2>2, <2>3 DEF Good, Core, StateMatches, Timed, NoTransports,
                                  Admitted, Up, Released
<1> QED BY <1>2, <1>4, <1>5 DEF OpenTransports, u

LEMMA ApplyBootstrapGood ==
  ASSUME NEW s, Ready(s), NEW b \in TaskRecord, b.mode # "None", NEW async \in BOOLEAN,
         NEW t \in ApplyBootstrap(s, b, async)
  PROVE  Good(t)
<1>1. CASE ~Hosts(b.mode)
  <2>1. t \in OpenTransports(s, b)
    BY <1>1 DEF ApplyBootstrap
  <2> QED BY <1>1, <2>1, OpenTransportsGood DEF Ready, Opening, NoTransports
<1>2. CASE Hosts(b.mode) /\ b.host \notin {"ok", "invalid"}
  <2>1. t = Fail(s, b.host) /\ b.host \in DisconnectReason
    BY <1>2 DEF ApplyBootstrap, TaskRecord
  <2> QED BY <2>1, FailGood DEF Ready, Releasing
<1>3. CASE Hosts(b.mode) /\ b.host \in {"ok", "invalid"}
  <2> DEFINE captured(l) ==
        IF b.handle = NoHandle THEN s ELSE CaptureRegistration(s, b.handle, l, async)
  <2>1. PICK l \in Lease :
          t \in IF b.host = "invalid" THEN {Fail(v, "BootstrapFailed") : v \in EnsureRelease(captured(l))}
                ELSE OpenTransports(captured(l), b)
    BY <1>3 DEF ApplyBootstrap
  <2> DEFINE u == captured(l)
  <2>2. Core(u) /\ NoTransports(u) /\ u.boot = NoTask
    BY CaptureGood DEF Ready, TaskRecord
  <2> HIDE DEF u
  <2>3. CASE b.host = "invalid"
    <3>1. PICK v \in EnsureRelease(u) : t = Fail(v, "BootstrapFailed")
      BY <2>1, <2>3 DEF u
    <3>2. Core(v) /\ Keeps(u, v) /\ Releasing(v)
      BY <2>2, EnsureReleaseGood
    <3>3. NoTransports(v)
      BY <2>2, <3>2 DEF Keeps, NoTransports
    <3> QED BY <3>1, <3>2, <3>3, FailGood DEF DisconnectReason
  <2>4. CASE b.host # "invalid"
    <3>1. t \in OpenTransports(u, b)
      BY <2>1, <2>4 DEF u
    <3> QED BY <1>3, <2>2, <3>1, OpenTransportsGood DEF Opening, NoTransports
  <2> QED BY <2>3, <2>4
<1> QED BY <1>1, <1>2, <1>3

LEMMA ConsumeBootstrapGood ==
  ASSUME NEW s, Good(s), TasksGood, BootReady(s), NEW t \in ConsumeBootstrap(s)
  PROVE  Good(t)
<1> DEFINE u == [s EXCEPT !.boot = NoTask]
<1>1. s.boot \in Task /\ tasks[s.boot] \in TaskRecord /\ tasks[s.boot].mode # "None"
  BY DEF BootReady, Good, Core, Session, TasksGood
<1>2. Ready(u)
  BY <1>1, SessionAssumption
     DEF Good, Core, Session, Bookkeeping, NoTransports, Ready
<1> QED BY <1>1, <1>2, ApplyBootstrapGood DEF ConsumeBootstrap

-----------------------------------------------------------------------------
\* The session's own steps (NetworkSessionManager.cpp:377-474).
LEMMA AdvanceGood ==
  ASSUME NEW s, Good(s), NEW t \in Advance(s)
  PROVE  Good(t)
<1>1. ASSUME NEW r \in DisconnectReason, NEW u \in EnsureRelease(StopTransports(s))
      PROVE  Good(Fail(u, r))
  BY <1>1, CleanupGood DEF Good
<1>2. \A u \in EnsureRelease(StopTransports(s)) : u.authReason \in DisconnectReason
  BY CleanupGood DEF Good, Core, Session, DisconnectReason
<1>3. CASE t = s
  BY <1>3
<1>4. CASE t \in TimeOut(s)
  BY <1>1, <1>4 DEF TimeOut, Dropped, DisconnectReason
<1>5. CASE t \in FailHandshake(s)
  BY <1>1, <1>2, <1>5 DEF FailHandshake, Dropped
<1>6. CASE s.state = "Connecting" /\ s.client = "connected" /\ t = BeginHandshake(s)
  <2>1. t \in Session
    BY <1>6 DEF Good, Core, Session, BeginHandshake, Report, ConnectionState, DisconnectReason
  <2> QED BY <1>6, <2>1 DEF Good, Core, Session, BeginHandshake, Report, Bookkeeping,
             NoTransports, StateMatches, Timed, Admitted, Up, Released
<1>7. CASE s.state = "Handshaking" /\ IsSessionAuthenticated(s) /\ t = Report(s, "Connected", "None")
  <2>1. t \in Session
    BY <1>7 DEF Good, Core, Session, Report, ConnectionState, DisconnectReason
  <2> QED BY <1>7, <2>1 DEF Good, Core, Session, Report, Bookkeeping, IsSessionAuthenticated,
             NoTransports, StateMatches, Timed, Admitted, Up, Released
<1>8. CASE /\ s.state = "Connected" /\ s.client \in {"connecting", "lost"} /\ ~s.server
           /\ t = Report(s, "Disconnected", "TransportError")
  <2>1. t \in Session
    BY <1>8 DEF Good, Core, Session, Report, ConnectionState, DisconnectReason
  <2> QED BY <1>8, <2>1 DEF Good, Core, Session, Report, Bookkeeping,
             NoTransports, StateMatches, Timed, Admitted, Up, Released
<1> QED BY <1>3, <1>4, <1>5, <1>6, <1>7, <1>8 DEF Advance

LEMMA MaintainGood ==
  ASSUME NEW s, Good(s), NEW t \in Maintain(s)
  PROVE  Good(t)
<1>1. PICK u \in RetryRelease(s) : t \in UNION {Advance(v) : v \in Refresh(u)}
  BY DEF Maintain
<1>2. Good(u)
  BY RetryReleaseGood, KeepsGood DEF Good
<1>3. PICK v \in Refresh(u) : t \in Advance(v)
  BY <1>1
<1> QED BY <1>2, <1>3, RefreshGood, AdvanceGood

LEMMA PollGood ==
  ASSUME NEW s, Good(s), TasksGood
  PROVE  \A t \in PollFailed(s) \cup Polled(s) : Good(t)
<1> DEFINE a == ConsumeRelease(s)
<1>1. Good(a)
  BY ConsumeReleaseGood, KeepsGood DEF Good
<1> HIDE DEF a
<1>2. \A b \in ConsumeRefresh(a) : Good(b)
  BY <1>1, ConsumeRefreshGood
<1>3. \A b \in ConsumeRefresh(a) : BootReady(b) => \A c \in ConsumeBootstrap(b) : Good(c)
  BY <1>2, ConsumeBootstrapGood
<1>4. \A t \in PollFailed(s) : Good(t)
  BY <1>2, <1>3 DEF PollFailed, a
<1>5. \A t \in Polled(s) : Good(t)
  BY <1>2, <1>3 DEF Polled, a
<1> QED BY <1>4, <1>5

-----------------------------------------------------------------------------
\* Threads whose result nobody waits for end with nothing.
LEMMA KeptGood ==
  ASSUME TasksGood, NEW boot
  PROVE  /\ Kept(boot) \in [Task -> TaskRecord]
         /\ \A t \in Task : Kept(boot)[t].phase # "idle" => Kept(boot)[t].mode # "None"
  BY DEF Kept, TasksGood, IdleTask, TaskRecord, HostingMode, DisconnectReason

LEMMA UpdateGood ==
  ASSUME IInv, Update
  PROVE  IInv'
<1>1. Good(session')
  BY PollGood, MaintainGood DEF IInv, Update
<1>2. TasksGood'
  BY KeptGood DEF IInv, Update, TasksGood
<1> QED BY <1>1, <1>2 DEF IInv

\* A start that may go on has nothing up and holds nothing.
LEMMA StartAdmittedGood ==
  ASSUME NEW p, Good(p), p.boot = NoTask,
         NEW t \in StartAdmitted(StopTransports(p))
  PROVE  Ready(t)
<1> DEFINE s == StopTransports(p)
<1>1. Core(s) /\ NoTransports(s) /\ s.boot = NoTask
  BY StopTransportsGood DEF Good
<1> HIDE DEF s
<1>2. CASE s.handle = NoHandle
  BY <1>1, <1>2 DEF StartAdmitted, Ready, s
<1>3. CASE s.handle # NoHandle
  <2>1. ~s.async /\ t \in ReleaseNow(s, TRUE, FALSE) /\ t.handle = NoHandle
    BY <1>3 DEF StartAdmitted, s
  <2>2. Core(t) /\ Keeps(s, t)
    BY <1>1, <2>1, ReleaseNowGood
  <2> QED BY <1>1, <2>1, <2>2 DEF Keeps, Ready, NoTransports
<1> QED BY <1>2, <1>3

LEMMA StartRefusedGood ==
  ASSUME NEW p, Good(p), NEW t \in StartRefused(StopTransports(p))
  PROVE  Good(t)
<1> DEFINE s == StopTransports(p)
<1>1. Core(s) /\ NoTransports(s)
  BY StopTransportsGood DEF Good
<1> HIDE DEF s
<1>2. PICK u : /\ t = Fail(u, "BootstrapFailed")
               /\ u \in IF s.async THEN {BeginRelease(v, TRUE) : v \in ConsumeReleaseRacing(s)}
                        ELSE {v \in ReleaseNow(s, TRUE, FALSE) : v.handle # NoHandle}
  BY DEF StartRefused, s
<1>3. Core(u) /\ Keeps(s, u) /\ Releasing(u)
  <2>1. CASE s.async
    <3>1. PICK v \in ConsumeReleaseRacing(s) : u = BeginRelease(v, TRUE)
      BY <1>2, <2>1
    <3>2. Core(v) /\ Keeps(s, v) /\ (v.handle # NoHandle => v.async)
      BY <1>1, <2>1, ConsumeReleaseRacingGood, RacingKeepsAsync
    <3>3. Core(u) /\ Keeps(v, u) /\ Releasing(u)
      BY <3>1, <3>2, BeginReleaseGood
    <3> QED BY <3>2, <3>3 DEF Keeps
  <2>2. CASE ~s.async
    BY <1>1, <1>2, <2>2, ReleaseNowGood
  <2> QED BY <2>1, <2>2
<1>4. NoTransports(u)
  BY <1>1, <1>3 DEF Keeps, NoTransports
<1> QED BY <1>2, <1>3, <1>4, FailGood DEF DisconnectReason

\* What a directory or a provider answers a host with fits a task's record.
LEMMA HostOutcomeType ==
  ASSUME NEW mode \in HostingMode, NEW flow, NEW listed \in SUBSET Handle,
         NEW d \in HostOutcome(mode, flow, listed)
  PROVE  /\ d.reply \in {"ok", "invalid"} \cup DisconnectReason
         /\ d.handle \in Handle \cup {NoHandle} /\ d.listed \in SUBSET Handle
<1>1. \A e \in DirectoryRegister(Fresh, listed) :
        /\ e.reply \in {"ok"} \cup DisconnectReason /\ e.handle \in Handle \cup {NoHandle}
        /\ e.listed \in SUBSET Handle
        /\ e = [reply |-> e.reply, handle |-> e.handle, listed |-> e.listed]
  BY SessionAssumption DEF DirectoryRegister, LostReply, Fresh
<1>2. CASE ~Hosts(mode)
  BY <1>2 DEF HostOutcome
<1>3. CASE Hosts(mode) /\ flow = "direct"
  BY <1>3 DEF HostOutcome, DisconnectReason
<1>4. CASE Hosts(mode) /\ flow # "direct"
  <2>1. \/ d \in DirectoryRegister(Fresh, listed)
        \/ \E e \in DirectoryRegister(Fresh, listed) : d = [e EXCEPT !.reply = "invalid"]
    BY <1>4 DEF HostOutcome
  <2> QED BY <1>1, <2>1
<1> QED BY <1>2, <1>3, <1>4

LEMMA JoinOutcomeType ==
  ASSUME NEW flow
  PROVE  JoinOutcome(flow) \subseteq {"ok"} \cup DisconnectReason
  BY SessionAssumption DEF JoinOutcome, DisconnectReason

\* A refused or switched-off start reports a state with nothing up and nothing held.
LEMMA ReportDownGood ==
  ASSUME NEW s, Ready(s), NEW state \in {"Idle", "Failed", "Destroyed"},
         NEW r \in DisconnectReason
  PROVE  Good(Report(s, state, r))
<1>1. Report(s, state, r) \in Session
  BY DEF Ready, Core, Session, Report, ConnectionState
<1> QED BY <1>1 DEF Ready, Good, Core, Session, Report, Bookkeeping, NoTransports, StateMatches,
                    Timed, Admitted, Up, Released

LEMMA StartHereGood ==
  ASSUME IInv, NEW s, Ready(s), NEW mode \in HostingMode \ {"None"}, NEW flow,
         StartHere(s, mode, flow)
  PROVE  IInv'
<1>1. PICK d \in HostOutcome(mode, flow, s.listed), j \in JoinOutcome(flow) :
        /\ session' \in ApplyBootstrap([s EXCEPT !.listed = d.listed],
                          [phase |-> "done", mode |-> mode, handle |-> d.handle,
                           host |-> d.reply, join |-> j], FALSE)
        /\ tasks' = Kept(session'.boot)
  BY DEF StartHere
<1> DEFINE b == [phase |-> "done", mode |-> mode, handle |-> d.handle,
                 host |-> d.reply, join |-> j]
           u == [s EXCEPT !.listed = d.listed]
<1>2. s.listed \in SUBSET Handle
  BY DEF Ready, Core, Session
<1>3. /\ d.reply \in {"ok", "invalid"} \cup DisconnectReason
      /\ d.handle \in Handle \cup {NoHandle} /\ d.listed \in SUBSET Handle
  BY <1>2, HostOutcomeType
<1>4. b \in TaskRecord /\ b.mode # "None"
  BY <1>3, JoinOutcomeType DEF TaskRecord
<1>5. Ready(u)
  BY <1>3 DEF Ready, Core, Session, Bookkeeping, NoTransports
<1>6. Good(session')
  BY <1>1, <1>4, <1>5, ApplyBootstrapGood
<1>7. TasksGood'
  BY <1>1, KeptGood DEF IInv, TasksGood
<1> QED BY <1>6, <1>7 DEF IInv

LEMMA StartDetachedGood ==
  ASSUME IInv, NEW s, Ready(s), NEW mode \in HostingMode \ {"None"}, StartDetached(s, mode)
  PROVE  IInv'
<1>1. PICK t \in Task :
        /\ session' = [Report(s, "Resolving", "None") EXCEPT !.boot = t]
        /\ tasks' = [Kept(t) EXCEPT ![t] =
                       [IdleTask EXCEPT !.mode = mode,
                                        !.phase = IF Hosts(mode) THEN "register" ELSE "resolve"]]
  BY DEF StartDetached
<1>2. session' \in Session
  <2>1. Report(s, "Resolving", "None") \in Session
    BY DEF Ready, Core, Session, Report, ConnectionState, DisconnectReason
  <2>2. session' = [Report(s, "Resolving", "None") EXCEPT !.boot = t]
    BY <1>1
  <2> QED BY <2>1, <2>2 DEF Session
<1>3. Good(session')
  BY <1>1, <1>2 DEF Ready, Good, Core, Session, Report, Bookkeeping, NoTransports, StateMatches,
                    Timed, Admitted, Up, Released
<1>4. [IdleTask EXCEPT !.mode = mode,
                       !.phase = IF Hosts(mode) THEN "register" ELSE "resolve"] \in TaskRecord
  BY DEF IdleTask, TaskRecord, HostingMode, DisconnectReason
<1>5. tasks'[t].mode = mode
  BY <1>1, KeptGood DEF IdleTask, IInv
<1>6. TasksGood'
  BY <1>1, <1>4, <1>5, KeptGood DEF TasksGood, IInv
<1> QED BY <1>3, <1>6 DEF IInv

LEMMA StartGood ==
  ASSUME IInv, StartConfiguredSession
  PROVE  IInv'
<1> DEFINE Rest == tasks' = Kept(session'.boot)
<1>1. Rest => TasksGood'
  BY KeptGood DEF IInv, TasksGood
<1>2. \A p \in Polled(session) : Good(p)
  BY PollGood DEF IInv
<1>3. CASE session' \in PollFailed(session) /\ Rest
  BY <1>1, <1>3, PollGood DEF IInv
<1>4. CASE Rest /\ \E p \in Polled(session) :
                     p.boot # NoTask /\ session' = Fail(p, "BootstrapFailed")
  <2>1. PICK p \in Polled(session) : p.boot # NoTask /\ session' = Fail(p, "BootstrapFailed")
    BY <1>4
  <2>2. Core(p) /\ NoTransports(p) /\ Releasing(p)
    BY <1>2, <2>1 DEF Good, Core, Bookkeeping, Releasing
  <2>3. Good(session')
    BY <2>1, <2>2, FailGood DEF DisconnectReason
  <2> QED BY <1>1, <1>4, <2>3 DEF IInv
<1>5. ASSUME NEW p \in Polled(session), p.boot = NoTask,
             session' \in StartRefused(StopTransports(p)), Rest
      PROVE  IInv'
  BY <1>1, <1>2, <1>5, StartRefusedGood DEF IInv
<1>6. ASSUME NEW p \in Polled(session), p.boot = NoTask,
             NEW s \in StartAdmitted(StopTransports(p)), Launch(s)
      PROVE  IInv'
  <2>1. Ready(s)
    BY <1>2, <1>6, StartAdmittedGood
  <2>2. CASE session' = Report(s, "Idle", "None") /\ Rest
    BY <1>1, <2>1, <2>2, ReportDownGood DEF IInv, DisconnectReason
  <2>3. CASE session' = Fail(s, "BootstrapFailed") /\ Rest
    BY <1>1, <2>1, <2>3, ReportDownGood DEF IInv, DisconnectReason, Fail
  <2>4. ASSUME NEW mode \in HostingMode \ {"None"}, NEW flow, StartHere(s, mode, flow)
        PROVE  IInv'
    BY <2>1, <2>4, StartHereGood
  <2>5. ASSUME NEW mode \in HostingMode \ {"None"}, StartDetached(s, mode)
        PROVE  IInv'
    BY <2>1, <2>5, StartDetachedGood
  <2> QED BY <1>6, <2>2, <2>3, <2>4, <2>5 DEF Launch
<1> QED BY <1>3, <1>4, <1>5, <1>6 DEF StartConfiguredSession

LEMMA StopGood ==
  ASSUME IInv, StopSession
  PROVE  IInv'
<1> DEFINE u == [session EXCEPT !.boot = NoTask]
<1>1. Core(u) /\ u.boot = NoTask
  BY DEF IInv, Good, Core, Session, Bookkeeping
<1> HIDE DEF u
<1>2. PICK s \in EnsureRelease(StopTransports(u)) :
        session' = Report(s, "Disconnected", "UserRequested")
  BY DEF StopSession, u
<1>3. Core(s) /\ NoTransports(s) /\ Releasing(s)
  BY <1>1, <1>2, CleanupGood DEF DisconnectReason
<1>4. session' \in Session
  BY <1>2, <1>3 DEF Core, Session, Report, ConnectionState, DisconnectReason
<1>5. Good(session')
  BY <1>2, <1>3, <1>4 DEF Good, Core, Session, Report, Bookkeeping, NoTransports, StateMatches,
                          Timed, Admitted, Up, Released, Releasing
<1>6. TasksGood'
  BY KeptGood DEF StopSession, IInv, TasksGood
<1> QED BY <1>5, <1>6 DEF IInv

\* Destruction may find a release still in flight; it forgets the registration in any case.
LEMMA DestroyGood ==
  ASSUME IInv, Destroy
  PROVE  /\ IInv'
         /\ session'.state = "Destroyed" /\ session'.handle = NoHandle /\ session'.boot = NoTask
<1> DEFINE u == [session EXCEPT !.boot = NoTask]
           v == StopTransports(u)
<1>1. Core(u)
  BY DEF IInv, Good, Core, Session, Bookkeeping
<1> HIDE DEF u
<1>2. Core(v) /\ NoTransports(v) /\ v.boot = u.boot
  BY <1>1, StopTransportsGood
<1>3. u.boot = NoTask
  BY DEF u, IInv, Good, Core, Session
<1> HIDE DEF v
<1>4. PICK s \in ReleaseNow(v, TRUE, TRUE) :
        session' = Report(ClearRegistration(s), "Destroyed", "None")
  BY DEF Destroy, u, v
<1>5. s \in Session /\ NoTransports(s) /\ s.boot = NoTask
  <2>1. CASE s = v
    BY <1>2, <1>3, <2>1 DEF Core
  <2>2. ASSUME NEW d \in DirectoryRelease(v.handle, v.listed),
               s = RecordRelease([v EXCEPT !.listed = d.listed], d.reply)
        PROVE  s \in Session /\ NoTransports(s) /\ s.boot = NoTask
    <3> DEFINE w == [v EXCEPT !.listed = d.listed]
    <3>1. v.listed \in SUBSET Handle
      BY <1>2 DEF Core, Session
    <3>2. d.reply \in {"ok"} \cup DirectoryError /\ d.listed \in SUBSET Handle
      BY <3>1, ReleaseAnswers
    <3>3. w \in Session /\ NoTransports(w) /\ w.boot = NoTask
      BY <1>2, <1>3, <3>2 DEF Core, Session, NoTransports
    <3> HIDE DEF w
    <3>4. s = RecordRelease(w, d.reply)
      BY <2>2 DEF w
    <3>5. CASE d.reply \in {"ok", "SessionClosed"}
      BY <3>3, <3>4, <3>5, SessionAssumption
         DEF RecordRelease, ClearRegistration, Session, NoTransports, Future
    <3>6. CASE d.reply \notin {"ok", "SessionClosed"}
      BY <3>3, <3>4, <3>6, SessionAssumption DEF RecordRelease, Session, NoTransports
    <3> QED BY <3>5, <3>6
  <2> QED BY <1>4, <2>1, <2>2 DEF ReleaseNow
<1>6. LET c == ClearRegistration(s)
      IN  /\ c \in Session /\ NoTransports(c) /\ c.boot = NoTask /\ c.handle = NoHandle
          /\ c.release = "none" /\ c.refresh = "none" /\ ~c.releasePending
          /\ ~c.releaseBlocked /\ ~c.async /\ ~c.releaseReady
  BY <1>5 DEF ClearRegistration, Session, NoTransports, Future
<1> DEFINE c == ClearRegistration(s)
<1> HIDE DEF c
<1>7. session' = Report(c, "Destroyed", "None")
  BY <1>4 DEF c
<1>8. Ready(c)
  BY <1>6 DEF c, Ready, Core, Bookkeeping
<1>9. Good(session')
  BY <1>7, <1>8, ReportDownGood DEF DisconnectReason
<1>10. TasksGood'
  BY KeptGood DEF Destroy, IInv, TasksGood
<1>11. session'.state = "Destroyed" /\ session'.handle = NoHandle /\ session'.boot = NoTask
  BY <1>6, <1>7 DEF c, Report, Session
<1> QED BY <1>9, <1>10, <1>11 DEF IInv

-----------------------------------------------------------------------------
\* The threads, the outside world and the clock touch only their own part of the state.
LEMMA ThreadGood ==
  ASSUME IInv, Thread
  PROVE  IInv'
<1>1. ASSUME NEW t \in Task, TaskRegister(t)
      PROVE  IInv'
  <2>1. PICK d \in HostOutcome(tasks[t].mode, "broker", session.listed) :
          /\ session' = [session EXCEPT !.listed = d.listed]
          /\ tasks' = [tasks EXCEPT ![t] =
               IF d.reply \in {"ok", "invalid"} /\ Joins(@.mode)
                 THEN [@ EXCEPT !.host = d.reply, !.handle = d.handle, !.phase = "resolve"]
                 ELSE Finished(t, [@ EXCEPT !.host = d.reply, !.handle = d.handle])]
    BY <1>1 DEF TaskRegister
  <2>2. session.listed \in SUBSET Handle /\ tasks[t] \in TaskRecord
        /\ tasks[t].mode \in HostingMode
    BY DEF IInv, Good, Core, Session, TasksGood, TaskRecord
  <2>3. /\ d.reply \in {"ok", "invalid"} \cup DisconnectReason
        /\ d.handle \in Handle \cup {NoHandle} /\ d.listed \in SUBSET Handle
    BY <2>2, HostOutcomeType
  <2>4. Good(session')
    BY <2>1, <2>3 DEF IInv, Good, Core, Session, Bookkeeping, NoTransports, StateMatches, Timed,
                      Admitted, Up, Released
  <2>5. tasks[t].mode # "None"
    BY <1>1 DEF TaskRegister, IInv, TasksGood
  <2> DEFINE found == [tasks[t] EXCEPT !.host = d.reply, !.handle = d.handle]
  <2>6. found \in TaskRecord /\ found.mode # "None"
    BY <2>2, <2>3, <2>5 DEF TaskRecord
  <2>7. \/ tasks'[t] = [found EXCEPT !.phase = "resolve"]
        \/ tasks'[t] = [found EXCEPT !.phase = "done"]
        \/ tasks'[t] = IdleTask
    BY <2>1, <2>2 DEF IInv, TasksGood, Finished
  <2> HIDE DEF found
  <2>8. tasks'[t] \in TaskRecord /\ (tasks'[t].phase # "idle" => tasks'[t].mode # "None")
    <3>1. IdleTask \in TaskRecord /\ IdleTask.phase = "idle"
      BY DEF TaskRecord, IdleTask, HostingMode, DisconnectReason
    <3>2. ASSUME NEW phase \in {"resolve", "done"}
          PROVE  [found EXCEPT !.phase = phase] \in TaskRecord
                   /\ [found EXCEPT !.phase = phase].mode # "None"
      BY <2>6 DEF TaskRecord
    <3> QED BY <2>7, <3>1, <3>2
  <2>9. TasksGood'
    BY <2>1, <2>8 DEF IInv, TasksGood
  <2> QED BY <2>4, <2>9 DEF IInv
<1>2. ASSUME NEW t \in Task, TaskResolve(t)
      PROVE  IInv'
  <2>1. PICK j \in JoinOutcome("broker") :
          tasks' = [tasks EXCEPT ![t] = Finished(t, [@ EXCEPT !.join = j])]
    BY <1>2 DEF TaskResolve
  <2>2. tasks[t] \in TaskRecord /\ tasks[t].mode # "None" /\ j \in {"ok"} \cup DisconnectReason
    BY <1>2, JoinOutcomeType DEF TaskResolve, IInv, TasksGood
  <2>3. Finished(t, [tasks[t] EXCEPT !.join = j]) \in TaskRecord
    BY <2>2 DEF Finished, IdleTask, TaskRecord, HostingMode, DisconnectReason
  <2>4. Finished(t, [tasks[t] EXCEPT !.join = j]).phase # "idle"
          => Finished(t, [tasks[t] EXCEPT !.join = j]).mode # "None"
    BY <2>2 DEF Finished, IdleTask, TaskRecord
  <2>5. TasksGood'
    BY <2>1, <2>3, <2>4 DEF IInv, TasksGood
  <2>6. session' = session
    BY <1>2 DEF TaskResolve
  <2> QED BY <2>5, <2>6 DEF IInv
<1>3. CASE ReleaseReply
  <2>1. PICK d \in DirectoryRelease(session.handle, session.listed) :
          session' = [session EXCEPT !.release = d.reply, !.listed = d.listed]
    BY <1>3 DEF ReleaseReply
  <2>2. d.reply \in {"ok"} \cup DirectoryError /\ d.listed \in SUBSET Handle
    <3>1. session.listed \in SUBSET Handle
      BY DEF IInv, Good, Core, Session
    <3> QED BY <3>1, ReleaseAnswers
  <2>3. d.reply \in Future /\ d.reply # "none"
    BY <2>2, SessionAssumption DEF Future, DisconnectReason
  <2>4. session' \in Session
    BY <2>1, <2>2, <2>3 DEF IInv, Good, Core, Session
  <2>5. session.release = "running" /\ session'.release # "none"
    BY <1>3, <2>1, <2>3, <2>4 DEF ReleaseReply, Session
  <2>6. Bookkeeping(session')
    BY <2>1, <2>4, <2>5 DEF IInv, Good, Core, Session, Bookkeeping, NoTransports
  <2>7. StateMatches(session') /\ Admitted(session') /\ Released(session')
    BY <2>1, <2>4, <2>5 DEF IInv, Good, Core, Session, StateMatches, NoTransports, Timed,
                            Admitted, Up, Released
  <2>8. Good(session')
    BY <2>4, <2>6, <2>7 DEF Good, Core
  <2> QED BY <1>3, <2>8 DEF ReleaseReply, IInv, TasksGood
<1>4. CASE ReleasePublish
  BY <1>4 DEF ReleasePublish, IInv, TasksGood, Good, Core, Session, Bookkeeping, NoTransports,
              StateMatches, Timed, Admitted, Up, Released
<1>5. CASE RefreshReply
  <2>1. PICK r \in DirectoryRefresh(session.handle, session.listed) :
          session' = [session EXCEPT !.refresh = r]
    BY <1>5 DEF RefreshReply
  <2>2. r \in Future
    BY DEF DirectoryRefresh, Future
  <2>3. session' \in Session
    BY <2>1, <2>2 DEF IInv, Good, Core, Session
  <2>4. Good(session')
    BY <1>5, <2>1, <2>3 DEF RefreshReply, IInv, Good, Core, Session, Bookkeeping,
       NoTransports, StateMatches, Timed, Admitted, Up, Released
  <2> QED BY <1>5, <2>4 DEF RefreshReply, IInv, TasksGood
<1> QED BY <1>1, <1>2, <1>3, <1>4, <1>5 DEF Thread

LEMMA OutsideGood ==
  ASSUME IInv, Outside
  PROVE  IInv'
<1>1. session' \in Session /\ tasks' = tasks
  <2>1. CASE Expire
    BY <2>1 DEF Expire, IInv, Good, Core, Session
  <2>2. CASE ClientConnects
    BY <2>2 DEF ClientConnects, IInv, Good, Core, Session
  <2>3. CASE ClientLost
    BY <2>3 DEF ClientLost, IInv, Good, Core, Session
  <2>4. CASE AuthAccept
    BY <2>4 DEF AuthAccept, IInv, Good, Core, Session
  <2>5. AuthError \subseteq DisconnectReason
    BY SessionAssumption
  <2>6. CASE AuthReject
    <3>1. PICK r \in AuthError :
            session' = [session EXCEPT !.auth = "rejected", !.authReason = r, !.client = "lost"]
      BY <2>6 DEF AuthReject
    <3>2. r \in DisconnectReason
      BY <2>5
    <3> QED BY <2>6, <3>1, <3>2 DEF AuthReject, IInv, Good, Core, Session
  <2>7. CASE RejectLocalSession
    BY <2>5, <2>7 DEF RejectLocalSession, IInv, Good, Core, Session
  <2> QED BY <2>1, <2>2, <2>3, <2>4, <2>6, <2>7 DEF Outside
<1>2. Bookkeeping(session')
  BY DEF Outside, Expire, ClientConnects, ClientLost, AuthAccept, AuthReject, RejectLocalSession,
         IInv, Good, Core, Session, Bookkeeping, NoTransports
<1>3. StateMatches(session') /\ Released(session')
  <2>1. /\ session'.state = session.state /\ session'.server = session.server
        /\ session'.handle = session.handle /\ session'.release = session.release
        /\ session'.releasePending = session.releasePending
        /\ session'.releaseBlocked = session.releaseBlocked
    BY DEF Outside, Expire, ClientConnects, ClientLost, AuthAccept, AuthReject, RejectLocalSession,
           IInv, Good, Core, Session
  <2>2. \/ session'.client = session.client
        \/ session.client = "connecting" /\ session'.client = "connected"
        \/ session.client = "connected" /\ session'.client = "lost"
    BY DEF Outside, Expire, ClientConnects, ClientLost, AuthAccept, AuthReject, RejectLocalSession,
           IInv, Good, Core, Session
  <2> QED BY <2>1, <2>2 DEF IInv, Good, StateMatches, NoTransports, Timed, Released
<1>4. Admitted(session')
  BY DEF Outside, Expire, ClientConnects, ClientLost, AuthAccept, AuthReject, RejectLocalSession,
         IInv, Good, Core, Session, StateMatches, Timed, Admitted, Up
<1> QED BY <1>1, <1>2, <1>3, <1>4 DEF IInv, Good, Core, TasksGood

LEMMA TickGood ==
  ASSUME IInv, Tick
  PROVE  IInv'
<1>1. PICK age \in Nat, retryIn \in Nat, refreshIn \in Nat :
        session' = [session EXCEPT !.age = age, !.retryIn = retryIn, !.refreshIn = refreshIn]
  <2> DEFINE longest == IF ConnectTimeout > HandshakeTimeout THEN ConnectTimeout ELSE HandshakeTimeout
             older == IF Timed(session) /\ session.age < longest THEN session.age + 1 ELSE session.age
             retry == IF session.retryIn > 0 THEN session.retryIn - 1 ELSE session.retryIn
             due == IF session.refreshIn > 0 THEN session.refreshIn - 1 ELSE session.refreshIn
  <2>1. session.age \in Nat /\ session.retryIn \in Nat /\ session.refreshIn \in Nat
    BY DEF IInv, Good, Core, Session
  <2>2. older \in Nat /\ retry \in Nat /\ due \in Nat
    BY <2>1
  <2>3. session' = [session EXCEPT !.age = older, !.retryIn = retry, !.refreshIn = due]
    BY DEF Tick
  <2> HIDE DEF older, retry, due
  <2> QED BY <2>2, <2>3
<1>2. session' \in Session
  BY <1>1 DEF IInv, Good, Core, Session
<1>3. Good(session')
  BY <1>1, <1>2 DEF IInv, Good, Core, Session, Bookkeeping, NoTransports, StateMatches, Timed,
                    Admitted, Up, Released
<1> QED BY <1>3 DEF Tick, IInv, TasksGood

-----------------------------------------------------------------------------
LEMMA InitGood == Init => IInv
<1> SUFFICES ASSUME Init PROVE IInv
  OBVIOUS
<1>1. session \in Session
  BY DEF Init, Session, ConnectionState, DisconnectReason, Future
<1>2. Good(session)
  BY <1>1, SessionAssumption DEF Init, Good, Core, Bookkeeping, NoTransports, StateMatches, Timed,
                                 Admitted, Up, Released
<1>3. TasksGood
  BY DEF Init, TasksGood, IdleTask, TaskRecord, HostingMode, DisconnectReason
<1> QED BY <1>2, <1>3 DEF IInv

LEMMA StepGood == IInv /\ [Next]_vars => IInv'
<1> SUFFICES ASSUME IInv, [Next]_vars PROVE IInv'
  OBVIOUS
<1>1. CASE UNCHANGED vars
  BY <1>1 DEF vars, IInv, TasksGood
<1>2. CASE Next
  BY <1>2, UpdateGood, StartGood, StopGood, DestroyGood, ThreadGood, OutsideGood, TickGood DEF Next
<1> QED BY <1>1, <1>2

\* IInv holds in every reachable state.
THEOREM Invariance == Spec => []IInv
  BY InitGood, StepGood, PTL DEF Spec

\* The members keep their types.
THEOREM TypeCorrect == Spec => []TypeOK
<1>1. IInv => TypeOK
  BY DEF IInv, Good, Core, TasksGood, TypeOK
<1> QED BY <1>1, Invariance, PTL

\* No handler leaves a pending operation behind the registration it is about.
THEOREM WorkIsOwned == Spec => []PendingWorkIsOwned
<1>1. IInv => PendingWorkIsOwned
  BY DEF IInv, Good, Core, PendingWorkIsOwned
<1> QED BY <1>1, Invariance, PTL

\* No handler leaves a transport open behind a state that says nothing is running.
THEOREM TransportsMatch == Spec => []TransportsMatchState
<1>1. IInv => TransportsMatchState
  BY DEF IInv, Good, TransportsMatchState
<1> QED BY <1>1, Invariance, PTL

\* A registration is never left behind by a session that is down.
THEOREM NothingForgotten == Spec => []ReleaseNotForgotten
<1>1. IInv => ReleaseNotForgotten
  BY DEF IInv, Good, ReleaseNotForgotten
<1> QED BY <1>1, Invariance, PTL

-----------------------------------------------------------------------------
(***************************************************************************)
(* A session with a client becomes Connected only by acceptance.  Between  *)
(* two states of a handler the client, its authentication and the reported *)
(* state are the same, or the session is out of the way of becoming        *)
(* Connected with a client; the last method, Advance, is the only one that *)
(* connects, and it looks at the authentication when it does.              *)
(***************************************************************************)
Aside(t) == t.client # "connected" /\ t.state # "Handshaking"

Steady(s, t) ==
  (t.state = s.state /\ t.client = s.client /\ t.auth = s.auth) \/ Aside(t)

\* Whoever is up at the end was up before, or had been accepted.
Decided(s, t) ==
  Up(t) => t.auth = s.auth /\ ~Aside(s) /\ (s.auth = "accepted" \/ Up(s))

LEMMA SteadyChain ==
  ASSUME NEW s, NEW t, NEW u, Steady(s, t)
  PROVE  /\ Steady(t, u) => Steady(s, u)
         /\ Decided(t, u) => Decided(s, u)
BY DEF Steady, Aside, Decided, Up

LEMMA SteadyDecided ==
  ASSUME NEW s, NEW t, Steady(s, t)
  PROVE  Decided(s, t)
BY DEF Steady, Aside, Decided, Up

LEMMA ReportAside ==
  ASSUME NEW s \in Session, s.client # "connected", NEW state, state # "Handshaking", NEW r
  PROVE  Aside(Report(s, state, r))
BY DEF Report, Session, Aside

\* A failure after the shared cleanup is out of the way.
LEMMA CleanupAside ==
  ASSUME NEW s, Core(s), NEW t \in EnsureRelease(StopTransports(s)), NEW r
  PROVE  Aside(Fail(t, r))
<1>1. Core(t) /\ NoTransports(t)
  BY CleanupGood DEF DisconnectReason
<1> QED BY <1>1, ReportAside DEF Core, NoTransports, Fail

LEMMA RenewSteady ==
  ASSUME NEW s \in Session, NEW l
  PROVE  Steady(s, Renew(s, l))
BY DEF Renew, Session, Steady

LEMMA ConsumeRefreshSteady ==
  ASSUME NEW s, Core(s), NEW t \in ConsumeRefresh(s)
  PROVE  Steady(s, t)
<1> DEFINE u == [s EXCEPT !.refresh = "none"]
<1>1. u.state = s.state /\ u.client = s.client /\ u.auth = s.auth /\ u \in Session
  BY DEF Core, Session, Future
<1>2. Core(u)
  <2>1. Bookkeeping(u)
    BY DEF Core, Session, Bookkeeping, NoTransports
  <2> QED BY <1>1, <2>1 DEF Core
<1>3. \/ t = s \/ t = u
      \/ \E l \in Lease : t = Renew(u, l)
      \/ \E v \in EnsureRelease(StopTransports(u)) : t = Fail(v, s.refresh)
  BY DEF ConsumeRefresh, RefreshFailure
<1> HIDE DEF u
<1>4. CASE t = s \/ t = u
  BY <1>1, <1>4 DEF Steady
<1>5. CASE \E l \in Lease : t = Renew(u, l)
  <2>1. Steady(u, t)
    BY <1>1, <1>5, RenewSteady
  <2> QED BY <1>1, <2>1 DEF Steady
<1>6. CASE \E v \in EnsureRelease(StopTransports(u)) : t = Fail(v, s.refresh)
  BY <1>2, <1>6, CleanupAside DEF Steady
<1> QED BY <1>3, <1>4, <1>5, <1>6

LEMMA RefreshSteady ==
  ASSUME NEW s, Core(s), NEW t \in Refresh(s)
  PROVE  Steady(s, t)
<1>1. \/ t = s
      \/ t = [s EXCEPT !.refresh = IF @ = "none" THEN "running" ELSE @]
      \/ \E l \in Lease : t = Renew(s, l)
      \/ \E e, v : v \in EnsureRelease(StopTransports(s)) /\ t = Fail(v, e)
  BY DEF Refresh, RefreshFailure
<1>2. CASE t = s \/ t = [s EXCEPT !.refresh = IF @ = "none" THEN "running" ELSE @]
  BY <1>2 DEF Core, Session, Steady
<1>3. CASE \E l \in Lease : t = Renew(s, l)
  BY <1>3, RenewSteady DEF Core
<1>4. CASE \E e, v : v \in EnsureRelease(StopTransports(s)) /\ t = Fail(v, e)
  BY <1>4, CleanupAside DEF Steady
<1> QED BY <1>1, <1>2, <1>3, <1>4

\* A bootstrap result opens a client that is still connecting, or none.
LEMMA OpenTransportsAside ==
  ASSUME NEW s, Core(s), s.boot = NoTask, NoTransports(s), NEW b \in TaskRecord,
         NEW t \in OpenTransports(s, b)
  PROVE  Aside(t)
<1> DEFINE hosts == Hosts(b.mode)
           u == [s EXCEPT !.server = hosts]
<1>1. hosts \in BOOLEAN
  BY DEF TaskRecord, Hosts
<1> HIDE DEF hosts
<1>2. Core(u) /\ u.client = "absent"
  BY <1>1 DEF Core, Session, Bookkeeping, NoTransports
<1>3. \/ \E v \in EnsureRelease(s) : t = Fail(v, "TransportError")
      \/ t \in OpenClient(u, b.mode, b.join)
      \/ t = Report(u, "Connected", "None")
  BY DEF OpenTransports, hosts
<1> HIDE DEF u
<1>4. CASE \E v \in EnsureRelease(s) : t = Fail(v, "TransportError")
  <2>1. PICK v \in EnsureRelease(s) : t = Fail(v, "TransportError")
    BY <1>4
  <2>2. Core(v) /\ Keeps(s, v)
    BY EnsureReleaseGood
  <2> QED BY <2>1, <2>2, ReportAside DEF Core, Keeps, NoTransports, Fail
<1>5. CASE t \in OpenClient(u, b.mode, b.join)
  <2>1. \/ t = [Report(u, "Connecting", "None") EXCEPT !.client = "connecting"]
        \/ \E v \in GiveUpHosting(u, b.mode) : \E r : t = Fail(v, r)
    BY <1>5 DEF OpenClient
  <2>2. CASE t = [Report(u, "Connecting", "None") EXCEPT !.client = "connecting"]
    BY <1>2, <2>2 DEF Report, Core, Session, Aside
  <2>3. ASSUME NEW v \in GiveUpHosting(u, b.mode), NEW r, t = Fail(v, r)
        PROVE  Aside(t)
    <3>1. CASE v = u
      BY <1>2, <2>3, <3>1, ReportAside DEF Core, Fail
    <3>2. CASE v \in EnsureRelease(StopTransports(u))
      BY <1>2, <2>3, <3>2, CleanupAside
    <3> QED BY <2>3, <3>1, <3>2 DEF GiveUpHosting
  <2> QED BY <2>1, <2>2, <2>3
<1>6. CASE t = Report(u, "Connected", "None")
  BY <1>2, <1>6, ReportAside DEF Core
<1> QED BY <1>3, <1>4, <1>5, <1>6

LEMMA ApplyBootstrapAside ==
  ASSUME NEW s, Ready(s), NEW b \in TaskRecord, NEW async \in BOOLEAN,
         NEW t \in ApplyBootstrap(s, b, async)
  PROVE  Aside(t)
<1> DEFINE captured(l) ==
      IF b.handle = NoHandle THEN s ELSE CaptureRegistration(s, b.handle, l, async)
<1>1. Core(s) /\ s.boot = NoTask /\ NoTransports(s)
  BY DEF Ready
<1>2. ASSUME NEW l \in Lease
      PROVE  Core(captured(l)) /\ captured(l).boot = NoTask /\ NoTransports(captured(l))
  BY <1>1, <1>2, CaptureGood DEF TaskRecord
<1>3. CASE t \in OpenTransports(s, b)
  BY <1>1, <1>3, OpenTransportsAside
<1>4. CASE t = Fail(s, b.host)
  BY <1>1, <1>4, ReportAside DEF Core, NoTransports, Fail
<1>5. ASSUME NEW l \in Lease,
             t \in IF b.host = "invalid"
                     THEN {Fail(v, "BootstrapFailed") : v \in EnsureRelease(captured(l))}
                     ELSE OpenTransports(captured(l), b)
      PROVE  Aside(t)
  <2> DEFINE u == captured(l)
  <2>1. Core(u) /\ u.boot = NoTask /\ NoTransports(u)
    BY <1>2
  <2> HIDE DEF captured
  <2>2. CASE t \in OpenTransports(u, b)
    BY <2>1, <2>2, OpenTransportsAside
  <2>3. CASE \E v \in EnsureRelease(u) : t = Fail(v, "BootstrapFailed")
    <3>1. PICK v \in EnsureRelease(u) : t = Fail(v, "BootstrapFailed")
      BY <2>3
    <3>2. Core(v) /\ Keeps(u, v)
      BY <2>1, EnsureReleaseGood
    <3> QED BY <2>1, <3>1, <3>2, ReportAside DEF Core, Keeps, NoTransports, Fail
  <2> QED BY <1>5, <2>2, <2>3
<1> QED BY <1>3, <1>4, <1>5 DEF ApplyBootstrap

LEMMA ConsumeBootstrapAside ==
  ASSUME NEW s, Good(s), TasksGood, BootReady(s), NEW t \in ConsumeBootstrap(s)
  PROVE  Aside(t)
<1> DEFINE u == [s EXCEPT !.boot = NoTask]
<1>1. s.boot \in Task /\ tasks[s.boot] \in TaskRecord
  BY DEF BootReady, Good, Core, Session, TasksGood
<1>2. Ready(u)
  BY <1>1, SessionAssumption
     DEF Good, Core, Session, Bookkeeping, NoTransports, Ready
<1> QED BY <1>1, <1>2, ApplyBootstrapAside DEF ConsumeBootstrap

\* Only an accepted handshake connects (NetworkSessionManager.cpp:454-465).
LEMMA AdvanceDecided ==
  ASSUME NEW s, Good(s), NEW t \in Advance(s)
  PROVE  Decided(s, t)
<1>1. s \in Session /\ Core(s)
  BY DEF Good, Core
<1>2. CASE t = s
  BY <1>2, SteadyDecided DEF Steady
<1>3. CASE t \in TimeOut(s) \/ t \in FailHandshake(s)
  <2>1. PICK u \in EnsureRelease(StopTransports(s)) : \E r : t = Fail(u, r)
    BY <1>3 DEF TimeOut, FailHandshake, Dropped
  <2>2. Aside(t)
    BY <1>1, <2>1, CleanupAside
  <2> QED BY <2>2, SteadyDecided DEF Steady
<1>4. CASE t = BeginHandshake(s) \/ t = Report(s, "Disconnected", "TransportError")
  BY <1>1, <1>4 DEF BeginHandshake, Report, Session, Decided, Up
<1>5. CASE s.state = "Handshaking" /\ IsSessionAuthenticated(s) /\ t = Report(s, "Connected", "None")
  BY <1>1, <1>5 DEF IsSessionAuthenticated, Report, Session, Decided, Aside
<1> QED BY <1>2, <1>3, <1>4, <1>5 DEF Advance

LEMMA PollSteady ==
  ASSUME NEW s, Good(s), TasksGood, NEW t \in PollFailed(s) \cup Polled(s)
  PROVE  Steady(s, t)
<1> DEFINE a == ConsumeRelease(s)
<1>1. Good(a) /\ Steady(s, a)
  BY ConsumeReleaseGood, KeepsGood DEF Good, Keeps, Steady
<1>2. \/ t \in ConsumeRefresh(a)
      \/ \E b \in ConsumeRefresh(a) : BootReady(b) /\ t \in ConsumeBootstrap(b)
  BY DEF PollFailed, Polled
<1> HIDE DEF a
<1>3. CASE t \in ConsumeRefresh(a)
  BY <1>1, <1>3, ConsumeRefreshSteady, SteadyChain DEF Good
<1>4. CASE \E b \in ConsumeRefresh(a) : BootReady(b) /\ t \in ConsumeBootstrap(b)
  BY <1>1, <1>4, ConsumeRefreshGood, ConsumeBootstrapAside DEF Steady
<1> QED BY <1>2, <1>3, <1>4

LEMMA MaintainDecided ==
  ASSUME NEW s, Good(s), NEW t \in Maintain(s)
  PROVE  Decided(s, t)
<1>1. PICK u \in RetryRelease(s) : t \in UNION {Advance(v) : v \in Refresh(u)}
  BY DEF Maintain
<1>2. Good(u) /\ Steady(s, u)
  BY RetryReleaseGood, KeepsGood DEF Good, Keeps, Steady
<1>3. PICK v \in Refresh(u) : t \in Advance(v)
  BY <1>1
<1>4. Good(v) /\ Steady(u, v)
  BY <1>2, RefreshGood, RefreshSteady DEF Good
<1>5. Decided(v, t)
  BY <1>3, <1>4, AdvanceDecided
<1> QED BY <1>2, <1>4, <1>5, SteadyChain

LEMMA UpdateDecided ==
  ASSUME IInv, Update
  PROVE  Decided(session, session')
<1>1. Good(session) /\ TasksGood
  BY DEF IInv
<1>2. CASE session' \in PollFailed(session)
  BY <1>1, <1>2, PollSteady, SteadyDecided
<1>3. ASSUME NEW s \in Polled(session), session' \in Maintain(s)
      PROVE  Decided(session, session')
  BY <1>1, <1>3, PollGood, PollSteady, MaintainDecided, SteadyChain
<1> QED BY <1>2, <1>3 DEF Update

\* A start ends with a client that is connecting, or with none.
LEMMA StartDecided ==
  ASSUME IInv, StartConfiguredSession
  PROVE  Decided(session, session')
<1>1. Good(session) /\ TasksGood
  BY DEF IInv
<1>2. \A p \in Polled(session) : Good(p)
  BY <1>1, PollGood
<1>3. Good(session')
  BY StartGood DEF IInv
<1>4. CASE session' \in PollFailed(session)
  BY <1>1, <1>4, PollSteady, SteadyDecided
<1>5. CASE session'.state \in {"Idle", "Resolving", "Failed"}
  BY <1>3, <1>5 DEF Decided, Up
<1>6. ASSUME NEW p \in Polled(session), session' = Fail(p, "BootstrapFailed")
      PROVE  session'.state = "Failed"
  BY <1>2, <1>6 DEF Good, Core, Session, Fail, Report
<1>7. ASSUME NEW p \in Polled(session), session' \in StartRefused(StopTransports(p))
      PROVE  session'.state = "Failed"
  <2>1. PICK u : session' = Fail(u, "BootstrapFailed")
    BY <1>7 DEF StartRefused
  <2> QED BY <1>3, <2>1 DEF Good, Core, Session, Fail, Report
<1>8. ASSUME NEW p \in Polled(session), p.boot = NoTask,
             NEW s \in StartAdmitted(StopTransports(p)), Launch(s)
      PROVE  Aside(session') \/ session'.state \in {"Idle", "Resolving", "Failed"}
  <2>1. Ready(s)
    BY <1>2, <1>8, StartAdmittedGood
  <2>2. CASE session' = Report(s, "Idle", "None") \/ session' = Fail(s, "BootstrapFailed")
    BY <2>1, <2>2 DEF Ready, Core, Session, Fail, Report
  <2>3. ASSUME NEW mode \in HostingMode \ {"None"}, NEW flow, StartHere(s, mode, flow)
        PROVE  Aside(session')
    <3>1. PICK d \in HostOutcome(mode, flow, s.listed), j \in JoinOutcome(flow) :
            session' \in ApplyBootstrap([s EXCEPT !.listed = d.listed],
                           [phase |-> "done", mode |-> mode, handle |-> d.handle,
                            host |-> d.reply, join |-> j], FALSE)
      BY <2>3 DEF StartHere
    <3> DEFINE b == [phase |-> "done", mode |-> mode, handle |-> d.handle,
                     host |-> d.reply, join |-> j]
               u == [s EXCEPT !.listed = d.listed]
    <3>2. s.listed \in SUBSET Handle
      BY <2>1 DEF Ready, Core, Session
    <3>3. /\ d.reply \in {"ok", "invalid"} \cup DisconnectReason
          /\ d.handle \in Handle \cup {NoHandle} /\ d.listed \in SUBSET Handle
      BY <3>2, HostOutcomeType
    <3>4. b \in TaskRecord
      BY <3>3, JoinOutcomeType DEF TaskRecord
    <3>5. Ready(u)
      BY <2>1, <3>3 DEF Ready, Core, Session, Bookkeeping, NoTransports
    <3> QED BY <3>1, <3>4, <3>5, ApplyBootstrapAside
  <2>4. ASSUME NEW mode, StartDetached(s, mode)
        PROVE  session'.state = "Resolving"
    BY <2>1, <2>4 DEF StartDetached, Ready, Core, Session, Report
  <2> QED BY <1>8, <2>2, <2>3, <2>4 DEF Launch
<1>9. CASE Aside(session')
  BY <1>9, SteadyDecided DEF Steady
<1> QED BY <1>4, <1>5, <1>6, <1>7, <1>8, <1>9 DEF StartConfiguredSession

\* What ConnectedByAcceptance says of a step.
ByAcceptance ==
  Up(session') =>
    \/ session'.auth = "accepted" /\ (Up(session) => session.auth = "accepted")
    \/ session'.auth = "rejected" /\ Up(session)

LEMMA DecidedByAcceptance ==
  ASSUME IInv, Decided(session, session')
  PROVE  ByAcceptance
BY DEF IInv, Good, Admitted, Decided, ByAcceptance

\* The runtime's own steps: an acceptance finds nobody up, a rejection takes nobody up.
LEMMA OutsideByAcceptance ==
  ASSUME IInv, Outside
  PROVE  ByAcceptance
<1>1. session \in Session /\ StateMatches(session) /\ Admitted(session)
  BY DEF IInv, Good, Core
<1>2. CASE Expire
  BY <1>1, <1>2 DEF Expire, Session, ByAcceptance, Up, Admitted
<1>3. CASE ClientConnects
  BY <1>1, <1>3 DEF ClientConnects, Session, StateMatches, ByAcceptance, Up
<1>4. CASE ClientLost \/ AuthReject
  BY <1>1, <1>4 DEF ClientLost, AuthReject, Session, ByAcceptance, Up
<1>5. CASE AuthAccept
  BY <1>1, <1>5 DEF AuthAccept, Session, ByAcceptance, Up, Admitted
<1>6. CASE RejectLocalSession
  BY <1>1, <1>6 DEF RejectLocalSession, Session, ByAcceptance, Up
<1> QED BY <1>2, <1>3, <1>4, <1>5, <1>6 DEF Outside

LEMMA AcceptanceStep == IInv /\ [Next]_vars => ByAcceptance \/ UNCHANGED vars
<1> SUFFICES ASSUME IInv, Next PROVE ByAcceptance
  BY DEF vars
<1>1. session \in Session
  BY DEF IInv, Good, Core
<1>2. CASE Update
  BY <1>2, UpdateDecided, DecidedByAcceptance
<1>3. CASE StartConfiguredSession
  BY <1>3, StartDecided, DecidedByAcceptance
<1>4. CASE StopSession
  <2>1. PICK s : session' = Report(s, "Disconnected", "UserRequested")
    BY <1>4 DEF StopSession
  <2>2. session' \in Session
    BY <1>4, StopGood DEF IInv, Good, Core
  <2> QED BY <2>1, <2>2 DEF Session, Report, ByAcceptance, Up
<1>5. CASE Destroy
  BY <1>5, DestroyGood DEF ByAcceptance, Up
<1>6. CASE Thread \/ Tick
  <2>1. /\ session'.state = session.state /\ session'.client = session.client
        /\ session'.auth = session.auth
    BY <1>1, <1>6 DEF Thread, TaskRegister, TaskResolve, ReleaseReply, ReleasePublish,
                      RefreshReply, Tick, Session
  <2>2. Decided(session, session')
    BY <2>1, SteadyDecided DEF Steady
  <2> QED BY <2>2, DecidedByAcceptance
<1>7. CASE Outside
  BY <1>7, OutsideByAcceptance
<1> QED BY <1>2, <1>3, <1>4, <1>5, <1>6, <1>7 DEF Next

\* A session with a client becomes Connected only by an accepted handshake; what rejects
\* it later leaves it up, and nothing accepts it again.
THEOREM ConnectedOnlyByAcceptance == Spec => ConnectedByAcceptance
<1>1. IInv /\ [Next]_vars => [ByAcceptance]_vars
  BY AcceptanceStep
<1>2. Spec => [][ByAcceptance]_vars
  <2> HIDE DEF ByAcceptance
  <2> QED BY <1>1, Invariance, PTL DEF Spec
<1> QED BY <1>2 DEF ConnectedByAcceptance, ByAcceptance

-----------------------------------------------------------------------------
(***************************************************************************)
(* Two more action properties.  A registration is let go of in three ways: *)
(* a release answered at once, one answered on a thread and collected      *)
(* later, and destruction.  Of the second the invariant says that an       *)
(* answer waiting to be collected is still true: nobody lists the handle   *)
(* again, as directories hand out fresh ones.                              *)
(***************************************************************************)
Sure(s) == s.release \in {"ok", "SessionClosed"} => s.handle \notin s.listed

\* A bootstrap is pending only in a session that resolves, or whose next start was refused.
Booting(s) == s.boot # NoTask => s.state \in {"Resolving", "Failed"}

HInv == IInv /\ Sure(session) /\ Booting(session)

\* Between s and t a registration was let go of only when it was no longer listed.
LetsGo(s, t) ==
  /\ Sure(t)
  /\ t.listed \subseteq s.listed
  /\ s.handle # NoHandle /\ t.handle # s.handle => s.handle \notin t.listed

Calm(s, t) == t.boot = s.boot /\ t.state \in {s.state, "Failed"}

Tidy(s, t) ==
  /\ LetsGo(s, t)
  /\ t.boot = NoTask \/ Calm(s, t)

LEMMA TidyChain ==
  ASSUME NEW s, NEW t, NEW u, Tidy(s, t), Tidy(t, u)
  PROVE  Tidy(s, u)
BY DEF Tidy, LetsGo, Sure, Calm

LEMMA TidySame ==
  ASSUME NEW s, NEW t, Sure(s), t.handle = s.handle, t.listed = s.listed,
         t.release = s.release, t.boot = s.boot,
         t.boot = NoTask \/ t.state \in {s.state, "Failed"}
  PROVE  Tidy(s, t)
BY DEF Tidy, LetsGo, Sure, Calm

\* Continuing a release is calm.
LEMMA TidyKeeps ==
  ASSUME NEW s, NEW t, Keeps(s, t), LetsGo(s, t)
  PROVE  Tidy(s, t) /\ Calm(s, t)
BY DEF Tidy, Calm, Keeps

\* A release that is said to be done is done: nobody can answer so for a listed handle.
LEMMA ReleaseAnswersTrue ==
  ASSUME NEW h, NEW listed \in SUBSET Handle, NEW d \in DirectoryRelease(h, listed)
  PROVE  /\ d.listed \subseteq listed
         /\ d.reply \in {"ok", "SessionClosed"} => h \notin d.listed
<1>1. "SessionClosed" \notin LostReply /\ "ok" \notin DirectoryError
  BY SessionAssumption DEF LostReply, DisconnectReason
<1> QED BY <1>1 DEF DirectoryRelease

\* Recording such an answer lets go of the registration at the right moment.
LEMMA RecordReleaseLetsGo ==
  ASSUME NEW s, Core(s), s.release = "none", NEW reply \in {"ok"} \cup DirectoryError,
         reply \in {"ok", "SessionClosed"} => s.handle \notin s.listed
  PROVE  LetsGo(s, RecordRelease(s, reply))
<1> DEFINE t == RecordRelease(s, reply)
<1>1. s \in Session
  BY DEF Core
<1>2. CASE reply \in {"ok", "SessionClosed"}
  <2>1. t.release = "none" /\ t.listed = s.listed
    BY <1>1, <1>2 DEF RecordRelease, ClearRegistration, Session
  <2> QED BY <1>2, <2>1 DEF LetsGo, Sure
<1>3. CASE reply \notin {"ok", "SessionClosed"}
  <2>1. t.release = "none" /\ t.listed = s.listed /\ t.handle = s.handle
    BY <1>1, <1>3 DEF RecordRelease, Session
  <2> QED BY <2>1 DEF LetsGo, Sure
<1> QED BY <1>2, <1>3

LEMMA ConsumeReleaseLetsGo ==
  ASSUME NEW s, Core(s), Sure(s)
  PROVE  LetsGo(s, ConsumeRelease(s))
<1> DEFINE t == [s EXCEPT !.release = "none", !.releaseReady = FALSE]
<1>1. CASE ~s.releaseReady
  BY <1>1 DEF ConsumeRelease, LetsGo
<1>2. CASE s.releaseReady
  <2>1. s.handle # NoHandle /\ s.release \in {"ok"} \cup DirectoryError
    BY <1>2 DEF Core, Bookkeeping, Session, Future
  <2>2. /\ Core(t) /\ t.release = "none" /\ t.handle = s.handle /\ t.listed = s.listed
    BY <1>2, <2>1 DEF Core, Bookkeeping, Session, Future, NoTransports
  <2>3. ConsumeRelease(s) = RecordRelease(t, s.release)
    BY <1>2, <2>1 DEF ConsumeRelease
  <2> HIDE DEF t
  <2>4. LetsGo(t, RecordRelease(t, s.release))
    BY <2>1, <2>2, RecordReleaseLetsGo DEF Sure
  <2> QED BY <2>2, <2>3, <2>4 DEF LetsGo
<1> QED BY <1>1, <1>2

LEMMA RacingLetsGo ==
  ASSUME NEW s, Core(s), Sure(s), NEW t \in ConsumeReleaseRacing(s)
  PROVE  LetsGo(s, t)
<1> DEFINE r == [s EXCEPT !.releaseReady = TRUE]
<1>1. CASE t = ConsumeRelease(s)
  BY <1>1, ConsumeReleaseLetsGo
<1>2. CASE s.release \notin {"none", "running"} /\ t = ConsumeRelease(r)
  <2>1. /\ Core(r) /\ r.handle = s.handle /\ r.listed = s.listed /\ r.release = s.release
    BY <1>2 DEF Core, Session, Bookkeeping, NoTransports
  <2> HIDE DEF r
  <2>2. Sure(r)
    BY <2>1 DEF Sure
  <2>3. LetsGo(r, t)
    BY <1>2, <2>1, <2>2, ConsumeReleaseLetsGo
  <2> QED BY <2>1, <2>3 DEF LetsGo
<1> QED BY <1>1, <1>2 DEF ConsumeReleaseRacing

LEMMA BeginReleaseLetsGo ==
  ASSUME NEW s, Core(s), Sure(s), NEW force
  PROVE  LetsGo(s, BeginRelease(s, force))
<1> DEFINE t == BeginRelease(s, force)
<1>1. /\ t.handle = s.handle /\ t.listed = s.listed
      /\ t.release \in {s.release, "running"}
  BY DEF BeginRelease, Core, Session
<1> QED BY <1>1 DEF LetsGo, Sure

LEMMA ReleaseNowLetsGo ==
  ASSUME NEW s, Core(s), Sure(s), ~s.async, NEW force, NEW allow,
         NEW t \in ReleaseNow(s, force, allow)
  PROVE  LetsGo(s, t)
<1>1. CASE MayAttempt(s, force, allow)
  <2>1. PICK d \in DirectoryRelease(s.handle, s.listed) :
          t = RecordRelease([s EXCEPT !.listed = d.listed], d.reply)
    BY <1>1 DEF ReleaseNow
  <2> DEFINE u == [s EXCEPT !.listed = d.listed]
  <2>2. /\ d.reply \in {"ok"} \cup DirectoryError /\ d.listed \in SUBSET Handle
        /\ d.listed \subseteq s.listed
        /\ d.reply \in {"ok", "SessionClosed"} => s.handle \notin d.listed
    <3>1. s.listed \in SUBSET Handle
      BY DEF Core, Session
    <3> QED BY <3>1, ReleaseAnswers, ReleaseAnswersTrue
  <2>3. Core(u) /\ u.release = "none" /\ u.handle = s.handle /\ u.listed = d.listed
    BY <1>1, <2>2 DEF MayAttempt, Core, Session, Bookkeeping, NoTransports
  <2> HIDE DEF u
  <2>4. LetsGo(u, RecordRelease(u, d.reply))
    BY <2>2, <2>3, RecordReleaseLetsGo
  <2>5. t = RecordRelease(u, d.reply)
    BY <2>1 DEF u
  <2> QED BY <2>2, <2>3, <2>4, <2>5 DEF LetsGo
<1>2. CASE ~MayAttempt(s, force, allow)
  BY <1>2 DEF ReleaseNow, LetsGo
<1> QED BY <1>1, <1>2

LEMMA EnsureReleaseTidy ==
  ASSUME NEW s, Core(s), Sure(s), NEW t \in EnsureRelease(s)
  PROVE  Tidy(s, t) /\ Calm(s, t)
<1>1. Keeps(s, t)
  BY EnsureReleaseGood
<1>2. CASE s.handle = NoHandle
  BY <1>1, <1>2, TidyKeeps DEF EnsureRelease, LetsGo
<1>3. CASE s.handle # NoHandle /\ s.async
  <2>1. PICK u \in ConsumeReleaseRacing(s) : t = BeginRelease(u, TRUE)
    BY <1>3 DEF EnsureRelease
  <2>2. Core(u) /\ LetsGo(s, u)
    BY ConsumeReleaseRacingGood, RacingLetsGo
  <2>3. LetsGo(u, t)
    BY <2>1, <2>2, BeginReleaseLetsGo DEF LetsGo
  <2>4. LetsGo(s, t)
    BY <2>2, <2>3 DEF LetsGo
  <2> QED BY <1>1, <2>4, TidyKeeps
<1>4. CASE s.handle # NoHandle /\ ~s.async
  <2>1. LetsGo(s, t)
    BY <1>4, ReleaseNowLetsGo DEF EnsureRelease
  <2> QED BY <1>1, <2>1, TidyKeeps
<1> QED BY <1>2, <1>3, <1>4

LEMMA RetryReleaseTidy ==
  ASSUME NEW s, Core(s), Sure(s), NEW t \in RetryRelease(s)
  PROVE  Tidy(s, t) /\ Calm(s, t)
<1>1. Keeps(s, t)
  BY RetryReleaseGood
<1>2. LetsGo(s, t)
  <2>1. CASE t = s
    BY <2>1 DEF LetsGo
  <2>2. CASE t = BeginRelease(s, FALSE)
    BY <2>2, BeginReleaseLetsGo
  <2>3. CASE ~s.async /\ t \in ReleaseNow(s, FALSE, FALSE)
    BY <2>3, ReleaseNowLetsGo
  <2> QED BY <2>1, <2>2, <2>3 DEF RetryRelease
<1> QED BY <1>1, <1>2, TidyKeeps

\* Failing, with the transports down or not, changes nothing about the registration.
LEMMA FailTidy ==
  ASSUME NEW s, Core(s), Sure(s), NEW r
  PROVE  Tidy(s, Fail(s, r)) /\ Calm(s, Fail(s, r))
<1> DEFINE t == Fail(s, r)
<1>1. /\ t.handle = s.handle /\ t.listed = s.listed /\ t.release = s.release
      /\ t.boot = s.boot /\ t.state = "Failed"
  BY DEF Fail, Report, Core, Session
<1> HIDE DEF t
<1> QED BY <1>1, TidySame DEF Calm, t

LEMMA StopTransportsTidy ==
  ASSUME NEW s, Core(s), Sure(s)
  PROVE  Tidy(s, StopTransports(s)) /\ Calm(s, StopTransports(s))
<1> DEFINE t == StopTransports(s)
<1>1. /\ t.handle = s.handle /\ t.listed = s.listed /\ t.release = s.release
      /\ t.boot = s.boot /\ t.state = s.state
  BY DEF StopTransports, Core, Session
<1> HIDE DEF t
<1> QED BY <1>1, TidySame DEF Calm, t

\* The cleanup that most failures share.
LEMMA CleanupTidy ==
  ASSUME NEW s, Core(s), Sure(s), NEW t \in EnsureRelease(StopTransports(s)),
         NEW r \in DisconnectReason
  PROVE  /\ Core(t) /\ Sure(t) /\ Tidy(s, t)
         /\ Tidy(s, Fail(t, r)) /\ Calm(s, Fail(t, r))
<1> DEFINE u == StopTransports(s)
<1>1. Core(u) /\ Tidy(s, u) /\ Calm(s, u)
  BY StopTransportsGood, StopTransportsTidy
<1> HIDE DEF u
<1>2. Sure(u)
  BY <1>1 DEF Tidy, LetsGo
<1>3. t \in EnsureRelease(u)
  BY DEF u
<1>4. Core(t) /\ Tidy(u, t) /\ Calm(u, t)
  BY <1>1, <1>2, <1>3, EnsureReleaseTidy, EnsureReleaseGood
<1>5. Sure(t) /\ Tidy(s, t) /\ Calm(s, t)
  BY <1>1, <1>4, TidyChain DEF Tidy, LetsGo, Calm
<1>6. Tidy(t, Fail(t, r)) /\ Calm(t, Fail(t, r))
  BY <1>4, <1>5, FailTidy
<1>7. Tidy(s, Fail(t, r)) /\ Calm(s, Fail(t, r))
  BY <1>5, <1>6, TidyChain DEF Calm
<1> QED BY <1>4, <1>5, <1>7

LEMMA RenewTidy ==
  ASSUME NEW s, Core(s), Sure(s), NEW l \in Lease
  PROVE  Tidy(s, Renew(s, l)) /\ Calm(s, Renew(s, l))
<1> DEFINE t == Renew(s, l)
<1>1. /\ t.handle = s.handle /\ t.listed = s.listed /\ t.release = s.release
      /\ t.boot = s.boot /\ t.state = s.state
  BY DEF Renew, Core, Session
<1> HIDE DEF t
<1> QED BY <1>1, TidySame DEF Calm, t

LEMMA ConsumeRefreshTidy ==
  ASSUME NEW s, Good(s), Sure(s), NEW t \in ConsumeRefresh(s)
  PROVE  Tidy(s, t) /\ Calm(s, t)
<1> DEFINE u == [s EXCEPT !.refresh = "none"]
<1>1. CASE s.refresh \in {"none", "running"}
  <2>1. t = s
    BY <1>1 DEF ConsumeRefresh
  <2> QED BY <2>1, TidySame DEF Calm
<1>2. CASE s.refresh \notin {"none", "running"}
  <2>1. /\ Core(u) /\ u.handle = s.handle /\ u.listed = s.listed /\ u.release = s.release
        /\ u.boot = s.boot /\ u.state = s.state
    BY DEF Good, Core, Session, Bookkeeping, NoTransports, Future
  <2>2. s.refresh \in {"ok"} \cup DirectoryError /\ DirectoryError \subseteq DisconnectReason
    BY <1>2, SessionAssumption DEF Good, Core, Session, Future
  <2>3. \/ t = u
        \/ \E l \in Lease : t = Renew(u, l)
        \/ s.refresh # "ok" /\ t \in RefreshFailure(u, s.refresh)
    BY <1>2 DEF ConsumeRefresh
  <2> HIDE DEF u
  <2>4. Tidy(s, u) /\ Calm(s, u) /\ Sure(u)
    BY <2>1, TidySame DEF Calm, Tidy, LetsGo
  <2>5. CASE t = u
    BY <2>4, <2>5
  <2>6. CASE \E l \in Lease : t = Renew(u, l)
    <3>1. Tidy(u, t) /\ Calm(u, t)
      BY <2>1, <2>4, <2>6, RenewTidy
    <3> QED BY <2>4, <3>1, TidyChain DEF Calm
  <2>7. CASE s.refresh # "ok" /\ t \in RefreshFailure(u, s.refresh)
    <3>1. PICK v \in EnsureRelease(StopTransports(u)) : t = Fail(v, s.refresh)
      BY <2>7 DEF RefreshFailure
    <3>2. Tidy(u, t) /\ Calm(u, t)
      BY <2>1, <2>2, <2>4, <2>7, <3>1, CleanupTidy
    <3> QED BY <2>4, <3>2, TidyChain DEF Calm
  <2> QED BY <2>3, <2>5, <2>6, <2>7
<1> QED BY <1>1, <1>2

LEMMA RefreshTidy ==
  ASSUME NEW s, Good(s), Sure(s), NEW t \in Refresh(s)
  PROVE  Tidy(s, t) /\ Calm(s, t)
<1> DEFINE reply == DirectoryRefresh(s.handle, s.listed)
           u == [s EXCEPT !.refresh = IF @ = "none" THEN "running" ELSE @]
<1>1. reply \ {"ok"} \subseteq DisconnectReason /\ Core(s)
  BY SessionAssumption DEF DirectoryRefresh, Good
<1>2. \/ t = s
      \/ t = u
      \/ \E l \in Lease : t = Renew(s, l)
      \/ \E e \in reply \ {"ok"} : t \in RefreshFailure(s, e)
  BY DEF Refresh
<1>3. CASE t = s
  BY <1>3, TidySame DEF Calm
<1>4. CASE t = u
  <2>1. /\ u.handle = s.handle /\ u.listed = s.listed /\ u.release = s.release
        /\ u.boot = s.boot /\ u.state = s.state
    BY <1>1 DEF Core, Session
  <2> HIDE DEF u
  <2> QED BY <1>4, <2>1, TidySame DEF Calm
<1>5. CASE \E l \in Lease : t = Renew(s, l)
  BY <1>1, <1>5, RenewTidy
<1>6. CASE \E e \in reply \ {"ok"} : t \in RefreshFailure(s, e)
  <2>1. PICK e \in reply \ {"ok"}, v \in EnsureRelease(StopTransports(s)) : t = Fail(v, e)
    BY <1>6 DEF RefreshFailure
  <2> HIDE DEF reply
  <2> QED BY <1>1, <2>1, CleanupTidy
<1> QED BY <1>2, <1>3, <1>4, <1>5, <1>6

\* Applying a bootstrap result: what is captured is new, what is given up is released.
LEMMA CaptureTidy ==
  ASSUME NEW s, Ready(s), NEW h \in Handle, NEW l \in Lease, NEW async \in BOOLEAN
  PROVE  Tidy(s, CaptureRegistration(s, h, l, async))
<1> DEFINE t == CaptureRegistration(s, h, l, async)
<1>1. /\ t.listed = s.listed /\ t.release = s.release /\ t.boot = NoTask
      /\ s.handle = NoHandle /\ s.release = "none"
  BY DEF CaptureRegistration, Ready, Core, Session, Bookkeeping
<1> HIDE DEF t
<1>2. Tidy(s, t)
  BY <1>1 DEF Tidy, LetsGo, Sure
<1> QED BY <1>2 DEF t

LEMMA OpenClientTidy ==
  ASSUME NEW s, Core(s), Sure(s), s.boot = NoTask, NEW mode, NEW join \in {"ok"} \cup DisconnectReason,
         NEW t \in OpenClient(s, mode, join)
  PROVE  Tidy(s, t)
<1>1. ASSUME NEW r \in DisconnectReason, NEW u \in GiveUpHosting(s, mode)
      PROVE  Tidy(s, Fail(u, r))
  <2>1. CASE u = s
    BY <2>1, FailTidy
  <2>2. CASE u \in EnsureRelease(StopTransports(s))
    BY <2>2, CleanupTidy
  <2> QED BY <2>1, <2>2 DEF GiveUpHosting
<1>2. CASE t = [Report(s, "Connecting", "None") EXCEPT !.client = "connecting"]
  <2>1. /\ t.handle = s.handle /\ t.listed = s.listed /\ t.release = s.release
        /\ t.boot = s.boot
    BY <1>2 DEF Report, Core, Session
  <2> QED BY <2>1, TidySame
<1>3. \/ t = [Report(s, "Connecting", "None") EXCEPT !.client = "connecting"]
      \/ \E u \in GiveUpHosting(s, mode), r \in DisconnectReason : t = Fail(u, r)
  BY DEF OpenClient, DisconnectReason
<1> QED BY <1>1, <1>2, <1>3

LEMMA OpenTransportsTidy ==
  ASSUME NEW s, Core(s), Sure(s), s.boot = NoTask, NEW b \in TaskRecord,
         NEW t \in OpenTransports(s, b)
  PROVE  Tidy(s, t)
<1> DEFINE hosts == Hosts(b.mode)
           u == [s EXCEPT !.server = hosts]
<1>1. hosts \in BOOLEAN /\ b.join \in {"ok"} \cup DisconnectReason
  BY DEF TaskRecord, Hosts
<1> HIDE DEF hosts
<1>2. /\ Core(u) /\ u.handle = s.handle /\ u.listed = s.listed /\ u.release = s.release
      /\ u.boot = NoTask
  BY <1>1 DEF Core, Session, Bookkeeping
<1>3. \/ \E v \in EnsureRelease(s) : t = Fail(v, "TransportError")
      \/ t \in OpenClient(u, b.mode, b.join)
      \/ t = Report(u, "Connected", "None")
  BY DEF OpenTransports, hosts
<1> HIDE DEF u
<1>4. Tidy(s, u) /\ Sure(u)
  BY <1>2, TidySame DEF Tidy, LetsGo
<1>5. CASE \E v \in EnsureRelease(s) : t = Fail(v, "TransportError")
  <2>1. PICK v \in EnsureRelease(s) : t = Fail(v, "TransportError")
    BY <1>5
  <2>2. Core(v) /\ Tidy(s, v)
    BY EnsureReleaseGood, EnsureReleaseTidy
  <2>3. Tidy(v, t)
    BY <2>1, <2>2, FailTidy DEF Tidy, LetsGo
  <2> QED BY <2>2, <2>3, TidyChain
<1>6. CASE t \in OpenClient(u, b.mode, b.join)
  <2>1. Tidy(u, t)
    BY <1>1, <1>2, <1>4, <1>6, OpenClientTidy
  <2> QED BY <1>4, <2>1, TidyChain
<1>7. CASE t = Report(u, "Connected", "None")
  <2>1. /\ t.handle = u.handle /\ t.listed = u.listed /\ t.release = u.release
        /\ t.boot = u.boot
    BY <1>2, <1>7 DEF Report, Core, Session
  <2>2. Tidy(u, t)
    BY <1>2, <1>4, <2>1, TidySame
  <2> QED BY <1>4, <2>2, TidyChain
<1> QED BY <1>3, <1>5, <1>6, <1>7

LEMMA ApplyBootstrapTidy ==
  ASSUME NEW s, Ready(s), NEW b \in TaskRecord, NEW async \in BOOLEAN,
         NEW t \in ApplyBootstrap(s, b, async)
  PROVE  Tidy(s, t)
<1>1. Core(s) /\ Sure(s) /\ s.boot = NoTask
  BY DEF Ready, Core, Bookkeeping, Sure
<1>2. CASE t \in OpenTransports(s, b)
  BY <1>1, <1>2, OpenTransportsTidy
<1>3. CASE t = Fail(s, b.host)
  BY <1>1, <1>3, FailTidy
<1>4. CASE \E l \in Lease :
             LET u == IF b.handle = NoHandle THEN s
                                             ELSE CaptureRegistration(s, b.handle, l, async)
             IN  t \in IF b.host = "invalid"
                         THEN {Fail(v, "BootstrapFailed") : v \in EnsureRelease(u)}
                         ELSE OpenTransports(u, b)
  <2> DEFINE captured(l) ==
        IF b.handle = NoHandle THEN s ELSE CaptureRegistration(s, b.handle, l, async)
  <2>1. PICK l \in Lease :
          t \in IF b.host = "invalid"
                  THEN {Fail(v, "BootstrapFailed") : v \in EnsureRelease(captured(l))}
                  ELSE OpenTransports(captured(l), b)
    BY <1>4
  <2> DEFINE u == captured(l)
  <2>2. Core(u) /\ Tidy(s, u) /\ u.boot = NoTask
    <3>1. CASE b.handle = NoHandle
      BY <1>1, <3>1, TidySame
    <3>2. CASE b.handle # NoHandle
      <4>1. b.handle \in Handle /\ u = CaptureRegistration(s, b.handle, l, async)
        BY <3>2 DEF TaskRecord
      <4> HIDE DEF u
      <4> QED BY <4>1, CaptureGood, CaptureTidy
    <3> QED BY <3>1, <3>2
  <2> HIDE DEF u
  <2>3. Sure(u)
    BY <2>2 DEF Tidy, LetsGo
  <2>4. CASE b.host = "invalid"
    <3>1. PICK v \in EnsureRelease(u) : t = Fail(v, "BootstrapFailed")
      BY <2>1, <2>4 DEF u
    <3>2. Core(v) /\ Tidy(u, v)
      BY <2>2, <2>3, EnsureReleaseGood, EnsureReleaseTidy
    <3>3. Tidy(v, t)
      BY <3>1, <3>2, FailTidy DEF Tidy, LetsGo
    <3> QED BY <2>2, <3>2, <3>3, TidyChain
  <2>5. CASE b.host # "invalid"
    <3>1. t \in OpenTransports(u, b)
      BY <2>1, <2>5 DEF u
    <3>2. Tidy(u, t)
      BY <2>2, <2>3, <3>1, OpenTransportsTidy
    <3> QED BY <2>2, <3>2, TidyChain
  <2> QED BY <2>4, <2>5
<1> QED BY <1>2, <1>3, <1>4 DEF ApplyBootstrap

LEMMA ConsumeBootstrapTidy ==
  ASSUME NEW s, Good(s), Sure(s), TasksGood, BootReady(s), NEW t \in ConsumeBootstrap(s)
  PROVE  Tidy(s, t)
<1> DEFINE u == [s EXCEPT !.boot = NoTask]
<1>1. s.boot \in Task /\ tasks[s.boot] \in TaskRecord
  BY DEF BootReady, Good, Core, Session, TasksGood
<1>2. /\ Ready(u) /\ u.handle = s.handle /\ u.listed = s.listed /\ u.release = s.release
      /\ u.boot = NoTask
  BY <1>1, SessionAssumption
     DEF Good, Core, Session, Bookkeeping, NoTransports, Ready
<1>3. t \in ApplyBootstrap(u, tasks[s.boot], TRUE)
  BY DEF ConsumeBootstrap
<1> HIDE DEF u
<1>4. Tidy(s, u)
  BY <1>2 DEF Tidy, LetsGo, Sure
<1>5. Tidy(u, t)
  BY <1>1, <1>2, <1>3, ApplyBootstrapTidy
<1> QED BY <1>4, <1>5, TidyChain

\* The session's own steps leave the registration to the cleanup.
LEMMA AdvanceTidy ==
  ASSUME NEW s, Good(s), Sure(s), NEW t \in Advance(s)
  PROVE  Tidy(s, t)
<1>1. Core(s)
  BY DEF Good
<1>2. CASE t = s
  BY <1>2, TidySame
<1>3. CASE t \in TimeOut(s)
  BY <1>1, <1>3, CleanupTidy DEF TimeOut, Dropped, DisconnectReason
<1>4. CASE t \in FailHandshake(s)
  <2>1. PICK u \in EnsureRelease(StopTransports(s)) : t = Fail(u, u.authReason)
    BY <1>4 DEF FailHandshake, Dropped
  <2>2. Core(u)
    BY <1>1, CleanupGood DEF DisconnectReason
  <2>3. u.authReason \in DisconnectReason
    BY <2>2 DEF Core, Session
  <2> QED BY <1>1, <2>1, <2>3, CleanupTidy
<1>5. CASE /\ s.client # "absent"
           /\ t.handle = s.handle
           /\ t.listed = s.listed
           /\ t.release = s.release
           /\ t.boot = s.boot
  BY <1>1, <1>5, TidySame DEF Core, Bookkeeping, NoTransports
<1>6. CASE s.client = "connected" /\ t = BeginHandshake(s)
  <2>1. /\ t.handle = s.handle /\ t.listed = s.listed /\ t.release = s.release
        /\ t.boot = s.boot
    BY <1>1, <1>6 DEF BeginHandshake, Report, Core, Session
  <2> QED BY <1>5, <1>6, <2>1
<1>7. CASE IsSessionAuthenticated(s) /\ t = Report(s, "Connected", "None")
  <2>1. /\ t.handle = s.handle /\ t.listed = s.listed /\ t.release = s.release
        /\ t.boot = s.boot
    BY <1>1, <1>7 DEF Report, Core, Session
  <2> QED BY <1>5, <1>7, <2>1 DEF IsSessionAuthenticated
<1>8. CASE /\ s.client \in {"connecting", "lost"}
           /\ t = Report(s, "Disconnected", "TransportError")
  <2>1. /\ t.handle = s.handle /\ t.listed = s.listed /\ t.release = s.release
        /\ t.boot = s.boot
    BY <1>1, <1>8 DEF Report, Core, Session
  <2> QED BY <1>5, <1>8, <2>1
<1> QED BY <1>2, <1>3, <1>4, <1>6, <1>7, <1>8 DEF Advance

LEMMA MaintainTidy ==
  ASSUME NEW s, Good(s), Sure(s), NEW t \in Maintain(s)
  PROVE  Tidy(s, t)
<1>1. PICK u \in RetryRelease(s) : t \in UNION {Advance(v) : v \in Refresh(u)}
  BY DEF Maintain
<1>2. Good(u) /\ Tidy(s, u) /\ Sure(u)
  BY RetryReleaseGood, KeepsGood, RetryReleaseTidy DEF Good, Tidy, LetsGo
<1>3. PICK v \in Refresh(u) : t \in Advance(v)
  BY <1>1
<1>4. Good(v) /\ Tidy(u, v) /\ Sure(v)
  BY <1>2, RefreshGood, RefreshTidy DEF Tidy, LetsGo
<1>5. Tidy(v, t)
  BY <1>3, <1>4, AdvanceTidy
<1> QED BY <1>2, <1>4, <1>5, TidyChain

\* A session that is down stays down while a frame maintains it ...
Down == {"Idle", "Disconnected", "Failed"}

LEMMA MaintainDown ==
  ASSUME NEW s, Good(s), Sure(s), s.state \in Down, NEW t \in Maintain(s)
  PROVE  t.state \in Down
<1>1. PICK u \in RetryRelease(s) : t \in UNION {Advance(v) : v \in Refresh(u)}
  BY DEF Maintain
<1>2. Good(u) /\ Sure(u) /\ u.state \in Down
  BY RetryReleaseGood, KeepsGood, RetryReleaseTidy DEF Good, Tidy, LetsGo, Calm, Down
<1>3. PICK v \in Refresh(u) : t \in Advance(v)
  BY <1>1
<1>4. v.state \in Down
  BY <1>2, RefreshTidy DEF Calm, Down
<1>5. t = v
  BY <1>3, <1>4 DEF Advance, Down
<1> QED BY <1>4, <1>5

LEMMA PollTidy ==
  ASSUME NEW s, Good(s), Sure(s), TasksGood, NEW t \in PollFailed(s) \cup Polled(s)
  PROVE  /\ Tidy(s, t)
         /\ (s.state \in Down /\ s.boot = NoTask) => t.state \in Down
<1> DEFINE a == ConsumeRelease(s)
<1>1. Good(a) /\ Tidy(s, a) /\ Calm(s, a) /\ Sure(a)
  BY ConsumeReleaseGood, ConsumeReleaseLetsGo, KeepsGood, TidyKeeps DEF Good, LetsGo
<1>2. \/ t \in ConsumeRefresh(a)
      \/ \E b \in ConsumeRefresh(a) : BootReady(b) /\ t \in ConsumeBootstrap(b)
  BY DEF PollFailed, Polled
<1> HIDE DEF a
<1>3. CASE t \in ConsumeRefresh(a)
  <2>1. Tidy(a, t) /\ Calm(a, t)
    BY <1>1, <1>3, ConsumeRefreshTidy
  <2> QED BY <1>1, <2>1, TidyChain DEF Calm, Down
<1>4. CASE \E b \in ConsumeRefresh(a) : BootReady(b) /\ t \in ConsumeBootstrap(b)
  <2>1. PICK b \in ConsumeRefresh(a) : BootReady(b) /\ t \in ConsumeBootstrap(b)
    BY <1>4
  <2>2. Good(b) /\ Tidy(a, b) /\ Calm(a, b) /\ Sure(b)
    BY <1>1, ConsumeRefreshGood, ConsumeRefreshTidy DEF Tidy, LetsGo
  <2>3. Tidy(b, t)
    BY <2>1, <2>2, ConsumeBootstrapTidy
  <2>4. b.boot # NoTask /\ b.boot = s.boot
    BY <1>1, <2>1, <2>2 DEF BootReady, Calm
  <2> QED BY <1>1, <2>2, <2>3, <2>4, TidyChain
<1> QED BY <1>2, <1>3, <1>4

\* ... and a frame as a whole keeps the registration in order.
LEMMA UpdateTidy ==
  ASSUME HInv, Update
  PROVE  /\ Tidy(session, session')
         /\ (session.state \in Down /\ session.boot = NoTask) => session'.state \in Down
<1>1. Good(session) /\ Sure(session) /\ TasksGood
  BY DEF HInv, IInv
<1>2. CASE session' \in PollFailed(session)
  BY <1>1, <1>2, PollTidy
<1>3. ASSUME NEW s \in Polled(session), session' \in Maintain(s)
      PROVE  /\ Tidy(session, session')
             /\ (session.state \in Down /\ session.boot = NoTask) => session'.state \in Down
  <2>1. Good(s) /\ Tidy(session, s) /\ Sure(s)
    BY <1>1, PollGood, PollTidy DEF Tidy, LetsGo
  <2>2. Tidy(s, session')
    BY <1>3, <2>1, MaintainTidy
  <2>3. (session.state \in Down /\ session.boot = NoTask) => session'.state \in Down
    BY <1>1, <1>3, <2>1, PollTidy, MaintainDown
  <2> QED BY <2>1, <2>2, <2>3, TidyChain
<1> QED BY <1>2, <1>3 DEF Update

\* Between frames a bootstrap stays pending only where nothing else has begun.
LEMMA TidyBooting ==
  ASSUME NEW s, NEW t, Booting(s), Tidy(s, t)
  PROVE  Booting(t)
BY DEF Booting, Tidy, Calm

\* What every step keeps, and how it may let go of a registration.
Orderly(s, t) ==
  /\ Sure(t) /\ Booting(t)
  /\ s.handle # NoHandle /\ t.handle # s.handle
       => s.handle \notin t.listed \/ t.state = "Destroyed"

LEMMA TidyOrderly ==
  ASSUME NEW s, NEW t, Booting(s), Tidy(s, t)
  PROVE  Orderly(s, t)
BY TidyBooting DEF Orderly, Tidy, LetsGo

\* A registration gets a handle that nobody holds.
LEMMA RegistersFresh ==
  ASSUME NEW mode, NEW flow, NEW listed, NEW d \in HostOutcome(mode, flow, listed)
  PROVE  session.handle \in d.listed => session.handle \in listed
<1>1. \A e \in DirectoryRegister(Fresh, listed) : e.listed \subseteq listed \cup Fresh
  BY DEF DirectoryRegister
<1>2. session.handle \notin Fresh
  BY DEF Fresh
<1>3. \A e \in DirectoryRegister(Fresh, listed) :
        e = [reply |-> e.reply, handle |-> e.handle, listed |-> e.listed]
  BY DEF DirectoryRegister
<1>4. d.listed \subseteq listed \cup Fresh
  <2>1. \/ d.listed = listed
        \/ d \in DirectoryRegister(Fresh, listed)
        \/ \E e \in DirectoryRegister(Fresh, listed) : d = [e EXCEPT !.reply = "invalid"]
    BY DEF HostOutcome
  <2> QED BY <1>1, <1>3, <2>1
<1> QED BY <1>2, <1>4

\* A start gets as far as launching without holding anything, and in order.
LEMMA StartAdmittedTidy ==
  ASSUME NEW p, Good(p), Sure(p), p.boot = NoTask,
         NEW t \in StartAdmitted(StopTransports(p))
  PROVE  Tidy(p, t)
<1> DEFINE s == StopTransports(p)
<1>1. Core(s) /\ Tidy(p, s) /\ Sure(s) /\ s.boot = NoTask
  BY StopTransportsGood, StopTransportsTidy DEF Good, Tidy, LetsGo
<1>2. t \in StartAdmitted(s)
  OBVIOUS
<1> HIDE DEF s
<1>3. CASE s.handle = NoHandle
  BY <1>1, <1>2, <1>3 DEF StartAdmitted
<1>4. CASE s.handle # NoHandle
  <2>1. ~s.async /\ t \in ReleaseNow(s, TRUE, FALSE)
    BY <1>2, <1>4 DEF StartAdmitted
  <2>2. Keeps(s, t) /\ LetsGo(s, t)
    BY <1>1, <2>1, ReleaseNowGood, ReleaseNowLetsGo
  <2>3. Tidy(s, t)
    BY <2>2, TidyKeeps
  <2> QED BY <1>1, <2>3, TidyChain
<1> QED BY <1>3, <1>4

LEMMA StartRefusedTidy ==
  ASSUME NEW p, Good(p), Sure(p), NEW t \in StartRefused(StopTransports(p))
  PROVE  Tidy(p, t)
<1> DEFINE s == StopTransports(p)
<1>1. Core(s) /\ Tidy(p, s) /\ Sure(s)
  BY StopTransportsGood, StopTransportsTidy DEF Good, Tidy, LetsGo
<1>2. t \in StartRefused(s)
  OBVIOUS
<1> HIDE DEF s
<1>3. PICK u : /\ t = Fail(u, "BootstrapFailed")
               /\ u \in IF s.async THEN {BeginRelease(v, TRUE) : v \in ConsumeReleaseRacing(s)}
                        ELSE {v \in ReleaseNow(s, TRUE, FALSE) : v.handle # NoHandle}
  BY <1>2 DEF StartRefused
<1>4. Core(u) /\ Keeps(s, u) /\ LetsGo(s, u)
  <2>1. CASE s.async
    <3>1. PICK v \in ConsumeReleaseRacing(s) : u = BeginRelease(v, TRUE)
      BY <1>3, <2>1
    <3>2. Core(v) /\ Keeps(s, v) /\ (v.handle # NoHandle => v.async) /\ LetsGo(s, v)
      BY <1>1, <2>1, ConsumeReleaseRacingGood, RacingKeepsAsync, RacingLetsGo
    <3>3. Core(u) /\ Keeps(v, u) /\ LetsGo(v, u)
      BY <3>1, <3>2, BeginReleaseGood, BeginReleaseLetsGo DEF LetsGo
    <3> QED BY <3>2, <3>3 DEF Keeps, LetsGo
  <2>2. CASE ~s.async
    BY <1>1, <1>3, <2>2, ReleaseNowGood, ReleaseNowLetsGo
  <2> QED BY <2>1, <2>2
<1>5. Tidy(s, u) /\ Sure(u)
  BY <1>4, TidyKeeps DEF LetsGo
<1>6. Tidy(u, t)
  BY <1>3, <1>4, <1>5, FailTidy
<1> QED BY <1>1, <1>5, <1>6, TidyChain

\* Launching: whatever is registered now, the handle let go of before is not among it.
LEMMA LaunchOrderly ==
  ASSUME HInv, NEW s, Ready(s), Tidy(session, s), Launch(s)
  PROVE  Orderly(session, session')
<1>1. Core(s) /\ Sure(s) /\ s.boot = NoTask /\ s.handle = NoHandle /\ Booting(session)
  BY DEF Ready, Tidy, LetsGo, HInv
<1>2. CASE session' = Report(s, "Idle", "None")
  <2>1. /\ session'.handle = s.handle /\ session'.listed = s.listed
        /\ session'.release = s.release /\ session'.boot = s.boot
    BY <1>1, <1>2 DEF Report, Core, Session
  <2>2. Tidy(s, session')
    BY <1>1, <2>1, TidySame
  <2> QED BY <1>1, <2>2, TidyChain, TidyOrderly
<1>3. CASE session' = Fail(s, "BootstrapFailed")
  BY <1>1, <1>3, FailTidy, TidyChain, TidyOrderly
<1>4. ASSUME NEW mode \in HostingMode \ {"None"}, NEW flow, StartHere(s, mode, flow)
      PROVE  Orderly(session, session')
  <2>1. PICK d \in HostOutcome(mode, flow, s.listed), j \in JoinOutcome(flow) :
          session' \in ApplyBootstrap([s EXCEPT !.listed = d.listed],
                         [phase |-> "done", mode |-> mode, handle |-> d.handle,
                          host |-> d.reply, join |-> j], FALSE)
    BY <1>4 DEF StartHere
  <2> DEFINE b == [phase |-> "done", mode |-> mode, handle |-> d.handle,
                   host |-> d.reply, join |-> j]
             u == [s EXCEPT !.listed = d.listed]
  <2>2. /\ d.reply \in {"ok", "invalid"} \cup DisconnectReason
        /\ d.handle \in Handle \cup {NoHandle} /\ d.listed \in SUBSET Handle
    <3>1. s.listed \in SUBSET Handle
      BY <1>1 DEF Core, Session
    <3> QED BY <3>1, HostOutcomeType
  <2>3. b \in TaskRecord
    BY <2>2, JoinOutcomeType DEF TaskRecord
  <2>4. Ready(u) /\ u.listed = d.listed /\ u.handle = NoHandle /\ u.boot = NoTask
    BY <2>2 DEF Ready, Core, Session, Bookkeeping, NoTransports
  <2> HIDE DEF b, u
  <2>5. session' \in ApplyBootstrap(u, b, FALSE)
    BY <2>1 DEF b, u
  <2>6. Tidy(u, session')
    BY <2>3, <2>4, <2>5, ApplyBootstrapTidy
  <2>7. session'.boot = NoTask /\ Sure(session') /\ session'.listed \subseteq d.listed
    BY <2>4, <2>6 DEF Tidy, LetsGo, Calm
  <2>8. session.handle \in d.listed => session.handle \in s.listed
    BY RegistersFresh
  <2>9. session.handle # NoHandle => session.handle \notin s.listed
    BY <1>1 DEF Tidy, LetsGo
  <2> QED BY <2>7, <2>8, <2>9 DEF Orderly, Booting
<1>5. ASSUME NEW mode, StartDetached(s, mode)
      PROVE  Orderly(session, session')
  <2>1. PICK t \in Task : session' = [Report(s, "Resolving", "None") EXCEPT !.boot = t]
    BY <1>5 DEF StartDetached
  <2>2. /\ session'.handle = s.handle /\ session'.listed = s.listed
        /\ session'.release = s.release /\ session'.state = "Resolving"
    BY <1>1, <2>1 DEF Report, Core, Session
  <2> QED BY <1>1, <2>2 DEF Orderly, Booting, Sure, Tidy, LetsGo
<1> QED BY <1>2, <1>3, <1>4, <1>5 DEF Launch

LEMMA StartOrderly ==
  ASSUME HInv, StartConfiguredSession
  PROVE  Orderly(session, session')
<1>1. Good(session) /\ Sure(session) /\ Booting(session) /\ TasksGood
  BY DEF HInv, IInv
<1>2. \A p \in Polled(session) : Good(p) /\ Tidy(session, p) /\ Sure(p)
  BY <1>1, PollGood, PollTidy DEF Tidy, LetsGo
<1>3. CASE session' \in PollFailed(session)
  BY <1>1, <1>3, PollTidy, TidyOrderly
<1>4. ASSUME NEW p \in Polled(session), session' = Fail(p, "BootstrapFailed")
      PROVE  Orderly(session, session')
  BY <1>1, <1>2, <1>4, FailTidy, TidyChain, TidyOrderly DEF Good
<1>5. ASSUME NEW p \in Polled(session), session' \in StartRefused(StopTransports(p))
      PROVE  Orderly(session, session')
  <2>1. Tidy(p, session')
    BY <1>2, <1>5, StartRefusedTidy
  <2> QED BY <1>1, <1>2, <2>1, TidyChain, TidyOrderly
<1>6. ASSUME NEW p \in Polled(session), p.boot = NoTask,
             NEW s \in StartAdmitted(StopTransports(p)), Launch(s)
      PROVE  Orderly(session, session')
  <2>1. Ready(s) /\ Tidy(p, s)
    BY <1>2, <1>6, StartAdmittedGood, StartAdmittedTidy
  <2>2. Tidy(session, s)
    BY <1>2, <2>1, TidyChain
  <2> QED BY <1>6, <2>1, <2>2, LaunchOrderly
<1> QED BY <1>3, <1>4, <1>5, <1>6 DEF StartConfiguredSession

LEMMA StopOrderly ==
  ASSUME HInv, StopSession
  PROVE  Orderly(session, session')
<1> DEFINE u == [session EXCEPT !.boot = NoTask]
<1>1. /\ Core(u) /\ u.boot = NoTask /\ u.handle = session.handle
      /\ u.listed = session.listed /\ u.release = session.release
  BY DEF HInv, IInv, Good, Core, Session, Bookkeeping
<1> HIDE DEF u
<1>2. Sure(u) /\ Tidy(session, u)
  BY <1>1 DEF HInv, Sure, Tidy, LetsGo
<1>3. PICK s \in EnsureRelease(StopTransports(u)) :
        session' = Report(s, "Disconnected", "UserRequested")
  BY DEF StopSession, u
<1>4. Core(s) /\ Sure(s) /\ Tidy(u, s) /\ s.boot = NoTask
  BY <1>1, <1>2, <1>3, CleanupTidy, CleanupGood DEF DisconnectReason
<1>5. /\ session'.handle = s.handle /\ session'.listed = s.listed
      /\ session'.release = s.release /\ session'.boot = s.boot
  BY <1>3, <1>4 DEF Report, Core, Session
<1>6. Tidy(s, session')
  BY <1>4, <1>5, TidySame
<1>7. Tidy(session, session')
  BY <1>2, <1>4, <1>6, TidyChain
<1> QED BY <1>7, TidyOrderly DEF HInv

\* Destruction forgets the registration whatever came of its release.
LEMMA DestroyOrderly ==
  ASSUME HInv, Destroy
  PROVE  Orderly(session, session')
<1>1. /\ session'.state = "Destroyed" /\ session'.boot = NoTask
      /\ session'.handle = NoHandle /\ IInv'
  BY DestroyGood DEF HInv
<1>2. session'.release = "none"
  BY <1>1 DEF IInv, Good, Core, Bookkeeping
<1> QED BY <1>1, <1>2 DEF Orderly, Sure, Booting

\* No thread, and nothing outside, touches the handle; what is listed anew is another.
LEMMA ThreadOrderly ==
  ASSUME HInv, Thread
  PROVE  Orderly(session, session')
<1>1. session \in Session /\ Core(session) /\ Sure(session) /\ Booting(session)
  BY DEF HInv, IInv, Good, Core
<1>2. ASSUME NEW t \in Task, TaskRegister(t)
      PROVE  Orderly(session, session')
  <2>1. PICK d \in HostOutcome(tasks[t].mode, "broker", session.listed) :
          session' = [session EXCEPT !.listed = d.listed]
    BY <1>2 DEF TaskRegister
  <2>2. session.handle \in d.listed => session.handle \in session.listed
    BY RegistersFresh
  <2>3. /\ session'.handle = session.handle /\ session'.listed = d.listed
        /\ session'.release = session.release /\ session'.boot = session.boot
        /\ session'.state = session.state
    BY <1>1, <2>1 DEF Session
  <2> QED BY <1>1, <2>2, <2>3 DEF Orderly, Sure, Booting
<1>3. ASSUME NEW t \in Task, TaskResolve(t)
      PROVE  Orderly(session, session')
  BY <1>1, <1>3 DEF TaskResolve, Orderly
<1>4. CASE ReleaseReply
  <2>1. PICK d \in DirectoryRelease(session.handle, session.listed) :
          session' = [session EXCEPT !.release = d.reply, !.listed = d.listed]
    BY <1>4 DEF ReleaseReply
  <2>2. d.reply \in {"ok", "SessionClosed"} => session.handle \notin d.listed
    BY <1>1, ReleaseAnswersTrue DEF Session
  <2>3. /\ session'.handle = session.handle /\ session'.listed = d.listed
        /\ session'.release = d.reply /\ session'.boot = session.boot
        /\ session'.state = session.state
    BY <1>1, <2>1 DEF Session
  <2> QED BY <1>1, <2>2, <2>3 DEF Orderly, Sure, Booting
<1>5. CASE ReleasePublish
  BY <1>1, <1>5 DEF ReleasePublish, Session, Orderly, Sure, Booting
<1>6. CASE RefreshReply
  BY <1>1, <1>6 DEF RefreshReply, Session, Orderly, Sure, Booting
<1> QED BY <1>2, <1>3, <1>4, <1>5, <1>6 DEF Thread

LEMMA OthersOrderly ==
  ASSUME HInv, Outside \/ Tick
  PROVE  Orderly(session, session')
<1>1. session \in Session /\ Sure(session) /\ Booting(session)
  BY DEF HInv, IInv, Good, Core
<1>2. /\ session'.handle = session.handle /\ session'.listed \subseteq session.listed
      /\ session'.release = session.release /\ session'.boot = session.boot
      /\ session'.state = session.state
  <2>1. CASE Expire
    BY <1>1, <2>1 DEF Expire, Session
  <2>2. CASE ClientConnects \/ ClientLost \/ AuthAccept
    BY <1>1, <2>2 DEF ClientConnects, ClientLost, AuthAccept, Session
  <2>3. CASE AuthReject \/ RejectLocalSession
    BY <1>1, <2>3 DEF AuthReject, RejectLocalSession, Session
  <2>4. CASE Tick
    BY <1>1, <2>4 DEF Tick, Session
  <2> QED BY <2>1, <2>2, <2>3, <2>4 DEF Outside
<1> QED BY <1>1, <1>2 DEF Orderly, Sure, Booting

LEMMA HInvInit == Init => HInv
  BY InitGood DEF Init, HInv, Sure, Booting

LEMMA HInvStep ==
  HInv /\ [Next]_vars => HInv' /\ (Orderly(session, session') \/ session' = session)
<1> SUFFICES ASSUME HInv, [Next]_vars
             PROVE  HInv' /\ (Orderly(session, session') \/ session' = session)
  OBVIOUS
<1>1. IInv'
  BY StepGood DEF HInv
<1>2. CASE UNCHANGED vars
  BY <1>1, <1>2 DEF vars, HInv
<1>3. CASE Next
  <2>1. Update => Orderly(session, session')
    BY UpdateTidy, TidyOrderly DEF HInv
  <2>2. Orderly(session, session')
    BY <1>3, <2>1, StartOrderly, StopOrderly, DestroyOrderly, ThreadOrderly, OthersOrderly
       DEF Next
  <2> QED BY <1>1, <2>2 DEF HInv, Orderly
<1> QED BY <1>2, <1>3

\* HInv holds in every reachable state.
THEOREM HandleInvariance == Spec => []HInv
<1>1. HInv /\ [Next]_vars => HInv'
  BY HInvStep
<1> QED BY <1>1, HInvInit, PTL DEF Spec

\* The manager lets go of a registration only when the directory no longer lists it,
\* whatever was lost or failed before; only destruction may leak one.
THEOREM RegistrationsKept == Spec => HandleKeptWhileListed
<1> DEFINE LetGoInOrder == (session.handle # NoHandle /\ session'.handle # session.handle)
                      => session.handle \notin session'.listed \/ session'.state = "Destroyed"
<1>1. HInv /\ [Next]_vars => [LetGoInOrder]_vars
  BY HInvStep DEF Orderly
<1>2. Spec => [][LetGoInOrder]_vars
  <2> HIDE DEF LetGoInOrder
  <2> QED BY <1>1, HandleInvariance, PTL DEF Spec
<1> QED BY <1>2 DEF HandleKeptWhileListed

\* A session that is down comes back up only by being started again.
THEOREM DownUntilStarted == Spec => DownStaysDown
<1> DEFINE Stays == (/\ Update
                     /\ session.state \in {"Idle", "Disconnected", "Failed"}
                     /\ session.state = "Failed" => session.boot = NoTask)
                      => session'.state \in {"Idle", "Disconnected", "Failed"}
<1>1. HInv /\ [Next]_vars => [Stays]_vars
  <2> SUFFICES ASSUME HInv, Update, session.state \in Down,
                      session.state = "Failed" => session.boot = NoTask
               PROVE  session'.state \in Down
    BY DEF Down
  <2>1. session.boot = NoTask
    BY DEF HInv, Booting, Down
  <2> QED BY <2>1, UpdateTidy
<1>2. Spec => [][Stays]_vars
  <2> HIDE DEF Stays
  <2> QED BY <1>1, HandleInvariance, PTL DEF Spec
<1> QED BY <1>2 DEF DownStaysDown

-----------------------------------------------------------------------------
(***************************************************************************)
(* The registration a pending bootstrap has obtained.  Until the bootstrap *)
(* is collected its thread's record keeps the handle; then the manager     *)
(* captures it before anything else can fail.                              *)
(***************************************************************************)

\* A handle is obtained by a host whose registration was answered with a success.
Booked(task) ==
  task.handle # NoHandle =>
    /\ task.phase \in {"resolve", "done"} /\ Hosts(task.mode)
    /\ task.host \in {"ok", "invalid"}

DInv == HInv /\ \A t \in Task : Booked(tasks[t])

\* h is known to the manager, or no longer listed.
Settled(h, s) == s.handle = h \/ h \notin s.listed

\* Between s and t the bootstrap pending in s stays pending, or its handle is settled.
Delivers(s, t) ==
  s.boot # NoTask /\ tasks[s.boot].handle # NoHandle =>
    t.boot = s.boot \/ Settled(tasks[s.boot].handle, t)

LEMMA SettledStays ==
  ASSUME NEW h, h # NoHandle, NEW s, NEW t, Settled(h, s), LetsGo(s, t)
  PROVE  Settled(h, t)
BY DEF Settled, LetsGo

\* What comes after keeps the delivery.
LEMMA DeliversChain ==
  ASSUME NEW s, NEW t, NEW u, Delivers(s, t), Tidy(t, u),
         t.boot # NoTask => u.boot = t.boot
  PROVE  Delivers(s, u)
<1> SUFFICES ASSUME s.boot # NoTask, tasks[s.boot].handle # NoHandle
             PROVE  u.boot = s.boot \/ Settled(tasks[s.boot].handle, u)
  BY DEF Delivers
<1>1. CASE t.boot = s.boot
  BY <1>1
<1>2. CASE Settled(tasks[s.boot].handle, t)
  BY <1>2, SettledStays DEF Tidy
<1> QED BY <1>1, <1>2 DEF Delivers

\* Applying a result that has a handle settles it, whether or not the session comes up.
LEMMA ApplyBootstrapDelivers ==
  ASSUME NEW s, Ready(s), NEW b \in TaskRecord, Booked(b), b.handle # NoHandle,
         NEW async \in BOOLEAN, NEW t \in ApplyBootstrap(s, b, async)
  PROVE  Settled(b.handle, t)
<1>1. Hosts(b.mode) /\ b.host \in {"ok", "invalid"} /\ b.handle \in Handle
  BY DEF Booked, TaskRecord
<1>2. PICK l \in Lease :
        LET u == CaptureRegistration(s, b.handle, l, async)
        IN  t \in IF b.host = "invalid" THEN {Fail(v, "BootstrapFailed") : v \in EnsureRelease(u)}
                  ELSE OpenTransports(u, b)
  BY <1>1 DEF ApplyBootstrap
<1> DEFINE u == CaptureRegistration(s, b.handle, l, async)
<1>3. Core(u) /\ Sure(u) /\ u.boot = NoTask /\ u.handle = b.handle
  <2>1. u.handle = b.handle
    BY DEF CaptureRegistration, Ready, Core, Session
  <2>2. Core(u) /\ u.boot = NoTask /\ Tidy(s, u)
    BY <1>1, CaptureGood, CaptureTidy
  <2> HIDE DEF u
  <2> QED BY <2>1, <2>2 DEF Tidy, LetsGo
<1>4. t \in IF b.host = "invalid" THEN {Fail(v, "BootstrapFailed") : v \in EnsureRelease(u)}
            ELSE OpenTransports(u, b)
  BY <1>2
<1> HIDE DEF u
<1>5. Tidy(u, t)
  <2>1. CASE b.host = "invalid"
    <3>1. PICK v \in EnsureRelease(u) : t = Fail(v, "BootstrapFailed")
      BY <1>4, <2>1
    <3>2. Core(v) /\ Tidy(u, v)
      BY <1>3, EnsureReleaseGood, EnsureReleaseTidy
    <3>3. Tidy(v, t)
      BY <3>1, <3>2, FailTidy DEF Tidy, LetsGo
    <3> QED BY <3>2, <3>3, TidyChain
  <2>2. CASE b.host # "invalid"
    BY <1>3, <1>4, <2>2, OpenTransportsTidy
  <2> QED BY <2>1, <2>2
<1> QED BY <1>1, <1>3, <1>5, SettledStays, SessionAssumption DEF Settled, Tidy

LEMMA ConsumeBootstrapDelivers ==
  ASSUME NEW s, Good(s), TasksGood, BootReady(s), Booked(tasks[s.boot]),
         NEW t \in ConsumeBootstrap(s)
  PROVE  Delivers(s, t)
<1> DEFINE u == [s EXCEPT !.boot = NoTask]
<1>1. tasks[s.boot] \in TaskRecord
  BY DEF BootReady, Good, Core, Session, TasksGood
<1>2. Ready(u)
  BY SessionAssumption DEF BootReady, Good, Core, Session, Bookkeeping, NoTransports, Ready
<1>3. t \in ApplyBootstrap(u, tasks[s.boot], TRUE)
  BY DEF ConsumeBootstrap
<1> HIDE DEF u
<1> QED BY <1>1, <1>2, <1>3, ApplyBootstrapDelivers DEF Delivers

\* Polling either leaves the bootstrap pending or settles what it obtained.
LEMMA PollDelivers ==
  ASSUME NEW s, Good(s), Sure(s), TasksGood, \A k \in Task : Booked(tasks[k]),
         NEW t \in PollFailed(s) \cup Polled(s)
  PROVE  Delivers(s, t)
<1> DEFINE a == ConsumeRelease(s)
<1>1. Good(a) /\ Calm(s, a) /\ Sure(a)
  BY ConsumeReleaseGood, ConsumeReleaseLetsGo, KeepsGood, TidyKeeps DEF Good, LetsGo
<1>2. \/ t \in ConsumeRefresh(a)
      \/ \E b \in ConsumeRefresh(a) : BootReady(b) /\ t \in ConsumeBootstrap(b)
  BY DEF PollFailed, Polled
<1> HIDE DEF a
<1>3. CASE t \in ConsumeRefresh(a)
  BY <1>1, <1>3, ConsumeRefreshTidy DEF Calm, Delivers
<1>4. CASE \E b \in ConsumeRefresh(a) : BootReady(b) /\ t \in ConsumeBootstrap(b)
  <2>1. PICK b \in ConsumeRefresh(a) : BootReady(b) /\ t \in ConsumeBootstrap(b)
    BY <1>4
  <2>2. Good(b) /\ b.boot = s.boot
    BY <1>1, ConsumeRefreshGood, ConsumeRefreshTidy DEF Calm
  <2>3. b.boot \in Task
    BY <2>1, <2>2 DEF BootReady, Good, Core, Session
  <2>4. Delivers(b, t)
    BY <2>1, <2>2, <2>3, ConsumeBootstrapDelivers
  <2> QED BY <2>2, <2>4 DEF Delivers
<1> QED BY <1>2, <1>3, <1>4

\* While a bootstrap is pending there is nothing to maintain.
LEMMA MaintainDelivers ==
  ASSUME NEW s, Good(s), Sure(s), Booting(s), s.boot # NoTask, NEW t \in Maintain(s)
  PROVE  t.boot = s.boot
<1>1. PICK u \in RetryRelease(s) : t \in UNION {Advance(v) : v \in Refresh(u)}
  BY DEF Maintain
<1>2. Good(u) /\ Sure(u) /\ Calm(s, u)
  BY RetryReleaseGood, KeepsGood, RetryReleaseTidy DEF Good, Tidy, LetsGo
<1>3. PICK v \in Refresh(u) : t \in Advance(v)
  BY <1>1
<1>4. Calm(u, v)
  BY <1>2, RefreshTidy
<1>5. v.state \in {"Resolving", "Failed"} /\ v.boot = s.boot
  BY <1>2, <1>4 DEF Calm, Booting
<1> QED BY <1>3, <1>5 DEF Advance

\* A step hands over what the pending bootstrap has obtained.
HandsOver ==
  Obtained \in session'.listed /\ session'.state \notin {"Disconnected", "Destroyed"}
    => Obtained \in {session'.handle, Obtained'}

\* Of a handler it is enough to see what becomes of the manager.
LEMMA DeliveredIsHandedOver ==
  ASSUME DInv, session' \in Session, Delivers(session, session'),
         session'.boot = session.boot /\ session.boot # NoTask =>
           tasks'[session.boot].handle = tasks[session.boot].handle
  PROVE  HandsOver
<1> SUFFICES ASSUME Obtained \in session'.listed
             PROVE  Obtained \in {session'.handle, Obtained'}
  BY DEF HandsOver
<1>1. Obtained # NoHandle
  BY SessionAssumption DEF Session
<1>2. session.boot # NoTask /\ Obtained = tasks[session.boot].handle
  BY <1>1 DEF Obtained
<1>3. CASE session'.boot = session.boot
  BY <1>2, <1>3 DEF Obtained
<1>4. CASE Settled(tasks[session.boot].handle, session')
  BY <1>2, <1>4 DEF Settled
<1> QED BY <1>1, <1>2, <1>3, <1>4 DEF Delivers

LEMMA KeptKeeps ==
  ASSUME TasksGood, NEW boot \in Task
  PROVE  Kept(boot)[boot] = tasks[boot]
BY DEF Kept

LEMMA UpdateHandsOver == ASSUME DInv, Update PROVE HandsOver
<1>1. /\ Good(session) /\ Sure(session) /\ Booting(session) /\ TasksGood
      /\ \A k \in Task : Booked(tasks[k])
  BY DEF DInv, HInv, IInv
<1>2. Delivers(session, session')
  <2>1. CASE session' \in PollFailed(session)
    BY <1>1, <2>1, PollDelivers
  <2>2. ASSUME NEW s \in Polled(session), session' \in Maintain(s)
        PROVE  Delivers(session, session')
    <3>1. Good(s) /\ Tidy(session, s) /\ Sure(s) /\ Delivers(session, s)
      BY <1>1, PollGood, PollTidy, PollDelivers DEF Tidy, LetsGo
    <3>2. Booting(s)
      BY <1>1, <3>1, TidyBooting
    <3>3. Tidy(s, session') /\ (s.boot # NoTask => session'.boot = s.boot)
      BY <2>2, <3>1, <3>2, MaintainTidy, MaintainDelivers
    <3> QED BY <3>1, <3>3, DeliversChain
  <2> QED BY <2>1, <2>2 DEF Update
<1>3. session' \in Session
  BY UpdateGood DEF DInv, HInv, IInv, Good, Core
<1>4. session'.boot = session.boot /\ session.boot # NoTask =>
        tasks'[session.boot].handle = tasks[session.boot].handle
  <2>1. session.boot # NoTask => session.boot \in Task
    BY <1>1 DEF Good, Core, Session
  <2>2. tasks' = Kept(session'.boot)
    BY DEF Update
  <2> QED BY <1>1, <2>1, <2>2, KeptKeeps
<1> QED BY <1>2, <1>3, <1>4, DeliveredIsHandedOver

\* What a thread is asked to register is new to all the others, too.
LEMMA RegistersAnother ==
  ASSUME NEW mode, NEW flow, NEW listed, NEW d \in HostOutcome(mode, flow, listed),
         NEW k \in Task, tasks[k].phase # "idle"
  PROVE  tasks[k].handle \in d.listed => tasks[k].handle \in listed
<1>1. \A e \in DirectoryRegister(Fresh, listed) :
        /\ e.listed \subseteq listed \cup Fresh
        /\ e = [reply |-> e.reply, handle |-> e.handle, listed |-> e.listed]
  BY DEF DirectoryRegister
<1>2. tasks[k].handle \notin Fresh
  BY DEF Fresh, Unused
<1>3. d.listed \subseteq listed \cup Fresh
  <2>1. \/ d.listed = listed
        \/ d \in DirectoryRegister(Fresh, listed)
        \/ \E e \in DirectoryRegister(Fresh, listed) : d = [e EXCEPT !.reply = "invalid"]
    BY DEF HostOutcome
  <2> QED BY <1>1, <2>1
<1> QED BY <1>2, <1>3

\* A start launches only when nothing obtained before is listed any more.
LEMMA LaunchHandsOver ==
  ASSUME DInv, NEW s, Ready(s), Launch(s), session.boot # NoTask,
         NEW h, h = tasks[session.boot].handle, h # NoHandle, h \notin s.listed
  PROVE  h \notin session'.listed
<1>1. Core(s) /\ s.boot = NoTask /\ s.handle = NoHandle
  BY DEF Ready
<1>2. CASE \/ session' = Report(s, "Idle", "None")
           \/ session' = Fail(s, "BootstrapFailed")
  <2>1. session'.listed = s.listed
    BY <1>1, <1>2 DEF Fail, Report, Core, Session
  <2> QED BY <2>1
<1>3. ASSUME NEW mode \in HostingMode \ {"None"}, NEW flow, StartHere(s, mode, flow)
      PROVE  h \notin session'.listed
  <2>1. PICK d \in HostOutcome(mode, flow, s.listed), j \in JoinOutcome(flow) :
          session' \in ApplyBootstrap([s EXCEPT !.listed = d.listed],
                         [phase |-> "done", mode |-> mode, handle |-> d.handle,
                          host |-> d.reply, join |-> j], FALSE)
    BY <1>3 DEF StartHere
  <2> DEFINE b == [phase |-> "done", mode |-> mode, handle |-> d.handle,
                   host |-> d.reply, join |-> j]
             u == [s EXCEPT !.listed = d.listed]
  <2>2. /\ d.reply \in {"ok", "invalid"} \cup DisconnectReason
        /\ d.handle \in Handle \cup {NoHandle} /\ d.listed \in SUBSET Handle
    <3>1. s.listed \in SUBSET Handle
      BY <1>1 DEF Core, Session
    <3> QED BY <3>1, HostOutcomeType
  <2>3. b \in TaskRecord
    BY <2>2, JoinOutcomeType DEF TaskRecord
  <2>4. Ready(u) /\ u.listed = d.listed
    BY <2>2 DEF Ready, Core, Session, Bookkeeping, NoTransports
  <2> HIDE DEF b, u
  <2>5. session' \in ApplyBootstrap(u, b, FALSE)
    BY <2>1 DEF b, u
  <2>6. session'.listed \subseteq d.listed
    BY <2>3, <2>4, <2>5, ApplyBootstrapTidy DEF Tidy, LetsGo
  <2>7. session.boot \in Task
    BY DEF DInv, HInv, IInv, Good, Core, Session
  <2>8. tasks[session.boot].phase # "idle"
    BY <2>7 DEF DInv, Booked
  <2>9. h \notin d.listed
    BY <2>7, <2>8, RegistersAnother
  <2> QED BY <2>6, <2>9
<1>4. ASSUME NEW mode, StartDetached(s, mode)
      PROVE  h \notin session'.listed
  <2>1. PICK t \in Task : session' = [Report(s, "Resolving", "None") EXCEPT !.boot = t]
    BY <1>4 DEF StartDetached
  <2>2. session'.listed = s.listed
    BY <1>1, <2>1 DEF Report, Core, Session
  <2> QED BY <2>2
<1> QED BY <1>2, <1>3, <1>4 DEF Launch

LEMMA StartHandsOver == ASSUME DInv, StartConfiguredSession PROVE HandsOver
<1>1. /\ Good(session) /\ Sure(session) /\ Booting(session) /\ TasksGood
      /\ \A k \in Task : Booked(tasks[k])
  BY DEF DInv, HInv, IInv
<1>2. \A p \in Polled(session) :
        Good(p) /\ Tidy(session, p) /\ Sure(p) /\ Delivers(session, p)
  BY <1>1, PollGood, PollTidy, PollDelivers DEF Tidy, LetsGo
<1>3. session' \in Session
  BY StartGood DEF DInv, HInv, IInv, Good, Core
<1>4. CASE /\ session' \in PollFailed(session)
              \cup {Fail(s, "BootstrapFailed") : s \in {p \in Polled(session) : p.boot # NoTask}}
           /\ tasks' = Kept(session'.boot)
  <2>1. Delivers(session, session')
    <3>1. CASE session' \in PollFailed(session)
      BY <1>1, <3>1, PollDelivers
    <3>2. ASSUME NEW p \in Polled(session), session' = Fail(p, "BootstrapFailed")
          PROVE  Delivers(session, session')
      <4>1. Tidy(p, session') /\ Calm(p, session')
        BY <1>2, <3>2, FailTidy DEF Good
      <4> QED BY <1>2, <4>1, DeliversChain DEF Calm
    <3> QED BY <1>4, <3>1, <3>2
  <2>2. session.boot # NoTask => session.boot \in Task
    BY <1>1 DEF Good, Core, Session
  <2>3. session'.boot = session.boot /\ session.boot # NoTask =>
          tasks'[session.boot].handle = tasks[session.boot].handle
    BY <1>1, <1>4, <2>2, KeptKeeps
  <2> QED BY <1>3, <2>1, <2>3, DeliveredIsHandedOver
<1>5. ASSUME NEW p \in Polled(session), p.boot = NoTask,
             \/ session' \in StartRefused(StopTransports(p))
             \/ \E s \in StartAdmitted(StopTransports(p)) : Launch(s)
      PROVE  HandsOver
  <2> SUFFICES ASSUME Obtained \in session'.listed
               PROVE  Obtained \in {session'.handle, Obtained'}
    BY DEF HandsOver
  <2>1. session.boot # NoTask /\ Obtained = tasks[session.boot].handle /\ Obtained # NoHandle
    BY <1>3, SessionAssumption DEF Obtained, Session
  <2>2. Settled(Obtained, p)
    BY <1>2, <1>5, <2>1 DEF Delivers
  <2>3. CASE session' \in StartRefused(StopTransports(p))
    <3>1. Tidy(p, session')
      BY <1>2, <2>3, StartRefusedTidy
    <3> QED BY <2>1, <2>2, <3>1, SettledStays DEF Settled, Tidy
  <2>4. ASSUME NEW s \in StartAdmitted(StopTransports(p)), Launch(s)
        PROVE  Obtained \notin session'.listed
    <3>1. Ready(s) /\ Tidy(p, s)
      BY <1>2, <1>5, StartAdmittedGood, StartAdmittedTidy
    <3>2. Obtained \notin s.listed
      BY <2>1, <2>2, <3>1, SettledStays DEF Settled, Tidy, Ready
    <3> QED BY <2>1, <2>4, <3>1, <3>2, LaunchHandsOver
  <2> QED BY <1>5, <2>3, <2>4
<1> QED BY <1>4, <1>5 DEF StartConfiguredSession

LEMMA ThreadHandsOver == ASSUME DInv, Thread PROVE HandsOver
<1>1. /\ session \in Session /\ session' \in Session
      /\ tasks \in [Task -> TaskRecord]
  BY ThreadGood DEF DInv, HInv, IInv, Good, Core, TasksGood
<1>2. session'.boot = session.boot
  <2>1. ASSUME NEW t \in Task, TaskRegister(t) PROVE session'.boot = session.boot
    BY <1>1, <2>1 DEF TaskRegister, Session
  <2>2. ASSUME NEW t \in Task, TaskResolve(t) PROVE session'.boot = session.boot
    BY <2>2 DEF TaskResolve
  <2>3. CASE ReleaseReply \/ ReleasePublish \/ RefreshReply
    BY <1>1, <2>3 DEF ReleaseReply, ReleasePublish, RefreshReply, Session
  <2> QED BY <2>1, <2>2, <2>3 DEF Thread
<1>3. session.boot # NoTask /\ tasks[session.boot].handle # NoHandle =>
        tasks'[session.boot].handle = tasks[session.boot].handle
  <2> SUFFICES ASSUME session.boot # NoTask, tasks[session.boot].handle # NoHandle
               PROVE  tasks'[session.boot].handle = tasks[session.boot].handle
    OBVIOUS
  <2>1. session.boot \in Task /\ tasks[session.boot].phase # "register"
    BY <1>1 DEF DInv, Booked, Session
  <2>2. ASSUME NEW t \in Task, TaskRegister(t)
        PROVE  tasks'[session.boot].handle = tasks[session.boot].handle
    BY <1>1, <2>1, <2>2 DEF TaskRegister
  <2>3. ASSUME NEW t \in Task, TaskResolve(t)
        PROVE  tasks'[session.boot].handle = tasks[session.boot].handle
    <3>1. PICK j : tasks' = [tasks EXCEPT ![t] = Finished(t, [@ EXCEPT !.join = j])]
      BY <2>3 DEF TaskResolve
    <3>2. CASE t = session.boot
      BY <1>1, <2>1, <3>1, <3>2 DEF Finished, TaskRecord
    <3>3. CASE t # session.boot
      BY <1>1, <2>1, <3>1, <3>3
    <3> QED BY <3>2, <3>3
  <2>4. CASE ReleaseReply \/ ReleasePublish \/ RefreshReply
    BY <2>4 DEF ReleaseReply, ReleasePublish, RefreshReply
  <2> QED BY <2>2, <2>3, <2>4 DEF Thread
<1>4. CASE Obtained # NoHandle
  BY <1>2, <1>3, <1>4 DEF HandsOver, Obtained
<1>5. CASE Obtained = NoHandle
  BY <1>1, <1>5, SessionAssumption DEF HandsOver, Session
<1> QED BY <1>4, <1>5

LEMMA OthersHandOver == ASSUME DInv, Outside \/ Tick PROVE HandsOver
<1>1. session \in Session
  BY DEF DInv, HInv, IInv, Good, Core
<1>2. session'.boot = session.boot /\ tasks' = tasks
  <2>1. CASE Expire
    BY <1>1, <2>1 DEF Expire, Session
  <2>2. CASE ClientConnects \/ ClientLost \/ AuthAccept
    BY <1>1, <2>2 DEF ClientConnects, ClientLost, AuthAccept, Session
  <2>3. CASE AuthReject \/ RejectLocalSession
    BY <1>1, <2>3 DEF AuthReject, RejectLocalSession, Session
  <2>4. CASE Tick
    BY <1>1, <2>4 DEF Tick, Session
  <2> QED BY <2>1, <2>2, <2>3, <2>4 DEF Outside
<1> QED BY <1>2 DEF HandsOver, Obtained

\* A registration is booked with the host it was made for.
LEMMA RegisteredForHost ==
  ASSUME NEW mode, NEW flow, NEW listed, NEW d \in HostOutcome(mode, flow, listed),
         d.handle # NoHandle
  PROVE  Hosts(mode) /\ d.reply \in {"ok", "invalid"}
<1>1. \A e \in DirectoryRegister(Fresh, listed) :
        /\ e.handle # NoHandle => e.reply = "ok"
        /\ e = [reply |-> e.reply, handle |-> e.handle, listed |-> e.listed]
  BY DEF DirectoryRegister
<1> QED BY <1>1 DEF HostOutcome

LEMMA BookedStep ==
  ASSUME DInv, Next PROVE \A k \in Task : Booked(tasks'[k])
<1> USE DEF Booked
<1>1. tasks \in [Task -> TaskRecord] /\ \A k \in Task : Booked(tasks[k])
  BY DEF DInv, HInv, IInv, TasksGood
<1>2. ASSUME NEW boot, tasks' = Kept(boot)
      PROVE  \A k \in Task : Booked(tasks'[k])
  BY <1>1, <1>2 DEF Kept, IdleTask
<1>3. ASSUME NEW s, NEW mode, StartDetached(s, mode)
      PROVE  \A k \in Task : Booked(tasks'[k])
  <2>1. PICK t \in Task :
          tasks' = [Kept(t) EXCEPT ![t] =
                      [IdleTask EXCEPT !.mode = mode,
                                       !.phase = IF Hosts(mode) THEN "register" ELSE "resolve"]]
    BY <1>3 DEF StartDetached
  <2>2. Kept(t) = [k \in Task |-> Kept(t)[k]] /\ \A k \in Task : Booked(Kept(t)[k])
    BY <1>1 DEF Kept, IdleTask
  <2> QED BY <2>1, <2>2 DEF IdleTask
<1>4. CASE StartConfiguredSession
  BY <1>2, <1>3, <1>4 DEF StartConfiguredSession, Launch, StartHere
<1>5. ASSUME NEW t \in Task, TaskRegister(t)
      PROVE  \A k \in Task : Booked(tasks'[k])
  <2>1. PICK d \in HostOutcome(tasks[t].mode, "broker", session.listed) :
          tasks' = [tasks EXCEPT ![t] =
            IF d.reply \in {"ok", "invalid"} /\ Joins(@.mode)
              THEN [@ EXCEPT !.host = d.reply, !.handle = d.handle, !.phase = "resolve"]
              ELSE Finished(t, [@ EXCEPT !.host = d.reply, !.handle = d.handle])]
    BY <1>5 DEF TaskRegister
  <2>2. d.handle # NoHandle => Hosts(tasks[t].mode) /\ d.reply \in {"ok", "invalid"}
    BY RegisteredForHost
  <2>3. Booked(tasks'[t])
    BY <1>1, <2>1, <2>2 DEF Finished, IdleTask, TaskRecord
  <2>4. \A k \in Task \ {t} : tasks'[k] = tasks[k]
    BY <1>1, <2>1
  <2> QED BY <1>1, <2>3, <2>4
<1>6. ASSUME NEW t \in Task, TaskResolve(t)
      PROVE  \A k \in Task : Booked(tasks'[k])
  <2>1. PICK j : tasks' = [tasks EXCEPT ![t] = Finished(t, [@ EXCEPT !.join = j])]
    BY <1>6 DEF TaskResolve
  <2>2. Booked(tasks'[t])
    BY <1>1, <2>1 DEF Finished, IdleTask, TaskRecord
  <2>3. \A k \in Task \ {t} : tasks'[k] = tasks[k]
    BY <1>1, <2>1
  <2> QED BY <1>1, <2>2, <2>3
<1>7. CASE Update \/ StopSession \/ Destroy
  BY <1>2, <1>7 DEF Update, StopSession, Destroy
<1>8. CASE tasks' = tasks
  BY <1>1, <1>8
<1> QED BY <1>4, <1>5, <1>6, <1>7, <1>8
        DEF Next, Thread, Outside, Tick, ReleaseReply, ReleasePublish, RefreshReply, Expire,
            ClientConnects, ClientLost, AuthAccept, AuthReject, RejectLocalSession

LEMMA DInvInit == Init => DInv
  BY HInvInit DEF Init, DInv, Booked, IdleTask

LEMMA DInvStep == DInv /\ [Next]_vars => DInv' /\ (HandsOver \/ UNCHANGED vars)
<1> SUFFICES ASSUME DInv, [Next]_vars PROVE DInv' /\ (HandsOver \/ UNCHANGED vars)
  OBVIOUS
<1>1. HInv'
  BY HInvStep DEF DInv
<1>2. CASE UNCHANGED vars
  BY <1>1, <1>2 DEF vars, DInv
<1>3. CASE Next
  <2>1. HandsOver
    <3>1. CASE StopSession
      <4>1. session'.state = "Disconnected"
        <5>1. PICK s \in EnsureRelease(StopTransports([session EXCEPT !.boot = NoTask])) :
                session' = Report(s, "Disconnected", "UserRequested")
          BY <3>1 DEF StopSession
        <5>2. Core([session EXCEPT !.boot = NoTask])
          BY DEF DInv, HInv, IInv, Good, Core, Session, Bookkeeping
        <5>3. Core(s)
          BY <5>1, <5>2, CleanupGood DEF DisconnectReason
        <5> QED BY <5>1, <5>3 DEF Report, Core, Session
      <4> QED BY <4>1 DEF HandsOver
    <3>2. CASE Destroy
      BY <3>2, DestroyGood DEF HandsOver, DInv, HInv
    <3> QED BY <1>3, <3>1, <3>2, UpdateHandsOver, StartHandsOver, ThreadHandsOver,
               OthersHandOver DEF Next
  <2>2. \A k \in Task : Booked(tasks'[k])
    BY <1>3, BookedStep
  <2> QED BY <1>1, <2>1, <2>2 DEF DInv
<1> QED BY <1>2, <1>3

\* What a pending bootstrap has registered reaches the manager, whichever way the rest of
\* its result fails: only a stop or the destruction of the manager abandons it.
THEOREM ObtainedRegistrationsKept == Spec => ObtainedIsKept
<1>1. Spec => []DInv
  <2>1. DInv /\ [Next]_vars => DInv'
    BY DInvStep
  <2> QED BY <2>1, DInvInit, PTL DEF Spec
<1>2. DInv /\ [Next]_vars => [HandsOver]_vars
  BY DInvStep
<1>3. Spec => [][HandsOver]_vars
  BY <1>1, <1>2, PTL DEF Spec
<1> QED BY <1>3 DEF ObtainedIsKept, HandsOver
=============================================================================
