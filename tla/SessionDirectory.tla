--------------------------- MODULE SessionDirectory ---------------------------
(***************************************************************************)
(* ProcessLocalSessionDirectoryService: the directory of hosted sessions,  *)
(* kept in two maps, from session to record and from registration handle   *)
(* to session.  Every method holds the mutex from its first line to its    *)
(* last, so a call is one step; it is an operator from the maps it finds   *)
(* to the maps it leaves and its reply.                                    *)
(*                                                                         *)
(* Expiry times are kept as the time left, 0 once they have passed.  The   *)
(* credential and the route of a session expire with its registration.     *)
(***************************************************************************)
EXTENDS Integers

CONSTANTS
  Name, NoName,       \* session identifiers; the empty one asks for a generated one
  Handle, NoHandle,   \* registration handles; the empty one
  Build,              \* build compatibility identifiers
  Address,            \* hosts other than none and "0.0.0.0"
  NoAddress,          \* the empty host
  AnyAddress,         \* "0.0.0.0": a host can listen on it, nobody can join it
  Ttl                 \* ProcessLocalCredentialTtlMs

ASSUME DirectoryAssumption ==
  /\ NoName \notin Name
  /\ NoHandle \notin Handle
  /\ NoAddress \notin Address
  /\ AnyAddress \notin Address \cup {NoAddress}
  /\ Ttl \in Nat \ {0}

VARIABLES
  dir,      \* the two maps, and the handles generated so far
  answer    \* the reply just made
directoryVars == <<dir, answer>>

Session == [handle : Handle \cup {NoHandle}, build : Build \cup {"none"}, left : 0..Ttl]
NoSession == [handle |-> NoHandle, build |-> "none", left |-> 0]

Directory ==
  [sessions : [Name -> Session], handles : [Handle -> Name \cup {NoName}],
   issued : SUBSET Handle]

Reason == {"None", "BootstrapFailed", "SessionClosed", "AuthRejected", "VersionMismatch"}

Said ==
  {<<"none">>, <<"refused">>}
    \cup ({"granted", "released", "renewed"} \X Handle)
    \cup ({"resolved"} \X Name \X Build)
Reply == [said : Said, reason : Reason]
Silence == [said |-> <<"none">>, reason |-> "None"]

Registration ==
  [name : Name \cup {NoName}, build : Build, listens : BOOLEAN,
   bind : Address \cup {NoAddress, AnyAddress},
   advertised : Address \cup {NoAddress, AnyAddress}]

EmptyDirectory ==
  [sessions |-> [n \in Name |-> NoSession], handles |-> [h \in Handle |-> NoName],
   issued |-> {}]

DirectoryInit ==
  dir = EmptyDirectory /\ answer = Silence

-----------------------------------------------------------------------------
IsListed(d, n) == d.sessions[n].handle # NoHandle
Expired(d, n) == d.sessions[n].left = 0

Outcome(d, said, reason) == [dir |-> d, reply |-> [said |-> said, reason |-> reason]]
Refused(d, reason) == Outcome(d, <<"refused">>, reason)

List(d, n, h, build) ==
  [sessions |-> [d.sessions EXCEPT ![n] = [handle |-> h, build |-> build, left |-> Ttl]],
   handles |-> [d.handles EXCEPT ![h] = n],
   issued |-> d.issued \cup {h}]

\* Mutant: an expired session leaves its handle behind.
EraseSessionOnly(d, n, h) == [d EXCEPT !.sessions[n] = NoSession]

\* Both maps forget a session and the handle given.
Erase(d, n, h) ==
  [sessions |-> [d.sessions EXCEPT ![n] = NoSession],
   handles |-> [d.handles EXCEPT ![h] = NoName], issued |-> d.issued]

JoinRoute(request) ==
  IF request.advertised # NoAddress THEN request.advertised ELSE request.bind

IsJoinable(request) == request.listens /\ JoinRoute(request) \notin {NoAddress, AnyAddress}

\* Generated identifiers are random: no session has one already.
Requested(d, request) ==
  IF request.name = NoName THEN {n \in Name : ~IsListed(d, n)} ELSE {request.name}

Fresh(d) == Handle \ d.issued

RegisterHostedSession(d, request) ==
  IF ~IsJoinable(request)
    THEN {Refused(d, "BootstrapFailed")}
    ELSE {Refused(d, "BootstrapFailed") : n \in {n \in Requested(d, request) : IsListed(d, n)}}
           \cup {Outcome(List(d, n, h, request.build), <<"granted", h>>, "None") :
                   n \in {n \in Requested(d, request) : ~IsListed(d, n)}, h \in Fresh(d)}

\* Builds must be equal: an empty one would fit any, but the session core fills it in for
\* every host and every client (BuildHostRequest, BuildJoinRequest).
LookupSession(d, n, build) ==
  IF n = NoName THEN Refused(d, "BootstrapFailed")
  ELSE IF ~IsListed(d, n) THEN Refused(d, "SessionClosed")
  ELSE IF Expired(d, n)
    THEN Refused(Erase(d, n, d.sessions[n].handle), "AuthRejected")
  ELSE IF build # d.sessions[n].build THEN Refused(d, "VersionMismatch")
  ELSE Outcome(d, <<"resolved", n, build>>, "None")

\* Mutant: a registration that ran out is prolonged.
RefreshExpiredToo(d, h) ==
  LET n == d.handles[h]
  IN IF h = NoHandle THEN Refused(d, "BootstrapFailed")
     ELSE IF n = NoName THEN Refused(d, "SessionClosed")
     ELSE Outcome([d EXCEPT !.sessions[n].left = Ttl], <<"renewed", h>>, "None")

RefreshHostedSession(d, h) ==
  LET n == d.handles[h]
  IN IF h = NoHandle THEN Refused(d, "BootstrapFailed")
     ELSE IF n = NoName THEN Refused(d, "SessionClosed")
     ELSE IF ~IsListed(d, n)
       THEN Refused([d EXCEPT !.handles[h] = NoName], "SessionClosed")
     ELSE IF Expired(d, n) THEN Refused(Erase(d, n, h), "SessionClosed")
     ELSE Outcome([d EXCEPT !.sessions[n].left = Ttl], <<"renewed", h>>, "None")

UnregisterHostedSession(d, h) ==
  IF h = NoHandle THEN Refused(d, "BootstrapFailed")
  ELSE IF d.handles[h] = NoName THEN Refused(d, "SessionClosed")
  ELSE Outcome(Erase(d, d.handles[h], h), <<"released", h>>, "None")

-----------------------------------------------------------------------------
\* Mutant: the time left is counted on below zero.
TimeLeftForever(d) ==
  [d EXCEPT !.sessions = [n \in Name |-> [d.sessions[n] EXCEPT !.left = @ - 1]]]

\* NowMs: time passes for every record.
TimeLeft(d) ==
  [d EXCEPT !.sessions = [n \in Name |->
     [d.sessions[n] EXCEPT !.left = IF @ = 0 THEN 0 ELSE @ - 1]]]

Tick == dir' = TimeLeft(dir) /\ answer' = Silence

NoCall == answer' = Silence /\ UNCHANGED dir

Answer(outcome) == dir' = outcome.dir /\ answer' = outcome.reply

Register(request) == \E o \in RegisterHostedSession(dir, request) : Answer(o)
Lookup(n, build) == Answer(LookupSession(dir, n, build))
Refresh(h) == Answer(RefreshHostedSession(dir, h))
Unregister(h) == Answer(UnregisterHostedSession(dir, h))

DirectoryNext ==
  \/ Tick
  \/ NoCall
  \/ \E request \in Registration : Register(request)
  \/ \E n \in Name \cup {NoName}, build \in Build : Lookup(n, build)
  \/ \E h \in Handle \cup {NoHandle} : Refresh(h) \/ Unregister(h)

DirectorySpec == DirectoryInit /\ [][DirectoryNext]_directoryVars

-----------------------------------------------------------------------------
DirectoryTypeOK == dir \in Directory /\ answer \in Reply

(***************************************************************************)
(* The two maps agree: a handle leads to a session exactly when that       *)
(* session was registered under it.  A handle left behind would let its    *)
(* old holder renew or remove whoever registered the identifier next.      *)
(***************************************************************************)
MapsAgree ==
  \A n \in Name, h \in Handle :
    (dir.handles[h] = n) <=> (dir.sessions[n].handle = h)

(***************************************************************************)
(* The maps as a set of leases: the directory keeps what LeaseDirectory    *)
(* promises.                                                               *)
(***************************************************************************)
LeasesOf(d) ==
  {[name |-> n, handle |-> d.sessions[n].handle, build |-> d.sessions[n].build,
    left |-> d.sessions[n].left] : n \in {m \in Name : IsListed(d, m)}}

Leases == INSTANCE LeaseDirectory
            WITH leases <- LeasesOf(dir), issued <- dir.issued, answer <- answer.said

KeepsLeases == Leases!Spec
=============================================================================
