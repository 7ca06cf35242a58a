---------------------------- MODULE LeaseDirectory ----------------------------
(***************************************************************************)
(* What a session directory promises, whatever keeps it: a set of leases,  *)
(* each naming a session and held by whoever knows its handle.  A lease    *)
(* ends only when its holder gives it up or when its time has run out; it  *)
(* is prolonged only by its holder, and only while it runs; no session is  *)
(* leased twice at once and no handle is ever handed out again.            *)
(***************************************************************************)
EXTENDS Integers

CONSTANTS
  Name,     \* session identifiers
  Handle,   \* registration handles
  Build,    \* build compatibility identifiers
  Ttl       \* length of a lease

VARIABLES
  leases,   \* the leases the directory keeps, those that ran out included
  issued,   \* handles handed out so far
  answer    \* what the directory has just answered
vars == <<leases, issued, answer>>

Lease == [name : Name, handle : Handle, build : Build, left : 0..Ttl]

Init == leases = {} /\ issued = {} /\ answer = <<"none">>

\* Time passes for every lease; one with no time left stays until somebody asks for it.
Tick ==
  /\ leases' = {[l EXCEPT !.left = IF @ = 0 THEN 0 ELSE @ - 1] : l \in leases}
  /\ answer' = <<"none">>
  /\ UNCHANGED issued

Quiet == answer' = <<"none">> /\ UNCHANGED <<leases, issued>>

Grant(l) ==
  /\ \A k \in leases : k.name # l.name
  /\ l.handle \notin issued
  /\ l.left = Ttl
  /\ leases' = leases \cup {l}
  /\ issued' = issued \cup {l.handle}
  /\ answer' = <<"granted", l.handle>>

Resolve(l, build) ==
  /\ l \in leases /\ l.left > 0 /\ l.build = build
  /\ answer' = <<"resolved", l.name, build>>
  /\ UNCHANGED <<leases, issued>>

Renew(l) ==
  /\ l \in leases /\ l.left > 0
  /\ leases' = (leases \ {l}) \cup {[l EXCEPT !.left = Ttl]}
  /\ answer' = <<"renewed", l.handle>>
  /\ UNCHANGED issued

Release(l) ==
  /\ l \in leases
  /\ leases' = leases \ {l}
  /\ answer' = <<"released", l.handle>>
  /\ UNCHANGED issued

Lapse(l) ==
  /\ l \in leases /\ l.left = 0
  /\ leases' = leases \ {l}
  /\ answer' = <<"refused">>
  /\ UNCHANGED issued

Refuse ==
  /\ answer' = <<"refused">>
  /\ UNCHANGED <<leases, issued>>

Next ==
  \/ Tick
  \/ Quiet
  \/ Refuse
  \/ \E l \in Lease : Grant(l) \/ Renew(l) \/ Release(l) \/ Lapse(l)
  \/ \E l \in Lease, build \in Build : Resolve(l, build)

Spec == Init /\ [][Next]_vars
=============================================================================
