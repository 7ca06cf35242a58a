------------------------ MODULE SessionDirectoryProofs ------------------------
(***************************************************************************)
(* The two maps of the directory always agree, and whatever is asked of it *)
(* it keeps the promise of LeaseDirectory.  The argument is about the maps *)
(* as values: one lemma for each change a method makes to them, saying     *)
(* that the maps stay sound and what the change is to the set of leases.   *)
(***************************************************************************)
EXTENDS SessionDirectory, TLAPS

Agree(d) ==
  \A n \in Name, h \in Handle : (d.handles[h] = n) <=> (d.sessions[n].handle = h)

\* A listed session has a handle that was handed out and the build of a registration.
Real(d) ==
  \A n \in Name :
    IsListed(d, n) => d.sessions[n].handle \in d.issued /\ d.sessions[n].build \in Build

Sound(d) == d \in Directory /\ Agree(d) /\ Real(d)

LeaseAt(d, n) ==
  [name |-> n, handle |-> d.sessions[n].handle, build |-> d.sessions[n].build,
   left |-> d.sessions[n].left]

IInv == Sound(dir) /\ answer \in Reply

-----------------------------------------------------------------------------
\* A listed session is a lease of the abstract directory, and no two share an identifier.
LEMMA LeaseFacts ==
  ASSUME NEW d, Sound(d)
  PROVE  /\ \A n \in Name : IsListed(d, n) =>
              /\ LeaseAt(d, n) \in LeasesOf(d)
              /\ LeaseAt(d, n) \in Leases!Lease
              /\ d.sessions[n].handle \in Handle
         /\ \A l \in LeasesOf(d) :
              /\ l.name \in Name /\ IsListed(d, l.name)
              /\ l = LeaseAt(d, l.name)
<1>1. \A n \in Name : d.sessions[n] \in Session
  BY DEF Sound, Directory
<1>2. ASSUME NEW n \in Name, IsListed(d, n)
      PROVE  /\ LeaseAt(d, n) \in LeasesOf(d)
             /\ LeaseAt(d, n) \in Leases!Lease
             /\ d.sessions[n].handle \in Handle
  <2>1. d.sessions[n].handle \in Handle /\ d.sessions[n].left \in 0..Ttl
    BY <1>1, <1>2 DEF IsListed, Session
  <2>2. d.sessions[n].build \in Build
    BY <1>2 DEF Sound, Real
  <2>3. LeaseAt(d, n) \in LeasesOf(d)
    BY <1>2 DEF LeaseAt, LeasesOf
  <2> QED BY <2>1, <2>2, <2>3 DEF LeaseAt, Leases!Lease
<1>3. ASSUME NEW l \in LeasesOf(d)
      PROVE  /\ l.name \in Name /\ IsListed(d, l.name)
             /\ l = LeaseAt(d, l.name)
  <2>1. PICK n \in {m \in Name : IsListed(d, m)} : l = LeaseAt(d, n)
    BY DEF LeasesOf, LeaseAt
  <2>2. l.name = n
    BY <2>1 DEF LeaseAt
  <2> QED BY <2>1, <2>2
<1> QED BY <1>2, <1>3

\* Registering under a free identifier and a fresh handle adds one lease.
LEMMA ListAdds ==
  ASSUME NEW d, Sound(d), NEW n \in Name, NEW h \in Handle \ d.issued, NEW b \in Build,
         ~IsListed(d, n)
  PROVE  /\ Sound(List(d, n, h, b))
         /\ LeasesOf(List(d, n, h, b))
              = LeasesOf(d) \cup {[name |-> n, handle |-> h, build |-> b, left |-> Ttl]}
<1> DEFINE e == List(d, n, h, b)
           s == [handle |-> h, build |-> b, left |-> Ttl]
<1>1. /\ d.sessions \in [Name -> Session] /\ d.handles \in [Handle -> Name \cup {NoName}]
      /\ d.issued \in SUBSET Handle
  BY DEF Sound, Directory
<1>2. s \in Session
  BY DirectoryAssumption DEF Session
<1>3. /\ e.sessions = [d.sessions EXCEPT ![n] = s] /\ e.handles = [d.handles EXCEPT ![h] = n]
      /\ e.issued = d.issued \cup {h}
  BY DEF List
<1>4. e \in Directory
  <2>1. e.sessions \in [Name -> Session]
    BY <1>1, <1>2, <1>3
  <2>2. e.handles \in [Handle -> Name \cup {NoName}]
    BY <1>1, <1>3
  <2>3. e.issued \in SUBSET Handle
    BY <1>1, <1>3
  <2>4. e = [sessions |-> e.sessions, handles |-> e.handles, issued |-> e.issued]
    BY DEF List
  <2> QED BY <2>1, <2>2, <2>3, <2>4 DEF Directory
<1>5. \A m \in Name : e.sessions[m] = IF m = n THEN s ELSE d.sessions[m]
  BY <1>1, <1>3
<1>6. \A g \in Handle : e.handles[g] = IF g = h THEN n ELSE d.handles[g]
  BY <1>1, <1>3
<1>7. Agree(d) /\ Real(d)
  BY DEF Sound
<1>8. \A m \in Name : d.sessions[m].handle # h
  BY <1>7, DirectoryAssumption DEF Real, IsListed
<1>9. \A g \in Handle : d.handles[g] # n
  BY <1>7, DirectoryAssumption DEF Agree, IsListed
<1> HIDE DEF e
<1>10. Agree(e)
  <2> SUFFICES ASSUME NEW m \in Name, NEW g \in Handle
               PROVE  (e.handles[g] = m) <=> (e.sessions[m].handle = g)
    BY DEF Agree
  <2>1. CASE m = n
    BY <2>1, <1>5, <1>6, <1>9
  <2>2. CASE m # n
    BY <2>2, <1>5, <1>6, <1>7, <1>8 DEF Agree
  <2> QED BY <2>1, <2>2
<1>11. Real(e)
  BY <1>5, <1>3, <1>7 DEF Real, IsListed
<1>12. \A m \in Name : IsListed(e, m) <=> (m = n \/ IsListed(d, m))
  <2>1. e.sessions[n].handle = h /\ h # NoHandle
    BY <1>5, DirectoryAssumption
  <2>2. \A m \in Name : m # n => e.sessions[m] = d.sessions[m]
    BY <1>5
  <2> QED BY <2>1, <2>2 DEF IsListed
<1>13. LeasesOf(e) = LeasesOf(d) \cup {[name |-> n, handle |-> h, build |-> b, left |-> Ttl]}
  <2>1. \A m \in Name : m # n => LeaseAt(e, m) = LeaseAt(d, m)
    BY <1>5 DEF LeaseAt
  <2>2. LeaseAt(e, n) = [name |-> n, handle |-> h, build |-> b, left |-> Ttl]
    BY <1>5 DEF LeaseAt
  <2>3. /\ LeasesOf(e) = {LeaseAt(e, m) : m \in {k \in Name : IsListed(e, k)}}
        /\ LeasesOf(d) = {LeaseAt(d, m) : m \in {k \in Name : IsListed(d, k)}}
    BY DEF LeasesOf, LeaseAt
  <2> HIDE DEF LeaseAt, LeasesOf
  <2> QED BY <1>12, <2>1, <2>2, <2>3
<1> QED BY <1>4, <1>10, <1>11, <1>13 DEF Sound, e

\* Erasing a session together with its handle removes its lease and no other.
LEMMA EraseRemoves ==
  ASSUME NEW d, Sound(d), NEW n \in Name, IsListed(d, n)
  PROVE  /\ Sound(Erase(d, n, d.sessions[n].handle))
         /\ LeasesOf(Erase(d, n, d.sessions[n].handle)) = LeasesOf(d) \ {LeaseAt(d, n)}
<1> DEFINE h == d.sessions[n].handle
           e == Erase(d, n, h)
<1>1. /\ d.sessions \in [Name -> Session] /\ d.handles \in [Handle -> Name \cup {NoName}]
      /\ d.issued \in SUBSET Handle
  BY DEF Sound, Directory
<1>2. h \in Handle
  BY <1>1 DEF IsListed, Session
<1>3. NoSession \in Session
  BY DirectoryAssumption DEF Session, NoSession
<1>5. /\ e.sessions = [d.sessions EXCEPT ![n] = NoSession]
      /\ e.handles = [d.handles EXCEPT ![h] = NoName]
      /\ e.issued = d.issued
      /\ e = [sessions |-> e.sessions, handles |-> e.handles, issued |-> e.issued]
  BY DEF Erase
<1>6. e \in Directory
  <2>1. e.sessions \in [Name -> Session]
    BY <1>1, <1>3, <1>5
  <2>2. e.handles \in [Handle -> Name \cup {NoName}]
    BY <1>1, <1>5
  <2> QED BY <1>1, <1>5, <2>1, <2>2 DEF Directory
<1>7. \A m \in Name : e.sessions[m] = IF m = n THEN NoSession ELSE d.sessions[m]
  BY <1>1, <1>5
<1>8. \A g \in Handle : e.handles[g] = IF g = h THEN NoName ELSE d.handles[g]
  BY <1>1, <1>5
<1>9. Agree(d) /\ Real(d)
  BY DEF Sound
<1>10. \A g \in Handle : (d.handles[g] = n) <=> (g = h)
  BY <1>9 DEF Agree
<1>11. \A m \in Name : m # n => d.sessions[m].handle # h
  BY <1>2, <1>9, <1>10 DEF Agree
<1>12. NoSession.handle = NoHandle
  BY DEF NoSession
<1> HIDE DEF e, h
<1>13. Agree(e)
  <2> SUFFICES ASSUME NEW m \in Name, NEW g \in Handle
               PROVE  (e.handles[g] = m) <=> (e.sessions[m].handle = g)
    BY DEF Agree
  <2>1. CASE m = n
    BY <2>1, <1>7, <1>8, <1>10, <1>12, DirectoryAssumption
  <2>2. CASE m # n /\ g = h
    BY <2>2, <1>7, <1>8, <1>11, DirectoryAssumption
  <2>3. CASE m # n /\ g # h
    BY <2>3, <1>7, <1>8, <1>9 DEF Agree
  <2> QED BY <2>1, <2>2, <2>3
<1>14. \A m \in Name : IsListed(e, m) <=> (m # n /\ IsListed(d, m))
  <2>1. e.sessions[n].handle = NoHandle
    BY <1>7, <1>12
  <2>2. \A m \in Name : m # n => e.sessions[m] = d.sessions[m]
    BY <1>7
  <2> QED BY <2>1, <2>2 DEF IsListed
<1>15. Real(e)
  BY <1>5, <1>7, <1>9, <1>14 DEF Real
<1>16. LeasesOf(e) = LeasesOf(d) \ {LeaseAt(d, n)}
  <2>1. \A m \in Name : m # n => LeaseAt(e, m) = LeaseAt(d, m)
    BY <1>7 DEF LeaseAt
  <2>2. \A m \in Name : m # n => LeaseAt(d, m) # LeaseAt(d, n)
    BY DEF LeaseAt
  <2>3. /\ LeasesOf(e) = {LeaseAt(e, m) : m \in {k \in Name : IsListed(e, k)}}
        /\ LeasesOf(d) = {LeaseAt(d, m) : m \in {k \in Name : IsListed(d, k)}}
    BY DEF LeasesOf, LeaseAt
  <2> HIDE DEF LeaseAt, LeasesOf
  <2> QED BY <1>14, <2>1, <2>2, <2>3
<1> QED BY <1>6, <1>13, <1>15, <1>16 DEF Sound, e, h

\* Changing only how long sessions have left keeps the maps sound.
LEMMA TimesChange ==
  ASSUME NEW d, Sound(d), NEW left \in [Name -> 0..Ttl]
  PROVE  LET e == [d EXCEPT !.sessions =
                     [n \in Name |-> [d.sessions[n] EXCEPT !.left = left[n]]]]
         IN /\ Sound(e) /\ e.issued = d.issued
            /\ \A n \in Name :
                 /\ IsListed(e, n) <=> IsListed(d, n)
                 /\ LeaseAt(e, n) = [LeaseAt(d, n) EXCEPT !.left = left[n]]
<1> DEFINE e == [d EXCEPT !.sessions =
                   [n \in Name |-> [d.sessions[n] EXCEPT !.left = left[n]]]]
<1>1. /\ d.sessions \in [Name -> Session] /\ d.handles \in [Handle -> Name \cup {NoName}]
      /\ d.issued \in SUBSET Handle
      /\ d = [sessions |-> d.sessions, handles |-> d.handles, issued |-> d.issued]
  BY DEF Sound, Directory
<1>2. /\ e.sessions = [n \in Name |-> [d.sessions[n] EXCEPT !.left = left[n]]]
      /\ e.handles = d.handles /\ e.issued = d.issued
      /\ e = [sessions |-> e.sessions, handles |-> e.handles, issued |-> e.issued]
  BY <1>1
<1>3. \A n \in Name : /\ [d.sessions[n] EXCEPT !.left = left[n]] \in Session
                      /\ e.sessions[n] = [d.sessions[n] EXCEPT !.left = left[n]]
                      /\ e.sessions[n].handle = d.sessions[n].handle
                      /\ e.sessions[n].build = d.sessions[n].build
                      /\ e.sessions[n].left = left[n]
  <2> TAKE n \in Name
  <2>1. d.sessions[n] \in Session /\ left[n] \in 0..Ttl
    BY <1>1
  <2>2. [d.sessions[n] EXCEPT !.left = left[n]]
          = [handle |-> d.sessions[n].handle, build |-> d.sessions[n].build, left |-> left[n]]
    BY <2>1 DEF Session
  <2>3. e.sessions[n] = [d.sessions[n] EXCEPT !.left = left[n]]
    BY <1>2
  <2> HIDE DEF e
  <2> QED BY <2>1, <2>2, <2>3 DEF Session
<1>4. e.sessions \in [Name -> Session]
  BY <1>2, <1>3
<1> HIDE DEF e
<1>5. e \in Directory
  BY <1>1, <1>2, <1>4 DEF Directory
<1>6. Agree(e)
  BY <1>2, <1>3 DEF Sound, Agree
<1>7. Real(e)
  BY <1>2, <1>3 DEF Sound, Real, IsListed
<1>8. \A n \in Name : IsListed(e, n) <=> IsListed(d, n)
  BY <1>3 DEF IsListed
<1>9. \A n \in Name : LeaseAt(e, n) = [LeaseAt(d, n) EXCEPT !.left = left[n]]
  <2> TAKE n \in Name
  <2>1. [LeaseAt(d, n) EXCEPT !.left = left[n]]
          = [name |-> n, handle |-> d.sessions[n].handle, build |-> d.sessions[n].build,
             left |-> left[n]]
    BY DEF LeaseAt
  <2> QED BY <1>3, <2>1 DEF LeaseAt
<1> QED BY <1>2, <1>5, <1>6, <1>7, <1>8, <1>9 DEF Sound, e

\* Prolonging one session replaces its lease.
LEMMA RenewReplaces ==
  ASSUME NEW d, Sound(d), NEW n \in Name, IsListed(d, n)
  PROVE  LET e == [d EXCEPT !.sessions[n].left = Ttl]
         IN /\ Sound(e) /\ e.issued = d.issued
            /\ LeasesOf(e) = (LeasesOf(d) \ {LeaseAt(d, n)})
                               \cup {[LeaseAt(d, n) EXCEPT !.left = Ttl]}
<1> DEFINE e == [d EXCEPT !.sessions[n].left = Ttl]
           left == [m \in Name |-> IF m = n THEN Ttl ELSE d.sessions[m].left]
           f == [d EXCEPT !.sessions =
                   [m \in Name |-> [d.sessions[m] EXCEPT !.left = left[m]]]]
<1>1. /\ d.sessions \in [Name -> Session]
      /\ d = [sessions |-> d.sessions, handles |-> d.handles, issued |-> d.issued]
  BY DEF Sound, Directory
<1>2. left \in [Name -> 0..Ttl]
  BY <1>1, DirectoryAssumption DEF Session
<1>3. e = f
  <2>1. e.sessions = [d.sessions EXCEPT ![n] = [d.sessions[n] EXCEPT !.left = Ttl]]
    BY <1>1
  <2>2. [d.sessions EXCEPT ![n] = [d.sessions[n] EXCEPT !.left = Ttl]]
          = [m \in Name |-> [d.sessions[m] EXCEPT !.left = left[m]]]
    <3>1. \A m \in Name : m # n => [d.sessions[m] EXCEPT !.left = left[m]] = d.sessions[m]
      <4> TAKE m \in Name
      <4>1. d.sessions[m] \in Session
        BY <1>1
      <4> QED BY <4>1 DEF Session
    <3>2. left[n] = Ttl
      OBVIOUS
    <3> HIDE DEF left
    <3> QED BY <1>1, <3>1, <3>2
  <2>3. e = [sessions |-> e.sessions, handles |-> d.handles, issued |-> d.issued]
    BY <1>1
  <2>4. f = [sessions |-> f.sessions, handles |-> d.handles, issued |-> d.issued]
    BY <1>1
  <2>5. f.sessions = [m \in Name |-> [d.sessions[m] EXCEPT !.left = left[m]]]
    BY <1>1
  <2> HIDE DEF e, f, left
  <2> QED BY <2>1, <2>2, <2>3, <2>4, <2>5
<1>4. /\ Sound(f) /\ f.issued = d.issued
      /\ \A m \in Name : /\ IsListed(f, m) <=> IsListed(d, m)
                         /\ LeaseAt(f, m) = [LeaseAt(d, m) EXCEPT !.left = left[m]]
  <2> HIDE DEF left
  <2> QED BY <1>2, TimesChange
<1>5. \A m \in Name : m # n => LeaseAt(f, m) = LeaseAt(d, m)
  BY <1>4 DEF LeaseAt
<1>6. LeaseAt(f, n) = [LeaseAt(d, n) EXCEPT !.left = Ttl]
  BY <1>4
<1>7. \A m \in Name : m # n => LeaseAt(d, m) # LeaseAt(d, n)
  BY DEF LeaseAt
<1>8. /\ LeasesOf(f) = {LeaseAt(f, m) : m \in {k \in Name : IsListed(f, k)}}
      /\ LeasesOf(d) = {LeaseAt(d, m) : m \in {k \in Name : IsListed(d, k)}}
  BY DEF LeasesOf, LeaseAt
<1>9. LeasesOf(f) = (LeasesOf(d) \ {LeaseAt(d, n)}) \cup {[LeaseAt(d, n) EXCEPT !.left = Ttl]}
  <2> HIDE DEF f, LeaseAt, LeasesOf
  <2> QED BY <1>4, <1>5, <1>6, <1>7, <1>8
<1> HIDE DEF e, f
<1> QED BY <1>3, <1>4, <1>9 DEF e

\* Time passing takes one from every lease that has time left.
LEMMA TimeTakes ==
  ASSUME NEW d, Sound(d)
  PROVE  /\ Sound(TimeLeft(d)) /\ TimeLeft(d).issued = d.issued
         /\ LeasesOf(TimeLeft(d))
              = {[l EXCEPT !.left = IF @ = 0 THEN 0 ELSE @ - 1] : l \in LeasesOf(d)}
<1> DEFINE left == [n \in Name |-> IF d.sessions[n].left = 0 THEN 0
                                                         ELSE d.sessions[n].left - 1]
           f == [d EXCEPT !.sessions =
                   [n \in Name |-> [d.sessions[n] EXCEPT !.left = left[n]]]]
           e == TimeLeft(d)
<1>1. \A n \in Name : d.sessions[n] \in Session
  BY DEF Sound, Directory
<1>2. left \in [Name -> 0..Ttl]
  BY <1>1, DirectoryAssumption DEF Session
<1>3. e = f
  BY DEF TimeLeft
<1>4. /\ Sound(e) /\ e.issued = d.issued
      /\ \A n \in Name : /\ IsListed(e, n) <=> IsListed(d, n)
                         /\ LeaseAt(e, n) = [LeaseAt(d, n) EXCEPT !.left = left[n]]
  <2>1. /\ Sound(f) /\ f.issued = d.issued
        /\ \A n \in Name : /\ IsListed(f, n) <=> IsListed(d, n)
                           /\ LeaseAt(f, n) = [LeaseAt(d, n) EXCEPT !.left = left[n]]
    <3> HIDE DEF left
    <3> QED BY <1>2, TimesChange
  <2> HIDE DEF e, f
  <2> QED BY <1>3, <2>1
<1>5. \A n \in Name : LeaseAt(e, n)
         = [LeaseAt(d, n) EXCEPT !.left = IF LeaseAt(d, n).left = 0 THEN 0
                                          ELSE LeaseAt(d, n).left - 1]
  BY <1>4 DEF LeaseAt
<1>6. /\ LeasesOf(e) = {LeaseAt(e, m) : m \in {k \in Name : IsListed(e, k)}}
      /\ LeasesOf(d) = {LeaseAt(d, m) : m \in {k \in Name : IsListed(d, k)}}
  BY DEF LeasesOf, LeaseAt
<1>7. LeasesOf(e) = {[l EXCEPT !.left = IF l.left = 0 THEN 0 ELSE l.left - 1] : l \in LeasesOf(d)}
  <2> HIDE DEF e, left, LeaseAt, LeasesOf
  <2> QED BY <1>4, <1>5, <1>6
<1> QED BY <1>4, <1>7

-----------------------------------------------------------------------------
\* A reply that refuses is a step of the abstract directory that changes nothing.
LEMMA RefusalStep ==
  ASSUME IInv, NEW reason \in Reason, Answer(Refused(dir, reason))
  PROVE  IInv' /\ Leases!Next
<1>1. dir' = dir /\ answer' = [said |-> <<"refused">>, reason |-> reason]
  BY DEF Answer, Refused, Outcome
<1>2. answer' \in Reply
  BY <1>1 DEF Reply, Said
<1> QED BY <1>1, <1>2 DEF IInv, Sound, Agree, Real, IsListed, Leases!Next, Leases!Refuse,
                          LeasesOf

LEMMA RegisterStep ==
  ASSUME IInv, NEW request \in Registration, Register(request)
  PROVE  IInv' /\ Leases!Next
<1>1. CASE Answer(Refused(dir, "BootstrapFailed"))
  BY <1>1, RefusalStep DEF Reason
<1>2. ASSUME NEW n \in Name, NEW h \in Fresh(dir), ~IsListed(dir, n),
             Answer(Outcome(List(dir, n, h, request.build), <<"granted", h>>, "None"))
      PROVE  IInv' /\ Leases!Next
  <2> DEFINE b == request.build
             l == [name |-> n, handle |-> h, build |-> b, left |-> Ttl]
  <2>1. /\ dir' = List(dir, n, h, b)
        /\ answer' = [said |-> <<"granted", h>>, reason |-> "None"]
    BY <1>2 DEF Answer, Outcome
  <2>2. h \in Handle \ dir.issued /\ b \in Build
    BY DEF Fresh, Registration
  <2>3. /\ Sound(dir') /\ LeasesOf(dir') = LeasesOf(dir) \cup {l}
    BY <1>2, <2>1, <2>2, ListAdds DEF IInv
  <2>4. dir'.issued = dir.issued \cup {h}
    BY <2>1 DEF List
  <2>5. answer' \in Reply
    BY <2>1, <2>2 DEF Reply, Said, Reason
  <2>6. \A k \in LeasesOf(dir) : k.name # l.name
    BY <1>2, LeaseFacts DEF IInv
  <2>7. l \in Leases!Lease
    BY <2>2, DirectoryAssumption DEF Leases!Lease
  <2>8. Leases!Grant(l)
    BY <2>1, <2>2, <2>3, <2>4, <2>6 DEF Leases!Grant
  <2>9. IInv'
    BY <2>3, <2>5 DEF IInv, Sound, Agree, Real, IsListed
  <2> QED BY <2>7, <2>8, <2>9 DEF Leases!Next
<1>3. \A n \in Requested(dir, request) : n \in Name
  BY DEF Requested, Registration
<1>4. PICK o \in RegisterHostedSession(dir, request) : Answer(o)
  BY DEF Register
<1>5. \/ o = Refused(dir, "BootstrapFailed")
      \/ \E n \in Name, h \in Fresh(dir) :
           /\ ~IsListed(dir, n)
           /\ o = Outcome(List(dir, n, h, request.build), <<"granted", h>>, "None")
  BY <1>3, <1>4 DEF RegisterHostedSession
<1> QED BY <1>1, <1>2, <1>4, <1>5

\* What the two maps say of a handle that leads somewhere.
LEMMA HandleLeads ==
  ASSUME NEW d, Sound(d), NEW h \in Handle, d.handles[h] # NoName
  PROVE  /\ d.handles[h] \in Name
         /\ d.sessions[d.handles[h]].handle = h
         /\ IsListed(d, d.handles[h])
<1>1. d.handles[h] \in Name
  BY DEF Sound, Directory
<1>2. d.sessions[d.handles[h]].handle = h
  BY <1>1 DEF Sound, Agree
<1> QED BY <1>1, <1>2, DirectoryAssumption DEF IsListed

\* An expired session is erased: its lease lapses.
LEMMA LapseStep ==
  ASSUME IInv, NEW n \in Name, IsListed(dir, n), Expired(dir, n), NEW reason \in Reason,
         Answer(Refused(Erase(dir, n, dir.sessions[n].handle), reason))
  PROVE  IInv' /\ Leases!Next
<1>1. /\ dir' = Erase(dir, n, dir.sessions[n].handle)
      /\ answer' = [said |-> <<"refused">>, reason |-> reason]
  BY DEF Answer, Refused, Outcome
<1>2. Sound(dir') /\ LeasesOf(dir') = LeasesOf(dir) \ {LeaseAt(dir, n)}
  BY <1>1, EraseRemoves DEF IInv
<1>3. dir'.issued = dir.issued
  BY <1>1 DEF Erase
<1>4. answer' \in Reply
  BY <1>1 DEF Reply, Said
<1>5. LeaseAt(dir, n) \in LeasesOf(dir) /\ LeaseAt(dir, n) \in Leases!Lease
  BY LeaseFacts DEF IInv
<1>6. LeaseAt(dir, n).left = 0
  BY DEF LeaseAt, Expired
<1>7. Leases!Lapse(LeaseAt(dir, n))
  BY <1>1, <1>2, <1>3, <1>5, <1>6 DEF Leases!Lapse
<1>8. IInv'
  BY <1>2, <1>4 DEF IInv, Sound, Agree, Real, IsListed
<1> QED BY <1>5, <1>7, <1>8 DEF Leases!Next

LEMMA LookupStep ==
  ASSUME IInv, NEW n \in Name \cup {NoName}, NEW build \in Build, Lookup(n, build)
  PROVE  IInv' /\ Leases!Next
<1>1. CASE \E reason \in Reason : Answer(Refused(dir, reason))
  BY <1>1, RefusalStep
<1>2. CASE /\ n \in Name /\ IsListed(dir, n) /\ Expired(dir, n)
           /\ Answer(Refused(Erase(dir, n, dir.sessions[n].handle), "AuthRejected"))
  BY <1>2, LapseStep DEF Reason
<1>3. CASE /\ n \in Name /\ IsListed(dir, n) /\ ~Expired(dir, n)
           /\ build = dir.sessions[n].build
           /\ Answer(Outcome(dir, <<"resolved", n, build>>, "None"))
  <2>1. dir' = dir /\ answer' = [said |-> <<"resolved", n, build>>, reason |-> "None"]
    BY <1>3 DEF Answer, Outcome
  <2>2. answer' \in Reply
    BY <1>3, <2>1 DEF Reply, Said, Reason
  <2>3. LeaseAt(dir, n) \in LeasesOf(dir) /\ LeaseAt(dir, n) \in Leases!Lease
    BY <1>3, LeaseFacts DEF IInv
  <2>4. dir.sessions[n].left \in Nat
    BY <1>3, DirectoryAssumption DEF IInv, Sound, Directory, Session
  <2>5. /\ LeaseAt(dir, n).left > 0 /\ LeaseAt(dir, n).build = build
        /\ LeaseAt(dir, n).name = n
    BY <1>3, <2>4 DEF LeaseAt, Expired
  <2>6. LeasesOf(dir') = LeasesOf(dir)
    BY <2>1 DEF LeasesOf, IsListed
  <2>7. Leases!Resolve(LeaseAt(dir, n), build)
    BY <2>1, <2>3, <2>5, <2>6 DEF Leases!Resolve
  <2>8. IInv'
    BY <2>1, <2>2 DEF IInv, Sound, Agree, Real, IsListed
  <2> QED BY <2>3, <2>7, <2>8 DEF Leases!Next
<1> QED
  <2>1. n # NoName => n \in Name
    OBVIOUS
  <2>2. {"BootstrapFailed", "SessionClosed", "VersionMismatch"} \subseteq Reason
    BY DEF Reason
  <2>3. CASE n = NoName \/ ~IsListed(dir, n)
    BY <2>3, <2>2, <1>1 DEF Lookup, LookupSession
  <2>4. CASE n \in Name /\ IsListed(dir, n) /\ Expired(dir, n)
    BY <2>4, <1>2, DirectoryAssumption DEF Lookup, LookupSession
  <2>5. CASE n \in Name /\ IsListed(dir, n) /\ ~Expired(dir, n)
    BY <2>5, <2>2, <1>1, <1>3, DirectoryAssumption DEF Lookup, LookupSession
  <2> QED BY <2>1, <2>3, <2>4, <2>5

LEMMA RefreshStep ==
  ASSUME IInv, NEW h \in Handle \cup {NoHandle}, Refresh(h)
  PROVE  IInv' /\ Leases!Next
<1> DEFINE n == dir.handles[h]
<1>1. CASE \E reason \in Reason : Answer(Refused(dir, reason))
  BY <1>1, RefusalStep
<1>2. CASE /\ h \in Handle /\ n # NoName /\ Expired(dir, n)
           /\ Answer(Refused(Erase(dir, n, h), "SessionClosed"))
  <2>1. n \in Name /\ dir.sessions[n].handle = h /\ IsListed(dir, n)
    BY <1>2, HandleLeads DEF IInv
  <2>2. "SessionClosed" \in Reason
    BY DEF Reason
  <2> HIDE DEF n
  <2> QED BY <1>2, <2>1, <2>2, LapseStep
<1>3. CASE /\ h \in Handle /\ n # NoName /\ ~Expired(dir, n)
           /\ Answer(Outcome([dir EXCEPT !.sessions[n].left = Ttl], <<"renewed", h>>, "None"))
  <2>1. n \in Name /\ dir.sessions[n].handle = h /\ IsListed(dir, n)
    BY <1>3, HandleLeads DEF IInv
  <2> HIDE DEF n
  <2>2. /\ dir' = [dir EXCEPT !.sessions[n].left = Ttl]
        /\ answer' = [said |-> <<"renewed", h>>, reason |-> "None"]
    BY <1>3 DEF Answer, Outcome
  <2>3. /\ Sound(dir') /\ dir'.issued = dir.issued
        /\ LeasesOf(dir') = (LeasesOf(dir) \ {LeaseAt(dir, n)})
                              \cup {[LeaseAt(dir, n) EXCEPT !.left = Ttl]}
    BY <2>1, <2>2, RenewReplaces DEF IInv
  <2>4. answer' \in Reply
    BY <1>3, <2>2 DEF Reply, Said, Reason
  <2>5. LeaseAt(dir, n) \in LeasesOf(dir) /\ LeaseAt(dir, n) \in Leases!Lease
    BY <2>1, LeaseFacts DEF IInv
  <2>6. dir.sessions[n].left \in Nat
    BY <2>1, DirectoryAssumption DEF IInv, Sound, Directory, Session
  <2>7. LeaseAt(dir, n).left > 0 /\ LeaseAt(dir, n).handle = h
    BY <1>3, <2>1, <2>6 DEF LeaseAt, Expired
  <2>8. Leases!Renew(LeaseAt(dir, n))
    BY <2>2, <2>3, <2>5, <2>7 DEF Leases!Renew
  <2>9. IInv'
    BY <2>3, <2>4 DEF IInv, Sound, Agree, Real, IsListed
  <2> QED BY <2>5, <2>8, <2>9 DEF Leases!Next
<1> QED
  <2>1. {"BootstrapFailed", "SessionClosed"} \subseteq Reason
    BY DEF Reason
  <2>2. CASE h = NoHandle
    BY <2>1, <2>2, <1>1 DEF Refresh, RefreshHostedSession
  <2>3. CASE h \in Handle /\ n = NoName
    BY <2>1, <2>3, <1>1, DirectoryAssumption DEF Refresh, RefreshHostedSession
  <2>4. CASE h \in Handle /\ n # NoName
    <3>1. n \in Name /\ IsListed(dir, n)
      BY <2>4, HandleLeads DEF IInv
    <3>2. Answer(IF Expired(dir, n) THEN Refused(Erase(dir, n, h), "SessionClosed")
                 ELSE Outcome([dir EXCEPT !.sessions[n].left = Ttl],
                              <<"renewed", h>>, "None"))
      BY <2>4, <3>1, DirectoryAssumption DEF Refresh, RefreshHostedSession
    <3> HIDE DEF n
    <3> QED BY <2>4, <3>1, <3>2, <1>2, <1>3
  <2> QED BY <2>2, <2>3, <2>4

LEMMA UnregisterStep ==
  ASSUME IInv, NEW h \in Handle \cup {NoHandle}, Unregister(h)
  PROVE  IInv' /\ Leases!Next
<1> DEFINE n == dir.handles[h]
<1>1. CASE \E reason \in Reason : Answer(Refused(dir, reason))
  BY <1>1, RefusalStep
<1>2. CASE /\ h \in Handle /\ n # NoName
           /\ Answer(Outcome(Erase(dir, n, h), <<"released", h>>, "None"))
  <2>1. n \in Name /\ dir.sessions[n].handle = h /\ IsListed(dir, n)
    BY <1>2, HandleLeads DEF IInv
  <2> HIDE DEF n
  <2>2. /\ dir' = Erase(dir, n, h)
        /\ answer' = [said |-> <<"released", h>>, reason |-> "None"]
    BY <1>2 DEF Answer, Outcome
  <2>3. Sound(dir') /\ LeasesOf(dir') = LeasesOf(dir) \ {LeaseAt(dir, n)}
    BY <2>1, <2>2, EraseRemoves DEF IInv
  <2>4. dir'.issued = dir.issued
    BY <2>2 DEF Erase
  <2>5. answer' \in Reply
    BY <1>2, <2>2 DEF Reply, Said, Reason
  <2>6. /\ LeaseAt(dir, n) \in LeasesOf(dir) /\ LeaseAt(dir, n) \in Leases!Lease
        /\ LeaseAt(dir, n).handle = h
    BY <2>1, LeaseFacts DEF IInv, LeaseAt
  <2>7. Leases!Release(LeaseAt(dir, n))
    BY <2>2, <2>3, <2>4, <2>6 DEF Leases!Release
  <2>8. IInv'
    BY <2>3, <2>5 DEF IInv, Sound, Agree, Real, IsListed
  <2> QED BY <2>6, <2>7, <2>8 DEF Leases!Next
<1> QED
  <2>1. {"BootstrapFailed", "SessionClosed"} \subseteq Reason
    BY DEF Reason
  <2>2. CASE h = NoHandle \/ (h \in Handle /\ n = NoName)
    BY <2>1, <2>2, <1>1 DEF Unregister, UnregisterHostedSession
  <2>3. CASE h \in Handle /\ n # NoName
    BY <2>3, <1>2, DirectoryAssumption DEF Unregister, UnregisterHostedSession
  <2> QED BY <2>2, <2>3

LEMMA TickStep ==
  ASSUME IInv, Tick
  PROVE  IInv' /\ Leases!Next
<1>1. dir' = TimeLeft(dir) /\ answer' = Silence
  BY DEF Tick
<1>2. /\ Sound(dir') /\ dir'.issued = dir.issued
      /\ LeasesOf(dir')
           = {[l EXCEPT !.left = IF @ = 0 THEN 0 ELSE @ - 1] : l \in LeasesOf(dir)}
  BY <1>1, TimeTakes DEF IInv
<1>3. answer' \in Reply
  BY <1>1 DEF Reply, Said, Reason, Silence
<1>4. Leases!Tick
  BY <1>1, <1>2 DEF Leases!Tick, Silence
<1>5. IInv'
  BY <1>2, <1>3 DEF IInv, Sound, Agree, Real, IsListed
<1> QED BY <1>4, <1>5 DEF Leases!Next

LEMMA NoCallStep ==
  ASSUME IInv, NoCall
  PROVE  IInv' /\ Leases!Next
<1>1. dir' = dir /\ answer' = Silence
  BY DEF NoCall
<1>2. answer' \in Reply
  BY <1>1 DEF Reply, Said, Reason, Silence
<1> QED BY <1>1, <1>2 DEF IInv, Sound, Agree, Real, IsListed, Leases!Next, Leases!Quiet,
                          LeasesOf, Silence

-----------------------------------------------------------------------------
LEMMA DirectoryInitially ==
  ASSUME DirectoryInit
  PROVE  IInv /\ Leases!Init
<1>1. dir = EmptyDirectory /\ answer = Silence
  BY DEF DirectoryInit
<1>2. NoSession \in Session
  BY DirectoryAssumption DEF Session, NoSession
<1>3. dir \in Directory
  BY <1>1, <1>2 DEF EmptyDirectory, Directory
<1>4. \A n \in Name : dir.sessions[n].handle = NoHandle
  BY <1>1 DEF EmptyDirectory, NoSession
<1>5. \A h \in Handle : dir.handles[h] = NoName
  BY <1>1 DEF EmptyDirectory
<1>6. Agree(dir)
  BY <1>4, <1>5, DirectoryAssumption DEF Agree
<1>7. Real(dir) /\ LeasesOf(dir) = {}
  BY <1>4 DEF Real, LeasesOf, IsListed
<1>8. answer \in Reply
  BY <1>1 DEF Reply, Said, Reason, Silence
<1>9. dir.issued = {} /\ answer.said = <<"none">>
  BY <1>1 DEF EmptyDirectory, Silence
<1> QED BY <1>3, <1>6, <1>7, <1>8, <1>9 DEF IInv, Sound, Leases!Init

LEMMA DirectoryStep ==
  ASSUME IInv, [DirectoryNext]_directoryVars
  PROVE  IInv' /\ [Leases!Next]_Leases!vars
<1>1. CASE DirectoryNext
  <2>1. CASE Tick
    BY <2>1, TickStep
  <2>2. CASE NoCall
    BY <2>2, NoCallStep
  <2>3. CASE \E request \in Registration : Register(request)
    BY <2>3, RegisterStep
  <2>4. CASE \E n \in Name \cup {NoName}, build \in Build : Lookup(n, build)
    BY <2>4, LookupStep
  <2>5. CASE \E h \in Handle \cup {NoHandle} : Refresh(h) \/ Unregister(h)
    BY <2>5, RefreshStep, UnregisterStep
  <2> QED BY <1>1, <2>1, <2>2, <2>3, <2>4, <2>5 DEF DirectoryNext
<1>2. CASE UNCHANGED directoryVars
  BY <1>2 DEF directoryVars, IInv, Sound, Agree, Real, IsListed, Leases!vars, LeasesOf
<1> QED BY <1>1, <1>2

LEMMA DirectoryInvariant == DirectorySpec => []IInv
<1>1. DirectoryInit => IInv
  BY DirectoryInitially
<1>2. IInv /\ [DirectoryNext]_directoryVars => IInv'
  BY DirectoryStep
<1> QED BY <1>1, <1>2, PTL DEF DirectorySpec

(***************************************************************************)
(* ProcessLocalSessionDirectoryService keeps its maps and replies typed.   *)
(***************************************************************************)
THEOREM DirectoryTypeCorrect == DirectorySpec => []DirectoryTypeOK
<1>1. IInv => DirectoryTypeOK
  BY DEF IInv, Sound, DirectoryTypeOK
<1> QED BY <1>1, DirectoryInvariant, PTL

(***************************************************************************)
(* No method of the directory leaves a handle behind: m_sessions and       *)
(* m_registrationHandles agree after every call, whatever was asked.       *)
(***************************************************************************)
THEOREM DirectoryMapsAgree == DirectorySpec => []MapsAgree
<1>1. IInv => MapsAgree
  BY DEF IInv, Sound, Agree, MapsAgree
<1> QED BY <1>1, DirectoryInvariant, PTL

(***************************************************************************)
(* The directory implements LeaseDirectory: a session is listed, prolonged *)
(* and removed only as the holder of its handle asks, or when it ran out.  *)
(***************************************************************************)
THEOREM DirectoryKeepsLeases == DirectorySpec => KeepsLeases
<1>1. DirectoryInit => Leases!Init
  BY DirectoryInitially
<1>2. IInv /\ [DirectoryNext]_directoryVars => [Leases!Next]_Leases!vars
  BY DirectoryStep
<1> QED BY <1>1, <1>2, DirectoryInvariant, PTL DEF DirectorySpec, KeepsLeases, Leases!Spec

-----------------------------------------------------------------------------
(***************************************************************************)
(* What SessionManager assumes of a directory.  It knows registrations by  *)
(* their handles, and a success by the absence of an error; called in      *)
(* process, no reply is lost.                                              *)
(***************************************************************************)
Assumed == INSTANCE DirectoryAnswers
             WITH DirectoryError <- Reason \ {"None"}, ReplyCanBeLost <- FALSE

Listing(d) == {h \in Handle : d.handles[h] # NoName}

Replied(reply) == IF reply.reason = "None" THEN "ok" ELSE reply.reason
Granted(reply) == IF reply.said[1] = "granted" THEN reply.said[2] ELSE NoHandle

AsRegistered(o) ==
  [reply |-> Replied(o.reply), handle |-> Granted(o.reply), listed |-> Listing(o.dir)]
AsReleased(o) == [reply |-> Replied(o.reply), listed |-> Listing(o.dir)]

\* A refresh that finds the lease at its end removes it first, which SessionManager
\* takes for the expiry of a listing (Expire).
AnswersAsAssumed ==
  /\ \A request \in Registration : \A o \in RegisterHostedSession(dir, request) :
       AsRegistered(o) \in Assumed!DirectoryRegister(Fresh(dir), Listing(dir))
  /\ \A h \in Handle :
       AsReleased(UnregisterHostedSession(dir, h)) \in Assumed!DirectoryRelease(h, Listing(dir))
  /\ \A h \in Handle :
       LET o == RefreshHostedSession(dir, h)
       IN /\ Replied(o.reply) \in Assumed!DirectoryRefresh(h, Listing(o.dir))
          /\ Listing(o.dir) \in {Listing(dir), Listing(dir) \ {h}}

\* Between the calls of one manager, others add only registrations with handles that nobody
\* knew before, and remove none but their own and those that ran out.
ListingChangesAsAssumed ==
  /\ Listing(dir') \subseteq Listing(dir) \cup Fresh(dir)
  /\ \A h \in Listing(dir) \ Listing(dir') : Unregister(h) \/ Expired(dir, dir.handles[h])

LEMMA ListingAdds ==
  ASSUME NEW d, Sound(d), NEW n \in Name, NEW h \in Handle, NEW b
  PROVE  Listing(List(d, n, h, b)) = Listing(d) \cup {h}
<1> DEFINE e == List(d, n, h, b)
<1>1. e.handles = [d.handles EXCEPT ![h] = n]
  BY DEF List
<1>2. d.handles \in [Handle -> Name \cup {NoName}]
  BY DEF Sound, Directory
<1>3. \A g \in Handle : e.handles[g] = IF g = h THEN n ELSE d.handles[g]
  BY <1>1, <1>2
<1>4. n # NoName
  BY DirectoryAssumption
<1> HIDE DEF e
<1>5. Listing(e) = Listing(d) \cup {h}
  BY <1>3, <1>4 DEF Listing
<1> QED BY <1>5 DEF e

LEMMA ListingLoses ==
  ASSUME NEW d, Sound(d), NEW n, NEW h \in Handle
  PROVE  Listing(Erase(d, n, h)) = Listing(d) \ {h}
<1> DEFINE e == Erase(d, n, h)
<1>1. e.handles = [d.handles EXCEPT ![h] = NoName]
  BY DEF Erase
<1>2. d.handles \in [Handle -> Name \cup {NoName}]
  BY DEF Sound, Directory
<1>3. \A g \in Handle : e.handles[g] = IF g = h THEN NoName ELSE d.handles[g]
  BY <1>1, <1>2
<1> HIDE DEF e
<1>4. Listing(e) = Listing(d) \ {h}
  BY <1>3 DEF Listing
<1> QED BY <1>4 DEF e

\* A registration is granted under a new handle, or refused and nothing is listed for it.
LEMMA RegisterAnswers ==
  ASSUME NEW d, Sound(d), NEW request \in Registration,
         NEW o \in RegisterHostedSession(d, request)
  PROVE  \/ o.dir = d /\ o.reply = [said |-> <<"refused">>, reason |-> "BootstrapFailed"]
         \/ \E h \in Fresh(d) :
              /\ Listing(o.dir) = Listing(d) \cup {h}
              /\ o.reply = [said |-> <<"granted", h>>, reason |-> "None"]
<1>1. \A n \in Requested(d, request) : n \in Name
  BY DEF Requested, Registration
<1>2. \/ o = Refused(d, "BootstrapFailed")
      \/ \E n \in Name, h \in Fresh(d) :
           o = Outcome(List(d, n, h, request.build), <<"granted", h>>, "None")
  BY <1>1 DEF RegisterHostedSession
<1>3. CASE o = Refused(d, "BootstrapFailed")
  BY <1>3 DEF Refused, Outcome
<1>4. ASSUME NEW n \in Name, NEW h \in Fresh(d),
             o = Outcome(List(d, n, h, request.build), <<"granted", h>>, "None")
      PROVE  /\ Listing(o.dir) = Listing(d) \cup {h}
             /\ o.reply = [said |-> <<"granted", h>>, reason |-> "None"]
  <2>1. /\ o.dir = List(d, n, h, request.build)
        /\ o.reply = [said |-> <<"granted", h>>, reason |-> "None"]
    BY <1>4 DEF Outcome
  <2> QED BY <2>1, ListingAdds DEF Fresh
<1> QED BY <1>2, <1>3, <1>4

\* A release takes the registration off the directory, or finds it gone already.
LEMMA ReleaseAnswers ==
  ASSUME NEW d, Sound(d), NEW h \in Handle, NEW o, o = UnregisterHostedSession(d, h)
  PROVE  \/ /\ h \notin Listing(d) /\ o.dir = d
            /\ o.reply = [said |-> <<"refused">>, reason |-> "SessionClosed"]
         \/ /\ h \in Listing(d) /\ Listing(o.dir) = Listing(d) \ {h}
            /\ o.reply = [said |-> <<"released", h>>, reason |-> "None"]
<1>1. h # NoHandle
  BY DirectoryAssumption
<1>2. CASE d.handles[h] = NoName
  <2>1. o = Refused(d, "SessionClosed")
    BY <1>1, <1>2 DEF UnregisterHostedSession
  <2> QED BY <1>2, <2>1 DEF Refused, Outcome, Listing
<1>3. CASE d.handles[h] # NoName
  <2>1. o = Outcome(Erase(d, d.handles[h], h), <<"released", h>>, "None")
    BY <1>1, <1>3 DEF UnregisterHostedSession
  <2>2. /\ o.dir = Erase(d, d.handles[h], h)
        /\ o.reply = [said |-> <<"released", h>>, reason |-> "None"]
    BY <2>1 DEF Outcome
  <2>3. h \in Listing(d)
    BY <1>3 DEF Listing
  <2> QED BY <2>2, <2>3, ListingLoses
<1> QED BY <1>2, <1>3

\* A refresh prolongs what is listed, and says gone of what is not or has just run out.
LEMMA RefreshAnswers ==
  ASSUME NEW d, Sound(d), NEW h \in Handle, NEW o, o = RefreshHostedSession(d, h)
  PROVE  /\ \/ /\ h \notin Listing(o.dir)
               /\ o.reply = [said |-> <<"refused">>, reason |-> "SessionClosed"]
            \/ /\ h \in Listing(o.dir)
               /\ o.reply = [said |-> <<"renewed", h>>, reason |-> "None"]
         /\ \/ Listing(o.dir) = Listing(d)
            \/ Listing(o.dir) = Listing(d) \ {h} /\ Expired(d, d.handles[h])
<1> DEFINE n == d.handles[h]
<1>1. h # NoHandle
  BY DirectoryAssumption
<1>2. CASE n = NoName
  <2>1. o = Refused(d, "SessionClosed")
    BY <1>1, <1>2 DEF RefreshHostedSession
  <2>2. h \notin Listing(d)
    BY <1>2 DEF Listing
  <2> QED BY <2>1, <2>2 DEF Refused, Outcome
<1>3. CASE n # NoName /\ Expired(d, n)
  <2>1. IsListed(d, n)
    BY <1>3, HandleLeads
  <2>2. o = Refused(Erase(d, n, h), "SessionClosed")
    BY <1>1, <1>3, <2>1 DEF RefreshHostedSession
  <2>3. /\ o.dir = Erase(d, n, h)
        /\ o.reply = [said |-> <<"refused">>, reason |-> "SessionClosed"]
    BY <2>2 DEF Refused, Outcome
  <2>4. Listing(o.dir) = Listing(d) \ {h}
    BY <2>3, ListingLoses
  <2> QED BY <1>3, <2>3, <2>4
<1>4. CASE n # NoName /\ ~Expired(d, n)
  <2>1. IsListed(d, n)
    BY <1>4, HandleLeads
  <2>2. o = Outcome([d EXCEPT !.sessions[n].left = Ttl], <<"renewed", h>>, "None")
    BY <1>1, <1>4, <2>1 DEF RefreshHostedSession
  <2>3. /\ o.dir.handles = d.handles
        /\ o.reply = [said |-> <<"renewed", h>>, reason |-> "None"]
    BY <2>2 DEF Outcome, Sound, Directory
  <2>4. Listing(o.dir) = Listing(d) /\ h \in Listing(d)
    BY <1>4, <2>3 DEF Listing
  <2> QED BY <2>3, <2>4
<1> QED BY <1>2, <1>3, <1>4

\* The three methods, as SessionManager sees them.
LEMMA RegisterAsAssumed ==
  ASSUME NEW d, Sound(d), NEW request \in Registration,
         NEW o \in RegisterHostedSession(d, request)
  PROVE  AsRegistered(o) \in Assumed!DirectoryRegister(Fresh(d), Listing(d))
<1>1. CASE o.dir = d /\ o.reply = [said |-> <<"refused">>, reason |-> "BootstrapFailed"]
  <2>1. AsRegistered(o)
          = [reply |-> "BootstrapFailed", handle |-> NoHandle, listed |-> Listing(d)]
    BY <1>1 DEF AsRegistered, Replied, Granted
  <2>2. "BootstrapFailed" \in Reason \ {"None"}
    BY DEF Reason
  <2> QED BY <2>1, <2>2 DEF Assumed!DirectoryRegister
<1>2. ASSUME NEW h \in Fresh(d), Listing(o.dir) = Listing(d) \cup {h},
             o.reply = [said |-> <<"granted", h>>, reason |-> "None"]
      PROVE  AsRegistered(o) \in Assumed!DirectoryRegister(Fresh(d), Listing(d))
  <2> DEFINE granted == {[reply |-> "ok", handle |-> g, listed |-> Listing(d) \cup {g}] :
                           g \in Fresh(d)}
  <2>1. Replied(o.reply) = "ok" /\ Granted(o.reply) = h
    BY <1>2 DEF Replied, Granted
  <2>2. AsRegistered(o) = [reply |-> "ok", handle |-> h, listed |-> Listing(d) \cup {h}]
    BY <1>2, <2>1 DEF AsRegistered
  <2>3. AsRegistered(o) \in granted
    BY <2>2, Zenon
  <2>4. granted \subseteq Assumed!DirectoryRegister(Fresh(d), Listing(d))
    BY SMT DEF Assumed!DirectoryRegister
  <2> QED BY <2>3, <2>4, Zenon
<1> QED BY <1>1, <1>2, RegisterAnswers

LEMMA ReleaseAsAssumed ==
  ASSUME NEW d, Sound(d), NEW h \in Handle
  PROVE  AsReleased(UnregisterHostedSession(d, h)) \in Assumed!DirectoryRelease(h, Listing(d))
<1> DEFINE o == UnregisterHostedSession(d, h)
<1>1. CASE /\ h \notin Listing(d) /\ o.dir = d
           /\ o.reply = [said |-> <<"refused">>, reason |-> "SessionClosed"]
  <2>1. AsReleased(o) = [reply |-> "SessionClosed", listed |-> Listing(d) \ {h}]
    BY <1>1 DEF AsReleased, Replied
  <2>2. "SessionClosed" \in Reason \ {"None"}
    BY DEF Reason
  <2> QED BY <1>1, <2>1, <2>2 DEF Assumed!DirectoryRelease
<1>2. CASE /\ h \in Listing(d) /\ Listing(o.dir) = Listing(d) \ {h}
           /\ o.reply = [said |-> <<"released", h>>, reason |-> "None"]
  <2>1. AsReleased(o) = [reply |-> "ok", listed |-> Listing(d) \ {h}]
    BY <1>2 DEF AsReleased, Replied
  <2> QED BY <1>2, <2>1 DEF Assumed!DirectoryRelease
<1> QED BY <1>1, <1>2, ReleaseAnswers

LEMMA RefreshAsAssumed ==
  ASSUME NEW d, Sound(d), NEW h \in Handle, NEW o, o = RefreshHostedSession(d, h)
  PROVE  /\ Replied(o.reply) \in Assumed!DirectoryRefresh(h, Listing(o.dir))
         /\ Listing(o.dir) \in {Listing(d), Listing(d) \ {h}}
<1>1. "SessionClosed" \in Reason \ {"None"}
  BY DEF Reason
<1>2. Listing(o.dir) \in {Listing(d), Listing(d) \ {h}}
  BY RefreshAnswers
<1>3. \/ h \notin Listing(o.dir) /\ o.reply = [said |-> <<"refused">>, reason |-> "SessionClosed"]
      \/ h \in Listing(o.dir) /\ o.reply = [said |-> <<"renewed", h>>, reason |-> "None"]
  BY RefreshAnswers
<1>4. Replied(o.reply) \in Assumed!DirectoryRefresh(h, Listing(o.dir))
  <2>1. CASE h \notin Listing(o.dir)
    <3>1. o.reply.reason = "SessionClosed"
      BY <1>3, <2>1
    <3>2. Replied(o.reply) = "SessionClosed"
      BY <3>1 DEF Replied
    <3> QED BY <1>1, <2>1, <3>2 DEF Assumed!DirectoryRefresh
  <2>2. CASE h \in Listing(o.dir)
    <3>1. o.reply.reason = "None"
      BY <1>3, <2>2
    <3>2. Replied(o.reply) = "ok"
      BY <3>1 DEF Replied
    <3> QED BY <2>2, <3>2 DEF Assumed!DirectoryRefresh
  <2> QED BY <2>1, <2>2
<1> QED BY <1>2, <1>4

(***************************************************************************)
(* SessionManager allows for every answer the process-local directory can  *)
(* give: what is refused leaves no registration behind, a release that is  *)
(* answered has taken effect, and "gone" is said only of what is gone.     *)
(***************************************************************************)
THEOREM DirectoryAnswersAsAssumed == DirectorySpec => []AnswersAsAssumed
<1>1. IInv => AnswersAsAssumed
  BY RegisterAsAssumed, ReleaseAsAssumed, RefreshAsAssumed DEF IInv, AnswersAsAssumed
<1> QED BY <1>1, DirectoryInvariant, PTL

\* The steps that leave the maps as they are, and those that change no handle.
LEMMA ListingKept ==
  ASSUME IInv, dir'.handles = dir.handles
  PROVE  ListingChangesAsAssumed
BY DEF ListingChangesAsAssumed, Listing

LEMMA ListingSteps ==
  ASSUME IInv, [DirectoryNext]_directoryVars
  PROVE  ListingChangesAsAssumed
<1>1. CASE dir' = dir
  BY <1>1, ListingKept
<1>2. CASE Tick
  <2>1. dir'.handles = dir.handles
    BY <1>2 DEF Tick, TimeLeft, IInv, Sound, Directory
  <2> QED BY <2>1, ListingKept
<1>3. ASSUME NEW request \in Registration, Register(request)
      PROVE  ListingChangesAsAssumed
  <2>1. PICK o \in RegisterHostedSession(dir, request) : Answer(o)
    BY <1>3 DEF Register
  <2>2. \A n \in Requested(dir, request) : n \in Name
    BY DEF Requested, Registration
  <2>3. \/ o = Refused(dir, "BootstrapFailed")
        \/ \E n \in Name, h \in Fresh(dir) :
             o = Outcome(List(dir, n, h, request.build), <<"granted", h>>, "None")
    BY <2>2 DEF RegisterHostedSession
  <2>4. CASE o = Refused(dir, "BootstrapFailed")
    BY <2>1, <2>4, <1>1 DEF Answer, Refused, Outcome
  <2>5. ASSUME NEW n \in Name, NEW h \in Fresh(dir),
               o = Outcome(List(dir, n, h, request.build), <<"granted", h>>, "None")
        PROVE  ListingChangesAsAssumed
    <3>1. dir' = List(dir, n, h, request.build)
      BY <2>1, <2>5 DEF Answer, Outcome
    <3>2. Listing(dir') = Listing(dir) \cup {h}
      BY <3>1, ListingAdds DEF IInv, Fresh
    <3> QED BY <3>2 DEF ListingChangesAsAssumed
  <2> QED BY <2>3, <2>4, <2>5
<1>4. ASSUME NEW n \in Name \cup {NoName}, NEW build \in Build, Lookup(n, build)
      PROVE  ListingChangesAsAssumed
  <2>1. CASE n \in Name /\ IsListed(dir, n) /\ Expired(dir, n)
    <3> DEFINE h == dir.sessions[n].handle
    <3>1. dir' = Erase(dir, n, h)
      BY <1>4, <2>1, DirectoryAssumption DEF Lookup, LookupSession, Answer, Refused, Outcome
    <3>2. h \in Handle
      BY <2>1, LeaseFacts DEF IInv
    <3>3. dir.handles[h] = n
      BY <2>1, <3>2 DEF IInv, Sound, Agree
    <3> HIDE DEF h
    <3>4. Listing(dir') = Listing(dir) \ {h}
      BY <3>1, <3>2, ListingLoses DEF IInv
    <3> QED BY <2>1, <3>3, <3>4 DEF ListingChangesAsAssumed
  <2>2. CASE ~(n \in Name /\ IsListed(dir, n) /\ Expired(dir, n))
    <3>1. dir' = dir
      BY <1>4, <2>2 DEF Lookup, LookupSession, Answer, Refused, Outcome
    <3> QED BY <3>1, <1>1
  <2> QED BY <2>1, <2>2
<1>5. ASSUME NEW h \in Handle \cup {NoHandle}, Refresh(h)
      PROVE  ListingChangesAsAssumed
  <2>1. CASE h \in Handle
    <3> DEFINE o == RefreshHostedSession(dir, h)
    <3>1. dir' = o.dir
      BY <1>5 DEF Refresh, Answer
    <3>2. /\ Listing(o.dir) \in {Listing(dir), Listing(dir) \ {h}}
          /\ Listing(o.dir) = Listing(dir) \/ Expired(dir, dir.handles[h])
      BY <2>1, RefreshAnswers DEF IInv
    <3> HIDE DEF o
    <3> QED BY <3>1, <3>2 DEF ListingChangesAsAssumed
  <2>2. CASE h = NoHandle
    <3>1. dir' = dir
      BY <1>5, <2>2 DEF Refresh, RefreshHostedSession, Answer, Refused, Outcome
    <3> QED BY <3>1, <1>1
  <2> QED BY <2>1, <2>2
<1>6. ASSUME NEW h \in Handle \cup {NoHandle}, Unregister(h)
      PROVE  ListingChangesAsAssumed
  <2>1. CASE h \in Handle /\ dir.handles[h] # NoName
    <3>1. dir' = Erase(dir, dir.handles[h], h)
      BY <1>6, <2>1, DirectoryAssumption
      DEF Unregister, UnregisterHostedSession, Answer, Outcome
    <3>2. Listing(dir') = Listing(dir) \ {h}
      BY <2>1, <3>1, ListingLoses DEF IInv
    <3> QED BY <1>6, <3>2 DEF ListingChangesAsAssumed
  <2>2. CASE ~(h \in Handle /\ dir.handles[h] # NoName)
    <3>1. dir' = dir
      BY <1>6, <2>2 DEF Unregister, UnregisterHostedSession, Answer, Refused, Outcome
    <3> QED BY <3>1, <1>1
  <2> QED BY <2>1, <2>2
<1>7. CASE NoCall \/ UNCHANGED directoryVars
  BY <1>7, <1>1 DEF NoCall, directoryVars
<1> QED BY <1>2, <1>3, <1>4, <1>5, <1>6, <1>7 DEF DirectoryNext

(***************************************************************************)
(* Whoever else uses the directory, a registration stays listed until its  *)
(* own handle is released or its lease has ended, and no handle is listed  *)
(* again: what SessionManager takes for granted between two of its calls.  *)
(***************************************************************************)
THEOREM ListingsChangeAsAssumed == DirectorySpec => [][ListingChangesAsAssumed]_directoryVars
<1>1. IInv /\ [DirectoryNext]_directoryVars => ListingChangesAsAssumed
  BY ListingSteps
<1> QED BY <1>1, DirectoryInvariant, PTL DEF DirectorySpec
=============================================================================
