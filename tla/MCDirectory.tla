----------------------------- MODULE MCDirectory -----------------------------
(***************************************************************************)
(* BrokerDirectory on a small instance: two session managers, two session  *)
(* identifiers, two registration handles.  One caller hosts under a name   *)
(* the directory makes up; the other under a name of its choice, with an   *)
(* address that can be joined and one that cannot, and looks sessions up.  *)
(***************************************************************************)
EXTENDS BrokerDirectory, TLC

CONSTANTS n1, n2, b1, b2, c1, c2, address

Host(name, listens, bind, advertised) ==
  [name |-> name, build |-> b1, listens |-> listens, bind |-> bind,
   advertised |-> advertised]

MCHosting ==
  (c1 :> {Host(NoName, TRUE, AnyAddress, address)})
    @@ (c2 :> {Host(n1, TRUE, address, NoAddress), Host(n1, TRUE, AnyAddress, NoAddress)})

MCJoining == (c1 :> {}) @@ (c2 :> {<<n1, b1>>, <<n1, b2>>})

Settings(scheme, authToken, insecureAllowed) ==
  [enabled |-> TRUE, scheme |-> scheme, authToken |-> authToken, tokenSource |-> TRUE,
   timeout |-> 1, insecureAllowed |-> insecureAllowed]

MCConfig ==
  {Settings("https", TRUE, FALSE), Settings("http", TRUE, FALSE),
   Settings("https", FALSE, FALSE)}

Symmetric == Permutations(Handle)
=============================================================================
