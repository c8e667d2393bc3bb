--------------------------- MODULE MCMembership ---------------------------
(* Membership for TLC, from one of four starts, each with its own bounds.   *)
EXTENDS Membership, TLC

CONSTANTS a, b, x, y, i1, i2, r1, r2

VARIABLE scenario

NoSeats == [p \in Pair |-> None]
NotSent == [state |-> "none", org |-> None, person |-> None, role |-> "LECTOR"]
Open(o, u, ro) == [state |-> "open", org |-> o, person |-> u, role |-> ro]

\* Two administrators of one organization, twice, with all requests and with a
\* longer sequence of a few; an organization each, b in both with
\* an invitation to x it has not used, and a invited to y; an administrator and
\* an account that does not exist yet.
Starts == <<
  [home |-> a :> x @@ b :> x, role |-> a :> "ADMIN" @@ b :> "ADMIN", seat |-> NoSeats,
   invites |-> i1 :> NotSent @@ i2 :> NotSent, ops |-> 2, kinds |-> Ops],
  [home |-> a :> x @@ b :> x, role |-> a :> "ADMIN" @@ b :> "ADMIN", seat |-> NoSeats,
   invites |-> i1 :> NotSent @@ i2 :> NotSent, ops |-> 3, kinds |-> {"patch", "remove"}],
  [home |-> a :> x @@ b :> y, role |-> a :> "ADMIN" @@ b :> "ADMIN",
   seat |-> [NoSeats EXCEPT ![x, b] = "ADMIN"],
   invites |-> i1 :> Open(y, a, "EDITOR") @@ i2 :> Open(x, b, "ADMIN"), ops |-> 2,
   kinds |-> {"patch", "remove", "accept", "revoke", "write"}],
  [home |-> a :> x @@ b :> None, role |-> a :> "ADMIN" @@ b :> "LECTOR", seat |-> NoSeats,
   invites |-> i1 :> NotSent @@ i2 :> NotSent, ops |-> 2, kinds |-> Ops]>>

MCInit ==
  /\ scenario \in DOMAIN Starts
  /\ home = Starts[scenario].home /\ role = Starts[scenario].role
  /\ seat = Starts[scenario].seat /\ invites = Starts[scenario].invites
  /\ Init

\* Requests and invitations are interchangeable: the first free one is taken.
TakesTheFirst ==
  /\ Req(r2).op = "idle" /\ requests'[r2].op # "idle" => Req(r1).op # "idle"
  /\ requests'[r2].invite = i2 /\ requests'[r2].op = "invite" => invites[i1].state # "none"
  /\ requests'[r1].invite = i2 /\ requests'[r1].op = "invite" => invites[i1].state # "none"

MCNext ==
  /\ Next /\ UNCHANGED scenario
  /\ ops' <= Starts[scenario].ops /\ TakesTheFirst
  /\ \A r \in Requests : requests'[r].op \in Starts[scenario].kinds \cup {"idle"}

MCSpec == MCInit /\ [][MCNext]_<<vars, scenario>> /\ Fairness
=============================================================================
