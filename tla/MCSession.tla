----------------------------- MODULE MCSession -----------------------------
(* Session for TLC, in one of six scenarios, each with its own bounds.    *)
EXTENDS Session

CONSTANTS a, b, x, y, l1, l2

VARIABLE scenario

\* "free": a sign-in may begin over an open session, and the automatic
\* synchronisation is switched meanwhile; the account page allows neither of
\* two sign-ins, nor the first, while a session is open.
Scenario(users, orgs, attempts, acts_, days, edicts_, free) ==
  [users |-> users, orgs |-> orgs, attempts |-> attempts, acts |-> acts_,
   days |-> days, edicts |-> edicts_, free |-> free]

\* Two accounts in turn on a device; one of two organizations, with two
\* sign-ins at once, whose tokens expire or are refused; and longer times.
Scenarios == <<
  Scenario({a, b}, {x}, {l1}, 3, 0, 0, TRUE),
  Scenario({a, b}, {x}, {l1}, 2, 1, 0, TRUE),
  Scenario({a, b}, {x}, {l1}, 2, 0, 1, TRUE),
  Scenario({a}, {x, y}, {l1, l2}, 3, 1, 0, FALSE),
  Scenario({a}, {x, y}, {l1, l2}, 3, 0, 1, FALSE),
  Scenario({a}, {x}, {l1}, 3, 2, 1, FALSE)>>

Bound == Scenarios[scenario]

MCInit ==
  /\ scenario \in DOMAIN Scenarios
  /\ Init /\ members = [id: Bound.users, org: Bound.orgs]

\* What a step may not go beyond in this scenario; only what the user, time
\* and the administrators begin is bounded, never what goes on by itself.
WithinBounds ==
  /\ acts <= Bound.acts /\ day <= Bound.days /\ edicts <= Bound.edicts
  /\ \A l \in Attempts : logins[l].stage # "idle" =>
       l \in Bound.attempts /\ logins[l].id \in Bound.users
  /\ \A c \in Callers : calls[c].org \in Bound.orgs \cup {None}

SignsIn == \E l \in Attempts, u \in Users : StartLogin(l, u)

MCNext ==
  /\ Next /\ UNCHANGED scenario /\ WithinBounds'
  /\ ToggleAutoSync => Bound.free
  /\ SignsIn => Bound.free \/ token = None

MCSpec == MCInit /\ [][MCNext]_<<vars, scenario>> /\ Fairness
=============================================================================
