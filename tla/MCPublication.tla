--------------------------- MODULE MCPublication ---------------------------
(* Publication for TLC, in one of four scenarios, each with bounds of its   *)
(* own.  Everyone begins as an administrator of the organizations of the    *)
(* scenario, every policy with the classic calculation.                     *)
EXTENDS Publication, TLC

VARIABLE scenario

\* The policies of two organizations on two devices; one organization whose
\* two devices publish and change its policy; a device that changes between
\* two organizations while it publishes; and one that reads the register
\* page by page.
Scenarios == <<
  [devices |-> 2, orgs |-> 2, sessions |-> 2, asks |-> 2, edicts |-> 1, versions |-> 3,
   presses |-> 0, runs |-> 0, copies |-> 2, older |-> 0],
  [devices |-> 2, orgs |-> 1, sessions |-> 1, asks |-> 2, edicts |-> 0, versions |-> 2,
   presses |-> 2, runs |-> 0, copies |-> 2, older |-> 0],
  [devices |-> 1, orgs |-> 2, sessions |-> 3, asks |-> 2, edicts |-> 0, versions |-> 1,
   presses |-> 1, runs |-> 1, copies |-> 1, older |-> 0],
  [devices |-> 1, orgs |-> 2, sessions |-> 1, asks |-> 1, edicts |-> 0, versions |-> 1,
   presses |-> 1, runs |-> 2, copies |-> 3, older |-> 2]>>

Here == Scenarios[scenario]

MCInit ==
  /\ Init
  /\ scenario \in DOMAIN Scenarios
  /\ modes = [o \in Orgs |-> <<"legacy">>]
  /\ \E orgs \in SUBSET Orgs :
       /\ Cardinality(orgs) = Here.orgs
       /\ role = [x \in Users \X Orgs |-> IF x[2] \in orgs THEN "ADMIN" ELSE "none"]
       /\ \E o \in orgs : content = [i \in Ids |->
            IF i \in {1, 3} /\ Here.older = 2 THEN Older(o) ELSE None]

\* What a step may not go beyond in this scenario.
WithinBounds ==
  /\ Cardinality({d \in Devices : epoch[d] > 0}) <= Here.devices
  /\ \A d \in Devices :
       epoch[d] <= Here.sessions /\ sequence[d] <= Here.asks /\ ran[d] <= Here.runs
  /\ edicts <= Here.edicts /\ Len(presses) <= Here.presses
  /\ \A o \in Orgs : Len(modes[o]) <= Here.versions
  /\ \A i \in Ids : content[i] # None => i <= Here.copies

MCNext == Next /\ UNCHANGED scenario /\ WithinBounds'

MCSpec == MCInit /\ [][MCNext]_<<vars, scenario>>

PublicationSymmetry == Permutations(Devices) \cup Permutations(Users) \cup Permutations(Orgs)
=============================================================================
