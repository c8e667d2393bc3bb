-------------------------- MODULE MCDirectorySync --------------------------
(* Small instances of DirectorySync for TLC. *)
EXTENDS DirectorySync, TLC

CONSTANTS d1, d2, u1, u2, b1, b2

\* Each user on a device of their own, or both in turn on one of them.
Apart == (d1 :> {u1}) @@ (d2 :> {u2})
InTurn == (d1 :> {u1, u2}) @@ (d2 :> {})

\* A published folder and client on two devices, and a folder and client not
\* yet there on a shared one, with longer histories.
FiveSettings == <<
  [kind |-> "folder", auto |-> TRUE, started |-> TRUE, signsIn |-> Apart,
   linkers |-> {}, steps |-> 2],
  [kind |-> "folder", auto |-> FALSE, started |-> TRUE, signsIn |-> Apart,
   linkers |-> {}, steps |-> 2],
  [kind |-> "client", auto |-> TRUE, started |-> TRUE, signsIn |-> Apart,
   linkers |-> {d1}, steps |-> 2],
  [kind |-> "folder", auto |-> TRUE, started |-> FALSE, signsIn |-> InTurn,
   linkers |-> {}, steps |-> 4],
  [kind |-> "client", auto |-> TRUE, started |-> FALSE, signsIn |-> InTurn,
   linkers |-> {d1}, steps |-> 4]>>

\* Bodies, and the users of the shared device, are interchangeable: a record
\* that is there at the start has the first body, and the first user begins.
\* So are the two devices but for their links.
MCInit ==
  /\ Init
  /\ user[d1] = u1
  /\ \A d \in Devices : copy[d] # None => copy[d].content.body = b1 /\ copy[d].creator = u1

MCSpec == MCInit /\ [][Next]_<<setting, vars>> /\ DirectoryFairness
=============================================================================
