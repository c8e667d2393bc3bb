-------------------------- MODULE MCProjectStore --------------------------
(* Small instances of ProjectStore for TLC.                                *)
EXTENDS ProjectStore, TLC

CONSTANTS o1, o2, m1, m2, m3, p1, p2, b1, b2, c1, f1

VARIABLE scenario

\* One organization with two writers; and a second one with a writer of its own.
OneTenant  == (m1 :> o1) @@ (m2 :> o1)
TwoTenants == OneTenant @@ (m3 :> o2)

Used == {p \in Projects : Exists(p) \/ Tombstoned(p)}
OnlyIn(orgs) ==
  /\ \A p \in Projects : rows[p].org \in orgs \cup {None}
  /\ \A o \in Orgs \ orgs : /\ \A c \in Clients : clients[o][c].version = 0
                            /\ \A f \in Folders : folders[o][f].version = 0
NoDirectory ==
  /\ \A o \in Orgs : /\ \A c \in Clients : clients[o][c].version = 0
                      /\ \A f \in Folders : folders[o][f].version = 0
  /\ \A p \in Projects : rows[p].client = None /\ rows[p].folder = None

Stored == {rows[p].body : p \in Projects} \cup {h.body : h \in UNION {history[p] : p \in Projects}}

\* One project, whose content does not change, and the directories of one
\* organization; or two projects of two organizations that use no directory.
WithinBounds ==
  \/ /\ scenario = "directory" /\ OnlyIn({o1}) /\ Cardinality(Used) <= 1
     /\ Cardinality(Stored \ {None}) <= 1
  \/ scenario = "tenants" /\ NoDirectory

MCNext == StoreNext /\ UNCHANGED scenario /\ WithinBounds'

MCInit == StoreInit /\ scenario \in {"directory", "tenants"}

MCSpec == MCInit /\ [][MCNext]_<<storeVars, scenario>>

StoreSymmetry ==
  Permutations({m1, m2}) \cup Permutations({p1, p2}) \cup Permutations({b1, b2})
DirectorySymmetry == Permutations({m1, m2}) \cup Permutations({b1, b2})
=============================================================================
