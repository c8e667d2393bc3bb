--------------------------- MODULE VersionedDocs ---------------------------
(***************************************************************************)
(* What the server promises its devices about documents, and all that      *)
(* their synchronisation relies on: a document changes only by moving to   *)
(* its next version, it goes only from the trash, and an id that went      *)
(* never comes back.  A version therefore names one content for ever, and  *)
(* comparing a base with the current version tells whether anyone wrote.   *)
(* ProjectStore and ProjectSync both implement this specification.         *)
(***************************************************************************)
EXTENDS Naturals

CONSTANTS Ids, Contents

VARIABLES
  docs,   \* per id, its current version (0: none), content and trash flag
  gone    \* the ids that were purged

docsVars == <<docs, gone>>

Published == [version: Nat \ {0}, content: Contents, trashed: BOOLEAN]

DocsInit ==
  /\ \A i \in Ids : docs[i].version = 0 \/ docs[i] \in Published
  /\ gone = {}

\* A write makes the next version of a document that was never purged.
Written(i) ==
  /\ i \notin gone'
  /\ docs'[i] \in Published
  /\ docs'[i].version = docs[i].version + 1

\* A purge takes a document of the trash.
Purged(i) ==
  /\ docs[i].version > 0 /\ docs[i].trashed
  /\ docs'[i].version = 0
  /\ i \in gone'

Kept(i) == docs'[i] = docs[i] /\ (i \in gone' <=> i \in gone)

DocsNext ==
  /\ gone \subseteq gone'
  /\ \A i \in Ids : Written(i) \/ Purged(i) \/ Kept(i)

DocsSpec == DocsInit /\ [][DocsNext]_docsVars
=============================================================================
