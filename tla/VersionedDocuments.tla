------------------------- MODULE VersionedDocuments -------------------------
(***************************************************************************)
(* What the document store promises the clients of an account: a set of    *)
(* named documents and a revision that changes exactly when the set does.  *)
(* The revision is what a client compares to decide whether its copy is    *)
(* current, so a change that kept it would never be downloaded, and a      *)
(* retried request that moved it would make every other client of the      *)
(* account download everything again.                                      *)
(***************************************************************************)
EXTENDS Integers

CONSTANTS
  Login,        \* owners of document stores
  Name,         \* document names
  Body,         \* document bodies
  NoBody        \* a name without a document

VARIABLES
  revision,     \* [Login -> Nat], the revision a manifest reply carries
  store         \* [Login -> [Name -> Body \cup {NoBody}]]

EmptyStore == [n \in Name |-> NoBody]

Init ==
  /\ revision = [l \in Login |-> 1]
  /\ store = [l \in Login |-> EmptyStore]

(***************************************************************************)
(* One document is written, replaced or deleted, and the revision moves by *)
(* one. A request that changes nothing is a stuttering step.               *)
(***************************************************************************)
Change(l) ==
  \E n \in Name, b \in Body \cup {NoBody} :
    /\ store[l][n] # b
    /\ store' = [store EXCEPT ![l][n] = b]
    /\ revision' = [revision EXCEPT ![l] = @ + 1]

(***************************************************************************)
(* The account is deleted: whoever registers the login next starts again.  *)
(***************************************************************************)
Reset(l) ==
  /\ store' = [store EXCEPT ![l] = EmptyStore]
  /\ revision' = [revision EXCEPT ![l] = 1]

Next == \E l \in Login : Change(l) \/ Reset(l)

vars == <<revision, store>>

Spec == Init /\ [][Next]_vars
=============================================================================
