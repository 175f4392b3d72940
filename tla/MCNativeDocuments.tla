-------------------------- MODULE MCNativeDocuments --------------------------
(***************************************************************************)
(* Constants for NativeDocuments: an owner ann and a peer bob, who list    *)
(* each other, the documents of the owner, and the records of the peer.    *)
(***************************************************************************)
EXTENDS NativeDocuments

CONSTANTS ann, bob, bio, pic, client, old, text, note, long

MCLogin == {ann, bob}

Projected(c, r) == <<"projected", c, r>>

MCRecord == {"r1", "r2", long}
MCBody == {client, old, text, note}
            \cup {Projected(c, r) : c \in MCLogin, r \in MCRecord}

MCContactDocument ==
  [e \in MCLogin \X MCRecord |-> Projected(e[1], e[2])]

MCIdentity ==
  [t \in MCBody |-> CASE t \in {client, old} -> bob
                      [] t \in {text, note} -> NoLogin
                      [] OTHER -> t[2]]

(***************************************************************************)
(* Every body has a checksum of its own: bodies collide when they are the  *)
(* same, as a client's copy of a projected document under another name.    *)
(***************************************************************************)
MCCrc ==
  [t \in MCBody |-> CASE t = client -> 1 [] t = old -> 2 [] t = text -> 3 [] t = note -> 4
                      [] OTHER -> (IF t[2] = ann THEN 10 ELSE 20) +
                           (CASE t[3] = "r1" -> 1 [] t[3] = "r2" -> 2 [] OTHER -> 3)]

MCFold == [l \in MCLogin |-> IF l = ann THEN 1 ELSE 2]

(***************************************************************************)
(* Uploads: contact documents, one of them under a name that is not its    *)
(* identity, and other documents, one of them a copy of a projected one.   *)
(***************************************************************************)
ContactUploads == {<<ann, bob, client>>, <<ann, bob, old>>}
MixedUploads == {<<ann, bob, client>>, <<ann, bob, text>>, <<ann, bio, text>>,
                 <<ann, bio, Projected(bob, "r1")>>, <<ann, pic, note>>}

PeerPublishes == {<<bob, "r1">>, <<bob, "r2">>, <<bob, long>>}
PeerPublishesOnce == {<<bob, "r1">>}
OwnerPublishes == {<<ann, "r1">>}

BothWays == {<<ann, bob>>, <<bob, ann>>}
=============================================================================
