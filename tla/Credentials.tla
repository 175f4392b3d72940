------------------------------ MODULE Credentials ------------------------------
(***************************************************************************)
(* What the accounts of server/go promise to whoever owns one: a map from  *)
(* logins to passwords. An operator may set any of it; a client may only   *)
(* take a login that nobody has, in whatever case it is written.           *)
(***************************************************************************)
CONSTANTS Login, Password, Fold, NoAccount

VARIABLE account    \* [Login -> [password, by] or NoAccount]

Taken(l) == \E m \in Login : Fold[m] = Fold[l] /\ account[m] # NoAccount

Owner(p, by) == [password |-> p, by |-> by]

Init == account \in [Login -> {Owner(p, "operator") : p \in Password} \cup {NoAccount}]

Set(l, p) == account' = [account EXCEPT ![l] = Owner(p, "operator")]

SignUp(l, p) == ~Taken(l) /\ account' = [account EXCEPT ![l] = Owner(p, "client")]

Remove(l) == account' = [account EXCEPT ![l] = NoAccount]

Next ==
  \E l \in Login : Remove(l) \/ \E p \in Password : Set(l, p) \/ SignUp(l, p)

Spec == Init /\ [][Next]_account
=============================================================================
