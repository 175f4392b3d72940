------------------------------- MODULE Accounts -------------------------------
(***************************************************************************)
(* Accounts and passwords of server/go (database.go): the rows of accounts *)
(* and native_password_verifiers, the commands and the signup that write   *)
(* them, and the two ways a password is checked. As in NativeDocuments a   *)
(* run of the sqlite3 CLI is one step, and what a method keeps from one    *)
(* run to the next is in `job`; a failing run ends the method.             *)
(***************************************************************************)
EXTENDS Integers

CONSTANTS
  Login,       \* logins, exact bytes
  Fold,        \* [Login -> case-insensitive login], what COLLATE NOCASE compares
  Password,    \* passwords; the native digest is a function of login and password
  Handler,     \* goroutines of the server that check a password
  Command,     \* processes running --add-account
  NoRow,       \* no row in a table
  Unknown,     \* the random hash a signup stores: no password has it
  MaxSalts     \* bound on the salts given out in a behaviour

ASSUME AccountsAssumption ==
  /\ Fold \in [Login -> Login]
  /\ NoRow \notin Password /\ Unknown \notin Password /\ NoRow # Unknown
  /\ Handler \cap Command = {}
  /\ MaxSalts \in Nat \ {0}
  /\ NoRow \notin [salt : 1 .. MaxSalts, password : Password \cup {Unknown}]

VARIABLES
  accounts,    \* [Login -> Account or NoRow]: password_salt and password_hash
  verifiers,   \* [Login -> the password a native verifier was made from, or NoRow]
  lastSalt,    \* salts are random, so that a new one is like no other
  job,         \* [Handler \cup Command -> Job]
  secrets      \* history: [Handler -> the secrets the login had since the request began]

vars == <<accounts, verifiers, lastSalt, job, secrets>>
tables == <<accounts, verifiers, lastSalt>>

Process == Handler \cup Command
Salt == 1 .. MaxSalts

\* The hash is PBKDF2(password, salt): it is named by the two it was made from.
Account == [salt : Salt, password : Password \cup {Unknown}]

Step == {"idle", "count", "create", "accepted", "update", "insert"}

Job == [pc : Step, login : Login \cup {NoRow}, password : Password \cup {NoRow},
        row : Account \cup {NoRow}]

IdleJob == [pc |-> "idle", login |-> NoRow, password |-> NoRow, row |-> NoRow]

\* What the owner of an account set: by a command, or by a signup.
SecretIn(account, verifier) ==
  IF account = NoRow THEN NoRow
  ELSE IF account.password # Unknown THEN account.password ELSE verifier

Secret(l) == SecretIn(accounts[l], verifiers[l])

(***************************************************************************)
(* A database of an earlier version has accounts without native verifier.  *)
(***************************************************************************)
Init ==
  /\ accounts \in [Login -> [salt : {1}, password : Password] \cup {NoRow}]
  /\ verifiers = [l \in Login |-> NoRow]
  /\ lastSalt = 1
  /\ job = [p \in Process |-> IdleJob]
  /\ secrets = [h \in Handler |-> {}]

Begin(p, pc, l, pw, row) ==
  /\ job[p].pc = "idle"
  /\ job' = [job EXCEPT ![p] = [pc |-> pc, login |-> l, password |-> pw, row |-> row]]

Goto(p, pc) == job' = [job EXCEPT ![p] = [@ EXCEPT !.pc = pc]]

Finish(p) == job' = [job EXCEPT ![p] = IdleJob]

-----------------------------------------------------------------------------
(***************************************************************************)
(* ValidatePassword: the row is read and compared; then a run asks whether *)
(* a native verifier exists, whose failure counts as yes; then one creates *)
(* it, provided that the row is still the one that was read.               *)
(***************************************************************************)
ReadPassword(h, l, pw) ==
  /\ accounts[l] # NoRow /\ accounts[l].password = pw
  /\ Begin(h, "count", l, pw, accounts[l])
  /\ UNCHANGED tables

CountVerifiers(h) ==
  /\ job[h].pc = "count"
  /\ \/ verifiers[job[h].login] = NoRow /\ Goto(h, "create")
     \/ Goto(h, "accepted")
  /\ UNCHANGED tables

\* Mistake: INSERT OR REPLACE, with the account looked up by its login alone.
CreateVerifierReplacing(h) ==
  LET j == job[h] IN
  /\ j.pc = "create"
  /\ verifiers' = IF accounts[j.login] # NoRow
                  THEN [verifiers EXCEPT ![j.login] = j.password] ELSE verifiers
  /\ Goto(h, "accepted")
  /\ UNCHANGED <<accounts, lastSalt>>

CreateVerifier(h) ==
  LET j == job[h] IN
  /\ j.pc = "create"
  /\ verifiers' = IF accounts[j.login] = j.row /\ verifiers[j.login] = NoRow
                  THEN [verifiers EXCEPT ![j.login] = j.password] ELSE verifiers
  /\ Goto(h, "accepted")
  /\ UNCHANGED <<accounts, lastSalt>>

\* ValidateNativePasswordHash: one run, which joins the account.
CheckDigest(h, l, pw) ==
  /\ accounts[l] # NoRow /\ verifiers[l] = pw
  /\ Begin(h, "accepted", l, pw, NoRow)
  /\ UNCHANGED tables

Reply(h) == job[h].pc = "accepted" /\ Finish(h) /\ UNCHANGED tables

-----------------------------------------------------------------------------
\* Mistake: INSERT OR IGNORE, so that an old verifier survives a new password.
PutVerifierOnce(l, pw) ==
  verifiers' = [verifiers EXCEPT ![l] = IF @ = NoRow THEN pw ELSE @]

\* Mistake: the verifier is made from the hash that the account got.
PutVerifierOfHash(l, pw) == verifiers' = [verifiers EXCEPT ![l] = accounts'[l].password]

PutVerifier(l, pw) == verifiers' = [verifiers EXCEPT ![l] = pw]

\* The row of a new or updated account, with a salt of its own.
PutAccount(l, pw) ==
  /\ lastSalt < MaxSalts
  /\ lastSalt' = lastSalt + 1
  /\ accounts' = [accounts EXCEPT ![l] = [salt |-> lastSalt + 1, password |-> pw]]

(***************************************************************************)
(* AddAccount: a run counts the rows of the login, and its failure counts  *)
(* as none; the next one updates or inserts, with the verifier, in one     *)
(* transaction. The UPDATE of a row that is gone leaves the verifier       *)
(* without account, the INSERT of a row that has come meets UNIQUE: either *)
(* way everything is rolled back.                                          *)
(***************************************************************************)
CountAccounts(c, l, pw) ==
  /\ \/ accounts[l] # NoRow /\ Begin(c, "update", l, pw, NoRow)
     \/ Begin(c, "insert", l, pw, NoRow)
  /\ UNCHANGED tables

UpsertAccepted(c) == (job[c].pc = "update") = (accounts[job[c].login] # NoRow)

Upsert(c) ==
  LET j == job[c] IN
  /\ j.pc \in {"update", "insert"}
  /\ UpsertAccepted(c)
  /\ PutAccount(j.login, j.password) /\ PutVerifier(j.login, j.password)
  /\ Finish(c)

\* RemoveAccount, with ON DELETE CASCADE.
RemoveAccount(l) ==
  /\ accounts' = [accounts EXCEPT ![l] = NoRow]
  /\ verifiers' = [verifiers EXCEPT ![l] = NoRow]
  /\ UNCHANGED <<lastSalt, job>>

(***************************************************************************)
(* RegisterNativeAccount: account, verifier and profile in one transaction *)
(* that finds the login free, whatever its case. It has the digest only,   *)
(* and stores a random hash beside it.                                     *)
(***************************************************************************)
\* Mistake: the comparison is not COLLATE NOCASE.
LoginFreeExact(l) == accounts[l] = NoRow

LoginFree(l) == \A m \in Login : Fold[m] = Fold[l] => accounts[m] = NoRow

SignUp(l, pw) ==
  /\ LoginFree(l)
  /\ PutAccount(l, Unknown) /\ PutVerifier(l, pw)
  /\ UNCHANGED job

\* A run of sqlite3 fails or refuses, or the process ends.
Abort(p) == job[p].pc # "idle" /\ Finish(p) /\ UNCHANGED tables

-----------------------------------------------------------------------------
Act ==
  \/ \E h \in Handler :
       \/ \E l \in Login, pw \in Password : ReadPassword(h, l, pw) \/ CheckDigest(h, l, pw)
       \/ CountVerifiers(h) \/ CreateVerifier(h) \/ Reply(h)
  \/ \E c \in Command :
       Upsert(c) \/ \E l \in Login, pw \in Password : CountAccounts(c, l, pw)
  \/ \E l \in Login : RemoveAccount(l) \/ \E pw \in Password : SignUp(l, pw)
  \/ \E p \in Process : Abort(p)

\* The history notes the secret of the login a request is about, at every step.
Note ==
  secrets' = [h \in Handler |->
    IF job'[h].pc = "idle" THEN {}
    ELSE (IF job[h].pc = "idle" THEN {} ELSE secrets[h])
         \cup {SecretIn(accounts'[job'[h].login], verifiers'[job'[h].login])}]

Next == Act /\ Note

Spec == Init /\ [][Next]_vars

-----------------------------------------------------------------------------
TypeOK ==
  /\ accounts \in [Login -> Account \cup {NoRow}]
  /\ verifiers \in [Login -> Password \cup {NoRow}]
  /\ lastSalt \in Salt
  /\ job \in [Process -> Job]
  /\ secrets \in [Handler -> SUBSET (Password \cup {NoRow})]

(* "Account creation/password updates maintain both verifier formats       *)
(* transactionally" (PATCHING.md): a native verifier is never of another   *)
(* password than the account's, nor of an account that is gone, although a *)
(* login creates it from a row it read two hashes of 100,000 rounds        *)
(* before; and an account a client signed up always has one.               *)
VerifierIsCurrent ==
  \A l \in Login :
    IF accounts[l] = NoRow THEN verifiers[l] = NoRow
    ELSE IF accounts[l].password = Unknown THEN verifiers[l] # NoRow
    ELSE verifiers[l] \in {NoRow, accounts[l].password}

(* A check of a password or a digest succeeds only with a password the     *)
(* account had at some time since the request began: after a change has    *)
(* been committed, no request that begins accepts the old password.        *)
AcceptedIsCurrent ==
  \A h \in Handler : job[h].pc = "accepted" => job[h].password \in secrets[h]

(* README.md: the signup "atomically creates an account without replacing  *)
(* an existing login", and AddAccount, in two runs, is one change of one   *)
(* account or none.                                                        *)
AsCredentials ==
  INSTANCE Credentials WITH
    NoAccount <- NoRow,
    account <- [l \in Login |->
      IF accounts[l] = NoRow THEN NoRow
      ELSE [password |-> Secret(l),
            by |-> IF accounts[l].password = Unknown THEN "client" ELSE "operator"]]

ImplementsCredentials == AsCredentials!Spec
=============================================================================
