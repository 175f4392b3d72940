---------------------------- MODULE AccountsProofs ----------------------------
(***************************************************************************)
(* Theorems about Accounts, for every number of logins, passwords, server  *)
(* goroutines and commands.                                                *)
(***************************************************************************)
EXTENDS Accounts, TLAPS

(***************************************************************************)
(* What a request keeps between its runs: a check of a password holds the  *)
(* row that has the password, which the login had when it was read.        *)
(***************************************************************************)
JobSound(p) ==
  /\ job[p].pc # "idle" => job[p].login \in Login /\ job[p].password \in Password
  /\ job[p].pc \in {"count", "create"} =>
       job[p].row \in Account /\ job[p].row.password = job[p].password
  /\ job[p].pc \in {"count", "create", "accepted"} => p \in Handler

JobsSound == \A p \in Process : JobSound(p)

HeldIsCurrent ==
  \A h \in Handler :
    job[h].pc \in {"count", "create", "accepted"} => job[h].password \in secrets[h]

TablesInv ==
  /\ accounts \in [Login -> Account \cup {NoRow}]
  /\ verifiers \in [Login -> Password \cup {NoRow}]
  /\ lastSalt \in Salt
  /\ VerifierIsCurrent

JobsInv == job \in [Process -> Job] /\ JobsSound

SecretsInv == secrets \in [Handler -> SUBSET (Password \cup {NoRow})] /\ HeldIsCurrent

IInv == TablesInv /\ JobsInv /\ SecretsInv

\* NoRow is no account.
LEMMA NoRowIsNoAccount == NoRow \notin Account /\ NoRow \notin Password \cup {Unknown}
  BY AccountsAssumption DEF Account, Salt

\* A database of an earlier version satisfies the invariant.
LEMMA InitInv == Init => IInv
<1> SUFFICES ASSUME Init PROVE IInv
  OBVIOUS
<1>1. [salt : {1}, password : Password] \subseteq Account /\ lastSalt \in Salt
  BY AccountsAssumption DEF Init, Account, Salt
<1>2. IdleJob \in Job
  BY DEF IdleJob, Job, Step
<1>3. TablesInv
  <2>1. accounts \in [Login -> Account \cup {NoRow}]
    BY <1>1 DEF Init
  <2>2. verifiers \in [Login -> Password \cup {NoRow}]
    BY DEF Init
  <2>3. VerifierIsCurrent
    <3> SUFFICES ASSUME NEW l \in Login, accounts[l] # NoRow
                 PROVE  accounts[l].password # Unknown
      BY DEF Init, VerifierIsCurrent
    <3>1. accounts[l] \in [salt : {1}, password : Password]
      BY DEF Init
    <3> QED BY <3>1, AccountsAssumption
  <2> QED BY <1>1, <2>1, <2>2, <2>3 DEF TablesInv
<1>4. JobsInv
  BY <1>2 DEF Init, JobsInv, JobsSound, JobSound, IdleJob
<1>5. SecretsInv
  BY DEF Init, SecretsInv, HeldIsCurrent, IdleJob, Process
<1> QED BY <1>3, <1>4, <1>5 DEF IInv

-----------------------------------------------------------------------------
(***************************************************************************)
(* What a step does to one process and to the others.                      *)
(***************************************************************************)
LEMMA JobStep ==
  ASSUME JobsInv, NEW p \in Process, NEW j \in Job, job' = [job EXCEPT ![p] = j],
         j.pc # "idle" => j.login \in Login /\ j.password \in Password,
         j.pc \in {"count", "create"} => j.row \in Account /\ j.row.password = j.password,
         j.pc \in {"count", "create", "accepted"} => p \in Handler
  PROVE  JobsInv'
<1>1. job' \in [Process -> Job] /\ job'[p] = j /\ \A q \in Process \ {p} : job'[q] = job[q]
  BY DEF JobsInv
<1>2. JobsSound'
  <2> SUFFICES ASSUME NEW q \in Process PROVE JobSound(q)'
    BY DEF JobsSound
  <2>1. CASE q = p
    BY <1>1, <2>1 DEF JobSound
  <2>2. CASE q # p
    BY <1>1, <2>2 DEF JobSound, JobsInv, JobsSound
  <2> QED BY <2>1, <2>2
<1> QED BY <1>1, <1>2 DEF JobsInv

\* A process that is done keeps nothing.
LEMMA FinishStep ==
  ASSUME JobsInv, NEW p \in Process, Finish(p)
  PROVE  JobsInv'
<1>1. IdleJob \in Job /\ IdleJob.pc = "idle"
  BY DEF IdleJob, Job, Step
<1> QED BY <1>1, JobStep DEF Finish

\* A request that moves on keeps what it holds.
LEMMA GotoStep ==
  ASSUME JobsInv, NEW h \in Handler, NEW pc \in {"create", "accepted"}, Goto(h, pc),
         job[h].pc \in {"count", "create"}
  PROVE  JobsInv'
<1> DEFINE j == [job[h] EXCEPT !.pc = pc]
<1>1. h \in Process /\ job[h] \in Job
  BY DEF Process, JobsInv
<1>2. /\ job[h].login \in Login /\ job[h].password \in Password
      /\ job[h].row \in Account /\ job[h].row.password = job[h].password
  BY <1>1 DEF JobsInv, JobsSound, JobSound
<1>3. /\ j \in Job /\ j.pc = pc /\ j.login = job[h].login
      /\ j.password = job[h].password /\ j.row = job[h].row
  BY <1>1 DEF Job, Step
<1>4. job' = [job EXCEPT ![h] = j]
  BY DEF Goto
<1> HIDE DEF j
<1> QED BY <1>1, <1>2, <1>3, <1>4, JobStep

\* A process that begins.
LEMMA BeginStep ==
  ASSUME JobsInv, NEW p \in Process, NEW pc \in Step, NEW l \in Login, NEW pw \in Password,
         NEW row \in Account \cup {NoRow}, Begin(p, pc, l, pw, row),
         pc \in {"count", "create"} => row \in Account /\ row.password = pw,
         pc \in {"count", "create", "accepted"} => p \in Handler
  PROVE  JobsInv'
<1> DEFINE j == [pc |-> pc, login |-> l, password |-> pw, row |-> row]
<1>1. j \in Job
  BY DEF Job
<1>2. job' = [job EXCEPT ![p] = j]
  BY DEF Begin
<1> QED BY <1>1, <1>2, JobStep

-----------------------------------------------------------------------------
(***************************************************************************)
(* What any step does to the tables: nothing, a verifier beside a password *)
(* that is still the account's, a new password with its verifier, by a     *)
(* command or by a signup of a login that is free, or a removal.           *)
(***************************************************************************)
Provision(l) ==
  /\ accounts[l] \in Account /\ accounts[l].password \in Password
  /\ verifiers[l] = NoRow
  /\ verifiers' = [verifiers EXCEPT ![l] = accounts[l].password]
  /\ UNCHANGED <<accounts, lastSalt>>

Change(l, pw) == PutAccount(l, pw) /\ PutVerifier(l, pw)

Register(l, pw) == LoginFree(l) /\ PutAccount(l, Unknown) /\ PutVerifier(l, pw)

Removal(l) ==
  /\ accounts' = [accounts EXCEPT ![l] = NoRow]
  /\ verifiers' = [verifiers EXCEPT ![l] = NoRow]
  /\ lastSalt' = lastSalt

TablesStep ==
  \/ UNCHANGED tables
  \/ \E l \in Login : Provision(l) \/ Removal(l)
                      \/ \E pw \in Password : Change(l, pw) \/ Register(l, pw)

LEMMA StepOfTables ==
  ASSUME IInv, [Next]_vars
  PROVE  TablesStep
<1>1. CASE UNCHANGED vars
  BY <1>1 DEF vars, tables, TablesStep
<1>2. ASSUME NEW h \in Handler, CreateVerifier(h) PROVE TablesStep
  <2>1. /\ job[h].login \in Login /\ job[h].password \in Password
        /\ job[h].row \in Account /\ job[h].row.password = job[h].password
    BY <1>2 DEF IInv, JobsInv, JobsSound, JobSound, CreateVerifier, Process
  <2>2. CASE accounts[job[h].login] = job[h].row /\ verifiers[job[h].login] = NoRow
    <3>1. Provision(job[h].login)
      BY <1>2, <2>1, <2>2 DEF CreateVerifier, Provision
    <3> QED BY <2>1, <3>1 DEF TablesStep
  <2>3. CASE ~(accounts[job[h].login] = job[h].row /\ verifiers[job[h].login] = NoRow)
    BY <1>2, <2>3 DEF CreateVerifier, TablesStep, tables
  <2> QED BY <2>2, <2>3
<1>3. ASSUME NEW c \in Command, Upsert(c) PROVE TablesStep
  <2>1. job[c].login \in Login /\ job[c].password \in Password
    BY <1>3 DEF IInv, JobsInv, JobsSound, JobSound, Upsert, Process
  <2> QED BY <1>3, <2>1 DEF Upsert, Change, TablesStep
<1>4. ASSUME NEW l \in Login, RemoveAccount(l) PROVE TablesStep
  BY <1>4 DEF RemoveAccount, Removal, TablesStep
<1>5. ASSUME NEW l \in Login, NEW pw \in Password, SignUp(l, pw) PROVE TablesStep
  BY <1>5 DEF SignUp, Register, TablesStep
<1>6. ASSUME NEW h \in Handler, NEW l \in Login, NEW pw \in Password,
             ReadPassword(h, l, pw) \/ CheckDigest(h, l, pw)
      PROVE  TablesStep
  BY <1>6 DEF ReadPassword, CheckDigest, TablesStep
<1>7. ASSUME NEW h \in Handler, CountVerifiers(h) \/ Reply(h) PROVE TablesStep
  BY <1>7 DEF CountVerifiers, Reply, TablesStep
<1>8. ASSUME NEW c \in Command, NEW l \in Login, NEW pw \in Password, CountAccounts(c, l, pw)
      PROVE  TablesStep
  BY <1>8 DEF CountAccounts, TablesStep
<1>9. ASSUME NEW p \in Process, Abort(p) PROVE TablesStep
  BY <1>9 DEF Abort, TablesStep
<1> QED BY <1>1, <1>2, <1>3, <1>4, <1>5, <1>6, <1>7, <1>8, <1>9 DEF Next, Act

-----------------------------------------------------------------------------
\* A row that PutAccount writes is an account.
LEMMA PutAccountRow ==
  ASSUME TablesInv, NEW l \in Login, NEW pw \in Password \cup {Unknown}, PutAccount(l, pw)
  PROVE  /\ accounts' \in [Login -> Account \cup {NoRow}]
         /\ lastSalt' \in Salt
         /\ accounts'[l] \in Account /\ accounts'[l].password = pw
         /\ \A m \in Login \ {l} : accounts'[m] = accounts[m]
<1> DEFINE row == [salt |-> lastSalt + 1, password |-> pw]
<1>1. lastSalt + 1 \in Salt
  BY AccountsAssumption DEF TablesInv, Salt, PutAccount
<1>2. row \in Account /\ row.password = pw
  BY <1>1 DEF Account
<1>3. accounts' = [accounts EXCEPT ![l] = row] /\ lastSalt' = lastSalt + 1
  BY DEF PutAccount
<1> HIDE DEF row
<1> QED BY <1>1, <1>2, <1>3 DEF TablesInv

\* What VerifierIsCurrent says of one login.
Fits(account, verifier) ==
  IF account = NoRow THEN verifier = NoRow
  ELSE IF account.password = Unknown THEN verifier # NoRow
  ELSE verifier \in {NoRow, account.password}

\* A step that writes the rows of one login, so that they fit.
LEMMA OneLogin ==
  ASSUME TablesInv, NEW l \in Login,
         accounts' \in [Login -> Account \cup {NoRow}],
         verifiers' \in [Login -> Password \cup {NoRow}],
         lastSalt' \in Salt,
         \A m \in Login \ {l} : accounts'[m] = accounts[m] /\ verifiers'[m] = verifiers[m],
         Fits(accounts'[l], verifiers'[l])
  PROVE  TablesInv'
<1>1. \A m \in Login : Fits(accounts'[m], verifiers'[m])
  BY DEF TablesInv, VerifierIsCurrent, Fits
<1>2. VerifierIsCurrent'
  BY <1>1 DEF VerifierIsCurrent, Fits
<1> QED BY <1>2 DEF TablesInv

LEMMA TablesNext ==
  ASSUME TablesInv, TablesStep
  PROVE  TablesInv'
<1>1. CASE UNCHANGED tables
  <2>1. VerifierIsCurrent'
    BY <1>1 DEF tables, TablesInv, VerifierIsCurrent
  <2> QED BY <1>1, <2>1 DEF tables, TablesInv
<1>2. ASSUME NEW l \in Login, Provision(l) PROVE TablesInv'
  <2>1. /\ verifiers' \in [Login -> Password \cup {NoRow}]
        /\ verifiers'[l] = accounts[l].password /\ accounts' = accounts /\ lastSalt' = lastSalt
        /\ \A m \in Login \ {l} : verifiers'[m] = verifiers[m]
    BY <1>2 DEF Provision, TablesInv
  <2>2. Fits(accounts'[l], verifiers'[l])
    BY <1>2, <2>1, NoRowIsNoAccount, AccountsAssumption DEF Provision, Fits
  <2> QED BY <2>1, <2>2, OneLogin DEF TablesInv
<1>3. ASSUME NEW l \in Login, Removal(l) PROVE TablesInv'
  <2>1. /\ accounts' \in [Login -> Account \cup {NoRow}]
        /\ verifiers' \in [Login -> Password \cup {NoRow}]
        /\ accounts'[l] = NoRow /\ verifiers'[l] = NoRow /\ lastSalt' = lastSalt
        /\ \A m \in Login \ {l} : accounts'[m] = accounts[m] /\ verifiers'[m] = verifiers[m]
    BY <1>3 DEF Removal, TablesInv
  <2>2. Fits(accounts'[l], verifiers'[l])
    BY <2>1 DEF Fits
  <2> QED BY <2>1, <2>2, OneLogin DEF TablesInv
<1>4. ASSUME NEW l \in Login, NEW pw \in Password, NEW kept \in {pw, Unknown},
             PutAccount(l, kept), PutVerifier(l, pw)
      PROVE  TablesInv'
  <2>1. /\ accounts' \in [Login -> Account \cup {NoRow}]
        /\ lastSalt' \in Salt
        /\ accounts'[l] \in Account /\ accounts'[l].password = kept
        /\ \A m \in Login \ {l} : accounts'[m] = accounts[m]
    BY <1>4, PutAccountRow
  <2>2. /\ verifiers' \in [Login -> Password \cup {NoRow}]
        /\ verifiers'[l] = pw
        /\ \A m \in Login \ {l} : verifiers'[m] = verifiers[m]
    BY <1>4 DEF PutVerifier, TablesInv
  <2>3. Fits(accounts'[l], verifiers'[l])
    BY <1>4, <2>1, <2>2, NoRowIsNoAccount DEF Fits
  <2> QED BY <2>1, <2>2, <2>3, OneLogin
<1> QED BY <1>1, <1>2, <1>3, <1>4 DEF TablesStep, Change, Register

-----------------------------------------------------------------------------
\* Each action keeps what the processes hold sound.
LEMMA JobsNext ==
  ASSUME IInv, [Next]_vars
  PROVE  JobsInv'
<1> USE DEF IInv
<1>1. CASE UNCHANGED vars
  <2>1. job' = job
    BY <1>1 DEF vars
  <2>2. JobsSound'
    BY <2>1 DEF JobsInv, JobsSound, JobSound
  <2> QED BY <2>1, <2>2 DEF JobsInv
<1>2. ASSUME NEW h \in Handler, NEW l \in Login, NEW pw \in Password, ReadPassword(h, l, pw)
      PROVE  JobsInv'
  <2>1. accounts[l] \in Account /\ accounts[l].password = pw
    BY <1>2 DEF ReadPassword, TablesInv
  <2>2. Begin(h, "count", l, pw, accounts[l]) /\ h \in Process /\ "count" \in Step
    BY <1>2 DEF ReadPassword, Process, Step
  <2> QED BY <2>1, <2>2, BeginStep
<1>3. ASSUME NEW h \in Handler, NEW l \in Login, NEW pw \in Password, CheckDigest(h, l, pw)
      PROVE  JobsInv'
  <2>1. Begin(h, "accepted", l, pw, NoRow) /\ h \in Process /\ "accepted" \in Step
    BY <1>3 DEF CheckDigest, Process, Step
  <2> QED BY <2>1, BeginStep
<1>4. ASSUME NEW h \in Handler, CountVerifiers(h) PROVE JobsInv'
  BY <1>4, GotoStep DEF CountVerifiers
<1>5. ASSUME NEW h \in Handler, CreateVerifier(h) PROVE JobsInv'
  BY <1>5, GotoStep DEF CreateVerifier
<1>6. ASSUME NEW h \in Handler, Reply(h) PROVE JobsInv'
  BY <1>6, FinishStep DEF Reply, Process
<1>7. ASSUME NEW c \in Command, Upsert(c) PROVE JobsInv'
  BY <1>7, FinishStep DEF Upsert, Process
<1>8. ASSUME NEW c \in Command, NEW l \in Login, NEW pw \in Password, CountAccounts(c, l, pw)
      PROVE  JobsInv'
  <2>1. /\ Begin(c, "update", l, pw, NoRow) \/ Begin(c, "insert", l, pw, NoRow)
        /\ c \in Process /\ "update" \in Step /\ "insert" \in Step
    BY <1>8 DEF CountAccounts, Process, Step
  <2> QED BY <2>1, BeginStep
<1>9. ASSUME NEW l \in Login, RemoveAccount(l) \/ \E pw \in Password : SignUp(l, pw)
      PROVE  JobsInv'
  <2>1. job' = job
    BY <1>9 DEF RemoveAccount, SignUp
  <2>2. JobsSound'
    BY <2>1 DEF JobsInv, JobsSound, JobSound
  <2> QED BY <2>1, <2>2 DEF JobsInv
<1>10. ASSUME NEW p \in Process, Abort(p) PROVE JobsInv'
  BY <1>10, FinishStep DEF Abort
<1> QED BY <1>1, <1>2, <1>3, <1>4, <1>5, <1>6, <1>7, <1>8, <1>9, <1>10 DEF Next, Act

-----------------------------------------------------------------------------
(***************************************************************************)
(* A check of a password goes on with the password it holds, or begins     *)
(* with the password of its login.                                         *)
(***************************************************************************)
Held == {"count", "create", "accepted"}

Continues(h) == job[h].pc \in Held /\ job'[h].password = job[h].password

Starts(h) ==
  LET l == job'[h].login IN job'[h].password = SecretIn(accounts'[l], verifiers'[l])

HeldStep(h) == job'[h].pc \in Held => Continues(h) \/ Starts(h)

LEMMA SecretTyped ==
  ASSUME NEW account \in Account \cup {NoRow}, NEW verifier \in Password \cup {NoRow}
  PROVE  SecretIn(account, verifier) \in Password \cup {NoRow}
<1>1. account # NoRow => account.password \in Password \cup {Unknown}
  BY DEF Account
<1> QED BY <1>1 DEF SecretIn

LEMMA StepOfHeld ==
  ASSUME IInv, [Next]_vars, NEW h \in Handler
  PROVE  HeldStep(h)
<1> USE DEF IInv
<1>0. job \in [Process -> Job] /\ h \in Process
  BY DEF JobsInv, Process
<1>1. CASE job'[h] = job[h]
  BY <1>1 DEF HeldStep, Continues
<1>2. CASE job'[h] = IdleJob
  BY <1>2 DEF HeldStep, IdleJob, Held
<1>3. ASSUME NEW l \in Login, NEW pw \in Password, ReadPassword(h, l, pw) PROVE HeldStep(h)
  <2>1. job'[h].login = l /\ job'[h].password = pw
    BY <1>0, <1>3 DEF ReadPassword, Begin
  <2>2. accounts' = accounts /\ accounts[l] # NoRow /\ accounts[l].password = pw
    BY <1>3 DEF ReadPassword, tables
  <2>3. SecretIn(accounts'[l], verifiers'[l]) = pw
    BY <2>2, AccountsAssumption DEF SecretIn
  <2> QED BY <2>1, <2>3 DEF HeldStep, Starts
<1>4. ASSUME NEW l \in Login, NEW pw \in Password, CheckDigest(h, l, pw) PROVE HeldStep(h)
  <2>1. job'[h].login = l /\ job'[h].password = pw
    BY <1>0, <1>4 DEF CheckDigest, Begin
  <2>2. accounts' = accounts /\ verifiers' = verifiers /\ accounts[l] # NoRow /\ verifiers[l] = pw
    BY <1>4 DEF CheckDigest, tables
  <2>3. SecretIn(accounts'[l], verifiers'[l]) = pw
    BY <2>2, NoRowIsNoAccount DEF SecretIn, TablesInv, VerifierIsCurrent
  <2> QED BY <2>1, <2>3 DEF HeldStep, Starts
<1>5. ASSUME NEW pc \in Held, job[h].pc \in Held, Goto(h, pc) PROVE HeldStep(h)
  <2>1. job'[h] = [job[h] EXCEPT !.pc = pc] /\ job[h] \in Job
    BY <1>0, <1>5 DEF Goto
  <2>2. job'[h].password = job[h].password
    BY <2>1 DEF Job
  <2> QED BY <1>5, <2>2 DEF HeldStep, Continues
<1>6. ASSUME NEW p \in Process \ {h}, NEW j, job' = [job EXCEPT ![p] = j] PROVE HeldStep(h)
  <2>1. job'[h] = job[h]
    BY <1>0, <1>6
  <2> QED BY <2>1, <1>1
<1>7. ASSUME NEW p \in Process, Finish(p) PROVE HeldStep(h)
  <2>1. CASE p = h
    BY <1>0, <1>2, <1>7, <2>1 DEF Finish
  <2>2. CASE p # h
    BY <1>6, <1>7, <2>2 DEF Finish
  <2> QED BY <2>1, <2>2
<1>8. ASSUME NEW g \in Handler, NEW l \in Login, NEW pw \in Password,
             ReadPassword(g, l, pw) \/ CheckDigest(g, l, pw)
      PROVE  HeldStep(h)
  <2>1. CASE g = h
    BY <1>3, <1>4, <1>8, <2>1
  <2>2. CASE g # h
    BY <1>6, <1>8, <2>2 DEF ReadPassword, CheckDigest, Begin, Process
  <2> QED BY <2>1, <2>2
<1>9. ASSUME NEW g \in Handler, CountVerifiers(g) \/ CreateVerifier(g) PROVE HeldStep(h)
  <2>1. job[g].pc \in Held /\ \E pc \in Held : Goto(g, pc)
    BY <1>9 DEF CountVerifiers, CreateVerifier, Held
  <2>2. CASE g = h
    BY <1>5, <2>1, <2>2
  <2>3. CASE g # h
    BY <1>6, <2>1, <2>3 DEF Goto, Process
  <2> QED BY <2>2, <2>3
<1>10. ASSUME NEW c \in Command, NEW l \in Login, NEW pw \in Password, CountAccounts(c, l, pw)
       PROVE  HeldStep(h)
  BY <1>6, <1>10, AccountsAssumption DEF CountAccounts, Begin, Process
<1>11. ASSUME UNCHANGED job PROVE HeldStep(h)
  BY <1>1, <1>11
<1>12. ASSUME NEW l \in Login, NEW pw \in Password, RemoveAccount(l) \/ SignUp(l, pw)
       PROVE  HeldStep(h)
  BY <1>11, <1>12 DEF RemoveAccount, SignUp
<1>13. ASSUME NEW l \in Login, RemoveAccount(l) PROVE HeldStep(h)
  BY <1>11, <1>13 DEF RemoveAccount
<1>14. ASSUME NEW g \in Handler, Reply(g) PROVE HeldStep(h)
  BY <1>7, <1>14 DEF Reply, Process
<1>15. ASSUME NEW c \in Command, Upsert(c) PROVE HeldStep(h)
  BY <1>7, <1>15 DEF Upsert, Process
<1>16. ASSUME NEW p \in Process, Abort(p) PROVE HeldStep(h)
  BY <1>7, <1>16 DEF Abort
<1> QED BY <1>8, <1>9, <1>10, <1>11, <1>12, <1>13, <1>14, <1>15, <1>16 DEF Next, Act, vars

LEMMA SecretsNext ==
  ASSUME IInv, TablesInv', JobsInv', [Next]_vars
  PROVE  SecretsInv'
<1>1. CASE UNCHANGED vars
  BY <1>1 DEF vars, IInv, SecretsInv, HeldIsCurrent
<1>2. CASE Next
  <2> DEFINE now(h) == SecretIn(accounts'[job'[h].login], verifiers'[job'[h].login])
             noted(h) == IF job'[h].pc = "idle" THEN {}
                         ELSE (IF job[h].pc = "idle" THEN {} ELSE secrets[h]) \cup {now(h)}
  <2>1. secrets' = [h \in Handler |-> noted(h)]
    BY <1>2 DEF Next, Note
  <2>2. ASSUME NEW h \in Handler PROVE noted(h) \subseteq Password \cup {NoRow}
    <3>1. secrets[h] \subseteq Password \cup {NoRow}
      BY DEF IInv, SecretsInv
    <3>2. CASE job'[h].pc = "idle"
      BY <3>2
    <3>3. CASE job'[h].pc # "idle"
      <4>1. job'[h].login \in Login
        BY <3>3 DEF JobsInv, JobsSound, JobSound, Process
      <4>2. now(h) \in Password \cup {NoRow}
        BY <4>1, SecretTyped DEF TablesInv
      <4> QED BY <3>1, <4>2
    <3> QED BY <3>2, <3>3
  <2>3. ASSUME NEW h \in Handler, job'[h].pc \in Held PROVE job'[h].password \in noted(h)
    <3>1. job'[h].pc # "idle"
      BY <2>3 DEF Held
    <3>2. CASE Continues(h)
      <4>1. job[h].pc # "idle" /\ job[h].password \in secrets[h]
        BY <3>2 DEF Continues, Held, IInv, SecretsInv, HeldIsCurrent
      <4> QED BY <3>1, <3>2, <4>1 DEF Continues
    <3>3. CASE Starts(h)
      BY <3>1, <3>3 DEF Starts
    <3> QED BY <2>3, <3>2, <3>3, StepOfHeld DEF HeldStep
  <2> HIDE DEF noted
  <2>4. secrets' \in [Handler -> SUBSET (Password \cup {NoRow})]
    BY <2>1, <2>2
  <2>5. HeldIsCurrent'
    BY <2>1, <2>3 DEF HeldIsCurrent, Held
  <2> QED BY <2>4, <2>5 DEF SecretsInv
<1> QED BY <1>1, <1>2

-----------------------------------------------------------------------------
(***************************************************************************)
(* IInv is inductive: the tables stay sound because of what a process      *)
(* holds, and what it holds because the tables are.                        *)
(***************************************************************************)
THEOREM Inductive == Spec => []IInv
<1>1. IInv /\ [Next]_vars => IInv'
  BY StepOfTables, TablesNext, JobsNext, SecretsNext DEF IInv
<1> QED BY <1>1, InitInv, PTL DEF Spec

(***************************************************************************)
(* Type correctness of the tables and of what the methods keep.            *)
(***************************************************************************)
THEOREM TypeCorrect == Spec => []TypeOK
<1>1. IInv => TypeOK
  BY DEF IInv, TablesInv, JobsInv, SecretsInv, TypeOK
<1> QED BY <1>1, Inductive, PTL

(***************************************************************************)
(* No native verifier of a replaced password or of a removed account is    *)
(* ever left, whatever logins, commands and signups interleave: the lazy   *)
(* creation in ValidatePassword compares the row it read first.            *)
(***************************************************************************)
THEOREM VerifiersAreCurrent == Spec => []VerifierIsCurrent
<1>1. IInv => VerifierIsCurrent
  BY DEF IInv, TablesInv
<1> QED BY <1>1, Inductive, PTL

(***************************************************************************)
(* Neither way of checking a password accepts one that the account did not *)
(* have at some time during the request.                                   *)
(***************************************************************************)
THEOREM AcceptedAreCurrent == Spec => []AcceptedIsCurrent
<1>1. IInv => AcceptedIsCurrent
  BY DEF IInv, SecretsInv, HeldIsCurrent, AcceptedIsCurrent
<1> QED BY <1>1, Inductive, PTL

-----------------------------------------------------------------------------
(***************************************************************************)
(* The refinement: the account a login has, as its owner knows it.         *)
(***************************************************************************)
Owned(account, verifier) ==
  IF account = NoRow THEN NoRow
  ELSE [password |-> SecretIn(account, verifier),
        by |-> IF account.password = Unknown THEN "client" ELSE "operator"]

OwnedMap == [l \in Login |-> Owned(accounts[l], verifiers[l])]

\* A change of the rows of one login is a change of its credential.
LEMMA OwnedChange ==
  ASSUME NEW l \in Login, NEW owned, Owned(accounts'[l], verifiers'[l]) = owned,
         \A m \in Login \ {l} : accounts'[m] = accounts[m] /\ verifiers'[m] = verifiers[m]
  PROVE  OwnedMap' = [OwnedMap EXCEPT ![l] = owned]
<1>1. OwnedMap' = [m \in Login |-> Owned(accounts'[m], verifiers'[m])]
  BY DEF OwnedMap
<1>2. \A m \in Login : Owned(accounts'[m], verifiers'[m]) =
                         IF m = l THEN owned ELSE Owned(accounts[m], verifiers[m])
  OBVIOUS
<1>3. [OwnedMap EXCEPT ![l] = owned]
        = [m \in Login |-> IF m = l THEN owned ELSE Owned(accounts[m], verifiers[m])]
  BY DEF OwnedMap
<1> QED BY <1>1, <1>2, <1>3

LEMMA StepOfCredentials ==
  ASSUME TablesInv, TablesStep
  PROVE  OwnedMap' = OwnedMap \/ \E l \in Login :
           \/ OwnedMap' = [OwnedMap EXCEPT ![l] = NoRow]
           \/ \E pw \in Password :
                \/ OwnedMap' = [OwnedMap EXCEPT ![l] = [password |-> pw, by |-> "operator"]]
                \/ /\ \A m \in Login : Fold[m] = Fold[l] => OwnedMap[m] = NoRow
                   /\ OwnedMap' = [OwnedMap EXCEPT ![l] = [password |-> pw, by |-> "client"]]
<1>1. CASE UNCHANGED tables
  BY <1>1 DEF tables, OwnedMap
<1>2. ASSUME NEW l \in Login, Provision(l) PROVE OwnedMap' = OwnedMap
  <2>1. accounts' = accounts /\ \A m \in Login \ {l} : verifiers'[m] = verifiers[m]
    BY <1>2 DEF Provision, TablesInv
  <2>2. Owned(accounts[l], verifiers'[l]) = Owned(accounts[l], verifiers[l])
    BY <1>2, AccountsAssumption DEF Provision, Owned, SecretIn
  <2>3. \A m \in Login : Owned(accounts[m], verifiers'[m]) = Owned(accounts[m], verifiers[m])
    BY <2>1, <2>2
  <2>4. OwnedMap' = [m \in Login |-> Owned(accounts[m], verifiers'[m])]
    BY <2>1 DEF OwnedMap
  <2> QED BY <2>3, <2>4 DEF OwnedMap
<1>3. ASSUME NEW l \in Login, Removal(l) PROVE OwnedMap' = [OwnedMap EXCEPT ![l] = NoRow]
  <2>1. /\ accounts'[l] = NoRow
        /\ \A m \in Login \ {l} : accounts'[m] = accounts[m] /\ verifiers'[m] = verifiers[m]
    BY <1>3 DEF Removal, TablesInv
  <2>2. Owned(accounts'[l], verifiers'[l]) = NoRow
    BY <2>1 DEF Owned
  <2> QED BY <2>1, <2>2, OwnedChange
<1>4. ASSUME NEW l \in Login, NEW pw \in Password, NEW kept \in {pw, Unknown},
             PutAccount(l, kept), PutVerifier(l, pw)
      PROVE  OwnedMap' = [OwnedMap EXCEPT ![l] =
               [password |-> pw, by |-> IF kept = Unknown THEN "client" ELSE "operator"]]
  <2>1. /\ accounts'[l] \in Account /\ accounts'[l].password = kept
        /\ \A m \in Login \ {l} : accounts'[m] = accounts[m]
    BY <1>4, PutAccountRow
  <2>2. verifiers'[l] = pw /\ \A m \in Login \ {l} : verifiers'[m] = verifiers[m]
    BY <1>4 DEF PutVerifier, TablesInv
  <2>3. Owned(accounts'[l], verifiers'[l]) =
          [password |-> pw, by |-> IF kept = Unknown THEN "client" ELSE "operator"]
    BY <2>1, <2>2, NoRowIsNoAccount DEF Owned, SecretIn
  <2> QED BY <2>1, <2>2, <2>3, OwnedChange
<1>5. ASSUME NEW l \in Login, NEW pw \in Password, Change(l, pw)
      PROVE  OwnedMap' = [OwnedMap EXCEPT ![l] = [password |-> pw, by |-> "operator"]]
  <2>1. pw # Unknown
    BY AccountsAssumption
  <2> QED BY <1>4, <1>5, <2>1 DEF Change
<1>6. ASSUME NEW l \in Login, NEW pw \in Password, Register(l, pw)
      PROVE  /\ \A m \in Login : Fold[m] = Fold[l] => OwnedMap[m] = NoRow
             /\ OwnedMap' = [OwnedMap EXCEPT ![l] = [password |-> pw, by |-> "client"]]
  <2>1. \A m \in Login : Fold[m] = Fold[l] => OwnedMap[m] = NoRow
    BY <1>6 DEF Register, LoginFree, OwnedMap, Owned
  <2> QED BY <1>4, <1>6, <2>1 DEF Register
<1> QED BY <1>1, <1>2, <1>3, <1>5, <1>6 DEF TablesStep

(***************************************************************************)
(* The tables implement the map of credentials: a login that creates a     *)
(* verifier changes no credential, --add-account in its two runs sets one  *)
(* or none, and a signup takes only a login that is free in every case.    *)
(***************************************************************************)
THEOREM AccountsAreCredentials == Spec => ImplementsCredentials
<1> DEFINE mapped == [l \in Login |->
             IF accounts[l] = NoRow THEN NoRow
             ELSE [password |-> Secret(l),
                   by |-> IF accounts[l].password = Unknown THEN "client" ELSE "operator"]]
<1>1. mapped = OwnedMap
  BY DEF OwnedMap, Owned, Secret
<1>2. Init => AsCredentials!Init
  <2> SUFFICES ASSUME Init PROVE mapped \in [Login ->
          {AsCredentials!Owner(pw, "operator") : pw \in Password} \cup {NoRow}]
    BY DEF AsCredentials!Init
  <2> SUFFICES ASSUME NEW l \in Login, accounts[l] # NoRow
               PROVE  mapped[l] \in {AsCredentials!Owner(pw, "operator") : pw \in Password}
    OBVIOUS
  <2>1. accounts[l].password \in Password /\ accounts[l].password # Unknown
    <3>1. accounts[l] \in [salt : {1}, password : Password]
      BY DEF Init
    <3> QED BY <3>1, AccountsAssumption
  <2>2. mapped[l] = AsCredentials!Owner(accounts[l].password, "operator")
    BY <2>1 DEF AsCredentials!Owner, Secret, SecretIn
  <2> QED BY <2>1, <2>2
<1>3. IInv /\ [Next]_vars => [AsCredentials!Next]_mapped
  <2> SUFFICES ASSUME IInv, [Next]_vars, mapped' # mapped PROVE AsCredentials!Next
    OBVIOUS
  <2>1. mapped' = OwnedMap'
    BY DEF OwnedMap, Owned, Secret
  <2>2. TablesInv /\ TablesStep
    BY StepOfTables DEF IInv
  <2> QED
    BY <1>1, <2>1, <2>2, StepOfCredentials
    DEF AsCredentials!Next, AsCredentials!Remove, AsCredentials!Set, AsCredentials!SignUp,
        AsCredentials!Taken, AsCredentials!Owner
<1> QED BY <1>2, <1>3, Inductive, PTL DEF Spec, ImplementsCredentials, AsCredentials!Spec
=============================================================================
