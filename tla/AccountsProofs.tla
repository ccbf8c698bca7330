--------------------------- MODULE AccountsProofs ---------------------------
(***************************************************************************)
(* What holds of Accounts for any accounts, people of the provider, lockout  *)
(* cap and number of edits and sign-ins.                                    *)
(***************************************************************************)
EXTENDS Accounts, FiniteSetTheorems, TLAPS

\* A row of users.
AccountRows ==
    [exists : BOOLEAN, admin : BOOLEAN, local : BOOLEAN, subject : Subjects \union {NobodyKnown},
     usable : BOOLEAN, disabled : BOOLEAN, temporary : BOOLEAN, failures : Nat, locked : BOOLEAN,
     epoch : Nat]

\* Rows are rows, no epoch ended before an account exists, and a session is of
\* an account that does.
RowsOK ==
    /\ account \in [Names -> AccountRows]
    /\ \A n \in Names : account[n].exists \/ account[n].epoch = 0
    /\ \A s \in sessions : /\ s \in [who : Names, epoch : Nat]
                           /\ account[s.who].exists

\* The sign-ins: one not begun, or begun and not taken, has issued nothing.
SignInsOK ==
    /\ begun \in Nat /\ txns \subseteq 1 .. begun
    /\ landed \in [1 .. SignIns -> Nat]
    /\ \A t \in 1 .. SignIns : /\ landed[t] <= 1
                               /\ t \in txns \/ t > begun => landed[t] = 0

\* Two accounts of a person are one.
OneEach == \A s \in Subjects : \A n, m \in OfSubject(s) : n = m

AccountsInv == RowsOK /\ SignInsOK /\ OneEach /\ OldSessionsEnd /\ AdminRemains

-----------------------------------------------------------------------------
(* What the helpers build.                                                  *)

LEMMA NamesMeet == /\ RootAccount \in Names
                   /\ \A s \in Subjects : s \in Names /\ PreferredName[s] \in Names
  BY AccountsAssumption DEF AccountsAssumption, Names

LEMMA RowTyped ==
    ASSUME NEW admin \in BOOLEAN, NEW usable \in BOOLEAN, NEW temporary \in BOOLEAN
    PROVE  /\ Row(admin, usable, temporary) \in AccountRows
           /\ Row(admin, usable, temporary).exists /\ Row(admin, usable, temporary).local
           /\ Row(admin, usable, temporary).epoch = 0
           /\ Row(admin, usable, temporary).admin = admin
           /\ ~Row(admin, usable, temporary).disabled
<1>1. /\ NoAccount \in AccountRows
      /\ NoAccount.local /\ ~NoAccount.disabled /\ NoAccount.epoch = 0
  BY DEF NoAccount, AccountRows
<1>2. ASSUME NEW r \in AccountRows
      PROVE  LET new == [r EXCEPT !.exists = TRUE, !.admin = admin, !.usable = usable,
                                  !.temporary = temporary]
             IN /\ new \in AccountRows /\ new.exists /\ new.admin = admin
                /\ new.local = r.local /\ new.disabled = r.disabled /\ new.epoch = r.epoch
  BY DEF AccountRows
<1> QED
  BY <1>1, <1>2 DEF Row

\* The row a sign-in leaves: linked to its subject.
Linked(r, s) == [r EXCEPT !.local = FALSE, !.subject = s]
LEMMA LinkedTyped ==
    ASSUME NEW r \in AccountRows, NEW s \in Subjects
    PROVE  /\ Linked(r, s) \in AccountRows /\ ~Linked(r, s).local /\ Linked(r, s).subject = s
           /\ Linked(r, s).exists = r.exists /\ Linked(r, s).epoch = r.epoch
           /\ Linked(r, s).disabled = r.disabled /\ Linked(r, s).admin = r.admin
  BY DEF AccountRows, Linked

\* More than one administrator is another one.
LEMMA AnotherAdmin ==
    ASSUME AdminRemains, NEW n, ~(Cardinality(Admins) <= 1)
    PROVE  \E m \in Admins : m # n
<1>1. SUFFICES ASSUME \A m \in Admins : m = n PROVE FALSE
  OBVIOUS
<1>2. Admins = {n}
  BY <1>1 DEF AdminRemains
<1>3. Cardinality({n}) = 1
  BY FS_Singleton
<1> QED
  BY <1>2, <1>3

-----------------------------------------------------------------------------
(* What a step does to one row.                                             *)

\* Nobody's account becomes another's.
LocalStep == \A n \in Names : account[n].exists /\ account[n].local => account'[n].local

\* A row that a step writes: it still exists, a local account stays local, an
\* account of the provider is that of the same person or of one who had none.
Succeeds(n, row) ==
    /\ row \in AccountRows
    /\ account[n].exists => row.exists
    /\ row.exists \/ row.epoch = 0
    /\ account[n].exists /\ account[n].local => row.local
    /\ row.exists /\ ~row.local =>
         \/ n \in OfSubject(row.subject)
         \/ OfSubject(row.subject) = {}

\* A session after the step is an old one that is still good, or a new one.
StillGood(n, row) ==
    \A s \in sessions' : \/ s \in sessions /\ (s.who # n \/ row.epoch = account[n].epoch)
                         \/ s = [who |-> n, epoch |-> row.epoch] /\ row.exists

LEMMA OneRowChanges ==
    ASSUME AccountsInv, NEW n \in Names, NEW row, Succeeds(n, row), StillGood(n, row),
           account' = [account EXCEPT ![n] = row]
    PROVE  RowsOK' /\ OneEach' /\ OldSessionsEnd' /\ LocalStep
<1>1. /\ account' \in [Names -> AccountRows]
      /\ account'[n] = row
      /\ \A m \in Names : m # n => account'[m] = account[m]
  BY DEF AccountsInv, RowsOK, Succeeds
<1>2. ASSUME NEW s \in sessions'
      PROVE  /\ s \in [who : Names, epoch : Nat]
             /\ account'[s.who].exists /\ s.epoch = account'[s.who].epoch
  <2>1. CASE s \in sessions /\ (s.who # n \/ row.epoch = account[n].epoch)
    BY <1>1, <2>1 DEF AccountsInv, RowsOK, OldSessionsEnd, Succeeds
  <2>2. CASE s = [who |-> n, epoch |-> row.epoch] /\ row.exists
    BY <1>1, <2>2 DEF Succeeds, AccountRows
  <2> QED
    BY <2>1, <2>2 DEF StillGood
<1>3. RowsOK' /\ OldSessionsEnd'
  <2>1. \A m \in Names : account'[m].exists \/ account'[m].epoch = 0
    BY <1>1 DEF AccountsInv, RowsOK, Succeeds
  <2> QED
    BY <1>1, <1>2, <2>1 DEF RowsOK, OldSessionsEnd
<1>4. ASSUME NEW s \in Subjects, NEW x \in OfSubject(s)', NEW y \in OfSubject(s)'
      PROVE  x = y
  <2>1. ASSUME NEW z \in Names, z # n
        PROVE  z \in OfSubject(s)' <=> z \in OfSubject(s)
    BY <1>1, <2>1 DEF OfSubject
  <2>2. n \in OfSubject(s)' => row.exists /\ ~row.local /\ row.subject = s
    BY <1>1 DEF OfSubject
  <2>3. n \in OfSubject(s)' => n \in OfSubject(s) \/ OfSubject(s) = {}
    BY <2>2 DEF Succeeds
  <2>4. \A p, q \in OfSubject(s) : p = q
    BY DEF AccountsInv, OneEach
  <2>5. x \in Names /\ y \in Names
    BY DEF OfSubject
  <2> QED
    BY <2>1, <2>3, <2>4, <2>5
<1>5. OneEach'
  BY <1>4 DEF OneEach
<1>6. LocalStep
  BY <1>1 DEF LocalStep, Succeeds
<1> QED
  BY <1>3, <1>5, <1>6

\* An administrator who is not touched, or comes out as one, is left.
LEMMA AdminIsLeft ==
    ASSUME AccountsInv, NEW n \in Names, NEW row, Succeeds(n, row),
           account' = [account EXCEPT ![n] = row],
           NEW m \in Admins,
           m # n \/ (row.exists /\ row.admin /\ ~row.disabled)
    PROVE  AdminRemains'
<1>1. m \in Names /\ account' \in [Names -> AccountRows] /\ account'[n] = row /\ (m # n => account'[m] = account[m])
  BY DEF AccountsInv, RowsOK, Succeeds, Admins
<1>2. m \in Admins'
  BY <1>1 DEF Admins, Enabled
<1> QED
  BY <1>2 DEF AdminRemains

-----------------------------------------------------------------------------
(* The actions.                                                             *)

\* What a step that touches no row keeps.
LEMMA NoRowChanges ==
    ASSUME AccountsInv, UNCHANGED account, sessions' \subseteq sessions
    PROVE  RowsOK' /\ OneEach' /\ OldSessionsEnd' /\ AdminRemains' /\ LocalStep
<1>1. \A s : OfSubject(s)' = OfSubject(s)
  BY DEF OfSubject
<1>2. Admins' = Admins
  BY DEF Admins, Enabled
<1> QED
  BY <1>1, <1>2
  DEF AccountsInv, RowsOK, OneEach, OldSessionsEnd, AdminRemains, LocalStep

\* A row that changes in what the invariant does not read, or in its epoch.
LEMMA SameOwner ==
    ASSUME AccountsInv, NEW n \in Names, NEW row \in AccountRows,
           row.exists = account[n].exists, row.local = account[n].local,
           row.subject = account[n].subject,
           row.exists \/ row.epoch = account[n].epoch
    PROVE  Succeeds(n, row)
<1>1. account[n] \in AccountRows /\ (account[n].exists \/ account[n].epoch = 0)
  BY DEF AccountsInv, RowsOK
<1> QED
  BY <1>1 DEF Succeeds, OfSubject, AccountRows

\* Sessions that remain are good as long as the epoch does, or is of another.
LEMMA SessionsRemain ==
    ASSUME AccountsInv, NEW n \in Names, NEW row \in AccountRows,
           \/ sessions' \subseteq sessions /\ row.epoch = account[n].epoch
           \/ sessions' \subseteq sessions \union {Issued(n)} /\ row.epoch = account[n].epoch /\ row.exists
           \/ sessions' \subseteq Revoke(n)
           \/ /\ sessions' \subseteq Revoke(n) \union {[who |-> n, epoch |-> row.epoch]}
              /\ row.exists
    PROVE  StillGood(n, row)
  BY DEF StillGood, Revoke, Issued

\* Passwords: a login, a failed attempt, the end of a lock.
LEMMA Passwords ==
    ASSUME AccountsInv, NEW n \in Names, Login(n) \/ LoginFails(n) \/ LockEnds(n)
    PROVE  RowsOK' /\ OneEach' /\ OldSessionsEnd' /\ AdminRemains' /\ LocalStep
<1>0. account[n] \in AccountRows
  BY DEF AccountsInv, RowsOK
<1>1. PICK m \in Admins : TRUE
  BY DEF AccountsInv, AdminRemains
<1> DEFINE Like(row) == /\ row \in AccountRows
                        /\ row.exists = account[n].exists /\ row.local = account[n].local
                        /\ row.subject = account[n].subject /\ row.epoch = account[n].epoch
                        /\ row.admin = account[n].admin /\ row.disabled = account[n].disabled
<1>2. ASSUME NEW row, Like(row), account' = [account EXCEPT ![n] = row],
             \/ sessions' \subseteq sessions
             \/ sessions' \subseteq sessions \union {Issued(n)} /\ row.exists
      PROVE  RowsOK' /\ OneEach' /\ OldSessionsEnd' /\ AdminRemains' /\ LocalStep
  <2>1. Succeeds(n, row) /\ StillGood(n, row)
    BY <1>2, SameOwner, SessionsRemain
  <2>2. m # n \/ (row.exists /\ row.admin /\ ~row.disabled)
    BY <1>2 DEF Admins, Enabled
  <2> QED
    BY <1>2, <2>1, <2>2, OneRowChanges, AdminIsLeft
<1>3. CASE Login(n)
  <2>1. Like([account[n] EXCEPT !.failures = 0]) /\ [account[n] EXCEPT !.failures = 0].exists
    BY <1>0, <1>3 DEF AccountRows, Login, MayTry, Enabled
  <2> QED
    BY <1>2, <1>3, <2>1 DEF Login
<1>4. CASE LoginFails(n)
  <2>0. ASSUME NEW r \in AccountRows
        PROVE  /\ Like(r) => Like([r EXCEPT !.locked = TRUE, !.failures = 0])
               /\ Like(r) => Like([r EXCEPT !.failures = @ + 1])
    <3>1. Like(r) => Like([r EXCEPT !.locked = TRUE, !.failures = 0])
      BY DEF AccountRows
    <3>2. Like(r) => Like([r EXCEPT !.failures = r.failures + 1])
      BY DEF AccountRows
    <3> QED
      BY <3>1, <3>2
  <2>1. Like(Recorded(account[n]))
    <3>1. CASE account[n].failures + 1 >= LockoutAttempts
      BY <1>0, <2>0, <3>1 DEF Recorded
    <3>2. CASE ~(account[n].failures + 1 >= LockoutAttempts)
      BY <1>0, <2>0, <3>2 DEF Recorded
    <3> QED
      BY <3>1, <3>2
  <2> QED
    BY <1>2, <1>4, <2>1 DEF LoginFails
<1>5. CASE LockEnds(n)
  <2>1. Like([account[n] EXCEPT !.locked = FALSE])
    BY <1>0 DEF AccountRows
  <2> QED
    BY <1>2, <1>5, <2>1 DEF LockEnds
<1> QED
  BY <1>3, <1>4, <1>5

\* A person's new password.
LEMMA NewPassword ==
    ASSUME AccountsInv, NEW n \in Names, ChangePassword(n)
    PROVE  RowsOK' /\ OneEach' /\ OldSessionsEnd' /\ AdminRemains' /\ LocalStep
<1> DEFINE row == [NewEpoch(n) EXCEPT !.temporary = FALSE, !.failures = 0]
<1>0. account[n] \in AccountRows
  BY DEF AccountsInv, RowsOK
<1>1. PICK m \in Admins : TRUE
  BY DEF AccountsInv, AdminRemains
<1>2. /\ NewEpoch(n) \in AccountRows
      /\ NewEpoch(n).exists = account[n].exists /\ NewEpoch(n).local = account[n].local
      /\ NewEpoch(n).subject = account[n].subject /\ NewEpoch(n).epoch = account[n].epoch + 1
      /\ NewEpoch(n).admin = account[n].admin /\ NewEpoch(n).disabled = account[n].disabled
  BY <1>0 DEF NewEpoch, AccountRows
<1>3. /\ row \in AccountRows
      /\ row.exists = account[n].exists /\ row.local = account[n].local
      /\ row.subject = account[n].subject /\ row.epoch = account[n].epoch + 1
      /\ row.admin = account[n].admin /\ row.disabled = account[n].disabled
  BY <1>2 DEF AccountRows
<1>4. account[n].exists
  BY DEF ChangePassword, MayTry, Enabled
<1>5. account' = [account EXCEPT ![n] = row]
  BY DEF ChangePassword
<1>6. Succeeds(n, row) /\ StillGood(n, row)
  BY <1>3, <1>4, SameOwner, SessionsRemain DEF ChangePassword
<1>7. m # n \/ (row.exists /\ row.admin /\ ~row.disabled)
  BY <1>3 DEF Admins, Enabled
<1> QED
  BY <1>5, <1>6, <1>7, OneRowChanges, AdminIsLeft

\* What administrators do to others: the one who acts is left, or another is.
LEMMA Administration ==
    ASSUME AccountsInv, NEW a \in Names, NEW n \in Names, NEW admin \in BOOLEAN,
           \/ CreateUser(a, n, admin) \/ SetRole(a, n, admin)
           \/ Disable(a, n) \/ Enable(a, n) \/ ResetPassword(a, n)
    PROVE  RowsOK' /\ OneEach' /\ OldSessionsEnd' /\ AdminRemains' /\ LocalStep
<1>0. account[n] \in AccountRows
  BY DEF AccountsInv, RowsOK
<1>1. a \in Admins
  BY DEF CreateUser, SetRole, Disable, Enable, ResetPassword, Patches, Administers
<1> DEFINE Like(row) == /\ row \in AccountRows
                        /\ row.exists = account[n].exists /\ row.local = account[n].local
                        /\ row.subject = account[n].subject
<1>2. ASSUME NEW row, Like(row), account[n].exists, account' = [account EXCEPT ![n] = row],
             (sessions' \subseteq sessions /\ row.epoch = account[n].epoch) \/ sessions' \subseteq Revoke(n),
             a # n \/ (row.exists /\ row.admin /\ ~row.disabled)
      PROVE  RowsOK' /\ OneEach' /\ OldSessionsEnd' /\ AdminRemains' /\ LocalStep
  <2>1. Succeeds(n, row) /\ StillGood(n, row)
    BY <1>2, SameOwner, SessionsRemain
  <2> QED
    BY <1>1, <1>2, <2>1, OneRowChanges, AdminIsLeft
<1>3. CASE CreateUser(a, n, admin)
  <2> DEFINE row == Row(admin, TRUE, TRUE)
  <2>1. /\ row \in AccountRows /\ row.exists /\ row.local
        /\ ~account[n].exists /\ sessions' = sessions /\ account' = [account EXCEPT ![n] = row]
    BY <1>3, RowTyped DEF CreateUser
  <2>2. Succeeds(n, row)
    BY <2>1 DEF Succeeds
  <2>3. StillGood(n, row)
    BY <2>1 DEF StillGood, AccountsInv, RowsOK
  <2>4. a # n
    BY <1>1, <2>1 DEF Admins, Enabled
  <2> QED
    BY <1>1, <2>1, <2>2, <2>3, <2>4, OneRowChanges, AdminIsLeft
<1>4. CASE SetRole(a, n, admin)
  <2> DEFINE row == [account[n] EXCEPT !.admin = admin]
  <2>1. /\ Like(row) /\ row.epoch = account[n].epoch /\ row.admin = admin
        /\ row.disabled = account[n].disabled
    BY <1>0 DEF AccountRows
  <2>2. a # n \/ (row.exists /\ row.admin /\ ~row.disabled)
    BY <1>1, <1>4, <2>1 DEF SetRole, AnotherOne, Admins, Enabled
  <2> QED
    BY <1>2, <1>4, <2>1, <2>2 DEF SetRole, Patches
<1>5. CASE Disable(a, n)
  <2> DEFINE row == [NewEpoch(n) EXCEPT !.disabled = TRUE]
  <2>1. NewEpoch(n) \in AccountRows /\ Like(NewEpoch(n))
    BY <1>0 DEF AccountRows, NewEpoch
  <2>2. Like(row)
    BY <2>1 DEF AccountRows
  <2> QED
    BY <1>2, <1>5, <2>2 DEF Disable, AnotherOne, Patches
<1>6. CASE Enable(a, n)
  <2> DEFINE row == [account[n] EXCEPT !.disabled = FALSE]
  <2>1. Like(row) /\ row.epoch = account[n].epoch /\ row.admin = account[n].admin /\ ~row.disabled
    BY <1>0 DEF AccountRows
  <2>2. a # n \/ (row.exists /\ row.admin /\ ~row.disabled)
    BY <1>1, <2>1 DEF Admins, Enabled
  <2> QED
    BY <1>2, <1>6, <2>1, <2>2 DEF Enable, Patches
<1>7. CASE ResetPassword(a, n)
  <2> DEFINE row == [NewEpoch(n) EXCEPT !.usable = TRUE, !.temporary = TRUE, !.failures = 0,
                                        !.locked = FALSE]
  <2>1. NewEpoch(n) \in AccountRows /\ Like(NewEpoch(n))
    BY <1>0 DEF AccountRows, NewEpoch
  <2>2. Like(row)
    BY <2>1 DEF AccountRows
  <2> QED
    BY <1>2, <1>7, <2>2 DEF ResetPassword, AnotherOne, Patches
<1> QED
  BY <1>3, <1>4, <1>5, <1>6, <1>7

\* A sign-in through the provider: to the account of the person, which no
\* local one is; to a new one, where there was none; or to none.
LEMMA Provisioning ==
    ASSUME AccountsInv, NEW s \in Subjects, NEW t, NEW admin \in BOOLEAN, Provision(s, t, admin)
    PROVE  RowsOK' /\ OneEach' /\ OldSessionsEnd' /\ AdminRemains' /\ LocalStep
<1>1. PICK k \in Admins : TRUE
  BY DEF AccountsInv, AdminRemains
<1>2. ASSUME NEW n \in Known(s),
             account' = [account EXCEPT ![n] = [Synced(n, admin) EXCEPT !.local = FALSE, !.subject = s]],
             Lands(n, t)
      PROVE  RowsOK' /\ OneEach' /\ OldSessionsEnd' /\ AdminRemains' /\ LocalStep
  <2> DEFINE row == Linked(Synced(n, admin), s)
  <2>0. account' = [account EXCEPT ![n] = row]
    BY <1>2 DEF Linked
  <2>1. /\ n \in Names /\ account[n] \in AccountRows /\ n \in OfSubject(s)
        /\ account[n].exists /\ ~account[n].local /\ account[n].subject = s
    BY DEF AccountsInv, RowsOK, Known, OfSubject
  <2>2. [account[n] EXCEPT !.admin = admin] \in AccountRows
    BY <2>1 DEF AccountRows
  <2>3. /\ Synced(n, admin) \in AccountRows
        /\ Synced(n, admin).exists = account[n].exists
        /\ Synced(n, admin).epoch = account[n].epoch
        /\ Synced(n, admin).disabled = account[n].disabled
        /\ \/ Synced(n, admin).admin = account[n].admin
           \/ ~account[n].admin \/ admin \/ ~(Cardinality(Admins) <= 1)
    <3>1. CASE account[n].local \/ (account[n].admin /\ ~admin /\ Cardinality(Admins) <= 1)
      BY <2>1, <3>1 DEF Synced
    <3>2. CASE ~(account[n].local \/ (account[n].admin /\ ~admin /\ Cardinality(Admins) <= 1))
      <4>1. Synced(n, admin) = [account[n] EXCEPT !.admin = admin]
        BY <3>2 DEF Synced
      <4>2. LET r == [account[n] EXCEPT !.admin = admin]
            IN /\ r.exists = account[n].exists /\ r.epoch = account[n].epoch
               /\ r.disabled = account[n].disabled /\ r.admin = admin
        BY <2>1 DEF AccountRows
      <4> QED
        BY <2>2, <3>2, <4>1, <4>2
    <3> QED
      BY <3>1, <3>2
  <2>4. /\ row \in AccountRows /\ ~row.local /\ row.subject = s /\ row.exists
        /\ row.epoch = account[n].epoch /\ row.disabled = account[n].disabled
        /\ row.admin = Synced(n, admin).admin
    BY <2>1, <2>3, LinkedTyped
  <2>5. Succeeds(n, row)
    BY <2>1, <2>4 DEF Succeeds
  <2>6. StillGood(n, row)
    BY <1>2, <2>1, <2>4 DEF StillGood, Lands, SignsIn, Issued
  <2>7. \E m \in Admins : m # n \/ (row.exists /\ row.admin /\ ~row.disabled)
    <3>1. CASE ~(Cardinality(Admins) <= 1)
      BY <3>1, AnotherAdmin DEF AccountsInv
    <3>2. CASE k # n
      BY <3>2
    <3>3. CASE k = n /\ Cardinality(Admins) <= 1
      <4>1. account[n].admin /\ ~account[n].disabled
        BY <3>3 DEF Admins, Enabled
      <4>2. Synced(n, admin).admin
        BY <2>1, <3>3, <4>1 DEF Synced, AccountRows
      <4> QED
        BY <2>4, <3>3, <4>1, <4>2
    <3> QED
      BY <3>1, <3>2, <3>3
  <2> QED
    BY <2>0, <2>1, <2>5, <2>6, <2>7, OneRowChanges, AdminIsLeft
<1>3. CASE LandsNowhere /\ UNCHANGED account
  BY <1>3, NoRowChanges DEF LandsNowhere
<1>4. ASSUME NEW n \in Names, ~account[n].exists, NEW row \in AccountRows, row.exists,
             ~row.local => row.subject = s /\ OfSubject(s) = {},
             sessions' \subseteq sessions \union {[who |-> n, epoch |-> row.epoch]},
             account' = [account EXCEPT ![n] = row]
      PROVE  RowsOK' /\ OneEach' /\ OldSessionsEnd' /\ AdminRemains' /\ LocalStep
  <2>1. Succeeds(n, row)
    BY <1>4 DEF Succeeds
  <2>2. StillGood(n, row)
    BY <1>4 DEF StillGood, AccountsInv, RowsOK
  <2>3. k # n
    BY <1>4 DEF Admins, Enabled
  <2> QED
    BY <1>4, <2>1, <2>2, <2>3, OneRowChanges, AdminIsLeft
<1>5. ASSUME Known(s) = {}, ~account[NewName(s)].exists,
             account' = [account EXCEPT ![NewName(s)] =
                            [Row(admin, FALSE, FALSE) EXCEPT !.local = FALSE, !.subject = s]],
             Lands(NewName(s), t)
      PROVE  RowsOK' /\ OneEach' /\ OldSessionsEnd' /\ AdminRemains' /\ LocalStep
  <2> DEFINE row == Linked(Row(admin, FALSE, FALSE), s)
  <2>0. account' = [account EXCEPT ![NewName(s)] = row]
    BY <1>5 DEF Linked
  <2>1. row \in AccountRows /\ row.exists /\ ~row.local /\ row.subject = s /\ row.epoch = 0
    <3>1. /\ Row(admin, FALSE, FALSE) \in AccountRows /\ Row(admin, FALSE, FALSE).exists
          /\ Row(admin, FALSE, FALSE).epoch = 0
      BY RowTyped
    <3> QED
      BY <3>1, LinkedTyped
  <2>2. NewName(s) \in Names /\ OfSubject(s) = {}
    BY <1>5, NamesMeet DEF NewName, Known
  <2>3. sessions' = sessions \union {[who |-> NewName(s), epoch |-> row.epoch]}
    BY <1>5, <2>1, <2>2 DEF Lands, SignsIn, Issued, AccountsInv, RowsOK
  <2> QED
    BY <1>4, <1>5, <2>0, <2>1, <2>2, <2>3
<1>6. ASSUME ~account[NewName(s)].exists, LandsNowhere,
             account' = [account EXCEPT ![NewName(s)] = Row(admin, FALSE, FALSE)]
      PROVE  RowsOK' /\ OneEach' /\ OldSessionsEnd' /\ AdminRemains' /\ LocalStep
  <2>1. NewName(s) \in Names
    BY NamesMeet DEF NewName
  <2>2. /\ Row(admin, FALSE, FALSE) \in AccountRows
        /\ Row(admin, FALSE, FALSE).exists /\ Row(admin, FALSE, FALSE).local
    BY RowTyped
  <2> QED
    BY <1>4, <1>6, <2>1, <2>2 DEF LandsNowhere
<1> QED
  BY <1>2, <1>3, <1>5, <1>6 DEF Provision

\* The sign-ins, whatever becomes of them.
LEMMA SignInsStep ==
    ASSUME AccountsInv, [AccountsNext]_accountVars
    PROVE  SignInsOK'
<1>1. CASE UNCHANGED <<txns, begun, landed>>
  BY <1>1 DEF AccountsInv, SignInsOK
<1>2. CASE BeginSignIn
  BY <1>2 DEF AccountsInv, SignInsOK, BeginSignIn
<1>3. ASSUME NEW t \in 1 .. SignIns, TxnExpires(t) PROVE SignInsOK'
  BY <1>3 DEF AccountsInv, SignInsOK, TxnExpires
<1>4. ASSUME NEW t \in 1 .. SignIns, NEW s \in Subjects, NEW admin \in BOOLEAN, Callback(t, s, admin)
      PROVE  SignInsOK'
  <2>1. begun' = begun
    BY <1>4 DEF Callback
  <2>2. CASE t \in txns /\ Take(t) /\ landed' = [landed EXCEPT ![t] = @ + 1]
    <3>1. landed[t] = 0 /\ landed'[t] = 1 /\ \A u \in 1 .. SignIns : u # t => landed'[u] = landed[u]
      BY <2>2 DEF AccountsInv, SignInsOK
    <3>2. landed' \in [1 .. SignIns -> Nat]
      BY <2>2, <3>1 DEF AccountsInv, SignInsOK
    <3> QED
      BY <2>1, <2>2, <3>1, <3>2 DEF AccountsInv, SignInsOK, Take
  <2>3. CASE t \in txns /\ Take(t) /\ UNCHANGED landed
    BY <2>1, <2>3 DEF AccountsInv, SignInsOK, Take
  <2>4. CASE UNCHANGED <<txns, landed>>
    BY <1>1, <2>1, <2>4
  <2> QED
    BY <1>4, <2>2, <2>3, <2>4 DEF Callback, Provision, Lands, LandsNowhere
<1> QED
  BY <1>1, <1>2, <1>3, <1>4
  DEF AccountsNext, accountVars, Login, LoginFails, LockEnds, MintToken, TokenEnds, ChangePassword,
      SessionEnds, CreateUser, SetRole, Disable, Enable, ResetPassword, Patches

-----------------------------------------------------------------------------
(* The invariant, and what follows from it.                                 *)

LEMMA InvInit == AccountsInit => AccountsInv
<1> SUFFICES ASSUME AccountsInit PROVE AccountsInv
  OBVIOUS
<1>1. /\ NoAccount \in AccountRows /\ ~NoAccount.exists /\ NoAccount.epoch = 0
  BY DEF NoAccount, AccountRows
<1>2. LET first == Row(TRUE, TRUE, FALSE)
      IN first \in AccountRows /\ first.exists /\ first.local /\ first.admin /\ ~first.disabled
  BY RowTyped
<1>3. /\ account \in [Names -> AccountRows]
      /\ account[RootAccount] = Row(TRUE, TRUE, FALSE)
      /\ \A n \in Names : n # RootAccount => account[n] = NoAccount
  BY <1>1, <1>2, NamesMeet DEF AccountsInit
<1>4. RowsOK /\ OldSessionsEnd
  BY <1>1, <1>2, <1>3 DEF AccountsInit, RowsOK, OldSessionsEnd
<1>5. SignInsOK
  BY AccountsAssumption DEF AccountsAssumption, AccountsInit, SignInsOK
<1>6. OneEach
  BY <1>1, <1>2, <1>3 DEF OneEach, OfSubject
<1>7. AdminRemains
  BY <1>2, <1>3, NamesMeet DEF AdminRemains, Admins, Enabled
<1> QED
  BY <1>4, <1>5, <1>6, <1>7 DEF AccountsInv

LEMMA InvStep == AccountsInv /\ [AccountsNext]_accountVars => AccountsInv' /\ LocalStep
<1> SUFFICES ASSUME AccountsInv, [AccountsNext]_accountVars
             PROVE  AccountsInv' /\ LocalStep
  OBVIOUS
<1> DEFINE Kept == RowsOK' /\ OneEach' /\ OldSessionsEnd' /\ AdminRemains' /\ LocalStep
<1>1. ASSUME UNCHANGED accountVars PROVE Kept
  BY <1>1, NoRowChanges DEF accountVars
<1>2. ASSUME NEW n \in Names,
             Login(n) \/ LoginFails(n) \/ LockEnds(n) \/ MintToken(n) \/ TokenEnds(n) \/ ChangePassword(n)
      PROVE  Kept
  <2>1. CASE MintToken(n) \/ TokenEnds(n)
    BY <2>1, NoRowChanges DEF MintToken, TokenEnds
  <2> QED
    BY <1>2, <2>1, Passwords, NewPassword
<1>3. ASSUME NEW s \in sessions, SessionEnds(s) PROVE Kept
  BY <1>3, NoRowChanges DEF SessionEnds
<1>4. ASSUME NEW a \in Names, NEW n \in Names, NEW admin \in BOOLEAN,
             \/ CreateUser(a, n, admin) \/ SetRole(a, n, admin)
             \/ Disable(a, n) \/ Enable(a, n) \/ ResetPassword(a, n)
      PROVE  Kept
  BY <1>4, Administration
<1>5. ASSUME BeginSignIn PROVE Kept
  BY <1>5, NoRowChanges DEF BeginSignIn
<1>6. ASSUME NEW t \in 1 .. SignIns, TxnExpires(t) PROVE Kept
  BY <1>6, NoRowChanges DEF TxnExpires
<1>7. ASSUME NEW t \in 1 .. SignIns, NEW s \in Subjects, NEW admin \in BOOLEAN, Callback(t, s, admin)
      PROVE  Kept
  <2>1. CASE UNCHANGED account /\ UNCHANGED sessions
    BY <2>1, NoRowChanges
  <2> QED
    BY <1>7, <2>1, Provisioning DEF Callback, LandsNowhere
<1>8. Kept
  BY <1>1, <1>2, <1>3, <1>4, <1>5, <1>6, <1>7 DEF AccountsNext
<1> QED
  BY <1>8, SignInsStep DEF AccountsInv

\* A set whose members are all one is empty or a singleton.
LEMMA OneIsOne == AccountsInv => OneAccountPerSubject
<1> SUFFICES ASSUME AccountsInv PROVE OneAccountPerSubject
  OBVIOUS
<1>1. ASSUME NEW s \in Subjects PROVE Cardinality(OfSubject(s)) <= 1
  <2>1. CASE OfSubject(s) = {}
    BY <2>1, FS_EmptySet
  <2>2. CASE OfSubject(s) # {}
    <3>1. PICK n \in OfSubject(s) : TRUE
      BY <2>2
    <3>2. OfSubject(s) = {n}
      BY <3>1 DEF AccountsInv, OneEach
    <3> QED
      BY <3>2, FS_Singleton
  <2> QED
    BY <2>1, <2>2
<1> QED
  BY <1>1 DEF AccountsInv, SignInsOK, OneAccountPerSubject

\* THEOREM.  Whatever administrators, people and the identity provider do, in
\* whatever order, somebody can administer the instance, no session outlives
\* the password or the disabling that ended it, a person of the provider has one
\* account and completes a sign-in once, and a local account is nobody else's
\* (auth.py, main.users_patch).
THEOREM AccountsStayKept == AccountsSpec => AccountsAreKept
<1>1. AccountsInit => AccountsInv
  BY InvInit
<1>2. AccountsInv /\ [AccountsNext]_accountVars => AccountsInv'
  BY InvStep
<1>3. AccountsInv => AdminRemains /\ OldSessionsEnd /\ OneAccountPerSubject
  BY OneIsOne DEF AccountsInv
<1>4. AccountsInv /\ [AccountsNext]_accountVars =>
        [\A n \in Names : account[n].exists /\ account[n].local => account'[n].local]_accountVars
  BY InvStep DEF LocalStep
<1> QED
  BY <1>1, <1>2, <1>3, <1>4, PTL DEF AccountsSpec, AccountsAreKept, LocalStaysLocal

-----------------------------------------------------------------------------
(* Types: the count of failures, and whom an account is of.                 *)

\* A row counts failures below the cap, and has a subject only if the provider knows
\* the account.
RowFine(r) ==
    /\ r.failures < LockoutAttempts
    /\ r.subject # NobodyKnown => r.exists /\ ~r.local
RowsFine == \A n \in Names : RowFine(account[n])

LEMMA FineRowChanges ==
    ASSUME RowsOK, RowsFine, NEW n \in Names, NEW row, RowFine(row), account' = [account EXCEPT ![n] = row]
    PROVE  RowsFine'
<1>1. \A m \in Names : account'[m] = IF m = n THEN row ELSE account[m]
  BY DEF RowsOK
<1> QED
  BY <1>1 DEF RowsFine, RowFine

\* What the steps of passwords and administration write into a row that is there.
LEMMA FineRows ==
    ASSUME NEW r \in AccountRows, RowFine(r), NEW admin \in BOOLEAN
    PROVE  /\ RowFine([r EXCEPT !.failures = 0]) /\ RowFine([r EXCEPT !.locked = FALSE])
           /\ RowFine([r EXCEPT !.admin = admin]) /\ RowFine([r EXCEPT !.disabled = FALSE])
           /\ RowFine([r EXCEPT !.disabled = TRUE])
           /\ RowFine([r EXCEPT !.temporary = FALSE, !.failures = 0])
           /\ RowFine([r EXCEPT !.usable = TRUE, !.temporary = TRUE, !.failures = 0, !.locked = FALSE])
           /\ RowFine([r EXCEPT !.epoch = @ + 1]) /\ [r EXCEPT !.epoch = @ + 1] \in AccountRows
           /\ RowFine(Recorded(r))
           /\ \A s \in Subjects : r.exists => RowFine([r EXCEPT !.local = FALSE, !.subject = s])
<1>0. LockoutAttempts \in Nat \ {0}
  BY AccountsAssumption DEF AccountsAssumption
<1>1. /\ RowFine([r EXCEPT !.failures = 0]) /\ RowFine([r EXCEPT !.locked = FALSE])
      /\ RowFine([r EXCEPT !.admin = admin]) /\ RowFine([r EXCEPT !.disabled = FALSE])
      /\ RowFine([r EXCEPT !.disabled = TRUE])
  BY <1>0 DEF AccountRows, RowFine
<1>2. RowFine([r EXCEPT !.temporary = FALSE, !.failures = 0])
  BY <1>0 DEF AccountRows, RowFine
<1>3. RowFine([r EXCEPT !.usable = TRUE, !.temporary = TRUE, !.failures = 0, !.locked = FALSE])
  BY <1>0 DEF AccountRows, RowFine
<1>4. RowFine([r EXCEPT !.epoch = r.epoch + 1]) /\ [r EXCEPT !.epoch = r.epoch + 1] \in AccountRows
  BY DEF AccountRows, RowFine
<1>5. RowFine(Recorded(r))
  <2>1. CASE r.failures + 1 >= LockoutAttempts
    <3>1. RowFine([r EXCEPT !.locked = TRUE, !.failures = 0])
      BY <1>0 DEF AccountRows, RowFine
    <3> QED
      BY <2>1, <3>1 DEF Recorded
  <2>2. CASE ~(r.failures + 1 >= LockoutAttempts)
    <3>0. r.failures \in Nat /\ r.failures + 1 < LockoutAttempts
      BY <1>0, <2>2 DEF AccountRows
    <3>1. RowFine([r EXCEPT !.failures = r.failures + 1])
      BY <1>0, <3>0 DEF AccountRows, RowFine
    <3> QED
      BY <2>2, <3>1 DEF Recorded
  <2> QED
    BY <2>1, <2>2
<1>6. ASSUME NEW s \in Subjects, r.exists PROVE RowFine([r EXCEPT !.local = FALSE, !.subject = s])
  BY <1>6 DEF AccountRows, RowFine
<1> QED
  BY <1>1, <1>2, <1>3, <1>4, <1>5, <1>6

LEMMA FineNewRow ==
    ASSUME NEW admin \in BOOLEAN, NEW usable \in BOOLEAN, NEW temporary \in BOOLEAN
    PROVE  RowFine(Row(admin, usable, temporary)) /\ Row(admin, usable, temporary).exists
<1>0. LockoutAttempts \in Nat \ {0}
  BY AccountsAssumption DEF AccountsAssumption
<1>1. NoAccount \in AccountRows /\ NoAccount.failures = 0 /\ NoAccount.subject = NobodyKnown
  BY DEF NoAccount, AccountRows
<1>2. ASSUME NEW r \in AccountRows, r.failures = 0, r.subject = NobodyKnown
      PROVE  RowFine([r EXCEPT !.exists = TRUE, !.admin = admin, !.usable = usable, !.temporary = temporary])
  BY <1>0, <1>2 DEF AccountRows, RowFine
<1> QED
  BY <1>1, <1>2, RowTyped DEF Row

LEMMA FineStep == AccountsInv /\ RowsFine /\ [AccountsNext]_accountVars => RowsFine'
<1> SUFFICES ASSUME AccountsInv, RowsFine, [AccountsNext]_accountVars PROVE RowsFine'
  OBVIOUS
<1>0. RowsOK /\ \A n \in Names : account[n] \in AccountRows /\ RowFine(account[n])
  BY DEF AccountsInv, RowsOK, RowsFine
<1>1. ASSUME UNCHANGED account PROVE RowsFine'
  BY <1>1 DEF RowsFine
<1>2. ASSUME NEW n \in Names, Login(n) \/ LoginFails(n) \/ LockEnds(n) PROVE RowsFine'
  <2>1. \E row : RowFine(row) /\ account' = [account EXCEPT ![n] = row]
    BY <1>0, <1>2, FineRows DEF Login, LoginFails, LockEnds
  <2> QED
    BY <1>0, <2>1, FineRowChanges
<1>3. ASSUME NEW n \in Names, ChangePassword(n) PROVE RowsFine'
  <2>1. NewEpoch(n) \in AccountRows /\ RowFine(NewEpoch(n))
    BY <1>0, FineRows DEF NewEpoch
  <2>2. RowFine([NewEpoch(n) EXCEPT !.temporary = FALSE, !.failures = 0])
    BY <2>1, FineRows
  <2> QED
    BY <1>0, <1>3, <2>2, FineRowChanges DEF ChangePassword
<1>4. ASSUME NEW n \in Names, NEW a \in Names, NEW admin \in BOOLEAN,
             \/ CreateUser(a, n, admin) \/ SetRole(a, n, admin)
             \/ Disable(a, n) \/ Enable(a, n) \/ ResetPassword(a, n)
      PROVE  RowsFine'
  <2>1. NewEpoch(n) \in AccountRows /\ RowFine(NewEpoch(n))
    BY <1>0, FineRows DEF NewEpoch
  <2>2. CASE CreateUser(a, n, admin)
    BY <1>0, <2>2, FineNewRow, FineRowChanges DEF CreateUser
  <2>3. CASE SetRole(a, n, admin)
    BY <1>0, <2>3, FineRows, FineRowChanges DEF SetRole
  <2>4. CASE Disable(a, n)
    BY <1>0, <2>1, <2>4, FineRows, FineRowChanges DEF Disable
  <2>5. CASE Enable(a, n)
    BY <1>0, <2>5, FineRows, FineRowChanges DEF Enable
  <2>6. CASE ResetPassword(a, n)
    BY <1>0, <2>1, <2>6, FineRows, FineRowChanges DEF ResetPassword
  <2> QED
    BY <1>4, <2>2, <2>3, <2>4, <2>5, <2>6
<1>5. ASSUME NEW t \in 1 .. SignIns, NEW s \in Subjects, NEW admin \in BOOLEAN, Callback(t, s, admin)
      PROVE  RowsFine'
  <2>1. ASSUME NEW n \in Known(s),
               account' = [account EXCEPT ![n] = [Synced(n, admin) EXCEPT !.local = FALSE, !.subject = s]]
        PROVE  RowsFine'
    <3>1. n \in Names /\ account[n] \in AccountRows /\ RowFine(account[n]) /\ account[n].exists
      BY <1>0 DEF Known, OfSubject
    <3>2. /\ [account[n] EXCEPT !.admin = admin] \in AccountRows
          /\ [account[n] EXCEPT !.admin = admin].exists = account[n].exists
          /\ RowFine([account[n] EXCEPT !.admin = admin])
      BY <3>1, FineRows DEF AccountRows
    <3>3. Synced(n, admin) \in AccountRows /\ Synced(n, admin).exists /\ RowFine(Synced(n, admin))
      BY <3>1, <3>2 DEF Synced
    <3> QED
      BY <1>0, <2>1, <3>1, <3>3, FineRows, FineRowChanges
  <2>2. NewName(s) \in Names
    BY NamesMeet DEF NewName
  <2>3. /\ Row(admin, FALSE, FALSE) \in AccountRows /\ RowFine(Row(admin, FALSE, FALSE))
        /\ Row(admin, FALSE, FALSE).exists
    BY RowTyped, FineNewRow
  <2>4. CASE account' = [account EXCEPT ![NewName(s)] =
                           [Row(admin, FALSE, FALSE) EXCEPT !.local = FALSE, !.subject = s]]
    BY <1>0, <2>2, <2>3, <2>4, FineRows, FineRowChanges
  <2>5. CASE account' = [account EXCEPT ![NewName(s)] = Row(admin, FALSE, FALSE)]
    BY <1>0, <2>2, <2>3, <2>5, FineRowChanges
  <2> QED
    BY <1>1, <1>5, <2>1, <2>4, <2>5 DEF Callback, Provision
<1> QED
  BY <1>1, <1>2, <1>3, <1>4, <1>5 DEF AccountsNext, accountVars, MintToken, TokenEnds, SessionEnds,
     BeginSignIn, TxnExpires

\* THEOREM.  The failures of an account stay below the cap, for the one that reaches it
\* locks the account and counts anew, only an account there is that is not local has a
\* subject, and a sign-in waits only if it was begun (JobStore.user_record_failure,
\* auth.jit_provision).
THEOREM AccountsTypesHold == AccountsSpec => []AccountsTypeOK
<1>1. AccountsInit => RowsFine
  <2> SUFFICES ASSUME AccountsInit PROVE RowsFine
    OBVIOUS
  <2>1. RowFine(NoAccount)
    BY AccountsAssumption DEF AccountsAssumption, NoAccount, RowFine
  <2> QED
    BY <2>1, FineNewRow DEF AccountsInit, RowsFine, RowFine
<1>2. AccountsInv /\ RowsFine => AccountsTypeOK
  BY DEF AccountsInv, SignInsOK, RowsFine, RowFine, AccountsTypeOK
<1> QED
  BY <1>1, <1>2, InvInit, InvStep, FineStep, PTL DEF AccountsSpec
=============================================================================
