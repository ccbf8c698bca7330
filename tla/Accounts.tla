------------------------------ MODULE Accounts ------------------------------
(***************************************************************************)
(* The accounts of an instance: the first administrator, sign-in by password *)
(* with its lockout, cookie sessions, API tokens, sign-in through an identity *)
(* provider that creates accounts, and what administrators do to others.      *)
(*                                                                         *)
(* Handlers run without a pause in one process, so that each is a step; only  *)
(* the creation of an account on a first sign-in writes twice.  The epoch of   *)
(* an account counts what ends its sessions: disabling it and new passwords.  *)
(***************************************************************************)
EXTENDS Naturals, FiniteSets

CONSTANTS
    Locals,         \* names of accounts people create
    RootAccount,    \* the one the instance is bootstrapped with
    Subjects,       \* people the identity provider knows; each is also the
                    \* name of last resort for an account of theirs
    PreferredName,  \* per subject, the name the provider claims for it
    LockoutAttempts,\* auth_lockout_attempts
    Edits,          \* bound of what administrators and people change
    SignIns,        \* bound of the sign-ins through the provider
    ProvisionCrashes

ASSUME AccountsAssumption ==
    /\ RootAccount \in Locals /\ Locals \cap Subjects = {}
    /\ PreferredName \in [Subjects -> Locals]
    /\ LockoutAttempts \in Nat \ {0} /\ {Edits, SignIns, ProvisionCrashes} \subseteq Nat

Names == Locals \union Subjects
NobodyKnown == "-"

VARIABLES
    account,     \* per name, the row of users
    sessions,    \* cookie sessions: whose, and the epoch they were issued in
    token,       \* names with an active API token
    txns,        \* sign-ins begun and not taken
    begun,       \* how many were begun
    cookie,      \* the state the browser holds
    landed,      \* (history) per sign-in, the sessions it issued
    edits,       \* edits left
    crashesLeft  \* crashes left

accountVars == <<account, sessions, token, txns, begun, cookie, landed, edits, crashesLeft>>

NoAccount ==
    [exists |-> FALSE, admin |-> FALSE, local |-> TRUE, subject |-> NobodyKnown, usable |-> FALSE,
     disabled |-> FALSE, temporary |-> FALSE, failures |-> 0, locked |-> FALSE, epoch |-> 0]
Row(admin, usable, temporary) ==
    [NoAccount EXCEPT !.exists = TRUE, !.admin = admin, !.usable = usable, !.temporary = temporary]

\* bootstrap_admin, before anyone can do anything
AccountsInit ==
    /\ account = [n \in Names |-> IF n = RootAccount THEN Row(TRUE, TRUE, FALSE) ELSE NoAccount]
    /\ sessions = {} /\ token = {} /\ txns = {} /\ begun = 0 /\ cookie = 0
    /\ landed = [t \in 1 .. SignIns |-> 0] /\ edits = Edits /\ crashesLeft = ProvisionCrashes

Enabled(n) == account[n].exists /\ ~account[n].disabled
Admins == {n \in Names : Enabled(n) /\ account[n].admin}
Issued(n) == [who |-> n, epoch |-> account[n].epoch]

-----------------------------------------------------------------------------
(* Passwords.                                                               *)

\* verify_login up to the password itself.
MayTry(n) == Enabled(n) /\ ~account[n].locked /\ (account[n].local \/ account[n].usable)
Login(n) ==
    /\ MayTry(n) /\ account[n].usable
    /\ account' = [account EXCEPT ![n].failures = 0]
    /\ sessions' = sessions \union {Issued(n)}
    /\ UNCHANGED <<token, txns, begun, cookie, landed, edits, crashesLeft>>

\* user_record_failure: the attempt that reaches the cap locks, and counts anew.
Recorded(row) ==
    IF row.failures + 1 >= LockoutAttempts THEN [row EXCEPT !.locked = TRUE, !.failures = 0]
    ELSE [row EXCEPT !.failures = @ + 1]
LoginFails(n) ==
    /\ MayTry(n) /\ account' = [account EXCEPT ![n] = Recorded(@)]
    /\ UNCHANGED <<sessions, token, txns, begun, cookie, landed, edits, crashesLeft>>
LockEnds(n) ==
    /\ account[n].locked /\ account' = [account EXCEPT ![n].locked = FALSE]
    /\ UNCHANGED <<sessions, token, txns, begun, cookie, landed, edits, crashesLeft>>

\* Logging out, and a session that expires.
SessionEnds(s) ==
    /\ s \in sessions /\ sessions' = sessions \ {s}
    /\ UNCHANGED <<account, token, txns, begun, cookie, landed, edits, crashesLeft>>

-----------------------------------------------------------------------------
(* Requests.                                                                *)

\* current_user: a token; the password, which an account that has a token no
\* longer uses unless it is a local administrator's; or a session.
ByPassword(n) ==
    /\ MayTry(n) /\ account[n].usable
    /\ n \in token => account[n].local /\ account[n].admin
SignedIn(n) == Enabled(n) /\ (n \in token \/ ByPassword(n) \/ \E s \in sessions : s.who = n)
Edit(n) == SignedIn(n) /\ edits > 0 /\ edits' = edits - 1

MintToken(n) ==
    /\ Edit(n) /\ token' = token \union {n}
    /\ UNCHANGED <<account, sessions, txns, begun, cookie, landed, crashesLeft>>
\* Revoked by the owner or an administrator, or expired.
TokenEnds(n) ==
    /\ n \in token /\ token' = token \ {n}
    /\ UNCHANGED <<account, sessions, txns, begun, cookie, landed, edits, crashesLeft>>

\* Every session of an account ends; one may be issued anew.
NewEpoch(n) == [account[n] EXCEPT !.epoch = @ + 1]
Revoke(n) == {s \in sessions : s.who # n}

ChangePassword(n) ==
    /\ Edit(n) /\ MayTry(n) /\ account[n].usable
    /\ account' = [account EXCEPT ![n] = [NewEpoch(n) EXCEPT !.temporary = FALSE, !.failures = 0]]
    /\ sessions' = Revoke(n) \union {[who |-> n, epoch |-> account[n].epoch + 1]}
    /\ UNCHANGED <<token, txns, begun, cookie, landed, crashesLeft>>

Administers(a) == Edit(a) /\ a \in Admins
CreateUser(a, n, admin) ==
    /\ Administers(a) /\ n \in Locals /\ ~account[n].exists
    /\ account' = [account EXCEPT ![n] = Row(admin, TRUE, TRUE)]
    /\ UNCHANGED <<sessions, token, txns, begun, cookie, landed, crashesLeft>>

\* users_patch, a field of it: nobody demotes, disables or resets themselves.
AnotherOne(a, n) == a # n
Patches(a, n) ==
    /\ Administers(a) /\ account[n].exists
    /\ UNCHANGED <<token, txns, begun, cookie, landed, crashesLeft>>
SetRole(a, n, admin) ==
    /\ Patches(a, n)
    /\ ~admin => AnotherOne(a, n) /\ (account[n].admin => Cardinality(Admins) > 1)
    /\ account' = [account EXCEPT ![n].admin = admin]
    /\ UNCHANGED sessions
Disable(a, n) ==
    /\ Patches(a, n) /\ AnotherOne(a, n)
    /\ account' = [account EXCEPT ![n] = [NewEpoch(n) EXCEPT !.disabled = TRUE]]
    /\ sessions' = Revoke(n)
Enable(a, n) ==
    /\ Patches(a, n) /\ account' = [account EXCEPT ![n].disabled = FALSE] /\ UNCHANGED sessions
ResetPassword(a, n) ==
    /\ Patches(a, n) /\ AnotherOne(a, n)
    /\ account' = [account EXCEPT ![n] = [NewEpoch(n) EXCEPT
                      !.usable = TRUE, !.temporary = TRUE, !.failures = 0, !.locked = FALSE]]
    /\ sessions' = Revoke(n)

-----------------------------------------------------------------------------
(* The identity provider.                                                   *)

BeginSignIn ==
    /\ begun < SignIns /\ begun' = begun + 1
    /\ txns' = txns \union {begun + 1} /\ cookie' = begun + 1
    /\ UNCHANGED <<account, sessions, token, landed, edits, crashesLeft>>

\* oidc_txn_take
Take(t) == txns' = txns \ {t}

\* jit_provision: the account of the subject, whose role follows the provider
\* unless it is the last administrator's; else a local account in the way is
\* a conflict; else a new account, of another name if that one is taken.
OfSubject(s) == {n \in Names : account[n].exists /\ ~account[n].local /\ account[n].subject = s}
OfSubjectOrName(s) == OfSubject(s) \union {n \in {PreferredName[s]} : account[n].exists}
Known(s) == OfSubject(s)
InTheWay(s) == account[PreferredName[s]].exists /\ account[PreferredName[s]].local
NewName(s) == IF account[PreferredName[s]].exists THEN s ELSE PreferredName[s]
Synced(n, admin) ==
    IF account[n].local \/ (account[n].admin /\ ~admin /\ Cardinality(Admins) <= 1) THEN account[n]
    ELSE [account[n] EXCEPT !.admin = admin]
SignsIn(n) == sessions' = sessions \union {Issued(n)}
Lands(n, t) == SignsIn(n) /\ landed' = [landed EXCEPT ![t] = @ + 1] /\ cookie' = 0
LandsNowhere == UNCHANGED <<sessions, landed, cookie>>
Provision(s, t, admin) ==
    \/ \E n \in Known(s) :
          /\ account' = [account EXCEPT ![n] = [Synced(n, admin) EXCEPT !.local = FALSE, !.subject = s]]
          /\ Lands(n, t) /\ UNCHANGED crashesLeft
    \/ Known(s) = {} /\ InTheWay(s) /\ LandsNowhere /\ UNCHANGED <<account, crashesLeft>>
    \/ /\ Known(s) = {} /\ ~InTheWay(s) /\ ~account[NewName(s)].exists
       /\ \/ /\ account' = [account EXCEPT ![NewName(s)] =
                     [Row(admin, FALSE, FALSE) EXCEPT !.local = FALSE, !.subject = s]]
             /\ Lands(NewName(s), t) /\ UNCHANGED crashesLeft
          \* created, and the process died before it was linked
          \/ /\ crashesLeft > 0 /\ crashesLeft' = crashesLeft - 1
             /\ account' = [account EXCEPT ![NewName(s)] = Row(admin, FALSE, FALSE)]
             /\ LandsNowhere

\* The state must be the browser's; the provider's answer may be refused.
Callback(t, s, admin) ==
    /\ t \in 1 .. begun /\ cookie = t /\ UNCHANGED <<token, begun, edits>>
    /\ \/ t \in txns /\ Take(t) /\ Provision(s, t, admin)
       \/ t \in txns /\ Take(t) /\ LandsNowhere /\ UNCHANGED <<account, crashesLeft>>
       \/ t \notin txns /\ cookie' = 0 /\ UNCHANGED <<txns, account, sessions, landed, crashesLeft>>
\* auth_oidc_txn rows expire
TxnExpires(t) ==
    /\ t \in txns /\ txns' = txns \ {t}
    /\ UNCHANGED <<account, sessions, token, begun, cookie, landed, edits, crashesLeft>>

AccountsNext ==
    \/ \E n \in Names : Login(n) \/ LoginFails(n) \/ LockEnds(n) \/ MintToken(n) \/ TokenEnds(n) \/ ChangePassword(n)
    \/ \E s \in sessions : SessionEnds(s)
    \/ \E a, n \in Names, admin \in BOOLEAN : CreateUser(a, n, admin) \/ SetRole(a, n, admin)
    \/ \E a, n \in Names : Disable(a, n) \/ Enable(a, n) \/ ResetPassword(a, n)
    \/ BeginSignIn
    \/ \E t \in 1 .. SignIns : TxnExpires(t) \/ \E s \in Subjects, admin \in BOOLEAN : Callback(t, s, admin)
AccountsSpec == AccountsInit /\ [][AccountsNext]_accountVars

-----------------------------------------------------------------------------
(* Properties.                                                              *)

\* The type invariant: failures stay below the cap, and the lock started the
\* count anew.
AccountsTypeOK ==
    /\ \A n \in Names : account[n].failures < LockoutAttempts
    /\ \A n \in Names : account[n].subject # NobodyKnown => account[n].exists /\ ~account[n].local
    /\ txns \subseteq 1 .. begun

\* Whoever administers, and whatever the provider says of roles, an enabled
\* administrator is left.
AdminRemains == Admins # {}

\* A new password, a reset and disabling an account end every session that was
\* issued before.
OldSessionsEnd == \A s \in sessions : s.epoch = account[s.who].epoch

\* An account with a password of its own is never taken over by a sign-in
\* through the provider.
LocalStaysLocal ==
    [][\A n \in Names : account[n].exists /\ account[n].local => account'[n].local]_accountVars

\* A person of the provider has one account, and a sign-in is completed once.
OneAccountPerSubject ==
    /\ \A s \in Subjects : Cardinality(OfSubject(s)) <= 1
    /\ \A t \in 1 .. SignIns : landed[t] <= 1

\* The front door: somebody can always administer, nobody stays in on what was
\* taken from him, and no account changes hands through the provider.
AccountsAreKept ==
    []AdminRemains /\ []OldSessionsEnd /\ []OneAccountPerSubject /\ LocalStaysLocal
=============================================================================
