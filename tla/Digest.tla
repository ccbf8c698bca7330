------------------------------- MODULE Digest -------------------------------
(***************************************************************************)
(* The two routines that report: the daily standup digest (exceptions only) *)
(* and the weekly planning pack.  A firing builds the report, stores it as  *)
(* an inbox item keyed by its period, lets it expire its predecessors, and  *)
(* only then sends it to Slack.                                             *)
(*                                                                         *)
(* Time is counted in half periods; the slot of a period (09:00, or Monday  *)
(* 09:00) is in its middle, so the odd moments are the due ones.  How a     *)
(* firing is claimed is the subject of Routines; here the claim is atomic.  *)
(***************************************************************************)
EXTENDS Integers, FiniteSets, FiniteSetsExt

CONSTANTS
    Firers,       \* worker processes
    Events,       \* what may be worth a line: SLA flags, autonomy changes
    LastMoment,   \* bound of the clock
    DigestLimit   \* how often each outside event may happen

DigestEvents == {"ask", "crash", "fault"}

ASSUME DigestAssumption ==
    /\ LastMoment \in Nat /\ DigestLimit \in [DigestEvents -> Nat]

VARIABLES
    now,      \* the current moment
    report,   \* which of the two routines this is
    stamp,    \* the routine's last_run_at
    anchor,   \* start of its last ok or quiet run
    event,    \* when each event happened, NotYet before
    told,     \* events in some stored report
    item,     \* status of the inbox item of each period
    sent,     \* Slack messages of each period
    author,   \* per process, its firing
    dleft     \* how often each outside event may still happen

digestVars == <<now, report, stamp, anchor, event, told, item, sent, author, dleft>>

Moments == 0 .. LastMoment
Periods == 0 .. LastMoment \div 2
NotYet == LastMoment + 1
Never == -1                 \* no successful run
NoFiring == [pc |-> "idle", period |-> 0, started |-> 0]
Terminal == {"dismissed", "expired"}

Costs(e) == dleft[e] > 0 /\ dleft' = [dleft EXCEPT ![e] = @ - 1]
Between == \E p \in Firers : author[p].pc \in {"opened", "added"}

DigestInit ==
    /\ now = 0 /\ report \in {"standup_digest", "planning_pack"}
    /\ stamp = 0 /\ anchor = Never
    /\ event = [e \in Events |-> NotYet] /\ told = {}
    /\ item = [k \in Periods |-> "none"] /\ sent = [k \in Periods |-> 0]
    /\ author = [p \in Firers |-> NoFiring]
    /\ dleft = DigestLimit

-----------------------------------------------------------------------------
\* A firing takes no time up to its first await, the Slack call.
Passes ==
    /\ now < LastMoment /\ ~Between
    /\ now' = now + 1
    /\ UNCHANGED <<report, stamp, anchor, event, told, item, sent, author, dleft>>

Happens(e) ==
    /\ event[e] = NotYet
    /\ event' = [event EXCEPT ![e] = now]
    /\ UNCHANGED <<now, report, stamp, anchor, told, item, sent, author, dleft>>

SlotCame == \E t \in Moments : t % 2 = 1 /\ stamp < t /\ t <= now

\* Claimed because the slot came, or because somebody asked.
ClaimSlot(p) ==
    /\ author[p].pc = "idle"
    /\ \/ SlotCame /\ UNCHANGED dleft
       \/ Costs("ask")
    /\ stamp' = now
    /\ author' = [author EXCEPT ![p] = [pc |-> "opened", period |-> now \div 2, started |-> now]]
    /\ UNCHANGED <<now, report, anchor, event, told, item, sent>>

\* The standup covers what came since its last useful run, but one period at
\* most; the pack always covers one period.
Since == IF report = "standup_digest" THEN Max({anchor, now - 2}) ELSE now - 2
Content == {e \in Events : event[e] # NotYet /\ event[e] >= Since}
\* build_standup has nothing to say when every section is empty (standing:
\* overdue gates, blocked runs, watches, budget); the pack always has.
Quiet(standing) == report = "standup_digest" /\ Content = {} /\ ~standing

\* The run is closed; only an ok or quiet one moves the anchor.
AnyRun(p, useful) == Max({anchor, author[p].started})
LastSuccess(p, useful) == IF useful THEN Max({anchor, author[p].started}) ELSE anchor
Closes(p, useful) ==
    /\ author' = [author EXCEPT ![p] = NoFiring]
    /\ anchor' = LastSuccess(p, useful)

\* inbox_item_add inserts or does nothing: is the row new
IsNew(k) == item[k] = "none"

Build(p) ==
    /\ author[p].pc = "opened"
    /\ LET k == author[p].period
       IN \/ /\ \E standing \in BOOLEAN : Quiet(standing)
             /\ Closes(p, TRUE)
             /\ UNCHANGED <<item, told, dleft>>
          \/ /\ ~IsNew(k) /\ Closes(p, TRUE)
             /\ UNCHANGED <<item, told, dleft>>
          \/ /\ IsNew(k)
             /\ item' = [item EXCEPT ![k] = "open"]
             /\ told' = told \union Content
             /\ author' = [author EXCEPT ![p].pc = "added"]
             /\ UNCHANGED <<anchor, dleft>>
          \/ /\ Costs("fault") /\ Closes(p, FALSE)
             /\ UNCHANGED <<item, told>>
    /\ UNCHANGED <<now, report, stamp, event, sent>>

\* inbox_expire_predecessors: the open ones stored before it
Predecessors(k) == {j \in Periods : j < k /\ item[j] = "open"}
Expired(R) == [j \in Periods |-> IF j \in R THEN "expired" ELSE item[j]]

ExpireAndSend(p) ==
    /\ author[p].pc = "added"
    /\ LET k == author[p].period
       IN \/ /\ item' = Expired(Predecessors(k))
             /\ sent' = [sent EXCEPT ![k] = @ + 1]
             /\ author' = [author EXCEPT ![p].pc = "sending"]
             /\ UNCHANGED <<anchor, dleft>>
          \/ /\ Costs("fault") /\ Closes(p, FALSE)
             /\ UNCHANGED <<item, sent>>
    /\ UNCHANGED <<now, report, stamp, event, told>>

\* The Slack call never raises.
SendReturns(p) ==
    /\ author[p].pc = "sending"
    /\ Closes(p, TRUE)
    /\ UNCHANGED <<now, report, stamp, event, told, item, sent, dleft>>

FirerDies(p) ==
    /\ author[p].pc # "idle" /\ Costs("crash")
    /\ author' = [author EXCEPT ![p] = NoFiring]
    /\ UNCHANGED <<now, report, stamp, anchor, event, told, item, sent>>

\* POST /api/inbox/notices/{id}/dismiss and inbox_items_expire: both compare
\* the status.
StillOpen(k) == item[k] = "open"
DismissDigest(k) ==
    /\ StillOpen(k)
    /\ item' = [item EXCEPT ![k] = "dismissed"]
    /\ UNCHANGED <<now, report, stamp, anchor, event, told, sent, author, dleft>>

JanitorExpires ==
    /\ LET stale == {k \in Periods : k < now \div 2 /\ StillOpen(k)}
       IN stale # {} /\ item' = Expired(stale)
    /\ UNCHANGED <<now, report, stamp, anchor, event, told, sent, author, dleft>>

DigestNext ==
    \/ Passes \/ JanitorExpires
    \/ \E e \in Events : Happens(e)
    \/ \E k \in Periods : DismissDigest(k)
    \/ \E p \in Firers :
        ClaimSlot(p) \/ Build(p) \/ ExpireAndSend(p) \/ SendReturns(p) \/ FirerDies(p)

DigestSpec == DigestInit /\ [][DigestNext]_digestVars

-----------------------------------------------------------------------------
(* Properties.                                                              *)

\* The type invariant; the period that is being written is stored, and the
\* anchor never runs ahead of the clock.
DigestTypeOK ==
    /\ now \in Moments /\ stamp \in 0 .. now /\ anchor \in Never .. now
    /\ \A e \in Events : event[e] \in 0 .. now \union {NotYet}
    /\ told \subseteq {e \in Events : event[e] # NotYet}
    /\ item \in [Periods -> {"none", "open"} \union Terminal]
    /\ \A p \in Firers : author[p].pc \in {"added", "sending"} => item[author[p].period] # "none"
    /\ dleft \in [DigestEvents -> Nat]

\* Whoever fires, fails or dies, a period is announced once at most, and only
\* when it is in the inbox (the row is stored before the send).
AnnouncedOnce == \A k \in Periods : sent[k] <= 1 /\ (sent[k] = 1 => item[k] # "none")

\* Unread reports do not pile up: beside the newest one only as many are open
\* as firings died or failed before they expired their predecessors.
NoPileUp ==
    LET lost == DigestLimit["crash"] - dleft["crash"] + DigestLimit["fault"] - dleft["fault"]
        busy == {p \in Firers : author[p].pc = "added"}
    IN Cardinality({k \in Periods : item[k] = "open"}) <= 1 + lost + Cardinality(busy)

\* An item that was dismissed or has expired stays what it is: its key is the
\* memory that keeps the report from coming back.
ResolvedStays ==
    [][\A k \in Periods : item[k] \in Terminal => item'[k] = item[k]]_digestVars

\* What a useful run leaves behind its anchor was told, or happened in a day
\* that had its digest already: a firing that failed or died moves no anchor,
\* so the next one makes up for it (routine_last_success).
UntoldCameAfterItsDigest ==
    [][report = "standup_digest" /\ anchor' # anchor =>
         \A e \in Events :
            Since <= event[e] /\ event[e] < anchor' /\ e \notin told' =>
                item[event[e] \div 2] # "none"]_digestVars

\* A report comes once, leaves few unread before it and tells what the last one
\* did not, however firings race, fail and die.
DigestsAreExact ==
    []AnnouncedOnce /\ []NoPileUp /\ ResolvedStays /\ UntoldCameAfterItsDigest
=============================================================================
