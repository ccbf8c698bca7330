------------------------------ MODULE VerbScan ------------------------------
(***************************************************************************)
(* Gate answers by ticket comment.  A poll reads the waiting jobs once and   *)
(* scans, for each, the comments of its ticket, past a marker that is stored  *)
(* with the job, and those of its artifact subtasks, past the time the gate  *)
(* was posted.  Every ClickUp call awaits, so gates are answered and parked   *)
(* while a poll holds an old row.                                            *)
(*                                                                         *)
(* One feature job and one subtask are followed; every gate is a stage of    *)
(* its own.  Comments are numbered in the order they are written, so a       *)
(* number also is a date.                                                    *)
(***************************************************************************)
EXTENDS Integers, Sequences, FiniteSets

CONSTANTS
    Pollers,       \* processes
    Gates,         \* the gates the job may be parked at, 1 .. n
    MaxComments,   \* bound of the comments
    Attributed,    \* attribution_required: a verb needs a linked account
    ScanLimit      \* how many pollers may die

ASSUME ScanAssumption ==
    /\ IsFiniteSet(Gates) /\ Gates = 1 .. Cardinality(Gates) /\ MaxComments \in Nat
    /\ Attributed \in BOOLEAN /\ ScanLimit \in Nat

VARIABLES
    gate,        \* the newest gate; 0 before the first one
    waits,       \* the job is at awaiting_input
    posted,      \* per gate, how many comments there were when it was posted
    marker,      \* the job's comment_marker; 0 is empty
    comments,    \* all comments
    refusals,    \* gate_events: comments that were refused
    replies,     \* (history) per comment, refusals that were sent, at most 2
    applied,     \* (history) pairs <<comment, gate it answered>>
    poll,        \* per process, its poll
    deaths       \* how many pollers may still die

scanVars == <<gate, waits, posted, marker, comments, refusals, replies, applied, poll, deaths>>

Streams == {"ticket", "subtask"}
\* "bad" is a verb answer_job raises ValueError for: /redo of a later stage.
\* What others than the owner say with a verb makes no difference.
Texts == [stream : Streams, author : {"owner"}, verb : {"proceed", "bad"}]
         \union [stream : Streams, author : {"other", "stranger"}, verb : {"proceed"}]
         \union [stream : Streams, author : {"other"}, verb : {"talk"}]
         \union [stream : {"ticket"}, author : {"engine"}, verb : {"talk"}]
NoPoll == [pc |-> "idle", gate |-> 0, marker |-> 0, end |-> 0, next |-> 0, marked |-> FALSE]
Numbers == 1 .. MaxComments

ScanInit ==
    /\ gate = 0 /\ waits = FALSE /\ posted = [g \in Gates |-> 0]
    /\ marker = 0 /\ comments = <<>>
    /\ refusals = {} /\ replies = [c \in Numbers |-> 0] /\ applied = {}
    /\ poll = [p \in Pollers |-> NoPoll] /\ deaths = ScanLimit

-----------------------------------------------------------------------------
(* The job and the people.                                                  *)

\* _park reads the comments for the marker; a failed read leaves it empty.
OnTicket(n) == {c \in 1 .. n : comments[c].stream = "ticket"}
LastOnTicket(n) == IF OnTicket(n) = {} THEN 0 ELSE CHOOSE c \in OnTicket(n) : \A d \in OnTicket(n) : d <= c
ParkAtGate ==
    /\ ~waits /\ gate + 1 \in Gates
    /\ gate' = gate + 1 /\ waits' = TRUE
    /\ posted' = [posted EXCEPT ![gate + 1] = Len(comments)]
    /\ marker' \in {LastOnTicket(Len(comments)), 0}
    /\ UNCHANGED <<comments, refusals, replies, applied, poll, deaths>>

Write ==
    /\ Len(comments) < MaxComments
    /\ \E text \in Texts : comments' = Append(comments, text)
    /\ UNCHANGED <<gate, waits, posted, marker, refusals, replies, applied, poll, deaths>>

AnswerOnDashboard ==
    /\ waits /\ waits' = FALSE
    /\ UNCHANGED <<gate, posted, marker, comments, refusals, replies, applied, poll, deaths>>

-----------------------------------------------------------------------------
(* A poll.                                                                  *)

\* _poll_awaiting: the rows of all waiting jobs, of which this is one
StartPoll(p) ==
    /\ poll[p].pc = "idle" /\ waits
    /\ poll' = [poll EXCEPT ![p] = [NoPoll EXCEPT !.pc = "ticket", !.gate = gate, !.marker = marker]]
    /\ UNCHANGED <<gate, waits, posted, marker, comments, refusals, replies, applied, deaths>>

\* _scan_verbs: the comments arrive.  Without a marker, and on a subtask, the
\* scan begins where the gate of the row was posted.
Marked(p) == poll[p].pc = "ticket" /\ poll[p].marker # 0
Begins(p) ==
    IF Marked(p) THEN poll[p].marker + 1
    ELSE posted[poll[p].gate] + 1
Scanned(p) == IF poll[p].pc = "ticket" THEN "onTicket" ELSE "onSubtask"
CommentsArrive(p) ==
    /\ poll[p].pc \in Streams
    /\ poll' = [poll EXCEPT ![p] = [@ EXCEPT !.pc = Scanned(p), !.next = Begins(p),
                    !.end = Len(comments), !.marked = Marked(p)]]
    /\ UNCHANGED <<gate, waits, posted, marker, comments, refusals, replies, applied, deaths>>

StreamOf(p) == IF poll[p].pc = "onTicket" THEN "ticket" ELSE "subtask"
At(p) == comments[poll[p].next]
Reads(p) ==
    /\ poll[p].pc \in {"onTicket", "onSubtask"} /\ poll[p].next <= poll[p].end
    /\ At(p).stream = StreamOf(p)
Moves(p) == poll' = [poll EXCEPT ![p].next = @ + 1]
EndsPoll(p) == poll' = [poll EXCEPT ![p] = NoPoll]
Marks(p, c) == marker' = IF poll[p].marked THEN c ELSE marker

\* Comments of the other stream are not in the list.
PassOver(p) ==
    /\ poll[p].pc \in {"onTicket", "onSubtask"} /\ poll[p].next <= poll[p].end
    /\ At(p).stream # StreamOf(p)
    /\ Moves(p)
    /\ UNCHANGED <<gate, waits, posted, marker, comments, refusals, replies, applied, deaths>>

\* Nothing was handled: after the ticket comes the subtask.
NoMoreComments(p) ==
    /\ poll[p].pc \in {"onTicket", "onSubtask"} /\ poll[p].next > poll[p].end
    /\ IF poll[p].pc = "onTicket" THEN poll' = [poll EXCEPT ![p].pc = "subtask"] ELSE EndsPoll(p)
    /\ UNCHANGED <<gate, waits, posted, marker, comments, refusals, replies, applied, deaths>>

\* Engine posts are inert; a conversational reply on the marked ticket is
\* pointed to the verbs, and marked when that was sent.
ReadTalk(p) ==
    /\ Reads(p) /\ At(p).verb = "talk"
    /\ IF At(p).author = "engine" \/ ~poll[p].marked
       THEN Moves(p) /\ (IF At(p).author = "engine" THEN Marks(p, poll[p].next) ELSE UNCHANGED marker)
       ELSE poll' = [poll EXCEPT ![p].pc = "nudged"] /\ UNCHANGED marker
    /\ UNCHANGED <<gate, waits, posted, comments, refusals, replies, applied, deaths>>

NudgeSent(p) ==
    /\ poll[p].pc = "nudged"
    /\ Marks(p, poll[p].next)
    /\ poll' = [poll EXCEPT ![p] = [@ EXCEPT !.pc = "onTicket", !.next = poll[p].next + 1]]
    /\ UNCHANGED <<gate, waits, posted, comments, refusals, replies, applied, deaths>>

\* Who may: an unlinked account only where attribution is off, and never for a
\* gate that somebody owns.
Unattributed(p) == At(p).author = "stranger" /\ Attributed
IsOwner(p) == At(p).author = "owner"

\* A refusal is stored and marked before it is sent; one that is stored is
\* passed over.
AlwaysFirst(c) == TRUE
FirstRefusal(c) == c \notin refusals
Refuse(p) ==
    /\ Reads(p) /\ At(p).verb # "talk" /\ (Unattributed(p) \/ ~IsOwner(p))
    /\ LET c == poll[p].next
       IN /\ refusals' = refusals \union {c}
          /\ Marks(p, c)
          /\ IF FirstRefusal(c) THEN replies' = [replies EXCEPT ![c] = IF @ = 2 THEN 2 ELSE @ + 1] /\ EndsPoll(p)
                                ELSE UNCHANGED replies /\ Moves(p)
    /\ UNCHANGED <<gate, waits, posted, comments, applied, deaths>>

\* answer_job reads the row again: it answers the gate that is open now.
AppliesVerb(p) ==
    /\ Reads(p) /\ At(p).verb = "proceed" /\ ~Unattributed(p) /\ IsOwner(p) /\ waits
    /\ applied' = applied \union {<<poll[p].next, gate>>}
    /\ waits' = FALSE
    /\ poll' = [poll EXCEPT ![p].pc = "handled"]
    /\ UNCHANGED <<gate, posted, marker, comments, refusals, replies, deaths>>

\* ValueError: a bad verb, or no gate is open any more; the reply is awaited.
CannotApply(p) ==
    /\ Reads(p) /\ ~Unattributed(p) /\ IsOwner(p)
    /\ At(p).verb = "bad" \/ (At(p).verb = "proceed" /\ ~waits)
    /\ poll' = [poll EXCEPT ![p].pc = "handled"]
    /\ UNCHANGED <<gate, waits, posted, marker, comments, refusals, replies, applied, deaths>>

\* The verb is marked when all it did is done, and the poll of this job ends.
MarkHandled(p) ==
    /\ poll[p].pc = "handled"
    /\ Marks(p, poll[p].next) /\ EndsPoll(p)
    /\ UNCHANGED <<gate, waits, posted, comments, refusals, replies, applied, deaths>>

PollerDies(p) ==
    /\ poll[p].pc # "idle" /\ deaths > 0
    /\ deaths' = deaths - 1 /\ EndsPoll(p)
    /\ UNCHANGED <<gate, waits, posted, marker, comments, refusals, replies, applied>>

PollStep(p) ==
    \/ CommentsArrive(p) \/ PassOver(p) \/ NoMoreComments(p) \/ ReadTalk(p) \/ NudgeSent(p)
    \/ Refuse(p) \/ AppliesVerb(p) \/ CannotApply(p) \/ MarkHandled(p)
ScanNext ==
    \/ ParkAtGate \/ Write \/ AnswerOnDashboard
    \/ \E p \in Pollers : StartPoll(p) \/ PollStep(p) \/ PollerDies(p)

ScanSpec == ScanInit /\ [][ScanNext]_scanVars

-----------------------------------------------------------------------------
(* Properties.                                                              *)

\* The type invariant.
ScanTypeOK ==
    /\ gate \in Gates \union {0} /\ (waits => gate # 0)
    /\ posted \in [Gates -> 0 .. Len(comments)]
    /\ marker \in 0 .. Len(comments) /\ (marker # 0 => comments[marker].stream = "ticket")
    /\ refusals \subseteq 1 .. Len(comments)
    /\ \A p \in Pollers : poll[p].pc # "idle" => poll[p].gate \in 1 .. gate /\ poll[p].end <= Len(comments)
    /\ deaths \in Nat

\* A refused comment is answered once at most, on the subtask too, where no
\* marker keeps later polls from reading it again, and whoever dies.
RefusedOnce == \A c \in Numbers : replies[c] <= 1

\* A gate is answered by its owner only, and a comment answers one gate: the
\* same comment never approves the next stage as well.
OneGatePerVerb ==
    /\ \A x \in applied : comments[x[1]].author = "owner"
    /\ \A x, y \in applied : x[1] = y[1] => x = y

\* A comment has one effect: it answers one gate, or it is refused once.
OneEffectPerComment == RefusedOnce /\ OneGatePerVerb

\* Fair: pollers poll.
ScanFairness ==
    \A p \in Pollers : WF_scanVars(StartPoll(p)) /\ WF_scanVars(PollStep(p))
ScanFairSpec == ScanSpec /\ ScanFairness

\* The verbs after the newest gate that name it, by the owner
Heard(stream, verb) ==
    \E c \in 1 .. Len(comments) :
        gate # 0 /\ c > posted[gate] /\ comments[c] = [stream |-> stream, author |-> "owner", verb |-> verb]
Wedged == Heard("subtask", "bad") \/ (marker = 0 /\ Heard("ticket", "bad"))

\* No verb of the owner waits on the ticket: each is to be heard, whatever was
\* said and refused before it; only a verb that could not be applied, where no
\* marker passes it over, may stand in the way.
OwnerIsHeard == ~waits \/ ~Heard("ticket", "proceed") \/ Wedged
=============================================================================
