----------------------------- MODULE Proposals -----------------------------
(***************************************************************************)
(* What the scanning routines find: risk alerts and proposals, and how the  *)
(* inbox remembers them.  A scan turns the entries it counts into a level,  *)
(* the level into a band, and stores one inbox item per band, unless the    *)
(* item is there already, in whatever state; some families are also quiet   *)
(* for a window after any item of theirs.  Humans dismiss items or adopt    *)
(* proposals into a pipeline; stale memory is refreshed by a routine.       *)
(*                                                                         *)
(* One family is followed.  Ages are in days and stop at Window; keys of a  *)
(* past day, month or watch window are never built again, so the items of   *)
(* a past epoch are dropped.                                                *)
(***************************************************************************)
EXTENDS Integers, FiniteSets, FiniteSetsExt

CONSTANTS
    Window,      \* days a family counts back, and keeps quiet after an item
    MaxRows,     \* bound: entries of one day
    Threshold,   \* of the settings: the level a family speaks up at
    Edge         \* the level at which the next band begins

ASSUME SignalAssumption ==
    /\ Window \in Nat \ {0} /\ MaxRows \in Nat /\ Threshold \in Nat \ {0}
    /\ Edge \in Nat /\ Threshold < Edge

VARIABLES
    family,     \* the family that is followed
    rows,       \* entries by age: redos, frictions, errors, dollars, commits
    live,       \* the feature has a live successor
    capped,     \* the daily run cap or the budget is reached
    upkeep,     \* the memory routine is on
    note,       \* the inbox item of each band
    adopter,    \* per kind of adoption, the band whose job it is about to take in
    taken,      \* job rows taken in from proposals, by kind and band
    refused,    \* bands whose item records an intake error
    cut,        \* (history) bands whose adoption died halfway
    memory      \* the memory job of the repository

signalVars == <<family, rows, live, capped, upkeep, note, adopter, taken, refused, cut, memory>>

\* "recurring" stands for frictions and for Sentry clusters.
Families == {"redo", "spike", "watch", "spend", "recurring", "memory", "outcome"}
ProposalFamilies == {"recurring", "memory", "outcome"}
Guarded == {"recurring", "memory"}
EpochFamilies == {"spike", "watch", "spend"}
Ages == 0 .. Window - 1
Bands == 1 .. MaxRows * Window
Untaken == 0
MemoryActive == {"queued", "running", "awaiting_input"}
NoNote == [status |-> "none", age |-> Window]

SignalInit ==
    /\ family \in Families
    /\ rows = [a \in Ages |-> 0]
    /\ live = FALSE /\ capped = FALSE /\ upkeep \in BOOLEAN
    /\ note = [b \in Bands |-> NoNote]
    /\ adopter = [k \in {"feature", "task"} |-> Untaken]
    /\ taken = {} /\ refused = {} /\ cut = {}
    /\ memory = [status |-> "none", age |-> Window]

-----------------------------------------------------------------------------
(* Levels and bands.                                                        *)

\* A spike counts the last 24 hours, everything else its window.
Level == IF family = "spike" THEN rows[0] ELSE MapThenSumSet(LAMBDA a : rows[a], Ages)

\* redo_alerts: every count is a band of its own
RedoBand(n) == n
\* count_bucket, staleness_bucket and SPEND_PCT_BUCKETS: wide bands
WideBand(n) == IF n >= Edge THEN Edge ELSE Threshold
\* one key per issue and day, watch window, verdict and learning
OnlyBand(n) == Threshold
Band ==
    LET n == Level
    IN IF n < Threshold THEN 0
       ELSE CASE family = "redo" -> RedoBand(n)
              [] family \in {"recurring", "memory", "spend"} -> WideBand(n)
              [] family \in {"spike", "watch", "outcome"} -> OnlyBand(n)

-----------------------------------------------------------------------------
(* The world.                                                               *)

Grows ==
    /\ rows[0] < MaxRows
    /\ rows' = [rows EXCEPT ![0] = @ + 1]
    /\ UNCHANGED <<family, live, capped, upkeep, note, adopter, taken, refused, cut, memory>>

\* A day passes: entries age out of the window, and a day, a month or a watch
\* window may end.
Older(a) == IF a < Window THEN a + 1 ELSE a
DayPasses ==
    /\ \A k \in DOMAIN adopter : adopter[k] = Untaken
    /\ \E ends \in BOOLEAN :
        /\ ends => family \in EpochFamilies
        /\ family = "spike" => ends
        /\ \E new \in 0 .. MaxRows :
            rows' = [a \in Ages |-> IF a = 0 THEN new ELSE IF ends THEN 0 ELSE rows[a - 1]]
        /\ note' = [b \in Bands |-> IF ends THEN NoNote ELSE [note[b] EXCEPT !.age = Older(@)]]
    /\ memory' = [memory EXCEPT !.age = Older(@)]
    /\ capped' \in BOOLEAN
    /\ UNCHANGED <<family, live, upkeep, adopter, taken, refused, cut>>

\* _has_live_successor: a follow-up is taken in, or ends
SuccessorChanges ==
    /\ family = "outcome" /\ live' = ~live
    /\ UNCHANGED <<family, rows, capped, upkeep, note, adopter, taken, refused, cut, memory>>

-----------------------------------------------------------------------------
(* The scans.                                                               *)

\* inbox_item_recent_sig: any item of the family, whatever became of it
RecentOpenSig == \E b \in Bands : note[b].status = "open" /\ note[b].age < Window
RecentSig == \E b \in Bands : note[b].status # "none" /\ note[b].age < Window

\* A stale repository is proposed only where the upkeep will not act by itself.
UpkeepActs == upkeep /\ memory.age >= Window
MemorySpeaks == family = "memory" => ~UpkeepActs
\* No iteration is proposed of what is being iterated on.
OutcomeSpeaks == family = "outcome" => ~live
Speaks ==
    /\ Band > 0 /\ MemorySpeaks /\ OutcomeSpeaks
    /\ family \in Guarded => ~RecentSig

\* _handle_risk_scan and _handle_proposal_scan: the insert does nothing when
\* the key is there.
Scan ==
    /\ Speaks /\ note[Band].status = "none"
    /\ note' = [note EXCEPT ![Band] = [status |-> "open", age |-> 0]]
    /\ UNCHANGED <<family, rows, live, capped, upkeep, adopter, taken, refused, cut, memory>>

\* inbox_items_expire: the janitor lets old alerts expire, never a proposal.
Expires(b) == note[b].status = "open" /\ note[b].age = Window /\ family \notin ProposalFamilies
ExpireAlert(b) ==
    /\ Expires(b)
    /\ note' = [note EXCEPT ![b].status = "expired"]
    /\ UNCHANGED <<family, rows, live, capped, upkeep, adopter, taken, refused, cut, memory>>

-----------------------------------------------------------------------------
(* Humans.                                                                  *)

\* inbox_item_resolve
Resolves(b) == note[b].status = "open"

Dismiss(b) ==
    /\ Resolves(b)
    /\ note' = [note EXCEPT ![b].status = "dismissed"]
    /\ UNCHANGED <<family, rows, live, capped, upkeep, adopter, taken, refused, cut, memory>>

\* POST .../adopt: the item is resolved first, then the job is taken in.
Adopt(k, b) ==
    /\ family \in ProposalFamilies /\ adopter[k] = Untaken /\ Resolves(b)
    /\ note' = [note EXCEPT ![b].status = "adopted"]
    /\ adopter' = [adopter EXCEPT ![k] = b]
    /\ UNCHANGED <<family, rows, live, capped, upkeep, taken, refused, cut, memory>>

\* The intake fails: the item stays adopted and says so.
RecordsError(b) == refused \union {b}
TakeIn(k) ==
    /\ adopter[k] # Untaken
    /\ \/ taken' = taken \union {<<k, adopter[k]>>} /\ UNCHANGED refused
       \/ refused' = RecordsError(adopter[k]) /\ UNCHANGED taken
    /\ adopter' = [adopter EXCEPT ![k] = Untaken]
    /\ UNCHANGED <<family, rows, live, capped, upkeep, note, cut, memory>>

AdopterDies(k) ==
    /\ adopter[k] # Untaken
    /\ cut' = cut \union {adopter[k]}
    /\ adopter' = [adopter EXCEPT ![k] = Untaken]
    /\ UNCHANGED <<family, rows, live, capped, upkeep, note, taken, refused, memory>>

-----------------------------------------------------------------------------
(* The memory job.                                                          *)

\* intake_memory: refused while one is active
BootstrapMemory ==
    /\ memory.status \notin MemoryActive
    /\ memory' = [status |-> "queued", age |-> 0]

ManualBootstrap ==
    /\ family = "memory" /\ BootstrapMemory
    /\ UNCHANGED <<family, rows, live, capped, upkeep, note, adopter, taken, refused, cut>>

\* _handle_memory_upkeep: at most one per window, within caps
Upkeep ==
    /\ family = "memory" /\ upkeep /\ Band > 0 /\ ~capped
    /\ memory.age >= Window
    /\ BootstrapMemory
    /\ UNCHANGED <<family, rows, live, capped, upkeep, note, adopter, taken, refused, cut>>

\* The job runs, parks a draft and is reviewed; a merged draft ends the
\* staleness.
MemoryMoves ==
    /\ memory.status \in MemoryActive
    /\ \/ /\ memory.status = "queued" /\ memory' = [status |-> "running", age |-> 0]
          /\ UNCHANGED rows
       \/ /\ memory.status = "running"
          /\ \E s \in {"awaiting_input", "error"} : memory' = [status |-> s, age |-> 0]
          /\ UNCHANGED rows
       \/ /\ memory.status = "awaiting_input"
          /\ memory' = [status |-> "done", age |-> 0]
          /\ rows' \in {rows, [a \in Ages |-> 0]}
    /\ UNCHANGED <<family, live, capped, upkeep, note, adopter, taken, refused, cut>>

SignalNext ==
    \/ Grows \/ DayPasses \/ SuccessorChanges \/ Scan
    \/ ManualBootstrap \/ Upkeep \/ MemoryMoves
    \/ \E b \in Bands : ExpireAlert(b) \/ Dismiss(b)
    \/ \E k \in {"feature", "task"} :
        \/ TakeIn(k) \/ AdopterDies(k)
        \/ \E b \in Bands : Adopt(k, b)

SignalSpec == SignalInit /\ [][SignalNext]_signalVars

-----------------------------------------------------------------------------
(* Properties.                                                              *)

\* The type invariant.
SignalTypeOK ==
    /\ rows \in [Ages -> 0 .. MaxRows]
    /\ note \in [Bands -> [status : {"none", "open", "dismissed", "adopted", "expired"},
                           age : 0 .. Window]]
    /\ \A b \in Bands : note[b].status = "expired" => family \notin ProposalFamilies
    /\ memory \in [status : MemoryActive \union {"none", "done", "error"}, age : 0 .. Window]
    /\ adopter \in [{"feature", "task"} -> Bands \union {Untaken}]
    /\ refused \union cut \subseteq Bands

\* However the count wavers between bands, a family that honours the window
\* proposes once in it: a dismissal is not answered with the next band's brief.
QuietAfterItem ==
    family \in Guarded =>
        \A b, c \in Bands : b # c /\ note[b].age < Window => note[c].age = Window

\* A proposal becomes one job at most, of one kind, and none once it was
\* dismissed, however dismissals and adoptions race.
OneJobPerProposal ==
    \A b \in Bands :
        LET of == {k \in {"feature", "task"} : <<k, b>> \in taken \/ adopter[k] = b}
        IN Cardinality(of) <= 1 /\ (of # {} => note[b].status = "adopted")

\* An adopted proposal has its job, says why it has none, or is on its way; the
\* only other case is a process that died between the two writes.
AdoptedIsTakenIn ==
    \A b \in Bands : note[b].status = "adopted" =>
        \/ \E k \in {"feature", "task"} : <<k, b>> \in taken \/ adopter[k] = b
        \/ b \in refused \union cut

\* A proposal is made once in its window, becomes one job, and is not lost when
\* it was adopted.
ProposalsAreKept == QuietAfterItem /\ OneJobPerProposal /\ AdoptedIsTakenIn

\* Fair: days pass, routines fire, the memory job goes on and is
\* reviewed.
SignalFairness ==
    /\ WF_signalVars(DayPasses) /\ WF_signalVars(Scan) /\ WF_signalVars(Upkeep)
    /\ WF_signalVars(MemoryMoves)
    /\ \A k \in {"feature", "task"} : WF_signalVars(TakeIn(k))
SignalFairSpec == SignalSpec /\ SignalFairness

\* What a scan counts has its item, or stale memory its job; nothing is due while
\* a successor is on its way or the caps are reached.  Pain that stays is to be
\* brought up, however quiet the family had to keep at first.
PainIsNoted ==
    \/ Band = 0 \/ live \/ capped
    \/ note[Band].status # "none" \/ memory.status \in MemoryActive
=============================================================================
