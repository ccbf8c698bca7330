------------------------------ MODULE Shepherd ------------------------------
(***************************************************************************)
(* One pull request under Sentry review.  A pipeline run opens it, pushes   *)
(* to it and reports it (Engine.record_prs: the kickoff, or a new kick when *)
(* the head moved after an approval); the shepherd passes of all worker     *)
(* processes drive it (Worker._shepherd_pr): fix what the bot found, reply, *)
(* ask for another review, until the clean pass, the round cap, a merge or  *)
(* a close.                                                                 *)
(*                                                                         *)
(* A step ends at an await.  It writes what the answer of the previous call *)
(* entails and makes the next call, whose answer is what GitHub holds then. *)
(***************************************************************************)
EXTENDS Integers, FiniteSets

CONSTANTS
    Shepherds,   \* worker processes
    NoOne,       \* holder of a free lock
    Findings,    \* what the bot may ever report
    MaxRounds,   \* pr_max_review_rounds
    ReviewLimit  \* how often each outside event may happen

\* "fault": a call or a fix run that fails, or a pass whose process dies.
\* "lost": a fault at a place where nobody asks for the review again: between
\* the replies and the next trigger, or with the row still a draft.
ReviewEvents == {"push", "fault", "lost"}

ASSUME ReviewAssumption ==
    /\ NoOne \notin Shepherds /\ IsFiniteSet(Findings)
    /\ MaxRounds \in Nat \ {0}
    /\ ReviewLimit \in [ReviewEvents -> Nat]

VARIABLES
    pr,      \* on GitHub: life, draft, head
    bot,     \* on GitHub: triggers posted, the one under review and its head,
             \* the last one cheered, the heads found clean
    flagged, \* findings the bot has open
    opened,   \* findings the bot ever opened
    replied, \* findings that carry a reply of ours
    prow,     \* the prs row: state, rounds, approved head
    kick,    \* the run's record_prs: where it is, what it remembers
    prLock,  \* holder of the lock shepherd-pr:<url>
    pass,    \* per process, its shepherd pass: where it is, what it remembers
    rleft    \* how often each outside event may still happen

reviewVars == <<pr, bot, flagged, opened, replied, prow, kick, prLock, pass, rleft>>
hubVars == <<pr, bot, flagged, opened, replied>>

DrivenStates    == {"ready", "in_review"}                  \* SHEPHERD_STATES
MergeScanStates == {"approved", "stalled", "draft"}        \* MERGE_SCAN_STATES
Scanned    == DrivenStates \union MergeScanStates

Heads == 0 .. ReviewLimit["push"] + Cardinality(Findings)
NoPass == [pc |-> "idle", state |-> "none", rounds |-> 0, head |-> 0,
           life |-> "open", draft |-> FALSE, trigger |-> 0, todo |-> {}]
NoKick == [pc |-> "idle", ok |-> FALSE, rounds |-> 0]

Uses(e) == rleft[e] > 0 /\ rleft' = [rleft EXCEPT ![e] = @ - 1]

ReviewInit ==
    /\ pr = [life |-> "open", draft |-> TRUE, head |-> 0]
    /\ bot = [triggers |-> 0, reviewing |-> 0, head |-> 0, handled |-> 0,
              cheered |-> 0, clean |-> {}]
    /\ flagged = {} /\ opened = {} /\ replied = {}
    /\ prow = [state |-> "none", rounds |-> 0, approved |-> 0]
    /\ kick = NoKick
    /\ prLock = NoOne /\ pass = [w \in Shepherds |-> NoPass]
    /\ rleft = ReviewLimit

-----------------------------------------------------------------------------
(* GitHub, the review bot and the humans.                                   *)

\* What the client's calls see and do when they succeed.
Fetched(local) == [local EXCEPT !.head = pr.head, !.life = pr.life, !.draft = pr.draft]
MarkReady == pr' = [pr EXCEPT !.draft = FALSE]
Trigger == bot' = [bot EXCEPT !.triggers = @ + 1]

BotStarts ==
    /\ bot.reviewing = 0 /\ bot.handled < bot.triggers
    /\ bot' = [bot EXCEPT !.reviewing = bot.triggers, !.handled = bot.triggers,
                          !.head = pr.head]
    /\ UNCHANGED <<pr, flagged, opened, replied, prow, kick, prLock, pass, rleft>>

\* A clean pass: a hooray on the trigger it was asked by.
BotCheers ==
    /\ bot.reviewing # 0
    /\ bot' = [bot EXCEPT !.cheered = bot.reviewing, !.reviewing = 0,
                          !.clean = @ \union {bot.head}]
    /\ flagged' = {}
    /\ UNCHANGED <<pr, opened, replied, prow, kick, prLock, pass, rleft>>

\* What carries a reply is resolved, or found again as a new finding.
BotFlags ==
    /\ bot.reviewing # 0
    /\ \E new \in SUBSET (Findings \ opened) :
        /\ new # {}
        /\ flagged' = (flagged \ replied) \union new
        /\ opened' = opened \union new
    /\ bot' = [bot EXCEPT !.reviewing = 0]
    /\ UNCHANGED <<pr, replied, prow, kick, prLock, pass, rleft>>

HumanEnds ==
    /\ pr.life = "open"
    /\ pr' \in {[pr EXCEPT !.life = "merged"], [pr EXCEPT !.life = "closed"]}
    /\ UNCHANGED <<bot, flagged, opened, replied, prow, kick, prLock, pass, rleft>>

-----------------------------------------------------------------------------
(* Engine.record_prs: what a run does with the pull request it mentions.    *)

RunPushes ==
    /\ kick.pc = "idle" /\ prow.state # "none" /\ pr.life = "open" /\ Uses("push")
    /\ pr.head + 1 \in Heads
    /\ pr' = [pr EXCEPT !.head = @ + 1]
    /\ kick' = [kick EXCEPT !.pc = "pushed"]
    /\ UNCHANGED <<bot, flagged, opened, replied, prow, prLock, pass>>

\* pr_add: idempotent by URL.
Tracked == IF prow.state = "none" THEN [prow EXCEPT !.state = "draft"] ELSE prow

\* A new row is a draft to be kicked off; a known one only matters when the
\* bot approved it.
RunReports ==
    /\ kick.pc = "pushed" \/ (kick.pc = "idle" /\ prow.state = "none")
    /\ prow' = Tracked
    /\ kick' = CASE prow.state = "none"     -> [NoKick EXCEPT !.pc = "added"]
                 [] prow.state = "approved" -> [NoKick EXCEPT !.pc = "compare", !.rounds = prow.rounds]
                 [] OTHER                  -> NoKick
    /\ UNCHANGED <<hubVars, prLock, pass, rleft>>

KickReady ==
    /\ kick.pc = "added"
    /\ \E ok \in BOOLEAN :
        /\ IF ok THEN MarkReady /\ UNCHANGED rleft
                 ELSE Uses("fault") /\ UNCHANGED pr
        /\ kick' = [kick EXCEPT !.pc = "readied", !.ok = ok]
    /\ UNCHANGED <<bot, flagged, opened, replied, prow, prLock, pass>>

KickAsks ==
    /\ kick.pc = "readied"
    /\ prow' = IF kick.ok THEN [prow EXCEPT !.state = "ready"] ELSE prow
    /\ \E ok \in BOOLEAN :
        /\ IF ok THEN Trigger /\ UNCHANGED rleft
                 ELSE Uses(IF prow'.state = "draft" THEN "lost" ELSE "fault") /\ UNCHANGED bot
        /\ kick' = [kick EXCEPT !.pc = "asked", !.ok = ok]
    /\ UNCHANGED <<pr, flagged, opened, replied, prLock, pass>>

\* the first round, or one more than it remembers
KickAsked ==
    /\ kick.pc = "asked"
    /\ prow' = IF kick.ok THEN [prow EXCEPT !.state = "in_review", !.rounds = kick.rounds + 1]
                         ELSE prow
    /\ kick' = NoKick
    /\ UNCHANGED <<hubVars, prLock, pass, rleft>>

\* _rekick_if_approved_head_moved
Rekick ==
    /\ kick.pc = "compare"
    /\ \/ /\ Uses("fault") /\ kick' = NoKick /\ UNCHANGED bot
       \/ /\ pr.head = prow.approved /\ kick' = NoKick /\ UNCHANGED <<bot, rleft>>
       \/ /\ pr.head # prow.approved
          /\ kick' = [kick EXCEPT !.pc = "asked", !.ok = TRUE]
          /\ Trigger /\ UNCHANGED rleft
       \/ /\ pr.head # prow.approved /\ Uses("fault") /\ kick' = NoKick /\ UNCHANGED bot
    /\ UNCHANGED <<pr, flagged, opened, replied, prow, prLock, pass>>

-----------------------------------------------------------------------------
(* A shepherd pass.                                                         *)

Leaves(w) ==
    /\ pass' = [pass EXCEPT ![w] = NoPass]
    /\ prLock' = NoOne

StartPass(w) ==
    /\ pass[w].pc = "idle" /\ prow.state \in Scanned
    /\ pass' = [pass EXCEPT ![w].pc = "waiting"]
    /\ UNCHANGED <<hubVars, prow, kick, prLock, rleft>>

\* The row is read again under the lock; then get_pr is asked.
LockFree == prLock = NoOne
EnterPass(w) ==
    /\ pass[w].pc = "waiting" /\ LockFree
    /\ \/ /\ prLock' = w
          /\ pass' = [pass EXCEPT ![w] =
                Fetched([NoPass EXCEPT !.pc = "info", !.state = prow.state, !.rounds = prow.rounds])]
          /\ UNCHANGED rleft
       \/ /\ Uses("fault") /\ Leaves(w)          \* unknown is not closed
    /\ UNCHANGED <<hubVars, prow, kick>>

\* Ended on GitHub: a merge is noted (Outcome models what follows), a close too.
SeesEnd(w) ==
    /\ pass[w].pc = "info" /\ pass[w].life # "open"
    /\ prow' = [prow EXCEPT !.state = pass[w].life]
    /\ Leaves(w)
    /\ UNCHANGED <<hubVars, kick, rleft>>

\* Not driven: only its end is of interest.
OnlyLooks(w) ==
    /\ pass[w].pc = "info" /\ pass[w].life = "open" /\ pass[w].state \in MergeScanStates
    /\ Leaves(w)
    /\ UNCHANGED <<hubVars, prow, kick, rleft>>

Driven(w) == pass[w].pc = "info" /\ pass[w].life = "open"
             /\ pass[w].state \notin MergeScanStates

Undraft(w) ==
    /\ Driven(w) /\ pass[w].draft
    /\ \/ /\ MarkReady
          /\ pass' = [pass EXCEPT ![w].pc = "undrafted"]
          /\ UNCHANGED <<prLock, rleft>>
       \/ Uses("fault") /\ Leaves(w) /\ UNCHANGED pr
    /\ UNCHANGED <<bot, flagged, opened, replied, prow, kick>>

ListComments(w) ==
    /\ pass[w].pc = "undrafted" \/ (Driven(w) /\ ~pass[w].draft)
    /\ prow' = IF pass[w].pc = "undrafted" THEN [prow EXCEPT !.state = "ready"] ELSE prow
    /\ \/ /\ pass' = [pass EXCEPT ![w].pc = "comments", ![w].trigger = bot.triggers]
          /\ UNCHANGED <<prLock, rleft>>
       \/ Uses("fault") /\ Leaves(w)
    /\ UNCHANGED <<hubVars, kick>>

Cheered(w) == pass[w].trigger > 0 /\ bot.cheered = pass[w].trigger

\* A hooray on the newest trigger it has seen: approved, at the head that
\* get_pr told at the start of the pass.
Approve(w) ==
    /\ pass[w].pc = "comments" /\ Cheered(w)
    /\ prow' = [prow EXCEPT !.state = "approved", !.approved = pass[w].head]
    /\ Leaves(w)
    /\ UNCHANGED <<hubVars, kick, rleft>>

ListFindings(w) ==
    /\ pass[w].pc = "comments"
    /\ \/ /\ ~Cheered(w)
          /\ pass' = [pass EXCEPT ![w].pc = "findings", ![w].todo = flagged]
          /\ UNCHANGED <<prLock, rleft>>
       \/ Uses("fault") /\ Leaves(w)
    /\ UNCHANGED <<hubVars, prow, kick>>

\* Ready, but no review was ever asked for.
MustAsk(w) == pass[w].trigger = 0
AskFirst(w) ==
    /\ pass[w].pc = "findings" /\ pass[w].todo = {} /\ MustAsk(w)
    /\ \/ /\ Trigger
          /\ pass' = [pass EXCEPT ![w].pc = "asked"]
          /\ UNCHANGED <<prLock, rleft>>
       \/ Uses("fault") /\ Leaves(w) /\ UNCHANGED bot
    /\ UNCHANGED <<pr, flagged, opened, replied, prow, kick>>

AtCap(w) == pass[w].rounds >= MaxRounds
Stall(w) ==
    /\ pass[w].pc = "findings" /\ pass[w].todo # {} /\ AtCap(w)
    /\ prow' = [prow EXCEPT !.state = "stalled"]
    /\ Leaves(w)
    /\ UNCHANGED <<hubVars, kick, rleft>>

\* A review is in flight, or every finding has its reply: wait.
Wait(w) ==
    /\ pass[w].pc = "findings"
    /\ \/ pass[w].todo = {} /\ ~MustAsk(w)
       \/ pass[w].todo # {} /\ ~AtCap(w) /\ pass[w].todo \subseteq replied
    /\ Leaves(w)
    /\ UNCHANGED <<hubVars, prow, kick, rleft>>

AllOpen(w) == pass[w].todo
Unreplied(w) == pass[w].todo \ replied
StartFix(w) ==
    /\ pass[w].pc = "findings" /\ ~AtCap(w) /\ Unreplied(w) # {}
    /\ pass' = [pass EXCEPT ![w].pc = "fixing", ![w].todo = Unreplied(w)]
    /\ UNCHANGED <<hubVars, prow, kick, prLock, rleft>>

\* The run answers some of the findings, by commits or by rebuttals; or it
\* fails, or answers none.
FixReturns(w) ==
    /\ pass[w].pc = "fixing"
    /\ \/ /\ \E answered \in SUBSET pass[w].todo :
                /\ answered # {}
                /\ pass' = [pass EXCEPT ![w].pc = "reply", ![w].todo = answered]
          /\ pr' \in {pr, [pr EXCEPT !.head = @ + 1]}
          /\ pr'.head \in Heads
          /\ UNCHANGED <<prLock, rleft>>
       \/ Uses("fault") /\ Leaves(w) /\ UNCHANGED pr
    /\ UNCHANGED <<bot, flagged, opened, replied, prow, kick>>

\* Nobody looks whether a reply was accepted.
Answered(c) == replied \union {c}
Reply(w) ==
    /\ pass[w].pc = "reply"
    /\ \E c \in pass[w].todo, ok \in BOOLEAN :
        /\ IF ok THEN UNCHANGED rleft ELSE Uses("fault")
        /\ replied' = IF ok THEN Answered(c) ELSE replied
        /\ pass' = [pass EXCEPT ![w].todo = @ \ {c}]
    /\ UNCHANGED <<pr, bot, flagged, opened, prow, kick, prLock>>

AskAgain(w) ==
    /\ pass[w].pc = "reply" /\ pass[w].todo = {}
    /\ \/ /\ Trigger
          /\ pass' = [pass EXCEPT ![w].pc = "asked"]
          /\ UNCHANGED <<prLock, rleft>>
       \/ Uses("lost") /\ Leaves(w) /\ UNCHANGED bot
    /\ UNCHANGED <<pr, flagged, opened, replied, prow, kick>>

CountRound(w) ==
    /\ pass[w].pc = "asked"
    /\ prow' = [prow EXCEPT !.state = "in_review", !.rounds = pass[w].rounds + 1]
    /\ Leaves(w)
    /\ UNCHANGED <<hubVars, kick, rleft>>

\* A process dies.  Between the replies and the next trigger that is an event
\* of its own, the same as a trigger that fails.
ShepherdCrash(w) ==
    /\ pass[w].pc # "idle"
    /\ Uses(IF pass[w].pc = "reply" THEN "lost" ELSE "fault")
    /\ pass' = [pass EXCEPT ![w] = NoPass]
    /\ prLock' = IF prLock = w THEN NoOne ELSE prLock
    /\ UNCHANGED <<hubVars, prow, kick>>

PassStep(w) ==
    \/ StartPass(w) \/ EnterPass(w) \/ SeesEnd(w) \/ OnlyLooks(w) \/ Undraft(w)
    \/ ListComments(w) \/ Approve(w) \/ ListFindings(w) \/ AskFirst(w) \/ Stall(w)
    \/ Wait(w) \/ StartFix(w) \/ FixReturns(w) \/ Reply(w) \/ AskAgain(w) \/ CountRound(w)
\* The run's process dies in the middle of its kickoff.
KickDies ==
    /\ kick.pc \in {"added", "readied", "compare", "asked"}
    /\ Uses(IF prow.state = "draft" THEN "lost" ELSE "fault")
    /\ kick' = NoKick
    /\ UNCHANGED <<hubVars, prow, prLock, pass>>

KickStep == KickReady \/ KickAsks \/ KickAsked \/ Rekick
BotStep  == BotStarts \/ BotCheers \/ BotFlags

ReviewNext ==
    \/ BotStep \/ HumanEnds \/ RunPushes \/ RunReports \/ KickStep \/ KickDies
    \/ \E w \in Shepherds : PassStep(w) \/ ShepherdCrash(w)

ReviewSpec == ReviewInit /\ [][ReviewNext]_reviewVars

-----------------------------------------------------------------------------
(* Properties.                                                              *)

\* The type invariant; a pass beyond the lock is the lock's holder.
ReviewTypeOK ==
    /\ pr \in [life : {"open", "merged", "closed"}, draft : BOOLEAN, head : Heads]
    /\ bot.cheered <= bot.handled /\ bot.handled <= bot.triggers
    /\ bot.reviewing <= bot.handled /\ bot.clean \subseteq Heads
    /\ flagged \subseteq opened /\ opened \subseteq Findings /\ replied \subseteq opened
    /\ prow.state \in Scanned \union {"none", "merged", "closed"}
    /\ prow.rounds \in Nat /\ prow.approved \in Heads
    /\ kick.pc \in {"idle", "pushed", "added", "readied", "asked", "compare"}
    /\ \A w \in Shepherds : pass[w].pc \in {"idle", "waiting"} \/ prLock = w
    /\ rleft \in [ReviewEvents -> Nat]

\* No paid fix is spent on a finding that a sibling has already answered: what
\* a fix run works on is without a reply as long as it works.
FixesAreFresh ==
    \A w \in Shepherds : pass[w].pc = "fixing" => pass[w].todo \cap replied = {}

\* Fair: runs, passes and the bot go on; humans and pushes need
\* not come.
ReviewFairness ==
    /\ WF_reviewVars(KickStep) /\ WF_reviewVars(BotStep)
    /\ \A w \in Shepherds : WF_reviewVars(PassStep(w))
ReviewFairSpec == ReviewSpec /\ ReviewFairness

\* The review is over, by the clean pass, at the round cap or on GitHub; and a
\* merge is noticed whatever the row says, a late write of a kickoff included.
ReviewRests ==
    /\ prow.state \in {"none", "approved", "stalled", "merged", "closed"}
    /\ prow.state # "none" /\ pr.life = "merged" => prow.state = "merged"
=============================================================================
