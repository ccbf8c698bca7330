------------------------------ MODULE Registry ------------------------------
(***************************************************************************)
(* The decision registry and the ingestion of Slack messages into it.  Gate   *)
(* answers and people register decisions that are in force at once; a message *)
(* that looks like a decision becomes a candidate, which a person confirms or *)
(* dismisses.  Only decisions in force are in the search index that prompts   *)
(* are built from.  There is one channel; a message is its timestamp.        *)
(*                                                                         *)
(* Pollers, one per process, read the channel page by page, newest first,    *)
(* from a little before the watermark.  Handlers of requests read a row,      *)
(* check it and then swap its status, other processes may act in between.    *)
(***************************************************************************)
EXTENDS Naturals, FiniteSets, FiniteSetsExt

CONSTANTS
    SlackPollers,        \* processes that poll the channel
    Handlers,       \* requests of people being handled
    Messages,       \* 1 .. n, the messages of the channel in their order
    Answers,        \* decisions registered by gates and people
    PageLimit,      \* messages on a page
    MaxPages,       \* pages of a pass
    Overlap,        \* how far behind the watermark a pass starts
    SlackFaults     \* pages that fail and processes that die

ASSUME RegistryAssumption ==
    /\ IsFiniteSet(Messages) /\ Messages = 1 .. Cardinality(Messages) /\ Messages \cap Answers = {}
    /\ PageLimit \in Nat \ {0} /\ MaxPages \in Nat \ {0} /\ Overlap \in Nat /\ SlackFaults \in Nat

DecisionStatuses == {"none", "candidate", "active", "superseded", "dismissed"}
Refs == Messages \union Answers

VARIABLES
    sofar,       \* messages 1 .. sofar are in the channel
    shaped,      \* those that are shaped like a decision
    prefixed,    \* (history) those that were from the start
    watermark,   \* the channel's cursor, and whether there is one
    decision,    \* per ref, the status of its row
    indexed,     \* refs in the search index
    fetch,       \* per poller, its pass
    handler,     \* per handler, the action it is about to apply
    confirmed,   \* (history) candidates a person confirmed
    faultsLeft   \* faults left

registryVars == <<sofar, shaped, prefixed, watermark, decision, indexed, fetch, handler, confirmed, faultsLeft>>

Unset == [set |-> FALSE, ts |-> 0, first |-> 0]
NoPass == [pc |-> "idle", cursor |-> 0, upto |-> 0, pages |-> 0, batch |-> {}, truncated |-> FALSE]
NoHandler == [ref |-> 0, act |-> "-"]
Less(a, b) == IF a >= b THEN a - b ELSE 0

RegistryInit ==
    /\ sofar = 0 /\ shaped = {} /\ prefixed = {} /\ watermark = Unset
    /\ decision = [r \in Refs |-> "none"] /\ indexed = {}
    /\ fetch = [p \in SlackPollers |-> NoPass] /\ handler = [h \in Handlers |-> NoHandler]
    /\ confirmed = {} /\ faultsLeft = SlackFaults

-----------------------------------------------------------------------------
(* The rows.                                                                *)

\* decision_add ignores a ref that has a row, whatever became of that row.
InsertsOverDismissed(ref, status) ==
    IF decision[ref] \in {"none", "dismissed"} THEN [decision EXCEPT ![ref] = status] ELSE decision
Inserts(ref, status) == IF decision[ref] = "none" THEN [decision EXCEPT ![ref] = status] ELSE decision

\* The index follows in the transaction.
Indexes(ref, status) == IF status = "active" THEN indexed \union {ref} ELSE indexed \ {ref}
DecisionAdd(ref, status) ==
    /\ decision' = Inserts(ref, status)
    /\ indexed' = IF decision[ref] = "none" /\ status = "active" THEN indexed \union {ref} ELSE indexed

\* Gate answers and people, any of them again after a replay.
Registers(ref) ==
    /\ ref \in Answers /\ DecisionAdd(ref, "active")
    /\ UNCHANGED <<sofar, shaped, prefixed, watermark, fetch, handler, confirmed, faultsLeft>>

\* What a request may do, from which status.
Transitions ==
    [confirm    |-> [from |-> "candidate",  to |-> "active"],
     dismiss    |-> [from |-> "candidate",  to |-> "dismissed"],
     supersede  |-> [from |-> "active",     to |-> "superseded"],
     reactivate |-> [from |-> "superseded", to |-> "active"]]

\* The handlers of candidates look at the status first, the others do not.
HandlerReads(h, ref, act) ==
    /\ handler[h] = NoHandler /\ decision[ref] # "none"
    /\ act \in {"confirm", "dismiss"} => decision[ref] = "candidate"
    /\ handler' = [handler EXCEPT ![h] = [ref |-> ref, act |-> act]]
    /\ UNCHANGED <<sofar, shaped, prefixed, watermark, decision, indexed, fetch, confirmed, faultsLeft>>

\* decision_set_status: the swap wins only from the status the action is for.
Wins(ref, act) == decision[ref] = Transitions[act].from
HandlerWrites(h) ==
    /\ handler[h] # NoHandler
    /\ LET ref == handler[h].ref
           act == handler[h].act
       IN IF Wins(ref, act)
          THEN /\ decision' = [decision EXCEPT ![ref] = Transitions[act].to]
               /\ indexed' = Indexes(ref, Transitions[act].to)
               /\ confirmed' = (IF act = "confirm" THEN confirmed \union {ref} ELSE confirmed)
          ELSE UNCHANGED <<decision, indexed, confirmed>>
    /\ handler' = [handler EXCEPT ![h] = NoHandler]
    /\ UNCHANGED <<sofar, shaped, prefixed, watermark, fetch, faultsLeft>>

-----------------------------------------------------------------------------
(* The channel.                                                             *)

Posts ==
    /\ sofar < Cardinality(Messages) /\ sofar' = sofar + 1
    /\ \/ shaped' = shaped \union {sofar + 1} /\ prefixed' = prefixed \union {sofar + 1}
       \/ UNCHANGED <<shaped, prefixed>>
    /\ UNCHANGED <<watermark, decision, indexed, fetch, handler, confirmed, faultsLeft>>

Reacts(m) ==
    /\ m \in 1 .. sofar \ shaped /\ shaped' = shaped \union {m}
    /\ UNCHANGED <<sofar, prefixed, watermark, decision, indexed, fetch, handler, confirmed, faultsLeft>>

\* The channel is put on a workspace's list: nothing before that is ingested.
Allowlists ==
    /\ ~watermark.set /\ watermark' = [set |-> TRUE, ts |-> sofar, first |-> sofar]
    /\ UNCHANGED <<sofar, shaped, prefixed, decision, indexed, fetch, handler, confirmed, faultsLeft>>

-----------------------------------------------------------------------------
(* A pass.                                                                  *)

PassStarts(p) ==
    /\ fetch[p].pc = "idle" /\ watermark.set
    /\ fetch' = [fetch EXCEPT ![p] = [NoPass EXCEPT !.pc = "fetch", !.cursor = watermark.ts, !.upto = sofar]]
    /\ UNCHANGED <<sofar, shaped, prefixed, watermark, decision, indexed, handler, confirmed, faultsLeft>>

Oldest(p) == Less(fetch[p].cursor, Overlap)
Page(p) == {m \in 1 .. fetch[p].upto : m > Oldest(p) /\ m > Less(fetch[p].upto, PageLimit)}
MorePages(p) == Less(fetch[p].upto, PageLimit) > Oldest(p)

\* A page, with what its messages look like now; the last there is, or the
\* last that is fetched.
FetchPage(p) ==
    /\ fetch[p].pc = "fetch"
    /\ LET last == fetch[p].pages + 1 = MaxPages \/ ~MorePages(p)
       IN fetch' = [fetch EXCEPT
             ![p].batch = @ \union [ts : Page(p) \cap shaped, shaped : {TRUE}]
                            \union [ts : Page(p) \ shaped, shaped : {FALSE}],
             ![p].upto = Less(@, PageLimit), ![p].pages = @ + 1,
             ![p].pc = IF last THEN "store" ELSE "fetch",
             ![p].truncated = last /\ MorePages(p)]
    /\ UNCHANGED <<sofar, shaped, prefixed, watermark, decision, indexed, handler, confirmed, faultsLeft>>

\* One candidate after the other, newest first.
CandidateOf(p) == {b \in fetch[p].batch : b.shaped}
StoreCandidate(p) ==
    /\ fetch[p].pc = "store" /\ CandidateOf(p) # {}
    /\ LET b == CHOOSE b \in CandidateOf(p) : \A c \in CandidateOf(p) : c.ts <= b.ts
       IN /\ DecisionAdd(b.ts, "candidate")
          /\ fetch' = [fetch EXCEPT ![p].batch = (@ \ {b}) \union {[b EXCEPT !.shaped = FALSE]}]
    /\ UNCHANGED <<sofar, shaped, prefixed, watermark, handler, confirmed, faultsLeft>>

\* The watermark moves to the newest message when nothing was left unfetched.
NewestOf(p) == Max({b.ts : b \in fetch[p].batch} \union {fetch[p].cursor})
Advances(p) ==
    watermark' = IF ~fetch[p].truncated /\ NewestOf(p) > fetch[p].cursor
                 THEN [watermark EXCEPT !.ts = NewestOf(p)] ELSE watermark
PassEnds(p) ==
    /\ fetch[p].pc = "store" /\ CandidateOf(p) = {} /\ Advances(p)
    /\ fetch' = [fetch EXCEPT ![p] = NoPass]
    /\ UNCHANGED <<sofar, shaped, prefixed, decision, indexed, handler, confirmed, faultsLeft>>

\* A page fails, or the process dies: the pass is over.
PassFails(p) ==
    /\ faultsLeft > 0 /\ faultsLeft' = faultsLeft - 1
    /\ fetch[p].pc # "idle" /\ fetch' = [fetch EXCEPT ![p] = NoPass]
    /\ UNCHANGED <<sofar, shaped, prefixed, watermark, decision, indexed, handler, confirmed>>

Pass(p) == PassStarts(p) \/ FetchPage(p) \/ StoreCandidate(p) \/ PassEnds(p)
RegistryNext ==
    \/ Posts \/ Allowlists \/ \E m \in Messages : Reacts(m)
    \/ \E r \in Refs : Registers(r) \/ \E h \in Handlers, a \in DOMAIN Transitions : HandlerReads(h, r, a)
    \/ \E h \in Handlers : HandlerWrites(h)
    \/ \E p \in SlackPollers : Pass(p) \/ PassFails(p)
RegistrySpec == RegistryInit /\ [][RegistryNext]_registryVars

-----------------------------------------------------------------------------
(* Properties.                                                              *)

\* The type invariant: a candidate was a message that anyone shaped.
RegistryTypeOK ==
    /\ decision \in [Refs -> DecisionStatuses] /\ indexed \subseteq Refs
    /\ \A m \in Messages : decision[m] # "none" => m \in shaped /\ m <= sofar
    /\ watermark.ts <= sofar

\* Prompts are built from what is in force and from nothing else, and what
\* came from Slack is in force only once a person has confirmed it.
IndexIsInForce ==
    /\ indexed = {r \in Refs : decision[r] = "active"}
    /\ indexed \cap Messages \subseteq confirmed

\* Dismissed is remembered: no later pass and no request that read the row
\* before brings a dismissed candidate back.
DismissedStays ==
    [][\A r \in Refs : decision[r] = "dismissed" => decision'[r] = "dismissed"]_registryVars

\* The watermark passes no decision that was there to be seen: the messages
\* between the first watermark and this one have their rows.
NothingSkipped ==
    \A m \in prefixed : watermark.set /\ m > watermark.first /\ m <= watermark.ts => decision[m] # "none"

\* What is in force is what a person made so, what he dismissed stays
\* dismissed, and the watermark hides nothing from him.
RegistryIsTrue == []IndexIsInForce /\ []NothingSkipped /\ DismissedStays

\* Fair: the loop of every process polls, faults are finite.
RegistryFairness == \A p \in SlackPollers : WF_registryVars(Pass(p))
RegistryFairSpec == RegistrySpec /\ RegistryFairness

\* Every decision in the channel is in the inbox or is to reach it, unless so
\* much was written that the window does not fit into a pass: then the watermark
\* is held, the window only grows, and its older part is not read before the
\* bound is raised.
Fits == sofar - Less(watermark.ts, Overlap) <= PageLimit * MaxPages
ChannelIsRead ==
    \/ ~watermark.set \/ ~Fits
    \/ \A m \in prefixed : m > watermark.first => decision[m] # "none"
=============================================================================
