------------------------------- MODULE Broker -------------------------------
(***************************************************************************)
(* The live stream of one job: a buffer of the current turn's events, which *)
(* viewers that come late replay before they follow.  Turns are tasks: a     *)
(* turn starts the buffer anew, publishes and finishes it.  The buffer is    *)
(* found by the job alone, so that a turn which overlaps its successor        *)
(* publishes into the successor's.                                           *)
(*                                                                         *)
(* A piece of text is the number of its publication; a delta carries the     *)
(* pieces that were coalesced in it.                                         *)
(***************************************************************************)
EXTENDS Naturals, Sequences, SequencesExt

CONSTANTS
    Viewers,        \* subscribers of the stream
    StreamTurns,    \* the turns are 1 .. StreamTurns
    MaxEvents,      \* MAX_EVENTS, the cap of a turn's buffer
    MaxPieces       \* bound of the publications

ASSUME BrokerAssumption == StreamTurns \in Nat /\ MaxEvents \in Nat \ {0} /\ MaxPieces \in Nat

VARIABLES
    buffer,      \* the current turn's: who started it, its events, done
    talking,     \* turns whose task runs
    started,     \* turns started so far
    pieces,      \* (history) per publication, the buffer it went to
    overlapped,  \* (history) a turn started over a live one
    capped,      \* (history) the turns whose buffer reached the cap
    viewer       \* per viewer: pc, the buffer it reads, replay, queue, what it
                 \* was given, and the pieces published when it subscribed

brokerVars == <<buffer, talking, started, pieces, overlapped, capped, viewer>>

NoBuffer == [turn |-> 0, events |-> <<>>, done |-> TRUE]
Event(what, part) == [kind |-> what, parts |-> part]
Done == Event("done", <<>>)
NoViewer == [pc |-> "idle", turn |-> 0, replay |-> <<>>, queue |-> <<>>, got |-> <<>>, since |-> 0]

BrokerInit ==
    /\ buffer = NoBuffer /\ talking = {} /\ started = 0 /\ pieces = <<>>
    /\ overlapped = FALSE /\ capped = {} /\ viewer = [v \in Viewers |-> NoViewer]

-----------------------------------------------------------------------------
(* The turns.                                                               *)

\* What is put into the queues of those who read the current buffer.
Following(v) == viewer[v].pc \in {"replay", "follow"} /\ viewer[v].turn = buffer.turn
Broadcast(event) ==
    viewer' = [v \in Viewers |-> IF Following(v) THEN [viewer[v] EXCEPT !.queue = Append(@, event)] ELSE viewer[v]]

\* start: the old buffer's readers are told it is over.
LetGo(event) == Broadcast(event)
StartTurn ==
    /\ started < StreamTurns
    /\ started' = started + 1 /\ talking' = talking \union {started + 1}
    /\ buffer' = [turn |-> started + 1, events |-> <<>>, done |-> FALSE]
    /\ overlapped' = (overlapped \/ talking # {})
    /\ LetGo(Done)
    /\ UNCHANGED <<pieces, capped>>

\* publish: past the cap a delta joins the delta before it, if there is one;
\* anything else is missing from the replay, but not from the queues.
Full == Len(buffer.events) >= MaxEvents
Joins(event) == event.kind = "delta" /\ Last(buffer.events).kind = "delta"
Buffered(event) ==
    IF ~Full THEN Append(buffer.events, event)
    ELSE IF Joins(event)
         THEN [buffer.events EXCEPT ![MaxEvents].parts = @ \o event.parts]
    ELSE buffer.events
ToQueues(event) == Broadcast(event)
Publish ==
    /\ talking # {} /\ ~buffer.done /\ Len(pieces) < MaxPieces
    /\ \E what \in {"delta", "status"} :
          LET event == Event(what, <<Len(pieces) + 1>>)
          IN /\ buffer' = [buffer EXCEPT !.events = Buffered(event)]
             /\ ToQueues(event)
    /\ pieces' = Append(pieces, buffer.turn)
    /\ capped' = (IF Full THEN capped \union {buffer.turn} ELSE capped)
    /\ UNCHANGED <<talking, started, overlapped>>

\* finish, however the turn ended
FinishTurn(t) ==
    /\ t \in talking /\ talking' = talking \ {t}
    /\ IF buffer.done THEN UNCHANGED <<buffer, viewer>>
       ELSE buffer' = [buffer EXCEPT !.done = TRUE] /\ Broadcast(Done)
    /\ UNCHANGED <<started, pieces, overlapped, capped>>

-----------------------------------------------------------------------------
(* The viewers.                                                             *)

Ends(v) == [viewer[v] EXCEPT !.pc = "over", !.queue = <<>>, !.replay = <<>>]

\* subscribe: registered and snapshot taken without a pause in between
Snapshot == [queue |-> <<>>, replay |-> buffer.events]
QueuedToo == [queue |-> buffer.events, replay |-> buffer.events]
Taken == Snapshot
Subscribe(v) ==
    /\ viewer[v].pc = "idle"
    /\ viewer' = [viewer EXCEPT ![v] =
          IF buffer.turn = 0 THEN [@ EXCEPT !.pc = "told"]
          ELSE [@ EXCEPT !.pc = "replay", !.turn = buffer.turn, !.since = Len(pieces),
                         !.replay = IF buffer.done THEN Append(Taken.replay, Done) ELSE Taken.replay,
                         !.queue = Taken.queue]]
    /\ UNCHANGED <<buffer, talking, started, pieces, overlapped, capped>>

\* The next event, of the replay and then of the queue; done is the last.
Gets(v) ==
    /\ viewer[v].pc \in {"replay", "follow"}
    /\ LET w == viewer[v]
           from == IF w.replay # <<>> THEN w.replay ELSE w.queue
       IN IF w.replay = <<>> /\ w.pc = "replay"
          THEN viewer' = [viewer EXCEPT ![v].pc = "follow"]
          ELSE /\ from # <<>>
               /\ viewer' = [viewer EXCEPT ![v] =
                    IF Head(from).kind = "done" THEN [Ends(v) EXCEPT !.pc = "told"]
                    ELSE [w EXCEPT !.got = @ \o Head(from).parts,
                                   !.replay = IF @ # <<>> THEN Tail(@) ELSE @,
                                   !.queue = IF w.replay # <<>> THEN @ ELSE Tail(@)]]
    /\ UNCHANGED <<buffer, talking, started, pieces, overlapped, capped>>

\* The viewer's own time limit, or its browser, ends the stream.
GivesUp(v) ==
    /\ viewer[v].pc \in {"replay", "follow"} /\ viewer' = [viewer EXCEPT ![v] = Ends(v)]
    /\ UNCHANGED <<buffer, talking, started, pieces, overlapped, capped>>

BrokerNext ==
    \/ StartTurn \/ Publish \/ \E t \in 1 .. StreamTurns : FinishTurn(t)
    \/ \E v \in Viewers : Subscribe(v) \/ Gets(v) \/ GivesUp(v)
BrokerSpec == BrokerInit /\ [][BrokerNext]_brokerVars

-----------------------------------------------------------------------------
(* Properties.                                                              *)

\* The type invariant: the buffer keeps to its cap, and as long as turns do not
\* overlap a viewer is told of the end of a turn that has ended.
BrokerTypeOK ==
    /\ Len(buffer.events) <= MaxEvents
    /\ \A v \in Viewers :
          viewer[v].pc = "told" /\ viewer[v].turn # 0 /\ ~overlapped => viewer[v].turn \notin talking

\* Register before the snapshot: a viewer is given no piece twice, and the
\* pieces in the order of their publication.
InOrderOnce ==
    \A v \in Viewers : \A i, j \in DOMAIN viewer[v].got : i < j => viewer[v].got[i] < viewer[v].got[j]

\* A viewer who followed to the end was given every piece its buffer saw since
\* it subscribed, and the pieces before that too unless the cap was reached.
FollowedIsWhole ==
    \A v \in Viewers : viewer[v].pc = "told" =>
        \A p \in DOMAIN pieces :
            pieces[p] = viewer[v].turn /\ (p > viewer[v].since \/ viewer[v].turn \notin capped)
                => p \in ToSet(viewer[v].got)

\* What a viewer is given: nothing twice, nothing out of order, and whole.
StreamIsSound == InOrderOnce /\ FollowedIsWhole

\* Fair: the task of a turn ends, finish is in its finally, and
\* a viewer's generator is driven.  Nobody relies on the viewer's time limit.
BrokerFairness ==
    /\ \A t \in 1 .. StreamTurns : WF_brokerVars(FinishTurn(t))
    /\ \A v \in Viewers : WF_brokerVars(Gets(v))
BrokerFairSpec == BrokerSpec /\ BrokerFairness

\* Nobody watches: a stream is to end, no viewer is left with a turn that is over.
NobodyWatches == \A v \in Viewers : viewer[v].pc \notin {"replay", "follow"}
=============================================================================
