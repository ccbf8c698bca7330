-------------------------------- MODULE Loops --------------------------------
(*****************************************************************************)
(* The loops that run beside the pipeline, composed: the outcome watch, the  *)
(* shepherd of pull requests, the routine scheduler, the sweep of overdue    *)
(* gates, and two of the routines' handlers, the reports and the scans.      *)
(* They share no state that these modules look at, so a behaviour follows one *)
(* of them, its `focus`, and the state spaces add up instead of multiplying. *)
(*****************************************************************************)
EXTENDS Outcome, Shepherd, Routines, Digest, Proposals, Escalation

VARIABLE focus                \* the component that is followed
loopVars == <<watchVars, reviewVars, schedVars, digestVars, signalVars, slaVars, focus>>

LoopsInit ==
    /\ focus \in {"watch", "review", "routines", "digest", "signals", "ladder"}
    /\ WatchInit /\ ReviewInit /\ SchedInit /\ DigestInit /\ SignalInit /\ SlaInit
LoopsNext ==
    /\ focus' = focus
    /\ \/ focus = "watch" /\ WatchNext
          /\ UNCHANGED <<reviewVars, schedVars, digestVars, signalVars, slaVars>>
       \/ focus = "review" /\ ReviewNext
          /\ UNCHANGED <<watchVars, schedVars, digestVars, signalVars, slaVars>>
       \/ focus = "routines" /\ SchedNext
          /\ UNCHANGED <<watchVars, reviewVars, digestVars, signalVars, slaVars>>
       \/ focus = "digest" /\ DigestNext
          /\ UNCHANGED <<watchVars, reviewVars, schedVars, signalVars, slaVars>>
       \/ focus = "signals" /\ SignalNext
          /\ UNCHANGED <<watchVars, reviewVars, schedVars, digestVars, slaVars>>
       \/ focus = "ladder" /\ SlaNext
          /\ UNCHANGED <<watchVars, reviewVars, schedVars, digestVars, signalVars>>

\* The fairness of the modules, for the component that is followed.
Followed(c, A) == focus = c /\ A
LoopsFairness ==
    /\ WF_watchVars(Followed("watch", ApprovalChecks)) /\ WF_watchVars(Followed("watch", WindowCloses))
    /\ \A w \in Watchers :
        /\ WF_watchVars(Followed("watch", NoticeSteps(w)))
        /\ WF_watchVars(Followed("watch", FinishSteps(w)))
    /\ WF_reviewVars(Followed("review", KickStep)) /\ WF_reviewVars(Followed("review", BotStep))
    /\ \A w \in Shepherds : WF_reviewVars(Followed("review", PassStep(w)))
    /\ \A r \in Rows : WF_schedVars(Followed("routines", TimePasses(r)))
    /\ \A s \in Schedulers :
        /\ WF_schedVars(Followed("routines", SchedBoot(s)))
        /\ WF_schedVars(Followed("routines", StartTick(s)))
        /\ \A r \in Rows :
            /\ WF_schedVars(Followed("routines",
                  SkipDisabled(s, r) \/ DisableBad(s, r) \/ SkipIdle(s, r) \/ Fire(s, r)))
            /\ SF_schedVars(Followed("routines", FiringStep(s, r)))
    /\ WF_signalVars(Followed("signals", DayPasses)) /\ WF_signalVars(Followed("signals", Scan))
    /\ WF_signalVars(Followed("signals", Upkeep)) /\ WF_signalVars(Followed("signals", MemoryMoves))
    /\ \A k \in {"feature", "task"} : WF_signalVars(Followed("signals", TakeIn(k)))
    /\ WF_slaVars(Followed("ladder", RungPasses))
    /\ \A s \in Sweepers :
        /\ WF_slaVars(Followed("ladder", ReadRow(s))) /\ WF_slaVars(Followed("ladder", SweepStep(s)))
LoopsSpec == LoopsInit /\ [][LoopsNext]_loopVars /\ LoopsFairness

\* The type invariant of the component that is followed; the others stand still
\* at an initial state that is followed elsewhere.
LoopsTypeOK ==
    CASE focus = "watch"    -> WatchTypeOK
      [] focus = "review"   -> ReviewTypeOK
      [] focus = "routines" -> SchedTypeOK
      [] focus = "digest"   -> DigestTypeOK
      [] focus = "signals"  -> SignalTypeOK
      [] focus = "ladder"   -> SlaTypeOK

\* Nothing hangs: every window of a watch is judged, every review ends and a
\* merge is noticed, a routine keeps firing, pain that stays is brought up, and an
\* overdue gate is escalated.
LoopsGoOn ==
    []<>(CASE focus = "watch"    -> WatchRests
           [] focus = "review"   -> ReviewRests
           [] focus = "routines" -> \A r \in Rows : Served(r)
           [] focus = "signals"  -> PainIsNoted
           [] focus = "ladder"   -> GateIsFlagged
           [] OTHER -> TRUE)
==============================================================================
