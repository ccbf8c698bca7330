-------------------------------- MODULE Desk ---------------------------------
(*****************************************************************************)
(* What stands between the pipeline and its people, composed: verbs in       *)
(* ticket comments, requests and their tickets, the chat at a gate and its   *)
(* live stream, the decision registry, the accounts, and the trust that lets *)
(* a stage pass its gate by itself.  As in Loops, a behaviour follows one of *)
(* them, its `focus`.                                                        *)
(*****************************************************************************)
EXTENDS VerbScan, Requests, GateChat, Broker, Registry, Accounts, Autonomy

VARIABLE focus      \* the component that is followed
deskVars == <<scanVars, reqVars, chatVars, brokerVars, registryVars, accountVars,
              autonomyVars, focus>>

DeskInit ==
    /\ focus \in {"verbs", "requests", "chat", "stream", "registry", "accounts", "autonomy"}
    /\ ScanInit /\ RequestInit /\ ChatInit /\ BrokerInit /\ RegistryInit /\ AccountsInit
    /\ AutonomyInit
DeskNext ==
    /\ focus' = focus
    /\ \/ focus = "verbs" /\ ScanNext
          /\ UNCHANGED <<reqVars, chatVars, brokerVars, registryVars, accountVars, autonomyVars>>
       \/ focus = "requests" /\ RequestNext
          /\ UNCHANGED <<scanVars, chatVars, brokerVars, registryVars, accountVars, autonomyVars>>
       \/ focus = "chat" /\ ChatNext
          /\ UNCHANGED <<scanVars, reqVars, brokerVars, registryVars, accountVars, autonomyVars>>
       \/ focus = "stream" /\ BrokerNext
          /\ UNCHANGED <<scanVars, reqVars, chatVars, registryVars, accountVars, autonomyVars>>
       \/ focus = "registry" /\ RegistryNext
          /\ UNCHANGED <<scanVars, reqVars, chatVars, brokerVars, accountVars, autonomyVars>>
       \/ focus = "accounts" /\ AccountsNext
          /\ UNCHANGED <<scanVars, reqVars, chatVars, brokerVars, registryVars, autonomyVars>>
       \/ focus = "autonomy" /\ AutonomyNext
          /\ UNCHANGED <<scanVars, reqVars, chatVars, brokerVars, registryVars, accountVars>>

\* The fairness of the modules, for the component that is followed.
Followed(c, A) == focus = c /\ A
DeskFairness ==
    /\ \A p \in Pollers :
        /\ WF_scanVars(Followed("verbs", StartPoll(p))) /\ WF_scanVars(Followed("verbs", PollStep(p)))
    /\ WF_reqVars(Followed("requests", RunStep))
    /\ WF_chatVars(Followed("chat", StageCommits)) /\ WF_chatVars(Followed("chat", StageEnters))
    /\ \A q \in Questions :
        /\ SF_chatVars(Followed("chat", ChatStep(q)))
        /\ WF_chatVars(Followed("chat", GrowsOld(q) /\ task[q].pc = "dead"))
    /\ \A t \in 1 .. StreamTurns : WF_brokerVars(Followed("stream", FinishTurn(t)))
    /\ \A v \in Viewers : WF_brokerVars(Followed("stream", Gets(v)))
    /\ \A p \in SlackPollers : WF_registryVars(Followed("registry", Pass(p)))
    /\ \A s \in Scorers : WF_autonomyVars(Followed("autonomy", ScorePass(s)))
DeskSpec == DeskInit /\ [][DeskNext]_deskVars /\ DeskFairness

\* The type invariant of the component that is followed; the others stand still
\* at an initial state that is followed elsewhere.
DeskTypeOK ==
    CASE focus = "verbs"    -> ScanTypeOK
      [] focus = "requests" -> RequestTypeOK
      [] focus = "chat"     -> ChatTypeOK
      [] focus = "stream"   -> BrokerTypeOK
      [] focus = "registry" -> RegistryTypeOK
      [] focus = "accounts" -> AccountsTypeOK
      [] focus = "autonomy" -> AutonomyTypeOK

\* Nobody is left waiting: an owner's verb is heard, a request is settled or
\* parked, a gate's chat opens again, a stream ends, what was decided in the
\* channel is read, and trust whose runs are gone is taken back.
DeskGoesOn ==
    []<>(CASE focus = "verbs"    -> OwnerIsHeard
           [] focus = "requests" -> RequestRests
           [] focus = "chat"     -> ChatIsOpen
           [] focus = "stream"   -> NobodyWatches
           [] focus = "registry" -> ChannelIsRead
           [] focus = "autonomy" -> TrustIsBacked
           [] OTHER -> TRUE)
==============================================================================
