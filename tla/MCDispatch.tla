---------------------------- MODULE MCDispatch ----------------------------
(***************************************************************************)
(* Values of Dispatch's constants for TLC: one workspace whose canonical    *)
(* project is "api", with a client project "web" that reads product scope   *)
(* from it, and their jobs.  Times are in ticks of ten minutes or so:       *)
(* Timeout 2 and Grace 1 keep the order Grace < Timeout of the defaults     *)
(* (600 s and 2400 s).                                                      *)
(***************************************************************************)
EXTENDS Dispatch

CONSTANTS a, b, feature, second, bootstrap

TwoWorkers == {a, b}
TwoJobs    == {feature, second}
Bootstrap  == {feature, bootstrap}
NoMemory   == {}
OneMemory  == {bootstrap}

MCProjects == {"api", "web"}
MCRepos    == {"acme/api", "acme/web"}
\* The feature is the client project's; the other jobs are the canonical one's.
MCProjectOf   == [j \in Jobs |-> IF j = feature THEN "web" ELSE "api"]
MCCanonicalOf == [p \in MCProjects |-> "api"]
RepoEach == [p \in MCProjects |-> IF p = "api" THEN "acme/api" ELSE "acme/web"]
OneRepo  == [p \in MCProjects |-> "acme/api"]      \* two slugs of a monorepo

Bound(answer, requeue, raise, crash, fetch, store) ==
    [e \in Events |-> CASE e = "answer" -> answer [] e = "requeue" -> requeue
                        [] e = "raise"  -> raise  [] e = "crash"   -> crash
                        [] e = "fetch"  -> fetch  [] e = "store"   -> store]

\* everything once but a failing error handler
LimitClaims == Bound(1, 1, 1, 1, 1, 0)
\* every failure, both workers gone at once, and an answer
LimitStorm == Bound(1, 0, 1, 2, 0, 1)
\* waits and runs without failures
LimitCalm == Bound(0, 0, 0, 0, 0, 0)
===========================================================================
