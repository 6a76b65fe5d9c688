---------------------------- MODULE MCRuntimeLocks ----------------------------
(***************************************************************************)
(* Two threads of one process (an API server) and one of another (a        *)
(* dispatcher, a pipeline or the dashboard), each in any entry point.      *)
(***************************************************************************)
EXTENDS RuntimeLocks, TLC

CONSTANTS api1, api2, other, server, worker

MCThreads == {api1, api2, other}
MCProcesses == {server, worker}
MCProcessOf == (api1 :> server) @@ (api2 :> server) @@ (other :> worker)

\* Every entry point, each where a program of the repository calls it; both API
\* threads reschedule, so that they contend for the request semaphore too.
MCServes ==
    (api1 :> {"write", "facade", "reschedule"}) @@
    (api2 :> {"dispatch", "whatif", "reschedule"}) @@
    (other :> {"write", "bootstrap", "facade", "dispatch", "simulate"})
==============================================================================
