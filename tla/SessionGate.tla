---------------------------- MODULE SessionGate ----------------------------
(***************************************************************************)
(* Session implements VersionGate: a request is a connection, and the      *)
(* holder of the switch is the connection whose handler is between its     *)
(* reservation and the end of its restart.                                 *)
(***************************************************************************)
EXTENDS Session

InFlight(k) == pc[k] \in {"send", "wait", "restarted", "refused"}

SwitchHolder ==
    IF restartInProgress THEN CHOOSE k \in Conns : InFlight(k) ELSE None

Gate == INSTANCE VersionGate WITH
    Requests <- Conns,
    holder   <- SwitchHolder,
    given    <- tok

\* The handlers, the lifecycle goroutine and doRestart together behave like
\* the version gate, across crashes, signals and failed restarts
\* (service.go 229-266 and 321-402).
ImplementsGate == Gate!Spec

=============================================================================
