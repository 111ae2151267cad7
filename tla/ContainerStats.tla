-------------------------- MODULE ContainerStats --------------------------
(***************************************************************************)
(* The call of pdcs.ContainersStats: a deadline against podman's answer.   *)
(*                                                                         *)
(* podman's ContainerStats starts a goroutine, looks once whether the      *)
(* caller's context is over, computes one report, puts it into a channel   *)
(* with room for one and closes the channel.  ContainersStats waits in a   *)
(* select for the report or for the end of its context; when both are      *)
(* there Go takes either.  A report whose computation failed carries an    *)
(* error that ContainersStats does not look at, and a closed channel       *)
(* yields a report without statistics.                                     *)
(***************************************************************************)
EXTENDS Integers

CONSTANT Calls  \* the calls, one for each scrape

VARIABLES
  call,     \* [call -> where it is, or what it returned]
  expired,  \* [call -> its context is over]
  worker,   \* [call -> where podman's goroutine is; at its end the channel is closed]
  chan      \* [call -> the report in the channel]

vars == <<call, expired, worker, chan>>

Init ==
  /\ call = [s \in Calls |-> "idle"]
  /\ expired = [s \in Calls |-> FALSE]
  /\ worker = [s \in Calls |-> "off"]
  /\ chan = [s \in Calls |-> "empty"]

Returned(s) == call[s] \in {"stats", "none", "error"}

\* The call returns.  podman's goroutine may go on: nobody reads its channel,
\* which has room for its report.
Return(s, r) ==
  /\ call' = [call EXCEPT ![s] = r]
  /\ expired' = [expired EXCEPT ![s] = FALSE]
  /\ worker' = [worker EXCEPT ![s] = "off"]
  /\ chan' = [chan EXCEPT ![s] = "empty"]

\* A context with a timeout of zero or less is over from the start.
Begin(s, timeout) ==
  /\ call[s] = "idle"
  /\ call' = [call EXCEPT ![s] = "wait"]
  /\ expired' = [expired EXCEPT ![s] = timeout <= 0]
  /\ worker' = [worker EXCEPT ![s] = "look"]
  /\ UNCHANGED chan

\* podman refuses the call.
BeginFails(s) == call[s] = "idle" /\ Return(s, "error")

Expire(s) ==
  /\ call[s] = "wait" /\ ~expired[s]
  /\ expired' = [expired EXCEPT ![s] = TRUE]
  /\ UNCHANGED <<call, worker, chan>>

\* podman's goroutine: the context is over, or there is work to do
Look(s) ==
  /\ worker[s] = "look"
  /\ worker' = [worker EXCEPT ![s] = IF expired[s] THEN "end" ELSE "compute"]
  /\ UNCHANGED <<call, expired, chan>>

Compute(s) ==
  /\ worker[s] = "compute"
  /\ \E report \in {"stats", "failed"} : chan' = [chan EXCEPT ![s] = report]
  /\ worker' = [worker EXCEPT ![s] = "end"]
  /\ UNCHANGED <<call, expired>>

\* case s := <-reports: s.Error is not looked at
TakeReport(s) ==
  /\ call[s] = "wait" /\ worker[s] = "end"
  /\ Return(s, IF chan[s] = "stats" THEN "stats" ELSE "none")

\* mutant: the context is not waited for
TakeDeadlineNever(s) == FALSE /\ Return(s, "error")

\* case <-ctx.Done()
TakeDeadline(s) ==
  /\ call[s] = "wait" /\ expired[s]
  /\ Return(s, "error")

Take(s) == TakeReport(s) \/ TakeDeadline(s)
Step(s) == Look(s) \/ Compute(s) \/ Expire(s) \/ Take(s)

=============================================================================
