------------------------------- MODULE Scrape -------------------------------
(***************************************************************************)
(* What /metrics promises its clients: no request is admitted before the   *)
(* exporter serves, nor beyond the limit of requests; an admitted request  *)
(* is answered at once and as a whole, with the success or the failure of  *)
(* every enabled collector, and only a request beyond the limit is         *)
(* refused.                                                                *)
(***************************************************************************)
EXTENDS Integers, FiniteSets

CONSTANTS
  Requests,    \* the clients
  Registered,  \* the collectors there are
  Limits       \* the limits there may be; zero or less is none

VARIABLES
  service,  \* what is served: {} or {[collectors, max]}
  status,   \* [request -> "idle", "refused", "collect" or "done"]
  answer    \* [request -> [collector -> "none", "yes" or "no"]]

NoAnswer == [c \in Registered |-> "none"]

Init ==
  /\ service = {}
  /\ status = [r \in Requests |-> "idle"]
  /\ answer = [r \in Requests |-> NoAnswer]

Open ==
  /\ service = {}
  /\ \E s \in [collectors : SUBSET Registered, max : Limits] : service' = {s}
  /\ UNCHANGED <<status, answer>>

\* The request becomes s, without an answer.
Become(r, s) ==
  /\ status' = [status EXCEPT ![r] = s]
  /\ answer' = [answer EXCEPT ![r] = NoAnswer]
  /\ UNCHANGED service

Full(max) ==
  max > 0 /\ Cardinality({r \in Requests : status[r] \in {"collect", "done"}}) >= max

Admit(r) ==
  /\ status[r] = "idle"
  /\ \E s \in service : ~Full(s.max)
  /\ Become(r, "collect")

Refuse(r) ==
  /\ status[r] = "idle"
  /\ \E s \in service : Full(s.max)
  /\ Become(r, "refused")

Respond(r) ==
  /\ status[r] = "collect"
  /\ status' = [status EXCEPT ![r] = "done"]
  /\ \E s \in service : \E a \in [s.collectors -> {"yes", "no"}] :
       answer' = [answer EXCEPT ![r] =
                    [c \in Registered |-> IF c \in s.collectors THEN a[c] ELSE "none"]]
  /\ UNCHANGED service

Close(r) == status[r] \in {"refused", "done"} /\ Become(r, "idle")

Next == Open \/ \E r \in Requests : Admit(r) \/ Refuse(r) \/ Respond(r) \/ Close(r)

Spec == Init /\ [][Next]_<<service, status, answer>>
=============================================================================
