----------------------------- MODULE DailyBudget ----------------------------
(***************************************************************************)
(* What a limiter in front of a paid call promises, whatever it counts     *)
(* with: on one calendar day, in one process, at most Global runs start    *)
(* and at most PerIp of one caller, and at most MaxInFlight are under way  *)
(* at any time, midnight or not.  There is no refund.                      *)
(***************************************************************************)
EXTENDS Naturals, FiniteSets

CONSTANTS Request, Ip, PerIp, Global, MaxInFlight

VARIABLES
  spent,            \* runs started today, by caller
  total,            \* runs started today
  running           \* requests whose run is under way

budget == <<spent, total, running>>

Unspent == [ip \in Ip |-> 0]

Init ==
  /\ spent = Unspent
  /\ total = 0
  /\ running = {}

Start(r, ip) ==
  /\ r \notin running
  /\ Cardinality(running) < MaxInFlight
  /\ total < Global
  /\ spent[ip] < PerIp
  /\ running' = running \cup {r}
  /\ total' = total + 1
  /\ spent' = [spent EXCEPT ![ip] = @ + 1]

Finish(r) ==
  /\ r \in running
  /\ running' = running \ {r}
  /\ UNCHANGED <<spent, total>>

\* Midnight: a new allowance, but the runs under way still count as under way.
NewDay ==
  /\ spent' = Unspent
  /\ total' = 0
  /\ UNCHANGED running

\* The counters live in the process, and so do the runs.
Restart ==
  /\ spent' = Unspent
  /\ total' = 0
  /\ running' = {}

Next ==
  \/ \E r \in Request : (\E ip \in Ip : Start(r, ip)) \/ Finish(r)
  \/ NewDay
  \/ Restart

Spec == Init /\ [][Next]_budget
=============================================================================
