---------------------------- MODULE PaidEndpoints ---------------------------
(***************************************************************************)
(* The two routes that spend money: POST /demo/generate (generate.py, with *)
(* the worker's generator.py behind it) and POST /demo/agent (agent.py).   *)
(* Each has a limiter of its own, the same class twice, and they share     *)
(* nothing else, so one behaviour follows one of the two: deploy.kind.     *)
(*                                                                         *)
(* Admission runs on the event loop from the end of the body to acquire()  *)
(* without an await.  A generation then runs in a threadpool thread; an    *)
(* agent run is a coroutine that waits for the model and for the routes    *)
(* its tools call.  Both give their slot back in a finally block.          *)
(*                                                                         *)
(* Abstractions.  A generation gets a fresh manifest id, so no two touch   *)
(* the same rows and "done" says what one of them has put where.  The      *)
(* providers are external: a call answers, fails in a way the code         *)
(* recovers from, or fails in a way it lets through.                       *)
(***************************************************************************)
EXTENDS Naturals, FiniteSets

CONSTANTS
  Request,          \* the requests that can be in flight at once
  Ip,
  PerIp, Global, MaxInFlight,   \* the limiter's caps
  GmiModels,        \* GMICloud models a generation may try: the first and its fallbacks
  MaxTurns,         \* ROOTED_AGENT_MAX_TURNS
  MaxDay,           \* bound: midnights
  MaxRestarts       \* bound: restarts of the process

ASSUME PaidAssumption ==
  /\ IsFiniteSet(Request)
  /\ {PerIp, Global, MaxInFlight} \subseteq Nat
  /\ {GmiModels, MaxTurns} \subseteq Nat \ {0}
  /\ {MaxDay, MaxRestarts} \subseteq Nat

VARIABLES
  deploy,           \* which endpoint, whether it is enabled, whether OpenAI is keyed
  today,            \* the calendar
  limiter,          \* _RateLimiter / _AgentLimiter
  req,              \* the requests, with what they have done and answered
  leaked,           \* history: slots whose release was skipped
  started,          \* history: runs started today in this process, by caller
  calls,            \* history: calls of a paid provider or model today
  restarts          \* restarts today: each one forgets the day's counts

vars == <<deploy, today, limiter, req, leaked, started, calls, restarts>>
history == <<leaked, started, calls>>

-----------------------------------------------------------------------------
Deploy == [kind : {"generate", "agent"}, enabled : BOOLEAN, openai : BOOLEAN]

Work == {"registered", "logged", "asset", "manifest", "signature"}

Answer == {"none", "refused", "seed", "fresh", "answered", "error"}

\* The steps of a generation, and of an agent run.
Generating ==
  {"gmi", "fetch gmi", "openai", "fetch openai", "register", "append", "asset",
   "manifest", "signature", "release"}

Asking == {"model", "tools", "close"}

Handler ==
  [pc : {"idle"} \cup Generating \cup Asking, tries : Nat, text : BOOLEAN,
   done : SUBSET Work, onB2 : BOOLEAN, answer : Answer]

Limiter ==
  [day : 0..MaxDay, ips : [Ip -> 0..PerIp], global : 0..Global, inFlight : 0..MaxInFlight]

Idle == [pc |-> "idle", tries |-> 0, text |-> FALSE, done |-> {}, onB2 |-> FALSE,
         answer |-> "none"]

\* A request past acquire() and not yet past release().
Holds(r) == req[r].pc # "idle"

Zero == [ip \in Ip |-> 0]

\* Faulty variants stand before the definitions they replace; no action uses them.
\* Here: midnight clears the in-flight count with the daily ones.
RolledForgetful(l) ==
  IF l.day = today THEN l
  ELSE [l EXCEPT !.day = today, !.ips = Zero, !.global = 0, !.inFlight = 0]

Rolled(l) == IF l.day = today THEN l ELSE [l EXCEPT !.day = today, !.ips = Zero, !.global = 0]

\* Faulty: one run too many a day.
AcquirableOffByOne(l, ip) ==
  l.inFlight < MaxInFlight /\ l.global <= Global /\ l.ips[ip] < PerIp

\* Faulty: daily caps only.
AcquirableNeverBusy(l, ip) == l.global < Global /\ l.ips[ip] < PerIp

Acquirable(l, ip) ==
  /\ l.inFlight < MaxInFlight
  /\ l.global < Global
  /\ l.ips[ip] < PerIp

Acquire(l, ip) ==
  [l EXCEPT !.ips[ip] = @ + 1, !.global = @ + 1, !.inFlight = @ + 1]

\* Faulty: a released run is refunded.
ReleaseRefunds(l) ==
  [l EXCEPT !.inFlight = IF @ > 0 THEN @ - 1 ELSE @, !.global = IF @ > 0 THEN @ - 1 ELSE @]

Release(l) == [l EXCEPT !.inFlight = IF @ > 0 THEN @ - 1 ELSE @]

\* The answer is ready; the finally block comes next.
Answers(r, a) == [req[r] EXCEPT !.pc = "release", !.answer = a]

Goes(r, pc) == [req[r] EXCEPT !.pc = pc]

Init ==
  /\ deploy \in Deploy
  /\ today = 0
  /\ limiter = [day |-> 0, ips |-> Zero, global |-> 0, inFlight |-> 0]
  /\ req = [r \in Request |-> Idle]
  /\ leaked = 0
  /\ started = Zero
  /\ calls = 0
  /\ restarts = 0

-----------------------------------------------------------------------------
\* Admission.

\* 413 or 400 for the body, the prompt or the question.
RefuseBody(r) ==
  /\ ~Holds(r)
  /\ req' = [req EXCEPT ![r] = [Idle EXCEPT !.answer = "refused"]]
  /\ UNCHANGED <<deploy, today, limiter, history, restarts>>

\* The endpoint is off, not configured, or its client cannot be built: the seeded
\* asset, or a labelled empty answer, before the limiter is asked.
Decline(r) ==
  /\ ~Holds(r)
  /\ ~deploy.enabled \/ deploy.kind = "agent"
  /\ req' = [req EXCEPT ![r] = [Idle EXCEPT !.answer = "seed"]]
  /\ UNCHANGED <<deploy, today, limiter, history, restarts>>

\* acquire() reads the day, rolls the counters over, and takes all or nothing.  A
\* refused agent call closes its client, which may raise.
Admit(r, ip) ==
  LET l == Rolled(limiter)
  IN /\ ~Holds(r)
     /\ deploy.enabled
     /\ \/ /\ ~Acquirable(l, ip)
           /\ limiter' = l
           /\ \E a \in {"seed"} \cup (IF deploy.kind = "agent" THEN {"error"} ELSE {}) :
                req' = [req EXCEPT ![r] = [Idle EXCEPT !.answer = a]]
           /\ UNCHANGED started
        \/ /\ Acquirable(l, ip)
           /\ limiter' = Acquire(l, ip)
           /\ req' = [req EXCEPT ![r] =
                [Idle EXCEPT !.pc = IF deploy.kind = "agent" THEN "model" ELSE "gmi"]]
           /\ started' = [started EXCEPT ![ip] = @ + 1]
     /\ UNCHANGED <<deploy, today, leaked, calls, restarts>>

-----------------------------------------------------------------------------
\* A generation.

\* A recoverable failure of GMICloud, or of the fetch of its asset, goes to OpenAI
\* when it has a key, else to the seeded asset; so does one of OpenAI, to the latter.
NextProvider(r) ==
  IF req[r].pc \in {"gmi", "fetch gmi"} /\ deploy.openai
    THEN Goes(r, "openai")
    ELSE Answers(r, "seed")

\* _generate_gmi: one model of the step; a model error tries the next one.
CallGmi(r) ==
  /\ req[r].pc = "gmi"
  /\ calls' = calls + 1
  /\ \/ req' = [req EXCEPT ![r] = Goes(r, "fetch gmi")]
     \/ /\ req[r].tries + 1 < GmiModels
        /\ req' = [req EXCEPT ![r].tries = @ + 1]
     \/ req' = [req EXCEPT ![r] = NextProvider(r)]
     \/ req' = [req EXCEPT ![r] = Answers(r, "error")]
  /\ UNCHANGED <<deploy, today, limiter, leaked, started, restarts>>

\* _generate_openai.
CallOpenai(r) ==
  /\ req[r].pc = "openai"
  /\ calls' = calls + 1
  /\ \/ req' = [req EXCEPT ![r] = Goes(r, "fetch openai")]
     \/ req' = [req EXCEPT ![r] = NextProvider(r)]
     \/ req' = [req EXCEPT ![r] = Answers(r, "error")]
  /\ UNCHANGED <<deploy, today, limiter, leaked, started, restarts>>

\* Faulty: release() after each handled outcome, not in a finally block.
FetchAssetReleasesLate(r) ==
  /\ req[r].pc \in {"fetch gmi", "fetch openai"}
  /\ \/ req' = [req EXCEPT ![r] = Goes(r, "register")]
     \/ req' = [req EXCEPT ![r] = NextProvider(r)]
     \/ req' = [req EXCEPT ![r].pc = "idle", ![r].answer = "error"]
  /\ UNCHANGED <<deploy, today, limiter, history, restarts>>

\* _to_result: the asset is read from a temporary file or a pinned public address
\* (a bad scheme, host, size or transfer is recoverable), then decoded (not so).
FetchAsset(r) ==
  /\ req[r].pc \in {"fetch gmi", "fetch openai"}
  /\ \/ req' = [req EXCEPT ![r] = Goes(r, "register")]
     \/ req' = [req EXCEPT ![r] = NextProvider(r)]
     \/ req' = [req EXCEPT ![r] = Answers(r, "error")]
  /\ UNCHANGED <<deploy, today, limiter, history, restarts>>

Does(r, what, pc) == [req[r] EXCEPT !.pc = pc, !.done = @ \cup {what}]

\* _generate_and_register: sign, then resolver.register.
RegisterGenerated(r) ==
  /\ req[r].pc = "register"
  /\ \/ req' = [req EXCEPT ![r] = Does(r, "registered", "append")]
     \/ req' = [req EXCEPT ![r] = Answers(r, "error")]
  /\ UNCHANGED <<deploy, today, limiter, history, restarts>>

\* Faulty: an append that raises is logged and forgotten, as a failed put is.
AppendBestEffort(r) ==
  /\ req[r].pc = "append"
  /\ \/ req' = [req EXCEPT ![r] = Does(r, "logged", "asset")]
     \/ req' = [req EXCEPT ![r] = Goes(r, "asset")]
  /\ UNCHANGED <<deploy, today, limiter, history, restarts>>

\* ... log.append; when it raises the caller gets a 500 that says so.
AppendGenerated(r) ==
  /\ req[r].pc = "append"
  /\ \/ req' = [req EXCEPT ![r] = Does(r, "logged", "asset")]
     \/ req' = [req EXCEPT ![r] = Answers(r, "error")]
  /\ UNCHANGED <<deploy, today, limiter, history, restarts>>

\* ... then asset, manifest and signature go to the store, last and best effort;
\* a store in memory is not reported as B2.
StoreGenerated(r) ==
  /\ req[r].pc \in {"asset", "manifest", "signature"}
  /\ \/ req' = [req EXCEPT ![r] = Answers(r, "fresh")]
     \/ /\ req[r].pc = "asset"
        /\ req' = [req EXCEPT ![r] = Does(r, "asset", "manifest")]
     \/ /\ req[r].pc = "manifest"
        /\ req' = [req EXCEPT ![r] = Does(r, "manifest", "signature")]
     \/ /\ req[r].pc = "signature"
        /\ \E onB2 \in BOOLEAN :
             req' = [req EXCEPT ![r] =
               [Does(r, "signature", "release") EXCEPT !.answer = "fresh", !.onB2 = onB2]]
  /\ UNCHANGED <<deploy, today, limiter, history, restarts>>

\* finally: the limiter's slot.
Finish(r) ==
  /\ req[r].pc = "release"
  /\ limiter' = Release(limiter)
  /\ req' = [req EXCEPT ![r].pc = "idle"]
  /\ UNCHANGED <<deploy, today, history, restarts>>

-----------------------------------------------------------------------------
\* An agent run.

\* The turns are over: what text there was is the answer, none is a fallback.
Conclude(q) ==
  [q EXCEPT !.pc = "close", !.answer = IF q.text THEN "answered" ELSE "seed"]

\* One turn of _run_agent: the model fails, refuses, is cut off at its token limit,
\* stops, or asks for tools, with or without text.
CallModel(r) ==
  /\ req[r].pc = "model"
  /\ calls' = calls + 1
  /\ LET turn == [req[r] EXCEPT !.tries = @ + 1]
     IN \/ req' = [req EXCEPT ![r] = [turn EXCEPT !.pc = "close", !.answer = "seed"]]
        \/ \E text \in {turn.text, TRUE} :
             \/ req' = [req EXCEPT ![r] = Conclude([turn EXCEPT !.text = text])]
             \/ req' = [req EXCEPT ![r] = [turn EXCEPT !.pc = "tools", !.text = text]]
  /\ UNCHANGED <<deploy, today, limiter, leaked, started, restarts>>

\* The tools' routes are read, whatever they answer; then the next turn, if one is
\* left.  A result that cannot be encoded ends the run.
RunTools(r) ==
  /\ req[r].pc = "tools"
  /\ \/ req' = [req EXCEPT ![r] =
          IF req[r].tries < MaxTurns THEN Goes(r, "model") ELSE Conclude(req[r])]
     \/ req' = [req EXCEPT ![r] = [req[r] EXCEPT !.pc = "close", !.answer = "seed"]]
  /\ UNCHANGED <<deploy, today, limiter, history, restarts>>

\* finally: close the model client, then release; if closing raises, the slot stays
\* taken for as long as the process lives.
CloseClient(r) ==
  /\ req[r].pc = "close"
  /\ \/ /\ limiter' = Release(limiter)
        /\ req' = [req EXCEPT ![r].pc = "idle"]
        /\ UNCHANGED leaked
     \/ /\ leaked' = leaked + 1
        /\ req' = [req EXCEPT ![r].pc = "idle", ![r].answer = "error"]
        /\ UNCHANGED limiter
  /\ UNCHANGED <<deploy, today, started, calls, restarts>>

-----------------------------------------------------------------------------
\* The world.

Midnight ==
  /\ today < MaxDay
  /\ today' = today + 1
  /\ started' = Zero
  /\ calls' = 0
  /\ restarts' = 0
  /\ UNCHANGED <<deploy, limiter, req, leaked>>

\* The process dies with its requests and its limiter, and a new one starts.
Restart ==
  /\ restarts < MaxRestarts
  /\ restarts' = restarts + 1
  /\ limiter' = [day |-> today, ips |-> Zero, global |-> 0, inFlight |-> 0]
  /\ req' = [r \in Request |-> Idle]
  /\ leaked' = 0
  /\ started' = Zero
  /\ UNCHANGED <<deploy, today, calls>>

Works(r) ==
  \/ CallGmi(r) \/ CallOpenai(r) \/ FetchAsset(r) \/ RegisterGenerated(r)
  \/ AppendGenerated(r) \/ StoreGenerated(r) \/ Finish(r)
  \/ CallModel(r) \/ RunTools(r) \/ CloseClient(r)

Next ==
  \/ \E r \in Request :
       RefuseBody(r) \/ Decline(r) \/ (\E ip \in Ip : Admit(r, ip)) \/ Works(r)
  \/ Midnight
  \/ Restart

Spec == Init /\ [][Next]_vars

\* Every wait is for a provider, a model or a store, each called with a timeout.
FairSpec == Spec /\ \A r \in Request : WF_vars(Works(r))

-----------------------------------------------------------------------------
\* Types of the state; the limiter never counts past its caps.
PaidTypeOK ==
  /\ deploy \in Deploy
  /\ today \in 0..MaxDay
  /\ limiter \in Limiter
  /\ limiter.day <= today
  /\ req \in [Request -> Handler]
  /\ leaked \in Nat
  /\ started \in [Ip -> Nat]
  /\ calls \in Nat
  /\ restarts \in 0..MaxRestarts

Holders == {r \in Request : Holds(r)}

\* The in-flight counter counts exactly the runs under way and the slots leaked by a
\* client that failed to close: no path through the handlers gives a slot back twice,
\* keeps one, or loses one at midnight.  (release, demo_generate, demo_agent.)
SlotsAccounted == limiter.inFlight = Cardinality(Holders) + leaked

CallsPerRun == IF deploy.kind = "agent" THEN MaxTurns ELSE GmiModels + 1

\* What one calendar day can cost: the calls of the runs each process of that day may
\* start, and of those the day before left in flight.
SpendBounded == calls <= CallsPerRun * (Global * (restarts + 1) + MaxInFlight)

\* A generation answered as fresh is registered and in the log, and one answered as
\* stored is on B2 with all its objects.  A manifest on B2 has its asset there and is
\* in the log, whatever failed after it: a rebuild from B2 finds no orphan.
FreshIsRecoverable ==
  \A r \in Request :
    /\ req[r].answer = "fresh" => {"registered", "logged"} \subseteq req[r].done
    /\ req[r].onB2 => req[r].done = Work
    /\ "manifest" \in req[r].done => {"asset", "registered", "logged"} \subseteq req[r].done

\* The limiter with its lazily rolled counters keeps what a daily budget promises,
\* counted by the calendar.
TheBudget == INSTANCE DailyBudget WITH
  spent <- started,
  total <- limiter.global * (IF limiter.day = today THEN 1 ELSE 0),
  running <- Holders

ImplementsBudget == TheBudget!Spec

\* A busy endpoint does not stay busy, unless slots have leaked.
BusyEnds == limiter.inFlight = MaxInFlight ~> limiter.inFlight < MaxInFlight \/ leaked > 0

-----------------------------------------------------------------------------
\* What the source says of the generation endpoint and the code does not do:
\* generate.py, _RateLimiter: "the global daily counter is a hard ceiling on provider
\* ATTEMPTS".
AttemptsCeiling == deploy.kind = "generate" => calls <= Global * (restarts + 1)
=============================================================================
