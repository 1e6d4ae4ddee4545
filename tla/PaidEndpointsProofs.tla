------------------------- MODULE PaidEndpointsProofs -------------------------
(***************************************************************************)
(* Proofs about PaidEndpoints, for every value of its constants.           *)
(*                                                                         *)
(* The spend of a day is a sum over the runs that made it.  It is bounded  *)
(* by giving each admitted run a token for each call it may make: a call   *)
(* takes one token away, and the number of tokens is a cardinality.        *)
(***************************************************************************)
EXTENDS PaidEndpoints, FiniteSetTheorems, TLAPS

\* The calls a run may still make.
Left(q) ==
  IF q.pc = "gmi" THEN GmiModels + 1 - q.tries
  ELSE IF q.pc \in {"fetch gmi", "openai"} THEN 1
  ELSE IF q.pc \in {"model", "tools"} THEN MaxTurns - q.tries
  ELSE 0

Tokens == {t \in Request \X (1..CallsPerRun) : t[2] <= Left(req[t[1]])}

\* A generation never is at a step of an agent run, nor the other way round, and
\* neither tries more often than it may.
OnPath(kind, q) ==
  /\ q.pc \in Generating => kind = "generate"
  /\ q.pc \in Asking => kind = "agent"
  /\ q.pc = "gmi" => q.tries < GmiModels
  /\ q.pc = "model" => q.tries < MaxTurns
  /\ q.pc = "tools" => q.tries <= MaxTurns

\* What a generation has behind it at each step, and in its answer.
Recoverable(q) ==
  /\ q.pc = "append" => "registered" \in q.done
  /\ q.pc \in {"asset", "manifest", "signature"} => {"registered", "logged"} \subseteq q.done
  /\ q.pc \in {"manifest", "signature"} => "asset" \in q.done
  /\ q.pc = "signature" => "manifest" \in q.done
  /\ q.answer = "fresh" => {"registered", "logged"} \subseteq q.done
  /\ q.onB2 => q.done = Work
  /\ "manifest" \in q.done => {"asset", "registered", "logged"} \subseteq q.done

RunsInv == \A r \in Request : OnPath(deploy.kind, req[r]) /\ Recoverable(req[r])

\* The limiter's counts, read on their own day, are those of the calendar.
StartedInv == started = IF limiter.day = today THEN limiter.ips ELSE Zero

\* The runs started today, as the limiter counts them.
Counted == IF limiter.day = today THEN limiter.global ELSE 0

\* What was called today and what may yet be called is paid for by the runs started
\* today, those of the processes before this one, and those left by the day before.
SpendInv ==
  calls + Cardinality(Tokens)
    <= CallsPerRun * (Counted + Global * restarts + MaxInFlight)

PaidInv ==
  /\ PaidTypeOK
  /\ SlotsAccounted
  /\ RunsInv
  /\ StartedInv
  /\ SpendInv

\* The steps at which a provider is tried, and those after it.
Trying == {"gmi", "fetch gmi", "openai", "fetch openai"}
Tried == {"register", "append", "asset", "manifest", "signature", "release"}
-----------------------------------------------------------------------------
\* What a step can do to the requests: it leaves one idle, ...
StaysIdle(r) ==
  /\ ~Holds(r)
  /\ \E q \in Handler :
       /\ q.pc = "idle"
       /\ Recoverable(q)
       /\ req' = [req EXCEPT ![r] = q]
  /\ limiter' \in {limiter, Rolled(limiter)}
  /\ UNCHANGED <<deploy, today, history, restarts>>

\* ... or starts a run, with a slot and a place in both daily counts, ...
Starts(r, ip) ==
  /\ ~Holds(r)
  /\ Acquirable(Rolled(limiter), ip)
  /\ limiter' = Acquire(Rolled(limiter), ip)
  /\ \E q \in Handler :
       /\ q.pc # "idle"
       /\ OnPath(deploy.kind, q)
       /\ Recoverable(q)
       /\ req' = [req EXCEPT ![r] = q]
  /\ started' = [started EXCEPT ![ip] = @ + 1]
  /\ UNCHANGED <<deploy, today, leaked, calls, restarts>>

\* ... or moves a run on, by a call of a provider or without one, ...
MovesOn(r) ==
  /\ Holds(r)
  /\ \E q \in Handler :
       /\ q.pc # "idle"
       /\ OnPath(deploy.kind, q)
       /\ Recoverable(q)
       /\ req' = [req EXCEPT ![r] = q]
       /\ \/ calls' = calls /\ Left(q) <= Left(req[r])
          \/ calls' = calls + 1 /\ Left(q) < Left(req[r])
  /\ UNCHANGED <<deploy, today, limiter, leaked, started, restarts>>

\* ... or ends one, with its slot given back or leaked.
Ends(r) ==
  /\ Holds(r)
  /\ \E q \in Handler :
       /\ q.pc = "idle"
       /\ Recoverable(q)
       /\ req' = [req EXCEPT ![r] = q]
  /\ \/ limiter' = Release(limiter) /\ leaked' = leaked
     \/ limiter' = limiter /\ leaked' = leaked + 1
  /\ UNCHANGED <<deploy, today, started, calls, restarts>>

LEMMA CapsAreNat ==
  /\ PerIp \in Nat /\ Global \in Nat /\ MaxInFlight \in Nat
  /\ GmiModels \in Nat /\ GmiModels > 0
  /\ MaxTurns \in Nat /\ MaxTurns > 0
  /\ MaxDay \in Nat /\ MaxRestarts \in Nat
  /\ CallsPerRun \in Nat
BY PaidAssumption DEF PaidAssumption, CallsPerRun

\* A request holds a slot at any step but "idle".
LEMMA StepIsHandler ==
  ASSUME PaidTypeOK, NEW r \in Request
  PROVE  /\ req[r] \in Handler
         /\ req[r].pc \in {"idle"} \cup Generating \cup Asking
         /\ req[r].tries \in Nat /\ req[r].text \in BOOLEAN
         /\ req[r].done \subseteq Work
         /\ req[r].onB2 \in BOOLEAN /\ req[r].answer \in Answer
<1>1. req[r] \in Handler
  BY DEF PaidTypeOK
<1>2. QED
  BY <1>1 DEF Handler

\* The calls that are left are never more than a run may make, and a run that is at
\* a call has one left.
LEMMA LeftBounds ==
  ASSUME PaidTypeOK, NEW q \in Handler, OnPath(deploy.kind, q)
  PROVE  /\ Left(q) \in 0..CallsPerRun
         /\ q.pc \in {"gmi", "openai", "model"} => Left(q) > 0
         /\ q.pc = "gmi" => Left(q) > 1
<1> USE CapsAreNat
<1>1. q.tries \in Nat /\ q.pc \in {"idle"} \cup Generating \cup Asking
  BY DEF Handler
<1>2. CASE q.pc = "gmi"
  <2>1. CallsPerRun = GmiModels + 1
    BY <1>2 DEF OnPath, Generating, CallsPerRun
  <2>2. Left(q) = GmiModels + 1 - q.tries /\ q.tries < GmiModels
    BY <1>2 DEF OnPath, Left
  <2>3. QED
    BY <1>1, <1>2, <2>1, <2>2
<1>3. CASE q.pc \in {"fetch gmi", "openai"}
  <2>1. Left(q) = 1
    BY <1>3 DEF Left
  <2>2. CallsPerRun >= 1
    BY DEF CallsPerRun
  <2>3. Left(q) \in 0..CallsPerRun
    BY <2>1, <2>2
  <2>4. q.pc # "gmi" /\ q.pc # "model"
    BY <1>3
  <2>5. Left(q) > 0
    BY <2>1
  <2>6. QED
    BY <2>3, <2>4, <2>5
<1>4. CASE q.pc \in {"model", "tools"}
  <2>1. q.pc \in Asking
    BY <1>4 DEF Asking
  <2>2. CallsPerRun = MaxTurns
    BY <2>1 DEF OnPath, CallsPerRun
  <2>3. Left(q) = MaxTurns - q.tries
    BY <1>4 DEF Left
  <2>4. q.tries <= MaxTurns /\ (q.pc = "model" => q.tries < MaxTurns)
    BY <1>1, <1>4 DEF OnPath
  <2>5. Left(q) \in 0..CallsPerRun
    BY <1>1, <2>2, <2>3, <2>4
  <2>6. q.pc = "model" => Left(q) > 0
    BY <1>1, <2>3, <2>4
  <2>7. QED
    BY <1>4, <2>5, <2>6
<1>5. CASE q.pc \notin {"gmi", "fetch gmi", "openai", "model", "tools"}
  <2>1. Left(q) = 0
    BY <1>5 DEF Left
  <2>2. Left(q) \in 0..CallsPerRun
    BY <2>1
  <2>3. QED
    BY <1>5, <2>2
<1>6. QED
  BY <1>2, <1>3, <1>4, <1>5

LEMMA LeftOfRun ==
  ASSUME PaidTypeOK, RunsInv, NEW r \in Request
  PROVE  /\ Left(req[r]) \in 0..CallsPerRun
         /\ Left(req[r]) \in Nat
         /\ req[r].pc \in {"gmi", "openai", "model"} => Left(req[r]) > 0
         /\ req[r].pc = "gmi" => Left(req[r]) > 1
<1>1. req[r] \in Handler /\ OnPath(deploy.kind, req[r])
  BY StepIsHandler DEF RunsInv
<1>2. /\ Left(req[r]) \in 0..CallsPerRun
      /\ req[r].pc \in {"gmi", "openai", "model"} => Left(req[r]) > 0
      /\ req[r].pc = "gmi" => Left(req[r]) > 1
  BY <1>1, LeftBounds
<1>3. QED
  BY <1>2, CapsAreNat

\* A step of a run that leaves it at q, with the calls it made.
LEMMA MovesTo ==
  ASSUME NEW r \in Request, NEW q \in Handler,
         Holds(r), q.pc # "idle", OnPath(deploy.kind, q), Recoverable(q),
         req' = [req EXCEPT ![r] = q],
         (calls' = calls /\ Left(q) <= Left(req[r]))
           \/ (calls' = calls + 1 /\ Left(q) < Left(req[r])),
         UNCHANGED <<deploy, today, limiter, leaked, started, restarts>>
  PROVE  MovesOn(r)
BY DEF MovesOn

\* A generation that has its answer is to release its slot next.
LEMMA AnswersMovesOn ==
  ASSUME PaidTypeOK, RunsInv, NEW r \in Request,
         req[r].pc \in Generating,
         NEW a \in Answer, a = "fresh" => {"registered", "logged"} \subseteq req[r].done,
         calls' \in {calls, calls + 1},
         calls' # calls => req[r].pc \in {"gmi", "openai"},
         req' = [req EXCEPT ![r] = Answers(r, a)],
         UNCHANGED <<deploy, today, limiter, leaked, started, restarts>>
  PROVE  MovesOn(r)
<1> DEFINE q == Answers(r, a)
<1>1. q \in Handler /\ q.pc = "release" /\ q.answer = a
      /\ q.done = req[r].done /\ q.onB2 = req[r].onB2
  BY StepIsHandler DEF Answers, Handler, Generating
<1>2. OnPath(deploy.kind, q) /\ Recoverable(q)
  BY <1>1 DEF RunsInv, OnPath, Recoverable, Generating, Asking
<1>3. req' = [req EXCEPT ![r] = q] /\ Holds(r)
  BY DEF Holds, Generating
<1> HIDE DEF q
<1>4. Left(q) = 0
  BY <1>1 DEF Left
<1>5. Left(req[r]) \in Nat /\ (calls' # calls => Left(req[r]) > 0)
  BY LeftOfRun
<1>6. (calls' = calls /\ Left(q) <= Left(req[r]))
      \/ (calls' = calls + 1 /\ Left(q) < Left(req[r]))
  BY <1>4, <1>5
<1>7. QED
  BY <1>1, <1>2, <1>3, <1>6, MovesTo

-----------------------------------------------------------------------------
\* The steps of a generation.

\* A provider's failure the code recovers from: the other provider, or the seed.
LEMMA NextProviderMovesOn ==
  ASSUME PaidTypeOK, RunsInv, NEW r \in Request,
         req[r].pc \in Trying,
         calls' = IF req[r].pc \in {"gmi", "openai"} THEN calls + 1 ELSE calls,
         req' = [req EXCEPT ![r] = NextProvider(r)],
         UNCHANGED <<deploy, today, limiter, leaked, started, restarts>>
  PROVE  MovesOn(r)
<1>1. CASE req[r].pc \in {"gmi", "fetch gmi"} /\ deploy.openai
  <2> DEFINE q == Goes(r, "openai")
  <2>1. q \in Handler /\ q.pc = "openai" /\ q.answer = req[r].answer
        /\ q.done = req[r].done /\ q.onB2 = req[r].onB2
    BY StepIsHandler DEF Goes, Handler, Generating
  <2>2. OnPath(deploy.kind, q) /\ Recoverable(q)
    BY <1>1, <2>1 DEF RunsInv, OnPath, Recoverable, Generating, Asking
  <2>3. req' = [req EXCEPT ![r] = q] /\ Holds(r)
    BY <1>1 DEF Holds, NextProvider, Trying
  <2> HIDE DEF q
  <2>4. Left(q) = 1
    BY <2>1 DEF Left
  <2>5. CASE req[r].pc = "gmi"
    <3>1. Left(req[r]) \in Nat /\ Left(req[r]) > 1
      BY <2>5, LeftOfRun
    <3>2. calls' = calls + 1
      BY <2>5
    <3>3. Left(q) < Left(req[r])
      BY <2>4, <3>1
    <3>4. QED
      BY <2>1, <2>2, <2>3, <3>2, <3>3, MovesTo
  <2>6. CASE req[r].pc = "fetch gmi"
    <3>1. Left(req[r]) = 1
      BY <2>6 DEF Left
    <3>2. calls' = calls
      BY <2>6
    <3>3. Left(q) <= Left(req[r])
      BY <2>4, <3>1
    <3>4. QED
      BY <2>1, <2>2, <2>3, <3>2, <3>3, MovesTo
  <2>7. QED
    BY <1>1, <2>5, <2>6
<1>2. CASE ~(req[r].pc \in {"gmi", "fetch gmi"} /\ deploy.openai)
  <2>1. req' = [req EXCEPT ![r] = Answers(r, "seed")]
    BY <1>2 DEF NextProvider
  <2>2. req[r].pc \in Generating /\ "seed" \in Answer /\ "seed" # "fresh"
    BY DEF Generating, Trying, Answer
  <2>3. calls' \in {calls, calls + 1} /\ (calls' # calls => req[r].pc \in {"gmi", "openai"})
    OBVIOUS
  <2>4. QED
    BY <2>1, <2>2, <2>3, AnswersMovesOn
<1>3. QED
  BY <1>1, <1>2

LEMMA CallGmiStep ==
  ASSUME PaidTypeOK, RunsInv, NEW r \in Request, CallGmi(r)
  PROVE  MovesOn(r)
<1>1. req[r].pc = "gmi" /\ calls' = calls + 1
      /\ UNCHANGED <<deploy, today, limiter, leaked, started, restarts>>
  BY DEF CallGmi
<1>2. Holds(r) /\ req[r].pc \in Generating
  BY <1>1 DEF Holds, Generating
<1>0. Left(req[r]) \in Nat /\ Left(req[r]) > 1
  BY <1>1, LeftOfRun
<1>3. CASE req' = [req EXCEPT ![r] = Goes(r, "fetch gmi")]
  <2> DEFINE q == Goes(r, "fetch gmi")
  <2>1. q \in Handler /\ q.pc = "fetch gmi" /\ q.answer = req[r].answer
        /\ q.done = req[r].done /\ q.onB2 = req[r].onB2
    BY StepIsHandler DEF Goes, Handler, Generating
  <2>2. OnPath(deploy.kind, q) /\ Recoverable(q)
    BY <1>2, <2>1 DEF RunsInv, OnPath, Recoverable, Generating, Asking
  <2>3. req' = [req EXCEPT ![r] = q]
    BY <1>3
  <2> HIDE DEF q
  <2>4. Left(q) = 1
    BY <2>1 DEF Left
  <2>5. Left(q) < Left(req[r])
    BY <1>0, <2>4
  <2>6. QED
    BY <1>1, <1>2, <2>1, <2>2, <2>3, <2>5, MovesTo
<1>4. CASE req[r].tries + 1 < GmiModels /\ req' = [req EXCEPT ![r].tries = @ + 1]
  <2> DEFINE q == [req[r] EXCEPT !.tries = @ + 1]
  <2>1. q \in Handler /\ q.pc = "gmi" /\ q.answer = req[r].answer
        /\ q.done = req[r].done /\ q.onB2 = req[r].onB2 /\ q.tries = req[r].tries + 1
    BY <1>1, StepIsHandler DEF Handler
  <2>2. OnPath(deploy.kind, q) /\ Recoverable(q)
    BY <1>1, <1>2, <1>4, <2>1 DEF RunsInv, OnPath, Recoverable, Generating, Asking
  <2>3. req' = [req EXCEPT ![r] = q]
    BY <1>4
  <2> HIDE DEF q
  <2>4. Left(q) = GmiModels + 1 - (req[r].tries + 1)
    BY <2>1 DEF Left
  <2>5. Left(req[r]) = GmiModels + 1 - req[r].tries
    BY <1>1 DEF Left
  <2>6. req[r].tries \in Nat /\ GmiModels \in Nat
    BY StepIsHandler, CapsAreNat
  <2>7. Left(q) < Left(req[r])
    BY <2>4, <2>5, <2>6
  <2>8. QED
    BY <1>1, <1>2, <2>1, <2>2, <2>3, <2>7, MovesTo
<1>5. CASE req' = [req EXCEPT ![r] = NextProvider(r)]
  BY <1>1, <1>5, NextProviderMovesOn DEF Trying
<1>6. CASE req' = [req EXCEPT ![r] = Answers(r, "error")]
  <2>1. "error" \in Answer /\ "error" # "fresh"
    BY DEF Answer
  <2>2. QED
    BY <1>1, <1>2, <1>6, <2>1, AnswersMovesOn
<1>7. QED
  BY <1>3, <1>4, <1>5, <1>6 DEF CallGmi

LEMMA CallOpenaiStep ==
  ASSUME PaidTypeOK, RunsInv, NEW r \in Request, CallOpenai(r)
  PROVE  MovesOn(r)
<1>1. req[r].pc = "openai" /\ calls' = calls + 1
      /\ UNCHANGED <<deploy, today, limiter, leaked, started, restarts>>
  BY DEF CallOpenai
<1>2. Holds(r) /\ req[r].pc \in Generating
  BY <1>1 DEF Holds, Generating
<1>0. Left(req[r]) = 1
  BY <1>1 DEF Left
<1>3. CASE req' = [req EXCEPT ![r] = Goes(r, "fetch openai")]
  <2> DEFINE q == Goes(r, "fetch openai")
  <2>1. q \in Handler /\ q.pc = "fetch openai" /\ q.answer = req[r].answer
        /\ q.done = req[r].done /\ q.onB2 = req[r].onB2
    BY StepIsHandler DEF Goes, Handler, Generating
  <2>2. OnPath(deploy.kind, q) /\ Recoverable(q)
    BY <1>2, <2>1 DEF RunsInv, OnPath, Recoverable, Generating, Asking
  <2>3. req' = [req EXCEPT ![r] = q]
    BY <1>3
  <2> HIDE DEF q
  <2>4. Left(q) = 0
    BY <2>1 DEF Left
  <2>5. Left(q) < Left(req[r])
    BY <1>0, <2>4
  <2>6. QED
    BY <1>1, <1>2, <2>1, <2>2, <2>3, <2>5, MovesTo
<1>4. CASE req' = [req EXCEPT ![r] = NextProvider(r)]
  BY <1>1, <1>4, NextProviderMovesOn DEF Trying
<1>5. CASE req' = [req EXCEPT ![r] = Answers(r, "error")]
  <2>1. "error" \in Answer /\ "error" # "fresh"
    BY DEF Answer
  <2>2. QED
    BY <1>1, <1>2, <1>5, <2>1, AnswersMovesOn
<1>6. QED
  BY <1>3, <1>4, <1>5 DEF CallOpenai
\* A step of a generation that calls nobody and changes neither answer nor tries,
\* but may note work done.
LEMMA WorkMovesOn ==
  ASSUME PaidTypeOK, RunsInv, NEW r \in Request,
         req[r].pc \in Generating \ {"gmi", "openai"},
         NEW q \in Handler,
         q.pc \in Tried,
         Recoverable(q),
         req' = [req EXCEPT ![r] = q],
         UNCHANGED <<deploy, today, limiter, leaked, started, calls, restarts>>
  PROVE  MovesOn(r)
<1>1. Holds(r) /\ q.pc # "idle"
  BY DEF Holds, Generating, Tried
<1>2. OnPath(deploy.kind, q)
  BY DEF RunsInv, OnPath, Generating, Asking, Tried
<1>3. Left(q) = 0
  BY DEF Left, Tried
<1>4. Left(req[r]) \in Nat
  BY LeftOfRun
<1>5. Left(q) <= Left(req[r])
  BY <1>3, <1>4
<1>6. QED
  BY <1>1, <1>2, <1>5, MovesTo

LEMMA FetchAssetStep ==
  ASSUME PaidTypeOK, RunsInv, NEW r \in Request, FetchAsset(r)
  PROVE  MovesOn(r)
<1>1. req[r].pc \in {"fetch gmi", "fetch openai"}
      /\ UNCHANGED <<deploy, today, limiter, leaked, started, calls, restarts>>
  BY DEF FetchAsset, history
<1>2. req[r].pc \in Generating \ {"gmi", "openai"}
  BY <1>1 DEF Generating
<1>3. calls' = IF req[r].pc \in {"gmi", "openai"} THEN calls + 1 ELSE calls
  BY <1>1
<1>4. CASE req' = [req EXCEPT ![r] = Goes(r, "register")]
  <2> DEFINE q == Goes(r, "register")
  <2>1. q \in Handler /\ q.pc = "register" /\ q.answer = req[r].answer
        /\ q.done = req[r].done /\ q.onB2 = req[r].onB2
    BY StepIsHandler DEF Goes, Handler, Generating
  <2>2. Recoverable(q)
    BY <2>1 DEF RunsInv, Recoverable
  <2>3. req' = [req EXCEPT ![r] = q]
    BY <1>4
  <2> HIDE DEF q
  <2>4. q.pc \in Tried
    BY <2>1 DEF Tried
  <2>5. QED
    BY <1>1, <1>2, <2>1, <2>2, <2>3, <2>4, WorkMovesOn
<1>5. CASE req' = [req EXCEPT ![r] = NextProvider(r)]
  BY <1>1, <1>3, <1>5, NextProviderMovesOn DEF Trying
<1>6. CASE req' = [req EXCEPT ![r] = Answers(r, "error")]
  <2>1. "error" \in Answer /\ "error" # "fresh"
    BY DEF Answer
  <2>2. QED
    BY <1>1, <1>2, <1>6, <2>1, AnswersMovesOn
<1>7. QED
  BY <1>4, <1>5, <1>6 DEF FetchAsset

\* Register, append, and the three puts: what is done so far is what the next step
\* relies on.
LEMMA DoesMovesOn ==
  ASSUME PaidTypeOK, RunsInv, NEW r \in Request, NEW what \in Work, NEW pc,
         \/ req[r].pc = "register" /\ what = "registered" /\ pc = "append"
         \/ req[r].pc = "append" /\ what = "logged" /\ pc = "asset"
         \/ req[r].pc = "asset" /\ what = "asset" /\ pc = "manifest"
         \/ req[r].pc = "manifest" /\ what = "manifest" /\ pc = "signature",
         req' = [req EXCEPT ![r] = Does(r, what, pc)],
         UNCHANGED <<deploy, today, limiter, leaked, started, calls, restarts>>
  PROVE  MovesOn(r)
<1> DEFINE q == Does(r, what, pc)
<1>1. pc \in Tried
      /\ pc \in Generating /\ req[r].pc \in Generating \ {"gmi", "openai"}
  BY DEF Generating, Tried
<1>2. q \in Handler /\ q.pc = pc /\ q.answer = req[r].answer
      /\ q.done = req[r].done \cup {what} /\ q.onB2 = req[r].onB2
  BY <1>1, StepIsHandler DEF Does, Handler
<1>3. Recoverable(q)
  BY <1>2, StepIsHandler DEF RunsInv, Recoverable
<1>4. req' = [req EXCEPT ![r] = q]
  OBVIOUS
<1> HIDE DEF q
<1>5. QED
  BY <1>1, <1>2, <1>3, <1>4, WorkMovesOn

LEMMA RegisterAppendStep ==
  ASSUME PaidTypeOK, RunsInv, NEW r \in Request,
         RegisterGenerated(r) \/ AppendGenerated(r)
  PROVE  MovesOn(r)
<1>1. req[r].pc \in {"register", "append"}
      /\ UNCHANGED <<deploy, today, limiter, leaked, started, calls, restarts>>
  BY DEF RegisterGenerated, AppendGenerated, history
<1>2. req[r].pc \in Generating
  BY <1>1 DEF Generating
<1>3. "error" \in Answer /\ "error" # "fresh" /\ {"registered", "logged"} \subseteq Work
  BY DEF Answer, Work
<1>4. CASE req' = [req EXCEPT ![r] = Answers(r, "error")]
  BY <1>1, <1>2, <1>3, <1>4, AnswersMovesOn
<1>5. CASE req[r].pc = "register" /\ req' = [req EXCEPT ![r] = Does(r, "registered", "append")]
  BY <1>1, <1>3, <1>5, DoesMovesOn
<1>6. CASE req[r].pc = "append" /\ req' = [req EXCEPT ![r] = Does(r, "logged", "asset")]
  BY <1>1, <1>3, <1>6, DoesMovesOn
<1>7. QED
  BY <1>4, <1>5, <1>6 DEF RegisterGenerated, AppendGenerated

LEMMA StoreGeneratedStep ==
  ASSUME PaidTypeOK, RunsInv, NEW r \in Request, StoreGenerated(r)
  PROVE  MovesOn(r)
<1>1. req[r].pc \in {"asset", "manifest", "signature"}
      /\ UNCHANGED <<deploy, today, limiter, leaked, started, calls, restarts>>
  BY DEF StoreGenerated, history
<1>2. req[r].pc \in Generating \ {"gmi", "openai"}
  BY <1>1 DEF Generating
<1>3. "fresh" \in Answer /\ {"asset", "manifest"} \subseteq Work
  BY DEF Answer, Work
<1>4. {"registered", "logged"} \subseteq req[r].done
  BY <1>1 DEF RunsInv, Recoverable
<1>5. CASE req' = [req EXCEPT ![r] = Answers(r, "fresh")]
  BY <1>1, <1>2, <1>3, <1>4, <1>5, AnswersMovesOn
<1>6. CASE req[r].pc = "asset" /\ req' = [req EXCEPT ![r] = Does(r, "asset", "manifest")]
  BY <1>1, <1>3, <1>6, DoesMovesOn
<1>7. CASE req[r].pc = "manifest" /\ req' = [req EXCEPT ![r] = Does(r, "manifest", "signature")]
  BY <1>1, <1>3, <1>7, DoesMovesOn
<1>8. ASSUME req[r].pc = "signature", NEW onB2 \in BOOLEAN,
             req' = [req EXCEPT ![r] =
               [Does(r, "signature", "release") EXCEPT !.answer = "fresh", !.onB2 = onB2]]
      PROVE  MovesOn(r)
  <2> DEFINE q == [Does(r, "signature", "release") EXCEPT !.answer = "fresh", !.onB2 = onB2]
  <2>1. q \in Handler /\ q.pc = "release" /\ q.answer = "fresh"
        /\ q.done = req[r].done \cup {"signature"} /\ q.onB2 = onB2
    BY StepIsHandler DEF Does, Handler, Generating, Answer, Work
  <2>2. {"registered", "logged", "asset", "manifest"} \subseteq req[r].done
    BY <1>8 DEF RunsInv, Recoverable
  <2>3. q.done = Work
    BY <2>1, <2>2, StepIsHandler DEF Work
  <2>4. Recoverable(q)
    BY <2>1, <2>2, <2>3 DEF Recoverable
  <2>5. req' = [req EXCEPT ![r] = q]
    BY <1>8
  <2> HIDE DEF q
  <2>6. q.pc \in Tried
    BY <2>1 DEF Tried
  <2>7. QED
    BY <1>1, <1>2, <2>1, <2>4, <2>5, <2>6, WorkMovesOn
<1>9. QED
  BY <1>5, <1>6, <1>7, <1>8 DEF StoreGenerated

-----------------------------------------------------------------------------
\* The steps of an agent run.

\* A turn of the model, and one of the tools: the run is at q next.
LEMMA AgentMovesOn ==
  ASSUME PaidTypeOK, RunsInv, NEW r \in Request,
         req[r].pc \in {"model", "tools"},
         NEW q \in Handler,
         q.pc \in Asking, q.done = req[r].done, q.onB2 = req[r].onB2,
         q.answer \in {req[r].answer, "seed", "answered"},
         \/ /\ req[r].pc = "model" /\ calls' = calls + 1
            /\ q.pc \in {"tools", "close"} /\ q.tries = req[r].tries + 1
         \/ /\ req[r].pc = "tools" /\ calls' = calls
            /\ q.pc \in {"model", "close"} /\ q.tries = req[r].tries
            /\ q.pc = "model" => q.tries < MaxTurns,
         req' = [req EXCEPT ![r] = q],
         UNCHANGED <<deploy, today, limiter, leaked, started, restarts>>
  PROVE  MovesOn(r)
<1>1. Holds(r) /\ q.pc # "idle" /\ req[r].pc \in Asking
  BY DEF Holds, Asking
<1>2. req[r].tries \in Nat /\ q.tries \in Nat /\ MaxTurns \in Nat
  BY StepIsHandler, CapsAreNat DEF Handler
<1>3. req[r].tries <= MaxTurns /\ (req[r].pc = "model" => req[r].tries < MaxTurns)
  BY <1>2 DEF RunsInv, OnPath
<1>4. deploy.kind = "agent" /\ q.pc \notin Generating
  BY <1>1 DEF RunsInv, OnPath, Asking, Generating
<1>5. q.pc = "model" => q.tries < MaxTurns
  OBVIOUS
<1>6. q.pc = "tools" => q.tries <= MaxTurns
  BY <1>2, <1>3
<1>7. OnPath(deploy.kind, q)
  BY <1>4, <1>5, <1>6 DEF OnPath, Generating
<1>8. Recoverable(q)
  BY DEF RunsInv, Recoverable, Asking
<1>9. Left(req[r]) = MaxTurns - req[r].tries
  BY DEF Left
<1>10. Left(q) = IF q.pc = "close" THEN 0 ELSE MaxTurns - q.tries
  BY DEF Left, Asking
<1>11. (calls' = calls /\ Left(q) <= Left(req[r]))
       \/ (calls' = calls + 1 /\ Left(q) < Left(req[r]))
  <2>1. CASE req[r].pc = "model"
    <3>1. Left(q) < Left(req[r])
      BY <1>2, <1>3, <1>9, <1>10, <2>1
    <3>2. QED
      BY <2>1, <3>1
  <2>2. CASE req[r].pc = "tools"
    <3>1. Left(q) <= Left(req[r])
      BY <1>2, <1>3, <1>9, <1>10, <2>2
    <3>2. QED
      BY <2>2, <3>1
  <2>3. QED
    BY <2>1, <2>2
<1>12. QED
  BY <1>1, <1>7, <1>8, <1>11, MovesTo
LEMMA CallModelStep ==
  ASSUME PaidTypeOK, RunsInv, NEW r \in Request, CallModel(r)
  PROVE  MovesOn(r)
<1> DEFINE turn == [req[r] EXCEPT !.tries = @ + 1]
<1>1. req[r].pc = "model" /\ calls' = calls + 1
      /\ UNCHANGED <<deploy, today, limiter, leaked, started, restarts>>
  BY DEF CallModel
<1>2. turn \in Handler /\ turn.pc = "model" /\ turn.tries = req[r].tries + 1
      /\ turn.done = req[r].done /\ turn.onB2 = req[r].onB2 /\ turn.answer = req[r].answer
      /\ turn.text = req[r].text
  BY <1>1, StepIsHandler DEF Handler
<1> HIDE DEF turn
<1>3. ASSUME NEW q \in Handler, req' = [req EXCEPT ![r] = q],
             q.pc \in {"tools", "close"}, q.tries = turn.tries,
             q.done = turn.done, q.onB2 = turn.onB2,
             q.answer \in {turn.answer, "seed", "answered"}
      PROVE  MovesOn(r)
  <2>1. q.pc \in Asking
    BY <1>3 DEF Asking
  <2>2. QED
    BY <1>1, <1>2, <1>3, <2>1, AgentMovesOn
<1>4. {"seed", "answered"} \subseteq Answer /\ {"tools", "close"} \subseteq Asking
  BY DEF Answer, Asking
<1>5. CASE req' = [req EXCEPT ![r] = [turn EXCEPT !.pc = "close", !.answer = "seed"]]
  <2> DEFINE q == [turn EXCEPT !.pc = "close", !.answer = "seed"]
  <2>1. /\ q \in Handler /\ q.pc = "close" /\ q.tries = turn.tries
        /\ q.done = turn.done /\ q.onB2 = turn.onB2 /\ q.answer = "seed"
    BY <1>2, <1>4 DEF Handler
  <2>2. req' = [req EXCEPT ![r] = q]
    BY <1>5
  <2> HIDE DEF q
  <2>3. QED
    BY <1>3, <2>1, <2>2
<1>6. ASSUME NEW text \in BOOLEAN, NEW t \in Handler, t = [turn EXCEPT !.text = text],
             req' = [req EXCEPT ![r] = Conclude(t)]
      PROVE  MovesOn(r)
  <2> DEFINE q == Conclude(t)
  <2>1. /\ q \in Handler /\ q.pc = "close" /\ q.tries = t.tries
        /\ q.done = t.done /\ q.onB2 = t.onB2 /\ q.answer \in {"seed", "answered"}
    BY <1>4 DEF Conclude, Handler
  <2>2. t.tries = turn.tries /\ t.done = turn.done /\ t.onB2 = turn.onB2
    BY <1>2, <1>6 DEF Handler
  <2>3. req' = [req EXCEPT ![r] = q]
    BY <1>6
  <2> HIDE DEF q
  <2>4. QED
    BY <1>3, <2>1, <2>2, <2>3
<1>7. ASSUME NEW text \in BOOLEAN,
             req' = [req EXCEPT ![r] = [turn EXCEPT !.pc = "tools", !.text = text]]
      PROVE  MovesOn(r)
  <2> DEFINE q == [turn EXCEPT !.pc = "tools", !.text = text]
  <2>1. /\ q \in Handler /\ q.pc = "tools" /\ q.tries = turn.tries
        /\ q.done = turn.done /\ q.onB2 = turn.onB2 /\ q.answer = turn.answer
    BY <1>2, <1>4 DEF Handler
  <2>2. req' = [req EXCEPT ![r] = q]
    BY <1>7
  <2> HIDE DEF q
  <2>3. QED
    BY <1>3, <2>1, <2>2
<1>8. \/ req' = [req EXCEPT ![r] = [turn EXCEPT !.pc = "close", !.answer = "seed"]]
      \/ \E text \in {turn.text, TRUE} :
           \/ req' = [req EXCEPT ![r] = Conclude([turn EXCEPT !.text = text])]
           \/ req' = [req EXCEPT ![r] = [turn EXCEPT !.pc = "tools", !.text = text]]
  BY DEF CallModel, turn
<1>9. ASSUME NEW text \in {turn.text, TRUE}
      PROVE  text \in BOOLEAN /\ [turn EXCEPT !.text = text] \in Handler
  BY <1>2, StepIsHandler DEF Handler
<1>10. QED
  BY <1>5, <1>6, <1>7, <1>8, <1>9

LEMMA RunToolsStep ==
  ASSUME PaidTypeOK, RunsInv, NEW r \in Request, RunTools(r)
  PROVE  MovesOn(r)
<1>1. req[r].pc = "tools"
      /\ UNCHANGED <<deploy, today, limiter, leaked, started, calls, restarts>>
  BY DEF RunTools, history
<1>2. ASSUME NEW q \in Handler, req' = [req EXCEPT ![r] = q],
             q.pc \in {"model", "close"}, q.tries = req[r].tries,
             q.done = req[r].done, q.onB2 = req[r].onB2,
             q.answer \in {req[r].answer, "seed", "answered"},
             q.pc = "model" => q.tries < MaxTurns
      PROVE  MovesOn(r)
  <2>1. q.pc \in Asking
    BY <1>2 DEF Asking
  <2>2. QED
    BY <1>1, <1>2, <2>1, AgentMovesOn
<1>3. {"seed", "answered"} \subseteq Answer /\ {"model", "close"} \subseteq Asking
  BY DEF Answer, Asking
<1>4. CASE req[r].tries < MaxTurns /\ req' = [req EXCEPT ![r] = Goes(r, "model")]
  <2> DEFINE q == Goes(r, "model")
  <2>1. /\ q \in Handler /\ q.pc = "model" /\ q.tries = req[r].tries
        /\ q.done = req[r].done /\ q.onB2 = req[r].onB2 /\ q.answer = req[r].answer
    BY <1>3, StepIsHandler DEF Goes, Handler
  <2>2. req' = [req EXCEPT ![r] = q]
    BY <1>4
  <2> HIDE DEF q
  <2>3. QED
    BY <1>2, <1>4, <2>1, <2>2
<1>5. CASE req' = [req EXCEPT ![r] = Conclude(req[r])]
  <2> DEFINE q == Conclude(req[r])
  <2>1. /\ q \in Handler /\ q.pc = "close" /\ q.tries = req[r].tries
        /\ q.done = req[r].done /\ q.onB2 = req[r].onB2 /\ q.answer \in {"seed", "answered"}
    BY <1>3, StepIsHandler DEF Conclude, Handler
  <2>2. req' = [req EXCEPT ![r] = q]
    BY <1>5
  <2> HIDE DEF q
  <2>3. QED
    BY <1>2, <2>1, <2>2
<1>6. CASE req' = [req EXCEPT ![r] = [req[r] EXCEPT !.pc = "close", !.answer = "seed"]]
  <2> DEFINE q == [req[r] EXCEPT !.pc = "close", !.answer = "seed"]
  <2>1. /\ q \in Handler /\ q.pc = "close" /\ q.tries = req[r].tries
        /\ q.done = req[r].done /\ q.onB2 = req[r].onB2 /\ q.answer = "seed"
    BY <1>3, StepIsHandler DEF Handler
  <2>2. req' = [req EXCEPT ![r] = q]
    BY <1>6
  <2> HIDE DEF q
  <2>3. QED
    BY <1>2, <2>1, <2>2
<1>7. QED
  BY <1>4, <1>5, <1>6 DEF RunTools

\* Every step of a run moves it on or ends it.
LEMMA WorksCases ==
  ASSUME PaidTypeOK, RunsInv, NEW r \in Request, Works(r)
  PROVE  MovesOn(r) \/ Ends(r)
<1>1. CASE Finish(r)
  <2> DEFINE q == [req[r] EXCEPT !.pc = "idle"]
  <2>1. /\ q \in Handler /\ q.pc = "idle" /\ q.answer = req[r].answer
        /\ q.done = req[r].done /\ q.onB2 = req[r].onB2
    BY StepIsHandler DEF Handler
  <2>2. Recoverable(q)
    BY <2>1 DEF RunsInv, Recoverable
  <2>3. req' = [req EXCEPT ![r] = q] /\ req[r].pc = "release"
    BY <1>1 DEF Finish
  <2> HIDE DEF q
  <2>4. Ends(r)
    BY <1>1, <2>1, <2>2, <2>3 DEF Finish, Ends, Holds, history
  <2>5. QED
    BY <2>4
<1>2. CASE CloseClient(r)
  <2>1. "error" \in Answer /\ "error" # "fresh"
    BY DEF Answer
  <2>2. ASSUME NEW a \in {req[r].answer, "error"},
               req' = [req EXCEPT ![r] = [req[r] EXCEPT !.pc = "idle", !.answer = a]],
               \/ limiter' = Release(limiter) /\ leaked' = leaked
               \/ limiter' = limiter /\ leaked' = leaked + 1
        PROVE  Ends(r)
    <3> DEFINE q == [req[r] EXCEPT !.pc = "idle", !.answer = a]
    <3>1. /\ q \in Handler /\ q.pc = "idle" /\ q.answer = a
          /\ q.done = req[r].done /\ q.onB2 = req[r].onB2
      BY <2>1, StepIsHandler DEF Handler
    <3>2. Recoverable(q)
      BY <2>1, <3>1 DEF RunsInv, Recoverable
    <3>3. req' = [req EXCEPT ![r] = q] /\ req[r].pc = "close"
      BY <1>2, <2>2 DEF CloseClient
    <3> HIDE DEF q
    <3>4. QED
      BY <1>2, <2>2, <3>1, <3>2, <3>3 DEF CloseClient, Ends, Holds
  <2>3. CASE limiter' = Release(limiter)
    <3>1. [req[r] EXCEPT !.pc = "idle"] = [req[r] EXCEPT !.pc = "idle", !.answer = req[r].answer]
      BY StepIsHandler DEF Handler
    <3>2. QED
      BY <1>2, <2>2, <2>3, <3>1 DEF CloseClient
  <2>4. QED
    BY <1>2, <2>2, <2>3 DEF CloseClient
<1>3. QED
  BY <1>1, <1>2, CallGmiStep, CallOpenaiStep, FetchAssetStep, RegisterAppendStep,
     StoreGeneratedStep, CallModelStep, RunToolsStep DEF Works
-----------------------------------------------------------------------------
\* Admission.

LEMMA RefusedStaysIdle ==
  ASSUME NEW r \in Request, ~Holds(r), NEW a \in Answer, a # "fresh",
         req' = [req EXCEPT ![r] = [Idle EXCEPT !.answer = a]],
         limiter' \in {limiter, Rolled(limiter)},
         UNCHANGED <<deploy, today, history, restarts>>
  PROVE  StaysIdle(r)
<1> DEFINE q == [Idle EXCEPT !.answer = a]
<1>1. q \in Handler /\ q.pc = "idle" /\ q.answer = a /\ q.done = {} /\ q.onB2 = FALSE
  BY DEF Idle, Handler, Answer
<1>2. Recoverable(q)
  BY <1>1 DEF Recoverable
<1>3. req' = [req EXCEPT ![r] = q]
  OBVIOUS
<1> HIDE DEF q
<1>4. QED
  BY <1>1, <1>2, <1>3 DEF StaysIdle

LEMMA AdmissionCases ==
  ASSUME PaidTypeOK, RunsInv, NEW r \in Request,
         RefuseBody(r) \/ Decline(r) \/ \E ip \in Ip : Admit(r, ip)
  PROVE  StaysIdle(r) \/ \E ip \in Ip : Starts(r, ip)
<1>1. {"refused", "seed", "error"} \subseteq Answer \ {"fresh"}
  BY DEF Answer
<1>2. CASE RefuseBody(r) \/ Decline(r)
  <2>1. \E a \in {"refused", "seed"} : req' = [req EXCEPT ![r] = [Idle EXCEPT !.answer = a]]
    BY <1>2 DEF RefuseBody, Decline
  <2>2. ~Holds(r) /\ limiter' = limiter /\ UNCHANGED <<deploy, today, history, restarts>>
    BY <1>2 DEF RefuseBody, Decline
  <2>3. QED
    BY <1>1, <2>1, <2>2, RefusedStaysIdle
<1>3. ASSUME NEW ip \in Ip, Admit(r, ip)
      PROVE  StaysIdle(r) \/ Starts(r, ip)
  <2>1. ~Holds(r) /\ UNCHANGED <<deploy, today, leaked, calls, restarts>>
    BY <1>3 DEF Admit
  <2>2. CASE Acquirable(Rolled(limiter), ip)
    <3> DEFINE q == [Idle EXCEPT !.pc = IF deploy.kind = "agent" THEN "model" ELSE "gmi"]
    <3>1. deploy.kind \in {"generate", "agent"}
      BY DEF PaidTypeOK, Deploy
    <3>2. /\ q \in Handler /\ q.pc = IF deploy.kind = "agent" THEN "model" ELSE "gmi"
          /\ q.tries = 0 /\ q.done = {} /\ q.onB2 = FALSE /\ q.answer = "none"
      BY DEF Idle, Handler, Answer, Generating, Asking
    <3>3. OnPath(deploy.kind, q)
      BY <3>1, <3>2, CapsAreNat DEF OnPath, Generating, Asking
    <3>4. Recoverable(q)
      BY <3>2 DEF Recoverable
    <3>5. /\ req' = [req EXCEPT ![r] = q]
          /\ limiter' = Acquire(Rolled(limiter), ip)
          /\ started' = [started EXCEPT ![ip] = @ + 1]
      BY <1>3, <2>2 DEF Admit
    <3>6. q.pc # "idle"
      BY <3>2
    <3> HIDE DEF q
    <3>7. Starts(r, ip)
      BY <2>1, <2>2, <3>2, <3>3, <3>4, <3>5, <3>6 DEF Starts
    <3>8. QED
      BY <3>7
  <2>3. CASE ~Acquirable(Rolled(limiter), ip)
    <3>1. /\ limiter' = Rolled(limiter) /\ started' = started
          /\ \E a \in {"seed", "error"} : req' = [req EXCEPT ![r] = [Idle EXCEPT !.answer = a]]
      BY <1>3, <2>3 DEF Admit
    <3>2. UNCHANGED <<deploy, today, history, restarts>>
      BY <2>1, <3>1 DEF history
    <3>3. StaysIdle(r)
      BY <1>1, <2>1, <3>1, <3>2, RefusedStaysIdle
    <3>4. QED
      BY <3>3
  <2>4. QED
    BY <2>2, <2>3
<1>4. QED
  BY <1>2, <1>3

\* What a step can be.
LEMMA NextCases ==
  ASSUME PaidTypeOK, RunsInv, [Next]_vars
  PROVE  \/ \E r \in Request :
              \/ StaysIdle(r) \/ MovesOn(r) \/ Ends(r)
              \/ \E ip \in Ip : Starts(r, ip)
         \/ Midnight \/ Restart \/ UNCHANGED vars
<1>1. ASSUME NEW r \in Request,
             RefuseBody(r) \/ Decline(r) \/ (\E ip \in Ip : Admit(r, ip)) \/ Works(r)
      PROVE  StaysIdle(r) \/ MovesOn(r) \/ Ends(r) \/ \E ip \in Ip : Starts(r, ip)
  BY <1>1, AdmissionCases, WorksCases
<1>2. QED
  BY <1>1 DEF Next

-----------------------------------------------------------------------------
\* The limiter.

LEMMA RolledLimiter ==
  ASSUME PaidTypeOK
  PROVE  /\ Rolled(limiter) \in Limiter
         /\ Rolled(limiter).day = today
         /\ Rolled(limiter).inFlight = limiter.inFlight
         /\ Rolled(limiter).global = Counted
         /\ Rolled(limiter).ips = IF limiter.day = today THEN limiter.ips ELSE Zero
<1>1. limiter \in Limiter /\ today \in 0..MaxDay
  BY DEF PaidTypeOK
<1>2. Zero \in [Ip -> 0..PerIp] /\ 0 \in 0..Global
  BY CapsAreNat DEF Zero
<1>3. QED
  BY <1>1, <1>2 DEF Rolled, Limiter, Counted

LEMMA AcquiredLimiter ==
  ASSUME NEW l \in Limiter, NEW ip \in Ip, Acquirable(l, ip)
  PROVE  /\ Acquire(l, ip) \in Limiter
         /\ Acquire(l, ip).day = l.day
         /\ Acquire(l, ip).inFlight = l.inFlight + 1
         /\ Acquire(l, ip).global = l.global + 1
         /\ Acquire(l, ip).ips = [l.ips EXCEPT ![ip] = @ + 1]
<1>1. l.ips \in [Ip -> 0..PerIp] /\ l.ips[ip] < PerIp
  BY DEF Limiter, Acquirable
<1>2. [l.ips EXCEPT ![ip] = @ + 1] \in [Ip -> 0..PerIp]
  BY <1>1, CapsAreNat
<1>3. /\ l.global \in 0..Global /\ l.global < Global
      /\ l.inFlight \in 0..MaxInFlight /\ l.inFlight < MaxInFlight
  BY DEF Limiter, Acquirable
<1>4. l.global + 1 \in 0..Global /\ l.inFlight + 1 \in 0..MaxInFlight
  BY <1>3, CapsAreNat
<1>5. QED
  BY <1>2, <1>4 DEF Acquire, Limiter

LEMMA ReleasedLimiter ==
  ASSUME NEW l \in Limiter
  PROVE  /\ Release(l) \in Limiter
         /\ Release(l).day = l.day
         /\ Release(l).global = l.global
         /\ Release(l).ips = l.ips
         /\ l.inFlight > 0 => Release(l).inFlight = l.inFlight - 1
<1>1. l.inFlight \in 0..MaxInFlight
  BY DEF Limiter
<1>2. (IF l.inFlight > 0 THEN l.inFlight - 1 ELSE l.inFlight) \in 0..MaxInFlight
  BY <1>1, CapsAreNat
<1>3. QED
  BY <1>1, <1>2 DEF Release, Limiter

\* The requests that hold a slot, before and after a step of one of them.
LEMMA HoldersStep ==
  ASSUME PaidTypeOK, NEW r \in Request, NEW q \in Handler, req' = [req EXCEPT ![r] = q]
  PROVE  /\ Holders' = IF q.pc = "idle" THEN Holders \ {r} ELSE Holders \cup {r}
         /\ IsFiniteSet(Holders) /\ Cardinality(Holders) \in Nat
<1>1. Holders' = IF q.pc = "idle" THEN Holders \ {r} ELSE Holders \cup {r}
  BY DEF Holders, Holds, PaidTypeOK
<1>2. Holders \in SUBSET Request /\ IsFiniteSet(Request)
  BY PaidAssumption DEF Holders, PaidAssumption
<1>3. IsFiniteSet(Holders)
  BY <1>2, FS_Subset
<1>4. QED
  BY <1>1, <1>3, FS_CardinalityType
-----------------------------------------------------------------------------
\* The invariant holds at the start, and each conjunct survives every step.

\* The inductive invariant holds at the first start.
THEOREM PaidInitEstablishes == Init => PaidInv
<1> SUFFICES ASSUME Init PROVE PaidInv
  OBVIOUS
<1> USE CapsAreNat DEF Init
<1>1. Idle \in Handler /\ Idle.pc = "idle" /\ Recoverable(Idle)
  BY DEF Idle, Handler, Answer, Recoverable
<1>2. PaidTypeOK
  BY <1>1 DEF PaidTypeOK, Limiter, Zero
<1>3. Holders = {}
  BY <1>1 DEF Holders, Holds
<1>4. SlotsAccounted
  BY <1>3, FS_EmptySet DEF SlotsAccounted
<1>5. RunsInv
  BY <1>1 DEF RunsInv, OnPath, Generating, Asking
<1>6. StartedInv
  BY DEF StartedInv
<1>7. Tokens = {}
  <2>1. Left(Idle) = 0
    BY <1>1 DEF Left
  <2>2. QED
    BY <2>1 DEF Tokens
<1>8. SpendInv
  <2>1. Cardinality(Tokens) = 0
    BY <1>7, FS_EmptySet
  <2>2. Counted = 0
    BY DEF Counted
  <2>3. CallsPerRun * (0 + Global * 0 + MaxInFlight) \in Nat
    OBVIOUS
  <2>4. QED
    BY <2>1, <2>2, <2>3 DEF SpendInv
<1>9. QED
  BY <1>2, <1>4, <1>5, <1>6, <1>8 DEF PaidInv

LEMMA TypePreserved ==
  ASSUME PaidTypeOK, RunsInv, [Next]_vars
  PROVE  PaidTypeOK'
<1> USE DEF PaidTypeOK
<1>1. ASSUME NEW r \in Request, StaysIdle(r) PROVE PaidTypeOK'
  BY <1>1, RolledLimiter DEF StaysIdle, history
<1>2. ASSUME NEW r \in Request, MovesOn(r) PROVE PaidTypeOK'
  BY <1>2 DEF MovesOn
<1>3. ASSUME NEW r \in Request, Ends(r) PROVE PaidTypeOK'
  BY <1>3, ReleasedLimiter DEF Ends
<1>4. ASSUME NEW r \in Request, NEW ip \in Ip, Starts(r, ip) PROVE PaidTypeOK'
  <2>1. limiter' \in Limiter /\ limiter'.day = today
    BY <1>4, RolledLimiter, AcquiredLimiter DEF Starts
  <2>2. started' \in [Ip -> Nat]
    BY <1>4 DEF Starts
  <2>3. QED
    BY <1>4, <2>1, <2>2 DEF Starts
<1>5. CASE Midnight
  BY <1>5, CapsAreNat DEF Midnight, Zero, Limiter
<1>6. CASE Restart
  <2>1. Idle \in Handler
    BY DEF Idle, Handler, Answer
  <2>2. limiter' \in Limiter /\ limiter'.day = today
    BY <1>6, CapsAreNat DEF Restart, Limiter, Zero
  <2>3. QED
    BY <1>6, <2>1, <2>2, CapsAreNat DEF Restart, Zero
<1>7. CASE UNCHANGED vars
  BY <1>7 DEF vars
<1>8. QED
  BY <1>1, <1>2, <1>3, <1>4, <1>5, <1>6, <1>7, NextCases

LEMMA RunsPreserved ==
  ASSUME PaidTypeOK, RunsInv, [Next]_vars
  PROVE  RunsInv'
<1>1. ASSUME NEW r \in Request, NEW q \in Handler, deploy' = deploy,
             OnPath(deploy.kind, q), Recoverable(q), req' = [req EXCEPT ![r] = q]
      PROVE  RunsInv'
  BY <1>1 DEF RunsInv, PaidTypeOK
<1>2. ASSUME NEW q \in Handler, q.pc = "idle" PROVE OnPath(deploy.kind, q)
  BY <1>2 DEF OnPath, Generating, Asking
<1>3. ASSUME NEW r \in Request, StaysIdle(r) \/ Ends(r) PROVE RunsInv'
  BY <1>1, <1>2, <1>3 DEF StaysIdle, Ends
<1>4. ASSUME NEW r \in Request, MovesOn(r) \/ \E ip \in Ip : Starts(r, ip) PROVE RunsInv'
  BY <1>1, <1>4 DEF MovesOn, Starts
<1>5. CASE Midnight \/ UNCHANGED vars
  BY <1>5 DEF Midnight, vars, RunsInv
<1>6. CASE Restart
  <2>1. Idle.pc = "idle" /\ Idle \in Handler /\ Recoverable(Idle)
    BY DEF Idle, Handler, Answer, Recoverable
  <2>2. OnPath(deploy.kind, Idle)
    BY <1>2, <2>1
  <2>3. QED
    BY <1>6, <2>1, <2>2 DEF Restart, RunsInv
<1>7. QED
  BY <1>3, <1>4, <1>5, <1>6, NextCases

LEMMA SlotsPreserved ==
  ASSUME PaidTypeOK, RunsInv, SlotsAccounted, [Next]_vars
  PROVE  SlotsAccounted'
<1> USE DEF SlotsAccounted
<1>0. limiter \in Limiter /\ limiter.inFlight \in Nat /\ leaked \in Nat
  BY CapsAreNat DEF PaidTypeOK, Limiter
<1>1. ASSUME NEW r \in Request, StaysIdle(r) PROVE SlotsAccounted'
  <2>1. Holders' = Holders
    BY <1>1, HoldersStep DEF StaysIdle, Holders
  <2>2. QED
    BY <1>1, <2>1, RolledLimiter DEF StaysIdle, history
<1>2. ASSUME NEW r \in Request, MovesOn(r) PROVE SlotsAccounted'
  <2>1. Holders' = Holders
    BY <1>2, HoldersStep DEF MovesOn, Holders
  <2>2. QED
    BY <1>2, <2>1 DEF MovesOn
<1>3. ASSUME NEW r \in Request, Ends(r) PROVE SlotsAccounted'
  <2>1. r \in Holders /\ Holders' = Holders \ {r} /\ IsFiniteSet(Holders)
        /\ Cardinality(Holders) \in Nat
    BY <1>3, HoldersStep DEF Ends, Holders
  <2>2. Cardinality(Holders') = Cardinality(Holders) - 1
    BY <2>1, FS_RemoveElement
  <2>3. Cardinality(Holders) # 0
    BY <2>1, FS_EmptySet
  <2>4. limiter.inFlight > 0
    BY <1>0, <2>1, <2>3
  <2>5. CASE limiter' = Release(limiter) /\ leaked' = leaked
    <3>1. limiter'.inFlight = limiter.inFlight - 1
      BY <1>0, <2>4, <2>5, ReleasedLimiter
    <3>2. QED
      BY <1>0, <2>1, <2>2, <2>5, <3>1
  <2>6. CASE limiter' = limiter /\ leaked' = leaked + 1
    BY <1>0, <2>1, <2>2, <2>6
  <2>7. QED
    BY <1>3, <2>5, <2>6 DEF Ends
<1>4. ASSUME NEW r \in Request, NEW ip \in Ip, Starts(r, ip) PROVE SlotsAccounted'
  <2>1. r \notin Holders /\ Holders' = Holders \cup {r} /\ IsFiniteSet(Holders)
        /\ Cardinality(Holders) \in Nat
    BY <1>4, HoldersStep DEF Starts, Holders
  <2>2. Cardinality(Holders') = Cardinality(Holders) + 1
    BY <2>1, FS_AddElement
  <2>3. limiter'.inFlight = limiter.inFlight + 1 /\ leaked' = leaked
    <3> DEFINE l == Rolled(limiter)
    <3>1. l \in Limiter /\ l.inFlight = limiter.inFlight
      BY RolledLimiter
    <3>2. Acquirable(l, ip) /\ limiter' = Acquire(l, ip) /\ leaked' = leaked
      BY <1>4 DEF Starts
    <3> HIDE DEF l
    <3>3. QED
      BY <3>1, <3>2, AcquiredLimiter
  <2>4. QED
    BY <1>0, <2>1, <2>2, <2>3
<1>5. CASE Midnight \/ UNCHANGED vars
  BY <1>5 DEF Midnight, vars, Holders, Holds
<1>6. CASE Restart
  <2>1. Idle.pc = "idle"
    BY DEF Idle
  <2>2. Holders' = {}
    BY <1>6, <2>1 DEF Restart, Holders, Holds
  <2>3. limiter'.inFlight = 0 /\ leaked' = 0
    BY <1>6 DEF Restart
  <2>4. Cardinality(Holders') = 0
    BY <2>2, FS_EmptySet
  <2>5. QED
    BY <2>3, <2>4
<1>7. QED
  BY <1>1, <1>2, <1>3, <1>4, <1>5, <1>6, NextCases

LEMMA StartedPreserved ==
  ASSUME PaidTypeOK, RunsInv, StartedInv, [Next]_vars
  PROVE  StartedInv'
<1>1. ASSUME NEW r \in Request, StaysIdle(r) PROVE StartedInv'
  BY <1>1, RolledLimiter DEF StaysIdle, history, StartedInv
<1>2. ASSUME NEW r \in Request, MovesOn(r) PROVE StartedInv'
  BY <1>2 DEF MovesOn, StartedInv
<1>3. ASSUME NEW r \in Request, Ends(r) PROVE StartedInv'
  <2>1. limiter \in Limiter
    BY DEF PaidTypeOK
  <2>2. limiter'.day = limiter.day /\ limiter'.ips = limiter.ips
    BY <1>3, <2>1, ReleasedLimiter DEF Ends
  <2>3. QED
    BY <1>3, <2>2 DEF Ends, StartedInv
<1>4. ASSUME NEW r \in Request, NEW ip \in Ip, Starts(r, ip) PROVE StartedInv'
  <2>1. limiter'.day = today /\ today' = today
        /\ limiter'.ips = [Rolled(limiter).ips EXCEPT ![ip] = @ + 1]
    BY <1>4, RolledLimiter, AcquiredLimiter DEF Starts
  <2>2. Rolled(limiter).ips = started
    BY RolledLimiter DEF StartedInv
  <2>3. started' = limiter'.ips
    BY <1>4, <2>1, <2>2 DEF Starts
  <2>4. QED
    BY <2>1, <2>3 DEF StartedInv
<1>5. CASE Midnight
  <2>1. limiter'.day # today'
    BY <1>5, CapsAreNat DEF Midnight, PaidTypeOK, Limiter
  <2>2. started' = Zero
    BY <1>5 DEF Midnight
  <2>3. QED
    BY <2>1, <2>2 DEF StartedInv, Zero
<1>6. CASE Restart
  BY <1>6 DEF Restart, StartedInv, Zero
<1>7. CASE UNCHANGED vars
  BY <1>7 DEF vars, StartedInv, Zero
<1>8. QED
  BY <1>1, <1>2, <1>3, <1>4, <1>5, <1>6, <1>7, NextCases
-----------------------------------------------------------------------------
\* The spend.

LEMMA TokensFinite == IsFiniteSet(Tokens) /\ Cardinality(Tokens) \in Nat
<1>1. IsFiniteSet(Request) /\ IsFiniteSet(1..CallsPerRun)
  BY PaidAssumption, CapsAreNat, FS_Interval DEF PaidAssumption
<1>2. IsFiniteSet(Request \X (1..CallsPerRun))
  BY <1>1, FS_Product
<1>3. Tokens \in SUBSET (Request \X (1..CallsPerRun))
  BY DEF Tokens
<1>4. IsFiniteSet(Tokens)
  BY <1>2, <1>3, FS_Subset
<1>5. QED
  BY <1>4, FS_CardinalityType

\* The tokens of the requests R are no more than CallsPerRun for each of them.
LEMMA FullTokens ==
  ASSUME NEW R \in SUBSET Request
  PROVE  /\ IsFiniteSet(R \X (1..CallsPerRun))
         /\ Cardinality(R \X (1..CallsPerRun)) = Cardinality(R) * CallsPerRun
<1>1. IsFiniteSet(R)
  BY PaidAssumption, FS_Subset DEF PaidAssumption
<1>2. IsFiniteSet(1..CallsPerRun) /\ Cardinality(1..CallsPerRun) = CallsPerRun
  <2>1. 1 \in Int /\ CallsPerRun \in Int
    BY CapsAreNat
  <2>2. /\ IsFiniteSet(1..CallsPerRun)
        /\ Cardinality(1..CallsPerRun)
             = IF 1 > CallsPerRun THEN 0 ELSE CallsPerRun - 1 + 1
    BY <2>1, FS_Interval
  <2>3. QED
    BY <2>2, CapsAreNat
<1>3. QED
  BY <1>1, <1>2, FS_Product

\* An idle request has no token.
LEMMA TokensOfHolders ==
  ASSUME PaidTypeOK
  PROVE  Tokens \subseteq Holders \X (1..CallsPerRun)
<1>1. ASSUME NEW r \in Request, ~Holds(r) PROVE Left(req[r]) = 0
  BY <1>1 DEF Holds, Left
<1>2. QED
  BY <1>1 DEF Tokens, Holders

\* Fewer calls left, fewer tokens.
LEMMA TokensShrink ==
  ASSUME NEW T, T \subseteq Tokens
  PROVE  Cardinality(T) \in Nat /\ Cardinality(T) <= Cardinality(Tokens)
BY TokensFinite, FS_Subset, FS_CardinalityType

\* A step that moves a run on pays for its call with a token.
LEMMA CallTakesToken ==
  ASSUME PaidTypeOK, RunsInv, NEW r \in Request, MovesOn(r)
  PROVE  calls' + Cardinality(Tokens') <= calls + Cardinality(Tokens)
<1> DEFINE k == Left(req[r])
<1>1. k \in 0..CallsPerRun /\ calls \in Nat /\ CallsPerRun \in Nat
  BY LeftOfRun, CapsAreNat DEF PaidTypeOK
<1>2. PICK q \in Handler :
        /\ q.pc # "idle" /\ OnPath(deploy.kind, q)
        /\ req' = [req EXCEPT ![r] = q]
        /\ \/ calls' = calls /\ Left(q) <= k
           \/ calls' = calls + 1 /\ Left(q) < k
  BY DEF MovesOn
<1>3. CallsPerRun' = CallsPerRun
  BY DEF MovesOn, CallsPerRun
<1>4. Left(q) \in 0..CallsPerRun
  BY <1>2, LeftBounds
<1>5. \A x \in Request : req'[x] = IF x = r THEN q ELSE req[x]
  BY <1>2 DEF PaidTypeOK
<1>6. Tokens' = {t \in Request \X (1..CallsPerRun) : t[2] <= Left(req'[t[1]])}
  BY <1>3 DEF Tokens, Left
<1> HIDE DEF k
<1>7. ASSUME NEW t \in Tokens' PROVE t \in Tokens /\ (t[1] = r => t[2] <= Left(q))
  <2>1. t \in Request \X (1..CallsPerRun) /\ t[2] <= Left(req'[t[1]])
    BY <1>6
  <2>2. t[1] \in Request /\ t[2] \in 1..CallsPerRun
    BY <2>1
  <2>3. CASE t[1] = r
    <3>1. t[2] <= Left(q)
      BY <1>5, <2>1, <2>3
    <3>2. t[2] <= k
      BY <1>1, <1>2, <1>4, <2>2, <3>1
    <3>3. QED
      BY <2>1, <2>3, <3>1, <3>2 DEF Tokens, k
  <2>4. CASE t[1] # r
    BY <1>5, <2>1, <2>2, <2>4 DEF Tokens
  <2>5. QED
    BY <2>3, <2>4
<1>8. CASE calls' = calls
  <2>1. Cardinality(Tokens') \in Nat /\ Cardinality(Tokens') <= Cardinality(Tokens)
    BY <1>7, TokensShrink
  <2>2. QED
    BY <1>1, <1>8, <2>1, TokensFinite
<1>9. CASE calls' = calls + 1 /\ Left(q) < k
  <2>1. k \in 1..CallsPerRun
    BY <1>1, <1>4, <1>9
  <2>2. <<r, k>> \in Tokens
    BY <1>1, <2>1 DEF Tokens, k
  <2>3. <<r, k>> \notin Tokens'
    <3>1. ~(k <= Left(q))
      BY <1>1, <1>4, <1>9
    <3>2. <<r, k>>[1] = r /\ <<r, k>>[2] = k
      OBVIOUS
    <3>3. QED
      BY <1>7, <3>1, <3>2
  <2>4. Cardinality(Tokens \ {<<r, k>>}) = Cardinality(Tokens) - 1
        /\ IsFiniteSet(Tokens \ {<<r, k>>})
    BY <2>2, TokensFinite, FS_RemoveElement
  <2>5. Tokens' \in SUBSET (Tokens \ {<<r, k>>})
    BY <1>7, <2>3
  <2>6. Cardinality(Tokens') <= Cardinality(Tokens) - 1 /\ Cardinality(Tokens') \in Nat
    BY <2>4, <2>5, FS_Subset, FS_CardinalityType
  <2>7. QED
    BY <1>1, <1>9, <2>6, TokensFinite
<1>10. QED
  BY <1>2, <1>8, <1>9

\* A run that starts has as many calls left as a run may make, at most.
LEMMA StartBringsTokens ==
  ASSUME PaidTypeOK, RunsInv, NEW r \in Request, NEW ip \in Ip, Starts(r, ip)
  PROVE  /\ Cardinality(Tokens') \in Nat
         /\ Cardinality(Tokens') <= Cardinality(Tokens) + CallsPerRun
<1> DEFINE new == {r} \X (1..CallsPerRun)
<1>1. PICK q \in Handler : req' = [req EXCEPT ![r] = q]
  BY DEF Starts
<1>2. CallsPerRun' = CallsPerRun
  BY DEF Starts, CallsPerRun
<1>3. Tokens' \in SUBSET (Tokens \cup new)
  <2>1. \A x \in Request : x # r => req'[x] = req[x]
    BY <1>1 DEF PaidTypeOK
  <2>2. Tokens' = {t \in Request \X (1..CallsPerRun) : t[2] <= Left(req'[t[1]])}
    BY <1>2 DEF Tokens, Left
  <2>3. QED
    BY <2>1, <2>2 DEF Tokens
<1>4. IsFiniteSet(new) /\ Cardinality(new) = CallsPerRun
  <2>1. Cardinality({r}) = 1
    BY FS_Singleton
  <2>2. {r} \in SUBSET Request
    OBVIOUS
  <2>3. IsFiniteSet(new) /\ Cardinality(new) = 1 * CallsPerRun
    BY <2>1, <2>2, FullTokens
  <2>4. QED
    BY <2>3, CapsAreNat
<1> HIDE DEF new
<1>5. /\ IsFiniteSet(Tokens \cup new)
      /\ Cardinality(Tokens \cup new)
           = Cardinality(Tokens) + CallsPerRun - Cardinality(Tokens \cap new)
  BY <1>4, TokensFinite, FS_Union
<1>6. Cardinality(Tokens \cap new) \in Nat
  BY TokensFinite, FS_Intersection, FS_CardinalityType
<1>7. Cardinality(Tokens') <= Cardinality(Tokens \cup new) /\ Cardinality(Tokens') \in Nat
  BY <1>3, <1>5, FS_Subset, FS_CardinalityType
<1>8. QED
  BY <1>5, <1>6, <1>7, TokensFinite, CapsAreNat
LEMMA TimesPlusOne ==
  ASSUME NEW n \in Nat, NEW a \in Nat
  PROVE  n * a \in Nat /\ n * (a + 1) = n * a + n
OBVIOUS

LEMMA TimesMonotone ==
  ASSUME NEW n \in Nat, NEW a \in Nat, NEW b \in Nat, a <= b
  PROVE  n * a \in Nat /\ n * b \in Nat /\ n * a <= n * b
<1>1. n * b = n * a + n * (b - a) /\ b - a \in Nat
  OBVIOUS
<1>2. n * (b - a) \in Nat /\ n * a \in Nat /\ n * b \in Nat
  BY <1>1
<1>3. QED
  BY <1>1, <1>2

LEMMA SpendPreserved ==
  ASSUME PaidTypeOK, SlotsAccounted, RunsInv, SpendInv, [Next]_vars
  PROVE  SpendInv'
<1> DEFINE runs == Counted + Global * restarts + MaxInFlight
<1>1. /\ CallsPerRun \in Nat /\ Global \in Nat /\ MaxInFlight \in Nat
      /\ restarts \in Nat /\ calls \in Nat /\ Counted \in 0..Global
      /\ Cardinality(Tokens) \in Nat
  BY CapsAreNat, TokensFinite DEF PaidTypeOK, Limiter, Counted
<1>2. Global * restarts \in Nat
  BY <1>1, TimesPlusOne
<1>3. runs \in Nat
  BY <1>1, <1>2
<1>4. ASSUME deploy' = deploy, restarts' = restarts, Counted' = Counted,
             calls' + Cardinality(Tokens') <= calls + Cardinality(Tokens),
             calls' \in Nat, Cardinality(Tokens') \in Nat
      PROVE  SpendInv'
  <2>1. CallsPerRun' = CallsPerRun /\ runs' = runs
    BY <1>4 DEF CallsPerRun
  <2> HIDE DEF runs
  <2>2. CallsPerRun * runs \in Nat
    BY <1>1, <1>3, TimesPlusOne
  <2>3. calls + Cardinality(Tokens) <= CallsPerRun * runs
    BY DEF SpendInv, runs
  <2>4. calls' + Cardinality(Tokens') <= CallsPerRun * runs
    BY <1>1, <1>4, <2>2, <2>3
  <2>5. QED
    BY <2>1, <2>4 DEF SpendInv, runs
<1>5. Cardinality(Tokens') \in Nat /\ calls' \in Nat
  <2>1. CallsPerRun' \in Nat /\ PaidTypeOK'
    BY TypePreserved, CapsAreNat DEF CallsPerRun
  <2>2. IsFiniteSet(Request \X (1..CallsPerRun'))
    <3>1. IsFiniteSet(Request) /\ IsFiniteSet(1..CallsPerRun')
      BY <2>1, PaidAssumption, FS_Interval DEF PaidAssumption
    <3>2. QED
      BY <3>1, FS_Product
  <2>3. Tokens' \in SUBSET (Request \X (1..CallsPerRun'))
    BY DEF Tokens
  <2>4. QED
    BY <2>1, <2>2, <2>3, FS_Subset, FS_CardinalityType DEF PaidTypeOK
<1>6. ASSUME NEW r \in Request, StaysIdle(r) \/ Ends(r) PROVE SpendInv'
  <2>1. PICK q \in Handler : q.pc = "idle" /\ req' = [req EXCEPT ![r] = q]
    BY <1>6 DEF StaysIdle, Ends
  <2>2. CallsPerRun' = CallsPerRun
    BY <1>6 DEF StaysIdle, Ends, CallsPerRun
  <2>3. Tokens' \subseteq Tokens
    <3>1. Left(q) = 0
      BY <2>1 DEF Left
    <3>2. \A x \in Request : req'[x] = IF x = r THEN q ELSE req[x]
      BY <2>1 DEF PaidTypeOK
    <3>3. Tokens' = {t \in Request \X (1..CallsPerRun) : t[2] <= Left(req'[t[1]])}
      BY <2>2 DEF Tokens, Left
    <3>4. QED
      BY <3>1, <3>2, <3>3 DEF Tokens
  <2>4. Cardinality(Tokens') <= Cardinality(Tokens)
    BY <2>3, TokensShrink
  <2>5. Counted' = Counted
    <3>1. CASE StaysIdle(r)
      BY <3>1, RolledLimiter DEF StaysIdle, Counted
    <3>2. CASE Ends(r)
      BY <3>2, ReleasedLimiter DEF Ends, Counted, PaidTypeOK
    <3>3. QED
      BY <1>6, <3>1, <3>2
  <2>6. deploy' = deploy /\ restarts' = restarts /\ calls' = calls
    BY <1>6 DEF StaysIdle, Ends, history
  <2>7. calls' + Cardinality(Tokens') <= calls + Cardinality(Tokens)
    BY <1>1, <1>5, <2>4, <2>6
  <2>8. QED
    BY <1>4, <1>5, <2>5, <2>6, <2>7
<1>7. ASSUME NEW r \in Request, MovesOn(r) PROVE SpendInv'
  <2>1. deploy' = deploy /\ restarts' = restarts /\ Counted' = Counted
    BY <1>7 DEF MovesOn, Counted
  <2>2. QED
    BY <1>4, <1>5, <1>7, <2>1, CallTakesToken
<1>8. ASSUME NEW r \in Request, NEW ip \in Ip, Starts(r, ip) PROVE SpendInv'
  <2>1. Counted' = Counted + 1
    <3> DEFINE l == Rolled(limiter)
    <3>1. l \in Limiter /\ l.day = today /\ l.global = Counted
      BY RolledLimiter
    <3>2. Acquirable(l, ip) /\ limiter' = Acquire(l, ip) /\ today' = today
      BY <1>8 DEF Starts
    <3> HIDE DEF l
    <3>3. limiter'.day = today /\ limiter'.global = Counted + 1
      BY <3>1, <3>2, AcquiredLimiter
    <3>4. QED
      BY <3>2, <3>3 DEF Counted
  <2>2. CallsPerRun' = CallsPerRun /\ restarts' = restarts /\ calls' = calls
    BY <1>8 DEF Starts, CallsPerRun
  <2>3. runs' = runs + 1
    BY <1>1, <1>2, <2>1, <2>2
  <2>4. Cardinality(Tokens') <= Cardinality(Tokens) + CallsPerRun
    BY <1>8, StartBringsTokens
  <2> HIDE DEF runs
  <2>5. CallsPerRun * (runs + 1) = CallsPerRun * runs + CallsPerRun
        /\ CallsPerRun * runs \in Nat
    BY <1>1, <1>3, TimesPlusOne
  <2>6. calls + Cardinality(Tokens) <= CallsPerRun * runs
    BY DEF SpendInv, runs
  <2>7. calls' + Cardinality(Tokens') <= CallsPerRun * (runs + 1)
    BY <1>1, <1>5, <2>2, <2>4, <2>5, <2>6
  <2>8. QED
    BY <2>2, <2>3, <2>7 DEF SpendInv, runs
<1>9. CASE Midnight
  <2>1. /\ CallsPerRun' = CallsPerRun /\ Tokens' = Tokens
        /\ calls' = 0 /\ restarts' = 0
    BY <1>9 DEF Midnight, CallsPerRun, Tokens, Left
  <2>2. Counted' = 0
    BY <1>9, CapsAreNat DEF Midnight, Counted, PaidTypeOK, Limiter
  <2>3. runs' = MaxInFlight
    BY <1>1, <2>1, <2>2
  <2>4. Holders \in SUBSET Request
    BY DEF Holders
  <2>5. Cardinality(Holders) \in Nat
    BY <2>4, PaidAssumption, FS_Subset, FS_CardinalityType DEF PaidAssumption
  <2>6. Cardinality(Holders) <= MaxInFlight
    <3>1. limiter.inFlight \in 0..MaxInFlight /\ leaked \in Nat
      BY DEF PaidTypeOK, Limiter
    <3>2. QED
      BY <1>1, <2>5, <3>1 DEF SlotsAccounted
  <2>7. Cardinality(Tokens) <= Cardinality(Holders) * CallsPerRun
    <3>1. /\ IsFiniteSet(Holders \X (1..CallsPerRun))
          /\ Cardinality(Holders \X (1..CallsPerRun)) = Cardinality(Holders) * CallsPerRun
      BY <2>4, FullTokens
    <3>2. Tokens \in SUBSET (Holders \X (1..CallsPerRun))
      BY TokensOfHolders
    <3>3. QED
      BY <3>1, <3>2, FS_Subset
  <2>8. /\ CallsPerRun * Cardinality(Holders) <= CallsPerRun * MaxInFlight
        /\ CallsPerRun * Cardinality(Holders) \in Nat /\ CallsPerRun * MaxInFlight \in Nat
    BY <1>1, <2>5, <2>6, TimesMonotone
  <2>9. Cardinality(Holders) * CallsPerRun = CallsPerRun * Cardinality(Holders)
    BY <1>1, <2>5
  <2>10. 0 + Cardinality(Tokens) <= CallsPerRun * MaxInFlight
    BY <1>1, <2>7, <2>8, <2>9
  <2> HIDE DEF runs
  <2>11. QED
    BY <2>1, <2>3, <2>10 DEF SpendInv, runs
<1>10. CASE Restart
  <2>1. CallsPerRun' = CallsPerRun /\ calls' = calls /\ restarts' = restarts + 1
    BY <1>10 DEF Restart, CallsPerRun
  <2>2. Counted' = 0
    BY <1>10 DEF Restart, Counted
  <2>3. Tokens' = {}
    <3>1. Left(Idle) = 0
      BY DEF Left, Idle
    <3>2. \A x \in Request : req'[x] = Idle
      BY <1>10 DEF Restart
    <3>3. Tokens' = {t \in Request \X (1..CallsPerRun) : t[2] <= Left(req'[t[1]])}
      BY <2>1 DEF Tokens, Left
    <3>4. QED
      BY <3>1, <3>2, <3>3
  <2>4. Cardinality(Tokens') = 0
    BY <2>3, FS_EmptySet
  <2>5. runs' = Global * (restarts + 1) + MaxInFlight
    BY <1>1, <2>1, <2>2
  <2>6. Global * (restarts + 1) = Global * restarts + Global
    BY <1>1, TimesPlusOne
  <2>7. runs <= runs' /\ runs' \in Nat
    BY <1>1, <1>2, <2>5, <2>6
  <2>8. calls + Cardinality(Tokens) <= CallsPerRun * runs
    BY DEF SpendInv
  <2> HIDE DEF runs
  <2>9. CallsPerRun * runs <= CallsPerRun * runs'
        /\ CallsPerRun * runs \in Nat /\ CallsPerRun * runs' \in Nat
    BY <1>1, <1>3, <2>7, TimesMonotone
  <2>10. calls' + Cardinality(Tokens') <= CallsPerRun * runs'
    BY <1>1, <2>1, <2>4, <2>8, <2>9
  <2>11. QED
    BY <2>1, <2>10 DEF SpendInv, runs
<1>11. CASE UNCHANGED vars
  BY <1>11 DEF vars, SpendInv, Counted, Tokens, Left, CallsPerRun
<1>12. QED
  BY <1>6, <1>7, <1>8, <1>9, <1>10, <1>11, NextCases

\* Every step of a run, of the limiter and of the process keeps it.
THEOREM PaidNextPreserves == PaidInv /\ [Next]_vars => PaidInv'
BY TypePreserved, SlotsPreserved, RunsPreserved, StartedPreserved, SpendPreserved
DEF PaidInv

\* PaidInv holds in every reachable state, whatever the caps, the numbers of
\* requests, callers, models and turns, midnights and restarts.
THEOREM PaidInvariant == Spec => []PaidInv
BY PaidInitEstablishes, PaidNextPreserves, PTL DEF Spec

-----------------------------------------------------------------------------
\* What the two endpoints promise.

\* The limiter's counters stay within their caps, and all state in its types.
\* (generate.py, _RateLimiter; agent.py, _AgentLimiter.)
THEOREM PaidTypeCorrect == Spec => []PaidTypeOK
<1>1. PaidInv => PaidTypeOK
  BY DEF PaidInv
<1>2. QED
  BY <1>1, PaidInvariant, PTL

\* A slot is given back exactly once on every path through the two handlers, or is
\* counted as leaked.  (demo_generate and demo_agent, finally.)
THEOREM SlotsAreAccounted == Spec => []SlotsAccounted
<1>1. PaidInv => SlotsAccounted
  BY DEF PaidInv
<1>2. QED
  BY <1>1, PaidInvariant, PTL

\* A day costs no more than its processes' budgets and what the day before left
\* running, however calls, failures, midnights and restarts interleave.
THEOREM SpendIsBounded == Spec => []SpendBounded
<1>1. ASSUME PaidInv PROVE SpendBounded
  <2>1. /\ CallsPerRun \in Nat /\ Global \in Nat /\ MaxInFlight \in Nat
        /\ restarts \in Nat /\ calls \in Nat /\ Counted \in 0..Global
        /\ Cardinality(Tokens) \in Nat
    BY <1>1, CapsAreNat, TokensFinite DEF PaidInv, PaidTypeOK, Limiter, Counted
  <2>2. Global * (restarts + 1) = Global * restarts + Global /\ Global * restarts \in Nat
    BY <2>1, TimesPlusOne
  <2> DEFINE a == Counted + Global * restarts + MaxInFlight
             b == Global * (restarts + 1) + MaxInFlight
  <2>3. a \in Nat /\ b \in Nat /\ a <= b
    BY <2>1, <2>2
  <2>4. calls + Cardinality(Tokens) <= CallsPerRun * a
    BY <1>1 DEF PaidInv, SpendInv
  <2>5. SpendBounded <=> calls <= CallsPerRun * b
    BY DEF SpendBounded
  <2> HIDE DEF a, b
  <2>6. CallsPerRun * a <= CallsPerRun * b
        /\ CallsPerRun * a \in Nat /\ CallsPerRun * b \in Nat
    BY <2>1, <2>3, TimesMonotone
  <2>7. calls <= CallsPerRun * b
    BY <2>1, <2>4, <2>6
  <2>8. QED
    BY <2>5, <2>7
<1>2. QED
  BY <1>1, PaidInvariant, PTL

\* What was answered as fresh can be recovered and proven, and B2 holds no manifest
\* of a generation without its asset and its leaf.  (_generate_and_register.)
THEOREM FreshStaysRecoverable == Spec => []FreshIsRecoverable
<1>1. PaidInv => FreshIsRecoverable
  BY DEF PaidInv, RunsInv, Recoverable, FreshIsRecoverable
<1>2. QED
  BY <1>1, PaidInvariant, PTL

\* The limiter, with counters rolled over on the first acquire() of a day and slots
\* that outlive midnight, implements the daily budget counted by the calendar.
THEOREM ImplementsDailyBudget == Spec => ImplementsBudget
<1> DEFINE total == limiter.global * (IF limiter.day = today THEN 1 ELSE 0)
<1>1. ASSUME PaidTypeOK PROVE total = Counted
  <2>1. limiter.global \in Nat
    BY <1>1, CapsAreNat DEF PaidTypeOK, Limiter
  <2>2. QED
    BY <2>1 DEF Counted
<1>2. Init => TheBudget!Init
  <2> SUFFICES ASSUME Init PROVE TheBudget!Init
    OBVIOUS
  <2>1. Holders = {}
    BY DEF Init, Idle, Holders, Holds
  <2>2. started = TheBudget!Unspent
    BY DEF Init, Zero, TheBudget!Unspent
  <2>3. total = 0
    BY DEF Init
  <2>4. QED
    BY <2>1, <2>2, <2>3 DEF TheBudget!Init
<1>3. ASSUME PaidInv, PaidInv', [Next]_vars
      PROVE  [TheBudget!Next]_(TheBudget!budget)
  <2>1. /\ PaidTypeOK /\ SlotsAccounted /\ RunsInv /\ StartedInv
        /\ total = Counted /\ total' = Counted'
    <3>1. PaidTypeOK /\ PaidTypeOK'
      BY <1>3 DEF PaidInv
    <3>2. total' = Counted'
      <4>1. limiter'.global \in Nat
        BY <3>1, CapsAreNat DEF PaidTypeOK, Limiter
      <4>2. QED
        BY <4>1 DEF Counted
    <3>3. QED
      BY <1>1, <1>3, <3>1, <3>2 DEF PaidInv
  <2> HIDE DEF total
  <2>2. ASSUME started' = started, Counted' = Counted, Holders' = Holders
        PROVE  [TheBudget!Next]_(TheBudget!budget)
    BY <2>1, <2>2 DEF TheBudget!budget, total
  <2>3. ASSUME NEW r \in Request, StaysIdle(r)
        PROVE  [TheBudget!Next]_(TheBudget!budget)
    <3>1. Holders' = Holders
      BY <2>1, <2>3, HoldersStep DEF StaysIdle, Holders
    <3>2. started' = started /\ today' = today
      BY <2>3 DEF StaysIdle, history
    <3>3. Counted' = Counted
      BY <2>1, <2>3, <3>2, RolledLimiter DEF StaysIdle, Counted
    <3>4. QED
      BY <2>2, <3>1, <3>2, <3>3
  <2>4. ASSUME NEW r \in Request, MovesOn(r)
        PROVE  [TheBudget!Next]_(TheBudget!budget)
    <3>1. Holders' = Holders
      BY <2>1, <2>4, HoldersStep DEF MovesOn, Holders
    <3>2. started' = started /\ Counted' = Counted
      BY <2>4 DEF MovesOn, Counted
    <3>3. QED
      BY <2>2, <3>1, <3>2
  <2>5. ASSUME NEW r \in Request, Ends(r)
        PROVE  TheBudget!Finish(r)
    <3>1. r \in Holders /\ Holders' = Holders \ {r}
      BY <2>1, <2>5, HoldersStep DEF Ends, Holders
    <3>2. limiter \in Limiter
      BY <2>1 DEF PaidTypeOK
    <3>3. started' = started /\ Counted' = Counted
      BY <2>5, <3>2, ReleasedLimiter DEF Ends, Counted
    <3>4. total' = total
      BY <2>1, <3>3
    <3>5. QED
      BY <3>1, <3>3, <3>4 DEF TheBudget!Finish, total
  <2>6. ASSUME NEW r \in Request, NEW ip \in Ip, Starts(r, ip)
        PROVE  TheBudget!Start(r, ip)
    <3>1. r \notin Holders /\ Holders' = Holders \cup {r} /\ Cardinality(Holders) \in Nat
      BY <2>1, <2>6, HoldersStep DEF Starts, Holders
    <3>2. /\ Rolled(limiter).inFlight = limiter.inFlight
          /\ Rolled(limiter).inFlight < MaxInFlight
          /\ Rolled(limiter).global < Global
          /\ Rolled(limiter).ips[ip] < PerIp
      BY <2>1, <2>6, RolledLimiter DEF Starts, Acquirable
    <3>3. Cardinality(Holders) < MaxInFlight
      <4>1. limiter.inFlight \in Nat /\ leaked \in Nat
        BY <2>1, CapsAreNat DEF PaidTypeOK, Limiter
      <4>2. QED
        BY <2>1, <3>1, <3>2, <4>1, CapsAreNat DEF SlotsAccounted
    <3>4. total < Global
      BY <2>1, <3>2, RolledLimiter
    <3>5. started[ip] < PerIp
      BY <2>1, <3>2, RolledLimiter DEF StartedInv
    <3>6. total' = total + 1
      <4>1. limiter'.day = today' /\ limiter'.global = Rolled(limiter).global + 1
        BY <2>1, <2>6, RolledLimiter, AcquiredLimiter DEF Starts
      <4>2. Counted' = Counted + 1
        BY <2>1, <4>1, RolledLimiter DEF Counted
      <4>3. QED
        BY <2>1, <4>2
    <3>7. started' = [started EXCEPT ![ip] = @ + 1]
      BY <2>6 DEF Starts
    <3>8. TheBudget!Cardinality(Holders) = Cardinality(Holders)
      BY Zenon DEF TheBudget!Cardinality, Cardinality, TheBudget!IsFiniteSet, IsFiniteSet
    <3>9. QED
      BY <3>1, <3>3, <3>4, <3>5, <3>6, <3>7, <3>8, Zenon DEF TheBudget!Start, total
  <2>7. CASE Midnight
    <3>1. Counted' = 0
      BY <2>1, <2>7, CapsAreNat DEF Midnight, Counted, PaidTypeOK, Limiter
    <3>2. started' = TheBudget!Unspent /\ Holders' = Holders
      BY <2>7 DEF Midnight, Zero, TheBudget!Unspent, Holders, Holds
    <3>3. total' = 0
      BY <2>1, <3>1
    <3>4. TheBudget!NewDay
      BY <3>2, <3>3 DEF TheBudget!NewDay, total
    <3>5. QED
      BY <3>4 DEF TheBudget!Next
  <2>8. CASE Restart
    <3>1. Counted' = 0
      BY <2>8 DEF Restart, Counted
    <3>2. started' = TheBudget!Unspent
      BY <2>8 DEF Restart, Zero, TheBudget!Unspent
    <3>3. Holders' = {}
      <4>1. Idle.pc = "idle"
        BY DEF Idle
      <4>2. QED
        BY <2>8, <4>1 DEF Restart, Holders, Holds
    <3>4. total' = 0
      BY <2>1, <3>1
    <3>5. TheBudget!Restart
      BY <3>2, <3>3, <3>4 DEF TheBudget!Restart, total
    <3>6. QED
      BY <3>5 DEF TheBudget!Next
  <2>9. CASE UNCHANGED vars
    BY <2>2, <2>9 DEF vars, Counted, Holders, Holds
  <2>10. QED
    <3>1. ASSUME NEW r \in Request, Ends(r) \/ \E ip \in Ip : Starts(r, ip)
          PROVE  TheBudget!Next
      BY <2>5, <2>6, <3>1 DEF TheBudget!Next
    <3>2. QED
      BY <1>3, <2>1, <2>3, <2>4, <2>7, <2>8, <2>9, <3>1, NextCases
<1>4. QED
  BY <1>2, <1>3, PaidInvariant, PTL DEF Spec, ImplementsBudget, TheBudget!Spec
=============================================================================
