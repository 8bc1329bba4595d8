------------------------ MODULE OperationAwaitProofs ------------------------
(***************************************************************************)
(* What a caller of AwaitOperation may rely on for every clock, backoff,   *)
(* hint and deadline.  The argument for the deadline: the time pollCtx     *)
(* ends is computed when the first read has been answered, after the call  *)
(* began, so it is no earlier than what the documentation promises from    *)
(* the beginning.  For the hint: the timer of a wait is set no earlier     *)
(* than the Host asked for, and a poll only follows a timer.               *)
(***************************************************************************)
EXTENDS OperationAwait, TLAPS

\* While the client waits, its deadline is not before the promised one.
WaitsLongEnough == pc \in {"wait", "poll"} => pollEnd >= Promised

\* The timer respects the hint, and so does the poll after it.
TimerHonoursHint == (pc = "wait" => wakeAt >= readyAt) /\ (pc = "poll" => now >= readyAt)

AwaitInv ==
  /\ TypeOK /\ WaitsLongEnough /\ TimerHonoursHint
  /\ NeverCutShort

\* The lower of two times is one of them.
LEMMA LowerIsLower ==
  ASSUME NEW a \in Nat, NEW b \in Nat
  PROVE Lower(a, b) \in {a, b} /\ Lower(a, b) <= a /\ Lower(a, b) <= b
BY DEF Lower

\* The deadline of pollCtx, whenever it is made.
LEMMA PollEndNotBeforePromised ==
  ASSUME TypeOK
  PROVE PollEnd \in Nat /\ Promised \in Nat /\ PollEnd >= Promised
<1>1. /\ now \in Nat /\ ctxEnd \in Nat /\ deadline \in Nat /\ OverallDeadline \in Nat
      /\ now >= 0
  BY TimesAssumption DEF TypeOK
<1>2. CASE deadline > 0
  BY <1>1, <1>2 DEF PollEnd, Promised, Lower
<1>3. CASE ~(deadline > 0)
  BY <1>1, <1>3 DEF PollEnd, Promised
<1> QED
  BY <1>2, <1>3

\* The initial states.
LEMMA AwaitInit == Init => AwaitInv
<1> SUFFICES ASSUME Init PROVE AwaitInv
  OBVIOUS
<1>1. window \in 1..PollMax
  BY TimesAssumption DEF Init, Lower
<1>2. answer \in Answer
  <2>1. \A k \in {"none", "pending", "done", "failed", "notfound", "error"}, h \in Hints \cup {0} :
          [kind |-> k, hint |-> h] \in Answer
    BY DEF Answer
  <2>2. Held \subseteq Answer /\ NoAnswer \in Answer
    BY <2>1 DEF Held, NoAnswer, Plain, Terminal
  <2> QED
    BY <2>2 DEF Init
<1>3. TypeOK
  BY <1>1, <1>2, TimesAssumption DEF Init, TypeOK, Terminal
<1> QED
  BY <1>3 DEF Init, AwaitInv, WaitsLongEnough, TimerHonoursHint, NeverCutShort

\* What the head of the loop leaves behind, whoever comes to it: a terminal
\* Operation returned, or a timer that respects the hint.
LEMMA ConsiderFacts ==
  ASSUME TypeOK, Consider
  PROVE /\ pc' \in {"wait", "returned"} /\ wakeAt' \in Nat /\ readyAt' \in Nat
        /\ pc' = "wait" => wakeAt' >= readyAt' /\ out' = out /\ outAt' = outAt
        /\ pc' = "returned" => out' \in Terminal /\ outAt' = now
<1>1. /\ now \in Nat /\ answer.hint \in Nat /\ window \in Nat /\ window >= 1
      /\ wakeAt \in Nat /\ readyAt \in Nat
  <2>1. answer.hint \in Hints \cup {0}
    BY DEF TypeOK, Answer
  <2>2. (\A h \in Hints \cup {0} : h \in Nat) /\ PollMax \in Nat /\ MaxTime \in Nat
    BY TimesAssumption
  <2>3. answer.hint \in Nat
    BY <2>1, <2>2
  <2>4. now \in 0..MaxTime /\ window \in 1..PollMax /\ wakeAt \in Nat /\ readyAt \in Nat
    BY DEF TypeOK
  <2> QED
    BY <2>2, <2>3, <2>4
<1>2. CASE answer.kind \in Terminal
  BY <1>1, <1>2 DEF Consider, Return
<1>3. CASE answer.kind \notin Terminal
  <2>1. PICK d \in Delays(answer.hint) : wakeAt' = now + d
    BY <1>3 DEF Consider
  <2>2. d \in Nat /\ d >= answer.hint
    BY <1>1 DEF Delays
  <2> QED
    BY <1>1, <1>3, <2>1, <2>2 DEF Consider
<1> QED
  BY <1>2, <1>3

\* Every step keeps the invariant.
LEMMA AwaitNext == AwaitInv /\ [Next]_vars => AwaitInv'
<1> SUFFICES ASSUME AwaitInv, [Next]_vars PROVE AwaitInv'
  OBVIOUS
<1>1. /\ TypeOK /\ WaitsLongEnough /\ TimerHonoursHint /\ NeverCutShort
      /\ NoAnswer \in Answer /\ now \in Nat /\ outAt \in Nat /\ pollEnd \in Nat
  BY TimesAssumption DEF AwaitInv, TypeOK, NoAnswer, Answer
<1>2. Promised \in Nat /\ (UNCHANGED <<deadline, ctxEnd>> => Promised' = Promised)
  BY <1>1, PollEndNotBeforePromised DEF Promised, Lower
<1>3. CASE FirstAnswered
  <2>1. pollEnd' = PollEnd /\ pollEnd' \in Nat /\ pollEnd' >= Promised
    BY <1>1, <1>3, PollEndNotBeforePromised DEF FirstAnswered
  <2>2. /\ pc' \in {"wait", "returned"} /\ wakeAt' \in Nat /\ readyAt' \in Nat
        /\ pc' = "wait" => wakeAt' >= readyAt' /\ out' = out /\ outAt' = outAt
        /\ pc' = "returned" => out' \in Terminal /\ outAt' = now
    BY <1>1, <1>3, ConsiderFacts DEF FirstAnswered
  <2>3. UNCHANGED <<now, entry, ctxEnd, deadline, window, st>> /\ answer' = NoAnswer
    BY <1>3 DEF FirstAnswered
  <2>4. TypeOK'
    BY <1>1, <2>1, <2>2, <2>3 DEF TypeOK, Terminal
  <2>5. WaitsLongEnough' /\ TimerHonoursHint'
    BY <1>2, <2>1, <2>2, <2>3 DEF WaitsLongEnough, TimerHonoursHint
  <2>6. NeverCutShort'
    BY <1>1, <1>2, <2>2, <2>3 DEF NeverCutShort, Terminal
  <2> QED
    BY <2>4, <2>5, <2>6 DEF AwaitInv
<1>4. CASE PollAnswered
  <2>1. /\ pc' \in {"wait", "returned"} /\ wakeAt' \in Nat /\ readyAt' \in Nat
        /\ pc' = "wait" => wakeAt' >= readyAt' /\ out' = out /\ outAt' = outAt
        /\ pc' = "returned" => out' \in Terminal /\ outAt' = now
    BY <1>1, <1>4, ConsiderFacts DEF PollAnswered
  <2>2. /\ UNCHANGED <<now, entry, ctxEnd, deadline, pollEnd, window, st>>
        /\ answer' = NoAnswer /\ pc = "poll"
    BY <1>4 DEF PollAnswered
  <2>3. TypeOK'
    BY <1>1, <2>1, <2>2 DEF TypeOK, Terminal
  <2>4. WaitsLongEnough' /\ TimerHonoursHint'
    BY <1>1, <1>2, <2>1, <2>2 DEF WaitsLongEnough, TimerHonoursHint
  <2>5. NeverCutShort'
    BY <1>1, <1>2, <2>1, <2>2 DEF NeverCutShort, Terminal
  <2> QED
    BY <2>3, <2>4, <2>5 DEF AwaitInv
<1>5. CASE FirstFails \/ PollFails \/ DeadlinePasses
  <2>1. /\ UNCHANGED <<now, entry, ctxEnd, deadline, pollEnd, window, st, wakeAt, readyAt>>
        /\ answer' = NoAnswer /\ pc' = "returned" /\ outAt' = now
        /\ out' \in {"notfound", "error", "deadline"}
    BY <1>5 DEF FirstFails, PollFails, DeadlinePasses, Return
  <2>2. TypeOK'
    BY <1>1, <2>1 DEF TypeOK
  <2>3. out' = "deadline" => now >= pollEnd /\ pc \in {"wait", "poll"}
    BY <1>5 DEF FirstFails, PollFails, DeadlinePasses, Return, PollOver
  <2>4. NeverCutShort'
    BY <1>1, <1>2, <2>1, <2>3 DEF NeverCutShort, WaitsLongEnough
  <2> QED
    BY <2>1, <2>2, <2>4 DEF AwaitInv, WaitsLongEnough, TimerHonoursHint
<1>6. CASE Poll
  <2>1. /\ UNCHANGED <<now, entry, ctxEnd, deadline, pollEnd, wakeAt, st, answer, out, outAt, readyAt>>
        /\ pc = "wait" /\ pc' = "poll" /\ now >= wakeAt
    BY <1>6 DEF Poll
  <2>2. window' \in 1..PollMax
    BY <1>1, <1>6, TimesAssumption DEF Poll, NextWindow, Lower, TypeOK
  <2>3. TypeOK'
    BY <1>1, <2>1, <2>2 DEF TypeOK
  <2>4. TimerHonoursHint'
    BY <1>1, <2>1 DEF TypeOK, TimerHonoursHint
  <2> QED
    BY <1>1, <1>2, <2>1, <2>3, <2>4 DEF AwaitInv, WaitsLongEnough, NeverCutShort
<1>7. CASE HostFinishes \/ HostForgets
  <2>1. UNCHANGED <<now, answer, clientVars>> /\ st' \in {"done", "failed", "forgotten"}
    BY <1>7 DEF HostFinishes, HostForgets, Terminal
  <2> QED
    BY <1>1, <1>2, <2>1
       DEF AwaitInv, TypeOK, WaitsLongEnough, TimerHonoursHint, NeverCutShort, clientVars
<1>8. CASE HostAnswers
  <2>1. UNCHANGED <<now, st, clientVars>> /\ answer' \in Held \cup {Plain("error")}
    BY <1>8 DEF HostAnswers
  <2>2. answer' \in Answer
    <3>1. \A k \in {"pending", "done", "failed", "notfound", "error"}, h \in Hints \cup {0} :
            [kind |-> k, hint |-> h] \in Answer
      BY DEF Answer
    <3> QED
      BY <2>1, <3>1 DEF Held, Plain, Terminal
  <2> QED
    BY <1>1, <1>2, <2>1, <2>2
       DEF AwaitInv, TypeOK, WaitsLongEnough, TimerHonoursHint, NeverCutShort, clientVars
<1>9. CASE Tick
  <2>1. UNCHANGED <<st, answer, clientVars>> /\ now' = now + 1 /\ now' \in 0..MaxTime
    BY <1>1, <1>9, TimesAssumption DEF Tick, TypeOK
  <2>2. TypeOK'
    BY <1>1, <2>1 DEF TypeOK, clientVars
  <2>3. TimerHonoursHint'
    BY <1>1, <2>1 DEF TypeOK, TimerHonoursHint, clientVars
  <2> QED
    BY <1>1, <1>2, <2>1, <2>2, <2>3 DEF AwaitInv, WaitsLongEnough, NeverCutShort, clientVars
<1>10. CASE UNCHANGED vars
  BY <1>1, <1>2, <1>10
     DEF AwaitInv, TypeOK, WaitsLongEnough, TimerHonoursHint, NeverCutShort, vars, clientVars
<1> QED
  BY <1>3, <1>4, <1>5, <1>6, <1>7, <1>8, <1>9, <1>10 DEF Next, Client

\* The invariant holds in every state.
THEOREM AwaitInvAlways == Spec => []AwaitInv
<1> QED
  BY AwaitInit, AwaitNext, PTL DEF Spec

\* The state of a wait keeps its types: among them that the backoff window never
\* leaves pollMaxDelay, however many polls there are.
THEOREM AwaitTypeCorrect == Spec => []TypeOK
<1>1. AwaitInv => TypeOK
  BY DEF AwaitInv
<1> QED
  BY <1>1, AwaitInvAlways, PTL

\* AwaitOperation and the wait on a 202 never report the deadline before the one that
\* was promised: the argument's, the context's, or the client-wide one.
THEOREM NeverCutShortAlways == Spec => []NeverCutShort
<1>1. AwaitInv => NeverCutShort
  BY DEF AwaitInv
<1> QED
  BY <1>1, AwaitInvAlways, PTL

\* No poll is sent before the Retry-After of the answer before it.
THEOREM HintHonouredAlways == Spec => []HintHonoured
<1>1. AwaitInv => HintHonoured
  BY DEF AwaitInv, TimerHonoursHint, HintHonoured
<1> QED
  BY <1>1, AwaitInvAlways, PTL

\* A terminal Operation that was read is returned, unless the wait's own deadline has
\* come at that very moment.
THEOREM TerminalIsReturned == Spec => TerminalReturned
<1>1. ASSUME [Next]_vars, answer.kind \in Terminal, answer' # answer
      PROVE out' = answer.kind \/ (out' = "deadline" /\ now >= pollEnd)
  <2>1. answer.kind \notin {"none", "notfound", "error"}
    BY <1>1 DEF Terminal
  <2>2. answer # NoAnswer
    BY <2>1 DEF NoAnswer
  <2>3. CASE FirstAnswered \/ PollAnswered
    BY <1>1, <2>3 DEF FirstAnswered, PollAnswered, Consider, Return
  <2>4. CASE FirstFails \/ PollFails
    BY <2>1, <2>2, <2>4 DEF FirstFails, PollFails
  <2>5. CASE DeadlinePasses
    BY <2>5 DEF DeadlinePasses, Return, PollOver
  <2>6. CASE Poll \/ HostFinishes \/ HostForgets \/ HostAnswers \/ Tick \/ UNCHANGED vars
    BY <1>1, <2>2, <2>6 DEF Poll, HostFinishes, HostForgets, HostAnswers, Tick, vars
  <2> QED
    BY <1>1, <2>3, <2>4, <2>5, <2>6 DEF Next, Client
<1>2. [Next]_vars =>
        [answer.kind \in Terminal /\ answer' # answer =>
           out' = answer.kind \/ (out' = "deadline" /\ now >= pollEnd)]_vars
  BY <1>1
<1> QED
  BY <1>2, PTL DEF Spec, TerminalReturned
=============================================================================
