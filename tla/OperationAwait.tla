--------------------------- MODULE OperationAwait ---------------------------
(***************************************************************************)
(* Waiting for an Operation in package hostclient: AwaitOperation on a     *)
(* persisted id, and awaitOperation on the Operation of a 202, against a   *)
(* Host that may be slow, may finish the Operation or forget it, and may   *)
(* not answer at all.  Time is a clock; a client that has something to do  *)
(* does it before the clock moves on.                                      *)
(***************************************************************************)
EXTENDS Integers

CONSTANTS
  CtxEnds,          \* deadlines the caller's context may carry; Never: none
  Deadlines,        \* deadline arguments; 0 stands for every non-positive one
  OverallDeadline,  \* Options.OverallDeadline
  PollBase,         \* pollBaseDelay
  PollMax,          \* pollMaxDelay
  Hints,            \* Retry-After values; 0: no usable hint
  MaxTime           \* bound: the clock stops here, after every deadline

Never == MaxTime + 1

ASSUME TimesAssumption ==
  /\ MaxTime \in Nat
  /\ PollBase \in Nat \ {0} /\ PollMax \in Nat \ {0}
  /\ OverallDeadline \in Nat \ {0}
  /\ Hints \subseteq Nat /\ Deadlines \subseteq Nat
  /\ CtxEnds \subseteq Nat

VARIABLES
  now,      \* the clock; the call begins at 0
  entry,    \* "resume": AwaitOperation; "accepted": the Operation of a 202
  ctxEnd,   \* the deadline of the caller's context
  deadline, \* the deadline argument
  pollEnd,  \* the deadline of pollCtx, once awaitOperation has made it
  pc,       \* "first": reading the Operation to wait for; "wait"; "poll"
  window,   \* the backoff window of the next wait
  wakeAt,   \* when the wait's timer fires
  st,       \* the Operation at the Host
  answer,   \* the answer to the read in flight
  out,      \* what the call returned
  outAt,    \* when it returned
  readyAt   \* history: the time the Host asked the next poll to wait for

clientVars == <<entry, ctxEnd, deadline, pollEnd, pc, window, wakeAt, out, outAt, readyAt>>
vars == <<now, st, answer, clientVars>>

Lower(a, b) == IF a < b THEN a ELSE b

\* "none": nothing was read yet; "error": whatever is no Operation and no
\* operation_not_found.
Answer == [kind: {"none", "pending", "done", "failed", "notfound", "error"},
           hint: Hints \cup {0}]
NoAnswer == [kind |-> "none", hint |-> 0]
Plain(k) == [kind |-> k, hint |-> 0]
Terminal == {"done", "failed"}

TypeOK ==
  /\ now \in 0..MaxTime
  /\ entry \in {"resume", "accepted"}
  /\ ctxEnd \in CtxEnds /\ deadline \in Deadlines \cup {0} /\ pollEnd \in Nat
  /\ pc \in {"first", "wait", "poll", "returned"}
  /\ window \in 1..PollMax
  /\ wakeAt \in Nat /\ readyAt \in Nat
  /\ st \in {"running", "done", "failed", "forgotten"}
  /\ answer \in Answer
  /\ out \in {"none", "done", "failed", "notfound", "error", "deadline"}
  /\ outAt \in 0..MaxTime

-----------------------------------------------------------------------------
(* Durations.                                                                *)

\* Mutated forms: the client-wide deadline bounds every call; nothing bounds a
\* call with neither a deadline argument nor a context deadline.
PollEndAlwaysOverall ==
  Lower(IF deadline > 0 THEN Lower(ctxEnd, now + deadline) ELSE ctxEnd, now + OverallDeadline)
PollEndWithoutFallback ==
  IF deadline > 0 THEN Lower(ctxEnd, now + deadline) ELSE ctxEnd

\* pollCtx: the explicit deadline under the caller's; the caller's; or, for a
\* deadline-free context, the client's overall deadline.
PollEnd ==
  IF deadline > 0 THEN Lower(ctxEnd, now + deadline)
  ELSE IF ctxEnd # Never THEN ctxEnd
  ELSE now + OverallDeadline

\* pollBackoffWindow, one attempt after another.
NextWindow == Lower(2 * window, PollMax)

\* Mutated form: a hint is cut to the interval cap.
DelaysCapped(h) == IF h > 0 THEN {Lower(h, PollMax)} ELSE 0..(window - 1)

\* waitForPoll: a hint in full (pollCtx always carries a deadline, so
\* retryAfterDelay has no cap to apply), or full jitter over the window.
Delays(h) == IF h > 0 THEN {h} ELSE 0..(window - 1)

-----------------------------------------------------------------------------
\* The Operation as the Host shows it: pending, with or without a hint, or
\* terminal.
Held == IF st = "running" THEN {[kind |-> "pending", hint |-> h] : h \in Hints \cup {0}}
        ELSE IF st \in Terminal THEN {Plain(st)}
        ELSE {Plain("notfound")}

Init ==
  /\ now = 0
  /\ ctxEnd \in CtxEnds
  /\ st \in {"running"} \cup Terminal
  /\ \/ /\ entry = "resume"
        /\ deadline \in Deadlines
        /\ answer = NoAnswer
     \/ /\ entry = "accepted"
        /\ deadline = 0
        /\ answer \in Held
  /\ pollEnd = 0
  /\ pc = "first"
  /\ window = Lower(PollBase, PollMax)
  /\ wakeAt = 0
  /\ out = "none"
  /\ outAt = 0
  /\ readyAt = 0

CtxOver == now >= ctxEnd
PollOver == now >= pollEnd

-----------------------------------------------------------------------------
(* The client.                                                               *)

Return(o) ==
  /\ pc' = "returned"
  /\ out' = o
  /\ outAt' = now
  /\ UNCHANGED <<wakeAt, readyAt>>

\* Mutated form: it waits before it looks at the Operation it already has.
ConsiderWaitsFirst ==
  /\ pc' = "wait"
  /\ \E d \in Delays(answer.hint) : wakeAt' = now + d
  /\ readyAt' = now + answer.hint
  /\ UNCHANGED <<out, outAt>>

\* The head of the loop: a terminal Operation is returned, after a pending one
\* the client waits.
Consider ==
  IF answer.kind \in Terminal
  THEN Return(answer.kind)
  ELSE /\ pc' = "wait"
       /\ \E d \in Delays(answer.hint) : wakeAt' = now + d
       /\ readyAt' = now + answer.hint
       /\ UNCHANGED <<out, outAt>>

\* The first Operation, read on the caller's own context or taken from the 202.
FirstAnswered ==
  /\ pc = "first"
  /\ answer.kind \in Terminal \cup {"pending"}
  /\ pollEnd' = PollEnd
  /\ Consider
  /\ answer' = NoAnswer
  /\ UNCHANGED <<now, entry, ctxEnd, deadline, window, st>>

FirstFails ==
  /\ pc = "first"
  /\ \/ answer.kind \in {"notfound", "error"} /\ Return(answer.kind)
     \/ CtxOver /\ answer = NoAnswer /\ Return("error")
  /\ answer' = NoAnswer
  /\ UNCHANGED <<now, entry, ctxEnd, deadline, pollEnd, window, st>>

\* The timer fires: the next read goes out.  Once pollCtx is over a read fails
\* before it is sent, which is DeadlinePasses.
Poll ==
  /\ pc = "wait"
  /\ now >= wakeAt /\ ~PollOver
  /\ pc' = "poll"
  /\ window' = NextWindow
  /\ UNCHANGED <<now, entry, ctxEnd, deadline, pollEnd, wakeAt, st, answer, out, outAt, readyAt>>

\* pollCtx ends while the client waits or while its read is in flight.
DeadlinePasses ==
  /\ pc \in {"wait", "poll"}
  /\ PollOver
  /\ Return("deadline")
  /\ answer' = NoAnswer
  /\ UNCHANGED <<now, entry, ctxEnd, deadline, pollEnd, window, st>>

PollAnswered ==
  /\ pc = "poll"
  /\ answer.kind \in Terminal \cup {"pending"}
  /\ Consider
  /\ answer' = NoAnswer
  /\ UNCHANGED <<now, entry, ctxEnd, deadline, pollEnd, window, st>>

\* A failed read ends the wait; once pollCtx is over, whatever the read found
\* is reported as the deadline.
PollFails ==
  /\ pc = "poll"
  /\ answer.kind \in {"notfound", "error"}
  /\ Return(IF PollOver THEN "deadline" ELSE answer.kind)
  /\ answer' = NoAnswer
  /\ UNCHANGED <<now, entry, ctxEnd, deadline, pollEnd, window, st>>

Client == FirstAnswered \/ FirstFails \/ Poll \/ DeadlinePasses \/ PollAnswered \/ PollFails

-----------------------------------------------------------------------------
(* The Host (external) and time.                                             *)

HostFinishes ==
  /\ st = "running"
  /\ st' \in Terminal
  /\ UNCHANGED <<now, answer, clientVars>>

\* The record of a terminal Operation may expire.
HostForgets ==
  /\ st \in Terminal
  /\ st' = "forgotten"
  /\ UNCHANGED <<now, answer, clientVars>>

\* The read in flight is answered with what the Host holds now, or fails.
HostAnswers ==
  /\ pc \in {"first", "poll"}
  /\ answer = NoAnswer
  /\ answer' \in Held \cup {Plain("error")}
  /\ UNCHANGED <<now, st, clientVars>>

\* The client has something to do at this instant.
Due ==
  \/ answer # NoAnswer
  \/ pc = "first" /\ CtxOver
  \/ pc = "wait" /\ now >= wakeAt
  \/ pc \in {"wait", "poll"} /\ PollOver

Tick ==
  /\ now < MaxTime
  /\ ~Due
  /\ now' = now + 1
  /\ UNCHANGED <<st, answer, clientVars>>

Next == Client \/ HostFinishes \/ HostForgets \/ HostAnswers \/ Tick

\* The client's steps are taken, and time passes.  The Host owes nothing.
Spec == Init /\ [][Next]_vars /\ WF_vars(Client) /\ SF_vars(Tick)

-----------------------------------------------------------------------------
(* Properties.                                                               *)

\* The deadline the documentation promises, from the beginning of the call: the
\* argument under the caller's context, the context alone, or the fallback.
Promised ==
  IF deadline > 0 THEN Lower(ctxEnd, deadline)
  ELSE IF ctxEnd # Never THEN ctxEnd
  ELSE OverallDeadline

\* The call never gives up for a deadline before the promised one is over: in
\* particular a caller's longer deadline outlives the client-wide one.
NeverCutShort == out = "deadline" => outAt >= Promised

\* A poll never goes out before the time the Host asked for.
HintHonoured == pc = "poll" => now >= readyAt

\* A terminal Operation the client has been given is what it returns; only the
\* end of its own deadline, at that very instant, may come between.
TerminalReturned ==
  [][answer.kind \in Terminal /\ answer' # answer =>
       out' = answer.kind \/ (out' = "deadline" /\ now >= pollEnd)]_vars

\* Waiting ends, although the Host may stop answering and its hints may be as
\* long as it likes: on a 202 always, on a persisted id when the caller's
\* context has a deadline.
AwaitEnds == entry = "accepted" \/ ctxEnd # Never ~> pc = "returned"

-----------------------------------------------------------------------------
(* A statement of the repository that does not hold.                         *)

\* operations.go:470: a positive deadline bounds this call explicitly.
DeadlineBoundsCall ==
  deadline > 0 => now <= deadline \/ (pc = "returned" /\ outAt <= deadline)
=============================================================================
