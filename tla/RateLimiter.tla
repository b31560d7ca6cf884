---------------------------- MODULE RateLimiter ----------------------------
(***************************************************************************)
(* The middleware of mcpserver/ratelimit.go. A call of a restricted tool   *)
(* first takes a permit of the gate both tools share, a FIFO semaphore,    *)
(* then waits for a token of its tool's limiter while it holds the permit, *)
(* then runs the handler; the permit is released on every way out. Calls   *)
(* of other tools and other methods pass.                                  *)
(*                                                                         *)
(* A token bucket of burst 1 is the number of ticks until its token is     *)
(* there; a reservation takes the token and leaves it there again one      *)
(* period later. Times are relative to the present: a tick makes each of   *)
(* them one smaller, so the clock needs no bound. Sleeping calls may wake  *)
(* up late, never early.                                                   *)
(***************************************************************************)
EXTENDS Integers, FiniteSets, SequencesExt

CONSTANTS Calls,           \* calls in the middleware at one time
          Tool,            \* the tool each of them names
          MaxConcurrent,   \* cfg.RateLimit.MaxConcurrent
          PerMin,          \* QueryPerMin and BlacklistPerMin
          TicksPerMinute,  \* ticks of the clock in a minute
          MaxBacklog       \* bound: no reservation that starts later than this

Restricted == {"icp_query", "icp_blacklist"}

ASSUME CallsAssumption == IsFiniteSet(Calls)
ASSUME ToolAssumption == Tool \in [Calls -> Restricted \cup {"other"}]
ASSUME MaxConcurrentAssumption == MaxConcurrent \in Nat \ {0}
ASSUME TicksAssumption == TicksPerMinute \in Nat \ {0} /\ MaxBacklog \in Nat
ASSUME PerMinAssumption == PerMin \in [Restricted -> 1..TicksPerMinute]

\* rate.Limit(n)/60 permits per second, in whole ticks.
ASSUME PeriodAssumption == \A t \in Restricted : TicksPerMinute % PerMin[t] = 0

Period(t) == TicksPerMinute \div PerMin[t]

\* The act of a call without a reservation, or with one more than a minute ago.
Forgotten == -TicksPerMinute

VARIABLES
  call,   \* where each call is in the middleware
  queue,  \* calls waiting at the gate, first come first
  held,   \* permits of the gate in use
  token,  \* limiter: ticks until its next token is there
  act     \* ticks until a call's reservation lets it go, negative once it has

vars == <<call, queue, held, token, act>>

Init ==
  /\ call = [c \in Calls |-> "idle"]
  /\ queue = <<>>
  /\ held = 0
  /\ token = [t \in Restricted |-> 0]
  /\ act = [c \in Calls |-> Forgotten]

----------------------------------------------------------------------------
\* The gate

\* limiterFor knows no limiter for the tool: the handler runs at once.
Pass(c) ==
  /\ call[c] = "idle" /\ Tool[c] \notin Restricted
  /\ call' = [call EXCEPT ![c] = "handler"]
  /\ UNCHANGED <<queue, held, token, act>>

\* Faulty variant: the outcome of Acquire is not looked at.
EnterUngated(c) ==
  /\ call[c] = "idle" /\ Tool[c] \in Restricted
  /\ held' = held + 1
  /\ call' = [call EXCEPT ![c] = "permit"]
  /\ UNCHANGED <<queue, token, act>>

\* Acquire: a free permit, or the end of the queue.
Enter(c) ==
  /\ call[c] = "idle" /\ Tool[c] \in Restricted
  /\ IF held < MaxConcurrent
     THEN /\ held' = held + 1
          /\ call' = [call EXCEPT ![c] = "permit"]
          /\ UNCHANGED queue
     ELSE /\ queue' = Append(queue, c)
          /\ call' = [call EXCEPT ![c] = "queued"]
          /\ UNCHANGED held
  /\ UNCHANGED <<token, act>>

\* The caller's context is cancelled while its call queues.
LeaveQueue(c) ==
  /\ call[c] = "queued"
  /\ \E i \in 1..Len(queue) : queue[i] = c /\ queue' = RemoveAt(queue, i)
  /\ call' = [call EXCEPT ![c] = "failed"]
  /\ UNCHANGED <<held, token, act>>

\* The call ends one way or the other. The deferred Release hands its permit to
\* the first call of the queue.
End(c, how) ==
  IF queue = <<>>
  THEN /\ call' = [call EXCEPT ![c] = how]
       /\ held' = held - 1
       /\ UNCHANGED queue
  ELSE /\ call' = [call EXCEPT ![c] = how, ![Head(queue)] = "permit"]
       /\ queue' = Tail(queue)
       /\ UNCHANGED held

----------------------------------------------------------------------------
\* limiter.Wait, and the handler

\* Faulty variant: the limiter is created with a burst of 2.
ReserveBurst(c) ==
  LET t == Tool[c] IN
  /\ call[c] = "permit" /\ token[t] <= MaxBacklog
  /\ act' = [act EXCEPT ![c] = IF token[t] > Period(t) THEN token[t] - Period(t) ELSE 0]
  /\ token' = [token EXCEPT ![t] = @ + Period(t)]
  /\ call' = [call EXCEPT ![c] = "sleep"]
  /\ UNCHANGED <<queue, held>>

\* The call may go when the token is there; the next token comes a period later.
Reserve(c) ==
  LET t == Tool[c] IN
  /\ call[c] = "permit" /\ token[t] <= MaxBacklog
  /\ act' = [act EXCEPT ![c] = token[t]]
  /\ token' = [token EXCEPT ![t] = @ + Period(t)]
  /\ call' = [call EXCEPT ![c] = "sleep"]
  /\ UNCHANGED <<queue, held>>

\* Faulty variant: the error return comes before the deferred Release.
RefuseLeaking(c) ==
  /\ call[c] = "permit"
  /\ call' = [call EXCEPT ![c] = "failed"]
  /\ UNCHANGED <<queue, held, token, act>>

\* The context is done, or its deadline comes before the token would:
\* Wait fails at once and reserves nothing.
Refuse(c) ==
  /\ call[c] = "permit"
  /\ End(c, "failed")
  /\ UNCHANGED <<token, act>>

\* The context is cancelled during the wait. The limiter takes the token back
\* unless its time has passed or a later reservation was made on top of it.
CancelWait(c) ==
  LET t == Tool[c] IN
  /\ call[c] = "sleep"
  /\ token' = IF act[c] >= 0 /\ token[t] = act[c] + Period(t)
              THEN [token EXCEPT ![t] = act[c]] ELSE token
  /\ act' = [act EXCEPT ![c] = Forgotten]
  /\ End(c, "failed")

WakeUp(c) ==
  /\ call[c] = "sleep" /\ act[c] <= 0
  /\ call' = [call EXCEPT ![c] = "handler"]
  /\ UNCHANGED <<queue, held, token, act>>

\* The handler returns, with a result or an error.
Answer(c) ==
  /\ call[c] = "handler"
  /\ IF Tool[c] \in Restricted
     THEN End(c, "answered")
     ELSE call' = [call EXCEPT ![c] = "answered"] /\ UNCHANGED <<queue, held>>
  /\ UNCHANGED <<token, act>>

\* Another call takes the place of one that ended more than a minute ago.
Reuse(c) ==
  /\ call[c] \in {"answered", "failed"} /\ act[c] = Forgotten
  /\ call' = [call EXCEPT ![c] = "idle"]
  /\ UNCHANGED <<queue, held, token, act>>

Tick ==
  /\ token' = [t \in Restricted |-> IF token[t] = 0 THEN 0 ELSE token[t] - 1]
  /\ act' = [c \in Calls |-> IF act[c] = Forgotten THEN Forgotten ELSE act[c] - 1]
  /\ UNCHANGED <<call, queue, held>>

----------------------------------------------------------------------------
Middleware(c) == Reserve(c) \/ Refuse(c) \/ CancelWait(c) \/ WakeUp(c) \/ Answer(c)

Next ==
  \/ \E c \in Calls : Pass(c) \/ Enter(c) \/ LeaveQueue(c) \/ Reuse(c)
  \/ \E c \in Calls : Middleware(c)
  \/ Tick

Spec == Init /\ [][Next]_vars

\* Time passes, and a call that can go on does: a handler ends because the HTTP
\* client underneath has a timeout. Clients owe nothing, not even a cancellation.
FairSpec ==
  /\ Spec
  /\ WF_vars(Tick)
  /\ \A c \in Calls : WF_vars(Reserve(c) \/ WakeUp(c) \/ Answer(c))

----------------------------------------------------------------------------
\* Correctness

\* The type invariant.
TypeOK ==
  /\ call \in [Calls -> {"idle", "queued", "permit", "sleep", "handler", "answered", "failed"}]
  /\ queue \in Seq(Calls)
  /\ held \in 0..MaxConcurrent
  /\ token \in [Restricted -> 0..(MaxBacklog + TicksPerMinute)]
  /\ act \in [Calls -> Forgotten..MaxBacklog]

\* rate_limit.max_concurrent of the README: no more handlers of restricted
\* tools run at once, whichever calls are cancelled at whichever point.
ConcurrencyKept ==
  Cardinality({c \in Calls : call[c] = "handler" /\ Tool[c] \in Restricted}) <= MaxConcurrent

\* rate_limit.query_per_min and blacklist_per_min of the README: of the calls a
\* limiter lets go, no minute has more than its tool's quota, also when
\* reservations are given back by cancelled calls and taken again. Each minute
\* is looked at from its first call, while that call is not yet forgotten.
QuotaKept ==
  \A c \in Calls : act[c] > Forgotten =>
    Cardinality({d \in Calls : /\ Tool[d] = Tool[c]
                               /\ act[d] \in act[c] .. (act[c] + TicksPerMinute - 1)})
      <= PerMin[Tool[c]]

\* A call waits only while the gate is full, so a cancelled call gives its
\* permit to the next one: nobody waits for a permit that nobody holds.
NobodyWaitsForNothing ==
  queue # <<>> =>
    Cardinality({c \in Calls : call[c] \in {"permit", "sleep", "handler"}
                               /\ Tool[c] \in Restricted}) = MaxConcurrent

\* Every call that has entered the middleware comes back.
CallsEnd ==
  \A c \in Calls :
    call[c] \in {"queued", "permit", "sleep", "handler"} ~> call[c] \in {"answered", "failed"}

============================================================================
