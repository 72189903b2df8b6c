------------------------------ MODULE SdkClient ------------------------------
(***************************************************************************)
(* The request loop of the Python SDK (EchoClient._request and its async   *)
(* twin) against the handlers it calls, which share the telemetry outbox   *)
(* with the flushers of TelemetryOutbox.                                   *)
(*                                                                         *)
(* A client repeats a request after a network error, a timeout or a        *)
(* retryable status, whatever the method.  A timeout does not stop the     *)
(* handler: the first request may still run when the second one arrives.   *)
(***************************************************************************)
EXTENDS TelemetryOutbox

CONSTANTS
  Clients,     \* each makes one call
  Kinds,       \* the handlers the calls go to
  MaxAttempts  \* RetryPolicy.max_attempts

ASSUME ClientAssumption ==
  /\ Kinds \subseteq {"check", "log", "change", "comment"}
  /\ MaxAttempts \in Nat \ {0}

\* Handlers that look for a row with the key of the request before they insert
\* one, and those whose table has a unique constraint on it.  All clients of a
\* kind send the same key.
Keyed == {"log", "change", "comment"}
Unique == {"log", "change"}

\* Mutant: a log that leaves out one of its metrics.
EventsOfShortLog == [check |-> 1, log |-> 2, change |-> 0, comment |-> 0]

\* How many events a handler enqueues.
EventsOf == [check |-> 1, log |-> 3, change |-> 0, comment |-> 0]

Attempts == 1..MaxAttempts
Answers == {"200", "400", "5xx"}
Requests == Clients \X Attempts

VARIABLES
  call,     \* the call of each client: its kind, its attempt, what it was told
  request,  \* how far each attempt got on the server
  stored,   \* attempts whose handler committed a row
  made,     \* events committed with the call
  raced     \* kinds of which two handlers once were between look-up and COMMIT

clientVars == <<call, request, stored, made, raced>>

allVars == <<vars, clientVars>>

\* All that TelemetryOutbox knows except the count of requests and failures.
outboxTables == <<keyed, row, session, received, disturbed>>

ClientTypeOK ==
  /\ TypeOK
  /\ call \in [Clients -> [kind : Kinds, attempt : Attempts \cup {0},
                           told : {"nothing", "ok", "exists", "error"}]]
  /\ request \in [Requests -> {"none", "sent", "checked", "gone"} \cup Answers]
  /\ stored \subseteq Requests
  /\ made \in [Clients -> SUBSET Events]
  /\ raced \subseteq Keyed

ClientInit ==
  /\ Init
  /\ call \in [Clients -> {[kind |-> k, attempt |-> 0, told |-> "nothing"] : k \in Kinds}]
  /\ request = [r \in Requests |-> "none"]
  /\ stored = {}
  /\ made = [c \in Clients |-> {}]
  /\ raced = {}

-------------------------------------------------------------------------------
(* The client.                                                              *)

Waits(c) == call[c].attempt > 0 /\ call[c].told = "nothing"

Current(r) == Waits(r[1]) /\ call[r[1]].attempt = r[2]

\* Mutant: a client that ran out of attempts returns an empty answer.
TryAgainOrReturn(c, left) ==
  LET a == call[c].attempt
  IN IF a < MaxAttempts
     THEN /\ call' = [call EXCEPT ![c].attempt = a + 1]
          /\ request' = [left EXCEPT ![<<c, a + 1>>] = "sent"]
     ELSE /\ call' = [call EXCEPT ![c].told = "ok"]
          /\ request' = left

\* The next attempt, or an exception to the caller when there is none left.
TryAgain(c, left) ==
  LET a == call[c].attempt
  IN IF a < MaxAttempts
     THEN /\ call' = [call EXCEPT ![c].attempt = a + 1]
          /\ request' = [left EXCEPT ![<<c, a + 1>>] = "sent"]
     ELSE /\ call' = [call EXCEPT ![c].told = "error"]
          /\ request' = left

Call(c) ==
  /\ call[c].attempt = 0
  /\ Operation
  /\ TryAgain(c, request)
  /\ UNCHANGED <<outboxTables, stored, made, raced>>

\* The answer of the current attempt arrives: 2xx is returned, a retryable
\* status is tried again, any other raises.
Receive(c) ==
  LET answer == request[<<c, call[c].attempt>>]
  IN /\ Waits(c)
     /\ answer \in Answers
     /\ IF answer = "5xx" THEN TryAgain(c, request)
        ELSE /\ call' = [call EXCEPT ![c].told = IF answer = "200" THEN "ok" ELSE "exists"]
             /\ UNCHANGED request
     /\ UNCHANGED <<vars, stored, made, raced>>

\* Mutant: a client without a timeout.
NeverTimesOut(r) == FALSE

\* No answer will come, so the timeout or a closed connection ends the attempt.
TimesOut(r) == request[r] = "gone"

\* httpx.RequestError: the answer is lost, or the time is up although a handler
\* still runs, which it goes on doing.
Lose(c) ==
  LET r == <<c, call[c].attempt>>
  IN /\ Waits(c)
     /\ IF TimesOut(r) THEN UNCHANGED operations ELSE Operation
     /\ TryAgain(c, IF request[r] \in Answers THEN [request EXCEPT ![r] = "gone"]
                    ELSE request)
     /\ UNCHANGED <<outboxTables, stored, made, raced>>

-------------------------------------------------------------------------------
(* The server.                                                              *)

Kind(r) == call[r[1]].kind

Exists(kind) == \E s \in stored : Kind(s) = kind

\* Nobody waits for the answer of an attempt the client gave up.
Answer(r, answer) ==
  request' = [request EXCEPT ![r] = IF Current(r) THEN answer ELSE "gone"]

\* The handler starts and looks for the key: log_execution and
\* create_change_request refuse one they find, create_comment returns its row.
LookUp(r) ==
  /\ request[r] = "sent"
  /\ IF Kind(r) \in Keyed /\ Exists(Kind(r))
       THEN /\ Answer(r, IF Kind(r) \in Unique THEN "400" ELSE "200")
            /\ UNCHANGED raced
       ELSE /\ request' = [request EXCEPT ![r] = "checked"]
            /\ raced' = IF \E s \in Requests : request[s] = "checked" /\ Kind(s) = Kind(r)
                        THEN raced \cup (Keyed \cap {Kind(r)}) ELSE raced
  /\ UNCHANGED <<vars, call, stored, made>>

\* Mutant: no unique constraint on the key.
ClashesNever(r) == FALSE

\* The unique constraint refuses the row at COMMIT.
Clashes(r) == Kind(r) \in Unique /\ Exists(Kind(r))

\* Mutant: every handler reads its row back.
FailsAfterCommitAlways(r) == TRUE

\* Handlers of keyed rows read the row back, which may fail; runtime_check
\* answers what it computed before.
FailsAfterCommit(r) == Kind(r) \in Keyed

\* COMMIT of the row and its events.
Store(r) ==
  LET n == EventsOf[Kind(r)]
  IN /\ request[r] = "checked" /\ ~Clashes(r)
     /\ stored' = stored \cup {r}
     /\ made' = [made EXCEPT ![r[1]] = @ \cup {e \in Events : n > 0 /\ e \in NextIds(n)}]
     /\ IF n = 0 THEN UNCHANGED vars ELSE Enqueue(n)
     /\ \/ Answer(r, "200")
        \/ FailsAfterCommit(r) /\ Answer(r, "5xx")
     /\ UNCHANGED <<call, raced>>

\* A row that cannot be inserted, in the model also for want of event ids.
MustFail(r) ==
  request[r] = "checked" /\ (Clashes(r) \/ Cardinality(Unused) < EventsOf[Kind(r)])

\* A status the client tries again, with nothing committed: 429 of the rate
\* limiter, a lock that was not granted, the unique constraint.
Refuse(r) ==
  /\ request[r] \in {"sent", "checked"}
  /\ IF MustFail(r) THEN UNCHANGED operations ELSE Operation
  /\ Answer(r, "5xx")
  /\ UNCHANGED <<outboxTables, call, stored, made, raced>>

\* The handlers that run are lost with the process.
Crash ==
  /\ Restart
  /\ request' = [r \in Requests |->
                   IF request[r] \in {"sent", "checked"} THEN "gone" ELSE request[r]]
  /\ UNCHANGED <<call, stored, made, raced>>

Handler(r) == LookUp(r) \/ Store(r) \/ Refuse(r)

Client(c) == Call(c) \/ Receive(c) \/ Lose(c)

ClientNext ==
  \/ Flushing /\ UNCHANGED clientVars
  \/ Crash
  \/ \E c \in Clients : Client(c)
  \/ \E r \in Requests : Handler(r)

\* While handlers run one of them goes on, while clients wait an answer arrives or
\* the time of one is up; the flushers are as fair as in TelemetryOutbox.
ClientSpec ==
  /\ ClientInit /\ [][ClientNext]_allVars /\ Fairness
  /\ WF_allVars(\E r \in Requests : Handler(r))
  /\ WF_allVars(\E c \in Clients : Receive(c) \/ Lose(c))

-------------------------------------------------------------------------------
(* Properties.                                                              *)

Stored(c) == {r \in stored : r[1] = c}

\* Attempts the client gave up without an answer.
Missed(c) == {a \in 1..call[c].attempt :
                ~Current(<<c, a>>) /\ request[<<c, a>>] \notin Answers}

\* USER_GUIDE.md, "request_id already exists": a repeated log call is not logged
\* twice, however the attempts overlap; nor is a change registered twice.  A
\* comment, whose key has no constraint, is doubled only by two requests that
\* looked for it before either had committed (log_execution,
\* create_change_request, create_comment).
KeptOnce ==
  \A kind \in Kinds \cap Keyed :
    Cardinality({r \in stored : Kind(r) = kind}) > 1 => kind \notin Unique /\ kind \in raced

\* What a caller of the SDK is told is so: a result means that the row of this
\* call (for a comment, of some call with its key) and all its events were
\* committed; "already exists" means that there is exactly one such row, though
\* it may be the caller's own (EchoClient._request).
AnswersAreTrue ==
  \A c \in Clients :
    LET kind == call[c].kind
    IN /\ call[c].told = "ok" =>
            /\ IF kind = "comment" THEN Exists(kind) ELSE Stored(c) # {}
            /\ Cardinality(made[c]) >= EventsOf[kind]
       /\ call[c].told = "exists" => Cardinality({r \in stored : Kind(r) = kind}) = 1

\* A call does its work again only after an attempt that was given up without an
\* answer: a status that the SDK repeats never hides a second row
\* (EchoClient._request, runtime_check, create_comment).
RepeatedForAReason ==
  \A c \in Clients : Cardinality(Stored(c)) <= 1 + Cardinality(Missed(c))

\* Every call returns or raises, whatever becomes of the server
\* (EchoClient._request).
EveryCallEnds == <>[](\A c \in Clients : ~Waits(c))

\* To the outbox, calls and their handlers are requests that commit events all at
\* once: repeats, overlaps and lost answers are no steps it does not know
\* (log_execution, runtime_check).
ImplementsOutbox == Init /\ [][Next \/ UNCHANGED outboxTables]_vars
=============================================================================
