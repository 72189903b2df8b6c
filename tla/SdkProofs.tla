------------------------------ MODULE SdkProofs ------------------------------
(***************************************************************************)
(* Theorems about SdkClient for all values of its constants: its steps are *)
(* steps of the outbox, a keyed call is stored once, the client is told    *)
(* the truth, and repeats nothing without a reason.                        *)
(***************************************************************************)
EXTENDS TelemetryProofs

\* The tables of clients and requests.
RequestStates == {"none", "sent", "checked", "gone"} \cup Answers

ClientTables ==
  /\ call \in [Clients -> [kind : Kinds, attempt : Attempts \cup {0},
                           told : {"nothing", "ok", "exists", "error"}]]
  /\ request \in [Requests -> RequestStates]
  /\ stored \subseteq Requests
  /\ made \in [Clients -> SUBSET Events]
  /\ raced \subseteq Keyed

LEMMA KindType ==
  ASSUME ClientTables, NEW r \in Requests
  PROVE  /\ Kind(r) \in Kinds
         /\ Kind(r) \in {"check", "log", "change", "comment"}
         /\ EventsOf[Kind(r)] \in {0, 1, 3}
         /\ Kind(r) = "log" => EventsOf[Kind(r)] = 3
         /\ Kind(r) = "check" => EventsOf[Kind(r)] = 1
         /\ Kind(r) \notin {"log", "check"} => EventsOf[Kind(r)] = 0
<1>1. Kind(r) \in Kinds
  BY DEF ClientTables, Kind, Requests
<1>2. Kind(r) \in {"check", "log", "change", "comment"}
  BY <1>1, ClientAssumption
<1>3. QED
  BY <1>1, <1>2 DEF EventsOf

\* A handler that commits its row takes a step of the outbox, or none.
LEMMA StoreStep ==
  ASSUME ClientTables, NEW r \in Requests, Store(r)
  PROVE  Next \/ UNCHANGED vars
<1>1. CASE EventsOf[Kind(r)] = 0
  BY <1>1 DEF Store
<1>2. CASE EventsOf[Kind(r)] # 0
  <2>1. Enqueue(EventsOf[Kind(r)])
    BY <1>2 DEF Store
  <2>2. CASE EventsOf[Kind(r)] = 1
    BY <2>1, <2>2 DEF Next, RuntimeCheck
  <2>3. CASE EventsOf[Kind(r)] = 3
    BY <2>1, <2>3 DEF Next, LogExecution
  <2>4. QED
    BY <1>2, <2>2, <2>3, KindType
<1>3. QED
  BY <1>1, <1>2

LEMMA ClientStep ==
  ASSUME ClientTables, [ClientNext]_allVars
  PROVE  [Next \/ UNCHANGED outboxTables]_vars
<1>1. ASSUME NEW c \in Clients, Client(c)
      PROVE  UNCHANGED outboxTables
  BY <1>1 DEF Client, Call, Receive, Lose, vars, outboxTables
<1>2. ASSUME NEW r \in Requests, Handler(r)
      PROVE  [Next \/ UNCHANGED outboxTables]_vars
  <2>1. CASE LookUp(r)
    BY <2>1 DEF LookUp
  <2>2. CASE Store(r)
    BY <2>2, StoreStep
  <2>3. CASE Refuse(r)
    BY <2>3 DEF Refuse
  <2>4. QED
    BY <1>2, <2>1, <2>2, <2>3 DEF Handler
<1>3. CASE Flushing \/ Crash
  BY <1>3 DEF Next, Crash
<1>4. CASE UNCHANGED allVars
  BY <1>4 DEF allVars
<1>5. QED
  BY <1>1, <1>2, <1>3, <1>4 DEF ClientNext

-------------------------------------------------------------------------------
(* Types.                                                                   *)

LEMMA TryAgainType ==
  ASSUME ClientTables, NEW c \in Clients, NEW left \in [Requests -> RequestStates],
         TryAgain(c, left)
  PROVE  /\ call' \in [Clients -> [kind : Kinds, attempt : Attempts \cup {0},
                                  told : {"nothing", "ok", "exists", "error"}]]
         /\ request' \in [Requests -> RequestStates]
<1> DEFINE a == call[c].attempt
<1>1. a \in Nat /\ a <= MaxAttempts
  BY ClientAssumption DEF ClientTables, Attempts
<1>2. CASE a < MaxAttempts
  <2>1. a + 1 \in Attempts
    BY <1>1, <1>2, ClientAssumption DEF Attempts
  <2>2. call' = [call EXCEPT ![c] = [call[c] EXCEPT !.attempt = a + 1]]
    BY <1>2 DEF TryAgain
  <2>3. request' = [left EXCEPT ![<<c, a + 1>>] = "sent"]
    BY <1>2 DEF TryAgain
  <2>4. request' \in [Requests -> RequestStates]
    BY <2>3 DEF RequestStates
  <2>5. QED
    BY <2>1, <2>2, <2>4 DEF ClientTables
<1>3. CASE ~(a < MaxAttempts)
  BY <1>3 DEF ClientTables, TryAgain
<1>4. QED
  BY <1>2, <1>3

LEMMA AnswerType ==
  ASSUME ClientTables, NEW r \in Requests, NEW answer \in Answers, Answer(r, answer)
  PROVE  request' \in [Requests -> RequestStates]
  BY DEF ClientTables, Answer, RequestStates

LEMMA ClientTablesStep == ClientTables /\ [ClientNext]_allVars => ClientTables'
<1> SUFFICES ASSUME ClientTables, [ClientNext]_allVars
             PROVE  ClientTables'
  OBVIOUS
<1>1. ASSUME NEW c \in Clients, Call(c)
      PROVE  ClientTables'
  <2>1. request \in [Requests -> RequestStates]
    BY DEF ClientTables
  <2>2. QED
    BY <1>1, <2>1, TryAgainType DEF Call, ClientTables
<1>2. ASSUME NEW c \in Clients, Receive(c)
      PROVE  ClientTables'
  <2>1. CASE TryAgain(c, request)
    BY <1>2, <2>1, TryAgainType DEF Receive, ClientTables
  <2>2. CASE ~TryAgain(c, request)
    BY <1>2, <2>2 DEF Receive, ClientTables
  <2>3. QED
    BY <2>1, <2>2
<1>3. ASSUME NEW c \in Clients, Lose(c)
      PROVE  ClientTables'
  <2> DEFINE r == <<c, call[c].attempt>>
             left == IF request[r] \in Answers THEN [request EXCEPT ![r] = "gone"] ELSE request
  <2>1. left \in [Requests -> RequestStates]
    BY DEF ClientTables, RequestStates
  <2>2. TryAgain(c, left)
    BY <1>3 DEF Lose
  <2> HIDE DEF left
  <2>3. QED
    BY <1>3, <2>1, <2>2, TryAgainType DEF Lose, ClientTables
<1>4. ASSUME NEW r \in Requests, LookUp(r)
      PROVE  ClientTables'
  <2>1. request' \in [Requests -> RequestStates]
    <3>1. CASE request' = [request EXCEPT ![r] = "checked"]
      BY <3>1 DEF ClientTables, RequestStates
    <3>2. CASE Answer(r, "400") \/ Answer(r, "200")
      BY <3>2, AnswerType DEF Answers
    <3>3. QED
      BY <1>4, <3>1, <3>2 DEF LookUp
  <2>2. raced' \subseteq Keyed
    BY <1>4 DEF LookUp, ClientTables
  <2>3. QED
    BY <1>4, <2>1, <2>2 DEF LookUp, ClientTables
<1>5. ASSUME NEW r \in Requests, Store(r)
      PROVE  ClientTables'
  <2>1. request' \in [Requests -> RequestStates]
    BY <1>5, AnswerType DEF Store, Answers
  <2>2. made' \in [Clients -> SUBSET Events]
    BY <1>5 DEF Store, ClientTables
  <2>3. QED
    BY <1>5, <2>1, <2>2 DEF Store, ClientTables
<1>6. ASSUME NEW r \in Requests, Refuse(r)
      PROVE  ClientTables'
  BY <1>6, AnswerType DEF Refuse, Answers, ClientTables
<1>7. CASE Crash
  BY <1>7 DEF Crash, ClientTables, RequestStates
<1>8. CASE UNCHANGED clientVars
  BY <1>8 DEF clientVars, ClientTables
<1>9. QED
  BY <1>1, <1>2, <1>3, <1>4, <1>5, <1>6, <1>7, <1>8
     DEF ClientNext, Client, Handler, allVars

LEMMA ClientTablesInit == ClientInit => ClientTables
  BY DEF ClientInit, ClientTables, RequestStates

\* Every step counts at most one request, loss or failure.
LEMMA ClientOperations ==
  ASSUME operations \in 0..MaxOperations, [ClientNext]_allVars
  PROVE  operations' \in 0..MaxOperations
<1>1. CASE UNCHANGED operations
  BY <1>1
<1>2. CASE Operation
  BY <1>2, TelemetryAssumption DEF Operation
<1>3. CASE Next
  BY <1>3, OperationsType
<1>4. ASSUME NEW r \in Requests, Store(r)
      PROVE  operations' \in 0..MaxOperations
  <2>1. UNCHANGED operations
    BY <1>4 DEF Store, Enqueue, vars
  <2>2. QED
    BY <2>1, <1>1
<1>5. QED
  BY <1>1, <1>2, <1>3, <1>4
     DEF ClientNext, Next, Crash, Client, Call, Receive, Lose, Handler, LookUp, Refuse, vars, allVars

ClientTypeInv == ClientTables /\ TypeInv

LEMMA ClientTypeInductive ==
  /\ ClientInit => ClientTypeInv
  /\ ClientTypeInv /\ [ClientNext]_allVars => ClientTypeInv'
<1>1. ClientInit => ClientTypeInv
  BY ClientTablesInit, TablesInit, TelemetryAssumption
     DEF ClientInit, Init, ClientTypeInv, TypeInv
<1>2. ClientTypeInv /\ [ClientNext]_allVars => ClientTypeInv'
  BY ClientTablesStep, ClientStep, StepOfTables, TablesStep, ClientOperations
     DEF ClientTypeInv, TypeInv
<1>3. QED
  BY <1>1, <1>2

\* SdkClient keeps its types.
THEOREM ClientTypeCorrect == ClientSpec => []ClientTypeOK
<1>1. ClientTypeInv => ClientTypeOK
  BY DEF ClientTypeInv, TypeInv, ClientTables, ClientTypeOK, TablesOK, TypeOK, SessionType,
         RequestStates
<1>2. QED
  BY <1>1, ClientTypeInductive, PTL DEF ClientSpec

\* To the outbox, calls, repeats and lost answers are steps it knows
\* (log_execution, runtime_check).
THEOREM CallsAreOutboxSteps == ClientSpec => ImplementsOutbox
<1>1. ClientInit => Init
  BY DEF ClientInit
<1>2. ClientTypeInv /\ [ClientNext]_allVars => [Next \/ UNCHANGED outboxTables]_vars
  BY ClientStep DEF ClientTypeInv
<1>3. QED
  BY <1>1, <1>2, ClientTypeInductive, PTL DEF ClientSpec, ImplementsOutbox

\* So the record of a sent event is true, whatever clients repeat
\* (_flush_telemetry_event, _telemetry_flush_loop).
THEOREM SentWasReceived == ClientSpec => []SentMeansReceived
  BY CallsAreOutboxSteps, OutboxKept, PTL

\* Datadog gets an event twice only for a lost answer, commit or process, or two
\* flushers (_telemetry_flush_loop, flush_outbox).
THEOREM ResentOnlyForAReason == ClientSpec => []ResentForAReason
  BY CallsAreOutboxSteps, OutboxKept, PTL

\* A settled event stays so unless two workers flushed it at once
\* (_telemetry_flush_loop, flush_outbox).
THEOREM SettledStaysSettled == ClientSpec => SettledForGood
  BY CallsAreOutboxSteps, OutboxKept, PTL

-------------------------------------------------------------------------------
(* One row for one key.                                                     *)

\* What a step makes of the rows of the clients: at most one handler goes on,
\* and no call changes its kind.
KindsKept == \A r \in Requests : Kind(r)' = Kind(r)

LEMMA KindsAreKept == ClientTables /\ [ClientNext]_allVars => KindsKept
<1> SUFFICES ASSUME ClientTables, [ClientNext]_allVars, NEW r \in Requests
             PROVE  Kind(r)' = Kind(r)
  BY DEF KindsKept
<1> DEFINE d == r[1]
<1>1. d \in Clients
  BY DEF Requests
<1>2. ASSUME NEW c \in Clients, NEW left, TryAgain(c, left)
      PROVE  call'[d].kind = call[d].kind
  BY <1>1, <1>2 DEF TryAgain, ClientTables
<1>3. ASSUME NEW c \in Clients, Client(c)
      PROVE  call'[d].kind = call[d].kind
  BY <1>1, <1>2, <1>3 DEF Client, Call, Receive, Lose, ClientTables
<1>4. call'[d].kind = call[d].kind
  BY <1>3
     DEF ClientNext, Handler, LookUp, Store, Refuse, Crash, clientVars, allVars
<1>5. QED
  BY <1>4 DEF Kind

StoredOf(kind) == {r \in stored : Kind(r) = kind}
CheckedOf(kind) == {r \in Requests : request[r] = "checked" /\ Kind(r) = kind}

\* No two rows of a kind, and none while a handler is about to add one, except
\* where the look-ups have raced and nothing else forbids it.
KeptInv ==
  \A kind \in Kinds \cap Keyed :
    /\ kind \in Unique \/ kind \notin raced =>
         \A r, s \in StoredOf(kind) : r = s
    /\ kind \notin raced =>
         /\ \A r, s \in CheckedOf(kind) : r = s
         /\ CheckedOf(kind) # {} => StoredOf(kind) = {}

\* Steps that start no handler's work and store nothing.
LEMMA KeptQuiet ==
  ASSUME KeptInv, ClientTables, KindsKept, stored' = stored, raced' = raced,
         \A r \in Requests : request'[r] = "checked" => request[r] = "checked"
  PROVE  KeptInv'
<1>1. ASSUME NEW kind
      PROVE  StoredOf(kind)' = StoredOf(kind) /\ CheckedOf(kind)' \subseteq CheckedOf(kind)
  BY DEF StoredOf, CheckedOf, KindsKept, ClientTables
<1>2. QED
  BY <1>1 DEF KeptInv

LEMMA KeptLookUp ==
  ASSUME KeptInv, ClientTables, KindsKept, NEW r \in Requests, LookUp(r)
  PROVE  KeptInv'
<1>1. stored' = stored /\ request \in [Requests -> RequestStates]
  BY DEF LookUp, ClientTables
<1>2. CASE Kind(r) \in Keyed /\ Exists(Kind(r))
  <2>1. raced' = raced /\ \A s \in Requests : request'[s] = "checked" => request[s] = "checked"
    BY <1>1, <1>2 DEF LookUp, Answer
  <2>2. QED
    BY <1>1, <2>1, KeptQuiet
<1>3. CASE ~(Kind(r) \in Keyed /\ Exists(Kind(r)))
  <2>1. /\ request' = [request EXCEPT ![r] = "checked"]
        /\ raced \subseteq raced'
        /\ Kind(r) \in Keyed \ raced' =>
             \A s \in Requests : request[s] = "checked" => Kind(s) # Kind(r)
    BY <1>3 DEF LookUp
  <2>2. ASSUME NEW kind \in Kinds \cap Keyed
        PROVE  /\ StoredOf(kind)' = StoredOf(kind)
               /\ kind # Kind(r) => CheckedOf(kind)' = CheckedOf(kind)
               /\ kind = Kind(r) => CheckedOf(kind)' = CheckedOf(kind) \cup {r}
               /\ kind = Kind(r) => StoredOf(kind) = {}
               /\ kind = Kind(r) /\ kind \notin raced' => CheckedOf(kind) = {}
    <3>1. StoredOf(kind)' = StoredOf(kind)
      BY <1>1 DEF StoredOf, KindsKept, ClientTables
    <3>2. ASSUME NEW s \in Requests
          PROVE  /\ s = r => (s \in CheckedOf(kind)' <=> Kind(s) = kind)
                 /\ s # r => (s \in CheckedOf(kind)' <=> s \in CheckedOf(kind))
      BY <1>1, <2>1 DEF CheckedOf, KindsKept
    <3>3. /\ kind # Kind(r) => CheckedOf(kind)' = CheckedOf(kind)
          /\ kind = Kind(r) => CheckedOf(kind)' = CheckedOf(kind) \cup {r}
      <4>1. r \notin CheckedOf(kind)
        BY DEF LookUp, CheckedOf
      <4>2. CheckedOf(kind) \subseteq Requests /\ CheckedOf(kind)' \subseteq Requests
        BY DEF CheckedOf
      <4>3. QED
        BY <3>2, <4>1, <4>2
    <3>4. kind = Kind(r) => StoredOf(kind) = {}
      BY <1>3 DEF StoredOf, Exists
    <3>5. kind = Kind(r) /\ kind \notin raced' => CheckedOf(kind) = {}
      BY <2>1 DEF CheckedOf
    <3>6. QED
      BY <3>1, <3>3, <3>4, <3>5
  <2>3. QED
    BY <2>1, <2>2 DEF KeptInv
<1>4. QED
  BY <1>2, <1>3

LEMMA KeptStore ==
  ASSUME KeptInv, ClientTables, KindsKept, NEW r \in Requests, Store(r)
  PROVE  KeptInv'
<1>1. /\ request[r] = "checked" /\ ~Clashes(r)
      /\ stored' = stored \cup {r} /\ raced' = raced
      /\ request \in [Requests -> RequestStates]
  BY DEF Store, ClientTables
<1>2. PICK x : x # "checked" /\ request' = [request EXCEPT ![r] = x]
  <2>1. Answer(r, "200") \/ Answer(r, "5xx")
    BY DEF Store
  <2>2. QED
    BY <2>1 DEF Answer
<1>3. ASSUME NEW kind \in Kinds \cap Keyed
      PROVE  /\ kind # Kind(r) => StoredOf(kind)' = StoredOf(kind)
             /\ kind = Kind(r) => StoredOf(kind)' = StoredOf(kind) \cup {r}
             /\ CheckedOf(kind)' = CheckedOf(kind) \ {r}
             /\ kind = Kind(r) => r \in CheckedOf(kind)
  <2>1. /\ kind # Kind(r) => StoredOf(kind)' = StoredOf(kind)
        /\ kind = Kind(r) => StoredOf(kind)' = StoredOf(kind) \cup {r}
    BY <1>1 DEF StoredOf, KindsKept, ClientTables
  <2>2. CheckedOf(kind)' = CheckedOf(kind) \ {r}
    BY <1>1, <1>2 DEF CheckedOf, KindsKept
  <2>3. QED
    BY <1>1, <2>1, <2>2 DEF CheckedOf
<1>4. Kind(r) \in Unique => StoredOf(Kind(r)) = {}
  BY <1>1 DEF Clashes, Exists, StoredOf
<1>5. QED
  BY <1>1, <1>3, <1>4 DEF KeptInv

LEMMA KeptStep == KeptInv /\ ClientTables /\ [ClientNext]_allVars => KeptInv'
<1> SUFFICES ASSUME KeptInv, ClientTables, [ClientNext]_allVars
             PROVE  KeptInv'
  OBVIOUS
<1>1. KindsKept /\ request \in [Requests -> RequestStates]
  BY KindsAreKept DEF ClientTables
<1>2. ASSUME NEW c, NEW left \in [Requests -> RequestStates], TryAgain(c, left)
      PROVE  \A r \in Requests : request'[r] = "checked" => left[r] = "checked"
  BY <1>2 DEF TryAgain
<1>3. ASSUME NEW c \in Clients, Client(c)
      PROVE  KeptInv'
  <2>1. stored' = stored /\ raced' = raced
    BY <1>3 DEF Client, Call, Receive, Lose
  <2>2. CASE Call(c) \/ Receive(c)
    <3>1. \A r \in Requests : request'[r] = "checked" => request[r] = "checked"
      BY <1>1, <1>2, <2>2 DEF Call, Receive
    <3>2. QED
      BY <1>1, <2>1, <3>1, KeptQuiet
  <2>3. CASE Lose(c)
    <3> DEFINE r == <<c, call[c].attempt>>
               left == IF request[r] \in Answers THEN [request EXCEPT ![r] = "gone"] ELSE request
    <3>1. left \in [Requests -> RequestStates] /\ TryAgain(c, left)
      BY <1>1, <2>3 DEF Lose, RequestStates
    <3>2. \A s \in Requests : left[s] = "checked" => request[s] = "checked"
      BY <1>1
    <3> HIDE DEF left
    <3>3. \A s \in Requests : request'[s] = "checked" => request[s] = "checked"
      BY <1>2, <3>1, <3>2
    <3>4. QED
      BY <1>1, <2>1, <3>3, KeptQuiet
  <2>4. QED
    BY <1>3, <2>2, <2>3 DEF Client
<1>4. ASSUME NEW r \in Requests, Refuse(r)
      PROVE  KeptInv'
  BY <1>1, <1>4, KeptQuiet DEF Refuse, Answer
<1>5. CASE Crash
  BY <1>1, <1>5, KeptQuiet DEF Crash
<1>6. CASE UNCHANGED clientVars
  BY <1>1, <1>6, KeptQuiet DEF clientVars
<1>7. QED
  BY <1>1, <1>3, <1>4, <1>5, <1>6, KeptLookUp, KeptStore DEF ClientNext, Handler, allVars

\* However the attempts of a call overlap, a log or a change with one key is kept
\* once, a comment unless its look-ups raced (log_execution,
\* create_change_request, create_comment).
THEOREM EveryKeyKeptOnce == ClientSpec => []KeptOnce
<1>1. ClientInit => KeptInv
  BY DEF ClientInit, KeptInv, StoredOf, CheckedOf
<1>2. ClientTypeInv /\ KeptInv /\ [ClientNext]_allVars => KeptInv'
  BY KeptStep DEF ClientTypeInv
<1>3. KeptInv => KeptOnce
  <2>1. SUFFICES ASSUME KeptInv, NEW kind \in Kinds \cap Keyed,
                        Cardinality(StoredOf(kind)) > 1
                 PROVE  kind \notin Unique /\ kind \in raced
    BY DEF KeptOnce, StoredOf
  <2>2. QED
    BY <2>1, AtMostOne DEF KeptInv
<1>4. QED
  BY <1>1, <1>2, <1>3, ClientTypeInductive, PTL DEF ClientSpec

-------------------------------------------------------------------------------
(* What the caller is told.                                                 *)

\* The work of a call is done.
Done(c) ==
  /\ IF call[c].kind = "comment" THEN Exists("comment") ELSE Stored(c) # {}
  /\ Cardinality(made[c]) >= EventsOf[call[c].kind]

\* A row with the key of the call stands in the way of another.
Taken(c) == call[c].kind \in Unique /\ Exists(call[c].kind)

\* An answer is true when it is given and stays so until it is read and returned.
TruthInv ==
  /\ \A c \in Clients : /\ call[c].told = "ok" => Done(c)
                        /\ call[c].told = "exists" => Taken(c)
  /\ \A r \in Requests : /\ request[r] = "200" => Done(r[1])
                         /\ request[r] = "400" => Taken(r[1])

\* Rows and events are only ever added.
Grows ==
  /\ stored \subseteq stored' /\ \A c \in Clients : made[c] \subseteq made'[c]
  /\ \A c \in Clients : call'[c].kind = call[c].kind

LEMMA FiniteEvents ==
  ASSUME NEW E \in SUBSET Events
  PROVE  IsFiniteSet(E) /\ Cardinality(E) \in Nat
<1>1. IsFiniteSet(Events)
  BY TelemetryAssumption, FS_Interval DEF Events
<1>2. QED
  BY <1>1, FS_Subset, FS_CardinalityType

LEMMA TruthLasts ==
  ASSUME ClientTables, ClientTables', Grows, NEW c \in Clients
  PROVE  (Done(c) => Done(c)') /\ (Taken(c) => Taken(c)')
<1>1. Cardinality(made[c]) <= Cardinality(made'[c])
  <2>1. made[c] \subseteq made'[c] /\ made'[c] \in SUBSET Events
    BY DEF Grows, ClientTables
  <2>2. QED
    BY <2>1, FiniteEvents, FS_Subset
<1>2. Cardinality(made[c]) \in Nat /\ Cardinality(made'[c]) \in Nat
  BY FiniteEvents DEF ClientTables
<1>3. EventsOf[call[c].kind] \in Nat
  <2>1. call[c].kind \in {"check", "log", "change", "comment"}
    BY ClientAssumption DEF ClientTables
  <2>2. QED
    BY <2>1 DEF EventsOf
<1>4. \A kind : Exists(kind) => Exists(kind)'
  <2>1. ASSUME NEW s \in stored
        PROVE  s \in stored' /\ Kind(s)' = Kind(s)
    BY DEF Grows, Kind, ClientTables, Requests
  <2>2. QED
    BY <2>1 DEF Exists
<1>5. Stored(c) # {} => Stored(c)' # {}
  BY DEF Stored, Grows
<1>6. call'[c].kind = call[c].kind
  BY DEF Grows
<1>7. Done(c) => Done(c)'
  BY <1>1, <1>2, <1>3, <1>4, <1>5, <1>6 DEF Done
<1>8. QED
  BY <1>4, <1>6, <1>7 DEF Taken

LEMMA StepGrows == ClientTables /\ [ClientNext]_allVars => Grows
<1> SUFFICES ASSUME ClientTables, [ClientNext]_allVars
             PROVE  Grows
  OBVIOUS
<1>1. \A c \in Clients : call'[c].kind = call[c].kind
  <2>1. SUFFICES ASSUME NEW c \in Clients
                 PROVE  call'[c].kind = call[c].kind
    OBVIOUS
  <2>2. <<c, 1>> \in Requests
    BY ClientAssumption DEF Requests, Attempts
  <2>3. Kind(<<c, 1>>)' = Kind(<<c, 1>>)
    BY <2>2, KindsAreKept DEF KindsKept
  <2>4. QED
    BY <2>3 DEF Kind
<1>2. ASSUME NEW r \in Requests, Store(r)
      PROVE  stored \subseteq stored' /\ \A c \in Clients : made[c] \subseteq made'[c]
  BY <1>2 DEF Store, ClientTables
<1>3. stored \subseteq stored' /\ \A c \in Clients : made[c] \subseteq made'[c]
  BY <1>2 DEF ClientNext, Client, Call, Receive, Lose, Handler, LookUp, Refuse, Crash,
              clientVars, allVars
<1>4. QED
  BY <1>1, <1>3 DEF Grows

\* As many events are made as the handler enqueues.
LEMMA StoreMakes ==
  ASSUME ClientTables, ClientTables', NEW r \in Requests, Store(r)
  PROVE  Done(r[1])'
<1> DEFINE c == r[1]
           n == EventsOf[Kind(r)]
<1>1. c \in Clients /\ r \in stored' /\ call' = call
  BY DEF Requests, Store
<1>2. Stored(c)' # {} /\ (Kind(r) = "comment" => Exists("comment")')
  BY <1>1 DEF Stored, Exists, Kind
<1>3. Cardinality(made'[c]) \in Nat
  BY <1>1, FiniteEvents DEF ClientTables
<1>4. CASE n = 0
  BY <1>1, <1>2, <1>3, <1>4 DEF Done, Kind
<1>5. CASE n # 0
  <2>1. n \in Nat /\ n > 0
    BY <1>5, KindType
  <2>2. Enqueue(n)
    BY <1>5 DEF Store
  <2>3. Unused \in SUBSET Nat /\ Unused \in SUBSET Events /\ n <= Cardinality(Unused)
    BY <2>1, <2>2, FiniteEvents DEF Unused, Events, Enqueue
  <2>4. Cardinality(NextIds(n)) = n
    <3>1. IsFiniteSet(Unused)
      BY <2>3, FiniteEvents
    <3>2. Cardinality({e \in Unused : Cardinality({f \in Unused : f < e}) < n}) = n
      <4> HIDE DEF n
      <4>1. QED
        BY <2>1, <2>3, <3>1, FirstOnes
    <3>3. QED
      BY <3>2 DEF NextIds
  <2>5. NextIds(n) \subseteq made'[c]
    <3>1. NextIds(n) \subseteq Events
      BY DEF NextIds, Unused
    <3>2. QED
      BY <1>1, <2>1, <3>1 DEF Store, ClientTables
  <2>6. Cardinality(NextIds(n)) <= Cardinality(made'[c])
    <3>1. made'[c] \in SUBSET Events
      BY <1>1 DEF ClientTables
    <3>2. QED
      BY <2>5, <3>1, FiniteEvents, FS_Subset
  <2>7. QED
    BY <1>1, <1>2, <1>3, <2>4, <2>6 DEF Done, Kind
<1>6. QED
  BY <1>4, <1>5

LEMMA TruthStep ==
  TruthInv /\ ClientTables /\ ClientTables' /\ [ClientNext]_allVars => TruthInv'
<1> SUFFICES ASSUME TruthInv, ClientTables, ClientTables', [ClientNext]_allVars
             PROVE  TruthInv'
  OBVIOUS
<1>1. \A c \in Clients : (Done(c) => Done(c)') /\ (Taken(c) => Taken(c)')
  BY StepGrows, TruthLasts
<1>2. request \in [Requests -> RequestStates] /\ \A r \in Requests : r[1] \in Clients
  BY DEF ClientTables, Requests
<1>3. ASSUME \A c \in Clients : call'[c].told \in {call[c].told, "error", "nothing"},
             \A r \in Requests : request'[r] \in {request[r], "none", "sent", "checked", "gone", "5xx"}
      PROVE  TruthInv'
  BY <1>1, <1>2, <1>3 DEF TruthInv
<1>4. ASSUME NEW c \in Clients, NEW left \in [Requests -> RequestStates], TryAgain(c, left),
             \A r \in Requests : left[r] \in {request[r], "gone"}
      PROVE  TruthInv'
  <2>1. \A d \in Clients : call'[d].told \in {call[d].told, "error", "nothing"}
    BY <1>4 DEF TryAgain, ClientTables
  <2>2. \A r \in Requests : request'[r] \in {left[r], "sent"}
    BY <1>4 DEF TryAgain
  <2>3. QED
    BY <1>3, <1>4, <2>1, <2>2
<1>5. ASSUME NEW c \in Clients, Call(c)
      PROVE  TruthInv'
  BY <1>2, <1>4, <1>5 DEF Call
<1>6. ASSUME NEW c \in Clients, Receive(c)
      PROVE  TruthInv'
  <2> DEFINE r == <<c, call[c].attempt>>
  <2>1. CASE request[r] = "5xx"
    BY <1>2, <1>4, <1>6, <2>1 DEF Receive
  <2>2. CASE request[r] # "5xx"
    <3>1. r \in Requests
      <4>1. call[c].attempt \in Attempts
        BY <1>6 DEF Receive, Waits, ClientTables
      <4>2. QED
        BY <4>1 DEF Requests
    <3>2. request[r] \in {"200", "400"} /\ request' = request
      BY <1>6, <2>2 DEF Receive, Answers
    <3>3. /\ call'[c].told = IF request[r] = "200" THEN "ok" ELSE "exists"
          /\ \A d \in Clients \ {c} : call'[d].told = call[d].told
      BY <1>6, <2>2 DEF Receive, ClientTables
    <3>4. /\ request[r] = "200" => Done(c)
          /\ request[r] = "400" => Taken(c)
      BY <3>1 DEF TruthInv
    <3>5. QED
      BY <1>1, <1>2, <3>2, <3>3, <3>4 DEF TruthInv
  <2>3. QED
    BY <2>1, <2>2
<1>7. ASSUME NEW c \in Clients, Lose(c)
      PROVE  TruthInv'
  <2> DEFINE r == <<c, call[c].attempt>>
             left == IF request[r] \in Answers THEN [request EXCEPT ![r] = "gone"] ELSE request
  <2>1. left \in [Requests -> RequestStates] /\ TryAgain(c, left)
    BY <1>2, <1>7 DEF Lose, RequestStates
  <2>2. \A s \in Requests : left[s] \in {request[s], "gone"}
    BY <1>2
  <2> HIDE DEF left
  <2>3. QED
    BY <1>4, <2>1, <2>2
<1>8. ASSUME NEW r \in Requests, LookUp(r) \/ Store(r)
      PROVE  TruthInv'
  <2>1. call' = call /\ r[1] \in Clients
    BY <1>2, <1>8 DEF LookUp, Store
  <2>2. \A s \in Requests \ {r} : request'[s] = request[s]
    BY <1>2, <1>8 DEF LookUp, Store, Answer
  <2>3. (request'[r] = "200" => Done(r[1])') /\ (request'[r] = "400" => Taken(r[1])')
    <3>1. CASE Store(r)
      <4>1. request'[r] # "400"
        BY <1>2, <3>1 DEF Store, Answer
      <4>2. QED
        BY <3>1, <4>1, StoreMakes
    <3>2. CASE LookUp(r)
      <4>1. request'[r] \in {"200", "400"} => Kind(r) \in Keyed /\ Exists(Kind(r))
        BY <1>2, <3>2 DEF LookUp, Answer
      <4>2. request'[r] = "400" => Kind(r) \in Unique
        BY <1>2, <3>2, <4>1 DEF LookUp, Answer
      <4>3. request'[r] = "200" => Kind(r) = "comment"
        BY <1>2, <3>2, <4>1 DEF LookUp, Answer, Keyed, Unique
      <4>4. Cardinality(made[r[1]]) \in Nat
        BY <2>1, FiniteEvents DEF ClientTables
      <4>5. request'[r] = "200" => Done(r[1])
        BY <4>1, <4>3, <4>4, KindType DEF Done, Kind
      <4>6. request'[r] = "400" => Taken(r[1])
        BY <4>1, <4>2 DEF Taken, Kind
      <4>7. QED
        BY <1>1, <2>1, <4>5, <4>6
    <3>3. QED
      BY <1>8, <3>1, <3>2
  <2>4. QED
    BY <1>1, <1>2, <2>1, <2>2, <2>3 DEF TruthInv
<1>9. ASSUME NEW r \in Requests, Refuse(r)
      PROVE  TruthInv'
  BY <1>2, <1>3, <1>9 DEF Refuse, Answer
<1>10. CASE Crash
  BY <1>2, <1>3, <1>10 DEF Crash
<1>11. CASE UNCHANGED clientVars
  BY <1>3, <1>11 DEF clientVars
<1>12. QED
  BY <1>5, <1>6, <1>7, <1>8, <1>9, <1>10, <1>11 DEF ClientNext, Client, Handler, allVars

\* What a caller of the SDK is told is so, whatever was repeated, lost or refused
\* on the way (EchoClient._request and the handlers).
THEOREM CallersAreToldTheTruth == ClientSpec => []AnswersAreTrue
<1>1. ClientInit => KeptInv /\ TruthInv
  BY DEF ClientInit, KeptInv, TruthInv, StoredOf, CheckedOf
<1>2. ClientTypeInv /\ KeptInv /\ TruthInv /\ [ClientNext]_allVars => KeptInv' /\ TruthInv'
  BY KeptStep, TruthStep, ClientTablesStep DEF ClientTypeInv
<1>3. ClientTypeInv /\ KeptInv /\ TruthInv => AnswersAreTrue
  <2>1. SUFFICES ASSUME ClientTypeInv, KeptInv, TruthInv, NEW c \in Clients,
                        call[c].told = "exists"
                 PROVE  Cardinality(StoredOf(call[c].kind)) = 1
    BY DEF AnswersAreTrue, TruthInv, Done, StoredOf
  <2>2. call[c].kind \in Kinds \cap Keyed /\ call[c].kind \in Unique /\ Exists(call[c].kind)
    BY <2>1 DEF TruthInv, Taken, ClientTypeInv, ClientTables, Keyed, Unique
  <2>3. StoredOf(call[c].kind) # {}
    BY <2>2 DEF Exists, StoredOf
  <2>4. QED
    BY <2>1, <2>2, <2>3, AtMostOne DEF KeptInv
<1>4. QED
  BY <1>1, <1>2, <1>3, ClientTypeInductive, PTL DEF ClientSpec

-------------------------------------------------------------------------------
(* Repeats.                                                                 *)

\* The attempts of a call are made one after the other; one that was answered and
\* left a row is followed by none that adds another.
InOrder(c) ==
  /\ \A a \in Attempts :
       /\ a > call[c].attempt => request[<<c, a>>] = "none"
       /\ a < call[c].attempt => request[<<c, a>>] \notin {"200", "400"}
       /\ request[<<c, a>>] \in {"none", "sent", "checked"} => <<c, a>> \notin stored
       /\ <<c, a>> \in stored /\ request[<<c, a>>] = "5xx" => call[c].kind \in Keyed
       /\ <<c, a>> \in stored /\ Current(<<c, a>>) => request[<<c, a>>] \in Answers
  /\ \A a, b \in Attempts :
       a < b /\ request[<<c, a>>] \in Answers /\ <<c, a>> \in stored =>
         request[<<c, b>>] # "checked" /\ <<c, b>> \notin stored

RepeatInv == \A c \in Clients : InOrder(c)

LEMMA OrderUntouched ==
  ASSUME NEW c \in Clients, InOrder(c), call'[c] = call[c],
         \A a \in Attempts : /\ request'[<<c, a>>] = request[<<c, a>>]
                             /\ <<c, a>> \in stored' <=> <<c, a>> \in stored
  PROVE  InOrder(c)'
  BY DEF InOrder, Current, Waits

LEMMA OrderTryAgain ==
  ASSUME ClientTables, NEW c \in Clients, InOrder(c),
         NEW left \in [Requests -> RequestStates], TryAgain(c, left), stored' = stored,
         \A a \in Attempts : \/ left[<<c, a>>] = request[<<c, a>>]
                             \/ /\ request[<<c, a>>] \in Answers
                                /\ left[<<c, a>>] = "gone" /\ call[c].attempt = a,
         \A a \in Attempts : a = call[c].attempt => left[<<c, a>>] \notin {"200", "400"}
  PROVE  InOrder(c)'
<1> DEFINE n == call[c].attempt
<1>1. n \in Nat /\ n <= MaxAttempts
  BY ClientAssumption DEF ClientTables, Attempts
<1>2. \A a \in Attempts : a \in Nat /\ <<c, a>> \in Requests
  BY ClientAssumption DEF Attempts, Requests
<1>3. CASE n < MaxAttempts
  <2>1. /\ call'[c].attempt = n + 1 /\ call'[c].kind = call[c].kind
        /\ n + 1 \in Attempts
        /\ \A a \in Attempts : request'[<<c, a>>] =
                                 IF a = n + 1 THEN "sent" ELSE left[<<c, a>>]
    <3>1. n + 1 \in Attempts
      BY <1>1, <1>3, ClientAssumption DEF Attempts
    <3>2. request' = [left EXCEPT ![<<c, n + 1>>] = "sent"]
      BY <1>3 DEF TryAgain
    <3>3. call' = [call EXCEPT ![c] = [call[c] EXCEPT !.attempt = n + 1]]
      BY <1>3 DEF TryAgain
    <3>4. call'[c].attempt = n + 1 /\ call'[c].kind = call[c].kind
      BY <3>3 DEF ClientTables
    <3>5. \A a \in Attempts : request'[<<c, a>>] =
                                IF a = n + 1 THEN "sent" ELSE left[<<c, a>>]
      BY <1>2, <3>2
    <3>6. QED
      BY <3>1, <3>4, <3>5
  <2>2. <<c, n + 1>> \notin stored
    BY <1>1, <2>1 DEF InOrder
  <2>3. ASSUME NEW a \in Attempts
        PROVE  /\ a > n + 1 => request'[<<c, a>>] = "none"
               /\ a < n + 1 => request'[<<c, a>>] \notin {"200", "400"}
               /\ request'[<<c, a>>] \in {"none", "sent", "checked"} => <<c, a>> \notin stored
               /\ <<c, a>> \in stored /\ request'[<<c, a>>] = "5xx" => call[c].kind \in Keyed
               /\ request'[<<c, a>>] \in Answers => request'[<<c, a>>] = request[<<c, a>>]
               /\ request'[<<c, a>>] = "checked" => request[<<c, a>>] = "checked"
    <3>0. a \in Nat /\ n \in Nat
      BY <1>1, <1>2
    <3>1. a > n + 1 => a > n /\ a # n + 1
      <4> HIDE DEF n
      <4>1. QED
        BY <3>0
    <3>2. a < n + 1 => a = n \/ a < n
      <4> HIDE DEF n
      <4>1. QED
        BY <3>0
    <3>3. a > n => request[<<c, a>>] \notin Answers /\ n # a
      BY <1>1, <1>2 DEF InOrder, Answers
    <3>4. CASE a = n + 1
      BY <1>1, <2>1, <2>2, <3>4 DEF Answers
    <3>5. CASE a # n + 1
      <4>1. request'[<<c, a>>] = left[<<c, a>>]
        BY <2>1, <3>5
      <4>2. QED
        BY <3>1, <3>2, <3>3, <4>1 DEF InOrder, Answers
    <3>6. QED
      BY <3>4, <3>5
  <2>4. \A a \in Attempts : Current(<<c, a>>)' => a = n + 1
    BY <2>1 DEF Current
  <2>5. QED
    BY <2>1, <2>2, <2>3, <2>4 DEF InOrder
<1>4. CASE ~(n < MaxAttempts)
  <2>1. call' = [call EXCEPT ![c] = [call[c] EXCEPT !.told = "error"]] /\ request' = left
    BY <1>4 DEF TryAgain
  <2>2. call'[c].attempt = n /\ call'[c].kind = call[c].kind /\ call'[c].told = "error"
    BY <2>1 DEF ClientTables
  <2>3. \A a \in Attempts : ~Current(<<c, a>>)'
    BY <2>2 DEF Current, Waits
  <2>4. QED
    BY <1>1, <1>2, <2>1, <2>2, <2>3 DEF InOrder, Answers
<1>5. QED
  BY <1>3, <1>4

LEMMA OrderClient ==
  ASSUME ClientTables, RepeatInv, NEW c \in Clients, Client(c)
  PROVE  RepeatInv'
<1> DEFINE r == <<c, call[c].attempt>>
           left == IF request[r] \in Answers THEN [request EXCEPT ![r] = "gone"] ELSE request
<1>1. request \in [Requests -> RequestStates] /\ stored' = stored /\ InOrder(c)
  BY DEF ClientTables, Client, Call, Receive, Lose, RepeatInv
<1>2. \A a \in Attempts : a \in Nat /\ <<c, a>> \in Requests
  BY ClientAssumption DEF Attempts, Requests
<1>3. call[c].attempt \in Nat
  BY ClientAssumption DEF ClientTables, Attempts
<1>4. InOrder(c)'
  <2>1. CASE Call(c)
    <3>2. TryAgain(c, request) /\ call[c].attempt = 0
      BY <2>1 DEF Call
    <3>3. \A a \in Attempts : a # 0
      BY ClientAssumption DEF Attempts
    <3>4. QED
      BY <1>1, <3>2, <3>3, OrderTryAgain
  <2>2. CASE Receive(c) /\ request[r] = "5xx"
    BY <1>1, <2>2, OrderTryAgain DEF Receive
  <2>3. CASE Receive(c) /\ request[r] # "5xx"
    <3>1. request' = request /\ call'[c].attempt = call[c].attempt /\ call'[c].kind = call[c].kind
          /\ call'[c].told # "nothing"
      BY <2>3 DEF Receive, ClientTables
    <3>2. \A a \in Attempts : ~Current(<<c, a>>)'
      BY <3>1 DEF Current, Waits
    <3>3. QED
      BY <1>1, <3>1, <3>2 DEF InOrder
  <2>4. CASE Lose(c)
    <3>1. left \in [Requests -> RequestStates] /\ TryAgain(c, left)
      BY <1>1, <2>4 DEF Lose, RequestStates
    <3>2. \A a \in Attempts : \/ left[<<c, a>>] = request[<<c, a>>]
                              \/ /\ request[<<c, a>>] \in Answers
                                 /\ left[<<c, a>>] = "gone" /\ call[c].attempt = a
      BY <1>1, <1>2
    <3>3. \A a \in Attempts : a = call[c].attempt => left[<<c, a>>] \notin {"200", "400"}
      BY <1>1, <1>2 DEF Answers
    <3> HIDE DEF left
    <3>4. QED
      BY <1>1, <3>1, <3>2, <3>3, OrderTryAgain
  <2>5. QED
    BY <2>1, <2>2, <2>3, <2>4 DEF Client
<1>5. ASSUME NEW d \in Clients \ {c}
      PROVE  InOrder(d)'
  <2>1. call'[d] = call[d]
    BY DEF Client, Call, Receive, Lose, TryAgain, ClientTables
  <2>2. ASSUME NEW a \in Attempts
        PROVE  request'[<<d, a>>] = request[<<d, a>>]
    <3>1. ASSUME NEW l \in [Requests -> RequestStates], TryAgain(c, l),
                 l[<<d, a>>] = request[<<d, a>>]
          PROVE  request'[<<d, a>>] = request[<<d, a>>]
      BY <3>1 DEF TryAgain, Requests
    <3>2. left \in [Requests -> RequestStates] /\ left[<<d, a>>] = request[<<d, a>>]
      BY <1>1 DEF RequestStates, Requests
    <3>3. Lose(c) => TryAgain(c, left)
      BY DEF Lose
    <3> HIDE DEF left
    <3>4. QED
      BY <1>1, <3>1, <3>2, <3>3 DEF Client, Call, Receive
  <2>3. InOrder(d)
    BY DEF RepeatInv
  <2>4. QED
    BY <1>1, <2>1, <2>2, <2>3, OrderUntouched
<1>6. QED
  BY <1>4, <1>5 DEF RepeatInv

LEMMA OrderHandler ==
  ASSUME ClientTables, RepeatInv, NEW r \in Requests, Handler(r)
  PROVE  RepeatInv'
<1>1. PICK c \in Clients, n \in Attempts : r = <<c, n>>
  BY DEF Requests
<1>2. \A d \in Clients, a \in Attempts : a \in Nat /\ <<d, a>> \in Requests
  BY ClientAssumption DEF Attempts, Requests
<1>3. /\ call' = call /\ request \in [Requests -> RequestStates] /\ InOrder(c)
      /\ request[r] \in {"sent", "checked"}
      /\ stored' \in {stored, stored \cup {r}}
  BY DEF Handler, LookUp, Store, Refuse, ClientTables, RepeatInv
<1>4. \A s \in Requests \ {r} : request'[s] = request[s]
  BY <1>3 DEF Handler, LookUp, Store, Refuse, Answer
<1>5. call[c].attempt \in Nat /\ n \in Nat /\ n <= call[c].attempt
  BY <1>1, <1>2, <1>3, ClientAssumption DEF InOrder, ClientTables, Attempts
<1>6. r \notin stored
  BY <1>1, <1>3 DEF InOrder
<1>7. ASSUME NEW d \in Clients \ {c}
      PROVE  InOrder(d)'
  BY <1>1, <1>2, <1>3, <1>4, OrderUntouched DEF RepeatInv
<1>8. \A a \in Attempts : Current(<<c, a>>)' = Current(<<c, a>>)
  BY <1>3 DEF Current, Waits
<1>9. Current(r) <=> Waits(c) /\ call[c].attempt = n
  BY <1>1 DEF Current
<1>10. /\ request'[r] \in {"200", "400"} => Current(r)
       /\ request'[r] \in {"gone", "checked"} \cup Answers
       /\ r \in stored' => /\ request'[r] \notin {"none", "sent", "checked"}
                           /\ request'[r] = "5xx" => call[c].kind \in Keyed
                           /\ Current(r) => request'[r] \in Answers
                           /\ request[r] = "checked"
       /\ request'[r] = "checked" => request[r] = "sent" /\ ~(Kind(r) \in Keyed /\ Exists(Kind(r)))
  <2>1. CASE LookUp(r)
    BY <1>3, <1>6, <2>1 DEF LookUp, Answer, Answers
  <2>2. CASE Store(r)
    BY <1>1, <1>3, <1>6, <2>2 DEF Store, Answer, Answers, FailsAfterCommit, Kind
  <2>3. CASE Refuse(r)
    BY <1>3, <1>6, <2>3 DEF Refuse, Answer, Answers
  <2>4. QED
    BY <2>1, <2>2, <2>3 DEF Handler
<1>11. ASSUME NEW a \in Attempts
       PROVE  /\ a > call[c].attempt => request'[<<c, a>>] = "none"
              /\ a < call[c].attempt => request'[<<c, a>>] \notin {"200", "400"}
              /\ request'[<<c, a>>] \in {"none", "sent", "checked"} => <<c, a>> \notin stored'
              /\ <<c, a>> \in stored' /\ request'[<<c, a>>] = "5xx" => call[c].kind \in Keyed
              /\ <<c, a>> \in stored' /\ Current(<<c, a>>) => request'[<<c, a>>] \in Answers
  <2>1. CASE a = n
    BY <1>1, <1>5, <1>9, <1>10, <2>1
  <2>2. CASE a # n
    <3>1. <<c, a>> # r /\ <<c, a>> \in Requests
      BY <1>1, <1>2, <2>2
    <3>2. request'[<<c, a>>] = request[<<c, a>>] /\ (<<c, a>> \in stored' <=> <<c, a>> \in stored)
      BY <1>3, <1>4, <3>1
    <3>3. QED
      BY <1>3, <3>2 DEF InOrder
  <2>3. QED
    BY <2>1, <2>2
<1>12. ASSUME NEW a \in Attempts, NEW b \in Attempts, a < b,
              request'[<<c, a>>] \in Answers, <<c, a>> \in stored'
       PROVE  request'[<<c, b>>] # "checked" /\ <<c, b>> \notin stored'
  <2>1. CASE a = n
    <3>1. b > call[c].attempt
      <4>1. r \in stored' /\ request'[r] \in Answers
        BY <1>1, <1>12, <2>1
      <4>2. request[r] = "checked"
        BY <1>10, <4>1
      <4>3. Store(r)
        BY <1>6, <4>1 DEF Handler, LookUp, Refuse
      <4>4. Current(r)
        BY <1>3, <4>1, <4>3 DEF Store, Answer, Answers
      <4>5. QED
        BY <1>2, <1>5, <1>9, <1>12, <2>1, <4>4
    <3>2. request'[<<c, b>>] = "none"
      BY <1>11, <3>1
    <3>3. QED
      BY <1>11, <3>2
  <2>2. CASE a # n
    <3>1. <<c, a>> # r /\ <<c, a>> \in Requests /\ <<c, b>> \in Requests
      BY <1>1, <1>2, <2>2
    <3>2. request[<<c, a>>] \in Answers /\ <<c, a>> \in stored
      BY <1>3, <1>4, <1>12, <3>1
    <3>3. request[<<c, b>>] # "checked" /\ <<c, b>> \notin stored
      BY <1>3, <1>12, <3>2 DEF InOrder
    <3>4. CASE b # n
      BY <1>1, <1>3, <1>4, <3>1, <3>3, <3>4
    <3>5. CASE b = n
      <4>1. <<c, b>> = r
        BY <1>1, <3>5
      <4>2. r \notin stored'
        BY <1>10, <3>3, <4>1
      <4>3. a < call[c].attempt
        BY <1>2, <1>5, <1>12, <3>5
      <4>4. request[<<c, a>>] = "5xx"
        BY <1>3, <3>2, <4>3 DEF InOrder, Answers
      <4>5. Kind(r) \in Keyed
        BY <1>1, <1>3, <3>2, <4>4 DEF InOrder, Kind
      <4>6. Exists(Kind(r))
        BY <1>1, <3>2 DEF Exists, Kind
      <4>7. QED
        BY <1>10, <4>1, <4>2, <4>5, <4>6
    <3>6. QED
      BY <3>4, <3>5
  <2>3. QED
    BY <2>1, <2>2
<1>13. InOrder(c)'
  BY <1>3, <1>8, <1>11, <1>12 DEF InOrder
<1>14. QED
  BY <1>7, <1>13 DEF RepeatInv

LEMMA RepeatStep == RepeatInv /\ ClientTables /\ [ClientNext]_allVars => RepeatInv'
<1> SUFFICES ASSUME RepeatInv, ClientTables, [ClientNext]_allVars
             PROVE  RepeatInv'
  OBVIOUS
<1>1. CASE Crash
  <2>1. SUFFICES ASSUME NEW c \in Clients
                 PROVE  InOrder(c)'
    BY DEF RepeatInv
  <2>2. InOrder(c) /\ stored' = stored /\ call' = call
    BY <1>1 DEF RepeatInv, Crash
  <2>3. \A a \in Attempts : Current(<<c, a>>)' = Current(<<c, a>>)
    BY <2>2 DEF Current, Waits
  <2>4. \A a \in Attempts : \/ request'[<<c, a>>] = request[<<c, a>>]
                            \/ /\ request[<<c, a>>] \in {"sent", "checked"}
                               /\ request'[<<c, a>>] = "gone"
    BY <1>1 DEF Crash, Requests
  <2>5. QED
    BY <2>2, <2>3, <2>4 DEF InOrder, Answers
<1>2. CASE UNCHANGED clientVars
  BY <1>2, OrderUntouched DEF clientVars, RepeatInv
<1>3. QED
  BY <1>1, <1>2, OrderClient, OrderHandler DEF ClientNext, allVars

\* All stored attempts of a call were missed, but one.
LEMMA StoredAreMissed ==
  ASSUME ClientTables, RepeatInv, NEW c \in Clients
  PROVE  Cardinality(Stored(c)) <= 1 + Cardinality(Missed(c))
<1> DEFINE Rows == {a \in Attempts : <<c, a>> \in stored}
           Extra == Rows \ Missed(c)
<1>1. IsFiniteSet(Attempts)
  BY ClientAssumption, FS_Interval DEF Attempts
<1>2. Missed(c) \in SUBSET Attempts /\ Rows \in SUBSET Attempts /\ Extra \in SUBSET Attempts
  <2>1. 1..call[c].attempt \subseteq Attempts
    BY ClientAssumption DEF ClientTables, Attempts
  <2>2. QED
    BY <2>1 DEF Missed
<1>3. IsFiniteSet(Missed(c)) /\ IsFiniteSet(Rows) /\ IsFiniteSet(Extra)
  BY <1>1, <1>2, FS_Subset
<1>4. Cardinality(Stored(c)) = Cardinality(Rows)
  <2> DEFINE f == [a \in Rows |-> <<c, a>>]
  <2>1. Stored(c) = {<<c, a>> : a \in Rows}
    <3>1. ASSUME NEW r \in Stored(c)
          PROVE  \E a \in Rows : r = <<c, a>>
      <4>1. r \in Requests /\ r \in stored /\ r[1] = c
        BY DEF Stored, ClientTables
      <4>2. r = <<c, r[2]>> /\ r[2] \in Attempts
        BY <4>1 DEF Requests
      <4>3. QED
        BY <4>1, <4>2
    <3>2. \A a \in Rows : <<c, a>> \in Stored(c)
      BY DEF Stored
    <3>3. QED
      BY <3>1, <3>2
  <2>2. f \in Bijection(Rows, Stored(c))
    BY <2>1 DEF Bijection, Injection, Surjection, IsInjective
  <2>3. ExistsBijection(Rows, Stored(c))
    BY <2>2 DEF ExistsBijection
  <2>4. QED
    BY <1>3, <2>3, FS_Bijection
<1>5. \A a \in Extra : request[<<c, a>>] \in Answers
  <2>1. SUFFICES ASSUME NEW a \in Extra
                 PROVE  request[<<c, a>>] \in Answers
    OBVIOUS
  <2>2. InOrder(c) /\ <<c, a>> \in stored /\ a \in Attempts /\ a \notin Missed(c)
    BY DEF RepeatInv
  <2>3. a \in 1..call[c].attempt
    <3>1. a \in Nat /\ a >= 1 /\ call[c].attempt \in Nat
      BY <2>2, ClientAssumption DEF Attempts, ClientTables
    <3>2. ~(a > call[c].attempt)
      BY <2>2 DEF InOrder
    <3>3. QED
      BY <3>1, <3>2
  <2>4. QED
    BY <2>2, <2>3 DEF Missed, InOrder
<1>6. ASSUME NEW a \in Extra, NEW b \in Extra
      PROVE  a = b
  <2>1. a \in Attempts /\ b \in Attempts /\ a \in Nat /\ b \in Nat
    BY <1>2, ClientAssumption DEF Attempts
  <2>2. InOrder(c)
    BY DEF RepeatInv
  <2>3. ~(a < b) /\ ~(b < a)
    BY <1>5, <2>1, <2>2 DEF InOrder
  <2>4. QED
    BY <2>1, <2>3
<1>7. Cardinality(Extra) \in {0, 1}
  BY <1>6, AtMostOne
<1> HIDE DEF Extra
<1>8. Rows \subseteq Missed(c) \cup Extra
  BY DEF Extra
<1> HIDE DEF Rows
<1>9. IsFiniteSet(Missed(c) \cup Extra) /\
      Cardinality(Missed(c) \cup Extra) =
        Cardinality(Missed(c)) + Cardinality(Extra) - Cardinality(Missed(c) \cap Extra)
  BY <1>3, FS_Union
<1>10. Cardinality(Rows) <= Cardinality(Missed(c) \cup Extra)
  BY <1>8, <1>9, FS_Subset
<1>11. /\ Cardinality(Missed(c)) \in Nat /\ Cardinality(Rows) \in Nat
       /\ Cardinality(Missed(c) \cap Extra) \in Nat
  <2>1. IsFiniteSet(Missed(c) \cap Extra)
    BY <1>3, FS_Subset
  <2>2. QED
    BY <1>3, <2>1, FS_CardinalityType
<1>12. QED
  BY <1>4, <1>7, <1>9, <1>10, <1>11

\* A call does its work again only after an attempt that was given up without an
\* answer (EchoClient._request, runtime_check, create_comment).
THEOREM RepeatsHaveAReason == ClientSpec => []RepeatedForAReason
<1>1. ClientInit => RepeatInv
  BY ClientAssumption DEF ClientInit, RepeatInv, InOrder, Answers, Requests, Attempts
<1>2. ClientTypeInv /\ RepeatInv /\ [ClientNext]_allVars => RepeatInv'
  BY RepeatStep DEF ClientTypeInv
<1>3. ClientTypeInv /\ RepeatInv => RepeatedForAReason
  BY StoredAreMissed DEF ClientTypeInv, RepeatedForAReason
<1>4. QED
  BY <1>1, <1>2, <1>3, ClientTypeInductive, PTL DEF ClientSpec
=============================================================================
