------------------------------ MODULE RateProofs ------------------------------
(***************************************************************************)
(* Theorems about RateLimit for all values of its constants.               *)
(***************************************************************************)
EXTENDS RateLimit, NumberLemmas, SequenceTheorems, TLAPS

Times == 0..MaxTime
Reply == [pc : {"idle", "stamped", "429"}, tenant : Keys, now : Times, retry_after : Nat]
Request == [tenant : Tenants, at : Times]

\* No request has a tenant when it is limited, so there is one bucket in use.
Bucket == buckets[NoTenant]

TypeInv == TypeOK /\ \A t \in Threads : thread[t].pc = "stamped" => thread[t].tenant \in Tenants

\* Purging drops a prefix of a bucket, of timestamps that are too old.
LEMMA PurgedIs ==
  ASSUME NEW q \in Seq(Times), NEW cutoff \in Int
  PROVE  LET p == Purged(q, cutoff)
         IN /\ p \in Seq(Times) /\ Len(p) \in 0..Len(q)
            /\ \A i \in 1..Len(p) : p[i] = q[Len(q) - Len(p) + i]
            /\ \A i \in 1..(Len(q) - Len(p)) : q[i] < cutoff
            /\ Len(p) > 0 => p[1] >= cutoff
<1> DEFINE fresh == {i \in DOMAIN q : q[i] >= cutoff}
           p == Purged(q, cutoff)
<1>1. Len(q) \in Nat /\ DOMAIN q = 1..Len(q) /\ \A i \in 1..Len(q) : q[i] \in Times
  BY LenProperties, ElementOfSeq
<1>2. CASE fresh = {}
  <2>1. p = <<>>
    BY <1>2 DEF Purged
  <2>2. \A i \in 1..Len(q) : q[i] < cutoff
    BY <1>1, <1>2 DEF Times
  <2>3. QED
    BY <1>1, <2>1, <2>2
<1>3. CASE fresh # {}
  <2> DEFINE m == CHOOSE i \in fresh : \A j \in fresh : i <= j
  <2>1. m \in fresh /\ \A j \in fresh : m <= j
    <3>1. fresh \in SUBSET Nat
      BY <1>1
    <3>2. \E i \in fresh : \A j \in fresh : i <= j
      BY <1>3, <3>1, SmallestElement
    <3>3. QED
      BY <3>2
  <2>2. p = SubSeq(q, m, Len(q))
    BY <1>3 DEF Purged
  <2>3. m \in 1..Len(q) /\ q[m] >= cutoff
    BY <1>1, <2>1
  <2>4. \A i \in 1..(m - 1) : q[i] < cutoff
    BY <1>1, <2>1, <2>3 DEF Times
  <2> HIDE DEF m, p, fresh
  <2>5. /\ p \in Seq(Times) /\ Len(p) = Len(q) - m + 1
        /\ \A i \in 1..(Len(q) - m + 1) : p[i] = q[m + i - 1]
    BY <1>1, <2>2, <2>3, SubSeqProperties
  <2>6. QED
    BY <1>1, <2>3, <2>4, <2>5 DEF p
<1>4. QED
  BY <1>2, <1>3

\* What a request finds and does under the lock.
LEMMA CheckFinds ==
  ASSUME TypeInv, NEW t \in Threads, Check(t)
  PROVE  \E q \in Seq(Times) :
           /\ q = Purged(Bucket, thread[t].now - Window)
           /\ buckets' = [buckets EXCEPT ![NoTenant] =
                            IF Len(q) >= Cap THEN q ELSE Append(q, thread[t].now)]
           /\ accepted' = IF Len(q) >= Cap THEN accepted
                          ELSE Append(accepted, [tenant |-> thread[t].tenant,
                                                 at |-> thread[t].now])
           /\ thread' = [thread EXCEPT ![t] =
                IF Len(q) >= Cap
                  THEN [thread[t] EXCEPT !.pc = "429",
                                         !.retry_after = RetryAfter(q, thread[t].now)]
                  ELSE Idle]
           /\ clock' = clock /\ thread[t].pc = "stamped"
<1> DEFINE q == Purged(Bucket, thread[t].now - Window)
<1>1. Bucket \in Seq(Times) /\ thread[t].now - Window \in Int
  BY RateLimitAssumption DEF TypeInv, TypeOK, Bucket, Keys, Times
<1>2. q \in Seq(Times)
  BY <1>1, PurgedIs
<1>3. /\ thread[t].pc = "stamped" /\ clock' = clock
      /\ IF Len(q) >= Cap
           THEN /\ buckets' = [buckets EXCEPT ![NoTenant] = q]
                /\ thread' = [thread EXCEPT ![t].pc = "429",
                                            ![t].retry_after = RetryAfter(q, thread[t].now)]
                /\ UNCHANGED accepted
           ELSE /\ buckets' = [buckets EXCEPT ![NoTenant] = Append(q, thread[t].now)]
                /\ thread' = [thread EXCEPT ![t] = Idle]
                /\ accepted' = Append(accepted, [tenant |-> thread[t].tenant,
                                                 at |-> thread[t].now])
  BY DEF Check, bucket_key, Bucket
<1> HIDE DEF q
<1>4. CASE Len(q) >= Cap
  BY <1>2, <1>3, <1>4 DEF q
<1>5. CASE ~(Len(q) >= Cap)
  BY <1>2, <1>3, <1>5 DEF q
<1>6. QED
  BY <1>4, <1>5

LEMMA RetryIs ==
  ASSUME NEW x \in Times, NEW q, q[1] = x, NEW now \in Times
  PROVE  RetryAfter(q, now) \in Nat /\ RetryAfter(q, now) >= 1
<1>1. x + Window - now \in Int /\ Second \in Nat \ {0}
  BY RateLimitAssumption DEF Times
<1>2. (x + Window - now) \div Second \in Int
  BY <1>1
<1>3. QED
  BY <1>2 DEF RetryAfter, AtLeast

LEMMA TypeStep == TypeInv /\ [Next]_vars => TypeInv'
<1> SUFFICES ASSUME TypeInv, [Next]_vars
             PROVE  TypeInv'
  OBVIOUS
<1>1. /\ clock \in Times /\ buckets \in [Keys -> Seq(Times)]
      /\ thread \in [Threads -> Reply] /\ accepted \in Seq(Request)
      /\ \A t \in Threads : thread[t].pc = "stamped" => thread[t].tenant \in Tenants
  BY DEF TypeInv, TypeOK, Times, Reply, Request
<1>2. ASSUME clock' \in Times, buckets' \in [Keys -> Seq(Times)], accepted' \in Seq(Request),
             NEW t \in Threads, NEW s \in Reply, thread' = [thread EXCEPT ![t] = s],
             s.pc = "stamped" => s.tenant \in Tenants
      PROVE  TypeInv'
  <2>1. thread' \in [Threads -> Reply]
    BY <1>1, <1>2
  <2>2. \A u \in Threads : thread'[u].pc = "stamped" => thread'[u].tenant \in Tenants
    BY <1>1, <1>2
  <2>3. QED
    BY <1>2, <2>1, <2>2 DEF TypeInv, TypeOK, Times, Reply, Request
<1>3. ASSUME NEW t \in Threads, NEW tenant \in Tenants, Arrive(t, tenant)
      PROVE  TypeInv'
  <2> DEFINE s == [pc |-> "stamped", tenant |-> tenant, now |-> clock, retry_after |-> 0]
  <2>1. s \in Reply /\ s.tenant \in Tenants
    BY <1>1 DEF Reply, Keys
  <2>2. /\ thread' = [thread EXCEPT ![t] = s] /\ clock' = clock /\ buckets' = buckets
        /\ accepted' = accepted
    BY <1>3 DEF Arrive
  <2> HIDE DEF s
  <2>3. QED
    BY <1>1, <1>2, <2>1, <2>2
<1>4. ASSUME NEW t \in Threads, Check(t)
      PROVE  TypeInv'
  <2> DEFINE now == thread[t].now
  <2>1. PICK q \in Seq(Times) :
           /\ q = Purged(Bucket, now - Window)
           /\ buckets' = [buckets EXCEPT ![NoTenant] =
                            IF Len(q) >= Cap THEN q ELSE Append(q, now)]
           /\ accepted' = IF Len(q) >= Cap THEN accepted
                          ELSE Append(accepted, [tenant |-> thread[t].tenant, at |-> now])
           /\ thread' = [thread EXCEPT ![t] =
                IF Len(q) >= Cap
                  THEN [thread[t] EXCEPT !.pc = "429", !.retry_after = RetryAfter(q, now)]
                  ELSE Idle]
           /\ clock' = clock /\ thread[t].pc = "stamped"
    BY <1>4, CheckFinds
  <2>2. now \in Times /\ thread[t] \in Reply /\ thread[t].tenant \in Tenants
    BY <1>1, <2>1 DEF Reply
  <2>3. Append(q, now) \in Seq(Times)
    BY <2>1, <2>2, AppendProperties
  <2>4. buckets' \in [Keys -> Seq(Times)]
    BY <1>1, <2>1, <2>3
  <2>5. accepted' \in Seq(Request)
    <3>1. [tenant |-> thread[t].tenant, at |-> now] \in Request
      BY <2>2 DEF Request
    <3>2. QED
      BY <1>1, <2>1, <3>1, AppendProperties
  <2>6. CASE Len(q) >= Cap
    <3>1. Len(q) \in Nat /\ Len(q) >= 1
      BY <2>6, RateLimitAssumption
    <3>2. q[1] \in Times
      BY <3>1, ElementOfSeq
    <3>3. RetryAfter(q, now) \in Nat
      BY <2>2, <3>2, RetryIs
    <3> DEFINE s == [thread[t] EXCEPT !.pc = "429", !.retry_after = RetryAfter(q, now)]
    <3>4. s \in Reply /\ s.pc = "429"
      BY <2>2, <3>3 DEF Reply
    <3>5. thread' = [thread EXCEPT ![t] = s]
      BY <2>1, <2>6
    <3> HIDE DEF s
    <3>6. QED
      BY <1>1, <1>2, <2>1, <2>4, <2>5, <3>4, <3>5
  <2>7. CASE ~(Len(q) >= Cap)
    <3>1. Idle \in Reply /\ Idle.pc = "idle"
      BY RateLimitAssumption DEF Idle, Reply, Keys, Times
    <3>2. thread' = [thread EXCEPT ![t] = Idle]
      BY <2>1, <2>7
    <3>3. QED
      BY <1>1, <1>2, <2>1, <2>4, <2>5, <3>1, <3>2
  <2>8. QED
    BY <2>6, <2>7
<1>5. CASE Tick
  <2>1. clock' \in Times
    BY <1>1, <1>5, RateLimitAssumption DEF Tick, Times
  <2>2. QED
    BY <1>5, <2>1 DEF Tick, TypeInv, TypeOK, Times
<1>6. CASE UNCHANGED vars
  BY <1>6 DEF vars, TypeInv, TypeOK
<1>7. QED
  BY <1>3, <1>4, <1>5, <1>6 DEF Next

LEMMA TypeInit == Init => TypeInv
  BY RateLimitAssumption DEF Init, TypeInv, TypeOK, Idle, Keys

\* The buckets, the threads and the record of the accepted keep their types
\* (check_rate_limit).
THEOREM TypeCorrect == Spec => []TypeOK
<1>1. TypeInv => TypeOK
  BY DEF TypeInv
<1>2. QED
  BY <1>1, TypeInit, TypeStep, PTL DEF Spec

-------------------------------------------------------------------------------
(* The cap.                                                                 *)

\* q holds the stamps of the last of the accepted; those before were too old.
Recent(q) ==
  /\ Len(q) <= Len(accepted)
  /\ \A i \in 1..Len(q) : q[i] = accepted[Len(accepted) - Len(q) + i].at
  /\ \A i \in 1..(Len(accepted) - Len(q)) : accepted[i].at < clock - Window

\* A request is stamped at most MaxDelay before it gets the lock, so stamps are
\* out of order by at most that.
StampsOK ==
  /\ \A t \in Threads : thread[t].pc = "stamped" =>
       thread[t].now <= clock /\ clock - thread[t].now <= MaxDelay
  /\ \A i \in DOMAIN accepted : accepted[i].at <= clock
  /\ \A i, j \in DOMAIN accepted : i < j => accepted[i].at - MaxDelay <= accepted[j].at

LimitInv == Recent(Bucket) /\ Len(Bucket) <= Cap /\ StampsOK /\ WindowIsCapped

LEMMA AcceptedTypes ==
  ASSUME TypeInv
  PROVE  /\ accepted \in Seq(Request) /\ Len(accepted) \in Nat
         /\ DOMAIN accepted = 1..Len(accepted)
         /\ \A i \in 1..Len(accepted) : accepted[i] \in Request /\ accepted[i].at \in Times
<1>1. accepted \in Seq(Request)
  BY DEF TypeInv, TypeOK, Times, Request
<1>2. Len(accepted) \in Nat /\ DOMAIN accepted = 1..Len(accepted)
  BY <1>1, LenProperties
<1>3. \A i \in 1..Len(accepted) : accepted[i] \in Request
  BY <1>1, ElementOfSeq
<1>4. QED
  BY <1>1, <1>2, <1>3 DEF Request

\* What remains of the bucket is recent, and the first of it in the window.
LEMMA PurgedRecent ==
  ASSUME TypeInv, LimitInv, NEW t \in Threads, thread[t].pc = "stamped",
         NEW q \in Seq(Times), q = Purged(Bucket, thread[t].now - Window)
  PROVE  /\ Recent(q) /\ Len(q) \in 0..Len(Bucket)
         /\ Len(q) > 0 => q[1] >= thread[t].now - Window
<1> DEFINE now == thread[t].now
           B == Bucket
<1>1. /\ B \in Seq(Times) /\ now - Window \in Int /\ now \in Times
      /\ clock \in Times /\ Window \in Nat /\ accepted \in Seq(Request)
  BY RateLimitAssumption DEF TypeInv, TypeOK, Bucket, Keys, Times, Request
<1>2. /\ Len(q) \in 0..Len(B)
      /\ \A i \in 1..Len(q) : q[i] = B[Len(B) - Len(q) + i]
      /\ \A i \in 1..(Len(B) - Len(q)) : B[i] < now - Window
      /\ Len(q) > 0 => q[1] >= now - Window
  BY <1>1, PurgedIs
<1>3. /\ Len(B) \in Nat /\ Len(accepted) \in Nat /\ Len(q) \in Nat
      /\ \A i \in 1..Len(accepted) : accepted[i].at \in Times
  BY <1>1, AcceptedTypes, LenProperties
<1>4. now <= clock
  BY DEF LimitInv, StampsOK
<1>5. /\ Len(B) <= Len(accepted)
      /\ \A i \in 1..Len(B) : B[i] = accepted[Len(accepted) - Len(B) + i].at
      /\ \A i \in 1..(Len(accepted) - Len(B)) : accepted[i].at < clock - Window
  BY DEF LimitInv, Recent
<1> HIDE DEF B, now
<1>6. \A i \in 1..Len(q) : q[i] = accepted[Len(accepted) - Len(q) + i].at
  <2>1. SUFFICES ASSUME NEW i \in 1..Len(q)
                 PROVE  q[i] = accepted[Len(accepted) - Len(q) + i].at
    OBVIOUS
  <2>2. Len(B) - Len(q) + i \in 1..Len(B)
    BY <1>2, <1>3
  <2>3. Len(accepted) - Len(B) + (Len(B) - Len(q) + i) = Len(accepted) - Len(q) + i
    BY <1>2, <1>3
  <2>4. QED
    BY <1>2, <1>5, <2>2, <2>3
<1>7. \A i \in 1..(Len(accepted) - Len(q)) : accepted[i].at < clock - Window
  <2>1. SUFFICES ASSUME NEW i \in 1..(Len(accepted) - Len(q))
                 PROVE  accepted[i].at < clock - Window
    OBVIOUS
  <2>2. CASE i <= Len(accepted) - Len(B)
    BY <1>3, <1>5, <2>2
  <2>3. CASE i > Len(accepted) - Len(B)
    <3> DEFINE k == i - (Len(accepted) - Len(B))
    <3>1. k \in 1..(Len(B) - Len(q)) /\ k \in 1..Len(B) /\ Len(accepted) - Len(B) + k = i
      BY <1>2, <1>3, <1>5, <2>3
    <3> HIDE DEF k
    <3>2. accepted[i].at < now - Window
      BY <1>2, <1>5, <3>1
    <3>3. accepted[i].at \in Times
      BY <1>1, <1>2, <1>3, <2>1, LenProperties
    <3>4. QED
      BY <1>1, <1>4, <3>2, <3>3 DEF Times
  <2>4. QED
    BY <1>3, <2>2, <2>3
<1>8. QED
  BY <1>2, <1>3, <1>5, <1>6, <1>7 DEF Recent, B, now

\* The last n of the accepted, counted.
LEMMA LastOnes ==
  ASSUME NEW len \in Nat, NEW n \in 0..len
  PROVE  IsFiniteSet((len - n + 1)..len) /\ Cardinality((len - n + 1)..len) = n
<1>1. len - n + 1 \in Int /\ len \in Int /\ len - n + 1 <= len + 1
  OBVIOUS
<1>2. CASE n = 0
  <2>1. (len - n + 1)..len = {}
    BY <1>2
  <2>2. QED
    BY <1>2, <2>1, FS_EmptySet
<1>3. CASE n > 0
  BY <1>1, <1>3, FS_Interval
<1>4. QED
  BY <1>2, <1>3

\* A request let through leaves every window within the cap: what was dropped is
\* older than the window that ends a delay before its stamp.
LEMMA AcceptedFits ==
  ASSUME TypeInv, LimitInv, NEW t \in Threads, thread[t].pc = "stamped",
         NEW q \in Seq(Times), Recent(q), Len(q) < Cap,
         NEW request \in Request, request.at = thread[t].now,
         accepted' = Append(accepted, request)
  PROVE  WindowIsCapped'
<1>1. /\ accepted \in Seq(Request) /\ Len(accepted) \in Nat /\ Len(q) \in Nat
      /\ clock \in Nat /\ Window \in Nat /\ MaxDelay \in Nat /\ MaxDelay <= Window
      /\ Cap \in Nat
      /\ \A i \in 1..Len(accepted) : accepted[i].at \in Nat
      /\ DOMAIN accepted = 1..Len(accepted)
  <2>1. Len(q) \in Nat
    BY LenProperties
  <2>2. clock \in Nat /\ Times \subseteq Nat
    BY RateLimitAssumption DEF TypeInv, TypeOK, Times
  <2>3. \A i \in 1..Len(accepted) : accepted[i].at \in Nat
    BY <2>2, AcceptedTypes
  <2>4. /\ Window \in Nat /\ MaxDelay \in Nat /\ MaxDelay <= Window
        /\ Cap \in Nat
    BY RateLimitAssumption
  <2>5. QED
    BY <2>1, <2>2, <2>3, <2>4, AcceptedTypes
<1>2. /\ accepted' \in Seq(Request) /\ Len(accepted') = Len(accepted) + 1
      /\ \A i \in 1..Len(accepted) : accepted'[i] = accepted[i]
      /\ accepted'[Len(accepted) + 1] = request
      /\ DOMAIN accepted' = 1..(Len(accepted) + 1)
  BY <1>1, AppendProperties, LenProperties
<1>3. request.at \in Nat /\ request.at <= clock /\ clock - request.at <= MaxDelay
  BY DEF LimitInv, StampsOK, Request, Times
<1>4. SUFFICES ASSUME NEW from \in Times
               PROVE  Cardinality(Between(from, from + Window - MaxDelay, Tenants)') <= Cap
  BY DEF WindowIsCapped, Times
<1> DEFINE last == from + Window - MaxDelay
           S == Between(from, last, Tenants)
           T == Between(from, last, Tenants)'
<1>5. from \in Nat /\ last \in Nat
  BY <1>1 DEF Times
<1>6. /\ \A i \in S : i \in 1..Len(accepted)
      /\ \A i \in T : /\ i \in 1..(Len(accepted) + 1)
                      /\ from <= accepted'[i].at /\ accepted'[i].at <= last
      /\ \A i \in 1..Len(accepted) : i \in T => i \in S
  BY <1>1, <1>2 DEF Between
<1>7. IsFiniteSet(S) /\ Cardinality(S) <= Cap
  <2>1. S \subseteq 1..Len(accepted) /\ IsFiniteSet(1..Len(accepted))
    BY <1>1, <1>6, FS_Interval
  <2>2. QED
    BY <2>1, FS_Subset DEF LimitInv, WindowIsCapped, Times
<1>8. CASE Len(accepted) + 1 \in T
  <2>1. from <= request.at /\ request.at <= last
    BY <1>2, <1>6, <1>8
  <2>2. \A i \in T : i \in (Len(accepted) - Len(q) + 1)..(Len(accepted) + 1)
    <3>1. SUFFICES ASSUME NEW i \in T, i <= Len(accepted) - Len(q)
                   PROVE  FALSE
      BY <1>1, <1>6
    <3>2. i \in 1..(Len(accepted) - Len(q)) /\ i \in 1..Len(accepted)
      BY <1>1, <1>6, <3>1
    <3>3. accepted[i].at < clock - Window /\ accepted[i].at \in Nat
      BY <1>1, <3>2 DEF Recent
    <3>4. from <= accepted[i].at
      BY <1>2, <1>6, <3>1, <3>2
    <3>5. /\ clock \in Nat /\ Window \in Nat /\ MaxDelay \in Nat /\ from \in Nat
          /\ request.at \in Nat
      BY <1>1, <1>3, <1>5
    <3>6. /\ request.at <= from + Window - MaxDelay
          /\ clock - request.at <= MaxDelay
      BY <1>3, <2>1
    <3> HIDE DEF S, T, last
    <3>7. QED
      BY <3>3, <3>4, <3>5, <3>6
  <2> DEFINE N == Len(accepted) + 1
             n == Len(q) + 1
             I == (N - n + 1)..N
  <2>3. N \in Nat /\ n \in 0..N /\ n <= Cap
    BY <1>1 DEF Recent
  <2>4. IsFiniteSet(I) /\ Cardinality(I) = n
    BY <2>3, LastOnes
  <2>5. T \subseteq I
    BY <1>1, <2>2
  <2> HIDE DEF I, N, T, n
  <2>6. Cardinality(T) <= n
    BY <2>4, <2>5, FS_Subset
  <2>7. IsFiniteSet(T)
    BY <2>4, <2>5, FS_Subset
  <2>8. Cardinality(T) \in Nat
    BY <2>7, FS_CardinalityType
  <2>9. QED
    BY <1>1, <2>3, <2>6, <2>8 DEF T
<1>9. CASE Len(accepted) + 1 \notin T
  <2>1. T \subseteq S
    BY <1>1, <1>6, <1>9
  <2> HIDE DEF S, T
  <2>2. IsFiniteSet(T) /\ Cardinality(T) <= Cardinality(S)
    BY <1>7, <2>1, FS_Subset
  <2>3. Cardinality(T) \in Nat /\ Cardinality(S) \in Nat
    BY <1>7, <2>2, FS_CardinalityType
  <2>4. QED
    BY <1>1, <1>7, <2>2, <2>3 DEF T
<1>10. QED
  BY <1>8, <1>9

\* A step that lets nobody through keeps what is recent, as time goes on.
LEMMA RecentLater ==
  ASSUME TypeInv, NEW q \in Seq(Times), Recent(q), accepted' = accepted,
         clock' \in Nat, clock <= clock'
  PROVE  /\ Len(q) <= Len(accepted')
         /\ \A i \in 1..Len(q) : q[i] = accepted'[Len(accepted') - Len(q) + i].at
         /\ \A i \in 1..(Len(accepted') - Len(q)) : accepted'[i].at < clock' - Window
<1>1. Len(q) \in Nat /\ clock \in Nat /\ Window \in Nat
  BY LenProperties, RateLimitAssumption DEF TypeInv, TypeOK
<1>2. ASSUME NEW i \in 1..(Len(accepted) - Len(q))
      PROVE  accepted[i].at < clock' - Window
  <2>1. accepted[i].at < clock - Window
    BY DEF Recent
  <2>2. accepted[i].at \in Nat
    BY <1>1, AcceptedTypes DEF Times
  <2>3. QED
    BY <1>1, <2>1, <2>2
<1>3. QED
  BY <1>2 DEF Recent

LEMMA LimitCheck ==
  ASSUME TypeInv, LimitInv, NEW t \in Threads, Check(t)
  PROVE  LimitInv'
<1> DEFINE now == thread[t].now
           request == [tenant |-> thread[t].tenant, at |-> now]
<1>1. PICK q \in Seq(Times) :
        /\ q = Purged(Bucket, now - Window)
        /\ buckets' = [buckets EXCEPT ![NoTenant] = IF Len(q) >= Cap THEN q ELSE Append(q, now)]
        /\ accepted' = IF Len(q) >= Cap THEN accepted ELSE Append(accepted, request)
        /\ thread' = [thread EXCEPT ![t] =
             IF Len(q) >= Cap
               THEN [thread[t] EXCEPT !.pc = "429", !.retry_after = RetryAfter(q, now)]
               ELSE Idle]
        /\ clock' = clock /\ thread[t].pc = "stamped"
  BY CheckFinds
<1>2. /\ Recent(q) /\ Len(q) \in 0..Len(Bucket) /\ Len(q) \in Nat /\ Len(Bucket) <= Cap
  <2>1. Recent(q) /\ Len(q) \in 0..Len(Bucket)
    BY <1>1, PurgedRecent
  <2>2. QED
    BY <1>1, <2>1, LenProperties DEF LimitInv
<1>3. /\ now \in Times /\ request \in Request /\ clock \in Nat /\ MaxDelay \in Nat
      /\ Window \in Nat /\ Cap \in Nat /\ Times \subseteq Nat
      /\ thread \in [Threads -> Reply] /\ buckets \in [Keys -> Seq(Times)]
      /\ Bucket \in Seq(Times)
  BY <1>1, RateLimitAssumption DEF TypeInv, TypeOK, Times, Request, Reply, Bucket, Keys
<1>4. Bucket' = IF Len(q) >= Cap THEN q ELSE Append(q, now)
  BY <1>1, <1>3 DEF Bucket, Keys
<1>5. /\ now <= clock /\ clock - now <= MaxDelay
      /\ \A i \in DOMAIN accepted : accepted[i].at <= clock
      /\ \A i, j \in DOMAIN accepted : i < j => accepted[i].at - MaxDelay <= accepted[j].at
      /\ \A u \in Threads : thread[u].pc = "stamped" =>
           thread[u].now <= clock /\ clock - thread[u].now <= MaxDelay
  BY <1>1 DEF LimitInv, StampsOK
<1>6. \A u \in Threads : thread'[u].pc = "stamped" => thread'[u] = thread[u]
  <2>1. thread'[t].pc # "stamped"
    <3>1. Idle.pc = "idle"
      BY DEF Idle
    <3>2. thread[t] \in Reply
      BY <1>3
    <3>3. [thread[t] EXCEPT !.pc = "429", !.retry_after = RetryAfter(q, now)].pc = "429"
      BY <3>2 DEF Reply
    <3>4. QED
      BY <1>1, <1>3, <3>1, <3>3
  <2>2. \A u \in Threads \ {t} : thread'[u] = thread[u]
    BY <1>1, <1>3
  <2>3. QED
    BY <2>1, <2>2
<1>7. CASE Len(q) >= Cap
  <2>1. accepted' = accepted /\ Bucket' = q /\ clock' = clock
    BY <1>1, <1>4, <1>7
  <2>2. Recent(Bucket)'
    BY <1>2, <1>3, <2>1, RecentLater DEF Recent
  <2>3. StampsOK'
    BY <1>5, <1>6, <2>1 DEF StampsOK
  <2>4. WindowIsCapped'
    BY <2>1 DEF LimitInv, WindowIsCapped, Between
  <2>5. Len(Bucket') <= Cap
    BY <1>2, <1>3, <2>1, LenProperties
  <2>6. QED
    BY <2>2, <2>3, <2>4, <2>5 DEF LimitInv
<1>8. CASE ~(Len(q) >= Cap)
  <2>1. accepted' = Append(accepted, request) /\ Bucket' = Append(q, now) /\ clock' = clock
    BY <1>1, <1>4, <1>8
  <2>2. /\ Len(accepted) \in Nat /\ DOMAIN accepted = 1..Len(accepted)
        /\ \A i \in 1..Len(accepted) : accepted[i].at \in Nat
    BY <1>3, AcceptedTypes
  <2> DEFINE N == Len(accepted)
             n == Len(q)
  <2>3. /\ Len(accepted') = N + 1 /\ DOMAIN accepted' = 1..(N + 1)
        /\ \A i \in 1..N : accepted'[i] = accepted[i]
        /\ accepted'[N + 1] = request
    BY <1>3, <2>1, <2>2, AcceptedTypes, AppendProperties, LenProperties
  <2>4. /\ Len(Bucket') = n + 1
        /\ \A i \in 1..n : Bucket'[i] = q[i]
        /\ Bucket'[n + 1] = now
    BY <1>3, <2>1, AppendProperties
  <2>5. /\ n <= N /\ n < Cap
        /\ \A i \in 1..n : q[i] = accepted[N - n + i].at
        /\ \A i \in 1..(N - n) : accepted[i].at < clock - Window
    <3>1. /\ n <= N
          /\ \A i \in 1..n : q[i] = accepted[N - n + i].at
          /\ \A i \in 1..(N - n) : accepted[i].at < clock - Window
      BY <1>2 DEF Recent
    <3>2. n < Cap
      BY <1>2, <1>3, <1>8
    <3>3. QED
      BY <3>1, <3>2
  <2>6. Recent(Bucket)'
    <3>1. Len(accepted') - Len(Bucket') = N - n
      BY <1>2, <2>2, <2>3, <2>4
    <3>2. ASSUME NEW i \in 1..(n + 1)
          PROVE  Bucket'[i] = accepted'[N - n + i].at
      <4>1. CASE i = n + 1
        BY <1>2, <2>2, <2>3, <2>4, <4>1
      <4>2. CASE i # n + 1
        <5>1. i \in 1..n /\ N - n + i \in 1..N
          BY <1>2, <2>2, <2>5, <4>2
        <5>2. QED
          BY <2>3, <2>4, <2>5, <5>1
      <4>3. QED
        BY <4>1, <4>2
    <3>3. ASSUME NEW i \in 1..(N - n)
          PROVE  accepted'[i].at < clock' - Window
      <4>1. i \in 1..N
        BY <1>2, <2>2
      <4>2. QED
        BY <2>1, <2>3, <2>5, <4>1
    <3>4. Len(Bucket') <= Len(accepted')
      BY <1>2, <2>2, <2>3, <2>4, <2>5
    <3> HIDE DEF N, n
    <3>5. QED
      BY <2>4, <3>1, <3>2, <3>3, <3>4 DEF Recent, n
  <2>7. StampsOK'
    <3>1. \A i \in 1..(N + 1) : accepted'[i].at <= clock
      <4>1. \A i \in 1..N : accepted'[i].at <= clock
        BY <1>5, <2>2, <2>3
      <4>2. accepted'[N + 1].at <= clock
        BY <1>5, <2>3
      <4>3. \A i \in 1..(N + 1) : i \in 1..N \/ i = N + 1
        BY <2>2
      <4> HIDE DEF N
      <4>4. QED
        BY <4>1, <4>2, <4>3
    <3>2. ASSUME NEW i \in 1..(N + 1), NEW j \in 1..(N + 1), i < j
          PROVE  accepted'[i].at - MaxDelay <= accepted'[j].at
      <4>1. CASE j = N + 1
        <5>1. i \in 1..N /\ accepted'[i].at <= clock /\ accepted'[i].at \in Nat
          BY <2>2, <2>3, <3>1, <3>2, <4>1
        <5>2. accepted'[j].at = now
          BY <2>3, <4>1
        <5> HIDE DEF now
        <5>3. QED
          BY <1>3, <1>5, <5>1, <5>2
      <4>2. CASE j # N + 1
        <5>1. i \in 1..N /\ j \in 1..N
          BY <2>2, <3>2, <4>2
        <5>2. accepted[i].at - MaxDelay <= accepted[j].at
          BY <1>5, <2>2, <3>2, <5>1
        <5>3. accepted'[i] = accepted[i] /\ accepted'[j] = accepted[j]
          BY <2>3, <5>1
        <5>4. QED
          BY <5>2, <5>3
      <4>3. QED
        BY <4>1, <4>2
    <3>3. QED
      BY <1>5, <1>6, <2>1, <2>3, <3>1, <3>2 DEF StampsOK
  <2>8. WindowIsCapped'
    BY <1>1, <1>2, <1>3, <2>1, <2>5, AcceptedFits
  <2>9. Len(Bucket') <= Cap
    BY <1>2, <1>3, <2>4, <2>5
  <2>10. QED
    BY <2>6, <2>7, <2>8, <2>9 DEF LimitInv
<1>9. QED
  BY <1>7, <1>8

LEMMA LimitStep == TypeInv /\ LimitInv /\ [Next]_vars => LimitInv'
<1> SUFFICES ASSUME TypeInv, LimitInv, [Next]_vars
             PROVE  LimitInv'
  OBVIOUS
<1>1. /\ clock \in Nat /\ MaxDelay \in Nat /\ thread \in [Threads -> Reply]
      /\ \A t \in Threads : thread[t].now \in Nat
      /\ Bucket \in Seq(Times)
  BY RateLimitAssumption DEF TypeInv, TypeOK, Reply, Times, Bucket, Keys
<1>2. ASSUME clock' \in Nat, clock <= clock', UNCHANGED <<buckets, accepted>>,
             \A t \in Threads : thread'[t].pc = "stamped" =>
               thread'[t].now <= clock' /\ clock' - thread'[t].now <= MaxDelay
      PROVE  LimitInv'
  <2>1. Bucket' = Bucket
    BY <1>2 DEF Bucket
  <2>2. Recent(Bucket)'
    BY <1>1, <1>2, <2>1, RecentLater DEF LimitInv, Recent
  <2>3. WindowIsCapped'
    BY <1>2 DEF LimitInv, WindowIsCapped, Between
  <2>4. StampsOK'
    <3>1. \A i \in DOMAIN accepted : accepted[i].at <= clock'
      BY <1>1, <1>2, AcceptedTypes DEF LimitInv, StampsOK, Times
    <3>2. QED
      BY <1>2, <3>1 DEF LimitInv, StampsOK
  <2>5. QED
    BY <2>1, <2>2, <2>3, <2>4 DEF LimitInv
<1>3. ASSUME NEW t \in Threads, NEW tenant \in Tenants, Arrive(t, tenant)
      PROVE  LimitInv'
  <2>1. \A u \in Threads \ {t} : thread'[u] = thread[u]
    BY <1>1, <1>3 DEF Arrive
  <2>2. thread'[t].now = clock
    BY <1>1, <1>3 DEF Arrive
  <2>3. \A u \in Threads : thread'[u].pc = "stamped" =>
          thread'[u].now <= clock /\ clock - thread'[u].now <= MaxDelay
    BY <1>1, <2>1, <2>2 DEF LimitInv, StampsOK
  <2>4. QED
    BY <1>1, <1>2, <1>3, <2>3 DEF Arrive
<1>4. CASE Tick
  <2>1. \A u \in Threads : thread[u].pc = "stamped" =>
          thread[u].now <= clock + 1 /\ clock + 1 - thread[u].now <= MaxDelay
    BY <1>1, <1>4 DEF Tick, LimitInv, StampsOK
  <2>2. QED
    BY <1>1, <1>2, <1>4, <2>1 DEF Tick
<1>5. CASE UNCHANGED vars
  BY <1>1, <1>2, <1>5 DEF vars, LimitInv, StampsOK
<1>6. QED
  BY <1>3, <1>4, <1>5, LimitCheck DEF Next

LEMMA LimitInit == Init => LimitInv
<1>1. SUFFICES ASSUME Init
               PROVE  LimitInv
  OBVIOUS
<1>2. accepted = <<>> /\ Bucket = <<>> /\ \A t \in Threads : thread[t].pc = "idle"
  BY <1>1 DEF Init, Bucket, Keys, Idle
<1>3. WindowIsCapped
  <2>1. \A from, last : Between(from, last, Tenants) = {}
    BY <1>2 DEF Between
  <2>2. QED
    BY <2>1, FS_EmptySet, RateLimitAssumption DEF WindowIsCapped
<1>4. QED
  BY <1>2, <1>3, RateLimitAssumption DEF LimitInv, Recent, StampsOK

\* No window lets more than Cap requests through but for the delay of slow
\* threads (check_rate_limit).
THEOREM CapHolds == Spec => []WindowIsCapped
<1>1. LimitInv => WindowIsCapped
  BY DEF LimitInv
<1>2. QED
  BY <1>1, TypeInit, TypeStep, LimitInit, LimitStep, PTL DEF Spec

-------------------------------------------------------------------------------
(* Refusals.                                                                *)

\* A refusal finds a full bucket of recent requests, and says how long the
\* oldest of them has left.
LEMMA RejectFinds ==
  ASSUME TypeInv, LimitInv, [Next]_vars, NEW t \in Threads, Rejects(t)
  PROVE  \E q \in Seq(Times) :
           /\ Recent(q) /\ Len(q) = Cap /\ q[1] >= thread[t].now - Window
           /\ buckets'[NoTenant] = q /\ accepted' = accepted
           /\ thread'[t].retry_after = RetryAfter(q, thread[t].now)
<1>1. /\ thread \in [Threads -> Reply] /\ buckets \in [Keys -> Seq(Times)]
      /\ NoTenant \in Keys /\ Cap \in Nat \ {0}
      /\ thread[t].pc = "stamped" /\ thread'[t].pc = "429"
  BY RateLimitAssumption DEF TypeInv, TypeOK, Reply, Times, Keys, Rejects
<1>2. ASSUME NEW u \in Threads, NEW tenant \in Tenants, Arrive(u, tenant)
      PROVE  FALSE
  BY <1>1, <1>2 DEF Arrive
<1>3. ASSUME NEW u \in Threads, Check(u), u # t
      PROVE  FALSE
  BY <1>1, <1>3, CheckFinds
<1>4. Check(t)
  BY <1>1, <1>2, <1>3 DEF Next, Tick, vars
<1>5. PICK q \in Seq(Times) :
        /\ q = Purged(Bucket, thread[t].now - Window)
        /\ buckets' = [buckets EXCEPT ![NoTenant] =
                         IF Len(q) >= Cap THEN q ELSE Append(q, thread[t].now)]
        /\ accepted' = IF Len(q) >= Cap THEN accepted
                       ELSE Append(accepted, [tenant |-> thread[t].tenant,
                                              at |-> thread[t].now])
        /\ thread' = [thread EXCEPT ![t] =
             IF Len(q) >= Cap
               THEN [thread[t] EXCEPT !.pc = "429",
                                      !.retry_after = RetryAfter(q, thread[t].now)]
               ELSE Idle]
  BY <1>4, CheckFinds
<1>6. Len(q) >= Cap
  <2>1. Idle.pc = "idle"
    BY DEF Idle
  <2>2. QED
    BY <1>1, <1>5, <2>1
<1>7. Recent(q) /\ Len(q) \in 0..Len(Bucket) /\ (Len(q) > 0 => q[1] >= thread[t].now - Window)
  BY <1>1, <1>5, PurgedRecent
<1>8. Len(q) = Cap
  <2>1. Len(Bucket) \in Nat /\ Len(Bucket) <= Cap
    BY <1>1, LenProperties DEF LimitInv, Bucket
  <2>2. QED
    BY <1>1, <1>6, <1>7, <2>1
<1>9. thread'[t].retry_after = RetryAfter(q, thread[t].now)
  <2>1. thread[t] \in Reply
    BY <1>1
  <2>2. thread'[t] = [thread[t] EXCEPT !.pc = "429",
                                       !.retry_after = RetryAfter(q, thread[t].now)]
    BY <1>1, <1>5, <1>6
  <2>3. QED
    BY <2>1, <2>2 DEF Reply
<1>10. QED
  BY <1>1, <1>5, <1>6, <1>7, <1>8, <1>9

\* The requests in a full bucket were let through in the window before the
\* refused one, but for a delay.
LEMMA FullWindow ==
  ASSUME TypeInv, LimitInv, NEW now \in Times, NEW q \in Seq(Times),
         Recent(q), Len(q) = Cap, q[1] >= now - Window
  PROVE  Cardinality(Between(now - Window - MaxDelay, clock, Tenants)) >= Cap
<1> DEFINE N == Len(accepted)
           first == now - Window - MaxDelay
           B == Between(first, clock, Tenants)
           I == (N - Cap + 1)..N
<1>1. /\ N \in Nat /\ Cap \in Nat \ {0} /\ Cap \in 0..N /\ DOMAIN accepted = 1..N
      /\ now \in Nat /\ Window \in Nat /\ MaxDelay \in Nat /\ clock \in Nat
      /\ \A i \in 1..N : accepted[i] \in Request /\ accepted[i].at \in Nat
  <2>1. Times \subseteq Nat
    BY RateLimitAssumption DEF Times
  <2>2. clock \in Times
    BY DEF TypeInv, TypeOK, Times
  <2>3. QED
    <3>1. \A i \in 1..N : accepted[i] \in Request /\ accepted[i].at \in Nat
      BY <2>1, AcceptedTypes
    <3>2. Cap \in Nat \ {0} /\ Window \in Nat /\ MaxDelay \in Nat
      BY RateLimitAssumption
    <3>3. N \in Nat /\ DOMAIN accepted = 1..N
      BY AcceptedTypes
    <3>4. Cap \in 0..N
      BY <3>2, <3>3 DEF Recent
    <3>5. QED
      BY <2>1, <2>2, <3>1, <3>2, <3>3, <3>4
<1>2. IsFiniteSet(I) /\ Cardinality(I) = Cap
  BY <1>1, LastOnes
<1>3. \A i, j \in 1..N : i < j => accepted[i].at - MaxDelay <= accepted[j].at
  BY <1>1 DEF LimitInv, StampsOK
<1>4. accepted[N - Cap + 1].at >= now - Window
  <2>1. 1 \in 1..Len(q) /\ Len(accepted) - Len(q) + 1 = N - Cap + 1
    BY <1>1
  <2> HIDE DEF N
  <2>2. q[1] = accepted[N - Cap + 1].at
    BY <2>1 DEF Recent
  <2>3. QED
    BY <2>2
<1>5. ASSUME NEW i \in I
      PROVE  i \in B
  <2>1. i \in 1..N /\ N - Cap + 1 \in 1..N /\ i >= N - Cap + 1
    BY <1>1
  <2>2. accepted[i].at <= clock /\ accepted[i].tenant \in Tenants
    BY <1>1, <2>1 DEF LimitInv, StampsOK, Request
  <2>3. first <= accepted[i].at
    <3>1. accepted[i].at \in Nat /\ accepted[N - Cap + 1].at \in Nat
      BY <1>1, <2>1
    <3>2. CASE i = N - Cap + 1
      <4> HIDE DEF N
      <4>1. QED
        BY <1>1, <1>4, <3>1, <3>2
    <3>3. CASE i # N - Cap + 1
      <4>1. N - Cap + 1 < i
        <5>1. N - Cap + 1 \in Int /\ i \in Int
          BY <1>1, <2>1
        <5> HIDE DEF N
        <5>2. QED
          BY <2>1, <3>3, <5>1
      <4>2. accepted[N - Cap + 1].at - MaxDelay <= accepted[i].at
        BY <1>3, <2>1, <4>1
      <4> HIDE DEF N
      <4>3. QED
        BY <1>1, <1>4, <3>1, <4>2
    <3>4. QED
      BY <3>2, <3>3
  <2>4. QED
    BY <1>1, <2>1, <2>2, <2>3 DEF Between
<1>6. IsFiniteSet(B)
  <2>1. B \subseteq 1..N
    BY <1>1 DEF Between
  <2>2. IsFiniteSet(1..N)
    BY <1>1, FS_Interval
  <2> HIDE DEF B, N
  <2>3. QED
    BY <2>1, <2>2, FS_Subset
<1> HIDE DEF B, I
<1>7. Cardinality(I) <= Cardinality(B)
  BY <1>5, <1>6, FS_Subset
<1>8. QED
  BY <1>2, <1>7 DEF B

\* A request is refused only if Cap requests were let through in its window,
\* stretched by the delay of a slow thread (check_rate_limit).
THEOREM RefusalsHaveAReason == Spec => RefusedOnlyWhenFull
<1>1. TypeInv /\ LimitInv /\ [Next]_vars =>
        \A t \in Threads : Rejects(t) =>
          Cardinality(Between(thread[t].now - Window - MaxDelay, clock, Tenants)) >= Cap
  <2>1. SUFFICES ASSUME TypeInv, LimitInv, [Next]_vars, NEW t \in Threads, Rejects(t)
                 PROVE  Cardinality(Between(thread[t].now - Window - MaxDelay, clock, Tenants))
                          >= Cap
    OBVIOUS
  <2>2. thread[t].now \in Times
    <3>1. thread \in [Threads -> Reply]
      BY <2>1 DEF TypeInv, TypeOK, Reply, Times
    <3>2. QED
      BY <3>1 DEF Reply
  <2>3. QED
    BY <2>1, <2>2, RejectFinds, FullWindow
<1>2. QED
  BY <1>1, TypeInit, TypeStep, LimitInit, LimitStep, PTL DEF Spec, RefusedOnlyWhenFull

\* x \div n is rounded down by less than one.
LEMMA RoundedDown ==
  ASSUME NEW x \in Int, NEW n \in Nat \ {0}
  PROVE  x \div n \in Int /\ (x \div n + 1) * n > x
<1>1. x \div n \in Int /\ n > 0 /\ n \in Nat
  OBVIOUS
<1>2. n * (x \div n + 1) > x
  BY <1>1
<1>3. n * (x \div n + 1) = (x \div n + 1) * n
  BY <1>1
<1>4. QED
  BY <1>1, <1>2, <1>3

\* A second after the wait a client is told, the oldest stamp is dropped.
LEMMA OldestDrops ==
  ASSUME NEW now \in Times, NEW q \in Seq(Times), Len(q) = Cap
  PROVE  LET r == RetryAfter(q, now)
             wait == (r + 1) * Second
         IN r >= 1 /\ Len(Purged(q, now + wait - Window)) < Cap
<1> DEFINE r == RetryAfter(q, now)
           left == q[1] + Window - now
           cutoff == now + (r + 1) * Second - Window
           p == Purged(q, cutoff)
<1>1. /\ Cap \in Nat \ {0} /\ Second \in Nat \ {0} /\ Window \in Nat /\ now \in Nat
      /\ q[1] \in Times /\ q[1] \in Nat
  <2>1. Cap \in Nat \ {0} /\ Second \in Nat \ {0} /\ Window \in Nat /\ Times \subseteq Nat
    BY RateLimitAssumption DEF Times
  <2>2. 1 \in 1..Len(q)
    BY <2>1
  <2>3. QED
    BY <2>1, <2>2, ElementOfSeq
<1>2. r \in Nat /\ r >= 1
  BY <1>1, RetryIs
<1>3. left \in Int /\ r >= left \div Second
  <2>1. left \in Int
    BY <1>1
  <2>2. left \div Second \in Int
    BY <1>1, <2>1, RoundedDown
  <2>3. r = AtLeast(1, left \div Second)
    BY DEF RetryAfter
  <2> HIDE DEF r, left
  <2>4. QED
    BY <2>1, <2>2, <2>3 DEF AtLeast
<1>4. (r + 1) * Second > left
  <2> HIDE DEF r, left
  <2>1. left \div Second \in Int /\ (left \div Second + 1) * Second > left
    BY <1>1, <1>3, RoundedDown
  <2>2. (r + 1) * Second >= (left \div Second + 1) * Second
    <3> DEFINE a == left \div Second
               d == r - a
    <3>1. d \in Nat /\ r = a + d /\ a \in Int
      BY <1>2, <1>3, <2>1
    <3> HIDE DEF a, d
    <3>2. d * Second \in Nat
      BY <1>1, <3>1
    <3>3. (a + d + 1) * Second = (a + 1) * Second + d * Second
      BY <1>1, <3>1
    <3>4. (a + 1) * Second \in Int
      BY <1>1, <3>1
    <3>5. QED
      BY <3>1, <3>2, <3>3, <3>4 DEF a
  <2>3. (r + 1) * Second \in Int /\ (left \div Second + 1) * Second \in Int
    BY <1>1, <1>2, <2>1
  <2>4. QED
    BY <1>3, <2>1, <2>2, <2>3
<1>5. cutoff \in Int /\ q[1] < cutoff
  <2> DEFINE wait == (r + 1) * Second
  <2>1. wait \in Int
    BY <1>1, <1>2
  <2>2. wait > left
    BY <1>4
  <2> HIDE DEF wait, r
  <2>3. now + wait - Window \in Int /\ q[1] < now + wait - Window
    BY <1>1, <2>1, <2>2
  <2>4. QED
    BY <2>3 DEF wait
<1>6. /\ Len(p) \in 0..Cap
      /\ \A i \in 1..Len(p) : p[i] = q[Cap - Len(p) + i]
      /\ Len(p) > 0 => p[1] >= cutoff
  <2> HIDE DEF cutoff
  <2>1. QED
    BY <1>5, PurgedIs
<1>7. Len(p) # Cap
  <2> HIDE DEF p, cutoff
  <2>1. SUFFICES ASSUME Len(p) = Cap
                 PROVE  FALSE
    OBVIOUS
  <2>2. 1 \in 1..Len(p) /\ Cap - Len(p) + 1 = 1 /\ Len(p) > 0
    BY <1>1, <2>1
  <2>3. p[1] = q[1] /\ p[1] >= cutoff
    BY <1>6, <2>2
  <2>4. QED
    BY <1>1, <1>5, <2>3
<1>8. Len(p) < Cap
  <2> HIDE DEF p
  <2>1. QED
    BY <1>1, <1>6, <1>7
<1>9. QED
  BY <1>2, <1>8

\* Retry-After is at least a second, and a second after it has passed the bucket
\* has room (check_rate_limit).
THEOREM RetryAfterIsClose == Spec => RoomSoonAfterRetry
<1>1. TypeInv /\ LimitInv /\ [Next]_vars =>
        \A t \in Threads : Rejects(t) =>
          LET wait == (thread'[t].retry_after + 1) * Second
              q == buckets'[bucket_key(thread[t].tenant)]
          IN /\ thread'[t].retry_after >= 1
             /\ Len(Purged(q, thread[t].now + wait - Window)) < Cap
  <2>1. SUFFICES ASSUME TypeInv, LimitInv, [Next]_vars, NEW t \in Threads, Rejects(t)
                 PROVE  /\ thread'[t].retry_after >= 1
                        /\ Len(Purged(buckets'[NoTenant],
                                      thread[t].now + (thread'[t].retry_after + 1) * Second
                                        - Window)) < Cap
    BY DEF bucket_key
  <2>2. thread[t].now \in Times
    <3>1. thread \in [Threads -> Reply]
      BY <2>1 DEF TypeInv, TypeOK, Reply, Times
    <3>2. QED
      BY <3>1 DEF Reply
  <2>3. PICK q \in Seq(Times) :
          /\ Len(q) = Cap /\ buckets'[NoTenant] = q
          /\ thread'[t].retry_after = RetryAfter(q, thread[t].now)
    BY <2>1, RejectFinds
  <2>4. QED
    BY <2>2, <2>3, OldestDrops
<1>2. QED
  BY <1>1, TypeInit, TypeStep, LimitInit, LimitStep, PTL DEF Spec, RoomSoonAfterRetry
=============================================================================
