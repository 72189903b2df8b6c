------------------------------ MODULE RateLimit ------------------------------
(***************************************************************************)
(* The sliding-window limiter of app/ratelimit.py for the requests to one  *)
(* path prefix, served by threads.  A request reads the clock first and    *)
(* takes the lock of the buckets afterwards, so the timestamps of a bucket *)
(* may be out of order.  Time is counted in ticks.                         *)
(***************************************************************************)
EXTENDS Integers, Sequences, FiniteSets

CONSTANTS
  Tenants,
  Threads,   \* threads that serve requests
  Cap,       \* per-minute limit plus burst
  Window,    \* the window of 60 seconds, in ticks
  Second,    \* ticks in a second
  MaxDelay,  \* ticks a thread may lose between the clock and the lock
  MaxTime    \* bound on the clock

ASSUME RateLimitAssumption ==
  /\ Cap \in Nat \ {0}
  /\ Second \in Nat \ {0}
  /\ Window \in Nat /\ Window >= Second
  /\ MaxDelay \in 0..Window
  /\ MaxTime \in Nat

NoTenant == "-"   \* what current_tenant reads as when it is not set

ASSUME NoTenantIsNoTenant == NoTenant \notin Tenants

Keys == Tenants \cup {NoTenant}

VARIABLES
  clock,
  buckets,   \* timestamps of each bucket, oldest arrival first
  thread,    \* the request each thread serves and the reply it gave
  accepted   \* every request let through: its tenant and its timestamp

vars == <<clock, buckets, thread, accepted>>

Idle == [pc |-> "idle", tenant |-> NoTenant, now |-> 0, retry_after |-> 0]

TypeOK ==
  /\ clock \in 0..MaxTime
  /\ buckets \in [Keys -> Seq(0..MaxTime)]
  /\ thread \in [Threads -> [pc : {"idle", "stamped", "429"}, tenant : Keys,
                             now : 0..MaxTime, retry_after : Nat]]
  /\ accepted \in Seq([tenant : Tenants, at : 0..MaxTime])

Init ==
  /\ clock = 0
  /\ buckets = [k \in Keys |-> <<>>]
  /\ thread = [t \in Threads |-> Idle]
  /\ accepted = <<>>

-------------------------------------------------------------------------------

\* check_rate_limit runs before authenticate, so no request has a tenant yet.
bucket_key(tenant) == NoTenant

\* Mutants: a timestamp exactly one window old is dropped; none ever is.
PurgedEarly(q, cutoff) ==
  LET fresh == {i \in DOMAIN q : q[i] > cutoff}
  IN IF fresh = {} THEN <<>>
     ELSE SubSeq(q, CHOOSE i \in fresh : \A j \in fresh : i <= j, Len(q))
PurgedNever(q, cutoff) == q

\* Timestamps dropped from the front while they are older than the cutoff.
Purged(q, cutoff) ==
  LET fresh == {i \in DOMAIN q : q[i] >= cutoff}
  IN IF fresh = {} THEN <<>>
     ELSE SubSeq(q, CHOOSE i \in fresh : \A j \in fresh : i <= j, Len(q))

AtLeast(x, y) == IF x >= y THEN x ELSE y

\* Mutants: the operands swapped; the age of the oldest timestamp instead of the
\* time it has left.
RetryAfterSwapped(q, now) == (now - q[1] - Window) \div Second
RetryAfterAge(q, now) == AtLeast(1, (now - q[1]) \div Second)

\* Whole seconds, rounded down, until the oldest timestamp leaves the window.
RetryAfter(q, now) == AtLeast(1, (q[1] + Window - now) \div Second)

-------------------------------------------------------------------------------

Arrive(t, tenant) ==
  /\ thread[t].pc # "stamped"
  /\ thread' = [thread EXCEPT ![t] =
                  [pc |-> "stamped", tenant |-> tenant, now |-> clock, retry_after |-> 0]]
  /\ UNCHANGED <<clock, buckets, accepted>>

Check(t) ==
  LET now == thread[t].now
      key == bucket_key(thread[t].tenant)
      q == Purged(buckets[key], now - Window)
  IN /\ thread[t].pc = "stamped"
     /\ IF Len(q) >= Cap
          THEN /\ buckets' = [buckets EXCEPT ![key] = q]
               /\ thread' = [thread EXCEPT ![t].pc = "429",
                                           ![t].retry_after = RetryAfter(q, now)]
               /\ UNCHANGED accepted
          ELSE /\ buckets' = [buckets EXCEPT ![key] = Append(q, now)]
               /\ thread' = [thread EXCEPT ![t] = Idle]
               /\ accepted' = Append(accepted, [tenant |-> thread[t].tenant, at |-> now])
     /\ UNCHANGED clock

\* Time passes; no thread is held up for more than MaxDelay.
Tick ==
  /\ clock < MaxTime
  /\ \A t \in Threads : thread[t].pc = "stamped" => clock - thread[t].now < MaxDelay
  /\ clock' = clock + 1
  /\ UNCHANGED <<buckets, thread, accepted>>

Next ==
  \/ \E t \in Threads, tenant \in Tenants : Arrive(t, tenant)
  \/ \E t \in Threads : Check(t)
  \/ Tick

Spec == Init /\ [][Next]_vars

-------------------------------------------------------------------------------
(* Properties.                                                              *)

\* Accepted requests (of a tenant in T) with timestamps from first to last.
Between(first, last, T) ==
  {i \in DOMAIN accepted : /\ accepted[i].tenant \in T
                           /\ first <= accepted[i].at /\ accepted[i].at <= last}

\* No window lets more than Cap requests through, the threads that were slow to
\* take the lock included: they may only cost the window their own delay
\* (check_rate_limit).
WindowIsCapped ==
  \A from \in 0..MaxTime :
    Cardinality(Between(from, from + Window - MaxDelay, Tenants)) <= Cap

Rejects(t) == thread[t].pc = "stamped" /\ thread'[t].pc = "429"

\* A request is refused only if Cap requests were let through in the window
\* before it, stretched by the delay that lets a timestamp hide behind a later
\* one (check_rate_limit).
RefusedOnlyWhenFull ==
  [][\A t \in Threads : Rejects(t) =>
       Cardinality(Between(thread[t].now - Window - MaxDelay, clock, Tenants)) >= Cap]_vars

\* Retry-After is at least a second and errs by less than one: a second later
\* the bucket has room again, if nobody took it (check_rate_limit).
RoomSoonAfterRetry ==
  [][\A t \in Threads : Rejects(t) =>
       LET wait == (thread'[t].retry_after + 1) * Second
           q == buckets'[bucket_key(thread[t].tenant)]
       IN /\ thread'[t].retry_after >= 1
          /\ Len(Purged(q, thread[t].now + wait - Window)) < Cap]_vars

\* app/ratelimit.py, module docstring: every tenant and path has a bucket of
\* its own, so a tenant is refused only for requests of its own.
RefusedForOwnRequests ==
  [][\A t \in Threads : Rejects(t) =>
       Cardinality(Between(0, clock, {thread[t].tenant})) >= Cap]_vars
=============================================================================
