---------------------------- MODULE RateLimiter ----------------------------
(***************************************************************************)
(* The token bucket of ratelimit.py: TokenBucketLimiter.check, called by    *)
(* the worker threads of the server.  check reads the clock before it takes *)
(* the lock (line 29), so a thread may apply an older reading than the one  *)
(* already stored in the bucket.                                            *)
(*                                                                          *)
(* The clock counts ticks of which Minute make the minute of line 21, and   *)
(* tokens are counted in Minute-ths: a call costs Minute units, a tick      *)
(* refills PerMinute units, and every level is an integer.                  *)
(***************************************************************************)
EXTENDS Integers, Sequences, FiniteSets

CONSTANTS
    Callers,    \* worker threads
    Keys,       \* requesters
    Minute,     \* clock ticks in a minute
    PerMinute,  \* per_minute
    Burst,      \* burst, 0 when not given
    MaxTime,    \* bound: the clock stops here
    MaxCalls    \* bound: calls of check() in one behaviour

ASSUME LimiterAssumption ==
    /\ Minute \in Nat \ {0}
    /\ PerMinute \in Nat \ {0}
    /\ Burst \in Nat
    /\ MaxTime \in Nat
    /\ MaxCalls \in Nat

Capacity == Minute * (IF Burst = 0 THEN PerMinute ELSE Burst)

VARIABLES
    clock,     \* time.monotonic()
    known,     \* the keys of _buckets
    tokens,    \* _buckets[k][0], in Minute-ths of a token; may be negative
    last,      \* _buckets[k][1]
    pc,        \* "idle", or "waiting" between line 29 and the lock
    key,       \* the key a thread is checking
    now,       \* the clock reading of line 29
    calls,     \* calls of check() so far
    admitted   \* admitted[k]: the readings of the admitted calls, in order

bucket == <<known, tokens, last>>
vars == <<clock, known, tokens, last, pc, key, now, calls, admitted>>

MutantOneToken(k, t) ==
    IF k \in known
    THEN LET refilled == tokens[k] + (t - last[k]) * PerMinute
         IN  IF refilled < Capacity THEN refilled ELSE Capacity
    ELSE Minute

\* Lines 31 and 32: what the bucket of k holds at time t.
Level(k, t) ==
    IF k \in known
    THEN LET refilled == tokens[k] + (t - last[k]) * PerMinute
         IN  IF refilled < Capacity THEN refilled ELSE Capacity
    ELSE Capacity

MutantKeepLast(k, level, t) ==
    /\ known' = known \cup {k}
    /\ tokens' = [tokens EXCEPT ![k] = level]
    /\ UNCHANGED last

Store(k, level, t) ==
    /\ known' = known \cup {k}
    /\ tokens' = [tokens EXCEPT ![k] = level]
    /\ last' = [last EXCEPT ![k] = t]

-----------------------------------------------------------------------------
Tick ==
    /\ clock < MaxTime
    /\ clock' = clock + 1
    /\ UNCHANGED <<bucket, pc, key, now, calls, admitted>>

ReadClock(c, k) ==
    /\ pc[c] = "idle"
    /\ calls < MaxCalls
    /\ calls' = calls + 1
    /\ pc' = [pc EXCEPT ![c] = "waiting"]
    /\ key' = [key EXCEPT ![c] = k]
    /\ now' = [now EXCEPT ![c] = clock]
    /\ UNCHANGED <<clock, bucket, admitted>>

MutantChargeRefused(c) ==
    /\ pc[c] = "waiting"
    /\ Level(key[c], now[c]) < Minute
    /\ Store(key[c], Level(key[c], now[c]) - Minute, now[c])
    /\ pc' = [pc EXCEPT ![c] = "idle"]
    /\ UNCHANGED <<clock, key, now, calls, admitted>>

\* Lines 33 to 35, under the lock.
Refuse(c) ==
    /\ pc[c] = "waiting"
    /\ Level(key[c], now[c]) < Minute
    /\ Store(key[c], Level(key[c], now[c]), now[c])
    /\ pc' = [pc EXCEPT ![c] = "idle"]
    /\ UNCHANGED <<clock, key, now, calls, admitted>>

\* Line 36, under the lock.
Admit(c) ==
    /\ pc[c] = "waiting"
    /\ Level(key[c], now[c]) >= Minute
    /\ Store(key[c], Level(key[c], now[c]) - Minute, now[c])
    /\ pc' = [pc EXCEPT ![c] = "idle"]
    /\ admitted' = [admitted EXCEPT ![key[c]] = Append(@, now[c])]
    /\ UNCHANGED <<clock, key, now, calls>>

Finished ==
    /\ calls = MaxCalls
    /\ \A c \in Callers : pc[c] = "idle"
    /\ UNCHANGED vars

Init ==
    /\ clock = 0
    /\ known = {}
    /\ tokens = [k \in Keys |-> Capacity]
    /\ last = [k \in Keys |-> 0]
    /\ pc = [c \in Callers |-> "idle"]
    /\ key \in [Callers -> Keys]
    /\ now = [c \in Callers |-> 0]
    /\ calls = 0
    /\ admitted = [k \in Keys |-> <<>>]

Next ==
    \/ Tick
    \/ \E c \in Callers : \/ \E k \in Keys : ReadClock(c, k)
                          \/ Refuse(c)
                          \/ Admit(c)
    \/ Finished

Spec == Init /\ [][Next]_vars

-----------------------------------------------------------------------------
TypeOK ==
    /\ clock \in Nat /\ calls \in Nat
    /\ known \subseteq Keys
    /\ tokens \in [Keys -> Int] /\ \A k \in Keys : tokens[k] <= Capacity
    /\ last \in [Keys -> Nat]
    /\ pc \in [Callers -> {"idle", "waiting"}]
    /\ key \in [Callers -> Keys]
    /\ now \in [Callers -> Nat]
    /\ admitted \in [Keys -> Seq(Nat)]

\* However late the threads apply their clock readings, the calls admitted
\* from the i-th to the j-th fit one full bucket and the refill between the
\* two readings: no requester gets more than capacity + t * rate calls in any
\* window of length t (ratelimit.py:27-36).
WithinBudget ==
    \A k \in Keys : \A j \in DOMAIN admitted[k] : \A i \in 1..j :
        (j - i + 1) * Minute <= Capacity + (admitted[k][j] - admitted[k][i]) * PerMinute

\* The debt that a late clock reading leaves in a bucket is repaid by the time
\* that has passed meanwhile, so a requester who stops calling has a whole
\* token again one refill later, whatever was refused (ratelimit.py:32-34).
SoonServedAgain ==
    \A k \in known : tokens[k] + (clock - last[k]) * PerMinute >= 0

\* The admitted calls of k less than a minute before t, or after it.
LastMinute(k, t) == {i \in DOMAIN admitted[k] : admitted[k][i] > t - Minute}

\* "more than N calls per minute" (ratelimit.py:35): a refusal means that the
\* last minute's budget is used up, but for the refill of the time by which
\* the check was late for its lock.
RefusedOverBudget ==
    [][\A c \in Callers : Refuse(c) =>
            Cardinality(LastMinute(key[c], now[c])) * Minute
               + (clock - now[c]) * PerMinute > Capacity - Minute]_vars
=============================================================================
