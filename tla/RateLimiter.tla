----------------------------- MODULE RateLimiter -----------------------------
(***************************************************************************)
(* The limiter in front of registration, sign-in, verification and         *)
(* recovery.  A call counts each of its subjects (address, account) in     *)
(* Redis; when Redis fails it counts all of them again in PostgreSQL, and  *)
(* when that fails too the request is refused.  The two stores keep        *)
(* windows of their own, so a failure lets a subject start over.           *)
(***************************************************************************)
EXTENDS Naturals, Sequences, FiniteSets

CONSTANTS
    LimitedCalls,  \* requests in flight
    SubjectLists,  \* the subjects a request is counted for, as sequences
    Limit,         \* admitted requests of a subject per window of a store
    MaxWindows     \* bound: windows opened for a subject

VARIABLES
    redisCount,  \* rate:<scope>:<subject> in Redis, 0 when the key is gone
    bucket,      \* rate_limit_buckets: the count and whether its window is open
    calls,       \* the enforce calls in flight
    admitted,    \* history: requests admitted for the subject
    opened       \* history: windows opened for the subject in either store

limiterVars == <<redisCount, bucket, calls, admitted, opened>>

Subjects == UNION {{list[i] : i \in DOMAIN list} : list \in SubjectLists}

\* Every rule admits something and every request is counted for some subject.
ASSUME LimiterAssumption ==
    /\ Limit \in Nat \ {0} /\ MaxWindows \in Nat
    /\ IsFiniteSet(LimitedCalls)
    /\ SubjectLists \subseteq Seq(Subjects) \ {<<>>}

NoCall == [at |-> "idle", subjects |-> <<>>, counted |-> 0, over |-> FALSE]

LimiterInit ==
    /\ redisCount = [s \in Subjects |-> 0]
    /\ bucket = [s \in Subjects |-> [count |-> 0, open |-> FALSE]]
    /\ calls = [c \in LimitedCalls |-> NoCall]
    /\ admitted = [s \in Subjects |-> 0]
    /\ opened = [s \in Subjects |-> 0]

\* A count beyond the limit is only ever compared with it.
OneMore(count) == IF count > Limit THEN count ELSE count + 1
Of(c) == {calls[c].subjects[i] : i \in DOMAIN calls[c].subjects}

\* The request goes on when no count is over the limit, else it is refused (429).
Conclude(c, over) ==
    /\ calls' = [calls EXCEPT ![c] = NoCall]
    /\ admitted' = [s \in Subjects |->
                       IF s \in Of(c) /\ ~over THEN admitted[s] + 1 ELSE admitted[s]]

Enforce(c, list) ==
    /\ calls[c].at = "idle"
    /\ calls' = [calls EXCEPT ![c] = [NoCall EXCEPT !.at = "redis", !.subjects = list]]
    /\ UNCHANGED <<redisCount, bucket, admitted, opened>>

\* The script counts one subject and starts its window with the first count.
Increment(s) ==
    /\ redisCount[s] = 0 => opened[s] < MaxWindows
    /\ redisCount' = [redisCount EXCEPT ![s] = OneMore(@)]
    /\ opened' = [opened EXCEPT ![s] = IF redisCount[s] = 0 THEN @ + 1 ELSE @]

NextSubject(c) == calls[c].subjects[calls[c].counted + 1]

\* Variant of CountInRedis: only the last subject decides.
CountInRedisLast(c) ==
    LET over == redisCount'[NextSubject(c)] > Limit IN
    /\ calls[c].at = "redis"
    /\ Increment(NextSubject(c))
    /\ IF calls[c].counted + 1 = Len(calls[c].subjects)
       THEN Conclude(c, over)
       ELSE /\ calls' = [calls EXCEPT ![c].counted = @ + 1, ![c].over = over]
            /\ UNCHANGED admitted
    /\ UNCHANGED bucket

CountInRedis(c) ==
    LET over == calls[c].over \/ redisCount'[NextSubject(c)] > Limit IN
    /\ calls[c].at = "redis"
    /\ Increment(NextSubject(c))
    /\ IF calls[c].counted + 1 = Len(calls[c].subjects)
       THEN Conclude(c, over)
       ELSE /\ calls' = [calls EXCEPT ![c].counted = @ + 1, ![c].over = over]
            /\ UNCHANGED admitted
    /\ UNCHANGED bucket

\* Redis cannot be reached, or its answer is lost after it has counted.
RedisFails(c) ==
    /\ calls[c].at = "redis"
    /\ calls' = [calls EXCEPT ![c].at = "database", ![c].over = FALSE]
    /\ \/ UNCHANGED <<redisCount, opened>>
       \/ Increment(NextSubject(c))
    /\ UNCHANGED <<bucket, admitted>>

\* One transaction counts every subject; a window that has ended starts over.
Upsert(s) ==
    [count |-> IF bucket[s].open THEN OneMore(bucket[s].count) ELSE 1, open |-> TRUE]

CountInDatabase(c) ==
    /\ calls[c].at = "database"
    /\ \A s \in Of(c) : ~bucket[s].open => opened[s] < MaxWindows
    /\ bucket' = [s \in Subjects |-> IF s \in Of(c) THEN Upsert(s) ELSE bucket[s]]
    /\ opened' = [s \in Subjects |->
                     IF s \in Of(c) /\ ~bucket[s].open THEN opened[s] + 1 ELSE opened[s]]
    /\ Conclude(c, \E s \in Of(c) : bucket'[s].count > Limit)
    /\ UNCHANGED redisCount

\* The database fails too: the request is refused (503).
DatabaseFails(c) ==
    /\ calls[c].at = "database"
    /\ Conclude(c, TRUE)
    /\ UNCHANGED <<redisCount, bucket, opened>>

\* Time: the Redis key expires, the window of the row passes.
RedisWindowEnds(s) ==
    /\ redisCount[s] # 0
    /\ redisCount' = [redisCount EXCEPT ![s] = 0]
    /\ UNCHANGED <<bucket, calls, admitted, opened>>

BucketWindowEnds(s) ==
    /\ bucket[s].open
    /\ bucket' = [bucket EXCEPT ![s].open = FALSE]
    /\ UNCHANGED <<redisCount, calls, admitted, opened>>

LimiterNext ==
    \/ \E c \in LimitedCalls :
          \/ \E list \in SubjectLists : Enforce(c, list)
          \/ CountInRedis(c) \/ RedisFails(c) \/ CountInDatabase(c) \/ DatabaseFails(c)
    \/ \E s \in Subjects : RedisWindowEnds(s) \/ BucketWindowEnds(s)

LimiterSpec == LimiterInit /\ [][LimiterNext]_limiterVars

-----------------------------------------------------------------------------
\* Every variable has the shape the limiter gives it.
LimiterTypeOK ==
    /\ redisCount \in [Subjects -> 0 .. Limit + 1]
    /\ bucket \in [Subjects -> [count : 0 .. Limit + 1, open : BOOLEAN]]
    /\ calls \in [LimitedCalls -> [at : {"idle", "redis", "database"}, counted : Nat,
                                   subjects : SubjectLists \cup {<<>>}, over : BOOLEAN]]
    /\ \A c \in LimitedCalls : calls[c].at # "idle" =>
          calls[c].subjects \in SubjectLists /\ calls[c].counted < Len(calls[c].subjects)
    /\ admitted \in [Subjects -> Nat]
    /\ opened \in [Subjects -> 0 .. MaxWindows]

\* Whatever fails between two counts, and however requests overlap, a subject
\* is admitted at most Limit times for each window that was opened for it: the
\* change to the database costs at most one more window, and a request that
\* neither store counted for all its subjects is refused.
AdmissionsBounded == \A s \in Subjects : admitted[s] <= Limit * opened[s]
=============================================================================
