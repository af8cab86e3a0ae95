---------------------------- MODULE RateLimiter ----------------------------
(***************************************************************************)
(* The rate limiter in front of every handler of the hive server (auth.go  *)
(* RateLimiter): a bucket per address, with a count and the time at which  *)
(* it is thrown away, guarded by one mutex.  Time is counted in ticks, and *)
(* a bucket that is over is replaced by the next request or deleted by the *)
(* cleanup loop, whichever comes first.                                    *)
(***************************************************************************)
EXTENDS Integers, Sequences

CONSTANTS
    Addrs,
    Rate,      \* HIVE_RATE_LIMIT, requests per window
    Window,    \* one minute in main.go
    None

ASSUME RateAssumption == Rate \in Nat
ASSUME WindowAssumption == Window \in Nat
ASSUME NoneAssumption == None \notin [count : Nat, resetAt : Nat]

VARIABLES
    now,       \* the clock
    buckets,   \* per address: the bucket, or None
    admitted   \* ghost: the times at which requests of an address were let in

limiterVars == <<now, buckets, admitted>>

LimiterInit ==
    /\ now = 0
    /\ buckets = [a \in Addrs |-> None]
    /\ admitted = [a \in Addrs |-> <<>>]

-----------------------------------------------------------------------------
(* Mutant: the last tick of a bucket belongs to the next one as well.      *)
OverTooSoon(b) == now >= b.resetAt

(* time.Now().After(resetAt): the bucket is still used at resetAt itself.  *)
Over(b) == now > b.resetAt

Current(a) == buckets[a] # None /\ ~Over(buckets[a])

(* Mutant: a new bucket counts on from the old one.                        *)
AllowCarriesOver(a) ==
    /\ \/ /\ ~Current(a)
          /\ buckets' = [buckets EXCEPT ![a] =
                [count |-> (IF @ = None THEN 1 ELSE @.count), resetAt |-> now + Window]]
       \/ /\ Current(a) /\ buckets[a].count < Rate
          /\ buckets' = [buckets EXCEPT ![a].count = @ + 1]
    /\ admitted' = [admitted EXCEPT ![a] = Append(@, now)]
    /\ UNCHANGED now

(* Allow lets a request in: the first of a bucket always, whatever the     *)
(* rate, the others as long as the count is below it.                      *)
Allow(a) ==
    /\ \/ /\ ~Current(a)
          /\ buckets' = [buckets EXCEPT ![a] = [count |-> 1, resetAt |-> now + Window]]
       \/ /\ Current(a) /\ buckets[a].count < Rate
          /\ buckets' = [buckets EXCEPT ![a].count = @ + 1]
    /\ admitted' = [admitted EXCEPT ![a] = Append(@, now)]
    /\ UNCHANGED now

(* Allow turns a request away.                                             *)
Refuses(a) == Current(a) /\ buckets[a].count >= Rate

(* A round of the cleanup loop.                                            *)
Cleanup ==
    /\ \E a \in Addrs : buckets[a] # None /\ Over(buckets[a])
    /\ buckets' = [a \in Addrs |-> IF Current(a) THEN buckets[a] ELSE None]
    /\ UNCHANGED <<now, admitted>>

Tick == now' = now + 1 /\ UNCHANGED <<buckets, admitted>>

(* A process that starts again has no buckets, and nothing to answer for.  *)
Forget ==
    /\ buckets' = [a \in Addrs |-> None] /\ admitted' = [a \in Addrs |-> <<>>]
    /\ UNCHANGED now

LimiterNext == (\E a \in Addrs : Allow(a)) \/ Cleanup \/ Tick \/ Forget

LimiterSpec == LimiterInit /\ [][LimiterNext]_limiterVars

-----------------------------------------------------------------------------
Buckets == [count : Nat, resetAt : Nat] \cup {None}

LimiterTypeOK ==
    /\ now \in Nat
    /\ buckets \in [Addrs -> Buckets]
    /\ admitted \in [Addrs -> Seq(Nat)]

(* A rate of 0 still lets one request in per bucket.                       *)
Effective == IF Rate = 0 THEN 1 ELSE Rate

(* Windows start when a bucket does, so two of them may meet within the    *)
(* length of one: whatever that length is laid over, at most twice the     *)
(* rate less one request are let in, even if a bucket is cleaned up in     *)
(* between (auth.go:32-66).                                                *)
RateBounded ==
    \A a \in Addrs : \A i, j \in 1..Len(admitted[a]) :
        j - i >= 2 * Effective - 1 => admitted[a][j] - admitted[a][i] > Window

(* Who is turned away has been let in as often as the rate allows within   *)
(* the length of a window before: no count outlives its window             *)
(* (auth.go:32-50).                                                        *)
RefusedOnlyOverRate ==
    \A a \in Addrs : Refuses(a) =>
        /\ Len(admitted[a]) >= Effective
        /\ now - admitted[a][Len(admitted[a]) - Effective + 1] <= Window
=============================================================================
