---------------------------- MODULE RateLimiter ----------------------------
(***************************************************************************)
(* The token bucket of auth.RateLimit: one bucket per client IP, refilled  *)
(* from the clock, spent by requests, and dropped when the client has been *)
(* silent for ten minutes.                                                 *)
(*                                                                         *)
(* Time is counted in ticks, Second of them per second.  A bucket holds    *)
(* credit, its tokens divided by the rate: a silent tick earns one unit,   *)
(* a request costs as many as one token takes to earn, and the burst of    *)
(* 2 * perSecond tokens is two seconds of credit whatever the rate.  The   *)
(* rounding of float64 is left out.                                        *)
(***************************************************************************)
EXTENDS Integers

CONSTANTS
  Clients,  \* client IPs
  Second,   \* ticks per second
  Cost,     \* ticks that earn one token: Second / perSecond
  Idle,     \* ticks of silence after which a bucket is dropped
  Skew      \* bound: ticks between a request's clock reading and its turn at the mutex

Burst == 2 * Second

\* In the code Idle is 600 seconds and Burst is 2: readings may be 299 seconds late.
ASSUME LimiterAssumption ==
  /\ Second \in Nat \ {0} /\ Cost \in Nat \ {0}
  /\ Skew \in Nat /\ Idle \in Nat
  /\ Idle >= Burst + 2 * Skew

VARIABLES
  clock,    \* the time
  buckets,  \* the clients that have a bucket -> [credit, last, seen]
  meter     \* what each client was let through and has not yet earned again (history)

limiter == <<clock, buckets, meter>>

LimiterInit ==
  /\ clock = 0
  /\ buckets = [c \in {} |-> [credit |-> 0, last |-> 0, seen |-> 0]]
  /\ meter = [c \in Clients |-> 0]

\* Mutant: a new bucket is empty.
Empty(ip, t) ==
  IF ip \in DOMAIN buckets THEN buckets[ip] ELSE [credit |-> 0, last |-> t, seen |-> t]
\* The bucket that ip is served from.
Bucket(ip, t) ==
  IF ip \in DOMAIN buckets THEN buckets[ip]
  ELSE [credit |-> Burst, last |-> t, seen |-> t]

\* Mutant: the cap is missing.
Uncapped(x) == x
Capped(x)   == IF x > Burst THEN Burst ELSE x

\* A reading that is not later than the last one earns nothing.
Refilled(b, t) ==
  IF t > b.last THEN [b EXCEPT !.credit = Capped(@ + (t - b.last)), !.last = t] ELSE b

\* Mutant: a bucket is dropped after one second.
StaleSoon(b, t) == t - b.seen > Second
Stale(b, t)     == t - b.seen > Idle

Credit(ip, t)  == Refilled(Bucket(ip, t), t).credit
Allowed(ip, t) == Credit(ip, t) >= Cost

\* rl.allow, under the mutex: refill, evict every stale bucket, spend.
Allow(ip, t) ==
  LET b    == [Refilled(Bucket(ip, t), t) EXCEPT !.seen = t]
      left == {c \in DOMAIN buckets : ~Stale(buckets[c], t)} \cup {ip}
  IN  buckets' = [c \in left |-> IF c # ip THEN buckets[c]
                                 ELSE IF Allowed(ip, t) THEN [b EXCEPT !.credit = @ - Cost]
                                 ELSE b]

\* History: what an ideal meter of the same rate counts, with the true time of each
\* request and no bucket ever dropped.
Count(ip, passed) == meter' = IF passed THEN [meter EXCEPT ![ip] = @ + Cost] ELSE meter
Earn == meter' = [c \in Clients |-> IF meter[c] > 0 THEN meter[c] - 1 ELSE 0]

-----------------------------------------------------------------------------
(* Properties.                                                             *)

BucketsOK ==
  /\ clock \in Nat
  /\ DOMAIN buckets \subseteq Clients
  /\ \A c \in DOMAIN buckets : /\ buckets[c].credit \in 0..Burst
                               /\ buckets[c].last \in 0..clock
                               /\ buckets[c].seen \in 0..clock
  /\ meter \in [Clients -> Nat]

\* In every interval a client gets at most the burst, what the rate earns in that
\* interval, and what Skew adds: although requests reach the bucket out of the order
\* of their clock readings, and although a dropped bucket comes back full.
WindowBound == \A c \in Clients : meter[c] <= Burst + Skew
=============================================================================
