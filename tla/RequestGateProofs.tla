-------------------------- MODULE RequestGateProofs --------------------------
(***************************************************************************)
(* The limiter is a limit and refuses nobody early, and nobody is served   *)
(* without a role or refused with one: for any clients, tokens, key sets,  *)
(* deployments and number of concurrent requests.                          *)
(*                                                                         *)
(* The keys that are published throughout are in every answer of the       *)
(* issuer, so in every set a fetch brings home and in whichever of them is *)
(* installed last; a request looks for its key again only after its own    *)
(* set was installed.                                                      *)
(***************************************************************************)
EXTENDS RequestGate, InductionLemmas

-----------------------------------------------------------------------------
(* One bucket.  A bucket and the ideal meter of its client bound each      *)
(* other: what the meter has not yet earned back is the credit that is     *)
(* missing, give or take the ticks by which a reading can be late.  That   *)
(* relation survives readings out of order, and says that a bucket old     *)
(* enough to be dropped belongs to a client whose meter is at zero, so     *)
(* that the full bucket that replaces it gives nothing away.               *)

Record == [credit : 0..Burst, last : Nat, seen : Nat]

\* m is the meter of the bucket's client, n the time.
Sound(b, m, n) ==
  /\ b \in Record
  /\ b.last <= n /\ b.seen <= n /\ b.last <= b.seen + Skew
  /\ m = 0 \/ m <= Burst - b.credit + Skew - (n - b.last)
  /\ m >= Burst - b.credit - (n - b.last)

LEMMA BurstNat == Burst \in Nat /\ Burst >= 2
  BY LimiterAssumption DEF Burst

\* A new bucket of a client that has used up nothing.
LEMMA NewSound ==
  ASSUME NEW n \in Nat, NEW t \in Nat, t <= n
  PROVE  Sound([credit |-> Burst, last |-> t, seen |-> t], 0, n)
  BY BurstNat, LimiterAssumption DEF Sound, Record

\* A refill, and the reading it leaves behind.
LEMMA RefillSound ==
  ASSUME NEW b, NEW m \in Nat, NEW n \in Nat, NEW t \in Nat,
         Sound(b, m, n), t <= n, n - t <= Skew
  PROVE  /\ Sound([Refilled(b, t) EXCEPT !.seen = t], m, n)
         /\ Refilled(b, t) \in Record
         /\ n - Refilled(b, t).last <= Skew
<1>1. CASE ~(t > b.last)
  BY <1>1, BurstNat, LimiterAssumption DEF Sound, Record, Refilled
<1>2. CASE t > b.last
  <2> DEFINE x == b.credit + (t - b.last)
             c == IF x > Burst THEN Burst ELSE x
             r == [credit |-> c, last |-> t, seen |-> b.seen]
  <2>1. Refilled(b, t) = r
    BY <1>2 DEF Sound, Record, Refilled, Capped
  <2>2. c \in 0..Burst
    BY <1>2, BurstNat DEF Sound, Record
  <2>3. /\ m = 0 \/ m <= Burst - c + Skew - (n - t)
        /\ m >= Burst - c - (n - t)
    BY <1>2, <2>2, BurstNat, LimiterAssumption DEF Sound, Record
  <2> HIDE DEF c
  <2>4. Sound([r EXCEPT !.seen = t], m, n)
    BY <2>2, <2>3, LimiterAssumption DEF Sound, Record
  <2>5. QED
    BY <2>1, <2>2, <2>4 DEF Sound, Record
<1>3. QED
  BY <1>1, <1>2

\* A request that is let through.
LEMMA SpendSound ==
  ASSUME NEW b, NEW m \in Nat, NEW n \in Nat,
         Sound(b, m, n), n - b.last <= Skew, b.credit >= Cost
  PROVE  Sound([b EXCEPT !.credit = @ - Cost], m + Cost, n)
  BY BurstNat, LimiterAssumption DEF Sound, Record

\* A request that is refused.
LEMMA RefusedIsBusy ==
  ASSUME NEW b, NEW m \in Nat, NEW n \in Nat,
         Sound(b, m, n), n - b.last <= Skew, b.credit < Cost
  PROVE  m > Burst - Cost - Skew
  BY BurstNat, LimiterAssumption DEF Sound, Record

\* A bucket that is dropped.
LEMMA StaleIsIdle ==
  ASSUME NEW b, NEW m \in Nat, NEW n \in Nat, NEW t \in Nat,
         Sound(b, m, n), t <= n, Stale(b, t)
  PROVE  m = 0
  BY BurstNat, LimiterAssumption DEF Sound, Record, Stale

\* A tick.
LEMMA TickSound ==
  ASSUME NEW b, NEW m \in Nat, NEW n \in Nat, Sound(b, m, n)
  PROVE  Sound(b, IF m > 0 THEN m - 1 ELSE 0, n + 1)
  BY BurstNat, LimiterAssumption DEF Sound, Record

-----------------------------------------------------------------------------

\* The inductive invariant: every bucket matches its client's meter, and only a client
\* whose meter is at zero has none.
LimiterInv ==
  /\ clock \in Nat
  /\ DOMAIN buckets \subseteq Clients
  /\ meter \in [Clients -> Nat]
  /\ \A c \in DOMAIN buckets : Sound(buckets[c], meter[c], clock)
  /\ \A c \in Clients \ DOMAIN buckets : meter[c] = 0

LEMMA LimiterInvHolds == LimiterInit => LimiterInv
  BY DEF LimiterInit, LimiterInv

LEMMA LimiterInvBounds == LimiterInv => BucketsOK /\ WindowBound
<1> SUFFICES ASSUME LimiterInv PROVE BucketsOK /\ WindowBound
  OBVIOUS
<1>1. BucketsOK
  BY DEF LimiterInv, BucketsOK, Sound, Record
<1>2. ASSUME NEW c \in Clients PROVE meter[c] <= Burst + Skew
  BY BurstNat, LimiterAssumption DEF LimiterInv, Sound, Record
<1>3. QED
  BY <1>1, <1>2 DEF WindowBound

LEMMA BucketSound ==
  ASSUME LimiterInv, NEW ip \in Clients, NEW t \in Nat, t <= clock
  PROVE  Sound(Bucket(ip, t), meter[ip], clock)
  BY NewSound DEF LimiterInv, Bucket

\* allow, with the meter that counts it.
LEMMA AllowInv ==
  ASSUME LimiterInv, NEW ip \in Clients, NEW t \in Nat, t <= clock, clock - t <= Skew,
         Allow(ip, t), Count(ip, Allowed(ip, t)), UNCHANGED clock
  PROVE  LimiterInv'
<1> DEFINE r    == Refilled(Bucket(ip, t), t)
           b    == [r EXCEPT !.seen = t]
           left == {c \in DOMAIN buckets : ~Stale(buckets[c], t)} \cup {ip}
           mine == IF Allowed(ip, t) THEN [b EXCEPT !.credit = @ - Cost] ELSE b
           owed == IF Allowed(ip, t) THEN meter[ip] + Cost ELSE meter[ip]
<1>1. meter \in [Clients -> Nat] /\ meter[ip] \in Nat /\ clock \in Nat /\ Cost \in Nat
  BY LimiterAssumption DEF LimiterInv
<1>2. Sound(b, meter[ip], clock) /\ r \in Record /\ clock - r.last <= Skew
  BY <1>1, BucketSound, RefillSound
<1>3. b.credit = r.credit /\ b.last = r.last
  BY <1>2 DEF Record
<1>4. Allowed(ip, t) <=> b.credit >= Cost
  BY <1>3 DEF Allowed, Credit
<1> HIDE DEF r, b
<1>5. Sound(mine, owed, clock)
  BY <1>1, <1>2, <1>3, <1>4, SpendSound
<1>6. buckets' = [c \in left |-> IF c # ip THEN buckets[c] ELSE mine]
  BY DEF Allow, r, b
<1>7. meter' = [meter EXCEPT ![ip] = owed]
  BY <1>1 DEF Count
<1> HIDE DEF mine, owed
<1>8. owed \in Nat
  BY <1>1 DEF owed
<1>9. ASSUME NEW c \in DOMAIN buckets' PROVE Sound(buckets'[c], meter'[c], clock')
  BY <1>1, <1>5, <1>6, <1>7 DEF LimiterInv
<1>10. ASSUME NEW c \in Clients \ DOMAIN buckets' PROVE meter'[c] = 0
  <2>1. c # ip /\ meter'[c] = meter[c] /\ meter[c] \in Nat
    BY <1>1, <1>6, <1>7
  <2>2. c \notin DOMAIN buckets \/ Stale(buckets[c], t)
    BY <1>6, <2>1
  <2>3. QED
    BY <1>1, <2>1, <2>2, StaleIsIdle DEF LimiterInv
<1>11. QED
  BY <1>1, <1>6, <1>7, <1>8, <1>9, <1>10 DEF LimiterInv

\* A refusal.
LEMMA AllowRefuses ==
  ASSUME LimiterInv, NEW ip \in Clients, NEW t \in Nat, t <= clock, clock - t <= Skew,
         ~Allowed(ip, t)
  PROVE  meter[ip] > Burst - Cost - Skew
<1> DEFINE r == Refilled(Bucket(ip, t), t)
           b == [r EXCEPT !.seen = t]
<1>1. meter[ip] \in Nat /\ clock \in Nat /\ Cost \in Nat
  BY LimiterAssumption DEF LimiterInv
<1>2. Sound(b, meter[ip], clock) /\ r \in Record /\ clock - r.last <= Skew
  BY <1>1, BucketSound, RefillSound
<1>3. b.credit = r.credit /\ b.last = r.last /\ r.credit \in Nat
  BY <1>2 DEF Record
<1>4. b.credit < Cost
  BY <1>1, <1>3 DEF Allowed, Credit
<1> HIDE DEF r, b
<1>5. QED
  BY <1>1, <1>2, <1>3, <1>4, RefusedIsBusy

LEMMA TickInv ==
  ASSUME LimiterInv, clock' = clock + 1, Earn, UNCHANGED buckets
  PROVE  LimiterInv'
<1>1. meter' \in [Clients -> Nat] /\ clock \in Nat /\ clock' \in Nat
  BY DEF LimiterInv, Earn
<1>2. ASSUME NEW c \in DOMAIN buckets PROVE Sound(buckets[c], meter'[c], clock')
  BY TickSound DEF LimiterInv, Earn
<1>3. ASSUME NEW c \in Clients \ DOMAIN buckets PROVE meter'[c] = 0
  BY DEF LimiterInv, Earn
<1>4. ASSUME NEW c \in DOMAIN buckets' PROVE Sound(buckets'[c], meter'[c], clock')
  BY <1>2
<1>5. DOMAIN buckets' = DOMAIN buckets /\ DOMAIN buckets \subseteq Clients
  BY DEF LimiterInv
<1>6. QED
  BY <1>1, <1>3, <1>4, <1>5 DEF LimiterInv

-----------------------------------------------------------------------------
(* The invariant of the request chain.                                     *)

Stages  == {"limit", "auth", "fetch", "install", "recheck", "verify", "answered"}
Answers == {0, 200, 204, 401, 403, 429}
States  == [pc : Stages, req : Requests \cup {NoRequest}, at : 0..clock,
            got : SUBSET (issued \ Unusable), status : Answers]

\* What holds of a goroutine that is at x.
HandlerOK(x) ==
  /\ x \in States
  /\ x.pc # "answered" => x.req \in config.traffic
  /\ x.pc = "limit" => clock - x.at <= Skew
  /\ x.pc \notin {"answered", "limit"} => ~Public(x.req)
  /\ x.pc \in {"fetch", "install", "recheck", "verify"} =>
       config.issuer /\ x.req.cred # NoCredential /\ Token[x.req.cred].alg = "RS256"
  /\ x.pc = "install" => Lasting \subseteq x.got
  /\ x.pc = "recheck" => fetched
  /\ x.pc = "verify" => Token[x.req.cred].kid \in issued

HandlerInv ==
  /\ handler = [h \in Handlers |-> handler[h]]
  /\ \A h \in Handlers : HandlerOK(handler[h])

\* The key set that is held, once fetched, has every lasting key.
KeyInv ==
  /\ published \in KeySets /\ published \subseteq issued /\ issued \subseteq UNION KeySets
  /\ keys \subseteq issued \ Unusable
  /\ fetched \in BOOLEAN
  /\ fetched => Lasting \subseteq keys

ConfigInv == config \in Configs /\ ~Insecure(config)

IInv == LimiterInv /\ KeyInv /\ ConfigInv /\ HandlerInv

LEMMA LastingPublished == ASSUME KeyInv PROVE Lasting \subseteq published \ Unusable
  BY DEF KeyInv, Lasting

LEMMA InvImplies == IInv => TypeOK /\ WindowBound
<1> SUFFICES ASSUME IInv PROVE TypeOK /\ WindowBound
  OBVIOUS
<1>1. BucketsOK /\ WindowBound
  BY LimiterInvBounds DEF IInv
<1>2. handler \in [Handlers -> States]
  BY DEF IInv, HandlerInv, HandlerOK
<1>3. QED
  BY <1>1, <1>2 DEF IInv, KeyInv, ConfigInv, TypeOK, States, Stages, Answers

LEMMA InitInv == Init => IInv
<1> SUFFICES ASSUME Init PROVE IInv
  OBVIOUS
<1>1. LimiterInv
  BY LimiterInvHolds DEF Init
<1>2. KeyInv /\ ConfigInv
  BY DEF Init, IdentityInit, KeyInv, ConfigInv
<1>3. Fresh \in States /\ Fresh.pc = "answered"
  BY DEF Init, LimiterInit, Fresh, States, Stages, Answers
<1>4. HandlerInv
  BY <1>3 DEF Init, HandlerInv, HandlerOK
<1>5. QED
  BY <1>1, <1>2, <1>4 DEF IInv

-----------------------------------------------------------------------------
(* One goroutine moves.                                                    *)

LEMMA OneMoves ==
  ASSUME HandlerInv, NEW h \in Handlers, NEW x, handler' = [handler EXCEPT ![h] = x],
         HandlerOK(x)', issued \subseteq issued', fetched => fetched',
         UNCHANGED <<clock, config>>
  PROVE  HandlerInv'
<1>1. ASSUME NEW g \in Handlers PROVE HandlerOK(handler[g])'
  <2>1. CASE g = h
    BY <2>1 DEF HandlerInv
  <2>2. CASE g # h
    BY <2>2 DEF HandlerInv, HandlerOK, States, Public
  <2>3. QED
    BY <2>1, <2>2
<1>2. handler' = [g \in Handlers |-> handler'[g]]
  BY DEF HandlerInv
<1>3. QED
  BY <1>1, <1>2 DEF HandlerInv

\* Where a request ends.
LEMMA AnswerOK ==
  ASSUME NEW h \in Handlers, NEW s \in Answers, Answer(h, s), clock \in Nat,
         UNCHANGED <<clock, config>>
  PROVE  \E x : handler' = [handler EXCEPT ![h] = x] /\ HandlerOK(x)'
<1> DEFINE x == [Fresh EXCEPT !.status = s]
<1>1. handler' = [handler EXCEPT ![h] = x]
  BY DEF Answer
<1>2. x = [pc |-> "answered", req |-> NoRequest, at |-> 0, got |-> {}, status |-> s]
  BY DEF Fresh
<1> HIDE DEF x
<1>3. HandlerOK(x)'
  BY <1>2 DEF HandlerOK, States, Stages
<1>4. QED
  BY <1>1, <1>3

LEMMA EnterOK ==
  ASSUME ConfigInv, NEW h \in Handlers, NEW r \in config.traffic,
         NEW p \in {"limit", "auth"}, NEW t \in Nat, Enter(h, r, p, t),
         clock \in Nat, UNCHANGED <<clock, config>>,
         \/ p = "limit" /\ t <= clock /\ clock - t <= Skew
         \/ p = "auth" /\ t = 0 /\ ~Public(r)
  PROVE  \E x : handler' = [handler EXCEPT ![h] = x] /\ HandlerOK(x)'
<1> DEFINE x == [Fresh EXCEPT !.req = r, !.pc = p, !.at = t]
<1>1. handler' = [handler EXCEPT ![h] = x]
  BY DEF Enter
<1>2. Fresh \in States' /\ r \in Requests /\ t \in 0..clock
  BY DEF Fresh, States, Stages, Answers, ConfigInv, Requests
<1>3. x.pc = p /\ x.req = r /\ x.at = t /\ x \in States'
  BY <1>2 DEF States, Stages
<1> HIDE DEF x
<1>4. HandlerOK(x)'
  <2>1. CASE p = "limit"
    BY <1>3, <2>1 DEF HandlerOK
  <2>2. CASE p = "auth"
    BY <1>3, <2>2 DEF HandlerOK, Public
  <2>3. QED
    BY <2>1, <2>2
<1>5. QED
  BY <1>1, <1>4

LEMMA PassOnOK ==
  ASSUME ConfigInv, NEW h \in Handlers, NEW req \in config.traffic, PassOn(h, req),
         clock \in Nat, UNCHANGED <<clock, config>>
  PROVE  \E x : handler' = [handler EXCEPT ![h] = x] /\ HandlerOK(x)'
<1>1. CASE Public(req)
  BY <1>1, AnswerOK DEF PassOn, Answers
<1>2. CASE ~Public(req)
  BY <1>2, EnterOK DEF PassOn
<1>3. QED
  BY <1>1, <1>2

\* The next stage of the verifier.
LEMMA GotoOK ==
  ASSUME HandlerInv, NEW h \in Handlers, NEW p \in {"fetch", "verify"}, Goto(h, p),
         clock \in Nat, UNCHANGED <<clock, config, issued>>,
         handler[h].pc \in {"auth", "recheck"}, config.issuer,
         handler[h].req.cred # NoCredential, Tok(h).alg = "RS256",
         p = "verify" => Tok(h).kid \in issued
  PROVE  \E x : handler' = [handler EXCEPT ![h] = x] /\ HandlerOK(x)'
<1>0. PICK y, x : y = handler[h] /\ x = [y EXCEPT !.pc = p]
  OBVIOUS
<1>1. handler' = [handler EXCEPT ![h] = x]
  BY <1>0 DEF Goto
<1>2. HandlerOK(y)
  BY <1>0 DEF HandlerInv
<1>3. /\ x \in States
      /\ x.pc = p /\ x.req = y.req /\ x.got = y.got /\ x.at = y.at
  BY <1>0, <1>2 DEF HandlerOK, States, Stages
<1>4. y.pc \in {"auth", "recheck"} /\ y.req.cred # NoCredential
      /\ Token[y.req.cred].alg = "RS256" /\ (p = "verify" => Token[y.req.cred].kid \in issued)
  BY <1>0 DEF Tok
<1>5. HandlerOK(x)'
  BY <1>2, <1>3, <1>4 DEF HandlerOK, States, Public
<1>6. QED
  BY <1>1, <1>5

-----------------------------------------------------------------------------
(* The steps.                                                              *)

\* A step that leaves the limiter and the keys alone.
LEMMA QuietStep ==
  ASSUME IInv, NEW h \in Handlers, UNCHANGED <<limiter, identity, config>>,
         \E x : handler' = [handler EXCEPT ![h] = x] /\ HandlerOK(x)'
  PROVE  IInv'
<1>1. LimiterInv'
  BY DEF IInv, LimiterInv, limiter, Sound, Record
<1>2. KeyInv' /\ ConfigInv'
  BY DEF IInv, KeyInv, ConfigInv, identity, Insecure, Lasting
<1>3. HandlerInv'
  BY OneMoves DEF IInv, identity, limiter
<1>4. QED
  BY <1>1, <1>2, <1>3 DEF IInv

LEMMA ArriveInv == ASSUME IInv, NEW h \in Handlers, Arrive(h) PROVE IInv'
<1>1. PICK req \in config.traffic :
        IF req.preflight THEN Answer(h, 204)
        ELSE IF config.limited THEN Enter(h, req, "limit", clock) ELSE PassOn(h, req)
  BY DEF Arrive
<1>2. clock \in Nat /\ Skew \in Nat /\ UNCHANGED <<clock, config>> /\ ConfigInv
  BY LimiterAssumption DEF IInv, LimiterInv, Arrive, limiter
<1>3. CASE Answer(h, 204)
  BY <1>2, <1>3, AnswerOK, QuietStep DEF Arrive, Answers
<1>4. CASE Enter(h, req, "limit", clock)
  BY <1>2, <1>4, EnterOK, QuietStep DEF Arrive
<1>5. CASE PassOn(h, req)
  BY <1>2, <1>5, PassOnOK, QuietStep DEF Arrive
<1>6. QED
  BY <1>1, <1>3, <1>4, <1>5

\* The request at the mutex.
LEMMA AtTheMutex ==
  ASSUME IInv, NEW h \in Handlers, handler[h].pc = "limit"
  PROVE  /\ handler[h].req \in config.traffic /\ handler[h].req.client \in Clients
         /\ handler[h].at \in Nat /\ handler[h].at <= clock /\ clock - handler[h].at <= Skew
<1>1. HandlerOK(handler[h]) /\ clock \in Nat /\ config \in Configs
  BY DEF IInv, HandlerInv, LimiterInv, ConfigInv
<1>2. QED
  BY <1>1, GateAssumption DEF HandlerOK, States

LEMMA LimitInv == ASSUME IInv, NEW h \in Handlers, Limit(h) PROVE IInv'
<1> DEFINE ip == handler[h].req.client
           t  == handler[h].at
<1>1. /\ handler[h].req \in config.traffic /\ ip \in Clients
      /\ t \in Nat /\ t <= clock /\ clock - t <= Skew
  BY AtTheMutex DEF Limit
<1>2. /\ Allow(ip, t) /\ Count(ip, Allowed(ip, t))
      /\ IF Allowed(ip, t) THEN PassOn(h, handler[h].req) ELSE Answer(h, 429)
      /\ UNCHANGED <<clock, identity, config>>
  BY DEF Limit
<1>3. clock \in Nat /\ LimiterInv /\ HandlerInv /\ ConfigInv
  BY DEF IInv, LimiterInv
<1> HIDE DEF ip, t
<1>4. LimiterInv'
  BY <1>1, <1>2, <1>3, AllowInv
<1>5. KeyInv' /\ ConfigInv'
  BY <1>2 DEF IInv, KeyInv, ConfigInv, identity, Insecure, Lasting
<1>6. \E x : handler' = [handler EXCEPT ![h] = x] /\ HandlerOK(x)'
  BY <1>1, <1>2, <1>3, PassOnOK, AnswerOK DEF Answers
<1>7. HandlerInv'
  BY <1>2, <1>3, <1>6, OneMoves DEF identity
<1>8. QED
  BY <1>4, <1>5, <1>7 DEF IInv

LEMMA PermitOK ==
  ASSUME NEW h \in Handlers, NEW role, Permit(h, role), clock \in Nat,
         UNCHANGED <<clock, config>>
  PROVE  \E x : handler' = [handler EXCEPT ![h] = x] /\ HandlerOK(x)'
  BY AnswerOK DEF Permit, Answers

LEMMA CheckKeyInv == ASSUME IInv, NEW h \in Handlers, CheckKey(h) PROVE IInv'
<1>1. clock \in Nat /\ UNCHANGED <<clock, config>>
  BY DEF IInv, LimiterInv, CheckKey, limiter
<1>2. CASE \E s \in {200, 401} : Answer(h, s)
  BY <1>1, <1>2, AnswerOK, QuietStep DEF CheckKey, Answers
<1>3. CASE Permit(h, Table[handler[h].req.cred])
  BY <1>1, <1>3, PermitOK, QuietStep DEF CheckKey
<1>4. QED
  BY <1>2, <1>3 DEF CheckKey

LEMMA LookupKeyInv == ASSUME IInv, NEW h \in Handlers, LookupKey(h) PROVE IInv'
<1>1. /\ clock \in Nat /\ UNCHANGED <<clock, config, issued>> /\ HandlerInv
      /\ keys \subseteq issued
  BY DEF IInv, LimiterInv, KeyInv, LookupKey, limiter, identity
<1>2. CASE Answer(h, 401)
  BY <1>1, <1>2, AnswerOK, QuietStep DEF LookupKey, Answers
<1>3. CASE /\ ~(handler[h].req.cred = NoCredential \/ Tok(h).alg # "RS256")
           /\ Goto(h, "fetch") \/ (Tok(h).kid \in keys /\ Goto(h, "verify"))
  BY <1>1, <1>3, GotoOK, QuietStep DEF LookupKey
<1>4. QED
  BY <1>2, <1>3 DEF LookupKey

LEMMA FetchInv == ASSUME IInv, NEW h \in Handlers, Fetch(h) PROVE IInv'
<1>0. PICK y, x : /\ y = handler[h]
                  /\ x = [y EXCEPT !.pc = "install", !.got = published \ Unusable]
  OBVIOUS
<1>1. /\ clock \in Nat /\ UNCHANGED <<clock, config, limiter, identity>>
      /\ HandlerOK(y) /\ y.pc = "fetch"
  BY <1>0 DEF IInv, LimiterInv, Fetch, Untouched, limiter, identity, HandlerInv
<1>2. CASE Answer(h, 401)
  BY <1>1, <1>2, AnswerOK, QuietStep DEF Answers
<1>3. CASE handler' = [handler EXCEPT ![h].pc = "install", ![h].got = published \ Unusable]
  <2>1. handler' = [handler EXCEPT ![h] = x]
    BY <1>0, <1>3
  <2>2. Lasting \subseteq published \ Unusable /\ published \subseteq issued
    BY LastingPublished DEF IInv, KeyInv
  <2>3. x \in States /\ x.pc = "install" /\ x.req = y.req /\ x.got = published \ Unusable
    BY <1>0, <1>1, <2>2 DEF HandlerOK, States, Stages
  <2>4. HandlerOK(x)'
    BY <1>1, <2>2, <2>3 DEF HandlerOK, States, Public, identity, Lasting
  <2>5. QED
    BY <1>1, <2>1, <2>4, QuietStep
<1>4. QED
  BY <1>2, <1>3 DEF Fetch

LEMMA InstallInv == ASSUME IInv, NEW h \in Handlers, Install(h) PROVE IInv'
<1>0. PICK y, x : y = handler[h] /\ x = [y EXCEPT !.pc = "recheck", !.got = {}]
  OBVIOUS
<1>1. /\ clock \in Nat /\ UNCHANGED <<clock, limiter, published, issued, config>>
      /\ HandlerOK(y) /\ y.pc = "install" /\ keys' = y.got /\ fetched' = TRUE
      /\ handler' = [handler EXCEPT ![h] = x]
  BY <1>0 DEF IInv, LimiterInv, Install, limiter, HandlerInv
<1>2. LimiterInv' /\ ConfigInv'
  BY <1>1 DEF IInv, LimiterInv, limiter, Sound, Record, ConfigInv, Insecure
<1>3. KeyInv'
  BY <1>1 DEF IInv, KeyInv, HandlerOK, States, Lasting
<1>4. x \in States /\ x.pc = "recheck" /\ x.req = y.req
  BY <1>0, <1>1 DEF HandlerOK, States, Stages
<1>5. HandlerOK(x)'
  BY <1>1, <1>4 DEF HandlerOK, States, Public
<1>6. HandlerInv'
  BY <1>1, <1>5, OneMoves DEF IInv
<1>7. QED
  BY <1>2, <1>3, <1>6 DEF IInv

LEMMA RecheckInv == ASSUME IInv, NEW h \in Handlers, Recheck(h) PROVE IInv'
<1>1. /\ clock \in Nat /\ UNCHANGED <<clock, config, issued>> /\ HandlerInv
      /\ keys \subseteq issued /\ HandlerOK(handler[h]) /\ handler[h].pc = "recheck"
  BY DEF IInv, LimiterInv, KeyInv, HandlerInv, Recheck, limiter, identity
<1>2. CASE Answer(h, 401)
  BY <1>1, <1>2, AnswerOK, QuietStep DEF Recheck, Answers
<1>3. CASE Tok(h).kid \in keys /\ Goto(h, "verify")
  BY <1>1, <1>3, GotoOK, QuietStep DEF Recheck, HandlerOK, Tok
<1>4. QED
  BY <1>2, <1>3 DEF Recheck

LEMMA VerifyInv == ASSUME IInv, NEW h \in Handlers, Verify(h) PROVE IInv'
<1>1. clock \in Nat /\ UNCHANGED <<clock, config>>
  BY DEF IInv, LimiterInv, Verify, limiter
<1>2. CASE Answer(h, 401)
  BY <1>1, <1>2, AnswerOK, QuietStep DEF Verify, Answers
<1>3. CASE Permit(h, VerifiedRole(Tok(h), clock, config.audience))
  BY <1>1, <1>3, PermitOK, QuietStep DEF Verify
<1>4. QED
  BY <1>2, <1>3 DEF Verify

LEMMA TickStep == ASSUME IInv, Tick PROVE IInv'
<1>1. /\ clock \in Nat /\ clock' = clock + 1 /\ Skew \in Nat
      /\ UNCHANGED <<buckets, identity, config, handler>> /\ Earn
  BY LimiterAssumption DEF IInv, LimiterInv, Tick
<1>2. LimiterInv'
  BY <1>1, TickInv DEF IInv
<1>3. KeyInv' /\ ConfigInv'
  BY <1>1 DEF IInv, KeyInv, ConfigInv, identity, Insecure, Lasting
<1>4. ASSUME NEW h \in Handlers PROVE HandlerOK(handler[h])'
  <2>1. HandlerOK(handler[h]) /\ handler' = handler
    BY <1>1 DEF IInv, HandlerInv
  <2>2. handler[h] \in States'
    BY <1>1, <2>1 DEF HandlerOK, States, identity
  <2>3. handler[h].pc = "limit" => clock' - handler[h].at <= Skew
    BY <1>1, <2>1 DEF HandlerOK, States, Tick
  <2>4. QED
    BY <1>1, <2>1, <2>2, <2>3 DEF HandlerOK, identity, Public, Lasting
<1>5. HandlerInv'
  BY <1>1, <1>4 DEF IInv, HandlerInv
<1>6. QED
  BY <1>2, <1>3, <1>5 DEF IInv

LEMMA RotateInv == ASSUME IInv, RotateKeys PROVE IInv'
<1>1. PICK set \in KeySets : Rotate(set)
  BY DEF RotateKeys
<1>2. /\ UNCHANGED <<limiter, clock, keys, fetched, config, handler>>
      /\ published' = set /\ issued' = issued \cup set
  BY <1>1 DEF RotateKeys, Rotate, limiter
<1>3. LimiterInv' /\ ConfigInv'
  BY <1>2 DEF IInv, LimiterInv, limiter, Sound, Record, ConfigInv, Insecure
<1>4. KeyInv'
  BY <1>2 DEF IInv, KeyInv, Lasting
<1>5. ASSUME NEW h \in Handlers PROVE HandlerOK(handler[h])'
  <2>1. HandlerOK(handler[h]) /\ handler' = handler
    BY <1>2 DEF IInv, HandlerInv
  <2>2. handler[h] \in States'
    BY <1>2, <2>1 DEF HandlerOK, States
  <2>3. QED
    BY <1>2, <2>1, <2>2 DEF HandlerOK, Public, Lasting
<1>6. HandlerInv'
  BY <1>2, <1>5 DEF IInv, HandlerInv
<1>7. QED
  BY <1>3, <1>4, <1>6 DEF IInv

LEMMA NextInv == IInv /\ [Next]_vars => IInv'
<1> SUFFICES ASSUME IInv, [Next]_vars PROVE IInv'
  OBVIOUS
<1>1. ASSUME NEW h \in Handlers, Arrive(h) \/ Step(h) PROVE IInv'
  BY <1>1, ArriveInv, LimitInv, CheckKeyInv, LookupKeyInv, FetchInv, InstallInv, RecheckInv,
     VerifyInv DEF Step
<1>2. CASE UNCHANGED vars
  <2>1. LimiterInv' /\ ConfigInv'
    BY <1>2 DEF vars, IInv, LimiterInv, limiter, Sound, Record, ConfigInv, Insecure
  <2>2. KeyInv'
    BY <1>2 DEF vars, identity, IInv, KeyInv, Lasting
  <2>3. HandlerInv'
    BY <1>2 DEF vars, limiter, identity, IInv, HandlerInv, HandlerOK, States, Public, Lasting
  <2>4. QED
    BY <2>1, <2>2, <2>3 DEF IInv
<1>3. QED
  BY <1>1, <1>2, TickStep, RotateInv DEF Next

\* Whatever the requests, the clock and the issuer do, the state stays well formed.
THEOREM GateTyped == Spec => []TypeOK
<1>1. IInv => TypeOK
  BY InvImplies
<1>2. QED
  BY InitInv, NextInv, <1>1, PTL DEF Spec

\* In no interval does allow let more requests of a client through than the burst and the
\* rate give it, and what the delay of a clock reading adds: for any burst, rate and
\* eviction time with Idle >= Burst + 2 * Skew, and any number of concurrent requests.
THEOREM LimiterLimits == Spec => []WindowBound
<1>1. IInv => WindowBound
  BY InvImplies
<1>2. QED
  BY InitInv, NextInv, <1>1, PTL DEF Spec

-----------------------------------------------------------------------------
(* Who answers, and what.                                                  *)

LEMMA Alone ==
  ASSUME NEW h \in Handlers, NEW g \in Handlers \ {h}, Arrive(h) \/ Step(h), HandlerInv
  PROVE  handler'[g] = handler[g]
<1>1. ASSUME \E s : Answer(h, s) PROVE handler'[g] = handler[g]
  BY <1>1 DEF Answer, HandlerInv
<1>2. ASSUME \E p : Goto(h, p) PROVE handler'[g] = handler[g]
  BY <1>2 DEF Goto, HandlerInv
<1>3. ASSUME NEW r, PassOn(h, r) \/ \E t : Enter(h, r, "limit", t)
      PROVE  handler'[g] = handler[g]
  BY <1>1, <1>3 DEF PassOn, Enter, HandlerInv
<1>4. CASE Arrive(h)
  BY <1>1, <1>3, <1>4 DEF Arrive
<1>5. CASE Limit(h)
  BY <1>1, <1>3, <1>5 DEF Limit
<1>6. CASE CheckKey(h)
  BY <1>1, <1>6 DEF CheckKey, Permit
<1>7. CASE LookupKey(h)
  BY <1>1, <1>2, <1>7 DEF LookupKey
<1>8. CASE Fetch(h)
  BY <1>1, <1>8 DEF Fetch, HandlerInv
<1>9. CASE Install(h)
  BY <1>9 DEF Install, HandlerInv
<1>10. CASE Recheck(h)
  BY <1>1, <1>2, <1>10 DEF Recheck
<1>11. CASE Verify(h)
  BY <1>1, <1>11 DEF Verify, Permit
<1>12. QED
  BY <1>4, <1>5, <1>6, <1>7, <1>8, <1>9, <1>10, <1>11 DEF Step

LEMMA WhoAnswers ==
  ASSUME IInv, [Next]_vars, NEW g \in Handlers, NEW s, Answered(g, s)
  PROVE  Step(g)
<1>1. handler'[g] # handler[g] /\ handler[g].pc # "answered" /\ HandlerInv
  BY DEF Answered, IInv
<1>2. PICK h \in Handlers : Arrive(h) \/ Step(h)
  BY <1>1 DEF Next, vars, Tick, RotateKeys
<1>3. g = h
  BY <1>1, <1>2, Alone
<1>4. QED
  BY <1>1, <1>2, <1>3 DEF Arrive

LEMMA AnswerIs ==
  ASSUME HandlerInv, NEW g \in Handlers, NEW s, NEW a, Answered(g, s), Answer(g, a)
  PROVE  s = a
  BY DEF HandlerInv, Answered, Answer, Fresh

LEMMA GotoIs ==
  ASSUME HandlerInv, NEW g \in Handlers, NEW s, Answered(g, s), NEW p, Goto(g, p)
  PROVE  p = "answered"
  BY DEF HandlerInv, HandlerOK, States, Answered, Goto

LEMMA EnterIs ==
  ASSUME HandlerInv, NEW g \in Handlers, NEW s, Answered(g, s), NEW r, NEW p, NEW t,
         Enter(g, r, p, t)
  PROVE  p = "answered"
  BY DEF HandlerInv, Answered, Enter, Fresh

LEMMA PassOnIs ==
  ASSUME HandlerInv, NEW g \in Handlers, NEW s, Answered(g, s), NEW r, PassOn(g, r)
  PROVE  s = 200 /\ Public(r)
  BY AnswerIs, EnterIs DEF PassOn

\* The stage at which a request is answered, and the answer.
LEMMA WhereAnswered ==
  ASSUME IInv, NEW g \in Handlers, NEW s, Answered(g, s), Step(g)
  PROVE  \/ Limit(g) /\ s = 200 /\ Public(handler[g].req)
         \/ Limit(g) /\ s = 429 /\ ~Allowed(handler[g].req.client, handler[g].at)
         \/ CheckKey(g) /\ \E a : Answer(g, a) /\ s = a
         \/ /\ LookupKey(g) /\ s = 401
            /\ \/ handler[g].req.cred = NoCredential
               \/ Tok(g).alg # "RS256"
               \/ Tok(g).kid \notin keys /\ fetched
         \/ Fetch(g) /\ s = 401
         \/ Recheck(g) /\ s = 401 /\ Tok(g).kid \notin keys
         \/ Verify(g) /\ \E a : Answer(g, a) /\ s = a
<1>1. HandlerInv
  BY DEF IInv
<1>2. CASE Limit(g)
  BY <1>1, <1>2, PassOnIs, AnswerIs DEF Limit
<1>3. CASE CheckKey(g)
  BY <1>1, <1>3, AnswerIs DEF CheckKey, Permit
<1>4. CASE LookupKey(g)
  <2>1. ~Goto(g, "verify") /\ ~Goto(g, "fetch") /\ fetched \in BOOLEAN
    BY <1>1, GotoIs DEF IInv, KeyInv
  <2>2. Answer(g, 401) => s = 401
    BY <1>1, AnswerIs
  <2>3. QED
    BY <1>4, <2>1, <2>2 DEF LookupKey
<1>5. CASE Fetch(g)
  <2>1. CASE Answer(g, 401)
    BY <1>1, <1>5, <2>1, AnswerIs
  <2>2. CASE handler' = [handler EXCEPT ![g].pc = "install",
                                        ![g].got = published \ Unusable]
    BY <1>1, <2>2 DEF Answered, HandlerInv, HandlerOK, States
  <2>3. QED
    BY <1>5, <2>1, <2>2 DEF Fetch
<1>6. CASE Install(g)
  BY <1>1, <1>6 DEF Install, Answered, HandlerInv, HandlerOK, States
<1>7. CASE Recheck(g)
  BY <1>1, <1>7, AnswerIs, GotoIs DEF Recheck
<1>8. CASE Verify(g)
  BY <1>1, <1>8, AnswerIs DEF Verify, Permit
<1>9. QED
  BY <1>2, <1>3, <1>4, <1>5, <1>6, <1>7, <1>8 DEF Step

\* A 429 is given only to a client that has used up its burst but for Skew: no refill, no
\* eviction and no reading that reaches the bucket late takes credit away.
THEOREM LimiterIsFair == Spec => FairRefusal
<1> DEFINE Fair == \A h \in Handlers : Answered(h, 429) =>
                     meter[handler[h].req.client] > Burst - Cost - Skew
<1>1. ASSUME IInv, [Next]_vars, NEW h \in Handlers, Answered(h, 429)
      PROVE  meter[handler[h].req.client] > Burst - Cost - Skew
  <2>1. Step(h) /\ LimiterInv /\ HandlerInv
    BY <1>1, WhoAnswers DEF IInv
  <2>2. ASSUME NEW a, Answer(h, a) PROVE a = 429
    BY <1>1, <2>1, <2>2, AnswerIs
  <2>3. ~CheckKey(h)
    BY <2>2 DEF CheckKey, Permit
  <2>4. ~Verify(h)
    BY <2>2 DEF Verify, Permit
  <2>5. Limit(h) /\ ~Allowed(handler[h].req.client, handler[h].at)
    BY <1>1, <2>1, <2>3, <2>4, WhereAnswered
  <2>6. /\ handler[h].req.client \in Clients /\ handler[h].at \in Nat
        /\ handler[h].at <= clock /\ clock - handler[h].at <= Skew
    BY <1>1, <2>5, AtTheMutex DEF Limit
  <2>7. QED
    BY <2>1, <2>5, <2>6, AllowRefuses
<1>2. IInv /\ [Next]_vars => [Fair]_vars
  BY <1>1
<1>3. QED
  BY InitInv, NextInv, <1>2, PTL DEF Spec, FairRefusal

-----------------------------------------------------------------------------
(* Who is entitled.                                                        *)

\* Of the entries of one secret the last one counts.
LEMMA GrantedRole ==
  ASSUME config \in Configs, NEW cred, NEW min \in Roles, NEW e \in DOMAIN config.keySpec,
         Grants(e, cred, min)
  PROVE  Enabled(Table) /\ cred \in DOMAIN Table /\ Table[cred] = config.keySpec[e].role
<1> DEFINE spec    == config.keySpec
           used    == {i \in DOMAIN spec : WellFormed(spec[i])}
           Last(s, i) == /\ spec[i].secret = s
                         /\ \A j \in used : j > i => spec[j].secret # s
<1>1. e \in used /\ Last(cred, e)
  BY DEF Grants
<1>2. DOMAIN spec = 1..Len(spec) /\ Len(spec) \in Nat
  BY GateAssumption
<1>3. ASSUME NEW i \in used, Last(cred, i) PROVE i = e
  BY <1>1, <1>2, <1>3
<1>4. (CHOOSE i \in used : Last(cred, i)) = e
  <2> HIDE DEF Last, used
  <2>1. QED
    BY <1>1, <1>3
<1>5. Table = [s \in {spec[i].secret : i \in used} |->
                 spec[CHOOSE i \in used : Last(s, i)].role]
  BY Zenon DEF Table, ParseKeys
<1>6. cred \in {spec[i].secret : i \in used}
  BY <1>1
<1> HIDE DEF Last, used, spec
<1>7. DOMAIN Table # {} /\ cred \in DOMAIN Table /\ Table[cred] = spec[e].role
  BY <1>4, <1>5, <1>6
<1>8. QED
  BY <1>7 DEF Enabled, spec

\* A role in the table was granted.
LEMMA TableIsGranted ==
  ASSUME config \in Configs, NEW cred \in DOMAIN Table
  PROVE  \E e \in DOMAIN config.keySpec :
           \A min \in Roles : Table[cred] >= min => Grants(e, cred, min)
<1> DEFINE spec == config.keySpec
           used == {i \in DOMAIN spec : WellFormed(spec[i])}
           mine == {i \in used : spec[i].secret = cred}
<1>1. DOMAIN spec = 1..Len(spec) /\ Len(spec) \in Nat
  BY GateAssumption
<1>2. DOMAIN Table = {spec[i].secret : i \in used}
  BY Zenon DEF Table, ParseKeys
<1>3. mine \subseteq 0..Len(spec) /\ mine # {}
  BY <1>1, <1>2
<1>4. PICK e \in mine : \A f \in mine : e >= f
  BY <1>1, <1>3, Greatest
<1>5. ASSUME NEW f \in DOMAIN spec, f > e, spec[f].secret = cred PROVE ~WellFormed(spec[f])
  BY <1>1, <1>4, <1>5
<1>6. ASSUME NEW min \in Roles, spec[e].role >= min PROVE Grants(e, cred, min)
  BY <1>4, <1>5, <1>6 DEF Grants
<1>7. spec[e].role \in Roles /\ RoleNone \in Roles
  BY <1>4, GateAssumption DEF Roles, RoleNone, RoleAdmin
<1>8. Grants(e, cred, RoleNone)
  BY <1>6, <1>7 DEF Roles, RoleNone, RoleAdmin
<1>9. Table[cred] = spec[e].role
  BY <1>4, <1>7, <1>8, GrantedRole
<1>10. QED
  BY <1>4, <1>6, <1>9

\* Of the roles of a token the highest counts.
LEMMA MapRolesIsMax ==
  ASSUME NEW roles, NEW min \in Roles \ {RoleNone}
  PROVE  /\ MapRoles(roles) \in Roles
         /\ MapRoles(roles) >= min <=>
              \E n \in roles \cap DOMAIN DefaultRoleMap : DefaultRoleMap[n] >= min
<1> DEFINE names  == roles \cap DOMAIN DefaultRoleMap
           mapped == {DefaultRoleMap[n] : n \in names}
<1>1. \A n \in DOMAIN DefaultRoleMap : DefaultRoleMap[n] \in 1..3
  BY DEF DefaultRoleMap, RoleViewer, RoleAnalyst, RoleAdmin
<1>2. mapped \subseteq 1..3
  BY <1>1
<1>3. MapRoles(roles) = IF mapped = {} THEN RoleNone
                        ELSE CHOOSE r \in mapped : \A q \in mapped : r >= q
  BY Zenon DEF MapRoles
<1>4. min \in 1..3 /\ RoleNone = 0 /\ Roles = 0..3
  BY DEF Roles, RoleNone, RoleAdmin
<1>5. (\E n \in names : DefaultRoleMap[n] >= min) <=> (\E r \in mapped : r >= min)
  OBVIOUS
<1> HIDE DEF mapped
<1>6. CASE mapped = {}
  BY <1>3, <1>4, <1>5, <1>6
<1>7. CASE mapped # {}
  <2>0. mapped \subseteq 0..3
    BY <1>2
  <2>1. PICK r \in mapped : \A q \in mapped : r >= q
    BY <1>7, <2>0, Greatest
  <2>2. /\ MapRoles(roles) \in mapped
        /\ \A q \in mapped : MapRoles(roles) >= q
    BY <1>3, <1>7, <2>1
  <2> DEFINE m == MapRoles(roles)
  <2> HIDE DEF m
  <2>3. m \in 1..3 /\ \A q \in mapped : q \in 1..3 /\ m >= q
    BY <1>2, <2>2 DEF m
  <2>4. m >= min <=> \E q \in mapped : q >= min
    BY <1>4, <2>2, <2>3 DEF m
  <2>5. m \in Roles
    BY <1>4, <2>3
  <2>6. QED
    BY <1>5, <2>4, <2>5 DEF m
<1>8. QED
  BY <1>6, <1>7

\* What verify makes of a token whose key it has found.
LEMMA VerifiedIsVouched ==
  ASSUME config \in Configs, clock \in Nat, NEW c \in DOMAIN Token, NEW trusted,
         Token[c].alg = "RS256", Token[c].kid \in trusted, NEW min \in Roles \ {RoleNone}
  PROVE  /\ VerifiedRole(Token[c], clock, config.audience) \in Roles
         /\ VerifiedRole(Token[c], clock, config.audience) >= min
              <=> Vouches(Token[c], min, trusted)
<1> DEFINE tok  == Token[c]
           good == /\ tok.signer = tok.kid /\ ~Expired(tok, clock) /\ tok.iss
                   /\ config.audience => tok.aud
<1>1. /\ tok.exp \in Int /\ tok.iss \in BOOLEAN /\ tok.aud \in BOOLEAN
      /\ config.audience \in BOOLEAN
  BY TokenAssumption, GateAssumption
<1>2. ~Expired(tok, clock) <=> (tok.exp = 0 \/ clock < tok.exp)
  BY <1>1 DEF Expired
<1>3. Vouches(tok, min, trusted) <=>
        good /\ \E n \in tok.roles \cap DOMAIN DefaultRoleMap : DefaultRoleMap[n] >= min
  BY <1>1, <1>2 DEF Vouches
<1>4. VerifiedRole(tok, clock, config.audience) = IF good THEN MapRoles(tok.roles) ELSE RoleNone
  BY Zenon DEF VerifiedRole
<1>5. RoleNone \in Roles /\ ~(RoleNone >= min)
  BY DEF Roles, RoleNone, RoleAdmin
<1> HIDE DEF good
<1>6. CASE good
  BY <1>3, <1>4, <1>6, MapRolesIsMax
<1>7. CASE ~good
  BY <1>3, <1>4, <1>5, <1>7
<1>8. QED
  BY <1>6, <1>7

\* A request behind the limiter names a role, and with an issuer a token.
LEMMA AtTheAuthenticator ==
  ASSUME IInv, NEW h \in Handlers, handler[h].pc \in {"auth", "fetch", "recheck", "verify"}
  PROVE  /\ config \in Configs /\ ~Insecure(config) /\ clock \in Nat /\ HandlerOK(handler[h])
         /\ handler[h].req.min \in Roles \ {RoleNone}
         /\ config.issuer /\ handler[h].req.cred # NoCredential
              => handler[h].req.cred \in DOMAIN Token
<1>1. /\ config \in Configs /\ ~Insecure(config) /\ clock \in Nat /\ HandlerOK(handler[h])
  BY DEF IInv, HandlerInv, ConfigInv, LimiterInv
<1>2. handler[h].req \in config.traffic /\ ~Public(handler[h].req)
  BY <1>1 DEF HandlerOK
<1>3. QED
  BY <1>1, <1>2, GateAssumption DEF Public

\* The API-key Authenticator, its answers and the key list.
LEMMA KeyAnswer ==
  ASSUME IInv, NEW h \in Handlers, CheckKey(h), NEW s, Answer(h, s), Answered(h, s)
  PROVE  /\ s = 200 /\ Authenticating =>
              \E e \in DOMAIN config.keySpec :
                 Grants(e, handler[h].req.cred, handler[h].req.min)
         /\ s \in {401, 403} => ~\E e \in DOMAIN config.keySpec :
                                 Grants(e, handler[h].req.cred, handler[h].req.min)
<1> DEFINE cred == handler[h].req.cred
           min  == handler[h].req.min
<1>1. /\ config \in Configs /\ ~Insecure(config) /\ min \in Roles /\ ~config.issuer
      /\ HandlerInv
  BY AtTheAuthenticator DEF CheckKey, IInv
<1>2. ASSUME NEW a, Answer(h, a) PROVE a = s
  BY <1>1, <1>2, AnswerIs
<1>3. CASE ~Enabled(Table)
  <2>1. s = 200
    BY <1>2, <1>3 DEF CheckKey
  <2>2. {config.keySpec[i].secret :
            i \in {j \in DOMAIN config.keySpec : WellFormed(config.keySpec[j])}} = {}
    BY <1>3, Zenon DEF Enabled, Table, ParseKeys
  <2>3. \A e \in DOMAIN config.keySpec : ~WellFormed(config.keySpec[e])
    BY <2>2
  <2>4. QED
    BY <1>1, <2>1, <2>3 DEF Authenticating
<1>4. CASE Enabled(Table) /\ cred \notin DOMAIN Table
  <2>1. s = 401
    BY <1>2, <1>4 DEF CheckKey
  <2>2. ~\E e \in DOMAIN config.keySpec : Grants(e, cred, min)
    BY <1>1, <1>4, GrantedRole
  <2>3. QED
    BY <2>1, <2>2
<1>5. CASE Enabled(Table) /\ cred \in DOMAIN Table
  <2>1. Permit(h, Table[cred])
    BY <1>5 DEF CheckKey
  <2>2. s = IF Table[cred] >= min THEN 200 ELSE 403
    BY <1>2, <2>1 DEF Permit, Meets
  <2>3. (\E e \in DOMAIN config.keySpec : Grants(e, cred, min)) => Table[cred] >= min
    BY <1>1, GrantedRole DEF Grants
  <2>4. Table[cred] >= min => \E e \in DOMAIN config.keySpec : Grants(e, cred, min)
    BY <1>1, <1>5, TableIsGranted
  <2>5. QED
    BY <2>2, <2>3, <2>4
<1>6. QED
  BY <1>3, <1>4, <1>5

\* The verifier, its answers and the token.
LEMMA TokenAnswer ==
  ASSUME IInv, NEW h \in Handlers, Verify(h), NEW s, Answer(h, s), Answered(h, s),
         NEW trusted, Tok(h).kid \in trusted
  PROVE  /\ config.issuer /\ handler[h].req.cred # NoCredential
         /\ s \in {200, 401, 403}
         /\ s = 200 <=> Vouches(Tok(h), handler[h].req.min, trusted)
<1> DEFINE cred == handler[h].req.cred
           min  == handler[h].req.min
           role == VerifiedRole(Tok(h), clock, config.audience)
<1>1. /\ config \in Configs /\ clock \in Nat /\ min \in Roles \ {RoleNone} /\ HandlerInv
      /\ config.issuer /\ cred # NoCredential /\ cred \in DOMAIN Token
      /\ Tok(h).alg = "RS256"
  BY AtTheAuthenticator DEF Verify, IInv, HandlerOK, Tok
<1>2. ASSUME NEW a, Answer(h, a) PROVE a = s
  BY <1>1, <1>2, AnswerIs
<1>3. role \in Roles /\ (role >= min <=> Vouches(Tok(h), min, trusted))
  BY <1>1, VerifiedIsVouched DEF Tok
<1>4. s = IF role = RoleNone THEN 401 ELSE IF role >= min THEN 200 ELSE 403
  BY <1>2 DEF Verify, Permit, Meets
<1>5. role = RoleNone => ~(role >= min)
  BY <1>1 DEF Roles, RoleNone, RoleAdmin
<1> HIDE DEF role
<1>6. QED
  BY <1>1, <1>3, <1>4, <1>5

\* In a deployment with an issuer or a usable key, a handler runs only on a public route or
\* for a caller whose role the key list or the issuer granted, by a key the issuer has
\* published: whatever the rest of the list holds, whatever requests fetch keys at the
\* same time and whatever the issuer rotates.
THEOREM NobodyWithoutARole == Spec => ServedWithRole
<1> DEFINE Right == \A h \in Handlers : Authenticating /\ Answered(h, 200) =>
             Public(handler[h].req) \/ Entitled(handler[h].req, issued)
<1>1. ASSUME IInv, [Next]_vars, NEW h \in Handlers, Authenticating, Answered(h, 200)
      PROVE  Public(handler[h].req) \/ Entitled(handler[h].req, issued)
  <2>1. Step(h)
    BY <1>1, WhoAnswers
  <2>2. CASE Limit(h) /\ Public(handler[h].req)
    BY <2>2
  <2>3. CASE CheckKey(h) /\ Answer(h, 200)
    BY <1>1, <2>3, KeyAnswer DEF Entitled, CheckKey
  <2>4. CASE Verify(h) /\ Answer(h, 200)
    <3>1. Tok(h).kid \in issued
      BY <1>1, <2>4 DEF Verify, IInv, HandlerInv, HandlerOK, Tok
    <3>2. QED
      BY <1>1, <2>4, <3>1, TokenAnswer DEF Entitled, Tok
  <2>5. QED
    BY <1>1, <2>1, <2>2, <2>3, <2>4, WhereAnswered
<1>2. IInv /\ [Next]_vars => [Right]_vars
  BY <1>1
<1>3. QED
  BY InitInv, NextInv, <1>2, PTL DEF Spec, ServedWithRole

\* A caller with the role and with a key that lasts is refused only by his own failed fetch:
\* a key set is installed before fetched is set, and a request looks again only after.
THEOREM NobodyIsLockedOut == Spec => EntitledIsServed
<1> DEFINE Kept == \A h \in Handlers :
             (Answered(h, 401) \/ Answered(h, 403)) /\ Entitled(handler[h].req, Lasting)
             => handler[h].pc = "fetch"
<1>1. ASSUME IInv, [Next]_vars, NEW h \in Handlers, NEW s \in {401, 403}, Answered(h, s),
             Entitled(handler[h].req, Lasting)
      PROVE  handler[h].pc = "fetch"
  <2>1. Step(h) /\ HandlerOK(handler[h]) /\ (fetched => Lasting \subseteq keys)
    BY <1>1, WhoAnswers DEF IInv, HandlerInv, KeyInv
  <2>2. config.issuer => /\ handler[h].req.cred # NoCredential /\ Tok(h).alg = "RS256"
                         /\ Tok(h).kid \in Lasting
                         /\ Vouches(Tok(h), handler[h].req.min, Lasting)
    BY <1>1 DEF Entitled, Vouches, Tok
  <2>3. ~(CheckKey(h) /\ Answer(h, s))
    BY <1>1, KeyAnswer DEF Entitled, CheckKey
  <2>4. ~(LookupKey(h) /\ (\/ handler[h].req.cred = NoCredential
                           \/ Tok(h).alg # "RS256"
                           \/ Tok(h).kid \notin keys /\ fetched))
    BY <2>1, <2>2 DEF LookupKey
  <2>5. ~(Recheck(h) /\ Tok(h).kid \notin keys)
    BY <2>1, <2>2 DEF Recheck, HandlerOK
  <2>6. ~(Verify(h) /\ Answer(h, s))
    <3>1. CASE config.issuer
      BY <1>1, <2>2, <3>1, TokenAnswer
    <3>2. CASE ~config.issuer
      BY <1>1, <3>2, AtTheAuthenticator DEF Verify, HandlerOK
    <3>3. QED
      BY <3>1, <3>2
  <2>7. Fetch(h)
    BY <1>1, <2>1, <2>3, <2>4, <2>5, <2>6, WhereAnswered
  <2>8. QED
    BY <2>7 DEF Fetch
<1>2. IInv /\ [Next]_vars => [Kept]_vars
  BY <1>1
<1>3. QED
  BY InitInv, NextInv, <1>2, PTL DEF Spec, EntitledIsServed
=============================================================================
