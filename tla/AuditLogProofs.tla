--------------------------- MODULE AuditLogProofs ---------------------------
(***************************************************************************)
(* The audit chain never forks, for any set of requests, any clock and any *)
(* resolution of the ts column.                                            *)
(*                                                                         *)
(* Requests in the transaction hold the lock, so there is at most one; what *)
(* it read stays the newest entry until it commits, and the sequence number *)
(* it drew stays above every visible one.                                  *)
(***************************************************************************)
EXTENDS AuditLog, TLAPS

\* What the request that has read the newest hash may rely on.
ReadNewest(r) ==
  \/ Seqs = {} /\ last[r] = Genesis
  \/ \E s \in Seqs : Newest(s) /\ last[r] = rows[s].hash

DraftReady(r) ==
  /\ draft[r].seq \in Nat /\ draft[r].seq >= 1 /\ draft[r].seq < next
  /\ draft[r].req = r
  /\ draft[r].status = outcome[r]
  /\ draft[r].prev = last[r]
  /\ \A s \in Seqs : s < draft[r].seq

LockInv ==
  \A r \in Requests :
    /\ pc[r] \in Inside => lock = r
    /\ pc[r] \in {"read", "inserted"} => ReadNewest(r)
    /\ pc[r] = "inserted" => DraftReady(r)

\* Only a request whose append has ended has an entry.
EntryInv == \A s \in Seqs : pc[rows[s].req] \in Over

\* Hashes are untyped: only the shape of these two is needed.
FunctionInv == /\ last = [r \in Requests |-> last[r]]
               /\ draft = [r \in Requests |-> draft[r]]

IInv == TypeOK /\ FunctionInv /\ LockInv /\ EntryInv /\ ChainLinked /\ OneEntryPerRequest

-----------------------------------------------------------------------------

LEMMA InitInv == Init => IInv
  BY AuditAssumption DEF Init, IInv, TypeOK, FunctionInv, LockInv, EntryInv, ChainLinked,
     OneEntryPerRequest, Seqs, Inside, Over

\* An action that leaves the log, the drafts and the outcomes alone only has to
\* respect the lock.
LEMMA QuietStep ==
  ASSUME IInv, NEW r \in Requests, NEW p \in {"begin", "locked", "dropped"},
         pc' = [pc EXCEPT ![r] = p],
         UNCHANGED <<last, draft, rows, next>>,
         \/ p = "begin" /\ pc[r] = "handling" /\ lock' = lock
            /\ \E o \in {"done", "refused"} : outcome' = [outcome EXCEPT ![r] = o]
         \/ p = "locked" /\ pc[r] = "begin" /\ lock = Nobody /\ lock' = r
            /\ outcome' = outcome
         \/ p = "dropped" /\ pc[r] \in {"begin"} \cup Inside
            /\ lock' = (IF lock = r THEN Nobody ELSE lock) /\ outcome' = outcome
  PROVE  IInv'
<1>1. TypeOK'
  BY DEF IInv, TypeOK, Seqs, Inside, Over
<1>2. LockInv'
  BY AuditAssumption DEF IInv, TypeOK, LockInv, ReadNewest, DraftReady, Newest, Seqs, Inside
<1>3. EntryInv'
  BY DEF IInv, TypeOK, EntryInv, Seqs, Inside, Over
<1>4. ChainLinked'
  BY DEF IInv, ChainLinked, Linked, First, Follows, Seqs
<1>5. OneEntryPerRequest'
  BY DEF IInv, TypeOK, EntryInv, OneEntryPerRequest, Seqs, Inside, Over
<1>6. FunctionInv'
  BY DEF IInv, FunctionInv
<1> QED BY <1>1, <1>2, <1>3, <1>4, <1>5, <1>6 DEF IInv

LEMMA HandleInv == ASSUME NEW r \in Requests PROVE IInv /\ Handle(r) => IInv'
  BY QuietStep DEF Handle, Goto

LEMMA LockStepInv == ASSUME NEW r \in Requests PROVE IInv /\ Lock(r) => IInv'
  BY QuietStep DEF Lock, TakeLock, Goto

LEMMA DropInv == ASSUME NEW r \in Requests PROVE IInv /\ Drop(r) => IInv'
  BY QuietStep DEF Drop, ReleaseOnAbort, Unlock, Goto

LEMMA ReadLastInv == ASSUME NEW r \in Requests PROVE IInv /\ ReadLast(r) => IInv'
<1> SUFFICES ASSUME IInv, ReadLast(r) PROVE IInv'
  OBVIOUS
<1>1. pc[r] = "locked" /\ pc' = [pc EXCEPT ![r] = "read"]
      /\ UNCHANGED <<outcome, lock, draft, rows, next>>
  BY DEF ReadLast, Goto
<1>2. TypeOK'
  BY <1>1 DEF IInv, TypeOK, Seqs, Inside
<1>3. LockInv'
  <2> SUFFICES ASSUME NEW q \in Requests
               PROVE  /\ pc'[q] \in Inside => lock' = q
                      /\ pc'[q] \in {"read", "inserted"} => ReadNewest(q)'
                      /\ pc'[q] = "inserted" => DraftReady(q)'
    BY DEF LockInv
  <2>1. CASE q = r
    <3>1. \/ Seqs = {} /\ last' = [last EXCEPT ![r] = Genesis]
          \/ \E s \in Seqs : Newest(s) /\ last' = [last EXCEPT ![r] = rows[s].hash]
      BY DEF ReadLast
    <3> QED
      BY <1>1, <2>1, <3>1 DEF IInv, TypeOK, FunctionInv, LockInv, ReadNewest, Newest, Seqs, Inside
  <2>2. CASE q # r
    BY <1>1, <2>2 DEF IInv, TypeOK, LockInv, Inside
  <2> QED BY <2>1, <2>2
<1>4. EntryInv'
  BY <1>1 DEF IInv, TypeOK, EntryInv, Seqs, Over
<1>5. ChainLinked' /\ OneEntryPerRequest'
  BY <1>1 DEF IInv, ChainLinked, Linked, First, Follows, OneEntryPerRequest, Seqs
<1>6. FunctionInv'
  BY <1>1 DEF IInv, FunctionInv, ReadLast
<1> QED BY <1>2, <1>3, <1>4, <1>5, <1>6 DEF IInv

LEMMA InsertInv == ASSUME NEW r \in Requests PROVE IInv /\ Insert(r) => IInv'
<1> SUFFICES ASSUME IInv, Insert(r) PROVE IInv'
  OBVIOUS
<1>1. /\ pc[r] = "read" /\ pc' = [pc EXCEPT ![r] = "inserted"]
      /\ next' = next + 1
      /\ UNCHANGED <<outcome, lock, last, rows>>
  BY DEF Insert, Goto, Advance
<1>2. PICK t \in Times : draft' = [draft EXCEPT ![r] = Entry(r, next, last[r], t)]
  BY DEF Insert
<1>3. TypeOK'
  BY <1>1 DEF IInv, TypeOK, Seqs, Inside
<1>4. LockInv'
  <2> SUFFICES ASSUME NEW q \in Requests
               PROVE  /\ pc'[q] \in Inside => lock' = q
                      /\ pc'[q] \in {"read", "inserted"} => ReadNewest(q)'
                      /\ pc'[q] = "inserted" => DraftReady(q)'
    BY DEF LockInv
  <2>1. CASE q = r
    <3>1. draft'[r] = Entry(r, next, last[r], t)
      BY <1>2 DEF IInv, FunctionInv
    <3> QED
      BY <1>1, <2>1, <3>1 DEF IInv, TypeOK, LockInv, ReadNewest, DraftReady, Newest,
         Seqs, Inside, Entry
  <2>2. CASE q # r
    BY <1>1, <2>2 DEF IInv, TypeOK, LockInv, Inside
  <2> QED BY <2>1, <2>2
<1>5. EntryInv'
  BY <1>1 DEF IInv, TypeOK, EntryInv, Seqs, Over
<1>6. ChainLinked' /\ OneEntryPerRequest'
  BY <1>1 DEF IInv, ChainLinked, Linked, First, Follows, OneEntryPerRequest, Seqs
<1>7. FunctionInv'
  BY <1>1, <1>2 DEF IInv, FunctionInv
<1> QED BY <1>3, <1>4, <1>5, <1>6, <1>7 DEF IInv

\* What a commit does to the log, under the invariant: one row, above all others,
\* that continues the newest one.
LEMMA CommitAppends ==
  ASSUME IInv, NEW r \in Requests, Commit(r)
  PROVE  /\ draft[r].seq \notin Seqs
         /\ DOMAIN rows' = Seqs \cup {draft[r].seq}
         /\ rows'[draft[r].seq] = draft[r]
         /\ \A s \in Seqs : rows'[s] = rows[s] /\ s < draft[r].seq
         /\ DraftReady(r) /\ ReadNewest(r) /\ lock = r
  BY DEF IInv, TypeOK, LockInv, Commit, DraftReady, Seqs, Inside

LEMMA CommitInv == ASSUME NEW r \in Requests PROVE IInv /\ Commit(r) => IInv'
<1> SUFFICES ASSUME IInv, Commit(r) PROVE IInv'
  OBVIOUS
<1>0. PICK n : n = draft[r].seq
  OBVIOUS
<1>1. /\ n \notin Seqs
      /\ DOMAIN rows' = Seqs \cup {n}
      /\ rows'[n] = draft[r]
      /\ \A s \in Seqs : rows'[s] = rows[s] /\ s < n
      /\ DraftReady(r) /\ ReadNewest(r) /\ lock = r
  BY <1>0, CommitAppends
<1>2. PICK p \in Over : pc' = [pc EXCEPT ![r] = p]
  BY DEF Commit, Answered, Over, Goto
<1>3. /\ pc[r] = "inserted"
      /\ lock' = Nobody
      /\ UNCHANGED <<outcome, last, draft, next>>
  BY <1>1 DEF Commit, Unlock
<1>4. TypeOK'
  BY <1>0, <1>1, <1>2, <1>3 DEF IInv, TypeOK, DraftReady, Seqs, Over
<1>5. LockInv'
  BY <1>1, <1>2, <1>3 DEF IInv, TypeOK, LockInv, Inside, Over
<1>6. EntryInv'
  BY <1>0, <1>1, <1>2, <1>3 DEF IInv, TypeOK, EntryInv, DraftReady, Seqs, Over
<1>7. ChainLinked'
  <2> SUFFICES ASSUME NEW s \in DOMAIN rows' PROVE Linked(s)'
    BY DEF ChainLinked, Seqs
  <2>1. CASE s = n
    <3>1. First(n)' => Seqs = {}
      BY <1>1 DEF First, Seqs
    <3>2. ASSUME NEW t \in DOMAIN rows', Follows(n, t)' PROVE t \in Seqs /\ Newest(t)
      BY <1>0, <1>1, <3>2 DEF IInv, TypeOK, Follows, Newest, Seqs, DraftReady
    <3>3. \A t \in Seqs : Newest(t) => rows'[n].prev = rows'[t].hash
      BY <1>1 DEF IInv, TypeOK, ReadNewest, DraftReady, Newest
    <3>4. Seqs = {} => rows'[n].prev = Genesis
      BY <1>1 DEF ReadNewest, DraftReady
    <3> QED BY <1>1, <2>1, <3>1, <3>2, <3>3, <3>4 DEF Linked, Seqs
  <2>2. CASE s \in Seqs
    <3>1. First(s)' <=> First(s)
      BY <1>0, <1>1, <2>2 DEF IInv, TypeOK, DraftReady, First, Seqs
    <3>2. \A t \in DOMAIN rows' : Follows(s, t)' => t \in Seqs /\ Follows(s, t)
      BY <1>0, <1>1, <2>2 DEF IInv, TypeOK, DraftReady, Follows, Seqs
    <3> QED BY <1>1, <2>2, <3>1, <3>2 DEF IInv, ChainLinked, Linked, Seqs
  <2> QED BY <1>1, <2>1, <2>2
<1>8. OneEntryPerRequest'
  BY <1>0, <1>1, <1>2, <1>3 DEF IInv, TypeOK, EntryInv, DraftReady, OneEntryPerRequest, Seqs, Over
<1>9. FunctionInv'
  BY <1>3 DEF IInv, FunctionInv
<1> QED BY <1>4, <1>5, <1>6, <1>7, <1>8, <1>9 DEF IInv

LEMMA StepInv == IInv /\ [Next]_vars => IInv'
<1> SUFFICES ASSUME IInv, [Next]_vars PROVE IInv'
  OBVIOUS
<1>1. ASSUME NEW r \in Requests, Handle(r) \/ AppendAudit(r) \/ Drop(r) PROVE IInv'
  BY <1>1, HandleInv, LockStepInv, ReadLastInv, InsertInv, CommitInv, DropInv
     DEF AppendAudit
<1>2. CASE Idle \/ UNCHANGED vars
  BY <1>2 DEF Idle, vars, IInv, TypeOK, FunctionInv, LockInv, ReadNewest, DraftReady, Newest,
     EntryInv, ChainLinked, Linked, First, Follows, OneEntryPerRequest, Seqs
<1> QED BY <1>1, <1>2 DEF Next

-----------------------------------------------------------------------------

\* The strengthened invariant holds of every reachable state: auditMiddleware and
\* AppendAudit, any number of requests, any interleaving, failures included.
THEOREM Inductive == Spec => []IInv
<1> QED BY InitInv, StepInv, PTL DEF Spec

\* Types of the audit log's state: AppendAudit (internal/store/audit.go).
THEOREM AuditTypes == Spec => []TypeOK
<1>1. IInv => TypeOK
  BY DEF IInv
<1> QED BY <1>1, Inductive, PTL

\* The hash chain cannot fork under concurrent writers, which is what the comment
\* on auditLockKey claims.
THEOREM NoFork == Spec => []ChainLinked
<1>1. IInv => ChainLinked
  BY DEF IInv
<1> QED BY <1>1, Inductive, PTL

\* An audited request has one entry at most, with the status it was answered with.
THEOREM OneEntry == Spec => []OneEntryPerRequest
<1>1. IInv => OneEntryPerRequest
  BY DEF IInv
<1> QED BY <1>1, Inductive, PTL

\* The log only grows at its end: rows become visible in the order of their
\* BIGSERIAL numbers, so a reader never finds an entry before one it has seen.
THEOREM GrowsAtTheEnd == Spec => AppendOnly
<1> DEFINE Step == /\ Seqs \subseteq DOMAIN rows'
                   /\ \A s \in Seqs : rows'[s] = rows[s]
                   /\ \A s \in DOMAIN rows' \ Seqs, t \in Seqs : t < s
<1>1. IInv /\ [Next]_vars => [Step]_vars
  <2> SUFFICES ASSUME IInv, Next PROVE Step
    OBVIOUS
  <2>1. ASSUME NEW r \in Requests, Commit(r) PROVE Step
    BY <2>1, CommitAppends
  <2>2. CASE UNCHANGED rows
    BY <2>2 DEF Seqs
  <2> QED
    BY <2>1, <2>2 DEF Next, Idle, vars, Handle, AppendAudit, Lock, ReadLast, Insert, Drop
<1>2. Spec => [][Step]_vars
  BY <1>1, Inductive, PTL DEF Spec
<1> QED BY <1>2 DEF AppendOnly

=============================================================================
