----------------------------- MODULE OtpProofs -----------------------------
(***************************************************************************)
(* Type correctness of Otp, and the bound on outstanding codes.            *)
(***************************************************************************)
EXTENDS Otp, FiniteSetTheorems, TLAPS

USE DEF Ids, Times

\* The two default records are well typed.
LEMMA DefaultsTyped == Idle \in Request /\ NoRow \in Row /\ Idle.at = "idle"
                       /\ Idle.seen = 0 /\ NoRow.status = "ABSENT"
<1>1. (CHOOSE t \in Types : TRUE) \in Types
  BY OpsAssumption
<1> QED
  BY <1>1, BoundsAssumption, LimitAssumption
     DEF Idle, NoRow, Request, Row, Labels, AllOps, Status

\* Writing one place of a function.
LEMMA UpdateTyped ==
    ASSUME NEW S, NEW T, NEW f \in [S -> T], NEW x \in S, NEW v \in T
    PROVE  [f EXCEPT ![x] = v] \in [S -> T]
OBVIOUS

\* Going on to an await keeps the requests well typed.
LEMMA GotoTyped ==
    ASSUME rq \in [Procs -> Request], NEW p \in Procs, NEW l \in Labels, Goto(p, l)
    PROVE  rq' \in [Procs -> Request]
<1>1. [rq[p] EXCEPT !.at = l] \in Request
  BY DEF Request
<1> QED
  BY <1>1, DefaultsTyped DEF Goto

\* So does recording the row a findFirst returned.
LEMMA ReadTyped ==
    ASSUME TypeOK, NEW p \in Procs, NEW l \in Labels, NEW i \in 0..MaxOtps, Read(p, i, l)
    PROVE  rq' \in [Procs -> Request]
<1>1. (IF i = 0 THEN 0 ELSE otp[i].attempts) \in 0..Attempts
  BY BoundsAssumption, LimitAssumption DEF TypeOK, Row
<1>2. rq[p] \in Request
  BY DEF TypeOK
<1>3. [rq[p] EXCEPT !.at = l, !.seen = i,
                    !.tries = IF i = 0 THEN 0 ELSE otp[i].attempts] \in Request
  BY <1>1, <1>2 DEF Request
<1> QED
  BY <1>3, DefaultsTyped DEF Read, TypeOK


\* Deleting a row keeps the table well typed.
LEMMA DeleteTyped ==
    ASSUME otp \in [Ids -> Row], NEW i, DeleteRow(i)
    PROVE  otp' \in [Ids -> Row]
BY DefaultsTyped DEF DeleteRow

\* Counting on, or resetting the count, yields a counter.
LEMMA CounterTyped ==
    ASSUME req \in [exists : BOOLEAN, count : Nat, since : Times], NEW n \in Nat
    PROVE  [req EXCEPT !.count = n] \in [exists : BOOLEAN, count : Nat, since : Times]
OBVIOUS

LEMMA InitTyped == Init => TypeOK
BY DefaultsTyped, BoundsAssumption DEF Init, TypeOK

\* Every step of Otp keeps the state well typed; that attempts never goes
\* below zero rests on what a request at "v_wrong" has read (ReadsOK).
LEMMA StepTyped == TypeOK /\ ReadsOK /\ [Next]_vars => TypeOK'
<1> SUFFICES ASSUME TypeOK, ReadsOK, [Next]_vars
             PROVE  TypeOK'
  OBVIOUS
<1> USE BoundsAssumption, LimitAssumption, PeriodAssumption
<1>lab. /\ "idle" \in Labels /\ "c_req" \in Labels /\ "c_reset" \in Labels /\ "c_new" \in Labels
        /\ "c_find" \in Labels /\ "c_del" \in Labels /\ "c_ins" \in Labels
        /\ "c_count" \in Labels /\ "c_notify" \in Labels /\ "c_log" \in Labels
        /\ "r_find" \in Labels /\ "r_del" \in Labels /\ "r_log" \in Labels
        /\ "v_find" \in Labels /\ "v_expire" \in Labels /\ "v_wrong" \in Labels
        /\ "v_ok" \in Labels /\ "v_log" \in Labels
  BY DEF Labels
<1>1. CASE UNCHANGED vars
  BY <1>1 DEF TypeOK, vars, stored, ghost
<1>2. ASSUME NEW p \in Procs, ReadCounter(p) PROVE TypeOK'
  <2>1. rq' \in [Procs -> Request]
    BY <1>2, <1>lab, GotoTyped DEF ReadCounter, Reply, TypeOK
  <2> QED
    BY <1>2, <2>1 DEF ReadCounter, TypeOK, stored, ghost
<1>3. ASSUME NEW p \in Procs, ResetCounter(p) PROVE TypeOK'
  <2>1. rq' \in [Procs -> Request]
    BY <1>3, <1>lab, GotoTyped DEF ResetCounter, TypeOK
  <2>2. req' \in [exists : BOOLEAN, count : Nat, since : Times]
    BY <1>3, CounterTyped DEF ResetCounter, TypeOK
  <2> QED
    BY <1>3, <2>1, <2>2 DEF ResetCounter, TypeOK, ghost
<1>4. ASSUME NEW p \in Procs, NewCounter(p) PROVE TypeOK'
  <2>1. rq' \in [Procs -> Request]
    BY <1>4, <1>lab, GotoTyped DEF NewCounter, Reply, TypeOK
  <2>2. req' \in [exists : BOOLEAN, count : Nat, since : Times]
    <3>1. [exists |-> TRUE, count |-> 0, since |-> now]
              \in [exists : BOOLEAN, count : Nat, since : Times]
      BY DEF TypeOK
    <3> QED
      BY <1>4, <3>1 DEF NewCounter, TypeOK
  <2> QED
    BY <1>4, <2>1, <2>2 DEF NewCounter, TypeOK, ghost
<1>5. ASSUME NEW p \in Procs, FindPrevious(p) PROVE TypeOK'
  <2>1. rq' \in [Procs -> Request]
    BY <1>5, <1>lab, ReadTyped DEF FindPrevious
  <2> QED
    BY <1>5, <2>1 DEF FindPrevious, TypeOK, stored, ghost
<1>6. ASSUME NEW p \in Procs, DeletePrevious(p) PROVE TypeOK'
  <2>1. rq' \in [Procs -> Request] /\ otp' \in [Ids -> Row]
    BY <1>6, <1>lab, GotoTyped, DeleteTyped DEF DeletePrevious, Reply, TypeOK
  <2> QED
    BY <1>6, <2>1 DEF DeletePrevious, TypeOK, ghost
<1>7. ASSUME NEW p \in Procs, InsertRow(p) PROVE TypeOK'
  <2>1. rq' \in [Procs -> Request]
    BY <1>7, <1>lab, GotoTyped DEF InsertRow, TypeOK
  <2>2. [status |-> "PENDING", type |-> rq[p].type, user |-> rq[p].user,
         attempts |-> Attempts, expiresAt |-> now + OtpTtl] \in Row
    BY DEF TypeOK, Request, Row, Status
  <2>3. otp' \in [Ids -> Row] /\ nextId' \in 1..(MaxOtps + 1)
    BY <1>7, <2>2 DEF InsertRow, TypeOK
  <2> QED
    BY <1>7, <2>1, <2>3 DEF InsertRow, TypeOK, ghost
<1>8. ASSUME NEW p \in Procs, IncrementCounter(p) PROVE TypeOK'
  <2>1. rq' \in [Procs -> Request]
    BY <1>8, <1>lab, GotoTyped DEF IncrementCounter, TypeOK
  <2>2. req.count + 1 \in Nat
    BY DEF TypeOK
  <2>3. req' \in [exists : BOOLEAN, count : Nat, since : Times]
    <3>1. [req EXCEPT !.count = req.count + 1]
              \in [exists : BOOLEAN, count : Nat, since : Times]
      BY <2>2, CounterTyped DEF TypeOK
    <3> QED
      BY <1>8, <3>1 DEF IncrementCounter
  <2> QED
    BY <1>8, <2>1, <2>3 DEF IncrementCounter, TypeOK, ghost
<1>9. ASSUME NEW p \in Procs, Notify(p) PROVE TypeOK'
  <2>1. rq' \in [Procs -> Request]
    BY <1>9, <1>lab, GotoTyped DEF Notify, TypeOK
  <2>2. sent' \in Seq(Times)
    BY <1>9 DEF Notify, TypeOK
  <2> QED
    BY <1>9, <2>1, <2>2 DEF Notify, TypeOK, stored
<1>10. ASSUME NEW p \in Procs, LogActivity(p) PROVE TypeOK'
  <2>1. rq' \in [Procs -> Request]
    BY <1>10, <1>lab, GotoTyped DEF LogActivity, Reply, TypeOK
  <2> QED
    BY <1>10, <2>1 DEF LogActivity, TypeOK, stored, ghost
<1>11. ASSUME NEW p \in Procs, FindForResend(p) PROVE TypeOK'
  <2>1. rq' \in [Procs -> Request]
    BY <1>11, <1>lab, ReadTyped DEF FindForResend, AfterResendDelete
  <2> QED
    BY <1>11, <2>1 DEF FindForResend, TypeOK, stored, ghost
<1>12. ASSUME NEW p \in Procs, DeleteForResend(p) PROVE TypeOK'
  <2>1. rq' \in [Procs -> Request] /\ otp' \in [Ids -> Row]
    BY <1>12, <1>lab, GotoTyped, DeleteTyped DEF DeleteForResend, AfterResendDelete, Reply, TypeOK
  <2> QED
    BY <1>12, <2>1 DEF DeleteForResend, TypeOK, ghost
<1>13. ASSUME NEW p \in Procs, ReadRow(p) PROVE TypeOK'
  <2>1. rq' \in [Procs -> Request]
    BY <1>13, <1>lab, ReadTyped DEF ReadRow, Verdict
  <2> QED
    BY <1>13, <2>1 DEF ReadRow, TypeOK, stored, ghost
<1>14. ASSUME NEW p \in Procs, MarkExpired(p) PROVE TypeOK'
  <2>1. rq' \in [Procs -> Request]
    BY <1>14, <1>lab, GotoTyped DEF MarkExpired, Reply, TypeOK
  <2>2. otp' \in [Ids -> Row]
    <3>1. "EXPIRED" \in Status
      BY DEF Status
    <3>2. ASSUME NEW r \in Row PROVE [r EXCEPT !.status = "EXPIRED"] \in Row
      BY <3>1, LimitAssumption DEF Row
    <3> QED
      BY <1>14, <3>2 DEF MarkExpired, TypeOK
  <2> QED
    BY <1>14, <2>1, <2>2 DEF MarkExpired, TypeOK, ghost
<1>15. ASSUME NEW p \in Procs, WriteAttempts(p) PROVE TypeOK'
  <2>1. rq' \in [Procs -> Request]
    BY <1>15, <1>lab, GotoTyped DEF WriteAttempts, Reply, TypeOK
  <2>2. rq[p].tries - 1 \in 0..Attempts
    <3>1. rq[p].tries \in 0..Attempts /\ rq[p].tries > 0
      BY <1>15 DEF WriteAttempts, ReadsOK, ReadOK, TypeOK, Request
    <3> QED
      BY <3>1
  <2>3. otp' \in [Ids -> Row] /\ wrong' \in [Ids -> Nat]
    <3>1. ASSUME NEW r \in Row PROVE [r EXCEPT !.attempts = rq[p].tries - 1] \in Row
      BY <2>2 DEF Row
    <3>2. rq[p].seen \in Ids
      BY <1>15 DEF WriteAttempts, ReadsOK, ReadOK, At
    <3>3. otp \in [Ids -> Row] /\ wrong \in [Ids -> Nat]
      BY DEF TypeOK
    <3>4. CASE Present(rq[p].seen)
      <4>1. [otp EXCEPT ![rq[p].seen] = [otp[rq[p].seen] EXCEPT !.attempts = rq[p].tries - 1]]
            \in [Ids -> Row]
        BY <3>1, <3>2, <3>3, UpdateTyped
      <4>2. [wrong EXCEPT ![rq[p].seen] = wrong[rq[p].seen] + 1] \in [Ids -> Nat]
        BY <3>2, <3>3, UpdateTyped
      <4> QED
        BY <1>15, <3>4, <4>1, <4>2 DEF WriteAttempts
    <3>5. CASE ~Present(rq[p].seen)
      BY <1>15, <3>5 DEF WriteAttempts, TypeOK
    <3> QED
      BY <3>4, <3>5
  <2> QED
    BY <1>15, <2>1, <2>3 DEF WriteAttempts, TypeOK
<1>16. ASSUME NEW p \in Procs, MarkVerified(p) PROVE TypeOK'
  <2>1. rq' \in [Procs -> Request]
    BY <1>16, <1>lab, GotoTyped DEF MarkVerified, Reply, TypeOK
  <2>2. otp' \in [Ids -> Row] /\ accepted' \in [Ids -> Nat]
    <3>1. "VERIFIED" \in Status
      BY DEF Status
    <3>2. ASSUME NEW r \in Row PROVE [r EXCEPT !.status = "VERIFIED"] \in Row
      BY <3>1 DEF Row
    <3>3. rq[p].seen \in Ids
      BY <1>16 DEF MarkVerified, ReadsOK, ReadOK, At
    <3>4. otp \in [Ids -> Row] /\ accepted \in [Ids -> Nat]
      BY DEF TypeOK
    <3>5. CASE Present(rq[p].seen)
      <4>1. [otp EXCEPT ![rq[p].seen] = [otp[rq[p].seen] EXCEPT !.status = "VERIFIED"]]
            \in [Ids -> Row]
        BY <3>2, <3>3, <3>4, UpdateTyped
      <4>2. [accepted EXCEPT ![rq[p].seen] = accepted[rq[p].seen] + 1] \in [Ids -> Nat]
        BY <3>3, <3>4, UpdateTyped
      <4> QED
        BY <1>16, <3>5, <4>1, <4>2 DEF MarkVerified
    <3>6. CASE ~Present(rq[p].seen)
      BY <1>16, <3>6 DEF MarkVerified, TypeOK
    <3> QED
      BY <3>5, <3>6
  <2> QED
    BY <1>16, <2>1, <2>2 DEF MarkVerified, TypeOK
<1>17. ASSUME NEW p \in Procs, CallThrows(p) PROVE TypeOK'
  <2>1. rq' \in [Procs -> Request]
    BY <1>17, <1>lab, GotoTyped DEF CallThrows, Reply, TypeOK
  <2> QED
    BY <1>17, <2>1 DEF CallThrows, TypeOK, stored, ghost
<1>18. ASSUME NEW p \in Procs, NEW op \in AllOps, NEW t \in Types, NEW u \in Callers,
              NEW c \in 0..MaxOtps, Start(p, op, t, u, c)
       PROVE  TypeOK'
  <2>1. FirstAwait[op] \in Labels
    BY <1>lab DEF FirstAwait, AllOps
  <2>2. [at |-> FirstAwait[op], op |-> op, type |-> t, user |-> u, code |-> c, seen |-> 0,
         tries |-> 0] \in Request
    BY <2>1, OpsAssumption DEF Request
  <2> QED
    BY <1>18, <2>2 DEF Start, TypeOK, stored, ghost
<1>19. CASE CronScan
  BY <1>19 DEF CronScan, TypeOK, stored, ghost
<1>20. ASSUME NEW i \in Ids, CronDelete(i) PROVE TypeOK'
  <2>1. otp' \in [Ids -> Row]
    BY <1>20, DeleteTyped DEF CronDelete, TypeOK
  <2> QED
    BY <1>20, <2>1 DEF CronDelete, TypeOK, ghost
<1>21. ASSUME NEW i \in Ids, CronCrash(i) PROVE TypeOK'
  BY <1>21, DefaultsTyped DEF CronCrash, TypeOK, stored, ghost
<1>22. CASE Tick
  <2>1. now' \in Times
    BY <1>22, BoundsAssumption DEF Tick, TypeOK
  <2> QED
    BY <1>22, <2>1 DEF Tick, TypeOK, stored, ghost
<1> QED
  BY <1>1, <1>2, <1>3, <1>4, <1>5, <1>6, <1>7, <1>8, <1>9, <1>10, <1>11, <1>12, <1>13, <1>14,
     <1>15, <1>16, <1>17, <1>18, <1>19, <1>20, <1>21, <1>22
  DEF Next, Step, CreateStep, ResendStep, VerifyStep

\* Facts about the row a findFirst returned.
LEMMA LatestFacts ==
    ASSUME TypeOK, NoRowBeyond, NEW t, NEW u, NEW i \in 0..MaxOtps,
           IsLatest(i, t, u) \/ IsSome(i, t, u)
    PROVE  /\ i # 0 => i \in Ids /\ Present(i) /\ otp[i].type = t
           /\ i < nextId
<1>1. i # 0 => i \in Ids /\ Present(i) /\ otp[i].type = t
  BY BoundsAssumption DEF IsLatest, IsSome, Matches, RowsOf
<1>2. i # 0 => i < nextId
  BY <1>1, BoundsAssumption DEF NoRowBeyond, TypeOK
<1> QED
  BY <1>1, <1>2 DEF TypeOK

\* No step makes a row present but the insertion, at nextId; a row keeps its type.
RowsMonotone ==
    /\ nextId' \in Nat /\ nextId' >= nextId
    /\ \A i \in Ids : i < nextId /\ Present(i)' => Present(i) /\ otp'[i].type = otp[i].type
    /\ \A i \in Ids : i >= nextId' => ~Present(i)'

\* Deleting rows, and rewriting the status or attempts of a row, is such a step.
LEMMA RewriteMonotone ==
    ASSUME TypeOK, NoRowBeyond, nextId' = nextId,
           \A i \in Ids : Present(i)' => Present(i) /\ otp'[i].type = otp[i].type
    PROVE  RowsMonotone
<1>1. nextId' \in Nat /\ nextId' >= nextId
  BY BoundsAssumption DEF TypeOK
<1>2. \A i \in Ids : i >= nextId' => ~Present(i)'
  <2> TAKE i \in Ids
  <2>1. i >= nextId => ~Present(i)
    BY DEF NoRowBeyond
  <2> QED
    BY <2>1
<1> QED
  BY <1>1, <1>2 DEF RowsMonotone

LEMMA DeleteMonotone ==
    ASSUME TypeOK, NoRowBeyond, nextId' = nextId, NEW j \in Ids, DeleteRow(j)
    PROVE  RowsMonotone
<1>1. \A i \in Ids : Present(i)' => Present(i) /\ otp'[i].type = otp[i].type
  BY DefaultsTyped DEF DeleteRow, Present, TypeOK
<1> QED
  BY <1>1, RewriteMonotone

LEMMA StepRows == TypeOK /\ ReadsOK /\ NoRowBeyond /\ [Next]_vars => RowsMonotone
<1> SUFFICES ASSUME TypeOK, ReadsOK, NoRowBeyond, [Next]_vars
             PROVE  RowsMonotone
  OBVIOUS
<1>1. CASE UNCHANGED <<otp, nextId>>
  BY <1>1, RewriteMonotone DEF Present
<1>2. ASSUME NEW p \in Procs, DeletePrevious(p) \/ DeleteForResend(p) PROVE RowsMonotone
  <2>1. rq[p].seen \in Ids
    BY <1>2 DEF DeletePrevious, DeleteForResend, At, ReadsOK, ReadOK
  <2>2. nextId' = nextId /\ (UNCHANGED otp \/ DeleteRow(rq[p].seen))
    BY <1>2 DEF DeletePrevious, DeleteForResend
  <2> QED
    BY <1>1, <2>1, <2>2, DeleteMonotone
<1>3. ASSUME NEW i \in Ids, CronDelete(i) PROVE RowsMonotone
  BY <1>3, DeleteMonotone DEF CronDelete
<1>4. ASSUME NEW p \in Procs, InsertRow(p) PROVE RowsMonotone
  <2>1. nextId' = nextId + 1 /\ nextId \in Ids
    BY <1>4, BoundsAssumption DEF InsertRow, TypeOK
  <2>2. \A i \in Ids : i # nextId => otp'[i] = otp[i]
    BY <1>4 DEF InsertRow, TypeOK
  <2> QED
    BY <2>1, <2>2, BoundsAssumption DEF RowsMonotone, NoRowBeyond, Present
<1>5. ASSUME NEW p \in Procs, MarkExpired(p) \/ WriteAttempts(p) \/ MarkVerified(p)
      PROVE  RowsMonotone
  <2>1. rq[p].seen \in Ids
    BY <1>5 DEF MarkExpired, WriteAttempts, MarkVerified, At, ReadsOK, ReadOK
  <2>2. nextId' = nextId
    BY <1>5 DEF MarkExpired, WriteAttempts, MarkVerified
  <2>3. \A i \in Ids : i # rq[p].seen => otp'[i] = otp[i]
    BY <1>5, <2>1 DEF MarkExpired, WriteAttempts, MarkVerified, TypeOK
  <2>4. CASE ~Present(rq[p].seen)
    BY <1>1, <1>5, <2>2, <2>4 DEF MarkExpired, WriteAttempts, MarkVerified
  <2>5. CASE Present(rq[p].seen)
    <3>1. otp[rq[p].seen] \in Row
      BY <2>1 DEF TypeOK
    <3>2. otp'[rq[p].seen].type = otp[rq[p].seen].type
      <4>1. \/ otp'[rq[p].seen] = [otp[rq[p].seen] EXCEPT !.status = "EXPIRED"]
            \/ otp'[rq[p].seen] = [otp[rq[p].seen] EXCEPT !.attempts = rq[p].tries - 1]
            \/ otp'[rq[p].seen] = [otp[rq[p].seen] EXCEPT !.status = "VERIFIED"]
        BY <1>5, <2>1, <2>5 DEF MarkExpired, WriteAttempts, MarkVerified, TypeOK
      <4> QED
        BY <3>1, <4>1 DEF Row
    <3>3. \A i \in Ids : Present(i)' => Present(i) /\ otp'[i].type = otp[i].type
      BY <2>3, <2>5, <3>2 DEF Present
    <3> QED
      BY <2>2, <3>3, RewriteMonotone
  <2> QED
    BY <2>4, <2>5
<1>6. ASSUME NEW p \in Procs,
             \/ ReadCounter(p) \/ ResetCounter(p) \/ NewCounter(p) \/ FindPrevious(p)
             \/ IncrementCounter(p) \/ Notify(p) \/ LogActivity(p) \/ FindForResend(p)
             \/ ReadRow(p) \/ CallThrows(p)
      PROVE  RowsMonotone
  BY <1>1, <1>6 DEF ReadCounter, ResetCounter, NewCounter, FindPrevious, IncrementCounter,
     Notify, LogActivity, FindForResend, ReadRow, CallThrows, stored
<1>7. ASSUME NEW p, NEW op, NEW t, NEW u, NEW c, Start(p, op, t, u, c) PROVE RowsMonotone
  BY <1>1, <1>7 DEF Start, stored
<1>8. ASSUME NEW i, CronCrash(i) PROVE RowsMonotone
  BY <1>1, <1>8 DEF CronCrash, stored
<1>9. CASE CronScan \/ Tick \/ UNCHANGED vars
  BY <1>1, <1>9 DEF CronScan, Tick, vars, stored
<1> QED
  BY <1>2, <1>3, <1>4, <1>5, <1>6, <1>7, <1>8, <1>9
  DEF Next, Step, CreateStep, ResendStep, VerifyStep

\* A request that does not move, is answered, or goes on without a new read,
\* keeps what it has read; so does one that reads.
LEMMA ReadKept ==
    ASSUME TypeOK, NEW q \in Procs, ReadOK(q), RowsMonotone, rq'[q] = rq[q]
    PROVE  ReadOK(q)'
<1>1. rq[q].seen \in 0..MaxOtps /\ rq[q].seen < nextId
  BY DEF ReadOK, TypeOK, Request
<1>2. rq'[q].seen < nextId'
  BY <1>1, BoundsAssumption DEF TypeOK, RowsMonotone
<1>3. ASSUME At(q, "c_del")', Present(rq[q].seen)'
      PROVE  otp'[rq'[q].seen].type = rq'[q].type
  <2>1. At(q, "c_del") /\ rq[q].seen \in Ids
    BY <1>3 DEF At, ReadOK
  <2>2. Present(rq[q].seen) /\ otp'[rq[q].seen].type = otp[rq[q].seen].type
    BY <1>1, <1>3, <2>1 DEF RowsMonotone, Present
  <2> QED
    BY <2>1, <2>2 DEF ReadOK
<1> QED
  BY <1>2, <1>3 DEF ReadOK, At

LEMMA IdleReadOK ==
    ASSUME TypeOK, NEW q \in Procs, RowsMonotone, rq'[q] = Idle
    PROVE  ReadOK(q)'
BY DefaultsTyped, BoundsAssumption DEF ReadOK, At, RowsMonotone, TypeOK

LEMMA GotoReadOK ==
    ASSUME TypeOK, NEW q \in Procs, ReadOK(q), RowsMonotone, NEW l \in Labels, Goto(q, l),
           l \notin {"c_del", "r_del", "v_expire", "v_wrong", "v_ok"}
    PROVE  ReadOK(q)'
<1>1. CASE l = "idle"
  BY <1>1, IdleReadOK DEF Goto, TypeOK
<1>2. CASE l # "idle"
  <2>1. rq[q] \in Request /\ rq'[q] = [rq[q] EXCEPT !.at = l]
    BY <1>2 DEF Goto, TypeOK
  <2>2. rq'[q].at = l /\ rq'[q].seen = rq[q].seen
    BY <2>1 DEF Request
  <2>3. rq[q].seen \in 0..MaxOtps /\ rq[q].seen < nextId
    BY <2>1 DEF Request, ReadOK
  <2> QED
    BY <2>2, <2>3, BoundsAssumption DEF ReadOK, At, RowsMonotone, TypeOK
<1> QED
  BY <1>1, <1>2

LEMMA ReadReadOK ==
    ASSUME TypeOK, NoRowBeyond, NEW q \in Procs, NEW i \in 0..MaxOtps, NEW l, NEW u,
           IsLatest(i, rq[q].type, u) \/ IsSome(i, rq[q].type, u), Read(q, i, l),
           UNCHANGED <<otp, nextId>>,
           l \in {"c_del", "r_del", "v_expire", "v_wrong", "v_ok"} => i # 0,
           l = "v_wrong" => otp[i].attempts > 0
    PROVE  ReadOK(q)'
<1> DEFINE n == IF i = 0 THEN 0 ELSE otp[i].attempts
<1>1. CASE l = "idle"
  <2>1. rq'[q] = Idle
    BY <1>1 DEF Read, TypeOK
  <2> QED
    BY <2>1, DefaultsTyped, BoundsAssumption DEF ReadOK, At, TypeOK
<1>2. CASE l # "idle"
  <2>1. rq[q] \in Request /\ rq'[q] = [rq[q] EXCEPT !.at = l, !.seen = i, !.tries = n]
    BY <1>2 DEF Read, TypeOK
  <2>2. rq'[q].at = l /\ rq'[q].seen = i /\ rq'[q].tries = n /\ rq'[q].type = rq[q].type
    BY <2>1 DEF Request
  <2>3. i < nextId /\ (i # 0 => i \in Ids /\ otp[i].type = rq[q].type)
    BY LatestFacts
  <2>4. l = "v_wrong" => n > 0
    OBVIOUS
  <2> QED
    BY <2>2, <2>3, <2>4 DEF ReadOK, At, Present
<1> QED
  BY <1>1, <1>2

LEMMA StepReads == TypeOK /\ ReadsOK /\ NoRowBeyond /\ [Next]_vars => ReadsOK' /\ NoRowBeyond'
<1> SUFFICES ASSUME TypeOK, ReadsOK, NoRowBeyond, [Next]_vars
             PROVE  ReadsOK' /\ NoRowBeyond'
  OBVIOUS
<1>1. RowsMonotone
  BY StepRows
<1>2. NoRowBeyond'
  BY <1>1 DEF RowsMonotone, NoRowBeyond
<1>3. ASSUME NEW p \in Procs, ReadOK(p)', \A q \in Procs \ {p} : rq'[q] = rq[q]
      PROVE  ReadsOK'
  BY <1>1, <1>3, ReadKept DEF ReadsOK
<1> DEFINE Plain == Labels \ {"c_del", "r_del", "v_expire", "v_wrong", "v_ok"}
<1>4. ASSUME NEW p \in Procs, NEW l \in Plain, Goto(p, l)
      PROVE  ReadsOK'
  <2>1. ReadOK(p)'
    BY <1>1, <1>4, GotoReadOK DEF ReadsOK
  <2>2. \A q \in Procs \ {p} : rq'[q] = rq[q]
    BY <1>4 DEF Goto, TypeOK
  <2> QED
    BY <1>3, <2>1, <2>2
<1>5. ASSUME NEW p \in Procs,
             \/ ReadCounter(p) \/ ResetCounter(p) \/ NewCounter(p) \/ DeletePrevious(p)
             \/ InsertRow(p) \/ IncrementCounter(p) \/ Notify(p) \/ LogActivity(p)
             \/ DeleteForResend(p) \/ MarkExpired(p) \/ WriteAttempts(p) \/ MarkVerified(p)
             \/ CallThrows(p)
      PROVE  ReadsOK'
  <2>1. \E l \in {"idle", "c_req", "c_new", "c_reset", "c_find", "c_ins", "c_count",
                   "c_notify", "c_log", "r_log", "v_log"} : Goto(p, l)
    BY <1>5 DEF ReadCounter, ResetCounter, NewCounter, DeletePrevious, InsertRow,
       IncrementCounter, Notify, LogActivity, DeleteForResend, MarkExpired, WriteAttempts,
       MarkVerified, CallThrows, Reply, AfterResendDelete
  <2> QED
    BY <1>4, <2>1 DEF Labels
<1>6. ASSUME NEW p \in Procs, FindPrevious(p) \/ FindForResend(p) \/ ReadRow(p)
      PROVE  ReadsOK'
  <2>1. UNCHANGED <<otp, nextId>>
    BY <1>6 DEF FindPrevious, FindForResend, ReadRow, stored
  <2>2. ASSUME NEW i \in 0..MaxOtps, NEW l, NEW u,
               IsLatest(i, rq[p].type, u) \/ IsSome(i, rq[p].type, u), Read(p, i, l),
               l \in {"c_del", "r_del", "v_expire", "v_wrong", "v_ok"} => i # 0,
               l = "v_wrong" => otp[i].attempts > 0
        PROVE  ReadsOK'
    <3>1. ReadOK(p)'
      BY <2>1, <2>2, ReadReadOK
    <3>2. \A q \in Procs \ {p} : rq'[q] = rq[q]
      BY <2>2 DEF Read, TypeOK
    <3> QED
      BY <1>3, <3>1, <3>2
  <2>3. CASE FindPrevious(p)
    <3>1. PICK i \in 0..MaxOtps : /\ IsLatest(i, rq[p].type, FALSE)
                                 /\ Read(p, i, IF i = 0 THEN "c_ins" ELSE "c_del")
      BY <2>3 DEF FindPrevious
    <3> QED
      BY <2>2, <3>1
  <2>4. CASE FindForResend(p)
    <3>1. PICK i \in 0..MaxOtps :
             /\ IsLatest(i, rq[p].type, rq[p].user)
             /\ Read(p, i, IF i # 0 THEN "r_del" ELSE AfterResendDelete(p))
      BY <2>4 DEF FindForResend
    <3> QED
      BY <2>2, <3>1 DEF AfterResendDelete
  <2>5. CASE ReadRow(p)
    <3>1. PICK i \in 0..MaxOtps : /\ IsSome(i, rq[p].type, rq[p].user)
                                 /\ Read(p, i, Verdict(i, rq[p].code))
      BY <2>5 DEF ReadRow
    <3>2. Verdict(i, rq[p].code) # "idle" => i # 0 /\ ~(otp[i].attempts <= 0)
      BY DEF Verdict
    <3>3. i # 0 => otp[i].attempts \in 0..Attempts
      BY LimitAssumption, BoundsAssumption DEF TypeOK, Row
    <3>4. Verdict(i, rq[p].code) = "v_wrong" => otp[i].attempts > 0
      BY <3>2, <3>3, LimitAssumption
    <3> QED
      BY <2>2, <3>1, <3>2, <3>4
  <2> QED
    BY <1>6, <2>3, <2>4, <2>5
<1>7. ASSUME NEW p \in Procs, NEW op \in AllOps, NEW t, NEW u, NEW c, Start(p, op, t, u, c)
      PROVE  ReadsOK'
  <2>1. rq'[p] = [at |-> FirstAwait[op], op |-> op, type |-> t, user |-> u, code |-> c,
                  seen |-> 0, tries |-> 0]
    BY <1>7 DEF Start, TypeOK
  <2>2. FirstAwait[op] \in {"c_req", "r_find", "v_find"}
    BY DEF FirstAwait, AllOps
  <2>3. nextId' = nextId /\ 0 < nextId
    BY <1>7, BoundsAssumption DEF Start, stored, TypeOK
  <2>4. ReadOK(p)'
    BY <2>1, <2>2, <2>3 DEF ReadOK, At
  <2>5. \A q \in Procs \ {p} : rq'[q] = rq[q]
    BY <1>7 DEF Start, TypeOK
  <2> QED
    BY <1>3, <2>4, <2>5
<1>8. CASE UNCHANGED rq
  <2>1. ASSUME NEW q \in Procs PROVE ReadOK(q)'
    <3>1. ReadOK(q) /\ rq'[q] = rq[q]
      BY <1>8 DEF ReadsOK
    <3> QED
      BY <1>1, <3>1, ReadKept
  <2> QED
    BY <1>2, <2>1 DEF ReadsOK
<1>9. ASSUME NEW i, CronCrash(i) PROVE ReadsOK'
  BY <1>1, <1>9, IdleReadOK DEF CronCrash, ReadsOK
<1>10. ReadsOK'
  BY <1>5, <1>6, <1>7, <1>8, <1>9
  DEF Next, Step, CreateStep, ResendStep, VerifyStep, CronScan, CronDelete, Tick, vars
<1> QED
  BY <1>2, <1>10

\* The sets the bound counts are finite.
LEMMA SetsFinite ==
    ASSUME NEW t
    PROVE  IsFiniteSet(RowsOf(t)) /\ IsFiniteSet(Inserting(t)) /\ IsFiniteSet(Procs)
           /\ Cardinality(RowsOf(t)) \in Nat /\ Cardinality(Inserting(t)) \in Nat
           /\ Cardinality(Procs) \in Nat
<1>1. IsFiniteSet(1..MaxOtps)
  BY FS_Interval, BoundsAssumption
<1>2. IsFiniteSet(RowsOf(t))
  <2>1. RowsOf(t) \subseteq Ids
    BY DEF RowsOf
  <2> QED
    BY <1>1, <2>1, FS_Subset
<1>3. IsFiniteSet(Inserting(t))
  <2>1. Inserting(t) \subseteq Procs
    BY DEF Inserting
  <2> QED
    BY <2>1, FS_Subset, BoundsAssumption
<1> QED
  BY <1>2, <1>3, FS_CardinalityType, BoundsAssumption

LEMMA SetsFinitePrime ==
    ASSUME NEW t
    PROVE  IsFiniteSet(RowsOf(t)') /\ IsFiniteSet(Inserting(t)')
           /\ Cardinality(RowsOf(t)') \in Nat /\ Cardinality(Inserting(t)') \in Nat
<1>1. IsFiniteSet(1..MaxOtps)
  BY FS_Interval, BoundsAssumption
<1>2. IsFiniteSet(RowsOf(t)')
  <2>1. RowsOf(t)' \subseteq Ids
    BY DEF RowsOf
  <2> QED
    BY <1>1, <2>1, FS_Subset
<1>3. IsFiniteSet(Inserting(t)')
  <2>1. Inserting(t)' \subseteq Procs
    BY DEF Inserting
  <2> QED
    BY <2>1, FS_Subset, BoundsAssumption
<1> QED
  BY <1>2, <1>3, FS_CardinalityType

\* The four ways a step can keep the bound for type t.
Fewer(t) == RowsOf(t)' \subseteq RowsOf(t) /\ Inserting(t)' \subseteq Inserting(t)
Nothing(t) == RowsOf(t)' = {}
Deleted(t) == \E i \in RowsOf(t) : RowsOf(t)' \subseteq RowsOf(t) \ {i}
                                  /\ \E p \in Procs : Inserting(t)' \subseteq Inserting(t) \cup {p}
Inserted(t) == \E p \in Inserting(t) : Inserting(t)' \subseteq Inserting(t) \ {p}
                                      /\ RowsOf(t)' \subseteq RowsOf(t) \cup {nextId}

LEMMA BoundKept ==
    ASSUME NEW t \in Types, LiveOrComingBounded,
           Fewer(t) \/ Nothing(t) \/ Deleted(t) \/ Inserted(t)
    PROVE  Cardinality(RowsOf(t)') + Cardinality(Inserting(t)') <= Cardinality(Procs)
<1>0. Cardinality(RowsOf(t)) + Cardinality(Inserting(t)) <= Cardinality(Procs)
  BY DEF LiveOrComingBounded
<1> USE SetsFinite, SetsFinitePrime
<1>1. CASE Fewer(t)
  <2>1. Cardinality(RowsOf(t)') <= Cardinality(RowsOf(t))
    BY <1>1, FS_Subset DEF Fewer
  <2>2. Cardinality(Inserting(t)') <= Cardinality(Inserting(t))
    BY <1>1, FS_Subset DEF Fewer
  <2> QED
    BY <1>0, <2>1, <2>2
<1>2. CASE Nothing(t)
  <2>1. Cardinality(RowsOf(t)') = 0
    BY <1>2, FS_EmptySet DEF Nothing
  <2>2. Inserting(t)' \subseteq Procs
    BY DEF Inserting
  <2>3. Cardinality(Inserting(t)') <= Cardinality(Procs)
    BY <2>2, FS_Subset
  <2> QED
    BY <2>1, <2>3
<1>3. CASE Deleted(t)
  <2>1. PICK i \in RowsOf(t), p \in Procs :
           RowsOf(t)' \subseteq RowsOf(t) \ {i} /\ Inserting(t)' \subseteq Inserting(t) \cup {p}
    BY <1>3 DEF Deleted
  <2>2. Cardinality(RowsOf(t) \ {i}) = Cardinality(RowsOf(t)) - 1
        /\ IsFiniteSet(RowsOf(t) \ {i})
    BY FS_RemoveElement
  <2>3. Cardinality(RowsOf(t)') <= Cardinality(RowsOf(t) \ {i})
    BY <2>1, <2>2, FS_Subset
  <2>4. Cardinality(Inserting(t) \cup {p}) <= Cardinality(Inserting(t)) + 1
        /\ IsFiniteSet(Inserting(t) \cup {p})
    <3>1. IsFiniteSet(Inserting(t) \cup {p})
          /\ Cardinality(Inserting(t) \cup {p})
               = IF p \in Inserting(t) THEN Cardinality(Inserting(t))
                                       ELSE Cardinality(Inserting(t)) + 1
      BY FS_AddElement
    <3> QED
      BY <3>1
  <2>5. Cardinality(Inserting(t)') <= Cardinality(Inserting(t) \cup {p})
    BY <2>1, <2>4, FS_Subset
  <2>6. Cardinality(Inserting(t) \cup {p}) \in Nat
    BY <2>4, FS_CardinalityType
  <2> QED
    BY <1>0, <2>2, <2>3, <2>4, <2>5, <2>6
<1>4. CASE Inserted(t)
  <2>1. PICK p \in Inserting(t) : Inserting(t)' \subseteq Inserting(t) \ {p}
                                 /\ RowsOf(t)' \subseteq RowsOf(t) \cup {nextId}
    BY <1>4 DEF Inserted
  <2>2. Cardinality(Inserting(t) \ {p}) = Cardinality(Inserting(t)) - 1
        /\ IsFiniteSet(Inserting(t) \ {p})
    BY FS_RemoveElement
  <2>3. Cardinality(Inserting(t)') <= Cardinality(Inserting(t) \ {p})
    BY <2>1, <2>2, FS_Subset
  <2>4. Cardinality(RowsOf(t) \cup {nextId}) <= Cardinality(RowsOf(t)) + 1
        /\ IsFiniteSet(RowsOf(t) \cup {nextId})
    <3>1. IsFiniteSet(RowsOf(t) \cup {nextId})
          /\ Cardinality(RowsOf(t) \cup {nextId})
                = IF nextId \in RowsOf(t) THEN Cardinality(RowsOf(t)) ELSE Cardinality(RowsOf(t)) + 1
      BY FS_AddElement
    <3> QED
      BY <3>1
  <2>5. Cardinality(RowsOf(t)') <= Cardinality(RowsOf(t) \cup {nextId})
    BY <2>1, <2>4, FS_Subset
  <2>6. Cardinality(RowsOf(t) \cup {nextId}) \in Nat
    BY <2>4, FS_CardinalityType
  <2> QED
    BY <1>0, <2>2, <2>3, <2>4, <2>5, <2>6
<1> QED
  BY <1>1, <1>2, <1>3, <1>4

\* Every step keeps the bound, for each type in one of the four ways.
LEMMA StepBound ==
    TypeOK /\ ReadsOK /\ NoRowBeyond /\ LiveOrComingBounded /\ [Next]_vars
        => LiveOrComingBounded'
<1> SUFFICES ASSUME TypeOK, ReadsOK, NoRowBeyond, LiveOrComingBounded, [Next]_vars, NEW t \in Types
             PROVE  Cardinality(RowsOf(t)') + Cardinality(Inserting(t)') <= Cardinality(Procs)
  BY DEF LiveOrComingBounded
<1> SUFFICES Fewer(t) \/ Nothing(t) \/ Deleted(t) \/ Inserted(t)
  BY BoundKept
<1>0. RowsMonotone
  BY StepRows
<1>1. nextId' = nextId => RowsOf(t)' \subseteq RowsOf(t)
  <2> SUFFICES ASSUME nextId' = nextId, NEW i \in RowsOf(t)'
               PROVE  i \in RowsOf(t)
    OBVIOUS
  <2>1. i \in Ids /\ Present(i)' /\ otp'[i].type = t
    BY DEF RowsOf
  <2>2. i < nextId
    BY <1>0, <2>1, BoundsAssumption DEF RowsMonotone, TypeOK
  <2> QED
    BY <1>0, <2>1, <2>2 DEF RowsMonotone, RowsOf
\* A request that goes on to an await other than "c_ins" inserts no sooner.
<1>2. ASSUME NEW p \in Procs, NEW r,
             rq' = [rq EXCEPT ![p] = r], r.at # "c_ins", nextId' = nextId
      PROVE  Fewer(t)
  <2>1. Inserting(t)' \subseteq Inserting(t)
    BY <1>2 DEF Inserting, At, TypeOK
  <2> QED
    BY <1>1, <1>2, <2>1 DEF Fewer
<1>3. ASSUME NEW p \in Procs, NEW l \in Labels \ {"c_ins"}, Goto(p, l), nextId' = nextId
      PROVE  Fewer(t)
  <2>1. rq[p] \in Request
    BY DEF TypeOK
  <2>2. (IF l = "idle" THEN Idle ELSE [rq[p] EXCEPT !.at = l]).at # "c_ins"
    BY <2>1, DefaultsTyped DEF Request
  <2> QED
    BY <1>2, <1>3, <2>2 DEF Goto
<1>4. ASSUME NEW p \in Procs, NEW i, NEW l \in Labels \ {"c_ins"}, Read(p, i, l), nextId' = nextId
      PROVE  Fewer(t)
  <2>1. rq[p] \in Request
    BY DEF TypeOK
  <2>2. (IF l = "idle" THEN Idle
         ELSE [rq[p] EXCEPT !.at = l, !.seen = i,
                            !.tries = IF i = 0 THEN 0 ELSE otp[i].attempts]).at # "c_ins"
    BY <2>1, DefaultsTyped DEF Request
  <2> QED
    BY <1>2, <1>4, <2>2 DEF Read
<1>5. ASSUME NEW p \in Procs,
             \/ ReadCounter(p) \/ ResetCounter(p) \/ NewCounter(p)
             \/ IncrementCounter(p) \/ Notify(p) \/ LogActivity(p)
             \/ DeleteForResend(p) \/ MarkExpired(p) \/ WriteAttempts(p) \/ MarkVerified(p)
             \/ CallThrows(p)
      PROVE  Fewer(t)
  <2>1. \E l \in {"idle", "c_req", "c_new", "c_reset", "c_find", "c_notify", "c_log", "r_log",
                   "v_log"} : Goto(p, l)
    BY <1>5 DEF ReadCounter, ResetCounter, NewCounter, IncrementCounter, Notify, LogActivity,
       DeleteForResend, MarkExpired, WriteAttempts, MarkVerified, CallThrows, Reply,
       AfterResendDelete
  <2>2. nextId' = nextId
    BY <1>5 DEF ReadCounter, ResetCounter, NewCounter, IncrementCounter, Notify, LogActivity,
       DeleteForResend, MarkExpired, WriteAttempts, MarkVerified, CallThrows, stored
  <2> QED
    BY <1>3, <2>1, <2>2 DEF Labels
<1>6. ASSUME NEW p \in Procs, FindForResend(p) \/ ReadRow(p) PROVE Fewer(t)
  <2>1. nextId' = nextId
    BY <1>6 DEF FindForResend, ReadRow, stored
  <2>2. CASE FindForResend(p)
    <3>1. PICK i \in 0..MaxOtps : Read(p, i, IF i # 0 THEN "r_del" ELSE AfterResendDelete(p))
      BY <2>2 DEF FindForResend
    <3>2. (IF i # 0 THEN "r_del" ELSE AfterResendDelete(p)) \in Labels \ {"c_ins"}
      BY DEF AfterResendDelete, Labels
    <3> QED
      BY <1>4, <2>1, <3>1, <3>2
  <2>3. CASE ReadRow(p)
    <3>1. PICK i \in 0..MaxOtps : Read(p, i, Verdict(i, rq[p].code))
      BY <2>3 DEF ReadRow
    <3>2. Verdict(i, rq[p].code) \in Labels \ {"c_ins"}
      BY DEF Verdict, Labels
    <3> QED
      BY <1>4, <2>1, <3>1, <3>2
  <2> QED
    BY <1>6, <2>2, <2>3
<1>7. ASSUME NEW p \in Procs, FindPrevious(p) PROVE Fewer(t) \/ Nothing(t)
  <2>1. PICK i \in 0..MaxOtps : /\ IsLatest(i, rq[p].type, FALSE)
                               /\ Read(p, i, IF i = 0 THEN "c_ins" ELSE "c_del")
    BY <1>7 DEF FindPrevious
  <2>2. nextId' = nextId /\ otp' = otp
    BY <1>7 DEF FindPrevious, stored
  <2>3. CASE i # 0
    BY <1>4, <2>1, <2>2, <2>3 DEF Labels
  <2>4. CASE i = 0 /\ rq[p].type = t
    <3>1. RowsOf(t) = {}
      BY <2>1, <2>4, BoundsAssumption DEF IsLatest, Matches, RowsOf
    <3> QED
      BY <1>1, <2>2, <3>1 DEF Nothing
  <2>5. CASE i = 0 /\ rq[p].type # t
    <3>1. rq[p] \in Request
      BY DEF TypeOK
    <3>2. rq'[p].type = rq[p].type
      BY <2>1, <2>5, <3>1 DEF Read, TypeOK, Request
    <3>3. Inserting(t)' \subseteq Inserting(t)
      BY <2>1, <2>5, <3>2 DEF Inserting, At, Read, TypeOK
    <3> QED
      BY <1>1, <2>2, <3>3 DEF Fewer
  <2> QED
    BY <2>3, <2>4, <2>5
<1>8. ASSUME NEW p \in Procs, DeletePrevious(p) PROVE Fewer(t) \/ Deleted(t)
  <2>0. nextId' = nextId
    BY <1>8 DEF DeletePrevious
  <2>1. CASE ~Present(rq[p].seen)
    BY <1>3, <1>8, <2>0, <2>1 DEF DeletePrevious, Reply, Labels
  <2>2. CASE Present(rq[p].seen)
    <3>1. rq[p].seen \in Ids /\ otp[rq[p].seen].type = rq[p].type /\ rq[p] \in Request
      BY <1>8, <2>2 DEF DeletePrevious, ReadsOK, ReadOK, At, TypeOK
    <3>2. DeleteRow(rq[p].seen) /\ rq' = [rq EXCEPT ![p] = [rq[p] EXCEPT !.at = "c_ins"]]
      BY <1>8, <2>2 DEF DeletePrevious, Goto
    <3>3. rq'[p].type = rq[p].type
      BY <3>1, <3>2 DEF TypeOK, Request
    <3>4. CASE rq[p].type = t
      <4>1. rq[p].seen \in RowsOf(t)
        BY <2>2, <3>1, <3>4 DEF RowsOf
      <4>2. rq[p].seen \notin RowsOf(t)'
        BY <3>1, <3>2, DefaultsTyped DEF DeleteRow, RowsOf, Present, TypeOK
      <4>3. Inserting(t)' \subseteq Inserting(t) \cup {p}
        BY <3>2 DEF Inserting, At, TypeOK
      <4> QED
        BY <1>1, <2>0, <4>1, <4>2, <4>3 DEF Deleted
    <3>5. CASE rq[p].type # t
      <4>1. Inserting(t)' \subseteq Inserting(t)
        BY <3>2, <3>3, <3>5 DEF Inserting, At, TypeOK
      <4> QED
        BY <1>1, <2>0, <4>1 DEF Fewer
    <3> QED
      BY <3>4, <3>5
  <2> QED
    BY <2>1, <2>2
<1>9. ASSUME NEW p \in Procs, InsertRow(p) PROVE Fewer(t) \/ Inserted(t)
  <2>1. rq[p] \in Request /\ rq[p].at = "c_ins" /\ nextId \in Ids
    BY <1>9, BoundsAssumption DEF InsertRow, At, TypeOK
  <2>2. rq' = [rq EXCEPT ![p] = [rq[p] EXCEPT !.at = "c_count"]]
    BY <1>9 DEF InsertRow, Goto
  <2>3. rq'[p].at # "c_ins"
    BY <2>1, <2>2 DEF TypeOK, Request
  <2>4. Inserting(t)' \subseteq Inserting(t) \ {p}
    BY <2>2, <2>3 DEF Inserting, At, TypeOK
  <2>5. otp'[nextId].type = rq[p].type /\ \A i \in Ids : i # nextId => otp'[i] = otp[i]
    BY <1>9, <2>1 DEF InsertRow, TypeOK
  <2>6. CASE rq[p].type = t
    <3>1. p \in Inserting(t)
      BY <2>1, <2>6 DEF Inserting, At
    <3>2. RowsOf(t)' \subseteq RowsOf(t) \cup {nextId}
      BY <2>5 DEF RowsOf, Present
    <3> QED
      BY <2>4, <3>1, <3>2 DEF Inserted
  <2>7. CASE rq[p].type # t
    <3>1. RowsOf(t)' \subseteq RowsOf(t)
      BY <2>5, <2>7 DEF RowsOf, Present
    <3> QED
      BY <2>4, <3>1 DEF Fewer
  <2> QED
    BY <2>6, <2>7
<1>10. ASSUME NEW p \in Procs, NEW op \in AllOps, NEW u, NEW ty, NEW c, Start(p, op, ty, u, c)
       PROVE  Fewer(t)
  <2>1. FirstAwait[op] # "c_ins"
    BY DEF FirstAwait, AllOps
  <2> DEFINE r == [at |-> FirstAwait[op], op |-> op, type |-> ty, user |-> u, code |-> c,
                   seen |-> 0, tries |-> 0]
  <2>2. rq' = [rq EXCEPT ![p] = r] /\ nextId' = nextId
    BY <1>10 DEF Start, stored
  <2>3. r.at # "c_ins"
    BY <2>1
  <2> HIDE DEF r
  <2> QED
    BY <1>2, <2>2, <2>3
<1>11. CASE UNCHANGED <<rq, nextId>>
  BY <1>1, <1>11 DEF Fewer, Inserting, At
<1>12. ASSUME NEW i, CronCrash(i) PROVE Fewer(t)
  <2>1. Inserting(t)' = {}
    BY <1>12, DefaultsTyped DEF CronCrash, Inserting, At
  <2> QED
    BY <1>1, <1>12, <2>1 DEF CronCrash, stored, Fewer
<1> QED
  BY <1>5, <1>6, <1>7, <1>8, <1>9, <1>10, <1>11, <1>12
  DEF Next, Step, CreateStep, ResendStep, VerifyStep, CronScan, CronDelete, Tick, vars, stored

LEMMA InitBound == Init => ReadsOK /\ NoRowBeyond /\ LiveOrComingBounded
<1> SUFFICES ASSUME Init PROVE ReadsOK /\ NoRowBeyond /\ LiveOrComingBounded
  OBVIOUS
<1>1. ReadsOK /\ NoRowBeyond
  BY DefaultsTyped, BoundsAssumption DEF Init, ReadsOK, ReadOK, NoRowBeyond, At, Present
<1>2. ASSUME NEW t \in Types
      PROVE  Cardinality(RowsOf(t)) + Cardinality(Inserting(t)) <= Cardinality(Procs)
  <2>1. RowsOf(t) = {} /\ Inserting(t) = {}
    BY DefaultsTyped DEF Init, RowsOf, Inserting, Present, At
  <2> QED
    BY <2>1, FS_EmptySet, SetsFinite
<1> QED
  BY <1>1, <1>2 DEF LiveOrComingBounded

\* The inductive invariant of Otp: types, what a request at each await has read,
\* no row beyond nextId, and the bound on rows present or about to be.
THEOREM InductiveInvariant == Spec => []IInv
<1>1. Init => IInv
  BY InitTyped, InitBound DEF IInv
<1>2. IInv /\ [Next]_vars => IInv'
  BY StepTyped, StepReads, StepBound DEF IInv
<1> QED
  BY <1>1, <1>2, PTL DEF Spec

\* Every state is well typed; in particular no interleaving of verifications
\* takes the attempts of a row below zero or above its allowance.
THEOREM TypeCorrect == Spec => []TypeOK
<1>1. IInv => TypeOK
  BY DEF IInv
<1> QED
  BY <1>1, InductiveInvariant, PTL

\* For any number of concurrent requests, bound and timing: createOTP and
\* resendOTP never leave more codes of a type than there are requests at once.
THEOREM OutstandingCodesBounded == Spec => []LiveCodesBounded
<1>1. IInv => LiveCodesBounded
  BY SetsFinite DEF IInv, LiveOrComingBounded, LiveCodesBounded
<1> QED
  BY <1>1, InductiveInvariant, PTL
=============================================================================
