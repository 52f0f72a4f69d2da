--------------------------- MODULE OtpCountProofs ---------------------------
(***************************************************************************)
(* The counts of Otp: guesses and acceptances of a row, codes within a     *)
(* counter's hour, and what two requests at a time can win back.           *)
(***************************************************************************)
EXTENDS OtpProofs

USE DEF Ids, Times

\* What a request that stands as r has read of its row is still there.
Current(r) ==
    /\ r.at = "v_wrong" /\ Present(r.seen) => r.tries = otp[r.seen].attempts
    /\ r.at = "v_ok" /\ Present(r.seen) => otp[r.seen].status = "PENDING"

\* The sums of a row.
RowSums(i) ==
    /\ Present(i) => wrong[i] + otp[i].attempts = Attempts
    /\ accepted[i] <= 1
    /\ otp[i].status = "PENDING" => accepted[i] = 0

LEMMA GuessesForm ==
    GuessesOK <=> (Alone => (\A i \in Ids : RowSums(i)) /\ \A p \in Procs : Current(rq[p]))
BY DEF GuessesOK, RowSums, Current, AttemptBudget, AcceptedOnce, At

-----------------------------------------------------------------------------
(* What a step may do to the rows and to their counts. *)

\* A row is left alone or deleted.
Kept(i) ==
    /\ otp'[i] = otp[i] \/ otp'[i] = NoRow
    /\ wrong'[i] = wrong[i] /\ accepted'[i] = accepted[i]

\* The five ways: rows may be deleted; the next one is inserted; a verification
\* marks its row expired, counts a wrong guess, or accepts the code.
Deletes == nextId' = nextId /\ \A i \in Ids : Kept(i)
Inserts ==
    /\ nextId \in Ids /\ nextId' = nextId + 1
    /\ \A i \in Ids \ {nextId} : Kept(i)
    /\ otp'[nextId].status = "PENDING" /\ otp'[nextId].attempts = Attempts
    /\ wrong' = wrong /\ accepted' = accepted
Marks(p, i) ==
    /\ i \in Ids /\ i = rq[p].seen /\ Present(i)
    /\ nextId' = nextId
    /\ \A j \in Ids \ {i} : Kept(j)
Expires(p, i) ==
    /\ Marks(p, i)
    /\ otp'[i] = [otp[i] EXCEPT !.status = "EXPIRED"]
    /\ wrong' = wrong /\ accepted' = accepted
Counts(p, i) ==
    /\ Marks(p, i) /\ At(p, "v_wrong")
    /\ otp'[i] = [otp[i] EXCEPT !.attempts = rq[p].tries - 1]
    /\ wrong'[i] = wrong[i] + 1 /\ accepted' = accepted
Accepts(p, i) ==
    /\ Marks(p, i) /\ At(p, "v_ok")
    /\ otp'[i] = [otp[i] EXCEPT !.status = "VERIFIED"]
    /\ accepted'[i] = accepted[i] + 1 /\ wrong' = wrong

\* A verification goes nowhere from its answer; what it read comes with it to
\* where it writes, and it reads the row as it is.
Moves(p, r) ==
    /\ rq' = [rq EXCEPT ![p] = r]
    /\ r.at \notin {"v_wrong", "v_ok"}
       \/ /\ r.at \in {"v_wrong", "v_ok"} /\ rq[p].at = "v_find"
          /\ UNCHANGED <<otp, nextId, wrong, accepted>>
          /\ r.seen \in Ids /\ r.tries = otp[r.seen].attempts
          /\ r.at = "v_ok" => otp[r.seen].status = "PENDING"

\* What every step comes to: nobody reads and rows are at most deleted, or one
\* request moves.
StepKind ==
    \/ Deletes /\ \A p \in Procs : rq'[p] = rq[p] \/ rq'[p] = Idle
    \/ \E p \in Procs, r \in Request :
          /\ Moves(p, r)
          /\ Deletes \/ Inserts \/ \E i \in Ids : Expires(p, i) \/ Counts(p, i) \/ Accepts(p, i)

LEMMA Rests ==
    ASSUME UNCHANGED <<otp, nextId, wrong, accepted>>
    PROVE  Deletes
BY DEF Deletes, Kept

\* A request that goes on without a new read.
LEMMA GotoMoves ==
    ASSUME TypeOK, NEW p \in Procs, NEW l \in Labels, l \notin {"v_wrong", "v_ok"}, Goto(p, l)
    PROVE  \E r \in Request : Moves(p, r)
<1> DEFINE r == IF l = "idle" THEN Idle ELSE [rq[p] EXCEPT !.at = l]
<1>1. r \in Request /\ r.at \notin {"v_wrong", "v_ok"}
  BY DefaultsTyped DEF TypeOK, Request
<1>2. rq' = [rq EXCEPT ![p] = r]
  BY DEF Goto
<1> HIDE DEF r
<1> QED
  BY <1>1, <1>2 DEF Moves

\* The row a request read is one that was inserted.
LEMMA DeleteKept ==
    ASSUME TypeOK, NEW j \in Ids, DeleteRow(j), UNCHANGED <<nextId, wrong, accepted>>
    PROVE  Deletes
BY DEF DeleteRow, Deletes, Kept, TypeOK

LEMMA ReadMoves ==
    ASSUME TypeOK, NoRowBeyond, NEW p \in Procs, NEW i \in 0..MaxOtps, NEW l \in Labels, NEW t, NEW u,
           IsLatest(i, t, u) \/ IsSome(i, t, u), Read(p, i, l),
           UNCHANGED <<otp, nextId, wrong, accepted>>,
           l \in {"v_wrong", "v_ok"} => At(p, "v_find") /\ i # 0,
           l = "v_ok" => otp[i].status = "PENDING"
    PROVE  \E r \in Request : Moves(p, r)
<1> DEFINE n == IF i = 0 THEN 0 ELSE otp[i].attempts
           r == IF l = "idle" THEN Idle ELSE [rq[p] EXCEPT !.at = l, !.seen = i, !.tries = n]
<1>1. rq' = [rq EXCEPT ![p] = r]
  BY DEF Read
<1>2. r \in Request
  <2>1. rq' \in [Procs -> Request]
    BY ReadTyped
  <2> QED
    BY <1>1, <2>1 DEF TypeOK
<1>3. i # 0 => i \in Ids
  BY LatestFacts
<1>4. l # "idle" => r.at = l /\ r.seen = i /\ r.tries = n
  BY DEF TypeOK, Request
<1>5. l = "idle" => r.at = "idle"
  BY DefaultsTyped
<1> HIDE DEF r
<1> QED
  BY <1>1, <1>2, <1>3, <1>4, <1>5 DEF Moves, At

LEMMA StepKinds == TypeOK /\ ReadsOK /\ NoRowBeyond /\ [Next]_vars => StepKind
<1> SUFFICES ASSUME TypeOK, ReadsOK, NoRowBeyond, [Next]_vars
             PROVE  StepKind
  OBVIOUS
<1>1. ASSUME NEW p \in Procs,
             \/ ReadCounter(p) \/ ResetCounter(p) \/ NewCounter(p) \/ IncrementCounter(p)
             \/ Notify(p) \/ LogActivity(p) \/ CallThrows(p)
      PROVE  StepKind
  <2>1. \E l \in {"idle", "c_req", "c_new", "c_reset", "c_find", "c_notify", "c_log"} : Goto(p, l)
    BY <1>1 DEF ReadCounter, ResetCounter, NewCounter, IncrementCounter, Notify, LogActivity,
       CallThrows, Reply
  <2>2. UNCHANGED <<otp, nextId, wrong, accepted>>
    BY <1>1 DEF ReadCounter, ResetCounter, NewCounter, IncrementCounter, Notify, LogActivity,
       CallThrows, stored, ghost
  <2>3. \E r \in Request : Moves(p, r)
    BY <2>1, GotoMoves DEF Labels
  <2> QED
    BY <2>2, <2>3, Rests DEF StepKind
<1>2. ASSUME NEW p \in Procs, DeletePrevious(p) \/ DeleteForResend(p) PROVE StepKind
  <2>1. \E l \in {"idle", "c_ins", "c_req", "r_log"} : Goto(p, l)
    BY <1>2 DEF DeletePrevious, DeleteForResend, AfterResendDelete, Reply
  <2>2. rq[p].seen \in Ids /\ UNCHANGED <<nextId, wrong, accepted>>
    BY <1>2 DEF DeletePrevious, DeleteForResend, At, ReadsOK, ReadOK, ghost
  <2>3. Deletes
    BY <1>2, <2>2, Rests, DeleteKept DEF DeletePrevious, DeleteForResend
  <2>4. \E r \in Request : Moves(p, r)
    BY <2>1, GotoMoves DEF Labels
  <2> QED
    BY <2>3, <2>4 DEF StepKind
<1>3. ASSUME NEW p \in Procs, InsertRow(p) PROVE StepKind
  <2>1. \E r \in Request : Moves(p, r)
    BY <1>3, GotoMoves DEF InsertRow, Labels
  <2>2. nextId \in Ids /\ nextId' = nextId + 1 /\ wrong' = wrong /\ accepted' = accepted
    <3>1. nextId \in Ids
      BY <1>3, BoundsAssumption DEF InsertRow, TypeOK
    <3> QED
      BY <1>3, <3>1 DEF InsertRow, ghost
  <2>3. otp'[nextId].status = "PENDING" /\ otp'[nextId].attempts = Attempts
    BY <1>3, <2>2 DEF InsertRow, TypeOK
  <2>4. \A i \in Ids \ {nextId} : Kept(i)
    BY <1>3, <2>2 DEF InsertRow, TypeOK, Kept
  <2> QED
    BY <2>1, <2>2, <2>3, <2>4 DEF StepKind, Inserts
<1>4. ASSUME NEW p \in Procs, FindPrevious(p) \/ FindForResend(p) \/ ReadRow(p)
      PROVE  StepKind
  <2>1. UNCHANGED <<otp, nextId, wrong, accepted>>
    BY <1>4 DEF FindPrevious, FindForResend, ReadRow, stored, ghost
  <2>2. CASE FindPrevious(p)
    <3>1. PICK i \in 0..MaxOtps : /\ IsLatest(i, rq[p].type, FALSE)
                                 /\ Read(p, i, IF i = 0 THEN "c_ins" ELSE "c_del")
      BY <2>2 DEF FindPrevious
    <3>2. (IF i = 0 THEN "c_ins" ELSE "c_del") \in Labels \ {"v_wrong", "v_ok"}
      BY DEF Labels
    <3>3. \E r \in Request : Moves(p, r)
      BY <2>1, <3>1, <3>2, ReadMoves
    <3> QED
      BY <2>1, <3>3, Rests DEF StepKind
  <2>3. CASE FindForResend(p)
    <3>1. PICK i \in 0..MaxOtps :
             /\ IsLatest(i, rq[p].type, rq[p].user)
             /\ Read(p, i, IF i # 0 THEN "r_del" ELSE AfterResendDelete(p))
      BY <2>3 DEF FindForResend
    <3>2. (IF i # 0 THEN "r_del" ELSE AfterResendDelete(p)) \in Labels \ {"v_wrong", "v_ok"}
      BY DEF Labels, AfterResendDelete
    <3>3. \E r \in Request : Moves(p, r)
      BY <2>1, <3>1, <3>2, ReadMoves
    <3> QED
      BY <2>1, <3>3, Rests DEF StepKind
  <2>4. CASE ReadRow(p)
    <3>1. PICK i \in 0..MaxOtps : /\ IsSome(i, rq[p].type, rq[p].user)
                                 /\ Read(p, i, Verdict(i, rq[p].code))
      BY <2>4 DEF ReadRow
    <3> DEFINE l == Verdict(i, rq[p].code)
    <3>2. l \in Labels /\ (l # "idle" => i # 0) /\ (l = "v_ok" => otp[i].status = "PENDING")
      BY DEF Verdict, Labels
    <3>3. At(p, "v_find")
      BY <2>4 DEF ReadRow
    <3> HIDE DEF l
    <3>4. Read(p, i, l)
      BY <3>1 DEF l
    <3>5. \E r \in Request : Moves(p, r)
      BY <2>1, <3>1, <3>2, <3>3, <3>4, ReadMoves
    <3> QED
      BY <2>1, <3>5, Rests DEF StepKind
  <2> QED
    BY <1>4, <2>2, <2>3, <2>4
<1>5. ASSUME NEW p \in Procs, MarkExpired(p) \/ WriteAttempts(p) \/ MarkVerified(p)
      PROVE  StepKind
  <2>1. rq[p].seen \in Ids /\ nextId' = nextId
    BY <1>5 DEF MarkExpired, WriteAttempts, MarkVerified, At, ReadsOK, ReadOK
  <2>2. \E l \in {"idle", "v_log"} : Goto(p, l)
    BY <1>5 DEF MarkExpired, WriteAttempts, MarkVerified, Reply
  <2>3. PICK r \in Request : Moves(p, r)
    BY <2>2, GotoMoves DEF Labels
  <2>4. CASE ~Present(rq[p].seen)
    <3>1. UNCHANGED <<otp, nextId, wrong, accepted>>
      BY <1>5, <2>1, <2>4 DEF MarkExpired, WriteAttempts, MarkVerified, ghost
    <3> QED
      BY <2>3, <3>1, Rests DEF StepKind
  <2>5. CASE Present(rq[p].seen)
    <3>1. CASE MarkExpired(p)
      <4>1. Expires(p, rq[p].seen)
        BY <2>1, <2>5, <3>1 DEF MarkExpired, Expires, Marks, Kept, TypeOK, ghost
      <4> QED
        BY <2>1, <2>3, <4>1 DEF StepKind
    <3>2. CASE WriteAttempts(p)
      <4>1. Counts(p, rq[p].seen)
        BY <2>1, <2>5, <3>2 DEF WriteAttempts, Counts, Marks, Kept, TypeOK
      <4> QED
        BY <2>1, <2>3, <4>1 DEF StepKind
    <3>3. CASE MarkVerified(p)
      <4>1. Accepts(p, rq[p].seen)
        BY <2>1, <2>5, <3>3 DEF MarkVerified, Accepts, Marks, Kept, TypeOK
      <4> QED
        BY <2>1, <2>3, <4>1 DEF StepKind
    <3> QED
      BY <1>5, <3>1, <3>2, <3>3
  <2> QED
    BY <2>4, <2>5
<1>6. ASSUME NEW p \in Procs, NEW op \in AllOps, NEW t \in Types, NEW u \in Callers,
             NEW c \in 0..MaxOtps, Start(p, op, t, u, c)
      PROVE  StepKind
  <2> DEFINE r == [at |-> FirstAwait[op], op |-> op, type |-> t, user |-> u, code |-> c,
                   seen |-> 0, tries |-> 0]
  <2>1. r \in Request /\ r.at \notin {"v_wrong", "v_ok"}
    BY OpsAssumption, LimitAssumption, BoundsAssumption DEF FirstAwait, AllOps, Request, Labels
  <2>2. rq' = [rq EXCEPT ![p] = r] /\ UNCHANGED <<otp, nextId, wrong, accepted>>
    BY <1>6 DEF Start, stored, ghost
  <2> HIDE DEF r
  <2> QED
    BY <2>1, <2>2, Rests DEF StepKind, Moves
<1>7. ASSUME NEW i \in Ids, CronDelete(i) PROVE StepKind
  <2>1. Deletes /\ rq' = rq
    BY <1>7, DeleteKept DEF CronDelete, ghost
  <2> QED
    BY <2>1 DEF StepKind
<1>8. ASSUME NEW i \in Ids, CronCrash(i) PROVE StepKind
  <2>1. \A p \in Procs : rq'[p] = Idle
    BY <1>8 DEF CronCrash
  <2>2. Deletes
    BY <1>8, Rests DEF CronCrash, stored, ghost
  <2> QED
    BY <2>1, <2>2 DEF StepKind
<1>9. CASE CronScan \/ Tick \/ UNCHANGED vars
  <2>1. rq' = rq /\ UNCHANGED <<otp, nextId, wrong, accepted>>
    BY <1>9 DEF CronScan, Tick, vars, stored, ghost
  <2> QED
    BY <2>1, Rests DEF StepKind
<1> QED
  BY <1>1, <1>2, <1>3, <1>4, <1>5, <1>6, <1>7, <1>8, <1>9
  DEF Next, Step, CreateStep, ResendStep, VerifyStep

-----------------------------------------------------------------------------
(* Guesses and acceptances. *)

\* Rows beyond nextId were never guessed at.
LEMMA StepBeyond ==
    TypeOK /\ ReadsOK /\ NoGuessBeyond /\ StepKind => NoGuessBeyond'
<1> SUFFICES ASSUME TypeOK, ReadsOK, NoGuessBeyond, StepKind, NEW i \in Ids, i >= nextId'
             PROVE  wrong'[i] = 0 /\ accepted'[i] = 0
  BY DEF NoGuessBeyond
<1>1. nextId \in Int /\ nextId' \in Int /\ i \in Int /\ nextId' >= nextId
  <2>1. nextId \in Int
    BY BoundsAssumption DEF TypeOK
  <2>2. nextId' = nextId \/ nextId' = nextId + 1
    BY DEF StepKind, Deletes, Inserts, Expires, Counts, Accepts, Marks
  <2> QED
    BY <2>1, <2>2, BoundsAssumption
<1>2. wrong[i] = 0 /\ accepted[i] = 0
  BY <1>1 DEF NoGuessBeyond
<1>3. CASE Deletes \/ Inserts
  BY <1>2, <1>3 DEF Deletes, Inserts, Kept
<1>4. ASSUME NEW p \in Procs, NEW j \in Ids, Expires(p, j) \/ Counts(p, j) \/ Accepts(p, j)
      PROVE  wrong'[i] = wrong[i] /\ accepted'[i] = accepted[i]
  <2>1. Marks(p, j)
    BY <1>4 DEF Expires, Counts, Accepts
  <2>2. j < nextId /\ nextId' = nextId
    BY <2>1 DEF Marks, ReadsOK, ReadOK
  <2>3. i # j
    BY <1>1, <2>2
  <2> QED
    BY <2>1, <2>3 DEF Marks, Kept
<1> QED
  BY <1>2, <1>3, <1>4 DEF StepKind

\* Deleting a row, or leaving it, keeps its sums.
LEMMA KeptSums ==
    ASSUME NEW i \in Ids, RowSums(i), Kept(i)
    PROVE  RowSums(i)'
BY DefaultsTyped DEF Kept, RowSums, Present

\* One request at a time: each kind of step keeps the sums of every row, and a
\* request at its write has read the row as it is.
LEMMA StepGuesses ==
    TypeOK /\ ReadsOK /\ NoGuessBeyond /\ GuessesOK /\ StepKind => GuessesOK'
<1> SUFFICES ASSUME TypeOK, ReadsOK, NoGuessBeyond, GuessesOK, StepKind, Alone
             PROVE  (\A i \in Ids : RowSums(i)') /\ \A p \in Procs : Current(rq[p])'
  BY DEF GuessesOK, RowSums, Current, AttemptBudget, AcceptedOnce, At, Alone
<1>1. (\A i \in Ids : RowSums(i)) /\ \A p \in Procs : Current(rq[p])
  BY GuessesForm
<1>2. /\ Attempts \in Nat
      /\ \A i \in Ids : wrong[i] \in Nat /\ accepted[i] \in Nat /\ otp[i] \in Row
  BY LimitAssumption DEF TypeOK
<1>3. Deletes \/ Inserts => \A i \in Ids : RowSums(i)'
  <2>1. ASSUME Inserts, NEW i \in Ids, i = nextId PROVE RowSums(i)'
    <3>1. wrong'[i] = 0 /\ accepted'[i] = 0 /\ otp'[i].attempts = Attempts
      BY <2>1 DEF Inserts, NoGuessBeyond
    <3> QED
      BY <1>2, <3>1 DEF RowSums
  <2> QED
    BY <1>1, <2>1, KeptSums DEF Deletes, Inserts
<1>4. ASSUME NEW p \in Procs, NEW i \in Ids, Expires(p, i) \/ Counts(p, i) \/ Accepts(p, i)
      PROVE  \A j \in Ids : RowSums(j)'
  <2>1. i = rq[p].seen /\ Present(i) /\ \A j \in Ids \ {i} : Kept(j)
    BY <1>4 DEF Expires, Counts, Accepts, Marks
  <2>2. RowSums(i) /\ Current(rq[p])
    BY <1>1
  <2>3. CASE Expires(p, i)
    <3>1. /\ otp'[i].status = "EXPIRED" /\ otp'[i].attempts = otp[i].attempts
          /\ wrong'[i] = wrong[i] /\ accepted'[i] = accepted[i]
      BY <1>2, <2>3 DEF Expires, Row
    <3> QED
      BY <1>1, <2>1, <2>2, <3>1, KeptSums DEF RowSums
  <2>4. CASE Counts(p, i)
    <3>1. /\ otp'[i].status = otp[i].status /\ otp'[i].attempts = rq[p].tries - 1
          /\ wrong'[i] = wrong[i] + 1 /\ accepted'[i] = accepted[i]
      BY <1>2, <2>4 DEF Counts, Row
    <3>2. rq[p].tries = otp[i].attempts /\ otp[i].attempts \in Int
      BY <1>2, <2>1, <2>2, <2>4 DEF Counts, Current, At, Row
    <3>3. wrong'[i] + otp'[i].attempts = wrong[i] + otp[i].attempts
      BY <1>2, <3>1, <3>2
    <3> QED
      BY <1>1, <2>1, <2>2, <3>1, <3>3, KeptSums DEF RowSums
  <2>5. CASE Accepts(p, i)
    <3>1. /\ otp'[i].status = "VERIFIED" /\ otp'[i].attempts = otp[i].attempts
          /\ wrong'[i] = wrong[i] /\ accepted'[i] = accepted[i] + 1
      BY <1>2, <2>5 DEF Accepts, Row
    <3>2. accepted[i] = 0
      BY <2>1, <2>2, <2>5 DEF Accepts, Current, RowSums, At
    <3> QED
      BY <1>1, <2>1, <2>2, <3>1, <3>2, KeptSums DEF RowSums
  <2> QED
    BY <1>4, <2>3, <2>4, <2>5
<1>5. \A i \in Ids : RowSums(i)'
  BY <1>3, <1>4 DEF StepKind
<1>6. ASSUME NEW p \in Procs PROVE Current(rq[p])'
  <2>1. CASE Deletes /\ (rq'[p] = rq[p] \/ rq'[p] = Idle)
    <3>1. CASE rq'[p] = Idle
      BY <3>1, DefaultsTyped DEF Current
    <3>2. CASE rq'[p] = rq[p] /\ rq[p].at \in {"v_wrong", "v_ok"}
      <4>1. rq[p].seen \in Ids
        BY <3>2 DEF ReadsOK, ReadOK
      <4>2. otp'[rq[p].seen] = otp[rq[p].seen] \/ otp'[rq[p].seen] = NoRow
        BY <2>1, <4>1 DEF Deletes, Kept
      <4> QED
        BY <1>1, <3>2, <4>2, DefaultsTyped DEF Current, Present
    <3> QED
      BY <2>1, <3>1, <3>2 DEF Current
  <2>2. ASSUME NEW q \in Procs, NEW r \in Request, Moves(q, r) PROVE Current(rq[p])'
    <3>1. rq'[p] = r
      BY <2>2 DEF Moves, TypeOK, Alone
    <3> QED
      BY <2>2, <3>1 DEF Moves, Current
  <2> QED
    BY <2>1, <2>2 DEF StepKind
<1> QED
  BY <1>5, <1>6

\* One request at a time: an expired row is written by nobody but its delete.
LEMMA StepFinal ==
    ASSUME TypeOK, NoRowBeyond, GuessesOK, StepKind, Alone, NEW i \in Ids, otp[i].status = "EXPIRED"
    PROVE  otp'[i].status \in {"EXPIRED", "ABSENT"}
<1>1. Kept(i) => otp'[i].status \in {"EXPIRED", "ABSENT"}
  BY DefaultsTyped DEF Kept
<1>2. i \in Int /\ nextId \in Int /\ otp[i] \in Row
  BY BoundsAssumption DEF TypeOK
<1>3. Inserts => Kept(i)
  BY <1>2 DEF Inserts, NoRowBeyond, Present
<1>4. ASSUME NEW p \in Procs, NEW j \in Ids, Expires(p, j) \/ Counts(p, j) \/ Accepts(p, j)
      PROVE  otp'[i].status \in {"EXPIRED", "ABSENT"}
  <2>1. CASE i # j
    BY <1>1, <1>4, <2>1 DEF Expires, Counts, Accepts, Marks
  <2>2. CASE i = j
    <3>1. ~Accepts(p, j)
      BY <2>2, GuessesForm DEF Accepts, Marks, Current, At
    <3> QED
      BY <1>2, <1>4, <2>2, <3>1 DEF Expires, Counts, Row
  <2> QED
    BY <2>1, <2>2
<1> QED
  BY <1>1, <1>3, <1>4 DEF StepKind, Deletes

-----------------------------------------------------------------------------
(* What two requests at a time can win back. *)

\* Guesses that k attempts are worth, twice; each attempt more is worth 2 k.
LEMMA WorthFacts ==
    ASSUME NEW a \in Nat, NEW b \in Nat, a <= b
    PROVE  /\ (a - 1) * (a + 2) \in Int
           /\ (a - 1) * (a + 2) <= (b - 1) * (b + 2)
           /\ (a - 2) * (a + 1) = (a - 1) * (a + 2) - 2 * a
           /\ (a - 1) * (a + 2) = a * (a + 3) - 2 * (a + 1)
           /\ -2 <= (a - 1) * (a + 2)
OBVIOUS

LEMMA ProspectFacts ==
    ASSUME NEW a \in Nat, NEW t \in Nat, NEW s \in Nat
    PROVE  /\ Prospect(a, t, s) \in Nat
           /\ Prospect(a, t, s) = Prospect(a, s, t)
           /\ Prospect(a, 0, s) <= Prospect(a, t, s)
           /\ Prospect(a, a, s) = Prospect(a, 0, s)
           /\ Prospect(a, 0, 0) = a * (a + 3)
           /\ t > 0 => Prospect(t - 1, s, 0) + 2 <= Prospect(a, t, s)
<1> DEFINE W(x) == (x - 1) * (x + 2)
           P(x, y, z) == 2 * (Larger(x, Smaller(y, z)) + 1) + W(Larger(x, Larger(y, z)))
<1>1. \A x, y \in Nat : /\ Larger(x, y) \in {x, y} /\ Larger(x, y) >= x /\ Larger(x, y) >= y
                        /\ Smaller(x, y) \in {x, y} /\ Smaller(x, y) <= x /\ Smaller(x, y) <= y
  BY DEF Larger, Smaller
<1>2. \A x, y, z : Prospect(x, y, z) = P(x, y, z)
  BY DEF Prospect
<1>3. \A x, y \in Nat : x <= y => W(x) \in Int /\ W(x) <= W(y) /\ -2 <= W(x)
  BY WorthFacts
<1>4. t > 0 => t - 1 \in Nat /\ W(t - 1) = W(t) - 2 * t
  <2>1. t - 1 - 1 = t - 2 /\ t - 1 + 2 = t + 1
    OBVIOUS
  <2> QED
    BY <2>1, WorthFacts
<1>5. W(a) = a * (a + 3) - 2 * (a + 1) /\ a * (a + 3) \in Int
  BY WorthFacts
<1> HIDE DEF W
<1>6. Prospect(a, t, s) \in Nat
  <2>1. W(Larger(a, Larger(t, s))) \in Int /\ -2 <= W(Larger(a, Larger(t, s)))
    BY <1>1, <1>3
  <2>2. Larger(a, Smaller(t, s)) \in Nat
    BY <1>1
  <2> QED
    BY <1>2, <2>1, <2>2
<1>7. Larger(t, s) = Larger(s, t) /\ Smaller(t, s) = Smaller(s, t)
  BY DEF Larger, Smaller
<1>8. Prospect(a, 0, s) <= Prospect(a, t, s)
  <2>1. Larger(a, Smaller(0, s)) <= Larger(a, Smaller(t, s))
    BY DEF Larger, Smaller
  <2>2. Larger(a, Larger(0, s)) <= Larger(a, Larger(t, s))
    BY DEF Larger
  <2>3. /\ Larger(a, Larger(0, s)) \in Nat /\ Larger(a, Larger(t, s)) \in Nat
        /\ Larger(a, Smaller(0, s)) \in Nat /\ Larger(a, Smaller(t, s)) \in Nat
    BY <1>1
  <2>4. /\ W(Larger(a, Larger(0, s))) \in Int /\ W(Larger(a, Larger(t, s))) \in Int
        /\ W(Larger(a, Larger(0, s))) <= W(Larger(a, Larger(t, s)))
    BY <1>3, <2>2, <2>3
  <2> QED
    BY <1>2, <2>1, <2>3, <2>4
<1>9. Prospect(a, a, s) = Prospect(a, 0, s)
  <2>1. Larger(a, Smaller(a, s)) = Larger(a, Smaller(0, s))
    BY DEF Larger, Smaller
  <2>2. Larger(a, Larger(a, s)) = Larger(a, Larger(0, s))
    BY DEF Larger
  <2> QED
    BY <1>2, <2>1, <2>2
<1>10. Prospect(a, 0, 0) = a * (a + 3)
  <2>1. Larger(a, Larger(0, 0)) = a /\ Larger(a, Smaller(0, 0)) = a
    BY DEF Larger, Smaller
  <2>2. W(a) \in Int
    BY <1>3
  <2> QED
    BY <1>2, <1>5, <2>1, <2>2
<1>11. ASSUME t > 0 PROVE Prospect(t - 1, s, 0) + 2 <= Prospect(a, t, s)
  <2>1. Larger(t - 1, Smaller(s, 0)) = t - 1
    BY <1>11 DEF Larger, Smaller
  <2>2. Larger(s, 0) = s
    BY DEF Larger
  <2>3. Larger(a, Larger(t, s)) \in Nat /\ Larger(a, Smaller(t, s)) \in Nat
    BY <1>1
  <2>4. W(Larger(a, Larger(t, s))) \in Int
    BY <1>3, <2>3
  <2>5. CASE t <= s
    <3>1. Larger(t - 1, s) = s /\ s <= Larger(a, Larger(t, s)) /\ t <= Larger(a, Smaller(t, s))
      BY <2>5 DEF Larger, Smaller
    <3>2. W(s) \in Int /\ W(s) <= W(Larger(a, Larger(t, s)))
      BY <1>3, <2>3, <3>1
    <3> QED
      BY <1>2, <2>1, <2>2, <2>3, <2>4, <3>1, <3>2
  <2>6. CASE s < t
    <3>1. Larger(t - 1, s) = t - 1 /\ t <= Larger(a, Larger(t, s)) /\ 0 <= Larger(a, Smaller(t, s))
      BY <2>6 DEF Larger, Smaller
    <3>2. W(t) \in Int /\ W(t) <= W(Larger(a, Larger(t, s)))
      BY <1>3, <2>3, <3>1
    <3> QED
      BY <1>2, <1>4, <2>1, <2>2, <2>3, <2>4, <2>6, <3>1, <3>2, <1>11
  <2> QED
    BY <2>5, <2>6
<1> QED
  BY <1>2, <1>6, <1>7, <1>8, <1>9, <1>10, <1>11

\* The parts of it, as they are used.
LEMMA ProspectSwap ==
    \A a, t, s \in Nat : Prospect(a, t, s) \in Nat /\ Prospect(a, t, s) = Prospect(a, s, t)
BY ProspectFacts

LEMMA ProspectLess ==
    \A a, t, s \in Nat : Prospect(a, 0, s) <= Prospect(a, t, s) /\ Prospect(a, a, s) = Prospect(a, 0, s)
BY ProspectFacts

LEMMA ProspectWrite ==
    \A a, t, s \in Nat : t > 0 => Prospect(t - 1, s, 0) + 2 <= Prospect(a, t, s)
BY ProspectFacts

LEMMA AllowanceTyped == Attempts \in Nat /\ Attempts * (Attempts + 3) \in Nat
<1>1. \A x \in Nat : x * (x + 3) \in Nat
  OBVIOUS
<1> QED
  BY <1>1, LimitAssumption

LEMMA RowTyped ==
    ASSUME TypeOK, NEW i \in Ids
    PROVE  otp[i] \in Row /\ otp[i].attempts \in Nat /\ wrong[i] \in Nat
BY AllowanceTyped DEF TypeOK, Row

\* What the request besides p is about to count down from.
Other(p, q, i) == IF p = q THEN 0 ELSE Held(q, i)
Paid(i, p, q) ==
    2 * wrong[i] + Prospect(otp[i].attempts, Held(p, i), Other(p, q, i)) <= Attempts * (Attempts + 3)

LEMMA PaidForm ==
    GuessesPaid <=>
        (Pair => GuessesBounded /\ \A i \in Ids, p, q \in Procs : Present(i) => Paid(i, p, q))
BY DEF GuessesPaid, Paid, Other

LEMMA HeldTyped ==
    ASSUME TypeOK, NEW i, NEW p \in Procs, NEW q \in Procs
    PROVE  Held(p, i) \in Nat /\ Other(p, q, i) \in Nat
BY LimitAssumption DEF Held, Other, TypeOK, Request

LEMMA HeldTypedPrime ==
    ASSUME TypeOK', NEW i, NEW p \in Procs, NEW q \in Procs
    PROVE  Held(p, i)' \in Nat /\ Other(p, q, i)' \in Nat
BY LimitAssumption DEF Held, Other, TypeOK, Request

\* Where the row stays as it is and nobody reads it, it is worth no more.
LEMMA PaidKept ==
    ASSUME TypeOK, TypeOK', NEW i \in Ids, NEW p \in Procs, NEW q \in Procs, Paid(i, p, q),
           otp'[i].attempts = otp[i].attempts, wrong'[i] = wrong[i],
           \A x \in {p, q} : Held(x, i)' \in {Held(x, i), 0}
    PROVE  Paid(i, p, q)'
<1> DEFINE a == otp[i].attempts
           t == Held(p, i)
           s == Other(p, q, i)
           u == Held(p, i)'
           v == Other(p, q, i)'
<1>1. a \in Nat /\ t \in Nat /\ s \in Nat /\ u \in Nat /\ v \in Nat /\ wrong[i] \in Nat
      /\ Attempts * (Attempts + 3) \in Nat
  BY HeldTyped, HeldTypedPrime, AllowanceTyped, RowTyped
<1>2. u \in {t, 0} /\ v \in {s, 0}
  BY DEF Other
<1>3. 2 * wrong[i] + Prospect(a, t, s) <= Attempts * (Attempts + 3)
  BY DEF Paid
<1>4. Paid(i, p, q)' <=> 2 * wrong[i] + Prospect(a, u, v) <= Attempts * (Attempts + 3)
  BY DEF Paid, Prospect, Larger, Smaller
<1> HIDE DEF a, t, s, u, v
<1>5. Prospect(a, u, v) <= Prospect(a, t, v)
  <2>1. Prospect(a, 0, v) <= Prospect(a, t, v) /\ Prospect(a, t, v) \in Nat
    BY <1>1, ProspectLess, ProspectSwap
  <2> QED
    BY <1>2, <2>1
<1>6. Prospect(a, t, v) <= Prospect(a, t, s)
  <2>1. Prospect(a, 0, t) <= Prospect(a, s, t) /\ Prospect(a, s, t) \in Nat
    BY <1>1, ProspectLess, ProspectSwap
  <2>2. Prospect(a, 0, t) = Prospect(a, t, 0) /\ Prospect(a, s, t) = Prospect(a, t, s)
    BY <1>1, ProspectSwap
  <2> QED
    BY <1>2, <2>1, <2>2
<1>7. Prospect(a, u, v) \in Nat /\ Prospect(a, t, v) \in Nat /\ Prospect(a, t, s) \in Nat
  BY <1>1, ProspectSwap
<1> QED
  BY <1>1, <1>3, <1>4, <1>5, <1>6, <1>7

\* Two requests at a time: no step makes a row and the guesses answered for it
\* worth more than the row was worth when it was inserted.
LEMMA StepPaid ==
    TypeOK /\ TypeOK' /\ ReadsOK /\ NoRowBeyond /\ NoGuessBeyond /\ GuessesPaid /\ StepKind
        => GuessesPaid'
<1> SUFFICES ASSUME TypeOK, TypeOK', ReadsOK, NoRowBeyond, NoGuessBeyond, GuessesPaid, StepKind, Pair
             PROVE  GuessesBounded' /\ \A i \in Ids, p, q \in Procs : Present(i)' => Paid(i, p, q)'
  BY DEF GuessesPaid, Paid, Other, Pair
<1>1. GuessesBounded /\ \A i \in Ids, p, q \in Procs : Present(i) => Paid(i, p, q)
  BY PaidForm
<1>2. /\ Attempts \in Nat /\ Attempts * (Attempts + 3) \in Nat
      /\ \A i \in Ids : wrong[i] \in Nat /\ otp[i] \in Row /\ otp[i].attempts \in Nat
  BY AllowanceTyped, RowTyped
\* Held after the step, but for the row that is read.
<1>3. ASSUME NEW i \in Ids, NEW x \in Procs,
             ~\E p \in Procs, r \in Request : Moves(p, r) /\ r.at = "v_wrong" /\ r.seen = i
      PROVE  Held(x, i)' \in {Held(x, i), 0}
  <2>1. CASE rq'[x] = rq[x] \/ rq'[x] = Idle
    BY <2>1, DefaultsTyped DEF Held, At
  <2>2. ASSUME NEW p \in Procs, NEW r \in Request, Moves(p, r) PROVE Held(x, i)' \in {Held(x, i), 0}
    <3>1. rq'[x] = IF x = p THEN r ELSE rq[x]
      BY <2>2 DEF Moves, TypeOK
    <3> QED
      BY <1>3, <2>1, <2>2, <3>1 DEF Held, At
  <2> QED
    BY <2>1, <2>2 DEF StepKind
\* A row that is kept.
<1>4. ASSUME NEW i \in Ids, NEW p \in Procs, NEW q \in Procs, Present(i)', Present(i),
             otp'[i].attempts = otp[i].attempts, wrong'[i] = wrong[i]
      PROVE  Paid(i, p, q)'
  <2>1. CASE \A x \in Procs : Held(x, i)' \in {Held(x, i), 0}
    BY <1>1, <1>4, <2>1, PaidKept
  <2>2. ASSUME NEW m \in Procs, NEW r \in Request, Moves(m, r), r.at = "v_wrong", r.seen = i
        PROVE  Paid(i, p, q)'
    <3>1. /\ rq' = [rq EXCEPT ![m] = r] /\ rq[m].at = "v_find"
          /\ r.tries = otp[i].attempts
      BY <2>2 DEF Moves
    <3>2. Held(m, i) = 0 /\ Held(m, i)' = otp[i].attempts
      BY <2>2, <3>1 DEF Held, At, TypeOK
    <3>3. \A x \in Procs : x # m => Held(x, i)' = Held(x, i)
      BY <3>1 DEF Held, At, TypeOK
    <3> DEFINE a == otp[i].attempts
    <3>4. Paid(i, p, q)
      BY <1>1, <1>4
    <3>5. CASE p = m
      <4>1. Other(p, q, i)' = Other(p, q, i) /\ Other(p, q, i) \in Nat
        BY <3>3, <3>5, HeldTyped DEF Other
      <4>2. Prospect(a, a, Other(p, q, i)) = Prospect(a, 0, Other(p, q, i))
        BY <1>2, <4>1, ProspectLess
      <4>3. Paid(i, p, q)' <=> 2 * wrong[i] + Prospect(a, a, Other(p, q, i)) <= Attempts * (Attempts + 3)
        BY <1>4, <3>2, <3>5, <4>1 DEF Paid, Prospect, Larger, Smaller
      <4> QED
        BY <3>2, <3>4, <3>5, <4>2, <4>3 DEF Paid
    <3>6. CASE p # m /\ q = m
      <4>1. /\ Held(p, i)' = Held(p, i) /\ Held(p, i) \in Nat
            /\ Other(p, q, i) = 0 /\ Other(p, q, i)' = a
        BY <3>2, <3>3, <3>6, HeldTyped DEF Other
      <4>2. Prospect(a, Held(p, i), a) = Prospect(a, Held(p, i), 0)
        <5>1. Prospect(a, a, Held(p, i)) = Prospect(a, 0, Held(p, i))
          BY <1>2, <4>1, ProspectLess
        <5>2. Prospect(a, a, Held(p, i)) = Prospect(a, Held(p, i), a)
          BY <1>2, <4>1, ProspectSwap
        <5>3. Prospect(a, 0, Held(p, i)) = Prospect(a, Held(p, i), 0)
          <6>1. a \in Nat /\ Held(p, i) \in Nat /\ 0 \in Nat
            BY <1>2, <4>1
          <6> QED
            BY <6>1, ProspectSwap
        <5> QED
          BY <5>1, <5>2, <5>3
      <4>3. Paid(i, p, q)' <=> 2 * wrong[i] + Prospect(a, Held(p, i), a) <= Attempts * (Attempts + 3)
        BY <1>4, <4>1 DEF Paid, Prospect, Larger, Smaller
      <4> QED
        BY <3>4, <4>1, <4>2, <4>3 DEF Paid
    <3>7. CASE p # m /\ q # m
      BY <1>4, <3>3, <3>4, <3>7, PaidKept
    <3> QED
      BY <3>5, <3>6, <3>7
  <2> QED
    BY <1>3, <2>1, <2>2
\* A row that is inserted.
<1>5. ASSUME Inserts, NEW i \in Ids, i = nextId, NEW p \in Procs, NEW q \in Procs
      PROVE  Paid(i, p, q)'
  <2>1. wrong'[i] = 0 /\ otp'[i].attempts = Attempts
    BY <1>5 DEF Inserts, NoGuessBeyond
  <2>2. \A x \in Procs : Held(x, i)' = 0
    <3> TAKE x \in Procs
    <3>1. rq[x].seen # i
      BY <1>5 DEF ReadsOK, ReadOK
    <3>2. ~\E m \in Procs, r \in Request : Moves(m, r) /\ r.at = "v_wrong" /\ r.seen = i
      BY <1>5 DEF Moves, Inserts
    <3> QED
      BY <1>3, <3>1, <3>2 DEF Held
  <2>3. Other(p, q, i)' = 0 /\ Held(p, i)' = 0
    BY <2>2 DEF Other
  <2>4. Paid(i, p, q)' <=> 2 * 0 + Prospect(Attempts, 0, 0) <= Attempts * (Attempts + 3)
    BY <2>1, <2>3 DEF Paid, Prospect, Larger, Smaller
  <2>5. Prospect(Attempts, 0, 0) = Attempts * (Attempts + 3)
    BY <1>2, ProspectFacts
  <2> QED
    BY <1>2, <2>4, <2>5
\* A guess that is counted: by one of the two, or by the one besides p.
<1>6. ASSUME NEW m \in Procs, NEW i \in Ids, Counts(m, i), NEW r \in Request, Moves(m, r)
      PROVE  /\ 2 * wrong'[i] <= Attempts * (Attempts + 3)
             /\ \A p, q \in Procs : Paid(i, p, q)'
  <2> DEFINE a == otp[i].attempts
             t == rq[m].tries
  <2>1. /\ i = rq[m].seen /\ At(m, "v_wrong") /\ Present(i)
        /\ otp'[i].attempts = t - 1 /\ wrong'[i] = wrong[i] + 1
    BY <1>2, <1>6 DEF Counts, Marks, Row
  <2>2. t \in Nat /\ t > 0 /\ a \in Nat /\ wrong[i] \in Nat
    <3>1. t \in 0..Attempts
      BY DEF TypeOK, Request
    <3>2. t > 0
      BY <2>1 DEF ReadsOK, ReadOK
    <3> QED
      BY <1>2, <3>1, <3>2
  <2>3. Held(m, i) = t
    BY <2>1 DEF Held
  <2>4. r.at # "v_wrong"
    <3>1. rq[m].at # "v_find"
      BY <2>1 DEF At
    <3> QED
      BY <1>6, <3>1 DEF Moves
  <2>5. Held(m, i)' = 0 /\ \A x \in Procs : x # m => Held(x, i)' = Held(x, i)
    BY <1>6, <2>4 DEF Moves, Held, At, TypeOK
  <2> HIDE DEF a, t
  <2>6. ASSUME NEW s \in Nat, 2 * wrong[i] + Prospect(a, t, s) <= Attempts * (Attempts + 3)
        PROVE  /\ 2 * (wrong[i] + 1) + Prospect(t - 1, s, 0) <= Attempts * (Attempts + 3)
               /\ 2 * (wrong[i] + 1) + Prospect(t - 1, 0, s) <= Attempts * (Attempts + 3)
               /\ 2 * (wrong[i] + 1) <= Attempts * (Attempts + 3)
    <3>1. t - 1 \in Nat
      BY <2>2
    <3>2. Prospect(t - 1, s, 0) + 2 <= Prospect(a, t, s)
      BY <2>2, ProspectWrite
    <3>3. /\ Prospect(t - 1, s, 0) \in Nat /\ Prospect(a, t, s) \in Nat
          /\ Prospect(t - 1, s, 0) = Prospect(t - 1, 0, s)
      BY <2>2, <3>1, ProspectSwap
    <3> QED
      BY <1>2, <2>2, <2>6, <3>2, <3>3
  <2>7. ASSUME NEW p \in Procs, NEW q \in Procs PROVE Paid(i, p, q)'
    <3>1. Paid(i, p, q)' <=> 2 * (wrong[i] + 1) + Prospect(t - 1, Held(p, i)', Other(p, q, i)')
                                 <= Attempts * (Attempts + 3)
      BY <2>1 DEF Paid, Prospect, Larger, Smaller
    <3>2. Paid(i, p, q) /\ Paid(i, p, m) /\ Held(p, i) \in Nat /\ Other(p, q, i) \in Nat
      BY <1>1, <2>1, HeldTyped
    <3>3. CASE p = m
      <4>1. Held(p, i)' = 0 /\ Other(p, q, i)' = Other(p, q, i)
        BY <2>5, <3>3 DEF Other
      <4>2. 2 * wrong[i] + Prospect(a, t, Other(p, q, i)) <= Attempts * (Attempts + 3)
        BY <2>3, <3>2, <3>3 DEF Paid, a
      <4> QED
        BY <2>6, <3>1, <3>2, <4>1, <4>2
    <3>4. CASE p # m
      <4>1. q = m \/ p = q
        BY <3>4 DEF Pair
      <4>2. Other(p, q, i)' = 0 /\ Held(p, i)' = Held(p, i) /\ Other(p, m, i) = t
        BY <2>3, <2>5, <3>4, <4>1 DEF Other
      <4>3. 2 * wrong[i] + Prospect(a, Held(p, i), t) <= Attempts * (Attempts + 3)
        BY <3>2, <4>2 DEF Paid, a
      <4>4. 2 * wrong[i] + Prospect(a, t, Held(p, i)) <= Attempts * (Attempts + 3)
        BY <2>2, <3>2, <4>3, ProspectSwap
      <4> QED
        BY <2>6, <3>1, <3>2, <4>2, <4>4
    <3> QED
      BY <3>3, <3>4
  <2>8. Paid(i, m, m) /\ Other(m, m, i) = 0
    BY <1>1, <2>1 DEF Other
  <2>9. 2 * wrong[i] + Prospect(a, t, 0) <= Attempts * (Attempts + 3)
    BY <2>3, <2>8 DEF Paid, a
  <2> QED
    BY <2>1, <2>6, <2>7, <2>9
<1>7. ASSUME NEW i \in Ids, Kept(i) \/ (Inserts /\ i = nextId)
      PROVE  /\ 2 * wrong'[i] <= Attempts * (Attempts + 3)
             /\ \A p, q \in Procs : Present(i)' => Paid(i, p, q)'
  <2>1. 2 * wrong'[i] <= Attempts * (Attempts + 3)
    BY <1>1, <1>7 DEF GuessesBounded, Kept, Inserts
  <2>2. Kept(i) /\ Present(i)' => Present(i) /\ otp'[i].attempts = otp[i].attempts /\ wrong'[i] = wrong[i]
    BY DefaultsTyped DEF Kept, Present
  <2> QED
    BY <1>4, <1>5, <1>7, <2>1, <2>2
<1>8. ASSUME NEW m \in Procs, NEW r \in Request, Moves(m, r), NEW j \in Ids,
             Expires(m, j) \/ Counts(m, j) \/ Accepts(m, j), NEW i \in Ids
      PROVE  /\ 2 * wrong'[i] <= Attempts * (Attempts + 3)
             /\ \A p, q \in Procs : Present(i)' => Paid(i, p, q)'
  <2>1. Marks(m, j)
    BY <1>8 DEF Expires, Counts, Accepts
  <2>2. CASE i # j
    <3>1. Kept(i)
      BY <2>1, <2>2 DEF Marks
    <3> QED
      BY <1>7, <3>1
  <2>3. CASE i = j /\ Counts(m, j)
    BY <1>6, <1>8, <2>3
  <2>4. CASE i = j /\ (Expires(m, j) \/ Accepts(m, j))
    <3>1. Present(i) /\ otp'[i].attempts = otp[i].attempts /\ wrong'[i] = wrong[i]
      BY <1>2, <2>1, <2>4 DEF Marks, Expires, Accepts, Row
    <3>2. 2 * wrong'[i] <= Attempts * (Attempts + 3)
      BY <1>1, <3>1 DEF GuessesBounded
    <3> QED
      BY <1>4, <3>1, <3>2
  <2> QED
    BY <1>8, <2>2, <2>3, <2>4
<1>9. ASSUME NEW i \in Ids
      PROVE  /\ 2 * wrong'[i] <= Attempts * (Attempts + 3)
             /\ \A p, q \in Procs : Present(i)' => Paid(i, p, q)'
  <2>1. Deletes \/ Inserts => Kept(i) \/ (Inserts /\ i = nextId)
    BY DEF Deletes, Inserts
  <2> QED
    BY <1>7, <1>8, <2>1 DEF StepKind
<1> QED
  BY <1>9 DEF GuessesBounded

-----------------------------------------------------------------------------
(* Codes within a counter's hour. *)

\* What a request at l, past the limit, may rely on.
Allowed(l) ==
    /\ l \in Passed \cup {"c_reset", "c_notify"} => req.exists
    /\ l = "c_reset" => req.since + Hold <= now
    /\ req.exists /\ now < req.since + Hold =>
          /\ l = "c_notify" => Cardinality(SentInHold) < req.count
          /\ l \in Passed => req.count < Limit

\* The counter and what was sent.
CounterOK ==
    /\ req.since <= now
    /\ ~req.exists => sent = <<>>
    /\ LimitedWhileHeld
    /\ req.exists /\ now < req.since + Hold =>
          Cardinality(SentInHold) <= req.count /\ req.count <= Limit

LEMMA LimitForm == LimitOK <=> (Alone => CounterOK /\ \A p \in Procs : Allowed(rq[p].at))
BY DEF LimitOK, CounterOK, Allowed, At, Passed

\* What was sent is finite, nothing at first, and one more with each code sent
\* while the counter is young.
LEMMA SentFinite ==
    ASSUME TypeOK
    PROVE  IsFiniteSet(SentInHold) /\ Cardinality(SentInHold) \in Nat
<1>1. IsFiniteSet(1..Len(sent))
  BY FS_Interval DEF TypeOK
<1>2. SentInHold \subseteq 1..Len(sent)
  BY DEF SentInHold, TypeOK
<1> QED
  BY <1>1, <1>2, FS_Subset, FS_CardinalityType

LEMMA NothingSent ==
    ASSUME sent = <<>>
    PROVE  Cardinality(SentInHold) = 0
<1>1. SentInHold = {}
  BY DEF SentInHold
<1> QED
  BY <1>1, FS_EmptySet

LEMMA SendOne ==
    ASSUME TypeOK, sent' = Append(sent, now), req' = req
    PROVE  IF req.since <= now /\ now < req.since + Hold
           THEN Cardinality(SentInHold') = Cardinality(SentInHold) + 1
           ELSE Cardinality(SentInHold') = Cardinality(SentInHold)
<1> DEFINE n == Len(sent)
<1>1. n \in Nat /\ DOMAIN sent = 1..n /\ DOMAIN sent' = 1..(n + 1)
  BY DEF TypeOK
<1>2. sent'[n + 1] = now /\ \A k \in 1..n : sent'[k] = sent[k]
  BY DEF TypeOK
<1>3. n + 1 \notin SentInHold /\ IsFiniteSet(SentInHold)
  BY <1>1, SentFinite DEF SentInHold
<1>4. SentInHold' = IF req.since <= now /\ now < req.since + Hold
                    THEN SentInHold \cup {n + 1} ELSE SentInHold
  BY <1>1, <1>2 DEF SentInHold
<1>5. Cardinality(SentInHold \cup {n + 1}) = Cardinality(SentInHold) + 1
  BY <1>3, FS_AddElement
<1> QED
  BY <1>4, <1>5

\* One request at a time: a code is refused, or counted before it goes out.
LEMMA StepLimit == TypeOK /\ LimitOK /\ [Next]_vars => LimitOK'
<1> SUFFICES ASSUME TypeOK, LimitOK, [Next]_vars, Alone
             PROVE  CounterOK' /\ \A p \in Procs : Allowed(rq[p].at)'
  BY DEF LimitOK, CounterOK, Allowed, At, Alone
<1>1. CounterOK /\ \A p \in Procs : Allowed(rq[p].at)
  BY LimitForm
<1>2. /\ now \in Nat /\ req.since \in Nat /\ req.count \in Nat /\ Hold \in Nat /\ Day \in Nat
      /\ Hold <= Day /\ Limit \in Nat /\ 0 < Limit
  BY LimitAssumption, PeriodAssumption, BoundsAssumption DEF TypeOK
<1>3. Cardinality(SentInHold) \in Nat
  BY SentFinite
<1>4. ASSUME UNCHANGED <<now, req, sent>>
      PROVE  CounterOK' /\ \A l : Allowed(l)' <=> Allowed(l)
  BY <1>1, <1>4 DEF CounterOK, Allowed, LimitedWhileHeld, SentInHold
<1> DEFINE Free == {"idle", "c_req", "c_new", "c_log", "r_find", "r_del", "r_log", "v_find",
                    "v_expire", "v_wrong", "v_ok", "v_log"}
<1>5. \A l \in Free : Allowed(l) /\ Allowed(l)'
  BY DEF Allowed, Passed
\* A request that goes nowhere, to a place where nothing is asked, or on from
\* one of Passed to another.
<1>6. ASSUME UNCHANGED <<now, req, sent>>, NEW p \in Procs,
             \/ rq'[p].at \in Free
             \/ rq'[p].at \in Passed /\ rq[p].at \in Passed
      PROVE  CounterOK' /\ \A q \in Procs : Allowed(rq[q].at)'
  <2>1. \A q \in Procs : q = p
    BY DEF Alone
  <2>2. rq[p].at \in Passed /\ rq'[p].at \in Passed => Allowed(rq'[p].at)
    BY <1>1 DEF Allowed, Passed
  <2> QED
    BY <1>4, <1>5, <1>6, <2>1, <2>2
<1>7. ASSUME NEW p \in Procs, NEW l \in Labels, Goto(p, l) PROVE rq'[p].at = l
  BY <1>7, DefaultsTyped DEF Goto, TypeOK, Request
<1>8. ASSUME NEW p \in Procs, NEW i, NEW l \in Labels, Read(p, i, l) PROVE rq'[p].at = l
  BY <1>8, DefaultsTyped DEF Read, TypeOK, Request
<1>9. ASSUME NEW p \in Procs, ReadCounter(p) PROVE CounterOK' /\ \A q \in Procs : Allowed(rq[q].at)'
  <2>1. UNCHANGED <<now, req, sent>> /\ \A q \in Procs : q = p
    BY <1>9 DEF ReadCounter, stored, ghost, Alone
  <2>2. CASE rq'[p].at \in Free
    BY <1>6, <2>1, <2>2
  <2>3. CASE req.exists /\ Lapsed /\ Goto(p, "c_reset")
    <3>1. rq'[p].at = "c_reset"
      BY <1>7, <2>3 DEF Labels
    <3>2. Allowed("c_reset")
      BY <1>2, <2>3 DEF Allowed, Lapsed, Passed
    <3> QED
      BY <1>4, <2>1, <3>1, <3>2
  <2>4. CASE req.exists /\ ~Refusing /\ Goto(p, "c_find")
    <3>1. rq'[p].at = "c_find"
      BY <1>7, <2>4 DEF Labels
    <3>2. Allowed("c_find")
      BY <1>1, <1>2, <2>4 DEF Allowed, Refusing, CounterOK
    <3> QED
      BY <1>4, <2>1, <3>1, <3>2
  <2> QED
    BY <1>7, <1>9, <2>2, <2>3, <2>4 DEF ReadCounter, Reply, Labels
<1>10. ASSUME NEW p \in Procs, ResetCounter(p) PROVE CounterOK' /\ \A q \in Procs : Allowed(rq[q].at)'
  <2>1. /\ req'.exists = req.exists /\ req'.since = req.since
        /\ UNCHANGED <<now, sent>>
        /\ rq'[p].at = "c_find" /\ \A q \in Procs : q = p
    BY <1>7, <1>10 DEF ResetCounter, ghost, Alone, TypeOK, Labels
  <2>2. req.exists /\ req.since + Hold <= now
    BY <1>1, <1>10 DEF ResetCounter, At, Allowed
  <2>3. SentInHold' = SentInHold
    BY <2>1 DEF SentInHold
  <2> QED
    BY <1>1, <1>2, <2>1, <2>2, <2>3 DEF CounterOK, LimitedWhileHeld, Allowed, Passed
<1>11. ASSUME NEW p \in Procs, NewCounter(p) PROVE CounterOK' /\ \A q \in Procs : Allowed(rq[q].at)'
  <2>1. CASE req.exists
    <3>1. UNCHANGED <<now, req, sent>> /\ rq'[p].at = "idle"
      BY <1>7, <1>11, <2>1 DEF NewCounter, Reply, ghost, Labels
    <3> QED
      BY <1>6, <3>1
  <2>2. CASE ~req.exists
    <3>1. /\ req'.exists /\ req'.count = 0 /\ req'.since = now /\ UNCHANGED <<now, sent>>
          /\ rq'[p].at = "c_find" /\ \A q \in Procs : q = p
      BY <1>7, <1>11, <2>2 DEF NewCounter, ghost, Alone, Labels
    <3>2. sent' = <<>>
      BY <1>1, <2>2, <3>1 DEF CounterOK
    <3>3. Cardinality(SentInHold') = 0
      <4>1. SentInHold' = {}
        BY <3>2 DEF SentInHold
      <4> QED
        BY <4>1, FS_EmptySet
    <3> QED
      BY <1>2, <3>1, <3>3 DEF CounterOK, LimitedWhileHeld, Allowed, Passed
  <2> QED
    BY <2>1, <2>2
<1>12. ASSUME NEW p \in Procs, IncrementCounter(p) PROVE CounterOK' /\ \A q \in Procs : Allowed(rq[q].at)'
  <2>1. /\ req'.exists = req.exists /\ req'.since = req.since /\ req'.count = req.count + 1
        /\ UNCHANGED <<now, sent>>
        /\ rq'[p].at = "c_notify" /\ \A q \in Procs : q = p
    BY <1>7, <1>12 DEF IncrementCounter, ghost, Alone, TypeOK, Labels
  <2>2. req.exists /\ (now < req.since + Hold => req.count < Limit)
    BY <1>1, <1>12 DEF IncrementCounter, At, Allowed, Passed
  <2>3. SentInHold' = SentInHold
    BY <2>1 DEF SentInHold
  <2> QED
    BY <1>1, <1>2, <1>3, <2>1, <2>2, <2>3 DEF CounterOK, LimitedWhileHeld, Allowed, Passed
<1>13. ASSUME NEW p \in Procs, Notify(p) PROVE CounterOK' /\ \A q \in Procs : Allowed(rq[q].at)'
  <2>1. /\ UNCHANGED <<now, req>> /\ sent' = Append(sent, now)
        /\ rq'[p].at \in {"c_log", "idle"} /\ \A q \in Procs : q = p
    BY <1>7, <1>13 DEF Notify, stored, Alone, Labels
  <2>2. req.exists /\ (now < req.since + Hold => Cardinality(SentInHold) < req.count)
    BY <1>1, <1>13 DEF Notify, At, Allowed
  <2>3. /\ now < req.since + Hold => Cardinality(SentInHold') = Cardinality(SentInHold) + 1
        /\ ~(now < req.since + Hold) => Cardinality(SentInHold') = Cardinality(SentInHold)
    BY <1>1, <2>1, SendOne DEF CounterOK
  <2>4. CounterOK'
    BY <1>1, <1>2, <1>3, <2>1, <2>2, <2>3 DEF CounterOK, LimitedWhileHeld
  <2> QED
    BY <1>5, <2>1, <2>4
<1>14. ASSUME NEW p \in Procs,
              \/ FindPrevious(p) \/ DeletePrevious(p) \/ InsertRow(p) \/ LogActivity(p)
              \/ ResendStep(p) \/ VerifyStep(p) \/ CallThrows(p)
       PROVE  CounterOK' /\ \A q \in Procs : Allowed(rq[q].at)'
  <2>1. UNCHANGED <<now, req, sent>>
    BY <1>14 DEF FindPrevious, DeletePrevious, InsertRow, LogActivity, ResendStep, FindForResend,
       DeleteForResend, VerifyStep, ReadRow, MarkExpired, WriteAttempts, MarkVerified, CallThrows,
       stored, ghost
  <2>2. CASE FindPrevious(p)
    <3>1. PICK i \in 0..MaxOtps : Read(p, i, IF i = 0 THEN "c_ins" ELSE "c_del")
      BY <2>2 DEF FindPrevious
    <3>2. (IF i = 0 THEN "c_ins" ELSE "c_del") \in Labels \cap Passed
      BY DEF Labels, Passed
    <3>3. rq'[p].at \in Passed
      BY <1>8, <3>1, <3>2
    <3>4. rq[p].at \in Passed
      BY <2>2 DEF FindPrevious, At, Passed
    <3> QED
      BY <1>6, <2>1, <3>3, <3>4
  <2>3. CASE DeletePrevious(p) \/ InsertRow(p)
    <3>1. rq[p].at \in Passed
      BY <2>3 DEF DeletePrevious, InsertRow, At, Passed
    <3>2. \E l \in {"idle", "c_ins", "c_count"} : Goto(p, l)
      BY <2>3 DEF DeletePrevious, InsertRow, Reply
    <3>3. rq'[p].at \in {"idle", "c_ins", "c_count"}
      BY <1>7, <3>2 DEF Labels
    <3> QED
      BY <1>6, <2>1, <3>1, <3>3 DEF Passed
  <2>4. CASE LogActivity(p) \/ DeleteForResend(p) \/ MarkExpired(p) \/ WriteAttempts(p)
             \/ MarkVerified(p) \/ CallThrows(p)
    <3>1. \E l \in Free : Goto(p, l)
      BY <2>4 DEF LogActivity, DeleteForResend, MarkExpired, WriteAttempts, MarkVerified, CallThrows,
         Reply, AfterResendDelete
    <3>2. rq'[p].at \in Free
      BY <1>7, <3>1 DEF Labels
    <3> QED
      BY <1>6, <2>1, <3>2
  <2>5. CASE FindForResend(p) \/ ReadRow(p)
    <3>1. \E i, l : l \in Free /\ Read(p, i, l)
      BY <2>5 DEF FindForResend, ReadRow, AfterResendDelete, Verdict
    <3>2. rq'[p].at \in Free
      BY <1>8, <3>1 DEF Labels
    <3> QED
      BY <1>6, <2>1, <3>2
  <2> QED
    BY <1>14, <2>2, <2>3, <2>4, <2>5 DEF ResendStep, VerifyStep
<1>15. ASSUME NEW p \in Procs, NEW op \in AllOps, NEW t, NEW u, NEW c, Start(p, op, t, u, c)
       PROVE  CounterOK' /\ \A q \in Procs : Allowed(rq[q].at)'
  <2>1. UNCHANGED <<now, req, sent>> /\ rq'[p].at = FirstAwait[op]
    BY <1>15 DEF Start, stored, ghost, TypeOK
  <2>2. FirstAwait[op] \in Free
    BY DEF FirstAwait, AllOps
  <2> QED
    BY <1>6, <2>1, <2>2
<1>16. ASSUME NEW i, CronCrash(i) PROVE CounterOK' /\ \A q \in Procs : Allowed(rq[q].at)'
  <2>1. UNCHANGED <<now, req, sent>> /\ \A p \in Procs : rq'[p].at = "idle"
    BY <1>16, DefaultsTyped DEF CronCrash, stored, ghost
  <2> QED
    BY <1>4, <1>5, <2>1
<1>17. ASSUME UNCHANGED <<now, req, sent, rq>> PROVE CounterOK' /\ \A q \in Procs : Allowed(rq[q].at)'
  BY <1>1, <1>4, <1>17
<1>18. CASE Tick
  <2>1. now' = now + 1 /\ UNCHANGED <<req, sent, rq>>
    BY <1>18 DEF Tick, stored, ghost
  <2>2. SentInHold' = SentInHold
    BY <2>1 DEF SentInHold
  <2> QED
    BY <1>1, <1>2, <2>1, <2>2 DEF CounterOK, LimitedWhileHeld, Allowed
<1> QED
  BY <1>9, <1>10, <1>11, <1>12, <1>13, <1>14, <1>15, <1>16, <1>17, <1>18
  DEF Next, Step, CreateStep, vars, CronScan, CronDelete, stored, ghost

-----------------------------------------------------------------------------
LEMMA InitCounts == Init => CountsOK
<1> SUFFICES ASSUME Init PROVE CountsOK
  OBVIOUS
<1>1. NoGuessBeyond
  BY DEF Init, NoGuessBeyond
<1>2. GuessesOK
  BY DefaultsTyped DEF Init, GuessesOK, AttemptBudget, AcceptedOnce, Present, At
<1>3. LimitOK
  <2>1. Cardinality(SentInHold) = 0
    BY NothingSent DEF Init
  <2> QED
    BY <2>1, DefaultsTyped, LimitAssumption, PeriodAssumption
    DEF Init, LimitOK, LimitedWhileHeld, At, Passed
<1>4. GuessesPaid
  BY DefaultsTyped, AllowanceTyped DEF Init, GuessesPaid, GuessesBounded, Present
<1> QED
  BY <1>1, <1>2, <1>3, <1>4 DEF CountsOK

LEMMA StepCounts == IInv /\ IInv' /\ CountsOK /\ [Next]_vars => CountsOK'
BY StepKinds, StepBeyond, StepGuesses, StepLimit, StepPaid DEF IInv, CountsOK

\* The counts hold in every state: unconditionally that no row is guessed at before
\* it is there, the sums of rows and codes with one request at a time, and what
\* guesses can be won back with two.
THEOREM CountsInvariant == Spec => []CountsOK
<1>1. Init => CountsOK
  BY InitCounts
<1>2. IInv /\ IInv' /\ CountsOK /\ [Next]_vars => CountsOK'
  BY StepCounts
<1> QED
  BY <1>1, <1>2, InductiveInvariant, PTL DEF Spec

\* The whole inductive invariant of otp.service.ts, for every value of the constants.
THEOREM WholeInvariant == Spec => []Inductive
<1>1. IInv /\ CountsOK => Inductive
  BY DEF Inductive
<1> QED
  BY <1>1, InductiveInvariant, CountsInvariant, PTL

\* One request at a time, whatever fails and whenever the process dies: guesses
\* answered and attempts left add up to the allowance of verifyOTP.
THEOREM GuessesAreCounted ==
    ASSUME Alone
    PROVE  Spec => []AttemptBudget
<1>1. CountsOK => AttemptBudget
  BY DEF CountsOK, GuessesOK
<1> QED
  BY <1>1, CountsInvariant, PTL

\* One request at a time: verifyOTP accepts a code once.
THEOREM CodesAcceptedOnce ==
    ASSUME Alone
    PROVE  Spec => []AcceptedOnce
<1>1. CountsOK => AcceptedOnce
  BY DEF CountsOK, GuessesOK
<1> QED
  BY <1>1, CountsInvariant, PTL

\* One request at a time: a code that was marked expired is never valid again.
THEOREM ExpiredStaysExpired ==
    ASSUME Alone
    PROVE  Spec => ExpiredIsFinal
<1>1. IInv /\ CountsOK /\ [Next]_vars
          => [\A i \in Ids : otp[i].status = "EXPIRED" => otp'[i].status \in {"EXPIRED", "ABSENT"}]_vars
  BY StepKinds, StepFinal DEF IInv, CountsOK
<1> QED
  BY <1>1, InductiveInvariant, CountsInvariant, PTL DEF Spec, ExpiredIsFinal

\* One request at a time: createOTP sends no more than Limit codes while the counter
\* is younger than Hold, whatever fails, and whatever was reset before.
THEOREM CodesLimited ==
    ASSUME Alone
    PROVE  Spec => []LimitedWhileHeld
<1>1. CountsOK => LimitedWhileHeld
  BY DEF CountsOK, LimitOK
<1> QED
  BY <1>1, CountsInvariant, PTL

\* Two requests at a time: the lost updates of the attempts in verifyOTP win back
\* no more guesses than the k-th attempt's k + 1, for any number of attempts.
THEOREM LostUpdatesBounded ==
    ASSUME Pair
    PROVE  Spec => []GuessesBounded
<1>1. CountsOK => GuessesBounded
  BY DEF CountsOK, GuessesPaid
<1> QED
  BY <1>1, CountsInvariant, PTL
=============================================================================
