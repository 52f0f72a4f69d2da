-------------------------------- MODULE Otp --------------------------------
(***************************************************************************)
(* One-time codes: OtpService over the tables "otp" and "otp_requests".    *)
(*                                                                         *)
(* The module follows one value (one e-mail address or phone number): the  *)
(* rows of different values never meet.  A request is a process; a step of *)
(* it is one awaited statement on the database, with the JavaScript that   *)
(* runs from the answer to the next await.  Nothing in the service opens a *)
(* transaction, so the steps of all requests interleave freely.            *)
(***************************************************************************)
EXTENDS Integers, FiniteSets, Sequences

CONSTANTS
    Procs,       \* requests in flight
    Types,       \* the OTPType values used for this value
    Ops,         \* operations offered: a subset of AllOps
    Callers,     \* FALSE: the public endpoints, TRUE: the ones behind a token
    MaxOtps,     \* bound: rows ever inserted
    MaxNow,      \* bound: the clock
    Limit,       \* codes per counter (5 in the code)
    Attempts,    \* guesses a row starts with (5 in the schema)
    OtpTtl,      \* life of a code (1 hour)
    Hold,        \* how long a full counter refuses (1 hour)
    Day,         \* age at which a counter is reset (1 day)
    Faults       \* TRUE: an awaited call may throw

AllOps == {"create", "resend", "verify"}

ASSUME OpsAssumption == Ops \subseteq AllOps /\ Callers \subseteq BOOLEAN /\ Types # {}
ASSUME BoundsAssumption == MaxOtps \in Nat /\ MaxNow \in Nat /\ IsFiniteSet(Procs)
ASSUME LimitAssumption == Limit \in Nat \ {0} /\ Attempts \in Nat
ASSUME PeriodAssumption == OtpTtl \in Nat \ {0} /\ Hold \in Nat /\ Day \in Nat /\ Hold <= Day
ASSUME FaultsAssumption == Faults \in BOOLEAN

VARIABLES
    now,       \* the clock
    otp,       \* otp[i]: the i-th row ever inserted into "otp"
    nextId,    \* the id of the next row: the order of createdAt
    req,       \* the row of this value in "otp_requests"
    rq,        \* rq[p]: request p: the await it is blocked on (at), what its
               \*   caller asked for, the row it read (seen, 0 for none) and
               \*   the attempts it read there (tries)
    doomed,    \* rows the running cron job has still to delete
    sent,      \* when each code handed to the notification service was
    wrong,     \* wrong[i]: guesses answered "Invalid code!!" for row i
    accepted   \* accepted[i]: verifications of row i that succeeded

stored == <<otp, nextId, req>>
ghost == <<sent, wrong, accepted>>
vars == <<now, stored, rq, doomed, ghost>>

Ids == 1..MaxOtps
Times == 0..MaxNow
Labels == {"idle", "c_req", "c_reset", "c_new", "c_find", "c_del", "c_ins", "c_count",
           "c_notify", "c_log", "r_find", "r_del", "r_log", "v_find", "v_expire",
           "v_wrong", "v_ok", "v_log"}
Status == {"ABSENT", "PENDING", "VERIFIED", "EXPIRED"}
Row == [status : Status, type : Types, user : BOOLEAN, attempts : 0..Attempts, expiresAt : Nat]
NoRow == [status |-> "ABSENT", type |-> CHOOSE t \in Types : TRUE, user |-> FALSE,
          attempts |-> 0, expiresAt |-> 0]
Request == [at : Labels, op : AllOps, type : Types, user : BOOLEAN, code : 0..MaxOtps,
            seen : 0..MaxOtps, tries : 0..Attempts]
Idle == [at |-> "idle", op |-> "verify", type |-> CHOOSE t \in Types : TRUE, user |-> FALSE,
         code |-> 0, seen |-> 0, tries |-> 0]

TypeOK ==
    /\ now \in Times
    /\ otp \in [Ids -> Row]
    /\ nextId \in 1..(MaxOtps + 1)
    /\ req \in [exists : BOOLEAN, count : Nat, since : Times]
    /\ rq \in [Procs -> Request]
    /\ doomed \in SUBSET Ids
    /\ sent \in Seq(Times)
    /\ wrong \in [Ids -> Nat]
    /\ accepted \in [Ids -> Nat]

Init ==
    /\ now = 0
    /\ otp = [i \in Ids |-> NoRow]
    /\ nextId = 1
    /\ req = [exists |-> FALSE, count |-> 0, since |-> 0]
    /\ rq = [p \in Procs |-> Idle]
    /\ doomed = {}
    /\ sent = <<>>
    /\ wrong = [i \in Ids |-> 0]
    /\ accepted = [i \in Ids |-> 0]

-----------------------------------------------------------------------------
Present(i) == otp[i].status # "ABSENT"
Expired(i) == otp[i].expiresAt <= now
RowsOf(t) == {i \in Ids : Present(i) /\ otp[i].type = t}

\* getOTP leaves userId out of the filter when the caller gives none.
Matches(i, t, byUser) ==
    i \in RowsOf(t) /\ (byUser => otp[i].user)

\* findFirst ordered by createdAt descending: the latest match, or no row.
IsLatest(i, t, byUser) ==
    \/ i = 0 /\ \A j \in Ids : ~Matches(j, t, byUser)
    \/ i \in Ids /\ Matches(i, t, byUser)
       /\ \A j \in Ids : Matches(j, t, byUser) => j <= i

\* findFirst with no order: any match, or no row.
IsSome(i, t, byUser) ==
    \/ i = 0 /\ \A j \in Ids : ~Matches(j, t, byUser)
    \/ i \in Ids /\ Matches(i, t, byUser)

At(p, label) == rq[p].at = label

\* Request p goes on to its next await, or is answered.
Goto(p, label) ==
    rq' = [rq EXCEPT ![p] = IF label = "idle" THEN Idle ELSE [@ EXCEPT !.at = label]]
Reply(p) == Goto(p, "idle")

\* The same, after a findFirst that returned row i.
Read(p, i, label) ==
    rq' = [rq EXCEPT ![p] =
              IF label = "idle" THEN Idle
              ELSE [@ EXCEPT !.at = label, !.seen = i,
                             !.tries = IF i = 0 THEN 0 ELSE otp[i].attempts]]

\* Prisma's delete throws (P2025) when the row is already gone.
DeleteRow(i) == otp' = [otp EXCEPT ![i] = NoRow]

-----------------------------------------------------------------------------
FirstAwait == [create |-> "c_req", resend |-> "r_find", verify |-> "v_find"]

\* Bound: as many codes are asked for as there are ids left.
Room == nextId + Cardinality({p \in Procs : rq[p].op # "verify"}) <= MaxOtps

\* A caller sends a request, with a token (byUser) or on the public endpoint.
\* The code of a verification is that of row c, or 0 for one never issued.
Start(p, op, t, byUser, c) ==
    /\ At(p, "idle")
    /\ op \in Ops
    /\ IF op = "verify" THEN c < nextId ELSE c = 0 /\ Room
    /\ rq' = [rq EXCEPT ![p] = [at |-> FirstAwait[op], op |-> op, type |-> t, user |-> byUser,
                                code |-> c, seen |-> 0, tries |-> 0]]
    /\ UNCHANGED <<now, stored, doomed, ghost>>

\* An awaited call rejects: the catch block answers success: false.
CallThrows(p) ==
    /\ Faults
    /\ ~At(p, "idle")
    /\ Reply(p)
    /\ UNCHANGED <<now, stored, doomed, ghost>>

-----------------------------------------------------------------------------
(* createOTP *)

\* A counter of age Day is reset before use; one that is exactly Limit and
\* younger than Hold refuses.
Lapsed == req.since + Day <= now
RefusingAboveLimit == req.count > Limit /\ req.since + Hold > now  \* fault: off by one
Refusing == req.count = Limit /\ req.since + Hold > now

ReadCounter(p) ==
    /\ At(p, "c_req")
    /\ \/ ~req.exists /\ Goto(p, "c_new")
       \/ req.exists /\ Lapsed /\ Goto(p, "c_reset")
       \/ req.exists /\ ~Lapsed /\ Refusing /\ Reply(p)
       \/ req.exists /\ ~Lapsed /\ ~Refusing /\ Goto(p, "c_find")
    /\ UNCHANGED <<now, stored, doomed, ghost>>

\* The update leaves updatedAt alone: the schema gives it a default only.
ResetCounter(p) ==
    /\ At(p, "c_reset")
    /\ req' = [req EXCEPT !.count = 0]
    /\ Goto(p, "c_find")
    /\ UNCHANGED <<now, otp, nextId, doomed, ghost>>

\* The column "value" is unique: the second of two creators fails.
NewCounter(p) ==
    /\ At(p, "c_new")
    /\ IF req.exists
       THEN Reply(p) /\ UNCHANGED req
       ELSE Goto(p, "c_find") /\ req' = [exists |-> TRUE, count |-> 0, since |-> now]
    /\ UNCHANGED <<now, otp, nextId, doomed, ghost>>

\* Fault: the previous row is not deleted.
FindPreviousKeep(p) ==
    At(p, "c_find") /\ Goto(p, "c_ins") /\ UNCHANGED <<now, stored, doomed, ghost>>

FindPrevious(p) ==
    /\ At(p, "c_find")
    /\ \E i \in 0..MaxOtps :
          /\ IsLatest(i, rq[p].type, FALSE)
          /\ Read(p, i, IF i = 0 THEN "c_ins" ELSE "c_del")
    /\ UNCHANGED <<now, stored, doomed, ghost>>

\* Fault: a delete that finds nothing is tried again.
DeletePreviousRetry(p) ==
    /\ At(p, "c_del")
    /\ Present(rq[p].seen)
    /\ Goto(p, "c_ins")
    /\ DeleteRow(rq[p].seen)
    /\ UNCHANGED <<now, nextId, req, doomed, ghost>>

DeletePrevious(p) ==
    /\ At(p, "c_del")
    /\ IF Present(rq[p].seen)
       THEN Goto(p, "c_ins") /\ DeleteRow(rq[p].seen)
       ELSE Reply(p) /\ UNCHANGED otp
    /\ UNCHANGED <<now, nextId, req, doomed, ghost>>

InsertRow(p) ==
    /\ At(p, "c_ins")
    /\ nextId <= MaxOtps    \* Room keeps this true
    /\ otp' = [otp EXCEPT ![nextId] =
                  [status |-> "PENDING", type |-> rq[p].type, user |-> rq[p].user,
                   attempts |-> Attempts, expiresAt |-> now + OtpTtl]]
    /\ nextId' = nextId + 1
    /\ Goto(p, "c_count")
    /\ UNCHANGED <<now, req, doomed, ghost>>

IncrementCounter(p) ==
    /\ At(p, "c_count")
    /\ req' = [req EXCEPT !.count = @ + 1]
    /\ Goto(p, "c_notify")
    /\ UNCHANGED <<now, otp, nextId, doomed, ghost>>

\* createNotification puts the code on the queue: from here on it is out.
Notify(p) ==
    /\ At(p, "c_notify")
    /\ sent' = Append(sent, now)
    /\ Goto(p, IF rq[p].user /\ rq[p].op = "create" THEN "c_log" ELSE "idle")
    /\ UNCHANGED <<now, stored, doomed, wrong, accepted>>

\* Device and activity rows: other tables, nothing of this module.
LogActivity(p) ==
    /\ \/ At(p, "c_log") /\ Reply(p)
       \/ At(p, "v_log") /\ Reply(p)
       \/ At(p, "r_log") /\ Goto(p, "c_req")
    /\ UNCHANGED <<now, stored, doomed, ghost>>

-----------------------------------------------------------------------------
(* resendOTP: deletes the latest row, then runs createOTP. *)

AfterResendDelete(p) == IF rq[p].user THEN "r_log" ELSE "c_req"

FindForResend(p) ==
    /\ At(p, "r_find")
    /\ \E i \in 0..MaxOtps :
          /\ IsLatest(i, rq[p].type, rq[p].user)
          /\ Read(p, i, IF i # 0 THEN "r_del" ELSE AfterResendDelete(p))
    /\ UNCHANGED <<now, stored, doomed, ghost>>

DeleteForResend(p) ==
    /\ At(p, "r_del")
    /\ IF Present(rq[p].seen)
       THEN Goto(p, AfterResendDelete(p)) /\ DeleteRow(rq[p].seen)
       ELSE Reply(p) /\ UNCHANGED otp
    /\ UNCHANGED <<now, nextId, req, doomed, ghost>>

-----------------------------------------------------------------------------
(* verifyOTP *)

\* Faults: the attempts, the status, or neither expiry nor status looked at.
VerdictUncounted(i, code) ==
    IF i = 0 THEN "idle"
    ELSE IF Expired(i) THEN "v_expire"
    ELSE IF code # i THEN "v_wrong"
    ELSE IF otp[i].status = "PENDING" THEN "v_ok"
    ELSE "idle"
VerdictReusable(i, code) ==
    IF i = 0 \/ otp[i].attempts <= 0 THEN "idle"
    ELSE IF Expired(i) THEN "v_expire"
    ELSE IF code # i THEN "v_wrong"
    ELSE "v_ok"
VerdictMatchFirst(i, code) ==
    IF i = 0 \/ otp[i].attempts <= 0 THEN "idle"
    ELSE IF code = i /\ otp[i].status # "VERIFIED" THEN "v_ok"
    ELSE IF Expired(i) THEN "v_expire"
    ELSE "v_wrong"

\* Where the row that was read and the code that was sent take a verification.
Verdict(i, code) ==
    IF i = 0 \/ otp[i].attempts <= 0 THEN "idle"
    ELSE IF Expired(i) THEN "v_expire"
    ELSE IF code # i THEN "v_wrong"
    ELSE IF otp[i].status = "PENDING" THEN "v_ok"
    ELSE "idle"

ReadRow(p) ==
    /\ At(p, "v_find")
    /\ \E i \in 0..MaxOtps :
          /\ IsSome(i, rq[p].type, rq[p].user)
          /\ Read(p, i, Verdict(i, rq[p].code))
    /\ UNCHANGED <<now, stored, doomed, ghost>>

MarkExpired(p) ==
    /\ At(p, "v_expire")
    /\ Reply(p)
    /\ otp' = IF Present(rq[p].seen) THEN [otp EXCEPT ![rq[p].seen].status = "EXPIRED"] ELSE otp
    /\ UNCHANGED <<now, nextId, req, doomed, ghost>>

\* Fault: the attempts are not decremented.
WriteAttemptsUnchanged(p) ==
    /\ At(p, "v_wrong")
    /\ Reply(p)
    /\ IF Present(rq[p].seen)
       THEN wrong' = [wrong EXCEPT ![rq[p].seen] = @ + 1]
       ELSE UNCHANGED wrong
    /\ UNCHANGED <<now, stored, doomed, sent, accepted>>

\* attempts is written from the value read, not decremented in place.
WriteAttempts(p) ==
    /\ At(p, "v_wrong")
    /\ Reply(p)
    /\ IF Present(rq[p].seen)
       THEN /\ otp' = [otp EXCEPT ![rq[p].seen].attempts = rq[p].tries - 1]
            /\ wrong' = [wrong EXCEPT ![rq[p].seen] = @ + 1]
       ELSE UNCHANGED <<otp, wrong>>
    /\ UNCHANGED <<now, nextId, req, doomed, sent, accepted>>

MarkVerified(p) ==
    /\ At(p, "v_ok")
    /\ IF Present(rq[p].seen)
       THEN /\ otp' = [otp EXCEPT ![rq[p].seen].status = "VERIFIED"]
            /\ accepted' = [accepted EXCEPT ![rq[p].seen] = @ + 1]
            /\ Goto(p, IF rq[p].user THEN "v_log" ELSE "idle")
       ELSE Reply(p) /\ UNCHANGED <<otp, accepted>>
    /\ UNCHANGED <<now, nextId, req, doomed, sent, wrong>>

-----------------------------------------------------------------------------
(* clearExpiredOtps, and the clock *)

\* Fault: the comparison is turned round.
CronScanUnexpired ==
    /\ doomed = {}
    /\ doomed' = {i \in Ids : Present(i) /\ ~Expired(i)}
    /\ doomed' # {}
    /\ UNCHANGED <<now, stored, rq, ghost>>

CronScan ==
    /\ doomed = {}
    /\ doomed' = {i \in Ids : Present(i) /\ Expired(i)}
    /\ doomed' # {}
    /\ UNCHANGED <<now, stored, rq, ghost>>

CronDelete(i) ==
    /\ i \in doomed
    /\ Present(i)
    /\ DeleteRow(i)
    /\ doomed' = doomed \ {i}
    /\ UNCHANGED <<now, nextId, req, rq, ghost>>

\* The mapped promises are neither awaited nor caught: the delete of a row that
\* is already gone is an unhandled rejection, which ends the Node process.
\* Every request in flight is lost with it.
CronCrash(i) ==
    /\ i \in doomed
    /\ ~Present(i)
    /\ doomed' = {}
    /\ rq' = [p \in Procs |-> Idle]
    /\ UNCHANGED <<now, stored, ghost>>

Tick ==
    /\ now < MaxNow
    /\ now' = now + 1
    /\ UNCHANGED <<stored, rq, doomed, ghost>>

-----------------------------------------------------------------------------
CreateStep(p) ==
    \/ ReadCounter(p) \/ ResetCounter(p) \/ NewCounter(p) \/ FindPrevious(p)
    \/ DeletePrevious(p) \/ InsertRow(p) \/ IncrementCounter(p) \/ Notify(p) \/ LogActivity(p)
ResendStep(p) == FindForResend(p) \/ DeleteForResend(p)
VerifyStep(p) == ReadRow(p) \/ MarkExpired(p) \/ WriteAttempts(p) \/ MarkVerified(p)
Step(p) == CreateStep(p) \/ ResendStep(p) \/ VerifyStep(p)

Next ==
    \/ \E p \in Procs : Step(p) \/ CallThrows(p)
    \/ \E p \in Procs, op \in AllOps, t \in Types, u \in Callers, c \in 0..MaxOtps :
          Start(p, op, t, u, c)
    \/ CronScan
    \/ \E i \in Ids : CronDelete(i) \/ CronCrash(i)
    \/ Tick

Spec == Init /\ [][Next]_vars

\* Awaited statements are answered and the scheduler fires the cron job.
Fairness ==
    /\ \A p \in Procs : WF_vars(Step(p))
    /\ WF_vars(CronScan)
    /\ WF_vars(\E i \in Ids : CronDelete(i) \/ CronCrash(i))

FairSpec == Spec /\ Fairness

-----------------------------------------------------------------------------
\* Requests that will insert a row of type t and have no further delete to do.
Inserting(t) == {p \in Procs : At(p, "c_ins") /\ rq[p].type = t}

\* However requests interleave, fail or die, at most as many codes of one type
\* are outstanding for a value as requests run at once; with requests one at a
\* time, at most one (createOTP finds, deletes and inserts in three statements).
LiveCodesBounded ==
    \A t \in Types : Cardinality(RowsOf(t)) <= Cardinality(Procs)

\* Where a request stands determines what it has read: the inductive part.
ReadOK(p) ==
    /\ rq[p].seen < nextId
    /\ rq[p].at \in {"c_del", "r_del", "v_expire", "v_wrong", "v_ok"} => rq[p].seen \in Ids
    /\ At(p, "c_del") /\ Present(rq[p].seen) => otp[rq[p].seen].type = rq[p].type
    /\ At(p, "v_wrong") => rq[p].tries > 0
ReadsOK == \A p \in Procs : ReadOK(p)
NoRowBeyond == \A i \in Ids : i >= nextId => ~Present(i)

\* The same counting the codes about to be inserted: the inductive form.
LiveOrComingBounded ==
    \A t \in Types : Cardinality(RowsOf(t)) + Cardinality(Inserting(t)) <= Cardinality(Procs)

IInv == TypeOK /\ ReadsOK /\ NoRowBeyond /\ LiveOrComingBounded

\* A guess answered "Invalid code!!" has cost an attempt: on a row, the guesses
\* answered and the attempts left add up to the allowance (verifyOTP).
AttemptBudget ==
    \A i \in Ids : Present(i) => wrong[i] + otp[i].attempts = Attempts

\* Two requests at a time can win guesses back by writing an old count, but
\* only so many: the k-th attempt is worth at most k + 1 comparisons.
GuessesBounded ==
    \A i \in Ids : 2 * wrong[i] <= Attempts * (Attempts + 3)

\* A code is accepted once.
AcceptedOnce == \A i \in Ids : accepted[i] <= 1

\* An expired code stays expired: no verification that read the row earlier
\* turns it back (EXPIRED is written over VERIFIED, never the reverse).
ExpiredIsFinal ==
    [][\A i \in Ids : otp[i].status = "EXPIRED" => otp'[i].status \in {"EXPIRED", "ABSENT"}]_vars

\* The codes that went out while the counter was younger than Hold.
SentInHold == {k \in DOMAIN sent : req.since <= sent[k] /\ sent[k] < req.since + Hold}

\* While a counter is younger than Hold, at most Limit codes went out.
LimitedWhileHeld == req.exists => Cardinality(SentInHold) <= Limit

\* The test "enforces request limit per value" (test/otp.e2e-spec.ts) in its
\* weakest reading: a burst of requests is not answered with more than Limit codes.
LimitedInABurst == \A t \in Times : Cardinality({k \in DOMAIN sent : sent[k] = t}) <= Limit

-----------------------------------------------------------------------------
\* Requests run one at a time; no more than two run.
Alone == \A p, q \in Procs : p = q
Pair == \A p, q, r \in Procs : p = q \/ q = r \/ p = r

NoGuessBeyond == \A i \in Ids : i >= nextId => wrong[i] = 0 /\ accepted[i] = 0

\* Alone, a verification writes to the row it read.
GuessesOK ==
    Alone =>
        /\ AttemptBudget
        /\ AcceptedOnce
        /\ \A i \in Ids : otp[i].status = "PENDING" => accepted[i] = 0
        /\ \A p \in Procs :
              /\ At(p, "v_wrong") /\ Present(rq[p].seen) => rq[p].tries = otp[rq[p].seen].attempts
              /\ At(p, "v_ok") /\ Present(rq[p].seen) => otp[rq[p].seen].status = "PENDING"

\* Where a request has passed the limit and not yet counted its code.
Passed == {"c_find", "c_del", "c_ins", "c_count"}

\* Alone, a code is counted before it goes out, and room was left for it.
LimitOK ==
    Alone =>
        /\ req.since <= now
        /\ ~req.exists => sent = <<>>
        /\ \A p \in Procs : rq[p].at \in Passed \cup {"c_reset", "c_notify"} => req.exists
        /\ \A p \in Procs : At(p, "c_reset") => req.since + Hold <= now
        /\ LimitedWhileHeld
        /\ req.exists /\ now < req.since + Hold =>
              /\ Cardinality(SentInHold) <= req.count /\ req.count <= Limit
              /\ \A p \in Procs : At(p, "c_notify") => Cardinality(SentInHold) < req.count
              /\ \A p \in Procs : rq[p].at \in Passed => req.count < Limit

\* Twice the guesses that a row with a attempts is still worth to two requests
\* of which one is about to write t - 1 attempts, the other s - 1 (0: neither).
Larger(a, b) == IF a < b THEN b ELSE a
Smaller(a, b) == IF a < b THEN a ELSE b
Prospect(a, t, s) ==
    LET low == Larger(a, Smaller(t, s))
        high == Larger(a, Larger(t, s))
    IN 2 * (low + 1) + (high - 1) * (high + 2)

\* The attempts request p is about to count down from on row i.
Held(p, i) == IF At(p, "v_wrong") /\ rq[p].seen = i THEN rq[p].tries ELSE 0

\* Two at a time, no lost update wins more guesses than were there to win.
GuessesPaid ==
    Pair =>
        /\ GuessesBounded
        /\ \A i \in Ids, p, q \in Procs :
              Present(i) =>
                  2 * wrong[i] + Prospect(otp[i].attempts, Held(p, i), IF p = q THEN 0 ELSE Held(q, i))
                      <= Attempts * (Attempts + 3)

\* The inductive invariant of the counts, on top of IInv.
CountsOK == NoGuessBeyond /\ GuessesOK /\ LimitOK /\ GuessesPaid

\* All that every step keeps: the types, what requests read, the outstanding codes
\* with those to come, and the counts of guesses and codes.
Inductive == IInv /\ CountsOK

\* An expired row goes away.
ExpiredCleared ==
    \A i \in Ids : (Present(i) /\ Expired(i)) ~> ~Present(i)

\* Every request is answered, or lost with the process.
EveryRequestEnds == \A p \in Procs : ~At(p, "idle") ~> At(p, "idle")
=============================================================================
