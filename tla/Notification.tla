---------------------------- MODULE Notification ----------------------------
(***************************************************************************)
(* The notifications of one user and of addresses without one: the row     *)
(* NotificationService inserts, the job it then puts in the queue, the     *)
(* worker that mails or pushes it, and the listeners that write what came  *)
(* of it to the row; and the FCM tokens a push goes to.                    *)
(*                                                                         *)
(* rq[p] is a request, blocked on the await rq[p].at.  The queue is in     *)
(* Redis and outlives the process; worker, requests and listeners do not.  *)
(***************************************************************************)
EXTENDS FiniteSets, Naturals

CONSTANTS
    Procs,       \* requests in flight
    Ids,         \* bound: notifications
    Tokens,      \* bound: FCM tokens ever registered
    Mail,        \* the address of a notification by mail
    None,        \* no notification, no token
    Attempts,    \* the queue's attempts, 3
    MaxStalled,  \* the queue's maxStalledCount, 1
    MaxCrashes,  \* bound: no crash but by a listener once there were so many
    Faults       \* "send": mail or push rejects; "call": another await;
                 \* "stall": the worker loses the lock of its job

Kinds == {"EMAIL", "PUSH"}

ASSUME NotificationAssumption ==
    /\ IsFiniteSet(Procs) /\ IsFiniteSet(Tokens)
    /\ Mail \notin Tokens /\ None \notin Ids \cup Tokens
    /\ Attempts \in Nat \ {0} /\ MaxStalled \in Nat /\ MaxCrashes \in Nat
    /\ Faults \subseteq {"send", "call", "stall"}

VARIABLES
    user,     \* the user's row is there
    notes,    \* notes[i]: the row of "notifications" with id i
    jobs,     \* jobs[i]: its job: attempts made, times it was found stalled
    worker,   \* the job in hand, where process() is, the addresses it has left
    updates,  \* the updates of rows the listeners have under way
    fcm,      \* fcm[t]: whether the row of "fcm_tokens" with token t is there
    rq,       \* rq[p]: request p, with the row it is about (id, or aim for tokens)
    owed,     \* history: the addresses of the latest attempt at i
    sent,     \* history: sent[i][a]: messages that reached address a
    crashes   \* how often the process died

store == <<user, notes, fcm>>
vars == <<store, jobs, worker, updates, rq, owed, sent, crashes>>

Addresses == Tokens \cup {Mail}
Note == [status : {"none", "PENDING", "SENT", "FAILED", "gone"}, kind : Kinds, mine : BOOLEAN]
Job == [at : {"none", "waiting", "active", "completed", "failed"}, made : Nat, stalls : Nat]
Worker == [job : Ids \cup {None}, at : {"idle", "read", "send", "err"}, left : SUBSET Addresses]
Update == [id : Ids, status : {"SENT", "FAILED"}]
Request == [at : {"idle", "add", "delete", "create"}, id : Ids \cup {None}, aim : Tokens \cup {None}]

Idle == [at |-> "idle", id |-> None, aim |-> None]
Resting == [job |-> None, at |-> "idle", left |-> {}]

TypeOK ==
    /\ user \in BOOLEAN
    /\ notes \in [Ids -> Note] /\ jobs \in [Ids -> Job]
    /\ worker \in Worker
    /\ updates \in SUBSET Update
    /\ fcm \in [Tokens -> {"new", "there", "gone"}]
    /\ rq \in [Procs -> Request]
    /\ owed \in [Ids -> SUBSET Addresses]
    /\ sent \in [Ids -> [Addresses -> Nat]]
    /\ crashes \in Nat

Init ==
    /\ user = TRUE
    /\ notes = [i \in Ids |-> [status |-> "none", kind |-> "EMAIL", mine |-> FALSE]]
    /\ jobs = [i \in Ids |-> [at |-> "none", made |-> 0, stalls |-> 0]]
    /\ worker = Resting
    /\ updates = {}
    /\ fcm = [t \in Tokens |-> "new"]
    /\ rq = [p \in Procs |-> Idle]
    /\ owed = [i \in Ids |-> {}]
    /\ sent = [i \in Ids |-> [a \in Addresses |-> 0]]
    /\ crashes = 0

-----------------------------------------------------------------------------
At(p, label) == rq[p].at = label
Become(p, r) == rq' = [rq EXCEPT ![p] = r]
Reply(p) == Become(p, Idle)
Stored(i) == notes[i].status \in {"PENDING", "SENT", "FAILED"}
Live == {t \in Tokens : fcm[t] = "there"}

\* What a crash takes along.
Die ==
    /\ worker' = Resting
    /\ updates' = {}
    /\ rq' = [p \in Procs |-> Idle]
    /\ crashes' = crashes + 1

-----------------------------------------------------------------------------
(* createNotification *)

\* A push is to the user, a mail may be to an address without one.  The payload
\* of an SMS has a phoneNumber, which the table has not: its insert throws.
InsertNote(p, i, kind, mine) ==
    /\ At(p, "idle")
    /\ notes[i].status = "none"
    /\ mine => user
    /\ kind = "PUSH" => mine
    /\ notes' = [notes EXCEPT ![i] = [status |-> "PENDING", kind |-> kind, mine |-> mine]]
    /\ Become(p, [Idle EXCEPT !.at = "add", !.id = i])
    /\ UNCHANGED <<user, fcm, jobs, worker, updates, owed, sent, crashes>>

AddJob(p) ==
    /\ At(p, "add")
    /\ jobs' = [jobs EXCEPT ![rq[p].id].at = "waiting"]
    /\ Reply(p)
    /\ UNCHANGED <<store, worker, updates, owed, sent, crashes>>

-----------------------------------------------------------------------------
(* createFCMToken *)

\* Fault: the look-up finds no token of the user.
FindTokenMiss(p) ==
    /\ At(p, "idle") /\ user
    /\ Become(p, [Idle EXCEPT !.at = "create"])
    /\ UNCHANGED <<store, jobs, worker, updates, owed, sent, crashes>>

FindToken(p) ==
    /\ At(p, "idle") /\ user
    /\ \/ \E t \in Live : Become(p, [Idle EXCEPT !.at = "delete", !.aim = t])
       \/ Live = {} /\ Become(p, [Idle EXCEPT !.at = "create"])
    /\ UNCHANGED <<store, jobs, worker, updates, owed, sent, crashes>>

\* Deleting a row that is gone throws.
DeleteToken(p) ==
    /\ At(p, "delete")
    /\ IF rq[p].aim \in Live
       THEN fcm' = [fcm EXCEPT ![rq[p].aim] = "gone"] /\ Become(p, [Idle EXCEPT !.at = "create"])
       ELSE Reply(p) /\ UNCHANGED fcm
    /\ UNCHANGED <<user, notes, jobs, worker, updates, owed, sent, crashes>>

\* The row refers to the user's.  Bound: no more tokens than Tokens.
CreateToken(p) ==
    /\ At(p, "create")
    /\ IF user
       THEN \E t \in Tokens : fcm[t] = "new" /\ fcm' = [fcm EXCEPT ![t] = "there"]
       ELSE UNCHANGED fcm
    /\ Reply(p)
    /\ UNCHANGED <<user, notes, jobs, worker, updates, owed, sent, crashes>>

\* An await rejects, and the request is answered a failure.
CallThrows(p) ==
    /\ "call" \in Faults
    /\ ~At(p, "idle")
    /\ Reply(p)
    /\ UNCHANGED <<store, jobs, worker, updates, owed, sent, crashes>>

\* deleteUser: rows that refer to the user go with it, jobs do not.
DeleteUser ==
    /\ user
    /\ user' = FALSE
    /\ notes' = [i \in Ids |-> IF Stored(i) /\ notes[i].mine THEN [notes[i] EXCEPT !.status = "gone"] ELSE notes[i]]
    /\ fcm' = [t \in Tokens |-> IF t \in Live THEN "gone" ELSE fcm[t]]
    /\ UNCHANGED <<jobs, worker, updates, rq, owed, sent, crashes>>

-----------------------------------------------------------------------------
(* the queue and its worker *)

\* A job stalled too often is not run again: it fails as it is taken.
Doomed(i) == jobs[i].stalls > MaxStalled

\* The addresses of an attempt: a mail's is in the job, a push has to read them.
TakeJob(i) ==
    /\ worker.at = "idle"
    /\ jobs[i].at = "waiting"
    /\ jobs' = [jobs EXCEPT ![i].at = "active"]
    /\ IF Doomed(i)
       THEN worker' = [job |-> i, at |-> "err", left |-> {}] /\ UNCHANGED owed
       ELSE IF notes[i].kind = "PUSH"
            THEN worker' = [job |-> i, at |-> "read", left |-> {}] /\ UNCHANGED owed
            ELSE /\ worker' = [job |-> i, at |-> "send", left |-> {Mail}]
                 /\ owed' = [owed EXCEPT ![i] = {Mail}]
    /\ UNCHANGED <<store, updates, rq, sent, crashes>>

ReadTokens ==
    /\ worker.at = "read"
    /\ \/ /\ worker' = [worker EXCEPT !.at = "send", !.left = Live]
          /\ owed' = [owed EXCEPT ![worker.job] = Live]
       \/ "call" \in Faults /\ worker' = [worker EXCEPT !.at = "err"] /\ UNCHANGED owed
    /\ UNCHANGED <<store, jobs, updates, rq, sent, crashes>>

Deliver(a) == sent' = [sent EXCEPT ![worker.job][a] = @ + 1]

\* Fault: process() catches what sendEmail and sendPushNotification throw.
SendSwallows(a) ==
    /\ worker.at = "send" /\ a \in worker.left
    /\ worker' = [worker EXCEPT !.left = @ \ {a}]
    /\ Deliver(a) \/ ("send" \in Faults /\ UNCHANGED sent)
    /\ UNCHANGED <<store, jobs, updates, rq, owed, crashes>>

\* Fault: process() starts over when a push could not be sent.
SendAgain(a) ==
    /\ worker.at = "send" /\ a \in worker.left
    /\ \/ worker' = [worker EXCEPT !.left = @ \ {a}] /\ Deliver(a)
       \/ /\ "send" \in Faults
          /\ worker' = [worker EXCEPT !.at = IF a = Mail THEN "err" ELSE "read", !.left = {}]
          /\ UNCHANGED sent
    /\ UNCHANGED <<store, jobs, updates, rq, owed, crashes>>

\* One address after the other; a call that throws may have delivered.
Send(a) ==
    /\ worker.at = "send" /\ a \in worker.left
    /\ \/ worker' = [worker EXCEPT !.left = @ \ {a}] /\ Deliver(a)
       \/ /\ "send" \in Faults
          /\ worker' = [worker EXCEPT !.at = "err"]
          /\ Deliver(a) \/ UNCHANGED sent
    /\ UNCHANGED <<store, jobs, updates, rq, owed, crashes>>

\* The worker settles its job; one it lost the lock of it leaves alone.
Settle(job, status) ==
    /\ worker' = Resting
    /\ IF jobs[worker.job].at = "active"
       THEN /\ jobs' = [jobs EXCEPT ![worker.job] = job]
            /\ updates' = updates \cup {[id |-> worker.job, status |-> s] : s \in status}
       ELSE UNCHANGED <<jobs, updates>>
    /\ UNCHANGED <<store, rq, owed, sent, crashes>>

\* process() has returned: onCompleted starts its update.
Complete ==
    /\ worker.at = "send" /\ worker.left = {}
    /\ Settle([jobs[worker.job] EXCEPT !.at = "completed"], {"SENT"})

\* Fault: one attempt more than the queue is to make.
RetriedOnce(i) == jobs[i].made <= Attempts /\ ~Doomed(i)
Retried(i) == jobs[i].made + 1 < Attempts /\ ~Doomed(i)

\* Fault: onFailed does not look at the attempts; or asks for more than there are.
OnFailedAlways(made) == {"FAILED"}
OnFailedAbove(made) == {s \in {"FAILED"} : made > Attempts}
OnFailed(made) == {s \in {"FAILED"} : made >= Attempts}

\* process() has thrown, or was not called for a doomed job: the attempt counts,
\* and onFailed is called, whether another one follows or not.
Fail ==
    /\ worker.at = "err"
    /\ LET j == worker.job
           made == jobs[j].made + 1
       IN  Settle([jobs[j] EXCEPT !.at = IF Retried(j) THEN "waiting" ELSE "failed", !.made = made],
                  OnFailed(made))

\* The lock of an active job runs out: the process that took it died, or did not
\* renew it in time.  The job is put back, and the attempt does not count.  (One
\* that is doomed is not worked on.)
Stall(i) ==
    /\ jobs[i].at = "active"
    /\ worker.job # i \/ ("stall" \in Faults /\ ~Doomed(i))
    /\ jobs' = [jobs EXCEPT ![i].at = "waiting", ![i].stalls = @ + 1]
    /\ UNCHANGED <<store, worker, updates, rq, owed, sent, crashes>>

\* A listener's update lands.
WriteStatus(u) ==
    /\ u \in updates
    /\ Stored(u.id)
    /\ notes' = [notes EXCEPT ![u.id].status = u.status]
    /\ updates' = updates \ {u}
    /\ UNCHANGED <<user, fcm, jobs, worker, rq, owed, sent, crashes>>

\* It rejects, for one because its row is gone: nobody catches what a listener
\* throws, and the unhandled rejection ends the process.
ListenerDies(u) ==
    /\ u \in updates
    /\ ~Stored(u.id) \/ "call" \in Faults
    /\ Die
    /\ UNCHANGED <<store, jobs, owed, sent>>

Crash ==
    /\ crashes < MaxCrashes
    /\ Die
    /\ UNCHANGED <<store, jobs, owed, sent>>

Process == (\E i \in Ids : TakeJob(i)) \/ ReadTokens \/ (\E a \in Addresses : Send(a)) \/ Complete \/ Fail
Listen == \E u \in updates : WriteStatus(u) \/ ListenerDies(u)

Next ==
    \/ \E p \in Procs :
          \/ \E i \in Ids, kind \in Kinds, mine \in BOOLEAN : InsertNote(p, i, kind, mine)
          \/ AddJob(p) \/ FindToken(p) \/ DeleteToken(p) \/ CreateToken(p) \/ CallThrows(p)
    \/ DeleteUser
    \/ Process \/ Listen
    \/ \E i \in Ids : Stall(i)
    \/ Crash

Spec == Init /\ [][Next]_vars

\* The worker works its queue off, sendings end, updates land, and locks that
\* nobody renews run out.
Fairness ==
    /\ WF_vars(Process)
    /\ WF_vars(Listen)
    /\ \A i \in Ids : WF_vars(worker.job # i /\ Stall(i))

FairSpec == Spec /\ Fairness

-----------------------------------------------------------------------------
(* Properties *)

\* The worker's job was put in the queue and is not over: it is active, or was put
\* back as stalled, once more than it may be at most.
WorkerOK ==
    /\ worker.at = "idle" <=> worker.job = None
    /\ worker.job # None =>
          /\ jobs[worker.job].at \in {"waiting", "active"}
          /\ worker.at # "err" =>
                /\ jobs[worker.job].at = "active" => jobs[worker.job].stalls <= MaxStalled
                /\ jobs[worker.job].stalls <= MaxStalled + 1
    /\ \A i \in Ids : jobs[i].at \in {"none", "waiting", "active"} => jobs[i].made < Attempts

\* One request is about to queue a row that has no job; a job has a row, or had.
RequestsOK ==
    /\ \A p \in Procs : At(p, "add") <=> rq[p].id # None
    /\ \A p \in Procs : At(p, "add") => jobs[rq[p].id].at = "none" /\ notes[rq[p].id].status # "none"
    /\ \A p, q \in Procs : At(p, "add") /\ At(q, "add") /\ rq[p].id = rq[q].id => p = q
    /\ \A i \in Ids : notes[i].status = "none" => jobs[i].at = "none"

\* A row's status, and an update on its way to it, tell how its job ended.
Ended(i, status) ==
    \/ status = "SENT" /\ jobs[i].at = "completed"
    \/ status = "FAILED" /\ jobs[i].at = "failed" /\ jobs[i].made >= Attempts
StatusOK ==
    /\ \A i \in Ids : notes[i].status \in {"SENT", "FAILED"} => Ended(i, notes[i].status)
    /\ \A u \in updates : Ended(u.id, u.status)
    /\ \A u \in updates : notes[u.id].status \in {"PENDING", "gone"}

Reached(i, a) == sent[i][a] >= 1
\* A completed job reached everybody; so has the worker, but for who is left.
DeliveredOK ==
    /\ \A i \in Ids : jobs[i].at = "completed" => \A a \in owed[i] : Reached(i, a)
    /\ worker.at = "send" => \A a \in owed[worker.job] \ worker.left : Reached(worker.job, a)

\* A message that went out is made up for by an attempt that counted, by a stall,
\* or by the attempt a crash broke off or the worker is about (Spends); one still to
\* go out after a stall was made up for in advance (Owes).
Spends(i, a) ==
    /\ jobs[i].at = "active"
    /\ worker.job = i => worker.at = "err" \/ (worker.at = "send" /\ a \notin worker.left)
Owes(i, a) ==
    /\ jobs[i].at = "waiting" /\ worker.job = i
    /\ worker.at = "read" \/ (worker.at = "send" /\ a \in worker.left)
Counted(i, a) ==
    LET paid == jobs[i].made + jobs[i].stalls
    IN  /\ Spends(i, a) => sent[i][a] <= paid + 1
        /\ ~Spends(i, a) => sent[i][a] <= paid
        /\ Owes(i, a) => sent[i][a] < paid
CountsOK ==
    \A i \in Ids, a \in Addresses : jobs[i].at \in {"none", "waiting", "active"} => Counted(i, a)

Inserting == {p \in Procs : At(p, "create")}

\* SENT means that the mail, or a push to every token there was when the worker
\* looked, went out at least once; FAILED that every attempt was made and failed
\* (NotificationProcessor.onCompleted, onFailed).
StatusTrue ==
    \A i \in Ids :
        /\ notes[i].status = "SENT" => \A a \in owed[i] : Reached(i, a)
        /\ notes[i].status = "FAILED" => jobs[i].at = "failed" /\ jobs[i].made >= Attempts

\* What the status says stays so, however late another listener's update lands.
StatusFinal ==
    [][\A i \in Ids : notes[i].status \in {"SENT", "FAILED"} => notes'[i].status \in {notes[i].status, "gone"}]_vars

\* Retries and stalls bring an address a message as often as there are attempts
\* and one stall more, never more often.
MailsBounded == \A i \in Ids, a \in Addresses : sent[i][a] <= Attempts + MaxStalled

\* A user has no more FCM tokens, there or about to be inserted, than requests run
\* at once: one, when they run one at a time (createFCMToken replaces the token it
\* finds, and throws when another request was faster).
TokensBounded == Cardinality(Live) + Cardinality(Inserting) <= Cardinality(Procs)

IInv ==
    /\ TypeOK /\ WorkerOK /\ RequestsOK /\ StatusOK /\ DeliveredOK /\ CountsOK
    /\ MailsBounded /\ TokensBounded

\* The job of every notification ends, whatever fails or stalls.
JobEnds == \A i \in Ids : jobs[i].at = "waiting" ~> jobs[i].at \in {"completed", "failed"}

\* A notification that was queued does not stay PENDING, unless the process died or
\* its job stalled too often: then onFailed is not called with every attempt made.
StatusSettles ==
    \A i \in Ids : jobs[i].at = "waiting" ~> (notes[i].status # "PENDING" \/ crashes > 0 \/ Doomed(i))
=============================================================================
