------------------------- MODULE NotificationProofs -------------------------
(***************************************************************************)
(* What the status of a notification says, how often a message can go out, *)
(* and how many tokens a user can have, for any number of requests,        *)
(* notifications and tokens.                                               *)
(***************************************************************************)
EXTENDS Notification, FiniteSetTheorems, TLAPS

Handed == worker.job \in Ids /\ worker.at # "idle"

LEMMA HandTyped ==
    ASSUME TypeOK, WorkerOK, worker.at # "idle"
    PROVE  /\ Handed
           /\ worker = [job |-> worker.job, at |-> worker.at, left |-> worker.left]
           /\ jobs[worker.job] \in Job /\ jobs[worker.job].at \in {"waiting", "active"}
           /\ worker.left \in SUBSET Addresses
BY DEF TypeOK, WorkerOK, Handed, Worker

LEMMA RestTyped ==
    /\ Idle \in Request /\ Idle.at = "idle" /\ Idle.id = None
    /\ Resting \in Worker /\ Resting.at = "idle" /\ Resting.job = None
BY DEF Idle, Request, Resting, Worker

LEMMA DieTyped ==
    ASSUME TypeOK, Die
    PROVE  /\ worker' \in Worker /\ updates' \in SUBSET Update
           /\ rq' \in [Procs -> Request] /\ crashes' \in Nat
BY RestTyped DEF TypeOK, Die

\* A request of p's own record.
LEMMA BecomeTyped ==
    ASSUME TypeOK, NEW p \in Procs, NEW r \in Request, Become(p, r)
    PROVE  rq' \in [Procs -> Request]
BY DEF TypeOK, Become

LEMMA LiveTyped == Live \in SUBSET Addresses /\ Live \subseteq Tokens
BY DEF Live, Addresses

LEMMA StepTyped == TypeOK /\ WorkerOK /\ RequestsOK /\ [Next]_vars => TypeOK'
<1> SUFFICES ASSUME TypeOK, WorkerOK, RequestsOK, [Next]_vars PROVE TypeOK'
  OBVIOUS
<1> USE DEF store
<1>1. ASSUME NEW p \in Procs, NEW i \in Ids, NEW kind \in Kinds, NEW mine \in BOOLEAN,
             InsertNote(p, i, kind, mine)
      PROVE  TypeOK'
  <2>1. [Idle EXCEPT !.at = "add", !.id = i] \in Request
    BY DEF Idle, Request
  <2>2. rq' \in [Procs -> Request]
    BY <1>1, <2>1, BecomeTyped DEF InsertNote
  <2>3. notes' \in [Ids -> Note]
    BY <1>1 DEF InsertNote, TypeOK, Note
  <2> QED
    BY <1>1, <2>2, <2>3 DEF InsertNote, TypeOK
<1>2. ASSUME NEW p \in Procs, AddJob(p) PROVE TypeOK'
  <2>1. rq[p].id \in Ids
    BY <1>2 DEF AddJob, RequestsOK, TypeOK, Request
  <2>2. jobs' \in [Ids -> Job]
    BY <1>2, <2>1 DEF AddJob, TypeOK, Job
  <2>3. rq' \in [Procs -> Request]
    BY <1>2, RestTyped, BecomeTyped DEF AddJob, Reply
  <2> QED
    BY <1>2, <2>2, <2>3 DEF AddJob, TypeOK
<1>3. ASSUME NEW p \in Procs, FindToken(p) \/ CallThrows(p) PROVE TypeOK'
  <2>1. ASSUME NEW t \in Live PROVE [Idle EXCEPT !.at = "delete", !.aim = t] \in Request
    BY DEF Idle, Request, Live
  <2>2. [Idle EXCEPT !.at = "create"] \in Request
    BY DEF Idle, Request
  <2>3. rq' \in [Procs -> Request]
    BY <1>3, <2>1, <2>2, RestTyped, BecomeTyped DEF FindToken, CallThrows, Reply
  <2> QED
    BY <1>3, <2>3 DEF FindToken, CallThrows, TypeOK
<1>4. ASSUME NEW p \in Procs, DeleteToken(p) \/ CreateToken(p) PROVE TypeOK'
  <2>1. [Idle EXCEPT !.at = "create"] \in Request
    BY DEF Idle, Request
  <2>2. rq' \in [Procs -> Request]
    BY <1>4, <2>1, RestTyped, BecomeTyped DEF DeleteToken, CreateToken, Reply
  <2>3. fcm' \in [Tokens -> {"new", "there", "gone"}]
    BY <1>4 DEF DeleteToken, CreateToken, TypeOK
  <2> QED
    BY <1>4, <2>2, <2>3 DEF DeleteToken, CreateToken, TypeOK
<1>5. CASE DeleteUser
  <2>1. notes' \in [Ids -> Note] /\ fcm' \in [Tokens -> {"new", "there", "gone"}]
    BY <1>5 DEF DeleteUser, TypeOK, Note
  <2> QED
    BY <1>5, <2>1 DEF DeleteUser, TypeOK
<1>6. ASSUME NEW i \in Ids, TakeJob(i) PROVE TypeOK'
  <2>1. jobs' \in [Ids -> Job]
    BY <1>6 DEF TakeJob, TypeOK, Job
  <2>2. {} \in SUBSET Addresses /\ {Mail} \in SUBSET Addresses
    BY DEF Addresses
  <2>3. /\ [job |-> i, at |-> "err", left |-> {}] \in Worker
        /\ [job |-> i, at |-> "read", left |-> {}] \in Worker
        /\ [job |-> i, at |-> "send", left |-> {Mail}] \in Worker
    BY <2>2 DEF Worker
  <2>4. worker' \in Worker
    BY <1>6, <2>3 DEF TakeJob
  <2>5. owed' = owed \/ owed' = [owed EXCEPT ![i] = {Mail}]
    BY <1>6 DEF TakeJob
  <2>6. owed' \in [Ids -> SUBSET Addresses]
    BY <2>2, <2>5 DEF TypeOK
  <2> QED
    BY <1>6, <2>1, <2>4, <2>6 DEF TakeJob, TypeOK
<1>7. CASE ReadTokens
  <2>1. worker' \in Worker
    BY <1>7, LiveTyped DEF ReadTokens, TypeOK, Worker
  <2>2. owed' \in [Ids -> SUBSET Addresses]
    BY <1>7, LiveTyped DEF ReadTokens, TypeOK
  <2> QED
    BY <1>7, <2>1, <2>2 DEF ReadTokens, TypeOK
<1>8. ASSUME NEW a \in Addresses, Send(a) PROVE TypeOK'
  <2>1. worker' \in Worker
    BY <1>8 DEF Send, TypeOK, Worker
  <2>2. sent' \in [Ids -> [Addresses -> Nat]]
    BY <1>8 DEF Send, Deliver, TypeOK
  <2> QED
    BY <1>8, <2>1, <2>2 DEF Send, TypeOK
<1>9. ASSUME NEW job \in Job, NEW S \in SUBSET {"SENT", "FAILED"}, Settle(job, S), Handed PROVE TypeOK'
  <2>1. worker' \in Worker
    BY <1>9, RestTyped DEF Settle
  <2>2. jobs' \in [Ids -> Job]
    BY <1>9 DEF Settle, TypeOK, Handed
  <2>3. {[id |-> worker.job, status |-> s] : s \in S} \subseteq Update
    BY <1>9 DEF Update, Handed
  <2>4. updates' \in SUBSET Update
    BY <1>9, <2>3 DEF Settle, TypeOK
  <2> QED
    BY <1>9, <2>1, <2>2, <2>4 DEF Settle, TypeOK
<1>10. CASE Complete
  <2>1. Handed /\ jobs[worker.job] \in Job
    BY <1>10, HandTyped DEF Complete
  <2>2. [jobs[worker.job] EXCEPT !.at = "completed"] \in Job
    BY <2>1 DEF Job
  <2> QED
    BY <1>9, <1>10, <2>1, <2>2 DEF Complete
<1>11. CASE Fail
  <2> DEFINE made == jobs[worker.job].made + 1
             job == [jobs[worker.job] EXCEPT !.at = IF Retried(worker.job) THEN "waiting" ELSE "failed",
                                             !.made = made]
  <2>1. Handed /\ jobs[worker.job] \in Job
    BY <1>11, HandTyped DEF Fail
  <2>2. job \in Job
    <3>1. jobs[worker.job].made \in Nat /\ made \in Nat
      BY <2>1 DEF Job
    <3>2. PICK l \in {"waiting", "failed"} : l = IF Retried(worker.job) THEN "waiting" ELSE "failed"
      OBVIOUS
    <3>3. [jobs[worker.job] EXCEPT !.at = l, !.made = made] \in Job
      BY <2>1, <3>1 DEF Job
    <3> QED
      BY <3>2, <3>3
  <2>3. OnFailed(made) \in SUBSET {"SENT", "FAILED"}
    BY DEF OnFailed
  <2>4. Settle(job, OnFailed(made))
    BY <1>11 DEF Fail
  <2> QED
    BY <1>9, <2>1, <2>2, <2>3, <2>4
<1>12. ASSUME NEW i \in Ids, Stall(i) PROVE TypeOK'
  <2>1. jobs[i] \in Job /\ jobs[i].stalls + 1 \in Nat
    BY DEF TypeOK, Job
  <2>2. [jobs[i] EXCEPT !.at = "waiting", !.stalls = jobs[i].stalls + 1] \in Job
    BY <2>1 DEF Job
  <2>3. jobs' = [jobs EXCEPT ![i] = [jobs[i] EXCEPT !.at = "waiting", !.stalls = jobs[i].stalls + 1]]
    BY <1>12 DEF Stall, TypeOK, Job
  <2>4. jobs' \in [Ids -> Job]
    BY <2>2, <2>3 DEF TypeOK
  <2> QED
    BY <1>12, <2>4 DEF Stall, TypeOK
<1>13. ASSUME NEW u \in updates, WriteStatus(u) PROVE TypeOK'
  <2>1. u.id \in Ids /\ u.status \in {"SENT", "FAILED"}
    BY DEF TypeOK, Update
  <2>2. notes' \in [Ids -> Note]
    BY <1>13, <2>1 DEF WriteStatus, TypeOK, Note
  <2> QED
    BY <1>13, <2>2 DEF WriteStatus, TypeOK
<1>14. ASSUME NEW u \in updates, ListenerDies(u) PROVE TypeOK'
  BY <1>14, DieTyped DEF ListenerDies, TypeOK
<1>15. CASE Crash
  BY <1>15, DieTyped DEF Crash, TypeOK
<1>16. CASE UNCHANGED vars
  BY <1>16 DEF vars, TypeOK
<1> QED
  BY <1>1, <1>2, <1>3, <1>4, <1>5, <1>6, <1>7, <1>8, <1>10, <1>11, <1>12, <1>13, <1>14, <1>15, <1>16
  DEF Next, Process, Listen

-----------------------------------------------------------------------------
(* What the steps leave as it is. *)

\* Jobs are put in the queue by AddJob only, rows inserted by InsertNote only.
SameJobs == \A i \in Ids : jobs'[i].at = "none" <=> jobs[i].at = "none"
SameRows == \A i \in Ids : notes'[i].status = "none" <=> notes[i].status = "none"

LEMMA SettleForm ==
    ASSUME TypeOK, WorkerOK, worker.at # "idle", NEW job, NEW S, Settle(job, S)
    PROVE  /\ Handed /\ worker' = Resting
           /\ \A i \in Ids : i # worker.job => jobs'[i] = jobs[i]
           /\ jobs[worker.job].at = "active" =>
                 /\ jobs'[worker.job] = job
                 /\ updates' = updates \cup {[id |-> worker.job, status |-> s] : s \in S}
           /\ jobs[worker.job].at # "active" => jobs' = jobs /\ updates' = updates
           /\ UNCHANGED <<store, rq, owed, sent, crashes>>
<1>1. Handed
  BY HandTyped
<1> QED
  BY <1>1 DEF Settle, Handed, TypeOK

\* The two ways the worker settles its job.
LEMMA CompleteForm ==
    ASSUME TypeOK, WorkerOK, Complete
    PROVE  \E job \in Job : /\ Settle(job, {"SENT"})
                           /\ job.at = "completed" /\ job.made = jobs[worker.job].made
                           /\ job.stalls = jobs[worker.job].stalls
<1> DEFINE job == [jobs[worker.job] EXCEPT !.at = "completed"]
<1>1. jobs[worker.job] \in Job
  BY HandTyped DEF Complete
<1>2. job \in Job /\ job.at = "completed" /\ job.made = jobs[worker.job].made
      /\ job.stalls = jobs[worker.job].stalls
  BY <1>1 DEF Job
<1> QED
  BY <1>2 DEF Complete

LEMMA FailForm ==
    ASSUME TypeOK, WorkerOK, Fail
    PROVE  \E job \in Job :
              /\ Settle(job, OnFailed(job.made))
              /\ job.at = (IF Retried(worker.job) THEN "waiting" ELSE "failed")
              /\ job.made = jobs[worker.job].made + 1 /\ job.stalls = jobs[worker.job].stalls
<1> DEFINE made == jobs[worker.job].made + 1
<1>1. jobs[worker.job] \in Job
  BY HandTyped DEF Fail
<1>2. PICK l \in {"waiting", "failed"} : l = IF Retried(worker.job) THEN "waiting" ELSE "failed"
  OBVIOUS
<1> DEFINE job == [jobs[worker.job] EXCEPT !.at = l, !.made = made]
<1>3. jobs[worker.job].made \in Nat /\ made \in Nat
  BY <1>1 DEF Job
<1>4. job \in Job /\ job.at = l /\ job.made = made /\ job.stalls = jobs[worker.job].stalls
  BY <1>1, <1>3 DEF Job
<1>5. Settle(job, OnFailed(made))
  BY <1>2 DEF Fail
<1> QED
  BY <1>2, <1>4, <1>5

LEMMA StallForm ==
    ASSUME TypeOK, NEW i \in Ids, Stall(i)
    PROVE  /\ jobs[i].at = "active" /\ jobs'[i].at = "waiting"
           /\ jobs'[i].made = jobs[i].made /\ jobs'[i].stalls = jobs[i].stalls + 1
           /\ \A j \in Ids : j # i => jobs'[j] = jobs[j]
           /\ UNCHANGED <<store, worker, updates, rq, owed, sent, crashes>>
<1>1. jobs[i] \in Job
  BY DEF TypeOK
<1>2. jobs' = [jobs EXCEPT ![i] = [jobs[i] EXCEPT !.at = "waiting", !.stalls = jobs[i].stalls + 1]]
  BY DEF Stall, TypeOK, Job
<1> QED
  BY <1>1, <1>2 DEF Stall, TypeOK, Job

LEMMA TakeForm ==
    ASSUME TypeOK, NEW i \in Ids, TakeJob(i)
    PROVE  /\ worker.at = "idle" /\ jobs[i].at = "waiting" /\ jobs'[i].at = "active"
           /\ jobs'[i].made = jobs[i].made /\ jobs'[i].stalls = jobs[i].stalls
           /\ \A j \in Ids : j # i => jobs'[j] = jobs[j]
           /\ worker'.job = i /\ worker'.at \in {"read", "send", "err"}
           /\ worker'.at = "err" <=> Doomed(i)
           /\ worker'.at = "send" => worker'.left = {Mail} /\ owed' = [owed EXCEPT ![i] = {Mail}]
           /\ worker'.at # "send" => owed' = owed
           /\ UNCHANGED <<store, updates, rq, sent, crashes>>
<1>1. jobs[i] \in Job
  BY DEF TypeOK
<1>2. jobs' = [jobs EXCEPT ![i] = [jobs[i] EXCEPT !.at = "active"]]
  BY DEF TakeJob, TypeOK, Job
<1>3. /\ jobs'[i].at = "active"
      /\ jobs'[i].made = jobs[i].made /\ jobs'[i].stalls = jobs[i].stalls
      /\ \A j \in Ids : j # i => jobs'[j] = jobs[j]
  BY <1>1, <1>2 DEF TypeOK, Job
<1> QED
  BY <1>3 DEF TakeJob

\* A request about a token ends or goes on to one of its own awaits.
LEMMA TokenForm ==
    ASSUME NEW p \in Procs, FindToken(p) \/ DeleteToken(p) \/ CreateToken(p) \/ CallThrows(p)
    PROVE  /\ UNCHANGED <<user, notes, jobs, worker, updates, owed, sent, crashes>>
           /\ \E r : Become(p, r) /\ r.at # "add" /\ r.id = None
<1>1. ASSUME NEW t PROVE [Idle EXCEPT !.at = "delete", !.aim = t].at = "delete"
                         /\ [Idle EXCEPT !.at = "delete", !.aim = t].id = None
  BY DEF Idle
<1>2. [Idle EXCEPT !.at = "create"].at = "create" /\ [Idle EXCEPT !.at = "create"].id = None
  BY DEF Idle
<1>3. Idle.at = "idle" /\ Idle.id = None
  BY DEF Idle
<1>4. \E r : Become(p, r) /\ r.at # "add" /\ r.id = None
  <2>1. CASE FindToken(p)
    BY <1>1, <1>2, <2>1 DEF FindToken
  <2>2. CASE DeleteToken(p) \/ CreateToken(p) \/ CallThrows(p)
    BY <1>2, <1>3, <2>2 DEF DeleteToken, CreateToken, CallThrows, Reply
  <2> QED
    BY <2>1, <2>2
<1> QED
  BY <1>4 DEF FindToken, DeleteToken, CreateToken, CallThrows, store

\* What a step that is not a request's own does to the requests and their rows.
Apart == SameJobs /\ SameRows /\ (rq' = rq \/ rq' = [p \in Procs |-> Idle])

LEMMA OthersApart ==
    ASSUME TypeOK, WorkerOK,
           \/ DeleteUser \/ Process \/ Listen \/ Crash \/ UNCHANGED vars
           \/ \E i \in Ids : Stall(i)
    PROVE  Apart
<1> USE DEF store, Apart, SameJobs, SameRows
<1>1. CASE DeleteUser
  BY <1>1 DEF DeleteUser, Stored, TypeOK
<1>2. ASSUME NEW i \in Ids, TakeJob(i) \/ Stall(i) PROVE Apart
  BY <1>2, TakeForm, StallForm
<1>3. ASSUME NEW a, ReadTokens \/ Send(a) PROVE Apart
  BY <1>3 DEF ReadTokens, Send
<1>4. ASSUME NEW job, NEW S, Settle(job, S), job.at # "none", worker.at # "idle" PROVE Apart
  <2>1. jobs[worker.job].at # "none"
    BY <1>4, HandTyped
  <2> QED
    BY <1>4, <2>1, SettleForm
<1>5. CASE Complete
  BY <1>4, <1>5, CompleteForm DEF Complete
<1>6. CASE Fail
  <2>1. PICK job : Settle(job, OnFailed(job.made)) /\ job.at # "none"
    BY <1>6, FailForm
  <2> QED
    BY <1>4, <1>6, <2>1 DEF Fail
<1>7. ASSUME NEW u \in updates, WriteStatus(u) PROVE Apart
  <2>1. u.id \in Ids /\ u.status # "none"
    BY DEF TypeOK, Update
  <2> QED
    BY <1>7, <2>1 DEF WriteStatus, Stored, TypeOK
<1>8. ASSUME NEW u \in updates, ListenerDies(u) \/ Crash PROVE Apart
  BY <1>8 DEF ListenerDies, Crash, Die
<1>9. CASE Crash \/ UNCHANGED vars
  BY <1>9 DEF Crash, Die, vars
<1> QED
  BY <1>1, <1>2, <1>3, <1>5, <1>6, <1>7, <1>8, <1>9 DEF Process, Listen

LEMMA StepRequests == TypeOK /\ WorkerOK /\ RequestsOK /\ [Next]_vars => RequestsOK'
<1> SUFFICES ASSUME TypeOK, WorkerOK, RequestsOK, [Next]_vars PROVE RequestsOK'
  OBVIOUS
<1>1. ASSUME NEW p \in Procs, NEW i \in Ids, NEW kind \in Kinds, NEW mine \in BOOLEAN,
             InsertNote(p, i, kind, mine)
      PROVE  RequestsOK'
  BY <1>1, NotificationAssumption DEF InsertNote, RequestsOK, At, Become, Idle, TypeOK
<1>2. ASSUME NEW p \in Procs, AddJob(p) PROVE RequestsOK'
  <2>1. rq[p].id \in Ids
    BY <1>2 DEF AddJob, RequestsOK, TypeOK, Request
  <2> QED
    BY <1>2, <2>1 DEF AddJob, RequestsOK, At, Reply, Become, Idle, TypeOK, store
<1>3. ASSUME NEW p \in Procs, FindToken(p) \/ DeleteToken(p) \/ CreateToken(p) \/ CallThrows(p)
      PROVE  RequestsOK'
  <2>1. UNCHANGED <<jobs, notes>>
    BY <1>3, TokenForm
  <2>2. PICK r : Become(p, r) /\ r.at # "add" /\ r.id = None
    BY <1>3, TokenForm
  <2> QED
    BY <2>1, <2>2 DEF RequestsOK, At, Become, TypeOK
<1>4. CASE Apart
  BY <1>4, RestTyped DEF Apart, SameJobs, SameRows, RequestsOK, At, TypeOK, Request
<1> QED
  BY <1>1, <1>2, <1>3, <1>4, OthersApart DEF Next

-----------------------------------------------------------------------------
(* The worker and its job. *)

AddForm(i) ==
    /\ jobs[i].at = "none" /\ jobs'[i].at = "waiting"
    /\ jobs'[i].made = jobs[i].made /\ jobs'[i].stalls = jobs[i].stalls
    /\ \A j \in Ids : j # i => jobs'[j] = jobs[j]
    /\ UNCHANGED <<store, worker, updates, owed, sent, crashes>>

LEMMA AddJobForm ==
    ASSUME TypeOK, RequestsOK, NEW p \in Procs, AddJob(p)
    PROVE  \E i \in Ids : AddForm(i)
<1>1. rq[p].id \in Ids /\ jobs[rq[p].id].at = "none"
  BY DEF AddJob, RequestsOK, TypeOK, Request
<1>2. jobs[rq[p].id] \in Job
  BY <1>1 DEF TypeOK
<1>3. jobs' = [jobs EXCEPT ![rq[p].id] = [jobs[rq[p].id] EXCEPT !.at = "waiting"]]
  BY <1>1 DEF AddJob, TypeOK, Job
<1> QED
  BY <1>1, <1>2, <1>3 DEF AddForm, AddJob, TypeOK, Job

\* Steps that leave the worker and its jobs alone, and those that end the process.
Elsewhere == UNCHANGED <<jobs, worker, owed, sent>>
Broken == worker' = Resting /\ UNCHANGED <<jobs, owed, sent>>

LEMMA StepKinds ==
    ASSUME TypeOK, RequestsOK, [Next]_vars
    PROVE  \/ Elsewhere \/ Broken \/ ReadTokens \/ Complete \/ Fail
           \/ \E i \in Ids : AddForm(i) \/ TakeJob(i) \/ Stall(i)
           \/ \E a \in Addresses : Send(a)
<1>1. ASSUME NEW p \in Procs, NEW i \in Ids, NEW kind, NEW mine, InsertNote(p, i, kind, mine)
      PROVE  Elsewhere
  BY <1>1 DEF InsertNote, Elsewhere
<1>2. ASSUME NEW p \in Procs, FindToken(p) \/ DeleteToken(p) \/ CreateToken(p) \/ CallThrows(p)
      PROVE  Elsewhere
  BY <1>2, TokenForm DEF Elsewhere
<1>3. DeleteUser \/ UNCHANGED vars => Elsewhere
  BY DEF DeleteUser, Elsewhere, vars
<1>4. ASSUME NEW u, WriteStatus(u) PROVE Elsewhere
  BY <1>4 DEF WriteStatus, Elsewhere
<1>5. ASSUME NEW u, ListenerDies(u) \/ Crash PROVE Broken
  BY <1>5 DEF ListenerDies, Crash, Die, Broken
<1>6. Crash => Broken
  BY DEF Crash, Die, Broken
<1> QED
  BY <1>1, <1>2, <1>3, <1>4, <1>5, <1>6, AddJobForm DEF Next, Process, Listen

LEMMA SendForm ==
    ASSUME TypeOK, WorkerOK, NEW a \in Addresses, Send(a)
    PROVE  /\ Handed /\ worker.at = "send" /\ a \in worker.left
           /\ worker'.job = worker.job
           /\ \/ worker'.at = "send" /\ worker'.left = worker.left \ {a} /\ Deliver(a)
              \/ worker'.at = "err" /\ (Deliver(a) \/ sent' = sent)
           /\ UNCHANGED <<store, jobs, updates, rq, owed, crashes>>
<1>1. Handed /\ worker.at = "send" /\ a \in worker.left
  BY HandTyped DEF Send
<1> QED
  BY <1>1, HandTyped DEF Send

LEMMA ReadForm ==
    ASSUME TypeOK, WorkerOK, ReadTokens
    PROVE  /\ Handed /\ worker.at = "read" /\ worker'.job = worker.job
           /\ \/ worker'.at = "send" /\ worker'.left = Live /\ owed' = [owed EXCEPT ![worker.job] = Live]
              \/ worker'.at = "err" /\ owed' = owed
           /\ UNCHANGED <<store, jobs, updates, rq, sent, crashes>>
<1>1. Handed /\ worker.at = "read"
  BY HandTyped DEF ReadTokens
<1> QED
  BY <1>1, HandTyped DEF ReadTokens

LEMMA StepWorker == TypeOK /\ RequestsOK /\ WorkerOK /\ [Next]_vars => WorkerOK'
<1> SUFFICES ASSUME TypeOK, RequestsOK, WorkerOK, [Next]_vars PROVE WorkerOK'
  OBVIOUS
<1> USE NotificationAssumption
<1>0. \A i \in Ids : i # None
  OBVIOUS
<1>1. CASE Elsewhere
  BY <1>1 DEF Elsewhere, WorkerOK
<1>2. CASE Broken
  BY <1>2, RestTyped DEF Broken, WorkerOK
<1>3. ASSUME NEW i \in Ids, AddForm(i) PROVE WorkerOK'
  <2>1. worker.job # i /\ worker' = worker
    BY <1>3 DEF AddForm, WorkerOK
  <2>2. worker.job # None => worker.job \in Ids /\ jobs'[worker.job] = jobs[worker.job]
    BY <1>3, <2>1 DEF AddForm, TypeOK, Worker
  <2> QED
    BY <1>3, <2>1, <2>2 DEF AddForm, WorkerOK
<1>4. ASSUME NEW i \in Ids, TakeJob(i) PROVE WorkerOK'
  <2>1. worker'.at # "err" => jobs'[i].stalls <= MaxStalled
    <3>1. jobs[i].stalls \in Nat
      BY DEF TypeOK, Job
    <3> QED
      BY <1>4, <3>1, TakeForm DEF Doomed
  <2>2. \A j \in Ids : jobs'[j].at \in {"none", "waiting", "active"} => jobs'[j].made < Attempts
    BY <1>4, TakeForm DEF WorkerOK
  <2>3. jobs'[i].stalls \in Nat
    BY <1>4, TakeForm DEF TypeOK, Job
  <2> QED
    BY <1>0, <1>4, <2>1, <2>2, <2>3, TakeForm DEF WorkerOK
<1>5. CASE ReadTokens
  BY <1>5, ReadForm DEF WorkerOK, Handed
<1>6. ASSUME NEW a \in Addresses, Send(a) PROVE WorkerOK'
  BY <1>6, SendForm DEF WorkerOK, Handed
<1>7. ASSUME NEW job, NEW S, Settle(job, S), worker.at # "idle",
             job.at \in {"none", "waiting", "active"} => job.made < Attempts
      PROVE  WorkerOK'
  <2>1. \A j \in Ids : jobs'[j] = jobs[j] \/ jobs'[j] = job
    BY <1>7, SettleForm
  <2> QED
    BY <1>7, <2>1, SettleForm, RestTyped DEF WorkerOK
<1>8. CASE Complete
  BY <1>7, <1>8, CompleteForm DEF Complete
<1>9. CASE Fail
  <2>1. PICK job \in Job : /\ Settle(job, OnFailed(job.made))
                           /\ job.at = (IF Retried(worker.job) THEN "waiting" ELSE "failed")
                           /\ job.made = jobs[worker.job].made + 1
    BY <1>9, FailForm
  <2>2. job.at \in {"none", "waiting", "active"} => job.made < Attempts
    BY <2>1 DEF Retried
  <2> QED
    BY <1>7, <1>9, <2>1, <2>2 DEF Fail
<1>10. ASSUME NEW i \in Ids, Stall(i) PROVE WorkerOK'
  <2>1. \A j \in Ids : jobs'[j].at \in {"none", "waiting", "active"} => jobs'[j].made < Attempts
    BY <1>10, StallForm DEF WorkerOK
  <2>2. CASE worker.job # i
    <3>1. worker.job # None => worker.job \in Ids /\ jobs'[worker.job] = jobs[worker.job]
      BY <1>10, <2>2, StallForm DEF TypeOK, Worker
    <3> QED
      BY <1>10, <2>1, <3>1, StallForm DEF WorkerOK
  <2>3. CASE worker.job = i
    <3>1. jobs[i].stalls <= MaxStalled
      <4>1. jobs[i].stalls \in Nat
        BY DEF TypeOK, Job
      <4>2. ~Doomed(i)
        BY <1>10, <2>3 DEF Stall
      <4> QED
        BY <4>1, <4>2 DEF Doomed
    <3>2. jobs'[i].stalls <= MaxStalled + 1 /\ jobs'[i].at = "waiting"
      BY <1>10, <3>1, StallForm DEF TypeOK, Job
    <3> QED
      BY <1>0, <1>10, <2>1, <2>3, <3>2, StallForm DEF WorkerOK
  <2> QED
    BY <2>2, <2>3
<1> QED
  BY <1>1, <1>2, <1>3, <1>4, <1>5, <1>6, <1>8, <1>9, <1>10, StepKinds

-----------------------------------------------------------------------------
(* A completed job reached everybody it owed the message. *)

LEMMA DeliverForm ==
    ASSUME TypeOK, NEW a \in Addresses, Deliver(a), worker.job \in Ids
    PROVE  /\ sent'[worker.job][a] = sent[worker.job][a] + 1
           /\ \A i \in Ids, b \in Addresses : i # worker.job \/ b # a => sent'[i][b] = sent[i][b]
BY DEF Deliver, TypeOK

LEMMA StepDelivered == TypeOK /\ RequestsOK /\ WorkerOK /\ DeliveredOK /\ [Next]_vars => DeliveredOK'
<1> SUFFICES ASSUME TypeOK, RequestsOK, WorkerOK, DeliveredOK, [Next]_vars PROVE DeliveredOK'
  OBVIOUS
<1> USE DEF Reached
<1>1. CASE Elsewhere
  BY <1>1 DEF Elsewhere, DeliveredOK
<1>2. CASE Broken
  BY <1>2, RestTyped DEF Broken, DeliveredOK
<1>3. ASSUME NEW i \in Ids, AddForm(i) PROVE DeliveredOK'
  BY <1>3 DEF AddForm, DeliveredOK
<1>4. ASSUME NEW i \in Ids, TakeJob(i) PROVE DeliveredOK'
  <2>1. \A j \in Ids : jobs'[j].at = "completed" => j # i /\ jobs[j].at = "completed" /\ owed'[j] = owed[j]
    BY <1>4, TakeForm DEF TypeOK
  <2>2. worker'.at = "send" => owed'[worker'.job] \ worker'.left = {}
    BY <1>4, TakeForm DEF TypeOK
  <2> QED
    BY <1>4, <2>1, <2>2, TakeForm DEF DeliveredOK
<1>5. CASE ReadTokens
  <2>1. jobs[worker.job].at # "completed" /\ worker.job \in Ids
    BY <1>5, HandTyped, ReadForm DEF Handed
  <2>2. \A j \in Ids : jobs'[j].at = "completed" => jobs[j].at = "completed" /\ owed'[j] = owed[j]
    BY <1>5, <2>1, ReadForm DEF TypeOK
  <2>3. worker'.at = "send" => owed'[worker'.job] \ worker'.left = {}
    BY <1>5, <2>1, ReadForm DEF TypeOK
  <2> QED
    BY <1>5, <2>2, <2>3, ReadForm DEF DeliveredOK
<1>6. ASSUME NEW a \in Addresses, Send(a) PROVE DeliveredOK'
  <2>1. worker.job \in Ids
    BY <1>6, SendForm DEF Handed
  <2>2. \A i \in Ids, b \in Addresses : sent[i][b] >= 1 => sent'[i][b] >= 1
    <3>1. \A i \in Ids, b \in Addresses : sent[i][b] \in Nat
      BY DEF TypeOK
    <3>2. sent' = sent \/ Deliver(a)
      BY <1>6, SendForm
    <3> QED
      BY <2>1, <3>1, <3>2, DeliverForm
  <2>3. Deliver(a) => sent'[worker.job][a] >= 1
    BY <2>1, DeliverForm DEF TypeOK
  <2>4. \A i \in Ids : owed[i] \subseteq Addresses
    BY DEF TypeOK
  <2> QED
    BY <1>6, <2>1, <2>2, <2>3, <2>4, SendForm DEF DeliveredOK
<1>7. CASE Complete
  <2>1. PICK job \in Job : Settle(job, {"SENT"}) /\ job.at = "completed"
    BY <1>7, CompleteForm
  <2>2. \A b \in owed[worker.job] : sent[worker.job][b] >= 1
    BY <1>7 DEF Complete, DeliveredOK
  <2> QED
    BY <1>7, <2>1, <2>2, SettleForm, RestTyped DEF Complete, DeliveredOK
<1>8. CASE Fail
  <2>1. PICK job \in Job : Settle(job, OnFailed(job.made)) /\ job.at # "completed"
    BY <1>8, FailForm
  <2> QED
    BY <1>8, <2>1, SettleForm, RestTyped DEF Fail, DeliveredOK
<1>9. ASSUME NEW i \in Ids, Stall(i) PROVE DeliveredOK'
  BY <1>9, StallForm DEF DeliveredOK
<1> QED
  BY <1>1, <1>2, <1>3, <1>4, <1>5, <1>6, <1>7, <1>8, <1>9, StepKinds

-----------------------------------------------------------------------------
(* How often a message goes out. *)

\* Counted, with the message's count and its job as arguments.
Balance(n, job, spends, owes) ==
    /\ spends => n <= job.made + job.stalls + 1
    /\ ~spends => n <= job.made + job.stalls
    /\ owes => n < job.made + job.stalls

LEMMA CountedForm ==
    ASSUME NEW i, NEW a
    PROVE  /\ Counted(i, a) <=> Balance(sent[i][a], jobs[i], Spends(i, a), Owes(i, a))
           /\ Counted(i, a)' <=> Balance(sent'[i][a], jobs'[i], Spends(i, a)', Owes(i, a)')
BY DEF Counted, Balance

Open == {"none", "waiting", "active"}

LEMMA NumbersTyped ==
    ASSUME TypeOK, NEW i \in Ids, NEW a \in Addresses
    PROVE  sent[i][a] \in Nat /\ jobs[i].made \in Nat /\ jobs[i].stalls \in Nat
BY DEF TypeOK, Job

LEMMA StepCounts == TypeOK /\ RequestsOK /\ WorkerOK /\ CountsOK /\ [Next]_vars => CountsOK'
<1> SUFFICES ASSUME TypeOK, RequestsOK, WorkerOK, CountsOK, [Next]_vars,
                    NEW i \in Ids, NEW a \in Addresses, jobs'[i].at \in Open
             PROVE  Counted(i, a)'
  BY DEF CountsOK, Open
<1>0. /\ sent[i][a] \in Nat /\ jobs[i].made \in Nat /\ jobs[i].stalls \in Nat
      /\ jobs[i].at \in Open => Balance(sent[i][a], jobs[i], Spends(i, a), Owes(i, a))
  BY NumbersTyped, CountedForm DEF CountsOK, Open
<1>c. Counted(i, a)' <=> Balance(sent'[i][a], jobs'[i], Spends(i, a)', Owes(i, a)')
  BY CountedForm
<1> USE DEF Open
<1>1. CASE Elsewhere
  BY <1>0, <1>1, <1>c DEF Elsewhere, Balance, Spends, Owes
<1>2. CASE Broken
  <2>1. i # worker'.job /\ jobs' = jobs /\ sent' = sent
    BY <1>2, RestTyped, NotificationAssumption DEF Broken
  <2>2. Spends(i, a) => Spends(i, a)'
    BY <2>1 DEF Spends
  <2>3. ~Owes(i, a)'
    BY <2>1 DEF Owes
  <2> QED
    BY <1>0, <1>c, <2>1, <2>2, <2>3 DEF Balance
<1>3. ASSUME NEW j \in Ids, AddForm(j) PROVE Counted(i, a)'
  <2>1. worker.job # j
    BY <1>3, NotificationAssumption DEF AddForm, WorkerOK
  <2>2. Spends(i, a)' = Spends(i, a) /\ Owes(i, a)' = Owes(i, a) /\ sent' = sent
    BY <1>3, <2>1 DEF AddForm, Spends, Owes
  <2>3. jobs'[i].made = jobs[i].made /\ jobs'[i].stalls = jobs[i].stalls
        /\ jobs[i].at \in Open
    BY <1>3 DEF AddForm
  <2> QED
    BY <1>0, <1>c, <2>2, <2>3 DEF Balance
<1>4. ASSUME NEW j \in Ids, TakeJob(j) PROVE Counted(i, a)'
  <2>1. worker.job = None /\ i # None
    BY <1>4, TakeForm, NotificationAssumption DEF WorkerOK
  <2>2. sent' = sent /\ jobs'[i].made = jobs[i].made /\ jobs'[i].stalls = jobs[i].stalls
        /\ jobs[i].at \in Open
    BY <1>4, TakeForm
  <2>3. CASE i = j
    <3>1. ~Spends(i, a) /\ ~Owes(i, a)'
      BY <1>4, <2>3, TakeForm DEF Spends, Owes
    <3> QED
      BY <1>0, <1>c, <2>2, <3>1 DEF Balance
  <2>4. CASE i # j
    <3>1. Spends(i, a)' = Spends(i, a) /\ ~Owes(i, a)'
      BY <1>4, <2>1, <2>4, TakeForm DEF Spends, Owes
    <3> QED
      BY <1>0, <1>c, <2>2, <3>1 DEF Balance
  <2> QED
    BY <2>3, <2>4
<1>5. CASE ReadTokens
  <2>1. jobs' = jobs /\ sent' = sent /\ worker.at = "read" /\ worker'.job = worker.job
    BY <1>5, ReadForm
  <2>2. (Spends(i, a) => Spends(i, a)') /\ (Owes(i, a)' => Owes(i, a))
    BY <2>1 DEF Spends, Owes
  <2> QED
    BY <1>0, <1>c, <2>1, <2>2 DEF Balance
<1>6. ASSUME NEW b \in Addresses, Send(b) PROVE Counted(i, a)'
  <2>1. jobs' = jobs /\ worker.at = "send" /\ b \in worker.left /\ worker'.job = worker.job /\ Handed
    BY <1>6, SendForm
  <2>2. worker'.at = "err" \/ (worker'.at = "send" /\ worker'.left = worker.left \ {b})
    BY <1>6, SendForm
  <2>3. (Spends(i, a) => Spends(i, a)') /\ (Owes(i, a)' => Owes(i, a))
    BY <2>1, <2>2 DEF Spends, Owes
  <2>4. CASE sent'[i][a] = sent[i][a]
    BY <1>0, <1>c, <2>1, <2>3, <2>4 DEF Balance
  <2>5. CASE sent'[i][a] # sent[i][a]
    <3>1. i = worker.job /\ a = b /\ sent'[i][a] = sent[i][a] + 1
      BY <1>6, <2>1, <2>5, SendForm, DeliverForm DEF Handed
    <3>2. CASE jobs[i].at = "active"
      <4>1. ~Spends(i, a) /\ Spends(i, a)' /\ ~Owes(i, a)'
        BY <2>1, <2>2, <3>1, <3>2 DEF Spends, Owes
      <4> QED
        BY <1>0, <1>c, <2>1, <3>1, <3>2, <4>1 DEF Balance
    <3>3. CASE jobs[i].at = "waiting"
      <4>1. Owes(i, a) /\ ~Owes(i, a)' /\ ~Spends(i, a)'
        BY <2>1, <2>2, <3>1, <3>3 DEF Spends, Owes
      <4> QED
        BY <1>0, <1>c, <2>1, <3>1, <3>3, <4>1 DEF Balance
    <3> QED
      BY <2>1, <3>1, <3>2, <3>3, HandTyped
  <2> QED
    BY <2>4, <2>5
<1>7. ASSUME NEW job \in Job, NEW S, Settle(job, S), worker.at \in {"send", "err"},
             job.stalls = jobs[worker.job].stalls,
             \/ job.at = "completed" /\ worker.left = {} /\ worker.at = "send"
             \/ worker.at = "err" /\ job.at \in {"waiting", "failed"} /\ job.made = jobs[worker.job].made + 1
      PROVE  Counted(i, a)'
  <2>1. worker'.job # i /\ sent' = sent /\ Handed
    BY <1>7, SettleForm, RestTyped, NotificationAssumption
  <2>2. ~Owes(i, a)'
    BY <2>1 DEF Owes
  <2>3. CASE i # worker.job
    <3>1. jobs'[i] = jobs[i]
      BY <1>7, <2>3, SettleForm
    <3>2. Spends(i, a)' = Spends(i, a)
      BY <2>1, <2>3, <3>1 DEF Spends
    <3> QED
      BY <1>0, <1>c, <2>1, <2>2, <3>1, <3>2 DEF Balance
  <2>4. CASE i = worker.job /\ jobs[i].at # "active"
    <3>1. jobs' = jobs
      BY <1>7, <2>4, SettleForm
    <3>2. ~Spends(i, a) /\ ~Spends(i, a)'
      BY <2>4, <3>1 DEF Spends
    <3> QED
      BY <1>0, <1>c, <2>1, <2>2, <3>1, <3>2 DEF Balance
  <2>5. CASE i = worker.job /\ jobs[i].at = "active"
    <3>1. jobs'[i] = job
      BY <1>7, <2>5, SettleForm
    <3>2. job.made = jobs[i].made + 1 /\ job.at = "waiting"
      BY <1>7, <2>5, <3>1
    <3>3. ~Spends(i, a)'
      BY <3>1, <3>2 DEF Spends
    <3> QED
      BY <1>0, <1>7, <1>c, <2>1, <2>2, <2>5, <3>1, <3>2, <3>3 DEF Balance
  <2> QED
    BY <2>3, <2>4, <2>5
<1>8. CASE Complete
  BY <1>7, <1>8, CompleteForm DEF Complete
<1>9. CASE Fail
  <2>1. PICK job \in Job : /\ Settle(job, OnFailed(job.made)) /\ job.at \in {"waiting", "failed"}
                           /\ job.made = jobs[worker.job].made + 1
                           /\ job.stalls = jobs[worker.job].stalls
    BY <1>9, FailForm
  <2> QED
    BY <1>7, <1>9, <2>1 DEF Fail
<1>10. ASSUME NEW j \in Ids, Stall(j) PROVE Counted(i, a)'
  <2>1. sent' = sent /\ worker' = worker
    BY <1>10, StallForm
  <2>2. CASE i # j
    <3>1. jobs'[i] = jobs[i]
      BY <1>10, <2>2, StallForm
    <3>2. Spends(i, a)' = Spends(i, a) /\ Owes(i, a)' = Owes(i, a)
      BY <2>1, <3>1 DEF Spends, Owes
    <3> QED
      BY <1>0, <1>c, <2>1, <3>1, <3>2 DEF Balance
  <2>3. CASE i = j
    <3>1. jobs[i].at = "active" /\ jobs'[i].at = "waiting" /\ jobs'[i].made = jobs[i].made
          /\ jobs'[i].stalls = jobs[i].stalls + 1
      BY <1>10, <2>3, StallForm
    <3>2. ~Spends(i, a)' /\ (Owes(i, a)' => ~Spends(i, a))
      BY <2>1, <3>1 DEF Spends, Owes
    <3> QED
      BY <1>0, <1>c, <2>1, <3>1, <3>2 DEF Balance
  <2> QED
    BY <2>2, <2>3
<1> QED
  BY <1>1, <1>2, <1>3, <1>4, <1>5, <1>6, <1>8, <1>9, <1>10, StepKinds

LEMMA StepMails ==
    TypeOK /\ RequestsOK /\ WorkerOK /\ CountsOK /\ MailsBounded /\ [Next]_vars => MailsBounded'
<1> SUFFICES ASSUME TypeOK, RequestsOK, WorkerOK, CountsOK, MailsBounded, [Next]_vars,
                    NEW i \in Ids, NEW a \in Addresses
             PROVE  sent'[i][a] <= Attempts + MaxStalled
  BY DEF MailsBounded
<1>1. CASE sent'[i][a] = sent[i][a]
  BY <1>1 DEF MailsBounded
<1>2. CASE sent'[i][a] # sent[i][a]
  <2>1. PICK b \in Addresses : Send(b)
    <3>1. ASSUME NEW j \in Ids, AddForm(j) \/ TakeJob(j) \/ Stall(j) PROVE sent' = sent
      BY <3>1, TakeForm, StallForm DEF AddForm
    <3>2. Elsewhere \/ Broken \/ ReadTokens \/ Complete \/ Fail => sent' = sent
      BY DEF Elsewhere, Broken, ReadTokens, Complete, Fail, Settle
    <3> QED
      BY <1>2, <3>1, <3>2, StepKinds
  <2>2. worker.job \in Ids /\ worker.at = "send" /\ b \in worker.left
    BY <2>1, SendForm DEF Handed
  <2>3. i = worker.job /\ a = b /\ sent'[i][a] = sent[i][a] + 1
    BY <1>2, <2>1, <2>2, SendForm, DeliverForm
  <2>4. /\ sent[i][a] \in Nat /\ jobs[i].made \in Nat /\ jobs[i].stalls \in Nat
        /\ jobs[i].at \in {"waiting", "active"} /\ jobs[i].made < Attempts
        /\ jobs[i].at = "active" => jobs[i].stalls <= MaxStalled
        /\ jobs[i].stalls <= MaxStalled + 1
    BY <2>2, <2>3, NumbersTyped, NotificationAssumption DEF WorkerOK
  <2>5. Counted(i, a) /\ ~Spends(i, a)
    BY <2>2, <2>3, <2>4 DEF CountsOK, Spends
  <2>6. CASE jobs[i].at = "active"
    BY <2>3, <2>4, <2>5, <2>6, NotificationAssumption DEF Counted
  <2>7. CASE jobs[i].at = "waiting"
    <3>1. Owes(i, a)
      BY <2>2, <2>3, <2>7 DEF Owes
    <3> QED
      BY <2>3, <2>4, <2>5, <3>1, NotificationAssumption DEF Counted
  <2> QED
    BY <2>4, <2>6, <2>7
<1> QED
  BY <1>1, <1>2

-----------------------------------------------------------------------------
(* What the status of a row says. *)

LEMMA EndsKept ==
    ASSUME TypeOK, RequestsOK, WorkerOK, [Next]_vars,
           NEW i \in Ids, jobs[i].at \in {"completed", "failed"}
    PROVE  jobs'[i] = jobs[i]
<1>1. ASSUME NEW j \in Ids, AddForm(j) \/ TakeJob(j) \/ Stall(j) PROVE jobs'[i] = jobs[i]
  BY <1>1, TakeForm, StallForm DEF AddForm
<1>2. CASE Complete
  <2>1. PICK job : Settle(job, {"SENT"})
    BY <1>2, CompleteForm
  <2> QED
    BY <1>2, <2>1, SettleForm, HandTyped DEF Complete
<1>3. CASE Fail
  <2>1. PICK job : Settle(job, OnFailed(job.made))
    BY <1>3, FailForm
  <2> QED
    BY <1>3, <2>1, SettleForm, HandTyped DEF Fail
<1>4. Elsewhere \/ Broken \/ ReadTokens => jobs'[i] = jobs[i]
  BY DEF Elsewhere, Broken, ReadTokens
<1>5. ASSUME NEW b \in Addresses, Send(b) PROVE jobs'[i] = jobs[i]
  BY <1>5 DEF Send
<1> QED
  BY <1>1, <1>2, <1>3, <1>4, <1>5, StepKinds

\* The steps that change rows or put updates under way.
LEMMA StatusSteps ==
    ASSUME TypeOK, WorkerOK, RequestsOK, [Next]_vars
    PROVE  \/ notes' = notes /\ updates' \in {updates, {}}
           \/ Complete \/ Fail \/ DeleteUser
           \/ \E p \in Procs, i \in Ids, kind \in Kinds, mine \in BOOLEAN : InsertNote(p, i, kind, mine)
           \/ \E u \in updates : WriteStatus(u)
<1> USE DEF store
<1>1. ASSUME NEW p \in Procs, AddJob(p) \/ FindToken(p) \/ DeleteToken(p) \/ CreateToken(p) \/ CallThrows(p)
      PROVE  notes' = notes /\ updates' = updates
  BY <1>1, TokenForm DEF AddJob
<1>2. ASSUME NEW i \in Ids, TakeJob(i) \/ Stall(i) PROVE notes' = notes /\ updates' = updates
  BY <1>2, TakeForm, StallForm
<1>3. ASSUME NEW a, ReadTokens \/ Send(a) \/ UNCHANGED vars PROVE notes' = notes /\ updates' = updates
  BY <1>3 DEF ReadTokens, Send, vars
<1>4. ASSUME NEW u, ListenerDies(u) \/ Crash PROVE notes' = notes /\ updates' = {}
  BY <1>4 DEF ListenerDies, Crash, Die
<1> QED
  BY <1>1, <1>2, <1>3, <1>4 DEF Next, Process, Listen

LEMMA StepStatus == TypeOK /\ WorkerOK /\ RequestsOK /\ StatusOK /\ [Next]_vars => StatusOK'
<1> SUFFICES ASSUME TypeOK, WorkerOK, RequestsOK, StatusOK, [Next]_vars PROVE StatusOK'
  OBVIOUS
<1>1. \A i \in Ids, s \in {"SENT", "FAILED"} : Ended(i, s) => Ended(i, s)'
  BY EndsKept DEF Ended
<1>2. \A u \in updates : u.id \in Ids /\ u.status \in {"SENT", "FAILED"}
  BY DEF TypeOK, Update
<1>3. CASE notes' = notes /\ updates' \in {updates, {}}
  BY <1>1, <1>2, <1>3 DEF StatusOK
<1>4. ASSUME NEW job, NEW S \in SUBSET {"SENT", "FAILED"}, Settle(job, S), worker.at # "idle",
             NEW j \in Ids, j = worker.job, jobs[j].at = "active" => \A s \in S : Ended(j, s)'
      PROVE  StatusOK'
  <2>1. notes' = notes /\ worker.job \in Ids
    BY <1>4, SettleForm DEF store, Handed
  <2>2. CASE jobs[j].at # "active"
    BY <1>1, <1>2, <1>4, <2>1, <2>2, SettleForm DEF StatusOK
  <2>3. CASE jobs[j].at = "active"
    <3>1. updates' = updates \cup {[id |-> worker.job, status |-> s] : s \in S}
      BY <1>4, <2>3, SettleForm
    <3>2. notes[j].status \in {"PENDING", "gone"}
      <4>1. \A s \in {"SENT", "FAILED"} : ~Ended(j, s)
        BY <2>3 DEF Ended
      <4>2. notes[j].status # "none"
        BY <2>1, <2>3 DEF RequestsOK
      <4> QED
        BY <2>1, <4>1, <4>2 DEF StatusOK, TypeOK, Note
    <3>3. ASSUME NEW u \in updates' PROVE Ended(u.id, u.status)' /\ notes'[u.id].status \in {"PENDING", "gone"}
      <4>1. CASE u \in updates
        BY <1>1, <1>2, <2>1, <4>1 DEF StatusOK
      <4>2. CASE u \notin updates
        <5>1. PICK s \in S : u = [id |-> worker.job, status |-> s]
          BY <3>1, <4>2
        <5>2. Ended(j, s)' /\ u.id = j /\ u.status = s
          BY <1>4, <2>3, <5>1
        <5>3. Ended(u.id, u.status)'
          BY <5>2 DEF Ended
        <5> QED
          BY <2>1, <3>2, <5>2, <5>3
      <4> QED
        BY <4>1, <4>2
    <3> QED
      BY <1>1, <2>1, <3>3 DEF StatusOK
  <2> QED
    BY <2>2, <2>3
<1>5. CASE Complete
  <2>1. PICK job \in Job : Settle(job, {"SENT"}) /\ job.at = "completed"
    BY <1>5, CompleteForm
  <2>2. jobs[worker.job].at = "active" => jobs'[worker.job] = job
    BY <1>5, <2>1, SettleForm DEF Complete
  <2>3. worker.at # "idle"
    BY <1>5 DEF Complete
  <2>j. PICK j \in Ids : j = worker.job
    BY <2>3, HandTyped DEF Handed
  <2>4. jobs[j].at = "active" => \A s \in {"SENT"} : Ended(j, s)'
    BY <2>1, <2>2, <2>j DEF Ended
  <2>5. {"SENT"} \in SUBSET {"SENT", "FAILED"}
    OBVIOUS
  <2> QED
    BY <1>4, <2>1, <2>3, <2>j, <2>4, <2>5
<1>6. CASE Fail
  <2>1. PICK job \in Job : /\ Settle(job, OnFailed(job.made))
                           /\ job.at = (IF Retried(worker.job) THEN "waiting" ELSE "failed")
                           /\ job.made = jobs[worker.job].made + 1
    BY <1>6, FailForm
  <2>2. jobs[worker.job].at = "active" => jobs'[worker.job] = job
    BY <1>6, <2>1, SettleForm DEF Fail
  <2>3. \A s \in OnFailed(job.made) : s = "FAILED" /\ job.made >= Attempts
    BY DEF OnFailed
  <2>4. job.made >= Attempts => job.at = "failed"
    BY <2>1, NotificationAssumption DEF Retried, Job
  <2>5. OnFailed(job.made) \in SUBSET {"SENT", "FAILED"}
    BY DEF OnFailed
  <2>6. worker.at # "idle"
    BY <1>6 DEF Fail
  <2>j. PICK j \in Ids : j = worker.job
    BY <2>6, HandTyped DEF Handed
  <2>7. jobs[j].at = "active" => \A s \in OnFailed(job.made) : Ended(j, s)'
    BY <2>1, <2>2, <2>3, <2>4, <2>j DEF Ended
  <2> QED
    BY <1>4, <2>1, <2>5, <2>6, <2>j, <2>7
<1>7. CASE DeleteUser
  <2>1. updates' = updates
    BY <1>7 DEF DeleteUser
  <2>2. \A i \in Ids : notes'[i].status = notes[i].status \/ notes'[i].status = "gone"
    BY <1>7 DEF DeleteUser, TypeOK, Note
  <2> QED
    BY <1>1, <1>2, <2>1, <2>2 DEF StatusOK
<1>8. ASSUME NEW p \in Procs, NEW i \in Ids, NEW kind \in Kinds, NEW mine \in BOOLEAN,
             InsertNote(p, i, kind, mine)
      PROVE  StatusOK'
  <2>1. updates' = updates /\ notes'[i].status = "PENDING"
    BY <1>8 DEF InsertNote, TypeOK
  <2>2. \A j \in Ids : j # i => notes'[j] = notes[j]
    BY <1>8 DEF InsertNote, TypeOK
  <2> QED
    BY <1>1, <1>2, <2>1, <2>2 DEF StatusOK
<1>9. ASSUME NEW u \in updates, WriteStatus(u) PROVE StatusOK'
  <2>1. u.id \in Ids /\ u.status \in {"SENT", "FAILED"} /\ updates' = updates \ {u}
    BY <1>2, <1>9 DEF WriteStatus
  <2>2. notes'[u.id].status = u.status /\ \A j \in Ids : j # u.id => notes'[j] = notes[j]
    BY <1>9, <2>1 DEF WriteStatus, TypeOK, Note
  <2>3. ASSUME NEW v \in updates' PROVE v.id # u.id
    <3>1. v \in Update /\ u \in Update /\ v # u
      BY <2>1, <2>3 DEF TypeOK
    <3>2. v.id = u.id => v.status = u.status
      BY <2>1, <2>3, <3>1 DEF StatusOK, Ended, Update
    <3> QED
      BY <3>1, <3>2 DEF Update
  <2> QED
    BY <1>1, <1>2, <2>1, <2>2, <2>3 DEF StatusOK
<1> QED
  BY <1>3, <1>5, <1>6, <1>7, <1>8, <1>9, StatusSteps

\* A status that says how the job ended is not written over.
LEMMA StepFinal ==
    ASSUME TypeOK, WorkerOK, RequestsOK, StatusOK, [Next]_vars,
           NEW i \in Ids, notes[i].status \in {"SENT", "FAILED"}
    PROVE  notes'[i].status \in {notes[i].status, "gone"}
<1>1. CASE notes' = notes \/ Complete \/ Fail
  BY <1>1 DEF Complete, Fail, Settle, store
<1>2. CASE DeleteUser
  BY <1>2 DEF DeleteUser, TypeOK, Note
<1>3. ASSUME NEW p, NEW j, NEW kind, NEW mine, InsertNote(p, j, kind, mine)
      PROVE  notes'[i].status = notes[i].status
  BY <1>3 DEF InsertNote, TypeOK
<1>4. ASSUME NEW u \in updates, WriteStatus(u) PROVE notes'[i].status = notes[i].status
  <2>1. u.id # i
    BY DEF StatusOK
  <2> QED
    BY <1>4, <2>1 DEF WriteStatus, TypeOK
<1> QED
  BY <1>1, <1>2, <1>3, <1>4, StatusSteps

-----------------------------------------------------------------------------
(* The tokens of the user. *)

LEMMA SetsFinite ==
    ASSUME TypeOK
    PROVE  /\ IsFiniteSet(Live) /\ Cardinality(Live) \in Nat
           /\ IsFiniteSet(Inserting) /\ Cardinality(Inserting) \in Nat
           /\ Cardinality(Inserting) <= Cardinality(Procs) /\ Cardinality(Procs) \in Nat
<1>1. Live \subseteq Tokens /\ Inserting \subseteq Procs
  BY DEF Live, Inserting
<1> QED
  BY <1>1, FS_Subset, FS_CardinalityType, NotificationAssumption

LEMMA OneMore ==
    ASSUME NEW S, IsFiniteSet(S), NEW x
    PROVE  /\ IsFiniteSet(S \cup {x}) /\ Cardinality(S \cup {x}) \in Nat
           /\ Cardinality(S \cup {x}) <= Cardinality(S) + 1
<1>1. IsFiniteSet(S \cup {x}) /\ (Cardinality(S \cup {x}) = Cardinality(S) \/ Cardinality(S \cup {x}) = Cardinality(S) + 1)
  BY FS_AddElement
<1>2. Cardinality(S) \in Nat
  BY FS_CardinalityType
<1> QED
  BY <1>1, <1>2

\* How the sets may change and their sizes still add up to no more: both shrink;
\* a token makes room for a request; a request's token comes; or none is there.
LEMMA BoundKept ==
    ASSUME TypeOK, TypeOK', TokensBounded,
           \/ Live' \subseteq Live /\ Inserting' \subseteq Inserting
           \/ \E t \in Live : \E p : Live' \subseteq Live \ {t} /\ Inserting' \subseteq Inserting \cup {p}
           \/ \E t : \E p \in Inserting : Live' \subseteq Live \cup {t} /\ Inserting' \subseteq Inserting \ {p}
           \/ Live' = {}
    PROVE  TokensBounded'
<1> DEFINE L == Live
           I == Inserting
           M == Live'
           J == Inserting'
           n == Cardinality(Procs)
<1>1. /\ IsFiniteSet(L) /\ Cardinality(L) \in Nat /\ IsFiniteSet(I) /\ Cardinality(I) \in Nat
      /\ n \in Nat /\ Cardinality(L) + Cardinality(I) <= n
  BY SetsFinite DEF TokensBounded
<1>2. M \subseteq Tokens /\ J \subseteq Procs
  BY DEF Live, Inserting
<1>3. IsFiniteSet(M) /\ Cardinality(M) \in Nat /\ IsFiniteSet(J) /\ Cardinality(J) \in Nat
      /\ Cardinality(J) <= n
  BY <1>2, FS_Subset, FS_CardinalityType, NotificationAssumption
<1> SUFFICES Cardinality(M) + Cardinality(J) <= n
  BY DEF TokensBounded
<1> HIDE DEF L, I, M, J, n
<1>4. CASE M \subseteq L /\ J \subseteq I
  <2>1. Cardinality(M) <= Cardinality(L) /\ Cardinality(J) <= Cardinality(I)
    BY <1>1, <1>4, FS_Subset
  <2> QED
    BY <1>1, <1>3, <2>1
<1>5. ASSUME NEW t \in L, NEW p, M \subseteq L \ {t}, J \subseteq I \cup {p}
      PROVE  Cardinality(M) + Cardinality(J) <= n
  <2>1. IsFiniteSet(L \ {t}) /\ Cardinality(L \ {t}) = Cardinality(L) - 1
    BY <1>1, FS_RemoveElement
  <2>2. IsFiniteSet(I \cup {p}) /\ Cardinality(I \cup {p}) \in Nat
        /\ Cardinality(I \cup {p}) <= Cardinality(I) + 1
    BY <1>1, OneMore
  <2>3. Cardinality(M) <= Cardinality(L \ {t}) /\ Cardinality(J) <= Cardinality(I \cup {p})
    BY <1>5, <2>1, <2>2, FS_Subset
  <2> QED
    BY <1>1, <1>3, <2>1, <2>2, <2>3
<1>6. ASSUME NEW t, NEW p \in I, M \subseteq L \cup {t}, J \subseteq I \ {p}
      PROVE  Cardinality(M) + Cardinality(J) <= n
  <2>1. IsFiniteSet(I \ {p}) /\ Cardinality(I \ {p}) = Cardinality(I) - 1
    BY <1>1, FS_RemoveElement
  <2>2. IsFiniteSet(L \cup {t}) /\ Cardinality(L \cup {t}) \in Nat
        /\ Cardinality(L \cup {t}) <= Cardinality(L) + 1
    BY <1>1, OneMore
  <2>3. Cardinality(J) <= Cardinality(I \ {p}) /\ Cardinality(M) <= Cardinality(L \cup {t})
    BY <1>6, <2>1, <2>2, FS_Subset
  <2> QED
    BY <1>1, <1>3, <2>1, <2>2, <2>3
<1>7. CASE M = {}
  BY <1>3, <1>7, FS_EmptySet
<1> QED
  BY <1>4, <1>5, <1>6, <1>7 DEF L, I, M, J, n

\* A step after which no request inserts that did not before.
LEMMA NoNewcomer ==
    ASSUME TypeOK, NEW p \in Procs, NEW r, Become(p, r)
    PROVE  /\ Inserting' \subseteq Inserting \cup {p}
           /\ r.at # "create" => Inserting' \subseteq Inserting \ {p}
BY DEF Inserting, At, Become, TypeOK

LEMMA StepTokens ==
    TypeOK /\ TypeOK' /\ WorkerOK /\ RequestsOK /\ TokensBounded /\ [Next]_vars => TokensBounded'
<1> SUFFICES ASSUME TypeOK, TypeOK', WorkerOK, RequestsOK, TokensBounded, [Next]_vars PROVE TokensBounded'
  OBVIOUS
<1>1. ASSUME NEW p \in Procs, NEW i \in Ids, NEW kind, NEW mine, InsertNote(p, i, kind, mine)
      PROVE  TokensBounded'
  <2>1. [Idle EXCEPT !.at = "add", !.id = i].at # "create"
    BY DEF Idle
  <2>2. Inserting' \subseteq Inserting /\ Live' \subseteq Live
    BY <1>1, <2>1, NoNewcomer DEF InsertNote, Live
  <2> QED
    BY <2>2, BoundKept
<1>2. ASSUME NEW p \in Procs, AddJob(p) \/ CallThrows(p) PROVE TokensBounded'
  <2>1. Inserting' \subseteq Inserting /\ Live' \subseteq Live
    BY <1>2, RestTyped, NoNewcomer DEF AddJob, CallThrows, Reply, Live, store
  <2> QED
    BY <2>1, BoundKept
<1>3. ASSUME NEW p \in Procs, FindToken(p) PROVE TokensBounded'
  <2>1. Live' = Live
    BY <1>3 DEF FindToken, Live, store
  <2>2. CASE Live = {}
    <3>1. Live' = {}
      BY <2>1, <2>2
    <3> QED
      BY <3>1, BoundKept
  <2>3. ASSUME NEW t \in Live, Become(p, [Idle EXCEPT !.at = "delete", !.aim = t]) PROVE TokensBounded'
    <3>1. [Idle EXCEPT !.at = "delete", !.aim = t].at # "create"
      BY DEF Idle
    <3>2. Inserting' \subseteq Inserting
      BY <2>3, <3>1, NoNewcomer
    <3> QED
      BY <2>1, <3>2, BoundKept
  <2> QED
    BY <1>3, <2>2, <2>3 DEF FindToken
<1>4. ASSUME NEW p \in Procs, DeleteToken(p) PROVE TokensBounded'
  <2>1. CASE rq[p].aim \in Live
    <3>1. Live' \subseteq Live \ {rq[p].aim}
      BY <1>4, <2>1 DEF DeleteToken, Live, TypeOK
    <3>2. Inserting' \subseteq Inserting \cup {p}
      BY <1>4, <2>1, NoNewcomer DEF DeleteToken
    <3> QED
      BY <2>1, <3>1, <3>2, BoundKept
  <2>2. CASE rq[p].aim \notin Live
    <3>1. Inserting' \subseteq Inserting /\ Live' \subseteq Live
      BY <1>4, <2>2, RestTyped, NoNewcomer DEF DeleteToken, Reply, Live
    <3> QED
      BY <3>1, BoundKept
  <2> QED
    BY <2>1, <2>2
<1>5. ASSUME NEW p \in Procs, CreateToken(p) PROVE TokensBounded'
  <2>1. p \in Inserting /\ Inserting' \subseteq Inserting \ {p}
    BY <1>5, RestTyped, NoNewcomer DEF CreateToken, Reply, Inserting
  <2>2. \E t : Live' \subseteq Live \cup {t}
    BY <1>5 DEF CreateToken, Live, TypeOK
  <2> QED
    BY <2>1, <2>2, BoundKept
<1>6. CASE DeleteUser
  <2>1. Live' = {}
    BY <1>6 DEF DeleteUser, Live, TypeOK
  <2> QED
    BY <2>1, BoundKept
<1>7. CASE fcm' = fcm /\ (rq' = rq \/ rq' = [p \in Procs |-> Idle])
  <2>1. Live' \subseteq Live /\ Inserting' \subseteq Inserting
    BY <1>7, RestTyped DEF Live, Inserting, At
  <2> QED
    BY <2>1, BoundKept
<1>8. ASSUME \/ Process \/ Listen \/ Crash \/ UNCHANGED vars \/ \E i \in Ids : Stall(i)
      PROVE  fcm' = fcm /\ (rq' = rq \/ rq' = [p \in Procs |-> Idle])
  BY <1>8 DEF Process, Listen, Crash, Stall, TakeJob, ReadTokens, Send, Complete, Fail, Settle,
              WriteStatus, ListenerDies, Die, vars, store
<1> QED
  BY <1>1, <1>2, <1>3, <1>4, <1>5, <1>6, <1>7, <1>8 DEF Next

-----------------------------------------------------------------------------
LEMMA InitInvariant == Init => IInv
<1> SUFFICES ASSUME Init PROVE IInv
  OBVIOUS
<1>1. TypeOK
  BY RestTyped DEF Init, TypeOK, Note, Kinds, Job
<1>2. WorkerOK
  BY RestTyped, NotificationAssumption DEF Init, WorkerOK
<1>3. RequestsOK /\ StatusOK
  BY RestTyped DEF Init, RequestsOK, StatusOK, At
<1>4. DeliveredOK /\ CountsOK /\ MailsBounded
  <2>1. \A i \in Ids, a \in Addresses : sent[i][a] = 0 /\ jobs[i].made = 0 /\ jobs[i].stalls = 0 /\ jobs[i].at = "none"
    BY DEF Init
  <2>2. worker.at = "idle"
    BY RestTyped DEF Init
  <2> QED
    BY <2>1, <2>2, NotificationAssumption DEF DeliveredOK, CountsOK, Counted, Spends, Owes, MailsBounded, Init
<1>5. TokensBounded
  <2>1. Live = {} /\ Inserting = {}
    BY RestTyped DEF Init, Live, Inserting, At
  <2> QED
    BY <1>1, <2>1, FS_EmptySet, SetsFinite DEF TokensBounded
<1> QED
  BY <1>1, <1>2, <1>3, <1>4, <1>5 DEF IInv

\* The inductive invariant: types, where worker and requests are, what a status
\* and an update under way say of the job, who was reached, how the messages add
\* up, and the tokens there or coming.
THEOREM InductiveInvariant == Spec => []IInv
<1>1. IInv /\ [Next]_vars => IInv'
  BY StepTyped, StepRequests, StepWorker, StepStatus, StepDelivered, StepCounts, StepMails, StepTokens
  DEF IInv
<1> QED
  BY <1>1, InitInvariant, PTL DEF Spec

\* A status tells the truth: SENT only after everybody was reached, FAILED only
\* after every attempt, for any number of notifications, stalls and crashes.
THEOREM StatusTellsTheTruth == Spec => []StatusTrue
<1>1. IInv => StatusTrue
  BY DEF IInv, StatusOK, DeliveredOK, StatusTrue, Ended
<1> QED
  BY <1>1, InductiveInvariant, PTL

\* A status that tells how a job ended is never written over.
THEOREM StatusStays == Spec => StatusFinal
<1>1. IInv /\ [Next]_vars =>
        [\A i \in Ids : notes[i].status \in {"SENT", "FAILED"} => notes'[i].status \in {notes[i].status, "gone"}]_vars
  BY StepFinal DEF IInv
<1> QED
  BY <1>1, InductiveInvariant, PTL DEF Spec, StatusFinal

\* No address gets a message more often than there are attempts and stalls that
\* are let pass, however sendings fail, the worker stalls and the process dies.
THEOREM MessagesBounded == Spec => []MailsBounded
<1>1. IInv => MailsBounded
  BY DEF IInv
<1> QED
  BY <1>1, InductiveInvariant, PTL

\* A user has no more FCM tokens than requests run at once.
THEOREM UserTokensBounded == Spec => []TokensBounded
<1>1. IInv => TokensBounded
  BY DEF IInv
<1> QED
  BY <1>1, InductiveInvariant, PTL
=============================================================================
