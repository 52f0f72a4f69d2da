------------------------------ MODULE Session ------------------------------
(***************************************************************************)
(* The sessions of one user: the JWTs that AuthService signs and JwtGuard  *)
(* checks against users.token_version, the devices in "device_info" and    *)
(* the rows of "refresh_tokens".                                           *)
(*                                                                         *)
(* A request is a process; a step of it is one awaited statement with the  *)
(* JavaScript up to the next.  Access and refresh token are signed with    *)
(* one secret and one payload and are taken by one guard, so a token is    *)
(* its tokenVersion with the login it descends from.                       *)
(***************************************************************************)
EXTENDS Integers, FiniteSets

CONSTANTS
    Procs,        \* requests in flight
    Prints,       \* what a device is recognised by: os, browser and address
    Ops,          \* operations offered: a subset of AllOps
    SignOuts,     \* sign-outs in flight at once
    MaxVersion,   \* bound: no sign-out starts from this version on
    MaxSessions,  \* bound: logins that succeed, but for those in flight
    MaxRows,      \* bound: refreshes, but for those in flight
    MaxDevices,   \* bound: no device is removed once so many rows were inserted
    Faults        \* "save": the update in updateUser rejects; "call": another await

AllOps == {"login", "refresh", "signout", "remove"}

ASSUME OpsAssumption == Prints # {} /\ Ops \subseteq AllOps /\ Faults \subseteq {"save", "call"}
ASSUME BoundsAssumption ==
    /\ IsFiniteSet(Procs)
    /\ SignOuts \in Nat /\ MaxVersion \in Nat /\ MaxSessions \in Nat
    /\ MaxRows \in Nat /\ MaxDevices \in Nat

VARIABLES
    version,     \* users.token_version
    tokens,      \* tokens answered to a client
    nextSess,    \* the number of the next login
    devices,     \* the rows of "device_info"
    nextDevice,  \* the id of its next row
    stored,      \* the rows of "refresh_tokens"; over: the token's exp has passed
    nextRow,     \* the id of its next row
    rq,          \* rq[p]: request p: the await it is blocked on (at), its caller's
                 \*   token and device, the version it read, its device row (dev),
                 \*   whether that is new, where addOrGetDeviceId returns to
                 \*   (then), the row it is about to delete (aim); history: its
                 \*   update of the user was not refused (saved)
    doomed,      \* ids of the rows the running cron job has still to delete
    spent,       \* tokens whose sign-out was saved and answered "Signed out"
    ended        \* logins with a token those sign-outs were to invalidate

rows == <<devices, nextDevice, stored, nextRow>>
ghost == <<spent, ended>>
vars == <<version, tokens, nextSess, rows, rq, doomed, ghost>>

Token == [ver : Nat, sess : Nat]
NoToken == [ver |-> 0, sess |-> 0]
Device == [id : Nat, print : Prints]
Stored == [id : Nat, tok : Token, dev : Nat, over : BOOLEAN]
DeviceLabels == {"d_find", "d_touch", "d_new"}
Labels == DeviceLabels \cup
    {"idle", "guard", "l_user", "l_check", "l_new", "l_log", "l_notify", "r_user", "r_exists",
     "r_store", "s_user", "s_write", "s_ulog", "s_find", "s_del", "s_log", "x_find", "x_del", "x_log"}
Returns == {"idle", "l_new", "r_exists", "s_ulog", "s_find", "x_log"}
Request == [at : Labels, op : AllOps, tok : Token, print : Prints, ver : Nat, dev : Nat,
            new : BOOLEAN, then : Returns, aim : Nat, saved : BOOLEAN]
Idle == [at |-> "idle", op |-> "login", tok |-> NoToken, print |-> CHOOSE f \in Prints : TRUE,
         ver |-> 0, dev |-> 0, new |-> FALSE, then |-> "idle", aim |-> 0, saved |-> TRUE]

TypeOK ==
    /\ version \in Nat /\ tokens \in SUBSET Token /\ nextSess \in Nat \ {0}
    /\ devices \in SUBSET Device /\ IsFiniteSet(devices) /\ nextDevice \in Nat \ {0}
    /\ stored \in SUBSET Stored /\ nextRow \in Nat \ {0}
    /\ rq \in [Procs -> Request]
    /\ doomed \in SUBSET Nat
    /\ spent \in SUBSET Token /\ ended \in SUBSET Nat

Init ==
    /\ version = 0 /\ tokens = {} /\ nextSess = 1
    /\ devices = {} /\ nextDevice = 1
    /\ stored = {} /\ nextRow = 1
    /\ rq = [p \in Procs |-> Idle]
    /\ doomed = {}
    /\ spent = {} /\ ended = {}

-----------------------------------------------------------------------------
At(p, label) == rq[p].at = label
Become(p, r) == rq' = [rq EXCEPT ![p] = r]
Goto(p, label) == Become(p, [rq[p] EXCEPT !.at = label])
Reply(p) == Become(p, Idle)

\* addOrGetDeviceId, to return to label.
GetDevice(p, label) == [rq[p] EXCEPT !.at = "d_find", !.then = label]

HasDevice(id) == \E d \in devices : d.id = id
HasRow(id) == \E row \in stored : row.id = id

\* An await rejects.  Inside updateUser the error is swallowed and the sign-out
\* goes on; anywhere else the request is answered success: false.
Rejected(p) ==
    Become(p, IF rq[p].then = "s_ulog" THEN GetDevice(p, "s_find") ELSE Idle)

-----------------------------------------------------------------------------
SigningOut == {p \in Procs : rq[p].op = "signout"}

\* A client logs in, or sends a request with a token it was given; a removal
\* names some device, there or gone.
Start(p, op, t, f, aim) ==
    /\ At(p, "idle")
    /\ op \in Ops
    /\ IF op = "login" THEN t = NoToken ELSE t \in tokens
    /\ IF op = "remove" THEN aim \in 1..(nextDevice - 1) /\ nextDevice <= MaxDevices ELSE aim = 0
    /\ op = "signout" => version < MaxVersion /\ Cardinality(SigningOut) < SignOuts
    /\ op = "refresh" => nextRow <= MaxRows
    /\ Become(p, [Idle EXCEPT !.at = IF op = "login" THEN "l_user" ELSE "guard",
                              !.op = op, !.tok = t, !.print = f, !.aim = aim])
    /\ UNCHANGED <<version, tokens, nextSess, rows, doomed, ghost>>

AfterGuard == [login |-> "l_user", refresh |-> "r_user", signout |-> "s_user", remove |-> "x_find"]

\* Fault: the version is not looked at.
GuardAny(p) ==
    /\ At(p, "guard")
    /\ Goto(p, AfterGuard[rq[p].op])
    /\ UNCHANGED <<version, tokens, nextSess, rows, doomed, ghost>>

\* JwtStrategy.validate
Guard(p) ==
    /\ At(p, "guard")
    /\ IF rq[p].tok.ver = version THEN Goto(p, AfterGuard[rq[p].op]) ELSE Reply(p)
    /\ UNCHANGED <<version, tokens, nextSess, rows, doomed, ghost>>

\* userService.findUser, where each handler starts.
ReadUser(p) ==
    /\ \/ /\ At(p, "l_user")
          /\ Become(p, [rq[p] EXCEPT !.ver = version, !.at = "l_check"])
       \/ /\ At(p, "r_user")
          /\ Become(p, [GetDevice(p, "r_exists") EXCEPT !.ver = version])
       \/ /\ At(p, "s_user")
          /\ Become(p, [rq[p] EXCEPT !.ver = version, !.at = "s_write"])
    /\ UNCHANGED <<version, tokens, nextSess, rows, doomed, ghost>>

-----------------------------------------------------------------------------
(* addOrGetDeviceId *)

\* Fault: the look-up misses the device.
DeviceFindMiss(p) ==
    /\ At(p, "d_find")
    /\ Goto(p, "d_new")
    /\ UNCHANGED <<version, tokens, nextSess, rows, doomed, ghost>>

DeviceFind(p) ==
    /\ At(p, "d_find")
    /\ \/ \E d \in devices :
             /\ d.print = rq[p].print
             /\ Become(p, [rq[p] EXCEPT !.at = "d_touch", !.dev = d.id, !.new = FALSE])
       \/ (\A d \in devices : d.print # rq[p].print) /\ Goto(p, "d_new")
    /\ UNCHANGED <<version, tokens, nextSess, rows, doomed, ghost>>

\* A login by a device it already knew does not read the row back.
AfterTouch(r) == IF r.then = "l_new" THEN "l_log" ELSE r.then

DeviceTouch(p) ==
    /\ At(p, "d_touch")
    /\ IF HasDevice(rq[p].dev) THEN Goto(p, AfterTouch(rq[p])) ELSE Rejected(p)
    /\ UNCHANGED <<version, tokens, nextSess, rows, doomed, ghost>>

DeviceNew(p) ==
    /\ At(p, "d_new")
    /\ devices' = devices \cup {[id |-> nextDevice, print |-> rq[p].print]}
    /\ nextDevice' = nextDevice + 1
    /\ Become(p, [rq[p] EXCEPT !.at = rq[p].then, !.dev = nextDevice, !.new = TRUE])
    /\ UNCHANGED <<version, tokens, nextSess, stored, nextRow, doomed, ghost>>

-----------------------------------------------------------------------------
(* login *)

\* Password, second factor and the columns of the account: other tables and
\* columns than those of this module.  Bound: only MaxSessions get through.
LoginCheck(p) ==
    /\ At(p, "l_check")
    /\ \/ Reply(p)
       \/ nextSess <= MaxSessions /\ Become(p, GetDevice(p, "l_new"))
    /\ UNCHANGED <<version, tokens, nextSess, rows, doomed, ghost>>

\* A new device is read back to be announced on the stream of sessions.
EmitSession(p) ==
    /\ At(p, "l_new")
    /\ IF HasDevice(rq[p].dev) THEN Goto(p, "l_log") ELSE Reply(p)
    /\ UNCHANGED <<version, tokens, nextSess, rows, doomed, ghost>>

\* addUserActivity refers to the device row.
LogActivity(p) ==
    /\ \/ At(p, "l_log") /\ IF HasDevice(rq[p].dev) THEN Goto(p, "l_notify") ELSE Reply(p)
       \/ At(p, "x_log") /\ Reply(p)
       \/ At(p, "s_ulog") /\ Become(p, GetDevice(p, "s_find"))
    /\ UNCHANGED <<version, tokens, nextSess, rows, doomed, ghost>>

\* The tokens carry the version that was read when the login began.
LoginIssue(p) ==
    /\ At(p, "l_notify")
    /\ tokens' = tokens \cup {[ver |-> rq[p].ver, sess |-> nextSess]}
    /\ nextSess' = nextSess + 1
    /\ Reply(p)
    /\ UNCHANGED <<version, rows, doomed, ghost>>

-----------------------------------------------------------------------------
(* refreshToken *)

\* The new token may be one that is stored: same version, same second.
RefreshLookup(p) ==
    /\ At(p, "r_exists")
    /\ \/ Goto(p, "r_store")
       \/ (\E row \in stored : row.tok.ver = rq[p].ver) /\ Reply(p)
    /\ UNCHANGED <<version, tokens, nextSess, rows, doomed, ghost>>

\* The current token is stored for the device, then the new ones are answered.
RefreshIssue(p) ==
    /\ At(p, "r_store")
    /\ IF HasDevice(rq[p].dev)
       THEN /\ stored' = stored \cup {[id |-> nextRow, tok |-> rq[p].tok,
                                       dev |-> rq[p].dev, over |-> FALSE]}
            /\ nextRow' = nextRow + 1
            /\ tokens' = tokens \cup {[ver |-> rq[p].ver, sess |-> rq[p].tok.sess]}
       ELSE UNCHANGED <<stored, nextRow, tokens>>
    /\ Reply(p)
    /\ UNCHANGED <<version, nextSess, devices, nextDevice, doomed, ghost>>

-----------------------------------------------------------------------------
(* signOut *)

\* Fault: the version is written as it was read.
WriteVersionAsRead(p) ==
    /\ At(p, "s_write")
    /\ version' = rq[p].ver
    /\ Become(p, GetDevice(p, "s_ulog"))
    /\ UNCHANGED <<tokens, nextSess, rows, doomed, ghost>>

\* The version is computed from the row read, not incremented in place.
WriteVersion(p) ==
    /\ At(p, "s_write")
    /\ version' = rq[p].ver + 1
    /\ Become(p, GetDevice(p, "s_ulog"))
    /\ UNCHANGED <<tokens, nextSess, rows, doomed, ghost>>

\* updateUser catches what its update throws and answers success: false, which
\* signOut does not look at.
SaveFails(p) ==
    /\ "save" \in Faults
    /\ At(p, "s_write")
    /\ Become(p, [GetDevice(p, "s_find") EXCEPT !.saved = FALSE])
    /\ UNCHANGED <<version, tokens, nextSess, rows, doomed, ghost>>

FindStored(p) ==
    /\ At(p, "s_find")
    /\ \/ \E row \in stored :
             row.dev = rq[p].dev /\ Become(p, [rq[p] EXCEPT !.at = "s_del", !.aim = row.id])
       \/ (\A row \in stored : row.dev # rq[p].dev) /\ Goto(p, "s_log")
    /\ UNCHANGED <<version, tokens, nextSess, rows, doomed, ghost>>

\* Fault: the delete of a row that is gone is tried again.
DeleteStoredRetry(p) ==
    /\ At(p, "s_del")
    /\ HasRow(rq[p].aim)
    /\ stored' = {row \in stored : row.id # rq[p].aim}
    /\ Goto(p, "s_log")
    /\ UNCHANGED <<version, tokens, nextSess, devices, nextDevice, nextRow, doomed, ghost>>

DeleteStored(p) ==
    /\ At(p, "s_del")
    /\ stored' = {row \in stored : row.id # rq[p].aim}
    /\ IF HasRow(rq[p].aim) THEN Goto(p, "s_log") ELSE Reply(p)
    /\ UNCHANGED <<version, tokens, nextSess, devices, nextDevice, nextRow, doomed, ghost>>

\* The last write of a sign-out, and its answer.
SignedOut(p) ==
    /\ At(p, "s_log")
    /\ IF HasDevice(rq[p].dev) /\ rq[p].saved
       THEN /\ spent' = spent \cup {rq[p].tok}
            /\ ended' = ended \cup {t.sess : t \in {u \in tokens : u.ver <= rq[p].ver}}
       ELSE UNCHANGED ghost
    /\ Reply(p)
    /\ UNCHANGED <<version, tokens, nextSess, rows, doomed>>

-----------------------------------------------------------------------------
(* removeSession *)

FindDevice(p) ==
    /\ At(p, "x_find")
    /\ IF HasDevice(rq[p].aim) THEN Goto(p, "x_del") ELSE Reply(p)
    /\ UNCHANGED <<version, tokens, nextSess, rows, doomed, ghost>>

\* The rows of "refresh_tokens" go with their device.
DeleteDevice(p) ==
    /\ At(p, "x_del")
    /\ devices' = {d \in devices : d.id # rq[p].aim}
    /\ stored' = {row \in stored : row.dev # rq[p].aim}
    /\ IF HasDevice(rq[p].aim) THEN Become(p, GetDevice(p, "x_log")) ELSE Reply(p)
    /\ UNCHANGED <<version, tokens, nextSess, nextDevice, nextRow, doomed, ghost>>

-----------------------------------------------------------------------------
CallThrows(p) ==
    /\ "call" \in Faults
    /\ ~At(p, "idle") /\ ~At(p, "s_write")
    /\ Rejected(p)
    /\ UNCHANGED <<version, tokens, nextSess, rows, doomed, ghost>>

(* clearExpiredRefreshTokens *)

\* The exp of the token in a row passes.
Expire(row) ==
    /\ ~row.over
    /\ stored' = (stored \ {row}) \cup {[row EXCEPT !.over = TRUE]}
    /\ UNCHANGED <<version, tokens, nextSess, devices, nextDevice, nextRow, rq, doomed, ghost>>

\* Fault: the comparison is turned round.
DueTurned(row) == FALSE
\* expiresAt is the token's exp, in seconds, taken for milliseconds: a date in
\* January 1970, past for every row.
Due(row) == TRUE

CronScan ==
    /\ doomed = {}
    /\ doomed' = {row.id : row \in {r \in stored : Due(r)}}
    /\ doomed' # {}
    /\ UNCHANGED <<version, tokens, nextSess, rows, rq, ghost>>

CronDelete(i) ==
    /\ i \in doomed
    /\ HasRow(i)
    /\ stored' = {row \in stored : row.id # i}
    /\ doomed' = doomed \ {i}
    /\ UNCHANGED <<version, tokens, nextSess, devices, nextDevice, nextRow, rq, ghost>>

\* The mapped promises are neither awaited nor caught: a delete that finds no
\* row is an unhandled rejection, which ends the Node process.
CronCrash(i) ==
    /\ i \in doomed
    /\ ~HasRow(i)
    /\ doomed' = {}
    /\ rq' = [p \in Procs |-> Idle]
    /\ UNCHANGED <<version, tokens, nextSess, rows, ghost>>

-----------------------------------------------------------------------------
DeviceStep(p) == DeviceFind(p) \/ DeviceTouch(p) \/ DeviceNew(p)
LoginStep(p) == LoginCheck(p) \/ EmitSession(p) \/ LogActivity(p) \/ LoginIssue(p)
RefreshStep(p) == RefreshLookup(p) \/ RefreshIssue(p)
SignOutStep(p) == WriteVersion(p) \/ FindStored(p) \/ DeleteStored(p) \/ SignedOut(p)
RemoveStep(p) == FindDevice(p) \/ DeleteDevice(p)
Step(p) ==
    \/ Guard(p) \/ ReadUser(p) \/ DeviceStep(p)
    \/ LoginStep(p) \/ RefreshStep(p) \/ SignOutStep(p) \/ RemoveStep(p)

Next ==
    \/ \E p \in Procs : Step(p) \/ SaveFails(p) \/ CallThrows(p)
    \/ \E p \in Procs, op \in AllOps, t \in tokens \cup {NoToken}, f \in Prints,
          aim \in 0..(nextDevice - 1) : Start(p, op, t, f, aim)
    \/ \E row \in stored : Expire(row)
    \/ CronScan
    \/ \E i \in doomed : CronDelete(i) \/ CronCrash(i)

Spec == Init /\ [][Next]_vars

\* Awaited statements are answered and the scheduler fires the cron job.
Fairness ==
    /\ \A p \in Procs : WF_vars(Step(p))
    /\ WF_vars(CronScan)
    /\ WF_vars(\E i \in doomed : CronDelete(i) \/ CronCrash(i))

FairSpec == Spec /\ Fairness

-----------------------------------------------------------------------------
\* JwtGuard lets a token of the current version through.
Valid(t) == t.ver = version

DevicesLike(f) == {d \in devices : d.print = f}
Inserting(f) == {p \in Procs : At(p, "d_new") /\ rq[p].print = f}

\* Requests that find no device each insert one, but no more rows of one device
\* are there, or coming, than requests can run at once.
LikeOrComingBounded ==
    \A f \in Prints :
        Cardinality(DevicesLike(f)) + Cardinality(Inserting(f)) <= Cardinality(Procs)

\* Requests run one at a time; sign-outs do.
Alone == \A p, q \in Procs : p = q
Orderly == SignOuts = 1 \/ Alone

\* Where a sign-out stands, its token has or has not been outdated.
SignOutPlaced(p) ==
    rq[p].op = "signout" =>
        /\ rq[p].tok.ver <= version
        /\ At(p, "s_write") => rq[p].ver = version
        /\ rq[p].at \notin {"guard", "s_user", "s_write"} /\ rq[p].saved => rq[p].tok.ver < version

VersionsOK ==
    Orderly =>
        /\ \A t \in tokens : t.ver <= version
        /\ \A t \in spent : t.ver < version
        /\ \A p \in Procs : rq[p].ver <= version /\ SignOutPlaced(p)
        /\ \A p, q \in SigningOut : p = q

SignOutLabels == {"s_user", "s_write", "s_ulog", "s_find", "s_del", "s_log"}
PlacesOK ==
    \A p \in Procs :
        /\ At(p, "idle") => rq[p].op = "login"
        /\ rq[p].at \in {"guard", "s_user", "s_write"} => rq[p].then = "idle"
        /\ rq[p].at \in DeviceLabels => rq[p].then # "idle"
        /\ rq[p].at \in SignOutLabels \/ rq[p].then \in {"s_ulog", "s_find"} => rq[p].op = "signout"

\* Where a request carries a token that was issued.
RefreshLabels == {"guard", "r_user", "r_exists", "r_store"}

\* Of logins that were ended: their tokens are outdated, no number is used twice,
\* and no request past the guard carries one.
EndedOK ==
    Alone =>
        /\ \A s \in ended : 0 < s /\ s < nextSess
        /\ \A t \in tokens : 0 < t.sess /\ t.sess < nextSess /\ (t.sess \in ended => t.ver < version)
        /\ \A p \in Procs :
              /\ rq[p].at \in RefreshLabels \/ rq[p].then = "r_exists" => rq[p].tok \in tokens
              /\ ~At(p, "guard") => rq[p].tok.sess \notin ended
              /\ rq[p].op = "signout" /\ rq[p].at \notin {"guard", "s_user", "s_write"}
                    /\ rq[p].saved => \A t \in tokens : t.ver < version

IInv == TypeOK /\ PlacesOK /\ LikeOrComingBounded /\ VersionsOK /\ EndedOK

\* One device of a user has at most as many rows as requests run at once; one,
\* when they run one at a time (addOrGetDeviceId finds and then creates).
DevicesBounded ==
    \A f \in Prints : Cardinality(DevicesLike(f)) <= Cardinality(Procs)

\* A token whose sign-out was saved and answered "Signed out" is refused from then
\* on (test/auth.e2e-spec.ts, "should sign out successfully and invalidate current
\* access token").
TokensEnd == \A t \in spent : ~Valid(t)

\* So is every token of every login there was: a refresh that began before the
\* sign-out does not carry a session over it.
SessionsEnd == \A t \in tokens : t.sess \in ended => ~Valid(t)

\* What clearExpiredRefreshTokens reports as "expired refresh tokens" and
\* deletes has expired.
DoomedExpired == \A row \in stored : row.id \in doomed => row.over

\* Every stored token is cleared in the end, whatever the cron job dies of.
StoredCleared == \A i \in 1..(MaxRows + Cardinality(Procs)) : HasRow(i) ~> ~HasRow(i)

\* Every request is answered, or lost with the process.
EveryRequestEnds == \A p \in Procs : ~At(p, "idle") ~> At(p, "idle")
=============================================================================
