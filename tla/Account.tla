------------------------------ MODULE Account ------------------------------
(***************************************************************************)
(* The accounts that come to hold one address: registration, the Google    *)
(* sign-in, login, the two ways to a new password, the account PATCH and   *)
(* the deletion, each a chain of statements outside any transaction.       *)
(*                                                                         *)
(* rq[p] is a request in flight and rq[p].at the await it is blocked on.   *)
(* The codes are the business of Otp: a client may ask for one, verify it  *)
(* or let it lapse at any time, so a look-up finds any and is one step     *)
(* with the await before it.  Second factors an owner adds or takes away   *)
(* later are the business of TwoStep.                                      *)
(***************************************************************************)
EXTENDS FiniteSets, Naturals

CONSTANTS
    Procs,   \* requests in flight
    Ids,     \* bound: ids of "users"
    NoId,    \* the id of a request that has none yet
    Ops,     \* operations offered: a subset of AllOps
    Faults   \* "save": an update whose error is swallowed rejects; "call":
             \* another await; "crash": the process dies and is started again

AllOps == {"register", "google", "login", "reset", "recover", "patch", "delete"}

ASSUME AccountAssumption ==
    /\ NoId \notin Ids /\ IsFiniteSet(Ids) /\ IsFiniteSet(Procs)
    /\ Ops \subseteq AllOps
    /\ Faults \subseteq {"save", "call", "crash"}

VARIABLES
    users,     \* users[i]: the row of "users" with id i and those that refer to it
    archive,   \* ids of the rows of "deleted_user"
    tokens,    \* ids a token was answered for
    rq,        \* rq[p]: request p: where it is, the account it is about, what
               \*   it read of that (first: it is new, was never logged in to, has a
               \*   password)
    answered   \* ids whose registration or first Google sign-in was answered a success

vars == <<users, archive, tokens, rq, answered>>

\* here: the row holds the address; seen: lastLogin is set; active: isActive with
\* accountStatus; two: twoStepEnabled; setting, method, link: it has a row of
\* "notification_settings", of "user_two_step_verification" (mail), of "user_sso";
\* loose: one of active, two, method, seen was left out by an error that was
\* swallowed, or the owner overwrote active and two with a PATCH.
Row == [there : {"no", "yes", "gone"}, here : BOOLEAN, pass : BOOLEAN, seen : BOOLEAN,
        active : BOOLEAN, two : BOOLEAN, role : BOOLEAN, setting : BOOLEAN,
        method : BOOLEAN, link : BOOLEAN, loose : BOOLEAN]
Blank(there) ==
    [there |-> there, here |-> there = "yes", pass |-> FALSE, seen |-> FALSE, active |-> FALSE,
     two |-> FALSE, role |-> FALSE, setting |-> FALSE, method |-> FALSE, link |-> FALSE,
     loose |-> FALSE]

\* What getOTP finds: nothing; a row not VERIFIED; a VERIFIED one; and whether
\* its updatedAt is less than three minutes ago.
Code == {"none", "pending", "stale", "verified", "lapsed"}

Labels == {"idle", "guard", "r_codes", "r_create", "r_grant", "r_setting", "r_method", "r_two",
           "s_find", "s_create", "s_link", "s_act", "l_find", "l_method", "l_act", "l_seen",
           "p_find", "p_method", "p_write", "g_role", "u_write", "d_read", "d_archive", "d_delete", "log"}
Request == [at : Labels, op : AllOps, id : Ids \cup {NoId}, first : BOOLEAN]
Idle == [at |-> "idle", op |-> "login", id |-> NoId, first |-> FALSE]

TypeOK ==
    /\ users \in [Ids -> Row]
    /\ archive \in SUBSET Ids /\ tokens \in SUBSET Ids /\ answered \in SUBSET Ids
    /\ rq \in [Procs -> Request]

Init ==
    /\ users = [i \in Ids |-> Blank("no")]
    /\ archive = {} /\ tokens = {} /\ answered = {}
    /\ rq = [p \in Procs |-> Idle]

-----------------------------------------------------------------------------
At(p, label) == rq[p].at = label
Become(p, r) == rq' = [rq EXCEPT ![p] = r]
Goto(p, label) == Become(p, [rq[p] EXCEPT !.at = label])
Reply(p) == Become(p, Idle)

Live(i) == i \in Ids /\ users[i].there = "yes"
Held == \E i \in Ids : Live(i) /\ users[i].here
SetRow(i, row) == users' = [users EXCEPT ![i] = row]

\* An insert that refers to the account, or an update of it, needs its row.
Written(p, row, label) ==
    IF Live(rq[p].id) THEN SetRow(rq[p].id, row) /\ Goto(p, label)
                      ELSE Reply(p) /\ UNCHANGED users

\* updateUser swallows the error of an update without a row: the caller goes on.
Updated(p, row, label) ==
    /\ Goto(p, label)
    /\ IF Live(rq[p].id) THEN SetRow(rq[p].id, row) ELSE UNCHANGED users

-----------------------------------------------------------------------------
Fresh == {i \in Ids : users[i].there = "no"}

Entry == [register |-> "r_codes", google |-> "s_find", login |-> "l_find", recover |-> "p_find",
          reset |-> "guard", patch |-> "guard", delete |-> "guard"]

\* Those behind JwtGuard come with a token.
Arrive(p, op, i) ==
    /\ At(p, "idle")
    /\ op \in Ops
    /\ IF Entry[op] = "guard" THEN i \in tokens ELSE i = NoId
    /\ Become(p, [Idle EXCEPT !.at = Entry[op], !.op = op, !.id = i])
    /\ UNCHANGED <<users, archive, tokens, answered>>

\* JwtStrategy.validate looks the user up.
Guard(p) ==
    /\ At(p, "guard")
    /\ IF Live(rq[p].id) THEN Goto(p, IF rq[p].op = "reset" THEN "p_find" ELSE "g_role") ELSE Reply(p)
    /\ UNCHANGED <<users, archive, tokens, answered>>

-----------------------------------------------------------------------------
(* register *)

\* A code for the mail, one for the phone, or both; each one found has to be good.
ReadCodes(p) ==
    /\ At(p, "r_codes")
    /\ \E mail, phone \in Code :
          IF "verified" \in {mail, phone} /\ {mail, phone} \subseteq {"none", "verified"}
          THEN Goto(p, "r_create")
          ELSE Reply(p)
    /\ UNCHANGED <<users, archive, tokens, answered>>

\* createUser, with a password or from Google: the address is unique.  Bound: no
\* more accounts than ids.
CreateUser(p) ==
    /\ rq[p].at \in {"r_create", "s_create"}
    /\ IF Held
       THEN Reply(p) /\ UNCHANGED users
       ELSE \E i \in Fresh :
               /\ SetRow(i, [Blank("yes") EXCEPT !.pass = At(p, "r_create")])
               /\ Become(p, [rq[p] EXCEPT !.at = IF At(p, "r_create") THEN "r_grant" ELSE "s_link",
                                          !.id = i, !.first = TRUE])
    /\ UNCHANGED <<archive, tokens, answered>>

Mine(p) == users[rq[p].id]

\* Fault: register goes on when the notification setting could not be stored.
FurnishAnyway(p) ==
    /\ \/ At(p, "r_grant") /\ Written(p, [Mine(p) EXCEPT !.role = TRUE], "r_setting")
       \/ At(p, "r_setting") /\ UNCHANGED users /\ Goto(p, "r_method")
       \/ At(p, "r_setting") /\ Updated(p, [Mine(p) EXCEPT !.setting = TRUE], "r_method")
       \/ At(p, "r_method") /\ Updated(p, [Mine(p) EXCEPT !.method = TRUE], "r_two")
       \/ At(p, "r_two") /\ Updated(p, [Mine(p) EXCEPT !.two = TRUE], "log")
    /\ UNCHANGED <<archive, tokens, answered>>

\* Role, setting, second factor and its flag, one statement after the other;
\* createUserTwoStepVerification and updateUser swallow their errors.
Furnish(p) ==
    /\ \/ At(p, "r_grant") /\ Written(p, [Mine(p) EXCEPT !.role = TRUE], "r_setting")
       \/ At(p, "r_setting") /\ Written(p, [Mine(p) EXCEPT !.setting = TRUE], "r_method")
       \/ At(p, "r_method") /\ Updated(p, [Mine(p) EXCEPT !.method = TRUE], "r_two")
       \/ At(p, "r_two") /\ Updated(p, [Mine(p) EXCEPT !.two = TRUE], "log")
    /\ UNCHANGED <<archive, tokens, answered>>

-----------------------------------------------------------------------------
(* authUserByGoogleSSO *)

FindLink(p) ==
    /\ At(p, "s_find")
    /\ \/ \E i \in Ids : users[i].link /\ Become(p, [rq[p] EXCEPT !.at = "log", !.id = i])
       \/ (\A i \in Ids : ~users[i].link) /\ Goto(p, "s_create")
    /\ UNCHANGED <<users, archive, tokens, answered>>

CreateLink(p) ==
    /\ At(p, "s_link")
    /\ Written(p, [Mine(p) EXCEPT !.link = TRUE], "log")
    /\ UNCHANGED <<archive, tokens, answered>>

\* The last statement of a Google login; its error is swallowed.
ActivateLinked(p) ==
    /\ At(p, "s_act")
    /\ IF Live(rq[p].id) THEN SetRow(rq[p].id, [Mine(p) EXCEPT !.active = TRUE]) ELSE UNCHANGED users
    /\ tokens' = tokens \cup {rq[p].id}
    /\ Reply(p)
    /\ UNCHANGED <<archive, answered>>

-----------------------------------------------------------------------------
(* login *)

\* findUser and the password: an account that has one, given right or wrong.
FindLogin(p) ==
    /\ At(p, "l_find")
    /\ \/ Reply(p)
       \/ \E i \in Ids :
             /\ Live(i) /\ users[i].here /\ users[i].pass
             /\ Become(p, [rq[p] EXCEPT !.at = "l_method", !.id = i, !.first = ~users[i].seen])
    /\ UNCHANGED <<users, archive, tokens, answered>>

\* An account never logged in to is activated first.
Admit(p) == Goto(p, IF rq[p].first THEN "l_act" ELSE "l_seen")

\* finUserTwoStepVerification; only a code that is neither VERIFIED nor fresh, or
\* none, keeps a login out.
CheckLoginCode(p) ==
    /\ At(p, "l_method")
    /\ \E c \in Code :
          IF Live(rq[p].id) /\ Mine(p).method /\ c \in {"none", "stale"} THEN Reply(p) ELSE Admit(p)
    /\ UNCHANGED <<users, archive, tokens, answered>>

\* Fault: the two updates in the other order.
MarkLoginSwapped(p) ==
    /\ \/ At(p, "l_act") /\ Updated(p, [Mine(p) EXCEPT !.seen = TRUE], "l_seen")
       \/ At(p, "l_seen") /\ Updated(p, [Mine(p) EXCEPT !.active = TRUE, !.seen = TRUE], "log")
    /\ UNCHANGED <<archive, tokens, answered>>

\* isActive and accountStatus, then lastLogin.
MarkLogin(p) ==
    /\ \/ At(p, "l_act") /\ Updated(p, [Mine(p) EXCEPT !.active = TRUE], "l_seen")
       \/ At(p, "l_seen") /\ Updated(p, [Mine(p) EXCEPT !.seen = TRUE], "log")
    /\ UNCHANGED <<archive, tokens, answered>>

-----------------------------------------------------------------------------
(* resetPassword, by id, and recoverAccount, by address *)

FindForPassword(p) ==
    /\ At(p, "p_find")
    /\ \/ Reply(p)
       \/ \E i \in Ids :
             /\ Live(i)
             /\ IF rq[p].op = "reset" THEN i = rq[p].id ELSE users[i].here
             /\ Become(p, [rq[p] EXCEPT !.at = "p_method", !.id = i, !.first = users[i].pass])
    /\ UNCHANGED <<users, archive, tokens, answered>>

\* A reset compares the current password with the one read, which may be none.
MayWritePassword(p) ==
    \/ Reply(p) /\ rq[p].op = "reset"
    \/ Goto(p, "p_write") /\ (rq[p].op = "reset" => rq[p].first)

CheckPasswordCode(p) ==
    /\ At(p, "p_method")
    /\ \E c \in Code :
          IF Live(rq[p].id) /\ Mine(p).method /\ c # "verified" THEN Reply(p) ELSE MayWritePassword(p)
    /\ UNCHANGED <<users, archive, tokens, answered>>

WritePassword(p) ==
    /\ At(p, "p_write")
    /\ Updated(p, [Mine(p) EXCEPT !.pass = TRUE], "log")
    /\ UNCHANGED <<archive, tokens, answered>>

-----------------------------------------------------------------------------
(* updateAccount and deleteUser *)

AfterGuards(r) == IF r.op = "patch" THEN "u_write" ELSE "d_read"

\* Fault: an account without a role gets past the guard.
RoleGuardAny(p) ==
    /\ At(p, "g_role")
    /\ \E c \in Code : IF c = "verified" THEN Goto(p, AfterGuards(rq[p])) ELSE Reply(p)
    /\ UNCHANGED <<users, archive, tokens, answered>>

\* RoleGuard, then the code of the user id, of its mail or of its phone.
RoleGuard(p) ==
    /\ At(p, "g_role")
    /\ \E c \in Code :
          IF Mine(p).role /\ c = "verified" THEN Goto(p, AfterGuards(rq[p])) ELSE Reply(p)
    /\ UNCHANGED <<users, archive, tokens, answered>>

\* isActive and twoStepEnabled are overwritten, or these and lastLogin with null and
\* passwordHash.  Nothing reads the first two: a loose row need not tell them.
Overwritten(row, all) == [row EXCEPT !.seen = @ /\ ~all, !.pass = @ \/ all, !.loose = TRUE]

\* The PATCH may carry any columns: it moves the account from and to the address,
\* or overwrites the others.
PatchUser(p) ==
    /\ At(p, "u_write")
    /\ \/ \E here \in BOOLEAN :
             IF here /\ ~Mine(p).here /\ Held
             THEN Reply(p) /\ UNCHANGED users
             ELSE Written(p, [Mine(p) EXCEPT !.here = here], "log")
       \/ \E all \in BOOLEAN : Written(p, Overwritten(Mine(p), all), "log")
    /\ UNCHANGED <<archive, tokens, answered>>

ReadForDelete(p) ==
    /\ At(p, "d_read")
    /\ IF Live(rq[p].id) THEN Goto(p, "d_archive") ELSE Reply(p)
    /\ UNCHANGED <<users, archive, tokens, answered>>

Archive(p) ==
    /\ At(p, "d_archive")
    /\ archive' = archive \cup {rq[p].id}
    /\ Goto(p, "log")
    /\ UNCHANGED <<users, tokens, answered>>

\* The row takes along every row that refers to it.
DeleteUser(p) ==
    /\ At(p, "d_delete")
    /\ IF Live(rq[p].id) THEN SetRow(rq[p].id, Blank("gone")) ELSE UNCHANGED users
    /\ Reply(p)
    /\ UNCHANGED <<archive, tokens, answered>>

-----------------------------------------------------------------------------
\* The requests whose answer carries a token, and those whose success says that
\* an account was opened.
GivesToken(r) == r.op = "login" \/ (r.op = "google" /\ r.first)
Opens(r) == r.op = "register" \/ (r.op = "google" /\ r.first)

\* Where a request goes on from its activity log: a deletion and the Google login
\* of a known user have one statement more.
AfterLog(p) ==
    \/ rq[p].op = "delete" /\ Goto(p, "d_delete")
    \/ rq[p].op = "google" /\ ~rq[p].first /\ Goto(p, "s_act")
    \/ rq[p].op # "delete" /\ (rq[p].op = "google" => rq[p].first) /\ Reply(p)

\* addOrGetDeviceId and addUserActivity, then the answer.
Log(p) ==
    /\ At(p, "log")
    /\ IF Live(rq[p].id)
       THEN /\ AfterLog(p)
            /\ tokens' = IF GivesToken(rq[p]) THEN tokens \cup {rq[p].id} ELSE tokens
            /\ answered' = IF Opens(rq[p]) THEN answered \cup {rq[p].id} ELSE answered
       ELSE Reply(p) /\ UNCHANGED <<tokens, answered>>
    /\ UNCHANGED <<users, archive>>

\* Fault: a deletion goes on when the snapshot could not be stored.
CallThrowsOn(p) ==
    /\ "call" \in Faults
    /\ rq[p].at # "idle"
    /\ IF At(p, "d_archive") THEN Goto(p, "log") ELSE Reply(p)
    /\ UNCHANGED <<users, archive, tokens, answered>>

\* An await rejects and the request is answered success: false.
CallThrows(p) ==
    /\ "call" \in Faults
    /\ rq[p].at # "idle"
    /\ Reply(p)
    /\ UNCHANGED <<users, archive, tokens, answered>>

AfterSave == [r_method |-> "r_two", r_two |-> "log", l_act |-> "l_seen", l_seen |-> "log", p_write |-> "log"]

\* A write fails whose error updateUser or createUserTwoStepVerification swallows.
SaveFails(p) ==
    /\ "save" \in Faults
    /\ rq[p].at \in DOMAIN AfterSave
    /\ Updated(p, [Mine(p) EXCEPT !.loose = @ \/ ~At(p, "p_write")], AfterSave[rq[p].at])
    /\ UNCHANGED <<archive, tokens, answered>>

\* The process dies, and is started again.
Crash ==
    /\ "crash" \in Faults
    /\ \E p \in Procs : ~At(p, "idle")
    /\ rq' = [p \in Procs |-> Idle]
    /\ UNCHANGED <<users, archive, tokens, answered>>

RegisterStep(p) == ReadCodes(p) \/ Furnish(p)
GoogleStep(p) == FindLink(p) \/ CreateLink(p) \/ ActivateLinked(p)
LoginStep(p) == FindLogin(p) \/ CheckLoginCode(p) \/ MarkLogin(p)
PasswordStep(p) == FindForPassword(p) \/ CheckPasswordCode(p) \/ WritePassword(p)
AccountStep(p) == RoleGuard(p) \/ PatchUser(p) \/ ReadForDelete(p) \/ Archive(p) \/ DeleteUser(p)

Step(p) ==
    \/ Guard(p) \/ CreateUser(p) \/ Log(p)
    \/ RegisterStep(p) \/ GoogleStep(p) \/ LoginStep(p) \/ PasswordStep(p) \/ AccountStep(p)

Next ==
    \/ \E p \in Procs :
          \/ \E op \in Ops, i \in Ids \cup {NoId} : Arrive(p, op, i)
          \/ Step(p) \/ CallThrows(p) \/ SaveFails(p)
    \/ Crash

Spec == Init /\ [][Next]_vars

-----------------------------------------------------------------------------
(* Properties *)

\* What registration gives an account: its link to Google; or a role, a setting
\* and, unless it is loose, a second factor that is switched on.
Furnished(i) ==
    \/ users[i].link
    \/ users[i].role /\ users[i].setting /\ (users[i].loose \/ (users[i].method /\ users[i].two))

\* An account whose registration was answered a success has everything that
\* registration gives it, whatever else failed or died on the way and whoever
\* changed it since, unless an error was swallowed (AuthService.register,
\* authUserByGoogleSSO).
RegisteredIsComplete ==
    \A i \in answered : Live(i) => Furnished(i)

\* An account with a lastLogin was activated: the first login does so before it
\* sets lastLogin, and no later login would (AuthService.login).
FirstLoginActivates ==
    \A i \in Ids : users[i].seen => users[i].active \/ users[i].loose

\* The address names at most one account.
OneHolder == \A i, j \in Ids : Live(i) /\ users[i].here /\ Live(j) /\ users[j].here => i = j

\* An id that is not in use has no columns and nothing that refers to it.
RowsOK == \A i \in Ids : ~Live(i) => users[i] = Blank(users[i].there)

\* Who is on record existed; who is gone was archived.
RecordsOK ==
    /\ \A i \in answered \cup archive \cup tokens : users[i].there # "no"
    /\ \A i \in Ids : users[i].there = "gone" => i \in archive
    /\ \A i \in archive : Live(i) => users[i].role

Unnamed == {"idle", "r_codes", "r_create", "s_find", "s_create", "l_find"}

\* The operations a label belongs to.
Belongs(r) ==
    /\ r.at \in {"r_codes", "r_create", "r_grant", "r_setting", "r_method", "r_two"} => r.op = "register"
    /\ r.at \in {"s_find", "s_create", "s_link", "s_act"} => r.op = "google"
    /\ r.at \in {"l_find", "l_method", "l_act", "l_seen"} => r.op = "login"
    /\ r.at \in {"p_find", "p_method", "p_write"} => r.op \in {"reset", "recover"}
    /\ r.at = "g_role" => r.op \in {"patch", "delete"}
    /\ r.at = "u_write" => r.op = "patch"
    /\ r.at \in {"d_read", "d_archive", "d_delete"} => r.op = "delete"
    /\ r.at = "guard" => r.op \in {"reset", "patch", "delete"}

\* A request that is about an account names one that exists or did.
Names(r) ==
    /\ r.id = NoId => r.at \in Unnamed \/ (r.at = "p_find" /\ r.op = "recover")
    /\ r.id # NoId => r.at \notin Unnamed /\ users[r.id].there # "no"

\* How far a registration has come with its account, if that still exists.
Opened(r) == r.op = "register" /\ r.at = "log"
Progress(r) ==
    Live(r.id) =>
      /\ r.at \in {"r_setting", "r_method", "r_two"} \/ Opened(r) => users[r.id].role
      /\ r.at \in {"r_method", "r_two"} \/ Opened(r) => users[r.id].setting
      /\ r.at = "r_two" \/ Opened(r) => users[r.id].method \/ users[r.id].loose
      /\ Opened(r) => users[r.id].two \/ users[r.id].loose
      /\ r.op = "google" /\ r.at = "log" => users[r.id].link

\* A login about to set lastLogin has activated the account or found it in use.
Activated(r) ==
    /\ r.at \in {"l_method", "l_seen"} /\ Live(r.id) =>
          \/ users[r.id].active \/ users[r.id].loose
          \/ r.at # "l_seen" /\ r.first

\* An account that is being deleted has a role and, past d_archive, a snapshot.
Leaving(r) ==
    /\ r.at \in {"u_write", "d_read", "d_archive", "d_delete"}
          \/ (r.op = "delete" /\ r.at = "log") => (Live(r.id) => users[r.id].role)
    /\ r.at = "d_delete" \/ (r.op = "delete" /\ r.at = "log") => r.id \in archive

RequestOK(r) == Belongs(r) /\ Names(r) /\ Progress(r) /\ Activated(r) /\ Leaving(r)
RequestsOK == \A p \in Procs : RequestOK(rq[p])

IInv ==
    /\ TypeOK /\ OneHolder /\ RowsOK /\ RecordsOK /\ RequestsOK
    /\ RegisteredIsComplete /\ FirstLoginActivates

\* What the handlers promise, with the rows they leave behind: every step of
\* every request is one of Lifecycle's, or changes nothing there.
Stage(i) ==
    CASE users[i].there = "no" -> "absent"
      [] users[i].there = "gone" -> "deleted"
      [] Live(i) /\ users[i].role -> "usable"
      [] OTHER -> "created"

Life == INSTANCE Lifecycle WITH stage <- [i \in Ids |-> Stage(i)], archived <- archive

\* An account is deleted only while it has a role and after its snapshot was
\* stored, and no id comes back (UserService.deleteUser, RoleGuard).
ImplementsLifecycle == Life!Spec
=============================================================================
