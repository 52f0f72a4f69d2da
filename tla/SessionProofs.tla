--------------------------- MODULE SessionProofs ---------------------------
(***************************************************************************)
(* Type correctness of Session, the bound on the rows of one device, and   *)
(* that an orderly sign-out ends the token it came with, and its login.    *)
(***************************************************************************)
EXTENDS Session, FiniteSetTheorems, TLAPS

LEMMA DefaultsTyped ==
    /\ Idle \in Request /\ NoToken \in Token
    /\ Idle.at = "idle" /\ Idle.op = "login" /\ Idle.then = "idle" /\ Idle.ver = 0
<1>1. (CHOOSE f \in Prints : TRUE) \in Prints
  BY OpsAssumption
<1> QED
  BY <1>1 DEF Idle, NoToken, Token, Request, Labels, DeviceLabels, Returns, AllOps

-----------------------------------------------------------------------------
(* What a step of a request does to its own record. *)

Before == {"guard", "s_user", "s_write"}

\* r continues request p: the caller's part is kept, and each label is reached
\* from the awaits that lead to it.
Continues(p, r) ==
    /\ r.op = rq[p].op /\ r.tok = rq[p].tok /\ r.print = rq[p].print
    /\ r.ver = rq[p].ver \/ r.ver = version
    /\ r.saved => rq[p].saved
    /\ r.at \notin {"idle", "guard"}
    /\ r.at = "d_new" => DevicesLike(rq[p].print) = {}
    /\ r.at \in SignOutLabels \/ r.then \in {"s_ulog", "s_find"} => r.op = "signout"
    /\ r.at = "s_write" => r.ver = version
    /\ r.at \in Before => r.then = "idle"
    /\ r.at \in DeviceLabels => r.then # "idle"
    /\ r.op = "signout" /\ r.at \notin Before => rq[p].at \notin {"guard", "s_user"}

Follows(p, r) == r \in Request /\ Become(p, r) /\ (r = Idle \/ Continues(p, r))

\* Going on to a label that needs nothing but the request's operation.
LEMMA GotoFollows ==
    ASSUME TypeOK, PlacesOK, NEW p \in Procs, NEW l \in Labels, Goto(p, l), ~At(p, "idle"),
           l \notin {"idle", "guard", "s_write"},
           l = "d_new" => DevicesLike(rq[p].print) = {},
           l \in SignOutLabels => rq[p].op = "signout",
           l \in Before => rq[p].then = "idle",
           l \in DeviceLabels => rq[p].then # "idle",
           rq[p].op = "signout" /\ l \notin Before => rq[p].at \notin {"guard", "s_user"}
    PROVE  \E r : Follows(p, r)
<1> DEFINE r == [rq[p] EXCEPT !.at = l]
<1>1. rq[p] \in Request
  BY DEF TypeOK
<1>2. r \in Request
  BY <1>1 DEF Request
<1>3. Continues(p, r)
  BY <1>1 DEF Continues, PlacesOK, Request, DeviceLabels
<1> QED
  BY <1>2, <1>3 DEF Follows, Goto

LEMMA ReplyFollows == ASSUME NEW p, Reply(p) PROVE \E r : Follows(p, r)
BY DefaultsTyped DEF Reply, Follows

\* Looking the device up, to return to label l.
LEMMA GetDeviceFollows ==
    ASSUME TypeOK, PlacesOK, NEW p \in Procs, NEW l \in Returns \ {"idle"}, NEW v \in {rq[p].ver, version},
           Become(p, [GetDevice(p, l) EXCEPT !.ver = v]),
           rq[p].at \notin {"idle", "guard", "s_user"},
           l \in {"s_ulog", "s_find"} => rq[p].op = "signout"
    PROVE  \E r : Follows(p, r)
<1> DEFINE r == [GetDevice(p, l) EXCEPT !.ver = v]
<1>1. rq[p] \in Request /\ version \in Nat
  BY DEF TypeOK
<1>2. r \in Request
  BY <1>1 DEF Request, GetDevice, Labels, DeviceLabels
<1>3. Continues(p, r)
  BY <1>1 DEF Continues, PlacesOK, Request, GetDevice, SignOutLabels, Before, DeviceLabels
<1> QED
  BY <1>2, <1>3 DEF Follows

LEMMA GetDevicePlain ==
    ASSUME TypeOK, NEW p \in Procs, NEW l
    PROVE  GetDevice(p, l) = [GetDevice(p, l) EXCEPT !.ver = rq[p].ver]
BY DEF GetDevice, TypeOK, Request

LEMMA RejectedFollows ==
    ASSUME TypeOK, PlacesOK, NEW p \in Procs, Rejected(p), ~At(p, "idle"), ~At(p, "s_write")
    PROVE  \E r : Follows(p, r)
<1>1. CASE rq[p].then = "s_ulog" /\ rq[p].at \notin {"guard", "s_user"}
  <2>1. rq[p].op = "signout"
    BY <1>1 DEF PlacesOK
  <2>2. Become(p, [GetDevice(p, "s_find") EXCEPT !.ver = rq[p].ver])
    BY <1>1, GetDevicePlain DEF Rejected
  <2> QED
    BY <1>1, <2>1, <2>2, GetDeviceFollows DEF Returns, At
<1>2. CASE rq[p].then # "s_ulog"
  BY <1>2, ReplyFollows DEF Rejected, Reply
<1>3. rq[p].at \in {"guard", "s_user"} => rq[p].then = "idle"
  BY DEF PlacesOK
<1> QED
  BY <1>1, <1>2, <1>3

\* Every step of a request, and every rejection, is of that kind.
LEMMA StepFollows ==
    ASSUME TypeOK, PlacesOK, NEW p \in Procs, Step(p) \/ SaveFails(p) \/ CallThrows(p)
    PROVE  \E r : Follows(p, r)
<1>lab. /\ {"l_user", "l_check", "l_new", "l_log", "l_notify", "r_user", "r_exists", "r_store",
             "s_user", "s_find", "s_del", "s_log", "x_find", "x_del", "d_touch", "d_new"} \subseteq Labels
        /\ Returns \subseteq Labels
  BY DEF Labels, DeviceLabels, Returns
<1>typ. rq[p] \in Request /\ version \in Nat
  BY DEF TypeOK
<1>op. rq[p].at \in SignOutLabels => rq[p].op = "signout"
  BY DEF PlacesOK
<1>1. CASE Guard(p)
  <2>1. CASE rq[p].tok.ver # version
    BY <1>1, <2>1, ReplyFollows DEF Guard
  <2>2. CASE rq[p].tok.ver = version
    <3>1. PICK l \in Labels : l = AfterGuard[rq[p].op]
      BY <1>lab, <1>typ DEF AfterGuard, Request, AllOps
    <3>2. /\ l \in {"l_user", "r_user", "s_user", "x_find"}
          /\ l = "s_user" <=> rq[p].op = "signout"
      BY <3>1, <1>typ DEF AfterGuard, Request, AllOps
    <3>3. Goto(p, l) /\ At(p, "guard") /\ rq[p].then = "idle"
      BY <1>1, <2>2, <3>1 DEF Guard, PlacesOK, At
    <3> QED
      BY <3>2, <3>3, GotoFollows DEF At, SignOutLabels, Before, DeviceLabels
  <2> QED
    BY <2>1, <2>2
<1>2. CASE ReadUser(p)
  <2>1. CASE At(p, "l_user")
    <3> DEFINE r == [rq[p] EXCEPT !.ver = version, !.at = "l_check"]
    <3>1. r \in Request
      BY <1>lab, <1>typ DEF Request
    <3>2. Continues(p, r)
      BY <1>typ, <2>1 DEF Continues, Request, PlacesOK, At, SignOutLabels, Before, DeviceLabels
    <3> QED
      BY <1>2, <2>1, <3>1, <3>2 DEF ReadUser, Follows, At
  <2>2. CASE At(p, "r_user")
    <3>1. Become(p, [GetDevice(p, "r_exists") EXCEPT !.ver = version])
      BY <1>2, <2>2 DEF ReadUser, At
    <3> QED
      BY <2>2, <3>1, GetDeviceFollows DEF At, Returns
  <2>3. CASE At(p, "s_user")
    <3> DEFINE r == [rq[p] EXCEPT !.ver = version, !.at = "s_write"]
    <3>1. r \in Request
      BY <1>lab, <1>typ DEF Request, Labels
    <3>2. Continues(p, r)
      BY <1>typ, <1>op, <2>3 DEF Continues, Request, PlacesOK, At, SignOutLabels, Before, DeviceLabels
    <3> QED
      BY <1>2, <2>3, <3>1, <3>2 DEF ReadUser, Follows, At
  <2> QED
    BY <1>2, <2>1, <2>2, <2>3 DEF ReadUser
<1>3. CASE DeviceFind(p)
  <2>1. ASSUME NEW d \in devices, Become(p, [rq[p] EXCEPT !.at = "d_touch", !.dev = d.id, !.new = FALSE])
        PROVE  \E r : Follows(p, r)
    <3> DEFINE r == [rq[p] EXCEPT !.at = "d_touch", !.dev = d.id, !.new = FALSE]
    <3>1. r \in Request
      BY <1>lab, <1>typ DEF Request, TypeOK, Device
    <3>2. Continues(p, r)
      BY <1>3, <1>typ DEF DeviceFind, Continues, Request, PlacesOK, At, SignOutLabels, Before, DeviceLabels
    <3> QED
      BY <2>1, <3>1, <3>2 DEF Follows
  <2>2. CASE (\A d \in devices : d.print # rq[p].print) /\ Goto(p, "d_new")
    <3>1. DevicesLike(rq[p].print) = {}
      BY <2>2 DEF DevicesLike
    <3>2. rq[p].then # "idle"
      BY <1>3 DEF DeviceFind, At, PlacesOK, DeviceLabels
    <3> QED
      BY <1>3, <1>lab, <2>2, <3>1, <3>2, GotoFollows DEF DeviceFind, At, SignOutLabels, Before, DeviceLabels
  <2> QED
    BY <1>3, <2>1, <2>2 DEF DeviceFind
<1>4. CASE DeviceTouch(p)
  <2>1. CASE ~HasDevice(rq[p].dev)
    BY <1>4, <2>1, RejectedFollows DEF DeviceTouch, At
  <2>2. CASE HasDevice(rq[p].dev)
    <3>1. PICK l \in Labels : l = AfterTouch(rq[p]) /\ l \notin DeviceLabels \cup {"idle", "guard", "s_user", "s_write"}
                              /\ (l \in SignOutLabels => rq[p].op = "signout")
      BY <1>4, <1>lab, <1>typ
      DEF DeviceTouch, At, AfterTouch, Request, Returns, PlacesOK, SignOutLabels, DeviceLabels
    <3>2. Goto(p, l)
      BY <1>4, <2>2, <3>1 DEF DeviceTouch
    <3> QED
      BY <1>4, <3>1, <3>2, GotoFollows DEF DeviceTouch, At, Before, DeviceLabels
  <2> QED
    BY <2>1, <2>2
<1>5. CASE DeviceNew(p)
  <2> DEFINE r == [rq[p] EXCEPT !.at = rq[p].then, !.dev = nextDevice, !.new = TRUE]
  <2>1. r \in Request
    BY <1>lab, <1>typ DEF Request, TypeOK
  <2>2. Continues(p, r)
    BY <1>5, <1>typ
    DEF DeviceNew, Continues, Request, Returns, PlacesOK, At, SignOutLabels, Before, DeviceLabels
  <2> QED
    BY <1>5, <2>1, <2>2 DEF DeviceNew, Follows
<1>6. CASE LoginCheck(p)
  <2>1. CASE Become(p, GetDevice(p, "l_new")) /\ At(p, "l_check")
    <3>1. Become(p, [GetDevice(p, "l_new") EXCEPT !.ver = rq[p].ver])
      BY <2>1, GetDevicePlain
    <3> QED
      BY <2>1, <3>1, GetDeviceFollows DEF At, Returns
  <2> QED
    BY <1>6, <2>1, ReplyFollows DEF LoginCheck
<1>7. CASE EmitSession(p) \/ RefreshLookup(p) \/ FindDevice(p)
  <2>1. CASE Reply(p)
    BY <2>1, ReplyFollows
  <2>2. PICK l \in {"l_log", "r_store", "x_del"} : Reply(p) \/ Goto(p, l)
    BY <1>7 DEF EmitSession, RefreshLookup, FindDevice
  <2>3. CASE Goto(p, l)
    BY <1>7, <1>lab, <2>3, GotoFollows
    DEF EmitSession, RefreshLookup, FindDevice, At, SignOutLabels, Before, DeviceLabels
  <2> QED
    BY <2>1, <2>2, <2>3
<1>8. CASE LogActivity(p)
  <2>1. CASE At(p, "l_log")
    BY <1>8, <1>lab, <2>1, GotoFollows, ReplyFollows
    DEF LogActivity, At, SignOutLabels, Before, DeviceLabels
  <2>2. CASE At(p, "x_log")
    BY <1>8, <2>2, ReplyFollows DEF LogActivity, At
  <2>3. CASE At(p, "s_ulog")
    <3>1. Become(p, [GetDevice(p, "s_find") EXCEPT !.ver = rq[p].ver])
      BY <1>8, <2>3, GetDevicePlain DEF LogActivity, At
    <3> QED
      BY <1>op, <2>3, <3>1, GetDeviceFollows DEF At, Returns, SignOutLabels
  <2> QED
    BY <1>8, <2>1, <2>2, <2>3 DEF LogActivity
<1>9. CASE LoginIssue(p) \/ RefreshIssue(p) \/ SignedOut(p)
  BY <1>9, ReplyFollows DEF LoginIssue, RefreshIssue, SignedOut
<1>10. CASE WriteVersion(p) \/ SaveFails(p)
  <2>1. At(p, "s_write")
    BY <1>10 DEF WriteVersion, SaveFails
  <2>2. CASE WriteVersion(p)
    <3>1. Become(p, [GetDevice(p, "s_ulog") EXCEPT !.ver = rq[p].ver])
      BY <2>2, GetDevicePlain DEF WriteVersion
    <3> QED
      BY <1>op, <2>1, <3>1, GetDeviceFollows DEF At, Returns, SignOutLabels
  <2>3. CASE SaveFails(p)
    <3> DEFINE r == [GetDevice(p, "s_find") EXCEPT !.saved = FALSE]
    <3>1. r \in Request
      BY <1>lab, <1>typ DEF Request, GetDevice, Labels, DeviceLabels, Returns
    <3>2. Continues(p, r)
      BY <1>typ, <1>op, <2>1
      DEF Continues, Request, GetDevice, PlacesOK, At, SignOutLabels, Before, DeviceLabels
    <3> QED
      BY <2>3, <3>1, <3>2 DEF SaveFails, Follows
  <2> QED
    BY <1>10, <2>2, <2>3
<1>11. CASE FindStored(p)
  <2>1. ASSUME NEW row \in stored, Become(p, [rq[p] EXCEPT !.at = "s_del", !.aim = row.id])
        PROVE  \E r : Follows(p, r)
    <3> DEFINE r == [rq[p] EXCEPT !.at = "s_del", !.aim = row.id]
    <3>1. r \in Request
      BY <1>lab, <1>typ DEF Request, TypeOK, Stored
    <3>2. Continues(p, r)
      BY <1>11, <1>op, <1>typ
      DEF FindStored, Continues, Request, PlacesOK, At, SignOutLabels, Before, DeviceLabels
    <3> QED
      BY <2>1, <3>1, <3>2 DEF Follows
  <2>2. CASE Goto(p, "s_log")
    BY <1>11, <1>op, <1>lab, <2>2, GotoFollows DEF FindStored, At, SignOutLabels, Before, DeviceLabels
  <2> QED
    BY <1>11, <2>1, <2>2 DEF FindStored
<1>12. CASE DeleteStored(p)
  BY <1>12, <1>op, <1>lab, GotoFollows, ReplyFollows
  DEF DeleteStored, At, SignOutLabels, Before, DeviceLabels
<1>13. CASE DeleteDevice(p)
  <2>1. CASE Become(p, GetDevice(p, "x_log"))
    <3>1. Become(p, [GetDevice(p, "x_log") EXCEPT !.ver = rq[p].ver])
      BY <2>1, GetDevicePlain
    <3> QED
      BY <1>13, <3>1, GetDeviceFollows DEF DeleteDevice, At, Returns
  <2> QED
    BY <1>13, <2>1, ReplyFollows DEF DeleteDevice
<1>14. CASE CallThrows(p)
  BY <1>14, RejectedFollows DEF CallThrows
<1> QED
  BY <1>1, <1>2, <1>3, <1>4, <1>5, <1>6, <1>7, <1>8, <1>9, <1>10, <1>11, <1>12, <1>13, <1>14
  DEF Step, DeviceStep, LoginStep, RefreshStep, SignOutStep, RemoveStep

\* A new request is well typed and carries a token that was issued.
LEMMA StartFollows ==
    ASSUME TypeOK, NEW p \in Procs, NEW op \in AllOps, NEW t \in tokens \cup {NoToken},
           NEW f \in Prints, NEW aim \in 0..(nextDevice - 1), Start(p, op, t, f, aim)
    PROVE  \E r \in Request :
              /\ Become(p, r)
              /\ r.op = op /\ r.tok = t /\ r.ver = 0 /\ r.then = "idle"
              /\ r.at = IF op = "login" THEN "l_user" ELSE "guard"
<1> DEFINE l == IF op = "login" THEN "l_user" ELSE "guard"
           r == [Idle EXCEPT !.at = l, !.op = op, !.tok = t, !.print = f, !.aim = aim]
<1>1. t \in Token
  BY DefaultsTyped DEF TypeOK
<1>2. aim \in Nat
  BY DEF TypeOK
<1>3. l \in Labels
  BY DEF Labels
<1>4. r \in Request
  BY <1>1, <1>2, <1>3, DefaultsTyped DEF Request
<1>5. r.op = op /\ r.tok = t /\ r.ver = 0 /\ r.then = "idle" /\ r.at = l
  BY DefaultsTyped DEF Request
<1>6. Become(p, r)
  BY DEF Start
<1> HIDE DEF r
<1> QED
  BY <1>4, <1>5, <1>6

LEMMA InitTyped == Init => TypeOK /\ PlacesOK
BY DefaultsTyped, FS_EmptySet
DEF Init, TypeOK, PlacesOK, At, SignOutLabels, DeviceLabels

\* The requests stay well typed, and where they may be.
LEMMA StepRequests ==
    TypeOK /\ PlacesOK /\ [Next]_vars => rq' \in [Procs -> Request] /\ PlacesOK'
<1> SUFFICES ASSUME TypeOK, PlacesOK, [Next]_vars
             PROVE  rq' \in [Procs -> Request] /\ PlacesOK'
  OBVIOUS
<1>1. CASE UNCHANGED rq
  BY <1>1 DEF TypeOK, PlacesOK, At
<1>2. ASSUME NEW p \in Procs, NEW r \in Request, Become(p, r),
             r.at = "idle" => r.op = "login",
             r.at \in {"guard", "s_user", "s_write"} => r.then = "idle",
             r.at \in DeviceLabels => r.then # "idle",
             r.at \in SignOutLabels \/ r.then \in {"s_ulog", "s_find"} => r.op = "signout"
      PROVE  rq' \in [Procs -> Request] /\ PlacesOK'
  <2>1. rq' = [rq EXCEPT ![p] = r]
    BY <1>2 DEF Become
  <2> QED
    BY <1>2, <2>1 DEF TypeOK, PlacesOK, At
<1>3. ASSUME NEW p \in Procs, Step(p) \/ SaveFails(p) \/ CallThrows(p)
      PROVE  rq' \in [Procs -> Request] /\ PlacesOK'
  <2>1. PICK r : Follows(p, r)
    BY <1>3, StepFollows
  <2>2. CASE r = Idle
    BY <1>2, <2>1, <2>2, DefaultsTyped DEF Follows, SignOutLabels, DeviceLabels
  <2>3. CASE Continues(p, r)
    BY <1>2, <2>1, <2>3 DEF Follows, Continues, Before
  <2> QED
    BY <2>1, <2>2, <2>3 DEF Follows
<1>4. ASSUME NEW p \in Procs, NEW op \in AllOps, NEW t \in tokens \cup {NoToken},
             NEW f \in Prints, NEW aim \in 0..(nextDevice - 1), Start(p, op, t, f, aim)
      PROVE  rq' \in [Procs -> Request] /\ PlacesOK'
  <2>1. PICK r \in Request : Become(p, r) /\ r.op = op /\ r.then = "idle"
                             /\ r.at \in {"l_user", "guard"}
    BY <1>4, StartFollows
  <2> QED
    BY <1>2, <2>1 DEF SignOutLabels, DeviceLabels
<1>5. ASSUME NEW i, CronCrash(i) PROVE rq' \in [Procs -> Request] /\ PlacesOK'
  BY <1>5, DefaultsTyped DEF CronCrash, PlacesOK, At, SignOutLabels, DeviceLabels
<1>6. ASSUME NEW row \in stored, Expire(row) PROVE rq' \in [Procs -> Request] /\ PlacesOK'
  BY <1>1, <1>6 DEF Expire
<1>7. ASSUME NEW i, CronScan \/ CronDelete(i) PROVE rq' \in [Procs -> Request] /\ PlacesOK'
  BY <1>1, <1>7 DEF CronScan, CronDelete
<1> QED
  BY <1>1, <1>3, <1>4, <1>5, <1>6, <1>7 DEF Next, vars

\* Steps that only move a request, or answer it, leave the rest as it is.
LEMMA QuietSteps ==
    ASSUME NEW p \in Procs,
           \/ Guard(p) \/ ReadUser(p) \/ DeviceFind(p) \/ DeviceTouch(p) \/ LoginCheck(p)
           \/ EmitSession(p) \/ LogActivity(p) \/ RefreshLookup(p) \/ FindStored(p)
           \/ FindDevice(p) \/ SaveFails(p) \/ CallThrows(p)
    PROVE  UNCHANGED <<version, tokens, nextSess, rows, doomed, ghost>>
BY DEF Guard, ReadUser, DeviceFind, DeviceTouch, LoginCheck, EmitSession, LogActivity,
   RefreshLookup, FindStored, FindDevice, SaveFails, CallThrows

\* The variables other than rq.
TablesOK ==
    /\ version \in Nat /\ tokens \in SUBSET Token /\ nextSess \in Nat \ {0}
    /\ devices \in SUBSET Device /\ IsFiniteSet(devices) /\ nextDevice \in Nat \ {0}
    /\ stored \in SUBSET Stored /\ nextRow \in Nat \ {0}
    /\ doomed \in SUBSET Nat
    /\ spent \in SUBSET Token /\ ended \in SUBSET Nat

LEMMA StepTables == TypeOK /\ [Next]_vars => TablesOK'
<1> SUFFICES ASSUME TypeOK, [Next]_vars PROVE TablesOK'
  OBVIOUS
<1>0. \A p \in Procs : rq[p] \in Request
  BY DEF TypeOK
<1>1. CASE UNCHANGED <<version, tokens, nextSess, rows, doomed, ghost>>
  BY <1>1 DEF TypeOK, TablesOK, rows, ghost
<1>2. ASSUME NEW p \in Procs, DeviceNew(p) PROVE TablesOK'
  <2>1. PICK d \in Device : devices' = devices \cup {d}
    <3>1. [id |-> nextDevice, print |-> rq[p].print] \in Device
      BY <1>0 DEF Device, Request, TypeOK
    <3> QED
      BY <1>2, <3>1 DEF DeviceNew
  <2>2. devices' \in SUBSET Device /\ IsFiniteSet(devices')
    BY <2>1, FS_AddElement DEF TypeOK
  <2> QED
    BY <1>2, <2>2 DEF DeviceNew, TypeOK, TablesOK, ghost
<1>3. ASSUME NEW p \in Procs, LoginIssue(p) PROVE TablesOK'
  <2>1. [ver |-> rq[p].ver, sess |-> nextSess] \in Token
    BY <1>0 DEF Token, Request, TypeOK
  <2> QED
    BY <1>3, <2>1 DEF LoginIssue, TypeOK, TablesOK, rows, ghost
<1>4. ASSUME NEW p \in Procs, RefreshIssue(p) PROVE TablesOK'
  <2>1. [id |-> nextRow, tok |-> rq[p].tok, dev |-> rq[p].dev, over |-> FALSE] \in Stored
    BY <1>0 DEF Stored, Request, TypeOK
  <2>2. [ver |-> rq[p].ver, sess |-> rq[p].tok.sess] \in Token
    BY <1>0 DEF Token, Request
  <2>3. CASE HasDevice(rq[p].dev)
    <3>1. PICK row \in Stored : stored' = stored \cup {row}
      BY <1>4, <2>1, <2>3 DEF RefreshIssue
    <3>2. PICK t \in Token : tokens' = tokens \cup {t}
      BY <1>4, <2>2, <2>3 DEF RefreshIssue
    <3>3. stored' \in SUBSET Stored /\ tokens' \in SUBSET Token
      BY <3>1, <3>2 DEF TypeOK
    <3>4. nextRow' \in Nat \ {0}
      BY <1>4, <2>3 DEF RefreshIssue, TypeOK
    <3> QED
      BY <1>4, <3>3, <3>4 DEF RefreshIssue, TypeOK, TablesOK, ghost
  <2>4. CASE ~HasDevice(rq[p].dev)
    BY <1>4, <2>4 DEF RefreshIssue, TypeOK, TablesOK, ghost
  <2> QED
    BY <2>3, <2>4
<1>5. ASSUME NEW p \in Procs, WriteVersion(p) PROVE TablesOK'
  <2>1. rq[p].ver + 1 \in Nat
    BY <1>0 DEF Request
  <2> QED
    BY <1>5, <2>1 DEF WriteVersion, TypeOK, TablesOK, rows, ghost
<1>6. ASSUME NEW p \in Procs, DeleteStored(p) PROVE TablesOK'
  BY <1>6 DEF DeleteStored, TypeOK, TablesOK, ghost
<1>7. ASSUME NEW p \in Procs, SignedOut(p) PROVE TablesOK'
  <2>1. rq[p].tok \in Token
    BY <1>0 DEF Request
  <2>2. {t.sess : t \in {u \in tokens : u.ver <= rq[p].ver}} \subseteq Nat
    BY DEF TypeOK, Token
  <2>3. spent' \in SUBSET Token /\ ended' \in SUBSET Nat
    BY <1>7, <2>1, <2>2 DEF SignedOut, TypeOK, ghost
  <2> QED
    BY <1>7, <2>3 DEF SignedOut, TypeOK, TablesOK, rows
<1>8. ASSUME NEW p \in Procs, DeleteDevice(p) PROVE TablesOK'
  <2>1. devices' \subseteq devices /\ stored' \subseteq stored
    BY <1>8 DEF DeleteDevice
  <2>2. IsFiniteSet(devices')
    BY <2>1, FS_Subset DEF TypeOK
  <2> QED
    BY <1>8, <2>1, <2>2 DEF DeleteDevice, TypeOK, TablesOK, ghost
<1>9. ASSUME NEW row \in stored, Expire(row) PROVE TablesOK'
  <2>1. [row EXCEPT !.over = TRUE] \in Stored
    BY DEF TypeOK, Stored
  <2> QED
    BY <1>9, <2>1 DEF Expire, TypeOK, TablesOK, ghost
<1>10. CASE CronScan
  <2>1. {row.id : row \in {r \in stored : Due(r)}} \subseteq Nat
    BY DEF TypeOK, Stored
  <2> QED
    BY <1>10, <2>1 DEF CronScan, TypeOK, TablesOK, rows, ghost
<1>11. ASSUME NEW i, CronDelete(i) PROVE TablesOK'
  BY <1>11 DEF CronDelete, TypeOK, TablesOK, ghost
<1>12. ASSUME NEW i, CronCrash(i) PROVE TablesOK'
  BY <1>12 DEF CronCrash, TypeOK, TablesOK, rows, ghost
<1>13. ASSUME NEW p \in Procs, NEW op, NEW t, NEW f, NEW aim, Start(p, op, t, f, aim)
       PROVE  TablesOK'
  BY <1>1, <1>13 DEF Start
<1> QED
  BY <1>1, <1>2, <1>3, <1>4, <1>5, <1>6, <1>7, <1>8, <1>9, <1>10, <1>11, <1>12, <1>13, QuietSteps
  DEF Next, Step, DeviceStep, LoginStep, RefreshStep, SignOutStep, RemoveStep, vars

LEMMA StepTyped == TypeOK /\ PlacesOK /\ [Next]_vars => TypeOK' /\ PlacesOK'
BY StepTables, StepRequests DEF TypeOK, TablesOK

-----------------------------------------------------------------------------
(* The bound on the rows of one device. *)

LEMMA SetsFinite ==
    ASSUME IsFiniteSet(devices), NEW f
    PROVE  /\ IsFiniteSet(DevicesLike(f)) /\ Cardinality(DevicesLike(f)) \in Nat
           /\ IsFiniteSet(Inserting(f)) /\ Cardinality(Inserting(f)) \in Nat
           /\ Cardinality(Inserting(f)) <= Cardinality(Procs) /\ Cardinality(Procs) \in Nat
<1>1. DevicesLike(f) \subseteq devices /\ Inserting(f) \subseteq Procs
  BY DEF DevicesLike, Inserting
<1> QED
  BY <1>1, FS_Subset, FS_CardinalityType, BoundsAssumption

\* The ways a step changes the two sets.
Fewer(f) == DevicesLike(f)' \subseteq DevicesLike(f) /\ Inserting(f)' \subseteq Inserting(f)
Announced(f) == DevicesLike(f)' = {}
Inserted(f) ==
    \E p \in Inserting(f) : \E d :
        /\ DevicesLike(f)' \subseteq DevicesLike(f) \cup {d}
        /\ Inserting(f)' \subseteq Inserting(f) \ {p}

LEMMA BoundKept ==
    ASSUME NEW f \in Prints, IsFiniteSet(devices), IsFiniteSet(devices'),
           Cardinality(DevicesLike(f)) + Cardinality(Inserting(f)) <= Cardinality(Procs),
           Fewer(f) \/ Announced(f) \/ Inserted(f)
    PROVE  Cardinality(DevicesLike(f)') + Cardinality(Inserting(f)') <= Cardinality(Procs)
<1>1. /\ IsFiniteSet(DevicesLike(f)) /\ Cardinality(DevicesLike(f)) \in Nat
      /\ IsFiniteSet(Inserting(f)) /\ Cardinality(Inserting(f)) \in Nat
      /\ Cardinality(Procs) \in Nat
  BY SetsFinite
<1>2. Inserting(f)' \subseteq Procs /\ DevicesLike(f)' \subseteq devices'
  BY DEF Inserting, DevicesLike
<1>3. /\ IsFiniteSet(DevicesLike(f)') /\ Cardinality(DevicesLike(f)') \in Nat
      /\ IsFiniteSet(Inserting(f)') /\ Cardinality(Inserting(f)') \in Nat
      /\ Cardinality(Inserting(f)') <= Cardinality(Procs)
  BY <1>2, FS_Subset, FS_CardinalityType, BoundsAssumption
<1>4. CASE Fewer(f)
  <2>1. /\ Cardinality(DevicesLike(f)') <= Cardinality(DevicesLike(f))
        /\ Cardinality(Inserting(f)') <= Cardinality(Inserting(f))
    BY <1>1, <1>4, FS_Subset DEF Fewer
  <2> QED
    BY <1>1, <1>3, <2>1
<1>5. CASE Announced(f)
  BY <1>1, <1>3, <1>5, FS_EmptySet DEF Announced
<1>6. CASE Inserted(f)
  <2>1. PICK p \in Inserting(f) :
          \E d : /\ DevicesLike(f)' \subseteq DevicesLike(f) \cup {d}
                 /\ Inserting(f)' \subseteq Inserting(f) \ {p}
    BY <1>6 DEF Inserted
  <2>2. PICK d : /\ DevicesLike(f)' \subseteq DevicesLike(f) \cup {d}
                 /\ Inserting(f)' \subseteq Inserting(f) \ {p}
    BY <2>1
  <2>3. /\ IsFiniteSet(DevicesLike(f) \cup {d})
        /\ Cardinality(DevicesLike(f) \cup {d}) <= Cardinality(DevicesLike(f)) + 1
    <3> DEFINE D == DevicesLike(f)
    <3>1. IsFiniteSet(D) /\ Cardinality(D) \in Nat
      BY <1>1
    <3> HIDE DEF D
    <3>2. IsFiniteSet(D \cup {d})
          /\ Cardinality(D \cup {d}) = IF d \in D THEN Cardinality(D) ELSE Cardinality(D) + 1
      BY <3>1, FS_AddElement
    <3> QED
      BY <3>1, <3>2 DEF D
  <2>4. Cardinality(DevicesLike(f)') <= Cardinality(DevicesLike(f) \cup {d})
    BY <2>2, <2>3, FS_Subset
  <2>5. IsFiniteSet(Inserting(f) \ {p})
        /\ Cardinality(Inserting(f) \ {p}) = Cardinality(Inserting(f)) - 1
    BY <1>1, <2>2, FS_RemoveElement
  <2>6. Cardinality(Inserting(f)') <= Cardinality(Inserting(f) \ {p})
    BY <2>2, <2>5, FS_Subset
  <2>7. Cardinality(DevicesLike(f) \cup {d}) \in Nat
    BY <2>3, FS_CardinalityType
  <2> QED
    BY <1>1, <1>3, <2>3, <2>4, <2>5, <2>6, <2>7
<1> QED
  BY <1>4, <1>5, <1>6

LEMMA StepBound ==
    TypeOK /\ PlacesOK /\ LikeOrComingBounded /\ [Next]_vars => LikeOrComingBounded'
<1> SUFFICES ASSUME TypeOK, PlacesOK, LikeOrComingBounded, [Next]_vars, NEW f \in Prints
             PROVE  Cardinality(DevicesLike(f)') + Cardinality(Inserting(f)') <= Cardinality(Procs)
  BY DEF LikeOrComingBounded
<1>0. TypeOK'
  BY StepTyped
<1> SUFFICES Fewer(f) \/ Announced(f) \/ Inserted(f)
  BY <1>0, BoundKept DEF TypeOK, LikeOrComingBounded
<1>1. ASSUME NEW p \in Procs, NEW r \in Request, Become(p, r), r.at # "d_new"
      PROVE  Inserting(f)' \subseteq Inserting(f) \ {p}
  BY <1>1 DEF Become, Inserting, At, TypeOK
<1>2. ASSUME devices' \subseteq devices
      PROVE  DevicesLike(f)' \subseteq DevicesLike(f)
  BY <1>2 DEF DevicesLike
<1>3. ASSUME NEW p \in Procs, DeviceNew(p)
      PROVE  Fewer(f) \/ Inserted(f)
  <2> DEFINE r == [rq[p] EXCEPT !.at = rq[p].then, !.dev = nextDevice, !.new = TRUE]
             d == [id |-> nextDevice, print |-> rq[p].print]
  <2>1. r \in Request /\ r.at # "d_new"
    <3>1. rq[p] \in Request /\ nextDevice \in Nat
      BY DEF TypeOK
    <3>2. rq[p].then \in Labels /\ rq[p].then # "d_new"
      BY <3>1 DEF Request, Returns, Labels
    <3> QED
      BY <3>1, <3>2 DEF Request
  <2>2. Inserting(f)' \subseteq Inserting(f) \ {p}
    <3> HIDE DEF r
    <3>1. Become(p, r)
      BY <1>3 DEF DeviceNew, r
    <3> QED
      BY <1>1, <2>1, <3>1
  <2>3. CASE rq[p].print = f
    <3>1. p \in Inserting(f)
      BY <1>3, <2>3 DEF DeviceNew, Inserting
    <3>2. DevicesLike(f)' \subseteq DevicesLike(f) \cup {d}
      BY <1>3 DEF DeviceNew, DevicesLike
    <3> QED
      BY <2>2, <3>1, <3>2 DEF Inserted
  <2>4. CASE rq[p].print # f
    <3>1. DevicesLike(f)' \subseteq DevicesLike(f)
      BY <1>3, <2>4 DEF DeviceNew, DevicesLike
    <3> QED
      BY <2>2, <3>1 DEF Fewer
  <2> QED
    BY <2>3, <2>4
<1>4. ASSUME NEW p \in Procs, Step(p) \/ SaveFails(p) \/ CallThrows(p), devices' \subseteq devices
      PROVE  Fewer(f) \/ Announced(f)
  <2>1. PICK r : Follows(p, r)
    BY <1>4, StepFollows
  <2>2. CASE r.at # "d_new"
    BY <1>1, <1>2, <1>4, <2>1, <2>2 DEF Follows, Fewer
  <2>3. CASE r.at = "d_new" /\ rq[p].print = f
    <3>1. DevicesLike(f) = {}
      BY <2>1, <2>3, DefaultsTyped DEF Follows, Continues
    <3> QED
      BY <1>2, <1>4, <3>1 DEF Announced
  <2>4. CASE r.at = "d_new" /\ rq[p].print # f
    <3>1. r.print # f /\ Become(p, r)
      BY <2>1, <2>4, DefaultsTyped DEF Follows, Continues
    <3>2. Inserting(f)' \subseteq Inserting(f)
      BY <3>1 DEF Become, Inserting, At, TypeOK
    <3> QED
      BY <1>2, <1>4, <3>2 DEF Fewer
  <2> QED
    BY <2>2, <2>3, <2>4
<1>5. ASSUME NEW p \in Procs, Step(p) \/ SaveFails(p) \/ CallThrows(p)
      PROVE  DeviceNew(p) \/ devices' \subseteq devices
  <2>1. rows' = rows => devices' = devices
    BY DEF rows
  <2>2. ASSUME \/ LoginIssue(p) \/ RefreshIssue(p) \/ WriteVersion(p) \/ DeleteStored(p)
               \/ SignedOut(p) \/ DeleteDevice(p)
        PROVE  devices' \subseteq devices
    BY <2>1, <2>2 DEF LoginIssue, RefreshIssue, WriteVersion, DeleteStored, SignedOut, DeleteDevice
  <2> QED
    BY <1>5, <2>1, <2>2, QuietSteps
    DEF Step, DeviceStep, LoginStep, RefreshStep, SignOutStep, RemoveStep
<1>6. ASSUME NEW p \in Procs, NEW op \in AllOps, NEW t \in tokens \cup {NoToken},
             NEW g \in Prints, NEW aim \in 0..(nextDevice - 1), Start(p, op, t, g, aim)
      PROVE  Fewer(f)
  <2>1. PICK r \in Request : Become(p, r) /\ r.at # "d_new"
    BY <1>6, StartFollows
  <2> QED
    BY <1>1, <1>2, <1>6, <2>1 DEF Start, rows, Fewer
<1>7. CASE UNCHANGED <<devices, rq>>
  BY <1>7 DEF Fewer, DevicesLike, Inserting, At
<1>8. ASSUME NEW i, CronCrash(i) PROVE Fewer(f)
  <2>1. Inserting(f)' = {}
    BY <1>8, DefaultsTyped DEF CronCrash, Inserting, At
  <2> QED
    BY <1>2, <1>8, <2>1 DEF CronCrash, rows, Fewer
<1>9. ASSUME NEW i, NEW row, CronScan \/ CronDelete(i) \/ Expire(row) PROVE Fewer(f)
  BY <1>7, <1>9 DEF CronScan, CronDelete, Expire, rows, Fewer, DevicesLike, Inserting, At
<1> QED
  BY <1>3, <1>4, <1>5, <1>6, <1>7, <1>8, <1>9 DEF Next, vars, rows

-----------------------------------------------------------------------------
(* The versions of tokens. *)

\* What VersionsOK says of request p when it stands as r.
Placed(r, v) ==
    /\ r.ver <= v
    /\ r.op = "signout" =>
          /\ r.tok.ver <= v
          /\ r.at = "s_write" => r.ver = v
          /\ r.at \notin Before /\ r.saved => r.tok.ver < v

LEMMA VersionsForm ==
    ASSUME Orderly
    PROVE  VersionsOK <=> /\ \A t \in tokens : t.ver <= version
                          /\ \A t \in spent : t.ver < version
                          /\ \A p \in Procs : Placed(rq[p], version)
                          /\ \A p, q \in Procs : rq[p].op = "signout" /\ rq[q].op = "signout" => p = q
BY DEF VersionsOK, SignOutPlaced, Placed, At, Before, SigningOut

\* A step of p that leaves the version alone keeps p's place; so does the write.
LEMMA PlacedKept ==
    ASSUME TypeOK, NEW p \in Procs, NEW r, Follows(p, r), Placed(rq[p], version),
           At(p, "s_write") => r = Idle \/ ~r.saved
    PROVE  Placed(r, version)
<1>1. rq[p] \in Request /\ version \in Nat /\ r \in Request
  BY DEF TypeOK, Follows
<1>2. CASE r = Idle
  BY <1>1, <1>2, DefaultsTyped DEF Placed
<1>3. CASE r # Idle /\ Continues(p, r)
  <2>1. r.op = "signout" /\ r.at \notin Before /\ r.saved => rq[p].at \notin Before /\ rq[p].saved
    BY <1>3 DEF Continues, At, Before
  <2> QED
    BY <1>1, <1>3, <2>1 DEF Continues, Placed, Request, Token
<1> QED
  BY <1>2, <1>3 DEF Follows

LEMMA PlacedBySave ==
    ASSUME TypeOK, PlacesOK, NEW p \in Procs, WriteVersion(p), Placed(rq[p], version),
           NEW r, Follows(p, r)
    PROVE  version' = version + 1 /\ Placed(r, version')
<1>1. rq[p] \in Request /\ version \in Nat /\ r \in Request
  BY DEF TypeOK, Follows
<1>2. version' = version + 1
  BY DEF WriteVersion, At, PlacesOK, SignOutLabels, Placed
<1>3. CASE r = Idle
  BY <1>1, <1>2, <1>3, DefaultsTyped DEF Placed
<1>4. CASE Continues(p, r)
  <2>1. r = rq'[p] /\ rq'[p].at = "d_find"
    BY <1>1 DEF WriteVersion, GetDevice, Follows, Become, TypeOK, Request
  <2> QED
    BY <1>1, <1>2, <1>4, <2>1 DEF Continues, Placed, Request, Token
<1> QED
  BY <1>2, <1>3, <1>4 DEF Follows

\* The other requests keep their places when the version grows and none of them
\* is a sign-out, or it stays.
LEMMA OthersPlaced ==
    ASSUME TypeOK, TypeOK', NEW q \in Procs, Placed(rq[q], version), rq'[q] = rq[q],
           \/ version' = version
           \/ version' = version + 1 /\ rq[q].op # "signout"
    PROVE  Placed(rq'[q], version')
BY DEF Placed, TypeOK, Request

LEMMA StepVersions ==
    TypeOK /\ PlacesOK /\ VersionsOK /\ [Next]_vars => VersionsOK'
<1> SUFFICES ASSUME TypeOK, PlacesOK, VersionsOK, [Next]_vars, Orderly
             PROVE  /\ \A t \in tokens' : t.ver <= version'
                    /\ \A t \in spent' : t.ver < version'
                    /\ \A p \in Procs : Placed(rq'[p], version')
                    /\ \A p, q \in Procs : rq'[p].op = "signout" /\ rq'[q].op = "signout" => p = q
  BY DEF VersionsOK, SignOutPlaced, Placed, At, Before, SigningOut, Orderly
<1> DEFINE Goal == /\ \A t \in tokens' : t.ver <= version'
                   /\ \A t \in spent' : t.ver < version'
                   /\ \A p \in Procs : Placed(rq'[p], version')
                   /\ \A p, q \in Procs : rq'[p].op = "signout" /\ rq'[q].op = "signout" => p = q
<1>0. TypeOK'
  BY StepTyped
<1>1. /\ \A t \in tokens : t.ver <= version
      /\ \A t \in spent : t.ver < version
      /\ \A p \in Procs : Placed(rq[p], version)
      /\ \A p, q \in Procs : rq[p].op = "signout" /\ rq[q].op = "signout" => p = q
  BY VersionsForm
<1>2. version \in Nat /\ version' \in Nat /\ tokens \subseteq Token /\ spent \subseteq Token
  BY <1>0 DEF TypeOK
<1>3. CASE UNCHANGED <<version, tokens, spent, rq>>
  BY <1>1, <1>3
<1>4. ASSUME NEW p \in Procs, Step(p) \/ SaveFails(p) \/ CallThrows(p)
      PROVE  Goal
  <2>1. PICK r : Follows(p, r)
    BY <1>4, StepFollows
  <2>2. rq'[p] = r /\ (\A q \in Procs : q # p => rq'[q] = rq[q])
    BY <2>1 DEF Follows, Become, TypeOK
  <2>3. r.op = "signout" => rq[p].op = "signout"
    BY <2>1, DefaultsTyped DEF Follows, Continues
  <2>4. \A q, s \in Procs : rq'[q].op = "signout" /\ rq'[s].op = "signout" => q = s
    BY <1>1, <2>2, <2>3
  <2>5. CASE WriteVersion(p)
    <3>1. version' = version + 1 /\ Placed(r, version')
      BY <1>1, <2>1, <2>5, PlacedBySave
    <3>2. rq[p].op = "signout"
      BY <2>5 DEF WriteVersion, At, PlacesOK, SignOutLabels
    <3>3. \A q \in Procs : q # p => rq[q].op # "signout"
      BY <1>1, <3>2
    <3>4. \A q \in Procs : Placed(rq'[q], version')
      BY <1>0, <1>1, <2>2, <3>1, <3>3, OthersPlaced
    <3>5. \A t \in tokens' : t.ver <= version'
      BY <1>1, <1>2, <2>5, <3>1 DEF WriteVersion, Token
    <3>6. \A t \in spent' : t.ver < version'
      BY <1>1, <1>2, <2>5, <3>1 DEF WriteVersion, Token, ghost
    <3> QED
      BY <2>4, <3>4, <3>5, <3>6
  <2>6. CASE ~WriteVersion(p)
    <3>1. version' = version /\ (At(p, "s_write") => r = Idle \/ ~r.saved)
      <4>1. ASSUME SaveFails(p)
            PROVE  version' = version /\ ~r.saved
        <5>1. rq[p] \in Request
          BY DEF TypeOK
        <5>2. r = [GetDevice(p, "s_find") EXCEPT !.saved = FALSE]
          BY <2>2, <4>1 DEF SaveFails, Become, TypeOK
        <5> QED
          BY <4>1, <5>1, <5>2 DEF SaveFails, GetDevice, Request
      <4>2. ASSUME \/ DeviceNew(p) \/ LoginIssue(p) \/ RefreshIssue(p) \/ DeleteStored(p)
                   \/ SignedOut(p) \/ DeleteDevice(p)
            PROVE  ~At(p, "s_write") /\ version' = version
        BY <4>2 DEF DeviceNew, LoginIssue, RefreshIssue, DeleteStored, SignedOut, DeleteDevice, At
      <4>3. ASSUME \/ Guard(p) \/ ReadUser(p) \/ DeviceFind(p) \/ DeviceTouch(p)
                   \/ LoginCheck(p) \/ EmitSession(p) \/ LogActivity(p) \/ RefreshLookup(p)
                   \/ FindStored(p) \/ FindDevice(p) \/ CallThrows(p)
            PROVE  ~At(p, "s_write") /\ version' = version
        <5>1. version' = version
          BY <4>3, QuietSteps
        <5>2. ~At(p, "s_write")
          BY <4>3 DEF Guard, ReadUser, DeviceFind, DeviceTouch, LoginCheck, EmitSession,
             LogActivity, RefreshLookup, FindStored, FindDevice, CallThrows, At
        <5> QED
          BY <5>1, <5>2
      <4> QED
        BY <1>4, <2>6, <4>1, <4>2, <4>3
        DEF Step, DeviceStep, LoginStep, RefreshStep, SignOutStep, RemoveStep
    <3>2. \A q \in Procs : Placed(rq'[q], version')
      BY <1>0, <1>1, <2>1, <2>2, <3>1, PlacedKept, OthersPlaced
    <3>3. ASSUME NEW t \in tokens' PROVE t.ver <= version'
      <4>1. t \in tokens \/ t.ver = rq[p].ver
        <5>1. CASE LoginIssue(p) \/ RefreshIssue(p)
          BY <5>1 DEF LoginIssue, RefreshIssue
        <5>2. CASE ~LoginIssue(p) /\ ~RefreshIssue(p)
          BY <1>4, <5>2, <2>6, QuietSteps
          DEF Step, DeviceStep, LoginStep, RefreshStep, SignOutStep, RemoveStep,
              DeviceNew, DeleteStored, SignedOut, DeleteDevice
        <5> QED
          BY <5>1, <5>2
      <4> QED
        BY <1>1, <3>1, <4>1 DEF Placed
    <3>4. ASSUME NEW t \in spent' PROVE t.ver < version'
      <4>1. CASE SignedOut(p)
        <5>1. rq[p].op = "signout" /\ rq[p].at \notin Before /\ (t \in spent \/ rq[p].saved)
          BY <4>1 DEF SignedOut, At, PlacesOK, SignOutLabels, Before, ghost
        <5>2. t \in spent \/ t = rq[p].tok
          BY <4>1 DEF SignedOut, ghost
        <5> QED
          BY <1>1, <3>1, <5>1, <5>2 DEF Placed
      <4>2. CASE ~SignedOut(p)
        <5>1. spent' = spent
          BY <1>4, <4>2, <2>6, QuietSteps
          DEF Step, DeviceStep, LoginStep, RefreshStep, SignOutStep, RemoveStep, ghost,
              DeviceNew, DeleteStored, LoginIssue, RefreshIssue, DeleteDevice
        <5> QED
          BY <1>1, <3>1, <5>1
      <4> QED
        BY <4>1, <4>2
    <3> QED
      BY <2>4, <3>2, <3>3, <3>4
  <2> QED
    BY <2>5, <2>6
<1>5. ASSUME NEW p \in Procs, NEW op \in AllOps, NEW t \in tokens \cup {NoToken},
             NEW f \in Prints, NEW aim \in 0..(nextDevice - 1), Start(p, op, t, f, aim)
      PROVE  Goal
  <2>1. PICK r \in Request : /\ Become(p, r)
                             /\ r.op = op /\ r.tok = t /\ r.ver = 0
                             /\ r.at = IF op = "login" THEN "l_user" ELSE "guard"
    BY <1>5, StartFollows
  <2>2. rq'[p] = r /\ (\A q \in Procs : q # p => rq'[q] = rq[q])
    BY <2>1 DEF Become, TypeOK
  <2>3. UNCHANGED <<version, tokens, spent>>
    BY <1>5 DEF Start, ghost
  <2>4. t.ver <= version
    BY <1>1, <1>2 DEF NoToken
  <2>5. Placed(r, version)
    BY <1>2, <2>1, <2>4 DEF Placed, Before
  <2>6. \A q \in Procs : Placed(rq'[q], version')
    BY <1>1, <2>2, <2>3, <2>5
  <2>7. op = "signout" => \A q \in Procs : rq[q].op # "signout"
    <3>1. ASSUME op = "signout", SignOuts = 1 PROVE SigningOut = {}
      <4>1. Cardinality(SigningOut) < 1
        BY <1>5, <3>1 DEF Start
      <4>2. IsFiniteSet(SigningOut)
        BY BoundsAssumption, FS_Subset DEF SigningOut
      <4>3. Cardinality(SigningOut) \in Nat
        BY <4>2, FS_CardinalityType
      <4>4. Cardinality(SigningOut) = 0
        BY <4>1, <4>3
      <4> QED
        BY <4>2, <4>4, FS_EmptySet
    <3>2. Alone => \A q \in Procs : rq[q].op # "signout"
      BY <1>5 DEF Start, Alone, PlacesOK
    <3> QED
      BY <3>1, <3>2 DEF SigningOut, Orderly
  <2>8. \A q, s \in Procs : rq'[q].op = "signout" /\ rq'[s].op = "signout" => q = s
    BY <1>1, <2>1, <2>2, <2>7
  <2> QED
    BY <1>1, <2>3, <2>6, <2>8
<1>6. ASSUME NEW i, CronCrash(i) PROVE Goal
  <2>1. UNCHANGED <<version, tokens, spent>> /\ \A p \in Procs : rq'[p] = Idle
    BY <1>6 DEF CronCrash, ghost
  <2>2. Placed(Idle, version)
    BY <1>2, DefaultsTyped DEF Placed
  <2>3. \A p \in Procs : Placed(rq'[p], version') /\ rq'[p].op # "signout"
    BY <2>1, <2>2, DefaultsTyped
  <2> QED
    BY <1>1, <2>1, <2>3
<1>7. ASSUME NEW i, NEW row, CronScan \/ CronDelete(i) \/ Expire(row) PROVE Goal
  BY <1>3, <1>7 DEF CronScan, CronDelete, Expire, ghost
<1> QED
  BY <1>3, <1>4, <1>5, <1>6, <1>7 DEF Next, vars, ghost

-----------------------------------------------------------------------------
(* Logins that were ended, with one request at a time. *)

\* What EndedOK says of a request that stands as r.
Fresh(r) ==
    /\ r.at \in RefreshLabels \/ r.then = "r_exists" => r.tok \in tokens
    /\ r.at # "guard" => r.tok.sess \notin ended
    /\ r.op = "signout" /\ r.at \notin Before /\ r.saved => \A t \in tokens : t.ver < version

\* ... and of the logins themselves.
LoginsOK ==
    /\ \A s \in ended : 0 < s /\ s < nextSess
    /\ \A t \in tokens : 0 < t.sess /\ t.sess < nextSess /\ (t.sess \in ended => t.ver < version)

LEMMA EndedForm == EndedOK <=> (Alone => LoginsOK /\ \A p \in Procs : Fresh(rq[p]))
BY DEF EndedOK, LoginsOK, Fresh, At, Before

\* Only the guard leads to the labels of a refresh.
LEMMA RefreshOnly ==
    ASSUME TypeOK, NEW p \in Procs, Step(p) \/ SaveFails(p) \/ CallThrows(p),
           rq'[p].at \in RefreshLabels \/ rq'[p].then = "r_exists"
    PROVE  rq[p].at \in RefreshLabels \/ rq[p].then = "r_exists"
<1>1. rq[p] \in Request
  BY DEF TypeOK
<1>2. \A q : Become(p, q) => rq'[p] = q
  BY DEF Become, TypeOK
<1>3. CASE Guard(p)
  BY <1>3 DEF Guard, At, RefreshLabels
<1>4. CASE ReadUser(p)
  BY <1>1, <1>2, <1>4 DEF ReadUser, GetDevice, At, Request, RefreshLabels
<1>5. CASE DeviceStep(p)
  <2>1. /\ rq'[p].then \in {rq[p].then, "idle", "s_find"}
        /\ rq'[p].at \in {"idle", "l_log", "d_touch", "d_new", "d_find", rq[p].then}
    <3>1. CASE DeviceFind(p)
      BY <1>1, <1>2, <3>1 DEF DeviceFind, Goto, Request
    <3>2. CASE DeviceTouch(p)
      BY <1>1, <1>2, <3>2, DefaultsTyped DEF DeviceTouch, AfterTouch, Rejected, GetDevice, Goto, Request
    <3>3. CASE DeviceNew(p)
      BY <1>1, <1>2, <3>3 DEF DeviceNew, Request
    <3> QED
      BY <1>5, <3>1, <3>2, <3>3 DEF DeviceStep
  <2> QED
    BY <1>1, <2>1 DEF RefreshLabels, Request, Returns
<1>6. CASE \/ LoginStep(p) \/ RefreshStep(p) \/ RemoveStep(p)
          \/ SignOutStep(p) \/ SaveFails(p) \/ CallThrows(p)
  BY <1>1, <1>2, <1>6, DefaultsTyped
  DEF LoginStep, LoginCheck, EmitSession, LogActivity, LoginIssue, RefreshStep, RefreshLookup,
      RefreshIssue, RemoveStep, FindDevice, DeleteDevice, SignOutStep, WriteVersion, FindStored,
      DeleteStored, SignedOut, SaveFails, CallThrows, Goto, Reply, GetDevice,
      Rejected, At, Request, RefreshLabels
<1> QED
  BY <1>3, <1>4, <1>5, <1>6 DEF Step

\* Nothing is issued and nothing ends: only the guard, and the write of a
\* sign-out, take a request to a place where more is asked of it.
LEMMA FreshKept ==
    ASSUME TypeOK, PlacesOK, LoginsOK, NEW p \in Procs, NEW r, Follows(p, r), Fresh(rq[p]),
           Step(p) \/ SaveFails(p) \/ CallThrows(p), ~WriteVersion(p)
    PROVE  Fresh(r)
<1>1. rq[p] \in Request /\ r \in Request /\ rq'[p] = r
  BY DEF TypeOK, Follows, Become
<1>2. CASE r = Idle
  BY <1>2, DefaultsTyped DEF Fresh, LoginsOK, Idle, NoToken, RefreshLabels
<1>3. CASE Continues(p, r)
  <2>1. r.at \in RefreshLabels \/ r.then = "r_exists" => r.tok \in tokens
    BY <1>1, <1>3, RefreshOnly DEF Continues, Fresh
  <2>2. ASSUME r.at # "guard" PROVE r.tok.sess \notin ended
    <3>1. CASE ~At(p, "guard")
      BY <1>3, <2>2, <3>1 DEF Continues, Fresh, At
    <3>2. CASE At(p, "guard")
      <4>1. ~CallThrows(p)
        <5>1. rq[p].then = "idle"
          BY <3>2 DEF PlacesOK, At
        <5> QED
          BY <1>1, <1>3, <5>1, DefaultsTyped DEF CallThrows, Rejected, Become, TypeOK, Continues
      <4>2. Guard(p)
        BY <3>2, <4>1
        DEF At, SaveFails, Step, DeviceStep, LoginStep, RefreshStep, SignOutStep, RemoveStep,
            ReadUser, DeviceFind, DeviceTouch, DeviceNew, LoginCheck, EmitSession, LogActivity,
            LoginIssue, RefreshLookup, RefreshIssue, WriteVersion, FindStored, DeleteStored,
            SignedOut, FindDevice, DeleteDevice
      <4>3. rq[p].tok.ver = version
        BY <1>1, <1>3, <4>2, DefaultsTyped DEF Guard, Reply, Become, TypeOK, Continues
      <4>4. r.tok = rq[p].tok /\ rq[p].tok \in tokens
        BY <1>3, <3>2 DEF Continues, Fresh, At, RefreshLabels
      <4> QED
        BY <4>3, <4>4 DEF LoginsOK, TypeOK
    <3> QED
      BY <3>1, <3>2
  <2>3. ASSUME r.op = "signout", r.at \notin Before, r.saved
        PROVE  \A t \in tokens : t.ver < version
    <3>1. rq[p].op = "signout" /\ rq[p].saved /\ rq[p].at \notin {"guard", "s_user"}
      BY <1>3, <2>3 DEF Continues
    <3>2. ~At(p, "s_write")
      <4>1. ~SaveFails(p)
        BY <1>1, <2>3 DEF SaveFails, Become, TypeOK, GetDevice, Request
      <4> QED
        BY <4>1
        DEF At, SaveFails, CallThrows, Step, DeviceStep, LoginStep, RefreshStep, SignOutStep,
            RemoveStep, Guard, ReadUser, DeviceFind, DeviceTouch, DeviceNew, LoginCheck,
            EmitSession, LogActivity, LoginIssue, RefreshLookup, RefreshIssue, FindStored,
            DeleteStored, SignedOut, FindDevice, DeleteDevice
    <3> QED
      BY <3>1, <3>2 DEF Fresh, Before, At
  <2> QED
    BY <2>1, <2>2, <2>3 DEF Fresh
<1> QED
  BY <1>2, <1>3 DEF Follows

LEMMA StepEnded ==
    TypeOK /\ PlacesOK /\ VersionsOK /\ EndedOK /\ [Next]_vars => EndedOK'
<1> SUFFICES ASSUME TypeOK, PlacesOK, VersionsOK, EndedOK, [Next]_vars, Alone
             PROVE  LoginsOK' /\ \A p \in Procs : Fresh(rq[p])'
  BY DEF EndedOK, LoginsOK, Fresh, At, Before, Alone
<1>1. LoginsOK /\ \A p \in Procs : Fresh(rq[p])
  BY EndedForm
<1>2. /\ \A t \in tokens : t.ver <= version
      /\ \A p \in Procs : Placed(rq[p], version)
  BY VersionsForm DEF Orderly
<1>3. version \in Nat /\ tokens \subseteq Token /\ nextSess \in Nat /\ ended \subseteq Nat
  BY DEF TypeOK
<1>4. CASE UNCHANGED <<version, tokens, nextSess, ended, rq>>
  BY <1>1, <1>4 DEF LoginsOK, Fresh
<1>5. ASSUME NEW p \in Procs, Step(p) \/ SaveFails(p) \/ CallThrows(p)
      PROVE  LoginsOK' /\ \A q \in Procs : Fresh(rq[q])'
  <2>1. PICK r : Follows(p, r)
    BY <1>5, StepFollows
  <2>2. rq'[p] = r /\ (\A q \in Procs : q = p) /\ rq[p] \in Request /\ r \in Request
    BY <2>1 DEF Follows, Become, TypeOK, Alone
  <2>3. CASE LoginIssue(p) \/ RefreshIssue(p) \/ SignedOut(p)
    <3>1. r = Idle /\ version' = version
      BY <2>2, <2>3 DEF LoginIssue, RefreshIssue, SignedOut, Reply, Become, TypeOK
    <3>2. 0 \notin ended' => Fresh(rq[p])'
      BY <2>2, <3>1, DefaultsTyped DEF Fresh, Idle, NoToken, RefreshLabels
    <3>3. CASE LoginIssue(p)
      <4>1. /\ tokens' = tokens \cup {[ver |-> rq[p].ver, sess |-> nextSess]}
            /\ nextSess' = nextSess + 1 /\ ended' = ended
        BY <3>3 DEF LoginIssue, ghost
      <4>2. nextSess \notin ended
        BY <1>1, <1>3 DEF LoginsOK
      <4>3. ASSUME NEW t \in tokens'
            PROVE  0 < t.sess /\ t.sess < nextSess' /\ (t.sess \in ended' => t.ver < version')
        <5>1. CASE t \in tokens
          BY <1>1, <1>3, <3>1, <4>1, <5>1 DEF LoginsOK, Token
        <5>2. CASE t = [ver |-> rq[p].ver, sess |-> nextSess]
          <6>1. t.sess = nextSess
            BY <5>2
          <6> QED
            BY <1>3, <4>1, <4>2, <6>1 DEF TypeOK
        <5> QED
          BY <4>1, <5>1, <5>2
      <4>4. LoginsOK'
        <5>1. nextSess' = nextSess + 1 /\ ended' = ended
          BY <4>1
        <5>2. \A s \in ended' : 0 < s /\ s < nextSess'
          BY <1>1, <1>3, <5>1 DEF LoginsOK
        <5> QED
          BY <4>3, <5>2 DEF LoginsOK
      <4> QED
        BY <2>2, <3>2, <4>4 DEF LoginsOK
    <3>4. CASE RefreshIssue(p)
      <4>1. /\ tokens' \subseteq tokens \cup {[ver |-> rq[p].ver, sess |-> rq[p].tok.sess]}
            /\ nextSess' = nextSess /\ ended' = ended
        BY <3>4 DEF RefreshIssue, ghost
      <4>2. tokens' = tokens \/ (rq[p].tok.sess \notin ended /\ 0 < rq[p].tok.sess /\ rq[p].tok.sess < nextSess)
        BY <1>1, <3>4 DEF RefreshIssue, At, Fresh, LoginsOK, RefreshLabels
      <4>3. ASSUME NEW t \in tokens'
            PROVE  0 < t.sess /\ t.sess < nextSess' /\ (t.sess \in ended' => t.ver < version')
        <5>1. CASE t \in tokens
          BY <1>1, <3>1, <4>1, <5>1 DEF LoginsOK
        <5>2. CASE t \notin tokens
          <6>1. t.sess = rq[p].tok.sess
            BY <4>1, <5>2
          <6> QED
            BY <4>1, <4>2, <5>2, <6>1
        <5> QED
          BY <5>1, <5>2
      <4>4. LoginsOK'
        BY <1>1, <4>1, <4>3 DEF LoginsOK
      <4> QED
        BY <2>2, <3>2, <4>4 DEF LoginsOK
    <3>5. CASE SignedOut(p)
      <4>1. tokens' = tokens /\ nextSess' = nextSess
        BY <3>5 DEF SignedOut
      <4>2. CASE ended' = ended
        BY <1>1, <2>2, <3>1, <3>2, <4>1, <4>2 DEF LoginsOK
      <4>3. CASE ended' # ended
        <5>1. rq[p].saved /\ ended' = ended \cup {t.sess : t \in {u \in tokens : u.ver <= rq[p].ver}}
          BY <3>5, <4>3 DEF SignedOut, ghost
        <5>2. \A t \in tokens : t.ver < version
          BY <1>1, <3>5, <5>1 DEF Fresh, SignedOut, At, PlacesOK, SignOutLabels, Before
        <5>3. \A s \in ended' : 0 < s /\ s < nextSess'
          BY <1>1, <4>1, <5>1 DEF LoginsOK
        <5>4. LoginsOK'
          BY <1>1, <3>1, <4>1, <5>2, <5>3 DEF LoginsOK
        <5> QED
          BY <2>2, <3>2, <5>4 DEF LoginsOK
      <4> QED
        BY <4>2, <4>3
    <3> QED
      BY <2>3, <3>3, <3>4, <3>5
  <2>4. CASE WriteVersion(p)
    <3>1. UNCHANGED <<tokens, nextSess, ended>>
      BY <2>4 DEF WriteVersion, ghost
    <3>2. version' = version + 1
      BY <1>2, <2>1, <2>4, PlacedBySave
    <3>3. \A t \in tokens' : t.ver < version'
      BY <1>2, <1>3, <3>1, <3>2 DEF Token
    <3>4. LoginsOK'
      BY <1>1, <3>1, <3>3 DEF LoginsOK
    <3>5. /\ rq[p].at # "guard" /\ r.at \notin RefreshLabels /\ r.then # "r_exists"
          /\ r.tok = rq[p].tok
      BY <2>2, <2>4 DEF WriteVersion, At, Become, TypeOK, GetDevice, Request, RefreshLabels
    <3>6. Fresh(rq[p])'
      BY <1>1, <2>2, <3>1, <3>3, <3>5 DEF Fresh, RefreshLabels
    <3> QED
      BY <2>2, <3>4, <3>6
  <2>5. CASE ~(LoginIssue(p) \/ RefreshIssue(p) \/ SignedOut(p) \/ WriteVersion(p))
    <3>1. UNCHANGED <<version, tokens, nextSess, ended>>
      BY <1>5, <2>5, QuietSteps
      DEF Step, DeviceStep, LoginStep, RefreshStep, SignOutStep, RemoveStep,
          DeviceNew, DeleteStored, DeleteDevice, ghost
    <3>2. Fresh(r)
      BY <1>1, <1>5, <2>1, <2>5, FreshKept
    <3>3. Fresh(rq[p])'
      BY <2>2, <3>1, <3>2 DEF Fresh
    <3> QED
      BY <1>1, <2>2, <3>1, <3>3 DEF LoginsOK
  <2> QED
    BY <2>3, <2>4, <2>5
<1>6. ASSUME NEW p \in Procs, NEW op \in AllOps, NEW t \in tokens \cup {NoToken},
             NEW f \in Prints, NEW aim \in 0..(nextDevice - 1), Start(p, op, t, f, aim)
      PROVE  LoginsOK' /\ \A q \in Procs : Fresh(rq[q])'
  <2>1. PICK r \in Request : /\ Become(p, r)
                             /\ r.op = op /\ r.tok = t /\ r.then = "idle"
                             /\ r.at = IF op = "login" THEN "l_user" ELSE "guard"
    BY <1>6, StartFollows
  <2>2. rq'[p] = r /\ \A q \in Procs : q = p
    BY <2>1 DEF Become, TypeOK, Alone
  <2>3. UNCHANGED <<version, tokens, nextSess, ended>> /\ (IF op = "login" THEN t = NoToken ELSE t \in tokens)
    BY <1>6 DEF Start, ghost
  <2>4. Fresh(rq[p])'
    BY <1>1, <2>1, <2>2, <2>3 DEF Fresh, Before, LoginsOK, NoToken, RefreshLabels
  <2> QED
    BY <1>1, <2>2, <2>3, <2>4 DEF LoginsOK
<1>7. ASSUME NEW i, CronCrash(i) PROVE LoginsOK' /\ \A q \in Procs : Fresh(rq[q])'
  BY <1>1, <1>7, DefaultsTyped DEF CronCrash, ghost, LoginsOK, Fresh, Idle, NoToken, RefreshLabels
<1>8. ASSUME NEW i, NEW row, CronScan \/ CronDelete(i) \/ Expire(row)
      PROVE  LoginsOK' /\ \A q \in Procs : Fresh(rq[q])'
  BY <1>4, <1>8 DEF CronScan, CronDelete, Expire, ghost
<1> QED
  BY <1>4, <1>5, <1>6, <1>7, <1>8 DEF Next, vars, ghost

LEMMA InitInvariant == Init => IInv
<1> SUFFICES ASSUME Init PROVE IInv
  OBVIOUS
<1>1. TypeOK /\ PlacesOK
  BY InitTyped
<1>2. ASSUME NEW f \in Prints
      PROVE  Cardinality(DevicesLike(f)) + Cardinality(Inserting(f)) <= Cardinality(Procs)
  <2>1. DevicesLike(f) = {} /\ Inserting(f) = {}
    BY DefaultsTyped DEF Init, DevicesLike, Inserting, At
  <2> QED
    BY <1>1, <2>1, FS_EmptySet, SetsFinite DEF TypeOK
<1>3. VersionsOK
  BY DefaultsTyped DEF Init, VersionsOK, SignOutPlaced, SigningOut
<1>4. EndedOK
  BY DefaultsTyped DEF Init, EndedOK, At, Idle, RefreshLabels
<1> QED
  BY <1>1, <1>2, <1>3, <1>4 DEF IInv, LikeOrComingBounded

\* The inductive invariant: types, places, the bound on rows there or coming,
\* and, for orderly sign-outs, how the versions of tokens stand to the user's; for
\* requests one at a time, what became of the logins that were ended.
THEOREM InductiveInvariant == Spec => []IInv
<1>1. IInv /\ [Next]_vars => IInv'
  BY StepTyped, StepBound, StepVersions, StepEnded DEF IInv
<1> QED
  BY <1>1, InitInvariant, PTL DEF Spec

\* For any number of requests and devices, with faults and with crashes of the
\* process: a device has no more rows than requests run at once.
THEOREM DeviceRowsBounded == Spec => []DevicesBounded
<1>1. IInv => DevicesBounded
  BY SetsFinite DEF IInv, TypeOK, LikeOrComingBounded, DevicesBounded
<1> QED
  BY <1>1, InductiveInvariant, PTL

\* Sign-outs one at a time: a token whose sign-out was saved is refused for ever,
\* whatever else runs or fails.
THEOREM OrderlySignOutEndsToken ==
    ASSUME Orderly
    PROVE  Spec => []TokensEnd
<1>1. IInv => TokensEnd
  BY VersionsForm DEF IInv, TypeOK, TokensEnd, Valid, Token
<1> QED
  BY <1>1, InductiveInvariant, PTL

\* Requests one at a time: a sign-out that was saved ends its login, whatever calls
\* fail and whenever the process dies. No token of it, and none refreshed from
\* one, is let through again.
THEOREM SignOutEndsSession ==
    ASSUME Alone
    PROVE  Spec => []SessionsEnd
<1>1. IInv => SessionsEnd
  BY EndedForm DEF IInv, TypeOK, SessionsEnd, Valid, Token, LoginsOK
<1> QED
  BY <1>1, InductiveInvariant, PTL
=============================================================================
