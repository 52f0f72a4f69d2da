--------------------------- MODULE AccountProofs ---------------------------
(***************************************************************************)
(* What a registration that was answered a success leaves behind, that a   *)
(* first login activates, and that every step of every request is one that *)
(* Lifecycle allows.                                                       *)
(***************************************************************************)
EXTENDS Account, TLAPS

LEMMA DefaultsTyped ==
    /\ Idle \in Request /\ Idle.at = "idle" /\ Idle.id = NoId
    /\ \A there \in {"no", "yes", "gone"} : Blank(there) \in Row /\ Blank(there).there = there
BY DEF Idle, Request, Labels, AllOps, Blank, Row

LEMMA IdleOK == RequestOK(Idle)
BY AccountAssumption, DefaultsTyped
   DEF Idle, RequestOK, Belongs, Names, Progress, Opened, Activated, Leaving, Live, Unnamed

-----------------------------------------------------------------------------
(* What a request knows of its account outlives what others do to it. *)

\* A row that stays in use loses nothing but the address.
Grows(a, b) ==
    /\ a.there = "yes" /\ b.there = "yes"
    /\ a.role => b.role
    /\ a.setting => b.setting
    /\ a.method => b.method
    /\ a.link => b.link
    /\ a.loose => b.loose
    /\ a.two => b.two
    /\ a.active => b.active

\* Row b may follow row a.
Follows(a, b) == b = a \/ Grows(a, b) \/ (a.there = "yes" /\ b.there = "gone") \/ (a.there = "no" /\ b.there = "yes")

LEMMA OthersKeep ==
    ASSUME TypeOK, NEW q \in Procs, rq'[q] = rq[q], RequestOK(rq[q]), archive \subseteq archive',
           \A i \in Ids : Follows(users[i], users'[i])
    PROVE  RequestOK(rq[q])'
<1>1. rq[q] \in Request /\ rq'[q] = rq[q]
  BY DEF TypeOK
<1>2. rq[q].id \in Ids \/ rq[q].id = NoId
  BY <1>1 DEF Request
<1>3. Belongs(rq[q])'
  BY DEF RequestOK, Belongs
<1>4. Names(rq[q])'
  BY <1>1, <1>2, AccountAssumption DEF RequestOK, Names, Follows, Grows
<1>5. Live(rq[q].id)' =>
        /\ Live(rq[q].id)
        /\ users'[rq[q].id] = users[rq[q].id] \/ Grows(users[rq[q].id], users'[rq[q].id])
  <2>1. SUFFICES ASSUME rq[q].id \in Ids, users'[rq[q].id].there = "yes"
                 PROVE  /\ users[rq[q].id].there = "yes"
                        /\ users'[rq[q].id] = users[rq[q].id] \/ Grows(users[rq[q].id], users'[rq[q].id])
    BY <1>1 DEF Live
  <2>2. Follows(users[rq[q].id], users'[rq[q].id])
    BY <2>1
  <2>3. users[rq[q].id].there # "no"
    BY <2>1, AccountAssumption DEF RequestOK, Names
  <2> QED
    BY <2>1, <2>2, <2>3 DEF Follows, Grows
<1>6. Progress(rq[q])'
  BY <1>1, <1>5 DEF RequestOK, Progress, Opened, Grows
<1>7. Activated(rq[q])'
  BY <1>1, <1>5 DEF RequestOK, Activated, Grows
<1>8. Leaving(rq[q])'
  BY <1>1, <1>5 DEF RequestOK, Leaving, Grows
<1> QED
  BY <1>3, <1>4, <1>6, <1>7, <1>8 DEF RequestOK

\* A step of request p that leaves it in good order leaves all in good order.
LEMMA RequestsKeep ==
    ASSUME TypeOK, RequestsOK, NEW p \in Procs, NEW r \in Request, Become(p, r), RequestOK(rq[p])',
           archive \subseteq archive', \A i \in Ids : Follows(users[i], users'[i])
    PROVE  RequestsOK' /\ rq' \in [Procs -> Request] /\ rq'[p] = r
<1>1. rq \in [Procs -> Request]
  BY DEF TypeOK
<1>2. rq' \in [Procs -> Request] /\ rq'[p] = r
  BY <1>1 DEF Become
<1>3. ASSUME NEW q \in Procs PROVE RequestOK(rq[q])'
  <2>1. CASE q = p
    BY <2>1
  <2>2. CASE q # p
    <3>1. rq'[q] = rq[q]
      BY <1>1, <2>2 DEF Become
    <3> QED
      BY <3>1, OthersKeep DEF RequestsOK
  <2> QED
    BY <2>1, <2>2
<1> QED
  BY <1>2, <1>3 DEF RequestsOK

-----------------------------------------------------------------------------
(* Steps by what they change. *)

\* Steps that change no table.
LEMMA QuietStep ==
    ASSUME IInv, NEW p \in Procs, NEW r \in Request, Become(p, r), RequestOK(r),
           UNCHANGED <<users, archive, tokens, answered>>
    PROVE  IInv'
<1>1. rq'[p] = r
  BY DEF Become, IInv, TypeOK
<1>2. RequestOK(rq[p])'
  BY <1>1 DEF RequestOK, Belongs, Names, Progress, Opened, Activated, Leaving, Live
<1>3. RequestsOK' /\ rq' \in [Procs -> Request]
  <2>1. \A i \in Ids : Follows(users[i], users'[i])
    BY DEF Follows
  <2> QED
    BY <1>2, <2>1, RequestsKeep DEF IInv
<1>4. TypeOK'
  BY <1>3 DEF IInv, TypeOK
<1> QED
  BY <1>3, <1>4 DEF IInv, OneHolder, RowsOK, RecordsOK, RegisteredIsComplete, FirstLoginActivates, Live, Furnished

LEMMA ReplyQuiet ==
    ASSUME IInv, NEW p \in Procs, Reply(p), UNCHANGED <<users, archive, tokens, answered>>
    PROVE  IInv'
BY DefaultsTyped, IdleOK, QuietStep DEF Reply

\* Steps that write columns of a row in use, or insert a row that refers to it.
LEMMA WritingStep ==
    ASSUME IInv, NEW p \in Procs, NEW r \in Request, Become(p, r), RequestOK(rq[p])',
           NEW i \in Ids, NEW row \in Row, SetRow(i, row), Grows(users[i], row),
           row.here => users[i].here \/ ~Held,
           row.seen => users[i].seen \/ row.active \/ row.loose,
           tokens' = tokens \/ tokens' = tokens \cup {i}, UNCHANGED <<archive, answered>>
    PROVE  IInv'
<1>1. users' \in [Ids -> Row] /\ users'[i] = row /\ \A j \in Ids : j # i => users'[j] = users[j]
  BY DEF SetRow, IInv, TypeOK
<1>2. RequestsOK' /\ rq' \in [Procs -> Request]
  <2>1. \A j \in Ids : Follows(users[j], users'[j])
    BY <1>1 DEF Follows
  <2> QED
    BY <2>1, RequestsKeep DEF IInv
<1>3. TypeOK'
  BY <1>1, <1>2 DEF IInv, TypeOK
<1>4. Live(i) /\ Live(i)' /\ \A j \in Ids : j # i => (Live(j)' <=> Live(j))
  BY <1>1 DEF Live, Grows
<1>5. OneHolder'
  BY <1>1, <1>4 DEF IInv, OneHolder, Held, Live
<1>6. RowsOK'
  BY <1>1, <1>4 DEF IInv, RowsOK
<1>7. RecordsOK'
  <2>1. \A j \in Ids : users'[j].there = users[j].there /\ (users[j].role => users'[j].role)
    BY <1>1 DEF Grows
  <2>2. users[i].there # "no" /\ answered \subseteq Ids /\ archive \subseteq Ids /\ tokens \subseteq Ids
    BY DEF Grows, IInv, TypeOK
  <2> QED
    BY <2>1, <2>2 DEF IInv, RecordsOK, Live
<1>8. RegisteredIsComplete'
  BY <1>1, <1>4 DEF IInv, RegisteredIsComplete, Furnished, Grows, TypeOK
<1>9. FirstLoginActivates'
  BY <1>1 DEF IInv, FirstLoginActivates, Grows
<1> QED
  BY <1>2, <1>3, <1>5, <1>6, <1>7, <1>8, <1>9 DEF IInv

-----------------------------------------------------------------------------
(* The actions. *)

LEMMA GotoQuiet ==
    ASSUME IInv, NEW p \in Procs, NEW l \in Labels, Goto(p, l), RequestOK([rq[p] EXCEPT !.at = l]),
           UNCHANGED <<users, archive, tokens, answered>>
    PROVE  IInv'
<1>1. [rq[p] EXCEPT !.at = l] \in Request
  BY DEF IInv, TypeOK, Request
<1> QED
  BY <1>1, QuietStep DEF Goto

\* What IInv says of a request and of the account it names.
LEMMA RequestFacts ==
    ASSUME IInv, NEW p \in Procs
    PROVE  /\ rq[p] \in Request /\ RequestOK(rq[p])
           /\ rq[p].id \in Ids \/ rq[p].id = NoId
           /\ \A i \in Ids : users[i] \in Row
           /\ NoId \notin Ids
BY AccountAssumption DEF IInv, TypeOK, Request, RequestsOK

LEMMA ArriveKeeps ==
    ASSUME IInv, NEW p \in Procs, NEW op \in Ops, NEW i \in Ids \cup {NoId}, Arrive(p, op, i)
    PROVE  IInv'
<1> DEFINE r == [Idle EXCEPT !.at = Entry[op], !.op = op, !.id = i]
<1>1. op \in AllOps
  BY AccountAssumption
<1>2. r \in Request /\ r.at = Entry[op] /\ r.op = op /\ r.id = i
  <2>1. Entry[op] \in Labels
    BY <1>1 DEF Labels, AllOps, Entry
  <2> QED
    BY <1>1, <2>1 DEF Idle, Request
<1>3. Entry[op] = "guard" => i \in Ids /\ users[i].there # "no"
  BY DEF Arrive, IInv, TypeOK, RecordsOK
<1>4. i = NoId \/ (i \in Ids /\ Entry[op] = "guard")
  BY <1>3 DEF Arrive
<1>5. RequestOK(r)
  BY <1>1, <1>2, <1>3, <1>4, AccountAssumption
     DEF Entry, AllOps, RequestOK, Belongs, Names, Progress, Opened, Activated, Leaving, Live, Unnamed
<1> QED
  BY <1>2, <1>5, QuietStep DEF Arrive

LEMMA GuardKeeps == ASSUME IInv, NEW p \in Procs, Guard(p) PROVE IInv'
<1> USE RequestFacts
<1>1. CASE Reply(p)
  BY <1>1, ReplyQuiet DEF Guard
<1>2. ASSUME NEW l \in {"p_find", "g_role"}, l = "p_find" <=> rq[p].op = "reset", Live(rq[p].id), Goto(p, l)
      PROVE  IInv'
  <2>1. RequestOK([rq[p] EXCEPT !.at = l])
    BY <1>2 DEF Guard, At, Request, RequestOK, Belongs, Names, Progress, Opened, Activated, Leaving, Live, Unnamed
  <2> QED
    BY <1>2, <2>1, GotoQuiet DEF Guard, Labels
<1> QED
  BY <1>1, <1>2 DEF Guard

LEMMA ReadCodesKeeps == ASSUME IInv, NEW p \in Procs, ReadCodes(p) PROVE IInv'
<1> USE RequestFacts
<1>1. CASE Reply(p)
  BY <1>1, ReplyQuiet DEF ReadCodes
<1>2. CASE Goto(p, "r_create")
  <2>1. RequestOK([rq[p] EXCEPT !.at = "r_create"])
    BY DEF ReadCodes, At, Request, RequestOK, Belongs, Names, Progress, Opened, Activated, Leaving, Live, Unnamed
  <2> QED
    BY <1>2, <2>1, GotoQuiet DEF ReadCodes, Labels
<1> QED
  BY <1>1, <1>2 DEF ReadCodes

LEMMA FindLinkKeeps == ASSUME IInv, NEW p \in Procs, FindLink(p) PROVE IInv'
<1> USE RequestFacts
<1>1. ASSUME NEW i \in Ids, users[i].link, Become(p, [rq[p] EXCEPT !.at = "log", !.id = i])
      PROVE  IInv'
  <2> DEFINE r == [rq[p] EXCEPT !.at = "log", !.id = i]
  <2>1. r \in Request /\ r.at = "log" /\ r.id = i /\ r.op = "google"
    BY DEF Request, Labels, FindLink, At, RequestOK, Belongs
  <2>2. users[i].there # "no"
    <3>1. Live(i) \/ users[i] = Blank(users[i].there)
      BY DEF IInv, RowsOK
    <3>2. Blank(users[i].there).link = FALSE
      BY DEF Blank
    <3> QED
      BY <1>1, <3>1, <3>2 DEF Live
  <2>3. Belongs(r) /\ Names(r)
    BY <2>1, <2>2 DEF Belongs, Names, Unnamed
  <2>4. Progress(r) /\ Activated(r) /\ Leaving(r)
    <3> HIDE DEF r
    <3>1. ~Opened(r) /\ Activated(r) /\ Leaving(r)
      BY <2>1 DEF Opened, Activated, Leaving
    <3>2. users[r.id].link
      BY <1>1, <2>1
    <3> QED
      BY <2>1, <3>1, <3>2 DEF Progress
  <2> QED
    BY <1>1, <2>1, <2>3, <2>4, QuietStep DEF FindLink, RequestOK
<1>2. CASE Goto(p, "s_create")
  <2>1. RequestOK([rq[p] EXCEPT !.at = "s_create"])
    BY DEF FindLink, At, Request, RequestOK, Belongs, Names, Progress, Opened, Activated, Leaving, Live, Unnamed
  <2> QED
    BY <1>2, <2>1, GotoQuiet DEF FindLink, Labels
<1> QED
  BY <1>1, <1>2 DEF FindLink

LEMMA FindLoginKeeps == ASSUME IInv, NEW p \in Procs, FindLogin(p) PROVE IInv'
<1> USE RequestFacts
<1>1. CASE Reply(p)
  BY <1>1, ReplyQuiet DEF FindLogin
<1>2. ASSUME NEW i \in Ids, Live(i), Become(p, [rq[p] EXCEPT !.at = "l_method", !.id = i, !.first = ~users[i].seen])
      PROVE  IInv'
  <2> DEFINE r == [rq[p] EXCEPT !.at = "l_method", !.id = i, !.first = ~users[i].seen]
  <2>1. r \in Request /\ r.at = "l_method" /\ r.id = i /\ r.first = ~users[i].seen /\ r.op = rq[p].op
    BY DEF Request, Labels
  <2>2. Activated(r)
    BY <2>1 DEF Activated, IInv, FirstLoginActivates
  <2>3. RequestOK(r)
    BY <1>2, <2>1, <2>2 DEF FindLogin, At, RequestOK, Belongs, Names, Progress, Opened, Leaving, Live, Unnamed
  <2> QED
    BY <1>2, <2>1, <2>3, QuietStep DEF FindLogin
<1> QED
  BY <1>1, <1>2 DEF FindLogin

LEMMA CheckLoginCodeKeeps == ASSUME IInv, NEW p \in Procs, CheckLoginCode(p) PROVE IInv'
<1> USE RequestFacts
<1>1. CASE Reply(p)
  BY <1>1, ReplyQuiet DEF CheckLoginCode
<1>2. CASE Admit(p)
  <2>1. ASSUME NEW l \in {"l_act", "l_seen"}, Goto(p, l), l = "l_act" <=> rq[p].first PROVE IInv'
    <3>1. RequestOK([rq[p] EXCEPT !.at = l])
      BY <2>1 DEF CheckLoginCode, At, Request, RequestOK, Belongs, Names, Progress, Opened, Activated, Leaving, Live, Unnamed
    <3> QED
      BY <2>1, <3>1, GotoQuiet DEF CheckLoginCode, Labels
  <2> QED
    BY <1>2, <2>1 DEF Admit
<1> QED
  BY <1>1, <1>2 DEF CheckLoginCode

LEMMA FindForPasswordKeeps == ASSUME IInv, NEW p \in Procs, FindForPassword(p) PROVE IInv'
<1> USE RequestFacts
<1>1. CASE Reply(p)
  BY <1>1, ReplyQuiet DEF FindForPassword
<1>2. ASSUME NEW i \in Ids, Live(i), Become(p, [rq[p] EXCEPT !.at = "p_method", !.id = i, !.first = users[i].pass])
      PROVE  IInv'
  <2> DEFINE r == [rq[p] EXCEPT !.at = "p_method", !.id = i, !.first = users[i].pass]
  <2>1. r \in Request /\ r.at = "p_method" /\ r.id = i /\ r.op = rq[p].op
    BY DEF Request, Labels, Row
  <2>2. RequestOK(r)
    BY <1>2, <2>1 DEF FindForPassword, At, RequestOK, Belongs, Names, Progress, Opened, Activated, Leaving, Live, Unnamed
  <2> QED
    BY <1>2, <2>1, <2>2, QuietStep DEF FindForPassword
<1> QED
  BY <1>1, <1>2 DEF FindForPassword

LEMMA CheckPasswordCodeKeeps == ASSUME IInv, NEW p \in Procs, CheckPasswordCode(p) PROVE IInv'
<1> USE RequestFacts
<1>1. CASE Reply(p)
  BY <1>1, ReplyQuiet DEF CheckPasswordCode
<1>2. CASE Goto(p, "p_write")
  <2>1. RequestOK([rq[p] EXCEPT !.at = "p_write"])
    BY DEF CheckPasswordCode, At, Request, RequestOK, Belongs, Names, Progress, Opened, Activated, Leaving, Live, Unnamed
  <2> QED
    BY <1>2, <2>1, GotoQuiet DEF CheckPasswordCode, Labels
<1> QED
  BY <1>1, <1>2 DEF CheckPasswordCode, MayWritePassword

LEMMA RoleGuardKeeps == ASSUME IInv, NEW p \in Procs, RoleGuard(p) PROVE IInv'
<1> USE RequestFacts
<1>1. CASE Reply(p)
  BY <1>1, ReplyQuiet DEF RoleGuard
<1>2. CASE Mine(p).role /\ Goto(p, AfterGuards(rq[p]))
  <2>1. ASSUME NEW l \in {"u_write", "d_read"}, Goto(p, l), l = "u_write" <=> rq[p].op = "patch" PROVE IInv'
    <3>1. RequestOK([rq[p] EXCEPT !.at = l])
      BY <1>2, <2>1 DEF RoleGuard, At, Mine, Request, RequestOK, Belongs, Names, Progress, Opened, Activated, Leaving, Live, Unnamed
    <3> QED
      BY <2>1, <3>1, GotoQuiet DEF RoleGuard, Labels
  <2> QED
    BY <1>2, <2>1 DEF AfterGuards
<1> QED
  BY <1>1, <1>2 DEF RoleGuard

LEMMA ReadForDeleteKeeps == ASSUME IInv, NEW p \in Procs, ReadForDelete(p) PROVE IInv'
<1> USE RequestFacts
<1>1. CASE Reply(p)
  BY <1>1, ReplyQuiet DEF ReadForDelete
<1>2. CASE Live(rq[p].id) /\ Goto(p, "d_archive")
  <2>1. RequestOK([rq[p] EXCEPT !.at = "d_archive"])
    BY <1>2 DEF ReadForDelete, At, Request, RequestOK, Belongs, Names, Progress, Opened, Activated, Leaving, Live, Unnamed
  <2> QED
    BY <1>2, <2>1, GotoQuiet DEF ReadForDelete, Labels
<1> QED
  BY <1>1, <1>2 DEF ReadForDelete

LEMMA CallThrowsKeeps == ASSUME IInv, NEW p \in Procs, CallThrows(p) PROVE IInv'
BY ReplyQuiet DEF CallThrows

\* A row of request p's account is written and the request goes on to l.
LEMMA WriteAndGo ==
    ASSUME IInv, NEW p \in Procs, NEW l \in Labels, Goto(p, l), Live(rq[p].id),
           NEW row \in Row, SetRow(rq[p].id, row), Grows(Mine(p), row),
           row.here => Mine(p).here \/ ~Held,
           row.seen => Mine(p).seen \/ row.active \/ row.loose,
           users'[rq[p].id] = row /\ rq'[p] = [rq[p] EXCEPT !.at = l] => RequestOK(rq[p])',
           UNCHANGED <<archive, tokens, answered>>
    PROVE  IInv'
<1>1. rq[p].id \in Ids
  BY DEF Live
<1>2. users'[rq[p].id] = row /\ rq'[p] = [rq[p] EXCEPT !.at = l]
  BY <1>1 DEF SetRow, Goto, Become, IInv, TypeOK
<1>3. [rq[p] EXCEPT !.at = l] \in Request
  BY DEF IInv, TypeOK, Request
<1> QED
  BY <1>1, <1>2, <1>3, WritingStep DEF Goto, Mine

LEMMA FurnishKeeps == ASSUME IInv, NEW p \in Procs, Furnish(p) PROVE IInv'
<1> USE RequestFacts
<1>1. CASE Reply(p) /\ UNCHANGED users
  BY <1>1, ReplyQuiet DEF Furnish
<1>2. CASE Live(rq[p].id)
  <2> DEFINE a == Mine(p)
  <2>1. a \in Row /\ a.there = "yes" /\ rq[p].id \in Ids
    BY <1>2 DEF Live, Mine
  <2>2. CASE At(p, "r_grant")
    <3> DEFINE b == [a EXCEPT !.role = TRUE]
    <3>1. b \in Row /\ Grows(a, b) /\ b.here = a.here /\ b.seen = a.seen /\ b.role
      BY <2>1 DEF Row, Grows
    <3>2. SetRow(rq[p].id, b) /\ Goto(p, "r_setting")
      BY <1>2, <2>2 DEF Furnish, Written, At
    <3>3. users'[rq[p].id] = b /\ rq'[p] = [rq[p] EXCEPT !.at = "r_setting"] => RequestOK(rq[p])'
      <4>1. SUFFICES ASSUME users'[rq[p].id] = b, rq'[p] = [rq[p] EXCEPT !.at = "r_setting"]
                     PROVE  RequestOK(rq[p])'
        OBVIOUS
      <4>2. rq'[p].at = "r_setting" /\ rq'[p].id = rq[p].id /\ rq'[p].op = "register"
        BY <2>2, <4>1 DEF At, Request, RequestOK, Belongs
      <4>3. Belongs(rq[p])' /\ Names(rq[p])'
        BY <2>1, <3>1, <4>1, <4>2 DEF Belongs, Names, Unnamed, Grows
      <4>4. Progress(rq[p])' /\ Activated(rq[p])' /\ Leaving(rq[p])'
        BY <3>1, <4>1, <4>2 DEF Progress, Opened, Activated, Leaving
      <4> QED
        BY <4>3, <4>4 DEF RequestOK
    <3> QED
      BY <1>2, <3>1, <3>2, <3>3, WriteAndGo DEF Furnish, Labels
  <2>3. CASE At(p, "r_setting")
    <3> DEFINE b == [a EXCEPT !.setting = TRUE]
    <3>1. b \in Row /\ Grows(a, b) /\ b.here = a.here /\ b.seen = a.seen /\ b.setting
      BY <2>1 DEF Row, Grows
    <3>2. SetRow(rq[p].id, b) /\ Goto(p, "r_method")
      BY <1>2, <2>3 DEF Furnish, Written, At
    <3>3. users'[rq[p].id] = b /\ rq'[p] = [rq[p] EXCEPT !.at = "r_method"] => RequestOK(rq[p])'
      <4>1. SUFFICES ASSUME users'[rq[p].id] = b, rq'[p] = [rq[p] EXCEPT !.at = "r_method"]
                     PROVE  RequestOK(rq[p])'
        OBVIOUS
      <4>2. rq'[p].at = "r_method" /\ rq'[p].id = rq[p].id /\ rq'[p].op = "register"
        BY <2>3, <4>1 DEF At, Request, RequestOK, Belongs
      <4>3. Belongs(rq[p])' /\ Names(rq[p])'
        BY <2>1, <3>1, <4>1, <4>2 DEF Belongs, Names, Unnamed, Grows
      <4>4. Progress(rq[p])
        BY DEF RequestOK
      <4>5. Progress(rq[p])'
        BY <1>2, <2>3, <3>1, <4>1, <4>2, <4>4 DEF Progress, Opened, Grows, Mine, At
      <4>6. Activated(rq[p])' /\ Leaving(rq[p])'
        BY <4>2 DEF Activated, Leaving
      <4> QED
        BY <4>3, <4>5, <4>6 DEF RequestOK
    <3> QED
      BY <1>2, <3>1, <3>2, <3>3, WriteAndGo DEF Furnish, Labels
  <2>4. CASE At(p, "r_method")
    <3> DEFINE b == [a EXCEPT !.method = TRUE]
    <3>1. b \in Row /\ Grows(a, b) /\ b.here = a.here /\ b.seen = a.seen /\ b.method
      BY <2>1 DEF Row, Grows
    <3>2. SetRow(rq[p].id, b) /\ Goto(p, "r_two")
      BY <1>2, <2>4 DEF Furnish, Updated, At
    <3>3. users'[rq[p].id] = b /\ rq'[p] = [rq[p] EXCEPT !.at = "r_two"] => RequestOK(rq[p])'
      <4>1. SUFFICES ASSUME users'[rq[p].id] = b, rq'[p] = [rq[p] EXCEPT !.at = "r_two"]
                     PROVE  RequestOK(rq[p])'
        OBVIOUS
      <4>2. rq'[p].at = "r_two" /\ rq'[p].id = rq[p].id /\ rq'[p].op = "register"
        BY <2>4, <4>1 DEF At, Request, RequestOK, Belongs
      <4>3. Belongs(rq[p])' /\ Names(rq[p])'
        BY <2>1, <3>1, <4>1, <4>2 DEF Belongs, Names, Unnamed, Grows
      <4>4. Progress(rq[p])
        BY DEF RequestOK
      <4>5. Progress(rq[p])'
        BY <1>2, <2>4, <3>1, <4>1, <4>2, <4>4 DEF Progress, Opened, Grows, Mine, At
      <4>6. Activated(rq[p])' /\ Leaving(rq[p])'
        BY <4>2 DEF Activated, Leaving
      <4> QED
        BY <4>3, <4>5, <4>6 DEF RequestOK
    <3> QED
      BY <1>2, <3>1, <3>2, <3>3, WriteAndGo DEF Furnish, Labels
  <2>5. CASE At(p, "r_two")
    <3> DEFINE b == [a EXCEPT !.two = TRUE]
    <3>1. b \in Row /\ Grows(a, b) /\ b.here = a.here /\ b.seen = a.seen /\ b.two
      BY <2>1 DEF Row, Grows
    <3>2. SetRow(rq[p].id, b) /\ Goto(p, "log")
      BY <1>2, <2>5 DEF Furnish, Updated, At
    <3>3. users'[rq[p].id] = b /\ rq'[p] = [rq[p] EXCEPT !.at = "log"] => RequestOK(rq[p])'
      <4>1. SUFFICES ASSUME users'[rq[p].id] = b, rq'[p] = [rq[p] EXCEPT !.at = "log"]
                     PROVE  RequestOK(rq[p])'
        OBVIOUS
      <4>2. rq'[p].at = "log" /\ rq'[p].id = rq[p].id /\ rq'[p].op = "register"
        BY <2>5, <4>1 DEF At, Request, RequestOK, Belongs
      <4>3. Belongs(rq[p])' /\ Names(rq[p])'
        BY <2>1, <3>1, <4>1, <4>2 DEF Belongs, Names, Unnamed, Grows
      <4>4. Progress(rq[p])
        BY DEF RequestOK
      <4>5. Progress(rq[p])'
        BY <1>2, <2>5, <3>1, <4>1, <4>2, <4>4 DEF Progress, Opened, Grows, Mine, At
      <4>6. Activated(rq[p])' /\ Leaving(rq[p])'
        BY <4>2 DEF Activated, Leaving
      <4> QED
        BY <4>3, <4>5, <4>6 DEF RequestOK
    <3> QED
      BY <1>2, <3>1, <3>2, <3>3, WriteAndGo DEF Furnish, Labels
  <2> QED
    BY <2>2, <2>3, <2>4, <2>5 DEF Furnish
<1>3. CASE ~Live(rq[p].id) /\ UNCHANGED users /\ ~Reply(p)
  <2>1. PICK l \in {"r_two", "log"} : Goto(p, l) /\ rq[p].at \in {"r_method", "r_two"}
    BY <1>3 DEF Furnish, Written, Updated, At
  <2>2. RequestOK([rq[p] EXCEPT !.at = l])
    BY <1>3, <2>1 DEF Request, RequestOK, Belongs, Names, Progress, Opened, Activated, Leaving, Unnamed
  <2> QED
    BY <1>3, <2>1, <2>2, GotoQuiet DEF Furnish, Labels
<1> QED
  BY <1>1, <1>2, <1>3 DEF Furnish, Written, Updated

LEMMA CreateLinkKeeps == ASSUME IInv, NEW p \in Procs, CreateLink(p) PROVE IInv'
<1> USE RequestFacts
<1>1. CASE ~Live(rq[p].id)
  BY <1>1, ReplyQuiet DEF CreateLink, Written
<1>2. CASE Live(rq[p].id)
  <2> DEFINE a == Mine(p)
             b == [a EXCEPT !.link = TRUE]
  <2>1. a \in Row /\ a.there = "yes" /\ rq[p].id \in Ids
    BY <1>2 DEF Live, Mine
  <2>2. b \in Row /\ Grows(a, b) /\ b.here = a.here /\ b.seen = a.seen /\ b.link
    BY <2>1 DEF Row, Grows
  <2>3. SetRow(rq[p].id, b) /\ Goto(p, "log") /\ At(p, "s_link")
    BY <1>2 DEF CreateLink, Written
  <2>4. ASSUME users'[rq[p].id] = b, rq'[p] = [rq[p] EXCEPT !.at = "log"]
        PROVE  RequestOK(rq[p])'
    <3>1. rq'[p].at = "log" /\ rq'[p].id = rq[p].id /\ rq'[p].op = "google"
      BY <2>3, <2>4 DEF At, Request, RequestOK, Belongs
    <3>2. Belongs(rq[p])' /\ Names(rq[p])'
      BY <2>1, <2>2, <2>4, <3>1 DEF Belongs, Names, Unnamed, Grows
    <3>3. Progress(rq[p])' /\ Activated(rq[p])' /\ Leaving(rq[p])'
      BY <2>2, <2>4, <3>1 DEF Progress, Opened, Activated, Leaving
    <3> QED
      BY <3>2, <3>3 DEF RequestOK
  <2> QED
    BY <1>2, <2>2, <2>3, <2>4, WriteAndGo DEF CreateLink, Labels
<1> QED
  BY <1>1, <1>2

LEMMA ActivateLinkedKeeps == ASSUME IInv, NEW p \in Procs, ActivateLinked(p) PROVE IInv'
<1> USE RequestFacts
<1>1. rq[p].id \in Ids /\ users[rq[p].id].there # "no"
  BY DEF ActivateLinked, At, RequestOK, Names, Unnamed
<1>2. RequestOK(rq[p])'
  <2>1. rq'[p] = Idle
    BY DEF ActivateLinked, Reply, Become, IInv, TypeOK
  <2> QED
    BY <2>1, IdleOK, AccountAssumption, DefaultsTyped
       DEF Idle, RequestOK, Belongs, Names, Progress, Opened, Activated, Leaving, Live, Unnamed
<1>3. CASE Live(rq[p].id)
  <2> DEFINE a == Mine(p)
             b == [a EXCEPT !.active = TRUE]
  <2>1. a \in Row /\ a.there = "yes"
    BY <1>1, <1>3 DEF Live, Mine
  <2>2. b \in Row /\ Grows(a, b) /\ b.here = a.here /\ b.active
    BY <2>1 DEF Row, Grows
  <2> QED
    BY <1>1, <1>2, <1>3, <2>2, DefaultsTyped, WritingStep DEF ActivateLinked, Reply, Mine
<1>4. CASE ~Live(rq[p].id)
  <2>1. Become(p, Idle) /\ UNCHANGED <<users, archive, answered>> /\ tokens' = tokens \cup {rq[p].id}
    BY <1>4 DEF ActivateLinked, Reply
  <2>2. \A i \in Ids : Follows(users[i], users'[i])
    BY <2>1 DEF Follows
  <2>3. RequestsOK' /\ rq' \in [Procs -> Request]
    BY <1>2, <2>1, <2>2, DefaultsTyped, RequestsKeep DEF IInv
  <2>4. TypeOK' /\ RecordsOK'
    BY <1>1, <2>1, <2>3 DEF IInv, TypeOK, RecordsOK, Live
  <2> QED
    BY <2>1, <2>3, <2>4 DEF IInv, OneHolder, RowsOK, RegisteredIsComplete, FirstLoginActivates, Live, Furnished
<1> QED
  BY <1>3, <1>4

LEMMA MarkLoginKeeps == ASSUME IInv, NEW p \in Procs, MarkLogin(p) PROVE IInv'
<1> USE RequestFacts
<1> DEFINE a == Mine(p)
<1>0. rq[p].op = "login"
  BY DEF MarkLogin, At, RequestOK, Belongs
<1>1. CASE ~Live(rq[p].id)
  <2>1. PICK l \in {"l_seen", "log"} : Goto(p, l) /\ rq[p].at \in {"l_act", "l_seen"}
    BY <1>1 DEF MarkLogin, Updated, At
  <2>2. RequestOK([rq[p] EXCEPT !.at = l])
    BY <1>0, <1>1, <2>1 DEF Request, RequestOK, Belongs, Names, Progress, Opened, Activated, Leaving, Unnamed
  <2>3. UNCHANGED users
    BY <1>1 DEF MarkLogin, Updated
  <2> QED
    BY <2>1, <2>2, <2>3, GotoQuiet DEF MarkLogin, Labels
<1>2. CASE Live(rq[p].id) /\ At(p, "l_act")
  <2> DEFINE b == [a EXCEPT !.active = TRUE]
  <2>1. a \in Row /\ a.there = "yes" /\ rq[p].id \in Ids
    BY <1>2 DEF Live, Mine
  <2>2. b \in Row /\ Grows(a, b) /\ b.here = a.here /\ b.active
    BY <2>1 DEF Row, Grows
  <2>3. SetRow(rq[p].id, b) /\ Goto(p, "l_seen")
    BY <1>2 DEF MarkLogin, Updated, At
  <2>4. ASSUME users'[rq[p].id] = b, rq'[p] = [rq[p] EXCEPT !.at = "l_seen"]
        PROVE  RequestOK(rq[p])'
    <3>1. rq'[p].at = "l_seen" /\ rq'[p].id = rq[p].id /\ rq'[p].op = "login"
      BY <1>0, <2>4 DEF Request
    <3>2. Belongs(rq[p])' /\ Names(rq[p])'
      BY <2>1, <2>2, <2>4, <3>1 DEF Belongs, Names, Unnamed, Grows
    <3>3. Progress(rq[p])' /\ Activated(rq[p])' /\ Leaving(rq[p])'
      BY <2>2, <2>4, <3>1 DEF Progress, Opened, Activated, Leaving
    <3> QED
      BY <3>2, <3>3 DEF RequestOK
  <2> QED
    BY <1>2, <2>2, <2>3, <2>4, WriteAndGo DEF MarkLogin, Labels
<1>3. CASE Live(rq[p].id) /\ At(p, "l_seen")
  <2> DEFINE b == [a EXCEPT !.seen = TRUE]
  <2>1. a \in Row /\ a.there = "yes" /\ rq[p].id \in Ids
    BY <1>3 DEF Live, Mine
  <2>2. b \in Row /\ Grows(a, b) /\ b.here = a.here /\ b.active = a.active /\ b.loose = a.loose
    BY <2>1 DEF Row, Grows
  <2>3. SetRow(rq[p].id, b) /\ Goto(p, "log")
    BY <1>3 DEF MarkLogin, Updated, At
  <2>4. a.active \/ a.loose
    BY <1>3 DEF RequestOK, Activated, At, Mine
  <2>5. ASSUME users'[rq[p].id] = b, rq'[p] = [rq[p] EXCEPT !.at = "log"]
        PROVE  RequestOK(rq[p])'
    <3>1. rq'[p].at = "log" /\ rq'[p].id = rq[p].id /\ rq'[p].op = "login"
      BY <1>0, <2>5 DEF Request
    <3>2. Belongs(rq[p])' /\ Names(rq[p])'
      BY <2>1, <2>2, <2>5, <3>1 DEF Belongs, Names, Unnamed, Grows
    <3>3. Progress(rq[p])' /\ Activated(rq[p])' /\ Leaving(rq[p])'
      BY <3>1 DEF Progress, Opened, Activated, Leaving
    <3> QED
      BY <3>2, <3>3 DEF RequestOK
  <2> QED
    BY <1>3, <2>2, <2>3, <2>4, <2>5, WriteAndGo DEF MarkLogin, Labels
<1> QED
  BY <1>1, <1>2, <1>3 DEF MarkLogin

LEMMA SaveFailsKeeps == ASSUME IInv, NEW p \in Procs, SaveFails(p) PROVE IInv'
<1> USE RequestFacts
<1> DEFINE a == Mine(p)
           l == AfterSave[rq[p].at]
           b == [a EXCEPT !.loose = a.loose \/ ~At(p, "p_write")]
<1>1. /\ rq[p].at \in {"r_method", "r_two", "l_act", "l_seen", "p_write"}
      /\ l \in {"r_two", "log", "l_seen"}
      /\ l = "r_two" <=> rq[p].at = "r_method"
      /\ l = "l_seen" <=> rq[p].at = "l_act"
      /\ Goto(p, l)
  BY DEF SaveFails, AfterSave, Updated
<1>2. CASE ~Live(rq[p].id)
  <2>1. RequestOK([rq[p] EXCEPT !.at = l])
    BY <1>1, <1>2 DEF Request, RequestOK, Belongs, Names, Progress, Opened, Activated, Leaving, Unnamed
  <2> QED
    BY <1>1, <1>2, <2>1, GotoQuiet DEF SaveFails, Updated, Labels
<1>3. CASE Live(rq[p].id)
  <2>1. a \in Row /\ a.there = "yes" /\ rq[p].id \in Ids
    BY <1>3 DEF Live, Mine
  <2>2. /\ b \in Row /\ Grows(a, b) /\ b.here = a.here /\ b.seen = a.seen
        /\ ~At(p, "p_write") => b.loose
        /\ b.role = a.role /\ b.setting = a.setting
    BY <2>1 DEF Row, Grows
  <2> HIDE DEF b, l
  <2>3. a.seen => b.active \/ b.loose
    BY <2>1, <2>2 DEF IInv, FirstLoginActivates, Mine, Grows
  <2>4. ASSUME users'[rq[p].id] = b, rq'[p] = [rq[p] EXCEPT !.at = l]
        PROVE  RequestOK(rq[p])'
    <3>1. rq'[p].at = l /\ rq'[p].id = rq[p].id /\ rq'[p].op = rq[p].op
      BY <2>4 DEF Request
    <3>2. Belongs(rq[p])' /\ Names(rq[p])'
      BY <1>1, <2>1, <2>2, <2>4, <3>1 DEF RequestOK, Belongs, Names, Unnamed, Grows
    <3>3. Progress(rq[p])'
      BY <1>1, <1>3, <2>2, <2>4, <3>1 DEF RequestOK, Belongs, Progress, Opened, At, Mine
    <3>4. Activated(rq[p])' /\ Leaving(rq[p])'
      BY <1>1, <2>2, <2>4, <3>1 DEF RequestOK, Belongs, Activated, Leaving, At
    <3> QED
      BY <3>2, <3>3, <3>4 DEF RequestOK
  <2>5. SetRow(rq[p].id, b) /\ UNCHANGED <<archive, tokens, answered>>
    BY <1>3 DEF SaveFails, Updated, b, l
  <2>6. l \in Labels
    BY <1>1 DEF Labels
  <2> QED
    BY <1>1, <1>3, <2>2, <2>3, <2>4, <2>5, <2>6, WriteAndGo
<1> QED
  BY <1>2, <1>3

LEMMA WritePasswordKeeps == ASSUME IInv, NEW p \in Procs, WritePassword(p) PROVE IInv'
<1> USE RequestFacts
<1> DEFINE a == Mine(p)
           b == [a EXCEPT !.pass = TRUE]
<1>1. Goto(p, "log") /\ rq[p].at = "p_write" /\ rq[p].op \in {"reset", "recover"}
  BY DEF WritePassword, Updated, At, RequestOK, Belongs
<1>2. CASE ~Live(rq[p].id)
  <2>1. RequestOK([rq[p] EXCEPT !.at = "log"])
    BY <1>1, <1>2 DEF Request, RequestOK, Belongs, Names, Progress, Opened, Activated, Leaving, Unnamed
  <2> QED
    BY <1>1, <1>2, <2>1, GotoQuiet DEF WritePassword, Updated, Labels
<1>3. CASE Live(rq[p].id)
  <2>1. a \in Row /\ a.there = "yes" /\ rq[p].id \in Ids
    BY <1>3 DEF Live, Mine
  <2>2. b \in Row /\ Grows(a, b) /\ b.here = a.here /\ b.seen = a.seen
    BY <2>1 DEF Row, Grows
  <2>3. ASSUME users'[rq[p].id] = b, rq'[p] = [rq[p] EXCEPT !.at = "log"]
        PROVE  RequestOK(rq[p])'
    <3>1. rq'[p].at = "log" /\ rq'[p].id = rq[p].id /\ rq'[p].op \in {"reset", "recover"}
      BY <1>1, <2>3 DEF Request
    <3>2. Belongs(rq[p])' /\ Names(rq[p])'
      BY <2>1, <2>2, <2>3, <3>1 DEF Belongs, Names, Unnamed, Grows
    <3>3. Progress(rq[p])' /\ Activated(rq[p])' /\ Leaving(rq[p])'
      BY <3>1 DEF Progress, Opened, Activated, Leaving
    <3> QED
      BY <3>2, <3>3 DEF RequestOK
  <2> QED
    BY <1>1, <1>3, <2>2, <2>3, WriteAndGo DEF WritePassword, Updated, Labels
<1> QED
  BY <1>2, <1>3

\* What a PATCH of the other columns does to a row.
LEMMA OverwrittenRow ==
    ASSUME NEW a \in Row, a.there = "yes", NEW all \in BOOLEAN
    PROVE  /\ Overwritten(a, all) \in Row /\ Grows(a, Overwritten(a, all))
           /\ Overwritten(a, all).here = a.here /\ Overwritten(a, all).loose
           /\ Overwritten(a, all).there = "yes" /\ Overwritten(a, all).role = a.role
<1> DEFINE Put(seen, pass) == [a EXCEPT !.seen = seen, !.pass = pass, !.loose = TRUE]
<1> DEFINE Fine(b) == /\ b \in Row /\ Grows(a, b) /\ b.here = a.here
                      /\ b.loose /\ b.there = "yes" /\ b.role = a.role
<1>1. ASSUME NEW seen \in BOOLEAN, NEW pass \in BOOLEAN
      PROVE  Fine(Put(seen, pass))
  BY DEF Row, Grows
<1>2. (a.seen /\ ~all) \in BOOLEAN /\ (a.pass \/ all) \in BOOLEAN
  BY Zenon
<1>3. PICK seen \in BOOLEAN, pass \in BOOLEAN : seen = (a.seen /\ ~all) /\ pass = (a.pass \/ all)
  BY <1>2, Zenon
<1>4. Overwritten(a, all) = Put(seen, pass)
  BY <1>3, Zenon DEF Overwritten
<1>5. Fine(Overwritten(a, all))
  <2> HIDE DEF Put, Fine
  <2> QED
    BY <1>1, <1>4
<1> QED
  BY <1>5

LEMMA PatchUserKeeps == ASSUME IInv, NEW p \in Procs, PatchUser(p) PROVE IInv'
<1> USE RequestFacts
<1> DEFINE a == Mine(p)
<1>1. CASE Reply(p) /\ UNCHANGED users
  BY <1>1, ReplyQuiet DEF PatchUser
<1>2. ASSUME Live(rq[p].id), NEW b \in Row, Grows(a, b), b.here => a.here \/ ~Held,
             b.seen => a.seen \/ b.loose, SetRow(rq[p].id, b), Goto(p, "log")
      PROVE  IInv'
  <2>1. a \in Row /\ a.there = "yes" /\ rq[p].id \in Ids /\ rq[p].op = "patch"
    BY <1>2 DEF Live, Mine, PatchUser, At, RequestOK, Belongs
  <2>2. ASSUME users'[rq[p].id] = b, rq'[p] = [rq[p] EXCEPT !.at = "log"]
        PROVE  RequestOK(rq[p])'
    <3>1. rq'[p].at = "log" /\ rq'[p].id = rq[p].id /\ rq'[p].op = "patch"
      BY <2>1, <2>2 DEF Request
    <3>2. Belongs(rq[p])' /\ Names(rq[p])'
      BY <1>2, <2>1, <2>2, <3>1 DEF Belongs, Names, Unnamed, Grows
    <3>3. Progress(rq[p])' /\ Activated(rq[p])' /\ Leaving(rq[p])'
      BY <3>1 DEF Progress, Opened, Activated, Leaving
    <3> QED
      BY <3>2, <3>3 DEF RequestOK
  <2> QED
    BY <1>2, <2>2, WriteAndGo DEF PatchUser, Labels
<1>3. CASE Live(rq[p].id)
  <2>1. a \in Row /\ a.there = "yes"
    BY <1>3 DEF Live, Mine
  <2>2. ASSUME NEW here \in BOOLEAN, here => a.here \/ ~Held, SetRow(rq[p].id, [a EXCEPT !.here = here]), Goto(p, "log")
        PROVE  IInv'
    <3>1. [a EXCEPT !.here = here] \in Row /\ Grows(a, [a EXCEPT !.here = here])
          /\ [a EXCEPT !.here = here].seen = a.seen /\ [a EXCEPT !.here = here].here = here
      BY <2>1 DEF Row, Grows
    <3> QED
      BY <1>2, <1>3, <2>2, <3>1
  <2>3. ASSUME NEW all \in BOOLEAN, SetRow(rq[p].id, Overwritten(a, all)), Goto(p, "log")
        PROVE  IInv'
    <3> DEFINE b == Overwritten(a, all)
    <3>1. b \in Row /\ Grows(a, b)
      BY <2>1, OverwrittenRow
    <3>2. (b.here => a.here \/ ~Held) /\ (b.seen => a.seen \/ b.loose)
      BY <2>1, OverwrittenRow
    <3> QED
      BY <1>2, <1>3, <2>3, <3>1, <3>2
  <2> QED
    BY <1>1, <1>3, <2>2, <2>3 DEF PatchUser, Written
<1> QED
  BY <1>1, <1>3 DEF PatchUser, Written

LEMMA CreateUserKeeps == ASSUME IInv, NEW p \in Procs, CreateUser(p) PROVE IInv'
<1> USE RequestFacts
<1>1. CASE Held
  BY <1>1, ReplyQuiet DEF CreateUser
<1>2. CASE ~Held
  <2>1. PICK i \in Fresh :
           /\ SetRow(i, [Blank("yes") EXCEPT !.pass = At(p, "r_create")])
           /\ Become(p, [rq[p] EXCEPT !.at = IF At(p, "r_create") THEN "r_grant" ELSE "s_link",
                                      !.id = i, !.first = TRUE])
    BY <1>2 DEF CreateUser
  <2> DEFINE row == [Blank("yes") EXCEPT !.pass = At(p, "r_create")]
             r == [rq[p] EXCEPT !.at = IF At(p, "r_create") THEN "r_grant" ELSE "s_link",
                                !.id = i, !.first = TRUE]
  <2>2. row \in Row /\ row.there = "yes" /\ ~row.seen
    <3>1. Blank("yes") \in Row /\ Blank("yes").there = "yes" /\ ~Blank("yes").seen
      BY DEF Blank, Row
    <3>2. At(p, "r_create") \in BOOLEAN
      BY DEF At
    <3> QED
      BY <3>1, <3>2 DEF Row
  <2>3. i \in Ids /\ users[i].there = "no"
    BY DEF Fresh
  <2>4. users' \in [Ids -> Row] /\ users'[i] = row /\ \A j \in Ids : j # i => users'[j] = users[j]
    BY <2>1, <2>2, <2>3 DEF SetRow, IInv, TypeOK
  <2>5. \A j \in Ids : Follows(users[j], users'[j])
    BY <2>2, <2>3, <2>4 DEF Follows
  <2>6. /\ r \in Request /\ r.id = i /\ r.op = rq[p].op
        /\ \/ r.at = "r_grant" /\ rq[p].op = "register"
           \/ r.at = "s_link" /\ rq[p].op = "google"
    BY <2>3 DEF CreateUser, At, Request, Labels, RequestOK, Belongs
  <2>7. rq'[p] = r
    BY <2>1 DEF Become, IInv, TypeOK
  <2>8. RequestOK(rq[p])'
    <3> HIDE DEF r, row
    <3>1. Belongs(rq[p])'
      BY <2>6, <2>7 DEF Belongs
    <3>2. Names(rq[p])'
      BY <2>2, <2>3, <2>4, <2>6, <2>7 DEF Names, Unnamed
    <3>3. Progress(rq[p])' /\ Activated(rq[p])' /\ Leaving(rq[p])'
      BY <2>6, <2>7 DEF Progress, Opened, Activated, Leaving
    <3> QED
      BY <3>1, <3>2, <3>3 DEF RequestOK
  <2>9. RequestsOK' /\ rq' \in [Procs -> Request]
    BY <2>1, <2>5, <2>6, <2>8, RequestsKeep DEF CreateUser, IInv
  <2>10. TypeOK'
    BY <2>4, <2>9 DEF CreateUser, IInv, TypeOK
  <2>11. OneHolder'
    BY <1>2, <2>4 DEF OneHolder, Held, Live
  <2>12. RowsOK'
    BY <2>2, <2>3, <2>4 DEF IInv, RowsOK, Live
  <2>13. RecordsOK'
    BY <2>2, <2>3, <2>4 DEF CreateUser, IInv, TypeOK, RecordsOK, Live
  <2>14. RegisteredIsComplete'
    BY <2>3, <2>4 DEF CreateUser, IInv, TypeOK, RegisteredIsComplete, RecordsOK, Furnished, Live
  <2>15. FirstLoginActivates'
    BY <2>2, <2>3, <2>4 DEF IInv, FirstLoginActivates
  <2> QED
    BY <2>9, <2>10, <2>11, <2>12, <2>13, <2>14, <2>15 DEF IInv
<1> QED
  BY <1>1, <1>2

LEMMA ArchiveKeeps == ASSUME IInv, NEW p \in Procs, Archive(p) PROVE IInv'
<1> USE RequestFacts
<1> DEFINE r == [rq[p] EXCEPT !.at = "log"]
<1>1. /\ rq[p].at = "d_archive" /\ rq[p].op = "delete"
      /\ rq[p].id \in Ids /\ users[rq[p].id].there # "no"
      /\ Live(rq[p].id) => users[rq[p].id].role
  BY DEF Archive, At, RequestOK, Belongs, Names, Leaving, Unnamed
<1>2. r \in Request /\ r.at = "log" /\ r.id = rq[p].id /\ r.op = "delete"
  BY <1>1 DEF Request, Labels
<1>3. rq'[p] = r
  BY DEF Archive, Goto, Become, IInv, TypeOK
<1>4. RequestOK(rq[p])'
  <2> HIDE DEF r
  <2>1. Belongs(rq[p])' /\ Names(rq[p])'
    BY <1>1, <1>2, <1>3 DEF Archive, Belongs, Names, Unnamed
  <2>2. Progress(rq[p])' /\ Activated(rq[p])' /\ Leaving(rq[p])'
    BY <1>1, <1>2, <1>3 DEF Archive, Progress, Opened, Activated, Leaving, Live
  <2> QED
    BY <2>1, <2>2 DEF RequestOK
<1>5. RequestsOK' /\ rq' \in [Procs -> Request]
  <2>1. \A i \in Ids : Follows(users[i], users'[i])
    BY DEF Archive, Follows
  <2> QED
    BY <1>2, <1>4, <2>1, RequestsKeep DEF Archive, Goto, IInv
<1>6. TypeOK' /\ RecordsOK'
  BY <1>1, <1>5 DEF Archive, IInv, TypeOK, RecordsOK, Live
<1> QED
  BY <1>5, <1>6 DEF Archive, IInv, OneHolder, RowsOK, RegisteredIsComplete, FirstLoginActivates, Live, Furnished

LEMMA DeleteUserKeeps == ASSUME IInv, NEW p \in Procs, DeleteUser(p) PROVE IInv'
<1> USE RequestFacts
<1>1. CASE ~Live(rq[p].id)
  BY <1>1, ReplyQuiet DEF DeleteUser
<1>2. CASE Live(rq[p].id)
  <2> DEFINE i == rq[p].id
  <2>1. i \in Ids /\ users[i].there = "yes" /\ i \in archive
    BY <1>2 DEF DeleteUser, At, Live, RequestOK, Leaving
  <2>2. Blank("gone") \in Row /\ Blank("gone").there = "gone" /\ ~Blank("gone").seen
    BY DEF Blank, Row
  <2>3. /\ users' \in [Ids -> Row] /\ users'[i] = Blank("gone")
        /\ \A j \in Ids : j # i => users'[j] = users[j]
    BY <1>2, <2>1, <2>2 DEF DeleteUser, SetRow, IInv, TypeOK
  <2>4. \A j \in Ids : Follows(users[j], users'[j])
    BY <2>1, <2>2, <2>3 DEF Follows
  <2>5. RequestOK(rq[p])'
    <3>1. rq'[p] = Idle
      BY DEF DeleteUser, Reply, Become, IInv, TypeOK
    <3> QED
      BY <3>1, IdleOK, AccountAssumption, DefaultsTyped
         DEF Idle, RequestOK, Belongs, Names, Progress, Opened, Activated, Leaving, Live, Unnamed
  <2>6. RequestsOK' /\ rq' \in [Procs -> Request]
    BY <2>4, <2>5, DefaultsTyped, RequestsKeep DEF DeleteUser, Reply, IInv
  <2>7. TypeOK'
    BY <2>3, <2>6 DEF DeleteUser, IInv, TypeOK
  <2>8. OneHolder' /\ RowsOK'
    BY <2>2, <2>3 DEF IInv, OneHolder, RowsOK, Live
  <2>9. RecordsOK'
    BY <2>1, <2>2, <2>3 DEF DeleteUser, IInv, TypeOK, RecordsOK, Live
  <2>10. RegisteredIsComplete'
    BY <2>2, <2>3 DEF DeleteUser, IInv, TypeOK, RegisteredIsComplete, Furnished, Live
  <2>11. FirstLoginActivates'
    BY <2>2, <2>3 DEF IInv, FirstLoginActivates
  <2> QED
    BY <2>6, <2>7, <2>8, <2>9, <2>10, <2>11 DEF IInv
<1> QED
  BY <1>1, <1>2

LEMMA LogKeeps == ASSUME IInv, NEW p \in Procs, Log(p) PROVE IInv'
<1> USE RequestFacts
<1>1. CASE ~Live(rq[p].id)
  BY <1>1, ReplyQuiet DEF Log
<1>2. CASE Live(rq[p].id)
  <2>1. rq[p].id \in Ids /\ users[rq[p].id].there = "yes" /\ rq[p].at = "log"
    BY <1>2 DEF Log, At, Live
  <2>2. PICK r \in Request : Become(p, r) /\ RequestOK(r)
    <3>1. ASSUME NEW l \in {"d_delete", "s_act"}, Goto(p, l),
                 l = "d_delete" => rq[p].op = "delete", l = "s_act" => rq[p].op = "google"
          PROVE  \E r \in Request : Become(p, r) /\ RequestOK(r)
      <4> DEFINE s == [rq[p] EXCEPT !.at = l]
      <4>1. s \in Request /\ s.at = l /\ s.id = rq[p].id /\ s.op = rq[p].op
        BY <3>1 DEF Request, Labels
      <4>2. RequestOK(s)
        <5> HIDE DEF s
        <5> QED
          BY <2>1, <3>1, <4>1 DEF RequestOK, Belongs, Names, Progress, Opened, Activated, Leaving, Unnamed
      <4> QED
        BY <3>1, <4>1, <4>2 DEF Goto
    <3>2. CASE Reply(p)
      BY <3>2, DefaultsTyped, IdleOK DEF Reply
    <3>3. AfterLog(p)
      BY <1>2 DEF Log
    <3> QED
      BY <3>1, <3>2, <3>3 DEF AfterLog
  <2>3. rq'[p] = r
    BY <2>2 DEF Become, IInv, TypeOK
  <2>4. UNCHANGED <<users, archive>>
    BY DEF Log
  <2>5. RequestOK(rq[p])'
    BY <2>2, <2>3, <2>4 DEF RequestOK, Belongs, Names, Progress, Opened, Activated, Leaving, Live
  <2>6. \A i \in Ids : Follows(users[i], users'[i])
    BY <2>4 DEF Follows
  <2>7. RequestsOK' /\ rq' \in [Procs -> Request]
    BY <2>2, <2>4, <2>5, <2>6, RequestsKeep DEF IInv
  <2>8. tokens' \in {tokens, tokens \cup {rq[p].id}} /\ answered' \in {answered, answered \cup {rq[p].id}}
    BY <1>2 DEF Log
  <2>9. TypeOK'
    BY <2>1, <2>4, <2>7, <2>8 DEF IInv, TypeOK
  <2>10. RecordsOK'
    BY <2>1, <2>4, <2>8 DEF IInv, RecordsOK, Live
  <2>11. Opens(rq[p]) => Furnished(rq[p].id)
    BY <1>2, <2>1 DEF Opens, Furnished, RequestOK, Progress, Opened
  <2>12. RegisteredIsComplete'
    <3>1. CASE Opens(rq[p])
      BY <2>4, <2>8, <2>11, <3>1 DEF IInv, RegisteredIsComplete, Furnished, Live
    <3>2. CASE ~Opens(rq[p])
      BY <1>2, <2>4, <3>2 DEF Log, IInv, RegisteredIsComplete, Furnished, Live
    <3> QED
      BY <3>1, <3>2
  <2> QED
    BY <2>4, <2>7, <2>9, <2>10, <2>12 DEF IInv, OneHolder, RowsOK, FirstLoginActivates, Live
<1> QED
  BY <1>1, <1>2

LEMMA CrashKeeps == ASSUME IInv, Crash PROVE IInv'
<1>1. \A p \in Procs : rq'[p] = Idle
  BY DEF Crash
<1>2. UNCHANGED <<users, archive, tokens, answered>>
  BY DEF Crash
<1>3. RequestsOK'
  <2> SUFFICES ASSUME NEW p \in Procs PROVE RequestOK(rq[p])'
    BY DEF RequestsOK
  <2> QED
    BY <1>1, AccountAssumption, DefaultsTyped
       DEF Idle, RequestOK, Belongs, Names, Progress, Opened, Activated, Leaving, Live, Unnamed
<1>4. TypeOK'
  BY <1>2, DefaultsTyped DEF Crash, IInv, TypeOK
<1> QED
  BY <1>2, <1>3, <1>4 DEF IInv, OneHolder, RowsOK, RecordsOK, RegisteredIsComplete, FirstLoginActivates, Live, Furnished

-----------------------------------------------------------------------------
LEMMA InitOK == Init => IInv
<1> SUFFICES ASSUME Init PROVE IInv
  OBVIOUS
<1>1. \A i \in Ids : users[i] = Blank("no") /\ users[i].there = "no" /\ ~users[i].seen
  BY DEF Init, Blank
<1>2. TypeOK
  BY DefaultsTyped DEF Init, TypeOK
<1>3. RequestsOK
  BY IdleOK DEF Init, RequestsOK
<1> QED
  BY <1>1, <1>2, <1>3
     DEF Init, IInv, OneHolder, RowsOK, RecordsOK, RegisteredIsComplete, FirstLoginActivates, Live

LEMMA NextKeeps == IInv /\ [Next]_vars => IInv'
<1> SUFFICES ASSUME IInv, [Next]_vars PROVE IInv'
  OBVIOUS
<1>1. ASSUME NEW p \in Procs, Step(p) PROVE IInv'
  BY <1>1, GuardKeeps, ReadCodesKeeps, CreateUserKeeps, FurnishKeeps, FindLinkKeeps, CreateLinkKeeps,
     ActivateLinkedKeeps, FindLoginKeeps, CheckLoginCodeKeeps, MarkLoginKeeps, FindForPasswordKeeps,
     CheckPasswordCodeKeeps, WritePasswordKeeps, RoleGuardKeeps, PatchUserKeeps, ReadForDeleteKeeps,
     ArchiveKeeps, DeleteUserKeeps, LogKeeps
  DEF Step, RegisterStep, GoogleStep, LoginStep, PasswordStep, AccountStep
<1>2. CASE UNCHANGED vars
  BY <1>2 DEF vars, IInv, TypeOK, OneHolder, RowsOK, RecordsOK, RequestsOK, RequestOK, Belongs, Names, Progress,
              Opened, Activated, Leaving, RegisteredIsComplete, FirstLoginActivates, Live, Furnished
<1> QED
  BY <1>1, <1>2, ArriveKeeps, CallThrowsKeeps, SaveFailsKeeps, CrashKeeps DEF Next

\* Every reachable state: what the rows, the records and the requests say of
\* each other (all handlers of an account).
THEOREM AccountInvariant == Spec => []IInv
BY InitOK, NextKeeps, PTL DEF Spec

\* A registration that was answered a success is complete for as long as the
\* account exists (AuthService.register, authUserByGoogleSSO).
THEOREM RegistrationIsComplete == Spec => []RegisteredIsComplete
BY AccountInvariant, PTL DEF IInv

\* An account that was logged in to is active (AuthService.login).
THEOREM LoginActivates == Spec => []FirstLoginActivates
BY AccountInvariant, PTL DEF IInv

-----------------------------------------------------------------------------
(* The refinement of Lifecycle. *)

LifeVars == <<[i \in Ids |-> Stage(i)], archive>>

\* A step that changes the standing of no row and archives nothing is a stutter.
LEMMA Stutters ==
    ASSUME UNCHANGED archive, \A i \in Ids : Stage(i)' = Stage(i)
    PROVE  UNCHANGED LifeVars
BY DEF LifeVars

LEMMA QuietStutters == ASSUME UNCHANGED <<users, archive>> PROVE UNCHANGED LifeVars
<1>1. \A i \in Ids : Stage(i)' = Stage(i)
  BY DEF Stage, Live
<1> QED
  BY <1>1, Stutters

\* A row in use is written: its role is as it was, or was granted.
LEMMA WritingLives ==
    ASSUME IInv, NEW i \in Ids, Live(i), NEW row \in Row, SetRow(i, row), row.there = "yes",
           users[i].role => row.role, UNCHANGED archive
    PROVE  [Life!Next]_LifeVars
<1>1. users' \in [Ids -> Row] /\ users'[i] = row /\ \A j \in Ids : j # i => users'[j] = users[j]
  BY DEF SetRow, IInv, TypeOK
<1>2. \A j \in Ids : j # i => Stage(j)' = Stage(j)
  BY <1>1 DEF Stage, Live
<1>3. users[i].there = "yes" /\ users[i] \in Row
  BY DEF Live, IInv, TypeOK
<1>4. CASE row.role = users[i].role
  <2>1. Stage(i)' = Stage(i)
    BY <1>1, <1>3, <1>4 DEF Stage, Live
  <2> QED
    BY <1>2, <2>1, Stutters
<1>5. CASE ~users[i].role /\ row.role
  <2>1. Stage(i) = "created" /\ Stage(i)' = "usable"
    BY <1>1, <1>3, <1>5 DEF Stage, Live
  <2>2. [j \in Ids |-> Stage(j)]' = [[j \in Ids |-> Stage(j)] EXCEPT ![i] = "usable"]
    BY <1>2, <2>1
  <2>3. Life!Grant(i)
    BY <2>1, <2>2 DEF Life!Grant, Life!Move
  <2> QED
    BY <2>3 DEF Life!Next
<1> QED
  BY <1>3, <1>4, <1>5 DEF Row

LEMMA WrittenLives ==
    ASSUME IInv, NEW p \in Procs, UNCHANGED archive,
           UNCHANGED users \/ \E c \in {"role", "setting", "method", "two", "link", "active", "seen", "pass", "loose"} :
                                 Live(rq[p].id) /\ SetRow(rq[p].id, [Mine(p) EXCEPT ![c] = TRUE])
    PROVE  [Life!Next]_LifeVars
<1>1. CASE UNCHANGED users
  BY <1>1, QuietStutters
<1>2. ASSUME NEW c \in {"role", "setting", "method", "two", "link", "active", "seen", "pass", "loose"},
             Live(rq[p].id), SetRow(rq[p].id, [Mine(p) EXCEPT ![c] = TRUE])
      PROVE  [Life!Next]_LifeVars
  <2> DEFINE b == [Mine(p) EXCEPT ![c] = TRUE]
  <2>1. rq[p].id \in Ids /\ Mine(p) \in Row /\ Mine(p).there = "yes"
    BY <1>2 DEF Live, Mine, IInv, TypeOK
  <2>2. b \in Row /\ b.there = "yes" /\ (Mine(p).role => b.role)
    BY <2>1 DEF Row
  <2> QED
    BY <1>2, <2>1, <2>2, WritingLives DEF Mine
<1> QED
  BY <1>1, <1>2

LEMMA StepLives == ASSUME IInv, [Next]_vars PROVE [Life!Next]_LifeVars
<1> USE RequestFacts
<1>1. CASE UNCHANGED <<users, archive>>
  BY <1>1, QuietStutters
<1>2. ASSUME NEW p \in Procs, Furnish(p) PROVE [Life!Next]_LifeVars
  BY <1>2, WrittenLives DEF Furnish, Written, Updated
<1>3. ASSUME NEW p \in Procs, CreateLink(p) \/ ActivateLinked(p) \/ MarkLogin(p) \/ WritePassword(p)
      PROVE  [Life!Next]_LifeVars
  BY <1>3, WrittenLives DEF CreateLink, ActivateLinked, MarkLogin, WritePassword, Written, Updated
<1>4. ASSUME NEW p \in Procs, PatchUser(p) PROVE [Life!Next]_LifeVars
  <2>1. ASSUME NEW here \in BOOLEAN, Live(rq[p].id), SetRow(rq[p].id, [Mine(p) EXCEPT !.here = here])
        PROVE  [Life!Next]_LifeVars
    <3> DEFINE b == [Mine(p) EXCEPT !.here = here]
    <3>1. rq[p].id \in Ids /\ Mine(p) \in Row /\ Mine(p).there = "yes"
      BY <2>1 DEF Live, Mine, IInv, TypeOK
    <3>2. b \in Row /\ b.there = "yes" /\ b.role = Mine(p).role
      BY <3>1 DEF Row
    <3> QED
      BY <1>4, <2>1, <3>1, <3>2, WritingLives DEF PatchUser, Mine
  <2>2. ASSUME NEW all \in BOOLEAN, Live(rq[p].id), SetRow(rq[p].id, Overwritten(Mine(p), all))
        PROVE  [Life!Next]_LifeVars
    <3> DEFINE b == Overwritten(Mine(p), all)
    <3>1. rq[p].id \in Ids /\ Mine(p) \in Row /\ Mine(p).there = "yes"
      BY <2>2 DEF Live, Mine, IInv, TypeOK
    <3>2. b \in Row /\ b.there = "yes" /\ b.role = Mine(p).role
      BY <3>1, OverwrittenRow
    <3> QED
      BY <1>4, <2>2, <3>1, <3>2, WritingLives DEF PatchUser, Mine
  <2> QED
    BY <1>4, <2>1, <2>2, WrittenLives DEF PatchUser, Written
<1>5. ASSUME NEW p \in Procs, CreateUser(p) PROVE [Life!Next]_LifeVars
  <2>1. CASE UNCHANGED users
    BY <1>5, <2>1, QuietStutters DEF CreateUser
  <2>2. ASSUME NEW i \in Fresh, SetRow(i, [Blank("yes") EXCEPT !.pass = At(p, "r_create")])
        PROVE  [Life!Next]_LifeVars
    <3> DEFINE row == [Blank("yes") EXCEPT !.pass = At(p, "r_create")]
    <3>1. row.there = "yes" /\ row.role = FALSE
      BY DEF Blank
    <3>2. i \in Ids /\ users[i].there = "no"
      BY DEF Fresh
    <3>3. users'[i] = row /\ \A j \in Ids : j # i => users'[j] = users[j]
      BY <2>2, <3>2 DEF SetRow, IInv, TypeOK
    <3>4. \A j \in Ids : j # i => Stage(j)' = Stage(j)
      BY <3>3 DEF Stage, Live
    <3>5. Stage(i) = "absent" /\ Stage(i)' = "created"
      BY <3>1, <3>2, <3>3 DEF Stage, Live
    <3>6. [j \in Ids |-> Stage(j)]' = [[j \in Ids |-> Stage(j)] EXCEPT ![i] = "created"]
      BY <3>4, <3>5
    <3>7. Life!Create(i)
      BY <1>5, <3>2, <3>5, <3>6 DEF CreateUser, Life!Create, Life!Move
    <3> QED
      BY <3>2, <3>7 DEF Life!Next
  <2> QED
    BY <1>5, <2>1, <2>2 DEF CreateUser
<1>6. ASSUME NEW p \in Procs, Archive(p) PROVE [Life!Next]_LifeVars
  <2> DEFINE i == rq[p].id
  <2>1. i \in Ids /\ users[i].there # "no" /\ (Live(i) => users[i].role) /\ users[i] \in Row
    BY <1>6 DEF Archive, At, RequestOK, Names, Leaving, Unnamed
  <2>2. Stage(i) \in {"usable", "deleted"}
    BY <2>1 DEF Stage, Live, Row
  <2>3. \A j \in Ids : Stage(j)' = Stage(j)
    BY <1>6 DEF Archive, Stage, Live
  <2>4. Life!Archive(i)
    BY <1>6, <2>1, <2>2, <2>3 DEF Archive, Life!Archive
  <2> QED
    BY <2>1, <2>4 DEF Life!Next
<1>7. ASSUME NEW p \in Procs, DeleteUser(p) PROVE [Life!Next]_LifeVars
  <2> PICK i : i = rq[p].id
    OBVIOUS
  <2>1. CASE ~Live(i)
    BY <1>7, <2>1, QuietStutters DEF DeleteUser
  <2>2. CASE Live(i)
    <3>1. i \in Ids /\ users[i].there = "yes" /\ users[i].role /\ i \in archive
      BY <1>7, <2>2 DEF DeleteUser, At, Live, RequestOK, Leaving
    <3>2. users'[i] = Blank("gone") /\ \A j \in Ids : j # i => users'[j] = users[j]
      BY <1>7, <2>2, <3>1 DEF DeleteUser, SetRow, IInv, TypeOK
    <3>3. \A j \in Ids : j # i => Stage(j)' = Stage(j)
      BY <3>2 DEF Stage, Live
    <3>4. Stage(i) = "usable" /\ Stage(i)' = "deleted"
      BY <3>1, <3>2, DefaultsTyped DEF Stage, Live
    <3>5. [j \in Ids |-> Stage(j)]' = [[j \in Ids |-> Stage(j)] EXCEPT ![i] = "deleted"]
      BY <3>3, <3>4
    <3>6. Life!Delete(i)
      BY <1>7, <3>1, <3>4, <3>5 DEF DeleteUser, Life!Delete, Life!Move
    <3> QED
      BY <3>1, <3>6 DEF Life!Next
  <2> QED
    BY <2>1, <2>2
<1>8. ASSUME NEW p \in Procs, Step(p)
      PROVE  \/ UNCHANGED <<users, archive>>
             \/ Furnish(p) \/ CreateLink(p) \/ ActivateLinked(p) \/ MarkLogin(p) \/ WritePassword(p)
             \/ PatchUser(p) \/ CreateUser(p) \/ Archive(p) \/ DeleteUser(p)
  BY <1>8 DEF Step, RegisterStep, GoogleStep, LoginStep, PasswordStep, AccountStep, Guard, ReadCodes, FindLink, FindLogin, CheckLoginCode, FindForPassword,
              CheckPasswordCode, RoleGuard, ReadForDelete, Log
<1>9. CASE \E p \in Procs : Step(p)
  BY <1>1, <1>2, <1>3, <1>4, <1>5, <1>6, <1>7, <1>8, <1>9
<1>10. ASSUME NEW p \in Procs, SaveFails(p) PROVE [Life!Next]_LifeVars
  <2> DEFINE b == [Mine(p) EXCEPT !.loose = Mine(p).loose \/ ~At(p, "p_write")]
  <2>1. CASE UNCHANGED <<users, archive>>
    BY <2>1, QuietStutters
  <2>2. CASE Live(rq[p].id) /\ SetRow(rq[p].id, b) /\ UNCHANGED archive
    <3>1. rq[p].id \in Ids /\ Mine(p) \in Row /\ Mine(p).there = "yes"
      BY <2>2 DEF Live, Mine, IInv, TypeOK
    <3>2. b \in Row /\ b.there = "yes" /\ b.role = Mine(p).role
      BY <3>1 DEF Row
    <3> QED
      BY <2>2, <3>1, <3>2, WritingLives DEF Mine
  <2> QED
    BY <1>10, <2>1, <2>2 DEF SaveFails, Updated
<1>11. CASE ~\E p \in Procs : Step(p) \/ SaveFails(p)
  BY <1>1, <1>11 DEF Next, Arrive, CallThrows, Crash, vars
<1> QED
  BY <1>9, <1>10, <1>11

\* Whatever the handlers do to an account is a step of its life: it is created,
\* given a role, archived, and deleted after that (deleteUser, RoleGuard).
THEOREM AccountsFollowLifecycle == Spec => ImplementsLifecycle
<1>1. Init => Life!Init
  <2>1. Init => \A i \in Ids : users[i].there = "no"
    BY DefaultsTyped DEF Init
  <2>2. ASSUME Init, NEW i \in Ids
        PROVE  Stage(i) = "absent"
    <3>1. users[i].there = "no"
      BY <2>1, <2>2
    <3> QED
      BY <3>1 DEF Stage, Live
  <2> QED
    BY <2>2 DEF Init, Life!Init
<1>2. IInv /\ [Next]_vars => [Life!Next]_LifeVars
  BY StepLives
<1> QED
  BY <1>1, <1>2, AccountInvariant, PTL DEF Spec, ImplementsLifecycle, Life!Spec, LifeVars
=============================================================================
