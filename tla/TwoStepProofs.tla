--------------------------- MODULE TwoStepProofs ---------------------------
(***************************************************************************)
(* Type correctness of TwoStep; that promotions one at a time leave one    *)
(* primary method; that a challenge is used once, as OneTime says; and     *)
(* that verifications one at a time never turn a counter back.             *)
(***************************************************************************)
EXTENDS TwoStep, TLAPS

LEMMA IdleTyped ==
    /\ Idle \in Request /\ Idle.at = "idle" /\ Idle.op = "code" /\ Idle.primary = FALSE
    /\ [Idle EXCEPT !.at = "log"] \in Request
<1>1. (CHOOSE k \in Creds : TRUE) \in Creds
  BY OpsAssumption
<1>2. Idle \in Request
  BY <1>1, BoundsAssumption DEF Idle, Request, Labels, AllOps, MethodTypes
<1>3. [Idle EXCEPT !.at = "log"] \in Request
  BY <1>2 DEF Request, Labels
<1> QED
  BY <1>2, <1>3 DEF Idle

\* What a client may send is typed, and waits for the first await of its operation.
LEMMA NewTyped ==
    ASSUME NEW op \in AllOps, NEW b \in BOOLEAN
    PROVE  /\ New(op, b) \in Request /\ New(op, b).op = op /\ New(op, b).primary = b
           /\ New(op, b).at = FirstAwait(op, b)
<1>1. FirstAwait(op, b) \in Labels
  BY DEF FirstAwait, AllOps, Labels
<1> QED
  BY <1>1, IdleTyped DEF New, Request, Idle

LEMMA ArriveTyped ==
    ASSUME TypeOK, NEW p \in Procs, Arrive(p)
    PROVE  \E r \in Request : Start(p, r) /\ r.at = FirstAwait(r.op, r.primary)
<1>1. ASSUME NEW r, NEW b \in BOOLEAN, NEW e \in BOOLEAN, NEW k \in Kinds,
             r = [New("create", b) EXCEPT !.kind = k, !.enabled = e]
      PROVE  r \in Request /\ r.at = FirstAwait(r.op, r.primary)
  <2>1. New("create", b) \in Request /\ New("create", b).at = FirstAwait("create", b)
        /\ New("create", b).op = "create" /\ New("create", b).primary = b
    BY NewTyped DEF AllOps
  <2> HIDE DEF New
  <2>2. r.at = FirstAwait(r.op, r.primary)
    BY <1>1, <2>1 DEF Request
  <2> QED
    BY <1>1, <2>1, <2>2, OpsAssumption DEF Request
<1>2. ASSUME NEW r, NEW b \in BOOLEAN, NEW e \in BOOLEAN, NEW i \in 1..(nextMethod - 1),
             r = [New("update", b) EXCEPT !.id = i, !.enabled = e]
      PROVE  r \in Request /\ r.at = FirstAwait(r.op, r.primary)
  <2>1. New("update", b) \in Request /\ New("update", b).at = FirstAwait("update", b)
        /\ New("update", b).op = "update" /\ New("update", b).primary = b
    BY NewTyped DEF AllOps
  <2>2. r.at = FirstAwait(r.op, r.primary)
    BY <1>2, <2>1 DEF Request
  <2>3. i \in Nat
    BY DEF TypeOK
  <2> QED
    BY <1>2, <2>1, <2>2, <2>3 DEF Request
<1>3. ASSUME NEW r, NEW i \in 1..(nextMethod - 1), r = [New("delete", FALSE) EXCEPT !.id = i]
      PROVE  r \in Request /\ r.at = FirstAwait(r.op, r.primary)
  <2>1. New("delete", FALSE) \in Request /\ New("delete", FALSE).at = FirstAwait("delete", FALSE)
        /\ New("delete", FALSE).op = "delete" /\ New("delete", FALSE).primary = FALSE
    BY NewTyped DEF AllOps
  <2>2. r.at = FirstAwait(r.op, r.primary)
    BY <1>3, <2>1 DEF Request
  <2>3. i \in Nat
    BY DEF TypeOK
  <2> QED
    BY <1>3, <2>1, <2>2, <2>3 DEF Request
<1>4. ASSUME NEW r, NEW op \in {"code", "askreg", "askauth"}, r = New(op, FALSE)
      PROVE  r \in Request /\ r.at = FirstAwait(r.op, r.primary)
  <2>1. op \in AllOps
    BY DEF AllOps
  <2> HIDE DEF New, FirstAwait
  <2> QED
    BY <1>4, <2>1, NewTyped
<1>5. ASSUME NEW r, NEW op \in {"add", "sign"}, NEW k \in Creds, NEW n \in 0..MaxCount, NEW c \in given,
             r = [New(op, FALSE) EXCEPT !.cred = k, !.count = n, !.resp = c]
      PROVE  r \in Request /\ r.at = FirstAwait(r.op, r.primary)
  <2>1. New(op, FALSE) \in Request /\ New(op, FALSE).at = FirstAwait(op, FALSE)
        /\ New(op, FALSE).op = op /\ New(op, FALSE).primary = FALSE
    BY NewTyped DEF AllOps
  <2>2. r.at = FirstAwait(r.op, r.primary)
    BY <1>5, <2>1 DEF Request
  <2>3. c \in 0..MaxChallenges /\ n \in Nat
    BY BoundsAssumption DEF TypeOK, Challenges
  <2> QED
    BY <1>5, <2>1, <2>2, <2>3 DEF Request
<1> HIDE DEF New
<1>6. \/ \E b, e \in BOOLEAN, k \in Kinds :
            Start(p, [New("create", b) EXCEPT !.kind = k, !.enabled = e])
      \/ \E b, e \in BOOLEAN, i \in 1..(nextMethod - 1) :
            Start(p, [New("update", b) EXCEPT !.id = i, !.enabled = e])
      \/ \E i \in 1..(nextMethod - 1) : Start(p, [New("delete", FALSE) EXCEPT !.id = i])
      \/ \E op \in {"code", "askreg", "askauth"} : Start(p, New(op, FALSE))
      \/ \E op \in {"add", "sign"}, k \in Creds, n \in 0..MaxCount, c \in given :
            Start(p, [New(op, FALSE) EXCEPT !.cred = k, !.count = n, !.resp = c])
  BY DEF Arrive
<1> HIDE DEF Arrive
<1> QED
  BY <1>1, <1>2, <1>3, <1>4, <1>5, <1>6

-----------------------------------------------------------------------------
(* What a step of a request does to its own record. *)

\* Request p goes on as r.
Follows(p, r) == r \in Request /\ Become(p, r)

LEMMA GotoFollows ==
    ASSUME TypeOK, NEW p \in Procs, NEW l \in Labels, Goto(p, l)
    PROVE  Follows(p, [rq[p] EXCEPT !.at = l])
<1>1. rq[p] \in Request
  BY DEF TypeOK
<1> QED
  BY <1>1 DEF Goto, Follows, Request

LEMMA ReplyFollows == ASSUME NEW p, Reply(p) PROVE Follows(p, Idle)
BY IdleTyped DEF Reply, Follows

LEMMA FinishFollows == ASSUME NEW p, Finish(p) PROVE Follows(p, [Idle EXCEPT !.at = "log"])
BY IdleTyped DEF Finish, Follows

LEMMA PromoteFollows ==
    ASSUME TypeOK, NEW p \in Procs, Promote(p)
    PROVE  Follows(p, [rq[p] EXCEPT !.at = IF rq[p].op = "update" THEN "u_log" ELSE "insert",
                                    !.aim = 0, !.was = FALSE])
<1> DEFINE l == IF rq[p].op = "update" THEN "u_log" ELSE "insert"
<1>1. rq[p] \in Request
  BY DEF TypeOK
<1>2. l \in Labels
  BY DEF Labels
<1> HIDE DEF l
<1>3. [rq[p] EXCEPT !.at = l, !.aim = 0, !.was = FALSE] \in Request
  BY <1>1, <1>2 DEF Request
<1> QED
  BY <1>3 DEF Promote, Follows, l

\* Its operation and flag stay, or nothing is left to do but the log.
Keeps(p, r) ==
    \/ r.op = rq[p].op /\ r.primary = rq[p].primary
    \/ r.op = "code" /\ r.primary = FALSE

Continues(p) == \E r : Follows(p, r) /\ Keeps(p, r) /\ Placed(r)

LEMMA ReplyContinues == ASSUME NEW p, Reply(p) PROVE Continues(p)
<1>1. Follows(p, Idle)
  BY ReplyFollows
<1>2. Keeps(p, Idle) /\ Placed(Idle)
  BY IdleTyped DEF Keeps, Placed
<1> QED
  BY <1>1, <1>2 DEF Continues

LEMMA FinishContinues == ASSUME NEW p, Finish(p) PROVE Continues(p)
<1> DEFINE r == [Idle EXCEPT !.at = "log"]
<1>1. Follows(p, r)
  BY FinishFollows
<1>2. r.at = "log" /\ r.op = "code" /\ r.primary = FALSE
  BY IdleTyped DEF Request
<1>3. Keeps(p, r) /\ Placed(r)
  BY <1>2 DEF Keeps, Placed
<1> QED
  BY <1>1, <1>3 DEF Continues

LEMMA GotoContinues ==
    ASSUME TypeOK, NEW p \in Procs, NEW l \in Labels, Goto(p, l), Placed([rq[p] EXCEPT !.at = l])
    PROVE  Continues(p)
<1>1. Keeps(p, [rq[p] EXCEPT !.at = l])
  BY DEF Keeps, TypeOK, Request
<1> QED
  BY <1>1, GotoFollows DEF Continues

\* A record that differs from the request's in what the guards do not look at.
LEMMA BecomeContinues ==
    ASSUME TypeOK, NEW p \in Procs, NEW r \in Request, Become(p, r),
           r.op = rq[p].op, r.primary = rq[p].primary, Placed(r)
    PROVE  Continues(p)
BY DEF Continues, Follows, Keeps

LEMMA PromoteContinues ==
    ASSUME TypeOK, PlacesOK, NEW p \in Procs, Promote(p), At(p, "find") \/ At(p, "demote")
    PROVE  Continues(p)
<1> DEFINE r == [rq[p] EXCEPT !.at = IF rq[p].op = "update" THEN "u_log" ELSE "insert",
                              !.aim = 0, !.was = FALSE]
<1>1. rq[p] \in Request /\ Placed(rq[p])
  BY DEF TypeOK, PlacesOK
<1>2. r.op = rq[p].op /\ r.primary = rq[p].primary
      /\ r.at = IF rq[p].op = "update" THEN "u_log" ELSE "insert"
  BY <1>1 DEF Request
<1>3. Placed(r)
  BY <1>1, <1>2 DEF Placed, Promotes, At
<1>4. Follows(p, r)
  BY PromoteFollows
<1> QED
  BY <1>2, <1>3, <1>4 DEF Continues, Keeps

LEMMA MethodContinues ==
    ASSUME TypeOK, PlacesOK, NEW p \in Procs, MethodStep(p)
    PROVE  Continues(p)
<1> USE ReplyContinues, FinishContinues, PromoteContinues
<1>0. rq[p] \in Request /\ Placed(rq[p])
  BY DEF TypeOK, PlacesOK
<1>1. CASE FindPrimary(p)
  <2>1. ASSUME NEW m \in Primaries,
               Become(p, [rq[p] EXCEPT !.at = "demote", !.aim = m.id, !.was = m.enabled])
        PROVE  Continues(p)
    <3>1. m.id \in Nat /\ m.enabled \in BOOLEAN
      BY DEF Primaries, TypeOK, Method
    <3>2. /\ [rq[p] EXCEPT !.at = "demote", !.aim = m.id, !.was = m.enabled] \in Request
          /\ Placed([rq[p] EXCEPT !.at = "demote", !.aim = m.id, !.was = m.enabled])
      BY <1>0, <1>1, <3>1 DEF Request, Labels, Placed, FindPrimary, At
    <3> QED
      BY <1>0, <2>1, <3>2, BecomeContinues DEF Request
  <2> QED
    BY <1>1, <2>1 DEF FindPrimary
<1>2. CASE Demote(p)
  BY <1>2 DEF Demote
<1>3. CASE InsertMethod(p)
  BY <1>3 DEF InsertMethod
<1>4. CASE FindMethod(p)
  <2>1. ASSUME At(p, "u_find"), NEW l \in {"find", "u_log"}, Goto(p, l),
               l = "find" => rq[p].primary
        PROVE  Continues(p)
    <3>1. l \in Labels /\ Placed([rq[p] EXCEPT !.at = l])
      BY <1>0, <2>1 DEF Labels, Placed, Promotes, Request, At
    <3> QED
      BY <2>1, <3>1, GotoContinues
  <2>2. ASSUME Goto(p, "d_log") PROVE Continues(p)
    <3>1. "d_log" \in Labels /\ Placed([rq[p] EXCEPT !.at = "d_log"])
      BY <1>0 DEF Labels, Placed, Request
    <3> QED
      BY <2>2, <3>1, GotoContinues
  <2> QED
    BY <1>4, <2>1, <2>2 DEF FindMethod
<1>5. CASE WriteMethod(p)
  BY <1>5 DEF WriteMethod
<1>6. CASE DeleteMethod(p)
  BY <1>6 DEF DeleteMethod
<1>7. CASE VerifyCode(p)
  BY <1>7 DEF VerifyCode
<1>8. CASE LogActivity(p)
  <2>1. ASSUME NEW l \in {"u_write", "d_del"}, Goto(p, l), l = "u_write" => At(p, "u_log")
        PROVE  Continues(p)
    <3>1. l \in Labels /\ Placed([rq[p] EXCEPT !.at = l])
      BY <1>0, <2>1 DEF Labels, Placed, Request, At
    <3> QED
      BY <2>1, <3>1, GotoContinues
  <2> QED
    BY <1>8, <2>1 DEF LogActivity
<1> QED
  BY <1>1, <1>2, <1>3, <1>4, <1>5, <1>6, <1>7, <1>8 DEF MethodStep

LEMMA PasskeyContinues ==
    ASSUME TypeOK, PlacesOK, NEW p \in Procs, PasskeyStep(p)
    PROVE  Continues(p)
<1> USE ReplyContinues, FinishContinues
<1>0. rq[p] \in Request /\ Placed(rq[p])
  BY DEF TypeOK, PlacesOK
\* Going on to label l, where the operation is what l asks for.
<1>g. ASSUME NEW l \in {"k_list", "take", "p_exists", "find", "p_cred", "s_count"}, Goto(p, l),
             l = "take" => At(p, "user"), l = "p_exists" => At(p, "p_cred"),
             l = "find" => At(p, "p_exists"), l = "p_cred" => rq[p].op = "add",
             l = "s_count" => At(p, "s_find")
      PROVE  Continues(p)
  <2>1. l \in Labels /\ Placed([rq[p] EXCEPT !.at = l])
    BY <1>0, <1>g DEF Labels, Placed, Request, At, Promotes
  <2> QED
    BY <1>g, <2>1, GotoContinues
<1>1. CASE ReadUser(p)
  BY <1>1, <1>g DEF ReadUser
<1>2. CASE GenerateOptions(p)
  <2> DEFINE r == [rq[p] EXCEPT !.at = "k_set", !.chal = issued + 1]
  <2>1. issued + 1 \in 0..MaxChallenges /\ issued + 1 # 0
    BY <1>2, BoundsAssumption DEF GenerateOptions, TypeOK
  <2>2. "k_set" \in Labels
    BY DEF Labels
  <2>3. r \in Request /\ r.at = "k_set" /\ r.chal # 0 /\ r.op = rq[p].op /\ r.primary = rq[p].primary
    BY <1>0, <2>1, <2>2 DEF Request
  <2>4. Placed(r)
    BY <2>3 DEF Placed
  <2> QED
    BY <1>2, <2>3, <2>4, BecomeContinues DEF GenerateOptions
<1>3. CASE SetChallenge(p)
  <2> DEFINE r == [rq[p] EXCEPT !.at = "k_log"]
  <2>1. r \in Request /\ r.op = rq[p].op /\ r.primary = rq[p].primary /\ Placed(r)
    BY <1>0, <1>3 DEF Request, Labels, Placed, SetChallenge, At
  <2> QED
    BY <1>3, <2>1, BecomeContinues DEF SetChallenge, GotoOrFail
<1>4. CASE TakeChallenge(p)
  <2> DEFINE c == slot[Active][Key(p)]
             r == [rq[p] EXCEPT !.at = "s_find", !.chal = c]
  <2>1. c \in 0..MaxChallenges
    BY DEF TypeOK, Active, Key, Stores, Keys
  <2>2. ASSUME Become(p, r), rq[p].op # "add" PROVE Continues(p)
    <3> HIDE DEF c
    <3>1. r \in Request /\ r.op = rq[p].op /\ r.primary = rq[p].primary /\ Placed(r)
      BY <1>0, <1>4, <2>1, <2>2 DEF Request, Labels, Placed, TakeChallenge, At
    <3> QED
      BY <2>2, <3>1, BecomeContinues
  <2>3. \/ Reply(p)
        \/ Goto(p, "p_cred") /\ rq[p].op = "add"
        \/ Become(p, r) /\ rq[p].op # "add"
    BY <1>4 DEF TakeChallenge, GotoOrFail
  <2> QED
    BY <1>g, <2>2, <2>3
<1>5. CASE CreatePasskey(p)
  BY <1>5, <1>g DEF CreatePasskey
<1>6. CASE FindPasskeys(p)
  <2>1. ASSUME NEW m \in methods, Become(p, [rq[p] EXCEPT !.at = "p_enable", !.aim = m.id])
        PROVE  Continues(p)
    <3> DEFINE r == [rq[p] EXCEPT !.at = "p_enable", !.aim = m.id]
    <3>1. r \in Request /\ r.op = rq[p].op /\ r.primary = rq[p].primary /\ Placed(r)
      BY <1>0 DEF Request, Labels, Placed, TypeOK, Method
    <3> QED
      BY <2>1, <3>1, BecomeContinues
  <2> QED
    BY <1>6, <1>g, <2>1 DEF FindPasskeys
<1>7. CASE EnableMethod(p)
  BY <1>7 DEF EnableMethod
<1>8. CASE FindPasskey(p)
  BY <1>8, <1>g DEF FindPasskey
<1>9. CASE WriteCounter(p)
  BY <1>9 DEF WriteCounter
<1> QED
  BY <1>1, <1>2, <1>3, <1>4, <1>5, <1>6, <1>7, <1>8, <1>9 DEF PasskeyStep

-----------------------------------------------------------------------------
(* Requests stay typed, in their place and, where Solo says so, alone. *)

RequestsOK == rq \in [Procs -> Request] /\ PlacesOK /\ SoloOK

LEMMA ContinuesOK ==
    ASSUME TypeOK, PlacesOK, SoloOK, NEW p \in Procs, Continues(p)
    PROVE  RequestsOK' /\ \A q \in Procs : q # p => rq'[q] = rq[q]
<1>1. PICK r : r \in Request /\ Become(p, r) /\ Keeps(p, r) /\ Placed(r)
  BY DEF Continues, Follows
<1>2. rq \in [Procs -> Request]
  BY DEF TypeOK
<1>3. rq' \in [Procs -> Request] /\ rq'[p] = r /\ \A q \in Procs : q # p => rq'[q] = rq[q]
  BY <1>1, <1>2 DEF Become
<1>4. PlacesOK'
  BY <1>1, <1>3 DEF PlacesOK
<1>5. ASSUME NEW q \in Procs PROVE ClassesOf(q)' \subseteq ClassesOf(q)
  <2>1. CASE q = p
    BY <1>1, <1>3, <2>1 DEF ClassesOf, Classes, Promotes, Keeps
  <2>2. CASE q # p
    BY <1>3, <2>2 DEF ClassesOf
  <2> QED
    BY <2>1, <2>2
<1>6. SoloOK'
  BY <1>5 DEF SoloOK
<1> QED
  BY <1>3, <1>4, <1>6 DEF RequestsOK

LEMMA ArriveOK ==
    ASSUME TypeOK, PlacesOK, SoloOK, NEW p \in Procs, Arrive(p)
    PROVE  /\ RequestsOK' /\ \A q \in Procs : q # p => rq'[q] = rq[q]
           /\ \E r \in Request : /\ Become(p, r) /\ rq'[p] = r
                                 /\ r.at = FirstAwait(r.op, r.primary)
           /\ UNCHANGED <<tables, stores, issued, given, used>>
<1>1. PICK r \in Request : Start(p, r) /\ r.at = FirstAwait(r.op, r.primary)
  BY ArriveTyped
<1>2. /\ Become(p, r)
      /\ \A q \in Procs : q = p \/ ClassesOf(q) \cap Classes(r.op, r.primary) \cap Solo = {}
      /\ UNCHANGED <<tables, stores, issued, given, used>>
  BY <1>1 DEF Start
<1>3. rq \in [Procs -> Request]
  BY DEF TypeOK
<1>4. rq' \in [Procs -> Request] /\ rq'[p] = r /\ \A q \in Procs : q # p => rq'[q] = rq[q]
  BY <1>2, <1>3 DEF Become
<1>5. r.op \in AllOps
  BY DEF Request
<1>6. Placed(r)
  BY <1>1, <1>5 DEF Placed, FirstAwait, Promotes, AllOps
<1>7. PlacesOK'
  BY <1>4, <1>6 DEF PlacesOK
<1>8. ClassesOf(p)' = Classes(r.op, r.primary) /\ \A q \in Procs : q # p => ClassesOf(q)' = ClassesOf(q)
  BY <1>4 DEF ClassesOf
<1>9. SoloOK'
  BY <1>2, <1>8 DEF SoloOK
<1> QED
  BY <1>1, <1>2, <1>4, <1>7, <1>9 DEF RequestsOK

LEMMA CrashOK == ASSUME Crash PROVE RequestsOK'
<1>1. rq' = [p \in Procs |-> Idle]
  BY DEF Crash
<1>2. rq' \in [Procs -> Request] /\ \A p \in Procs : rq'[p] = Idle
  BY <1>1, IdleTyped
<1>3. Placed(Idle) /\ Classes(Idle.op, Idle.primary) = {}
  BY IdleTyped DEF Placed, Classes, Promotes
<1>4. PlacesOK' /\ SoloOK'
  BY <1>2, <1>3 DEF PlacesOK, SoloOK, ClassesOf
<1> QED
  BY <1>2, <1>4 DEF RequestsOK

LEMMA StepRequests ==
    ASSUME TypeOK, PlacesOK, SoloOK, [Next]_vars
    PROVE  RequestsOK'
<1>1. ASSUME NEW p \in Procs, CallThrows(p) PROVE Continues(p)
  BY <1>1, ReplyContinues DEF CallThrows
<1>2. ASSUME UNCHANGED rq PROVE RequestsOK'
  BY <1>2 DEF RequestsOK, TypeOK, PlacesOK, SoloOK, ClassesOf
<1>3. CASE \E p \in Procs : Arrive(p) \/ MethodStep(p) \/ PasskeyStep(p) \/ CallThrows(p)
  BY <1>1, <1>3, ArriveOK, ContinuesOK, MethodContinues, PasskeyContinues
<1>4. CASE ExpireChallenge \/ Connect \/ Lose \/ UNCHANGED vars
  BY <1>2, <1>4 DEF ExpireChallenge, Connect, Lose, vars
<1> QED
  BY <1>3, <1>4, CrashOK DEF Next

-----------------------------------------------------------------------------
(* The tables and the stores stay typed. *)

TablesOK == methods \in SUBSET Method /\ nextMethod \in Nat \ {0} /\ passkeys \in [Creds -> Nat \cup {-1}]
StoresOK ==
    /\ slot \in [Stores -> [Keys -> 0..MaxChallenges]] /\ link \in {"connecting", "up", "lost"}
    /\ issued \in 0..MaxChallenges /\ given \in SUBSET Challenges /\ used \in [Challenges -> Nat]

LEMMA MethodTables == ASSUME TypeOK, NEW p \in Procs, MethodStep(p) PROVE TablesOK'
<1>0. rq[p] \in Request /\ TablesOK
  BY DEF TypeOK, TablesOK
<1>1. CASE Demote(p)
  <2> DEFINE f(m) == IF m.id # rq[p].aim THEN m
                     ELSE [m EXCEPT !.primary = FALSE, !.enabled = rq[p].was]
  <2>1. methods' = {f(m) : m \in methods} \/ UNCHANGED methods
    BY <1>1 DEF Demote
  <2>2. \A m \in methods : f(m) \in Method
    BY <1>0 DEF Method, TablesOK, Request
  <2> HIDE DEF f
  <2>3. methods' \in SUBSET Method
    BY <1>0, <2>1, <2>2 DEF TablesOK
  <2> QED
    BY <1>0, <1>1, <2>3 DEF Demote, TablesOK
<1>2. CASE InsertMethod(p)
  <2> DEFINE new == [id |-> nextMethod, kind |-> IF rq[p].op = "add" THEN "PASSKEYS" ELSE rq[p].kind,
                     primary |-> rq[p].op = "add" \/ rq[p].primary,
                     enabled |-> rq[p].op = "add" \/ rq[p].enabled]
  <2>1. new \in Method
    BY <1>0 DEF Method, TablesOK, Request, MethodTypes
  <2>2. methods' = methods \cup {new} /\ nextMethod' = nextMethod + 1 /\ UNCHANGED passkeys
    BY <1>2 DEF InsertMethod
  <2> HIDE DEF new
  <2> QED
    BY <1>0, <2>1, <2>2 DEF TablesOK
<1>3. CASE WriteMethod(p)
  <2> DEFINE f(m) == IF m.id # rq[p].id THEN m
                     ELSE [m EXCEPT !.primary = rq[p].primary, !.enabled = rq[p].enabled]
  <2>1. methods' = {f(m) : m \in methods} /\ \A m \in methods : f(m) \in Method
    BY <1>0, <1>3 DEF WriteMethod, Method, TablesOK, Request
  <2> HIDE DEF f
  <2>2. methods' \in SUBSET Method
    BY <2>1
  <2> QED
    BY <1>0, <1>3, <2>2 DEF WriteMethod, TablesOK
<1>4. CASE DeleteMethod(p)
  BY <1>0, <1>4 DEF DeleteMethod, TablesOK
<1>5. CASE FindPrimary(p) \/ FindMethod(p) \/ VerifyCode(p) \/ LogActivity(p)
  BY <1>0, <1>5 DEF FindPrimary, FindMethod, VerifyCode, LogActivity, TablesOK, tables
<1> QED
  BY <1>1, <1>2, <1>3, <1>4, <1>5 DEF MethodStep

LEMMA PasskeyTables == ASSUME TypeOK, NEW p \in Procs, PasskeyStep(p) PROVE TablesOK'
<1>0. rq[p] \in Request /\ TablesOK
  BY DEF TypeOK, TablesOK
<1>1. CASE CreatePasskey(p) \/ WriteCounter(p)
  <2>1. passkeys' \in [Creds -> Nat \cup {-1}]
    BY <1>0, <1>1 DEF CreatePasskey, WriteCounter, TablesOK, Request
  <2> QED
    BY <1>0, <1>1, <2>1 DEF CreatePasskey, WriteCounter, TablesOK
<1>2. CASE EnableMethod(p)
  <2>1. methods' \in SUBSET Method
    BY <1>0, <1>2 DEF Method, TablesOK, EnableMethod
  <2> QED
    BY <1>0, <1>2, <2>1 DEF EnableMethod, TablesOK
<1>3. CASE ReadUser(p) \/ GenerateOptions(p) \/ SetChallenge(p) \/ TakeChallenge(p)
           \/ FindPasskeys(p) \/ FindPasskey(p)
  BY <1>0, <1>3 DEF ReadUser, GenerateOptions, SetChallenge, TakeChallenge, FindPasskeys,
                    FindPasskey, TablesOK, tables
<1> QED
  BY <1>1, <1>2, <1>3 DEF PasskeyStep

\* The challenge of a request that stores it, compares with it or answers with it.
LEMMA PasskeyStores == ASSUME TypeOK, ChallengesOK, NEW p \in Procs, PasskeyStep(p) PROVE StoresOK'
<1>0. rq[p] \in Request /\ StoresOK
  BY DEF TypeOK, StoresOK
<1>1. Active \in Stores /\ Key(p) \in Keys
  BY DEF Active, Key, Stores, Keys
<1>2. CASE GenerateOptions(p)
  BY <1>0, <1>2, BoundsAssumption DEF GenerateOptions, StoresOK, stores
<1>3. CASE SetChallenge(p)
  <2>1. rq[p].chal \in 0..MaxChallenges
    BY <1>0 DEF Request
  <2>2. slot' \in [Stores -> [Keys -> 0..MaxChallenges]]
    BY <1>0, <1>1, <1>3, <2>1 DEF SetChallenge, StoresOK
  <2> QED
    BY <1>0, <1>3, <2>2 DEF SetChallenge, StoresOK
<1>4. CASE TakeChallenge(p)
  <2> DEFINE c == slot[Active][Key(p)]
  <2>1. slot' = [slot EXCEPT ![Active][Key(p)] = 0] /\ UNCHANGED <<link, issued, given>>
        /\ (used' = used \/ (c # 0 /\ used' = [used EXCEPT ![c] = @ + 1]))
    BY <1>4 DEF TakeChallenge, GotoOrFail
  <2>2. slot' \in [Stores -> [Keys -> 0..MaxChallenges]]
    BY <1>0, <1>1, <2>1, BoundsAssumption DEF StoresOK
  <2>3. c \in 0..MaxChallenges
    BY <1>0, <1>1 DEF StoresOK
  <2> HIDE DEF c
  <2>4. used' \in [Challenges -> Nat]
    BY <1>0, <2>1, <2>3 DEF StoresOK, Challenges
  <2> QED
    BY <1>0, <2>1, <2>2, <2>4 DEF StoresOK
<1>5. CASE FindPasskey(p)
  <2>1. used' = used \/ used' = [used EXCEPT ![rq[p].chal] = @ + 1]
    BY <1>5 DEF FindPasskey
  <2>2. used' \in [Challenges -> Nat]
    BY <1>0, <2>1 DEF StoresOK
  <2> QED
    BY <1>0, <1>5, <2>2 DEF FindPasskey, StoresOK, stores
<1>6. CASE ReadUser(p) \/ CreatePasskey(p) \/ FindPasskeys(p) \/ EnableMethod(p) \/ WriteCounter(p)
  BY <1>0, <1>6 DEF ReadUser, CreatePasskey, FindPasskeys, EnableMethod, WriteCounter, StoresOK, stores
<1> QED
  BY <1>2, <1>3, <1>4, <1>5, <1>6 DEF PasskeyStep

LEMMA MethodStores ==
    ASSUME TypeOK, PlacesOK, NEW p \in Procs, MethodStep(p)
    PROVE  StoresOK' /\ UNCHANGED <<stores, issued, used>>
<1>0. rq[p] \in Request /\ Placed(rq[p]) /\ StoresOK
  BY DEF TypeOK, PlacesOK, StoresOK
<1>1. CASE LogActivity(p)
  <2>1. At(p, "k_log") => rq[p].chal \in Challenges
    BY <1>0, BoundsAssumption DEF At, Placed, Request, Challenges
  <2>2. given' \in SUBSET Challenges
    BY <1>0, <1>1, <2>1 DEF LogActivity, StoresOK
  <2> QED
    BY <1>0, <1>1, <2>2 DEF LogActivity, StoresOK, stores
<1>2. CASE FindPrimary(p) \/ Demote(p) \/ InsertMethod(p) \/ FindMethod(p) \/ WriteMethod(p)
           \/ DeleteMethod(p) \/ VerifyCode(p)
  BY <1>0, <1>2 DEF FindPrimary, Demote, InsertMethod, FindMethod, WriteMethod, DeleteMethod,
                    VerifyCode, StoresOK, stores
<1> QED
  BY <1>1, <1>2 DEF MethodStep

LEMMA StepTyped ==
    ASSUME TypeOK, PlacesOK, SoloOK, ChallengesOK, [Next]_vars
    PROVE  TypeOK' /\ PlacesOK' /\ SoloOK'
<1>0. TablesOK /\ StoresOK
  BY DEF TypeOK, TablesOK, StoresOK
<1>1. ASSUME UNCHANGED tables PROVE TablesOK'
  BY <1>0, <1>1 DEF tables, TablesOK
<1>2. ASSUME UNCHANGED <<stores, issued, given, used>> PROVE StoresOK'
  BY <1>0, <1>2 DEF stores, StoresOK
<1>3. ASSUME NEW p \in Procs, Arrive(p) \/ MethodStep(p) \/ PasskeyStep(p) \/ CallThrows(p)
      PROVE  TablesOK' /\ StoresOK'
  <2>1. CASE Arrive(p)
    BY <1>1, <1>2, <2>1, ArriveOK
  <2>2. CASE MethodStep(p)
    BY <2>2, MethodTables, MethodStores
  <2>3. CASE PasskeyStep(p)
    BY <2>3, PasskeyTables, PasskeyStores
  <2>4. CASE CallThrows(p)
    BY <1>1, <1>2, <2>4 DEF CallThrows
  <2> QED
    BY <1>3, <2>1, <2>2, <2>3, <2>4
<1>4. ASSUME ExpireChallenge \/ Connect \/ Lose \/ Crash \/ UNCHANGED vars PROVE TablesOK' /\ StoresOK'
  <2>1. UNCHANGED tables
    BY <1>4 DEF ExpireChallenge, Connect, Lose, Crash, vars
  <2>2. slot' \in [Stores -> [Keys -> 0..MaxChallenges]]
    BY <1>0, <1>4, BoundsAssumption
       DEF ExpireChallenge, Connect, Lose, Crash, Forget, vars, stores, StoresOK
  <2>3. link' \in {"connecting", "up", "lost"} /\ UNCHANGED <<issued, given, used>>
    BY <1>0, <1>4 DEF ExpireChallenge, Connect, Lose, Crash, vars, stores, StoresOK
  <2> QED
    BY <1>0, <1>1, <2>1, <2>2, <2>3 DEF StoresOK
<1>5. TablesOK' /\ StoresOK'
  BY <1>3, <1>4 DEF Next
<1>6. RequestsOK'
  BY StepRequests
<1> QED
  BY <1>5, <1>6 DEF TablesOK, StoresOK, RequestsOK, TypeOK

-----------------------------------------------------------------------------
(* Methods: a step that makes none primary, and the ones that do. *)

\* No method but those that were primary is, and ids stay unique.
Shrinks == IdsOK' /\ \A m \in Primaries' : \E n \in Primaries : n.id = m.id

LEMMA ShrinksKeeps ==
    ASSUME Shrinks
    PROVE  /\ OnePrimary => OnePrimary'
           /\ \A q \in Procs : rq'[q] = rq[q] /\ Cleared(q) => Cleared(q)'
<1>1. \A m, n \in Primaries' : m.id = n.id => m = n
  BY DEF Shrinks, IdsOK, Primaries
<1>2. OnePrimary => OnePrimary'
  BY <1>1 DEF Shrinks, OnePrimary
<1>3. ASSUME NEW q \in Procs, rq'[q] = rq[q], Cleared(q) PROVE Cleared(q)'
  <2>1. ASSUME At(q, "demote"), NEW m \in Primaries' PROVE m.id = rq'[q].aim
    BY <1>3, <2>1 DEF Shrinks, Cleared
  <2>2. (At(q, "insert") \/ (At(q, "u_log") \/ At(q, "u_write"))) => Primaries' = {}
    BY <1>3 DEF Shrinks, Cleared
  <2> QED
    BY <1>3, <2>1, <2>2 DEF Cleared, At
<1> QED
  BY <1>2, <1>3

LEMMA UnchangedShrinks ==
    ASSUME TypeOK, IdsOK, UNCHANGED <<methods, nextMethod>> PROVE Shrinks
BY DEF Shrinks, IdsOK, Primaries

\* Rows are rewritten in place, none becomes primary.
LEMMA RewriteShrinks ==
    ASSUME TypeOK, IdsOK, UNCHANGED nextMethod, NEW f, methods' = {f[m] : m \in methods},
           \A m \in methods : f[m].id = m.id /\ (f[m].primary => m.primary)
    PROVE  Shrinks
<1>1. \A m \in methods' : m.id < nextMethod'
  BY DEF IdsOK
<1>2. ASSUME NEW m \in methods', NEW n \in methods', m.id = n.id PROVE m = n
  BY <1>2 DEF IdsOK
<1>3. ASSUME NEW m \in Primaries' PROVE \E n \in Primaries : n.id = m.id
  BY DEF Primaries
<1> QED
  BY <1>1, <1>2, <1>3 DEF Shrinks, IdsOK

\* A row nobody else promotes is made the one primary method.
LEMMA SolePromoter ==
    ASSUME SoloOK, PromotionOK, "promote" \in Solo, NEW p \in Procs, "promote" \in ClassesOf(p)
    PROVE  Cleared(p) /\ \A q \in Procs : q # p => "promote" \notin ClassesOf(q)
BY DEF SoloOK, PromotionOK

\* The requests but p keep what they promised, if none is made primary or p
\* is the sole promoter; what p promises is left to show.
LEMMA OthersPromise ==
    ASSUME SoloOK, PromotionOK, NEW p \in Procs, \A q \in Procs : q # p => rq'[q] = rq[q],
           Shrinks \/ "promote" \in ClassesOf(p),
           "promote" \in Solo /\ "promote" \in ClassesOf(p)' => Cleared(p)'
    PROVE  PromotionOK'
<1> SUFFICES ASSUME "promote" \in Solo, NEW q \in Procs, "promote" \in ClassesOf(q)'
             PROVE  Cleared(q)'
  BY DEF PromotionOK
<1>1. CASE q # p
  <2>1. ClassesOf(q) = ClassesOf(q)'
    BY <1>1 DEF ClassesOf
  <2>2. Shrinks
    BY <1>1, <2>1, SolePromoter
  <2>3. Cleared(q)
    BY <2>1 DEF PromotionOK
  <2> QED
    BY <1>1, <2>2, <2>3, ShrinksKeeps
<1> QED
  BY <1>1

MethodsOK == IdsOK /\ PromotionOK /\ OnePrimary
PartsOK == TypeOK /\ PlacesOK /\ SoloOK

\* Not promoting any more.
LEMMA DonePromises ==
    ASSUME NEW p \in Procs, rq'[p].at \notin {"demote", "insert", "u_log", "u_write"}
    PROVE  Cleared(p)'
BY DEF Cleared, At

LEMMA LeavesMoves ==
    ASSUME TypeOK, NEW p \in Procs, Reply(p) \/ Finish(p)
    PROVE  rq'[p].at \in {"idle", "log"}
<1>1. Idle.at = "idle" /\ [Idle EXCEPT !.at = "log"].at = "log"
  BY IdleTyped DEF Request
<1> QED
  BY <1>1 DEF Reply, Finish, Become, TypeOK

LEMMA GotoMoves == ASSUME TypeOK, NEW p \in Procs, NEW l, Goto(p, l) PROVE rq'[p] = [rq[p] EXCEPT !.at = l]
BY DEF Goto, Become, TypeOK

LEMMA PromoteMoves ==
    ASSUME TypeOK, NEW p \in Procs, Promote(p), Primaries' = {}
    PROVE  Cleared(p)'
<1>1. rq'[p].at \in {"u_log", "insert"}
  BY DEF Promote, Become, TypeOK, Request
<1> QED
  BY <1>1 DEF Cleared, At

LEMMA DemoteMethods ==
    ASSUME PartsOK, MethodsOK, NEW p \in Procs, Demote(p)
    PROVE  Shrinks /\ ("promote" \in Solo => Cleared(p)')
<1> USE DEF PartsOK, MethodsOK
<1>0. rq[p] \in Request /\ Placed(rq[p])
  BY DEF TypeOK, PlacesOK
<1>1. CASE WithId(rq[p].aim) = {}
  <2>1. UNCHANGED <<methods, nextMethod>> /\ Reply(p)
    BY <1>1 DEF Demote
  <2> QED
    BY <2>1, UnchangedShrinks, LeavesMoves, DonePromises
<1>2. CASE WithId(rq[p].aim) # {}
  <2> DEFINE f == [m \in methods |-> IF m.id # rq[p].aim THEN m
                                     ELSE [m EXCEPT !.primary = FALSE, !.enabled = rq[p].was]]
  <2>1. methods' = {f[m] : m \in methods} /\ UNCHANGED nextMethod /\ Promote(p)
    BY <1>2 DEF Demote
  <2>2. \A m \in methods : f[m].id = m.id /\ (f[m].primary => m.primary /\ m.id # rq[p].aim)
    BY <1>0 DEF TypeOK, Method
  <2> HIDE DEF f
  <2>3. Shrinks
    BY <2>1, <2>2, RewriteShrinks
  <2>4. ASSUME "promote" \in Solo PROVE Cleared(p)'
    <3>1. "promote" \in ClassesOf(p)
      BY <1>0 DEF Placed, ClassesOf, Classes, Demote, At
    <3>2. \A m \in Primaries : m.id = rq[p].aim
      BY <2>4, <3>1, SolePromoter DEF Cleared, Demote
    <3>3. Primaries' = {}
      BY <2>1, <2>2, <3>2 DEF Primaries
    <3> QED
      BY <2>1, <3>3, PromoteMoves
  <2> QED
    BY <2>3, <2>4
<1> QED
  BY <1>1, <1>2

\* What a step of p owes to the methods.
Promises(p) ==
    /\ IdsOK' /\ OnePrimary'
    /\ Shrinks \/ "promote" \in ClassesOf(p)
    /\ "promote" \in Solo /\ "promote" \in ClassesOf(p)' => Cleared(p)'

LEMMA ShrinksPromises ==
    ASSUME MethodsOK, Shrinks, NEW p \in Procs,
           "promote" \in Solo /\ "promote" \in ClassesOf(p)' => Cleared(p)'
    PROVE  Promises(p)
BY ShrinksKeeps DEF Promises, MethodsOK, Shrinks

LEMMA FindPrimaryMethods ==
    ASSUME PartsOK, MethodsOK, NEW p \in Procs, FindPrimary(p)
    PROVE  Promises(p)
<1> USE DEF PartsOK, MethodsOK
<1>1. UNCHANGED <<methods, nextMethod>>
  BY DEF FindPrimary, tables
<1>2. Shrinks
  BY <1>1, UnchangedShrinks
<1>3. ASSUME "promote" \in Solo PROVE Cleared(p)'
  <2>1. ASSUME Primaries = {}, Promote(p) PROVE Cleared(p)'
    BY <1>1, <2>1, PromoteMoves DEF Primaries
  <2>2. ASSUME NEW m \in Primaries,
               Become(p, [rq[p] EXCEPT !.at = "demote", !.aim = m.id, !.was = m.enabled])
        PROVE  Cleared(p)'
    <3>1. rq'[p] = [rq[p] EXCEPT !.at = "demote", !.aim = m.id, !.was = m.enabled]
      BY <2>2 DEF Become, TypeOK
    <3>2. rq'[p].at = "demote" /\ rq'[p].aim = m.id
      BY <3>1 DEF TypeOK, Request
    <3>3. \A n \in Primaries' : n.id = m.id
      BY <1>1, <1>3 DEF OnePrimary, Primaries
    <3> QED
      BY <3>2, <3>3 DEF Cleared, At
  <2> QED
    BY <2>1, <2>2 DEF FindPrimary
<1> QED
  BY <1>2, <1>3, ShrinksPromises

\* The promoter's own row, when no other method is primary.
LEMMA InsertMethods ==
    ASSUME PartsOK, MethodsOK, NEW p \in Procs, InsertMethod(p)
    PROVE  Promises(p)
<1> USE DEF PartsOK, MethodsOK
<1> DEFINE new == [id |-> nextMethod, kind |-> IF rq[p].op = "add" THEN "PASSKEYS" ELSE rq[p].kind,
                   primary |-> rq[p].op = "add" \/ rq[p].primary,
                   enabled |-> rq[p].op = "add" \/ rq[p].enabled]
<1>0. rq[p] \in Request /\ Placed(rq[p]) /\ nextMethod \in Nat
  BY DEF TypeOK, PlacesOK
<1>1. methods' = methods \cup {new} /\ nextMethod' = nextMethod + 1 /\ (Reply(p) \/ Finish(p))
  BY DEF InsertMethod
<1>2. new.id = nextMethod /\ new.primary = (rq[p].op = "add" \/ rq[p].primary)
  OBVIOUS
<1> HIDE DEF new
<1>3. \A m \in methods : m.id \in Nat /\ m.id < nextMethod
  BY DEF TypeOK, Method, IdsOK
<1>4. IdsOK'
  BY <1>0, <1>1, <1>2, <1>3 DEF IdsOK
<1>5. Cleared(p)'
  BY <1>1, LeavesMoves, DonePromises
<1>6. CASE ~new.primary
  <2>1. Shrinks
    BY <1>1, <1>4, <1>6 DEF Shrinks, Primaries
  <2> QED
    BY <1>5, <2>1, ShrinksPromises
<1>7. CASE new.primary
  <2>1. "promote" \in ClassesOf(p)
    BY <1>0, <1>2, <1>7 DEF Placed, Promotes, ClassesOf, Classes, InsertMethod, At
  <2>2. ASSUME "promote" \in Solo PROVE Primaries = {}
    BY <2>1, <2>2, SolePromoter DEF Cleared, InsertMethod
  <2>3. OnePrimary'
    BY <1>1, <2>2 DEF OnePrimary, Primaries
  <2> QED
    BY <1>4, <1>5, <2>1, <2>3 DEF Promises
<1>8. new.primary \in BOOLEAN
  BY <1>0, <1>2 DEF Request
<1> QED
  BY <1>6, <1>7

LEMMA WriteMethods ==
    ASSUME PartsOK, MethodsOK, NEW p \in Procs, WriteMethod(p)
    PROVE  Promises(p)
<1> USE DEF PartsOK, MethodsOK
<1> DEFINE f == [m \in methods |-> IF m.id # rq[p].id THEN m
                 ELSE [m EXCEPT !.primary = rq[p].primary, !.enabled = rq[p].enabled]]
<1>0. rq[p] \in Request /\ Placed(rq[p])
  BY DEF TypeOK, PlacesOK
<1>1. methods' = {f[m] : m \in methods} /\ UNCHANGED nextMethod /\ Reply(p)
  BY DEF WriteMethod
<1>2. \A m \in methods : f[m].id = m.id
                         /\ (f[m].primary => m.primary \/ (m.id = rq[p].id /\ rq[p].primary))
  BY <1>0 DEF TypeOK, Method
<1> HIDE DEF f
<1>3. Cleared(p)'
  BY <1>1, LeavesMoves, DonePromises
<1>4. CASE ~rq[p].primary
  BY <1>1, <1>2, <1>3, <1>4, RewriteShrinks, ShrinksPromises
<1>5. CASE rq[p].primary
  <2>1. "promote" \in ClassesOf(p)
    BY <1>0, <1>5 DEF Placed, Promotes, ClassesOf, Classes, WriteMethod, At
  <2>2. ASSUME "promote" \in Solo PROVE Primaries = {}
    BY <2>1, <2>2, SolePromoter DEF Cleared, WriteMethod
  <2>3. \A m \in methods' : m.id < nextMethod'
    BY <1>1, <1>2 DEF IdsOK
  <2>4. ASSUME NEW m \in methods', NEW n \in methods', m.id = n.id PROVE m = n
    BY <1>1, <1>2, <2>4 DEF IdsOK
  <2>5. ASSUME "promote" \in Solo, NEW m \in Primaries' PROVE m.id = rq[p].id
    BY <1>1, <1>2, <2>2, <2>5 DEF Primaries
  <2>6. OnePrimary'
    BY <2>4, <2>5 DEF OnePrimary, Primaries
  <2> QED
    BY <1>3, <2>1, <2>3, <2>4, <2>6 DEF Promises, IdsOK
<1> QED
  BY <1>0, <1>4, <1>5 DEF Request

LEMMA EnableMethods ==
    ASSUME PartsOK, MethodsOK, NEW p \in Procs, EnableMethod(p)
    PROVE  Promises(p)
<1> USE DEF PartsOK, MethodsOK
<1> DEFINE f == [m \in methods |-> IF m.id = rq[p].aim THEN [m EXCEPT !.enabled = TRUE] ELSE m]
<1>1. methods' = {f[m] : m \in methods} /\ UNCHANGED nextMethod /\ (Reply(p) \/ Finish(p))
  BY DEF EnableMethod
<1>2. \A m \in methods : f[m].id = m.id /\ (f[m].primary => m.primary)
  BY DEF TypeOK, Method
<1> HIDE DEF f
<1> QED
  BY <1>1, <1>2, RewriteShrinks, ShrinksPromises, LeavesMoves, DonePromises

\* Deletions and steps that only read methods.
LEMMA OtherMethods ==
    ASSUME PartsOK, MethodsOK, NEW p \in Procs,
           FindMethod(p) \/ DeleteMethod(p) \/ VerifyCode(p) \/ LogActivity(p)
    PROVE  Promises(p)
<1> USE DEF PartsOK, MethodsOK
<1>0. rq[p] \in Request /\ Placed(rq[p])
  BY DEF TypeOK, PlacesOK
<1>1. Shrinks
  <2>1. CASE DeleteMethod(p)
    BY <2>1 DEF DeleteMethod, Shrinks, IdsOK, Primaries
  <2>2. CASE UNCHANGED <<methods, nextMethod>>
    BY <2>2, UnchangedShrinks
  <2> QED
    BY <2>1, <2>2 DEF FindMethod, VerifyCode, LogActivity, tables
<1>2. CASE Reply(p) \/ Finish(p)
  BY <1>1, <1>2, ShrinksPromises, LeavesMoves, DonePromises
<1>3. ASSUME NEW l \in {"find", "u_log", "d_log", "u_write", "d_del"}, Goto(p, l),
             l = "u_log" => rq[p].op = "update" /\ ~rq[p].primary,
             l = "u_write" => At(p, "u_log"), UNCHANGED <<methods, nextMethod>>
      PROVE  Promises(p)
  <2>1. rq'[p] = [rq[p] EXCEPT !.at = l]
    BY <1>3, GotoMoves
  <2>2. rq'[p].at = l /\ rq'[p].op = rq[p].op /\ rq'[p].primary = rq[p].primary
    BY <1>0, <2>1 DEF Request
  <2>3. ASSUME "promote" \in Solo, "promote" \in ClassesOf(p)' PROVE Cleared(p)'
    <3>1. CASE l \in {"find", "d_log", "d_del"}
      BY <2>2, <3>1, DonePromises
    <3>2. CASE l = "u_log"
      BY <1>3, <2>2, <2>3, <3>2 DEF ClassesOf, Classes, Promotes
    <3>3. CASE l = "u_write"
      <4>1. "promote" \in ClassesOf(p)
        BY <2>2, <2>3 DEF ClassesOf
      <4>2. Primaries = {}
        BY <1>3, <2>3, <3>3, <4>1, SolePromoter DEF Cleared
      <4> QED
        BY <1>3, <2>2, <3>3, <4>2 DEF Cleared, At, Primaries
    <3> QED
      BY <1>3, <3>1, <3>2, <3>3
  <2> QED
    BY <1>1, <2>3, ShrinksPromises
<1>4. CASE FindMethod(p)
  <2>1. At(p, "u_find") => rq[p].op = "update"
    BY <1>0 DEF Placed, At
  <2>2. UNCHANGED <<methods, nextMethod>>
    BY <1>4 DEF FindMethod, tables
  <2> QED
    BY <1>2, <1>3, <1>4, <2>1, <2>2 DEF FindMethod
<1>5. CASE LogActivity(p)
  BY <1>2, <1>3, <1>5 DEF LogActivity, tables
<1>6. CASE DeleteMethod(p) \/ VerifyCode(p)
  BY <1>2, <1>6 DEF DeleteMethod, VerifyCode
<1> QED
  BY <1>4, <1>5, <1>6

LEMMA PasskeyMoves ==
    ASSUME TypeOK, NEW p \in Procs, PasskeyStep(p)
    PROVE  \/ rq'[p].at \in {"idle", "log", "k_list", "k_set", "k_log", "take", "p_cred", "p_exists",
                             "p_enable", "find", "s_find"}
           \/ rq'[p].at = "s_count" /\ FindPasskey(p)
<1>1. rq[p] \in Request
  BY DEF TypeOK
<1>2. ASSUME NEW l \in {"k_list", "take", "p_exists", "find", "p_cred", "s_count"}, Goto(p, l)
      PROVE  rq'[p].at = l
  <2>1. rq'[p] = [rq[p] EXCEPT !.at = l]
    BY <1>2, GotoMoves
  <2> QED
    BY <1>1, <2>1 DEF Request
<1>3. ASSUME NEW r, Become(p, r) PROVE rq'[p] = r
  BY <1>3 DEF Become, TypeOK
<1>4. CASE ReadUser(p) \/ CreatePasskey(p) \/ EnableMethod(p) \/ FindPasskey(p) \/ WriteCounter(p)
  BY <1>2, <1>4, LeavesMoves DEF ReadUser, CreatePasskey, EnableMethod, FindPasskey, WriteCounter
<1>5. CASE GenerateOptions(p)
  BY <1>1, <1>3, <1>5 DEF GenerateOptions, Request
<1>6. CASE SetChallenge(p)
  BY <1>1, <1>3, <1>6, LeavesMoves DEF SetChallenge, GotoOrFail, Request
<1>7. CASE TakeChallenge(p)
  BY <1>1, <1>2, <1>3, <1>7, LeavesMoves DEF TakeChallenge, GotoOrFail, Request
<1>8. CASE FindPasskeys(p)
  BY <1>1, <1>2, <1>3, <1>8, LeavesMoves DEF FindPasskeys, Request
<1> QED
  BY <1>4, <1>5, <1>6, <1>7, <1>8 DEF PasskeyStep

LEMMA PasskeyMethods ==
    ASSUME PartsOK, MethodsOK, NEW p \in Procs, PasskeyStep(p)
    PROVE  Promises(p)
<1> USE DEF PartsOK, MethodsOK
<1>1. CASE EnableMethod(p)
  BY <1>1, EnableMethods
<1>2. CASE ~EnableMethod(p)
  <2>1. UNCHANGED <<methods, nextMethod>>
    BY <1>2 DEF PasskeyStep, ReadUser, GenerateOptions, SetChallenge, TakeChallenge, CreatePasskey,
                FindPasskeys, FindPasskey, WriteCounter, tables
  <2>2. rq'[p].at \notin {"demote", "insert", "u_log", "u_write"}
    BY PasskeyMoves
  <2> QED
    BY <2>1, <2>2, UnchangedShrinks, ShrinksPromises, DonePromises
<1> QED
  BY <1>1, <1>2

LEMMA StepMethods == ASSUME IInv, [Next]_vars PROVE MethodsOK'
<1>0. PartsOK /\ MethodsOK
  BY DEF IInv, PartsOK, MethodsOK
<1>1. ASSUME NEW p \in Procs, Promises(p), \A q \in Procs : q # p => rq'[q] = rq[q]
      PROVE  MethodsOK'
  BY <1>0, <1>1, OthersPromise DEF PartsOK, MethodsOK, Promises
<1>2. ASSUME UNCHANGED <<methods, nextMethod>> PROVE Shrinks
  BY <1>0, <1>2, UnchangedShrinks DEF PartsOK, MethodsOK
<1>3. ASSUME NEW p \in Procs, Arrive(p) PROVE MethodsOK'
  <2>1. PICK r \in Request : rq'[p] = r /\ r.at = FirstAwait(r.op, r.primary)
    BY <1>0, <1>3, ArriveOK DEF PartsOK
  <2>2. UNCHANGED <<methods, nextMethod>> /\ \A q \in Procs : q # p => rq'[q] = rq[q]
    BY <1>0, <1>3, ArriveOK DEF PartsOK, tables
  <2>3. "promote" \in ClassesOf(p)' => rq'[p].at \notin {"demote", "insert", "u_log", "u_write"}
    BY <2>1 DEF ClassesOf, Classes, Promotes, FirstAwait
  <2> QED
    BY <1>0, <1>1, <1>2, <2>2, <2>3, ShrinksPromises, DonePromises
<1>4. ASSUME NEW p \in Procs, MethodStep(p) PROVE MethodsOK'
  <2>1. Promises(p)
    <3>1. CASE Demote(p)
      BY <1>0, <3>1, DemoteMethods, ShrinksPromises
    <3> QED
      BY <1>0, <1>4, <3>1, FindPrimaryMethods, InsertMethods, WriteMethods, OtherMethods DEF MethodStep
  <2> QED
    BY <1>0, <1>1, <1>4, <2>1, MethodContinues, ContinuesOK DEF PartsOK
<1>5. ASSUME NEW p \in Procs, PasskeyStep(p) PROVE MethodsOK'
  BY <1>0, <1>1, <1>5, PasskeyMethods, PasskeyContinues, ContinuesOK DEF PartsOK
<1>6. ASSUME NEW p \in Procs, CallThrows(p) PROVE MethodsOK'
  <2>1. UNCHANGED <<methods, nextMethod>> /\ Reply(p)
    BY <1>6 DEF CallThrows, tables
  <2>2. Promises(p)
    BY <1>0, <1>2, <2>1, ShrinksPromises, LeavesMoves, DonePromises DEF PartsOK
  <2> QED
    BY <1>0, <1>1, <2>1, <2>2, ReplyContinues, ContinuesOK DEF PartsOK
<1>7. CASE ExpireChallenge \/ Connect \/ Lose \/ UNCHANGED vars
  <2>1. UNCHANGED <<methods, nextMethod, rq>>
    BY <1>7 DEF ExpireChallenge, Connect, Lose, vars, tables
  <2> QED
    BY <1>0, <1>2, <2>1, ShrinksKeeps DEF MethodsOK, Shrinks, PromotionOK, ClassesOf
<1>8. CASE Crash
  <2>1. UNCHANGED <<methods, nextMethod>> /\ \A p \in Procs : rq'[p] = Idle
    BY <1>8 DEF Crash, tables
  <2>2. \A p \in Procs : Cleared(p)'
    BY <2>1, IdleTyped, DonePromises
  <2> QED
    BY <1>0, <1>2, <2>1, <2>2, ShrinksKeeps DEF MethodsOK, Shrinks, PromotionOK
<1> QED
  BY <1>3, <1>4, <1>5, <1>6, <1>7, <1>8 DEF Next

-----------------------------------------------------------------------------
(* Challenges: a step that brings none anywhere, and the ones that do. *)

OnceOK == ChallengesOK /\ ChallengeOnce

\* No challenge is issued, used or in a place where it was not.
Settles ==
    /\ UNCHANGED <<issued, used>>
    /\ \A s \in Stores, key \in Keys : slot'[s][key] = slot[s][key] \/ slot'[s][key] = 0
    /\ \A q \in Procs, c \in 0..MaxChallenges : InHand(q, c)' => InHand(q, c)

LEMMA SettlesKeeps ==
    ASSUME TypeOK, OnceOK, Settles
    PROVE  OnceOK' /\ \A c \in Challenges : Open(c)' => Open(c)
<1> USE DEF OnceOK
<1>0. \A c \in 0..MaxChallenges : c # 0 /\ Stored(c)' => Stored(c)
  BY DEF Settles, Stored
<1>1. \A s \in Stores, key \in Keys : slot[s][key] \in Nat
  BY BoundsAssumption DEF TypeOK
<1>2. \A c \in Challenges : c \in 0..MaxChallenges /\ c # 0
  BY BoundsAssumption DEF Challenges
<1>3. \A c \in Challenges : Open(c)' => Open(c)
  BY <1>0, <1>2 DEF Settles, Open
<1>4. issued \in Nat
  BY BoundsAssumption DEF TypeOK
<1>5. \A s \in Stores, key \in Keys : slot'[s][key] <= issued'
  BY <1>1, <1>4 DEF Settles, ChallengesOK
<1>6. \A s, t \in Stores, j, k \in Keys :
         slot'[s][j] = slot'[t][k] => slot'[s][j] = 0 \/ (s = t /\ j = k)
  BY DEF Settles, ChallengesOK
<1>7. ASSUME NEW p \in Procs, NEW c \in 0..MaxChallenges, InHand(p, c)'
      PROVE  c \in 1..issued' /\ ~Stored(c)' /\ \A q \in Procs : InHand(q, c)' => q = p
  BY <1>0, <1>7 DEF Settles, ChallengesOK
<1>8. ASSUME NEW c \in Challenges, used'[c] > 0 PROVE c <= issued' /\ ~Open(c)'
  BY <1>3, <1>8 DEF Settles, ChallengesOK
<1>9. ChallengesOK'
  BY <1>5, <1>6, <1>7, <1>8 DEF ChallengesOK
<1> QED
  BY <1>3, <1>9 DEF Settles, ChallengeOnce

\* A request that goes on without a challenge in hand.
LEMMA HandSettles ==
    ASSUME NEW p \in Procs, \A q \in Procs : q # p => rq'[q] = rq[q],
           rq'[p].at \notin {"k_set", "s_find"}
    PROVE  \A q \in Procs, c \in 0..MaxChallenges : InHand(q, c)' => InHand(q, c)
BY DEF InHand, At

LEMMA MethodLeavesHands ==
    ASSUME TypeOK, NEW p \in Procs, MethodStep(p)
    PROVE  rq'[p].at \notin {"k_set", "s_find", "s_count"}
<1>0. rq[p] \in Request
  BY DEF TypeOK
<1>1. ASSUME NEW l \in {"find", "u_log", "d_log", "u_write", "d_del"}, Goto(p, l)
      PROVE  rq'[p].at = l
  <2>1. rq'[p] = [rq[p] EXCEPT !.at = l]
    BY <1>1, GotoMoves
  <2> QED
    BY <1>0, <2>1 DEF Request
<1>2. ASSUME Promote(p) PROVE rq'[p].at \in {"u_log", "insert"}
  BY <1>2 DEF Promote, Become, TypeOK, Request
<1>3. CASE FindPrimary(p)
  <2>1. ASSUME NEW m \in Primaries,
               Become(p, [rq[p] EXCEPT !.at = "demote", !.aim = m.id, !.was = m.enabled])
        PROVE  rq'[p].at = "demote"
    BY <1>0, <2>1 DEF Become, TypeOK, Request
  <2> QED
    BY <1>2, <1>3, <2>1 DEF FindPrimary
<1>4. CASE Demote(p)
  BY <1>2, <1>4, LeavesMoves DEF Demote
<1>5. CASE FindMethod(p)
  BY <1>1, <1>5, LeavesMoves DEF FindMethod
<1>6. CASE LogActivity(p)
  BY <1>1, <1>6, LeavesMoves DEF LogActivity
<1>7. CASE InsertMethod(p) \/ WriteMethod(p) \/ DeleteMethod(p) \/ VerifyCode(p)
  BY <1>7, LeavesMoves DEF InsertMethod, WriteMethod, DeleteMethod, VerifyCode
<1> QED
  BY <1>3, <1>4, <1>5, <1>6, <1>7 DEF MethodStep

\* What a step makes of the challenges: some are void, one is used, one issued.
Voids == UNCHANGED <<issued, used>> /\ \A d \in Challenges : Open(d)' => Open(d)
Uses(c) ==
    /\ UNCHANGED issued /\ used' = [used EXCEPT ![c] = @ + 1]
    /\ Open(c) /\ ~Open(c)' /\ \A d \in Challenges : Open(d)' => Open(d)
Issues ==
    /\ UNCHANGED used /\ issued < MaxChallenges /\ issued' = issued + 1
    /\ Open(issued)' /\ \A d \in Challenges : d # issued + 1 /\ Open(d)' => Open(d)
Turns == Voids \/ (\E c \in Challenges : Uses(c)) \/ Issues

LEMMA SettlesTurns == ASSUME TypeOK, OnceOK, Settles PROVE OnceOK' /\ Turns
BY SettlesKeeps DEF Settles, Turns, Voids

LEMMA Numbers ==
    ASSUME TypeOK
    PROVE  /\ issued \in Nat /\ MaxChallenges \in Nat
           /\ \A s \in Stores, key \in Keys : slot[s][key] \in 0..MaxChallenges
           /\ \A c \in 0..MaxChallenges : c \in Nat /\ (c # 0 => c \in Challenges)
           /\ \A c \in Challenges : c \in 0..MaxChallenges /\ c # 0 /\ used[c] \in Nat
BY BoundsAssumption DEF TypeOK, Challenges

LEMMA GenerateTurns ==
    ASSUME PartsOK, OnceOK, NEW p \in Procs, GenerateOptions(p)
    PROVE  OnceOK' /\ Turns
<1> USE DEF PartsOK, OnceOK
<1> DEFINE n == issued + 1
<1>1. rq[p] \in Request
  BY DEF TypeOK
<1>2. issued < MaxChallenges /\ issued' = n /\ n \in Challenges /\ n > issued
      /\ UNCHANGED <<slot, used>>
  BY Numbers DEF GenerateOptions, Challenges, stores
<1>3. rq'[p].at = "k_set" /\ rq'[p].chal = n /\ \A q \in Procs : q # p => rq'[q] = rq[q]
  BY <1>1 DEF GenerateOptions, Become, TypeOK, Request
<1>4. \A q \in Procs, c \in 0..MaxChallenges : InHand(q, c)' <=> (q = p /\ c = n) \/ (q # p /\ InHand(q, c))
  BY <1>3 DEF InHand, At
<1>5. \A c \in 0..MaxChallenges : Stored(c)' <=> Stored(c)
  BY <1>2 DEF Stored
<1>6. ~Stored(n) /\ \A q \in Procs : ~InHand(q, n)
  BY <1>2, Numbers DEF ChallengesOK, Stored
<1> HIDE DEF n
<1>7. \A s \in Stores, key \in Keys : slot'[s][key] <= issued'
  BY <1>2, Numbers DEF ChallengesOK
<1>8. \A s, t \in Stores, j, k \in Keys :
         slot'[s][j] = slot'[t][k] => slot'[s][j] = 0 \/ (s = t /\ j = k)
  BY <1>2 DEF ChallengesOK
<1>9. ASSUME NEW q \in Procs, NEW c \in 0..MaxChallenges, InHand(q, c)'
      PROVE  c \in 1..issued' /\ ~Stored(c)' /\ \A o \in Procs : InHand(o, c)' => o = q
  <2>1. CASE c = n
    BY <1>2, <1>4, <1>5, <1>6, <1>9, <2>1, Numbers DEF Challenges
  <2>2. CASE c # n
    <3>1. InHand(q, c)
      BY <1>4, <1>9, <2>2
    <3>2. c \in 1..issued /\ ~Stored(c) /\ \A o \in Procs : InHand(o, c) => o = q
      BY <3>1 DEF ChallengesOK
    <3>3. c \in 1..issued'
      BY <1>2, <3>2, Numbers
    <3> QED
      BY <1>4, <1>5, <2>2, <3>2, <3>3
  <2> QED
    BY <2>1, <2>2
<1>10. \A d \in Challenges : d # n /\ Open(d)' => Open(d)
  BY <1>4, <1>5, Numbers DEF Open
<1>11. ASSUME NEW c \in Challenges, used'[c] > 0 PROVE c <= issued' /\ ~Open(c)'
  <2>1. c <= issued /\ ~Open(c)
    BY <1>2, <1>11 DEF ChallengesOK
  <2> QED
    BY <1>2, <1>10, <2>1, Numbers
<1>12. OnceOK'
  BY <1>2, <1>7, <1>8, <1>9, <1>11 DEF ChallengesOK, ChallengeOnce
<1>13. Open(issued)'
  <2>1. InHand(p, issued)'
    BY <1>2, <1>3 DEF InHand, At
  <2> QED
    BY <2>1 DEF Open
<1>14. Issues
  BY <1>2, <1>10, <1>13 DEF Issues, GenerateOptions, n
<1> QED
  BY <1>12, <1>14 DEF Turns

LEMMA SetTurns ==
    ASSUME PartsOK, OnceOK, NEW p \in Procs, SetChallenge(p)
    PROVE  OnceOK' /\ Turns
<1> USE DEF PartsOK, OnceOK
<1> DEFINE n == rq[p].chal
<1>1. rq[p] \in Request /\ Active \in Stores /\ Key(p) \in Keys
  BY DEF TypeOK, Active, Key, Stores, Keys
<1>2. n \in 0..MaxChallenges /\ InHand(p, n)
  BY <1>1 DEF Request, InHand, SetChallenge
<1>3. n \in 1..issued /\ ~Stored(n) /\ \A q \in Procs : InHand(q, n) => q = p
  BY <1>2 DEF ChallengesOK
<1>4. slot' = [slot EXCEPT ![Active][Key(p)] = n] /\ UNCHANGED <<issued, used>>
  BY DEF SetChallenge
<1>5. rq'[p].at \in {"k_log", "idle", "log"}
  <2>1. ASSUME Become(p, [rq[p] EXCEPT !.at = "k_log"]) PROVE rq'[p].at = "k_log"
    BY <1>1, <2>1 DEF Become, TypeOK, Request
  <2>2. Become(p, [rq[p] EXCEPT !.at = "k_log"]) \/ Reply(p)
    BY DEF SetChallenge, GotoOrFail
  <2> QED
    BY <2>1, <2>2, LeavesMoves
<1>6. \A q \in Procs : q # p => rq'[q] = rq[q]
  BY DEF SetChallenge, GotoOrFail, Become, Reply, TypeOK
<1>7. \A q \in Procs, c \in 0..MaxChallenges : InHand(q, c)' => q # p /\ InHand(q, c)
  BY <1>5, <1>6 DEF InHand, At
<1> HIDE DEF n
<1>8. \A s \in Stores, key \in Keys :
         slot'[s][key] = IF s = Active /\ key = Key(p) THEN n ELSE slot[s][key]
  BY <1>1, <1>4 DEF TypeOK
<1>9. \A c \in 0..MaxChallenges : Stored(c)' => c = n \/ Stored(c)
  BY <1>8 DEF Stored
<1>10. \A s \in Stores, key \in Keys : slot'[s][key] <= issued' /\ slot[s][key] # n
  BY <1>3, <1>4, <1>8, Numbers DEF ChallengesOK, Stored
<1>11. \A s, t \in Stores, j, k \in Keys :
         slot'[s][j] = slot'[t][k] => slot'[s][j] = 0 \/ (s = t /\ j = k)
  BY <1>8, <1>10 DEF ChallengesOK
<1>12. ASSUME NEW q \in Procs, NEW c \in 0..MaxChallenges, InHand(q, c)'
       PROVE  c \in 1..issued' /\ ~Stored(c)' /\ \A o \in Procs : InHand(o, c)' => o = q
  <2>1. q # p /\ InHand(q, c)
    BY <1>7, <1>12
  <2>2. c # n
    BY <1>3, <2>1
  <2>3. c \in 1..issued /\ ~Stored(c) /\ \A o \in Procs : InHand(o, c) => o = q
    BY <2>1 DEF ChallengesOK
  <2> QED
    BY <1>4, <1>7, <1>9, <2>2, <2>3
<1>13. \A d \in Challenges : Open(d)' => Open(d)
  BY <1>2, <1>7, <1>9, Numbers DEF Open
<1>14. \A c \in Challenges : used'[c] > 0 => c <= issued' /\ ~Open(c)'
  BY <1>4, <1>13 DEF ChallengesOK
<1>15. OnceOK'
  BY <1>4, <1>10, <1>11, <1>12, <1>14 DEF ChallengesOK, ChallengeOnce
<1> QED
  BY <1>4, <1>13, <1>15 DEF Turns, Voids

LEMMA TakeTurns ==
    ASSUME PartsOK, OnceOK, NEW p \in Procs, TakeChallenge(p)
    PROVE  OnceOK' /\ Turns
<1> USE DEF PartsOK, OnceOK
<1> DEFINE n == slot[Active][Key(p)]
<1>1. rq[p] \in Request /\ Active \in Stores /\ Key(p) \in Keys
  BY DEF TypeOK, Active, Key, Stores, Keys
<1>2. n \in 0..MaxChallenges /\ (n # 0 => n \in Challenges /\ Stored(n) /\ Open(n) /\ used[n] = 0)
  <2>1. n \in 0..MaxChallenges
    BY <1>1, Numbers
  <2>2. ASSUME n # 0 PROVE n \in Challenges /\ Stored(n) /\ Open(n)
    BY <1>1, <2>1, <2>2, Numbers DEF Stored, Open
  <2>3. ASSUME n # 0 PROVE used[n] = 0
    BY <2>2, <2>3, Numbers DEF ChallengesOK
  <2> QED
    BY <2>1, <2>2, <2>3
<1>3. slot' = [slot EXCEPT ![Active][Key(p)] = 0] /\ UNCHANGED issued
  BY DEF TakeChallenge
<1>4. \A s \in Stores, key \in Keys :
         slot'[s][key] = IF s = Active /\ key = Key(p) THEN 0 ELSE slot[s][key]
  BY <1>1, <1>3 DEF TypeOK
<1>5. \A q \in Procs : q # p => rq'[q] = rq[q]
  BY DEF TakeChallenge, GotoOrFail, Goto, Become, Reply, TypeOK
<1>6. n # 0 => \A s \in Stores, key \in Keys : slot'[s][key] # n
  BY <1>1, <1>4 DEF ChallengesOK
<1>7. \/ Reply(p) /\ UNCHANGED used
      \/ n # 0 /\ Goto(p, "p_cred") /\ used' = [used EXCEPT ![n] = @ + 1]
      \/ n # 0 /\ Become(p, [rq[p] EXCEPT !.at = "s_find", !.chal = n]) /\ UNCHANGED used
  BY DEF TakeChallenge, GotoOrFail
<1> HIDE DEF n
<1>8. CASE Reply(p) /\ UNCHANGED used
  <2>1. Settles
    BY <1>3, <1>4, <1>5, <1>8, LeavesMoves, HandSettles DEF Settles
  <2> QED
    BY <2>1, SettlesTurns
<1>9. \A c \in Challenges : Stored(c)' => Stored(c) /\ c # n
  BY <1>4, <1>6, Numbers DEF Stored
<1>10. \A s \in Stores, key \in Keys : slot'[s][key] <= issued'
  BY <1>3, <1>4, Numbers DEF ChallengesOK
<1>11. \A s, t \in Stores, j, k \in Keys :
         slot'[s][j] = slot'[t][k] => slot'[s][j] = 0 \/ (s = t /\ j = k)
  BY <1>4 DEF ChallengesOK
<1>12. n # 0 => n \in 1..issued /\ \A q \in Procs : ~InHand(q, n)
  BY <1>1, <1>2, Numbers DEF ChallengesOK, n
<1>13. CASE n # 0 /\ Goto(p, "p_cred") /\ used' = [used EXCEPT ![n] = @ + 1]
  <2>1. rq'[p] = [rq[p] EXCEPT !.at = "p_cred"]
    BY <1>13, GotoMoves
  <2>2. rq'[p].at = "p_cred"
    BY <1>1, <2>1 DEF Request
  <2>3. \A q \in Procs, c \in 0..MaxChallenges : InHand(q, c)' => InHand(q, c)
    BY <1>5, <2>2, HandSettles
  <2>4. \A d \in Challenges : Open(d)' => Open(d) /\ d # n
    BY <1>9, <1>12, <1>13, <2>3, Numbers DEF Open
  <2>5. \A c \in Challenges : used'[c] = IF c = n THEN 1 ELSE used[c]
    BY <1>2, <1>13 DEF TypeOK
  <2>6. \A q \in Procs, c \in 0..MaxChallenges : InHand(q, c)' =>
           c \in 1..issued' /\ ~Stored(c)' /\ \A o \in Procs : InHand(o, c)' => o = q
    BY <1>3, <1>9, <2>3, Numbers DEF ChallengesOK
  <2>7. \A c \in Challenges : used'[c] > 0 => c <= issued' /\ ~Open(c)'
    BY <1>3, <1>12, <1>13, <2>4, <2>5, Numbers DEF ChallengesOK
  <2>8. OnceOK'
    BY <1>10, <1>11, <2>5, <2>6, <2>7 DEF ChallengesOK, ChallengeOnce
  <2>9. \E c \in Challenges : Uses(c)
    BY <1>2, <1>3, <1>13, <2>4 DEF Uses
  <2> QED
    BY <2>8, <2>9 DEF Turns
<1>14. CASE n # 0 /\ Become(p, [rq[p] EXCEPT !.at = "s_find", !.chal = n]) /\ UNCHANGED used
  <2>1. rq'[p] = [rq[p] EXCEPT !.at = "s_find", !.chal = n]
    BY <1>14 DEF Become, TypeOK
  <2>2. rq'[p].at = "s_find" /\ rq'[p].chal = n
    BY <1>1, <2>1 DEF Request
  <2>3. \A q \in Procs, c \in 0..MaxChallenges :
           InHand(q, c)' => (q = p /\ c = n) \/ (q # p /\ InHand(q, c))
    BY <1>5, <2>2 DEF InHand, At
  <2>4. \A d \in Challenges : Open(d)' => Open(d)
    BY <1>2, <1>9, <1>14, <2>3, Numbers DEF Open
  <2>5. ASSUME NEW q \in Procs, NEW c \in 0..MaxChallenges, InHand(q, c)'
        PROVE  c \in 1..issued' /\ ~Stored(c)' /\ \A o \in Procs : InHand(o, c)' => o = q
    <3>1. CASE c = n
      BY <1>2, <1>3, <1>9, <1>12, <1>14, <2>3, <2>5, <3>1
    <3>2. CASE c # n
      <4>1. InHand(q, c)
        BY <2>3, <2>5, <3>2
      <4>2. c \in 1..issued /\ ~Stored(c) /\ \A o \in Procs : InHand(o, c) => o = q
        BY <4>1 DEF ChallengesOK
      <4>3. c \in Challenges
        BY <4>2, Numbers
      <4> QED
        BY <1>3, <1>9, <2>3, <3>2, <4>2, <4>3
    <3> QED
      BY <3>1, <3>2
  <2>6. \A c \in Challenges : used'[c] > 0 => c <= issued' /\ ~Open(c)'
    BY <1>3, <1>14, <2>4 DEF ChallengesOK
  <2>7. OnceOK'
    BY <1>10, <1>11, <1>14, <2>5, <2>6 DEF ChallengesOK, ChallengeOnce
  <2> QED
    BY <1>3, <1>14, <2>4, <2>7 DEF Turns, Voids
<1> QED
  BY <1>7, <1>8, <1>13, <1>14

LEMMA FindPasskeyTurns ==
    ASSUME PartsOK, OnceOK, NEW p \in Procs, FindPasskey(p)
    PROVE  OnceOK' /\ Turns
<1> USE DEF PartsOK, OnceOK
<1> DEFINE n == rq[p].chal
<1>1. rq[p] \in Request /\ n \in 0..MaxChallenges /\ InHand(p, n)
  BY DEF TypeOK, InHand, FindPasskey, Request
<1>2. n \in 1..issued /\ ~Stored(n) /\ \A q \in Procs : InHand(q, n) => q = p
  BY <1>1 DEF ChallengesOK
<1>3. UNCHANGED <<slot, issued>> /\ \A q \in Procs : q # p => rq'[q] = rq[q]
  BY DEF FindPasskey, stores, Goto, Reply, Become, TypeOK
<1>4. \/ Reply(p) /\ UNCHANGED used
      \/ Goto(p, "s_count") /\ used' = [used EXCEPT ![n] = @ + 1]
  BY DEF FindPasskey
<1> HIDE DEF n
<1>5. n \in Challenges /\ Open(n) /\ used[n] = 0
  BY <1>1, <1>2, Numbers DEF Open, ChallengesOK
<1>6. CASE Reply(p) /\ UNCHANGED used
  <2>1. Settles
    BY <1>3, <1>6, LeavesMoves, HandSettles DEF Settles
  <2> QED
    BY <2>1, SettlesTurns
<1>7. CASE Goto(p, "s_count") /\ used' = [used EXCEPT ![n] = @ + 1]
  <2>1. rq'[p] = [rq[p] EXCEPT !.at = "s_count"]
    BY <1>7, GotoMoves
  <2>2. rq'[p].at = "s_count"
    BY <1>1, <2>1 DEF Request
  <2>3. \A q \in Procs, c \in 0..MaxChallenges : InHand(q, c)' => q # p /\ InHand(q, c)
    BY <1>3, <2>2 DEF InHand, At
  <2>4. \A c \in 0..MaxChallenges : Stored(c)' <=> Stored(c)
    BY <1>3 DEF Stored
  <2>5. \A d \in Challenges : Open(d)' => Open(d) /\ d # n
    BY <1>2, <2>3, <2>4, Numbers DEF Open
  <2>6. \A c \in Challenges : used'[c] = IF c = n THEN 1 ELSE used[c]
    BY <1>5, <1>7 DEF TypeOK
  <2>7. \A q \in Procs, c \in 0..MaxChallenges : InHand(q, c)' =>
           c \in 1..issued' /\ ~Stored(c)' /\ \A o \in Procs : InHand(o, c)' => o = q
    BY <1>3, <2>3, <2>4 DEF ChallengesOK
  <2>8. \A c \in Challenges : used'[c] > 0 => c <= issued' /\ ~Open(c)'
    BY <1>2, <1>3, <2>5, <2>6, Numbers DEF ChallengesOK
  <2>9. OnceOK'
    BY <1>3, <2>6, <2>7, <2>8 DEF ChallengesOK, ChallengeOnce
  <2>10. \E c \in Challenges : Uses(c)
    BY <1>3, <1>5, <1>7, <2>5 DEF Uses
  <2> QED
    BY <2>9, <2>10 DEF Turns
<1> QED
  BY <1>4, <1>6, <1>7

LEMMA PasskeyTurns ==
    ASSUME PartsOK, OnceOK, NEW p \in Procs, PasskeyStep(p), \A q \in Procs : q # p => rq'[q] = rq[q]
    PROVE  OnceOK' /\ Turns
<1> USE DEF PartsOK
<1>1. CASE ReadUser(p) \/ CreatePasskey(p) \/ FindPasskeys(p) \/ EnableMethod(p) \/ WriteCounter(p)
  <2>1. UNCHANGED <<slot, issued, used>>
    BY <1>1 DEF ReadUser, CreatePasskey, FindPasskeys, EnableMethod, WriteCounter, stores
  <2>2. rq'[p].at \notin {"k_set", "s_find"}
    <3>1. rq[p] \in Request
      BY DEF TypeOK
    <3>2. ASSUME NEW l \in {"k_list", "take", "p_exists", "find"}, Goto(p, l) PROVE rq'[p].at = l
      <4>1. rq'[p] = [rq[p] EXCEPT !.at = l]
        BY <3>2, GotoMoves
      <4> QED
        BY <3>1, <4>1 DEF Request
    <3>3. ASSUME NEW m, Become(p, [rq[p] EXCEPT !.at = "p_enable", !.aim = m.id])
          PROVE  rq'[p].at = "p_enable"
      BY <3>1, <3>3 DEF Become, TypeOK, Request
    <3>4. CASE FindPasskeys(p)
      BY <3>2, <3>3, <3>4, LeavesMoves DEF FindPasskeys
    <3>5. CASE ReadUser(p) \/ CreatePasskey(p) \/ EnableMethod(p) \/ WriteCounter(p)
      BY <3>2, <3>5, LeavesMoves DEF ReadUser, CreatePasskey, EnableMethod, WriteCounter
    <3> QED
      BY <1>1, <3>4, <3>5
  <2>3. Settles
    BY <2>1, <2>2, HandSettles DEF Settles
  <2> QED
    BY <2>3, SettlesTurns
<1> QED
  BY <1>1, GenerateTurns, SetTurns, TakeTurns, FindPasskeyTurns DEF PasskeyStep

LEMMA StepChallenges == ASSUME IInv, [Next]_vars PROVE OnceOK' /\ Turns
<1>0. PartsOK /\ OnceOK /\ TypeOK /\ PlacesOK /\ SoloOK
  BY DEF IInv, PartsOK, OnceOK
<1>1. ASSUME NEW p \in Procs, UNCHANGED <<slot, issued, used>>, rq'[p].at \notin {"k_set", "s_find"},
             \A q \in Procs : q # p => rq'[q] = rq[q]
      PROVE  OnceOK' /\ Turns
  <2>1. Settles
    BY <1>1, HandSettles DEF Settles
  <2> QED
    BY <1>0, <2>1, SettlesTurns
<1>2. ASSUME NEW p \in Procs, Arrive(p) PROVE OnceOK' /\ Turns
  <2>1. PICK r \in Request : rq'[p] = r /\ r.at = FirstAwait(r.op, r.primary)
    BY <1>0, <1>2, ArriveOK
  <2>2. r.at \notin {"k_set", "s_find"}
    BY <2>1 DEF FirstAwait, Request, AllOps
  <2> QED
    BY <1>0, <1>1, <1>2, <2>1, <2>2, ArriveOK DEF stores
<1>3. ASSUME NEW p \in Procs, MethodStep(p) PROVE OnceOK' /\ Turns
  BY <1>0, <1>1, <1>3, MethodContinues, ContinuesOK, MethodLeavesHands, MethodStores DEF stores
<1>4. ASSUME NEW p \in Procs, PasskeyStep(p) PROVE OnceOK' /\ Turns
  BY <1>0, <1>4, PasskeyContinues, ContinuesOK, PasskeyTurns
<1>5. ASSUME NEW p \in Procs, CallThrows(p) PROVE OnceOK' /\ Turns
  <2>1. Reply(p) /\ UNCHANGED <<slot, issued, used>>
    BY <1>5 DEF CallThrows, stores
  <2> QED
    BY <1>0, <1>1, <2>1, ReplyContinues, ContinuesOK, LeavesMoves
<1>6. CASE ExpireChallenge \/ Connect \/ Lose \/ Crash \/ UNCHANGED vars
  <2>1. UNCHANGED <<issued, used>>
    BY <1>6 DEF ExpireChallenge, Connect, Lose, Crash, vars
  <2>2. \A s \in Stores, key \in Keys : slot'[s][key] = slot[s][key] \/ slot'[s][key] = 0
    <3>1. CASE ExpireChallenge
      BY <1>0, <3>1 DEF ExpireChallenge, TypeOK
    <3>2. CASE Crash
      BY <1>0, <3>2 DEF Crash, Forget, TypeOK
    <3>3. CASE Connect \/ Lose \/ UNCHANGED vars
      BY <3>3 DEF Connect, Lose, vars, stores
    <3> QED
      BY <1>6, <3>1, <3>2, <3>3
  <2>3. \A q \in Procs : rq'[q] = rq[q] \/ rq'[q] = Idle
    BY <1>6 DEF ExpireChallenge, Connect, Lose, Crash, vars
  <2>4. \A q \in Procs, c \in 0..MaxChallenges : InHand(q, c)' => InHand(q, c)
    BY <2>3, IdleTyped DEF InHand, At
  <2> QED
    BY <1>0, <2>1, <2>2, <2>4, SettlesTurns DEF Settles
<1> QED
  BY <1>2, <1>3, <1>4, <1>5, <1>6 DEF Next

-----------------------------------------------------------------------------
(* Counters. *)

NoneFalls == \A k \in Creds : "sign" \in Solo => passkeys'[k] >= passkeys[k]

\* A passkey is added for an authenticator that has none, nothing else is
\* written, and none but q comes to write a counter.
LEMMA CounterSteady ==
    ASSUME IInv,
           \A k \in Creds : passkeys'[k] = passkeys[k] \/ (passkeys[k] = -1 /\ passkeys'[k] \in Nat),
           \A q \in Procs : rq'[q].at = "s_count" => rq'[q] = rq[q]
    PROVE  CounterOK' /\ NoneFalls
<1>1. \A k \in Creds : passkeys[k] \in Nat \cup {-1}
  BY DEF IInv, TypeOK
<1>2. NoneFalls
  BY <1>1 DEF NoneFalls
<1>3. ASSUME "sign" \in Solo, NEW q \in Procs, At(q, "s_count")'
      PROVE  passkeys'[rq'[q].cred] # -1 /\ rq'[q].count >= passkeys'[rq'[q].cred]
  <2>1. rq'[q] = rq[q] /\ At(q, "s_count") /\ rq[q].cred \in Creds
    BY <1>3 DEF At, IInv, TypeOK, Request
  <2>2. passkeys[rq[q].cred] # -1 /\ rq[q].count >= passkeys[rq[q].cred]
    BY <1>3, <2>1 DEF IInv, CounterOK
  <2> QED
    BY <2>1, <2>2
<1>4. CounterOK'
  BY <1>3 DEF CounterOK
<1> QED
  BY <1>2, <1>4

LEMMA WriteCounters ==
    ASSUME IInv, NEW p \in Procs, WriteCounter(p), \A q \in Procs : q # p => rq'[q] = rq[q]
    PROVE  CounterOK' /\ NoneFalls
<1> DEFINE k == rq[p].cred
<1>1. /\ TypeOK /\ rq[p] \in Request /\ Placed(rq[p]) /\ k \in Creds
      /\ \A j \in Creds : passkeys[j] \in Nat \cup {-1}
  BY DEF IInv, TypeOK, PlacesOK, Request
<1>2. \A j \in Creds : passkeys'[j] = IF j = k THEN rq[p].count ELSE passkeys[j]
  BY <1>1 DEF WriteCounter, TypeOK
<1>3. "sign" \in Solo => rq[p].count >= passkeys[k]
  BY DEF IInv, CounterOK, WriteCounter
<1>4. NoneFalls
  BY <1>1, <1>2, <1>3 DEF NoneFalls
<1>5. ASSUME "sign" \in Solo, NEW q \in Procs, At(q, "s_count")' PROVE FALSE
  <2>1. q # p
    BY <1>1, <1>5, LeavesMoves DEF At, WriteCounter
  <2>2. rq'[q] = rq[q] /\ At(q, "s_count")
    BY <1>5, <2>1 DEF At
  <2>3. "sign" \in ClassesOf(p) /\ "sign" \in ClassesOf(q)
    BY <2>2 DEF IInv, PlacesOK, Placed, At, WriteCounter, ClassesOf, Classes
  <2> QED
    BY <1>5, <2>1, <2>3 DEF IInv, SoloOK
<1>6. CounterOK'
  BY <1>5 DEF CounterOK
<1> QED
  BY <1>4, <1>6

LEMMA FindPasskeyCounters ==
    ASSUME IInv, NEW p \in Procs, FindPasskey(p), \A q \in Procs : q # p => rq'[q] = rq[q]
    PROVE  CounterOK' /\ NoneFalls
<1>1. TypeOK /\ rq[p] \in Request /\ rq[p].cred \in Creds /\ UNCHANGED passkeys
      /\ \A j \in Creds : passkeys[j] \in Nat \cup {-1}
  BY DEF IInv, TypeOK, Request, FindPasskey, tables
<1>2. CASE Reply(p)
  BY <1>1, <1>2, LeavesMoves, CounterSteady
<1>3. CASE Goto(p, "s_count") /\ passkeys[rq[p].cred] # -1 /\ Verified(p)
  <2>1. rq'[p] = [rq[p] EXCEPT !.at = "s_count"]
    BY <1>1, <1>3, GotoMoves
  <2>2. rq'[p].cred = rq[p].cred /\ rq'[p].count = rq[p].count
    BY <1>1, <2>1 DEF Request
  <2>3. rq[p].count >= passkeys[rq[p].cred]
    BY <1>1, <1>3 DEF Verified, Request
  <2>4. ASSUME "sign" \in Solo, NEW q \in Procs, At(q, "s_count")'
        PROVE  passkeys'[rq'[q].cred] # -1 /\ rq'[q].count >= passkeys'[rq'[q].cred]
    <3>1. CASE q = p
      BY <1>1, <1>3, <2>2, <2>3, <3>1
    <3>2. CASE q # p
      BY <1>1, <2>4, <3>2 DEF IInv, CounterOK, At
    <3> QED
      BY <3>1, <3>2
  <2>5. CounterOK'
    BY <2>4 DEF CounterOK
  <2>6. NoneFalls
    BY <1>1 DEF NoneFalls
  <2> QED
    BY <2>5, <2>6
<1> QED
  BY <1>2, <1>3 DEF FindPasskey

LEMMA StepCounters == ASSUME IInv, [Next]_vars PROVE CounterOK' /\ NoneFalls
<1>0. TypeOK /\ PlacesOK /\ SoloOK
  BY DEF IInv
<1>1. ASSUME NEW p \in Procs, \A q \in Procs : q # p => rq'[q] = rq[q], rq'[p].at # "s_count",
             UNCHANGED passkeys
      PROVE  CounterOK' /\ NoneFalls
  BY <1>1, CounterSteady
<1>2. ASSUME NEW p \in Procs, Arrive(p) PROVE CounterOK' /\ NoneFalls
  <2>1. PICK r \in Request : rq'[p] = r /\ r.at = FirstAwait(r.op, r.primary)
    BY <1>0, <1>2, ArriveOK
  <2>2. r.at # "s_count"
    BY <2>1 DEF FirstAwait, Request, AllOps
  <2> QED
    BY <1>0, <1>1, <1>2, <2>1, <2>2, ArriveOK DEF tables
<1>3. ASSUME NEW p \in Procs, MethodStep(p) PROVE CounterOK' /\ NoneFalls
  <2>1. UNCHANGED passkeys
    BY <1>3 DEF MethodStep, FindPrimary, Demote, InsertMethod, FindMethod, WriteMethod, DeleteMethod,
                VerifyCode, LogActivity, tables
  <2> QED
    BY <1>0, <1>1, <1>3, <2>1, MethodContinues, ContinuesOK, MethodLeavesHands
<1>4. ASSUME NEW p \in Procs, PasskeyStep(p) PROVE CounterOK' /\ NoneFalls
  <2>0. \A q \in Procs : q # p => rq'[q] = rq[q]
    BY <1>0, <1>4, PasskeyContinues, ContinuesOK
  <2>1. CASE CreatePasskey(p)
    <3>1. rq[p] \in Request
      BY <1>0 DEF TypeOK
    <3>2. \A k \in Creds : passkeys'[k] = passkeys[k] \/ (passkeys[k] = -1 /\ passkeys'[k] \in Nat)
      BY <1>0, <2>1, <3>1 DEF CreatePasskey, TypeOK, Request
    <3>3. rq'[p].at # "s_count"
      BY <1>0, <1>4, <2>1, PasskeyMoves DEF CreatePasskey, FindPasskey, At
    <3> QED
      BY <2>0, <3>2, <3>3, CounterSteady
  <2>2. CASE ReadUser(p) \/ GenerateOptions(p) \/ SetChallenge(p) \/ TakeChallenge(p)
             \/ FindPasskeys(p) \/ EnableMethod(p)
    <3>1. UNCHANGED passkeys /\ ~At(p, "s_find")
      BY <2>2 DEF ReadUser, GenerateOptions, SetChallenge, TakeChallenge, FindPasskeys, EnableMethod,
                  tables, At
    <3>2. rq'[p].at # "s_count"
      BY <1>0, <1>4, <3>1, PasskeyMoves DEF FindPasskey
    <3> QED
      BY <1>1, <2>0, <3>1, <3>2
  <2> QED
    BY <1>4, <2>0, <2>1, <2>2, WriteCounters, FindPasskeyCounters DEF PasskeyStep
<1>5. ASSUME NEW p \in Procs, CallThrows(p) PROVE CounterOK' /\ NoneFalls
  <2>1. Reply(p) /\ UNCHANGED passkeys
    BY <1>5 DEF CallThrows, tables
  <2> QED
    BY <1>0, <1>1, <2>1, ReplyContinues, ContinuesOK, LeavesMoves
<1>6. CASE ExpireChallenge \/ Connect \/ Lose \/ Crash \/ UNCHANGED vars
  <2>1. UNCHANGED passkeys /\ \A q \in Procs : rq'[q] = rq[q] \/ rq'[q] = Idle
    BY <1>6 DEF ExpireChallenge, Connect, Lose, Crash, vars, tables
  <2> QED
    BY <2>1, IdleTyped, CounterSteady
<1> QED
  BY <1>2, <1>3, <1>4, <1>5, <1>6 DEF Next

-----------------------------------------------------------------------------
(* The challenges are those of OneTime. *)

LEMMA StatusIs ==
    \A d \in Challenges :
        /\ Status[d] = IF used[d] > 1 THEN "reused" ELSE IF used[d] = 1 THEN "used"
                       ELSE IF d > issued THEN "new" ELSE IF Open(d) THEN "open" ELSE "void"
        /\ Status'[d] = IF used'[d] > 1 THEN "reused" ELSE IF used'[d] = 1 THEN "used"
                        ELSE IF d > issued' THEN "new" ELSE IF Open(d)' THEN "open" ELSE "void"
BY DEF Status

\* A challenge stays as it is, or is void from now on.
Fades(d) == Status'[d] = Status[d] \/ (Status[d] = "open" /\ Status'[d] = "void")

LEMMA TurnRefines ==
    ASSUME NEW c \in Challenges, NEW a, NEW b, Status[c] = a, Status'[c] = b,
           \A d \in Challenges : d # c => Fades(d)
    PROVE  Abstract!Turn(a, b)
<1> DEFINE D == {d \in Challenges : d # c /\ Status[d] # Status'[d]}
<1>1. D \in SUBSET Challenges /\ \A d \in D : Status[d] = "open"
  BY DEF Fades
<1>2. Status' = [d \in Challenges |-> Status'[d]]
  BY DEF Status
<1>3. \A d \in Challenges : Status'[d] = IF d = c THEN b ELSE IF d \in D THEN "void" ELSE Status[d]
  BY DEF Fades
<1> HIDE DEF D
<1>4. Status' = [d \in Challenges |-> IF d = c THEN b ELSE IF d \in D THEN "void" ELSE Status[d]]
  BY <1>2, <1>3
<1> QED
  BY <1>1, <1>4 DEF Abstract!Turn

\* A challenge that is neither used nor issued by the step.
LEMMA OtherFades ==
    ASSUME IInv, NEW d \in Challenges, used'[d] = used[d], Open(d)' => Open(d),
           d > issued' <=> d > issued
    PROVE  Fades(d)
<1>1. used[d] \in Nat /\ used[d] <= 1
  BY DEF IInv, TypeOK, ChallengeOnce
<1> QED
  BY <1>1, StatusIs DEF Fades

LEMMA OpenIs ==
    ASSUME IInv, NEW c \in Challenges, Open(c)
    PROVE  Status[c] = "open" /\ used[c] = 0
<1>0. TypeOK /\ ChallengesOK
  BY DEF IInv
<1>1. c \in 0..MaxChallenges /\ c # 0 /\ used[c] \in Nat /\ issued \in Nat
  BY <1>0, Numbers
<1>2. used[c] = 0
  BY <1>0, <1>1 DEF ChallengesOK
<1>3. c <= issued
  BY <1>0, <1>1 DEF ChallengesOK, Open, Stored
<1> QED
  BY <1>1, <1>2, <1>3, StatusIs

LEMMA StepRefines == ASSUME IInv, Turns PROVE [Abstract!Next]_Status
<1>0. TypeOK /\ ChallengesOK
  BY DEF IInv
<1>1. CASE Voids
  <2>1. \A d \in Challenges : Fades(d)
    BY <1>1, OtherFades DEF Voids
  <2>2. CASE \A d \in Challenges : Status'[d] = Status[d]
    BY <2>2 DEF Status
  <2>3. ASSUME NEW c \in Challenges, Status'[c] # Status[c] PROVE Abstract!Drop
    BY <2>1, <2>3, TurnRefines DEF Fades, Abstract!Drop
  <2> QED
    BY <2>2, <2>3 DEF Abstract!Next
<1>2. ASSUME NEW c \in Challenges, Uses(c) PROVE Abstract!Use
  <2>1. Status[c] = "open" /\ used[c] = 0
    BY <1>2, OpenIs DEF Uses
  <2>2. used'[c] = 1 /\ \A d \in Challenges : d # c => used'[d] = used[d]
    BY <1>0, <1>2, <2>1 DEF Uses, TypeOK
  <2>3. Status'[c] = "used"
    BY <2>2, StatusIs
  <2>4. \A d \in Challenges : d # c => Fades(d)
    BY <1>2, <2>2, OtherFades DEF Uses
  <2> QED
    BY <2>1, <2>3, <2>4, TurnRefines DEF Abstract!Use
<1>3. ASSUME Issues, NEW c \in Challenges, c = issued + 1 PROVE Abstract!Issue
  <2>0. issued \in Nat /\ issued' = c /\ c > issued /\ c = issued + 1
    BY <1>0, <1>3, Numbers DEF Issues
  <2>1. used[c] = 0 /\ used'[c] = 0
    BY <1>0, <1>3, <2>0, Numbers DEF Issues, ChallengesOK
  <2>2. Status[c] = "new"
    BY <2>0, <2>1, StatusIs
  <2>3. Status'[c] = "open"
    <3>1. \A d \in Challenges : d = issued' => Open(d)'
      BY <1>3 DEF Issues
    <3> QED
      BY <2>0, <2>1, <3>1, StatusIs DEF Challenges
  <2>4. ASSUME NEW d \in Challenges, d # c PROVE Fades(d)
    <3>1. d > issued' <=> d > issued
      BY <2>0, <2>4 DEF Challenges
    <3> QED
      BY <1>3, <2>0, <2>4, <3>1, OtherFades DEF Issues
  <2> QED
    BY <2>0, <2>2, <2>3, <2>4, TurnRefines DEF Abstract!Issue
<1>4. Issues => issued + 1 \in Challenges
  BY <1>0, Numbers DEF Issues, Challenges
<1> QED
  BY <1>1, <1>2, <1>3, <1>4 DEF Turns, Abstract!Next

-----------------------------------------------------------------------------
LEMMA InitInvariant == ASSUME Init PROVE IInv /\ Abstract!Init
<1>1. TypeOK
  BY IdleTyped, BoundsAssumption DEF Init, TypeOK, Stores, Keys
<1>2. \A p \in Procs : rq[p] = Idle
  BY DEF Init
<1>3. \A s \in Stores, key \in Keys : slot[s][key] = 0
  BY DEF Init
<1>4. IdsOK /\ PromotionOK /\ OnePrimary
  BY <1>2, IdleTyped DEF Init, IdsOK, PromotionOK, Cleared, At, OnePrimary, Primaries
<1>5. PlacesOK /\ SoloOK
  BY <1>2, IdleTyped DEF PlacesOK, Placed, SoloOK, ClassesOf, Classes, Promotes
<1>6. \A p \in Procs, c \in 0..MaxChallenges : ~InHand(p, c)
  BY <1>2, IdleTyped DEF InHand, At
<1>7. ChallengesOK /\ ChallengeOnce
  BY <1>3, <1>6 DEF Init, ChallengesOK, ChallengeOnce
<1>8. CounterOK
  BY <1>2, IdleTyped DEF CounterOK, At
<1>9. Abstract!Init
  <2>1. \A c \in Challenges : Status[c] = "new"
    BY StatusIs, BoundsAssumption DEF Init, Challenges
  <2> QED
    BY <2>1 DEF Abstract!Init, Status
<1> QED
  BY <1>1, <1>4, <1>5, <1>7, <1>8, <1>9 DEF IInv

(* Requests stand where their operation says, methods have ids of their own, *)
(* a challenge is in one place at most, and a verified counter is not behind *)
(* the stored one: IInv is inductive.                                        *)
THEOREM InductiveInvariant == Spec => []IInv
<1>1. IInv /\ [Next]_vars => IInv'
  <2> SUFFICES ASSUME IInv, [Next]_vars PROVE IInv'
    OBVIOUS
  <2>1. TypeOK' /\ PlacesOK' /\ SoloOK'
    BY StepTyped DEF IInv
  <2> QED
    BY <2>1, StepMethods, StepChallenges, StepCounters DEF IInv, MethodsOK, OnceOK
<1> QED
  BY <1>1, InitInvariant, PTL DEF Spec

(* Promotions that do not overlap leave one primary method, whatever else   *)
(* runs, deletes methods under them or fails (createUserTwoStepVerification, *)
(* updateUserTwoStepVerification, addPasskey).                               *)
THEOREM PromotionsLeaveOnePrimary == Spec => []OnePrimary
<1>1. IInv => OnePrimary
  BY DEF IInv
<1> QED
  BY <1>1, InductiveInvariant, PTL

(* Verifications that do not overlap never turn a passkey's counter back    *)
(* (verifyPasskey: verifyAuthenticationResponse, then updatePasskeyCounter). *)
THEOREM CountersNeverFall == Spec => CounterNeverFalls
<1>1. IInv /\ [Next]_vars =>
         [\A k \in Creds : "sign" \in Solo => passkeys'[k] >= passkeys[k]]_vars
  BY StepCounters DEF NoneFalls
<1> QED
  BY <1>1, InductiveInvariant, PTL DEF Spec, CounterNeverFalls

(* Challenges are used as OneTime says, at most once and never after they   *)
(* were taken, replaced or expired, over both stores, loss of Redis and      *)
(* crashes (WebAuthnChallengeService.consumeChallenge).                      *)
THEOREM ChallengesAreOneTime == Spec => ImplementsOneTime
<1>1. IInv /\ [Next]_vars => [Abstract!Next]_Status
  BY StepChallenges, StepRefines
<1>2. Init => Abstract!Init
  BY InitInvariant
<1> QED
  BY <1>1, <1>2, InductiveInvariant, PTL DEF Spec, ImplementsOneTime, Abstract!Spec
=============================================================================
