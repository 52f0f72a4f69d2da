---------------------- MODULE RateLimitPenaltyProofs ----------------------
(***************************************************************************)
(* Proofs about the penalties, the times to live and the monitor mode of   *)
(* the module RateLimit, for all values of its constants.                  *)
(***************************************************************************)
EXTENDS RateLimitProofs

GuardLabels == BlockLabels \cup RuleLabels

(* Where the four ways on lead, and what they leave of the request.         *)

\* What is left of request r when it goes on as q in front of the handler.
Onward(r, q) ==
    \/ Mode = "enforce" /\ q = Answered("limited")
    \/ /\ q.at \in {"b_get", "q_incr", "handle"}
       /\ q.toks = r.toks /\ q.reply = r.reply /\ q.n = r.n

LEMMA RuleOnward ==
    ASSUME NEW r \in Request
    PROVE  Onward(r, AfterRule(r))
BY DEF Onward, AfterRule, Request

LEMMA BlockOnward ==
    ASSUME NEW r \in Request
    PROVE  Onward(r, AfterBlock(r))
<1> DEFINE u == [r EXCEPT !.todo = {t \in r.toks : Limit[t] > 0}]
<1>1. u \in Request /\ u.toks = r.toks /\ u.reply = r.reply /\ u.n = r.n
  BY DEF Request
<1>2. \/ AfterBlock(r) \in {[r EXCEPT !.at = "b_get"], AfterRule(u), [r EXCEPT !.at = "handle"]}
      \/ Mode = "enforce" /\ AfterBlock(r) = Answered("limited")
  BY DEF AfterBlock, u
<1> HIDE DEF u
<1>3. Onward(u, AfterRule(u))
  BY <1>1, RuleOnward
<1>4. \A q : Onward(u, q) => Onward(r, q)
  BY <1>1 DEF Onward
<1>5. Onward(r, [r EXCEPT !.at = "b_get"]) /\ Onward(r, [r EXCEPT !.at = "handle"])
  BY DEF Onward, Request
<1> QED
  BY <1>2, <1>3, <1>4, <1>5 DEF Onward

\* The four ways on lead to requests.
LEMMA WaysTyped ==
    ASSUME NEW r \in Request
    PROVE  AfterRule(r) \in Request /\ AfterBlock(r) \in Request
           /\ AfterFailure(r) \in Request /\ AfterSuccess(r) \in Request
<1> DEFINE u == [r EXCEPT !.todo = {t \in r.toks : Limit[t] > 0}]
<1>1. u \in Request
  BY DEF Request
<1>2. ASSUME NEW v \in Request, NEW label \in Labels
      PROVE  [v EXCEPT !.at = label] \in Request
  BY DEF Request
<1>3. {"b_get", "q_incr", "handle", "f_incr", "s_del"} \subseteq Labels
  BY DEF Labels
<1>4. ASSUME NEW reply \in {"limited", "error", "served"}
      PROVE  Answered(reply) \in Request
  BY AnsweredPlaced DEF Replies
<1>5. ASSUME NEW v \in Request
      PROVE  AfterRule(v) \in Request
  BY <1>2, <1>3, <1>4 DEF AfterRule
<1>6. AfterRule(u) \in Request
  BY <1>1, <1>5
<1>7. AfterBlock(r) \in {[r EXCEPT !.at = "b_get"], AfterRule(u), Answered("limited"),
                         [r EXCEPT !.at = "handle"]}
  BY DEF AfterBlock, u
<1> HIDE DEF u
<1> QED
  BY <1>2, <1>3, <1>4, <1>5, <1>6, <1>7 DEF AfterFailure, AfterSuccess

LEMMA FailureOnward ==
    ASSUME NEW r \in Request
    PROVE  \/ /\ r.todo # {} /\ AfterFailure(r) = [r EXCEPT !.at = "f_incr"]
              /\ AfterFailure(r).at = "f_incr" /\ AfterFailure(r).todo = r.todo
              /\ AfterFailure(r).reply = r.reply
           \/ /\ r.todo = {} /\ AfterFailure(r).at = "idle"
              /\ AfterFailure(r).reply = (IF r.reply = "error" THEN "error" ELSE "served")
BY DEF AfterFailure, Answered, Request

LEMMA SuccessOnward ==
    ASSUME NEW r \in Request
    PROVE  \/ /\ r.todo # {} /\ AfterSuccess(r).at = "s_del" /\ AfterSuccess(r).todo = r.todo
              /\ AfterSuccess(r).reply = r.reply
           \/ r.todo = {} /\ AfterSuccess(r).at = "idle" /\ AfterSuccess(r).reply = "served"
BY DEF AfterSuccess, Answered, Request

\* Move, but for the counts a request holds.
LEMMA MoveGoes ==
    ASSUME NEW p \in Procs, NEW r \in Request, Move(p, r)
    PROVE  \E q \in Request : /\ rq' = [rq EXCEPT ![p] = q]
                              /\ q.at = r.at /\ q.toks = r.toks /\ q.todo = r.todo
                              /\ q.n = r.n /\ q.reply = r.reply
<1> DEFINE q == IF r.at = "handle" THEN [r EXCEPT !.held = {}] ELSE r
<1>1. q \in Request /\ q.at = r.at /\ q.toks = r.toks /\ q.todo = r.todo
      /\ q.n = r.n /\ q.reply = r.reply
  BY DEF Request
<1>2. rq' = [rq EXCEPT ![p] = q]
  BY DEF Move
<1> QED
  BY <1>1, <1>2

\* What a guard step may make of request p.
Guarded(p, q) ==
    \/ Mode = "enforce" /\ q.at = "idle"
    \/ q.at \in GuardLabels \cup {"handle"} /\ q.toks = rq[p].toks /\ q.reply = rq[p].reply

LEMMA OnwardGuarded ==
    ASSUME NEW p \in Procs, NEW r \in Request, r.toks = rq[p].toks, r.reply = rq[p].reply
    PROVE  Guarded(p, AfterRule(r)) /\ Guarded(p, AfterBlock(r))
<1>1. Onward(r, AfterRule(r)) /\ Onward(r, AfterBlock(r))
  BY RuleOnward, BlockOnward
<1>2. ASSUME NEW q, Onward(r, q)
      PROVE  Guarded(p, q)
  BY <1>2 DEF Onward, Guarded, Answered, GuardLabels, BlockLabels, RuleLabels
<1> QED
  BY <1>1, <1>2

\* A store with the failures and the blocks there were.
PenaltiesKept(st) ==
    \A s \in Stores, t \in Tokens : /\ st[s][<<"fail", t>>] = store[s][<<"fail", t>>]
                                    /\ st[s][<<"block", t>>] = store[s][<<"block", t>>]

\* A step of the guard turns no request away in monitor mode, and leaves the
\* failures and the blocks alone.
GuardGoes(p) ==
    /\ link' = link /\ fails' = fails /\ PenaltiesKept(store')
    /\ \E r \in Request : rq' = [rq EXCEPT ![p] = r] /\ Guarded(p, r)

LEMMA MoveGuarded ==
    ASSUME NEW p \in Procs, NEW q \in Request, Guarded(p, q), Move(p, q)
    PROVE  \E r \in Request : rq' = [rq EXCEPT ![p] = r] /\ Guarded(p, r)
<1>1. PICK x \in Request : /\ rq' = [rq EXCEPT ![p] = x]
                           /\ x.at = q.at /\ x.toks = q.toks /\ x.reply = q.reply
  BY MoveGoes
<1>2. Guarded(p, x)
  BY <1>1 DEF Guarded
<1> QED
  BY <1>1, <1>2

\* Done with its current token, what a request still is.
LEMMA LaterKeeps ==
    ASSUME Typed, NEW p \in Procs
    PROVE  /\ Later(p) \in Request /\ Later(p).todo = rq[p].todo \ {Current(p)}
           /\ Later(p).toks = rq[p].toks /\ Later(p).reply = rq[p].reply
           /\ Later(p).wait = rq[p].wait /\ Later(p).todo \subseteq Later(p).toks
<1>1. rq[p] \in Request
  BY DEF Typed, TypeOK
<1> QED
  BY <1>1, LaterTyped DEF Typed, Request

\* The commands on the counters of requests leave the other keys alone.
LEMMA ReqKeysOnly ==
    ASSUME Typed, NEW t \in Tokens, NEW w \in Nat
    PROVE  /\ PenaltiesKept(store)
           /\ PenaltiesKept(Incremented(Active, <<"req", t>>, w))
           /\ PenaltiesKept(WithExpiry(<<"req", t>>, w))
<1>1. StoreTyped(store) /\ Active \in Stores /\ <<"req", t>> \in Keys
  BY TypedStore, KeysDiffer
<1>2. ASSUME NEW st, \A s \in Stores, j \in Keys : j # <<"req", t>> => st[s][j] = store[s][j]
      PROVE  PenaltiesKept(st)
  BY <1>2, KeysDiffer DEF PenaltiesKept
<1>3. \A s \in Stores, j \in Keys :
         j # <<"req", t>> => Incremented(Active, <<"req", t>>, w)[s][j] = store[s][j]
  BY <1>1, IncrementedTyped
<1>4. \A s \in Stores, j \in Keys : j # <<"req", t>> => WithExpiry(<<"req", t>>, w)[s][j] = store[s][j]
  BY <1>1, ExpiryTyped
<1> QED
  BY <1>2, <1>3, <1>4

LEMMA GuardGone ==
    ASSUME Typed, NEW p \in Procs, GuardStep(p)
    PROVE  rq[p].at \in GuardLabels /\ GuardGoes(p)
<1>0. rq[p].at \in GuardLabels /\ rq[p].at \notin {"idle", "handle"}
  BY DEF GuardStep, BlockGet, BlockTtl, ReqIncr, ReqExpire, ReqTtl, At,
         GuardLabels, BlockLabels, RuleLabels
<1>1. rq[p] \in Request /\ Current(p) \in Tokens /\ Key(p, "req") = <<"req", Current(p)>>
      /\ Key(p, "req") \in Keys /\ Key(p, "block") \in Keys
  BY <1>0, Waiting DEF Key
<1>2. link' = link /\ fails' = fails
  BY DEF GuardStep, BlockGet, BlockTtl, ReqIncr, ReqExpire, ReqTtl
<1>3. PenaltiesKept(store')
  <2>1. store' \in {store, Incremented(Active, <<"req", Current(p)>>, Window),
                    WithExpiry(<<"req", Current(p)>>, Window)}
    BY <1>1 DEF GuardStep, BlockGet, BlockTtl, ReqIncr, ReqExpire, ReqTtl
  <2> QED
    BY <1>1, <2>1, ReqKeysOnly, PolicyAssumption
<1> SUFFICES \E q \in Request : Move(p, q) /\ Guarded(p, q)
  BY <1>0, <1>2, <1>3, MoveGuarded DEF GuardGoes
<1>4. CASE BlockGet(p) /\ Live(Active, Key(p, "block"))
  <2> DEFINE q == [rq[p] EXCEPT !.at = "b_ttl"]
  <2>1. q \in Request /\ Guarded(p, q)
    BY <1>1 DEF Request, Labels, GuardLabels, BlockLabels, Guarded
  <2>2. Move(p, q)
    BY <1>4 DEF BlockGet
  <2> QED
    BY <2>1, <2>2
<1>5. CASE BlockGet(p) /\ ~Live(Active, Key(p, "block"))
  <2>1. Move(p, AfterBlock(Later(p)))
    BY <1>5 DEF BlockGet
  <2> QED
    BY <2>1, LaterKeeps, OnwardGuarded, WaysTyped
<1>6. CASE BlockTtl(p)
  <2>1. PICK ttl \in Ttl(Active, Key(p, "block")) :
           Move(p, AfterBlock([Later(p) EXCEPT !.wait = IF ttl > @ THEN ttl ELSE @]))
    BY <1>6 DEF BlockTtl
  <2> DEFINE q == [Later(p) EXCEPT !.wait = IF ttl > Later(p).wait THEN ttl ELSE Later(p).wait]
  <2>2. ttl \in Nat
    BY <1>1, TtlTyped
  <2>3. q \in Request /\ q.toks = rq[p].toks /\ q.reply = rq[p].reply
    BY <2>2, LaterKeeps DEF Request
  <2>4. Move(p, AfterBlock(q))
    BY <2>1
  <2> HIDE DEF q
  <2> QED
    BY <2>3, <2>4, OnwardGuarded, WaysTyped
<1>7. CASE ReqIncr(p)
  <2> DEFINE q == [rq[p] EXCEPT !.held = @ \cup {<<Active, Current(p)>>}]
             q1 == [q EXCEPT !.todo = @ \ {Current(p)}]
  <2>1. q \in Request /\ q.toks = rq[p].toks /\ q.reply = rq[p].reply
    BY <1>1, TypedStore DEF Request
  <2>2. q1 \in Request /\ q1.toks = rq[p].toks /\ q1.reply = rq[p].reply
    BY <2>1 DEF Request
  <2>3. \/ Move(p, [q EXCEPT !.at = "q_expire"])
        \/ Move(p, [q EXCEPT !.over = TRUE, !.at = "q_ttl"])
        \/ Move(p, AfterRule(q1))
    BY <1>7 DEF ReqIncr
  <2> HIDE DEF q, q1
  <2>4. [q EXCEPT !.at = "q_expire"] \in Request /\ Guarded(p, [q EXCEPT !.at = "q_expire"])
    BY <2>1 DEF Request, Labels, Guarded, GuardLabels, RuleLabels
  <2>5. /\ [q EXCEPT !.over = TRUE, !.at = "q_ttl"] \in Request
        /\ Guarded(p, [q EXCEPT !.over = TRUE, !.at = "q_ttl"])
    BY <2>1 DEF Request, Labels, Guarded, GuardLabels, RuleLabels
  <2>6. AfterRule(q1) \in Request /\ Guarded(p, AfterRule(q1))
    BY <2>2, OnwardGuarded, WaysTyped
  <2> QED
    BY <2>3, <2>4, <2>5, <2>6
<1>8. CASE ReqExpire(p)
  <2>1. Move(p, AfterRule(Later(p)))
    BY <1>8 DEF ReqExpire
  <2> QED
    BY <2>1, LaterKeeps, OnwardGuarded, WaysTyped
<1>9. CASE ReqTtl(p)
  <2>1. PICK ttl \in Ttl(Active, Key(p, "req")) :
           LET wait == IF ttl = 0 THEN Window ELSE ttl
           IN  Move(p, AfterRule([Later(p) EXCEPT !.wait = IF wait > @ THEN wait ELSE @]))
    BY <1>9 DEF ReqTtl
  <2> DEFINE wait == IF ttl = 0 THEN Window ELSE ttl
             q == [Later(p) EXCEPT !.wait = IF wait > Later(p).wait THEN wait ELSE Later(p).wait]
  <2>2. wait \in Nat
    BY <1>1, TtlTyped, PolicyAssumption
  <2>3. Move(p, AfterRule(q))
    BY <2>1
  <2> HIDE DEF wait
  <2>4. q \in Request /\ q.toks = rq[p].toks /\ q.reply = rq[p].reply
    BY <2>2, LaterKeeps DEF Request
  <2> HIDE DEF q
  <2> QED
    BY <2>3, <2>4, OnwardGuarded, WaysTyped
<1> QED
  BY <1>4, <1>5, <1>6, <1>7, <1>8, <1>9 DEF GuardStep

-----------------------------------------------------------------------------
(* The handler's answer and what is recorded of it.                         *)

\* A request goes on with the answer it had, or is served; it is about to
\* write a block only when it has just asked what is left of the one there is.
Records(p, r) ==
    /\ r.reply \in {rq[p].reply, "served"}
    /\ r.at = "f_set" => rq[p].at = "f_ttl"

LEMMA OutcomeGone ==
    ASSUME Typed, NEW p \in Procs, OutcomeStep(p) \/ \E result \in Results : Handle(p, result)
    PROVE  \E r \in Request : rq' = [rq EXCEPT ![p] = r] /\ Records(p, r)
<1>1. rq[p] \in Request
  BY DEF Typed, TypeOK
<1>2. ASSUME NEW r \in Request, r.reply = rq[p].reply
      PROVE  /\ AfterFailure(r) \in Request /\ Records(p, AfterFailure(r))
             /\ AfterSuccess(r) \in Request /\ Records(p, AfterSuccess(r))
  BY <1>2, WaysTyped, FailureOnward, SuccessOnward DEF Records
<1>3. Answered("served") \in Request /\ Records(p, Answered("served"))
  BY AnsweredPlaced DEF Replies, Answered, Records
<1>4. ASSUME NEW label \in Labels, label = "f_set" => rq[p].at = "f_ttl", NEW n \in Nat
      PROVE  /\ [rq[p] EXCEPT !.at = label] \in Request
             /\ Records(p, [rq[p] EXCEPT !.at = label])
             /\ [rq[p] EXCEPT !.n = n, !.at = label] \in Request
             /\ Records(p, [rq[p] EXCEPT !.n = n, !.at = label])
  BY <1>1, <1>4 DEF Request, Records
<1>5. ASSUME NEW n \in Nat, Counted(p, n)
      PROVE  \E r \in Request : rq' = [rq EXCEPT ![p] = r] /\ Records(p, r)
  <2>1. "f_ttl" \in Labels
    BY DEF Labels
  <2> QED
    BY <1>2, <1>4, <1>5, <2>1, LaterKeeps DEF Counted
<1>6. CASE FailIncr(p)
  <2> DEFINE n == store[Active][Key(p, "fail")].val + 1
  <2>1. n \in Nat
    <3>1. Key(p, "fail") \in Keys
      BY <1>6, Waiting DEF FailIncr, At
    <3> QED
      BY <3>1, TypedStore DEF Typed, TypeOK, Entry
  <2>2. rq' = [rq EXCEPT ![p] = [rq[p] EXCEPT !.at = "f_expire"]] \/ Counted(p, n)
    BY <1>6 DEF FailIncr
  <2>3. "f_expire" \in Labels /\ 1 \in Nat
    BY DEF Labels
  <2> HIDE DEF n
  <2> QED
    BY <1>4, <1>5, <2>1, <2>2, <2>3
<1>7. CASE FailExpire(p)
  <2>1. Counted(p, 1)
    BY <1>7 DEF FailExpire
  <2> QED
    BY <1>5, <2>1
<1>8. CASE FailTtl(p)
  <2>1. \/ rq' = [rq EXCEPT ![p] = [rq[p] EXCEPT !.at = "f_set"]]
        \/ rq' = [rq EXCEPT ![p] = AfterFailure(Later(p))]
    BY <1>8 DEF FailTtl
  <2>2. "f_set" \in Labels /\ 1 \in Nat /\ rq[p].at = "f_ttl"
    BY <1>8 DEF Labels, FailTtl, At
  <2> QED
    BY <1>2, <1>4, <2>1, <2>2, LaterKeeps
<1>9. CASE BlockSet(p) \/ FailDel(p)
  BY <1>2, <1>9, LaterKeeps DEF BlockSet, FailDel
<1>10. ASSUME NEW result \in Results, Handle(p, result)
       PROVE  \E r \in Request : rq' = [rq EXCEPT ![p] = r] /\ Records(p, r)
  <2> DEFINE r == [rq[p] EXCEPT !.todo = rq[p].toks, !.wait = 0, !.over = FALSE]
             f == [r EXCEPT !.caught = result = "thrown"]
  <2>1. r \in Request /\ r.reply = rq[p].reply /\ f \in Request /\ f.reply = rq[p].reply
    BY <1>1 DEF Request
  <2>2. \/ rq' = [rq EXCEPT ![p] = Answered("served")]
        \/ rq' = [rq EXCEPT ![p] = AfterSuccess(r)]
        \/ rq' = [rq EXCEPT ![p] = AfterFailure(f)]
    BY <1>10 DEF Handle
  <2> HIDE DEF r, f
  <2> QED
    BY <1>2, <1>3, <2>1, <2>2
<1> QED
  BY <1>6, <1>7, <1>8, <1>9, <1>10 DEF OutcomeStep

-----------------------------------------------------------------------------
(* In monitor mode every answer is the handler's.                           *)

LEMMA StepMonitor == Typed /\ MonitorOK /\ [Next]_vars => MonitorOK'
<1> SUFFICES ASSUME Typed, MonitorServes, [Next]_vars, Mode = "monitor", "reject" \notin Faults
             PROVE  MonitorServes'
  BY DEF MonitorOK
<1>1. ASSUME NEW p \in Procs, NEW r \in Request, rq' = [rq EXCEPT ![p] = r],
             r.reply \notin {"limited", "error"}
      PROVE  MonitorServes'
  BY <1>1 DEF MonitorServes, Typed, TypeOK
<1>2. ASSUME NEW p \in Procs, Step(p)
      PROVE  MonitorServes'
  <2>1. CASE GuardStep(p)
    <3>1. PICK r \in Request : rq' = [rq EXCEPT ![p] = r] /\ r.reply = rq[p].reply
      BY <2>1, GuardGone DEF GuardGoes, Guarded
    <3> QED
      BY <1>1, <3>1 DEF MonitorServes
  <2>2. CASE ~GuardStep(p)
    BY <1>1, <1>2, <2>2, OutcomeGone DEF MonitorServes, Step, Records
  <2> QED
    BY <2>1, <2>2
<1>3. ASSUME NEW p \in Procs, NEW toks \in Senders, Arrive(p, toks)
      PROVE  MonitorServes'
  <2> DEFINE r == [Answered("none") EXCEPT !.at = "b_get", !.toks = toks, !.todo = toks,
                                            !.barred = {t \in toks : Firm(Active, t)}]
  <2>1. rq' = [rq EXCEPT ![p] = r] /\ r.reply = "none"
    BY <1>3 DEF Arrive, Answered
  <2> HIDE DEF r
  <2> QED
    BY <2>1 DEF MonitorServes, Typed, TypeOK
<1>4. CASE Connect \/ Lose \/ Tick
  <2>1. \A p \in Procs : rq'[p].reply = rq[p].reply
    BY <1>4 DEF Connect, Lose, Switch, Tick, Typed, TypeOK, Request
  <2> QED
    BY <2>1 DEF MonitorServes
<1>5. CASE Crash
  BY <1>5 DEF Crash, MonitorServes, Answered
<1>6. CASE UNCHANGED vars
  BY <1>6 DEF vars, MonitorServes
<1> QED
  BY <1>2, <1>3, <1>4, <1>5, <1>6 DEF Next, CallRejects

-----------------------------------------------------------------------------
(* A key without a time to live is about to be given one.                   *)

ExpiringBy(p, k) == \/ At(p, "q_expire") /\ k = Key(p, "req")
                    \/ At(p, "f_expire") /\ k = Key(p, "fail")
Endless(k) == store["redis"][k].val > 0 /\ store["redis"][k].left = 0

LEMMA KeysExpireIs == KeysExpire <=> \A k \in Keys : Endless(k) => \E p \in Procs : ExpiringBy(p, k)
BY DEF KeysExpire, Live, Expiring, Endless, ExpiringBy

\* A step of p makes no key endless but the one it is about to see to.
LEMMA OneStepExpires ==
    ASSUME Typed, KeysExpire, NEW p \in Procs, NEW r \in Request, rq' = [rq EXCEPT ![p] = r],
           \A k \in Keys : Endless(k)' => \/ Endless(k) /\ ~ExpiringBy(p, k)
                                          \/ ExpiringBy(p, k)'
    PROVE  KeysExpire'
<1>1. \A q \in Procs : q # p => rq'[q] = rq[q]
  BY DEF Typed, TypeOK
<1>2. \A q \in Procs, k \in Keys : q # p => (ExpiringBy(q, k)' <=> ExpiringBy(q, k))
  BY <1>1 DEF ExpiringBy, At, Key, Current
<1>3. ASSUME NEW k \in Keys, Endless(k)'
      PROVE  (\E q \in Procs : ExpiringBy(q, k))'
  <2>1. CASE ExpiringBy(p, k)'
    BY <2>1
  <2>2. CASE Endless(k) /\ ~ExpiringBy(p, k)
    <3>1. PICK q \in Procs : ExpiringBy(q, k)
      BY <2>2, KeysExpireIs
    <3> QED
      BY <1>2, <2>2, <3>1
  <2> QED
    BY <1>3, <2>1, <2>2
<1> QED
  BY <1>3 DEF KeysExpire, Live, Expiring, Endless, ExpiringBy

\* INCR makes an endless key only where there was none.
LEMMA IncrementedEndless ==
    ASSUME Typed, NEW s \in Stores, NEW j \in Keys, NEW w \in Nat \ {0}, NEW k \in Keys,
           Incremented(s, j, w)["redis"][k].val > 0, Incremented(s, j, w)["redis"][k].left = 0
    PROVE  Endless(k) \/ (s = "redis" /\ k = j /\ store["redis"][j].val = 0)
<1>1. store["redis"][k] \in Entry /\ StoreTyped(store) /\ "redis" \in Stores
  BY TypedStore DEF Typed, TypeOK, Stores
<1>2. CASE s = "redis" /\ k = j
  <2>1. Incremented(s, j, w)["redis"][k].left = store["redis"][k].left
    BY <1>1, <1>2 DEF Incremented, Put, StoreTyped
  <2> QED
    BY <1>1, <1>2, <2>1 DEF Endless, Entry
<1>3. CASE ~(s = "redis" /\ k = j)
  BY <1>1, <1>3, IncrementedTyped DEF Endless
<1> QED
  BY <1>2, <1>3

\* EXPIRE gives its key an end.
LEMMA ExpiryEndless ==
    ASSUME Typed, NEW j \in Keys, NEW w \in Nat \ {0}, NEW k \in Keys,
           WithExpiry(j, w)["redis"][k].val > 0, WithExpiry(j, w)["redis"][k].left = 0
    PROVE  Endless(k) /\ k # j
<1>1. store["redis"][k] \in Entry /\ StoreTyped(store) /\ "redis" \in Stores
  BY TypedStore DEF Typed, TypeOK, Stores
<1>2. CASE k = j
  BY <1>1, <1>2 DEF WithExpiry, Put, Live, StoreTyped, Entry
<1>3. CASE k # j
  BY <1>1, <1>3, ExpiryTyped DEF Endless
<1> QED
  BY <1>2, <1>3

\* A block has an end, and a key deleted is no key.
LEMMA PutEndless ==
    ASSUME Typed, NEW s \in Stores, NEW j \in Keys, NEW e \in Entry, e.val = 0 \/ e.left > 0,
           e.left > 0 => e.val > 0,
           NEW k \in Keys, Put(s, j, e)["redis"][k].val > 0, Put(s, j, e)["redis"][k].left = 0
    PROVE  Endless(k)
<1>1. StoreTyped(store) /\ "redis" \in Stores
  BY TypedStore DEF Stores
<1>2. ~(s = "redis" /\ k = j)
  BY <1>1, PutTyped DEF Entry
<1> QED
  BY <1>1, <1>2, PutTyped DEF Endless

\* A counter just created is seen to by the request that created it.
LEMMA IncrExpires ==
    ASSUME Typed, NEW p \in Procs, ReqIncr(p) \/ FailIncr(p), NEW k \in Keys, Endless(k)'
    PROVE  Endless(k) \/ ExpiringBy(p, k)'
<1>1. rq \in [Procs -> Request] /\ rq[p] \in Request /\ rq[p].at \in {"q_incr", "f_incr"}
  BY DEF Typed, TypeOK, ReqIncr, FailIncr, At
<1>2. Key(p, "req") \in Keys /\ Key(p, "fail") \in Keys /\ Active \in Stores
  BY <1>1, Waiting, TypedStore
<1>3. SUFFICES ASSUME ~Endless(k)
               PROVE  ExpiringBy(p, k)'
  OBVIOUS
<1>4. CASE ReqIncr(p)
  <2>1. store' = Incremented(Active, Key(p, "req"), Window)
    BY <1>4 DEF ReqIncr
  <2>2. Active = "redis" /\ k = Key(p, "req") /\ store["redis"][Key(p, "req")].val = 0
    BY <1>2, <1>3, <2>1, IncrementedEndless, PolicyAssumption DEF Endless
  <2> DEFINE q == [[rq[p] EXCEPT !.held = @ \cup {<<Active, Current(p)>>}] EXCEPT !.at = "q_expire"]
  <2>3. Move(p, q)
    BY <1>4, <2>2 DEF ReqIncr
  <2>4. q \in Request /\ q.at = "q_expire" /\ q.todo = rq[p].todo
    <3>1. <<Active, Current(p)>> \in Stores \X Tokens
      BY <1>1, <1>2, Waiting
    <3>2. rq[p].held \cup {<<Active, Current(p)>>} \in SUBSET (Stores \X Tokens)
      BY <1>1, <3>1 DEF Request
    <3> QED
      BY <1>1, <3>2 DEF Request, Labels
  <2> HIDE DEF q
  <2>5. rq'[p].at = "q_expire" /\ rq'[p].todo = rq[p].todo
    BY <1>1, <2>3, <2>4, MoveGoes
  <2>6. Key(p, "req")' = Key(p, "req")
    BY <2>5 DEF Key, Current
  <2> QED
    BY <2>2, <2>5, <2>6 DEF ExpiringBy, At
<1>5. CASE FailIncr(p)
  <2>1. store' = Incremented(Active, Key(p, "fail"), FailWindow)
    BY <1>5 DEF FailIncr
  <2>2. Active = "redis" /\ k = Key(p, "fail") /\ store["redis"][Key(p, "fail")].val = 0
    BY <1>2, <1>3, <2>1, IncrementedEndless, PolicyAssumption DEF Endless
  <2>3. rq' = [rq EXCEPT ![p].at = "f_expire"]
    BY <1>5, <2>2 DEF FailIncr
  <2>4. rq'[p].at = "f_expire" /\ rq'[p].todo = rq[p].todo
    BY <1>1, <2>3 DEF Request
  <2>5. Key(p, "fail")' = Key(p, "fail")
    BY <2>4 DEF Key, Current
  <2> QED
    BY <2>2, <2>4, <2>5 DEF ExpiringBy, At
<1> QED
  BY <1>4, <1>5

LEMMA StepEndless ==
    ASSUME Typed, NEW p \in Procs, Step(p), NEW k \in Keys, Endless(k)'
    PROVE  (Endless(k) /\ ~ExpiringBy(p, k)) \/ ExpiringBy(p, k)'
<1>1. CASE BlockGet(p) \/ BlockTtl(p) \/ ReqTtl(p) \/ FailTtl(p)
           \/ \E result \in Results : Handle(p, result)
  <2>1. store' = store /\ rq[p].at \notin {"q_expire", "f_expire"}
    BY <1>1 DEF BlockGet, BlockTtl, ReqTtl, FailTtl, Handle, At
  <2> QED
    BY <2>1 DEF Endless, ExpiringBy, At
<1>2. CASE ReqIncr(p) \/ FailIncr(p)
  <2>1. rq[p].at \notin {"q_expire", "f_expire"}
    BY <1>2 DEF ReqIncr, FailIncr, At
  <2> QED
    BY <1>2, <2>1, IncrExpires DEF ExpiringBy, At
<1>3. CASE ReqExpire(p)
  <2>1. rq[p].at = "q_expire" /\ store' = WithExpiry(Key(p, "req"), Window)
    BY <1>3 DEF ReqExpire, At
  <2>2. Key(p, "req") \in Keys
    BY <2>1, Waiting
  <2>3. Endless(k) /\ k # Key(p, "req")
    BY <2>1, <2>2, ExpiryEndless, PolicyAssumption DEF Endless
  <2> QED
    BY <2>1, <2>3 DEF ExpiringBy, At
<1>4. CASE FailExpire(p)
  <2>1. rq[p].at = "f_expire" /\ store' = WithExpiry(Key(p, "fail"), FailWindow)
    BY <1>4 DEF FailExpire, At
  <2>2. Key(p, "fail") \in Keys
    BY <2>1, Waiting
  <2>3. Endless(k) /\ k # Key(p, "fail")
    BY <2>1, <2>2, ExpiryEndless, PolicyAssumption DEF Endless
  <2> QED
    BY <2>1, <2>3 DEF ExpiringBy, At
<1>5. CASE BlockSet(p)
  <2> DEFINE e == [val |-> 1, left |-> BlockSec(rq[p].n)]
  <2>1. rq[p].at = "f_set" /\ store' = Put(Active, Key(p, "block"), e)
    BY <1>5 DEF BlockSet, Blocked, At
  <2>2. Key(p, "block") \in Keys /\ rq[p].n \in Nat /\ Matching(rq[p].n) # {}
    BY <2>1, Waiting DEF Request, Placed
  <2>3. e \in Entry /\ e.left > 0 /\ e.val > 0
    BY <2>2, BlockSecTyped DEF Entry
  <2> HIDE DEF e
  <2>4. Endless(k)
    BY <2>1, <2>2, <2>3, TypedStore, PutEndless DEF Endless
  <2> QED
    BY <2>1, <2>4 DEF ExpiringBy, At
<1>6. CASE FailDel(p)
  <2>1. rq[p].at = "s_del" /\ store' = Put(Active, Key(p, "fail"), Gone)
    BY <1>6 DEF FailDel, At
  <2>2. Key(p, "fail") \in Keys
    BY <2>1, Waiting
  <2>3. Gone \in Entry /\ Gone.val = 0 /\ ~(Gone.left > 0)
    BY DEF Gone, Entry
  <2>4. Endless(k)
    BY <2>1, <2>2, <2>3, TypedStore, PutEndless DEF Endless
  <2> QED
    BY <2>1, <2>4 DEF ExpiringBy, At
<1> QED
  BY <1>1, <1>2, <1>3, <1>4, <1>5, <1>6 DEF Step, GuardStep, OutcomeStep

LEMMA StepExpiry == Typed /\ ExpiryOK /\ [Next]_vars => ExpiryOK'
<1> SUFFICES ASSUME Typed, KeysExpire, [Next]_vars, Faults \cap {"crash", "reject"} = {}
             PROVE  KeysExpire'
  BY DEF ExpiryOK
<1>1. ASSUME NEW p \in Procs, Step(p)
      PROVE  KeysExpire'
  <2>1. \E r \in Request : rq' = [rq EXCEPT ![p] = r]
    <3>1. CASE GuardStep(p)
      BY <3>1, GuardGone DEF GuardGoes
    <3>2. CASE ~GuardStep(p)
      BY <1>1, <3>2, OutcomeGone DEF Step
    <3> QED
      BY <3>1, <3>2
  <2> QED
    BY <1>1, <2>1, StepEndless, OneStepExpires
<1>2. ASSUME NEW p \in Procs, NEW toks \in Senders, Arrive(p, toks)
      PROVE  KeysExpire'
  <2> DEFINE r == [Answered("none") EXCEPT !.at = "b_get", !.toks = toks, !.todo = toks,
                                            !.barred = {t \in toks : Firm(Active, t)}]
  <2>1. rq' = [rq EXCEPT ![p] = r] /\ store' = store /\ rq[p].at = "idle"
    BY <1>2 DEF Arrive, At
  <2>2. toks \in SUBSET Tokens
    BY TokensAssumption
  <2>3. r \in Request
    BY <2>2 DEF Answered, Request, Labels, Replies
  <2> HIDE DEF r
  <2>4. \A k \in Keys : Endless(k)' => Endless(k) /\ ~ExpiringBy(p, k)
    BY <2>1 DEF Endless, ExpiringBy, At
  <2> QED
    BY <2>1, <2>3, <2>4, OneStepExpires
<1>3. CASE Connect \/ Lose \/ Tick \/ UNCHANGED vars
  <2>1. \A p \in Procs : rq'[p].at = rq[p].at /\ rq'[p].todo = rq[p].todo
    BY <1>3 DEF Connect, Lose, Switch, Tick, vars, Typed, TypeOK, Request
  <2>2. \A p \in Procs, k \in Keys : ExpiringBy(p, k)' <=> ExpiringBy(p, k)
    BY <2>1 DEF ExpiringBy, At, Key, Current
  <2>3. \A k \in Keys : Endless(k)' => Endless(k)
    <3>1. CASE Connect \/ Lose \/ UNCHANGED vars
      BY <3>1 DEF Connect, Lose, Switch, vars, Endless
    <3>2. ASSUME Tick, NEW k \in Keys, Endless(k)'
          PROVE  Endless(k)
      <4>1. "redis" \in Stores /\ store["redis"][k] \in Entry
        BY DEF Stores, Typed, TypeOK
      <4>2. store'["redis"][k] = IF Ends("redis", k) THEN Gone
                                 ELSE IF store["redis"][k].left = 0 THEN store["redis"][k]
                                 ELSE [store["redis"][k] EXCEPT !.left = @ - 1]
        BY <3>2, <4>1 DEF Tick
      <4> QED
        BY <3>2, <4>1, <4>2 DEF Endless, Ends, Gone, Entry
    <3> QED
      BY <1>3, <3>1, <3>2
  <2>4. ASSUME NEW k \in Keys, Endless(k)'
        PROVE  (\E p \in Procs : ExpiringBy(p, k))'
    BY <2>2, <2>3, <2>4, KeysExpireIs
  <2> QED
    BY <2>4 DEF KeysExpire, Live, Expiring, Endless, ExpiringBy
<1> QED
  BY <1>1, <1>2, <1>3 DEF Next, Crash, CallRejects

-----------------------------------------------------------------------------
(* Redis is untouched until the process has reached it.                     *)

LEMMA StepFresh == Typed /\ FreshOK /\ [Next]_vars => FreshOK'
<1> SUFFICES ASSUME Typed, FreshOK, [Next]_vars, "crash" \notin Faults, link' = "connecting"
             PROVE  \A k \in Keys : store'["redis"][k] = Gone
  BY DEF FreshOK
<1>1. link = "connecting" /\ ~Connect /\ ~Lose
  BY DEF Next, Step, GuardStep, OutcomeStep, BlockGet, BlockTtl, ReqIncr, ReqExpire, ReqTtl,
         FailIncr, FailExpire, FailTtl, BlockSet, FailDel, Handle, CallRejects, Arrive,
         Connect, Lose, Switch, Crash, Tick, vars
<1>2. Active = "memory" /\ \A k \in Keys : store["redis"][k] = Gone
  BY <1>1 DEF Active, FreshOK
<1>3. ASSUME Tick, NEW k \in Keys
      PROVE  store'["redis"][k] = Gone
  <2>1. "redis" \in Stores
    BY DEF Stores
  <2>2. store'["redis"][k] = IF Ends("redis", k) THEN Gone
                             ELSE IF store["redis"][k].left = 0 THEN store["redis"][k]
                             ELSE [store["redis"][k] EXCEPT !.left = @ - 1]
    BY <1>3, <2>1 DEF Tick
  <2> QED
    BY <1>2, <2>2 DEF Gone
<1>4. CASE store' = store
  BY <1>2, <1>4
<1>5. ASSUME NEW p \in Procs, Step(p), store' # store
      PROVE  store'["redis"] = store["redis"]
  <2>1. rq[p].at \in {"q_expire", "f_expire"} => Key(p, "req") \in Keys /\ Key(p, "fail") \in Keys
    BY Waiting
  <2>2. ReqExpire(p) \/ FailExpire(p) => store' = store
    BY <1>2, <2>1 DEF ReqExpire, FailExpire, At, WithExpiry, Live, Gone
  <2>3. \E k, e : store' = [store EXCEPT !["memory"][k] = e]
    BY <1>2, <1>5, <2>2 DEF Step, GuardStep, OutcomeStep, BlockGet, BlockTtl, ReqIncr, ReqTtl,
       FailIncr, FailTtl, BlockSet, FailDel, Handle, Incremented, Put, Blocked
  <2> QED
    BY <2>3 DEF Typed, TypeOK, Stores
<1>6. \/ Tick \/ store' = store \/ \E p \in Procs : Step(p)
  BY <1>1 DEF Next, CallRejects, Arrive, Crash, vars
<1> QED
  BY <1>2, <1>3, <1>4, <1>5, <1>6

-----------------------------------------------------------------------------
(* Alone, a request finds no block longer than the one it writes.           *)

\* A rejected command leaves no request about to write a block.
LEMMA RejectedAt ==
    ASSUME Typed, NEW p \in Procs
    PROVE  Rejected(p).at \in {"f_incr", "idle"}
<1> DEFINE q == [rq[p] EXCEPT !.todo = rq[p].toks, !.caught = TRUE, !.reply = "error"]
<1>1. q \in Request
  <2>1. rq[p] \in Request
    BY DEF Typed, TypeOK
  <2> QED
    BY <2>1 DEF Request, Replies
<1> HIDE DEF q
<1>2. AfterFailure(q).at \in {"f_incr", "idle"}
  BY <1>1, FailureOnward
<1> QED
  BY <1>2 DEF Rejected, Answered, q

\* Only FailTtl sends a request on to write a block.
LEMMA WhoSets ==
    ASSUME Typed, [Next]_vars, NEW p \in Procs, rq'[p].at = "f_set", rq[p].at # "f_set", Alone
    PROVE  FailTtl(p)
<1>1. rq \in [Procs -> Request]
  BY DEF Typed, TypeOK
<1>2. ASSUME NEW q \in Procs, Step(q)
      PROVE  FailTtl(p)
  <2>1. q = p
    BY DEF Alone
  <2>2. CASE GuardStep(p)
    <3>1. rq'[p].at \in GuardLabels \cup {"handle", "idle"}
      BY <1>1, <2>2, GuardGone DEF GuardGoes, Guarded
    <3> QED
      BY <3>1 DEF GuardLabels, BlockLabels, RuleLabels
  <2>3. CASE ~GuardStep(p)
    <3>1. rq[p].at = "f_ttl"
      BY <1>1, <1>2, <2>1, <2>3, OutcomeGone DEF Step, Records
    <3> QED
      BY <1>2, <2>1, <2>3, <3>1 DEF Step, OutcomeStep, Handle, FailIncr, FailExpire, BlockSet,
         FailDel, At
  <2> QED
    BY <2>2, <2>3
<1>3. ASSUME NEW q \in Procs, CallRejects(q)
      PROVE  FALSE
  <2>1. rq' = [rq EXCEPT ![p] = Rejected(p)]
    BY <1>3, CallRejectsTyped DEF Alone
  <2> QED
    BY <1>1, <2>1, RejectedAt
<1>4. ASSUME NEW q \in Procs, NEW toks \in Senders, Arrive(q, toks)
      PROVE  FALSE
  <2>1. rq'[p].at \in {"b_get", rq[p].at}
    BY <1>1, <1>4 DEF Arrive, Answered
  <2> QED
    BY <2>1
<1>5. CASE Connect \/ Lose \/ Tick \/ UNCHANGED vars
  BY <1>1, <1>5 DEF Connect, Lose, Switch, Tick, vars, Request
<1>6. CASE Crash
  BY <1>6 DEF Crash, Answered
<1> QED
  BY <1>2, <1>3, <1>4, <1>5, <1>6 DEF Next

LEMMA BlockedLeft ==
    ASSUME Typed, NEW p \in Procs, rq[p].at = "f_set"
    PROVE  Blocked(p)[Active][Key(p, "block")].left = BlockSec(rq[p].n)
BY Waiting, TypedStore DEF Blocked, Put, StoreTyped

\* A block changes with time, in a crash and by the request that writes it.
LEMMA BlockChanges ==
    ASSUME Typed, [Next]_vars, NEW s \in Stores, NEW t \in Tokens
    PROVE  \/ store'[s][<<"block", t>>] = store[s][<<"block", t>>]
           \/ Tick
           \/ Crash
           \/ \E p \in Procs : /\ At(p, "f_set") /\ store' = Blocked(p)
                               /\ s = Active /\ t = Current(p)
                               /\ link' = link /\ fails' = fails
<1> DEFINE k == <<"block", t>>
<1>1. k \in Keys
  BY DEF Keys
<1>2. ASSUME NEW p \in Procs, At(p, "f_set"), store' = Blocked(p), store'[s][k] # store[s][k]
      PROVE  s = Active /\ t = Current(p)
  <2>1. s = Active /\ k = Key(p, "block")
    BY <1>1, <1>2, BlockedTyped DEF At
  <2> QED
    BY <2>1 DEF Key
<1>3. ASSUME NEW p \in Procs, Step(p), ~BlockSet(p)
      PROVE  store'[s][k] = store[s][k]
  <2>1. CASE GuardStep(p)
    BY <2>1, GuardGone DEF GuardGoes, PenaltiesKept
  <2>2. CASE FailTtl(p) \/ \E result \in Results : Handle(p, result)
    BY <2>2 DEF FailTtl, Handle
  <2>3. CASE FailIncr(p) \/ FailExpire(p) \/ FailDel(p)
    <3>1. rq[p].at \notin {"idle", "handle"}
      BY <2>3 DEF FailIncr, FailExpire, FailDel, At
    <3>2. Current(p) \in Tokens /\ Key(p, "fail") = <<"fail", Current(p)>>
          /\ Key(p, "fail") \in Keys /\ k # Key(p, "fail")
      BY <3>1, Waiting, KeysDiffer DEF Key
    <3>3. StoreTyped(store) /\ Active \in Stores /\ Gone \in Entry /\ ~(Gone.left > 0)
      BY TypedStore DEF Gone, Entry
    <3>4. \/ store' = Incremented(Active, Key(p, "fail"), FailWindow)
          \/ store' = WithExpiry(Key(p, "fail"), FailWindow)
          \/ store' = Put(Active, Key(p, "fail"), Gone)
      BY <2>3 DEF FailIncr, FailExpire, FailDel
    <3> QED
      BY <1>1, <3>2, <3>3, <3>4, IncrementedTyped, ExpiryTyped, PutTyped, PolicyAssumption
  <2> QED
    BY <1>3, <2>1, <2>2, <2>3 DEF Step, OutcomeStep
<1>4. ASSUME NEW p \in Procs, CallRejects(p), ~(At(p, "f_set") /\ store' = Blocked(p))
      PROVE  store'[s][k] = store[s][k]
  <2>1. rq[p].at \notin {"idle", "handle"} /\ Active = "redis" /\ "redis" \in Stores
    BY <1>4 DEF CallRejects, At, Active, Stores
  <2>2. /\ Current(p) \in Tokens
        /\ Key(p, "fail") = <<"fail", Current(p)>> /\ Key(p, "req") = <<"req", Current(p)>>
        /\ Key(p, "fail") \in Keys /\ k # Key(p, "fail")
        /\ Key(p, "req") \in Keys /\ k # Key(p, "req")
    BY <2>1, Waiting, KeysDiffer DEF Key
  <2>3. StoreTyped(store) /\ Gone \in Entry /\ ~(Gone.left > 0)
    BY TypedStore DEF Gone, Entry
  <2>4. \/ store' = store
        \/ store' = Incremented("redis", Key(p, "req"), Window)
        \/ store' = WithExpiry(Key(p, "req"), Window)
        \/ store' = Incremented("redis", Key(p, "fail"), FailWindow)
        \/ store' = WithExpiry(Key(p, "fail"), FailWindow)
        \/ store' = Put("redis", Key(p, "fail"), Gone)
    BY <1>4 DEF CallRejects, Effect, At
  <2> QED
    BY <1>1, <2>1, <2>2, <2>3, <2>4, IncrementedTyped, ExpiryTyped, PutTyped, PolicyAssumption
<1>5. CASE Connect \/ Lose \/ UNCHANGED vars \/ \E p \in Procs, toks \in Senders : Arrive(p, toks)
  BY <1>5 DEF Connect, Lose, Switch, vars, Arrive
<1>6. ASSUME NEW p \in Procs, BlockSet(p)
      PROVE  At(p, "f_set") /\ store' = Blocked(p) /\ link' = link /\ fails' = fails
  BY <1>6 DEF BlockSet
<1>7. ASSUME NEW p \in Procs, CallRejects(p)
       PROVE  link' = link /\ fails' = fails
  BY <1>7 DEF CallRejects
<1> QED
  BY <1>2, <1>3, <1>4, <1>5, <1>6, <1>7 DEF Next

\* What is left of a block does not grow, but by the request that writes it.
LEMMA BlocksShrink ==
    ASSUME Typed, [Next]_vars, NEW s \in Stores, NEW t \in Tokens
    PROVE  \/ store'[s][<<"block", t>>].left <= store[s][<<"block", t>>].left
           \/ \E p \in Procs : /\ At(p, "f_set") /\ store' = Blocked(p)
                               /\ s = Active /\ t = Current(p)
                               /\ link' = link /\ fails' = fails
<1> DEFINE k == <<"block", t>>
<1>1. k \in Keys /\ store[s][k] \in Entry /\ store[s][k].left \in Nat
  BY DEF Keys, Typed, TypeOK, Entry
<1>2. CASE store'[s][k] = store[s][k]
  BY <1>1, <1>2
<1>3. CASE Tick
  <2>1. store'[s][k] = IF Ends(s, k) THEN Gone
                       ELSE IF store[s][k].left = 0 THEN store[s][k]
                       ELSE [store[s][k] EXCEPT !.left = @ - 1]
    BY <1>1, <1>3 DEF Tick
  <2> QED
    BY <1>1, <2>1 DEF Gone, Entry
<1>4. CASE Crash
  <2>1. store'[s][k] \in {store[s][k], Gone}
    BY <1>1, <1>4 DEF Crash, Typed, TypeOK
  <2> QED
    BY <1>1, <2>1 DEF Gone
<1> QED
  BY <1>2, <1>3, <1>4, BlockChanges

\* The connection, time and a step that changes nothing leave a request where it is.
LEMMA RequestsRest ==
    ASSUME Typed, Connect \/ Lose \/ Tick \/ UNCHANGED vars, NEW p \in Procs
    PROVE  /\ rq'[p].at = rq[p].at /\ rq'[p].todo = rq[p].todo
           /\ rq'[p].toks = rq[p].toks /\ rq'[p].n = rq[p].n
<1>1. rq[p] \in Request
  BY DEF Typed, TypeOK
<1>2. CASE Connect \/ Lose
  <2>1. rq'[p] = [rq[p] EXCEPT !.barred = {}]
    BY <1>2 DEF Connect, Lose, Switch
  <2> QED
    BY <1>1, <2>1 DEF Request
<1>3. CASE Tick
  <2>1. PICK h, b : rq'[p] = [rq[p] EXCEPT !.held = h, !.barred = b]
    BY <1>3 DEF Tick
  <2> QED
    BY <1>1, <2>1 DEF Request
<1>4. CASE UNCHANGED vars
  BY <1>4 DEF vars
<1> QED
  BY <1>2, <1>3, <1>4

\* A request about to write a block waits, or writes it, or has it rejected.
LEMMA StillSets ==
    ASSUME Typed, [Next]_vars, Alone, NEW p \in Procs, rq'[p].at = "f_set", rq[p].at = "f_set"
    PROVE  /\ rq'[p].n = rq[p].n /\ rq'[p].todo = rq[p].todo
           /\ Connect \/ Lose \/ Tick \/ UNCHANGED vars
<1>1. rq \in [Procs -> Request]
  BY DEF Typed, TypeOK
<1>2. ASSUME NEW q \in Procs, Step(q)
      PROVE  FALSE
  <2>1. q = p
    BY DEF Alone
  <2>2. BlockSet(p)
    BY <1>2, <2>1 DEF Step, GuardStep, OutcomeStep, BlockGet, BlockTtl, ReqIncr, ReqExpire,
       ReqTtl, FailIncr, FailExpire, FailTtl, FailDel, Handle, At
  <2>3. rq'[p] = AfterFailure(Later(p))
    BY <1>1, <2>2 DEF BlockSet
  <2> QED
    BY <2>3, LaterKeeps, FailureOnward
<1>3. ASSUME NEW q \in Procs, CallRejects(q)
      PROVE  FALSE
  <2>1. rq' = [rq EXCEPT ![p] = Rejected(p)]
    BY <1>3, CallRejectsTyped DEF Alone
  <2> QED
    BY <1>1, <2>1, RejectedAt
<1>4. ASSUME NEW q \in Procs, NEW toks \in Senders, Arrive(q, toks)
      PROVE  FALSE
  BY <1>4 DEF Arrive, At, Alone
<1>5. ~Crash
  BY DEF Crash, Answered
<1>6. Connect \/ Lose \/ Tick \/ UNCHANGED vars
  BY <1>2, <1>3, <1>4, <1>5 DEF Next
<1>7. rq'[p].n = rq[p].n /\ rq'[p].todo = rq[p].todo
  BY <1>6, RequestsRest
<1> QED
  BY <1>6, <1>7

LEMMA StepBlocks == Typed /\ Typed' /\ FreshOK /\ BlocksOK /\ [Next]_vars => BlocksOK'
<1> SUFFICES ASSUME Typed, Typed', FreshOK, BlocksOK, [Next]_vars, Alone, "crash" \notin Faults,
                    link' # "lost", NEW p \in Procs, rq'[p].at = "f_set"
             PROVE  (store[Active][Key(p, "block")].left <= BlockSec(rq[p].n))'
  BY DEF BlocksOK, At
<1>1. rq \in [Procs -> Request]
  BY DEF Typed, TypeOK
<1>2. CASE rq[p].at # "f_set"
  <2>1. FailTtl(p)
    BY <1>2, WhoSets
  <2>2. rq[p].at = "f_ttl" /\ store' = store /\ link' = link
    BY <2>1 DEF FailTtl, At
  <2>3. PICK ttl \in Ttl(Active, Key(p, "block")) :
           rq' = [rq EXCEPT ![p] = IF ttl < BlockSec(rq[p].n) THEN [@ EXCEPT !.at = "f_set"]
                                   ELSE AfterFailure(Later(p))]
    BY <2>1 DEF FailTtl
  <2>4. AfterFailure(Later(p)).at # "f_set"
    BY LaterKeeps, FailureOnward
  <2>5. ttl < BlockSec(rq[p].n) /\ rq'[p].n = rq[p].n /\ rq'[p].todo = rq[p].todo
    BY <1>1, <2>3, <2>4 DEF Request
  <2>6. Key(p, "block")' = Key(p, "block") /\ Active' = Active
    BY <2>2, <2>5 DEF Key, Current, Active
  <2>7. store[Active][Key(p, "block")] \in Entry /\ Key(p, "block") \in Keys
    BY <2>2, Waiting, TypedStore DEF Typed, TypeOK
  <2>8. BlockSec(rq[p].n) \in Nat
    BY <2>2, Waiting, BlockSecTyped DEF Placed, Request
  <2>9. ttl \in Nat
    BY <2>7, TtlTyped
  <2>10. store[Active][Key(p, "block")].left <= BlockSec(rq[p].n)
    <3> DEFINE e == store[Active][Key(p, "block")]
    <3>1. e.left \in Nat /\ e.val \in Nat /\ (e.left > 0 => e.val > 0)
      BY <2>7, TypedStore DEF StoreTyped, Entry
    <3>2. e.left = 0 \/ ttl = e.left - 1 \/ ttl = e.left
      BY <3>1 DEF Ttl, Live
    <3> HIDE DEF e
    <3>3. e.left <= BlockSec(rq[p].n)
      BY <2>5, <2>8, <3>1, <3>2
    <3> QED
      BY <3>3 DEF e
  <2>11. BlockSec(rq[p].n)' = BlockSec(rq[p].n)
    BY <2>5
  <2> QED
    BY <2>2, <2>6, <2>10, <2>11
<1>3. CASE rq[p].at = "f_set"
  <2>1. /\ rq'[p].n = rq[p].n /\ rq'[p].todo = rq[p].todo
        /\ Connect \/ Lose \/ Tick \/ UNCHANGED vars
    BY <1>3, StillSets
  <2>2. Key(p, "block")' = Key(p, "block") /\ BlockSec(rq[p].n)' = BlockSec(rq[p].n)
    BY <2>1 DEF Key, Current
  <2>3. Current(p) \in Tokens /\ Key(p, "block") = <<"block", Current(p)>>
        /\ Key(p, "block") \in Keys
    BY <1>3, Waiting DEF Key
  <2>4. BlockSec(rq[p].n) \in Nat
    BY <1>3, Waiting, BlockSecTyped DEF Placed, Request
  <2>5. CASE Connect
    <3>1. store'[Active'] = store["redis"] /\ link = "connecting"
      BY <2>5 DEF Connect, Switch, Active
    <3>2. store["redis"][Key(p, "block")] = Gone
      BY <2>3, <3>1 DEF FreshOK
    <3>3. (store[Active][Key(p, "block")])' = Gone
      BY <2>2, <3>1, <3>2
    <3>4. (store[Active][Key(p, "block")])'.left = 0
      BY <3>3 DEF Gone
    <3> QED
      BY <2>2, <2>4, <3>4
  <2>6. CASE ~Connect
    <3>1. link' = link /\ Active' = Active /\ link # "lost"
      BY <2>1, <2>6 DEF Lose, Switch, Tick, vars, Active
    <3>2. store[Active][Key(p, "block")].left <= BlockSec(rq[p].n)
      BY <1>3, <3>1 DEF BlocksOK, At
    <3>3. Active \in Stores
      BY TypedStore
    <3>4. store[Active][Key(p, "block")].left \in Nat /\ store'[Active][Key(p, "block")].left \in Nat
      BY <2>3, <3>3 DEF Typed, TypeOK, Entry
    <3>5. store'[Active][Key(p, "block")].left <= BlockSec(rq[p].n)
      <4>1. CASE store'[Active][Key(p, "block")].left <= store[Active][Key(p, "block")].left
        BY <2>4, <3>2, <3>4, <4>1
      <4>2. CASE ~(store'[Active][Key(p, "block")].left <= store[Active][Key(p, "block")].left)
        <5>1. \E q \in Procs : At(q, "f_set") /\ store' = Blocked(q)
          BY <2>3, <3>3, <4>2, BlocksShrink
        <5>2. store' = Blocked(p)
          BY <5>1 DEF Alone
        <5> QED
          BY <1>3, <2>4, <5>2, BlockedLeft
      <4> QED
        BY <4>1, <4>2
    <3> QED
      BY <2>2, <3>1, <3>5
  <2> QED
    BY <2>5, <2>6
<1> QED
  BY <1>2, <1>3

-----------------------------------------------------------------------------
(* Alone, a request is punished for no more failures than were answered.    *)

Said(t) == store[Active][<<"fail", t>>].val

LEMMA SaidTyped ==
    ASSUME Typed, NEW t \in Tokens
    PROVE  /\ Said(t) \in Nat /\ fails[t] \in Nat
           /\ \A s \in Stores : store[s][<<"fail", t>>].val \in Nat
<1>1. <<"fail", t>> \in Keys /\ Active \in Stores
  BY TypedStore DEF Keys
<1>2. \A s \in Stores : store[s][<<"fail", t>>] \in Entry
  BY <1>1 DEF Typed, TypeOK
<1>3. \A s \in Stores : store[s][<<"fail", t>>].val \in Nat
  BY <1>2 DEF Entry
<1> QED
  BY <1>1, <1>3 DEF Said, Typed, TypeOK

\* What is to be shown of the request the step leaves behind.
LEMMA EarnedNext ==
    ASSUME NEW p \in Procs,
           \A t \in Tokens : Said(t)' <= fails'[t] \/ (rq'[p].at = "s_del" /\ t \in rq'[p].todo),
           \A t \in Uncounted(p)' : Said(t)' < fails'[t],
           rq'[p].at = "f_expire" => fails'[Current(p)'] > 0,
           rq'[p].at \in {"f_ttl", "f_set"} => rq'[p].n <= fails'[Current(p)'],
           rq'[p].at \in GuardLabels \cup {"handle"} =>
              \A s \in Stores, t \in rq'[p].toks : store'[s][<<"fail", t>>].val < MaxHits
    PROVE  Earned(p)'
BY DEF Earned, Said, At, GuardLabels

\* On to the next token, or done: nothing is left of the current one.
LEMMA NextFailureEarned ==
    ASSUME Typed, NEW p \in Procs, rq[p].at \in {"f_incr", "f_expire", "f_ttl", "f_set"},
           rq' = [rq EXCEPT ![p] = AfterFailure(Later(p))],
           \A t \in Tokens : Said(t)' <= fails'[t],
           \A t \in rq[p].todo \ {Current(p)} : Said(t)' < fails'[t]
    PROVE  Earned(p)'
<1>1. rq'[p] = AfterFailure(Later(p))
  BY DEF Typed, TypeOK
<1>2. \/ rq'[p].at = "f_incr" /\ rq'[p].todo = rq[p].todo \ {Current(p)}
      \/ rq'[p].at = "idle"
  BY <1>1, LaterKeeps, FailureOnward
<1>3. Uncounted(p)' \subseteq rq[p].todo \ {Current(p)}
  BY <1>2 DEF Uncounted, At
<1>4. rq'[p].at \notin GuardLabels \cup {"handle", "f_expire", "f_ttl", "f_set"}
  BY <1>2 DEF GuardLabels, BlockLabels, RuleLabels
<1> QED
  BY <1>3, <1>4, EarnedNext

LEMMA CountedEarned ==
    ASSUME Typed, NEW p \in Procs, rq[p].at \in {"f_incr", "f_expire"}, NEW n \in Nat, Counted(p, n),
           \A t \in Tokens : Said(t)' <= fails'[t],
           \A t \in rq[p].todo \ {Current(p)} : Said(t)' < fails'[t],
           n <= fails'[Current(p)]
    PROVE  Earned(p)'
<1>1. CASE Matching(n) = {}
  <2>1. rq' = [rq EXCEPT ![p] = AfterFailure(Later(p))]
    BY <1>1 DEF Counted
  <2> QED
    BY <2>1, NextFailureEarned
<1>2. CASE Matching(n) # {}
  <2>1. rq' = [rq EXCEPT ![p] = [rq[p] EXCEPT !.n = n, !.at = "f_ttl"]]
    BY <1>2 DEF Counted
  <2>2. rq[p] \in Request /\ rq \in [Procs -> Request]
    BY DEF Typed, TypeOK
  <2>3. rq'[p].at = "f_ttl" /\ rq'[p].todo = rq[p].todo /\ rq'[p].n = n
    BY <2>1, <2>2 DEF Request
  <2>4. Current(p)' = Current(p)
    BY <2>3 DEF Current
  <2>5. Uncounted(p)' = rq[p].todo \ {Current(p)}
    BY <2>3, <2>4 DEF Uncounted, At
  <2>6. rq'[p].at \notin GuardLabels \cup {"handle", "f_expire"}
    BY <2>3 DEF GuardLabels, BlockLabels, RuleLabels
  <2> QED
    BY <2>3, <2>4, <2>5, <2>6, EarnedNext
<1> QED
  BY <1>1, <1>2

LEMMA FailIncrEarned ==
    ASSUME Typed, NEW p \in Procs, Earned(p), FailIncr(p)
    PROVE  Earned(p)'
<1>0. PICK c : c = Current(p)
  OBVIOUS
<1> DEFINE n == store[Active][Key(p, "fail")].val + 1
<1>1. /\ rq[p].at = "f_incr" /\ link' = link /\ fails' = fails
      /\ store' = Incremented(Active, Key(p, "fail"), FailWindow)
  BY DEF FailIncr, At
<1>2. /\ c \in rq[p].todo /\ c \in Tokens /\ Key(p, "fail") = <<"fail", c>>
      /\ Key(p, "fail") \in Keys /\ rq[p] \in Request
  BY <1>0, <1>1, Waiting DEF Key
<1>3. Active' = Active /\ Active \in Stores /\ StoreTyped(store)
  BY <1>1, TypedStore DEF Active
<1>4. Uncounted(p) = rq[p].todo /\ n = Said(c) + 1
  BY <1>1, <1>2 DEF Uncounted, At, Said
<1>5. \A t \in Tokens : Said(t) <= fails[t]
  BY <1>1 DEF Earned, At, Said
<1>6. \A t \in rq[p].todo : Said(t) < fails[t]
  BY <1>4 DEF Earned, Said
<1>7. Said(c)' = Said(c) + 1 /\ \A t \in Tokens : t # c => Said(t)' = Said(t)
  <2>1. store'[Active][<<"fail", c>>].val = store[Active][<<"fail", c>>].val + 1
    BY <1>1, <1>2, <1>3, IncrementedTyped, PolicyAssumption
  <2>2. ASSUME NEW t \in Tokens, t # c
        PROVE  store'[Active][<<"fail", t>>] = store[Active][<<"fail", t>>]
    <3>1. <<"fail", t>> \in Keys /\ <<"fail", t>> # <<"fail", c>>
      BY <2>2, KeysDiffer
    <3> QED
      BY <1>1, <1>2, <1>3, <3>1, IncrementedTyped, PolicyAssumption
  <2> QED
    BY <1>3, <2>1, <2>2 DEF Said
<1>8. Said(c) \in Nat /\ fails[c] \in Nat /\ rq[p].todo \subseteq Tokens
  BY <1>2, SaidTyped DEF Request
<1>9. ASSUME NEW t \in Tokens PROVE Said(t)' <= fails'[t]
  BY <1>1, <1>2, <1>5, <1>6, <1>7, <1>8
<1>10. \A t \in rq[p].todo \ {c} : Said(t)' < fails'[t]
  BY <1>1, <1>6, <1>7, <1>8
<1>11. n \in Nat /\ n <= fails'[c]
  BY <1>1, <1>2, <1>4, <1>6, <1>8
<1>12. CASE Active = "redis" /\ n = 1
  <2>1. rq' = [rq EXCEPT ![p].at = "f_expire"]
    BY <1>12 DEF FailIncr
  <2>2. rq'[p].at = "f_expire" /\ rq'[p].todo = rq[p].todo
    BY <1>2, <2>1 DEF Typed, TypeOK, Request
  <2>3. Current(p)' = c
    BY <1>0, <2>2 DEF Current
  <2>4. Uncounted(p)' = rq[p].todo \ {c}
    BY <2>2, <2>3 DEF Uncounted, At
  <2>5. fails'[Current(p)'] > 0
    BY <1>1, <1>8, <1>11, <1>12, <2>3
  <2>6. rq'[p].at \notin GuardLabels \cup {"handle", "f_ttl", "f_set"}
    BY <2>2 DEF GuardLabels, BlockLabels, RuleLabels
  <2> HIDE DEF n
  <2> QED
    BY <1>9, <1>10, <2>4, <2>5, <2>6, EarnedNext
<1>13. CASE ~(Active = "redis" /\ n = 1)
  <2>1. Counted(p, n)
    BY <1>13 DEF FailIncr
  <2> QED
    BY <1>0, <1>1, <1>9, <1>10, <1>11, <2>1, CountedEarned
<1> QED
  BY <1>12, <1>13

LEMMA FailExpireEarned ==
    ASSUME Typed, NEW p \in Procs, Earned(p), FailExpire(p)
    PROVE  Earned(p)'
<1>1. /\ rq[p].at = "f_expire" /\ link' = link /\ fails' = fails /\ Counted(p, 1)
      /\ store' = WithExpiry(Key(p, "fail"), FailWindow)
  BY DEF FailExpire, At
<1>2. Key(p, "fail") \in Keys /\ Current(p) \in Tokens
  BY <1>1, Waiting
<1>3. Active' = Active /\ Active \in Stores /\ StoreTyped(store)
  BY <1>1, TypedStore DEF Active
<1>4. \A t \in Tokens : Said(t)' = Said(t)
  <2>1. \A t \in Tokens : <<"fail", t>> \in Keys
    BY DEF Keys
  <2>2. \A k \in Keys : store'[Active][k].val = store[Active][k].val
    BY <1>1, <1>2, <1>3, ExpiryTyped, PolicyAssumption
  <2> QED
    BY <1>3, <2>1, <2>2 DEF Said
<1>5. \A t \in Tokens : Said(t) <= fails[t]
  BY <1>1 DEF Earned, At, Said
<1>6. \A t \in rq[p].todo \ {Current(p)} : Said(t) < fails[t]
  BY <1>1 DEF Earned, Said, Uncounted, At
<1>7. 1 <= fails'[Current(p)]
  <2>1. fails[Current(p)] > 0 /\ fails[Current(p)] \in Nat
    BY <1>1, <1>2, SaidTyped DEF Earned, At
  <2> QED
    BY <1>1, <2>1
<1>8. rq[p].todo \subseteq Tokens
  BY DEF Typed, TypeOK, Request
<1> QED
  BY <1>1, <1>4, <1>5, <1>6, <1>7, <1>8, CountedEarned

LEMMA BlockEarnedOn ==
    ASSUME Typed, NEW p \in Procs, Earned(p), FailTtl(p) \/ BlockSet(p)
    PROVE  Earned(p)'
<1>1. rq[p].at \in {"f_ttl", "f_set"} /\ link' = link /\ fails' = fails
  BY DEF FailTtl, BlockSet, At
<1>2. Active' = Active /\ Active \in Stores
  BY <1>1, TypedStore DEF Active
<1>3. \A t \in Tokens : Said(t)' = Said(t)
  <2>1. CASE FailTtl(p)
    BY <1>2, <2>1 DEF FailTtl, Said
  <2>2. CASE BlockSet(p)
    <3>1. rq[p].at = "f_set" /\ store' = Blocked(p)
      BY <2>2 DEF BlockSet, At
    <3>2. \A t \in Tokens : <<"fail", t>> \in Keys /\ <<"fail", t>> # Key(p, "block")
      BY DEF Key, Keys
    <3> QED
      BY <1>2, <3>1, <3>2, BlockedTyped DEF Said
  <2> QED
    BY <2>1, <2>2
<1>4. \A t \in Tokens : Said(t)' <= fails'[t]
  BY <1>1, <1>3 DEF Earned, At, Said
<1>5. rq[p].todo \subseteq Tokens /\ rq[p] \in Request /\ rq \in [Procs -> Request]
  BY DEF Typed, TypeOK, Request
<1>6. \A t \in rq[p].todo \ {Current(p)} : Said(t)' < fails'[t]
  <2>1. Uncounted(p) = rq[p].todo \ {Current(p)}
    BY <1>1 DEF Uncounted, At
  <2> QED
    BY <1>1, <1>3, <1>5, <2>1 DEF Earned, Said
<1>7. CASE rq' = [rq EXCEPT ![p] = AfterFailure(Later(p))]
  BY <1>1, <1>4, <1>6, <1>7, NextFailureEarned
<1>8. CASE rq' = [rq EXCEPT ![p] = [rq[p] EXCEPT !.at = "f_set"]]
  <2>1. rq'[p].at = "f_set" /\ rq'[p].todo = rq[p].todo /\ rq'[p].n = rq[p].n
    BY <1>5, <1>8 DEF Request
  <2>2. Current(p)' = Current(p)
    BY <2>1 DEF Current
  <2>3. Uncounted(p)' = rq[p].todo \ {Current(p)}
    BY <2>1, <2>2 DEF Uncounted, At
  <2>4. rq'[p].n <= fails'[Current(p)']
    BY <1>1, <2>1, <2>2 DEF Earned
  <2>5. rq'[p].at \notin GuardLabels \cup {"handle", "f_expire"}
    BY <2>1 DEF GuardLabels, BlockLabels, RuleLabels
  <2> QED
    BY <1>4, <1>6, <2>3, <2>4, <2>5, EarnedNext
<1> QED
  BY <1>7, <1>8 DEF FailTtl, BlockSet

LEMMA FailDelEarned ==
    ASSUME Typed, NEW p \in Procs, Earned(p), FailDel(p)
    PROVE  Earned(p)'
<1>0. PICK c : c = Current(p)
  OBVIOUS
<1>1. /\ rq[p].at = "s_del" /\ link' = link /\ fails' = fails
      /\ store' = Put(Active, Key(p, "fail"), Gone)
      /\ rq' = [rq EXCEPT ![p] = AfterSuccess(Later(p))]
  BY DEF FailDel, At
<1>2. c \in Tokens /\ Key(p, "fail") = <<"fail", c>> /\ Key(p, "fail") \in Keys
  BY <1>0, <1>1, Waiting DEF Key
<1>3. /\ Active' = Active /\ Active \in Stores /\ StoreTyped(store)
      /\ Gone \in Entry /\ Gone.val = 0 /\ ~(Gone.left > 0)
  BY <1>1, TypedStore DEF Active, Gone, Entry
<1>4. Said(c)' = 0 /\ \A t \in Tokens : t # c => Said(t)' = Said(t)
  <2>1. store'[Active][<<"fail", c>>] = Gone
    BY <1>1, <1>2, <1>3, PutTyped
  <2>2. ASSUME NEW t \in Tokens, t # c
        PROVE  store'[Active][<<"fail", t>>] = store[Active][<<"fail", t>>]
    <3>1. <<"fail", t>> \in Keys /\ <<"fail", t>> # <<"fail", c>>
      BY <2>2, KeysDiffer
    <3> QED
      BY <1>1, <1>2, <1>3, <3>1, PutTyped
  <2> QED
    BY <1>3, <2>1, <2>2 DEF Said
<1>5. rq'[p] = AfterSuccess(Later(p))
  BY <1>1 DEF Typed, TypeOK
<1>6. \/ rq'[p].at = "s_del" /\ rq'[p].todo = rq[p].todo \ {c}
      \/ rq'[p].at = "idle" /\ rq[p].todo \ {c} = {}
  BY <1>0, <1>5, LaterKeeps, SuccessOnward
<1>7. ASSUME NEW t \in Tokens
      PROVE  Said(t)' <= fails'[t] \/ (rq'[p].at = "s_del" /\ t \in rq'[p].todo)
  <2>1. CASE t = c
    <3>1. fails'[t] = fails[t] /\ fails[t] \in Nat
      BY <1>1, SaidTyped
    <3>2. Said(t)' = 0
      BY <1>4, <2>1 DEF Said
    <3> QED
      BY <3>1, <3>2
  <2>2. CASE t # c
    BY <1>1, <1>4, <1>6, <2>2 DEF Earned, Said
  <2> QED
    BY <2>1, <2>2
<1>8. Uncounted(p)' = {}
  BY <1>6 DEF Uncounted, At
<1>9. rq'[p].at \notin GuardLabels \cup {"handle", "f_expire", "f_ttl", "f_set"}
  BY <1>6 DEF GuardLabels, BlockLabels, RuleLabels
<1> QED
  BY <1>7, <1>8, <1>9, EarnedNext

LEMMA HandleEarned ==
    ASSUME Typed, NEW p \in Procs, Earned(p), NEW result \in Results, Handle(p, result)
    PROVE  Earned(p)'
<1> DEFINE r == [rq[p] EXCEPT !.todo = rq[p].toks, !.wait = 0, !.over = FALSE]
           f == [r EXCEPT !.caught = result = "thrown"]
<1>1. rq[p].at = "handle" /\ store' = store /\ link' = link
  BY DEF Handle, At
<1>2. Active' = Active /\ Active \in Stores
  BY <1>1, TypedStore DEF Active
<1>3. ASSUME NEW t \in Tokens
      PROVE  Said(t)' = Said(t) /\ Said(t) <= fails[t] /\ Said(t) \in Nat /\ fails[t] \in Nat
  BY <1>1, <1>2, SaidTyped DEF Said, Earned, At
<1>4. ASSUME NEW t \in Tokens, t \in rq[p].toks
      PROVE  Said(t) < MaxHits
  BY <1>1, <1>2, <1>4 DEF Said, Earned
<1>5. rq[p] \in Request /\ rq \in [Procs -> Request] /\ rq[p].toks \subseteq Tokens
  BY DEF Typed, TypeOK, Request
<1>6. r \in Request /\ r.todo = rq[p].toks /\ f \in Request /\ f.todo = rq[p].toks
  BY <1>5 DEF Request
<1>7. ASSUME NEW t \in Tokens
      PROVE  fails'[t] = IF t \notin rq[p].toks \/ result = "stopped" \/ Steps = {} THEN fails[t]
                         ELSE IF result = "ok" THEN 0
                         ELSE IF fails[t] < MaxHits THEN fails[t] + 1 ELSE fails[t]
  BY DEF Handle
<1>8. rq' = [rq EXCEPT ![p] = IF result = "stopped" \/ Steps = {} THEN Answered("served")
                              ELSE IF result = "ok" THEN AfterSuccess(r) ELSE AfterFailure(f)]
  BY DEF Handle
<1> HIDE DEF r, f
<1>9. CASE result = "stopped" \/ Steps = {}
  <2>1. rq'[p].at = "idle"
    BY <1>5, <1>8, <1>9 DEF Answered
  <2>2. \A t \in Tokens : Said(t)' <= fails'[t]
    BY <1>3, <1>7, <1>9
  <2>3. Uncounted(p)' = {} /\ rq'[p].at \notin GuardLabels \cup {"handle", "f_expire", "f_ttl", "f_set"}
    BY <2>1 DEF Uncounted, At, GuardLabels, BlockLabels, RuleLabels
  <2> QED
    BY <2>2, <2>3, EarnedNext
<1>10. CASE ~(result = "stopped" \/ Steps = {}) /\ result = "ok"
  <2>1. rq'[p] = AfterSuccess(r)
    BY <1>5, <1>8, <1>10
  <2>2. \/ rq'[p].at = "s_del" /\ rq'[p].todo = rq[p].toks
        \/ rq'[p].at = "idle" /\ rq[p].toks = {}
    BY <1>6, <2>1, SuccessOnward
  <2>3. ASSUME NEW t \in Tokens
        PROVE  Said(t)' <= fails'[t] \/ (rq'[p].at = "s_del" /\ t \in rq'[p].todo)
    BY <1>3, <1>7, <2>2
  <2>4. Uncounted(p)' = {} /\ rq'[p].at \notin GuardLabels \cup {"handle", "f_expire", "f_ttl", "f_set"}
    BY <2>2 DEF Uncounted, At, GuardLabels, BlockLabels, RuleLabels
  <2> QED
    BY <2>3, <2>4, EarnedNext
<1>11. CASE ~(result = "stopped" \/ Steps = {}) /\ result # "ok"
  <2>1. rq'[p] = AfterFailure(f)
    BY <1>5, <1>8, <1>11
  <2>2. \/ rq'[p].at = "f_incr" /\ rq'[p].todo = rq[p].toks
        \/ rq'[p].at = "idle"
    BY <1>6, <2>1, FailureOnward
  <2>3. ASSUME NEW t \in Tokens
        PROVE  Said(t)' <= fails'[t]
    BY <1>3, <1>7, <1>11
  <2>4. ASSUME NEW t \in Tokens, t \in rq[p].toks
        PROVE  Said(t)' < fails'[t]
    <3>1. fails'[t] = IF fails[t] < MaxHits THEN fails[t] + 1 ELSE fails[t]
      BY <1>7, <1>11, <2>4
    <3>2. Said(t)' = Said(t) /\ Said(t) <= fails[t] /\ Said(t) \in Nat /\ fails[t] \in Nat
          /\ Said(t) < MaxHits /\ MaxHits \in Nat
      BY <1>3, <1>4, <2>4, BoundAssumption
    <3> QED
      BY <3>1, <3>2
  <2>5. Uncounted(p)' \subseteq rq[p].toks
    BY <2>2 DEF Uncounted, At
  <2>6. \A t \in Uncounted(p)' : Said(t)' < fails'[t]
    BY <1>5, <2>4, <2>5
  <2>7. rq'[p].at \notin GuardLabels \cup {"handle", "f_expire", "f_ttl", "f_set"}
    BY <2>2 DEF GuardLabels, BlockLabels, RuleLabels
  <2> QED
    BY <2>3, <2>6, <2>7, EarnedNext
<1> QED
  BY <1>9, <1>10, <1>11

LEMMA GuardEarned ==
    ASSUME Typed, NEW p \in Procs, Earned(p), GuardStep(p)
    PROVE  Earned(p)'
<1>1. rq[p].at \in GuardLabels /\ link' = link /\ fails' = fails /\ PenaltiesKept(store')
  BY GuardGone DEF GuardGoes
<1>2. PICK r \in Request : rq' = [rq EXCEPT ![p] = r] /\ Guarded(p, r)
  BY GuardGone DEF GuardGoes
<1>3. rq'[p] = r
  BY <1>2 DEF Typed, TypeOK
<1>4. Active' = Active /\ Active \in Stores
  BY <1>1, TypedStore DEF Active
<1>5. \A t \in Tokens : Said(t)' = Said(t)
  BY <1>1, <1>4 DEF Said, PenaltiesKept
<1>6. \A t \in Tokens : Said(t)' <= fails'[t]
  BY <1>1, <1>5 DEF Earned, At, Said, GuardLabels, BlockLabels, RuleLabels
<1>7. Uncounted(p)' = {} /\ rq'[p].at \notin {"f_expire", "f_ttl", "f_set"}
  BY <1>2, <1>3 DEF Guarded, Uncounted, At, GuardLabels, BlockLabels, RuleLabels
<1>8. rq'[p].at \in GuardLabels \cup {"handle"} =>
         \A s \in Stores, t \in rq'[p].toks : store'[s][<<"fail", t>>].val < MaxHits
  <2> SUFFICES ASSUME rq'[p].at \in GuardLabels \cup {"handle"}, NEW s \in Stores,
                      NEW t \in rq'[p].toks
               PROVE  store'[s][<<"fail", t>>].val < MaxHits
    OBVIOUS
  <2>1. t \in rq[p].toks
    BY <1>2, <1>3 DEF Guarded, GuardLabels, BlockLabels, RuleLabels
  <2>2. t \in Tokens
    BY <2>1 DEF Typed, TypeOK, Request
  <2>3. store[s][<<"fail", t>>].val < MaxHits
    BY <1>1, <2>1 DEF Earned, GuardLabels
  <2> QED
    BY <1>1, <2>2, <2>3 DEF PenaltiesKept
<1> QED
  BY <1>6, <1>7, <1>8, EarnedNext

LEMMA ArriveEarned ==
    ASSUME Typed, NEW p \in Procs, Earned(p), NEW toks \in Senders, Arrive(p, toks)
    PROVE  Earned(p)'
<1>1. rq[p].at = "idle" /\ Room(toks) /\ store' = store /\ link' = link /\ fails' = fails
  BY DEF Arrive, At
<1>2. rq'[p].at = "b_get" /\ rq'[p].toks = toks
  BY DEF Arrive, Answered, Typed, TypeOK
<1>3. Active' = Active
  BY <1>1 DEF Active
<1>4. \A t \in Tokens : Said(t)' <= fails'[t]
  BY <1>1, <1>3 DEF Earned, At, Said
<1>5. Uncounted(p)' = {}
  BY <1>2 DEF Uncounted, At
<1>6. \A s \in Stores, t \in rq'[p].toks : store'[s][<<"fail", t>>].val < MaxHits
  BY <1>1, <1>2 DEF Room
<1> QED
  BY <1>2, <1>4, <1>5, <1>6, EarnedNext

\* The connection and time: counters only go away.
LEMMA RestEarned ==
    ASSUME Typed, Typed', FreshOK, NEW p \in Procs, Earned(p), Connect \/ Tick \/ UNCHANGED vars,
           "crash" \notin Faults
    PROVE  Earned(p)'
<1>1. /\ rq'[p].at = rq[p].at /\ rq'[p].todo = rq[p].todo
      /\ rq'[p].toks = rq[p].toks /\ rq'[p].n = rq[p].n /\ fails' = fails
  BY RequestsRest DEF Connect, Switch, Tick, vars
<1>2. Current(p)' = Current(p)
  BY <1>1 DEF Current
<1>3. Uncounted(p)' = Uncounted(p) /\ Uncounted(p) \subseteq Tokens
  BY <1>1, <1>2 DEF Uncounted, At, Typed, TypeOK, Request
<1>4. ASSUME NEW s \in Stores, NEW t \in Tokens
      PROVE  store'[s][<<"fail", t>>].val <= store[s][<<"fail", t>>].val
  <2> DEFINE k == <<"fail", t>>
  <2>1. k \in Keys
    BY DEF Keys
  <2>2. store[s][k] \in Entry /\ store[s][k].val \in Nat
    BY <2>1 DEF Typed, TypeOK, Entry
  <2>3. CASE Tick
    <3>1. store'[s][k] = IF Ends(s, k) THEN Gone
                         ELSE IF store[s][k].left = 0 THEN store[s][k]
                         ELSE [store[s][k] EXCEPT !.left = @ - 1]
      BY <2>1, <2>3 DEF Tick
    <3> QED
      BY <2>2, <3>1 DEF Gone, Entry
  <2>4. CASE Connect \/ UNCHANGED vars
    BY <2>2, <2>4 DEF Connect, Switch, vars
  <2> QED
    BY <2>3, <2>4
<1>5. ASSUME NEW t \in Tokens
      PROVE  Said(t)' <= Said(t) /\ Said(t)' \in Nat /\ Said(t) \in Nat /\ fails[t] \in Nat
  <2>1. Said(t) \in Nat /\ fails[t] \in Nat /\ Active \in Stores /\ "redis" \in Stores
    BY SaidTyped, TypedStore DEF Stores
  <2>2. CASE Connect
    <3>1. Active' = "redis" /\ store' = store /\ link = "connecting"
      BY <2>2 DEF Connect, Switch, Active
    <3>2. store["redis"][<<"fail", t>>] = Gone
      BY <3>1 DEF FreshOK, Keys
    <3>3. Said(t)' = 0
      BY <3>1, <3>2 DEF Said, Gone
    <3> QED
      BY <2>1, <3>3
  <2>3. CASE ~Connect
    <3>1. Active' = Active
      BY <2>3 DEF Tick, vars, Active
    <3>2. store'[Active][<<"fail", t>>].val \in Nat
      BY <2>1 DEF Typed, TypeOK, Entry, Keys
    <3> QED
      BY <1>4, <2>1, <3>1, <3>2 DEF Said
  <2> QED
    BY <2>2, <2>3
<1>6. ASSUME NEW t \in Tokens
      PROVE  Said(t)' <= fails'[t] \/ (rq'[p].at = "s_del" /\ t \in rq'[p].todo)
  <2>1. Said(t) <= fails[t] \/ (rq[p].at = "s_del" /\ t \in rq[p].todo)
    BY DEF Earned, At, Said
  <2> QED
    BY <1>1, <1>5, <2>1
<1>7. ASSUME NEW t \in Uncounted(p)'
      PROVE  Said(t)' < fails'[t]
  <2>1. t \in Tokens /\ Said(t) < fails[t]
    BY <1>3 DEF Earned, Said
  <2> QED
    BY <1>1, <1>5, <2>1
<1>8. rq'[p].at \in GuardLabels \cup {"handle"} =>
         \A s \in Stores, t \in rq'[p].toks : store'[s][<<"fail", t>>].val < MaxHits
  <2> SUFFICES ASSUME rq[p].at \in GuardLabels \cup {"handle"}, NEW s \in Stores,
                      NEW t \in rq[p].toks
               PROVE  store'[s][<<"fail", t>>].val < MaxHits
    BY <1>1
  <2>1. t \in Tokens /\ store[s][<<"fail", t>>].val < MaxHits
    BY DEF Earned, GuardLabels, Typed, TypeOK, Request
  <2>2. store[s][<<"fail", t>>].val \in Nat /\ store'[s][<<"fail", t>>].val \in Nat
    BY <2>1 DEF Typed, TypeOK, Entry, Keys
  <2> QED
    BY <1>4, <2>1, <2>2, BoundAssumption
<1>9. /\ rq'[p].at = "f_expire" => fails'[Current(p)'] > 0
      /\ rq'[p].at \in {"f_ttl", "f_set"} => rq'[p].n <= fails'[Current(p)']
  BY <1>1, <1>2 DEF Earned, At
<1> QED
  BY <1>6, <1>7, <1>8, <1>9, EarnedNext

LEMMA StepEarned == Typed /\ Typed' /\ FreshOK /\ EarnedOK /\ [Next]_vars => EarnedOK'
<1> SUFFICES ASSUME Typed, Typed', FreshOK, EarnedOK, [Next]_vars, Alone,
                    Faults \subseteq {"lose"}, link' # "lost", NEW p \in Procs
             PROVE  Earned(p)'
  BY DEF EarnedOK
<1>1. "crash" \notin Faults /\ "reject" \notin Faults
  OBVIOUS
<1>2. link # "lost" /\ ~Lose
  BY <1>1 DEF Next, Step, GuardStep, OutcomeStep, BlockGet, BlockTtl, ReqIncr, ReqExpire, ReqTtl,
         FailIncr, FailExpire, FailTtl, BlockSet, FailDel, Handle, CallRejects, Arrive,
         Connect, Lose, Switch, Crash, Tick, vars
<1>3. Earned(p)
  BY <1>2 DEF EarnedOK
<1>4. ASSUME NEW q \in Procs, Step(q)
      PROVE  Earned(p)'
  <2>1. Step(p)
    BY <1>4 DEF Alone
  <2> QED
    BY <1>3, <2>1, GuardEarned, HandleEarned, FailIncrEarned, FailExpireEarned, BlockEarnedOn,
       FailDelEarned DEF Step, OutcomeStep
<1>5. ASSUME NEW q \in Procs, NEW toks \in Senders, Arrive(q, toks)
      PROVE  Earned(p)'
  <2>1. Arrive(p, toks)
    BY <1>5 DEF Alone
  <2> QED
    BY <1>3, <2>1, ArriveEarned
<1> QED
  BY <1>1, <1>2, <1>3, <1>4, <1>5, RestEarned DEF Next, Crash, CallRejects

-----------------------------------------------------------------------------
(* What the penalties rest on holds in every reachable state.               *)
THEOREM PenaltyInvariant == Spec => []PenaltyOK
<1>1. Init => PenaltyOK
  <2> SUFFICES ASSUME Init PROVE PenaltyOK
    OBVIOUS
  <2>1. MonitorServes /\ KeysExpire
    BY DEF Init, MonitorServes, KeysExpire, Answered, Live, Gone, Stores
  <2>2. FreshOK
    BY DEF Init, FreshOK, Stores
  <2>3. BlocksOK
    BY DEF Init, BlocksOK, At, Answered
  <2>4. ASSUME NEW p \in Procs
        PROVE  Earned(p)
    <3>1. rq[p].at = "idle"
      BY DEF Init, Answered
    <3>2. \A t \in Tokens : store[Active][<<"fail", t>>].val <= fails[t]
      BY DEF Init, Active, Stores, Keys, Gone
    <3>3. Uncounted(p) = {}
      BY <3>1 DEF Uncounted, At
    <3> QED
      BY <3>1, <3>2, <3>3 DEF Earned, At, BlockLabels, RuleLabels
  <2> QED
    BY <2>1, <2>2, <2>3, <2>4 DEF PenaltyOK, MonitorOK, ExpiryOK, EarnedOK
<1>2. IInv /\ IInv' /\ PenaltyOK /\ [Next]_vars => PenaltyOK'
  BY StepMonitor, StepExpiry, StepFresh, StepBlocks, StepEarned DEF PenaltyOK, IInv, Typed
<1> QED
  BY <1>1, <1>2, InductiveInvariant, PTL DEF Spec

(* In monitor mode no request is turned away, as long as Redis does not     *)
(* reject a command (ensureNotBlocked, evaluateRequestLimit, recordOutcome). *)
THEOREM MonitorTurnsNobodyAway ==
    ASSUME Mode = "monitor", "reject" \notin Faults
    PROVE  Spec => []MonitorServes
<1>1. PenaltyOK => MonitorServes
  BY DEF PenaltyOK, MonitorOK
<1> QED
  BY <1>1, PenaltyInvariant, PTL

(* While no request is cut off between INCR and EXPIRE, by a crash or by a  *)
(* rejection, every key has an end or is about to be given one (increment). *)
THEOREM CountersExpire ==
    ASSUME Faults \cap {"crash", "reject"} = {}
    PROVE  Spec => []KeysExpire
<1>1. PenaltyOK => KeysExpire
  BY DEF PenaltyOK, ExpiryOK
<1> QED
  BY <1>1, PenaltyInvariant, PTL

(* One request at a time, and no restart: a block is never cut short        *)
(* (recordOutcome writes only over a shorter one).                          *)
THEOREM BlocksAreNotShortened ==
    ASSUME Alone, "crash" \notin Faults
    PROVE  Spec => BlockNeverShortened
<1> DEFINE Kept1 == \A s \in Stores, t \in Tokens :
              store'[s][<<"block", t>>].val > 0 /\ store[s][<<"block", t>>].val > 0
              => \/ store'[s][<<"block", t>>].left >= store[s][<<"block", t>>].left
                 \/ link = "lost"
                 \/ Tick
<1>1. Typed /\ BlocksOK /\ [Next]_vars => Kept1
  <2> SUFFICES ASSUME Typed, BlocksOK, [Next]_vars, NEW s \in Stores, NEW t \in Tokens,
                      link # "lost", ~Tick
               PROVE  store'[s][<<"block", t>>].left >= store[s][<<"block", t>>].left
    OBVIOUS
  <2>1. store[s][<<"block", t>>].left \in Nat
    BY DEF Typed, TypeOK, Entry, Keys
  <2>2. CASE store'[s][<<"block", t>>] = store[s][<<"block", t>>]
    BY <2>1, <2>2
  <2>3. CASE store'[s][<<"block", t>>] # store[s][<<"block", t>>]
    <3>1. PICK p \in Procs : /\ At(p, "f_set") /\ store' = Blocked(p)
                             /\ s = Active /\ t = Current(p)
      BY <2>3, BlockChanges DEF Crash
    <3>2. store'[s][<<"block", t>>].left = BlockSec(rq[p].n)
      BY <3>1, BlockedLeft DEF At, Key
    <3>3. store[s][<<"block", t>>].left <= BlockSec(rq[p].n)
      BY <3>1 DEF BlocksOK, Key
    <3>4. BlockSec(rq[p].n) \in Nat
      BY <3>1, Waiting, BlockSecTyped DEF At, Placed, Request
    <3> QED
      BY <2>1, <3>2, <3>3, <3>4
  <2> QED
    BY <2>2, <2>3
<1>2. IInv /\ PenaltyOK /\ [Next]_vars => [Kept1]_vars
  BY <1>1 DEF IInv, Typed, PenaltyOK
<1> QED
  BY <1>2, InductiveInvariant, PenaltyInvariant, PTL DEF Spec, BlockNeverShortened

(* One request at a time, and no command rejected: a block that is set has  *)
(* been earned by that many failures (recordOutcome, clearPenaltyCounters). *)
THEOREM BlocksAreEarned ==
    ASSUME Alone, Faults \subseteq {"lose"}
    PROVE  Spec => BlockEarned
<1> DEFINE Paid == \A s \in Stores, t \in Tokens :
              store'[s][<<"block", t>>].left > store[s][<<"block", t>>].left
              => \/ link = "lost"
                 \/ \E step \in Steps : /\ store'[s][<<"block", t>>].left = step.blockSec
                                       /\ step.failures <= fails[t]
<1>1. Typed /\ Typed' /\ EarnedOK /\ [Next]_vars => Paid
  <2> SUFFICES ASSUME Typed, Typed', EarnedOK, [Next]_vars, NEW s \in Stores, NEW t \in Tokens,
                      store'[s][<<"block", t>>].left > store[s][<<"block", t>>].left,
                      link # "lost"
               PROVE  \E step \in Steps : /\ store'[s][<<"block", t>>].left = step.blockSec
                                          /\ step.failures <= fails[t]
    OBVIOUS
  <2>1. store[s][<<"block", t>>].left \in Nat /\ store'[s][<<"block", t>>].left \in Nat
    BY DEF Typed, TypeOK, Entry, Keys
  <2>2. PICK p \in Procs : /\ At(p, "f_set") /\ store' = Blocked(p)
                           /\ s = Active /\ t = Current(p)
    BY <2>1, BlocksShrink
  <2>3. store'[s][<<"block", t>>].left = BlockSec(rq[p].n)
    BY <2>2, BlockedLeft DEF At, Key
  <2>4. rq[p].n \in Nat /\ Matching(rq[p].n) # {}
    BY <2>2, Waiting DEF At, Placed, Request
  <2>5. PICK step \in Steps : step.failures <= rq[p].n /\ step.blockSec = BlockSec(rq[p].n)
    BY <2>4, BlockSecTyped
  <2>6. rq[p].n <= fails[t]
    BY <2>2 DEF EarnedOK, Earned, At
  <2>7. step.failures \in Nat /\ fails[t] \in Nat
    BY PolicyAssumption DEF Typed, TypeOK
  <2>8. step.failures <= fails[t]
    BY <2>4, <2>5, <2>6, <2>7
  <2> QED
    BY <2>3, <2>5, <2>8
<1>2. IInv /\ IInv' /\ PenaltyOK /\ [Next]_vars => [Paid]_vars
  BY <1>1 DEF IInv, Typed, PenaltyOK
<1> QED
  BY <1>2, InductiveInvariant, PenaltyInvariant, PTL DEF Spec, BlockEarned
=============================================================================
