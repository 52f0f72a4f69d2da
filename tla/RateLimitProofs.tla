-------------------------- MODULE RateLimitProofs --------------------------
(***************************************************************************)
(* Proofs about the module RateLimit, for all values of its constants.     *)
(***************************************************************************)
EXTENDS RateLimit, FiniteSetTheorems, WellFoundedInduction, TLAPS

(* A set of numbers that is not empty has a least one. *)
LEMMA Least ==
    ASSUME NEW S \in SUBSET Nat, S # {}
    PROVE  \E m \in S : \A n \in S : m <= n
<1>1. IsWellFoundedOn(OpToRel(<, Nat), Nat)
  BY NatLessThanWellFounded
<1>2. PICK m \in S : \A n \in S : <<n, m>> \notin OpToRel(<, Nat)
  BY <1>1, WFMin, Zenon
<1>3. \A n \in S : ~(n < m)
  BY <1>2 DEF OpToRel
<1> QED
  BY <1>3

(* A request with tokens to do has a current one (evaluateRequestLimit,     *)
(* ensureNotBlocked, recordOutcome).                                        *)
LEMMA CurrentIsToDo ==
    ASSUME TypeOK, NEW p \in Procs, rq[p].todo # {}
    PROVE  Current(p) \in rq[p].todo /\ Current(p) \in Tokens
<1>1. rq[p].todo \in SUBSET Tokens
  BY DEF TypeOK, Request
<1>2. rq[p].todo \in SUBSET Nat
  BY <1>1, TokensAssumption
<1>3. \E t \in rq[p].todo : \A u \in rq[p].todo : t <= u
  BY <1>2, Least
<1> QED
  BY <1>1, <1>3 DEF Current

(* A number of failures that reaches a step has a block time, that step's.  *)
LEMMA BlockSecTyped ==
    ASSUME NEW n \in Nat, Matching(n) # {}
    PROVE  /\ BlockSec(n) \in Nat /\ BlockSec(n) > 1
           /\ \E s \in Steps : s.failures <= n /\ s.blockSec = BlockSec(n)
<1> DEFINE Gaps == {n - s.failures : s \in Matching(n)}
<1>1. \A s \in Matching(n) : s.failures \in Nat /\ s.failures <= n /\ s \in Steps
  BY PolicyAssumption DEF Matching
<1>2. Gaps \in SUBSET Nat /\ Gaps # {}
  BY <1>1
<1>3. PICK g \in Gaps : \A h \in Gaps : g <= h
  BY <1>2, Least
<1>4. PICK s \in Matching(n) : g = n - s.failures
  BY <1>3
<1>5. \A u \in Matching(n) : n - s.failures <= n - u.failures
  BY <1>3, <1>4
<1>6. \A u \in Matching(n) : u.failures <= s.failures
  BY <1>1, <1>5
<1>7. \E v \in Matching(n) : BlockSec(n) = v.blockSec
  BY <1>6 DEF BlockSec
<1> QED
  BY <1>1, <1>7, PolicyAssumption

-----------------------------------------------------------------------------
(* The four ways on from a token lead to a request in its place.            *)

LEMMA AnsweredPlaced ==
    ASSUME NEW reply \in Replies
    PROVE  /\ Answered(reply) \in Request
           /\ Placed(Answered(reply))
           /\ Answered(reply).at = "idle"
           /\ Answered(reply).held = {}
BY DEF Answered, Request, Placed, BlockLabels, RuleLabels, Labels

LEMMA RulePlaced ==
    ASSUME NEW r \in Request, r.todo \subseteq r.toks, r.barred = {},
           \A t \in r.todo : Limit[t] > 0
    PROVE  AfterRule(r) \in Request /\ Placed(AfterRule(r))
<1>1. CASE r.todo # {}
  <2>1. AfterRule(r) = [r EXCEPT !.at = "q_incr"]
    BY <1>1 DEF AfterRule
  <2> QED
    BY <1>1, <2>1 DEF Request, Labels, Placed, BlockLabels, RuleLabels
<1>2. CASE r.todo = {} /\ r.over /\ Mode = "enforce"
  BY <1>2, AnsweredPlaced DEF AfterRule, Replies
<1>3. CASE r.todo = {} /\ ~(r.over /\ Mode = "enforce")
  <2>1. AfterRule(r) = [r EXCEPT !.at = "handle"]
    BY <1>3 DEF AfterRule
  <2> QED
    BY <1>3, <2>1 DEF Request, Labels, Placed, BlockLabels, RuleLabels
<1> QED
  BY <1>1, <1>2, <1>3

LEMMA BlockPlaced ==
    ASSUME NEW r \in Request, r.todo \subseteq r.toks, ~r.over,
           r.wait > 0 \/ r.barred \subseteq r.todo
    PROVE  AfterBlock(r) \in Request /\ Placed(AfterBlock(r))
<1>1. CASE r.todo # {}
  <2>1. AfterBlock(r) = [r EXCEPT !.at = "b_get"]
    BY <1>1 DEF AfterBlock
  <2> QED
    BY <1>1, <2>1 DEF Request, Labels, Placed, BlockLabels, RuleLabels
<1>2. CASE r.todo = {} /\ r.wait = 0
  <2> DEFINE q == [r EXCEPT !.todo = {t \in r.toks : Limit[t] > 0}]
  <2>1. q \in Request
    BY DEF Request
  <2>2. q.todo \subseteq q.toks /\ q.barred = {} /\ \A t \in q.todo : Limit[t] > 0
    BY <1>2 DEF Request
  <2>3. AfterBlock(r) = AfterRule(q)
    BY <1>2 DEF AfterBlock
  <2> HIDE DEF q
  <2> QED
    BY <2>1, <2>2, <2>3, RulePlaced
<1>3. CASE r.todo = {} /\ r.wait # 0 /\ Mode = "enforce"
  BY <1>3, AnsweredPlaced DEF AfterBlock, Replies
<1>4. CASE r.todo = {} /\ r.wait # 0 /\ Mode # "enforce"
  <2>1. AfterBlock(r) = [r EXCEPT !.at = "handle"]
    BY <1>4 DEF AfterBlock
  <2> QED
    BY <1>4, <2>1 DEF Request, Labels, Placed, BlockLabels, RuleLabels
<1> QED
  BY <1>1, <1>2, <1>3, <1>4

LEMMA FailurePlaced ==
    ASSUME NEW r \in Request, r.todo \subseteq r.toks
    PROVE  AfterFailure(r) \in Request /\ Placed(AfterFailure(r))
<1>1. CASE r.todo # {}
  <2>1. AfterFailure(r) = [r EXCEPT !.at = "f_incr"]
    BY <1>1 DEF AfterFailure
  <2> QED
    BY <1>1, <2>1 DEF Request, Labels, Placed, BlockLabels, RuleLabels
<1>2. CASE r.todo = {}
  BY <1>2, AnsweredPlaced DEF AfterFailure, Replies
<1> QED
  BY <1>1, <1>2

LEMMA SuccessPlaced ==
    ASSUME NEW r \in Request, r.todo \subseteq r.toks
    PROVE  AfterSuccess(r) \in Request /\ Placed(AfterSuccess(r))
<1>1. CASE r.todo # {}
  <2>1. AfterSuccess(r) = [r EXCEPT !.at = "s_del"]
    BY <1>1 DEF AfterSuccess
  <2> QED
    BY <1>1, <2>1 DEF Request, Labels, Placed, BlockLabels, RuleLabels
<1>2. CASE r.todo = {}
  BY <1>2, AnsweredPlaced DEF AfterSuccess, Replies
<1> QED
  BY <1>1, <1>2

\* Of the four ways on, only AfterBlock keeps a request looking for blocks,
\* barred as before; the counts it holds stay with it, or go.
LEMMA WaysOn ==
    ASSUME NEW r \in Request,
           NEW q \in {AfterRule(r), AfterBlock(r), AfterFailure(r), AfterSuccess(r)}
    PROVE  /\ q.at \in BlockLabels => q = [r EXCEPT !.at = "b_get"]
           /\ q.barred = {} \/ q.barred = r.barred
           /\ q.held = {} \/ (q.held = r.held /\ q.over = r.over)
<1> DEFINE u == [r EXCEPT !.todo = {t \in r.toks : Limit[t] > 0}]
<1>1. u \in Request /\ u.barred = r.barred /\ u.held = r.held /\ u.over = r.over
  BY DEF Request
<1> HIDE DEF u
<1>2. ASSUME NEW v \in Request
      PROVE  AfterRule(v) \in {[v EXCEPT !.at = "q_incr"], [v EXCEPT !.at = "handle"],
                               Answered("limited")}
  BY DEF AfterRule
<1>3. AfterBlock(r) \in {[r EXCEPT !.at = "b_get"], AfterRule(u), Answered("limited"),
                         [r EXCEPT !.at = "handle"]}
  BY DEF AfterBlock, u
<1>4. q \in {[r EXCEPT !.at = "b_get"], [r EXCEPT !.at = "q_incr"], [r EXCEPT !.at = "handle"],
             [r EXCEPT !.at = "f_incr"], [r EXCEPT !.at = "s_del"],
             [u EXCEPT !.at = "q_incr"], [u EXCEPT !.at = "handle"],
             Answered("limited"), Answered("served"), Answered("error")}
  BY <1>1, <1>2, <1>3 DEF AfterFailure, AfterSuccess
<1>5. /\ Answered("limited").at = "idle" /\ Answered("served").at = "idle"
      /\ Answered("error").at = "idle"
      /\ Answered("limited").held = {} /\ Answered("served").held = {}
      /\ Answered("limited").barred = {} /\ Answered("served").barred = {}
      /\ Answered("error").held = {} /\ Answered("error").barred = {}
  BY DEF Answered
<1> QED
  BY <1>1, <1>4, <1>5 DEF Request, BlockLabels

LEMMA AfterRuleAt ==
    ASSUME NEW r \in Request
    PROVE  AfterRule(r).at \in {"q_incr", "handle", "idle"} /\ AfterRule(r).at \notin BlockLabels
BY DEF AfterRule, Answered, Request, BlockLabels

\* What a command does to the store: counters of requests never fall, and
\* what is firmly blocked stays so.
Kept(st) ==
    /\ \A s \in Stores, t \in Tokens : st[s][<<"req", t>>].val >= store[s][<<"req", t>>].val
    /\ \A s \in Stores, t \in Tokens :
          Firm(s, t) => st[s][<<"block", t>>].left > (IF s = "redis" THEN 1 ELSE 0)

\* Request p goes on as r with nothing but what it had.
Carries(p, r) ==
    /\ r.at \in BlockLabels => rq[p].at \in BlockLabels /\ r.barred = rq[p].barred
    /\ \A h \in r.held : Mode = "enforce" /\ ~r.over => h \in rq[p].held /\ ~rq[p].over

\* A step of p that lets nobody through and takes nothing from anybody.
Stays(p) ==
    /\ UNCHANGED <<link, admitted>>
    /\ Kept(store')
    /\ \E r \in Request : rq' = [rq EXCEPT ![p] = r] /\ Carries(p, r)

\* As Carries, but p holds the count it has just been given if it is within the rule.
Gains(p, r) ==
    /\ r.at \notin BlockLabels
    /\ \A h \in r.held : Mode = "enforce" /\ ~r.over =>
          /\ ~rq[p].over
          /\ \/ h \in rq[p].held
             \/ /\ h = <<Active, Current(p)>>
                /\ store[Active][Key(p, "req")].val + 1 <= Limit[Current(p)]

\* Done with its current token, a request is still well formed.
LEMMA LaterTyped ==
    ASSUME TypeOK, PlacesOK, NEW p \in Procs
    PROVE  /\ Later(p) \in Request
           /\ Later(p) = [rq[p] EXCEPT !.todo = rq[p].todo \ {Current(p)}]
           /\ Later(p).todo \subseteq Later(p).toks
<1>1. rq[p] \in Request /\ rq[p].todo \subseteq rq[p].toks
  BY DEF TypeOK, PlacesOK, Placed
<1> QED
  BY <1>1 DEF Later, Request

-----------------------------------------------------------------------------
(* Commands on the store keep its entries well formed.                      *)

StoreTyped(st) ==
    /\ st \in [Stores -> [Keys -> Entry]]
    /\ \A s \in Stores, k \in Keys : st[s][k].left > 0 => st[s][k].val > 0

\* A change of one entry.
LEMMA PutTyped ==
    ASSUME StoreTyped(store), NEW s \in Stores, NEW k \in Keys, NEW e \in Entry,
           e.left > 0 => e.val > 0
    PROVE  /\ StoreTyped(Put(s, k, e))
           /\ Put(s, k, e)[s][k] = e
           /\ \A u \in Stores, j \in Keys : u # s \/ j # k => Put(s, k, e)[u][j] = store[u][j]
BY DEF StoreTyped, Put

\* INCR, and the Map's increment.
LEMMA IncrementedTyped ==
    ASSUME StoreTyped(store), NEW s \in Stores, NEW k \in Keys, NEW w \in Nat
    PROVE  /\ StoreTyped(Incremented(s, k, w))
           /\ Incremented(s, k, w)[s][k].val = store[s][k].val + 1
           /\ \A u \in Stores, j \in Keys :
                 u # s \/ j # k => Incremented(s, k, w)[u][j] = store[u][j]
<1> DEFINE e == [val  |-> store[s][k].val + 1,
                 left |-> IF s = "memory" /\ ~Live(s, k) THEN w ELSE store[s][k].left]
<1>1. e \in Entry /\ (e.left > 0 => e.val > 0) /\ e.val = store[s][k].val + 1
  BY DEF StoreTyped, Entry
<1>2. Incremented(s, k, w) = Put(s, k, e)
  BY DEF Incremented
<1> HIDE DEF e
<1> QED
  BY <1>1, <1>2, PutTyped

\* EXPIRE.
LEMMA ExpiryTyped ==
    ASSUME StoreTyped(store), NEW k \in Keys, NEW w \in Nat
    PROVE  /\ StoreTyped(WithExpiry(k, w))
           /\ \A u \in Stores, j \in Keys : WithExpiry(k, w)[u][j].val = store[u][j].val
           /\ \A u \in Stores, j \in Keys : j # k => WithExpiry(k, w)[u][j] = store[u][j]
<1>1. CASE Live("redis", k)
  <2> DEFINE e == [store["redis"][k] EXCEPT !.left = w]
  <2>1. "redis" \in Stores
    BY DEF Stores
  <2>2. store["redis"][k] \in Entry
    BY <2>1 DEF StoreTyped
  <2>3. e \in Entry /\ e.val = store["redis"][k].val /\ e.val > 0
    BY <1>1, <2>2 DEF Entry, Live
  <2>4. WithExpiry(k, w) = Put("redis", k, e)
    BY <1>1 DEF WithExpiry
  <2> HIDE DEF e
  <2> QED
    BY <2>1, <2>3, <2>4, PutTyped
<1>2. CASE ~Live("redis", k)
  BY <1>2 DEF WithExpiry
<1> QED
  BY <1>1, <1>2

-----------------------------------------------------------------------------
(* Each step of a request keeps the state typed and requests in their place. *)

Typed == TypeOK /\ PlacesOK /\ EntriesOK

LEMMA TypedStore == ASSUME Typed PROVE StoreTyped(store) /\ Active \in Stores
BY DEF Typed, TypeOK, EntriesOK, StoreTyped, Active, Stores

\* Request p goes on as r, directly or by way of Move.
LEMMA BecamePlaced ==
    ASSUME Typed, NEW p \in Procs, NEW r \in Request, Placed(r), rq' = [rq EXCEPT ![p] = r]
    PROVE  rq' \in [Procs -> Request] /\ PlacesOK'
BY DEF Typed, TypeOK, PlacesOK

LEMMA MovePlaced ==
    ASSUME Typed, NEW p \in Procs, NEW r \in Request, Placed(r), Move(p, r)
    PROVE  /\ rq' \in [Procs -> Request]
           /\ PlacesOK'
           /\ admitted' \in [Stores -> [Tokens -> Nat]]
<1> DEFINE q == IF r.at = "handle" THEN [r EXCEPT !.held = {}] ELSE r
<1>1. q \in Request
  BY DEF Request
<1>2. Placed(q)
  BY DEF Placed, Request
<1>3. rq' = [rq EXCEPT ![p] = q]
  BY DEF Move
<1> HIDE DEF q
<1>4. rq' \in [Procs -> Request] /\ PlacesOK'
  BY <1>1, <1>2, <1>3, BecamePlaced
<1>5. admitted' \in [Stores -> [Tokens -> Nat]]
  <2>1. admitted \in [Stores -> [Tokens -> Nat]]
    BY DEF Typed, TypeOK
  <2> QED
    BY <2>1 DEF Move
<1> QED
  BY <1>4, <1>5

\* What a request waiting for the store knows of its current token.
LEMMA Waiting ==
    ASSUME Typed, NEW p \in Procs, rq[p].at \notin {"idle", "handle"}
    PROVE  /\ Current(p) \in rq[p].todo /\ Current(p) \in Tokens
           /\ \A kind \in {"req", "fail", "block"} : Key(p, kind) \in Keys
           /\ rq[p] \in Request /\ Placed(rq[p])
<1>1. rq[p] \in Request /\ Placed(rq[p])
  BY DEF Typed, TypeOK, PlacesOK
<1>2. rq[p].todo # {}
  BY <1>1 DEF Placed
<1>3. Current(p) \in rq[p].todo /\ Current(p) \in Tokens
  BY <1>2, CurrentIsToDo DEF Typed
<1> QED
  BY <1>1, <1>3 DEF Key, Keys

LEMMA ArriveTyped ==
    ASSUME Typed, NEW p \in Procs, NEW toks \in Senders, Arrive(p, toks)
    PROVE  Typed'
<1> DEFINE r == [Answered("none") EXCEPT !.at = "b_get", !.toks = toks, !.todo = toks,
                                          !.barred = {t \in toks : Firm(Active, t)}]
<1>1. toks \in SUBSET Tokens /\ toks # {}
  BY TokensAssumption
<1>2. r \in Request
  BY <1>1 DEF Answered, Request, Labels, Replies
<1>3. Placed(r)
  BY <1>1 DEF Answered, Placed, BlockLabels, RuleLabels
<1>4. rq' = [rq EXCEPT ![p] = r]
  BY DEF Arrive
<1> HIDE DEF r
<1>5. rq' \in [Procs -> Request] /\ PlacesOK'
  BY <1>2, <1>3, <1>4, BecamePlaced
<1> QED
  BY <1>5 DEF Arrive, Typed, TypeOK, EntriesOK

\* A token that bars the request is found blocked.
LEMMA BarredIsLive ==
    ASSUME Typed, BarsStand, NEW p \in Procs, rq[p].at \in BlockLabels,
           NEW t \in rq[p].barred
    PROVE  /\ Live(Active, <<"block", t>>)
           /\ \A ttl \in Ttl(Active, <<"block", t>>) : ttl > 0
<1>1. t \in Tokens
  BY DEF Typed, TypeOK, Request
<1>2. <<"block", t>> \in Keys /\ Active \in Stores
  BY <1>1, TypedStore DEF Keys
<1>3. store[Active][<<"block", t>>] \in Entry
  BY <1>2 DEF Typed, TypeOK
<1>4. Firm(Active, t)
  BY DEF BarsStand
<1>5. Active = "redis" => store[Active][<<"block", t>>].left > 1
  BY <1>4 DEF Firm
<1>6. store[Active][<<"block", t>>].left > 0
  BY <1>3, <1>4, <1>5 DEF Firm, Entry
<1>7. store[Active][<<"block", t>>].val > 0
  BY <1>2, <1>6 DEF Typed, EntriesOK
<1> QED
  BY <1>3, <1>5, <1>6, <1>7 DEF Live, Ttl, Entry

LEMMA BlockGetTyped ==
    ASSUME Typed, BarsStand, NEW p \in Procs, BlockGet(p)
    PROVE  Typed' /\ \E r \in Request : Placed(r) /\ Move(p, r) /\ Carries(p, r)
<1> DEFINE k == Key(p, "block")
           r == IF Live(Active, k) THEN [rq[p] EXCEPT !.at = "b_ttl"] ELSE AfterBlock(Later(p))
<1>1. rq[p].at = "b_get"
  BY DEF BlockGet, At
<1>2. rq[p] \in Request /\ Placed(rq[p]) /\ Current(p) \in rq[p].todo
  BY <1>1, Waiting
<1>3. r \in Request /\ Placed(r)
  <2>1. CASE Live(Active, k)
    BY <1>1, <1>2, <2>1 DEF Request, Labels, Placed, BlockLabels, RuleLabels
  <2>2. CASE ~Live(Active, k)
    <3>1. Current(p) \notin rq[p].barred
      BY <1>1, <2>2, BarredIsLive DEF Key, BlockLabels
    <3>2. Later(p).wait > 0 \/ Later(p).barred \subseteq Later(p).todo
      BY <1>1, <1>2, <3>1, LaterTyped DEF Placed, BlockLabels, Request, Typed
    <3>3. ~Later(p).over
      BY <1>1, <1>2, LaterTyped DEF Placed, BlockLabels, Request, Typed
    <3> QED
      BY <2>2, <3>2, <3>3, LaterTyped, BlockPlaced DEF Typed
  <2> QED
    BY <2>1, <2>2
<1>4. Move(p, r) /\ UNCHANGED <<store, link, fails>>
  BY DEF BlockGet
<1>5. Carries(p, r)
  <2>1. CASE Live(Active, k)
    BY <1>1, <1>2, <2>1 DEF Carries, Request, BlockLabels
  <2>2. CASE ~Live(Active, k)
    <3> DEFINE l == Later(p)
    <3>1. /\ l \in Request /\ l.barred = rq[p].barred /\ l.held = rq[p].held /\ l.over = rq[p].over
          /\ [l EXCEPT !.at = "b_get"].barred = rq[p].barred
      BY <1>2, LaterTyped DEF Request, Typed
    <3>2. r = AfterBlock(l)
      BY <2>2
    <3> HIDE DEF l, r
    <3> QED
      BY <1>1, <3>1, <3>2, WaysOn DEF Carries, BlockLabels
  <2> QED
    BY <2>1, <2>2
<1> HIDE DEF r
<1> QED
  BY <1>3, <1>4, <1>5, MovePlaced DEF Typed, TypeOK, EntriesOK

LEMMA BlockTtlTyped ==
    ASSUME Typed, BarsStand, NEW p \in Procs, BlockTtl(p)
    PROVE  Typed' /\ \E r \in Request : Placed(r) /\ Move(p, r) /\ Carries(p, r)
<1>1. rq[p].at = "b_ttl"
  BY DEF BlockTtl, At
<1>2. rq[p] \in Request /\ Placed(rq[p]) /\ Current(p) \in rq[p].todo
      /\ Key(p, "block") \in Keys
  BY <1>1, Waiting
<1>3. PICK ttl \in Ttl(Active, Key(p, "block")) :
         Move(p, AfterBlock([Later(p) EXCEPT !.wait = IF ttl > @ THEN ttl ELSE @]))
  BY DEF BlockTtl
<1> DEFINE q == [Later(p) EXCEPT !.wait = IF ttl > Later(p).wait THEN ttl ELSE Later(p).wait]
<1>4. ttl \in Nat
  <2>1. store[Active][Key(p, "block")] \in Entry
    BY <1>2, TypedStore DEF Typed, TypeOK
  <2> QED
    BY <1>3, <2>1 DEF Ttl, Entry
<1>5. Later(p) \in Request /\ Later(p).todo \subseteq Later(p).toks
      /\ Later(p).over = rq[p].over /\ Later(p).wait = rq[p].wait
      /\ Later(p).barred = rq[p].barred /\ Later(p).todo = rq[p].todo \ {Current(p)}
  BY <1>2, LaterTyped DEF Typed, Request
<1>6. q \in Request /\ q.todo \subseteq q.toks /\ ~q.over
  BY <1>1, <1>2, <1>4, <1>5 DEF Request, Placed, BlockLabels
<1>7. q.wait > 0 \/ q.barred \subseteq q.todo
  <2>1. CASE Current(p) \in rq[p].barred
    <3>1. ttl > 0
      BY <1>1, <1>3, <2>1, BarredIsLive DEF BlockLabels, Key
    <3> QED
      BY <1>4, <1>5, <3>1 DEF Request
  <2>2. CASE Current(p) \notin rq[p].barred
    BY <1>1, <1>2, <1>4, <1>5, <2>2 DEF Request, Placed, BlockLabels
  <2> QED
    BY <2>1, <2>2
<1>10. Carries(p, AfterBlock(q))
  <2>1. /\ q \in Request /\ q.barred = rq[p].barred /\ q.held = rq[p].held /\ q.over = rq[p].over
        /\ [q EXCEPT !.at = "b_get"].barred = rq[p].barred
    BY <1>2, <1>4, <1>5, <1>6, LaterTyped DEF Request, Typed
  <2> HIDE DEF q
  <2> QED
    BY <1>1, <2>1, WaysOn DEF Carries, BlockLabels
<1>8. Move(p, AfterBlock(q))
  BY <1>3
<1> HIDE DEF q
<1>9. UNCHANGED <<store, link, fails>>
  BY DEF BlockTtl
<1> QED
  BY <1>6, <1>7, <1>8, <1>9, <1>10, BlockPlaced, MovePlaced DEF Typed, TypeOK, EntriesOK

\* Done with a rule, a request is ready for the next.
LEMMA LaterRule ==
    ASSUME Typed, NEW p \in Procs, rq[p].at \in RuleLabels
    PROVE  /\ Later(p) \in Request /\ Later(p).todo \subseteq Later(p).toks
           /\ Later(p).barred = {} /\ \A t \in Later(p).todo : Limit[t] > 0
           /\ Limit[Current(p)] > 0
           /\ Later(p).wait = rq[p].wait
<1>1. rq[p].at \notin {"idle", "handle"}
  BY DEF RuleLabels
<1>2. Placed(rq[p]) /\ Current(p) \in rq[p].todo /\ rq[p] \in Request
  BY <1>1, Waiting
<1> QED
  BY <1>2, LaterTyped DEF Placed, Request, Typed

LEMMA ReqIncrTyped ==
    ASSUME Typed, NEW p \in Procs, ReqIncr(p)
    PROVE  Typed' /\ \E r \in Request : Placed(r) /\ Move(p, r) /\ Gains(p, r)
<1> DEFINE value == store[Active][Key(p, "req")].val + 1
           q == [rq[p] EXCEPT !.held = @ \cup {<<Active, Current(p)>>}]
           r == IF Active = "redis" /\ value = 1 THEN [q EXCEPT !.at = "q_expire"]
                ELSE IF Exceeds(p, value) THEN [q EXCEPT !.over = TRUE, !.at = "q_ttl"]
                ELSE AfterRule([q EXCEPT !.todo = @ \ {Current(p)}])
<1>1. rq[p].at = "q_incr" /\ rq[p].at \in RuleLabels
  BY DEF ReqIncr, At, RuleLabels
<1>2. /\ rq[p] \in Request /\ Placed(rq[p])
      /\ Current(p) \in rq[p].todo /\ Current(p) \in Tokens /\ Key(p, "req") \in Keys
  BY <1>1, Waiting
<1>3. q \in Request /\ q.todo = rq[p].todo /\ q.toks = rq[p].toks /\ q.barred = {}
      /\ q.at = "q_incr" /\ \A t \in q.todo : Limit[t] > 0
  BY <1>1, <1>2, TypedStore DEF Request, Placed
<1> DEFINE q1 == [q EXCEPT !.todo = @ \ {Current(p)}]
<1>4. q1 \in Request /\ q1.todo \subseteq q1.toks /\ q1.barred = {}
      /\ \A t \in q1.todo : Limit[t] > 0
  BY <1>2, <1>3 DEF Request, Placed
<1>5. AfterRule(q1) \in Request /\ Placed(AfterRule(q1))
  BY <1>4, RulePlaced
<1>6. [q EXCEPT !.at = "q_expire"] \in Request /\ Placed([q EXCEPT !.at = "q_expire"])
  BY <1>2, <1>3 DEF Request, Labels, Placed, BlockLabels, RuleLabels
<1>7. /\ [q EXCEPT !.over = TRUE, !.at = "q_ttl"] \in Request
      /\ Placed([q EXCEPT !.over = TRUE, !.at = "q_ttl"])
  BY <1>2, <1>3 DEF Request, Labels, Placed, BlockLabels, RuleLabels
<1>8. r \in Request /\ Placed(r)
  BY <1>5, <1>6, <1>7
<1>11. Gains(p, r)
  <2>1. q.held = rq[p].held \cup {<<Active, Current(p)>>} /\ q.over = rq[p].over
    BY <1>2 DEF Request
  <2>2. CASE Active = "redis" /\ value = 1
    <3>1. r = [q EXCEPT !.at = "q_expire"]
      BY <2>2
    <3>2. Limit[Current(p)] \in Nat /\ Limit[Current(p)] > 0
      BY <1>2, <1>3, PolicyAssumption
    <3>3. value <= Limit[Current(p)]
      BY <2>2, <3>2
    <3> QED
      BY <1>3, <2>1, <3>1, <3>3 DEF Gains, Request, BlockLabels
  <2>3. CASE ~(Active = "redis" /\ value = 1) /\ Exceeds(p, value)
    <3>1. r = [q EXCEPT !.over = TRUE, !.at = "q_ttl"]
      BY <2>3
    <3> QED
      BY <1>3, <3>1 DEF Gains, Request, BlockLabels
  <2>4. CASE ~(Active = "redis" /\ value = 1) /\ ~Exceeds(p, value)
    <3>1. r = AfterRule(q1)
      BY <2>4
    <3>2. value <= Limit[Current(p)]
      <4>1. Limit[Current(p)] \in Nat
        BY <1>2, PolicyAssumption
      <4>2. store[Active][Key(p, "req")] \in Entry
        BY <1>2, TypedStore DEF Typed, TypeOK
      <4> QED
        BY <2>4, <4>1, <4>2 DEF Exceeds, Entry
    <3>3. q1 \in Request /\ q1.held = q.held /\ q1.over = q.over
      BY <1>3, <1>4 DEF Request
    <3> HIDE DEF r, q, q1
    <3> QED
      BY <2>1, <3>1, <3>2, <3>3, AfterRuleAt, WaysOn DEF Gains
  <2> QED
    BY <2>2, <2>3, <2>4
<1>9. Move(p, r) /\ store' = Incremented(Active, Key(p, "req"), Window)
      /\ UNCHANGED <<link, fails>>
  BY DEF ReqIncr
<1> HIDE DEF r
<1>10. StoreTyped(store')
  BY <1>2, <1>9, TypedStore, IncrementedTyped, PolicyAssumption
<1> QED
  BY <1>8, <1>9, <1>10, <1>11, MovePlaced DEF Typed, TypeOK, EntriesOK, StoreTyped

LEMMA ReqExpireTyped ==
    ASSUME Typed, NEW p \in Procs, ReqExpire(p)
    PROVE  Typed' /\ \E r \in Request : Placed(r) /\ Move(p, r) /\ Carries(p, r)
<1>1. rq[p].at = "q_expire" /\ rq[p].at \in RuleLabels
  BY DEF ReqExpire, At, RuleLabels
<1>2. AfterRule(Later(p)) \in Request /\ Placed(AfterRule(Later(p)))
  BY <1>1, LaterRule, RulePlaced
<1>3. Key(p, "req") \in Keys
  BY <1>1, Waiting
<1>4. Move(p, AfterRule(Later(p))) /\ store' = WithExpiry(Key(p, "req"), Window)
      /\ UNCHANGED <<link, fails>>
  BY DEF ReqExpire
<1>9. Carries(p, AfterRule(Later(p)))
  <2>1. /\ Later(p) \in Request /\ Later(p).held = rq[p].held /\ Later(p).over = rq[p].over
    BY LaterTyped DEF Request, Typed, TypeOK
  <2>2. AfterRule(Later(p)).at \notin BlockLabels
    BY <2>1, AfterRuleAt
  <2> QED
    BY <2>1, <2>2, WaysOn DEF Carries
<1>5. StoreTyped(store')
  BY <1>3, <1>4, TypedStore, ExpiryTyped, PolicyAssumption
<1> QED
  BY <1>2, <1>4, <1>5, <1>9, MovePlaced DEF Typed, TypeOK, EntriesOK, StoreTyped

\* The time to live Redis or the Map reports.
LEMMA TtlTyped ==
    ASSUME Typed, NEW k \in Keys, NEW ttl \in Ttl(Active, k)
    PROVE  ttl \in Nat
<1>1. store[Active][k] \in Entry
  BY TypedStore DEF Typed, TypeOK
<1> QED
  BY <1>1 DEF Ttl, Entry

LEMMA ReqTtlTyped ==
    ASSUME Typed, NEW p \in Procs, ReqTtl(p)
    PROVE  Typed' /\ \E r \in Request : Placed(r) /\ Move(p, r) /\ Carries(p, r)
<1>1. rq[p].at = "q_ttl" /\ rq[p].at \in RuleLabels
  BY DEF ReqTtl, At, RuleLabels
<1>2. Key(p, "req") \in Keys
  BY <1>1, Waiting
<1>3. PICK ttl \in Ttl(Active, Key(p, "req")) :
         LET wait == IF ttl = 0 THEN Window ELSE ttl
         IN  Move(p, AfterRule([Later(p) EXCEPT !.wait = IF wait > @ THEN wait ELSE @]))
  BY DEF ReqTtl
<1> DEFINE wait == IF ttl = 0 THEN Window ELSE ttl
           q == [Later(p) EXCEPT !.wait = IF wait > Later(p).wait THEN wait ELSE Later(p).wait]
<1>4. wait \in Nat
  BY <1>2, TtlTyped, PolicyAssumption
<1> HIDE DEF wait
<1>5. q \in Request /\ q.todo \subseteq q.toks /\ q.barred = {}
      /\ \A t \in q.todo : Limit[t] > 0
  BY <1>1, <1>4, LaterRule DEF Request
<1>6. Move(p, AfterRule(q))
  BY <1>3 DEF wait
<1> HIDE DEF q
<1>9. Carries(p, AfterRule(q))
  <2>0. q.held = Later(p).held /\ q.over = Later(p).over
    BY DEF q, Later
  <2>1. /\ q \in Request /\ q.held = rq[p].held /\ q.over = rq[p].over
    BY <1>5, <2>0 DEF Later
  <2>2. AfterRule(q).at \notin BlockLabels
    BY <2>1, AfterRuleAt
  <2> QED
    BY <2>1, <2>2, WaysOn DEF Carries
<1>7. UNCHANGED <<store, link, fails>>
  BY DEF ReqTtl
<1> QED
  BY <1>5, <1>6, <1>7, <1>9, RulePlaced, MovePlaced DEF Typed, TypeOK, EntriesOK

LEMMA HandleTyped ==
    ASSUME Typed, NEW p \in Procs, NEW result \in Results, Handle(p, result)
    PROVE  Typed'
<1> DEFINE r == [rq[p] EXCEPT !.todo = rq[p].toks, !.wait = 0, !.over = FALSE]
           f == [r EXCEPT !.caught = result = "thrown"]
           n == IF result = "stopped" \/ Steps = {} THEN Answered("served")
                ELSE IF result = "ok" THEN AfterSuccess(r) ELSE AfterFailure(f)
<1>1. rq[p] \in Request
  BY DEF Typed, TypeOK
<1>2. r \in Request /\ r.todo = r.toks
  BY <1>1 DEF Request
<1>3. f \in Request /\ f.todo = f.toks
  BY <1>2 DEF Request
<1>4. rq' = [rq EXCEPT ![p] = n]
  BY DEF Handle
<1> HIDE DEF r, f
<1>5. AfterSuccess(r) \in Request /\ Placed(AfterSuccess(r))
  BY <1>2, SuccessPlaced
<1>6. AfterFailure(f) \in Request /\ Placed(AfterFailure(f))
  BY <1>3, FailurePlaced
<1>7. n \in Request /\ Placed(n)
  BY <1>5, <1>6, AnsweredPlaced DEF Replies
<1> HIDE DEF n
<1>8. rq' \in [Procs -> Request] /\ PlacesOK'
  BY <1>4, <1>7, BecamePlaced
<1>9. fails' \in [Tokens -> Nat]
  BY BoundAssumption DEF Handle, Typed, TypeOK
<1>10. UNCHANGED <<store, link, admitted>>
  BY DEF Handle
<1> QED
  BY <1>8, <1>9, <1>10 DEF Typed, TypeOK, EntriesOK

LEMMA CountedPlaced ==
    ASSUME Typed, NEW p \in Procs, NEW n \in Nat, Counted(p, n),
           rq[p].at \in {"f_incr", "f_expire"}
    PROVE  rq' \in [Procs -> Request] /\ PlacesOK'
<1>1. rq[p] \in Request /\ Placed(rq[p]) /\ rq[p].todo # {}
  BY Waiting
<1>2. CASE Matching(n) = {}
  <2>1. rq' = [rq EXCEPT ![p] = AfterFailure(Later(p))]
    BY <1>2 DEF Counted
  <2> QED
    BY <2>1, LaterTyped, FailurePlaced, BecamePlaced DEF Typed
<1>3. CASE Matching(n) # {}
  <2> DEFINE q == [rq[p] EXCEPT !.n = n, !.at = "f_ttl"]
  <2>1. q \in Request /\ Placed(q)
    BY <1>1, <1>3 DEF Request, Labels, Placed, BlockLabels, RuleLabels
  <2>2. rq' = [rq EXCEPT ![p] = q]
    BY <1>3 DEF Counted
  <2> HIDE DEF q
  <2> QED
    BY <2>1, <2>2, BecamePlaced
<1> QED
  BY <1>2, <1>3

LEMMA FailIncrTyped ==
    ASSUME Typed, NEW p \in Procs, FailIncr(p)
    PROVE  Typed'
<1> DEFINE n == store[Active][Key(p, "fail")].val + 1
<1>1. rq[p].at = "f_incr"
  BY DEF FailIncr, At
<1>2. rq[p] \in Request /\ Placed(rq[p]) /\ Key(p, "fail") \in Keys
  BY <1>1, Waiting
<1>3. n \in Nat
  <2>1. store[Active][Key(p, "fail")] \in Entry
    BY <1>2, TypedStore DEF Typed, TypeOK
  <2> QED
    BY <2>1 DEF Entry
<1>4. store' = Incremented(Active, Key(p, "fail"), FailWindow)
      /\ UNCHANGED <<link, admitted, fails>>
      /\ IF Active = "redis" /\ n = 1 THEN rq' = [rq EXCEPT ![p].at = "f_expire"]
         ELSE Counted(p, n)
  BY DEF FailIncr
<1> HIDE DEF n
<1>5. rq' \in [Procs -> Request] /\ PlacesOK'
  <2>1. CASE Active = "redis" /\ n = 1
    <3> DEFINE q == [rq[p] EXCEPT !.at = "f_expire"]
    <3>1. q \in Request /\ Placed(q)
      BY <1>1, <1>2 DEF Request, Labels, Placed, BlockLabels, RuleLabels
    <3>2. rq' = [rq EXCEPT ![p] = q]
      BY <1>4, <2>1
    <3> HIDE DEF q
    <3> QED
      BY <3>1, <3>2, BecamePlaced
  <2>2. CASE ~(Active = "redis" /\ n = 1)
    BY <1>1, <1>3, <1>4, <2>2, CountedPlaced
  <2> QED
    BY <2>1, <2>2
<1>6. StoreTyped(store')
  BY <1>2, <1>4, TypedStore, IncrementedTyped, PolicyAssumption
<1> QED
  BY <1>4, <1>5, <1>6 DEF Typed, TypeOK, EntriesOK, StoreTyped

LEMMA FailExpireTyped ==
    ASSUME Typed, NEW p \in Procs, FailExpire(p)
    PROVE  Typed'
<1>1. rq[p].at = "f_expire"
  BY DEF FailExpire, At
<1>2. Key(p, "fail") \in Keys
  BY <1>1, Waiting
<1>3. store' = WithExpiry(Key(p, "fail"), FailWindow) /\ Counted(p, 1)
      /\ UNCHANGED <<link, admitted, fails>>
  BY DEF FailExpire
<1>4. rq' \in [Procs -> Request] /\ PlacesOK'
  BY <1>1, <1>3, CountedPlaced
<1>5. StoreTyped(store')
  BY <1>2, <1>3, TypedStore, ExpiryTyped, PolicyAssumption
<1> QED
  BY <1>3, <1>4, <1>5 DEF Typed, TypeOK, EntriesOK, StoreTyped

LEMMA FailTtlTyped ==
    ASSUME Typed, NEW p \in Procs, FailTtl(p)
    PROVE  Typed'
<1>1. rq[p].at = "f_ttl"
  BY DEF FailTtl, At
<1>2. rq[p] \in Request /\ Placed(rq[p])
  BY <1>1, Waiting
<1> DEFINE q == [rq[p] EXCEPT !.at = "f_set"]
<1>3. q \in Request /\ Placed(q)
  BY <1>1, <1>2 DEF Request, Labels, Placed, BlockLabels, RuleLabels
<1>4. rq' = [rq EXCEPT ![p] = q] \/ rq' = [rq EXCEPT ![p] = AfterFailure(Later(p))]
  BY DEF FailTtl
<1> HIDE DEF q
<1>5. rq' \in [Procs -> Request] /\ PlacesOK'
  BY <1>3, <1>4, LaterTyped, FailurePlaced, BecamePlaced DEF Typed
<1>6. UNCHANGED <<store, link, admitted, fails>>
  BY DEF FailTtl
<1> QED
  BY <1>5, <1>6 DEF Typed, TypeOK, EntriesOK

\* A block is written with more than one second to go.
LEMMA BlockedTyped ==
    ASSUME Typed, NEW p \in Procs, rq[p].at = "f_set"
    PROVE  /\ StoreTyped(Blocked(p))
           /\ Blocked(p)[Active][Key(p, "block")].left > 1
           /\ \A s \in Stores, k \in Keys :
                 s # Active \/ k # Key(p, "block") => Blocked(p)[s][k] = store[s][k]
<1>1. rq[p] \in Request /\ Placed(rq[p]) /\ Key(p, "block") \in Keys
  BY Waiting
<1>2. rq[p].n \in Nat /\ Matching(rq[p].n) # {}
  BY <1>1 DEF Request, Placed
<1> DEFINE e == [val |-> 1, left |-> BlockSec(rq[p].n)]
<1>3. e \in Entry /\ e.val > 0 /\ e.left > 1
  BY <1>2, BlockSecTyped DEF Entry
<1>4. Blocked(p) = Put(Active, Key(p, "block"), e)
  BY DEF Blocked
<1> HIDE DEF e
<1> QED
  BY <1>1, <1>3, <1>4, TypedStore, PutTyped

LEMMA BlockSetTyped ==
    ASSUME Typed, NEW p \in Procs, BlockSet(p)
    PROVE  Typed'
<1>1. StoreTyped(store')
  BY BlockedTyped DEF BlockSet, At
<1>2. rq' \in [Procs -> Request] /\ PlacesOK'
  BY LaterTyped, FailurePlaced, BecamePlaced DEF Typed, BlockSet
<1> QED
  BY <1>1, <1>2 DEF BlockSet, Typed, TypeOK, EntriesOK, StoreTyped

LEMMA FailDelTyped ==
    ASSUME Typed, NEW p \in Procs, FailDel(p)
    PROVE  Typed'
<1>1. StoreTyped(store')
  <2>1. Key(p, "fail") \in Keys
    BY Waiting DEF FailDel, At
  <2>2. Gone \in Entry /\ ~(Gone.left > 0)
    BY DEF Gone, Entry
  <2> QED
    BY <2>1, <2>2, TypedStore, PutTyped DEF FailDel
<1>2. rq' \in [Procs -> Request] /\ PlacesOK'
  BY LaterTyped, SuccessPlaced, BecamePlaced DEF Typed, FailDel
<1> QED
  BY <1>1, <1>2 DEF FailDel, Typed, TypeOK, EntriesOK, StoreTyped

-----------------------------------------------------------------------------
(* So does what goes wrong, and time.                                       *)

\* The keys of requests, failures and blocks are different keys.
LEMMA KeysDiffer ==
    ASSUME NEW t \in Tokens, NEW u \in Tokens
    PROVE  /\ <<"req", t>> \in Keys /\ <<"fail", t>> \in Keys /\ <<"block", t>> \in Keys
           /\ <<"block", t>> # <<"req", u>> /\ <<"block", t>> # <<"fail", u>>
           /\ <<"req", t>> # <<"fail", u>>
           /\ <<"block", t>> = <<"block", u>> => t = u
           /\ <<"req", t>> = <<"req", u>> => t = u
BY DEF Keys

LEMMA StoreItselfKept == ASSUME Typed PROVE Kept(store)
<1>1. \A s \in Stores, t \in Tokens : <<"req", t>> \in Keys
  BY DEF Keys
<1>2. \A s \in Stores, t \in Tokens : store[s][<<"req", t>>].val \in Nat
  BY <1>1 DEF Typed, TypeOK, Entry
<1> QED
  BY <1>2 DEF Kept, Firm

LEMMA IncrementedKept ==
    ASSUME Typed, NEW s \in Stores, NEW kind \in {"req", "fail"}, NEW t \in Tokens, NEW w \in Nat
    PROVE  Kept(Incremented(s, <<kind, t>>, w))
<1> DEFINE st == Incremented(s, <<kind, t>>, w)
<1>1. <<kind, t>> \in Keys
  BY DEF Keys
<1>2. /\ st[s][<<kind, t>>].val = store[s][<<kind, t>>].val + 1
      /\ \A u \in Stores, j \in Keys : u # s \/ j # <<kind, t>> => st[u][j] = store[u][j]
  BY <1>1, TypedStore, IncrementedTyped
<1> HIDE DEF st
<1>3. ASSUME NEW u \in Stores, NEW v \in Tokens
      PROVE  /\ st[u][<<"req", v>>].val >= store[u][<<"req", v>>].val
             /\ st[u][<<"block", v>>] = store[u][<<"block", v>>]
  <2>1. <<"block", v>> # <<kind, t>> /\ <<"block", v>> \in Keys /\ <<"req", v>> \in Keys
    BY KeysDiffer
  <2>2. store[u][<<"req", v>>].val \in Nat
    BY <2>1 DEF Typed, TypeOK, Entry
  <2>3. st[u][<<"req", v>>].val \in {store[u][<<"req", v>>].val, store[u][<<"req", v>>].val + 1}
    BY <1>2, <2>1
  <2> QED
    BY <1>2, <2>1, <2>2, <2>3
<1>4. Kept(st)
  BY <1>3 DEF Kept, Firm
<1> QED
  BY <1>4 DEF st

LEMMA ExpiryKept ==
    ASSUME Typed, NEW kind \in {"req", "fail"}, NEW t \in Tokens, NEW w \in Nat
    PROVE  Kept(WithExpiry(<<kind, t>>, w))
<1> DEFINE st == WithExpiry(<<kind, t>>, w)
<1>1. <<kind, t>> \in Keys
  BY DEF Keys
<1>2. /\ \A u \in Stores, j \in Keys : st[u][j].val = store[u][j].val
      /\ \A u \in Stores, j \in Keys : j # <<kind, t>> => st[u][j] = store[u][j]
  BY <1>1, TypedStore, ExpiryTyped
<1> HIDE DEF st
<1>3. ASSUME NEW u \in Stores, NEW v \in Tokens
      PROVE  /\ st[u][<<"req", v>>].val >= store[u][<<"req", v>>].val
             /\ st[u][<<"block", v>>] = store[u][<<"block", v>>]
  <2>1. <<"block", v>> # <<kind, t>> /\ <<"block", v>> \in Keys /\ <<"req", v>> \in Keys
    BY KeysDiffer
  <2>2. store[u][<<"req", v>>].val \in Nat
    BY <2>1 DEF Typed, TypeOK, Entry
  <2> QED
    BY <1>2, <2>1, <2>2
<1>4. Kept(st)
  BY <1>3 DEF Kept, Firm
<1> QED
  BY <1>4 DEF st

LEMMA FailGoneKept ==
    ASSUME Typed, NEW s \in Stores, NEW t \in Tokens
    PROVE  StoreTyped(Put(s, <<"fail", t>>, Gone)) /\ Kept(Put(s, <<"fail", t>>, Gone))
<1> DEFINE st == Put(s, <<"fail", t>>, Gone)
<1>1. <<"fail", t>> \in Keys /\ Gone \in Entry /\ ~(Gone.left > 0)
  BY DEF Gone, Entry, Keys
<1>2. /\ StoreTyped(st)
      /\ \A u \in Stores, j \in Keys : j # <<"fail", t>> => st[u][j] = store[u][j]
  <2>1. StoreTyped(store)
    BY TypedStore
  <2>2. StoreTyped(st)
    BY <1>1, <2>1, PutTyped
  <2>3. \A u \in Stores, j \in Keys : u # s \/ j # <<"fail", t>> => st[u][j] = store[u][j]
    BY <1>1, <2>1, PutTyped
  <2> QED
    BY <2>2, <2>3
<1> HIDE DEF st
<1>3. ASSUME NEW u \in Stores, NEW v \in Tokens
      PROVE  /\ st[u][<<"req", v>>].val >= store[u][<<"req", v>>].val
             /\ st[u][<<"block", v>>] = store[u][<<"block", v>>]
  <2>1. /\ <<"block", v>> # <<"fail", t>> /\ <<"req", v>> # <<"fail", t>>
        /\ <<"block", v>> \in Keys /\ <<"req", v>> \in Keys
    BY KeysDiffer
  <2>2. store[u][<<"req", v>>].val \in Nat
    BY <2>1 DEF Typed, TypeOK, Entry
  <2> QED
    BY <1>2, <2>1, <2>2
<1>4. Kept(st)
  BY <1>3 DEF Kept, Firm
<1> QED
  BY <1>2, <1>4 DEF st

LEMMA BlockedKept ==
    ASSUME Typed, NEW p \in Procs, rq[p].at = "f_set"
    PROVE  Kept(Blocked(p))
<1>1. Current(p) \in Tokens /\ Key(p, "block") = <<"block", Current(p)>>
  BY Waiting DEF Key
<1>2. \A u \in Tokens : <<"req", u>> \in Keys /\ <<"block", u>> \in Keys
  BY DEF Keys
<1>3. \A s \in Stores, k \in Keys :
         store[s][k].val \in Nat /\ store[s][k].left \in Nat
  BY DEF Typed, TypeOK, Entry
<1>4. \A s \in Stores, t \in Tokens : Blocked(p)[s][<<"req", t>>] = store[s][<<"req", t>>]
  <2>1. \A t \in Tokens : <<"req", t>> # Key(p, "block")
    BY <1>1, KeysDiffer
  <2> QED
    BY <1>2, <2>1, BlockedTyped
<1>5. ASSUME NEW s \in Stores, NEW t \in Tokens, Firm(s, t)
      PROVE  Blocked(p)[s][<<"block", t>>].left > (IF s = "redis" THEN 1 ELSE 0)
  <2>1. CASE s = Active /\ t = Current(p)
    <3>1. Blocked(p)[s][<<"block", t>>].left > 1
      BY <1>1, <2>1, BlockedTyped
    <3>2. Blocked(p)[s][<<"block", t>>].left \in Nat
      BY <1>2, BlockedTyped DEF StoreTyped, Entry
    <3> QED
      BY <3>1, <3>2
  <2>2. CASE ~(s = Active /\ t = Current(p))
    <3>1. s # Active \/ <<"block", t>> # Key(p, "block")
      BY <1>1, <2>2, KeysDiffer
    <3>2. Blocked(p)[s][<<"block", t>>] = store[s][<<"block", t>>]
      BY <1>2, <3>1, BlockedTyped
    <3> QED
      BY <1>5, <3>2 DEF Firm
  <2> QED
    BY <2>1, <2>2
<1>6. ASSUME NEW s \in Stores, NEW t \in Tokens
      PROVE  Blocked(p)[s][<<"req", t>>].val >= store[s][<<"req", t>>].val
  <2>1. store[s][<<"req", t>>].val \in Nat
    BY <1>2, <1>3
  <2>2. Blocked(p)[s][<<"req", t>>].val = store[s][<<"req", t>>].val
    BY <1>4
  <2> QED
    BY <2>1, <2>2
<1> QED
  BY <1>5, <1>6 DEF Kept

\* A command that rejects may have been carried out all the same.
LEMMA EffectKept ==
    ASSUME Typed, NEW p \in Procs, link = "up", rq[p].at \notin {"idle", "handle"}
    PROVE  StoreTyped(Effect(p)) /\ Kept(Effect(p))
<1>1. "redis" \in Stores /\ Active = "redis"
  BY DEF Stores, Active
<1>2. Current(p) \in Tokens /\ Key(p, "req") = <<"req", Current(p)>>
      /\ Key(p, "fail") = <<"fail", Current(p)>>
      /\ Key(p, "req") \in Keys /\ Key(p, "fail") \in Keys
  BY Waiting DEF Key
<1>3. CASE rq[p].at = "q_incr"
  <2>1. Effect(p) = Incremented("redis", Key(p, "req"), Window)
    BY <1>3 DEF Effect, At
  <2> QED
    BY <1>1, <1>2, <2>1, TypedStore, IncrementedTyped, IncrementedKept, PolicyAssumption
<1>4. CASE rq[p].at = "q_expire"
  <2>1. Effect(p) = WithExpiry(Key(p, "req"), Window)
    BY <1>4 DEF Effect, At
  <2> QED
    BY <1>2, <2>1, TypedStore, ExpiryTyped, ExpiryKept, PolicyAssumption
<1>5. CASE rq[p].at = "f_incr"
  <2>1. Effect(p) = Incremented("redis", Key(p, "fail"), FailWindow)
    BY <1>5 DEF Effect, At
  <2> QED
    BY <1>1, <1>2, <2>1, TypedStore, IncrementedTyped, IncrementedKept, PolicyAssumption
<1>6. CASE rq[p].at = "f_expire"
  <2>1. Effect(p) = WithExpiry(Key(p, "fail"), FailWindow)
    BY <1>6 DEF Effect, At
  <2> QED
    BY <1>2, <2>1, TypedStore, ExpiryTyped, ExpiryKept, PolicyAssumption
<1>7. CASE rq[p].at = "f_set"
  <2>1. Effect(p) = Blocked(p)
    BY <1>7 DEF Effect, At
  <2> QED
    BY <1>7, <2>1, BlockedTyped, BlockedKept
<1>8. CASE rq[p].at = "s_del"
  <2>1. Effect(p) = Put("redis", Key(p, "fail"), Gone)
    BY <1>8 DEF Effect, At
  <2> QED
    BY <1>1, <1>2, <2>1, FailGoneKept
<1>9. CASE rq[p].at \notin {"q_incr", "q_expire", "f_incr", "f_expire", "f_set", "s_del"}
  <2>1. Effect(p) = store
    BY <1>9 DEF Effect, At
  <2> QED
    BY <2>1, TypedStore, StoreItselfKept
<1> QED
  BY <1>3, <1>4, <1>5, <1>6, <1>7, <1>8, <1>9

\* Where a rejected command leaves its request.
Rejected(p) ==
    IF rq[p].at \in {"f_incr", "f_expire", "f_ttl", "f_set", "s_del"} /\ ~rq[p].caught
    THEN AfterFailure([rq[p] EXCEPT !.todo = rq[p].toks, !.caught = TRUE, !.reply = "error"])
    ELSE Answered("error")

LEMMA RejectedPlaced ==
    ASSUME Typed, NEW p \in Procs
    PROVE  Rejected(p) \in Request /\ Placed(Rejected(p))
<1> DEFINE q == [rq[p] EXCEPT !.todo = rq[p].toks, !.caught = TRUE, !.reply = "error"]
<1>1. rq[p] \in Request
  BY DEF Typed, TypeOK
<1>2. q \in Request /\ q.todo \subseteq q.toks
  BY <1>1 DEF Request, Replies
<1> HIDE DEF q
<1>3. AfterFailure(q) \in Request /\ Placed(AfterFailure(q))
  BY <1>2, FailurePlaced
<1>4. Answered("error") \in Request /\ Placed(Answered("error"))
  BY AnsweredPlaced DEF Replies
<1> QED
  BY <1>3, <1>4 DEF Rejected, q

LEMMA CallRejectsTyped ==
    ASSUME Typed, NEW p \in Procs, CallRejects(p)
    PROVE  Typed' /\ Kept(store') /\ rq' = [rq EXCEPT ![p] = Rejected(p)]
<1>1. link = "up" /\ rq[p].at \notin {"idle", "handle"} /\ store' \in {store, Effect(p)}
  BY DEF CallRejects, At
<1>2. StoreTyped(store') /\ Kept(store')
  BY <1>1, TypedStore, StoreItselfKept, EffectKept
<1>3. rq' = [rq EXCEPT ![p] = Rejected(p)]
  BY DEF CallRejects, Rejected
<1>4. rq' \in [Procs -> Request] /\ PlacesOK'
  BY <1>3, RejectedPlaced, BecamePlaced
<1> QED
  BY <1>2, <1>3, <1>4 DEF CallRejects, Typed, TypeOK, EntriesOK, StoreTyped

LEMMA SwitchTyped ==
    ASSUME Typed, NEW l \in {"up", "lost"}, Switch(l)
    PROVE  Typed'
<1>1. ASSUME NEW p \in Procs
      PROVE  [rq[p] EXCEPT !.barred = {}] \in Request /\ Placed([rq[p] EXCEPT !.barred = {}])
  <2>1. rq[p] \in Request /\ Placed(rq[p])
    BY DEF Typed, TypeOK, PlacesOK
  <2>2. [rq[p] EXCEPT !.barred = {}] \in Request
    BY <2>1 DEF Request
  <2>3. Placed([rq[p] EXCEPT !.barred = {}])
    BY <2>1 DEF Placed, Request
  <2> QED
    BY <2>2, <2>3
<1>2. rq' \in [Procs -> Request] /\ PlacesOK'
  BY <1>1 DEF Switch, PlacesOK
<1> QED
  BY <1>2 DEF Switch, Typed, TypeOK, EntriesOK

LEMMA CrashTyped ==
    ASSUME Typed, Crash
    PROVE  Typed'
<1>1. rq' \in [Procs -> Request] /\ PlacesOK'
  BY AnsweredPlaced DEF Crash, PlacesOK, Replies
<1>2. [k \in Keys |-> Gone] \in [Keys -> Entry] /\ ~(Gone.left > 0)
  BY DEF Gone, Entry
<1>3. store' \in [Stores -> [Keys -> Entry]] /\ EntriesOK'
  BY <1>2 DEF Crash, Typed, TypeOK, EntriesOK
<1>4. admitted' \in [Stores -> [Tokens -> Nat]]
  BY DEF Crash, Typed, TypeOK
<1> QED
  BY <1>1, <1>3, <1>4 DEF Crash, Typed, TypeOK

LEMMA TickTyped ==
    ASSUME Typed, Tick
    PROVE  Typed'
<1> DEFINE aged(s, k) == IF Ends(s, k) THEN Gone
                         ELSE IF store[s][k].left = 0 THEN store[s][k]
                         ELSE [store[s][k] EXCEPT !.left = @ - 1]
           left(p) == [rq[p] EXCEPT
                         !.held = {h \in @ : ~Ends(h[1], <<"req", h[2]>>)},
                         !.barred = {t \in @ : store[Active][<<"block", t>>].left
                                                 > (IF Active = "redis" THEN 2 ELSE 1)}]
<1>1. ASSUME NEW s \in Stores, NEW k \in Keys
      PROVE  aged(s, k) \in Entry /\ (aged(s, k).left > 0 => aged(s, k).val > 0)
  <2>1. store[s][k] \in Entry /\ (store[s][k].left > 0 => store[s][k].val > 0)
    BY DEF Typed, TypeOK, EntriesOK
  <2>2. [store[s][k] EXCEPT !.left = @ - 1] =
           [val |-> store[s][k].val, left |-> store[s][k].left - 1]
    BY <2>1 DEF Entry
  <2> QED
    BY <2>1, <2>2 DEF Ends, Gone, Entry
<1>2. ASSUME NEW p \in Procs
      PROVE  left(p) \in Request /\ Placed(left(p))
  <2>1. rq[p] \in Request /\ Placed(rq[p])
    BY DEF Typed, TypeOK, PlacesOK
  <2> DEFINE H == {h \in rq[p].held : ~Ends(h[1], <<"req", h[2]>>)}
             B == {t \in rq[p].barred : store[Active][<<"block", t>>].left
                                          > (IF Active = "redis" THEN 2 ELSE 1)}
  <2>2. H \subseteq rq[p].held /\ B \subseteq rq[p].barred
    OBVIOUS
  <2>3. left(p) = [rq[p] EXCEPT !.held = H, !.barred = B]
    OBVIOUS
  <2> HIDE DEF H, B
  <2>4. [rq[p] EXCEPT !.held = H, !.barred = B] \in Request
    BY <2>1, <2>2 DEF Request
  <2>5. Placed([rq[p] EXCEPT !.held = H, !.barred = B])
    BY <2>1, <2>2 DEF Request, Placed, BlockLabels, RuleLabels
  <2> QED
    BY <2>3, <2>4, <2>5
<1>3. store' = [s \in Stores |-> [k \in Keys |-> aged(s, k)]]
  BY DEF Tick
<1>4. rq' = [p \in Procs |-> left(p)]
  BY DEF Tick
<1> HIDE DEF aged, left
<1>5. store' \in [Stores -> [Keys -> Entry]] /\ EntriesOK'
  BY <1>1, <1>3 DEF EntriesOK
<1>6. rq' \in [Procs -> Request] /\ PlacesOK'
  BY <1>2, <1>4 DEF PlacesOK
<1>7. admitted' \in [Stores -> [Tokens -> Nat]]
  BY DEF Tick, Typed, TypeOK
<1> QED
  BY <1>5, <1>6, <1>7 DEF Tick, Typed, TypeOK

LEMMA InitTyped == Init => Typed
<1> SUFFICES ASSUME Init PROVE Typed
  OBVIOUS
<1>1. Gone \in Entry /\ ~(Gone.left > 0)
  BY DEF Gone, Entry
<1>2. rq \in [Procs -> Request] /\ PlacesOK
  BY AnsweredPlaced DEF Init, PlacesOK, Replies
<1> QED
  BY <1>1, <1>2 DEF Init, Typed, TypeOK, EntriesOK

LEMMA StepTyped == Typed /\ BarsStand /\ [Next]_vars => Typed'
<1> SUFFICES ASSUME Typed, BarsStand, [Next]_vars
             PROVE  Typed'
  OBVIOUS
<1>1. CASE \E p \in Procs : Step(p)
  BY <1>1, BlockGetTyped, BlockTtlTyped, ReqIncrTyped, ReqExpireTyped, ReqTtlTyped,
     FailIncrTyped, FailExpireTyped, FailTtlTyped, BlockSetTyped, FailDelTyped, HandleTyped
     DEF Step, GuardStep, OutcomeStep
<1>2. CASE \E p \in Procs : CallRejects(p)
  BY <1>2, CallRejectsTyped
<1>3. CASE \E p \in Procs, toks \in Senders : Arrive(p, toks)
  BY <1>3, ArriveTyped
<1>4. CASE Connect \/ Lose
  BY <1>4, SwitchTyped DEF Connect, Lose
<1>5. CASE Crash
  BY <1>5, CrashTyped
<1>6. CASE Tick
  BY <1>6, TickTyped
<1>7. CASE UNCHANGED vars
  BY <1>7 DEF vars, Typed, TypeOK, PlacesOK, EntriesOK
<1> QED
  BY <1>1, <1>2, <1>3, <1>4, <1>5, <1>6, <1>7 DEF Next

-----------------------------------------------------------------------------
(* What each step does to the counts and the blocks.                        *)

\* Recording an outcome, a request takes nothing with it it did not have.
LEMMA RecordCarries ==
    ASSUME Typed, NEW p \in Procs, NEW r \in Request,
           r.todo \subseteq r.toks, r.held = rq[p].held,
           Mode = "enforce" => r.over = rq[p].over,
           NEW q \in {AfterFailure(r), AfterSuccess(r)}
    PROVE  q \in Request /\ Carries(p, q)
<1>1. q \in Request
  BY FailurePlaced, SuccessPlaced
<1>2. q.at \notin BlockLabels
  BY DEF AfterFailure, AfterSuccess, Answered, Request, BlockLabels
<1> QED
  BY <1>1, <1>2, WaysOn DEF Carries

LEMMA AnsweredCarries ==
    ASSUME NEW p \in Procs, NEW reply \in Replies
    PROVE  Answered(reply) \in Request /\ Carries(p, Answered(reply))
BY AnsweredPlaced DEF Carries, BlockLabels

\* A change of label past the guard.
LEMMA LabelCarries ==
    ASSUME Typed, NEW p \in Procs, NEW l \in Labels \ BlockLabels, NEW n \in Nat
    PROVE  /\ [rq[p] EXCEPT !.at = l] \in Request /\ Carries(p, [rq[p] EXCEPT !.at = l])
           /\ [rq[p] EXCEPT !.n = n, !.at = l] \in Request
           /\ Carries(p, [rq[p] EXCEPT !.n = n, !.at = l])
<1>1. rq[p] \in Request
  BY DEF Typed, TypeOK
<1> QED
  BY <1>1 DEF Request, Carries

LEMMA LaterCarries ==
    ASSUME Typed, NEW p \in Procs, NEW q \in {AfterFailure(Later(p)), AfterSuccess(Later(p))}
    PROVE  q \in Request /\ Carries(p, q)
<1>1. Later(p) \in Request /\ Later(p).todo \subseteq Later(p).toks
      /\ Later(p).held = rq[p].held /\ Later(p).over = rq[p].over
  BY LaterTyped DEF Typed, TypeOK, Request
<1> QED
  BY <1>1, RecordCarries

LEMMA HandleStays ==
    ASSUME Typed, NEW p \in Procs, NEW result \in Results, Handle(p, result)
    PROVE  Stays(p)
<1> DEFINE r == [rq[p] EXCEPT !.todo = rq[p].toks, !.wait = 0, !.over = FALSE]
           f == [r EXCEPT !.caught = result = "thrown"]
<1>1. rq[p] \in Request /\ rq[p].at = "handle" /\ Placed(rq[p])
  BY DEF Handle, At, Typed, TypeOK, PlacesOK
<1>2. r \in Request /\ f \in Request /\ r.todo = r.toks /\ f.todo = f.toks
      /\ r.held = rq[p].held /\ f.held = rq[p].held /\ r.over = FALSE /\ f.over = FALSE
  BY <1>1 DEF Request
<1>3. Mode = "enforce" => rq[p].over = FALSE
  BY <1>1 DEF Placed, Request
<1>4. rq' = [rq EXCEPT ![p] = IF result = "stopped" \/ Steps = {} THEN Answered("served")
                              ELSE IF result = "ok" THEN AfterSuccess(r) ELSE AfterFailure(f)]
  BY DEF Handle
<1> HIDE DEF r, f
<1>5. AfterSuccess(r) \in Request /\ Carries(p, AfterSuccess(r))
  BY <1>2, <1>3, RecordCarries
<1>6. AfterFailure(f) \in Request /\ Carries(p, AfterFailure(f))
  BY <1>2, <1>3, RecordCarries
<1>7. Answered("served") \in Request /\ Carries(p, Answered("served"))
  BY AnsweredCarries DEF Replies
<1>8. \E x \in Request : rq' = [rq EXCEPT ![p] = x] /\ Carries(p, x)
  BY <1>4, <1>5, <1>6, <1>7
<1> QED
  BY <1>8, StoreItselfKept DEF Handle, Stays

LEMMA CountedStays ==
    ASSUME Typed, NEW p \in Procs, NEW n \in Nat, Counted(p, n)
    PROVE  \E x \in Request : rq' = [rq EXCEPT ![p] = x] /\ Carries(p, x)
<1>1. CASE Matching(n) = {}
  BY <1>1, LaterCarries DEF Counted
<1>2. CASE Matching(n) # {}
  <2>1. rq' = [rq EXCEPT ![p] = [rq[p] EXCEPT !.n = n, !.at = "f_ttl"]]
    BY <1>2 DEF Counted
  <2>2. "f_ttl" \in Labels \ BlockLabels
    BY DEF Labels, BlockLabels
  <2> QED
    BY <2>1, <2>2, LabelCarries
<1> QED
  BY <1>1, <1>2

LEMMA OutcomeStays ==
    ASSUME Typed, NEW p \in Procs, OutcomeStep(p)
    PROVE  Stays(p)
<1>0. {"f_expire", "f_set"} \subseteq Labels \ BlockLabels /\ 0 \in Nat /\ Active \in Stores
  BY TypedStore DEF Labels, BlockLabels
<1>1. CASE FailIncr(p)
  <2> DEFINE n == store[Active][Key(p, "fail")].val + 1
  <2>1. /\ Current(p) \in Tokens /\ Key(p, "fail") = <<"fail", Current(p)>>
        /\ Key(p, "fail") \in Keys
    BY <1>1, Waiting DEF FailIncr, At, Key
  <2>2. store[Active][Key(p, "fail")] \in Entry
    BY <1>0, <2>1 DEF Typed, TypeOK
  <2>3. n \in Nat
    BY <2>2 DEF Entry
  <2>4. \/ rq' = [rq EXCEPT ![p] = [rq[p] EXCEPT !.at = "f_expire"]]
        \/ Counted(p, n)
    BY <1>1 DEF FailIncr
  <2> HIDE DEF n
  <2>5. \E x \in Request : rq' = [rq EXCEPT ![p] = x] /\ Carries(p, x)
    BY <1>0, <2>3, <2>4, LabelCarries, CountedStays
  <2>6. Kept(store')
    BY <1>0, <1>1, <2>1, IncrementedKept, PolicyAssumption DEF FailIncr
  <2> QED
    BY <1>1, <2>5, <2>6 DEF FailIncr, Stays
<1>2. CASE FailExpire(p)
  <2>1. Current(p) \in Tokens /\ Key(p, "fail") = <<"fail", Current(p)>>
    BY <1>2, Waiting DEF FailExpire, At, Key
  <2>2. \E x \in Request : rq' = [rq EXCEPT ![p] = x] /\ Carries(p, x)
    BY <1>2, CountedStays DEF FailExpire
  <2>3. Kept(store')
    BY <1>2, <2>1, ExpiryKept, PolicyAssumption DEF FailExpire
  <2> QED
    BY <1>2, <2>2, <2>3 DEF FailExpire, Stays
<1>3. CASE FailTtl(p)
  <2>1. \/ rq' = [rq EXCEPT ![p] = [rq[p] EXCEPT !.at = "f_set"]]
        \/ rq' = [rq EXCEPT ![p] = AfterFailure(Later(p))]
    BY <1>3 DEF FailTtl
  <2>2. \E x \in Request : rq' = [rq EXCEPT ![p] = x] /\ Carries(p, x)
    BY <1>0, <2>1, LabelCarries, LaterCarries
  <2> QED
    BY <1>3, <2>2, StoreItselfKept DEF FailTtl, Stays
<1>4. CASE BlockSet(p)
  <2>1. Kept(store')
    BY <1>4, BlockedKept DEF BlockSet, At
  <2> QED
    BY <1>4, <2>1, LaterCarries DEF BlockSet, Stays
<1>5. CASE FailDel(p)
  <2>1. Current(p) \in Tokens /\ Key(p, "fail") = <<"fail", Current(p)>>
    BY <1>5, Waiting DEF FailDel, At, Key
  <2>2. Kept(store')
    BY <1>0, <1>5, <2>1, FailGoneKept DEF FailDel
  <2> QED
    BY <1>5, <2>2, LaterCarries DEF FailDel, Stays
<1> QED
  BY <1>1, <1>2, <1>3, <1>4, <1>5 DEF OutcomeStep

LEMMA CallRejectsStays ==
    ASSUME Typed, NEW p \in Procs, CallRejects(p)
    PROVE  Stays(p)
<1> DEFINE q == [rq[p] EXCEPT !.todo = rq[p].toks, !.caught = TRUE, !.reply = "error"]
<1>1. rq[p] \in Request
  BY DEF Typed, TypeOK
<1>2. q \in Request /\ q.todo = q.toks /\ q.held = rq[p].held /\ q.over = rq[p].over
  BY <1>1 DEF Request, Replies
<1>3. Rejected(p) = AfterFailure(q) \/ Rejected(p) = Answered("error")
  BY DEF Rejected
<1> HIDE DEF q
<1>4. Rejected(p) \in Request /\ Carries(p, Rejected(p))
  BY <1>2, <1>3, RecordCarries, AnsweredCarries DEF Replies
<1> QED
  BY <1>4, CallRejectsTyped DEF CallRejects, Stays

LEMMA GuardKept ==
    ASSUME Typed, NEW p \in Procs, GuardStep(p)
    PROVE  Kept(store') /\ link' = link
<1>1. CASE ReqIncr(p)
  <2>1. Current(p) \in Tokens /\ Key(p, "req") = <<"req", Current(p)>>
    BY <1>1, Waiting DEF ReqIncr, At, Key
  <2> QED
    BY <1>1, <2>1, TypedStore, IncrementedKept, PolicyAssumption DEF ReqIncr
<1>2. CASE ReqExpire(p)
  <2>1. Current(p) \in Tokens /\ Key(p, "req") = <<"req", Current(p)>>
    BY <1>2, Waiting DEF ReqExpire, At, Key
  <2> QED
    BY <1>2, <2>1, ExpiryKept, PolicyAssumption DEF ReqExpire
<1>3. CASE BlockGet(p) \/ BlockTtl(p) \/ ReqTtl(p)
  BY <1>3, StoreItselfKept DEF BlockGet, BlockTtl, ReqTtl
<1> QED
  BY <1>1, <1>2, <1>3 DEF GuardStep

-----------------------------------------------------------------------------
(* What bars a request stands for as long as the request looks for it.      *)

LEMMA BarsKept ==
    ASSUME Typed, BarsStand, NEW p \in Procs, NEW r, rq' = [rq EXCEPT ![p] = r],
           link' = link, Kept(store'),
           r.at \in BlockLabels => \A t \in r.barred : t \in Tokens /\ Firm(Active, t)
    PROVE  BarsStand'
<1>1. Active' = Active /\ Active \in Stores
  BY TypedStore DEF Active
<1>2. rq' = [x \in Procs |-> IF x = p THEN r ELSE rq[x]]
  BY DEF Typed, TypeOK
<1> SUFFICES ASSUME NEW x \in Procs, rq'[x].at \in BlockLabels, NEW t \in rq'[x].barred
             PROVE  Firm(Active, t)'
  BY DEF BarsStand, BlockLabels
<1>3. t \in Tokens /\ Firm(Active, t)
  <2>1. CASE x = p
    BY <1>2, <2>1
  <2>2. CASE x # p
    <3>1. rq'[x] = rq[x] /\ rq[x] \in Request
      BY <1>2, <2>2 DEF Typed, TypeOK
    <3> QED
      BY <3>1 DEF BarsStand, Request
  <2> QED
    BY <2>1, <2>2
<1> QED
  BY <1>1, <1>3 DEF Kept, Firm

\* A request that carries what it had is barred as it was.
LEMMA CarriedBars ==
    ASSUME Typed, BarsStand, NEW p \in Procs, NEW r, rq' = [rq EXCEPT ![p] = r],
           link' = link, Kept(store'),
           r.at \in BlockLabels => rq[p].at \in BlockLabels /\ r.barred = rq[p].barred
    PROVE  BarsStand'
<1>1. rq[p].barred \subseteq Tokens
  BY DEF Typed, TypeOK, Request
<1>2. r.at \in BlockLabels => \A t \in r.barred : t \in Tokens /\ Firm(Active, t)
  BY <1>1 DEF BarsStand
<1> QED
  BY <1>2, BarsKept

\* What a step of the guard does to the request.
LEMMA GuardMoves ==
    ASSUME Typed, BarsStand, NEW p \in Procs, GuardStep(p)
    PROVE  \E r \in Request :
              Placed(r) /\ Move(p, r) /\ (Carries(p, r) \/ (ReqIncr(p) /\ Gains(p, r)))
<1>1. CASE BlockGet(p)
  BY <1>1, BlockGetTyped
<1>2. CASE BlockTtl(p)
  BY <1>2, BlockTtlTyped
<1>3. CASE ReqIncr(p)
  BY <1>3, ReqIncrTyped
<1>4. CASE ReqExpire(p)
  BY <1>4, ReqExpireTyped
<1>5. CASE ReqTtl(p)
  BY <1>5, ReqTtlTyped
<1> QED
  BY <1>1, <1>2, <1>3, <1>4, <1>5 DEF GuardStep

LEMMA StepBars == Typed /\ BarsStand /\ [Next]_vars => BarsStand'
<1> SUFFICES ASSUME Typed, BarsStand, [Next]_vars
             PROVE  BarsStand'
  OBVIOUS
<1>1. ASSUME NEW p \in Procs, GuardStep(p)
      PROVE  BarsStand'
  <2>1. PICK r \in Request : Move(p, r) /\ (Carries(p, r) \/ (ReqIncr(p) /\ Gains(p, r)))
    BY <1>1, GuardMoves
  <2> DEFINE q == IF r.at = "handle" THEN [r EXCEPT !.held = {}] ELSE r
  <2>2. rq' = [rq EXCEPT ![p] = q]
    BY <2>1 DEF Move
  <2>3. q.at = r.at /\ q.barred = r.barred
    BY DEF Request
  <2> HIDE DEF q
  <2>4. q.at \in BlockLabels => rq[p].at \in BlockLabels /\ q.barred = rq[p].barred
    BY <2>1, <2>3 DEF Carries, Gains
  <2> QED
    BY <1>1, <2>2, <2>4, GuardKept, CarriedBars
<1>2. ASSUME NEW p \in Procs, Stays(p)
      PROVE  BarsStand'
  BY <1>2, CarriedBars DEF Stays, Carries
<1>3. ASSUME NEW p \in Procs, NEW toks \in Senders, Arrive(p, toks)
      PROVE  BarsStand'
  <2> DEFINE r == [Answered("none") EXCEPT !.at = "b_get", !.toks = toks, !.todo = toks,
                                            !.barred = {t \in toks : Firm(Active, t)}]
  <2>1. rq' = [rq EXCEPT ![p] = r] /\ link' = link /\ store' = store
    BY <1>3 DEF Arrive
  <2>2. toks \subseteq Tokens
    BY TokensAssumption
  <2>3. \A t \in r.barred : t \in Tokens /\ Firm(Active, t)
    BY <2>2 DEF Answered
  <2> HIDE DEF r
  <2> QED
    BY <2>1, <2>3, StoreItselfKept, BarsKept
<1>4. CASE Connect \/ Lose
  BY <1>4 DEF Connect, Lose, Switch, BarsStand, Typed, TypeOK, Request
<1>5. CASE Crash
  BY <1>5 DEF Crash, BarsStand, Answered
<1>6. CASE Tick
  <2> SUFFICES ASSUME NEW p \in Procs, rq'[p].at \in BlockLabels, NEW t \in rq'[p].barred
               PROVE  Firm(Active, t)'
    BY DEF BarsStand, BlockLabels
  <2>1. rq[p] \in Request /\ Active' = Active /\ Active \in Stores
    BY <1>6, TypedStore DEF Typed, TypeOK, Tick, Active
  <2>2. t \in rq[p].barred
        /\ store[Active][<<"block", t>>].left > (IF Active = "redis" THEN 2 ELSE 1)
    BY <1>6, <2>1 DEF Tick, Request
  <2>3. t \in Tokens /\ <<"block", t>> \in Keys
    BY <2>1, <2>2 DEF Request, Keys
  <2>4. store[Active][<<"block", t>>] \in Entry
    BY <2>1, <2>3 DEF Typed, TypeOK
  <2>5. store'[Active][<<"block", t>>].left = store[Active][<<"block", t>>].left - 1
    <3>1. store[Active][<<"block", t>>].left \notin {0, 1}
      BY <2>2, <2>4 DEF Entry
    <3>2. store'[Active][<<"block", t>>] = [store[Active][<<"block", t>>] EXCEPT !.left = @ - 1]
      BY <1>6, <2>1, <2>3, <3>1 DEF Tick, Ends
    <3> QED
      BY <2>4, <3>2 DEF Entry
  <2> QED
    BY <2>1, <2>2, <2>4, <2>5 DEF Firm, Entry
<1>7. CASE UNCHANGED vars
  BY <1>7 DEF vars, BarsStand, Firm, Active
<1> QED
  BY <1>1, <1>2, <1>3, <1>4, <1>5, <1>6, <1>7, OutcomeStays, HandleStays, CallRejectsStays
     DEF Next, Step

-----------------------------------------------------------------------------
(* Counting: a request is let through on a count no other request holds.    *)

LEMMA PendingFinite ==
    ASSUME NEW S \in SUBSET Procs
    PROVE  IsFiniteSet(S) /\ Cardinality(S) \in Nat
BY TokensAssumption, FS_Subset, FS_CardinalityType

\* Those pending when p has gone on as r, before it is let through.
Meanwhile(p, r, s, t) ==
    {x \in Procs : IF x = p THEN <<s, t>> \in r.held /\ ~r.over ELSE x \in Pending(s, t)}

\* Letting p through moves its count from pending to admitted.
LEMMA MoveCounts ==
    ASSUME Typed, NEW p \in Procs, NEW r \in Request, Move(p, r), Placed(r), Mode = "enforce",
           NEW s \in Stores, NEW t \in Tokens
    PROVE  admitted'[s][t] + Cardinality(Pending(s, t)')
              = admitted[s][t] + Cardinality(Meanwhile(p, r, s, t))
<1> DEFINE q == IF r.at = "handle" THEN [r EXCEPT !.held = {}] ELSE r
           M == Meanwhile(p, r, s, t)
<1>1. rq' = [x \in Procs |-> IF x = p THEN q ELSE rq[x]]
  BY DEF Move, Typed, TypeOK
<1>2. admitted[s][t] \in Nat
  BY DEF Typed, TypeOK
<1>3. M \in SUBSET Procs
  BY DEF Meanwhile
<1>4. IsFiniteSet(M) /\ Cardinality(M) \in Nat
  BY <1>3, PendingFinite
<1>5. CASE r.at = "handle"
  <2>1. q.held = {} /\ ~r.over
    BY <1>5 DEF Placed, Request
  <2>2. Pending(s, t)' = M \ {p}
    BY <1>1, <2>1 DEF Pending, Meanwhile
  <2>3. Cardinality(M \ {p}) = IF p \in M THEN Cardinality(M) - 1 ELSE Cardinality(M)
    BY <1>4, FS_RemoveElement
  <2>4. p \in M <=> <<s, t>> \in r.held
    BY <2>1 DEF Meanwhile
  <2>5. admitted'[s][t] = IF <<s, t>> \in r.held THEN admitted[s][t] + 1 ELSE admitted[s][t]
    BY <1>5 DEF Move
  <2>6. Cardinality(Pending(s, t)') = Cardinality(M \ {p})
    BY <2>2
  <2>7. CASE p \in M
    BY <1>2, <1>4, <2>3, <2>4, <2>5, <2>6, <2>7
  <2>8. CASE p \notin M
    BY <1>2, <1>4, <2>3, <2>4, <2>5, <2>6, <2>8
  <2> QED
    BY <2>7, <2>8
<1>6. CASE r.at # "handle"
  <2>1. Pending(s, t)' = M
    BY <1>1, <1>6 DEF Pending, Meanwhile
  <2>2. admitted'[s][t] = admitted[s][t]
    BY <1>6 DEF Move
  <2> QED
    BY <2>1, <2>2
<1> QED
  BY <1>5, <1>6

\* Fewer or as many pending, and as many or more counted: the bounds still hold.
LEMMA CountsKept ==
    ASSUME Typed, Typed', CountsOK, Kept(store'), Mode = "enforce",
           NEW s \in Stores, NEW t \in Tokens, NEW S \in SUBSET Pending(s, t),
           NEW n \in Nat, n = admitted[s][t] + Cardinality(S)
    PROVE  n <= store'[s][<<"req", t>>].val /\ (Limit[t] > 0 => n <= Limit[t])
<1>1. Pending(s, t) \in SUBSET Procs /\ S \in SUBSET Procs
  BY DEF Pending
<1>2. IsFiniteSet(Pending(s, t)) /\ Cardinality(Pending(s, t)) \in Nat
      /\ Cardinality(S) \in Nat /\ Cardinality(S) <= Cardinality(Pending(s, t))
  BY <1>1, PendingFinite, FS_Subset
<1>3. <<"req", t>> \in Keys
  BY DEF Keys
<1>4. store[s][<<"req", t>>].val \in Nat /\ admitted[s][t] \in Nat /\ Limit[t] \in Nat
  BY <1>3, PolicyAssumption DEF Typed, TypeOK, Entry
<1>5. store'[s][<<"req", t>>].val >= store[s][<<"req", t>>].val
  BY DEF Kept
<1>6. /\ admitted[s][t] + Cardinality(Pending(s, t)) <= store[s][<<"req", t>>].val
      /\ Limit[t] > 0 => admitted[s][t] + Cardinality(Pending(s, t)) <= Limit[t]
  BY DEF CountsOK
<1>7. n <= admitted[s][t] + Cardinality(Pending(s, t))
  BY <1>2, <1>4
<1>8. Limit[t] > 0 => n <= Limit[t]
  BY <1>2, <1>4, <1>6, <1>7
<1>9. n <= store[s][<<"req", t>>].val
  BY <1>2, <1>4, <1>6, <1>7
<1>10. store'[s][<<"req", t>>].val \in Nat
  BY <1>3 DEF Typed, TypeOK, Entry
<1> QED
  BY <1>4, <1>5, <1>8, <1>9, <1>10

LEMMA GuardCounts ==
    ASSUME Typed, Typed', BarsStand, CountsOK, NEW p \in Procs, GuardStep(p)
    PROVE  CountsOK'
<1> SUFFICES ASSUME Mode = "enforce", NEW s \in Stores, NEW t \in Tokens
             PROVE  /\ admitted'[s][t] + Cardinality(Pending(s, t)')
                          <= store'[s][<<"req", t>>].val
                    /\ Limit[t] > 0 =>
                          admitted'[s][t] + Cardinality(Pending(s, t)') <= Limit[t]
  BY DEF CountsOK
<1>1. PICK r \in Request :
         Placed(r) /\ Move(p, r) /\ (Carries(p, r) \/ (ReqIncr(p) /\ Gains(p, r)))
  BY GuardMoves
<1> DEFINE M == Meanwhile(p, r, s, t)
           n == admitted[s][t] + Cardinality(M)
<1>2. admitted'[s][t] + Cardinality(Pending(s, t)') = n
  BY <1>1, MoveCounts
<1>3. M \in SUBSET Procs /\ Pending(s, t) \in SUBSET Procs
  BY DEF Meanwhile, Pending
<1>4. IsFiniteSet(Pending(s, t)) /\ Cardinality(Pending(s, t)) \in Nat /\ Cardinality(M) \in Nat
  BY <1>3, PendingFinite
<1>5. <<"req", t>> \in Keys
  BY DEF Keys
<1>6. store[s][<<"req", t>>].val \in Nat /\ admitted[s][t] \in Nat /\ Limit[t] \in Nat
  BY <1>5, PolicyAssumption DEF Typed, TypeOK, Entry
<1>7. n \in Nat
  BY <1>4, <1>6
<1>8. CASE M \subseteq Pending(s, t)
  <2>1. n <= store'[s][<<"req", t>>].val /\ (Limit[t] > 0 => n <= Limit[t])
    BY <1>7, <1>8, GuardKept, CountsKept
  <2> QED
    BY <1>2, <2>1
<1>9. CASE ~(M \subseteq Pending(s, t))
  <2>1. <<s, t>> \in r.held /\ ~r.over /\ p \notin Pending(s, t)
        /\ M \subseteq Pending(s, t) \cup {p}
    BY <1>9 DEF Meanwhile
  <2>2. <<s, t>> \notin rq[p].held \/ rq[p].over
    BY <2>1 DEF Pending
  <2>3. ReqIncr(p) /\ Gains(p, r)
    BY <1>1, <2>1, <2>2 DEF Carries
  <2>4. <<s, t>> = <<Active, Current(p)>>
        /\ store[Active][Key(p, "req")].val + 1 <= Limit[Current(p)]
    BY <2>1, <2>2, <2>3 DEF Gains
  <2>5. s = Active /\ t = Current(p) /\ Key(p, "req") = <<"req", t>>
        /\ store[s][<<"req", t>>].val + 1 <= Limit[t]
    BY <2>4 DEF Key
  <2>6. store' = Incremented(s, <<"req", t>>, Window)
    BY <2>3, <2>5 DEF ReqIncr
  <2>7. store'[s][<<"req", t>>].val = store[s][<<"req", t>>].val + 1
    BY <1>5, <2>6, TypedStore, IncrementedTyped, PolicyAssumption
  <2>8. Cardinality(M) <= Cardinality(Pending(s, t)) + 1
    <3>1. IsFiniteSet(Pending(s, t) \cup {p})
          /\ Cardinality(Pending(s, t) \cup {p}) = Cardinality(Pending(s, t)) + 1
      BY <1>4, <2>1, FS_AddElement
    <3>2. M \in SUBSET (Pending(s, t) \cup {p})
      BY <2>1
    <3>3. Cardinality(M) <= Cardinality(Pending(s, t) \cup {p})
      BY <3>1, <3>2, FS_Subset
    <3> QED
      BY <3>1, <3>3
  <2>9. admitted[s][t] + Cardinality(Pending(s, t)) <= store[s][<<"req", t>>].val
    BY DEF CountsOK
  <2> HIDE DEF M
  <2>10. n <= store[s][<<"req", t>>].val + 1
    BY <1>4, <1>6, <2>8, <2>9
  <2> HIDE DEF n
  <2>11. n <= Limit[t]
    BY <1>6, <1>7, <2>5, <2>10
  <2> QED
    BY <1>2, <2>7, <2>10, <2>11
<1> QED
  BY <1>8, <1>9

\* A step that lets nobody through and leaves no more pending.
LEMMA ShrinkCounts ==
    ASSUME Typed, Typed', CountsOK, admitted' = admitted, Kept(store'),
           \A s \in Stores, t \in Tokens : Pending(s, t)' \subseteq Pending(s, t)
    PROVE  CountsOK'
<1> SUFFICES ASSUME Mode = "enforce", NEW s \in Stores, NEW t \in Tokens
             PROVE  /\ admitted'[s][t] + Cardinality(Pending(s, t)')
                          <= store'[s][<<"req", t>>].val
                    /\ Limit[t] > 0 =>
                          admitted'[s][t] + Cardinality(Pending(s, t)') <= Limit[t]
  BY DEF CountsOK
<1>1. Pending(s, t)' \subseteq Pending(s, t) /\ Pending(s, t)' \in SUBSET Procs
  BY DEF Pending
<1>2. admitted'[s][t] = admitted[s][t] /\ admitted[s][t] \in Nat
  BY DEF Typed, TypeOK
<1>3. Cardinality(Pending(s, t)') \in Nat
  BY <1>1, PendingFinite
<1> DEFINE S == Pending(s, t)'
           n == admitted[s][t] + Cardinality(S)
<1>4. n \in Nat /\ S \in SUBSET Pending(s, t)
  BY <1>1, <1>2, <1>3
<1>5. n <= store'[s][<<"req", t>>].val /\ (Limit[t] > 0 => n <= Limit[t])
  <2>1. n = admitted[s][t] + Cardinality(S)
    OBVIOUS
  <2> HIDE DEF n, S
  <2> QED
    BY <1>4, <2>1, CountsKept
<1> QED
  BY <1>2, <1>5

LEMMA StepCounts == Typed /\ Typed' /\ BarsStand /\ CountsOK /\ [Next]_vars => CountsOK'
<1> SUFFICES ASSUME Typed, Typed', BarsStand, CountsOK, [Next]_vars
             PROVE  CountsOK'
  OBVIOUS
<1>1. ASSUME NEW p \in Procs, Stays(p)
      PROVE  CountsOK'
  <2>1. CASE Mode = "enforce"
    <3>1. PICK r \in Request : rq' = [rq EXCEPT ![p] = r] /\ Carries(p, r)
      BY <1>1 DEF Stays
    <3>2. rq' = [x \in Procs |-> IF x = p THEN r ELSE rq[x]]
      BY <3>1 DEF Typed, TypeOK
    <3>3. \A s \in Stores, t \in Tokens : Pending(s, t)' \subseteq Pending(s, t)
      BY <2>1, <3>1, <3>2 DEF Pending, Carries
    <3> QED
      BY <1>1, <3>3, ShrinkCounts DEF Stays
  <2>2. CASE Mode # "enforce"
    BY <2>2 DEF CountsOK
  <2> QED
    BY <2>1, <2>2
<1>2. ASSUME NEW p \in Procs, NEW toks \in Senders, Arrive(p, toks)
      PROVE  CountsOK'
  <2> DEFINE r == [Answered("none") EXCEPT !.at = "b_get", !.toks = toks, !.todo = toks,
                                            !.barred = {t \in toks : Firm(Active, t)}]
  <2>1. rq' = [x \in Procs |-> IF x = p THEN r ELSE rq[x]]
    BY <1>2 DEF Arrive, Typed, TypeOK
  <2>2. r.held = {}
    BY DEF Answered
  <2> HIDE DEF r
  <2>3. \A s \in Stores, t \in Tokens : Pending(s, t)' \subseteq Pending(s, t)
    BY <2>1, <2>2 DEF Pending
  <2>4. store' = store /\ admitted' = admitted
    BY <1>2 DEF Arrive
  <2> QED
    BY <2>3, <2>4, StoreItselfKept, ShrinkCounts
<1>3. CASE Connect \/ Lose
  <2>1. \A s \in Stores, t \in Tokens : Pending(s, t)' \subseteq Pending(s, t)
    BY <1>3 DEF Connect, Lose, Switch, Pending, Typed, TypeOK, Request
  <2>2. store' = store /\ admitted' = admitted
    BY <1>3 DEF Connect, Lose, Switch
  <2> QED
    BY <2>1, <2>2, StoreItselfKept, ShrinkCounts
<1>4. CASE UNCHANGED vars
  BY <1>4 DEF vars, CountsOK, Pending
<1>5. CASE Crash
  <2> SUFFICES ASSUME Mode = "enforce", NEW s \in Stores, NEW t \in Tokens
               PROVE  /\ admitted'[s][t] + Cardinality(Pending(s, t)')
                            <= store'[s][<<"req", t>>].val
                      /\ Limit[t] > 0 =>
                            admitted'[s][t] + Cardinality(Pending(s, t)') <= Limit[t]
    BY DEF CountsOK
  <2>1. Pending(s, t)' = {}
    BY <1>5 DEF Crash, Pending, Answered
  <2>2. Cardinality(Pending(s, t)') = 0
    BY <2>1, FS_EmptySet
  <2>3. <<"req", t>> \in Keys
    BY DEF Keys
  <2>4. store[s][<<"req", t>>].val \in Nat /\ admitted[s][t] \in Nat /\ Limit[t] \in Nat
    BY <2>3, PolicyAssumption DEF Typed, TypeOK, Entry
  <2>5. CASE s = "memory"
    <3>1. admitted'[s][t] = 0 /\ store'[s][<<"req", t>>].val = 0
      BY <1>5, <2>3, <2>5 DEF Crash, Gone, Typed, TypeOK
    <3> QED
      BY <2>2, <2>4, <3>1
  <2>6. CASE s # "memory"
    <3>1. admitted'[s][t] = admitted[s][t] /\ store'[s] = store[s]
      BY <1>5, <2>6 DEF Crash, Typed, TypeOK
    <3>2. Pending(s, t) \in SUBSET Procs
      BY DEF Pending
    <3>3. Cardinality(Pending(s, t)) \in Nat
      BY <3>2, PendingFinite
    <3>4. /\ admitted[s][t] + Cardinality(Pending(s, t)) <= store[s][<<"req", t>>].val
          /\ Limit[t] > 0 => admitted[s][t] + Cardinality(Pending(s, t)) <= Limit[t]
      BY DEF CountsOK
    <3> QED
      BY <2>2, <2>4, <3>1, <3>3, <3>4
  <2> QED
    BY <2>5, <2>6
<1>6. CASE Tick
  <2> SUFFICES ASSUME Mode = "enforce", NEW s \in Stores, NEW t \in Tokens
               PROVE  /\ admitted'[s][t] + Cardinality(Pending(s, t)')
                            <= store'[s][<<"req", t>>].val
                      /\ Limit[t] > 0 =>
                            admitted'[s][t] + Cardinality(Pending(s, t)') <= Limit[t]
    BY DEF CountsOK
  <2> DEFINE k == <<"req", t>>
  <2>1. k \in Keys /\ store[s][k] \in Entry
    BY DEF Keys, Typed, TypeOK
  <2>2. \A p \in Procs : /\ rq'[p].over = rq[p].over
                         /\ <<s, t>> \in rq'[p].held <=> <<s, t>> \in rq[p].held /\ ~Ends(s, k)
    <3> SUFFICES ASSUME NEW p \in Procs
                 PROVE  /\ rq'[p].over = rq[p].over
                        /\ <<s, t>> \in rq'[p].held <=> <<s, t>> \in rq[p].held /\ ~Ends(s, k)
      OBVIOUS
    <3>1. rq[p] \in Request
      BY DEF Typed, TypeOK
    <3> QED
      BY <1>6, <3>1 DEF Tick, Request
  <2>3. CASE Ends(s, k)
    <3>1. Pending(s, t)' = {}
      BY <2>2, <2>3 DEF Pending
    <3>2. Cardinality(Pending(s, t)') = 0
      BY <3>1, FS_EmptySet
    <3>3. admitted'[s][t] = 0 /\ store'[s][k] = Gone
      BY <1>6, <2>1, <2>3 DEF Tick
    <3>4. Limit[t] \in Nat
      BY PolicyAssumption
    <3> QED
      BY <3>2, <3>3, <3>4 DEF Gone
  <2>4. CASE ~Ends(s, k)
    <3>1. Pending(s, t)' = Pending(s, t)
      BY <2>2, <2>4 DEF Pending
    <3>2. admitted'[s][t] = admitted[s][t]
      BY <1>6, <2>4 DEF Tick
    <3>3. store'[s][k].val = store[s][k].val
      <4>1. store'[s][k] \in {store[s][k], [store[s][k] EXCEPT !.left = @ - 1]}
        BY <1>6, <2>1, <2>4 DEF Tick
      <4> QED
        BY <2>1, <4>1 DEF Entry
    <3> QED
      BY <3>1, <3>2, <3>3 DEF CountsOK
  <2> QED
    BY <2>3, <2>4
<1> QED
  BY <1>1, <1>2, <1>3, <1>4, <1>5, <1>6, GuardCounts, OutcomeStays, HandleStays,
     CallRejectsStays DEF Next, Step

LEMMA InitInvariant == Init => IInv
<1> SUFFICES ASSUME Init PROVE IInv
  OBVIOUS
<1>1. Typed
  BY InitTyped
<1>2. BarsStand
  BY DEF Init, BarsStand, BlockLabels, Answered
<1>3. \A s \in Stores, t \in Tokens : Pending(s, t) = {}
  BY DEF Init, Pending, Answered
<1>4. \A s \in Stores, t \in Tokens : Cardinality(Pending(s, t)) = 0
  BY <1>3, FS_EmptySet
<1>5. \A s \in Stores, t \in Tokens :
         admitted[s][t] = 0 /\ store[s][<<"req", t>>].val = 0 /\ Limit[t] \in Nat
  BY PolicyAssumption DEF Init, Gone, Keys
<1>6. CountsOK
  <2> SUFFICES ASSUME NEW s \in Stores, NEW t \in Tokens
               PROVE  /\ admitted[s][t] + Cardinality(Pending(s, t)) <= store[s][<<"req", t>>].val
                      /\ Limit[t] > 0 =>
                            admitted[s][t] + Cardinality(Pending(s, t)) <= Limit[t]
    BY DEF CountsOK
  <2>1. admitted[s][t] + Cardinality(Pending(s, t)) = 0
    <3>1. Cardinality(Pending(s, t)) = 0
      BY <1>4
    <3>2. admitted[s][t] = 0
      BY <1>5
    <3> QED
      BY <3>1, <3>2
  <2> QED
    BY <1>5, <2>1
<1> QED
  BY <1>1, <1>2, <1>6 DEF IInv, Typed

-----------------------------------------------------------------------------
(* The state is typed, a request's place tells what it has found, and the   *)
(* counts add up, in every reachable state: IInv is inductive.              *)
THEOREM InductiveInvariant == Spec => []IInv
<1>1. IInv /\ [Next]_vars => IInv'
  <2> SUFFICES ASSUME IInv, [Next]_vars PROVE IInv'
    OBVIOUS
  <2>1. Typed /\ BarsStand /\ CountsOK
    BY DEF IInv, Typed
  <2>2. Typed'
    BY <2>1, StepTyped
  <2> QED
    BY <2>1, <2>2, StepBars, StepCounts DEF IInv, Typed
<1> QED
  BY <1>1, InitInvariant, PTL DEF Spec

(* Enforced, the requests let through on the life of a counter are at most  *)
(* Limit, however many run at once and whatever fails (evaluateRequestLimit). *)
THEOREM LimitIsEnforced == Spec => []LimitHolds
<1>1. IInv => LimitHolds
  <2> SUFFICES ASSUME IInv, Mode = "enforce", NEW s \in Stores, NEW t \in Tokens, Limit[t] > 0
               PROVE  admitted[s][t] <= Limit[t]
    BY DEF LimitHolds
  <2>1. Pending(s, t) \in SUBSET Procs
    BY DEF Pending
  <2>2. Cardinality(Pending(s, t)) \in Nat
    BY <2>1, PendingFinite
  <2>3. admitted[s][t] + Cardinality(Pending(s, t)) <= Limit[t]
    BY DEF IInv, CountsOK
  <2>4. admitted[s][t] \in Nat /\ Limit[t] \in Nat
    BY PolicyAssumption DEF IInv, TypeOK
  <2> QED
    BY <2>2, <2>3, <2>4
<1> QED
  BY <1>1, InductiveInvariant, PTL

(* Enforced, a request one of whose tokens is blocked from its arrival on   *)
(* does not reach the handler (ensureNotBlocked).                           *)
THEOREM BlocksAreEnforced == Spec => []BlockedNeverServed
<1>1. IInv => BlockedNeverServed
  BY DEF IInv, PlacesOK, Placed, BlockedNeverServed, At
<1> QED
  BY <1>1, InductiveInvariant, PTL
=============================================================================
