----------------------------- MODULE RateLimit -----------------------------
(***************************************************************************)
(* One rate-limit policy: RateLimitGuard in front of a handler,            *)
(* RateLimitOutcomeInterceptor behind it, RateLimitService for both and    *)
(* RateLimitStore, a set of counters in Redis or in a Map of the process.  *)
(*                                                                         *)
(* A request is a process; a step of it is one awaited command on the      *)
(* store with the JavaScript up to the next.  A key's time to live counts  *)
(* down with Tick, and a key whose time is up is gone.                     *)
(***************************************************************************)
EXTENDS Integers, FiniteSets

CONSTANTS
    Procs,       \* requests in flight
    Tokens,      \* client tokens, numbered in the order the guard lists scopes
    Senders,     \* the sets of tokens a request may carry (ip, identity, user)
    Limit,       \* Limit[t]: the rule for t's scope; 0 where the policy has none
    Window,      \* windowSec
    FailWindow,  \* failureWindowSec
    Steps,       \* the penalty's steps [failures, blockSec]; {} for no penalty
    Mode,        \* RATE_LIMIT_MODE
    Faults,      \* what may go wrong: a subset of AllFaults
    MaxHits      \* bound: no request starts on a counter this high

AllFaults == {"reject", "lose", "crash"}

ASSUME TokensAssumption ==
    /\ Tokens \subseteq Nat
    /\ Senders \subseteq (SUBSET Tokens) \ {{}}    \* extractIp always answers
    /\ IsFiniteSet(Procs)
ASSUME PolicyAssumption ==
    /\ Limit \in [Tokens -> Nat]
    /\ Window \in Nat \ {0} /\ FailWindow \in Nat \ {0}
    /\ Steps \subseteq [failures : Nat \ {0}, blockSec : Nat \ {0, 1}]
    /\ \A s, u \in Steps : s.failures = u.failures => s = u
ASSUME ModeAssumption == Mode \in {"monitor", "enforce"} /\ Faults \subseteq AllFaults
ASSUME BoundAssumption == MaxHits \in Nat

VARIABLES
    store,     \* store[s][k]: the key k in Redis and in the process's memory
    link,      \* the connection to Redis, which decides which of the two is used
    rq,        \* rq[p]: request p: the await it is blocked on (at), its tokens,
               \*   those still to do, the longest wait found, a rule exceeded
               \*   (over), the failures counted, the error path entered (caught)
    admitted,  \* admitted[s][t]: handled requests among those counted by the
               \*   request key of t in store s since that key was created
    fails      \* fails[t]: failures answered since t's last success, up to MaxHits

vars == <<store, link, rq, admitted, fails>>

Stores == {"redis", "memory"}
Keys == {"req", "fail", "block"} \X Tokens
Entry == [val : Nat, left : Nat]     \* left = 0 in a live key: it has no TTL
Gone == [val |-> 0, left |-> 0]
Labels == {"idle", "b_get", "b_ttl", "q_incr", "q_expire", "q_ttl", "handle",
           "f_incr", "f_expire", "f_ttl", "f_set", "s_del"}
Replies == {"none", "served", "limited", "error"}

\* held and barred are history: the counts of p that still stand, and the
\* tokens of p that have been blocked ever since it arrived.
Request == [at : Labels, toks : SUBSET Tokens, todo : SUBSET Tokens, wait : Nat,
            over : BOOLEAN, n : Nat, caught : BOOLEAN, reply : Replies,
            held : SUBSET (Stores \X Tokens), barred : SUBSET Tokens]
Answered(r) == [at |-> "idle", toks |-> {}, todo |-> {}, wait |-> 0, over |-> FALSE, n |-> 0,
                caught |-> FALSE, reply |-> r, held |-> {}, barred |-> {}]

TypeOK ==
    /\ store \in [Stores -> [Keys -> Entry]]
    /\ link \in {"connecting", "up", "lost"}
    /\ rq \in [Procs -> Request]
    /\ admitted \in [Stores -> [Tokens -> Nat]]
    /\ fails \in [Tokens -> Nat]

Init ==
    /\ store = [s \in Stores |-> [k \in Keys |-> Gone]]
    /\ link = "connecting"
    /\ rq = [p \in Procs |-> Answered("none")]
    /\ admitted = [s \in Stores |-> [t \in Tokens |-> 0]]
    /\ fails = [t \in Tokens |-> 0]

-----------------------------------------------------------------------------
(* RateLimitStore *)

\* Until the first connection, and for ever after an error, the Map is used.
Active == IF link = "up" THEN "redis" ELSE "memory"

Live(s, k) == store[s][k].val > 0

\* Redis rounds the time to the nearest second, the Map rounds it up.
Ttl(s, k) ==
    IF ~Live(s, k) \/ store[s][k].left = 0 THEN {0}
    ELSE IF s = "redis" THEN {store[s][k].left - 1, store[s][k].left}
    ELSE {store[s][k].left}

Put(s, k, e) == [store EXCEPT ![s][k] = e]

\* INCR gives a new key no time to live; the Map's entries always have one.
Incremented(s, k, w) ==
    Put(s, k, [val  |-> store[s][k].val + 1,
               left |-> IF s = "memory" /\ ~Live(s, k) THEN w ELSE store[s][k].left])

\* EXPIRE on a key that is gone does nothing.
WithExpiry(k, w) ==
    IF Live("redis", k) THEN Put("redis", k, [store["redis"][k] EXCEPT !.left = w]) ELSE store

-----------------------------------------------------------------------------
(* Where a request goes when it has finished with a token. *)

At(p, label) == rq[p].at = label

\* Object.entries and policy.limits are walked in the order of the scopes.
Current(p) == CHOOSE t \in rq[p].todo : \A u \in rq[p].todo : t <= u
Key(p, kind) == <<kind, Current(p)>>
Later(p) == [rq[p] EXCEPT !.todo = @ \ {Current(p)}]

\* evaluateRequestLimit: after the last rule, the request is refused or handled.
AfterRule(r) ==
    IF r.todo # {} THEN [r EXCEPT !.at = "q_incr"]
    ELSE IF r.over /\ Mode = "enforce" THEN Answered("limited")
    ELSE [r EXCEPT !.at = "handle"]

\* Faults: a blocked request is refused in monitor mode, or let through.
AfterBlockAnyMode(r) ==
    IF r.todo # {} THEN [r EXCEPT !.at = "b_get"]
    ELSE IF r.wait > 0 THEN Answered("limited")
    ELSE AfterRule([r EXCEPT !.todo = {t \in r.toks : Limit[t] > 0}])
AfterBlockLast(r) ==
    IF r.wait > 0 THEN IF Mode = "enforce" THEN Answered("limited") ELSE [r EXCEPT !.at = "handle"]
    ELSE AfterRule([r EXCEPT !.todo = {t \in r.toks : Limit[t] > 0}])

\* ensureNotBlocked: in monitor mode a blocked request skips the rules.
AfterBlock(r) ==
    IF r.todo # {} THEN [r EXCEPT !.at = "b_get"]
    ELSE IF r.wait = 0 THEN AfterRule([r EXCEPT !.todo = {t \in r.toks : Limit[t] > 0}])
    ELSE IF Mode = "enforce" THEN Answered("limited")
    ELSE [r EXCEPT !.at = "handle"]

\* recordOutcome, for a failure and for a success.  A rejection that was taken
\* for a failure of the handler is rethrown when the failure is recorded.
AfterFailure(r) ==
    IF r.todo # {} THEN [r EXCEPT !.at = "f_incr"]
    ELSE Answered(IF r.reply = "error" THEN "error" ELSE "served")
AfterSuccess(r) == IF r.todo # {} THEN [r EXCEPT !.at = "s_del"] ELSE Answered("served")

\* Request p goes on as r; one that reaches the handler is counted as admitted.
Move(p, r) ==
    /\ rq' = [rq EXCEPT ![p] = IF r.at = "handle" THEN [r EXCEPT !.held = {}] ELSE r]
    /\ admitted' = [s \in Stores |-> [t \in Tokens |->
                       IF r.at = "handle" /\ <<s, t>> \in r.held
                       THEN admitted[s][t] + 1 ELSE admitted[s][t]]]

-----------------------------------------------------------------------------
(* RateLimitGuard.canActivate *)

\* A block so far from its end that no rounding hides it.
Firm(s, t) == store[s][<<"block", t>>].left > (IF s = "redis" THEN 1 ELSE 0)

\* Bound: a counter at MaxHits gets no new request.
Room(toks) == \A s \in Stores, t \in toks, kind \in {"req", "fail"} :
                  store[s][<<kind, t>>].val < MaxHits

Arrive(p, toks) ==
    /\ At(p, "idle")
    /\ Room(toks)
    /\ rq' = [rq EXCEPT ![p] = [Answered("none") EXCEPT
                 !.at = "b_get", !.toks = toks, !.todo = toks,
                 !.barred = {t \in toks : Firm(Active, t)}]]
    /\ UNCHANGED <<store, link, admitted, fails>>

BlockGet(p) ==
    /\ At(p, "b_get")
    /\ Move(p, IF Live(Active, Key(p, "block")) THEN [rq[p] EXCEPT !.at = "b_ttl"]
               ELSE AfterBlock(Later(p)))
    /\ UNCHANGED <<store, link, fails>>

BlockTtl(p) ==
    /\ At(p, "b_ttl")
    /\ \E ttl \in Ttl(Active, Key(p, "block")) :
          Move(p, AfterBlock([Later(p) EXCEPT !.wait = IF ttl > @ THEN ttl ELSE @]))
    /\ UNCHANGED <<store, link, fails>>

\* Fault: the rule lets one request more through.
ExceedsByOne(p, value) == value > Limit[Current(p)] + 1
Exceeds(p, value) == value > Limit[Current(p)]

ReqIncr(p) ==
    /\ At(p, "q_incr")
    /\ store' = Incremented(Active, Key(p, "req"), Window)
    /\ LET value == store[Active][Key(p, "req")].val + 1
           q == [rq[p] EXCEPT !.held = @ \cup {<<Active, Current(p)>>}]
           r == IF Active = "redis" /\ value = 1 THEN [q EXCEPT !.at = "q_expire"]
                ELSE IF Exceeds(p, value) THEN [q EXCEPT !.over = TRUE, !.at = "q_ttl"]
                ELSE AfterRule([q EXCEPT !.todo = @ \ {Current(p)}])
       IN  Move(p, r)
    /\ UNCHANGED <<link, fails>>

\* Fault: the key is given its time only when it is incremented again.
ReqExpireForgotten(p) ==
    /\ At(p, "q_expire")
    /\ Move(p, AfterRule(Later(p)))
    /\ UNCHANGED <<store, link, fails>>

ReqExpire(p) ==
    /\ At(p, "q_expire")
    /\ store' = WithExpiry(Key(p, "req"), Window)
    /\ Move(p, AfterRule(Later(p)))
    /\ UNCHANGED <<link, fails>>

\* Fault: a time to live of 0 is asked for again.
ReqTtlAgain(p) ==
    /\ At(p, "q_ttl")
    /\ \E ttl \in Ttl(Active, Key(p, "req")) :
          /\ ttl > 0
          /\ Move(p, AfterRule([Later(p) EXCEPT !.wait = IF ttl > @ THEN ttl ELSE @]))
    /\ UNCHANGED <<store, link, fails>>

ReqTtl(p) ==
    /\ At(p, "q_ttl")
    /\ \E ttl \in Ttl(Active, Key(p, "req")) :
          LET wait == IF ttl = 0 THEN Window ELSE ttl
          IN  Move(p, AfterRule([Later(p) EXCEPT !.wait = IF wait > @ THEN wait ELSE @]))
    /\ UNCHANGED <<store, link, fails>>

-----------------------------------------------------------------------------
(* The handler, and RateLimitOutcomeInterceptor around it. *)

\* Faults: a success leaves the failure counters; a guard's refusal is recorded.
HandleKeepCounters(p, result) ==
    /\ At(p, "handle")
    /\ LET r == [rq[p] EXCEPT !.todo = rq[p].toks, !.wait = 0, !.over = FALSE]
       IN  rq' = [rq EXCEPT ![p] =
               IF result \in {"stopped", "ok"} \/ Steps = {} THEN Answered("served")
               ELSE AfterFailure([r EXCEPT !.caught = result = "thrown"])]
    /\ fails' = [t \in Tokens |->
                   IF t \notin rq[p].toks \/ result = "stopped" \/ Steps = {} THEN fails[t]
                   ELSE IF result = "ok" THEN 0
                   ELSE IF fails[t] < MaxHits THEN fails[t] + 1 ELSE fails[t]]
    /\ UNCHANGED <<store, link, admitted>>

\* "ok" and "failed" are answers of the handler, success true or false; it may
\* throw, and a guard after this one may stop the request: then no interceptor runs.
Handle(p, result) ==
    /\ At(p, "handle")
    /\ LET r == [rq[p] EXCEPT !.todo = rq[p].toks, !.wait = 0, !.over = FALSE]
       IN  rq' = [rq EXCEPT ![p] =
               IF result = "stopped" \/ Steps = {} THEN Answered("served")
               ELSE IF result = "ok" THEN AfterSuccess(r)
               ELSE AfterFailure([r EXCEPT !.caught = result = "thrown"])]
    /\ fails' = [t \in Tokens |->
                   IF t \notin rq[p].toks \/ result = "stopped" \/ Steps = {} THEN fails[t]
                   ELSE IF result = "ok" THEN 0
                   ELSE IF fails[t] < MaxHits THEN fails[t] + 1 ELSE fails[t]]
    /\ UNCHANGED <<store, link, admitted>>

\* The first step, by failures in descending order, that n failures reach.
Matching(n) == {s \in Steps : s.failures <= n}
BlockSec(n) == (CHOOSE s \in Matching(n) : \A u \in Matching(n) : u.failures <= s.failures).blockSec

\* After the failure counter said n: the block key, or the next token.
Counted(p, n) ==
    rq' = [rq EXCEPT ![p] = IF Matching(n) = {} THEN AfterFailure(Later(p))
                            ELSE [rq[p] EXCEPT !.n = n, !.at = "f_ttl"]]

FailIncr(p) ==
    /\ At(p, "f_incr")
    /\ store' = Incremented(Active, Key(p, "fail"), FailWindow)
    /\ LET n == store[Active][Key(p, "fail")].val + 1
       IN  IF Active = "redis" /\ n = 1
           THEN rq' = [rq EXCEPT ![p].at = "f_expire"]
           ELSE Counted(p, n)
    /\ UNCHANGED <<link, admitted, fails>>

FailExpire(p) ==
    /\ At(p, "f_expire")
    /\ store' = WithExpiry(Key(p, "fail"), FailWindow)
    /\ Counted(p, 1)
    /\ UNCHANGED <<link, admitted, fails>>

\* Fault: the block is written whatever is left of the one there is.
FailTtlIgnored(p) ==
    /\ At(p, "f_ttl")
    /\ rq' = [rq EXCEPT ![p].at = "f_set"]
    /\ UNCHANGED <<store, link, admitted, fails>>

FailTtl(p) ==
    /\ At(p, "f_ttl")
    /\ \E ttl \in Ttl(Active, Key(p, "block")) :
          rq' = [rq EXCEPT ![p] = IF ttl < BlockSec(rq[p].n) THEN [@ EXCEPT !.at = "f_set"]
                                  ELSE AfterFailure(Later(p))]
    /\ UNCHANGED <<store, link, admitted, fails>>

Blocked(p) == Put(Active, Key(p, "block"), [val |-> 1, left |-> BlockSec(rq[p].n)])
BlockSet(p) ==
    /\ At(p, "f_set")
    /\ store' = Blocked(p)
    /\ rq' = [rq EXCEPT ![p] = AfterFailure(Later(p))]
    /\ UNCHANGED <<link, admitted, fails>>

FailDel(p) ==
    /\ At(p, "s_del")
    /\ store' = Put(Active, Key(p, "fail"), Gone)
    /\ rq' = [rq EXCEPT ![p] = AfterSuccess(Later(p))]
    /\ UNCHANGED <<link, admitted, fails>>

-----------------------------------------------------------------------------
(* What goes wrong, and time. *)

\* What the command p is waiting for does to Redis.
Effect(p) ==
    CASE At(p, "q_incr") -> Incremented("redis", Key(p, "req"), Window)
      [] At(p, "q_expire") -> WithExpiry(Key(p, "req"), Window)
      [] At(p, "f_incr") -> Incremented("redis", Key(p, "fail"), FailWindow)
      [] At(p, "f_expire") -> WithExpiry(Key(p, "fail"), FailWindow)
      [] At(p, "f_set") -> Blocked(p)
      [] At(p, "s_del") -> Put("redis", Key(p, "fail"), Gone)
      [] OTHER -> store

\* A command on Redis rejects, carried out or not.  In the guard the request
\* ends in an error; in the interceptor the first rejection is taken for a
\* failure of the handler and recorded from the first token on, the second ends it.
CallRejects(p) ==
    /\ "reject" \in Faults /\ link = "up"
    /\ ~At(p, "idle") /\ ~At(p, "handle")
    /\ store' \in {store, Effect(p)}
    /\ rq' = [rq EXCEPT ![p] =
                 IF rq[p].at \in {"f_incr", "f_expire", "f_ttl", "f_set", "s_del"} /\ ~rq[p].caught
                 THEN AfterFailure([@ EXCEPT !.todo = rq[p].toks, !.caught = TRUE, !.reply = "error"])
                 ELSE Answered("error")]
    /\ UNCHANGED <<link, admitted, fails>>

\* The Map's blocks are not Redis's: history forgets what it barred.
Switch(l) ==
    /\ link' = l
    /\ rq' = [p \in Procs |-> [rq[p] EXCEPT !.barred = {}]]
    /\ UNCHANGED <<store, admitted, fails>>

Connect == link = "connecting" /\ Switch("up")

\* An 'error' event, or a connect that fails: nothing takes useMemory back.
Lose == "lose" \in Faults /\ link # "lost" /\ Switch("lost")

\* The process dies and is started again; Redis keeps its keys.
Crash ==
    /\ "crash" \in Faults
    /\ link' = "connecting"
    /\ rq' = [p \in Procs |-> Answered("none")]
    /\ store' = [store EXCEPT !["memory"] = [k \in Keys |-> Gone]]
    /\ admitted' = [admitted EXCEPT !["memory"] = [t \in Tokens |-> 0]]
    /\ UNCHANGED fails

\* The key k of s has come to its end; the history of its life with it.
Ends(s, k) == store[s][k].left = 1

Tick ==
    /\ store' = [s \in Stores |-> [k \in Keys |->
                    IF Ends(s, k) THEN Gone
                    ELSE IF store[s][k].left = 0 THEN store[s][k]
                    ELSE [store[s][k] EXCEPT !.left = @ - 1]]]
    /\ admitted' = [s \in Stores |-> [t \in Tokens |->
                       IF Ends(s, <<"req", t>>) THEN 0 ELSE admitted[s][t]]]
    /\ rq' = [p \in Procs |-> [rq[p] EXCEPT
                 !.held = {h \in @ : ~Ends(h[1], <<"req", h[2]>>)},
                 !.barred = {t \in @ : store[Active][<<"block", t>>].left
                                         > (IF Active = "redis" THEN 2 ELSE 1)}]]
    /\ UNCHANGED <<link, fails>>

-----------------------------------------------------------------------------
GuardStep(p) ==
    BlockGet(p) \/ BlockTtl(p) \/ ReqIncr(p) \/ ReqExpire(p) \/ ReqTtl(p)
OutcomeStep(p) == FailIncr(p) \/ FailExpire(p) \/ FailTtl(p) \/ BlockSet(p) \/ FailDel(p)
Results == {"ok", "failed", "thrown", "stopped"}
Step(p) == GuardStep(p) \/ OutcomeStep(p) \/ \E result \in Results : Handle(p, result)

Next ==
    \/ \E p \in Procs : Step(p) \/ CallRejects(p)
    \/ \E p \in Procs, toks \in Senders : Arrive(p, toks)
    \/ Connect \/ Lose \/ Crash \/ Tick

Spec == Init /\ [][Next]_vars

\* The store answers, handlers return, time passes.
Fairness == (\A p \in Procs : WF_vars(Step(p))) /\ WF_vars(Tick)
FairSpec == Spec /\ Fairness

-----------------------------------------------------------------------------
BlockLabels == {"b_get", "b_ttl"}
RuleLabels == {"q_incr", "q_expire", "q_ttl"}

\* Where a request stands determines what it has still to do and has found out.
Placed(r) ==
    /\ r.todo \subseteq r.toks
    /\ r.at \notin {"idle", "handle"} => r.todo # {}
    /\ r.at \in BlockLabels => ~r.over /\ (r.wait > 0 \/ r.barred \subseteq r.todo)
    /\ r.at \in RuleLabels => r.barred = {} /\ \A t \in r.todo : Limit[t] > 0
    /\ r.at = "handle" /\ Mode = "enforce" => ~r.over /\ r.barred = {}
    /\ r.at \in {"f_ttl", "f_set"} => Matching(r.n) # {}
PlacesOK == \A p \in Procs : Placed(rq[p])

\* A key with time left is there, and what bars a request is still to be found.
EntriesOK == \A s \in Stores, k \in Keys : store[s][k].left > 0 => store[s][k].val > 0
BarsStand ==
    \A p \in Procs : rq[p].at \in BlockLabels => \A t \in rq[p].barred : Firm(Active, t)

\* Requests a standing count of t in s may still let through.
Pending(s, t) == {p \in Procs : <<s, t>> \in rq[p].held /\ ~rq[p].over}

\* Those, with the ones let through, were all counted and all within the rule.
CountsOK ==
    Mode = "enforce" =>
        \A s \in Stores, t \in Tokens :
            /\ admitted[s][t] + Cardinality(Pending(s, t)) <= store[s][<<"req", t>>].val
            /\ Limit[t] > 0 => admitted[s][t] + Cardinality(Pending(s, t)) <= Limit[t]

\* The inductive invariant: what LimitHolds and BlockedNeverServed rest on.
IInv == TypeOK /\ PlacesOK /\ EntriesOK /\ BarsStand /\ CountsOK

\* Enforced, a counter's life lets at most Limit of the requests it counted
\* reach a handler, in each of the two stores, whatever interleaves or fails
\* (evaluateRequestLimit counts with one command and compares what it returns).
LimitHolds ==
    Mode = "enforce" =>
        \A s \in Stores, t \in Tokens : Limit[t] > 0 => admitted[s][t] <= Limit[t]

\* Enforced, a request that carries a token blocked ever since it arrived never
\* reaches the handler (ensureNotBlocked looks at every scope).
BlockedNeverServed ==
    Mode = "enforce" => \A p \in Procs : At(p, "handle") => rq[p].barred = {}

\* A request of this process is about to give the key its time to live.
Expiring(k) ==
    \E p \in Procs : \/ At(p, "q_expire") /\ k = Key(p, "req")
                     \/ At(p, "f_expire") /\ k = Key(p, "fail")

\* Every key has a time to live, or is about to get it: no client is counted
\* against for ever (increment sends INCR and EXPIRE as two commands).
KeysExpire ==
    \A k \in Keys : Live("redis", k) /\ store["redis"][k].left = 0 => Expiring(k)

\* A block is never cut short (recordOutcome compares before it writes), unless
\* Redis was lost: what is left of it is then asked of the other store.
BlockNeverShortened ==
    [][\A s \in Stores, t \in Tokens :
          store'[s][<<"block", t>>].val > 0 /\ store[s][<<"block", t>>].val > 0
          => \/ store'[s][<<"block", t>>].left >= store[s][<<"block", t>>].left
             \/ link = "lost"
             \/ Tick]_vars

\* A block that is set has been earned: its step's failures were answered to the
\* token since its last success (clearPenaltyCounters starts the count again), unless
\* Redis was lost: a success clears the counter of one store only.
BlockEarned ==
    [][\A s \in Stores, t \in Tokens :
          store'[s][<<"block", t>>].left > store[s][<<"block", t>>].left
          => \/ link = "lost"
             \/ \E step \in Steps : /\ store'[s][<<"block", t>>].left = step.blockSec
                                   /\ step.failures <= fails[t]]_vars

\* In monitor mode no request is turned away ("without blocking requests",
\* README.md, "Rate Limiting Rollout").
MonitorServes ==
    Mode = "monitor" => \A p \in Procs : rq[p].reply \notin {"limited", "error"}

\* What MonitorServes, KeysExpire, BlockNeverShortened and BlockEarned rest on,
\* each under the faults it withstands.
Alone == \A p, q \in Procs : p = q

MonitorOK == Mode = "monitor" /\ "reject" \notin Faults => MonitorServes
ExpiryOK == Faults \cap {"crash", "reject"} = {} => KeysExpire

\* Redis holds nothing of a process that has not reached it yet.
FreshOK ==
    "crash" \notin Faults /\ link = "connecting" => \A k \in Keys : store["redis"][k] = Gone

\* A request about to write a block has found none longer.
BlocksOK ==
    Alone /\ "crash" \notin Faults /\ link # "lost" =>
        \A p \in Procs : At(p, "f_set") =>
            store[Active][Key(p, "block")].left <= BlockSec(rq[p].n)

\* The tokens of p whose failure is answered and not counted yet.
Uncounted(p) ==
    IF At(p, "f_incr") THEN rq[p].todo
    ELSE IF rq[p].at \in {"f_expire", "f_ttl", "f_set"} THEN rq[p].todo \ {Current(p)}
    ELSE {}

\* The counter in use says no more than what was answered since the last
\* success, one less for a failure not counted yet; a request knows no more
\* than the counter said, and the bound leaves room for its own failure.
Earned(p) ==
    /\ \A t \in Tokens : \/ store[Active][<<"fail", t>>].val <= fails[t]
                         \/ At(p, "s_del") /\ t \in rq[p].todo
    /\ \A t \in Uncounted(p) : store[Active][<<"fail", t>>].val < fails[t]
    /\ At(p, "f_expire") => fails[Current(p)] > 0
    /\ rq[p].at \in {"f_ttl", "f_set"} => rq[p].n <= fails[Current(p)]
    /\ rq[p].at \in BlockLabels \cup RuleLabels \cup {"handle"} =>
          \A s \in Stores, t \in rq[p].toks : store[s][<<"fail", t>>].val < MaxHits
EarnedOK ==
    Alone /\ Faults \subseteq {"lose"} /\ link # "lost" => \A p \in Procs : Earned(p)

PenaltyOK == MonitorOK /\ ExpiryOK /\ FreshOK /\ BlocksOK /\ EarnedOK

\* A client over its limit is told to retry (rate-limit.guard.ts, the message
\* "Retry in N seconds"): its counter does not stay over the limit for ever.
LimitLifts ==
    \A t \in Tokens : Limit[t] > 0 =>
        (store[Active][<<"req", t>>].val > Limit[t]
            ~> store[Active][<<"req", t>>].val <= Limit[t])

\* Every request is answered.
EveryRequestAnswered == \A p \in Procs : ~At(p, "idle") ~> At(p, "idle")
=============================================================================
