------------------------------ MODULE TwoStep ------------------------------
(***************************************************************************)
(* The two-step methods of one user ("user_two_step_verification"), their  *)
(* passkeys ("web_auth_credential") and the challenges of the passkey      *)
(* ceremonies, which WebAuthnChallengeService keeps in Redis or in a Map.  *)
(*                                                                         *)
(* A request is a process; a step of it is one awaited statement with the  *)
(* JavaScript up to the next.                                              *)
(***************************************************************************)
EXTENDS Integers, FiniteSets

CONSTANTS
    Procs,          \* requests in flight
    Ops,            \* operations offered: a subset of AllOps
    Kinds,          \* method types a client adds
    Creds,          \* authenticators of the user
    Solo,           \* classes of which one request is in flight at a time
    MaxMethods,     \* bound: methods added, but for those in flight
    MaxChallenges,  \* bound: challenges issued
    MaxCount,       \* bound: the counter of a response
    Faults          \* "call": an await rejects; "lose": Redis is lost; "crash"

AllOps == {"create", "update", "delete", "code", "askreg", "askauth", "add", "sign"}
MethodTypes == {"AUTHENTICATOR", "EMAIL", "PASSKEYS", "SMS"}
Stores == {"redis", "memory"}
Keys == {"reg", "auth"}
Challenges == 1..MaxChallenges

ASSUME OpsAssumption ==
    /\ Ops \subseteq AllOps /\ Kinds \subseteq MethodTypes /\ Creds # {}
    /\ Solo \subseteq {"promote", "sign"} /\ Faults \subseteq {"call", "lose", "crash"}
ASSUME BoundsAssumption == MaxMethods \in Nat /\ MaxChallenges \in Nat /\ MaxCount \in Nat

VARIABLES
    methods,     \* the rows of "user_two_step_verification"
    nextMethod,  \* the id of its next row
    passkeys,    \* passkeys[k]: the counter stored for authenticator k, -1 for no row
    slot,        \* slot[s][key]: the challenge store s holds under the key, 0 for none
    link,        \* the challenge store's connection to Redis
    issued,      \* challenges generated so far
    given,       \* challenges answered to the client
    rq,          \* rq[p]: request p: the await it is blocked on (at), the method type, the
                 \*   flags and the id sent (kind, primary, enabled, id), the primary method
                 \*   found and its isEnabled (aim, was), the response's authenticator, counter
                 \*   and challenge (cred, count, resp), the challenge in hand (chal)
    used         \* used[c]: ceremonies that challenge c completed

tables == <<methods, nextMethod, passkeys>>
stores == <<slot, link>>
vars == <<tables, stores, issued, given, rq, used>>

Method == [id : Nat, kind : MethodTypes, primary : BOOLEAN, enabled : BOOLEAN]
Labels == {"idle", "find", "demote", "insert", "u_find", "u_log", "u_write", "d_find", "d_log",
           "d_del", "v_find", "k_user", "k_list", "k_set", "k_log", "user", "take", "p_cred",
           "p_exists", "p_enable", "s_find", "s_count", "log"}
Request == [at : Labels, op : AllOps, kind : MethodTypes, primary : BOOLEAN, enabled : BOOLEAN,
            id : Nat, aim : Nat, was : BOOLEAN, cred : Creds, count : Nat,
            resp : 0..MaxChallenges, chal : 0..MaxChallenges]
Idle == [at |-> "idle", op |-> "code", kind |-> "SMS", primary |-> FALSE, enabled |-> FALSE,
         id |-> 0, aim |-> 0, was |-> FALSE, cred |-> CHOOSE k \in Creds : TRUE, count |-> 0,
         resp |-> 0, chal |-> 0]

TypeOK ==
    /\ methods \in SUBSET Method /\ nextMethod \in Nat \ {0}
    /\ passkeys \in [Creds -> Nat \cup {-1}]
    /\ slot \in [Stores -> [Keys -> 0..MaxChallenges]]
    /\ link \in {"connecting", "up", "lost"}
    /\ issued \in 0..MaxChallenges /\ given \in SUBSET Challenges
    /\ rq \in [Procs -> Request]
    /\ used \in [Challenges -> Nat]

Init ==
    /\ methods = {} /\ nextMethod = 1
    /\ passkeys = [k \in Creds |-> -1]
    /\ slot = [s \in Stores |-> [key \in Keys |-> 0]]
    /\ link = "connecting"
    /\ issued = 0 /\ given = {}
    /\ rq = [p \in Procs |-> Idle]
    /\ used = [c \in Challenges |-> 0]

-----------------------------------------------------------------------------
At(p, label) == rq[p].at = label
Become(p, r) == rq' = [rq EXCEPT ![p] = r]
Goto(p, label) == Become(p, [rq[p] EXCEPT !.at = label])
Reply(p) == Become(p, Idle)
\* Nothing is left but the device and activity rows.
Finish(p) == Become(p, [Idle EXCEPT !.at = "log"])

WithId(i) == {m \in methods : m.id = i}
Primaries == {m \in methods : m.primary}

\* Requests that make a method primary, and those that check a passkey.
Promotes(op, primary) == op = "add" \/ (op \in {"create", "update"} /\ primary)
Classes(op, primary) ==
    {c \in {"promote", "sign"} : IF c = "promote" THEN Promotes(op, primary) ELSE op = "sign"}
ClassesOf(p) == Classes(rq[p].op, rq[p].primary)

FirstAwait(op, primary) ==
    CASE op = "create"          -> IF primary THEN "find" ELSE "insert"
      [] op = "update"          -> "u_find"
      [] op = "delete"          -> "d_find"
      [] op = "code"            -> "v_find"
      [] op = "askreg"          -> "k_user"
      [] op = "askauth"         -> "k_list"
      [] op \in {"add", "sign"} -> "user"

\* A response is to a challenge the client was given, for either ceremony; its
\* counter is anything, for an authenticator may be slow, sent again or cloned.
Start(p, r) ==
    /\ At(p, "idle")
    /\ r.op \in Ops
    /\ r.op = "create" => nextMethod <= MaxMethods
    /\ r.op \in {"askreg", "askauth"} => issued < MaxChallenges
    /\ \A q \in Procs : q = p \/ ClassesOf(q) \cap Classes(r.op, r.primary) \cap Solo = {}
    /\ Become(p, r)
    /\ UNCHANGED <<tables, stores, issued, given, used>>

New(op, primary) ==
    [Idle EXCEPT !.op = op, !.primary = primary, !.at = FirstAwait(op, primary)]

\* The requests a client may send.
Arrive(p) ==
    \/ \E b, e \in BOOLEAN, k \in Kinds :
          Start(p, [New("create", b) EXCEPT !.kind = k, !.enabled = e])
    \/ \E b, e \in BOOLEAN, i \in 1..(nextMethod - 1) :
          Start(p, [New("update", b) EXCEPT !.id = i, !.enabled = e])
    \/ \E i \in 1..(nextMethod - 1) : Start(p, [New("delete", FALSE) EXCEPT !.id = i])
    \/ \E op \in {"code", "askreg", "askauth"} : Start(p, New(op, FALSE))
    \/ \E op \in {"add", "sign"}, k \in Creds, n \in 0..MaxCount, c \in given :
          Start(p, [New(op, FALSE) EXCEPT !.cred = k, !.count = n, !.resp = c])

-----------------------------------------------------------------------------
(* Methods: create, update, delete, verify, and addPasskey's upsert. *)

\* A promotion goes on when no method is primary (any more).
Promote(p) == Become(p, [rq[p] EXCEPT !.at = IF rq[p].op = "update" THEN "u_log" ELSE "insert",
                                      !.aim = 0, !.was = FALSE])

\* Fault: the primary method is looked for among the enabled ones.
FindPrimaryEnabled(p) ==
    /\ At(p, "find")
    /\ \/ \E m \in Primaries :
             m.enabled /\ Become(p, [rq[p] EXCEPT !.at = "demote", !.aim = m.id, !.was = m.enabled])
       \/ ~(\E m \in Primaries : m.enabled) /\ Promote(p)
    /\ UNCHANGED <<tables, stores, issued, given, used>>

FindPrimary(p) ==
    /\ At(p, "find")
    /\ \/ \E m \in Primaries :
             Become(p, [rq[p] EXCEPT !.at = "demote", !.aim = m.id, !.was = m.enabled])
       \/ Primaries = {} /\ Promote(p)
    /\ UNCHANGED <<tables, stores, issued, given, used>>

\* Prisma's update of a row that is gone throws; it writes back the isEnabled read.
Demote(p) ==
    /\ At(p, "demote")
    /\ IF WithId(rq[p].aim) = {} THEN Reply(p) /\ UNCHANGED methods
       ELSE /\ methods' = {IF m.id # rq[p].aim THEN m
                           ELSE [m EXCEPT !.primary = FALSE, !.enabled = rq[p].was] : m \in methods}
            /\ Promote(p)
    /\ UNCHANGED <<nextMethod, passkeys, stores, issued, given, used>>

InsertMethod(p) ==
    /\ At(p, "insert")
    /\ LET add == rq[p].op = "add" IN
       methods' = methods \cup
           {[id |-> nextMethod, kind |-> IF add THEN "PASSKEYS" ELSE rq[p].kind,
             primary |-> add \/ rq[p].primary, enabled |-> add \/ rq[p].enabled]}
    /\ nextMethod' = nextMethod + 1
    /\ IF rq[p].op = "add" \/ rq[p].kind = "AUTHENTICATOR" THEN Finish(p) ELSE Reply(p)
    /\ UNCHANGED <<passkeys, stores, issued, given, used>>

FindMethod(p) ==
    /\ \/ /\ At(p, "u_find")
          /\ IF WithId(rq[p].id) = {} THEN Reply(p)
             ELSE Goto(p, IF rq[p].primary THEN "find" ELSE "u_log")
       \/ /\ At(p, "d_find")
          /\ IF WithId(rq[p].id) = {} THEN Reply(p) ELSE Goto(p, "d_log")
    /\ UNCHANGED <<tables, stores, issued, given, used>>

WriteMethod(p) ==
    /\ At(p, "u_write")
    /\ methods' = {IF m.id # rq[p].id THEN m
                   ELSE [m EXCEPT !.primary = rq[p].primary, !.enabled = rq[p].enabled] :
                      m \in methods}
    /\ Reply(p)
    /\ UNCHANGED <<nextMethod, passkeys, stores, issued, given, used>>

DeleteMethod(p) ==
    /\ At(p, "d_del")
    /\ methods' = methods \ WithId(rq[p].id)
    /\ Reply(p)
    /\ UNCHANGED <<nextMethod, passkeys, stores, issued, given, used>>

\* verifyUserTwoStepVerification: the code itself is right or wrong.
VerifyCode(p) ==
    /\ At(p, "v_find")
    /\ \/ /\ \E m \in Primaries : m.enabled /\ m.kind = "AUTHENTICATOR"
          /\ Finish(p)
       \/ Reply(p)
    /\ UNCHANGED <<tables, stores, issued, given, used>>

\* addOrGetDeviceId and addUserActivity; an answer to a request for a challenge
\* hands it to the client.
LogActivity(p) ==
    /\ \/ At(p, "u_log") /\ Goto(p, "u_write") /\ UNCHANGED given
       \/ At(p, "d_log") /\ Goto(p, "d_del") /\ UNCHANGED given
       \/ At(p, "k_log") /\ Reply(p) /\ given' = given \cup {rq[p].chal}
       \/ At(p, "log") /\ Reply(p) /\ UNCHANGED given
    /\ UNCHANGED <<tables, stores, issued, used>>

-----------------------------------------------------------------------------
(* Passkeys and their challenges. *)

Active == IF link = "up" THEN "redis" ELSE "memory"
Key(p) == IF rq[p].op \in {"askreg", "add"} THEN "reg" ELSE "auth"

\* A command to Redis whose answer is lost was carried out nevertheless.
GotoOrFail(p, r) ==
    \/ Become(p, r)
    \/ "call" \in Faults /\ link = "up" /\ Reply(p)

\* findUser, which reads nothing of this module.
ReadUser(p) ==
    /\ \/ At(p, "k_user") /\ Goto(p, "k_list")
       \/ At(p, "user") /\ Goto(p, "take")
    /\ UNCHANGED <<tables, stores, issued, given, used>>

\* The user's passkeys are listed and the options with a challenge generated.
\* Bound: MaxChallenges.
GenerateOptions(p) ==
    /\ At(p, "k_list") /\ issued < MaxChallenges
    /\ issued' = issued + 1
    /\ Become(p, [rq[p] EXCEPT !.at = "k_set", !.chal = issued + 1])
    /\ UNCHANGED <<tables, stores, given, used>>

SetChallenge(p) ==
    /\ At(p, "k_set")
    /\ slot' = [slot EXCEPT ![Active][Key(p)] = rq[p].chal]
    /\ GotoOrFail(p, [rq[p] EXCEPT !.at = "k_log"])
    /\ UNCHANGED <<tables, link, issued, given, used>>

\* Fault: the challenge is read and left where it is.
TakeChallengeKeep(p) ==
    /\ At(p, "take")
    /\ LET c == slot[Active][Key(p)] IN
       /\ IF c = 0 \/ (rq[p].op = "add" /\ rq[p].resp # c)
          THEN Reply(p) /\ UNCHANGED used
          ELSE IF rq[p].op = "add"
          THEN Goto(p, "p_cred") /\ used' = [used EXCEPT ![c] = @ + 1]
          ELSE Become(p, [rq[p] EXCEPT !.at = "s_find", !.chal = c]) /\ UNCHANGED used
    /\ UNCHANGED <<tables, stores, issued, given>>

\* getAndDelete: GET and DEL go out in one pipeline, on the one connection.  A
\* registration is verified against the challenge at once.
TakeChallenge(p) ==
    /\ At(p, "take")
    /\ LET c == slot[Active][Key(p)] IN
       /\ slot' = [slot EXCEPT ![Active][Key(p)] = 0]
       /\ IF c = 0 \/ (rq[p].op = "add" /\ rq[p].resp # c)
          THEN Reply(p) /\ UNCHANGED used
          ELSE IF rq[p].op = "add"
          THEN \/ Goto(p, "p_cred") /\ used' = [used EXCEPT ![c] = @ + 1]
               \/ "call" \in Faults /\ link = "up" /\ Reply(p) /\ UNCHANGED used
          ELSE GotoOrFail(p, [rq[p] EXCEPT !.at = "s_find", !.chal = c]) /\ UNCHANGED used
    /\ UNCHANGED <<tables, link, issued, given>>

\* credential_id is unique: a second row throws.
CreatePasskey(p) ==
    /\ At(p, "p_cred")
    /\ LET k == rq[p].cred IN
       IF passkeys[k] # -1 THEN Reply(p) /\ UNCHANGED passkeys
       ELSE passkeys' = [passkeys EXCEPT ![k] = rq[p].count] /\ Goto(p, "p_exists")
    /\ UNCHANGED <<methods, nextMethod, stores, issued, given, used>>

\* The upsert: the method is there, is there but disabled, or is to be added.
FindPasskeys(p) ==
    /\ At(p, "p_exists")
    /\ LET found == {m \in methods : m.kind = "PASSKEYS"} IN
       \/ found = {} /\ Goto(p, "find")
       \/ \E m \in found :
             IF m.enabled THEN Finish(p)
             ELSE Become(p, [rq[p] EXCEPT !.at = "p_enable", !.aim = m.id])
    /\ UNCHANGED <<tables, stores, issued, given, used>>

EnableMethod(p) ==
    /\ At(p, "p_enable")
    /\ IF WithId(rq[p].aim) = {} THEN Reply(p) ELSE Finish(p)
    /\ methods' = {IF m.id = rq[p].aim THEN [m EXCEPT !.enabled = TRUE] ELSE m : m \in methods}
    /\ UNCHANGED <<nextMethod, passkeys, stores, issued, given, used>>

\* Fault: the counter of the response is not compared.
Genuine(p) == rq[p].resp = rq[p].chal
\* verifyAuthenticationResponse: the challenge is the one expected, and the
\* counter is above the one stored, or the authenticator does not count.
Verified(p) ==
    /\ rq[p].resp = rq[p].chal
    /\ rq[p].count > passkeys[rq[p].cred] \/ (rq[p].count = 0 /\ passkeys[rq[p].cred] = 0)

FindPasskey(p) ==
    /\ At(p, "s_find")
    /\ IF passkeys[rq[p].cred] # -1 /\ Verified(p)
       THEN Goto(p, "s_count") /\ used' = [used EXCEPT ![rq[p].chal] = @ + 1]
       ELSE Reply(p) /\ UNCHANGED used
    /\ UNCHANGED <<tables, stores, issued, given>>

WriteCounter(p) ==
    /\ At(p, "s_count")
    /\ passkeys' = [passkeys EXCEPT ![rq[p].cred] = rq[p].count]
    /\ Finish(p)
    /\ UNCHANGED <<methods, nextMethod, stores, issued, given, used>>

-----------------------------------------------------------------------------
(* The store and the process. *)

Forget == slot' = [slot EXCEPT !["memory"] = [key \in Keys |-> 0]]

\* A challenge lives for CHALLENGE_TTL_SEC; a fixed time is any time here.
ExpireChallenge ==
    /\ \E s \in Stores, key \in Keys :
          slot[s][key] # 0 /\ slot' = [slot EXCEPT ![s][key] = 0]
    /\ UNCHANGED <<tables, link, issued, given, rq, used>>

Connect ==
    /\ link = "connecting" /\ link' = "up"
    /\ UNCHANGED <<tables, slot, issued, given, rq, used>>

\* An 'error' event, or a connect that fails: nothing takes useMemory back.
Lose ==
    /\ "lose" \in Faults /\ link # "lost" /\ link' = "lost"
    /\ UNCHANGED <<tables, slot, issued, given, rq, used>>

Crash ==
    /\ "crash" \in Faults
    /\ Forget /\ link' = "connecting"
    /\ rq' = [p \in Procs |-> Idle]
    /\ UNCHANGED <<tables, issued, given, used>>

\* An await rejects; every handler catches, and answers success: false.
CallThrows(p) ==
    /\ "call" \in Faults /\ ~At(p, "idle")
    /\ Reply(p)
    /\ UNCHANGED <<tables, stores, issued, given, used>>

-----------------------------------------------------------------------------
MethodStep(p) ==
    \/ FindPrimary(p) \/ Demote(p) \/ InsertMethod(p) \/ FindMethod(p) \/ WriteMethod(p)
    \/ DeleteMethod(p) \/ VerifyCode(p) \/ LogActivity(p)
PasskeyStep(p) ==
    \/ ReadUser(p) \/ GenerateOptions(p) \/ SetChallenge(p) \/ TakeChallenge(p)
    \/ CreatePasskey(p) \/ FindPasskeys(p) \/ EnableMethod(p) \/ FindPasskey(p) \/ WriteCounter(p)

Next ==
    \/ \E p \in Procs : Arrive(p) \/ MethodStep(p) \/ PasskeyStep(p) \/ CallThrows(p)
    \/ ExpireChallenge \/ Connect \/ Lose \/ Crash

Spec == Init /\ [][Next]_vars

-----------------------------------------------------------------------------
(* One method is primary: getPrimary2Fa and verify take the first they find. *)

IdsOK ==
    /\ \A m \in methods : m.id < nextMethod
    /\ \A m, n \in methods : m.id = n.id => m = n

\* The request that makes a method primary has seen to the one that was.
Cleared(p) ==
    /\ At(p, "demote") => \A m \in Primaries : m.id = rq[p].aim
    /\ At(p, "insert") \/ (At(p, "u_log") \/ At(p, "u_write")) => Primaries = {}
PromotionOK ==
    "promote" \in Solo => \A p \in Procs : "promote" \in ClassesOf(p) => Cleared(p)

\* Promotions that do not overlap leave at most one primary method, whatever
\* else runs, is deleted under them or fails (create demotes the old one first).
OnePrimary == "promote" \in Solo => \A m, n \in Primaries : m = n

-----------------------------------------------------------------------------
(* Challenges. *)

\* A challenge on its way into a store, or taken out and not yet compared.
InHand(p, c) == (At(p, "k_set") \/ At(p, "s_find")) /\ rq[p].chal = c
Stored(c) == \E s \in Stores, key \in Keys : slot[s][key] = c
Open(c) == Stored(c) \/ \E p \in Procs : InHand(p, c)

\* A challenge is in one place, and in none once it was used.
ChallengesOK ==
    /\ \A s \in Stores, key \in Keys : slot[s][key] <= issued
    /\ \A s, t \in Stores, j, k \in Keys :
          slot[s][j] = slot[t][k] => slot[s][j] = 0 \/ (s = t /\ j = k)
    /\ \A p \in Procs, c \in 0..MaxChallenges :
          InHand(p, c) => /\ c \in 1..issued /\ ~Stored(c)
                          /\ \A q \in Procs : InHand(q, c) => q = p
    /\ \A c \in Challenges : used[c] > 0 => c <= issued /\ ~Open(c)

\* "One-time use": no challenge completes two ceremonies, whatever interleaves
\* over the two stores, is lost or crashes.
ChallengeOnce == \A c \in Challenges : used[c] <= 1

Status == [c \in Challenges |->
              IF used[c] > 1 THEN "reused" ELSE IF used[c] = 1 THEN "used"
              ELSE IF c > issued THEN "new" ELSE IF Open(c) THEN "open" ELSE "void"]

\* So the challenges of the ceremonies are those of OneTime.
Abstract == INSTANCE OneTime WITH status <- Status
ImplementsOneTime == Abstract!Spec

-----------------------------------------------------------------------------
(* "Update the counter to protect against replay attacks." *)

CounterOK ==
    "sign" \in Solo => \A p \in Procs : At(p, "s_count") =>
        passkeys[rq[p].cred] # -1 /\ rq[p].count >= passkeys[rq[p].cred]

\* Verifications that do not overlap never turn the stored counter back, so no
\* response with a counter seen before is verified again.
CounterNeverFalls ==
    [][\A k \in Creds : "sign" \in Solo => passkeys'[k] >= passkeys[k]]_vars

\* Where a request stands tells its operation, and that it has a challenge.
Placed(r) ==
    /\ r.at \in {"find", "demote"} => Promotes(r.op, r.primary)
    /\ r.at = "insert" => r.op \in {"create", "add"}
    /\ r.at \in {"u_find", "u_log", "u_write"} => r.op = "update"
    /\ r.at \in {"user", "take"} => r.op \in {"add", "sign"}
    /\ r.at \in {"p_cred", "p_exists"} => r.op = "add"
    /\ r.at \in {"s_find", "s_count"} => r.op = "sign"
    /\ r.at \in {"k_set", "k_log"} => r.chal # 0
PlacesOK == \A p \in Procs : Placed(rq[p])

SoloOK ==
    \A p, q \in Procs : p # q => ClassesOf(p) \cap ClassesOf(q) \cap Solo = {}

IInv == TypeOK /\ IdsOK /\ PlacesOK /\ SoloOK /\ PromotionOK /\ OnePrimary
        /\ ChallengesOK /\ ChallengeOnce /\ CounterOK
=============================================================================
