------------------------ MODULE Authentication_proofs ------------------------
(***************************************************************************)
(* Proofs about Authentication, for any number of threads, keys and any    *)
(* lifetime of the cache, whatever the clock shows at the start.           *)
(***************************************************************************)
EXTENDS Authentication, TLAPS

Steady == {k \in OldKeys : withdrawn_at[k] = 0}

\* Cognito and its clock: a key that was withdrawn does not come back.
Calendar ==
  /\ clock >= 1 /\ fetched_at <= clock
  /\ published # {} /\ Steady \subseteq published
  /\ \A k \in Keys : withdrawn_at[k] <= clock /\ (withdrawn_at[k] # 0 => k \notin published)

\* What was cached is nothing, or has the keys that stay.  Unless requests
\* overlapped, the stamp is no later than the moment Cognito sent the keys.
Cached ==
  /\ cache # {} => Steady \subseteq cache
  /\ ~mixed => \A k \in cache : withdrawn_at[k] = 0 \/ fetched_at <= withdrawn_at[k]

CognitoSteps == {"look", "fetch", "landed", "stamp", "return", "miss"}

\* What a request has in hand has the keys that stay, too.
Holds(t) ==
  /\ thread[t].now <= clock
  /\ At(t, "landed") => thread[t].served # {} /\ Steady \subseteq thread[t].served
  /\ thread[t].step \in {"stamp", "return", "miss"} => cache # {}
  /\ At(t, "miss") => Kid(t) \notin Steady

\* What a request that is alone knows of the age of the keys.
KnowsAge(t) ==
  thread[t].alone =>
    /\ thread[t].step \in {"fetch", "landed", "stamp"} => fetched_at <= thread[t].now
    /\ At(t, "landed") =>
         \A k \in thread[t].served : withdrawn_at[k] = 0 \/ thread[t].now <= withdrawn_at[k]
    /\ At(t, "stamp") /\ ~mixed =>
         \A k \in cache : withdrawn_at[k] = 0 \/ thread[t].now <= withdrawn_at[k]
    /\ At(t, "return") /\ ~mixed /\ ~thread[t].failed =>
         \A k \in cache : withdrawn_at[k] = 0 \/ thread[t].now < withdrawn_at[k] + TTL

\* What a request that is alone knows after it has forced a refresh.
KnowsKey(t) ==
  /\ thread[t].step \in CognitoSteps /\ thread[t].ready =>
       Kid(t) \in Keys /\ (Kid(t) \in published \/ withdrawn_at[Kid(t)] # 0)
  /\ Rotated(t) /\ thread[t].forced =>
       /\ At(t, "look") => fetched_at = 0
       /\ At(t, "landed") => thread[t].now < TTL \/ Kid(t) \in thread[t].served
       /\ thread[t].step \in {"stamp", "return"} => thread[t].now < TTL \/ Kid(t) \in cache
       /\ At(t, "miss") => thread[t].now < TTL

KnowsApp(t) ==
  /\ At(t, "app") /\ thread[t].ready => app
  /\ At(t, "initialise") => ~thread[t].ready
  /\ At(t, "initialise") /\ thread[t].alone => ~app

Apart(t) == thread[t].alone => \A u \in Threads \ {t} : At(u, "idle")

Knows(t) == Holds(t) /\ KnowsAge(t) /\ KnowsKey(t) /\ KnowsApp(t) /\ Apart(t)

Inv == TypeOK /\ Calendar /\ Cached /\ \A t \in Threads : Knows(t)

-----------------------------------------------------------------------------
\* The request of a thread that has none, and the token it does not have.
LEMMA IdleRequest == Idle \in Request /\ NoToken \in Tokens \cup {NoToken}
PROOF
  BY DEF Idle, Request, Steps

\* A request that has ended, or not begun, knows nothing.
LEMMA IdleKnows ==
  ASSUME NEW t \in Threads, thread[t] = Idle, clock \in Nat
  PROVE  Knows(t)
PROOF
<1>1. thread[t].step = "idle" /\ thread[t].now = 0 /\ ~thread[t].ready /\ ~thread[t].alone
  BY DEF Idle
<1>2. Holds(t)
  BY <1>1 DEF Holds, At
<1>3. KnowsAge(t) /\ Apart(t)
  BY <1>1 DEF KnowsAge, Apart
<1>4. KnowsKey(t)
  BY <1>1 DEF KnowsKey, Rotated
<1>5. KnowsApp(t)
  BY <1>1 DEF KnowsApp, At
<1> QED  BY <1>2, <1>3, <1>4, <1>5 DEF Knows

\* At the start nothing is cached and nobody knows anything.
LEMMA InitInv == Init => Inv
PROOF
<1> SUFFICES ASSUME Init PROVE Inv
  OBVIOUS
<1>1. TypeOK
  BY IdleRequest, AuthenticationAssumption DEF Init, TypeOK
<1>2. Calendar
  BY AuthenticationAssumption DEF Init, Calendar, Steady
<1>3. Cached
  BY DEF Init, Cached
<1>4. ASSUME NEW t \in Threads PROVE Knows(t)
  <2>1. thread[t] = Idle /\ clock \in Nat
    BY AuthenticationAssumption DEF Init
  <2> QED  BY <2>1, IdleKnows
<1> QED  BY <1>1, <1>2, <1>3, <1>4 DEF Inv

\* The type of a request.
LEMMA RequestType ==
  ASSUME TypeOK, NEW t \in Threads
  PROVE  /\ thread[t] \in Request
         /\ thread[t].step \in Steps /\ thread[t].token \in Tokens \cup {NoToken}
         /\ thread[t].now \in Nat /\ thread[t].served \in SUBSET Keys
         /\ thread[t].forced \in BOOLEAN /\ thread[t].failed \in BOOLEAN
         /\ thread[t].ready \in BOOLEAN /\ thread[t].alone \in BOOLEAN
PROOF
<1>1. thread[t] \in Request
  BY DEF TypeOK
<1> QED  BY <1>1 DEF Request

\* A request under way spoils the solitude of the others.
LEMMA NotAlone ==
  ASSUME Inv, NEW t \in Threads, ~At(t, "idle"), NEW u \in Threads \ {t}
  PROVE  ~thread[u].alone
PROOF
  BY DEF Inv, Knows, Apart

\* What a step of one request must do to keep the invariant: the other requests
\* are not alone, and lose nothing as long as the cache and the app stay.
LEMMA OneRequest ==
  ASSUME Inv, NEW t \in Threads, ~At(t, "idle"), UNCHANGED provider,
         TypeOK', Calendar', Cached', cache # {} => cache' # {}, app => app', Knows(t)',
         \A u \in Threads \ {t} : thread'[u] = thread[u]
  PROVE  Inv'
PROOF
<1>1. ASSUME NEW u \in Threads \ {t} PROVE Knows(u)'
  <2>1. thread'[u] = thread[u] /\ ~thread[u].alone /\ Knows(u)
    BY NotAlone DEF Inv
  <2>2. UNCHANGED <<published, withdrawn_at, clock>>
    BY DEF provider
  <2>3. Holds(u)'
    BY <2>1, <2>2 DEF Knows, Holds, At, Kid, Steady
  <2>4. KnowsAge(u)' /\ Apart(u)'
    BY <2>1 DEF KnowsAge, Apart
  <2>5. KnowsKey(u)'
    BY <2>1, <2>2 DEF Knows, KnowsKey, Rotated, Kid
  <2>6. KnowsApp(u)'
    BY <2>1 DEF Knows, KnowsApp, At
  <2> QED  BY <2>3, <2>4, <2>5, <2>6 DEF Knows
<1> QED  BY <1>1 DEF Inv

\* ... in particular when the request touches nothing but its own variables.
LEMMA OwnVariables ==
  ASSUME Inv, NEW t \in Threads, ~At(t, "idle"), UNCHANGED <<provider, globals, app>>,
         NEW q \in Request, thread' = [thread EXCEPT ![t] = q], Knows(t)'
  PROVE  Inv'
PROOF
<1>1. UNCHANGED <<published, withdrawn_at, clock, cache, fetched_at, mixed, app>>
  BY DEF provider, globals
<1>2. thread' \in [Threads -> Request] /\ \A u \in Threads \ {t} : thread'[u] = thread[u]
  BY DEF Inv, TypeOK
<1>3. TypeOK'
  BY <1>1, <1>2 DEF Inv, TypeOK
<1>4. Calendar' /\ Cached'
  BY <1>1 DEF Inv, Calendar, Cached, Steady
<1> QED  BY <1>1, <1>2, <1>3, <1>4, OneRequest

\* A request that ends leaves its thread knowing nothing, and what the
\* others know does not depend on it.
LEMMA EndKeeps ==
  ASSUME Inv, NEW t \in Threads, ~At(t, "idle"), UNCHANGED <<provider, globals, app>>, End(t)
  PROVE  Inv'
PROOF
<1>1. thread' = [thread EXCEPT ![t] = Idle] /\ Idle \in Request
  BY IdleRequest DEF End
<1>2. thread'[t] = Idle /\ clock' \in Nat
  BY <1>1 DEF Inv, TypeOK, provider
<1>3. Knows(t)'
  <2>1. thread'[t].step = "idle" /\ thread'[t].now = 0 /\ ~thread'[t].ready /\ ~thread'[t].alone
    BY <1>2 DEF Idle
  <2>2. Holds(t)' /\ KnowsApp(t)'
    BY <2>1, <1>2 DEF Holds, KnowsApp, At
  <2>3. KnowsAge(t)' /\ Apart(t)' /\ KnowsKey(t)'
    BY <2>1 DEF KnowsAge, Apart, KnowsKey, Rotated
  <2> QED  BY <2>2, <2>3 DEF Knows
<1> QED  BY <1>1, <1>3, OwnVariables

-----------------------------------------------------------------------------
(* Cognito and the clock. *)

\* Time that passes makes no stamp and no reading of the clock later than now.
LEMMA TickInv == Inv /\ Tick => Inv'
PROOF
<1> SUFFICES ASSUME Inv, Tick PROVE Inv'
  OBVIOUS
<1>1. /\ clock \in Nat /\ clock' = clock + 1
      /\ UNCHANGED <<published, withdrawn_at, cache, fetched_at, mixed, app, thread>>
  BY DEF Inv, TypeOK, Tick, globals
<1>2. TypeOK'
  BY <1>1 DEF Inv, TypeOK
<1>3. Calendar'
  BY <1>1 DEF Inv, TypeOK, Calendar, Steady
<1>4. Cached'
  BY <1>1 DEF Inv, Cached, Steady
<1>5. ASSUME NEW t \in Threads PROVE Knows(t)'
  <2>1. Knows(t) /\ thread[t].now \in Nat
    BY RequestType DEF Inv
  <2>2. Holds(t)'
    BY <1>1, <2>1 DEF Knows, Holds, At, Kid, Steady
  <2>3. KnowsAge(t)' /\ KnowsKey(t)' /\ KnowsApp(t)' /\ Apart(t)'
    BY <1>1, <2>1 DEF Knows, KnowsAge, KnowsKey, KnowsApp, Apart, Rotated, At, Kid
  <2> QED  BY <2>2, <2>3 DEF Knows
<1> QED  BY <1>2, <1>3, <1>4, <1>5 DEF Inv

\* A key that is published was never withdrawn, so that what requests know of
\* withdrawn keys still holds.
LEMMA PublishInv ==
  ASSUME Inv, NEW k \in Keys, Publish(k)
  PROVE  Inv'
PROOF
<1>1. /\ k \notin published /\ withdrawn_at[k] = 0 /\ published' = published \cup {k}
      /\ UNCHANGED <<withdrawn_at, clock, cache, fetched_at, mixed, app, thread>>
  BY DEF Publish, globals
<1>2. TypeOK'
  BY <1>1 DEF Inv, TypeOK
<1>3. Calendar'
  BY <1>1 DEF Inv, Calendar, Steady
<1>4. Cached'
  BY <1>1 DEF Inv, Cached, Steady
<1>5. ASSUME NEW t \in Threads PROVE Knows(t)'
  <2>1. Knows(t)
    BY DEF Inv
  <2>2. Holds(t)'
    BY <1>1, <2>1 DEF Knows, Holds, At, Kid, Steady
  <2>3. KnowsAge(t)' /\ KnowsApp(t)' /\ Apart(t)'
    BY <1>1, <2>1 DEF Knows, KnowsAge, KnowsApp, Apart, At
  <2>4. Rotated(t)' /\ thread[t].step \in CognitoSteps => Rotated(t)
    BY <1>1, <2>1 DEF Knows, KnowsKey, Rotated, Kid
  <2>5. KnowsKey(t)'
    BY <1>1, <2>1, <2>4 DEF Knows, KnowsKey, At, Kid, CognitoSteps
  <2> QED  BY <2>2, <2>3, <2>5 DEF Knows
<1> QED  BY <1>2, <1>3, <1>4, <1>5 DEF Inv

\* A withdrawal is stamped with the present, which is no earlier than any stamp
\* of the cache or reading of the clock; the steady keys are still published.
LEMMA WithdrawInv ==
  ASSUME Inv, NEW k \in Keys, Withdraw(k)
  PROVE  Inv'
PROOF
<1>1. /\ k \in published /\ published # {k} /\ published' = published \ {k}
      /\ withdrawn_at' = [withdrawn_at EXCEPT ![k] = clock]
      /\ UNCHANGED <<clock, cache, fetched_at, mixed, app, thread>>
  BY DEF Withdraw, globals
<1>2. /\ withdrawn_at \in [Keys -> Nat] /\ clock \in Nat /\ clock >= 1 /\ fetched_at \in Nat
      /\ published \subseteq Keys /\ cache \subseteq Keys
  BY DEF Inv, TypeOK, Calendar
<1>3. withdrawn_at'[k] = clock /\ \A j \in Keys \ {k} : withdrawn_at'[j] = withdrawn_at[j]
  BY <1>1, <1>2
<1>4. Steady' \subseteq Steady /\ k \notin Steady'
  BY <1>2, <1>3, AuthenticationAssumption DEF Steady
<1>5. TypeOK'
  BY <1>1, <1>2 DEF Inv, TypeOK
<1>6. Calendar'
  BY <1>1, <1>2, <1>3, <1>4 DEF Inv, Calendar
<1>7. Cached'
  BY <1>1, <1>2, <1>3, <1>4 DEF Inv, Cached, Calendar
<1>8. ASSUME NEW t \in Threads PROVE Knows(t)'
  <2>1. Knows(t) /\ thread[t].now \in Nat /\ thread[t].served \subseteq Keys
    BY RequestType DEF Inv
  <2>2. thread[t].now <= clock /\ TTL \in Nat \ {0}
    BY <2>1, AuthenticationAssumption DEF Knows, Holds
  <2>3. Holds(t)'
    BY <1>1, <1>4, <2>1 DEF Knows, Holds, At, Kid
  <2>4. KnowsAge(t)'
    BY <1>1, <1>2, <1>3, <2>1, <2>2 DEF Knows, KnowsAge, At
  <2>5. KnowsApp(t)' /\ Apart(t)'
    BY <1>1, <2>1 DEF Knows, KnowsApp, Apart, At
  <2>6. Rotated(t)' => Rotated(t)
    BY <1>1 DEF Rotated, Kid
  <2>7. KnowsKey(t)'
    BY <1>1, <1>2, <1>3, <2>1, <2>6 DEF Knows, KnowsKey, At, Kid
  <2> QED  BY <2>3, <2>4, <2>5, <2>7 DEF Knows
<1> QED  BY <1>5, <1>6, <1>7, <1>8 DEF Inv

-----------------------------------------------------------------------------
(* A request. *)

\* A request as Present begins it has the type of a request.
LEMMA NewRequest ==
  ASSUME NEW s \in Steps, NEW token \in Tokens, NEW r \in BOOLEAN, NEW a \in BOOLEAN
  PROVE  [Idle EXCEPT !.step = s, !.token = token, !.ready = r, !.alone = a] \in Request
PROOF
  BY DEF Idle, Request

\* A request that begins finds no other, or takes from all the claim to be alone.
LEMMA PresentInv ==
  ASSUME Inv, NEW t \in Threads, NEW token \in Tokens, Present(t, token)
  PROVE  Inv'
PROOF
<1> DEFINE q == [Idle EXCEPT !.step = IF token.issuer = "cognito" THEN "look" ELSE "app",
                             !.token = token,
                             !.ready = /\ token.issuer = "cognito" => token.kid \in published
                                       /\ token.issuer = "other" => app,
                             !.alone = \A v \in Threads \ {t} : At(v, "idle")]
<1>1. UNCHANGED <<published, withdrawn_at, clock, cache, fetched_at, mixed, app>>
  BY DEF Present, provider, globals
<1>2. thread' = [u \in Threads |-> IF u = t THEN q ELSE [thread[u] EXCEPT !.alone = FALSE]]
  BY DEF Present
<1>3. app \in BOOLEAN /\ clock \in Nat
  BY DEF Inv, TypeOK
<1>4. /\ q.step = IF token.issuer = "cognito" THEN "look" ELSE "app"
      /\ q.token = token /\ q.now = 0 /\ q.served = {} /\ ~q.forced /\ ~q.failed
      /\ q.ready = (/\ token.issuer = "cognito" => token.kid \in published
                    /\ token.issuer = "other" => app)
      /\ q.alone = (\A v \in Threads \ {t} : At(v, "idle"))
  BY DEF Idle
<1>5. q \in Request
  <2> DEFINE s == IF token.issuer = "cognito" THEN "look" ELSE "app"
             r == /\ token.issuer = "cognito" => token.kid \in published
                  /\ token.issuer = "other" => app
             a == \A v \in Threads \ {t} : At(v, "idle")
  <2>1. s \in Steps
    BY DEF Steps
  <2>3. r \in BOOLEAN /\ a \in BOOLEAN
    OBVIOUS
  <2>2. q = [Idle EXCEPT !.step = s, !.token = token, !.ready = r, !.alone = a]
    OBVIOUS
  <2> HIDE DEF s, r, a, q
  <2> QED  BY <2>1, <2>2, <2>3, NewRequest
<1>6. ASSUME NEW u \in Threads \ {t}
      PROVE  /\ thread'[u] \in Request /\ ~thread'[u].alone
             /\ thread'[u].step = thread[u].step /\ thread'[u].token = thread[u].token
             /\ thread'[u].now = thread[u].now /\ thread'[u].served = thread[u].served
             /\ thread'[u].ready = thread[u].ready
  <2>1. thread[u] \in Request /\ thread'[u] = [thread[u] EXCEPT !.alone = FALSE]
    BY <1>2 DEF Inv, TypeOK
  <2> QED  BY <2>1 DEF Request
<1>7. thread'[t] = q
  BY <1>2
<1>13. token.issuer \in {"cognito", "other"}
  BY AuthenticationAssumption
<1>8. TypeOK'
  BY <1>1, <1>2, <1>5, <1>6 DEF Inv, TypeOK
<1>9. Calendar' /\ Cached'
  BY <1>1 DEF Inv, Calendar, Cached, Steady
<1>10. Knows(t)'
  <2>1. Holds(t)'
    BY <1>1, <1>3, <1>4, <1>7 DEF Holds, At
  <2>2. KnowsAge(t)'
    BY <1>4, <1>7 DEF KnowsAge, At
  <2>3. KnowsKey(t)'
    <3>1. thread'[t].step \in CognitoSteps /\ thread'[t].ready => token.kid \in published
      <4> HIDE DEF q
      <4> QED  BY <1>4, <1>7, <1>13 DEF CognitoSteps
    <3>2. ~thread'[t].forced /\ thread'[t].token = token
      BY <1>4, <1>7
    <3>3. published \subseteq Keys
      BY DEF Inv, TypeOK
    <3> HIDE DEF q
    <3> QED  BY <1>1, <3>1, <3>2, <3>3 DEF KnowsKey, Kid
  <2>4. KnowsApp(t)'
    BY <1>1, <1>4, <1>7, <1>13 DEF KnowsApp, At
  <2>5. Apart(t)'
    BY <1>4, <1>6, <1>7 DEF Apart, At
  <2> QED  BY <2>1, <2>2, <2>3, <2>4, <2>5 DEF Knows
<1>11. ASSUME NEW u \in Threads \ {t} PROVE Knows(u)'
  <2>1. Knows(u)
    BY DEF Inv
  <2>2. Holds(u)'
    BY <1>1, <1>6, <2>1 DEF Knows, Holds, At, Kid, Steady
  <2>3. KnowsAge(u)' /\ Apart(u)'
    BY <1>6 DEF KnowsAge, Apart
  <2>4. KnowsKey(u)'
    BY <1>1, <1>6, <2>1 DEF Knows, KnowsKey, Rotated, Kid
  <2>5. KnowsApp(u)'
    BY <1>1, <1>6, <2>1 DEF Knows, KnowsApp, At
  <2> QED  BY <2>2, <2>3, <2>4, <2>5 DEF Knows
<1> QED  BY <1>8, <1>9, <1>10, <1>11 DEF Inv

\* A request that returns what is cached found the stamp younger than the
\* lifetime; one that fetches has just read the clock.
LEMMA LookInv ==
  ASSUME Inv, NEW t \in Threads, Look(t)
  PROVE  Inv'
PROOF
<1> DEFINE q == [thread[t] EXCEPT !.step = IF Fresh THEN "return" ELSE "fetch", !.now = clock]
<1>1. At(t, "look") /\ UNCHANGED <<provider, globals, app>> /\ thread' = [thread EXCEPT ![t] = q]
  BY DEF Look
<1>2. thread[t] \in Request /\ clock \in Nat /\ fetched_at \in Nat /\ Knows(t)
  BY DEF Inv, TypeOK
<1>3. /\ q \in Request /\ q.step = (IF Fresh THEN "return" ELSE "fetch") /\ q.now = clock
      /\ q.token = thread[t].token /\ q.forced = thread[t].forced /\ q.failed = thread[t].failed
      /\ q.ready = thread[t].ready /\ q.alone = thread[t].alone
  BY <1>2 DEF Request, Steps
<1>4. thread'[t] = q /\ \A u \in Threads \ {t} : thread'[u] = thread[u]
  BY <1>1 DEF Inv, TypeOK
<1>5. UNCHANGED <<published, withdrawn_at, clock, cache, fetched_at, mixed, app>>
  BY <1>1 DEF provider, globals
<1>6. Fresh => cache # {} /\ clock < fetched_at + TTL
  BY DEF Fresh
<1>7. ~Fresh /\ fetched_at = 0 => cache = {} \/ clock >= TTL
  BY <1>2, AuthenticationAssumption DEF Fresh
<1>8. Holds(t)'
  BY <1>2, <1>3, <1>4, <1>5, <1>6 DEF Holds, At
<1>9. KnowsAge(t)'
  <2>1. fetched_at <= clock
    BY DEF Inv, Calendar
  <2>2. Fresh /\ ~mixed =>
          \A k \in cache : withdrawn_at[k] = 0 \/ clock < withdrawn_at[k] + TTL
    <3>1. cache \subseteq Keys /\ withdrawn_at \in [Keys -> Nat] /\ TTL \in Nat
      BY AuthenticationAssumption DEF Inv, TypeOK
    <3> QED  BY <1>2, <1>6, <3>1 DEF Inv, Cached
  <2> QED  BY <1>3, <1>4, <1>5, <2>1, <2>2 DEF KnowsAge, At
<1>10. KnowsKey(t)'
  <2>1. thread[t].step \in CognitoSteps
    BY <1>1 DEF CognitoSteps, At
  <2>2. Rotated(t)' => Rotated(t)
    BY <1>3, <1>4, <1>5 DEF Rotated, Kid
  <2>3. Fresh /\ fetched_at = 0 => clock < TTL
    BY <1>2, <1>6, AuthenticationAssumption
  <2> QED  BY <1>1, <1>2, <1>3, <1>4, <1>5, <2>1, <2>2, <2>3 DEF Knows, KnowsKey, At, Kid
<1>11. KnowsApp(t)'
  BY <1>3, <1>4 DEF KnowsApp, At
<1>12. Apart(t)'
  BY <1>2, <1>3, <1>4 DEF Knows, Apart, At
<1>13. ~At(t, "idle")
  BY <1>1 DEF At
<1> HIDE DEF q
<1> QED  BY <1>1, <1>3, <1>8, <1>9, <1>10, <1>11, <1>12, <1>13, OwnVariables DEF Knows

\* What Cognito answers has the steady keys, and no key withdrawn before the
\* clock was read.
LEMMA ServeInv ==
  ASSUME Inv, NEW t \in Threads, Serve(t)
  PROVE  Inv'
PROOF
<1> DEFINE q == [thread[t] EXCEPT !.step = "landed", !.served = published]
<1>1. At(t, "fetch") /\ UNCHANGED <<provider, globals, app>> /\ thread' = [thread EXCEPT ![t] = q]
  BY DEF Serve
<1>2. thread[t] \in Request /\ published \subseteq Keys /\ Knows(t)
  BY DEF Inv, TypeOK
<1>3. /\ q \in Request /\ q.step = "landed" /\ q.served = published /\ q.now = thread[t].now
      /\ q.token = thread[t].token /\ q.forced = thread[t].forced /\ q.failed = thread[t].failed
      /\ q.ready = thread[t].ready /\ q.alone = thread[t].alone
  BY <1>2 DEF Request, Steps
<1>4. thread'[t] = q /\ \A u \in Threads \ {t} : thread'[u] = thread[u]
  BY <1>1 DEF Inv, TypeOK
<1>5. UNCHANGED <<published, withdrawn_at, clock, cache, fetched_at, mixed, app>>
  BY <1>1 DEF provider, globals
<1>6. \A k \in published : withdrawn_at[k] = 0
  BY <1>2 DEF Inv, Calendar
<1>7. Holds(t)'
  BY <1>2, <1>3, <1>4, <1>5 DEF Inv, Calendar, Knows, Holds, At, Steady
<1>8. KnowsAge(t)'
  BY <1>1, <1>2, <1>3, <1>4, <1>5, <1>6 DEF Knows, KnowsAge, At
<1>9. KnowsKey(t)'
  BY <1>1, <1>2, <1>3, <1>4, <1>5 DEF Knows, KnowsKey, Rotated, At, Kid, CognitoSteps
<1>10. KnowsApp(t)' /\ Apart(t)'
  BY <1>2, <1>3, <1>4 DEF Knows, KnowsApp, Apart, At
<1>11. ~At(t, "idle")
  BY <1>1 DEF At
<1> HIDE DEF q
<1> QED  BY <1>1, <1>3, <1>7, <1>8, <1>9, <1>10, <1>11, OwnVariables DEF Knows

\* The stored answer has the steady keys; the stamp is not yet its own, so its
\* age is known only to a request that is alone.
LEMMA StoreInv ==
  ASSUME Inv, NEW t \in Threads, Store(t)
  PROVE  Inv'
PROOF
<1> DEFINE q == [thread[t] EXCEPT !.step = "stamp", !.served = {}]
<1>1. /\ At(t, "landed") /\ cache' = thread[t].served /\ mixed' = ~thread[t].alone
      /\ UNCHANGED <<provider, fetched_at, app>> /\ thread' = [thread EXCEPT ![t] = q]
  BY DEF Store
<1>2. thread[t] \in Request /\ Knows(t)
  BY DEF Inv, TypeOK
<1>3. /\ q \in Request /\ q.step = "stamp" /\ q.served = {} /\ q.now = thread[t].now
      /\ q.token = thread[t].token /\ q.forced = thread[t].forced /\ q.failed = thread[t].failed
      /\ q.ready = thread[t].ready /\ q.alone = thread[t].alone
  BY <1>2 DEF Request, Steps
<1> HIDE DEF q
<1>4. /\ thread'[t] = q /\ \A u \in Threads \ {t} : thread'[u] = thread[u]
      /\ thread' \in [Threads -> Request]
  BY <1>1, <1>3 DEF Inv, TypeOK
<1>5. UNCHANGED <<published, withdrawn_at, clock, fetched_at, app>>
  BY <1>1 DEF provider
<1>6. thread[t].served \in SUBSET Keys /\ thread[t].alone \in BOOLEAN /\ thread[t].now \in Nat
  BY <1>2 DEF Request
<1>7. TypeOK'
  BY <1>1, <1>4, <1>5, <1>6 DEF Inv, TypeOK
<1>8. Calendar'
  BY <1>5 DEF Inv, Calendar, Steady
<1>9. Cached'
  <2>1. cache' # {} /\ Steady' \subseteq cache'
    BY <1>1, <1>2, <1>5 DEF Knows, Holds, Steady
  <2>2. ASSUME ~mixed', NEW k \in cache'
        PROVE  withdrawn_at'[k] = 0 \/ fetched_at' <= withdrawn_at'[k]
    <3>1. thread[t].alone /\ k \in thread[t].served
      BY <1>1, <2>2
    <3>2. fetched_at <= thread[t].now
          /\ (withdrawn_at[k] = 0 \/ thread[t].now <= withdrawn_at[k])
      BY <1>1, <1>2, <3>1 DEF Knows, KnowsAge, At
    <3>3. withdrawn_at[k] \in Nat /\ fetched_at \in Nat
      BY <1>6, <3>1 DEF Inv, TypeOK
    <3> QED  BY <1>5, <1>6, <3>2, <3>3
  <2> QED  BY <2>1, <2>2 DEF Cached
<1>10. cache' # {}
  BY <1>1, <1>2 DEF Knows, Holds
<1>11. Holds(t)'
  BY <1>2, <1>3, <1>4, <1>5, <1>10 DEF Knows, Holds, At
<1>12. KnowsAge(t)'
  BY <1>1, <1>2, <1>3, <1>4, <1>5 DEF Knows, KnowsAge, At
<1>13. KnowsKey(t)'
  BY <1>1, <1>2, <1>3, <1>4, <1>5 DEF Knows, KnowsKey, Rotated, At, Kid, CognitoSteps
<1>14. KnowsApp(t)' /\ Apart(t)'
  BY <1>2, <1>3, <1>4 DEF Knows, KnowsApp, Apart, At
<1>15. ~At(t, "idle") /\ UNCHANGED provider
  BY <1>1 DEF At
<1> QED  BY <1>4, <1>5, <1>7, <1>8, <1>9, <1>10, <1>11, <1>12, <1>13, <1>14, <1>15, OneRequest DEF Knows

\* The stamp is the reading of the clock from before the answer: no later than
\* the moment Cognito sent it, unless someone else's keys were stored since.
LEMMA StampInv ==
  ASSUME Inv, NEW t \in Threads, Stamp(t)
  PROVE  Inv'
PROOF
<1> DEFINE q == [thread[t] EXCEPT !.step = "return"]
<1>1. /\ At(t, "stamp") /\ fetched_at' = thread[t].now /\ mixed' = (mixed \/ ~thread[t].alone)
      /\ UNCHANGED <<provider, cache, app>> /\ thread' = [thread EXCEPT ![t] = q]
  BY DEF Stamp, Goto
<1>2. thread[t] \in Request /\ Knows(t)
  BY DEF Inv, TypeOK
<1>3. /\ q \in Request /\ q.step = "return" /\ q.now = thread[t].now
      /\ q.token = thread[t].token /\ q.forced = thread[t].forced /\ q.failed = thread[t].failed
      /\ q.ready = thread[t].ready /\ q.alone = thread[t].alone
  BY <1>2 DEF Request, Steps
<1> HIDE DEF q
<1>4. /\ thread'[t] = q /\ \A u \in Threads \ {t} : thread'[u] = thread[u]
      /\ thread' \in [Threads -> Request]
  BY <1>1, <1>3 DEF Inv, TypeOK
<1>5. UNCHANGED <<published, withdrawn_at, clock, cache, app>>
  BY <1>1 DEF provider
<1>6. thread[t].alone \in BOOLEAN /\ thread[t].now \in Nat /\ thread[t].now <= clock
  BY <1>2 DEF Request, Knows, Holds
<1>7. TypeOK'
  BY <1>1, <1>4, <1>5, <1>6 DEF Inv, TypeOK
<1>8. Calendar'
  BY <1>1, <1>5, <1>6 DEF Inv, Calendar, Steady
<1>9. ~mixed' => \A k \in cache : withdrawn_at[k] = 0 \/ thread[t].now <= withdrawn_at[k]
  BY <1>1, <1>2 DEF Knows, KnowsAge, At
<1>10. Cached'
  BY <1>1, <1>5, <1>9 DEF Inv, Cached, Steady
<1>11. Holds(t)'
  BY <1>1, <1>2, <1>3, <1>4, <1>5 DEF Knows, Holds, At
<1>12. KnowsAge(t)'
  <2>1. \A k \in cache : withdrawn_at[k] \in Nat
    BY DEF Inv, TypeOK
  <2>2. ~mixed' => \A k \in cache : withdrawn_at[k] = 0 \/ thread[t].now < withdrawn_at[k] + TTL
    BY <1>6, <1>9, <2>1, AuthenticationAssumption
  <2> QED  BY <1>3, <1>4, <1>5, <2>2 DEF KnowsAge, At
<1>13. KnowsKey(t)'
  BY <1>1, <1>2, <1>3, <1>4, <1>5 DEF Knows, KnowsKey, Rotated, At, Kid, CognitoSteps
<1>14. KnowsApp(t)' /\ Apart(t)'
  BY <1>2, <1>3, <1>4 DEF Knows, KnowsApp, Apart, At
<1>15. ~At(t, "idle") /\ UNCHANGED provider
  BY <1>1 DEF At
<1> QED  BY <1>4, <1>5, <1>7, <1>8, <1>10, <1>11, <1>12, <1>13, <1>14, <1>15, OneRequest DEF Knows

\* A failed fetch leaves the cache; the request remembers that it failed.
LEMMA FallBackInv ==
  ASSUME Inv, NEW t \in Threads, FallBack(t)
  PROVE  Inv'
PROOF
<1> DEFINE q == [thread[t] EXCEPT !.step = "return", !.failed = TRUE]
<1>1. /\ At(t, "fetch") /\ cache # {} /\ UNCHANGED <<provider, globals, app>>
      /\ thread' = [thread EXCEPT ![t] = q]
  BY DEF FallBack
<1>2. thread[t] \in Request /\ Knows(t)
  BY DEF Inv, TypeOK
<1>3. /\ q \in Request /\ q.step = "return" /\ q.failed /\ q.now = thread[t].now
      /\ q.token = thread[t].token /\ q.forced = thread[t].forced
      /\ q.ready = thread[t].ready /\ q.alone = thread[t].alone
  BY <1>2 DEF Request, Steps
<1>4. thread'[t] = q /\ \A u \in Threads \ {t} : thread'[u] = thread[u]
  BY <1>1 DEF Inv, TypeOK
<1>5. UNCHANGED <<published, withdrawn_at, clock, cache, fetched_at, mixed, app>>
  BY <1>1 DEF provider, globals
<1> HIDE DEF q
<1>6. Holds(t)'
  BY <1>1, <1>2, <1>3, <1>4, <1>5 DEF Knows, Holds, At
<1>7. KnowsAge(t)'
  BY <1>3, <1>4 DEF KnowsAge, At
<1>8. KnowsKey(t)'
  BY <1>1, <1>2, <1>3, <1>4, <1>5 DEF Knows, KnowsKey, Rotated, At, Kid, CognitoSteps
<1>9. KnowsApp(t)' /\ Apart(t)'
  BY <1>2, <1>3, <1>4 DEF Knows, KnowsApp, Apart, At
<1>10. ~At(t, "idle")
  BY <1>1 DEF At
<1> QED  BY <1>1, <1>3, <1>6, <1>7, <1>8, <1>9, <1>10, OwnVariables DEF Knows

\* A key that is not in the cache is not a steady one.
LEMMA MissInv ==
  ASSUME Inv, NEW t \in Threads, Miss(t)
  PROVE  Inv'
PROOF
<1> DEFINE q == [thread[t] EXCEPT !.step = "miss"]
<1>1. /\ At(t, "return") /\ Kid(t) \notin cache /\ UNCHANGED <<provider, globals, app>>
      /\ thread' = [thread EXCEPT ![t] = q]
  BY DEF Miss, Goto
<1>2. thread[t] \in Request /\ Knows(t)
  BY DEF Inv, TypeOK
<1>3. /\ q \in Request /\ q.step = "miss" /\ q.failed = thread[t].failed /\ q.now = thread[t].now
      /\ q.token = thread[t].token /\ q.forced = thread[t].forced
      /\ q.ready = thread[t].ready /\ q.alone = thread[t].alone
  BY <1>2 DEF Request, Steps
<1>4. thread'[t] = q /\ \A u \in Threads \ {t} : thread'[u] = thread[u]
  BY <1>1 DEF Inv, TypeOK
<1>5. UNCHANGED <<published, withdrawn_at, clock, cache, fetched_at, mixed, app>>
  BY <1>1 DEF provider, globals
<1> HIDE DEF q
<1>6. Holds(t)'
  <2>1. cache # {} /\ Steady \subseteq cache
    BY <1>1, <1>2 DEF Inv, Cached, Knows, Holds, At
  <2> QED  BY <1>1, <1>2, <1>3, <1>4, <1>5, <2>1 DEF Knows, Holds, At, Kid, Steady
<1>7. KnowsAge(t)'
  BY <1>3, <1>4 DEF KnowsAge, At
<1>8. KnowsKey(t)'
  BY <1>1, <1>2, <1>3, <1>4, <1>5 DEF Knows, KnowsKey, Rotated, At, Kid, CognitoSteps
<1>9. KnowsApp(t)' /\ Apart(t)'
  BY <1>2, <1>3, <1>4 DEF Knows, KnowsApp, Apart, At
<1>10. ~At(t, "idle")
  BY <1>1 DEF At
<1> QED  BY <1>1, <1>3, <1>6, <1>7, <1>8, <1>9, <1>10, OwnVariables DEF Knows

\* The forced refresh resets the stamp, which makes no key look younger.
LEMMA RefreshInv ==
  ASSUME Inv, NEW t \in Threads, Refresh(t)
  PROVE  Inv'
PROOF
<1> DEFINE q == [thread[t] EXCEPT !.step = "look", !.forced = TRUE, !.failed = FALSE]
<1>1. /\ At(t, "miss") /\ fetched_at' = 0
      /\ UNCHANGED <<provider, cache, mixed, app>> /\ thread' = [thread EXCEPT ![t] = q]
  BY DEF Refresh
<1>2. thread[t] \in Request /\ Knows(t)
  BY DEF Inv, TypeOK
<1>3. /\ q \in Request /\ q.step = "look" /\ q.now = thread[t].now
      /\ q.token = thread[t].token /\ q.ready = thread[t].ready /\ q.alone = thread[t].alone
  BY <1>2 DEF Request, Steps
<1> HIDE DEF q
<1>4. /\ thread'[t] = q /\ \A u \in Threads \ {t} : thread'[u] = thread[u]
      /\ thread' \in [Threads -> Request]
  BY <1>1, <1>3 DEF Inv, TypeOK
<1>5. UNCHANGED <<published, withdrawn_at, clock, cache, mixed, app>>
  BY <1>1 DEF provider
<1>6. TypeOK'
  BY <1>1, <1>4, <1>5 DEF Inv, TypeOK
<1>7. Calendar'
  BY <1>1, <1>5 DEF Inv, TypeOK, Calendar, Steady
<1>8. Cached'
  <2>1. \A k \in cache : withdrawn_at[k] \in Nat
    BY DEF Inv, TypeOK
  <2> QED  BY <1>1, <1>5, <2>1 DEF Inv, Cached, Steady
<1>9. Holds(t)'
  BY <1>2, <1>3, <1>4, <1>5 DEF Knows, Holds, At
<1>10. KnowsAge(t)'
  BY <1>3, <1>4 DEF KnowsAge, At
<1>11. KnowsKey(t)'
  BY <1>1, <1>2, <1>3, <1>4, <1>5 DEF Knows, KnowsKey, Rotated, At, Kid, CognitoSteps
<1>12. KnowsApp(t)' /\ Apart(t)'
  BY <1>2, <1>3, <1>4 DEF Knows, KnowsApp, Apart, At
<1>13. ~At(t, "idle") /\ UNCHANGED provider
  BY <1>1 DEF At
<1> QED  BY <1>4, <1>5, <1>6, <1>7, <1>8, <1>9, <1>10, <1>11, <1>12, <1>13, OneRequest DEF Knows

\* A request alone that found no Firebase app finds none when it initialises.
LEMMA GetAppInv ==
  ASSUME Inv, NEW t \in Threads, GetApp(t)
  PROVE  Inv'
PROOF
<1> DEFINE q == [thread[t] EXCEPT !.step = IF app THEN "firebase" ELSE "initialise"]
<1>1. /\ At(t, "app") /\ UNCHANGED <<provider, globals, app>>
      /\ thread' = [thread EXCEPT ![t] = q]
  BY DEF GetApp, Goto
<1>2. thread[t] \in Request /\ Knows(t)
  BY DEF Inv, TypeOK
<1>3. /\ q \in Request /\ q.step = (IF app THEN "firebase" ELSE "initialise")
      /\ q.now = thread[t].now /\ q.ready = thread[t].ready /\ q.alone = thread[t].alone
  BY <1>2 DEF Request, Steps
<1>4. thread'[t] = q /\ \A u \in Threads \ {t} : thread'[u] = thread[u]
  BY <1>1 DEF Inv, TypeOK
<1>5. UNCHANGED <<published, withdrawn_at, clock, cache, fetched_at, mixed, app>>
  BY <1>1 DEF provider, globals
<1> HIDE DEF q
<1>6. q.step \in {"firebase", "initialise"} /\ (q.step = "initialise" => ~app)
  BY <1>3
<1>7. Holds(t)'
  BY <1>2, <1>3, <1>4, <1>5, <1>6 DEF Knows, Holds, At
<1>8. KnowsAge(t)' /\ KnowsKey(t)'
  BY <1>4, <1>6 DEF KnowsAge, KnowsKey, At, CognitoSteps
<1>9. KnowsApp(t)' /\ Apart(t)'
  BY <1>1, <1>2, <1>3, <1>4, <1>5, <1>6 DEF Knows, KnowsApp, Apart, At
<1>10. ~At(t, "idle")
  BY <1>1 DEF At
<1> QED  BY <1>1, <1>3, <1>7, <1>8, <1>9, <1>10, OwnVariables DEF Knows

\* The app exists once it was initialised, and is never taken back.
LEMMA InitialiseInv ==
  ASSUME Inv, NEW t \in Threads, Initialise(t)
  PROVE  Inv'
PROOF
<1> DEFINE q == [thread[t] EXCEPT !.step = "firebase"]
<1>1. /\ At(t, "initialise") /\ app' = TRUE
      /\ UNCHANGED <<provider, globals>> /\ thread' = [thread EXCEPT ![t] = q]
  BY DEF Initialise, Goto
<1>2. thread[t] \in Request /\ Knows(t)
  BY DEF Inv, TypeOK
<1>3. /\ q \in Request /\ q.step = "firebase" /\ q.now = thread[t].now /\ q.alone = thread[t].alone
  BY <1>2 DEF Request, Steps
<1> HIDE DEF q
<1>4. /\ thread'[t] = q /\ \A u \in Threads \ {t} : thread'[u] = thread[u]
      /\ thread' \in [Threads -> Request]
  BY <1>1, <1>3 DEF Inv, TypeOK
<1>5. UNCHANGED <<published, withdrawn_at, clock, cache, fetched_at, mixed>>
  BY <1>1 DEF provider, globals
<1>6. TypeOK'
  BY <1>1, <1>4, <1>5 DEF Inv, TypeOK
<1>7. Calendar' /\ Cached'
  BY <1>5 DEF Inv, Calendar, Cached, Steady
<1>8. Holds(t)'
  BY <1>2, <1>3, <1>4, <1>5 DEF Knows, Holds, At
<1>9. KnowsAge(t)' /\ KnowsKey(t)' /\ KnowsApp(t)'
  BY <1>3, <1>4 DEF KnowsAge, KnowsKey, KnowsApp, At, CognitoSteps
<1>10. Apart(t)'
  BY <1>2, <1>3, <1>4 DEF Knows, Apart, At
<1>11. ~At(t, "idle") /\ UNCHANGED provider
  BY <1>1 DEF At
<1> QED  BY <1>1, <1>4, <1>5, <1>6, <1>7, <1>8, <1>9, <1>10, <1>11, OneRequest DEF Knows

\* Every step of a request keeps the invariant.
LEMMA StepInv ==
  ASSUME Inv, NEW t \in Threads, Step(t)
  PROVE  Inv'
PROOF
<1>1. CASE \E token \in Tokens : Present(t, token)
  BY <1>1, PresentInv
<1>2. CASE Look(t) \/ Serve(t) \/ Store(t) \/ Stamp(t) \/ FallBack(t)
  BY <1>2, LookInv, ServeInv, StoreInv, StampInv, FallBackInv
<1>3. CASE Miss(t) \/ Refresh(t) \/ GetApp(t) \/ Initialise(t)
  BY <1>3, MissInv, RefreshInv, GetAppInv, InitialiseInv
<1>4. CASE Unavailable(t) \/ Unknown(t) \/ Check(t) \/ InitialiseAgain(t) \/ InitialiseFails(t)
           \/ Verify(t)
  <2>1. ~At(t, "idle") /\ End(t) /\ UNCHANGED <<provider, globals, app>>
    BY <1>4 DEF At, Unavailable, Unknown, Check, InitialiseAgain, InitialiseFails, Verify
  <2> QED  BY <2>1, EndKeeps
<1> QED  BY <1>1, <1>2, <1>3, <1>4 DEF Step

\* So does every step of the system, or of none of it.
LEMMA NextInv == Inv /\ [Next]_vars => Inv'
PROOF
<1> SUFFICES ASSUME Inv, [Next]_vars PROVE Inv'
  OBVIOUS
<1>1. CASE Tick
  BY <1>1, TickInv
<1>2. CASE \E k \in Keys : Publish(k) \/ Withdraw(k)
  BY <1>2, PublishInv, WithdrawInv
<1>3. CASE \E t \in Threads : Step(t)
  BY <1>3, StepInv
<1>4. CASE UNCHANGED vars
  <2>1. UNCHANGED <<published, withdrawn_at, clock, cache, fetched_at, mixed, app, thread>>
    BY <1>4 DEF vars
  <2>2. TypeOK' /\ Calendar' /\ Cached'
    BY <2>1 DEF Inv, TypeOK, Calendar, Cached, Steady
  <2>3. ASSUME NEW t \in Threads PROVE Knows(t)'
    BY <2>1 DEF Inv, Knows, Holds, KnowsAge, KnowsKey, KnowsApp, Apart, Rotated, At, Kid, Steady
  <2> QED  BY <2>2, <2>3 DEF Inv
<1> QED  BY <1>1, <1>2, <1>3, <1>4 DEF Next

\* What a thread knows of the cache and its age is always true (the JWKS cache
\* of backends.py under threads, rotation and failed fetches).
THEOREM Invariance == Spec => []Inv
PROOF
  BY InitInv, NextInv, PTL DEF Spec

-----------------------------------------------------------------------------
\* The variables keep their types.
THEOREM TypeCorrect == Spec => []TypeOK
PROOF
<1>1. Inv => TypeOK
  BY DEF Inv
<1> QED  BY <1>1, Invariance, PTL

\* A key that was published all along is never unknown.
THEOREM SteadyKeyIsKnown == Spec => SteadyKeyKnown
PROOF
<1> DEFINE Kept == \A t \in Threads : Unknown(t) => Kid(t) \notin OldKeys \/ withdrawn_at[Kid(t)] # 0
<1>1. Inv /\ [Next]_vars => [Kept]_vars
  BY DEF Inv, Knows, Holds, Unknown, Steady
<1> QED  BY <1>1, Invariance, PTL DEF Spec, SteadyKeyKnown

\* A request that is alone, and whose forced refresh is answered, finds a
\* published key, if the clock has passed the lifetime of the cache.
THEOREM RotatedKeyIsFound == Spec => RotatedKeyFound
PROOF
<1>1. ASSUME Inv, NEW t \in Threads, Rotated(t), Unknown(t) PROVE thread[t].now < TTL
  <2>1. At(t, "miss") /\ Knows(t) /\ (Kid(t) = NoKey \/ thread[t].forced)
    BY <1>1 DEF Inv, Unknown
  <2>2. Kid(t) # NoKey
    BY <1>1, AuthenticationAssumption DEF Inv, TypeOK, Rotated
  <2> QED  BY <1>1, <2>1, <2>2 DEF Knows, KnowsKey
<1> DEFINE Kept == \A t \in Threads : Rotated(t) /\ Unknown(t) => thread[t].now < TTL
<1>2. Inv /\ [Next]_vars => [Kept]_vars
  BY <1>1
<1> QED  BY <1>2, Invariance, PTL DEF Spec, RotatedKeyFound

\* A withdrawn key is trusted for less than the lifetime of the cache after it
\* was withdrawn, by requests that are alone and whose fetch did not fail.
THEOREM WithdrawnKeyExpires == Spec => WithdrawnExpires
PROOF
<1>1. ASSUME Inv, NEW t \in Threads, Check(t), thread[t].alone, ~mixed, ~thread[t].failed
      PROVE  withdrawn_at[Kid(t)] = 0 \/ thread[t].now < withdrawn_at[Kid(t)] + TTL
  <2>1. At(t, "return") /\ Kid(t) \in cache /\ Knows(t)
    BY <1>1 DEF Inv, Check
  <2> QED  BY <1>1, <2>1 DEF Knows, KnowsAge, At
<1> DEFINE Kept == \A t \in Threads :
                     Check(t) /\ thread[t].alone /\ ~mixed /\ ~thread[t].failed =>
                       withdrawn_at[Kid(t)] = 0 \/ thread[t].now < withdrawn_at[Kid(t)] + TTL
<1>2. Inv /\ [Next]_vars => [Kept]_vars
  BY <1>1
<1> QED  BY <1>2, Invariance, PTL DEF Spec, WithdrawnExpires

\* A failed initialisation of Firebase, whether it is the second one or finds no
\* usable credentials, hits only a request that began before there was an app;
\* if there is one by then, another request has overlapped it.
THEOREM InitialisationIsOnce == Spec => InitialisedOnce
PROOF
<1> DEFINE Kept == \A t \in Threads : InitialiseAgain(t) \/ InitialiseFails(t) =>
                     ~thread[t].ready /\ (app => ~thread[t].alone)
<1>1. Inv /\ [Next]_vars => [Kept]_vars
  BY DEF Inv, Knows, KnowsApp, InitialiseAgain, InitialiseFails
<1> QED  BY <1>1, Invariance, PTL DEF Spec, InitialisedOnce

=============================================================================
