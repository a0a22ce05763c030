--------------------------- MODULE Authentication ---------------------------
(***************************************************************************)
(* How a bearer token is verified.  CognitoJWTAuthentication comes first;  *)
(* it passes on a token of another issuer, which FirebaseJWTAuthentication *)
(* then accepts or refuses.  Cognito's public keys (the JWKS) are cached   *)
(* in two globals of the process.  Requests run in threads of one process, *)
(* nothing locks the globals, and Cognito rotates its keys.                *)
(*                                                                         *)
(* A step reads or writes the globals once.  Abstracted: the claims, the   *)
(* user object, and whether the signature holds, which is checked in the   *)
(* last step and concerns nobody else.  A request without a bearer token   *)
(* touches nothing, nor does the API key of the operators.  Names ending   *)
(* in Mutant are wrong on purpose, see ConversationRow.                    *)
(***************************************************************************)
EXTENDS Naturals

CONSTANTS
  Threads,   \* requests that may run at the same time
  Keys,      \* signing keys Cognito uses in a behaviour, by kid
  OldKeys,   \* ... the ones it publishes at the start
  NoKey,     \* the kid of a token without one
  Tokens,    \* what customers may present
  TTL,       \* _JWKS_CACHE_TTL
  Boot,      \* time.monotonic() at the start: its origin is the machine's affair
  MaxTime    \* bound: the last instant of a behaviour

ASSUME AuthenticationAssumption ==
  /\ OldKeys \subseteq Keys /\ OldKeys # {}
  /\ NoKey \notin Keys
  /\ Tokens \subseteq [issuer : {"cognito", "other"}, kid : Keys \cup {NoKey}]
  /\ TTL \in Nat \ {0} /\ Boot \in Nat \ {0} /\ MaxTime \in Nat

VARIABLES
  published,      \* the keys in Cognito's JWKS
  withdrawn_at,   \* withdrawn_at[k]: when k left it; 0: it has not
  clock,          \* time.monotonic()
  cache,          \* _cognito_jwks_cache; {}: None (Cognito always publishes a key)
  fetched_at,     \* _cognito_jwks_fetched_at
  mixed,          \* history: the two were last written by requests that overlapped
  app,            \* the Firebase app is initialised
  thread          \* thread[t]: what the request in thread t is doing

vars == <<published, withdrawn_at, clock, cache, fetched_at, mixed, app, thread>>
provider == <<published, withdrawn_at, clock>>
globals  == <<cache, fetched_at, mixed>>

Steps == {"idle", "look", "fetch", "landed", "stamp", "return", "miss",
          "app", "initialise", "firebase"}

NoToken == [issuer |-> "none", kid |-> NoKey]

\* served is the JWKS on its way back, forced whether it was refreshed for this
\* token, failed whether the last fetch failed.  The rest is history: whether
\* what the token needs, a published key or the Firebase app, was there when the
\* request began, and whether no other request has overlapped it.
Request == [step : Steps, token : Tokens \cup {NoToken}, now : Nat, served : SUBSET Keys,
            forced : BOOLEAN, failed : BOOLEAN, ready : BOOLEAN, alone : BOOLEAN]

Idle == [step |-> "idle", token |-> NoToken, now |-> 0, served |-> {},
         forced |-> FALSE, failed |-> FALSE, ready |-> FALSE, alone |-> FALSE]

TypeOK ==
  /\ published \in SUBSET Keys
  /\ withdrawn_at \in [Keys -> Nat]
  /\ clock \in Nat
  /\ cache \in SUBSET Keys
  /\ fetched_at \in Nat
  /\ mixed \in BOOLEAN
  /\ app \in BOOLEAN
  /\ thread \in [Threads -> Request]

Init ==
  /\ published = OldKeys
  /\ withdrawn_at = [k \in Keys |-> 0]
  /\ clock = Boot
  /\ cache = {}
  /\ fetched_at = 0
  /\ mixed = FALSE
  /\ app = FALSE
  /\ thread = [t \in Threads |-> Idle]

-----------------------------------------------------------------------------
(* Cognito and the clock. *)

Tick ==
  /\ clock < MaxTime
  /\ clock' = clock + 1
  /\ UNCHANGED <<published, withdrawn_at, globals, app, thread>>

Publish(k) ==
  /\ k \notin published /\ withdrawn_at[k] = 0
  /\ published' = published \cup {k}
  /\ UNCHANGED <<withdrawn_at, clock, globals, app, thread>>

Withdraw(k) ==
  /\ k \in published /\ published # {k}
  /\ published' = published \ {k}
  /\ withdrawn_at' = [withdrawn_at EXCEPT ![k] = clock]
  /\ UNCHANGED <<clock, globals, app, thread>>

-----------------------------------------------------------------------------
(* A request. *)

At(t, step)   == thread[t].step = step
Goto(t, step) == thread' = [thread EXCEPT ![t].step = step]
End(t)        == thread' = [thread EXCEPT ![t] = Idle]
Kid(t)        == thread[t].token.kid

\* The issuer, read without verifying, decides which class takes the token.
Present(t, token) ==
  /\ At(t, "idle")
  /\ thread' = [u \in Threads |->
       IF u = t
       THEN [Idle EXCEPT !.step = IF token.issuer = "cognito" THEN "look" ELSE "app",
                         !.token = token,
                         !.ready = /\ token.issuer = "cognito" => token.kid \in published
                                   /\ token.issuer = "other" => app,
                         !.alone = \A v \in Threads \ {t} : At(v, "idle")]
       ELSE [thread[u] EXCEPT !.alone = FALSE]]
  /\ UNCHANGED <<provider, globals, app>>

\* _get_cognito_jwks
FreshMutant == cache # {}   \* a cache without a lifetime

Fresh == cache # {} /\ clock < fetched_at + TTL

Look(t) ==
  /\ At(t, "look")
  /\ thread' = [thread EXCEPT ![t].step = IF Fresh THEN "return" ELSE "fetch", ![t].now = clock]
  /\ UNCHANGED <<provider, globals, app>>

Serve(t) ==
  /\ At(t, "fetch")
  /\ thread' = [thread EXCEPT ![t].step = "landed", ![t].served = published]
  /\ UNCHANGED <<provider, globals, app>>

StoreMutant(t) ==   \* adds what is new to what was cached
  /\ At(t, "landed")
  /\ cache' = cache \cup thread[t].served
  /\ mixed' = ~thread[t].alone
  /\ thread' = [thread EXCEPT ![t].step = "stamp", ![t].served = {}]
  /\ UNCHANGED <<provider, fetched_at, app>>

Store(t) ==
  /\ At(t, "landed")
  /\ cache' = thread[t].served
  /\ mixed' = ~thread[t].alone
  /\ thread' = [thread EXCEPT ![t].step = "stamp", ![t].served = {}]
  /\ UNCHANGED <<provider, fetched_at, app>>

Stamp(t) ==
  /\ At(t, "stamp")
  /\ fetched_at' = thread[t].now
  /\ mixed' = (mixed \/ ~thread[t].alone)
  /\ Goto(t, "return")
  /\ UNCHANGED <<provider, cache, app>>

FallBackMutant(t) ==   \* forgets what was cached when Cognito does not answer
  /\ At(t, "fetch")
  /\ cache # {}
  /\ cache' = {}
  /\ End(t)
  /\ UNCHANGED <<provider, fetched_at, mixed, app>>

FallBack(t) ==
  /\ At(t, "fetch")
  /\ cache # {}
  /\ thread' = [thread EXCEPT ![t].step = "return", ![t].failed = TRUE]
  /\ UNCHANGED <<provider, globals, app>>

Unavailable(t) ==
  /\ At(t, "fetch")
  /\ cache = {}
  /\ End(t)
  /\ UNCHANGED <<provider, globals, app>>

\* _decode_cognito_token.  The global is read again, whoever wrote it last; the
\* search in it and the check of the signature concern nobody else.
Miss(t) ==
  /\ At(t, "return")
  /\ Kid(t) \notin cache
  /\ Goto(t, "miss")
  /\ UNCHANGED <<provider, globals, app>>

RefreshMutant(t) ==   \* does not mark the cache as old
  /\ At(t, "miss")
  /\ Kid(t) # NoKey /\ ~thread[t].forced
  /\ thread' = [thread EXCEPT ![t].step = "look", ![t].forced = TRUE, ![t].failed = FALSE]
  /\ UNCHANGED <<provider, globals, app>>

Refresh(t) ==
  /\ At(t, "miss")
  /\ Kid(t) # NoKey /\ ~thread[t].forced
  /\ fetched_at' = 0
  /\ thread' = [thread EXCEPT ![t].step = "look", ![t].forced = TRUE, ![t].failed = FALSE]
  /\ UNCHANGED <<provider, cache, mixed, app>>

Unknown(t) ==
  /\ At(t, "miss")
  /\ Kid(t) = NoKey \/ thread[t].forced
  /\ End(t)
  /\ UNCHANGED <<provider, globals, app>>

Check(t) ==
  /\ At(t, "return")
  /\ Kid(t) \in cache
  /\ End(t)
  /\ UNCHANGED <<provider, globals, app>>

\* FirebaseJWTAuthentication: get_app, and initialize_app when there is none.
GetAppMutant(t) ==   \* initialises without looking
  /\ At(t, "app")
  /\ Goto(t, "initialise")
  /\ UNCHANGED <<provider, globals, app>>

GetApp(t) ==
  /\ At(t, "app")
  /\ Goto(t, IF app THEN "firebase" ELSE "initialise")
  /\ UNCHANGED <<provider, globals, app>>

Initialise(t) ==
  /\ At(t, "initialise")
  /\ ~app
  /\ app' = TRUE
  /\ Goto(t, "firebase")
  /\ UNCHANGED <<provider, globals>>

\* initialize_app raises when the app exists, and any exception is a refusal.
InitialiseAgain(t) ==
  /\ At(t, "initialise")
  /\ app
  /\ End(t)
  /\ UNCHANGED <<provider, globals, app>>

\* The credentials cannot be read, as Base64 or as a file, or the initialisation
\* itself raises: a refusal that leaves the app as it is.
InitialiseFails(t) ==
  /\ At(t, "initialise")
  /\ End(t)
  /\ UNCHANGED <<provider, globals, app>>

\* verify_id_token: the claims, or an exception; Firebase's keys may be out of reach.
Verify(t) ==
  /\ At(t, "firebase")
  /\ End(t)
  /\ UNCHANGED <<provider, globals, app>>

Step(t) ==
  \/ \E token \in Tokens : Present(t, token)
  \/ Look(t) \/ Serve(t) \/ Store(t) \/ Stamp(t) \/ FallBack(t) \/ Unavailable(t)
  \/ Miss(t) \/ Refresh(t) \/ Unknown(t) \/ Check(t)
  \/ GetApp(t) \/ Initialise(t) \/ InitialiseAgain(t) \/ InitialiseFails(t) \/ Verify(t)

Next ==
  \/ Tick
  \/ \E k \in Keys : Publish(k) \/ Withdraw(k)
  \/ \E t \in Threads : Step(t)

Spec == Init /\ [][Next]_vars

\* Time passes, and a request that fetches again and again is answered at
\* times.  Nothing is assumed about customers or about the threads.
FairSpec ==
  /\ Spec
  /\ WF_vars(Tick)
  /\ \A t \in Threads : SF_vars(Serve(t))

-----------------------------------------------------------------------------
\* A key that was published all along is never unknown, whatever other threads,
\* rotations and failed fetches do to the cache.
SteadyKeyKnown ==
  [][\A t \in Threads : Unknown(t) => Kid(t) \notin OldKeys \/ withdrawn_at[Kid(t)] # 0]_vars

Rotated(t) == thread[t].ready /\ Kid(t) \in published /\ thread[t].alone /\ ~thread[t].failed

\* "Key not found - try refreshing JWKS in case keys were rotated": a request
\* that no other overlaps, and whose fetch does not fail, finds a published key.
RefreshFindsKey == [][\A t \in Threads : Rotated(t) => ~Unknown(t)]_vars

\* ... which the code ensures once the clock has passed the lifetime of the
\* cache: before that, a cache stamped 0 still counts as fresh.
RotatedKeyFound == [][\A t \in Threads : Rotated(t) /\ Unknown(t) => thread[t].now < TTL]_vars

\* A withdrawn key opens the door for less than the lifetime of the cache, or
\* while Cognito cannot be reached; unless requests overlapped and one of them
\* put back an older set of keys under a newer stamp.
WithdrawnExpires ==
  [][\A t \in Threads :
       Check(t) /\ thread[t].alone /\ ~mixed /\ ~thread[t].failed =>
         withdrawn_at[Kid(t)] = 0 \/ thread[t].now < withdrawn_at[Kid(t)] + TTL]_vars

\* A token is turned away where the app is initialised only when its request
\* found no app, and, if the app is there by then, only when another request
\* has overlapped it: a failed initialisation harms nobody who comes later.
InitialisedOnce ==
  [][\A t \in Threads : InitialiseAgain(t) \/ InitialiseFails(t) =>
       ~thread[t].ready /\ (app => ~thread[t].alone)]_vars

\* After the last rotation the refusals end: the overlapping fetches that
\* refuse a current key do not keep each other wrong for ever.
RefusalsEnd ==
  <>[][\A t \in Threads : Unknown(t) => Kid(t) \notin published]_vars

=============================================================================
