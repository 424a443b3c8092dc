-------------------------- MODULE IdempotencyKeys ---------------------------
(***************************************************************************)
(* The idempotency keys of the gateway: apiRequest of web-admin            *)
(* (apps/web-admin/lib/api.ts) sends every mutation with a key, its own or *)
(* one the caller keeps for a second try, and IdempotencyInterceptor of    *)
(* libs/common answers a key it knows from memory without calling the      *)
(* handler.  Answers are stored when the handler has succeeded, live for a *)
(* day and are lost with the process.                                      *)
(*                                                                         *)
(* Abstracted: time is the age of an answer in ticks; a handler takes      *)
(* effect or not; a key stands for tenant and header, since the cache key  *)
(* has both; GETs, which have no key and no effect (apiRequest repeats     *)
(* those only), and mutations without a key, which the interceptor passes  *)
(* on.  Nest runs the interceptor and the handler, and fetch rejects when  *)
(* the connection is lost, at any time before the answer.                  *)
(***************************************************************************)
EXTENDS Handlers

CONSTANTS
  Calls,        \* apiRequest calls of a mutation
  Keys,         \* idempotency keys
  KeyTTL        \* age in ticks at which a stored answer has expired

ASSUME KeyTTLAssumption == KeyTTL \in Nat \ {0}

VARIABLES
  call,         \* the client's calls, Null before they are made
  cache,        \* the interceptor's Map: a call's answer and its age
  ran,          \* how often the handler took effect for a call
  disturbed     \* keys whose answer was lost, late or out of date: history

keyVars == <<call, cache, ran, disturbed>>
idempotencyVars == <<keyVars, req>>

CallState == [key : Keys, status : {"waiting", "done", "failed"},
              answer : Calls \cup {Null}]

Entry == [answer : Calls, age : 0 .. KeyTTL]

ASSUME NoEntryAssumption == Null \notin CallState \cup Entry

KeyRequest ==
  {Idle} \cup [op : {"arrive", "handle", "tap"}, call : Calls, key : Keys]

IdempotencyInit ==
  /\ call = [c \in Calls |-> Null]
  /\ cache = [k \in Keys |-> Null]
  /\ ran = [c \in Calls |-> 0]
  /\ disturbed = {}
  /\ HandlersInit

-----------------------------------------------------------------------------
(***************************************************************************)
(* apiRequest                                                              *)
(***************************************************************************)
Arrive(r, c, k) == Continue(r, [op |-> "arrive", call |-> c, key |-> k])

MakeCall(r, c, k) ==
  /\ req[r] = Idle
  /\ call[c] = Null
  /\ call' = [call EXCEPT ![c] =
                [key |-> k, status |-> "waiting", answer |-> Null]]
  /\ Arrive(r, c, k)
  /\ UNCHANGED <<cache, ran, disturbed>>

Waiting(c) == call[c] # Null /\ call[c].status = "waiting"

\* The first answer or error ends the call; what comes later meets nobody.
Settled(c, status, answer) ==
  IF Waiting(c)
  THEN [call EXCEPT ![c].status = status, ![c].answer = answer]
  ELSE call

\* Mutant: a mutation whose connection is lost is sent again as well.
RepeatCall(c) ==
  /\ Waiting(c)
  /\ ran[c] < 2
  /\ \E r \in Requests : req[r] = Idle /\ Arrive(r, c, call[c].key)
  /\ UNCHANGED keyVars

\* fetch rejects while the gateway may still be at work; shouldRetry lets
\* only GET and HEAD be sent again.
LoseConnection(c) ==
  /\ Waiting(c)
  /\ call' = Settled(c, "failed", Null)
  /\ UNCHANGED <<cache, ran, disturbed, req>>

-----------------------------------------------------------------------------
(***************************************************************************)
(* IdempotencyInterceptor                                                  *)
(***************************************************************************)
Fresh(entry) == entry # Null /\ entry.age < KeyTTL

\* Mutant: the sweep forgets the answers that are about to expire.
SweptEarly ==
  [k \in Keys |-> IF Fresh(cache[k]) /\ cache[k].age + 1 < KeyTTL
                  THEN cache[k] ELSE Null]

\* evictExpiredEntries.
Swept == [k \in Keys |-> IF Fresh(cache[k]) THEN cache[k] ELSE Null]

\* The Map an interceptor looks into: one in a hundred sweeps it before.
Memories == {cache, Swept}

Replay(r, memory) ==
  /\ req[r].op = "arrive"
  /\ Fresh(memory[req[r].key])
  /\ cache' = memory
  /\ call' = Settled(req[r].call, "done", memory[req[r].key].answer)
  /\ Reply(r)
  /\ UNCHANGED <<ran, disturbed>>

Handling(k) ==
  \E s \in Requests : req[s].op \in {"handle", "tap"} /\ req[s].key = k

\* A key that is not in the Map goes on, whoever else is at work on it.
Intercept(r, memory) ==
  /\ req[r].op = "arrive"
  /\ ~Fresh(memory[req[r].key])
  /\ cache' = memory
  /\ disturbed' = IF Handling(req[r].key)
                  THEN disturbed \cup {req[r].key} ELSE disturbed
  /\ Continue(r, [req[r] EXCEPT !.op = "handle"])
  /\ UNCHANGED <<call, ran>>

Execute(r) ==
  /\ req[r].op = "handle"
  /\ ran' = [ran EXCEPT ![req[r].call] = @ + 1]
  /\ Continue(r, [req[r] EXCEPT !.op = "tap"])
  /\ UNCHANGED <<call, cache, disturbed>>

\* tap runs for an answer, not for an error.
Store(r) ==
  /\ req[r].op = "tap"
  /\ cache' = [cache EXCEPT ![req[r].key] =
                 [answer |-> req[r].call, age |-> 0]]
  /\ call' = Settled(req[r].call, "done", req[r].call)
  /\ Reply(r)
  /\ UNCHANGED <<ran, disturbed>>

\* An error ends the request; an effect it had by then is known to nobody.
Fail(r) ==
  /\ req[r].op \in {"arrive", "handle", "tap"}
  /\ call' = Settled(req[r].call, "failed", Null)
  /\ disturbed' = IF req[r].op = "tap"
                  THEN disturbed \cup {req[r].key} ELSE disturbed
  /\ Reply(r)
  /\ UNCHANGED <<cache, ran>>

Tick ==
  /\ \E k \in Keys : Fresh(cache[k])
  /\ cache' = [k \in Keys |->
                 IF Fresh(cache[k])
                 THEN [cache[k] EXCEPT !.age = @ + 1] ELSE cache[k]]
  /\ disturbed' =
       disturbed \cup {k \in Keys : Fresh(cache[k]) /\ ~Fresh(cache'[k])}
  /\ UNCHANGED <<call, ran, req>>

\* The gateway dies: the Map is gone, and so is who was being served.
RestartGateway ==
  /\ cache' = [k \in Keys |-> Null]
  /\ req' = [r \in Requests |-> Idle]
  /\ call' = [c \in Calls |->
                IF Waiting(c) THEN [call[c] EXCEPT !.status = "failed"]
                              ELSE call[c]]
  /\ disturbed' = disturbed \cup {k \in Keys : cache[k] # Null \/ Handling(k)}
  /\ UNCHANGED ran

IdempotencyNext ==
  \/ \E r \in Requests :
       \/ \E c \in Calls, k \in Keys : MakeCall(r, c, k)
       \/ \E memory \in Memories : Replay(r, memory) \/ Intercept(r, memory)
       \/ Execute(r) \/ Store(r) \/ Fail(r)
  \/ \E c \in Calls : LoseConnection(c)
  \/ Tick
  \/ RestartGateway

IdempotencySpec == IdempotencyInit /\ [][IdempotencyNext]_idempotencyVars

-----------------------------------------------------------------------------
IdempotencyTypeOK ==
  /\ call \in [Calls -> CallState \cup {Null}]
  /\ cache \in [Keys -> Entry \cup {Null}]
  /\ ran \in [Calls -> Nat]
  /\ disturbed \subseteq Keys
  /\ req \in [Requests -> KeyRequest]

-----------------------------------------------------------------------------
(***************************************************************************)
(* Properties                                                              *)
(***************************************************************************)
RanWith(c, k) == call[c] # Null /\ call[c].key = k /\ ran[c] > 0

\* However many calls bring the same key, and whatever connections are lost,
\* one of them takes effect; unless one came while another was being handled,
\* the answer expired or was lost with the process, or the handler failed
\* after its effect.
OncePerKey ==
  \A k \in Keys \ disturbed : \A c, d \in Calls :
    RanWith(c, k) /\ RanWith(d, k) => c = d

\* A call takes effect once at the most, also when its connection was lost
\* and the client thinks it failed; and a call that succeeded was given the
\* answer of a call with its own key that took effect.
AnswersAreFounded ==
  \A c \in Calls :
    /\ ran[c] <= 1
    /\ call[c] # Null /\ call[c].status = "done" =>
         call[c].answer \in Calls /\ RanWith(call[c].answer, call[c].key)
=============================================================================
