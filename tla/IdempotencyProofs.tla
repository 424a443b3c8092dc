------------------------- MODULE IdempotencyProofs --------------------------
(***************************************************************************)
(* Proofs about IdempotencyKeys, for every number of clients' calls, keys  *)
(* and requests in flight.                                                 *)
(***************************************************************************)
EXTENDS IdempotencyKeys, TLAPS

-----------------------------------------------------------------------------
(***************************************************************************)
(* The inductive invariant.  Serves ties a request in flight to the call   *)
(* it was made for; Remembers ties a stored answer to a call that took     *)
(* effect; and a key nothing has disturbed has its one effect either in    *)
(* the Map or in the hands of the one request that handles it.             *)
(***************************************************************************)
Busy(r) == req[r] # Idle

Serves(r) ==
  Busy(r) =>
    /\ call[req[r].call] # Null
    /\ call[req[r].call].key = req[r].key
    /\ ran[req[r].call] = IF req[r].op = "tap" THEN 1 ELSE 0

OwnRequest ==
  \A r, s \in Requests :
    Busy(r) /\ Busy(s) /\ req[r].call = req[s].call => r = s

Remembers(k) ==
  cache[k] # Null => RanWith(cache[k].answer, k)

HandledBy(r, k) == req[r].op \in {"handle", "tap"} /\ req[r].key = k

Undisturbed(k) ==
  k \notin disturbed =>
    /\ \A r, s \in Requests : HandledBy(r, k) /\ HandledBy(s, k) => r = s
    /\ \A r \in Requests : HandledBy(r, k) => cache[k] = Null
    /\ cache[k] # Null => Fresh(cache[k])
    /\ \A c \in Calls : RanWith(c, k) =>
         \/ cache[k] # Null /\ cache[k].answer = c
         \/ \E r \in Requests : req[r].op = "tap" /\ req[r].call = c

Answered(c) ==
  /\ ran[c] \in {0, 1}
  /\ call[c] = Null => ran[c] = 0
  /\ call[c] # Null /\ call[c].status = "done" =>
       call[c].answer \in Calls /\ RanWith(call[c].answer, call[c].key)

KeyInv ==
  /\ IdempotencyTypeOK
  /\ OwnRequest
  /\ \A r \in Requests : Serves(r)
  /\ \A k \in Keys : Remembers(k) /\ Undisturbed(k)
  /\ \A c \in Calls : Answered(c)

-----------------------------------------------------------------------------
\* What a request in flight carries.
LEMMA RequestFields ==
  ASSUME IdempotencyTypeOK, NEW r \in Requests
  PROVE  /\ Busy(r) <=> req[r].op \in {"arrive", "handle", "tap"}
         /\ Busy(r) => /\ req[r].call \in Calls
                       /\ req[r].key \in Keys
                       /\ req[r] = [op |-> req[r].op, call |-> req[r].call,
                                    key |-> req[r].key]
BY DEF IdempotencyTypeOK, KeyRequest, Busy, Idle

LEMMA SettledType ==
  ASSUME IdempotencyTypeOK, NEW c \in Calls, NEW answer \in Calls \cup {Null},
         NEW status \in {"waiting", "done", "failed"}
  PROVE  Settled(c, status, answer) \in [Calls -> CallState \cup {Null}]
<1>1. CASE Waiting(c)
  <2>1. call[c] \in CallState
    BY <1>1 DEF IdempotencyTypeOK, Waiting
  <2>2. [call[c] EXCEPT !.status = status, !.answer = answer] \in CallState
    BY <2>1 DEF CallState
  <2> QED
    BY <1>1, <2>2 DEF IdempotencyTypeOK, Settled
<1>2. CASE ~Waiting(c)
  BY <1>2 DEF IdempotencyTypeOK, Settled
<1> QED
  BY <1>1, <1>2

LEMMA MemoryType ==
  ASSUME IdempotencyTypeOK, NEW memory \in Memories
  PROVE  /\ memory \in [Keys -> Entry \cup {Null}]
         /\ \A k \in Keys : memory[k] \in {cache[k], Null}
         /\ \A k \in Keys : Fresh(cache[k]) => memory[k] = cache[k]
BY DEF IdempotencyTypeOK, Memories, Swept

(***************************************************************************)
(* Every step preserves the types.                                         *)
(***************************************************************************)
LEMMA TypeInit == IdempotencyInit => IdempotencyTypeOK
BY DEF IdempotencyInit, IdempotencyTypeOK, HandlersInit, KeyRequest, Idle

LEMMA TypeStep ==
  IdempotencyTypeOK /\ [IdempotencyNext]_idempotencyVars => IdempotencyTypeOK'
<1> SUFFICES ASSUME IdempotencyTypeOK, [IdempotencyNext]_idempotencyVars
             PROVE  IdempotencyTypeOK'
  OBVIOUS
<1>1. CASE \E r \in Requests, c \in Calls, k \in Keys : MakeCall(r, c, k)
  BY <1>1 DEF IdempotencyTypeOK, MakeCall, Arrive, Continue, CallState,
     KeyRequest, Idle
<1>2. CASE \E c \in Calls : LoseConnection(c)
  BY <1>2, SettledType DEF IdempotencyTypeOK, LoseConnection
<1>3. ASSUME NEW r \in Requests, NEW memory \in Memories,
             Replay(r, memory) \/ Intercept(r, memory)
      PROVE  IdempotencyTypeOK'
  <2>1. CASE Replay(r, memory)
    <3>1. memory[req[r].key].answer \in Calls
      <4>1. req[r].key \in Keys
        BY <2>1, RequestFields DEF Replay
      <4>2. memory[req[r].key] \in Entry
        BY <2>1, <4>1, MemoryType DEF Replay, Fresh
      <4> QED
        BY <4>2 DEF Entry
    <3> QED
      BY <2>1, <3>1, RequestFields, MemoryType, SettledType
         DEF IdempotencyTypeOK, Replay, Reply, Continue, KeyRequest
  <2>2. CASE Intercept(r, memory)
    BY <2>2, RequestFields, MemoryType
       DEF IdempotencyTypeOK, Intercept, Continue, KeyRequest
  <2> QED
    BY <1>3, <2>1, <2>2
<1>4. ASSUME NEW r \in Requests, Execute(r) \/ Store(r) \/ Fail(r)
      PROVE  IdempotencyTypeOK'
  <2>1. CASE Execute(r)
    BY <2>1, RequestFields DEF IdempotencyTypeOK, Execute, Continue, KeyRequest
  <2>2. CASE Store(r)
    <3>1. [answer |-> req[r].call, age |-> 0] \in Entry
      <4>1. req[r].call \in Calls
        BY <2>2, RequestFields DEF Store
      <4> QED
        BY <4>1, KeyTTLAssumption DEF Entry
    <3> QED
      BY <2>2, <3>1, RequestFields, SettledType
         DEF IdempotencyTypeOK, Store, Reply, Continue, KeyRequest
  <2>3. CASE Fail(r)
    BY <2>3, RequestFields, SettledType
       DEF IdempotencyTypeOK, Fail, Reply, Continue, KeyRequest
  <2> QED
    BY <1>4, <2>1, <2>2, <2>3
<1>5. CASE Tick
  <2>1. ASSUME NEW k \in Keys, Fresh(cache[k])
        PROVE  [cache[k] EXCEPT !.age = @ + 1] \in Entry
    BY <2>1, KeyTTLAssumption DEF IdempotencyTypeOK, Fresh, Entry
  <2> QED
    BY <1>5, <2>1 DEF IdempotencyTypeOK, Tick
<1>6. CASE RestartGateway
  BY <1>6 DEF IdempotencyTypeOK, RestartGateway, KeyRequest, Waiting, CallState
<1>7. CASE UNCHANGED idempotencyVars
  BY <1>7 DEF IdempotencyTypeOK, idempotencyVars, keyVars
<1> QED
  BY <1>1, <1>2, <1>3, <1>4, <1>5, <1>6, <1>7 DEF IdempotencyNext

\* Every variable of the gateway and its clients keeps its type.
THEOREM TypeCorrect == IdempotencySpec => []IdempotencyTypeOK
BY TypeInit, TypeStep, PTL DEF IdempotencySpec

-----------------------------------------------------------------------------
\* An answer or an error changes the outcome of its call and nothing else.
LEMMA SettledKeeps ==
  ASSUME IdempotencyTypeOK, NEW c \in Calls, NEW answer \in Calls \cup {Null},
         NEW status \in {"waiting", "done", "failed"},
         call' = Settled(c, status, answer), NEW d \in Calls
  PROVE  /\ call'[d] = Null <=> call[d] = Null
         /\ call[d] # Null => call'[d].key = call[d].key
         /\ \/ call'[d] = call[d]
            \/ d = c /\ call'[d].status = status /\ call'[d].answer = answer
<1>1. CASE Waiting(c) /\ d = c
  <2>1. call[c] \in CallState
    BY <1>1 DEF IdempotencyTypeOK, Waiting
  <2>2. call'[c] = [call[c] EXCEPT !.status = status, !.answer = answer]
    BY <1>1 DEF IdempotencyTypeOK, Settled
  <2> QED
    BY <1>1, <2>1, <2>2, NoEntryAssumption DEF CallState
<1>2. CASE ~(Waiting(c) /\ d = c)
  BY <1>2 DEF IdempotencyTypeOK, Settled
<1> QED
  BY <1>1, <1>2

LEMMA KeyInvInit == IdempotencyInit => KeyInv
<1> SUFFICES ASSUME IdempotencyInit PROVE KeyInv
  OBVIOUS
<1>1. IdempotencyTypeOK
  BY TypeInit
<1>2. \A r \in Requests : ~Busy(r) /\ req[r].op = "idle"
  BY DEF IdempotencyInit, HandlersInit, Busy, Idle
<1>3. \A c \in Calls : call[c] = Null /\ ran[c] = 0
  BY DEF IdempotencyInit
<1>4. \A k \in Keys : cache[k] = Null
  BY DEF IdempotencyInit
<1> QED
  BY <1>1, <1>2, <1>3, <1>4 DEF KeyInv, OwnRequest, Serves, Remembers,
     Undisturbed, HandledBy, Answered, RanWith

(***************************************************************************)
(* The steps of the client.                                                *)
(***************************************************************************)
LEMMA MakeCallKeeps ==
  ASSUME KeyInv, IdempotencyTypeOK', NEW r \in Requests, NEW c \in Calls,
         NEW k \in Keys, MakeCall(r, c, k)
  PROVE  KeyInv'
<1>1. /\ req'[r] = [op |-> "arrive", call |-> c, key |-> k]
      /\ \A s \in Requests \ {r} : req'[s] = req[s]
      /\ ~Busy(r) /\ Busy(r)'
  BY DEF KeyInv, IdempotencyTypeOK, MakeCall, Arrive, Continue, Busy, Idle
<1>2. /\ call[c] = Null /\ ran[c] = 0
      /\ call'[c] # Null /\ call'[c].key = k /\ call'[c].status = "waiting"
      /\ \A d \in Calls \ {c} : call'[d] = call[d]
  BY NoEntryAssumption
     DEF KeyInv, IdempotencyTypeOK, MakeCall, Answered, CallState
<1>3. UNCHANGED <<cache, ran, disturbed>>
  BY DEF MakeCall
<1>4. \A s \in Requests \ {r} : Busy(s) => req[s].call \in Calls \ {c}
  BY <1>2, RequestFields DEF KeyInv, Serves
<1>5. \A d \in Calls, j \in Keys : RanWith(d, j)' <=> RanWith(d, j)
  BY <1>2, <1>3 DEF RanWith
<1>6. OwnRequest'
  BY <1>1, <1>4 DEF KeyInv, OwnRequest, Busy
<1>7. \A s \in Requests : Serves(s)'
  BY <1>1, <1>2, <1>3, <1>4 DEF KeyInv, Serves, Busy
<1>8. \A j \in Keys : Remembers(j)'
  BY <1>3, <1>5 DEF KeyInv, Remembers, IdempotencyTypeOK, Entry
<1>9. \A j \in Keys : Undisturbed(j)'
  <2>1. \A s \in Requests, j \in Keys : HandledBy(s, j)' <=> HandledBy(s, j)
    BY <1>1 DEF HandledBy, Busy, Idle
  <2>2. \A s \in Requests, d \in Calls :
          req[s].op = "tap" /\ req[s].call = d
            <=> req'[s].op = "tap" /\ req'[s].call = d
    BY <1>1 DEF Busy, Idle
  <2> QED
    BY <1>3, <1>5, <2>1, <2>2 DEF KeyInv, Undisturbed, Fresh
<1>10. \A d \in Calls : Answered(d)'
  <2>1. \A d \in Calls \ {c} :
          call[d] # Null => call[d].key \in Keys
    BY DEF KeyInv, IdempotencyTypeOK, CallState
  <2> QED
    BY <1>2, <1>3, <1>5, <2>1 DEF KeyInv, Answered
<1> QED
  BY <1>6, <1>7, <1>8, <1>9, <1>10 DEF KeyInv

LEMMA LoseConnectionKeeps ==
  ASSUME KeyInv, IdempotencyTypeOK', NEW c \in Calls, LoseConnection(c)
  PROVE  KeyInv'
<1>1. \A d \in Calls :
        /\ call'[d] = Null <=> call[d] = Null
        /\ call[d] # Null => call'[d].key = call[d].key
        /\ call'[d] = call[d] \/ call'[d].status = "failed"
  BY SettledKeeps DEF KeyInv, LoseConnection
<1>2. UNCHANGED <<cache, ran, disturbed, req>>
  BY DEF LoseConnection
<1>3. \A d \in Calls, j \in Keys : RanWith(d, j)' <=> RanWith(d, j)
  BY <1>1, <1>2 DEF RanWith
<1>4. \A s \in Requests : Serves(s)'
  BY <1>1, <1>2, RequestFields DEF KeyInv, Serves, Busy
<1>5. \A j \in Keys : Remembers(j)' /\ Undisturbed(j)'
  BY <1>2, <1>3
     DEF KeyInv, Remembers, Undisturbed, HandledBy, Fresh, IdempotencyTypeOK,
         Entry
<1>6. \A d \in Calls : Answered(d)'
  <2>1. \A d \in Calls : call[d] # Null => call[d].key \in Keys
    BY DEF KeyInv, IdempotencyTypeOK, CallState
  <2> QED
    BY <1>1, <1>2, <1>3, <2>1 DEF KeyInv, Answered
<1> QED
  BY <1>2, <1>4, <1>5, <1>6 DEF KeyInv, OwnRequest, Busy

(***************************************************************************)
(* The steps of the interceptor.  Forgets is what a sweep may do to the    *)
(* Map: it loses only what is stale, and that key is disturbed already.    *)
(***************************************************************************)
Forgets ==
  \A k \in Keys : /\ cache'[k] \in {cache[k], Null}
                  /\ Fresh(cache[k]) => cache'[k] = cache[k]

LEMMA ReplayKeeps ==
  ASSUME KeyInv, IdempotencyTypeOK', NEW r \in Requests,
         NEW memory \in Memories, Replay(r, memory)
  PROVE  KeyInv'
<1> DEFINE c == req[r].call
           k == req[r].key
<1>1. Busy(r) /\ c \in Calls /\ k \in Keys /\ req[r].op = "arrive"
  BY RequestFields DEF KeyInv, Replay
<1>2. /\ req'[r] = Idle
      /\ \A s \in Requests \ {r} : req'[s] = req[s]
  BY DEF KeyInv, IdempotencyTypeOK, Replay, Reply, Continue
<1>3. Forgets /\ UNCHANGED <<ran, disturbed>>
  BY MemoryType DEF KeyInv, Replay, Forgets
<1>4. /\ memory[k] = cache[k] /\ cache[k] # Null
      /\ cache[k].answer \in Calls /\ RanWith(cache[k].answer, k)
  BY <1>1, MemoryType
     DEF KeyInv, Replay, Fresh, Remembers, IdempotencyTypeOK, Entry
<1>5. \A d \in Calls :
        /\ call'[d] = Null <=> call[d] = Null
        /\ call[d] # Null => call'[d].key = call[d].key
        /\ \/ call'[d] = call[d]
           \/ d = c /\ call'[d].answer = cache[k].answer
  <2>1. call' = Settled(c, "done", cache[k].answer)
    BY <1>4 DEF Replay
  <2> HIDE DEF c, k
  <2> QED
    BY <1>1, <1>4, <2>1, SettledKeeps DEF KeyInv
<1> HIDE DEF c, k
<1>6. \A d \in Calls, j \in Keys : RanWith(d, j)' <=> RanWith(d, j)
  BY <1>3, <1>5 DEF RanWith
<1>7. \A s \in Requests :
        Busy(s)' => Busy(s) /\ req'[s] = req[s] /\ req[s].call \in Calls
  BY <1>2, RequestFields DEF KeyInv, Busy
<1>8. \A s \in Requests : Serves(s)'
  <2> SUFFICES ASSUME NEW s \in Requests, Busy(s)' PROVE Serves(s)'
    BY DEF Serves
  <2>1. Serves(s) /\ Busy(s) /\ req'[s] = req[s] /\ req[s].call \in Calls
    BY <1>7 DEF KeyInv
  <2> QED
    BY <1>3, <1>5, <2>1 DEF Serves
<1>9. \A j \in Keys : Remembers(j)' /\ Undisturbed(j)'
  <2>1. \A s \in Requests, j \in Keys : HandledBy(s, j)' <=> HandledBy(s, j)
    BY <1>1, <1>2 DEF HandledBy, Idle, k
  <2>2. \A s \in Requests, d \in Calls :
          req[s].op = "tap" /\ req[s].call = d
            <=> req'[s].op = "tap" /\ req'[s].call = d
    BY <1>1, <1>2 DEF Idle
  <2>3. \A j \in Keys : Remembers(j)'
    BY <1>3, <1>6 DEF KeyInv, Remembers, Forgets, IdempotencyTypeOK, Entry
  <2>4. \A j \in Keys : Undisturbed(j)'
    BY <1>3, <1>6, <2>1, <2>2 DEF KeyInv, Undisturbed, Forgets, Fresh
  <2> QED
    BY <2>3, <2>4
<1>10. \A d \in Calls : Answered(d)'
  <2>1. \A d \in Calls : call[d] # Null => call[d].key \in Keys
    BY DEF KeyInv, IdempotencyTypeOK, CallState
  <2>2. call[c] # Null /\ call[c].key = k
    BY <1>1 DEF KeyInv, Serves, c, k
  <2> QED
    BY <1>1, <1>3, <1>4, <1>5, <1>6, <2>1, <2>2 DEF KeyInv, Answered
<1>11. OwnRequest'
  BY <1>7 DEF KeyInv, OwnRequest
<1> QED
  BY <1>8, <1>9, <1>10, <1>11 DEF KeyInv

LEMMA InterceptKeeps ==
  ASSUME KeyInv, IdempotencyTypeOK', NEW r \in Requests,
         NEW memory \in Memories, Intercept(r, memory)
  PROVE  KeyInv'
<1> DEFINE c == req[r].call
           k == req[r].key
<1>1. Busy(r) /\ c \in Calls /\ k \in Keys /\ req[r].op = "arrive"
  BY RequestFields DEF KeyInv, Intercept
<1>2. /\ req'[r].op = "handle" /\ req'[r].call = c /\ req'[r].key = k
      /\ \A s \in Requests \ {r} : req'[s] = req[s]
  BY <1>1, RequestFields DEF KeyInv, IdempotencyTypeOK, Intercept, Continue
<1>3. Forgets /\ UNCHANGED <<call, ran>>
  BY MemoryType DEF KeyInv, Intercept, Forgets
<1>4. /\ disturbed \subseteq disturbed'
      /\ Handling(k) => k \in disturbed'
  BY DEF Intercept
<1>5. k \notin disturbed' => cache'[k] = Null /\ cache[k] = Null
  BY <1>1, <1>3, <1>4, MemoryType
     DEF KeyInv, Intercept, Undisturbed, Forgets
<1> HIDE DEF c, k
<1>6. \A d \in Calls, j \in Keys : RanWith(d, j)' <=> RanWith(d, j)
  BY <1>3 DEF RanWith
<1>7. \A s \in Requests : /\ Busy(s)' <=> Busy(s)
                          /\ Busy(s) => req'[s].call = req[s].call
                                        /\ req'[s].key = req[s].key
                          /\ req'[s].op = "tap" <=> req[s].op = "tap"
  BY <1>1, <1>2 DEF Busy, Idle, c, k
<1>8. \A s \in Requests : Serves(s)'
  BY <1>3, <1>7 DEF KeyInv, Serves
<1>9. \A j \in Keys : Remembers(j)'
  BY <1>3, <1>6 DEF KeyInv, Remembers, Forgets, IdempotencyTypeOK, Entry
<1>10. \A j \in Keys : Undisturbed(j)'
  <2> SUFFICES ASSUME NEW j \in Keys, j \notin disturbed'
               PROVE  Undisturbed(j)'
    BY DEF Undisturbed
  <2>1. j \notin disturbed /\ Undisturbed(j)
    BY <1>4 DEF KeyInv
  <2>2. \A s \in Requests :
          HandledBy(s, j)' <=> HandledBy(s, j) \/ (s = r /\ j = k)
    BY <1>1, <1>2 DEF HandledBy, c, k
  <2>3. j = k => \A s \in Requests : ~HandledBy(s, j)
    BY <1>4 DEF Handling, HandledBy
  <2>4. \A s, t \in Requests : HandledBy(s, j)' /\ HandledBy(t, j)' => s = t
    BY <2>1, <2>2, <2>3 DEF Undisturbed
  <2>5. \A s \in Requests : HandledBy(s, j)' => cache'[j] = Null
    BY <1>3, <1>5, <2>1, <2>2 DEF Undisturbed, Forgets
  <2>6. cache'[j] # Null => Fresh(cache'[j])
    BY <1>3, <2>1 DEF Undisturbed, Forgets
  <2>7. \A d \in Calls : RanWith(d, j)' =>
          \/ cache'[j] # Null /\ cache'[j].answer = d
          \/ \E s \in Requests : req'[s].op = "tap" /\ req'[s].call = d
    BY <1>3, <1>6, <1>7, <2>1, RequestFields
       DEF KeyInv, Undisturbed, Forgets, Busy
  <2> QED
    BY <2>4, <2>5, <2>6, <2>7 DEF Undisturbed, Fresh
<1>11. \A d \in Calls : Answered(d)'
  <2>1. \A d \in Calls : call[d] # Null => call[d].key \in Keys
    BY DEF KeyInv, IdempotencyTypeOK, CallState
  <2> QED
    BY <1>3, <1>6, <2>1 DEF KeyInv, Answered
<1>12. OwnRequest'
  BY <1>7 DEF KeyInv, OwnRequest
<1> QED
  BY <1>8, <1>9, <1>10, <1>11, <1>12 DEF KeyInv

(***************************************************************************)
(* The handler and what becomes of its answer.                             *)
(***************************************************************************)
LEMMA ExecuteKeeps ==
  ASSUME KeyInv, IdempotencyTypeOK', NEW r \in Requests, Execute(r)
  PROVE  KeyInv'
<1> DEFINE c == req[r].call
           k == req[r].key
<1>1. /\ Busy(r) /\ c \in Calls /\ k \in Keys /\ req[r].op = "handle"
      /\ call[c] # Null /\ call[c].key = k
  BY RequestFields DEF KeyInv, Execute, Serves
<1>2. /\ req'[r].op = "tap" /\ req'[r].call = c /\ req'[r].key = k
      /\ \A s \in Requests \ {r} : req'[s] = req[s]
  BY <1>1, RequestFields DEF KeyInv, IdempotencyTypeOK, Execute, Continue
<1>3. UNCHANGED <<call, cache, disturbed>>
  BY DEF Execute
<1>4. ran[c] = 0 /\ ran'[c] = 1 /\ \A d \in Calls \ {c} : ran'[d] = ran[d]
  BY <1>1 DEF KeyInv, IdempotencyTypeOK, Execute, Serves
<1>5. \A s \in Requests \ {r} : Busy(s) => req[s].call \in Calls \ {c}
  BY <1>1, RequestFields DEF KeyInv, OwnRequest
<1> HIDE DEF c, k
<1>6. \A d \in Calls, j \in Keys :
        RanWith(d, j)' <=> RanWith(d, j) \/ (d = c /\ j = k)
  BY <1>1, <1>3, <1>4 DEF RanWith
<1>7. \A s \in Requests : /\ Busy(s)' <=> Busy(s)
                          /\ Busy(s) => req'[s].call = req[s].call
  BY <1>1, <1>2 DEF Busy, Idle, c, k
<1>8. \A s \in Requests : Serves(s)'
  <2>1. Serves(r)'
    BY <1>1, <1>2, <1>3, <1>4 DEF Serves
  <2>2. \A s \in Requests \ {r} : Serves(s)'
    BY <1>2, <1>3, <1>4, <1>5 DEF KeyInv, Serves, Busy
  <2> QED
    BY <2>1, <2>2
<1>9. \A j \in Keys : Remembers(j)'
  BY <1>3, <1>6 DEF KeyInv, Remembers, IdempotencyTypeOK, Entry
<1>10. \A j \in Keys : Undisturbed(j)'
  <2> SUFFICES ASSUME NEW j \in Keys, j \notin disturbed
               PROVE  Undisturbed(j)'
    BY <1>3 DEF Undisturbed
  <2>1. Undisturbed(j)
    BY DEF KeyInv
  <2>2. \A s \in Requests : HandledBy(s, j)' <=> HandledBy(s, j)
    BY <1>1, <1>2 DEF HandledBy, c, k
  <2>3. \A d \in Calls : RanWith(d, j)' =>
          \/ cache'[j] # Null /\ cache'[j].answer = d
          \/ \E s \in Requests : req'[s].op = "tap" /\ req'[s].call = d
    <3> SUFFICES ASSUME NEW d \in Calls, RanWith(d, j)'
                 PROVE  \/ cache'[j] # Null /\ cache'[j].answer = d
                        \/ \E s \in Requests :
                             req'[s].op = "tap" /\ req'[s].call = d
      OBVIOUS
    <3>1. CASE d = c
      BY <1>2, <3>1
    <3>2. CASE d # c
      <4>1. RanWith(d, j)
        BY <1>6, <3>2
      <4>2. \A s \in Requests : req[s].op = "tap" => s # r /\ req'[s] = req[s]
        BY <1>1, <1>2
      <4> QED
        BY <1>3, <2>1, <4>1, <4>2 DEF Undisturbed
    <3> QED
      BY <3>1, <3>2
  <2> QED
    BY <1>3, <2>1, <2>2, <2>3 DEF Undisturbed, Fresh
<1>11. \A d \in Calls : Answered(d)'
  <2>1. \A d \in Calls : call[d] # Null => call[d].key \in Keys
    BY DEF KeyInv, IdempotencyTypeOK, CallState
  <2> QED
    BY <1>1, <1>3, <1>4, <1>6, <2>1 DEF KeyInv, Answered
<1>12. OwnRequest'
  BY <1>7 DEF KeyInv, OwnRequest
<1> QED
  BY <1>8, <1>9, <1>10, <1>11, <1>12 DEF KeyInv

LEMMA StoreKeeps ==
  ASSUME KeyInv, IdempotencyTypeOK', NEW r \in Requests, Store(r)
  PROVE  KeyInv'
<1> DEFINE c == req[r].call
           k == req[r].key
<1>1. /\ Busy(r) /\ c \in Calls /\ k \in Keys /\ req[r].op = "tap"
      /\ call[c] # Null /\ call[c].key = k /\ RanWith(c, k)
  <2>1. Busy(r) /\ c \in Calls /\ k \in Keys /\ req[r].op = "tap"
    BY RequestFields DEF KeyInv, Store
  <2>2. call[c] # Null /\ call[c].key = k /\ ran[c] = 1
    BY <2>1 DEF KeyInv, Serves
  <2> QED
    BY <2>1, <2>2 DEF RanWith
<1>2. req'[r] = Idle /\ \A s \in Requests \ {r} : req'[s] = req[s]
  BY DEF KeyInv, IdempotencyTypeOK, Store, Reply, Continue
<1>3. UNCHANGED <<ran, disturbed>>
  BY DEF Store
<1>4. /\ cache'[k] # Null /\ cache'[k].answer = c /\ Fresh(cache'[k])
      /\ \A j \in Keys \ {k} : cache'[j] = cache[j]
  <2>1. [answer |-> c, age |-> 0] \in Entry
    BY <1>1, KeyTTLAssumption DEF Entry
  <2>2. /\ cache'[k] = [answer |-> c, age |-> 0]
        /\ \A j \in Keys \ {k} : cache'[j] = cache[j]
    BY <1>1 DEF KeyInv, IdempotencyTypeOK, Store
  <2> QED
    BY <2>1, <2>2, NoEntryAssumption, KeyTTLAssumption DEF Fresh
<1>5. \A d \in Calls :
        /\ call'[d] = Null <=> call[d] = Null
        /\ call[d] # Null => call'[d].key = call[d].key
        /\ call'[d] = call[d] \/ (d = c /\ call'[d].answer = c)
  <2>1. call' = Settled(c, "done", c)
    BY DEF Store
  <2> HIDE DEF c, k
  <2> QED
    BY <1>1, <2>1, SettledKeeps DEF KeyInv
<1> HIDE DEF c, k
<1>6. \A d \in Calls, j \in Keys : RanWith(d, j)' <=> RanWith(d, j)
  BY <1>3, <1>5 DEF RanWith
<1>7. \A s \in Requests :
        Busy(s)' => Busy(s) /\ req'[s] = req[s] /\ req[s].call \in Calls
  BY <1>2, RequestFields DEF KeyInv, Busy
<1>8. \A s \in Requests : Serves(s)'
  <2> SUFFICES ASSUME NEW s \in Requests, Busy(s)' PROVE Serves(s)'
    BY DEF Serves
  <2>1. Serves(s) /\ Busy(s) /\ req'[s] = req[s] /\ req[s].call \in Calls
    BY <1>7 DEF KeyInv
  <2> QED
    BY <1>3, <1>5, <2>1 DEF Serves
<1>9. \A j \in Keys : Remembers(j)'
  BY <1>1, <1>4, <1>6 DEF KeyInv, Remembers, IdempotencyTypeOK, Entry
<1>10. \A j \in Keys : Undisturbed(j)'
  <2> SUFFICES ASSUME NEW j \in Keys, j \notin disturbed
               PROVE  Undisturbed(j)'
    BY <1>3 DEF Undisturbed
  <2>1. Undisturbed(j)
    BY DEF KeyInv
  <2>2. \A s \in Requests : HandledBy(s, j)' <=> HandledBy(s, j) /\ s # r
    BY <1>2 DEF HandledBy, Idle
  <2>3. CASE j = k
    <3>1. \A s \in Requests : HandledBy(s, j) => s = r
      BY <1>1, <2>1, <2>3 DEF Undisturbed, HandledBy, k
    <3>2. \A d \in Calls : RanWith(d, j) => d = c
      <4> SUFFICES ASSUME NEW d \in Calls, RanWith(d, j) PROVE d = c
        OBVIOUS
      <4>1. cache[j] = Null
        BY <1>1, <2>1, <2>3 DEF Undisturbed, HandledBy, k
      <4>2. PICK s \in Requests : req[s].op = "tap" /\ req[s].call = d
        BY <2>1, <4>1 DEF Undisturbed
      <4>3. req[s].key = j
        BY <4>2, RequestFields DEF KeyInv, Serves, RanWith
      <4> QED
        BY <3>1, <4>2, <4>3 DEF HandledBy, c
    <3> QED
      BY <1>4, <1>6, <2>2, <2>3, <3>1, <3>2 DEF Undisturbed, Fresh
  <2>4. CASE j # k
    <3>1. cache'[j] = cache[j]
      BY <1>4, <2>4
    <3>2. \A d \in Calls : RanWith(d, j) =>
            \A s \in Requests : req[s].op = "tap" /\ req[s].call = d => s # r
      BY <1>1, <2>4 DEF RanWith, c
    <3> QED
      BY <1>2, <1>6, <2>1, <2>2, <3>1, <3>2 DEF Undisturbed, Fresh
  <2> QED
    BY <2>3, <2>4
<1>11. \A d \in Calls : Answered(d)'
  <2>1. \A d \in Calls : call[d] # Null => call[d].key \in Keys
    BY DEF KeyInv, IdempotencyTypeOK, CallState
  <2> QED
    BY <1>1, <1>3, <1>5, <1>6, <2>1 DEF KeyInv, Answered
<1>12. OwnRequest'
  BY <1>7 DEF KeyInv, OwnRequest
<1> QED
  BY <1>8, <1>9, <1>10, <1>11, <1>12 DEF KeyInv

LEMMA FailKeeps ==
  ASSUME KeyInv, IdempotencyTypeOK', NEW r \in Requests, Fail(r)
  PROVE  KeyInv'
<1> DEFINE c == req[r].call
           k == req[r].key
<1>1. Busy(r) /\ c \in Calls /\ k \in Keys
  BY RequestFields DEF KeyInv, Fail
<1>2. req'[r] = Idle /\ \A s \in Requests \ {r} : req'[s] = req[s]
  BY DEF KeyInv, IdempotencyTypeOK, Fail, Reply, Continue
<1>3. UNCHANGED <<cache, ran>>
  BY DEF Fail
<1>4. /\ disturbed \subseteq disturbed'
      /\ req[r].op = "tap" => k \in disturbed'
  BY DEF Fail
<1>5. \A d \in Calls :
        /\ call'[d] = Null <=> call[d] = Null
        /\ call[d] # Null => call'[d].key = call[d].key
        /\ call'[d] = call[d] \/ call'[d].status = "failed"
  <2>1. call' = Settled(c, "failed", Null)
    BY DEF Fail
  <2> HIDE DEF c, k
  <2> QED
    BY <1>1, <2>1, SettledKeeps DEF KeyInv
<1> HIDE DEF c, k
<1>6. \A d \in Calls, j \in Keys : RanWith(d, j)' <=> RanWith(d, j)
  BY <1>3, <1>5 DEF RanWith
<1>7. \A s \in Requests :
        Busy(s)' => Busy(s) /\ req'[s] = req[s] /\ req[s].call \in Calls
  BY <1>2, RequestFields DEF KeyInv, Busy
<1>8. \A s \in Requests : Serves(s)'
  <2> SUFFICES ASSUME NEW s \in Requests, Busy(s)' PROVE Serves(s)'
    BY DEF Serves
  <2>1. Serves(s) /\ Busy(s) /\ req'[s] = req[s] /\ req[s].call \in Calls
    BY <1>7 DEF KeyInv
  <2> QED
    BY <1>3, <1>5, <2>1 DEF Serves
<1>9. \A j \in Keys : Remembers(j)'
  BY <1>3, <1>6 DEF KeyInv, Remembers, IdempotencyTypeOK, Entry
<1>10. \A j \in Keys : Undisturbed(j)'
  <2> SUFFICES ASSUME NEW j \in Keys, j \notin disturbed'
               PROVE  Undisturbed(j)'
    BY DEF Undisturbed
  <2>1. j \notin disturbed /\ Undisturbed(j)
    BY <1>4 DEF KeyInv
  <2>2. \A s \in Requests : HandledBy(s, j)' <=> HandledBy(s, j) /\ s # r
    BY <1>2 DEF HandledBy, Idle
  <2>3. \A d \in Calls : RanWith(d, j) =>
          \A s \in Requests : req[s].op = "tap" /\ req[s].call = d => s # r
    <3>1. req[r].op = "tap" => call[c] # Null /\ call[c].key = k /\ k # j
      BY <1>1, <1>4 DEF KeyInv, Serves, c, k
    <3> QED
      BY <3>1 DEF RanWith, c
  <2> QED
    BY <1>2, <1>3, <1>6, <2>1, <2>2, <2>3 DEF Undisturbed, Fresh
<1>11. \A d \in Calls : Answered(d)'
  <2>1. \A d \in Calls : call[d] # Null => call[d].key \in Keys
    BY DEF KeyInv, IdempotencyTypeOK, CallState
  <2> QED
    BY <1>3, <1>5, <1>6, <2>1 DEF KeyInv, Answered
<1>12. OwnRequest'
  BY <1>7 DEF KeyInv, OwnRequest
<1> QED
  BY <1>8, <1>9, <1>10, <1>11, <1>12 DEF KeyInv

(***************************************************************************)
(* The clock and the restart.                                              *)
(***************************************************************************)
LEMMA TickKeeps ==
  ASSUME KeyInv, IdempotencyTypeOK', Tick
  PROVE  KeyInv'
<1>1. UNCHANGED <<call, ran, req>>
  BY DEF Tick
<1>2. \A k \in Keys :
        /\ cache'[k] = Null <=> cache[k] = Null
        /\ cache[k] # Null => cache'[k].answer = cache[k].answer
        /\ k \notin disturbed' =>
             k \notin disturbed /\ (Fresh(cache[k]) => Fresh(cache'[k]))
  <2> SUFFICES ASSUME NEW k \in Keys
               PROVE  /\ cache'[k] = Null <=> cache[k] = Null
                      /\ cache[k] # Null => cache'[k].answer = cache[k].answer
                      /\ k \notin disturbed' =>
                           /\ k \notin disturbed
                           /\ Fresh(cache[k]) => Fresh(cache'[k])
    OBVIOUS
  <2>1. k \notin disturbed' =>
          k \notin disturbed /\ (Fresh(cache[k]) => Fresh(cache'[k]))
    BY DEF Tick
  <2>2. CASE Fresh(cache[k])
    <3>1. cache[k] \in Entry
      BY <2>2 DEF KeyInv, IdempotencyTypeOK, Fresh
    <3>2. cache'[k] = [cache[k] EXCEPT !.age = @ + 1]
      BY <2>2 DEF Tick
    <3>3. cache'[k].answer = cache[k].answer
      BY <3>1, <3>2 DEF Entry
    <3>4. [cache[k] EXCEPT !.age = @ + 1] \in Entry
      BY <2>2, <3>1, KeyTTLAssumption DEF Fresh, Entry
    <3> QED
      BY <2>1, <2>2, <3>2, <3>3, <3>4, NoEntryAssumption DEF Fresh
  <2>3. CASE ~Fresh(cache[k])
    BY <2>1, <2>3 DEF Tick
  <2> QED
    BY <2>2, <2>3
<1>3. \A d \in Calls, j \in Keys : RanWith(d, j)' <=> RanWith(d, j)
  BY <1>1 DEF RanWith
<1>4. \A s \in Requests : Serves(s)'
  BY <1>1 DEF KeyInv, Serves, Busy
<1>5. \A j \in Keys : Remembers(j)'
  BY <1>2, <1>3 DEF KeyInv, Remembers, IdempotencyTypeOK, Entry
<1>6. \A j \in Keys : Undisturbed(j)'
  BY <1>1, <1>2, <1>3 DEF KeyInv, Undisturbed, HandledBy
<1>7. \A d \in Calls : Answered(d)'
  BY <1>1 DEF KeyInv, Answered, RanWith
<1>8. OwnRequest'
  BY <1>1 DEF KeyInv, OwnRequest, Busy
<1> QED
  BY <1>4, <1>5, <1>6, <1>7, <1>8 DEF KeyInv

LEMMA RestartKeeps ==
  ASSUME KeyInv, IdempotencyTypeOK', RestartGateway
  PROVE  KeyInv'
<1>1. \A r \in Requests : req'[r] = Idle
  BY DEF RestartGateway
<1>2. \A k \in Keys : cache'[k] = Null
  BY DEF RestartGateway
<1>3. UNCHANGED ran
  BY DEF RestartGateway
<1>4. \A d \in Calls :
        /\ call'[d] = Null <=> call[d] = Null
        /\ call[d] # Null => call'[d].key = call[d].key
        /\ call'[d] = call[d] \/ call'[d].status = "failed"
  <2> SUFFICES ASSUME NEW d \in Calls
               PROVE  /\ call'[d] = Null <=> call[d] = Null
                      /\ call[d] # Null => call'[d].key = call[d].key
                      /\ call'[d] = call[d] \/ call'[d].status = "failed"
    OBVIOUS
  <2>1. CASE Waiting(d)
    <3>1. call[d] \in CallState
      BY <2>1 DEF KeyInv, IdempotencyTypeOK, Waiting
    <3>2. call'[d] = [call[d] EXCEPT !.status = "failed"]
      BY <2>1 DEF RestartGateway
    <3> QED
      BY <3>1, <3>2, NoEntryAssumption DEF CallState
  <2>2. CASE ~Waiting(d)
    BY <2>2 DEF RestartGateway
  <2> QED
    BY <2>1, <2>2
<1>5. \A d \in Calls, j \in Keys : RanWith(d, j)' <=> RanWith(d, j)
  BY <1>3, <1>4 DEF RanWith
<1>6. \A s \in Requests : ~Busy(s)' /\ req'[s].op = "idle"
  BY <1>1 DEF Busy, Idle
<1>7. \A j \in Keys : Undisturbed(j)'
  <2> SUFFICES ASSUME NEW j \in Keys, j \notin disturbed'
               PROVE  Undisturbed(j)'
    BY DEF Undisturbed
  <2>1. j \notin disturbed /\ cache[j] = Null /\ ~Handling(j)
    BY DEF RestartGateway
  <2>2. \A d \in Calls : ~RanWith(d, j)
    <3> SUFFICES ASSUME NEW d \in Calls, RanWith(d, j) PROVE FALSE
      OBVIOUS
    <3>1. PICK s \in Requests : req[s].op = "tap" /\ req[s].call = d
      BY <2>1 DEF KeyInv, Undisturbed
    <3>2. req[s].key = j
      BY <3>1, RequestFields DEF KeyInv, Serves, RanWith
    <3> QED
      BY <2>1, <3>1, <3>2 DEF Handling
  <2> QED
    BY <1>2, <1>5, <1>6, <2>2 DEF Undisturbed, HandledBy
<1>8. \A d \in Calls : Answered(d)'
  <2>1. \A d \in Calls : call[d] # Null => call[d].key \in Keys
    BY DEF KeyInv, IdempotencyTypeOK, CallState
  <2> QED
    BY <1>3, <1>4, <1>5, <2>1 DEF KeyInv, Answered
<1> QED
  BY <1>2, <1>6, <1>7, <1>8 DEF KeyInv, OwnRequest, Serves, Remembers

LEMMA KeyInvStep ==
  KeyInv /\ [IdempotencyNext]_idempotencyVars => KeyInv'
<1> SUFFICES ASSUME KeyInv, [IdempotencyNext]_idempotencyVars PROVE KeyInv'
  OBVIOUS
<1>1. IdempotencyTypeOK'
  BY TypeStep DEF KeyInv
<1>2. CASE IdempotencyNext
  BY <1>1, <1>2, MakeCallKeeps, LoseConnectionKeeps, ReplayKeeps,
     InterceptKeeps, ExecuteKeeps, StoreKeeps, FailKeeps, TickKeeps,
     RestartKeeps DEF IdempotencyNext
<1>3. CASE UNCHANGED idempotencyVars
  BY <1>1, <1>3 DEF idempotencyVars, keyVars, KeyInv, OwnRequest, Serves, Busy,
     Remembers, Undisturbed, HandledBy, Fresh, Answered, RanWith
<1> QED
  BY <1>2, <1>3

-----------------------------------------------------------------------------
(***************************************************************************)
(* The promises.                                                           *)
(***************************************************************************)
\* However many calls share a key, one takes effect while nothing disturbs it.
THEOREM RunsOncePerKey == IdempotencySpec => []OncePerKey
<1>1. KeyInv => OncePerKey
  <2> SUFFICES ASSUME KeyInv, NEW k \in Keys \ disturbed, NEW c \in Calls,
                      NEW d \in Calls, RanWith(c, k), RanWith(d, k)
               PROVE  c = d
    BY DEF OncePerKey
  <2>1. Undisturbed(k)
    BY DEF KeyInv
  <2>2. ASSUME NEW e \in Calls, RanWith(e, k), cache[k] = Null
        PROVE  \E s \in Requests : HandledBy(s, k) /\ req[s].call = e
    <3>1. PICK s \in Requests : req[s].op = "tap" /\ req[s].call = e
      BY <2>1, <2>2 DEF Undisturbed
    <3>2. req[s].key = k
      BY <2>2, <3>1, RequestFields DEF KeyInv, Serves, RanWith
    <3> QED
      BY <3>1, <3>2 DEF HandledBy
  <2>3. CASE cache[k] = Null
    BY <2>1, <2>2, <2>3 DEF Undisturbed
  <2>4. ASSUME NEW e \in Calls, RanWith(e, k), cache[k] # Null
        PROVE  cache[k].answer = e
    <3>1. \A s \in Requests : ~HandledBy(s, k)
      BY <2>1, <2>4 DEF Undisturbed
    <3>2. \A s \in Requests : req[s].op = "tap" => req[s].call # e
      BY <2>4, <3>1, RequestFields DEF KeyInv, Serves, RanWith, HandledBy
    <3> QED
      BY <2>1, <2>4, <3>2 DEF Undisturbed
  <2>5. CASE cache[k] # Null
    BY <2>4, <2>5
  <2> QED
    BY <2>3, <2>5
<1> QED
  BY <1>1, KeyInvInit, KeyInvStep, PTL DEF IdempotencySpec

\* No call takes effect twice, and success is the answer of one that did.
THEOREM AnswersFounded == IdempotencySpec => []AnswersAreFounded
<1>1. KeyInv => AnswersAreFounded
  BY DEF KeyInv, Answered, AnswersAreFounded
<1> QED
  BY <1>1, KeyInvInit, KeyInvStep, PTL DEF IdempotencySpec
=============================================================================
