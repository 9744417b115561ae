---------------------------- MODULE UvNodeProofs ----------------------------
(***************************************************************************)
(* What holds of UvNode for any number of threads, lookups and servers and *)
(* with either kind of loop: its types, and that no event is lost between  *)
(* the threads that send it and the loop thread, or handled twice.         *)
(***************************************************************************)
EXTENDS UvNode, SequenceTheorems, TLAPS

(* Who holds uv_mutex_h.  The loop thread sends events from its callbacks  *)
(* only, and so never while it is in on_uv_async.                          *)
MutexInv ==
  /\ \A c \in Callers : pc[c] = "push" => uv_mutex_h = c
  /\ loop = "handle" => uv_mutex_h = Loop
  /\ pc[Loop] # "idle" => loop = "turn"

(* The resolver works for a server only when it has been created.          *)
LookupInv == \A s \in Hosted : query[s] = "resolving" => server[s] # "none"


----------------------------------------------------------------------------

LEMMA AppendIsNotEmpty ==
  ASSUME NEW S, NEW s \in Seq(S), NEW e \in S
  PROVE  Append(s, e) # <<>>
<1>1. Len(Append(s, e)) = Len(s) + 1 /\ Len(s) \in Nat
  OBVIOUS
<1> QED BY <1>1

LEMMA RangeOfAppend ==
  ASSUME NEW S, NEW s \in Seq(S), NEW e \in S
  PROVE  Range(Append(s, e)) = Range(s) \cup {e}
<1>1. /\ DOMAIN s = 1 .. Len(s) /\ Len(s) \in Nat
      /\ DOMAIN Append(s, e) = 1 .. Len(s) + 1
      /\ \A i \in 1 .. Len(s) : Append(s, e)[i] = s[i]
      /\ Append(s, e)[Len(s) + 1] = e
  OBVIOUS
<1> QED BY <1>1 DEF Range

LEMMA RangeOfTail ==
  ASSUME NEW S, NEW s \in Seq(S), s # <<>>
  PROVE  Range(s) = {Head(s)} \cup Range(Tail(s))
<1>1. /\ DOMAIN s = 1 .. Len(s) /\ Len(s) \in Nat \ {0}
      /\ DOMAIN Tail(s) = 1 .. Len(s) - 1
      /\ \A i \in 1 .. Len(s) - 1 : Tail(s)[i] = s[i + 1]
      /\ Head(s) = s[1]
  OBVIOUS
<1>3. Range(s) = {s[i] : i \in 1 .. Len(s)}
  BY <1>1 DEF Range
<1>4. Range(Tail(s)) = {s[i + 1] : i \in 1 .. Len(s) - 1}
  BY <1>1 DEF Range
<1>5. ASSUME NEW i \in 1 .. Len(s) PROVE s[i] = Head(s) \/ s[i] \in Range(Tail(s))
  <2>1. CASE i = 1
    BY <1>1, <2>1
  <2>2. CASE i # 1
    <3>1. i - 1 \in 1 .. Len(s) - 1 /\ (i - 1) + 1 = i
      BY <1>1, <2>2
    <3> QED BY <1>4, <3>1
  <2> QED BY <2>1, <2>2
<1>6. ASSUME NEW i \in 1 .. Len(s) - 1 PROVE s[i + 1] \in Range(s)
  <2>1. i + 1 \in 1 .. Len(s)
    BY <1>1
  <2> QED BY <1>3, <2>1
<1>7. 1 \in 1 .. Len(s)
  BY <1>1
<1> QED BY <1>1, <1>3, <1>4, <1>5, <1>6, <1>7

LEMMA RangeOfEmpty == Range(<<>>) = {}
BY DEF Range

----------------------------------------------------------------------------
(* The types.                                                              *)

(* What TypeOK allows in misuse.                                           *)
Misuse ==
  {"foreign_call", "handle_not_init", "null_callback", "null_address", "use_after_free"}

LEMMA EventsAreTyped ==
  /\ NoEvent \in EventType
  /\ \A q \in Lookups \cup {None} : ThreadId(q) \in EventType
  /\ \A s \in Servers : ServerInit(s) \in EventType
BY ServerAssumption DEF NoEvent, ThreadId, ServerInit, EventType, Lookups

LEMMA InitType == Init => TypeOK
<1> SUFFICES ASSUME Init PROVE TypeOK
  OBVIOUS
<1>1. event \in [Callers -> EventType] /\ todo \in Seq(EventType)
  BY EventsAreTyped DEF Init
<1>1a. async_event \in Seq(EventType)
  <2>1. async_event = <<>> \/ async_event = <<ThreadId(None)>>
    BY DEF Init
  <2>2. ThreadId(None) \in EventType
    BY EventsAreTyped
  <2>3. <<>> \in Seq(EventType) /\ <<ThreadId(None)>> \in Seq(EventType)
    BY <2>2 DEF ThreadId
  <2> QED BY <2>1, <2>3
<1>2. loop_tid \in Callers \cup {None} /\ async_pending \in BOOLEAN /\ loop \in {"start", "turn"}
  BY DEF Init, Callers
<1>3. init_by \in [Servers -> Seq(Callers)]
  BY DEF Init
<1> QED BY <1>1, <1>1a, <1>2, <1>3 DEF Init, TypeOK

(* A call sends at most one event.                                         *)
LEMMA SendType ==
  ASSUME TypeOK, NEW c \in Callers, NEW e \in EventType, NoSend \/ BeginSend(c, e)
  PROVE  /\ pc' \in [Callers -> {"idle", "lock", "push", "send", "stop"}]
         /\ event' \in [Callers -> EventType]
         /\ UNCHANGED <<async_pending, loop_tid, async_event, uv_mutex_h>>
BY DEF TypeOK, NoSend, BeginSend, callVars, eventVars

LEMMA LookupType ==
  ASSUME TypeOK, NEW c \in Callers, NEW q \in Lookups, Lookup(c, q),
         UNCHANGED <<nodeVars, loopVars, serverVars>>
  PROVE  TypeOK'
<1>1. ThreadId(q) \in EventType
  BY EventsAreTyped
<1>2. NoSend \/ BeginSend(c, ThreadId(q))
  BY DEF Lookup
<1>3. /\ query' \in [Lookups -> {"none", "sent", "ignored", "resolving", "answered"}]
      /\ asker' \in [Lookups -> Callers \cup {None}]
      /\ misuse' \in SUBSET Misuse
  BY DEF Lookup, dns_lookup_async, Uncalled, TypeOK, Foreign, Misuse
<1> QED BY <1>1, <1>2, <1>3, SendType DEF TypeOK, Misuse, nodeVars, loopVars, serverVars

LEMMA BeginType ==
  ASSUME TypeOK, NEW c \in Callers, BeginCall(c)
  PROVE  TypeOK'
<1>1. ASSUME NEW q \in Queries, dns_lookup(c, q) PROVE TypeOK'
  BY <1>1, LookupType DEF dns_lookup, Lookups
<1>2. ASSUME NEW s \in Hosted, ListenOnHost(c, s) PROVE TypeOK'
  BY <1>2, LookupType DEF ListenOnHost, Lookups
<1>3. ASSUME NEW s \in Servers, net_create_server(c, s) PROVE TypeOK'
  <2>1. NoSend \/ BeginSend(c, ServerInit(s))
    BY <1>3 DEF net_create_server
  <2>2. server' \in [Servers -> {"none", "created", "init", "listening"}]
    BY <1>3 DEF net_create_server, TypeOK
  <2>3. init_by' \in [Servers -> Seq(Callers)]
    <3>1. Append(init_by[s], c) \in Seq(Callers)
      BY DEF TypeOK
    <3>2. init_by' = init_by \/ init_by' = [init_by EXCEPT ![s] = Append(init_by[s], c)]
      BY <1>3 DEF net_create_server
    <3> QED BY <3>1, <3>2 DEF TypeOK
  <2>4. misuse' \in SUBSET Misuse
    BY <1>3 DEF net_create_server, TypeOK, Foreign, Misuse
  <2> QED BY <1>3, <2>1, <2>2, <2>3, <2>4, EventsAreTyped, SendType
         DEF net_create_server, TypeOK, Misuse, nodeVars, loopVars, queryVars
<1>4. ASSUME NEW s \in Servers, ListenOnAny(c, s) PROVE TypeOK'
  BY <1>4 DEF ListenOnAny, NoSend, Foreign, TypeOK, callVars, nodeVars, eventVars, loopVars,
              queryVars
<1>5. CASE uv_node_close(c)
  BY <1>5 DEF uv_node_close, TypeOK, eventVars, loopVars, queryVars, serverVars
<1> QED BY <1>1, <1>2, <1>3, <1>4, <1>5 DEF BeginCall, ListenOnHost

LEMMA CallStepType ==
  ASSUME TypeOK, NEW c \in Callers, CallStep(c)
  PROVE  TypeOK'
<1> USE DEF TypeOK, callVars, nodeVars, eventVars, loopVars, queryVars, serverVars
<1>1. CASE LockEvents(c)  BY <1>1 DEF LockEvents
<1>2. CASE PushEvent(c)   BY <1>2 DEF PushEvent
<1>3. CASE SendAsync(c)   BY <1>3 DEF SendAsync
<1>4. CASE StopLoop(c)    BY <1>4 DEF StopLoop
<1> QED BY <1>1, <1>2, <1>3, <1>4 DEF CallStep

LEMMA LoopStepType ==
  ASSUME TypeOK, LoopStep
  PROVE  TypeOK'
<1> USE DEF TypeOK, callVars, nodeVars, eventVars, loopVars, queryVars, serverVars
<1>1. CASE RunLoop      BY <1>1 DEF RunLoop
<1>2. CASE EndTurn      BY <1>2 DEF EndTurn
<1>3. CASE AsyncStart   BY <1>3 DEF AsyncStart
<1>4. CASE AsyncLock    BY <1>4 DEF AsyncLock, Callers
<1>5. CASE AsyncHandle
  <2>1. Loop \in Callers
    BY DEF Callers
  <2>2. /\ loop_tid' \in Callers \cup {None} /\ todo' \in Seq(EventType)
        /\ query' \in [Lookups -> {"none", "sent", "ignored", "resolving", "answered"}]
        /\ server' \in [Servers -> {"none", "created", "init", "listening"}]
        /\ init_by' \in [Servers -> Seq(Callers)]
    BY <1>5, <2>1 DEF AsyncHandle
  <2> QED BY <1>5, <2>2 DEF AsyncHandle
<1>6. CASE AsyncUnlock  BY <1>6 DEF AsyncUnlock
<1> QED BY <1>1, <1>2, <1>3, <1>4, <1>5, <1>6 DEF LoopStep

LEMMA StepType ==
  ASSUME TypeOK, [Next]_vars
  PROVE  TypeOK'
<1>1. CASE \E c \in Callers : BeginCall(c) \/ CallStep(c)
  BY <1>1, BeginType, CallStepType
<1>2. CASE LoopStep
  BY <1>2, LoopStepType
<1> USE DEF TypeOK, callVars, nodeVars, eventVars, loopVars, queryVars, serverVars
<1>3. CASE OtherCallback
  BY <1>3 DEF OtherCallback
<1>4. CASE AsyncFreed
  BY <1>4 DEF AsyncFreed
<1>5. ASSUME NEW q \in Lookups, NEW ok \in BOOLEAN, on_uv_getaddrinfo(q, ok)
      PROVE  TypeOK'
  <2>1. Uncalled(q) \in SUBSET Misuse
    BY DEF Uncalled, Misuse
  <2>2. misuse' \in SUBSET Misuse
    BY <1>5, <2>1 DEF on_uv_getaddrinfo, Misuse
  <2> QED BY <1>5, <2>2 DEF on_uv_getaddrinfo, Misuse
<1>6. CASE \E s \in Servers : on_connection(s)
  BY <1>6 DEF on_connection
<1>7. CASE UNCHANGED vars
  BY <1>7 DEF vars
<1> QED BY <1>1, <1>2, <1>3, <1>4, <1>5, <1>6, <1>7 DEF Next

(* Every variable of the environment keeps its type: those of uv_node_t    *)
(* (private.h) and what is recorded of the calls and of libuv.             *)
THEOREM TypeCorrect == Spec => []TypeOK
<1>1. Init => TypeOK
  BY InitType
<1>2. TypeOK /\ [Next]_vars => TypeOK'
  BY StepType
<1> QED BY <1>1, <1>2, PTL DEF Spec

----------------------------------------------------------------------------
(* The mutex.                                                              *)

LEMMA InitMutex == Init => MutexInv
BY DEF Init, MutexInv, Callers

LEMMA StepMutex ==
  ASSUME TypeOK, MutexInv, [Next]_vars
  PROVE  MutexInv'
<1> USE DEF MutexInv, TypeOK
<1>0. Loop \in Callers
  BY DEF Callers
<1>1. ASSUME NEW c \in Callers, BeginCall(c) PROVE MutexInv'
  <2>1. /\ c = Loop => loop = "turn"
        /\ \/ pc' = pc
           \/ \E to \in {"lock", "stop"} : pc' = [pc EXCEPT ![c] = to]
        /\ UNCHANGED <<uv_mutex_h, loop>>
    BY <1>1 DEF BeginCall, dns_lookup, net_create_server, ListenOnHost, ListenOnAny,
                uv_node_close, Lookup,
                Idle, BeginSend, NoSend, callVars, eventVars, loopVars
  <2> QED BY <1>0, <2>1
<1>2. ASSUME NEW c \in Callers, LockEvents(c) PROVE MutexInv'
  BY <1>0, <1>2, CallerAssumption DEF LockEvents, loopVars
<1>3. ASSUME NEW c \in Callers, PushEvent(c) PROVE MutexInv'
  BY <1>0, <1>3 DEF PushEvent, loopVars
<1>4. ASSUME NEW c \in Callers, SendAsync(c) PROVE MutexInv'
  BY <1>0, <1>4 DEF SendAsync, eventVars, loopVars
<1>4a. ASSUME NEW c \in Callers, StopLoop(c) PROVE MutexInv'
  BY <1>0, <1>4a DEF StopLoop, eventVars
<1>5. CASE RunLoop
  BY <1>0, <1>5 DEF RunLoop, callVars, eventVars
<1>6. CASE EndTurn
  BY <1>0, <1>6 DEF EndTurn, callVars, eventVars
<1>7. CASE AsyncStart
  BY <1>0, <1>7 DEF AsyncStart, callVars, eventVars
<1>8. CASE AsyncLock
  BY <1>0, <1>8, CallerAssumption DEF AsyncLock, callVars
<1>9. CASE AsyncHandle
  BY <1>0, <1>9 DEF AsyncHandle, callVars, eventVars
<1>10. CASE AsyncUnlock
  BY <1>0, <1>10 DEF AsyncUnlock, callVars
<1>11. CASE OtherCallback
  BY <1>0, <1>11 DEF OtherCallback, callVars, eventVars
<1>12. CASE AsyncFreed
  BY <1>0, <1>12 DEF AsyncFreed, callVars, eventVars, loopVars
<1>13. CASE \E q \in Lookups, ok \in BOOLEAN : on_uv_getaddrinfo(q, ok)
  BY <1>0, <1>13 DEF on_uv_getaddrinfo, callVars, eventVars
<1>14. CASE \E s \in Servers : on_connection(s)
  BY <1>0, <1>14 DEF on_connection, callVars, eventVars
<1>15. CASE UNCHANGED vars
  BY <1>15 DEF vars, callVars, eventVars, loopVars
<1> QED BY <1>1, <1>2, <1>3, <1>4, <1>4a, <1>5, <1>6, <1>7, <1>8, <1>9, <1>10, <1>11, <1>12, <1>13,
       <1>14, <1>15
           DEF Next, CallStep, LoopStep

----------------------------------------------------------------------------
(* The wakeup: an event on the list has a callback to come or a thread     *)
(* about to send one.                                                      *)

LEMMA InitWakeup == Init => NoLostWakeup
BY DEF Init, NoLostWakeup

LEMMA StepWakeup ==
  ASSUME TypeOK, NoLostWakeup, [Next]_vars
  PROVE  NoLostWakeup'
<1> USE DEF NoLostWakeup, TypeOK
<1>1. ASSUME NEW c \in Callers, BeginCall(c) PROVE NoLostWakeup'
  <2>1. /\ pc[c] = "idle"
        /\ \/ pc' = pc
           \/ \E to \in {"lock", "stop"} : pc' = [pc EXCEPT ![c] = to]
        /\ UNCHANGED <<async_event, loop, async_pending>>
        /\ freed' = freed \/ freed' = TRUE
    BY <1>1 DEF BeginCall, dns_lookup, net_create_server, ListenOnHost, ListenOnAny,
                uv_node_close, Lookup,
                Idle, BeginSend, NoSend, callVars, eventVars, loopVars, nodeVars
  <2> QED BY <2>1
<1>2. ASSUME NEW c \in Callers, LockEvents(c) PROVE NoLostWakeup'
  BY <1>2 DEF LockEvents, loopVars, nodeVars
<1>3. ASSUME NEW c \in Callers, PushEvent(c) PROVE NoLostWakeup'
  BY <1>3 DEF PushEvent, loopVars, nodeVars
<1>4. ASSUME NEW c \in Callers, SendAsync(c) PROVE NoLostWakeup'
  BY <1>4 DEF SendAsync
<1>4a. ASSUME NEW c \in Callers, StopLoop(c) PROVE NoLostWakeup'
  BY <1>4a DEF StopLoop, eventVars, nodeVars
<1>5. CASE RunLoop \/ EndTurn \/ OtherCallback
  BY <1>5 DEF RunLoop, EndTurn, OtherCallback, callVars, eventVars, nodeVars
<1>6. CASE AsyncStart \/ AsyncLock \/ AsyncHandle
  BY <1>6 DEF AsyncStart, AsyncLock, AsyncHandle, callVars
<1>7. CASE AsyncUnlock
  BY <1>7 DEF AsyncUnlock
<1>8. CASE AsyncFreed \/ UNCHANGED vars
  BY <1>8 DEF AsyncFreed, vars, callVars, eventVars, nodeVars, loopVars
<1>9. CASE \E q \in Lookups, ok \in BOOLEAN : on_uv_getaddrinfo(q, ok)
  BY <1>9 DEF on_uv_getaddrinfo, callVars, eventVars, nodeVars
<1>10. CASE \E s \in Servers : on_connection(s)
  BY <1>10 DEF on_connection, callVars, eventVars, nodeVars
<1> QED BY <1>1, <1>2, <1>3, <1>4, <1>4a, <1>5, <1>6, <1>7, <1>8, <1>9, <1>10
       DEF Next, CallStep, LoopStep

----------------------------------------------------------------------------
(* The lookups of servers.                                                 *)

LEMMA InitLookup == Init => LookupInv
BY DEF Init, LookupInv, Lookups

LEMMA StepLookup ==
  ASSUME TypeOK, LookupInv, [Next]_vars
  PROVE  LookupInv'
<1> USE ServerAssumption, NameAssumption DEF LookupInv, TypeOK, Lookups
<1>1. ASSUME NEW c \in Callers, BeginCall(c) PROVE LookupInv'
  <2>1. ASSUME NEW q \in Queries, dns_lookup(c, q) PROVE LookupInv'
    BY <2>1 DEF dns_lookup, Lookup, dns_lookup_async, serverVars
  <2>2. ASSUME NEW s \in Servers, ListenOnHost(c, s) PROVE LookupInv'
    BY <2>2 DEF ListenOnHost, Lookup, dns_lookup_async, serverVars
  <2>3. ASSUME NEW s \in Servers, net_create_server(c, s) \/ ListenOnAny(c, s) PROVE LookupInv'
    BY <2>3 DEF net_create_server, ListenOnAny, queryVars
  <2>4. CASE uv_node_close(c)
    BY <2>4 DEF uv_node_close, queryVars, serverVars
  <2> QED BY <1>1, <2>1, <2>2, <2>3, <2>4 DEF BeginCall
<1>2. ASSUME NEW c \in Callers, CallStep(c) PROVE LookupInv'
  BY <1>2 DEF CallStep, LockEvents, PushEvent, SendAsync, StopLoop, queryVars, serverVars
<1>3. CASE \/ RunLoop \/ EndTurn \/ AsyncStart \/ AsyncLock \/ AsyncUnlock
           \/ OtherCallback \/ AsyncFreed \/ UNCHANGED vars
  BY <1>3 DEF RunLoop, EndTurn, AsyncStart, AsyncLock, AsyncUnlock, OtherCallback, AsyncFreed,
              vars, queryVars, serverVars
<1>4. CASE AsyncHandle
  <2> SUFFICES ASSUME NEW s \in Hosted, query'[s] = "resolving" PROVE server'[s] # "none"
    OBVIOUS
  <2>1. Head(todo) \in EventType
    BY <1>4 DEF AsyncHandle
  <2>2. Head(todo).event # "DNS_LOOKUP"
    BY <2>1 DEF EventType
  <2>3. query[s] = "resolving"
    BY <1>4, <2>2 DEF AsyncHandle
  <2>4. server'[s] = "init" \/ server'[s] = server[s]
    BY <1>4 DEF AsyncHandle
  <2> QED BY <2>3, <2>4
<1>5. CASE \E q \in Lookups, ok \in BOOLEAN : on_uv_getaddrinfo(q, ok)
  BY <1>5 DEF on_uv_getaddrinfo
<1>6. CASE \E s \in Servers : on_connection(s)
  BY <1>6 DEF on_connection, queryVars, serverVars
<1> QED BY <1>1, <1>2, <1>3, <1>4, <1>5, <1>6 DEF Next, LoopStep

----------------------------------------------------------------------------
(* The event: where it is on its way to the loop thread.                   *)

OnItsWay(s) ==
  \/ \E c \in Callers : pc[c] \in {"lock", "push"} /\ event[c] = ServerInit(s)
  \/ ServerInit(s) \in Range(IF loop = "handle" THEN todo ELSE async_event)

Awaited(s) == server[s] # "none" /\ init_by[s] = <<>>

LEMMA InitWay == Init => InitOnItsWay
BY DEF Init, InitOnItsWay

(* A call begins an event of its own for the server it creates, and        *)
(* disturbs no other.                                                      *)
LEMMA BeginWay ==
  ASSUME TypeOK, InitOnItsWay, NEW c \in Callers, BeginCall(c)
  PROVE  InitOnItsWay'
<1> USE DEF TypeOK
<1> SUFFICES ASSUME NEW s \in Servers, Awaited(s)' PROVE OnItsWay(s)'
  BY DEF InitOnItsWay, Awaited, OnItsWay
<1>1. pc[c] = "idle" /\ UNCHANGED <<async_event, loop, todo>>
  BY DEF BeginCall, dns_lookup, net_create_server, ListenOnHost, ListenOnAny,
                uv_node_close, Lookup,
         Idle, BeginSend, NoSend, eventVars, loopVars
<1>2. \/ pc' = pc /\ event' = event
      \/ \E e : pc' = [pc EXCEPT ![c] = "lock"] /\ event' = [event EXCEPT ![c] = e]
      \/ pc' = [pc EXCEPT ![c] = "stop"] /\ event' = event
  BY DEF BeginCall, dns_lookup, net_create_server, ListenOnHost, ListenOnAny,
                uv_node_close, Lookup,
         BeginSend, NoSend, callVars
<1>3. OnItsWay(s) => OnItsWay(s)'
  BY <1>1, <1>2 DEF OnItsWay
<1>4. Awaited(s) => OnItsWay(s)'
  BY <1>3 DEF InitOnItsWay, Awaited, OnItsWay
<1>5. CASE \E t \in Servers : net_create_server(c, t)
  <2>1. PICK t \in Servers : net_create_server(c, t)
    BY <1>5
  <2>2. CASE s # t \/ c = loop_tid
    BY <1>4, <2>1, <2>2 DEF net_create_server, Awaited
  <2>3. CASE s = t /\ c # loop_tid
    <3>1. pc'[c] = "lock" /\ event'[c] = ServerInit(s)
      BY <2>1, <2>3 DEF net_create_server, BeginSend
    <3> QED BY <3>1 DEF OnItsWay
  <2> QED BY <2>2, <2>3
<1>6. CASE \E t \in Servers : ListenOnAny(c, t)
  BY <1>4, <1>6 DEF ListenOnAny, Awaited
<1>7. CASE \/ \E q \in Queries : dns_lookup(c, q)
           \/ \E t \in Servers : ListenOnHost(c, t)
           \/ uv_node_close(c)
  BY <1>4, <1>7 DEF dns_lookup, ListenOnHost, uv_node_close, serverVars, Awaited
<1> QED BY <1>5, <1>6, <1>7 DEF BeginCall

(* A push puts the event on the list while on_uv_async does not look at    *)
(* it.                                                                     *)
LEMMA CallWay ==
  ASSUME TypeOK, MutexInv, InitOnItsWay, NEW c \in Callers, CallStep(c)
  PROVE  InitOnItsWay'
<1> USE DEF TypeOK
<1> SUFFICES ASSUME NEW s \in Servers, Awaited(s)' PROVE OnItsWay(s)'
  BY DEF InitOnItsWay, Awaited, OnItsWay
<1>1. Awaited(s)
  BY DEF CallStep, LockEvents, PushEvent, SendAsync, StopLoop, serverVars, Awaited
<1>2. OnItsWay(s)
  BY <1>1 DEF InitOnItsWay, Awaited, OnItsWay
<1>3. CASE LockEvents(c)
  BY <1>2, <1>3 DEF LockEvents, loopVars, OnItsWay
<1>4. CASE PushEvent(c)
  <2>1. loop # "handle" /\ loop' # "handle"
    BY <1>4, CallerAssumption DEF PushEvent, MutexInv, loopVars
  <2>2. Range(async_event') = Range(async_event) \cup {event[c]}
    BY <1>4, RangeOfAppend DEF PushEvent
  <2> QED BY <1>2, <1>4, <2>1, <2>2 DEF PushEvent, OnItsWay
<1>5. CASE SendAsync(c)
  BY <1>2, <1>5 DEF SendAsync, eventVars, loopVars, OnItsWay
<1>6. CASE StopLoop(c)
  BY <1>2, <1>6 DEF StopLoop, eventVars, OnItsWay
<1> QED BY <1>3, <1>4, <1>5, <1>6 DEF CallStep

(* on_uv_async handles all of the list before it empties it.               *)
LEMMA LoopWay ==
  ASSUME TypeOK, InitOnItsWay, LoopStep
  PROVE  InitOnItsWay'
<1> USE DEF TypeOK
<1> SUFFICES ASSUME NEW s \in Servers, Awaited(s)' PROVE OnItsWay(s)'
  BY DEF InitOnItsWay, Awaited, OnItsWay
<1>1. CASE RunLoop \/ EndTurn \/ AsyncStart
  BY <1>1 DEF RunLoop, EndTurn, AsyncStart, callVars, eventVars, serverVars, Awaited,
              OnItsWay, InitOnItsWay
<1>2. CASE AsyncLock
  BY <1>2 DEF AsyncLock, callVars, serverVars, Awaited, OnItsWay, InitOnItsWay
<1>3. CASE AsyncHandle
  <2>1. /\ todo # <<>> /\ todo' = Tail(todo) /\ loop = "handle" /\ loop' = "handle"
        /\ UNCHANGED <<pc, event>>
    BY <1>3 DEF AsyncHandle, callVars
  <2>2. Head(todo) # ServerInit(s) /\ Awaited(s)
    <3>1. server'[s] = IF Head(todo) = ServerInit(s) THEN "init" ELSE server[s]
      BY <1>3 DEF AsyncHandle
    <3>2. init_by'[s] = IF Head(todo) = ServerInit(s) THEN Append(init_by[s], Loop) ELSE init_by[s]
      BY <1>3 DEF AsyncHandle
    <3>3. init_by[s] \in Seq(Callers) /\ Loop \in Callers
      BY DEF Callers
    <3>4. Append(init_by[s], Loop) # <<>>
      BY <3>3, AppendIsNotEmpty
    <3> QED BY <3>1, <3>2, <3>4 DEF Awaited
  <2>3. Range(todo) = {Head(todo)} \cup Range(todo')
    BY <2>1, RangeOfTail
  <2> QED BY <2>1, <2>2, <2>3 DEF Awaited, OnItsWay, InitOnItsWay
<1>4. CASE AsyncUnlock
  BY <1>4, RangeOfEmpty DEF AsyncUnlock, callVars, serverVars, Awaited, OnItsWay, InitOnItsWay
<1> QED BY <1>1, <1>2, <1>3, <1>4 DEF LoopStep

LEMMA StepWay ==
  ASSUME TypeOK, MutexInv, LookupInv, InitOnItsWay, [Next]_vars
  PROVE  InitOnItsWay'
<1>1. CASE \E c \in Callers : BeginCall(c) \/ CallStep(c)
  BY <1>1, BeginWay, CallWay
<1>2. CASE LoopStep
  BY <1>2, LoopWay
<1> USE DEF InitOnItsWay, callVars, eventVars, loopVars, serverVars
<1>3. CASE OtherCallback
  BY <1>3 DEF OtherCallback
<1>4. CASE AsyncFreed
  BY <1>4 DEF AsyncFreed
<1>5. CASE \E q \in Lookups, ok \in BOOLEAN : on_uv_getaddrinfo(q, ok)
  <2>1. PICK q \in Lookups, ok \in BOOLEAN : on_uv_getaddrinfo(q, ok)
    BY <1>5
  <2>2. ASSUME NEW s \in Servers, server'[s] # "none" PROVE server[s] # "none"
    <3>1. CASE s = q
      <4>1. s \in Hosted
        BY <3>1, NameAssumption DEF Lookups
      <4> QED BY <2>1, <3>1, <4>1 DEF on_uv_getaddrinfo, LookupInv
    <3>2. CASE s # q
      BY <2>1, <3>2, <2>2 DEF on_uv_getaddrinfo, TypeOK
    <3> QED BY <3>1, <3>2
  <2>3. UNCHANGED <<pc, event, async_event, todo, init_by>> /\ loop # "handle" /\ loop' # "handle"
    BY <2>1 DEF on_uv_getaddrinfo
  <2> QED BY <2>2, <2>3
<1>6. CASE \E s \in Servers : on_connection(s)
  BY <1>6 DEF on_connection
<1>7. CASE UNCHANGED vars
  BY <1>7 DEF vars
<1> QED BY <1>1, <1>2, <1>3, <1>4, <1>5, <1>6, <1>7 DEF Next

----------------------------------------------------------------------------
(* Once: whoever is to initialise the handle of a server is the only one.  *)

Sends(c, s) == pc[c] \in {"lock", "push"} /\ event[c] = ServerInit(s)
Pending == IF loop = "handle" THEN todo ELSE async_event
Waits(i, s) == i \in DOMAIN Pending /\ Pending[i] = ServerInit(s)

NoCarrier(s) ==
  /\ \A c \in Callers : ~Sends(c, s)
  /\ \A i \in Nat : ~Waits(i, s)

OneCarrier(s) ==
  /\ \A c, d \in Callers : Sends(c, s) /\ Sends(d, s) => c = d
  /\ \A i, j \in Nat : Waits(i, s) /\ Waits(j, s) => i = j
  /\ \A c \in Callers, i \in Nat : ~(Sends(c, s) /\ Waits(i, s))

(* The event for a server is in one place at most, and in none before the  *)
(* server is created or after its handle is initialised.                   *)
OnceFor(s) ==
  /\ OneCarrier(s)
  /\ server[s] = "none" => NoCarrier(s) /\ init_by[s] = <<>>
  /\ init_by[s] # <<>> => NoCarrier(s)
  /\ Len(init_by[s]) <= 1

OnceInv == \A s \in Servers : OnceFor(s)

(* The event for a server is no other's, and none of those for a lookup.   *)
LEMMA ServerInitIsOwn ==
  ASSUME NEW s, NEW e
  PROVE  /\ ThreadId(e) # ServerInit(s)
         /\ NoEvent # ServerInit(s)
         /\ ServerInit(e) = ServerInit(s) => e = s
BY DEF ThreadId, ServerInit, NoEvent

(* No carrier comes, and what waits moves forward by k places.             *)
LEMMA OnceKept ==
  ASSUME NEW s \in Servers, NEW k \in Nat, OnceFor(s),
         \A c \in Callers : Sends(c, s)' => Sends(c, s),
         \A i \in Nat : Waits(i, s)' => Waits(i + k, s),
         init_by'[s] = init_by[s], server'[s] = "none" => server[s] = "none"
  PROVE  OnceFor(s)'
<1>1. OneCarrier(s)'
  <2>1. ASSUME NEW i \in Nat, NEW j \in Nat, Waits(i, s)', Waits(j, s)' PROVE i = j
    <3>1. Waits(i + k, s) /\ Waits(j + k, s) /\ i + k \in Nat /\ j + k \in Nat
      BY <2>1
    <3>2. i + k = j + k
      BY <3>1 DEF OnceFor, OneCarrier
    <3> QED BY <3>2
  <2>2. ASSUME NEW c \in Callers, NEW i \in Nat, Sends(c, s)', Waits(i, s)' PROVE FALSE
    <3>1. i + k \in Nat
      OBVIOUS
    <3> QED BY <2>2, <3>1 DEF OnceFor, OneCarrier
  <2>3. \A c, d \in Callers : Sends(c, s)' /\ Sends(d, s)' => c = d
    BY DEF OnceFor, OneCarrier
  <2> QED BY <2>1, <2>2, <2>3 DEF OneCarrier
<1>2. NoCarrier(s) => NoCarrier(s)'
  <2> SUFFICES ASSUME NoCarrier(s) PROVE NoCarrier(s)'
    OBVIOUS
  <2>1. ASSUME NEW i \in Nat PROVE ~Waits(i, s)'
    <3>1. i + k \in Nat
      OBVIOUS
    <3> QED BY <3>1 DEF NoCarrier
  <2> QED BY <2>1 DEF NoCarrier
<1> QED BY <1>1, <1>2 DEF OnceFor

(* At first there is no event for a server, and no server.                 *)
LEMMA InitOnceInv == Init => OnceInv
<1> SUFFICES ASSUME Init, NEW s \in Servers PROVE OnceFor(s)
  BY DEF OnceInv
<1>1. \A c \in Callers : ~Sends(c, s)
  BY DEF Init, Sends
<1>2. \A i \in Nat : ~Waits(i, s)
  <2>1. async_event = <<>> \/ async_event = <<ThreadId(None)>>
    BY DEF Init
  <2>2. loop # "handle"
    BY DEF Init
  <2>3. ThreadId(None) # ServerInit(s)
    BY ServerInitIsOwn
  <2> QED BY <2>1, <2>2, <2>3 DEF Waits, Pending
<1>3. init_by[s] = <<>> /\ Len(init_by[s]) <= 1
  BY DEF Init
<1> QED BY <1>1, <1>2, <1>3 DEF OnceFor, OneCarrier, NoCarrier

(* A call creates a server no other call has created, and then either      *)
(* initialises its handle or begins the one event for it.                  *)
LEMMA BeginOnce ==
  ASSUME TypeOK, OnceInv, NEW c \in Callers, BeginCall(c)
  PROVE  OnceInv'
<1> SUFFICES ASSUME NEW s \in Servers PROVE OnceFor(s)'
  BY DEF OnceInv
<1>0. OnceFor(s)
  BY DEF OnceInv
<1>1. pc[c] = "idle" /\ UNCHANGED <<async_event, loop, todo>>
  BY DEF BeginCall, dns_lookup, net_create_server, ListenOnHost, ListenOnAny,
         uv_node_close, Lookup, Idle, BeginSend, NoSend, eventVars, loopVars
<1>2. \A i \in Nat : Waits(i, s)' <=> Waits(i, s)
  BY <1>1 DEF Waits, Pending
<1>3. \A i \in Nat : i + 0 = i
  OBVIOUS
<1>4. ASSUME NEW e, NoSend \/ BeginSend(c, e)
      PROVE  /\ e # ServerInit(s) => \A d \in Callers : Sends(d, s)' => Sends(d, s)
             /\ \A d \in Callers : d # c => (Sends(d, s)' <=> Sends(d, s))
             /\ NoSend => \A d \in Callers : Sends(d, s)' <=> Sends(d, s)
             /\ ~Sends(c, s)
  BY <1>1, <1>4 DEF TypeOK, Sends, NoSend, BeginSend, callVars
<1>5. ASSUME NEW q, Lookup(c, q), UNCHANGED serverVars PROVE OnceFor(s)'
  <2>1. NoSend \/ BeginSend(c, ThreadId(q))
    BY <1>5 DEF Lookup
  <2>2. \A d \in Callers : Sends(d, s)' => Sends(d, s)
    BY <1>4, <2>1, ServerInitIsOwn
  <2> QED BY <1>0, <1>2, <1>3, <1>5, <2>2, OnceKept DEF serverVars
<1>6. ASSUME NEW t \in Servers, net_create_server(c, t) PROVE OnceFor(s)'
  <2>1. NoSend \/ BeginSend(c, ServerInit(t))
    BY <1>6 DEF net_create_server
  <2>2. CASE s # t
    <3>1. \A d \in Callers : Sends(d, s)' => Sends(d, s)
      BY <1>4, <2>1, <2>2, ServerInitIsOwn
    <3>2. init_by'[s] = init_by[s] /\ server'[s] = server[s]
      BY <1>6, <2>2 DEF net_create_server, TypeOK
    <3> QED BY <1>0, <1>2, <1>3, <3>1, <3>2, OnceKept
  <2>3. CASE s = t
    <3>1. NoCarrier(s) /\ init_by[s] = <<>>
      BY <1>0, <1>6, <2>3 DEF OnceFor, net_create_server
    <3>2. CASE c = loop_tid
      <4>1. NoSend /\ server'[s] = "init" /\ init_by'[s] = Append(init_by[s], c)
        BY <1>6, <2>3, <3>2 DEF net_create_server, TypeOK
      <4>2. Len(init_by'[s]) <= 1
        BY <3>1, <4>1
      <4>3. NoCarrier(s)'
        BY <1>2, <1>4, <3>1, <4>1 DEF NoCarrier
      <4> QED BY <4>1, <4>2, <4>3 DEF OnceFor, OneCarrier, NoCarrier
    <3>3. CASE c # loop_tid
      <4>1. BeginSend(c, ServerInit(s)) /\ server'[s] = "created" /\ init_by'[s] = <<>>
        BY <1>6, <2>3, <3>1, <3>3 DEF net_create_server, TypeOK
      <4>2. \A d \in Callers : d # c => ~Sends(d, s)'
        BY <1>4, <3>1, <4>1 DEF NoCarrier
      <4>3. \A i \in Nat : ~Waits(i, s)'
        BY <1>2, <3>1 DEF NoCarrier
      <4>4. OneCarrier(s)'
        BY <4>2, <4>3 DEF OneCarrier
      <4> QED BY <4>1, <4>4 DEF OnceFor
    <3> QED BY <3>2, <3>3
  <2> QED BY <2>2, <2>3
<1>7. ASSUME NEW t \in Servers, ListenOnAny(c, t) PROVE OnceFor(s)'
  <2>1. \A d \in Callers : Sends(d, s)' => Sends(d, s)
    BY <1>7 DEF ListenOnAny, NoSend, callVars, Sends
  <2>2. init_by'[s] = init_by[s] /\ (server'[s] = "none" => server[s] = "none")
    BY <1>7 DEF ListenOnAny, TypeOK
  <2> QED BY <1>0, <1>2, <1>3, <2>1, <2>2, OnceKept
<1>8. CASE uv_node_close(c)
  <2>1. \A d \in Callers : Sends(d, s)' => Sends(d, s)
    BY <1>1, <1>8 DEF uv_node_close, Sends, TypeOK
  <2> QED BY <1>0, <1>2, <1>3, <1>8, <2>1, OnceKept DEF uv_node_close, serverVars
<1> QED BY <1>5, <1>6, <1>7, <1>8 DEF BeginCall, dns_lookup, ListenOnHost

(* A push takes the event from its caller to the list.                     *)
LEMMA CallOnce ==
  ASSUME TypeOK, MutexInv, OnceInv, NEW c \in Callers, CallStep(c)
  PROVE  OnceInv'
<1> SUFFICES ASSUME NEW s \in Servers PROVE OnceFor(s)'
  BY DEF OnceInv
<1>0. OnceFor(s) /\ UNCHANGED serverVars
  BY DEF OnceInv, CallStep, LockEvents, PushEvent, SendAsync, StopLoop
<1>1. \A i \in Nat : i + 0 = i
  OBVIOUS
<1>2. CASE LockEvents(c) \/ SendAsync(c) \/ StopLoop(c)
  <2>1. \A d \in Callers : Sends(d, s)' => Sends(d, s)
    BY <1>2 DEF LockEvents, SendAsync, StopLoop, Sends, TypeOK
  <2>2. \A i \in Nat : Waits(i, s)' <=> Waits(i, s)
    BY <1>2 DEF LockEvents, SendAsync, StopLoop, Waits, Pending, eventVars, loopVars
  <2> QED BY <1>0, <1>1, <2>1, <2>2, OnceKept DEF serverVars
<1>3. CASE PushEvent(c)
  <2> DEFINE L == async_event
             n == Len(async_event)
  <2>1. loop # "handle" /\ loop' # "handle"
    BY <1>3, CallerAssumption DEF PushEvent, MutexInv, loopVars
  <2>2. /\ n \in Nat /\ DOMAIN L = 1 .. n /\ DOMAIN L' = 1 .. n + 1
        /\ \A i \in 1 .. n : L'[i] = L[i]
        /\ L'[n + 1] = event[c]
    BY <1>3 DEF PushEvent, TypeOK
  <2>3. Pending = L /\ Pending' = L'
    BY <2>1 DEF Pending
  <2> HIDE DEF L, n
  <2>4. \A d \in Callers : Sends(d, s)' <=> d # c /\ Sends(d, s)
    BY <1>3 DEF PushEvent, Sends, TypeOK
  <2>5. \A i \in Nat : Waits(i, s)' <=> Waits(i, s) \/ (i = n + 1 /\ event[c] = ServerInit(s))
    BY <2>2, <2>3 DEF Waits
  <2>6. CASE event[c] # ServerInit(s)
    BY <1>0, <1>1, <2>4, <2>5, <2>6, OnceKept DEF serverVars
  <2>7. CASE event[c] = ServerInit(s)
    <3>1. Sends(c, s)
      BY <1>3, <2>7 DEF PushEvent, Sends
    <3>2. /\ \A d \in Callers : Sends(d, s) => d = c
          /\ \A i \in Nat : ~Waits(i, s)
      BY <1>0, <3>1 DEF OnceFor, OneCarrier
    <3>3. server[s] # "none" /\ init_by[s] = <<>>
      BY <1>0, <3>1 DEF OnceFor, NoCarrier
    <3>4. OneCarrier(s)'
      BY <2>4, <2>5, <3>2 DEF OneCarrier
    <3> QED BY <1>0, <3>3, <3>4 DEF OnceFor, serverVars
  <2> QED BY <2>6, <2>7
<1> QED BY <1>2, <1>3 DEF CallStep

(* on_uv_async takes each event from the list once.                        *)
LEMMA LoopOnce ==
  ASSUME TypeOK, OnceInv, LoopStep
  PROVE  OnceInv'
<1> SUFFICES ASSUME NEW s \in Servers PROVE OnceFor(s)'
  BY DEF OnceInv
<1>0. OnceFor(s)
  BY DEF OnceInv
<1>1. \A d \in Callers : Sends(d, s)' <=> Sends(d, s)
  BY DEF LoopStep, RunLoop, EndTurn, AsyncStart, AsyncLock, AsyncHandle, AsyncUnlock,
         callVars, Sends
<1>2. \A i \in Nat : i + 0 = i
  OBVIOUS
<1>3. CASE RunLoop \/ EndTurn \/ AsyncStart \/ AsyncLock
  <2>1. Pending' = Pending /\ UNCHANGED serverVars
    BY <1>3 DEF RunLoop, EndTurn, AsyncStart, AsyncLock, eventVars, Pending
  <2>2. \A i \in Nat : Waits(i, s)' <=> Waits(i, s)
    BY <2>1 DEF Waits
  <2> QED BY <1>0, <1>1, <1>2, <2>1, <2>2, OnceKept DEF serverVars
<1>4. CASE AsyncUnlock
  <2>1. \A i \in Nat : ~Waits(i, s)'
    BY <1>4 DEF AsyncUnlock, Pending, Waits
  <2> QED BY <1>0, <1>1, <1>2, <1>4, <2>1, OnceKept DEF AsyncUnlock, serverVars
<1>5. CASE AsyncHandle
  <2> DEFINE n == Len(todo)
  <2>1. /\ Pending = todo /\ Pending' = Tail(todo) /\ todo # <<>>
    BY <1>5 DEF AsyncHandle, Pending
  <2>2. /\ n \in Nat \ {0} /\ DOMAIN todo = 1 .. n /\ DOMAIN Tail(todo) = 1 .. n - 1
        /\ \A i \in 1 .. n - 1 : Tail(todo)[i] = todo[i + 1]
        /\ Head(todo) = todo[1]
    BY <2>1 DEF TypeOK
  <2> HIDE DEF n
  <2>3. ASSUME NEW i \in Nat, Waits(i, s)' PROVE Waits(i + 1, s) /\ i # 0
    <3>1. i \in 1 .. n - 1 /\ Tail(todo)[i] = ServerInit(s)
      BY <2>1, <2>2, <2>3 DEF Waits
    <3>2. i + 1 \in 1 .. n /\ todo[i + 1] = ServerInit(s) /\ i # 0
      BY <2>2, <3>1
    <3> QED BY <2>1, <2>2, <3>2 DEF Waits
  <2>4. /\ server'[s] = IF Head(todo) = ServerInit(s) THEN "init" ELSE server[s]
        /\ init_by'[s] = IF Head(todo) = ServerInit(s) THEN Append(init_by[s], Loop) ELSE init_by[s]
    BY <1>5 DEF AsyncHandle
  <2>5. CASE Head(todo) # ServerInit(s)
    BY <1>0, <1>1, <2>3, <2>4, <2>5, OnceKept
  <2>6. CASE Head(todo) = ServerInit(s)
    <3>1. Waits(1, s)
      BY <2>1, <2>2, <2>6 DEF Waits
    <3>2. /\ \A d \in Callers : ~Sends(d, s)
          /\ \A i \in Nat : Waits(i, s) => i = 1
          /\ init_by[s] = <<>>
      BY <1>0, <3>1 DEF OnceFor, OneCarrier, NoCarrier
    <3>3. ASSUME NEW i \in Nat, Waits(i, s)' PROVE FALSE
      <4>1. Waits(i + 1, s) /\ i # 0 /\ i + 1 \in Nat
        BY <2>3, <3>3
      <4>2. i + 1 = 1
        BY <3>2, <4>1
      <4> QED BY <4>1, <4>2
    <3>4. NoCarrier(s)'
      BY <1>1, <3>2, <3>3 DEF NoCarrier
    <3>5. server'[s] = "init" /\ Len(init_by'[s]) <= 1
      BY <2>4, <2>6, <3>2
    <3> QED BY <3>4, <3>5 DEF OnceFor, OneCarrier, NoCarrier
  <2> QED BY <2>5, <2>6
<1> QED BY <1>3, <1>4, <1>5 DEF LoopStep

(* Nobody else moves an event.                                             *)
LEMMA StepOnce ==
  ASSUME TypeOK, MutexInv, LookupInv, OnceInv, [Next]_vars
  PROVE  OnceInv'
<1>1. CASE \E c \in Callers : BeginCall(c) \/ CallStep(c)
  BY <1>1, BeginOnce, CallOnce
<1>2. CASE LoopStep
  BY <1>2, LoopOnce
<1>3. ASSUME UNCHANGED <<pc, event, async_event, todo, init_by>>, loop # "handle", loop' # "handle",
             \A s \in Servers : server'[s] = "none" => server[s] = "none"
      PROVE  OnceInv'
  <2> SUFFICES ASSUME NEW s \in Servers PROVE OnceFor(s)'
    BY DEF OnceInv
  <2>1. /\ \A d \in Callers : Sends(d, s)' => Sends(d, s)
        /\ \A i \in Nat : Waits(i, s)' <=> Waits(i, s)
        /\ \A i \in Nat : i + 0 = i
        /\ OnceFor(s) /\ init_by'[s] = init_by[s]
    BY <1>3 DEF Sends, Waits, Pending, OnceInv
  <2> QED BY <1>3, <2>1, OnceKept
<1> USE DEF callVars, eventVars, loopVars, serverVars
<1>4. CASE OtherCallback \/ \E s \in Servers : on_connection(s)
  BY <1>3, <1>4 DEF OtherCallback, on_connection
<1>5. CASE AsyncFreed \/ UNCHANGED vars
  BY <1>5 DEF AsyncFreed, vars, OnceInv, OnceFor, OneCarrier, NoCarrier, Sends, Waits, Pending
<1>6. CASE \E q \in Lookups, ok \in BOOLEAN : on_uv_getaddrinfo(q, ok)
  <2>1. PICK q \in Lookups, ok \in BOOLEAN : on_uv_getaddrinfo(q, ok)
    BY <1>6
  <2>2. \A s \in Servers : server'[s] = "none" => server[s] = "none"
    BY <2>1 DEF on_uv_getaddrinfo, TypeOK
  <2> QED BY <1>3, <2>1, <2>2 DEF on_uv_getaddrinfo
<1> QED BY <1>1, <1>2, <1>4, <1>5, <1>6 DEF Next

----------------------------------------------------------------------------
Inv == TypeOK /\ MutexInv /\ LookupInv /\ NoLostWakeup /\ InitOnItsWay /\ OnceInv

(* Whatever the threads do, no event sent to the loop thread is lost, and  *)
(* none is handled twice (send_async_event and on_uv_async).               *)
THEOREM EventsAreNotLost == Spec => []NoEventLost
<1>1. Init => Inv
  BY InitType, InitMutex, InitLookup, InitWakeup, InitWay, InitOnceInv DEF Inv
<1>2. Inv /\ [Next]_vars => Inv'
  BY StepType, StepMutex, StepLookup, StepWakeup, StepWay, StepOnce DEF Inv
<1>3. Inv => NoEventLost
  BY DEF Inv, NoEventLost, InitOnce, OnceInv, OnceFor
<1> QED BY <1>1, <1>2, <1>3, PTL DEF Spec
=============================================================================
