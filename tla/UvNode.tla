------------------------------- MODULE UvNode -------------------------------
(***************************************************************************)
(* The environment uv_node_t (uvmodules/uvnet/uvnet.c), the lookups of     *)
(* dns.c and the creation and listening of servers in net.c: the code that *)
(* decides on which thread libuv is called.                                *)
(*                                                                         *)
(* A function that is called on the loop thread calls libuv at once.  On   *)
(* any other thread it puts an event on async_event, under uv_mutex_h, and *)
(* calls uv_async_send; on_uv_async then handles the whole list on the     *)
(* loop thread.  The loop is the node's own, run by run_loop_thread, or    *)
(* one that the application runs.                                          *)
(*                                                                         *)
(* libuv is external: one pass of its loop waits in poll, runs callbacks   *)
(* (a turn) and looks whether uv_stop was called.                          *)
(***************************************************************************)
EXTENDS Naturals, Sequences, Functions

CONSTANTS
  Threads,     \* application threads other than the loop thread
  Loop,        \* the loop thread
  None,        \* no thread
  Queries,     \* the lookups the application may make
  Servers,     \* the servers it may create
  Hosted,      \* those of them that listen with a host name
  Watched      \* those whose listen call is given a callback

Callers == Threads \cup {Loop}

ASSUME CallerAssumption == Loop \notin Threads /\ None \notin Callers
ASSUME ServerAssumption == Hosted \subseteq Servers /\ Watched \subseteq Servers
ASSUME NameAssumption ==
  Queries \cap Servers = {} /\ None \notin Queries \cup Servers

VARIABLES
  \* the calls in progress
  pc,            \* where each caller stands in send_async_event or uv_node_close
  event,         \* the event it sends
  \* uv_node_t
  inner_uv,      \* the loop is the node's own
  is_run,        \* run_loop_thread is to go on
  loop_tid,      \* the loop thread, as far as the node knows
  async_event,   \* events pushed and not yet handled
  uv_mutex_h,    \* the thread that holds the mutex, or None
  freed,         \* the node has been freed
  \* the loop thread and libuv
  loop,          \* where the loop thread stands
  todo,          \* the events on_uv_async has still to handle
  async_pending, \* uv_async_send called and its callback not yet started
  stop_flag,     \* uv_stop was called
  \* the work
  query,         \* progress of every lookup, those of servers included
  asker,         \* who made the lookup
  server,        \* state of the handle of every server
  init_by,       \* the threads that have called uv_tcp_init for it
  announced,     \* the servers whose on_listening was called without an error
  misuse         \* what must not be done, and was

callVars  == <<pc, event>>
nodeVars  == <<inner_uv, is_run, freed>>
eventVars == <<async_event, uv_mutex_h>>
loopVars  == <<loop, todo, stop_flag>>
queryVars == <<query, asker>>
serverVars == <<server, init_by, announced>>
vars == <<callVars, nodeVars, loop_tid, eventVars, loopVars, async_pending,
          queryVars, serverVars, misuse>>

(* A lookup made for a server goes by the name of the server.              *)
Lookups == Queries \cup Hosted

ThreadId(p)   == [event |-> "THREAD_ID", params |-> p]
ServerInit(s) == [event |-> "TCP_SERVER_INIT", params |-> s]
NoEvent       == [event |-> "none", params |-> None]

----------------------------------------------------------------------------
(* uv_node_create.  With a loop of its own, loop_tid comes from            *)
(* uv_thread_create.  With the application's it is left uninitialised, so  *)
(* that it may be anything, and an event is sent that will set it.         *)
Init ==
  /\ pc = [c \in Callers |-> "idle"] /\ event = [c \in Callers |-> NoEvent]
  /\ inner_uv \in BOOLEAN /\ is_run = TRUE /\ freed = FALSE
  /\ IF inner_uv
     THEN /\ loop_tid = Loop /\ async_event = <<>> /\ async_pending = FALSE
          /\ loop = "start"
     ELSE /\ loop_tid \in Callers \cup {None}
          /\ async_event = <<ThreadId(None)>> /\ async_pending = TRUE
          /\ loop = "turn"
  /\ uv_mutex_h = None /\ todo = <<>> /\ stop_flag = FALSE
  /\ query = [q \in Lookups |-> "none"] /\ asker = [q \in Lookups |-> None]
  /\ server = [s \in Servers |-> "none"] /\ init_by = [s \in Servers |-> <<>>]
  /\ announced = {} /\ misuse = {}

----------------------------------------------------------------------------
(* The calls of the application; on the loop thread, from a callback.      *)

Idle(c) ==
  ~freed /\ is_run /\ pc[c] = "idle" /\ (c = Loop => loop = "turn")

(* Nothing is sent to the loop thread.                                     *)
NoSend == UNCHANGED <<callVars, async_pending, loop_tid, eventVars>>

(* send_async_event is begun.                                              *)
BeginSend(c, e) ==
  /\ event' = [event EXCEPT ![c] = e]
  /\ pc' = [pc EXCEPT ![c] = "lock"]
  /\ UNCHANGED <<async_pending, loop_tid, eventVars>>

(* libuv is not thread-safe: a call of it on another thread than its own.  *)
Foreign(c) == IF c = Loop THEN {} ELSE {"foreign_call"}

(* on_dns_lookup, the callback of a server's lookup, calls on_listening    *)
(* whether the server has one or not.                                      *)
Uncalled(q) == IF q \in Servers \ Watched THEN {"null_callback"} ELSE {}

(* Faulty variant: a lookup that uv_getaddrinfo refuses is dropped.        *)
ResolveUntold(c, q) ==
  \E now \in {"resolving", "ignored"} :
    /\ query' = [query EXCEPT ![q] = now]
    /\ misuse' = misuse \cup Foreign(c)

(* dns_lookup_async: uv_getaddrinfo takes the lookup, or refuses it, and   *)
(* then it is answered with an error before the call returns.              *)
dns_lookup_async(c, q) ==
  \E now \in {"resolving", "answered"} :
    /\ query' = [query EXCEPT ![q] = now]
    /\ misuse' = misuse \cup Foreign(c)
                   \cup (IF now = "answered" THEN Uncalled(q) ELSE {})

(* dns_lookup_options: on another thread, what is sent is the event        *)
(* ASYNC_EVENT_THREAD_ID, with the lookup as its parameter.                *)
Lookup(c, q) ==
  /\ asker' = [asker EXCEPT ![q] = c]
  /\ IF c = loop_tid
     THEN dns_lookup_async(c, q) /\ NoSend
     ELSE /\ query' = [query EXCEPT ![q] = "sent"]
          /\ BeginSend(c, ThreadId(q))
          /\ UNCHANGED misuse

dns_lookup(c, q) ==
  /\ Idle(c) /\ query[q] = "none"
  /\ Lookup(c, q)
  /\ UNCHANGED <<nodeVars, loopVars, serverVars>>

net_create_server(c, s) ==
  /\ Idle(c) /\ server[s] = "none"
  /\ IF c = loop_tid
     THEN /\ server' = [server EXCEPT ![s] = "init"]
          /\ init_by' = [init_by EXCEPT ![s] = Append(@, c)]
          /\ misuse' = misuse \cup Foreign(c)
          /\ NoSend
     ELSE /\ server' = [server EXCEPT ![s] = "created"]
          /\ BeginSend(c, ServerInit(s))
          /\ UNCHANGED <<init_by, misuse>>
  /\ UNCHANGED <<nodeVars, loopVars, queryVars, announced>>

(* net_server_listen_port with a port and a host: the host is looked up.   *)
ListenOnHost(c, s) ==
  /\ Idle(c) /\ s \in Hosted /\ server[s] # "none" /\ query[s] = "none"
  /\ Lookup(c, s)
  /\ UNCHANGED <<nodeVars, loopVars, serverVars>>

(* Without a host the calling thread binds, listens and announces it.      *)
ListenOnAny(c, s) ==
  /\ Idle(c) /\ s \notin Hosted /\ server[s] # "none" /\ s \notin announced
  /\ server' = [server EXCEPT ![s] = "listening"]
  /\ announced' = announced \cup {s}
  /\ misuse' = misuse \cup Foreign(c)
                 \cup (IF server[s] = "created" THEN {"handle_not_init"} ELSE {})
                 \cup (IF s \notin Watched THEN {"null_callback"} ELSE {})
  /\ NoSend
  /\ UNCHANGED <<nodeVars, loopVars, queryVars, init_by>>

(* Everything the application started has come to its end, as the comment  *)
(* on uv_node_close asks.                                                  *)
AllDone ==
  /\ \A c \in Callers : pc[c] = "idle"
  /\ \A q \in Lookups : query[q] \in {"none", "answered", "ignored"}
  /\ \A s \in Servers : server[s] # "none" => init_by[s] # <<>>

(* uv_node_close.  With the application's loop the node is freed at once.  *)
uv_node_close(c) ==
  /\ Idle(c) /\ AllDone
  /\ IF inner_uv
     THEN is_run' = FALSE /\ pc' = [pc EXCEPT ![c] = "stop"] /\ UNCHANGED freed
     ELSE freed' = TRUE /\ UNCHANGED <<is_run, pc>>
  /\ UNCHANGED <<event, inner_uv, loop_tid, eventVars, loopVars, async_pending,
                 queryVars, serverVars, misuse>>

(* Its second half, uv_stop.  The loop thread may have seen is_run already *)
(* and have freed the node.                                                *)
StopLoop(c) ==
  /\ pc[c] = "stop"
  /\ pc' = [pc EXCEPT ![c] = "idle"]
  /\ IF freed THEN misuse' = misuse \cup {"use_after_free"} /\ UNCHANGED stop_flag
              ELSE stop_flag' = TRUE /\ UNCHANGED misuse
  /\ UNCHANGED <<event, nodeVars, loop_tid, eventVars, loop, todo, async_pending,
                 queryVars, serverVars>>

(* send_async_event.                                                       *)
LockEvents(c) ==
  /\ pc[c] = "lock" /\ uv_mutex_h = None
  /\ uv_mutex_h' = c
  /\ pc' = [pc EXCEPT ![c] = "push"]
  /\ UNCHANGED <<event, nodeVars, loop_tid, async_event, loopVars, async_pending,
                 queryVars, serverVars, misuse>>

PushEvent(c) ==
  /\ pc[c] = "push"
  /\ async_event' = Append(async_event, event[c])
  /\ uv_mutex_h' = None
  /\ pc' = [pc EXCEPT ![c] = "send"]
  /\ UNCHANGED <<event, nodeVars, loop_tid, loopVars, async_pending, queryVars,
                 serverVars, misuse>>

(* Faulty variant: the loop is woken only if it waits.                     *)
SendIfWaiting(c) ==
  /\ pc[c] = "send"
  /\ async_pending' = (async_pending \/ loop = "poll")
  /\ pc' = [pc EXCEPT ![c] = "idle"]
  /\ UNCHANGED <<event, nodeVars, loop_tid, eventVars, loopVars, queryVars,
                 serverVars, misuse>>

SendAsync(c) ==
  /\ pc[c] = "send"
  /\ async_pending' = TRUE
  /\ pc' = [pc EXCEPT ![c] = "idle"]
  /\ UNCHANGED <<event, nodeVars, loop_tid, eventVars, loopVars, queryVars,
                 serverVars, misuse>>

CallStep(c) == LockEvents(c) \/ PushEvent(c) \/ SendAsync(c) \/ StopLoop(c)

BeginCall(c) ==
  \/ \E q \in Queries : dns_lookup(c, q)
  \/ \E s \in Servers : net_create_server(c, s) \/ ListenOnHost(c, s) \/ ListenOnAny(c, s)
  \/ uv_node_close(c)

----------------------------------------------------------------------------
(* The loop thread.                                                        *)

(* Faulty variant: while(true), as in _uv_loop_thread_cb of uvLog.c.       *)
RunForever ==
  /\ loop = "start"
  /\ loop' = "turn"
  /\ UNCHANGED <<callVars, nodeVars, loop_tid, eventVars, todo, stop_flag,
                 async_pending, queryVars, serverVars, misuse>>

(* run_loop_thread: enters uv_run, or frees the node.                      *)
RunLoop ==
  /\ loop = "start"
  /\ IF is_run THEN loop' = "turn" /\ UNCHANGED freed
               ELSE loop' = "ended" /\ freed' = TRUE
  /\ UNCHANGED <<callVars, inner_uv, is_run, loop_tid, eventVars, todo, stop_flag,
                 async_pending, queryVars, serverVars, misuse>>

(* External: after the callbacks of a turn, uv_run returns if uv_stop was  *)
(* called and otherwise waits.                                             *)
EndTurn ==
  /\ loop = "turn" /\ pc[Loop] = "idle"
  /\ loop' = IF stop_flag THEN "start" ELSE "poll"
  /\ stop_flag' = FALSE
  /\ UNCHANGED <<callVars, nodeVars, loop_tid, eventVars, todo, async_pending,
                 queryVars, serverVars, misuse>>

(* External: a callback of something else on this loop.                    *)
OtherCallback ==
  /\ loop = "poll"
  /\ loop' = "turn"
  /\ UNCHANGED <<callVars, nodeVars, loop_tid, eventVars, todo, stop_flag,
                 async_pending, queryVars, serverVars, misuse>>

(* on_uv_async holds the mutex from its first line to its last.            *)
AsyncStart ==
  /\ loop = "poll" /\ async_pending /\ ~freed
  /\ async_pending' = FALSE
  /\ loop' = "lock"
  /\ UNCHANGED <<callVars, nodeVars, loop_tid, eventVars, todo, stop_flag,
                 queryVars, serverVars, misuse>>

(* Faulty variant: the events are handled without the mutex.               *)
LockBriefly ==
  /\ loop = "lock" /\ ~freed /\ uv_mutex_h = None
  /\ todo' = async_event
  /\ loop' = "handle"
  /\ UNCHANGED <<callVars, nodeVars, loop_tid, eventVars, stop_flag,
                 async_pending, queryVars, serverVars, misuse>>

AsyncLock ==
  /\ loop = "lock" /\ ~freed /\ uv_mutex_h = None
  /\ uv_mutex_h' = Loop
  /\ todo' = async_event
  /\ loop' = "handle"
  /\ UNCHANGED <<callVars, nodeVars, loop_tid, async_event, stop_flag,
                 async_pending, queryVars, serverVars, misuse>>

(* One event: ASYNC_EVENT_THREAD_ID sets loop_tid and ignores its          *)
(* parameter, ASYNC_EVENT_DNS_LOOKUP is handled but never sent, and        *)
(* ASYNC_EVENT_TCP_SERVER_INIT initialises a handle whatever its state.    *)
AsyncHandle ==
  /\ loop = "handle" /\ ~freed /\ todo # <<>>
  /\ LET e == Head(todo)
     IN  /\ loop_tid' = IF e.event = "THREAD_ID" THEN Loop ELSE loop_tid
         /\ query' = [q \in Lookups |->
              IF e.params # q THEN query[q]
              ELSE IF e.event = "THREAD_ID" THEN "ignored"
              ELSE IF e.event = "DNS_LOOKUP" THEN "resolving" ELSE query[q]]
         /\ server' = [s \in Servers |->
              IF e = ServerInit(s) THEN "init" ELSE server[s]]
         /\ init_by' = [s \in Servers |->
              IF e = ServerInit(s) THEN Append(init_by[s], Loop) ELSE init_by[s]]
  /\ todo' = Tail(todo)
  /\ UNCHANGED <<callVars, nodeVars, eventVars, loop, stop_flag, async_pending,
                 asker, announced, misuse>>

(* The list is emptied and the mutex released.                             *)
AsyncUnlock ==
  /\ loop = "handle" /\ ~freed /\ todo = <<>>
  /\ async_event' = <<>>
  /\ uv_mutex_h' = None
  /\ loop' = "turn"
  /\ UNCHANGED <<callVars, nodeVars, loop_tid, todo, stop_flag, async_pending,
                 queryVars, serverVars, misuse>>

(* The application's loop still has the async handle of a node that was    *)
(* freed, and may be in its callback.                                      *)
AsyncFreed ==
  /\ freed /\ ~inner_uv
  /\ loop \in {"lock", "handle"} \/ (loop = "poll" /\ async_pending)
  /\ misuse' = misuse \cup {"use_after_free"}
  /\ UNCHANGED <<callVars, nodeVars, loop_tid, eventVars, loopVars, async_pending,
                 queryVars, serverVars>>

(* on_uv_getaddrinfo calls back.  The callback of a server, on_dns_lookup, *)
(* announces it as listening if it has a callback and the lookup has       *)
(* succeeded; it binds and listens if it has none.                         *)
on_uv_getaddrinfo(q, ok) ==
  /\ loop = "poll" /\ query[q] = "resolving"
  /\ query' = [query EXCEPT ![q] = "answered"]
  /\ loop' = "turn"
  /\ IF q \in Servers /\ ok /\ q \in Watched
     THEN announced' = announced \cup {q} ELSE UNCHANGED announced
  /\ IF q \in Servers /\ ok /\ q \notin Watched
     THEN server' = [server EXCEPT ![q] = "listening"] ELSE UNCHANGED server
  /\ misuse' = misuse \cup Uncalled(q)
  /\ UNCHANGED <<callVars, nodeVars, loop_tid, eventVars, todo, stop_flag,
                 async_pending, asker, init_by>>

(* on_connection makes a socket of the connection.  It writes the peer's   *)
(* address through remoteAddress of that socket, which nothing has set.    *)
on_connection(s) ==
  /\ loop = "poll" /\ server[s] = "listening"
  /\ loop' = "turn"
  /\ misuse' = misuse \cup {"null_address"} \cup IF freed THEN {"use_after_free"} ELSE {}
  /\ UNCHANGED <<callVars, nodeVars, loop_tid, eventVars, todo, stop_flag,
                 async_pending, queryVars, serverVars>>

LoopStep ==
  RunLoop \/ EndTurn \/ AsyncStart \/ AsyncLock \/ AsyncHandle \/ AsyncUnlock

Next ==
  \/ \E c \in Callers : BeginCall(c) \/ CallStep(c)
  \/ LoopStep
  \/ OtherCallback
  \/ AsyncFreed
  \/ \E q \in Lookups, ok \in BOOLEAN : on_uv_getaddrinfo(q, ok)
  \/ \E s \in Servers : on_connection(s)

Spec == Init /\ [][Next]_vars

(* A call that has begun runs on, and so does the loop thread, unless it   *)
(* waits in poll.  There a callback that stays pending has its turn, even  *)
(* if others come first, and the resolver answers.                         *)
FairSpec ==
  /\ Spec
  /\ \A c \in Callers : WF_vars(CallStep(c))
  /\ WF_vars(LoopStep)
  /\ SF_vars(AsyncStart)
  /\ SF_vars(\E q \in Lookups, ok \in BOOLEAN : on_uv_getaddrinfo(q, ok))

----------------------------------------------------------------------------
(* What is sent; ASYNC_EVENT_DNS_LOOKUP never is.                          *)
EventType ==
  [event : {"none", "THREAD_ID", "TCP_SERVER_INIT"},
   params : Queries \cup Servers \cup {None}]

(* Every variable keeps the type of the field or of the progress it stands *)
(* for.                                                                    *)
TypeOK ==
  /\ pc \in [Callers -> {"idle", "lock", "push", "send", "stop"}]
  /\ event \in [Callers -> EventType]
  /\ inner_uv \in BOOLEAN /\ is_run \in BOOLEAN /\ freed \in BOOLEAN
  /\ loop_tid \in Callers \cup {None}
  /\ async_event \in Seq(EventType) /\ todo \in Seq(EventType)
  /\ uv_mutex_h \in Callers \cup {None}
  /\ loop \in {"start", "turn", "poll", "lock", "handle", "ended"}
  /\ async_pending \in BOOLEAN /\ stop_flag \in BOOLEAN
  /\ query \in [Lookups -> {"none", "sent", "ignored", "resolving", "answered"}]
  /\ asker \in [Lookups -> Callers \cup {None}]
  /\ server \in [Servers -> {"none", "created", "init", "listening"}]
  /\ init_by \in [Servers -> Seq(Callers)]
  /\ announced \in SUBSET Servers
  /\ misuse \in SUBSET {"foreign_call", "handle_not_init", "null_callback",
                        "null_address", "use_after_free"}

(* No event is left on the list with nobody to handle it.                  *)
NoLostWakeup ==
  ~freed /\ async_event # <<>> =>
    \/ async_pending
    \/ loop \in {"lock", "handle"}
    \/ \E c \in Callers : pc[c] = "send"

(* The event that is to initialise a server's handle is being sent, on the *)
(* list that on_uv_async will handle, or among those it still has to       *)
(* handle: no push comes between its look at the list and the emptying.    *)
InitOnItsWay ==
  \A s \in Servers : server[s] # "none" /\ init_by[s] = <<>> =>
    \/ \E c \in Callers : pc[c] \in {"lock", "push"} /\ event[c] = ServerInit(s)
    \/ ServerInit(s) \in Range(IF loop = "handle" THEN todo ELSE async_event)

(* No handle is initialised twice: neither by the thread that creates the  *)
(* server and by an event for it, nor by two events or twice by one.       *)
InitOnce == \A s \in Servers : Len(init_by[s]) <= 1

(* No event is lost between the threads that send it and the loop, and     *)
(* none is handled twice: neither the wakeup for it nor the event itself,  *)
(* although wakeups are coalesced and the list is emptied after all of it  *)
(* has been handled.                                                       *)
NoEventLost == NoLostWakeup /\ InitOnItsWay /\ InitOnce

(* Whichever thread creates a server, its handle is initialised.           *)
CreatedIsInit ==
  \A s \in Servers : server[s] = "created" ~> init_by[s] # <<>>

(* A lookup made on the loop thread of the node's own loop is answered, by *)
(* the resolver or, when uv_getaddrinfo refuses it, before the call        *)
(* returns.                                                                *)
LoopLookupAnswered ==
  \A q \in Lookups :
    (inner_uv /\ asker[q] = Loop) ~> query[q] = "answered"

(* A node that is closed while a wakeup is pending is freed.  Nothing is   *)
(* said of one that is closed while its loop waits and nothing is pending: *)
(* uv_stop does not wake it, and it waits for ever.                        *)
PendingCloseEnds == (stop_flag /\ async_pending) ~> freed

(* A lookup that another thread than that of the node's own loop makes is  *)
(* sent to the loop thread and answered there.                             *)
LookupAnswered ==
  \A q \in Queries :
    (inner_uv /\ asker[q] \in Threads) ~> query[q] = "answered"
=============================================================================
