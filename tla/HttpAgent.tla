----------------------------- MODULE HttpAgent -----------------------------
(***************************************************************************)
(* The HTTP client of uvmodules/uvnet/agent.c and socket.c: one agent,     *)
(* that is the sockets of one host.                                        *)
(*                                                                         *)
(* agent_request gives a request to an idle socket or to a new one, or     *)
(* puts it on a waiting list when max_sockets are busy.  When a response   *)
(* is complete, agent_request_finish gives the socket to the next waiting  *)
(* request or sets it free.  Everything runs on the loop thread, so that a *)
(* handler is one step, with the user callbacks it makes; agent_request is *)
(* called, as request.c says, from the callback of the name lookup.        *)
(*                                                                         *)
(* These files belong to an older interface: they use fields of uv_node_t  *)
(* that are gone, constants here, and nothing calls them any more.         *)
(***************************************************************************)
EXTENDS Naturals, Sequences, FiniteSets, Functions

CONSTANTS
  MaxRequests,       \* how many requests are made in this instance
  Sockets,           \* the memory blocks a socket_t can be in
  None,              \* NULL
  max_sockets,       \* conf.max_sockets: busy sockets of a host
  max_free_sockets,  \* conf.max_free_sockets: idle sockets of a host
  Peers              \* the peers of this instance, each the set of what it does

(* Refuse a connection; drop one that is in use; answer before the request *)
(* has been written; send what was not asked for on an idle connection.    *)
(* And, with any peer, a read that finds nothing: libuv then calls back    *)
(* with nread = 0, as it does after data that has filled the buffer.       *)
Fault == {"refuse", "drop", "early", "unasked", "empty"}

(* Requests are numbered in the order in which they are made.              *)
Requests == 1 .. MaxRequests

ASSUME RequestAssumption == MaxRequests \in Nat
ASSUME NoneAssumption == None \notin Requests
ASSUME SizeAssumption == max_sockets \in Nat \ {0} /\ max_free_sockets \in Nat
ASSUME PeerAssumption == Peers \subseteq SUBSET Fault

VARIABLES
  peer,          \* what the peer and its connections do
  recursive,     \* a thread may lock a uv_mutex_t it holds (Windows) or not
  \* agent_t
  sockets,       \* busy sockets
  free_sockets,  \* idle sockets
  requests,      \* waiting requests
  \* socket_t, and what libuv does with it
  socket,
  \* what has happened
  submitted,     \* how many requests agent_request has been given
  started,       \* the requests given to a socket, in order
  told,          \* the callbacks of every request, in order
  fault          \* the loop thread is "stuck" or has ended in a "crash"

poolVars == <<sockets, free_sockets, requests>>
givenVars == <<peer, recursive>>
vars == <<givenVars, poolVars, socket, submitted, started, told, fault>>

Unused == [handle |-> "none", conn |-> "none", status |-> "uninit",
           req |-> None, writing |-> FALSE]

Init ==
  /\ peer \in Peers /\ recursive \in BOOLEAN
  /\ sockets = {} /\ free_sockets = {} /\ requests = <<>>
  /\ socket = [s \in Sockets |-> Unused]
  /\ submitted = 0 /\ started = <<>>
  /\ told = [r \in Requests |-> <<>>]
  /\ fault = "none"

Running == fault = "none"

(* The memory that the next socket is in, if there is any in this          *)
(* instance.  Free blocks are alike, so that one choice stands for all.    *)
New ==
  LET free == {n \in Sockets : socket[n] = Unused}
  IN  IF free = {} THEN {} ELSE {CHOOSE n \in free : TRUE}

----------------------------------------------------------------------------
(* socket.c, the part that makes requests of libuv.  These operators give  *)
(* socket k of address s, told and fault their next values.                *)

(* create_socket, given the request it is for.                             *)
create_socket(r) ==
  [Unused EXCEPT !.handle = "open", !.status = "init", !.req = r]

Tell(t, r, what) == [t EXCEPT ![r] = Append(@, what)]

(* send_socket: the request goes to uv_write with the one uv_write_t of    *)
(* the socket, which must not be in use, after a look at the request.      *)
send_socket(s, k) ==
  /\ socket' = [socket EXCEPT ![s] = [k EXCEPT !.writing = TRUE]]
  /\ fault' = IF k.writing \/ k.req = None THEN "crash" ELSE fault

(* socket_run: connects a socket that has not been, or sends.  A           *)
(* connection that cannot even be attempted is reported and left.          *)
socket_run(s, k, t) ==
  \/ /\ k.status = "init"
     /\ \/ /\ socket' = [socket EXCEPT ![s] = [k EXCEPT !.conn = "connecting"]]
           /\ told' = t
        \/ /\ "refuse" \in peer
           /\ socket' = [socket EXCEPT ![s] = [k EXCEPT !.conn = "refused"]]
           /\ told' = Tell(t, k.req, "unsent")
     /\ UNCHANGED fault
  \/ k.status # "init" /\ send_socket(s, k) /\ told' = t

(* destory_socket: uv_close, which also cancels what is in flight.         *)
destory_socket(k) == [k EXCEPT !.handle = "closing"]

----------------------------------------------------------------------------
(* agent_request, which locks the mutex of the agent a second time instead *)
(* of unlocking it.  Where a thread cannot do that, the loop thread stops  *)
(* there, before the socket is run.                                        *)

(* Faulty variant: one socket too many.                                    *)
FullOffByOne == Cardinality(sockets) > max_sockets

Full == Cardinality(sockets) >= max_sockets

(* The request waits.                                                      *)
Enqueue(r) ==
  /\ Full
  /\ requests' = Append(requests, r)
  /\ fault' = IF recursive THEN fault ELSE "stuck"
  /\ UNCHANGED <<sockets, free_sockets, socket, started, told>>

(* Faulty variant: the socket stays on the idle list.                      *)
StartKeepsFree(r) ==
  /\ ~Full
  /\ \E s \in IF free_sockets = {} THEN New
              ELSE free_sockets :
       LET k == IF free_sockets = {} THEN create_socket(r)
                ELSE [socket[s] EXCEPT !.req = r]
       IN  /\ sockets' = sockets \cup {s}
           /\ IF recursive THEN socket_run(s, k, told)
              ELSE /\ socket' = [socket EXCEPT ![s] = k]
                   /\ fault' = "stuck" /\ UNCHANGED told
  /\ started' = Append(started, r)
  /\ UNCHANGED <<free_sockets, requests>>

(* The request goes to an idle socket, or to a new one if there is none.   *)
Start(r) ==
  /\ ~Full
  /\ \E s \in IF free_sockets = {} THEN New
              ELSE free_sockets :
       LET k == IF free_sockets = {} THEN create_socket(r)
                ELSE [socket[s] EXCEPT !.req = r]
       IN  /\ sockets' = sockets \cup {s}
           /\ free_sockets' = free_sockets \ {s}
           /\ IF recursive THEN socket_run(s, k, told)
              ELSE /\ socket' = [socket EXCEPT ![s] = k]
                   /\ fault' = "stuck" /\ UNCHANGED told
  /\ started' = Append(started, r)
  /\ UNCHANGED requests

agent_request(r) ==
  /\ Running /\ r = submitted + 1
  /\ submitted' = r
  /\ Enqueue(r) \/ Start(r)
  /\ UNCHANGED givenVars

----------------------------------------------------------------------------
(* agent_request_finish, called by read_cb, which then sets the status of  *)
(* the socket.  k is the socket as read_cb leaves it, t what was told.     *)

(* Faulty variant: the newest waiting request first.                       *)
NextNewest(s, k, t) ==
  /\ requests # <<>>
  /\ requests' = SubSeq(requests, 1, Len(requests) - 1)
  /\ started' = Append(started, requests[Len(requests)])
  /\ socket_run(s, [k EXCEPT !.req = requests[Len(requests)]], t)
  /\ UNCHANGED <<sockets, free_sockets>>

(* Faulty variant: the socket is run before it is given the request.       *)
RunNextUnset(s, k, t) ==
  /\ requests # <<>>
  /\ requests' = Tail(requests)
  /\ started' = Append(started, Head(requests))
  /\ socket_run(s, [k EXCEPT !.req = None], t)
  /\ UNCHANGED <<sockets, free_sockets>>

(* The response is complete and a request waits: it gets the socket.       *)
RunNext(s, k, t) ==
  /\ requests # <<>>
  /\ requests' = Tail(requests)
  /\ started' = Append(started, Head(requests))
  /\ socket_run(s, [k EXCEPT !.req = Head(requests)], t)
  /\ UNCHANGED <<sockets, free_sockets>>

(* Faulty variant: does not look at the waiting requests.                  *)
SetFreeAnyway(s, k, t) ==
  /\ sockets' = sockets \ {s}
  /\ IF Cardinality(free_sockets) >= max_free_sockets
     THEN /\ socket' = [socket EXCEPT ![s] = destory_socket([k EXCEPT !.req = None])]
          /\ UNCHANGED free_sockets
     ELSE /\ socket' = [socket EXCEPT ![s] = [k EXCEPT !.req = None]]
          /\ free_sockets' = free_sockets \cup {s}
  /\ told' = t
  /\ UNCHANGED <<requests, started, fault>>

(* None waits: the socket is idle, or closed if enough others are.  The    *)
(* connection is kept whatever the response says of it.                    *)
SetFree(s, k, t) ==
  /\ requests = <<>>
  /\ sockets' = sockets \ {s}
  /\ IF Cardinality(free_sockets) >= max_free_sockets
     THEN /\ socket' = [socket EXCEPT ![s] = destory_socket([k EXCEPT !.req = None])]
          /\ UNCHANGED free_sockets
     ELSE /\ socket' = [socket EXCEPT ![s] = [k EXCEPT !.req = None]]
          /\ free_sockets' = free_sockets \cup {s}
  /\ told' = t
  /\ UNCHANGED <<requests, started, fault>>

(* The connection has failed: the request and the socket are destroyed.    *)
(* If a request waits, it is taken from the list for a new socket n, which *)
(* gets a pointer into the list for a request; then socket_run is called,  *)
(* not on n, but on the destroyed socket, which has no request any more:   *)
(* it sends, and dereferences NULL.                                        *)
Fail(s, k, t) ==
  /\ told' = t
  /\ free_sockets' = free_sockets \ {s}
  /\ LET closed == [socket EXCEPT ![s] = destory_socket([k EXCEPT !.req = None])]
     IN  IF s \in sockets /\ requests # <<>>
         THEN \E n \in New :
                /\ requests' = Tail(requests)
                /\ sockets' = (sockets \ {s}) \cup {n}
                /\ socket' = [closed EXCEPT ![n] = create_socket(None)]
                /\ fault' = "crash"
         ELSE /\ sockets' = sockets \ {s}
              /\ socket' = closed
              /\ UNCHANGED <<requests, fault>>
  /\ UNCHANGED started

----------------------------------------------------------------------------
(* The callbacks of libuv.                                                 *)

Connected(s) == socket[s].handle = "open" /\ socket[s].conn = "up"

(* Faulty variant: a failure is not reported.                              *)
connect_cbSilent(s, ok) ==
  /\ Running /\ socket[s].conn = "connecting"
  /\ ok \/ "refuse" \in peer
  /\ IF ok
     THEN send_socket(s, [socket[s] EXCEPT !.conn = "up", !.status = "connected"])
     ELSE socket' = [socket EXCEPT ![s].conn = "refused"] /\ UNCHANGED fault
  /\ UNCHANGED <<givenVars, poolVars, submitted, started, told>>

(* connect_cb: a failure is reported, and the socket is left as it is.     *)
connect_cb(s, ok) ==
  /\ Running /\ socket[s].conn = "connecting"
  /\ ok \/ "refuse" \in peer
  /\ IF ok
     THEN /\ send_socket(s, [socket[s] EXCEPT !.conn = "up", !.status = "connected"])
          /\ UNCHANGED told
     ELSE /\ socket' = [socket EXCEPT ![s].conn = "refused"]
          /\ told' = Tell(told, socket[s].req, "unsent")
          /\ UNCHANGED fault
  /\ UNCHANGED <<givenVars, poolVars, submitted, started>>

(* write_cb: uses the request of the socket, whichever that is by now.  A  *)
(* write is also called back, with an error, when its socket is closing.   *)
write_cb(s, ok) ==
  /\ Running /\ socket[s].writing
  /\ IF ok THEN Connected(s) ELSE "drop" \in peer \/ socket[s].handle = "closing"
  /\ IF socket[s].req = None
     THEN fault' = "crash" /\ UNCHANGED told
     ELSE /\ told' = Tell(told, socket[s].req, IF ok THEN "sent" ELSE "unsent")
          /\ UNCHANGED fault
  /\ socket' = [socket EXCEPT ![s].writing = FALSE,
                              ![s].status = IF ok THEN "send" ELSE @]
  /\ UNCHANGED <<givenVars, poolVars, submitted, started>>

(* What the peer may send now.                                             *)
Answering(s) ==
  IF socket[s].req = None THEN "unasked" \in peer
  ELSE ~socket[s].writing \/ "early" \in peer

(* read_cb with data that does not complete the response, or with none.    *)
(* isbusy is never reset, so that on an idle socket, too, it goes to the   *)
(* response of the request, and there is no request.                       *)
ReadPart(s) ==
  /\ Running /\ Connected(s)
  /\ Answering(s) \/ "empty" \in peer
  /\ socket' = [socket EXCEPT ![s].status = "recv"]
  /\ fault' = IF socket[s].req = None THEN "crash" ELSE fault
  /\ UNCHANGED <<givenVars, poolVars, submitted, started, told>>

(* Faulty variant: the request is told of its response again afterwards.   *)
ReadLastTwice(s) ==
  /\ Running /\ Connected(s) /\ Answering(s) /\ socket[s].req # None
  /\ LET k == [socket[s] EXCEPT !.status = "recv"]
         t == Tell(Tell(told, k.req, "response"), k.req, "response")
     IN  RunNext(s, k, t) \/ SetFree(s, k, t)
  /\ UNCHANGED <<givenVars, submitted>>

(* read_cb with data that completes the response: response_recive has told *)
(* the user and returned true.                                             *)
ReadLast(s) ==
  /\ Running /\ Connected(s) /\ Answering(s) /\ socket[s].req # None
  /\ LET k == [socket[s] EXCEPT !.status = "recv"]
         t == Tell(told, k.req, "response")
     IN  RunNext(s, k, t) \/ SetFree(s, k, t)
  /\ UNCHANGED <<givenVars, submitted>>

(* read_cb with an error or the end of the stream.  The user is told only  *)
(* if the request was sent and no part of its response had come.           *)
ReadError(s) ==
  /\ Running /\ Connected(s)
  /\ socket[s].req = None \/ "drop" \in peer
  /\ LET k == [socket[s] EXCEPT !.status = "init", !.conn = "down"]
         t == IF socket[s].status = "send" /\ k.req # None
              THEN Tell(told, k.req, "failed") ELSE told
     IN  Fail(s, k, t)
  /\ UNCHANGED <<givenVars, submitted>>

(* close_cb, after a pending write has been called back: the socket is     *)
(* freed.                                                                  *)
close_cb(s) ==
  /\ Running /\ socket[s].handle = "closing" /\ ~socket[s].writing
  /\ socket' = [socket EXCEPT ![s] = Unused]
  /\ UNCHANGED <<givenVars, poolVars, submitted, started, told, fault>>

Callback(s) ==
  \/ \E ok \in BOOLEAN : connect_cb(s, ok) \/ write_cb(s, ok)
  \/ ReadPart(s)
  \/ ReadLast(s)
  \/ ReadError(s)
  \/ close_cb(s)

Next ==
  \/ \E r \in Requests : agent_request(r)
  \/ \E s \in Sockets : Callback(s)

Spec == Init /\ [][Next]_vars

(* libuv calls back, and a peer that has the request sends all of its      *)
(* response in the end.                                                    *)
FairSpec ==
  /\ Spec
  /\ \A s \in Sockets :
       /\ WF_vars(\E ok \in BOOLEAN : connect_cb(s, ok))
       /\ WF_vars(\E ok \in BOOLEAN : write_cb(s, ok))
       /\ SF_vars(ReadLast(s))
       /\ WF_vars(close_cb(s))

----------------------------------------------------------------------------
SocketType ==
  [handle : {"none", "open", "closing"},
   conn : {"none", "connecting", "up", "refused", "down"},
   status : {"uninit", "init", "connected", "send", "recv"},
   req : Requests \cup {None}, writing : BOOLEAN]

(* Every variable keeps the type of the field or of the history it stands  *)
(* for.                                                                    *)
TypeOK ==
  /\ peer \in Peers /\ recursive \in BOOLEAN
  /\ sockets \in SUBSET Sockets /\ free_sockets \in SUBSET Sockets
  /\ requests \in Seq(Requests)
  /\ socket \in [Sockets -> SocketType]
  /\ submitted \in 0 .. MaxRequests /\ started \in Seq(Requests)
  /\ told \in [Requests -> Seq({"sent", "unsent", "response", "failed"})]
  /\ fault \in {"none", "stuck", "crash"}

(* The limits of the configuration hold.                                   *)
PoolBounded ==
  /\ Cardinality(sockets) <= max_sockets
  /\ Cardinality(free_sockets) <= max_free_sockets

(* While the program runs, a socket on a list of the agent can be used: it *)
(* is open, on one list only, connected if it is idle, and has a request   *)
(* exactly when it is busy.                                                *)
PooledAreUsable ==
  Running =>
    /\ sockets \cap free_sockets = {}
    /\ \A s \in sockets : socket[s].handle = "open" /\ socket[s].req # None
    /\ \A s \in free_sockets : Connected(s) /\ socket[s].req = None

(* While the program runs, no request waits while max_sockets allows one   *)
(* more.                                                                   *)
WaitingMeansFull == Running /\ requests # <<>> => Full

(* Requests get their sockets in the order in which they were made: none   *)
(* is overtaken, forgotten or started twice.                               *)
StartedInOrder == Running => started \o requests = [i \in 1 .. submitted |-> i]

(* The user gets one final answer at most, and nothing after it.           *)
AnsweredOnce ==
  \A r \in Requests : \A i \in DOMAIN told[r] :
    told[r][i] \in {"response", "failed"} => i = Len(told[r])

(* If the peer does not answer early, the program crashes in two ways      *)
(* only: a connection that is in use is dropped, and its socket is being   *)
(* closed; or something, or a read of nothing, comes on a socket that is   *)
(* idle.  That these two crash it is what the code does.                   *)
CrashHasCause ==
  fault = "crash" /\ "early" \notin peer =>
    \/ "drop" \in peer /\ \E s \in Sockets : socket[s].handle = "closing"
    \/ peer \cap {"unasked", "empty"} # {} /\ free_sockets # {}

(* A peer without faults answers every request, the waiting ones included. *)
(* It does so where a thread may lock a mutex again that it holds; where   *)
(* it may not, the first request stops the loop thread (agent_request).    *)
AllAnswered ==
  \A r \in Requests :
    (peer = {} /\ recursive /\ r <= submitted) ~>
      "response" \in Range(told[r])

(* Whatever the peer does, the user of a request that has a socket is told *)
(* something of it, unless the loop thread has stopped.  It may be no more *)
(* than that the request was sent: of a response that ends in the middle   *)
(* the user is not told (ReadError).                                       *)
StartedIsTold ==
  \A r \in Requests :
    r \in Range(started) ~> told[r] # <<>> \/ ~Running
=============================================================================
