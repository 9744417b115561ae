----------------------------- MODULE NetSocket -----------------------------
(***************************************************************************)
(* The TCP client socket of uvmodules/uvnet/net.c.                         *)
(*                                                                         *)
(* Any thread may call net_socket_write, net_socket_end, net_socket_pause  *)
(* and net_socket_resume.  A call only queues: it pushes its buffer on     *)
(* write_list under wrlist_mutex, raises a flag of async_event and calls   *)
(* uv_async_send.  The loop thread later runs on_uv_async_event, which     *)
(* tests the four flags one after the other and makes the libuv calls.     *)
(* The loop thread also runs the callbacks of libuv (lookup, connect,      *)
(* read, shutdown, close), and may itself make calls from user callbacks.  *)
(*                                                                         *)
(* libuv is external.  It is modelled by what net.c relies on: requests    *)
(* refused by a handle in the wrong state (net.c ignores every return      *)
(* value), writes delivered in order, callbacks run one at a time on the   *)
(* loop thread, pending requests cancelled when a handle is closed, and    *)
(* assertions that end the program where its contract is broken.           *)
(***************************************************************************)
EXTENDS Naturals, Sequences, Functions

CONSTANTS
  Threads,        \* application threads other than the loop thread
  Loop,           \* the loop thread
  Buffers,        \* the data buffers that can be written, each at most once
  None,           \* "no buffer"
  allowHalfOpen,  \* the socket option of that name
  asserts,        \* libuv is built with its assertions
  Reads,          \* the ways a read can complete in this instance
  MaxData,        \* bound on the number of 'data' events
  MaxFlow,        \* bound on the number of pause() and resume() calls
  MaxEnd          \* bound on the number of end() calls

Callers == Threads \cup {Loop}
Event   == {"write_data", "end", "pause", "resume"}
ReadResult == {"data", "eof", "reset", "error"}

ASSUME LoopAssumption == Loop \notin Threads
ASSUME NoneAssumption == None \notin Buffers /\ None \notin Callers
ASSUME OptionAssumption ==
  allowHalfOpen \in BOOLEAN /\ asserts \in BOOLEAN /\ Reads \subseteq ReadResult
ASSUME BoundAssumption == MaxData \in Nat /\ MaxFlow \in Nat /\ MaxEnd \in Nat

VARIABLES
  \* the calls in progress
  pc,             \* where each caller stands in its current call
  call,           \* the kind and the buffer of its last call
  \* fields of net_socket_t
  write_list,     \* buffers pushed and not yet taken by the loop thread
  wrlist_mutex,   \* the thread that holds the mutex, or None
  async_event,    \* the four flags of net_socket_async_event_t
  \* the loop thread and libuv
  async_pending,  \* uv_async_send called and its callback not yet started
  loop,           \* where the loop thread stands in on_uv_async_event
  conn,           \* progress of the connection
  writable,       \* libuv accepts uv_write and uv_shutdown
  reading,        \* uv_read_start is in effect
  tcp_queue,      \* buffers libuv has accepted and not yet sent
  shutdown,       \* the uv_shutdown request
  handle,         \* life of the handle uv_tcp_h
  \* what has happened
  pushed,         \* every buffer pushed on write_list, in order
  handed,         \* every buffer passed to uv_write, in order
  sent,           \* buffers on the wire, in order
  lost,           \* buffers uv_write refused, or that were cancelled
  events,         \* events emitted to the user, in order
  flow,           \* pause() and resume() calls, in the order they began
  ends,           \* how many end() calls have been made
  misuse          \* calls that break the contract of libuv

callVars   == <<pc, call>>
listVars   == <<write_list, wrlist_mutex, pushed>>
flagVars   == <<async_event, async_pending>>
historyVars == <<flow, ends>>
outVars    == <<tcp_queue, lost, sent>>
streamVars == <<conn, writable, reading, shutdown, handle, events>>
vars == <<callVars, listVars, flagVars, historyVars, outVars, streamVars,
          loop, handed, misuse>>

----------------------------------------------------------------------------
(* net_create_socket: the handle and the async handle are initialised.     *)
Init ==
  /\ pc = [c \in Callers |-> "idle"]
  /\ call = [c \in Callers |-> [kind |-> "none", buf |-> None]]
  /\ write_list = <<>> /\ wrlist_mutex = None
  /\ async_event = [e \in Event |-> FALSE] /\ async_pending = FALSE
  /\ loop = "poll"
  /\ conn = "init" /\ writable = FALSE /\ reading = FALSE
  /\ tcp_queue = <<>> /\ shutdown = "none" /\ handle = "open"
  /\ pushed = <<>> /\ handed = <<>> /\ sent = <<>> /\ lost = {}
  /\ events = <<>> /\ flow = <<>> /\ ends = 0 /\ misuse = {}

----------------------------------------------------------------------------
(* The calls of the application.  The loop thread makes them from user     *)
(* callbacks, which run while it is in no handler of this socket.          *)

Idle(c) == pc[c] = "idle" /\ (c = Loop => loop = "poll")
LoopFree == loop = "poll" /\ pc[Loop] = "idle"

(* Each buffer is written once, so a buffer stands for one call.           *)
Fresh(b) == b \notin Range(pushed) /\ \A c \in Callers : call[c].buf # b

(* Faulty variant: without the test of data for NULL.                      *)
BeginNull(c, kind, buf) ==
  /\ Idle(c)
  /\ call' = [call EXCEPT ![c] = [kind |-> kind, buf |-> buf]]
  /\ pc' = [pc EXCEPT ![c] = "lock"]
  /\ UNCHANGED <<listVars, flagVars, outVars, streamVars, loop, handed, misuse>>

Begin(c, kind, buf) ==
  /\ Idle(c)
  /\ call' = [call EXCEPT ![c] = [kind |-> kind, buf |-> buf]]
  /\ pc' = [pc EXCEPT ![c] = IF buf = None THEN "mark" ELSE "lock"]
  /\ UNCHANGED <<listVars, flagVars, outVars, streamVars, loop, handed, misuse>>

net_socket_write(c, b) ==
  /\ b # None /\ Fresh(b)
  /\ Begin(c, "write_data", b)
  /\ UNCHANGED historyVars

net_socket_end(c, b) ==
  /\ ends < MaxEnd
  /\ b # None => Fresh(b)
  /\ Begin(c, "end", b)
  /\ ends' = ends + 1
  /\ UNCHANGED flow

(* A pause() or resume() call, and whether it is made on an open           *)
(* connection when no other such call is in progress.                      *)
FlowCall(op) ==
  [op |-> op,
   clear |-> conn = "open" /\ \A c \in Callers :
               pc[c] # "idle" => call[c].kind \notin {"pause", "resume"}]

net_socket_pause(c) ==
  /\ Len(flow) < MaxFlow
  /\ Begin(c, "pause", None)
  /\ flow' = Append(flow, FlowCall("pause"))
  /\ UNCHANGED ends

net_socket_resume(c) ==
  /\ Len(flow) < MaxFlow
  /\ Begin(c, "resume", None)
  /\ flow' = Append(flow, FlowCall("resume"))
  /\ UNCHANGED ends

(* Faulty variant: the list is not locked.                                 *)
NoMutex == TRUE

(* uv_mutex_lock returns when no thread holds the mutex.                   *)
MutexFree == wrlist_mutex = None

LockList(c) ==
  /\ pc[c] = "lock" /\ MutexFree
  /\ wrlist_mutex' = c
  /\ pc' = [pc EXCEPT ![c] = "push"]
  /\ UNCHANGED <<call, write_list, pushed, flagVars, historyVars, outVars,
                 streamVars, loop, handed, misuse>>

(* Faulty variant: list_push_front.                                        *)
PushFront(c) ==
  /\ pc[c] = "push"
  /\ write_list' = <<call[c].buf>> \o write_list
  /\ pushed' = Append(pushed, call[c].buf)
  /\ wrlist_mutex' = None
  /\ pc' = [pc EXCEPT ![c] = "mark_data"]
  /\ UNCHANGED <<call, flagVars, historyVars, outVars, streamVars, loop,
                 handed, misuse>>

(* list_push_back, then uv_mutex_unlock.                                   *)
PushBuffer(c) ==
  /\ pc[c] = "push"
  /\ write_list' = Append(write_list, call[c].buf)
  /\ pushed' = Append(pushed, call[c].buf)
  /\ wrlist_mutex' = None
  /\ pc' = [pc EXCEPT ![c] = "mark_data"]
  /\ UNCHANGED <<call, flagVars, historyVars, outVars, streamVars, loop,
                 handed, misuse>>

(* async_event.write_data = true, outside the mutex.                       *)
MarkData(c) ==
  /\ pc[c] = "mark_data"
  /\ async_event' = [async_event EXCEPT !["write_data"] = TRUE]
  /\ pc' = [pc EXCEPT ![c] = "send_data"]
  /\ UNCHANGED <<call, async_pending, listVars, historyVars, outVars,
                 streamVars, loop, handed, misuse>>

(* Faulty variant: returns without uv_async_send.                          *)
SendDataForgotten(c) ==
  /\ pc[c] = "send_data"
  /\ pc' = [pc EXCEPT ![c] = IF call[c].kind = "end" THEN "mark" ELSE "idle"]
  /\ UNCHANGED <<call, flagVars, listVars, historyVars, outVars, streamVars,
                 loop, handed, misuse>>

(* uv_async_send after a push; end(data) goes on to its own flag.          *)
SendData(c) ==
  /\ pc[c] = "send_data"
  /\ async_pending' = TRUE
  /\ pc' = [pc EXCEPT ![c] = IF call[c].kind = "end" THEN "mark" ELSE "idle"]
  /\ UNCHANGED <<call, async_event, listVars, historyVars, outVars,
                 streamVars, loop, handed, misuse>>

(* async_event.end, .pause or .resume = true.                              *)
MarkEvent(c) ==
  /\ pc[c] = "mark"
  /\ async_event' = [async_event EXCEPT ![call[c].kind] = TRUE]
  /\ pc' = [pc EXCEPT ![c] = "send"]
  /\ UNCHANGED <<call, async_pending, listVars, historyVars, outVars,
                 streamVars, loop, handed, misuse>>

(* The uv_async_send that follows, and the return of the call.             *)
SendEvent(c) ==
  /\ pc[c] = "send"
  /\ async_pending' = TRUE
  /\ pc' = [pc EXCEPT ![c] = "idle"]
  /\ UNCHANGED <<call, async_event, listVars, historyVars, outVars,
                 streamVars, loop, handed, misuse>>

CallStep(c) ==
  \/ LockList(c) \/ PushBuffer(c) \/ MarkData(c) \/ SendData(c)
  \/ MarkEvent(c) \/ SendEvent(c)

BeginCall(c) ==
  \/ \E b \in Buffers : net_socket_write(c, b)
  \/ \E b \in Buffers \cup {None} : net_socket_end(c, b)
  \/ net_socket_pause(c)
  \/ net_socket_resume(c)

----------------------------------------------------------------------------
(* The requests net.c makes of libuv (external).                           *)

Usable == writable /\ handle = "open"

(* A call that breaks the contract ends the program in a libuv with        *)
(* assertions, and else does nothing.                                      *)
Aborted == asserts /\ misuse # {}

(* uv_write: refused with an error code on a handle that is not connected  *)
(* or connecting, is shut down or is closing.  libuv asserts nbufs > 0.    *)
UvWrite(bufs) ==
  /\ misuse' = IF bufs = <<>> THEN misuse \cup {"write_nothing"} ELSE misuse
  /\ tcp_queue' = IF Usable THEN tcp_queue \o bufs ELSE tcp_queue
  /\ lost' = IF Usable THEN lost ELSE lost \cup Range(bufs)

(* uv_shutdown: no write is accepted after it; a second one is refused.    *)
UvShutdown ==
  /\ shutdown' = IF Usable THEN "pending" ELSE shutdown
  /\ writable' = FALSE

(* uv_close: libuv asserts that the handle is not already closing.         *)
UvClose ==
  /\ misuse' = IF handle = "open" THEN misuse ELSE misuse \cup {"close_twice"}
  /\ handle' = IF handle = "open" THEN "closing" ELSE handle

(* uv_read_start has no effect without a connection.                       *)
Readable == handle = "open" /\ conn \in {"open", "refused"}

----------------------------------------------------------------------------
(* on_uv_async_event, run by the loop thread.  Testing a flag and clearing *)
(* it is one step: a caller that raises the flag in between raises a flag  *)
(* that is already up, which is the same as raising it before the test.    *)

(* Faulty variant: the test of end comes before that of write_data.        *)
AsyncStartAtEnd ==
  /\ LoopFree /\ async_pending
  /\ async_pending' = FALSE
  /\ loop' = "end"
  /\ UNCHANGED <<callVars, listVars, async_event, historyVars, outVars,
                 streamVars, handed, misuse>>

AsyncStart ==
  /\ LoopFree /\ async_pending
  /\ async_pending' = FALSE
  /\ loop' = "write"
  /\ UNCHANGED <<callVars, listVars, async_event, historyVars, outVars,
                 streamVars, handed, misuse>>

TestAndClear(event, from, taken, otherwise) ==
  /\ loop = from
  /\ async_event' = [async_event EXCEPT ![event] = FALSE]
  /\ loop' = IF async_event[event] THEN taken ELSE otherwise
  /\ UNCHANGED <<callVars, listVars, async_pending, historyVars, handed>>

AsyncWrite ==
  /\ TestAndClear("write_data", "write", "lock", "end")
  /\ UNCHANGED <<outVars, streamVars, misuse>>

AsyncLock ==
  /\ loop = "lock" /\ MutexFree
  /\ wrlist_mutex' = Loop
  /\ loop' = "drain"
  /\ UNCHANGED <<callVars, write_list, pushed, flagVars, historyVars, outVars,
                 streamVars, handed, misuse>>

(* Faulty variant: only the first buffer of the list goes to uv_write.     *)
DrainFirst ==
  /\ loop = "drain" /\ write_list # <<>>
  /\ UvWrite(<<Head(write_list)>>)
  /\ handed' = Append(handed, Head(write_list))
  /\ loop' = "clear"
  /\ UNCHANGED <<callVars, listVars, flagVars, historyVars, sent, streamVars>>

(* Every buffer of the list goes to one uv_write.                          *)
AsyncDrain ==
  /\ loop = "drain"
  /\ UvWrite(write_list)
  /\ handed' = handed \o write_list
  /\ loop' = "clear"
  /\ UNCHANGED <<callVars, listVars, flagVars, historyVars, sent, streamVars>>

(* list_clear, then uv_mutex_unlock.                                       *)
AsyncClear ==
  /\ loop = "clear"
  /\ write_list' = <<>>
  /\ wrlist_mutex' = None
  /\ loop' = "end"
  /\ UNCHANGED <<callVars, pushed, flagVars, historyVars, outVars, streamVars,
                 handed, misuse>>

(* Faulty variant: write_data is cleared after its block, not before.      *)
ClearDataLate ==
  /\ loop = "end"
  /\ async_event' = [async_event EXCEPT !["end"] = FALSE, !["write_data"] = FALSE]
  /\ loop' = "pause"
  /\ IF async_event["end"] THEN UvShutdown ELSE UNCHANGED <<shutdown, writable>>
  /\ UNCHANGED <<callVars, listVars, async_pending, historyVars, handed, conn,
                 reading, handle, events, outVars, misuse>>

AsyncEnd ==
  /\ TestAndClear("end", "end", "pause", "pause")
  /\ IF async_event["end"] THEN UvShutdown ELSE UNCHANGED <<shutdown, writable>>
  /\ UNCHANGED <<conn, reading, handle, events, outVars, misuse>>

(* Faulty variant: the flag of pause stays up.                             *)
PauseSticky ==
  /\ loop = "pause"
  /\ loop' = "resume"
  /\ reading' = (reading /\ ~async_event["pause"])
  /\ UNCHANGED <<callVars, listVars, flagVars, historyVars, handed, conn,
                 writable, shutdown, handle, events, outVars, misuse>>

AsyncPause ==
  /\ TestAndClear("pause", "pause", "resume", "resume")
  /\ reading' = (reading /\ ~async_event["pause"])
  /\ UNCHANGED <<conn, writable, shutdown, handle, events, outVars, misuse>>

AsyncResume ==
  /\ TestAndClear("resume", "resume", "poll", "poll")
  /\ reading' = (reading \/ (async_event["resume"] /\ Readable))
  /\ UNCHANGED <<conn, writable, shutdown, handle, events, outVars, misuse>>

AsyncStep ==
  \/ AsyncStart \/ AsyncWrite \/ AsyncLock \/ AsyncDrain \/ AsyncClear
  \/ AsyncEnd \/ AsyncPause \/ AsyncResume

----------------------------------------------------------------------------
(* The other callbacks of the loop thread.                                 *)

queueVars == <<callVars, listVars, flagVars, historyVars, loop, handed>>

Emit(event) == events' = Append(events, event)
Emitted(event) == event \in Range(events)

(* net_socket_connect_options with a port, called on the loop thread.      *)
net_socket_connect ==
  /\ LoopFree /\ conn = "init"
  /\ conn' = "resolving"
  /\ UNCHANGED <<queueVars, outVars, writable, reading, shutdown, handle,
                 events, misuse>>

(* on_socket_dns_lookup: an error (or an unknown family) is reported and   *)
(* nothing else is done; an address starts the connection, and 'ready' is  *)
(* emitted as soon as the attempt has been started.                        *)
on_socket_dns_lookup(ok) ==
  /\ LoopFree /\ conn = "resolving"
  /\ conn' = IF ok THEN "connecting" ELSE "unresolved"
  /\ writable' = ok
  /\ events' = events \o IF ok THEN <<"lookup", "ready">> ELSE <<"lookup">>
  /\ UNCHANGED <<queueVars, outVars, reading, shutdown, handle, misuse>>

(* on_uv_connect does not look at its status.  libuv has cancelled the     *)
(* writes queued on a connection that is refused.                          *)
on_uv_connect(ok) ==
  /\ LoopFree /\ conn = "connecting"
  /\ conn' = IF ok THEN "open" ELSE "refused"
  /\ Emit("connect")
  /\ reading' = TRUE
  /\ tcp_queue' = IF ok THEN tcp_queue ELSE <<>>
  /\ lost' = IF ok THEN lost ELSE lost \cup Range(tcp_queue)
  /\ UNCHANGED <<queueVars, sent, writable, shutdown, handle, misuse>>

CanRead == LoopFree /\ reading /\ handle = "open"

(* on_uv_read with data.  Nothing follows the end of the peer's stream.    *)
ReadData ==
  /\ CanRead /\ conn = "open" /\ "data" \in Reads
  /\ ~Emitted("end") /\ ~Emitted("error")
  /\ Len(SelectSeq(events, LAMBDA e : e = "data")) < MaxData
  /\ Emit("data")
  /\ UNCHANGED <<queueVars, outVars, conn, writable, reading, shutdown,
                 handle, misuse>>

(* on_uv_read with UV_EOF or ECONNRESET; libuv has stopped reading (a      *)
(* resume() makes it report the end again).  After a reset libuv may also  *)
(* refuse further writes.                                                  *)
ReadEnd(result) ==
  /\ CanRead /\ conn = "open" /\ result \in Reads
  /\ Emit("end")
  /\ reading' = FALSE
  /\ writable' \in IF result = "reset" THEN {writable, FALSE} ELSE {writable}
  /\ IF allowHalfOpen THEN UNCHANGED <<handle, misuse>> ELSE UvClose
  /\ UNCHANGED <<queueVars, outVars, conn, shutdown>>

(* on_uv_read with any other error: 'error' is emitted and the stream is   *)
(* shut down, if libuv still accepts that of a stream that has failed.     *)
ReadError ==
  /\ CanRead /\ (conn = "refused" \/ "error" \in Reads)
  /\ Emit("error")
  /\ reading' = FALSE
  /\ writable' = FALSE
  /\ shutdown' \in IF Usable THEN {shutdown, "pending"} ELSE {shutdown}
  /\ UNCHANGED <<queueVars, outVars, conn, handle, misuse>>

(* libuv completes the write of the first buffer of its queue; on_uv_write *)
(* only prints the status.  A write fails once the connection has failed.  *)
on_uv_write(ok) ==
  /\ conn = "open" /\ handle = "open" /\ tcp_queue # <<>>
  /\ ok \/ Emitted("error") \/ "reset" \in Reads
  /\ sent' = IF ok THEN Append(sent, Head(tcp_queue)) ELSE sent
  /\ lost' = IF ok THEN lost ELSE lost \cup {Head(tcp_queue)}
  /\ tcp_queue' = Tail(tcp_queue)
  /\ UNCHANGED <<queueVars, streamVars, misuse>>

(* Faulty variant: on_uv_shutdown calls on_event_close itself.             *)
ShutdownEmitsClose ==
  /\ LoopFree /\ shutdown = "pending"
  /\ handle = "closing" \/ (handle = "open" /\ conn = "open" /\ tcp_queue = <<>>)
  /\ shutdown' = "done"
  /\ Emit("close")
  /\ IF allowHalfOpen THEN UNCHANGED <<handle, misuse>> ELSE UvClose
  /\ UNCHANGED <<queueVars, outVars, conn, writable, reading>>

(* Faulty variant: the test of allowHalfOpen is inverted.                  *)
ShutdownInverted ==
  /\ LoopFree /\ shutdown = "pending"
  /\ handle = "closing" \/ (handle = "open" /\ conn = "open" /\ tcp_queue = <<>>)
  /\ shutdown' = "done"
  /\ IF allowHalfOpen THEN UvClose ELSE UNCHANGED <<handle, misuse>>
  /\ UNCHANGED <<queueVars, outVars, conn, writable, reading, events>>

(* on_uv_shutdown: the queue has drained, the request failed, or it was    *)
(* cancelled because the handle is closing.  The status is not looked at.  *)
on_uv_shutdown ==
  /\ LoopFree /\ shutdown = "pending"
  /\ \/ handle = "open" /\ conn = "open" /\ tcp_queue = <<>>
     \/ handle = "open" /\ conn = "refused"
     \/ handle = "closing"
  /\ shutdown' = "done"
  /\ IF allowHalfOpen THEN UNCHANGED <<handle, misuse>> ELSE UvClose
  /\ UNCHANGED <<queueVars, outVars, conn, writable, reading, events>>

(* on_uv_close, after every pending request has been cancelled.            *)
on_uv_close ==
  /\ LoopFree /\ handle = "closing" /\ shutdown # "pending"
  /\ handle' = "closed"
  /\ Emit("close")
  /\ lost' = lost \cup Range(tcp_queue)
  /\ tcp_queue' = <<>>
  /\ UNCHANGED <<queueVars, sent, conn, writable, reading, shutdown, misuse>>

UvStep ==
  \/ net_socket_connect
  \/ \E ok \in BOOLEAN : on_socket_dns_lookup(ok)
  \/ \E ok \in BOOLEAN : on_uv_connect(ok)
  \/ ReadData
  \/ \E result \in {"eof", "reset"} : ReadEnd(result)
  \/ ReadError
  \/ \E ok \in BOOLEAN : on_uv_write(ok)
  \/ on_uv_shutdown
  \/ on_uv_close

Next ==
  /\ ~Aborted
  /\ \/ \E c \in Callers : BeginCall(c) \/ CallStep(c)
     \/ AsyncStep
     \/ UvStep

Spec == Init /\ [][Next]_vars

(* A call that has begun runs on, and so does the loop thread in its       *)
(* callback; the network and the peer owe nothing.                         *)
CodeFairness ==
  /\ \A c \in Callers : WF_vars(~Aborted /\ CallStep(c))
  /\ WF_vars(~Aborted /\ AsyncStep)

(* A connection attempt, a queued write, a shutdown and a close are all    *)
(* answered by libuv in the end, the first by a timeout if need be; of a   *)
(* write this assumes that the peer goes on reading.                       *)
UvFairness ==
  /\ WF_vars(~Aborted /\ \E ok \in BOOLEAN : on_uv_connect(ok))
  /\ WF_vars(~Aborted /\ on_uv_write(TRUE))
  /\ WF_vars(~Aborted /\ on_uv_shutdown)
  /\ WF_vars(~Aborted /\ on_uv_close)

FairSpec == Spec /\ CodeFairness /\ UvFairness

----------------------------------------------------------------------------
(* Types.                                                                  *)

Conn == {"init", "resolving", "unresolved", "connecting", "open", "refused"}
Pcs == {"idle", "lock", "push", "mark_data", "send_data", "mark", "send"}
LoopPcs == {"poll", "write", "lock", "drain", "clear", "end", "pause", "resume"}
UserEvent == {"lookup", "ready", "connect", "data", "end", "error", "close"}

(* Every variable keeps the type of the field or of the libuv state it     *)
(* stands for.                                                             *)
TypeOK ==
  /\ pc \in [Callers -> Pcs]
  /\ call \in [Callers -> [kind : Event \cup {"none"}, buf : Buffers \cup {None}]]
  /\ write_list \in Seq(Buffers)
  /\ wrlist_mutex \in Callers \cup {None}
  /\ async_event \in [Event -> BOOLEAN] /\ async_pending \in BOOLEAN
  /\ loop \in LoopPcs
  /\ conn \in Conn /\ writable \in BOOLEAN /\ reading \in BOOLEAN
  /\ shutdown \in {"none", "pending", "done"}
  /\ handle \in {"open", "closing", "closed"}
  /\ tcp_queue \in Seq(Buffers) /\ sent \in Seq(Buffers)
  /\ pushed \in Seq(Buffers) /\ handed \in Seq(Buffers)
  /\ lost \in SUBSET Buffers
  /\ events \in Seq(UserEvent)
  /\ flow \in Seq([op : {"pause", "resume"}, clear : BOOLEAN]) /\ ends \in Nat
  /\ misuse \in SUBSET {"write_nothing", "close_twice"}

----------------------------------------------------------------------------
(* Properties of the write path.                                           *)

(* The part of write_list the loop thread has not passed to uv_write yet:  *)
(* between uv_write and list_clear the list still holds what was passed.   *)
Untaken == IF loop = "clear" THEN <<>> ELSE write_list

(* Whatever threads write, uv_write gets the buffers in the order of the   *)
(* pushes: none is lost between the threads and none is passed twice.      *)
WritesInOrder == pushed = handed \o Untaken

(* A buffer in the list is never stranded: its writer is about to raise    *)
(* write_data, or the flag is up, or the loop thread is about to take the  *)
(* list.  (Clearing the flag after the drain would break this.)            *)
NoStrandedBuffer ==
  Untaken # <<>> =>
    \/ async_event["write_data"]
    \/ loop \in {"lock", "drain"}
    \/ \E c \in Callers : pc[c] = "mark_data"

(* Where the loop thread has not yet tested a flag in this callback.       *)
Untested(event) ==
  loop \in CASE event = "write_data" -> {"write"}
             [] event = "end"    -> {"write", "lock", "drain", "clear", "end"}
             [] event = "pause"  -> LoopPcs \ {"poll", "resume"}
             [] event = "resume" -> LoopPcs \ {"poll"}

(* A raised flag is always seen: its callback is pending, or it has        *)
(* started and has yet to test the flag, or a caller is about to call      *)
(* uv_async_send.  uv_async_send coalesces, so this is what a lost wakeup  *)
(* would break.                                                            *)
NoLostWakeup ==
  \A e \in Event : async_event[e] =>
    \/ async_pending
    \/ Untested(e)
    \/ \E c \in Callers : pc[c] \in {"send_data", "send"}

(* The buffers reach the wire in the order of the writes, across           *)
(* write_list and libuv's own queue, as long as none has been lost.  (A    *)
(* buffer written before connect() is: libuv refuses it, and nobody looks  *)
(* at the result.  Of such runs this says nothing.)                        *)
WireInOrder == lost = {} => sent \o tcp_queue \o Untaken = pushed

(* Every buffer whose write call has returned is passed to uv_write, in a  *)
(* libuv without assertions.  (With them the program may end first: two    *)
(* writers whose buffers one callback takes leave a flag up behind, and    *)
(* the next callback calls uv_write with nothing.)                         *)
EveryWriteHanded ==
  \A b \in Buffers : b \in Range(pushed) ~> b \in Range(handed)

(* The write path implements the abstract stream, fairness included.       *)
Stream == INSTANCE WriteStream
            WITH Data <- Buffers, queue <- Untaken, out <- handed
StreamSpec == Stream!Spec

----------------------------------------------------------------------------
(* Properties of the socket's life.                                        *)

(* A caller whose end(data) has got as far as raising the flag of end.     *)
Ended(c) == call[c].kind = "end" /\ pc[c] \in {"send", "idle"}

(* end(data) is write(data) followed by end(): when on_uv_async_event      *)
(* shuts the stream down, the data of every end() is already in uv_write.  *)
EndSendsData ==
  [][loop = "end" /\ async_event["end"] =>
       \A c \in Callers : Ended(c) => call[c].buf \in Range(handed) \cup {None}]_vars

(* 'close' is emitted once, and nothing is emitted after it.               *)
CloseIsLast ==
  \A i \in DOMAIN events : events[i] = "close" => i = Len(events)

(* Every call has returned and every flag has been dealt with.             *)
Quiet == loop = "poll" /\ ~async_pending /\ \A c \in Callers : pc[c] = "idle"

LastFlow(op) ==
  flow # <<>> /\ flow[Len(flow)].op = op /\ flow[Len(flow)].clear

StreamAlive ==
  handle = "open" /\ ~Emitted("end") /\ ~Emitted("error")

(* When the last of the pause() and resume() calls is a resume(), made on  *)
(* an open connection after the others had returned, data is read again    *)
(* once things are quiet.  (There is no such promise for pause(): behind a *)
(* resume() that has not been dealt with yet it is undone by it, because   *)
(* its flag is tested first.)                                              *)
ResumeHolds == Quiet /\ StreamAlive /\ LastFlow("resume") => reading

(* A default socket whose shutdown libuv has accepted closes, unless the   *)
(* end of the peer's stream comes while the shutdown is pending: both call *)
(* uv_close, and a libuv with assertions ends the program at the second.   *)
(* (A shutdown that is refused, on a socket that is not connected, leads   *)
(* nowhere: its callback never comes.)                                     *)
ShutdownLeadsToClose ==
  shutdown = "pending" ~> Emitted("close") \/ (Aborted /\ Emitted("end"))
=============================================================================
