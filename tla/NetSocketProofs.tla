-------------------------- MODULE NetSocketProofs --------------------------
(***************************************************************************)
(* What holds of NetSocket for any number of threads and buffers and for   *)
(* any bounds: its types; the write path from net_socket_write to          *)
(* uv_write; the order of its events; and what end() and resume() bring    *)
(* about when they are called on the loop thread.                          *)
(***************************************************************************)
EXTENDS NetSocket, SequenceTheorems, TLAPS

(* What a caller carries where it stands in its call.                      *)
CallInv ==
  \A c \in Callers :
    /\ pc[c] \in {"lock", "push"} => call[c].buf \in Buffers
    /\ pc[c] = "mark" => call[c].kind \in {"end", "pause", "resume"}
    /\ call[c].kind # "end" /\ pc[c] \in {"lock", "push", "mark_data", "send_data"}
         => call[c].kind = "write_data"

(* Who holds wrlist_mutex.  The loop thread is in on_uv_async_event or in  *)
(* a call of its own, never in both.                                       *)
MutexInv ==
  /\ \A c \in Threads : pc[c] = "push" <=> wrlist_mutex = c
  /\ (pc[Loop] = "push" \/ loop \in {"drain", "clear"}) <=> wrlist_mutex = Loop
  /\ loop # "poll" => pc[Loop] = "idle"

TypeInv == TypeOK /\ CallInv

----------------------------------------------------------------------------

LEMMA RangeType ==
  ASSUME NEW S, NEW s \in Seq(S)
  PROVE  Range(s) \subseteq S
BY DEF Range

LEMMA InitType == Init => TypeInv
<1> SUFFICES ASSUME Init PROVE TypeInv
  OBVIOUS
<1>1. pc \in [Callers -> Pcs] /\ \A c \in Callers : pc[c] = "idle"
  BY DEF Init, Pcs
<1>2. /\ call \in [Callers -> [kind : Event \cup {"none"}, buf : Buffers \cup {None}]]
      /\ \A c \in Callers : call[c].kind = "none"
  BY DEF Init
<1>3. async_event \in [Event -> BOOLEAN]
  BY DEF Init
<1>4. TypeOK
  <2>1. write_list \in Seq(Buffers) /\ tcp_queue \in Seq(Buffers) /\ sent \in Seq(Buffers)
    BY DEF Init
  <2>2. pushed \in Seq(Buffers) /\ handed \in Seq(Buffers) /\ events \in Seq(UserEvent)
    BY DEF Init
  <2>3. flow \in Seq([op : {"pause", "resume"}, clear : BOOLEAN]) /\ ends \in Nat
    BY DEF Init
  <2> QED BY <1>1, <1>2, <1>3, <2>1, <2>2, <2>3 DEF Init, TypeOK, Conn, LoopPcs
<1> QED BY <1>1, <1>2, <1>4 DEF TypeInv, CallInv

LEMMA FlowCallType ==
  ASSUME NEW op \in {"pause", "resume"}
  PROVE  FlowCall(op) \in [op : {"pause", "resume"}, clear : BOOLEAN]
<1> DEFINE clear == conn = "open" /\ \A c \in Callers :
                      pc[c] # "idle" => call[c].kind \notin {"pause", "resume"}
<1>1. clear \in BOOLEAN
  OBVIOUS
<1> HIDE DEF clear
<1>2. FlowCall(op) = [op |-> op, clear |-> clear]
  BY Zenon DEF FlowCall, clear
<1> QED BY <1>1, <1>2

(* Beginning a call changes only the caller's own position, and flow or    *)
(* ends.                                                                   *)
LEMMA BeginType ==
  ASSUME TypeInv, NEW c \in Callers, BeginCall(c)
  PROVE  TypeInv'
<1> USE DEF TypeInv, TypeOK, CallInv, Begin, callVars, listVars, flagVars,
            historyVars, outVars, streamVars, Event, Pcs
<1>1. CASE \E b \in Buffers : net_socket_write(c, b)
  BY <1>1, NoneAssumption DEF net_socket_write
<1>2. CASE \E b \in Buffers \cup {None} : net_socket_end(c, b)
  BY <1>2, NoneAssumption DEF net_socket_end
<1>3. CASE net_socket_pause(c)
  BY <1>3, NoneAssumption, FlowCallType DEF net_socket_pause
<1>4. CASE net_socket_resume(c)
  BY <1>4, NoneAssumption, FlowCallType DEF net_socket_resume
<1> QED BY <1>1, <1>2, <1>3, <1>4 DEF BeginCall

LEMMA CallStepType ==
  ASSUME TypeInv, NEW c \in Callers, CallStep(c)
  PROVE  TypeInv'
<1> USE DEF TypeInv, TypeOK, CallInv, callVars, listVars, flagVars,
            historyVars, outVars, streamVars, Event, Pcs
<1>1. CASE LockList(c)    BY <1>1 DEF LockList
<1>2. CASE PushBuffer(c)  BY <1>2 DEF PushBuffer
<1>3. CASE MarkData(c)    BY <1>3 DEF MarkData
<1>4. CASE SendData(c)    BY <1>4 DEF SendData
<1>5. CASE MarkEvent(c)   BY <1>5 DEF MarkEvent
<1>6. CASE SendEvent(c)   BY <1>6 DEF SendEvent
<1> QED BY <1>1, <1>2, <1>3, <1>4, <1>5, <1>6 DEF CallStep

LEMMA AsyncStepType ==
  ASSUME TypeInv, AsyncStep
  PROVE  TypeInv'
<1> USE DEF TypeInv, TypeOK, CallInv, callVars, listVars, flagVars,
            historyVars, outVars, streamVars, Event, LoopPcs, TestAndClear
<1>1. CASE AsyncStart   BY <1>1 DEF AsyncStart
<1>2. CASE AsyncWrite   BY <1>2 DEF AsyncWrite
<1>3. CASE AsyncLock    BY <1>3 DEF AsyncLock, Callers
<1>4. CASE AsyncDrain
  <2>1. Range(write_list) \subseteq Buffers
    BY RangeType
  <2> QED BY <1>4, <2>1 DEF AsyncDrain, UvWrite
<1>5. CASE AsyncClear   BY <1>5 DEF AsyncClear
<1>6. CASE AsyncEnd     BY <1>6 DEF AsyncEnd, UvShutdown
<1>7. CASE AsyncPause   BY <1>7 DEF AsyncPause
<1>8. CASE AsyncResume  BY <1>8 DEF AsyncResume
<1> QED BY <1>1, <1>2, <1>3, <1>4, <1>5, <1>6, <1>7, <1>8 DEF AsyncStep

(* The callbacks of libuv leave the write path alone.                      *)
LEMMA UvStepQueue ==
  ASSUME UvStep
  PROVE  UNCHANGED queueVars
BY DEF UvStep, net_socket_connect, on_socket_dns_lookup, on_uv_connect,
       ReadData, ReadEnd, ReadError, on_uv_write, on_uv_shutdown, on_uv_close

LEMMA UvStepType ==
  ASSUME TypeInv, UvStep
  PROVE  TypeInv'
<1>1. UNCHANGED queueVars
  BY UvStepQueue
<1>2. Range(tcp_queue) \subseteq Buffers
  BY RangeType DEF TypeInv, TypeOK
<1> USE <1>1 DEF TypeInv, TypeOK, CallInv, queueVars, callVars, listVars,
            flagVars, historyVars, outVars, Conn, UserEvent, Emit, UvClose
<1>3. CASE net_socket_connect  BY <1>3 DEF net_socket_connect
<1>4. CASE \E ok \in BOOLEAN : on_socket_dns_lookup(ok)
  <2> PICK ok \in BOOLEAN : on_socket_dns_lookup(ok)
    BY <1>4
  <2>1. events' \in Seq(UserEvent)
    <3>1. <<"lookup", "ready">> \in Seq(UserEvent) /\ <<"lookup">> \in Seq(UserEvent)
      OBVIOUS
    <3>2. events' = events \o (IF ok THEN <<"lookup", "ready">> ELSE <<"lookup">>)
      BY DEF on_socket_dns_lookup
    <3> QED BY <3>1, <3>2, ConcatProperties
  <2>2. writable' \in BOOLEAN
    BY DEF on_socket_dns_lookup
  <2> QED BY <2>1, <2>2 DEF on_socket_dns_lookup
<1>5. CASE \E ok \in BOOLEAN : on_uv_connect(ok)
  BY <1>2, <1>5 DEF on_uv_connect
<1>6. CASE ReadData  BY <1>6 DEF ReadData
<1>7. CASE \E result \in {"eof", "reset"} : ReadEnd(result)
  <2> PICK result \in {"eof", "reset"} : ReadEnd(result)
    BY <1>7
  <2>1. writable' \in BOOLEAN
    BY DEF ReadEnd
  <2>2. handle' \in {"open", "closing", "closed"} /\ misuse' \in SUBSET {"write_nothing", "close_twice"}
    BY DEF ReadEnd
  <2>3. events' \in Seq(UserEvent)
    BY DEF ReadEnd
  <2>4. reading' = FALSE /\ UNCHANGED <<outVars, conn, shutdown>>
    BY DEF ReadEnd
  <2> QED BY <2>1, <2>2, <2>3, <2>4
<1>8. CASE ReadError
  <2>1. shutdown' \in {"none", "pending", "done"}
    BY <1>8 DEF ReadError, Usable
  <2>2. events' \in Seq(UserEvent)
    BY <1>8 DEF ReadError
  <2>3. /\ reading' = FALSE /\ writable' = FALSE
        /\ UNCHANGED <<outVars, conn, handle, misuse>>
    BY <1>8 DEF ReadError
  <2> QED BY <2>1, <2>2, <2>3
<1>9. CASE \E ok \in BOOLEAN : on_uv_write(ok)
  BY <1>9 DEF on_uv_write, streamVars
<1>10. CASE on_uv_shutdown  BY <1>10 DEF on_uv_shutdown
<1>11. CASE on_uv_close  BY <1>2, <1>11 DEF on_uv_close
<1> QED
  BY <1>3, <1>4, <1>5, <1>6, <1>7, <1>8, <1>9, <1>10, <1>11 DEF UvStep

LEMMA StutterType == TypeInv /\ UNCHANGED vars => TypeInv'
BY DEF TypeInv, TypeOK, CallInv, vars, callVars, listVars, flagVars,
       historyVars, outVars, streamVars

(* Every variable keeps its type, whoever calls and in whatever order.     *)
THEOREM TypeCorrect == Spec => []TypeOK
<1>1. TypeInv /\ [Next]_vars => TypeInv'
  BY BeginType, CallStepType, AsyncStepType, UvStepType, StutterType DEF Next
<1>2. TypeInv => TypeOK
  BY DEF TypeInv
<1> QED BY InitType, <1>1, <1>2, PTL DEF Spec

----------------------------------------------------------------------------
(* The write path.  Its invariants only speak of the callers, the list,    *)
(* the flags and the loop thread's place, which the callbacks of libuv     *)
(* leave alone.                                                            *)

PathInv == TypeInv /\ MutexInv /\ WritesInOrder

LEMMA InitPath == Init => PathInv
<1> SUFFICES ASSUME Init PROVE PathInv
  OBVIOUS
<1>1. MutexInv
  BY NoneAssumption DEF Init, MutexInv, Callers
<1>2. WritesInOrder
  BY DEF Init, WritesInOrder, Untaken
<1> QED BY InitType, <1>1, <1>2 DEF PathInv

LEMMA BeginMutex ==
  ASSUME PathInv, NEW c \in Callers, BeginCall(c)
  PROVE  MutexInv'
<1> USE LoopAssumption, NoneAssumption
    DEF PathInv, TypeInv, TypeOK, MutexInv, Callers, Begin, Idle, listVars
<1>1. PICK kind, buf : Begin(c, kind, buf)
  BY DEF BeginCall, net_socket_write, net_socket_end, net_socket_pause,
         net_socket_resume
<1>2. /\ pc[c] = "idle" /\ (c = Loop => loop = "poll")
      /\ pc' = [pc EXCEPT ![c] = IF buf = None THEN "mark" ELSE "lock"]
      /\ UNCHANGED <<loop, wrlist_mutex>>
  BY <1>1
<1>3. \A d \in Callers : d # c => pc'[d] = pc[d]
  BY <1>2
<1>4. pc'[c] \in {"mark", "lock"}
  BY <1>2
<1> QED BY <1>2, <1>3, <1>4

LEMMA CallStepMutex ==
  ASSUME PathInv, NEW c \in Callers, CallStep(c)
  PROVE  MutexInv'
<1> USE LoopAssumption, NoneAssumption
    DEF PathInv, TypeInv, TypeOK, MutexInv, Callers, MutexFree, listVars
<1>1. CASE LockList(c)    BY <1>1 DEF LockList
<1>2. CASE PushBuffer(c)  BY <1>2 DEF PushBuffer
<1>3. CASE MarkData(c)    BY <1>3 DEF MarkData
<1>4. CASE SendData(c)    BY <1>4 DEF SendData
<1>5. CASE MarkEvent(c)   BY <1>5 DEF MarkEvent
<1>6. CASE SendEvent(c)   BY <1>6 DEF SendEvent
<1> QED BY <1>1, <1>2, <1>3, <1>4, <1>5, <1>6 DEF CallStep

LEMMA AsyncStepMutex ==
  ASSUME PathInv, AsyncStep
  PROVE  MutexInv'
<1> USE LoopAssumption, NoneAssumption
    DEF PathInv, TypeInv, TypeOK, MutexInv, Callers, MutexFree, callVars,
        listVars, TestAndClear, LoopFree
<1>1. CASE AsyncStart   BY <1>1 DEF AsyncStart
<1>2. CASE AsyncWrite   BY <1>2 DEF AsyncWrite
<1>3. CASE AsyncLock    BY <1>3 DEF AsyncLock
<1>4. CASE AsyncDrain   BY <1>4 DEF AsyncDrain
<1>5. CASE AsyncClear   BY <1>5 DEF AsyncClear
<1>6. CASE AsyncEnd     BY <1>6 DEF AsyncEnd
<1>7. CASE AsyncPause   BY <1>7 DEF AsyncPause
<1>8. CASE AsyncResume  BY <1>8 DEF AsyncResume
<1> QED BY <1>1, <1>2, <1>3, <1>4, <1>5, <1>6, <1>7, <1>8 DEF AsyncStep

(* Only a push, the hand-over to uv_write and the clearing of the list     *)
(* touch what WritesInOrder speaks of; a push cannot come between the      *)
(* last two, because both sides hold the mutex.                            *)
LEMMA CallStepOrder ==
  ASSUME PathInv, NEW c \in Callers, CallStep(c)
  PROVE  WritesInOrder'
<1> USE DEF PathInv, TypeInv, TypeOK, WritesInOrder, Untaken
<1>1. CASE PushBuffer(c)
  <2>1. call[c].buf \in Buffers
    BY <1>1 DEF CallInv, PushBuffer
  <2>2. loop # "clear"
    BY <1>1, LoopAssumption, NoneAssumption DEF MutexInv, PushBuffer, Callers
  <2>3. /\ pushed' = Append(handed \o write_list, call[c].buf)
        /\ write_list' = Append(write_list, call[c].buf)
        /\ UNCHANGED <<handed, loop>>
    BY <1>1, <2>2 DEF PushBuffer
  <2>4. <<call[c].buf>> \in Seq(Buffers) /\ handed \o write_list \in Seq(Buffers)
    BY <2>1
  <2>5. /\ pushed' = (handed \o write_list) \o <<call[c].buf>>
        /\ write_list' = write_list \o <<call[c].buf>>
    BY <2>1, <2>3, <2>4, AppendIsConcat
  <2>6. (handed \o write_list) \o <<call[c].buf>> = handed \o (write_list \o <<call[c].buf>>)
    BY <2>4, ConcatAssociative
  <2> QED BY <2>2, <2>3, <2>5, <2>6
<1>2. ~PushBuffer(c) => UNCHANGED <<pushed, handed, write_list, loop>>
  BY DEF CallStep, LockList, MarkData, SendData, MarkEvent, SendEvent, listVars
<1> QED BY <1>1, <1>2

LEMMA AsyncStepOrder ==
  ASSUME PathInv, AsyncStep
  PROVE  WritesInOrder'
<1> USE DEF PathInv, TypeInv, TypeOK, WritesInOrder, Untaken
<1>1. CASE AsyncDrain
  <2>1. /\ loop = "drain" /\ loop' = "clear"
        /\ handed' = handed \o write_list /\ UNCHANGED pushed
    BY <1>1 DEF AsyncDrain, listVars
  <2>2. handed \o write_list \in Seq(Buffers)
    OBVIOUS
  <2> QED BY <2>1, <2>2
<1>2. CASE AsyncClear
  BY <1>2 DEF AsyncClear
<1>3. ~AsyncDrain /\ ~AsyncClear =>
        /\ UNCHANGED <<pushed, handed, write_list>>
        /\ loop # "clear" /\ loop' # "clear"
  BY DEF AsyncStep, AsyncStart, AsyncWrite, AsyncLock, AsyncEnd, AsyncPause,
         AsyncResume, TestAndClear, listVars, LoopFree
<1> QED BY <1>1, <1>2, <1>3

LEMMA NextPath == PathInv /\ [Next]_vars => PathInv'
<1> SUFFICES ASSUME PathInv, [Next]_vars PROVE PathInv'
  OBVIOUS
<1>1. ASSUME NEW c \in Callers, BeginCall(c) PROVE PathInv'
  <2>1. UNCHANGED <<pushed, handed, write_list, loop>>
    BY <1>1 DEF BeginCall, net_socket_write, net_socket_end, net_socket_pause,
                net_socket_resume, Begin, listVars
  <2>2. WritesInOrder'
    BY <2>1 DEF PathInv, WritesInOrder, Untaken
  <2> QED BY <1>1, <2>2, BeginType, BeginMutex DEF PathInv
<1>2. ASSUME NEW c \in Callers, CallStep(c) PROVE PathInv'
  BY <1>2, CallStepType, CallStepMutex, CallStepOrder DEF PathInv
<1>3. CASE AsyncStep
  BY <1>3, AsyncStepType, AsyncStepMutex, AsyncStepOrder DEF PathInv
<1>4. CASE UvStep
  <2>1. MutexInv' /\ WritesInOrder'
    BY <1>4, UvStepQueue
       DEF PathInv, MutexInv, WritesInOrder, Untaken, queueVars, callVars, listVars
  <2> QED BY <1>4, <2>1, UvStepType DEF PathInv
<1>5. CASE UNCHANGED vars
  <2>1. MutexInv' /\ WritesInOrder'
    BY <1>5 DEF PathInv, MutexInv, WritesInOrder, Untaken, vars, callVars, listVars
  <2> QED BY <1>5, <2>1, StutterType DEF PathInv
<1> QED BY <1>1, <1>2, <1>3, <1>4, <1>5 DEF Next

(* uv_write is given every buffer once and in the order of the pushes,     *)
(* whatever the threads do: rests on the mutex and on clearing the list    *)
(* before it is unlocked.                                                  *)
THEOREM WritesStayInOrder == Spec => []WritesInOrder
<1>1. PathInv => WritesInOrder
  BY DEF PathInv
<1> QED BY InitPath, NextPath, <1>1, PTL DEF Spec
----------------------------------------------------------------------------
(* The flags.                                                              *)

FlagInv == PathInv /\ NoStrandedBuffer /\ NoLostWakeup

(* Nobody but the loop thread takes a flag down, and a caller who leaves   *)
(* the step before uv_async_send has made its callback pending.            *)
LEMMA CallKeepsFlags ==
  ASSUME FlagInv, NEW c \in Callers, BeginCall(c) \/ CallStep(c)
  PROVE  NoStrandedBuffer' /\ NoLostWakeup'
<1> USE DEF FlagInv, PathInv, TypeInv, TypeOK, callVars, listVars, flagVars
<1>1. CASE BeginCall(c)
  <2>1. PICK kind, buf : Begin(c, kind, buf)
    BY <1>1 DEF BeginCall, net_socket_write, net_socket_end, net_socket_pause,
                net_socket_resume
  <2>2. /\ pc[c] = "idle"
        /\ \A d \in Callers : d # c => pc'[d] = pc[d]
        /\ UNCHANGED <<write_list, async_event, async_pending, loop>>
    BY <2>1 DEF Begin, Idle
  <2> QED BY <2>2 DEF NoStrandedBuffer, Untaken, NoLostWakeup, Untested
<1>2. CASE LockList(c)
  BY <1>2 DEF LockList, NoStrandedBuffer, Untaken, NoLostWakeup, Untested
<1>3. CASE PushBuffer(c)
  BY <1>3 DEF PushBuffer, NoStrandedBuffer, NoLostWakeup, Untested
<1>4. CASE MarkData(c)
  BY <1>4 DEF MarkData, NoStrandedBuffer, Untaken, NoLostWakeup, Untested, Event
<1>5. CASE SendData(c)
  BY <1>5 DEF SendData, NoStrandedBuffer, Untaken, NoLostWakeup
<1>6. CASE MarkEvent(c)
  BY <1>6 DEF MarkEvent, CallInv, NoStrandedBuffer, Untaken, NoLostWakeup, Untested, Event
<1>7. CASE SendEvent(c)
  BY <1>7 DEF SendEvent, NoStrandedBuffer, Untaken, NoLostWakeup
<1> QED BY <1>1, <1>2, <1>3, <1>4, <1>5, <1>6, <1>7 DEF CallStep

(* on_uv_async_event tests each flag after it has started, so its place    *)
(* stands for the flags that were up when async_pending was cleared.       *)
LEMMA AsyncKeepsFlags ==
  ASSUME FlagInv, AsyncStep
  PROVE  NoStrandedBuffer' /\ NoLostWakeup'
<1> USE DEF FlagInv, PathInv, TypeInv, TypeOK, callVars, listVars, flagVars,
            TestAndClear, NoStrandedBuffer, Untaken, NoLostWakeup, Untested, Event,
            LoopPcs
<1>1. CASE AsyncStart   BY <1>1 DEF AsyncStart, LoopFree
<1>2. CASE AsyncWrite   BY <1>2 DEF AsyncWrite
<1>3. CASE AsyncLock    BY <1>3 DEF AsyncLock
<1>4. CASE AsyncDrain   BY <1>4 DEF AsyncDrain
<1>5. CASE AsyncClear   BY <1>5 DEF AsyncClear
<1>6. CASE AsyncEnd     BY <1>6 DEF AsyncEnd
<1>7. CASE AsyncPause   BY <1>7 DEF AsyncPause
<1>8. CASE AsyncResume  BY <1>8 DEF AsyncResume
<1> QED BY <1>1, <1>2, <1>3, <1>4, <1>5, <1>6, <1>7, <1>8 DEF AsyncStep

LEMMA NextFlags == FlagInv /\ [Next]_vars => FlagInv'
<1> SUFFICES ASSUME FlagInv, [Next]_vars PROVE FlagInv'
  OBVIOUS
<1>1. PathInv'
  BY NextPath DEF FlagInv
<1>2. ASSUME UNCHANGED queueVars PROVE NoStrandedBuffer' /\ NoLostWakeup'
  BY <1>2 DEF FlagInv, NoStrandedBuffer, Untaken, NoLostWakeup, Untested,
              queueVars, callVars, listVars, flagVars
<1>3. UNCHANGED vars => UNCHANGED queueVars
  BY DEF vars, queueVars
<1> QED BY <1>1, <1>2, <1>3, CallKeepsFlags, AsyncKeepsFlags, UvStepQueue DEF Next, FlagInv

LEMMA InitFlags == Init => FlagInv
<1> SUFFICES ASSUME Init PROVE FlagInv
  OBVIOUS
<1>1. NoStrandedBuffer /\ NoLostWakeup
  BY DEF Init, NoStrandedBuffer, Untaken, NoLostWakeup
<1> QED BY <1>1, InitPath DEF FlagInv

(* A buffer in write_list always has somebody who will take it: its        *)
(* writer about to raise write_data, the flag, or the loop thread.         *)
THEOREM NoBufferStranded == Spec => []NoStrandedBuffer
<1>1. FlagInv => NoStrandedBuffer
  BY DEF FlagInv
<1> QED BY InitFlags, NextFlags, <1>1, PTL DEF Spec

(* No flag is left up with nobody to look at it, although uv_async_send    *)
(* coalesces the calls of all the threads into one callback.               *)
THEOREM NoWakeupLost == Spec => []NoLostWakeup
<1>1. FlagInv => NoLostWakeup
  BY DEF FlagInv
<1> QED BY InitFlags, NextFlags, <1>1, PTL DEF Spec

----------------------------------------------------------------------------
(* The write path implements WriteStream: a push is a Write, a uv_write of *)
(* a list that is not empty is a Flush, and all else is a stutter.         *)

LEMMA NextStream ==
  ASSUME PathInv, [Next]_vars
  PROVE  [Stream!Next]_(Stream!vars)
<1> USE DEF Stream!vars, Untaken
<1>1. ASSUME NEW c \in Callers, PushBuffer(c) PROVE Stream!Next
  <2>1. call[c].buf \in Buffers
    BY <1>1 DEF PathInv, TypeInv, CallInv, PushBuffer
  <2>2. loop # "clear"
    BY <1>1, LoopAssumption, NoneAssumption DEF PathInv, MutexInv, PushBuffer, Callers
  <2>3. /\ write_list' = Append(write_list, call[c].buf)
        /\ UNCHANGED <<handed, loop>>
    BY <1>1 DEF PushBuffer
  <2> QED BY <2>1, <2>2, <2>3 DEF Stream!Next, Stream!Write
<1>2. CASE AsyncDrain
  <2>1. /\ loop = "drain" /\ loop' = "clear"
        /\ handed' = handed \o write_list
        /\ handed \in Seq(Buffers) /\ write_list \in Seq(Buffers)
    BY <1>2 DEF AsyncDrain, PathInv, TypeInv, TypeOK
  <2>2. CASE write_list = <<>>
    <3>1. handed' = handed
      BY <2>1, <2>2, ConcatEmptySeq
    <3> QED BY <2>1, <2>2, <3>1
  <2>3. CASE write_list # <<>>
    BY <2>1, <2>3 DEF Stream!Next, Stream!Flush
  <2> QED BY <2>2, <2>3
<1>3. CASE AsyncClear
  BY <1>3 DEF AsyncClear
<1>4. CASE AsyncStep /\ ~AsyncDrain /\ ~AsyncClear
  BY <1>4 DEF AsyncStep, AsyncStart, AsyncWrite, AsyncLock, AsyncEnd, AsyncPause,
              AsyncResume, TestAndClear, listVars, LoopFree
<1>5. ASSUME NEW c \in Callers, BeginCall(c) PROVE UNCHANGED <<write_list, handed, loop>>
  BY <1>5 DEF BeginCall, net_socket_write, net_socket_end, net_socket_pause,
              net_socket_resume, Begin, listVars
<1>6. ASSUME NEW c \in Callers, CallStep(c), ~PushBuffer(c)
      PROVE  UNCHANGED <<write_list, handed, loop>>
  BY <1>6 DEF CallStep, LockList, MarkData, SendData, MarkEvent, SendEvent, listVars
<1>7. CASE UvStep \/ UNCHANGED vars
  BY <1>7, UvStepQueue DEF vars, queueVars, listVars
<1> QED BY <1>1, <1>2, <1>3, <1>4, <1>5, <1>6, <1>7 DEF Next

(* Whatever the number of threads, the socket's write path is a FIFO       *)
(* stream: only the promise that it is flushed in the end is left to TLC.  *)
THEOREM WritePathIsStream == Spec => Stream!SafeSpec
<1>1. Init => Stream!Init
  BY DEF Init, Stream!Init, Untaken
<1> QED BY InitPath, NextPath, NextStream, <1>1, PTL DEF Spec, Stream!SafeSpec

----------------------------------------------------------------------------
(* libuv's queue.  A refused or a cancelled request shows in lost, so as   *)
(* long as nothing is lost what uv_write was given is sent or queued.      *)

HandedOut == lost = {} => sent \o tcp_queue = handed

LEMMA EmptyRange ==
  ASSUME NEW S, NEW s \in Seq(S), Range(s) = {}
  PROVE  s = <<>>
<1>1. DOMAIN s = {}
  BY DEF Range
<1> QED BY <1>1, LenProperties, EmptySeq

LEMMA UvStepWire ==
  ASSUME TypeInv, HandedOut, UvStep
  PROVE  HandedOut'
<1> USE DEF TypeInv, TypeOK, HandedOut, outVars, queueVars
<1>1. ASSUME Range(tcp_queue) = {} PROVE tcp_queue = <<>>
  BY <1>1, EmptyRange
<1>2. CASE \E ok \in BOOLEAN : on_uv_connect(ok)
  BY <1>1, <1>2 DEF on_uv_connect
<1>3. CASE \E ok \in BOOLEAN : on_uv_write(ok)
  <2> PICK ok \in BOOLEAN : on_uv_write(ok)
    BY <1>3
  <2>1. CASE ~ok
    BY <2>1 DEF on_uv_write
  <2>2. CASE ok
    <3>1. /\ tcp_queue # <<>> /\ UNCHANGED <<handed, lost>>
          /\ sent' = Append(sent, Head(tcp_queue)) /\ tcp_queue' = Tail(tcp_queue)
      BY <2>2 DEF on_uv_write
    <3>2. Head(tcp_queue) \in Buffers /\ Tail(tcp_queue) \in Seq(Buffers)
      BY <3>1
    <3> DEFINE h == Head(tcp_queue)
               t == Tail(tcp_queue)
    <3>3. tcp_queue = <<h>> \o t
      BY <3>1, <3>2
    <3> HIDE DEF h, t
    <3>4. sent' = sent \o <<h>> /\ tcp_queue' = t
      BY <3>1, <3>2, AppendIsConcat DEF h, t
    <3>5. (sent \o <<h>>) \o t = sent \o (<<h>> \o t)
      <4>1. <<h>> \in Seq(Buffers) /\ t \in Seq(Buffers)
        BY <3>2 DEF h, t
      <4> QED BY <4>1, ConcatAssociative
    <3> QED BY <3>1, <3>3, <3>4, <3>5
  <2> QED BY <2>1, <2>2
<1>4. CASE on_uv_close
  BY <1>1, <1>4 DEF on_uv_close
<1>5. CASE net_socket_connect  BY <1>5 DEF net_socket_connect
<1>6. CASE \E ok \in BOOLEAN : on_socket_dns_lookup(ok)
  BY <1>6 DEF on_socket_dns_lookup
<1>7. CASE ReadData  BY <1>7 DEF ReadData
<1>8. CASE \E result \in {"eof", "reset"} : ReadEnd(result)
  BY <1>8 DEF ReadEnd
<1>9. CASE ReadError  BY <1>9 DEF ReadError
<1>10. CASE on_uv_shutdown  BY <1>10 DEF on_uv_shutdown
<1> QED
  BY <1>2, <1>3, <1>4, <1>5, <1>6, <1>7, <1>8, <1>9, <1>10 DEF UvStep

LEMMA NextWire == TypeInv /\ HandedOut /\ [Next]_vars => HandedOut'
<1> SUFFICES ASSUME TypeInv, HandedOut, [Next]_vars PROVE HandedOut'
  OBVIOUS
<1>1. CASE AsyncDrain
  <2>1. CASE Usable
    <3>1. /\ tcp_queue' = tcp_queue \o write_list /\ handed' = handed \o write_list
          /\ UNCHANGED <<lost, sent>>
      BY <1>1, <2>1 DEF AsyncDrain, UvWrite
    <3>t. sent \in Seq(Buffers) /\ tcp_queue \in Seq(Buffers) /\ write_list \in Seq(Buffers)
      BY DEF TypeInv, TypeOK
    <3>2. sent \o (tcp_queue \o write_list) = (sent \o tcp_queue) \o write_list
      BY <3>t, ConcatAssociative
    <3> QED BY <3>1, <3>2 DEF HandedOut
  <2>2. CASE ~Usable
    <3>1. /\ tcp_queue' = tcp_queue /\ sent' = sent
          /\ lost' = lost \cup Range(write_list) /\ handed' = handed \o write_list
      BY <1>1, <2>2 DEF AsyncDrain, UvWrite
    <3>2. ASSUME Range(write_list) = {} PROVE handed \o write_list = handed
      <4>1. write_list = <<>>
        BY <3>2, EmptyRange DEF TypeInv, TypeOK
      <4> QED BY <4>1, ConcatEmptySeq DEF TypeInv, TypeOK
    <3> QED BY <3>1, <3>2 DEF HandedOut
  <2> QED BY <2>1, <2>2
<1>2. CASE AsyncStep /\ ~AsyncDrain
  BY <1>2 DEF AsyncStep, AsyncStart, AsyncWrite, AsyncLock, AsyncClear, AsyncEnd,
              AsyncPause, AsyncResume, TestAndClear, outVars, HandedOut
<1>3. ASSUME NEW c \in Callers, BeginCall(c) PROVE HandedOut'
  BY <1>3 DEF BeginCall, net_socket_write, net_socket_end, net_socket_pause,
              net_socket_resume, Begin, outVars, HandedOut
<1>4. ASSUME NEW c \in Callers, CallStep(c) PROVE HandedOut'
  BY <1>4 DEF CallStep, LockList, PushBuffer, MarkData, SendData, MarkEvent,
              SendEvent, outVars, HandedOut
<1>5. CASE UNCHANGED vars
  BY <1>5 DEF vars, outVars, HandedOut
<1> QED BY <1>1, <1>2, <1>3, <1>4, <1>5, UvStepWire DEF Next

(* Across write_list and libuv's queue the buffers stay in the order of    *)
(* the writes all the way to the wire, as long as none has been lost.      *)
THEOREM WireStaysInOrder == Spec => []WireInOrder
<1>1. Init => HandedOut
  BY DEF Init, HandedOut
<1>2. PathInv => TypeInv
  BY DEF PathInv
<1>3. PathInv /\ HandedOut => WireInOrder
  BY DEF PathInv, WritesInOrder, HandedOut, WireInOrder
<1> QED BY InitPath, NextPath, NextWire, <1>1, <1>2, <1>3, PTL DEF Spec

----------------------------------------------------------------------------
(* Lemmas on what a sequence holds.                                        *)

LEMMA RangeOfAppend ==
  ASSUME NEW S, NEW s \in Seq(S), NEW e
  PROVE  Range(Append(s, e)) = Range(s) \cup {e}
<1>1. DOMAIN Append(s, e) = 1 .. Len(s) + 1 /\ DOMAIN s = 1 .. Len(s) /\ Len(s) \in Nat
  OBVIOUS
<1>2. \A i \in 1 .. Len(s) + 1 : Append(s, e)[i] = IF i = Len(s) + 1 THEN e ELSE s[i]
  OBVIOUS
<1>3. ASSUME NEW i \in DOMAIN Append(s, e) PROVE Append(s, e)[i] \in Range(s) \cup {e}
  BY <1>1, <1>2 DEF Range
<1>4. ASSUME NEW i \in DOMAIN s PROVE s[i] \in Range(Append(s, e))
  <2>1. i \in DOMAIN Append(s, e) /\ Append(s, e)[i] = s[i]
    BY <1>1, <1>2
  <2> QED BY <2>1 DEF Range
<1>5. e \in Range(Append(s, e))
  <2>1. Len(s) + 1 \in DOMAIN Append(s, e) /\ Append(s, e)[Len(s) + 1] = e
    BY <1>1, <1>2
  <2> QED BY <2>1 DEF Range
<1> QED BY <1>3, <1>4, <1>5 DEF Range

LEMMA AppendLast ==
  ASSUME NEW S, NEW s \in Seq(S), NEW e \in S
  PROVE  /\ Append(s, e) # <<>> /\ Len(Append(s, e)) = Len(s) + 1
         /\ Append(s, e)[Len(Append(s, e))] = e
         /\ \A i \in 1 .. Len(s) : Append(s, e)[i] = s[i]
<1>1. Len(Append(s, e)) = Len(s) + 1 /\ Len(s) \in Nat
  OBVIOUS
<1>2. Append(s, e) # <<>>
  BY <1>1
<1> QED BY <1>1, <1>2

----------------------------------------------------------------------------
(* The order of the events.  Nothing is emitted once the handle is closed, *)
(* because a handle that is closing has, or once had, a connection: what   *)
(* net_socket_connect begins is over by then.                              *)

CloseInv ==
  /\ handle # "open" => conn \in {"open", "refused"}
  /\ Emitted("close") => handle = "closed"
  /\ CloseIsLast

(* An event but 'close' on an open handle leaves CloseInv as it is.        *)
LEMMA EmitBeforeClose ==
  ASSUME TypeOK, CloseInv, handle = "open" \/ handle = "closing",
         NEW e \in UserEvent, events' = Append(events, e)
  PROVE  /\ CloseIsLast'
         /\ Emitted("close")' => e = "close"
<1>1. "close" \notin Range(events) /\ events \in Seq(UserEvent)
  BY DEF CloseInv, Emitted, TypeOK
<1>2. \A i \in DOMAIN events : events[i] # "close"
  BY <1>1 DEF Range
<1>3. /\ DOMAIN events = 1 .. Len(events) /\ Len(events) \in Nat
      /\ DOMAIN events' = 1 .. Len(events) + 1 /\ Len(events') = Len(events) + 1
      /\ \A i \in 1 .. Len(events) : events'[i] = events[i]
  BY <1>1, AppendLast
<1>4. CloseIsLast'
  <2>1. ASSUME NEW i \in DOMAIN events', events'[i] = "close" PROVE i = Len(events')
    BY <2>1, <1>2, <1>3
  <2> QED BY <2>1 DEF CloseIsLast
<1>5. Range(events') = Range(events) \cup {e}
  BY <1>1, RangeOfAppend
<1> QED BY <1>1, <1>4, <1>5 DEF Emitted

LEMMA CloseUv ==
  ASSUME TypeOK, CloseInv, UvStep
  PROVE  CloseInv'
<1>1. ASSUME UNCHANGED <<handle, events>>, conn \in {"open", "refused"} => conn' = conn
      PROVE  CloseInv'
  BY <1>1 DEF CloseInv, Emitted, CloseIsLast
<1>2. ASSUME NEW e \in UserEvent \ {"close"}, events' = Append(events, e),
             handle = "open", handle' \in {"open", "closing"},
             handle' # "open" => conn' \in {"open", "refused"}
      PROVE  CloseInv'
  <2>1. CloseIsLast' /\ ~Emitted("close")'
    BY <1>2, EmitBeforeClose
  <2> QED BY <1>2, <2>1 DEF CloseInv
<1>3. CASE net_socket_connect
  BY <1>1, <1>3 DEF net_socket_connect
<1>4. CASE \E ok \in BOOLEAN : on_socket_dns_lookup(ok)
  <2> PICK ok \in BOOLEAN : on_socket_dns_lookup(ok)
    BY <1>4
  <2>1. handle = "open" /\ handle' = "open"
    BY DEF on_socket_dns_lookup, CloseInv
  <2>2. events \in Seq(UserEvent) /\ "close" \notin Range(events)
    BY <2>1 DEF CloseInv, TypeOK, Emitted
  <2> DEFINE more == IF ok THEN <<"lookup", "ready">> ELSE <<"lookup">>
  <2>3. more \in Seq(UserEvent) /\ Range(more) \subseteq {"lookup", "ready"}
    <3>1. <<"lookup", "ready">> \in Seq(UserEvent) /\ <<"lookup">> \in Seq(UserEvent)
      BY DEF UserEvent
    <3> QED BY <3>1 DEF Range
  <2>4. events' = events \o more
    BY DEF on_socket_dns_lookup
  <2> HIDE DEF more
  <2>5. Range(events') = Range(events) \cup Range(more)
    BY <2>2, <2>3, <2>4, RangeConcatenation
  <2>6. "close" \notin Range(events')
    BY <2>2, <2>3, <2>5
  <2>7. CloseIsLast'
    BY <2>6 DEF CloseIsLast, Range
  <2> QED BY <2>1, <2>6, <2>7 DEF CloseInv, Emitted
<1>5. CASE \E ok \in BOOLEAN : on_uv_connect(ok)
  <2>1. conn = "connecting" /\ events' = Append(events, "connect") /\ handle' = handle
    BY <1>5 DEF on_uv_connect, Emit
  <2>2. handle = "open"
    BY <2>1 DEF CloseInv, TypeOK
  <2> QED BY <1>2, <2>1, <2>2 DEF UserEvent
<1>6. CASE ReadData
  BY <1>2, <1>6 DEF ReadData, CanRead, Emit, UserEvent
<1>7. CASE \E result \in {"eof", "reset"} : ReadEnd(result)
  <2>1. /\ handle = "open" /\ conn = "open" /\ conn' = conn
        /\ events' = Append(events, "end") /\ handle' \in {"open", "closing"}
    BY <1>7 DEF ReadEnd, CanRead, Emit, UvClose
  <2> QED BY <1>2, <2>1 DEF UserEvent
<1>8. CASE ReadError
  BY <1>2, <1>8 DEF ReadError, CanRead, Emit, UserEvent
<1>9. CASE \E ok \in BOOLEAN : on_uv_write(ok)
  BY <1>1, <1>9 DEF on_uv_write, streamVars
<1>10. CASE on_uv_shutdown
  <2>1. /\ UNCHANGED <<conn, events>>
        /\ handle' # "open" => conn' \in {"open", "refused"}
        /\ handle # "closed" /\ handle \in {"open", "closing"}
    BY <1>10 DEF on_uv_shutdown, UvClose, CloseInv
  <2> QED BY <2>1 DEF CloseInv, Emitted, CloseIsLast
<1>11. CASE on_uv_close
  <2>1. /\ handle = "closing" /\ handle' = "closed" /\ conn' = conn
        /\ events' = Append(events, "close")
    BY <1>11 DEF on_uv_close, Emit
  <2>2. CloseIsLast'
    BY <2>1, EmitBeforeClose DEF UserEvent
  <2> QED BY <2>1, <2>2 DEF CloseInv
<1> QED
  BY <1>3, <1>4, <1>5, <1>6, <1>7, <1>8, <1>9, <1>10, <1>11 DEF UvStep

(* The calls and on_uv_async_event emit nothing and close nothing.         *)
LEMMA OnlyUvEmits ==
  ASSUME [Next]_vars, ~UvStep
  PROVE  UNCHANGED <<handle, events, conn>>
<1>1. ASSUME NEW c \in Callers, BeginCall(c) PROVE UNCHANGED <<handle, events, conn>>
  BY <1>1 DEF BeginCall, net_socket_write, net_socket_end, net_socket_pause,
              net_socket_resume, Begin, streamVars
<1>2. ASSUME NEW c \in Callers, CallStep(c) PROVE UNCHANGED <<handle, events, conn>>
  BY <1>2 DEF CallStep, LockList, PushBuffer, MarkData, SendData, MarkEvent,
              SendEvent, streamVars
<1>3. CASE AsyncStep
  BY <1>3 DEF AsyncStep, AsyncStart, AsyncWrite, AsyncLock, AsyncDrain, AsyncClear,
              AsyncEnd, AsyncPause, AsyncResume, streamVars
<1>4. CASE UNCHANGED vars
  BY <1>4 DEF vars, streamVars
<1> QED BY <1>1, <1>2, <1>3, <1>4 DEF Next

(* 'close' is the last event and comes once, whichever of the peer, the    *)
(* user and a failure ends the connection: on_uv_read and on_uv_shutdown   *)
(* may both close the handle, and only on_uv_close speaks of it.           *)
THEOREM CloseComesLast == Spec => []CloseIsLast
<1>1. Init => CloseInv
  BY DEF Init, CloseInv, Emitted, CloseIsLast, Range
<1>2. TypeInv /\ CloseInv /\ [Next]_vars => CloseInv'
  <2>1. TypeInv => TypeOK
    BY DEF TypeInv
  <2>2. CloseInv /\ UNCHANGED <<handle, events, conn>> => CloseInv'
    BY DEF CloseInv, Emitted, CloseIsLast
  <2> QED BY <2>1, <2>2, CloseUv, OnlyUvEmits
<1>3. PathInv => TypeInv
  BY DEF PathInv
<1>4. CloseInv => CloseIsLast
  BY DEF CloseInv
<1> QED BY InitPath, NextPath, <1>1, <1>2, <1>3, <1>4, PTL DEF Spec

----------------------------------------------------------------------------
(* end(data) on the loop thread.  Whatever the loop thread has pushed is   *)
(* in uv_write or will be before on_uv_async_event comes to the test of    *)
(* end, because a call on this thread is over when the callback starts:    *)
(* the flag of its data is then up.  Other threads may be anywhere.        *)

OwnDataInv ==
  call[Loop].buf # None /\ pc[Loop] \notin {"lock", "push"} =>
    \/ call[Loop].buf \in Range(handed)
    \/ /\ call[Loop].buf \in Range(write_list)
       /\ \/ pc[Loop] = "mark_data"
          \/ loop \in {"poll", "write"} /\ async_event["write_data"]
          \/ loop \in {"lock", "drain"}

LEMMA OwnDataBegin ==
  ASSUME PathInv, OwnDataInv, NEW c \in Callers, BeginCall(c)
  PROVE  OwnDataInv'
<1> USE DEF PathInv, TypeInv, TypeOK
<1>1. PICK kind, buf : Begin(c, kind, buf)
  BY DEF BeginCall, net_socket_write, net_socket_end, net_socket_pause,
         net_socket_resume
<1>2. UNCHANGED <<write_list, handed, loop, async_event>>
  BY <1>1 DEF Begin, listVars, flagVars
<1>3. Loop \in Callers
  BY DEF Callers
<1>4. CASE c = Loop
  <2>1. call'[Loop].buf = buf /\ pc'[Loop] = IF buf = None THEN "mark" ELSE "lock"
    BY <1>1, <1>3, <1>4 DEF Begin
  <2> QED BY <2>1 DEF OwnDataInv
<1>5. CASE c # Loop
  <2>1. call'[Loop] = call[Loop] /\ pc'[Loop] = pc[Loop]
    BY <1>1, <1>3, <1>5 DEF Begin
  <2> QED BY <1>2, <2>1 DEF OwnDataInv
<1> QED BY <1>4, <1>5

LEMMA OwnDataCall ==
  ASSUME PathInv, OwnDataInv, NEW c \in Callers, CallStep(c)
  PROVE  OwnDataInv'
<1> USE DEF PathInv, TypeInv, TypeOK
<1>l. Loop \in Callers
  BY DEF Callers
<1>t. write_list \in Seq(Buffers) /\ async_event \in [Event -> BOOLEAN]
  OBVIOUS
<1>1. ASSUME UNCHANGED <<write_list, handed, loop, async_event>>,
             call' = call, pc'[Loop] = pc[Loop]
      PROVE  OwnDataInv'
  BY <1>1 DEF OwnDataInv
<1>2. CASE LockList(c)
  <2>1. /\ UNCHANGED <<write_list, handed, loop, async_event>> /\ call' = call
        /\ pc' = [pc EXCEPT ![c] = "push"]
    BY <1>2 DEF LockList, flagVars
  <2> QED BY <1>1, <1>l, <2>1 DEF OwnDataInv
<1>3. CASE PushBuffer(c)
  <2>1. /\ UNCHANGED <<handed, loop, async_event, call>>
        /\ write_list' = Append(write_list, call[c].buf)
        /\ pc' = [pc EXCEPT ![c] = "mark_data"]
    BY <1>3 DEF PushBuffer, flagVars
  <2>2. Range(write_list') = Range(write_list) \cup {call[c].buf}
    BY <1>t, <2>1, RangeOfAppend
  <2>3. CASE c = Loop
    BY <1>l, <2>1, <2>2, <2>3 DEF OwnDataInv
  <2>4. CASE c # Loop
    <3>1. pc'[Loop] = pc[Loop]
      BY <1>l, <2>1, <2>4
    <3> QED BY <2>1, <2>2, <3>1 DEF OwnDataInv
  <2> QED BY <2>3, <2>4
<1>4. CASE MarkData(c)
  <2>1. /\ UNCHANGED <<write_list, handed, loop, call>>
        /\ async_event' = [async_event EXCEPT !["write_data"] = TRUE]
        /\ pc' = [pc EXCEPT ![c] = "send_data"] /\ pc[c] = "mark_data"
    BY <1>4 DEF MarkData, listVars
  <2>2. async_event'["write_data"]
    BY <1>t, <2>1 DEF Event
  <2>3. CASE c = Loop
    <3>1. loop = "poll"
      BY <2>1, <2>3 DEF MutexInv
    <3> QED BY <1>l, <2>1, <2>2, <2>3, <3>1 DEF OwnDataInv
  <2>4. CASE c # Loop
    <3>1. pc'[Loop] = pc[Loop]
      BY <1>l, <2>1, <2>4
    <3> QED BY <2>1, <2>2, <3>1 DEF OwnDataInv
  <2> QED BY <2>3, <2>4
<1>5. ASSUME UNCHANGED <<write_list, handed, loop, call>>,
             async_event'["write_data"] = async_event["write_data"],
             pc[c] \notin {"lock", "push", "mark_data"},
             NEW to, pc' = [pc EXCEPT ![c] = to]
      PROVE  OwnDataInv'
  BY <1>5, <1>l DEF OwnDataInv
<1>6. CASE SendData(c)
  BY <1>5, <1>6 DEF SendData, listVars
<1>7. CASE MarkEvent(c)
  <2>1. call[c].kind # "write_data"
    BY <1>7 DEF MarkEvent, CallInv
  <2>2. async_event' = [async_event EXCEPT ![call[c].kind] = TRUE]
    BY <1>7 DEF MarkEvent
  <2>3. async_event'["write_data"] = async_event["write_data"]
    BY <1>t, <2>1, <2>2 DEF Event
  <2> QED BY <1>5, <1>7, <2>3 DEF MarkEvent, listVars
<1>8. CASE SendEvent(c)
  BY <1>5, <1>8 DEF SendEvent, listVars
<1> QED BY <1>2, <1>3, <1>4, <1>6, <1>7, <1>8 DEF CallStep

LEMMA OwnDataAsync ==
  ASSUME PathInv, OwnDataInv, AsyncStep
  PROVE  OwnDataInv'
<1> USE DEF PathInv, TypeInv, TypeOK
<1>t. /\ write_list \in Seq(Buffers) /\ handed \in Seq(Buffers)
      /\ async_event \in [Event -> BOOLEAN]
  OBVIOUS
<1>c. UNCHANGED <<call, pc>>
  BY DEF AsyncStep, AsyncStart, AsyncWrite, AsyncLock, AsyncDrain, AsyncClear,
         AsyncEnd, AsyncPause, AsyncResume, TestAndClear, callVars
<1>p. loop # "poll" => pc[Loop] # "mark_data"
  BY DEF MutexInv
<1>1. CASE AsyncStart
  <2>1. /\ UNCHANGED <<write_list, handed, async_event>> /\ loop' = "write"
        /\ loop = "poll" /\ pc[Loop] = "idle"
    BY <1>1 DEF AsyncStart, LoopFree, listVars
  <2> QED BY <1>c, <2>1 DEF OwnDataInv
<1>2. CASE AsyncWrite
  <2>1. /\ UNCHANGED <<write_list, handed>> /\ loop = "write"
        /\ loop' = IF async_event["write_data"] THEN "lock" ELSE "end"
    BY <1>2 DEF AsyncWrite, TestAndClear, listVars
  <2> QED BY <1>c, <1>p, <2>1 DEF OwnDataInv
<1>3. CASE AsyncLock
  <2>1. /\ UNCHANGED <<write_list, handed, async_event>>
        /\ loop = "lock" /\ loop' = "drain"
    BY <1>3 DEF AsyncLock, flagVars
  <2> QED BY <1>c, <2>1 DEF OwnDataInv
<1>4. CASE AsyncDrain
  <2>1. handed' = handed \o write_list
    BY <1>4 DEF AsyncDrain
  <2>2. Range(handed') = Range(handed) \cup Range(write_list)
    BY <1>t, <2>1, RangeConcatenation
  <2> QED BY <1>c, <2>2 DEF OwnDataInv
<1>5. CASE AsyncClear
  <2>1. loop = "clear" /\ handed' = handed
    BY <1>5 DEF AsyncClear
  <2> QED BY <1>c, <1>p, <2>1 DEF OwnDataInv
<1>6. CASE AsyncEnd \/ AsyncPause \/ AsyncResume
  <2>1. loop \in {"end", "pause", "resume"} /\ handed' = handed
    BY <1>6 DEF AsyncEnd, AsyncPause, AsyncResume, TestAndClear
  <2> QED BY <1>c, <1>p, <2>1 DEF OwnDataInv
<1> QED BY <1>1, <1>2, <1>3, <1>4, <1>5, <1>6 DEF AsyncStep

LEMMA InitOwnData == Init => OwnDataInv
BY DEF Init, OwnDataInv, Callers

LEMMA NextOwnData == PathInv /\ OwnDataInv /\ [Next]_vars => OwnDataInv'
<1>1. ASSUME OwnDataInv, UNCHANGED queueVars PROVE OwnDataInv'
  BY <1>1 DEF OwnDataInv, queueVars, callVars, listVars, flagVars
<1>2. UNCHANGED vars => UNCHANGED queueVars
  BY DEF vars, queueVars
<1> QED BY <1>1, <1>2, OwnDataBegin, OwnDataCall, OwnDataAsync, UvStepQueue DEF Next

(* What EndSendsData says, of the calls made on the loop thread.           *)
OwnEndSendsData ==
  [][loop = "end" /\ async_event["end"] /\ Ended(Loop) =>
       call[Loop].buf \in Range(handed) \cup {None}]_vars

LEMMA OwnDataIsHanded ==
  ASSUME PathInv, OwnDataInv, loop = "end"
  PROVE  call[Loop].buf \in Range(handed) \cup {None}
<1>1. pc[Loop] = "idle"
  BY DEF PathInv, MutexInv
<1> QED BY <1>1 DEF OwnDataInv

(* A stream that is shut down by end(data) on the loop thread has been     *)
(* given that data, whatever other threads write, end or have half done.   *)
THEOREM OwnEndSendsItsData == Spec => OwnEndSendsData
<1>1. PathInv /\ OwnDataInv =>
        (loop = "end" /\ async_event["end"] /\ Ended(Loop) =>
           call[Loop].buf \in Range(handed) \cup {None})
  BY OwnDataIsHanded
<1> QED BY InitPath, NextPath, InitOwnData, NextOwnData, <1>1, PTL DEF Spec, OwnEndSendsData

(* So where only callbacks call, as in demo/uvNetTest.cpp, end(data) is    *)
(* write(data) followed by end().  With more threads it is not:            *)
(* MCNetSocket_end_race.cfg shows the order that breaks it.                *)
THEOREM EndSendsItsData ==
  ASSUME Threads = {}
  PROVE  Spec => EndSendsData
<1>1. Callers = {Loop}
  BY DEF Callers
<1>2. PathInv /\ OwnDataInv =>
        (loop = "end" /\ async_event["end"] =>
           \A c \in Callers : Ended(c) => call[c].buf \in Range(handed) \cup {None})
  BY <1>1, OwnDataIsHanded
<1> QED BY InitPath, NextPath, InitOwnData, NextOwnData, <1>2, PTL DEF Spec, EndSendsData

----------------------------------------------------------------------------
(* resume() on the loop thread.  The last of the flow calls stands in      *)
(* `flow'; if it is a resume() on an open connection, then it is still to  *)
(* raise its flag, or the flag is up, or data is read and no flag of an    *)
(* earlier pause() is left to end that.                                    *)

FlowInv ==
  /\ pc[Loop] = "mark" /\ call[Loop].kind \in {"pause", "resume"} =>
       flow # <<>> /\ flow[Len(flow)].op = call[Loop].kind
  /\ loop = "resume" => ~async_event["pause"]
  /\ StreamAlive /\ LastFlow("resume") =>
       /\ conn = "open"
       /\ \/ pc[Loop] = "mark" /\ call[Loop].kind = "resume"
          \/ async_event["resume"]
          \/ reading /\ ~async_event["pause"]

LEMMA FlowBegin ==
  ASSUME PathInv, FlowInv, Callers = {Loop}, NEW c \in Callers, BeginCall(c)
  PROVE  FlowInv'
<1> USE DEF PathInv, TypeInv, TypeOK
<1>c. c = Loop /\ pc[c] = "idle" /\ loop = "poll"
  BY DEF BeginCall, net_socket_write, net_socket_end, net_socket_pause,
         net_socket_resume, Begin, Idle
<1>1. ASSUME NEW kind, NEW buf, Begin(c, kind, buf)
      PROVE  /\ call'[Loop] = [kind |-> kind, buf |-> buf] /\ loop' = "poll"
             /\ UNCHANGED <<async_event, conn, reading, handle, events>>
             /\ pc'[Loop] # "mark" \/ buf = None
  BY <1>1, <1>c DEF Begin, flagVars, streamVars
<1>2. ASSUME NEW kind \in {"write_data", "end"}, NEW buf, Begin(c, kind, buf), flow' = flow
      PROVE  FlowInv'
  <2>0. call'[Loop] = [kind |-> kind, buf |-> buf]
    BY <1>1, <1>2
  <2>1. /\ call'[Loop].kind = kind /\ loop' = "poll"
        /\ UNCHANGED <<async_event, conn, reading, handle, events>>
    BY <1>1, <1>2, <2>0
  <2> QED BY <1>2, <1>c, <2>1 DEF FlowInv, StreamAlive, Emitted, LastFlow
<1>3. ASSUME NEW op \in {"pause", "resume"}, Begin(c, op, None),
             flow' = Append(flow, FlowCall(op))
      PROVE  FlowInv'
  <2> DEFINE F == [op : {"pause", "resume"}, clear : BOOLEAN]
  <2>0. call'[Loop] = [kind |-> op, buf |-> None]
    BY <1>1, <1>3
  <2>1. /\ call'[Loop].kind = op /\ pc'[Loop] = "mark" /\ loop' = "poll"
        /\ UNCHANGED <<async_event, conn, reading, handle, events>>
    BY <1>1, <1>3, <1>c, <2>0 DEF Begin
  <2>a. flow \in Seq(F) /\ FlowCall(op) \in F
    BY FlowCallType
  <2>b. flow' = Append(flow, FlowCall(op))
    BY <1>3
  <2> HIDE DEF F
  <2>c. \A f \in Seq(F), e \in F : Append(f, e) # <<>> /\ Append(f, e)[Len(Append(f, e))] = e
    BY AppendLast
  <2>2. /\ flow' # <<>> /\ flow'[Len(flow')] = FlowCall(op)
    BY <2>a, <2>b, <2>c
  <2>3. FlowCall(op).op = op /\ (FlowCall(op).clear => conn = "open")
    BY DEF FlowCall
  <2>4. LastFlow("resume")' => op = "resume" /\ conn' = "open"
    BY <2>1, <2>2, <2>3 DEF LastFlow
  <2> QED BY <2>1, <2>2, <2>3, <2>4 DEF FlowInv
<1>4. CASE \E b \in Buffers : net_socket_write(c, b)
  BY <1>2, <1>4 DEF net_socket_write, historyVars
<1>5. CASE \E b \in Buffers \cup {None} : net_socket_end(c, b)
  BY <1>2, <1>5 DEF net_socket_end
<1>6. CASE net_socket_pause(c)
  BY <1>3, <1>6 DEF net_socket_pause
<1>7. CASE net_socket_resume(c)
  BY <1>3, <1>7 DEF net_socket_resume
<1> QED BY <1>4, <1>5, <1>6, <1>7 DEF BeginCall

LEMMA FlowCallStep ==
  ASSUME PathInv, FlowInv, Callers = {Loop}, NEW c \in Callers, CallStep(c)
  PROVE  FlowInv'
<1> USE DEF PathInv, TypeInv, TypeOK
<1>c. c = Loop
  OBVIOUS
<1>t. async_event \in [Event -> BOOLEAN]
  OBVIOUS
<1>u. UNCHANGED <<call, flow, loop, conn, reading, handle, events>>
  BY DEF CallStep, LockList, PushBuffer, MarkData, SendData, MarkEvent, SendEvent,
         historyVars, streamVars
<1>1. ASSUME async_event'["pause"] = async_event["pause"],
             async_event'["resume"] = async_event["resume"],
             pc[Loop] # "mark" \/ call[Loop].kind \notin {"pause", "resume"},
             pc'[Loop] = "mark" => call[Loop].kind \notin {"pause", "resume"}
      PROVE  FlowInv'
  BY <1>1, <1>u DEF FlowInv, StreamAlive, Emitted, LastFlow
<1>2. CASE LockList(c)
  BY <1>1, <1>2, <1>c DEF LockList, flagVars
<1>3. CASE PushBuffer(c)
  BY <1>1, <1>3, <1>c DEF PushBuffer, flagVars
<1>4. CASE MarkData(c)
  <2>1. /\ pc[Loop] = "mark_data" /\ pc'[Loop] = "send_data"
        /\ async_event' = [async_event EXCEPT !["write_data"] = TRUE]
    BY <1>4, <1>c DEF MarkData
  <2>2. async_event'["pause"] = async_event["pause"] /\ async_event'["resume"] = async_event["resume"]
    BY <1>t, <2>1 DEF Event
  <2> QED BY <1>1, <2>1, <2>2
<1>5. CASE SendData(c)
  <2>1. /\ pc[Loop] = "send_data" /\ UNCHANGED async_event
        /\ pc'[Loop] = IF call[Loop].kind = "end" THEN "mark" ELSE "idle"
    BY <1>5, <1>c DEF SendData
  <2> QED BY <1>1, <2>1
<1>6. CASE MarkEvent(c)
  <2>1. /\ pc[Loop] = "mark" /\ pc'[Loop] = "send"
        /\ async_event' = [async_event EXCEPT ![call[Loop].kind] = TRUE]
        /\ call[Loop].kind \in {"end", "pause", "resume"}
    BY <1>6, <1>c DEF MarkEvent, CallInv
  <2>2. loop = "poll"
    BY <2>1 DEF MutexInv
  <2>3. CASE call[Loop].kind = "end"
    <3>1. async_event'["pause"] = async_event["pause"] /\ async_event'["resume"] = async_event["resume"]
      BY <1>t, <2>1, <2>3 DEF Event
    <3> QED BY <1>1, <2>1, <2>3, <3>1
  <2>4. CASE call[Loop].kind = "pause"
    <3>1. ~LastFlow("resume")'
      BY <1>u, <2>1, <2>4 DEF FlowInv, LastFlow
    <3> QED BY <1>u, <2>1, <2>2, <3>1 DEF FlowInv
  <2>5. CASE call[Loop].kind = "resume"
    <3>1. async_event'["resume"]
      BY <1>t, <2>1, <2>5 DEF Event
    <3> QED BY <1>u, <2>1, <2>2, <3>1 DEF FlowInv, StreamAlive, Emitted, LastFlow
  <2> QED BY <2>1, <2>3, <2>4, <2>5
<1>7. CASE SendEvent(c)
  BY <1>1, <1>7, <1>c DEF SendEvent
<1> QED BY <1>2, <1>3, <1>4, <1>5, <1>6, <1>7 DEF CallStep

LEMMA FlowAsync ==
  ASSUME PathInv, FlowInv, AsyncStep
  PROVE  FlowInv'
<1> USE DEF PathInv, TypeInv, TypeOK
<1>t. async_event \in [Event -> BOOLEAN]
  OBVIOUS
<1>u. UNCHANGED <<call, pc, flow, conn, handle, events>>
  BY DEF AsyncStep, AsyncStart, AsyncWrite, AsyncLock, AsyncDrain, AsyncClear,
         AsyncEnd, AsyncPause, AsyncResume, TestAndClear, callVars, historyVars,
         streamVars
<1>s. StreamAlive' = StreamAlive /\ LastFlow("resume")' = LastFlow("resume")
  BY <1>u DEF StreamAlive, Emitted, LastFlow
<1>i. loop # "poll" => pc[Loop] = "idle"
  BY DEF MutexInv
<1>1. ASSUME async_event'["pause"] = async_event["pause"],
             async_event'["resume"] = async_event["resume"],
             reading' = reading, loop' # "resume"
      PROVE  FlowInv'
  BY <1>1, <1>u, <1>s DEF FlowInv
<1>2. CASE AsyncStart \/ AsyncLock \/ AsyncDrain \/ AsyncClear
  BY <1>1, <1>2 DEF AsyncStart, AsyncLock, AsyncDrain, AsyncClear, flagVars, streamVars
<1>3. CASE AsyncWrite
  <2>1. async_event' = [async_event EXCEPT !["write_data"] = FALSE]
    BY <1>3 DEF AsyncWrite, TestAndClear
  <2>2. async_event'["pause"] = async_event["pause"] /\ async_event'["resume"] = async_event["resume"]
    BY <1>t, <2>1 DEF Event
  <2> QED BY <1>1, <1>3, <2>2 DEF AsyncWrite, TestAndClear, streamVars
<1>4. CASE AsyncEnd
  <2>1. async_event' = [async_event EXCEPT !["end"] = FALSE]
    BY <1>4 DEF AsyncEnd, TestAndClear
  <2>2. async_event'["pause"] = async_event["pause"] /\ async_event'["resume"] = async_event["resume"]
    BY <1>t, <2>1 DEF Event
  <2> QED BY <1>1, <1>4, <2>2 DEF AsyncEnd, TestAndClear
<1>5. CASE AsyncPause
  <2>1. /\ async_event' = [async_event EXCEPT !["pause"] = FALSE]
        /\ loop = "pause" /\ reading' = (reading /\ ~async_event["pause"])
    BY <1>5 DEF AsyncPause, TestAndClear
  <2>2. ~async_event'["pause"] /\ async_event'["resume"] = async_event["resume"]
    BY <1>t, <2>1 DEF Event
  <2> QED BY <1>u, <1>s, <1>i, <2>1, <2>2 DEF FlowInv
<1>6. CASE AsyncResume
  <2>1. /\ async_event' = [async_event EXCEPT !["resume"] = FALSE]
        /\ loop = "resume" /\ loop' = "poll"
        /\ reading' = (reading \/ (async_event["resume"] /\ Readable))
    BY <1>6 DEF AsyncResume, TestAndClear
  <2>2. ~async_event'["pause"]
    BY <1>t, <2>1 DEF FlowInv, Event
  <2>3. StreamAlive /\ LastFlow("resume") => reading' /\ conn = "open"
    BY <1>i, <2>1 DEF FlowInv, StreamAlive, Readable
  <2> QED BY <1>u, <1>s, <1>i, <2>1, <2>2, <2>3 DEF FlowInv
<1> QED BY <1>2, <1>3, <1>4, <1>5, <1>6 DEF AsyncStep

(* A callback of libuv that ends the reading says so, and then the stream  *)
(* is not alive.                                                           *)
LEMMA FlowUv ==
  ASSUME PathInv, FlowInv, UvStep
  PROVE  FlowInv'
<1> USE DEF PathInv, TypeInv, TypeOK
<1>q. UNCHANGED <<pc, call, flow, loop, async_event>>
  BY UvStepQueue DEF queueVars, callVars, historyVars, flagVars
<1>f. LastFlow("resume")' = LastFlow("resume")
  BY <1>q DEF LastFlow
<1>1. ASSUME ~StreamAlive' PROVE FlowInv'
  BY <1>1, <1>q DEF FlowInv
<1>2. ASSUME StreamAlive' => StreamAlive, conn = "open" => conn' = "open",
             reading => reading'
      PROVE  FlowInv'
  BY <1>2, <1>q, <1>f DEF FlowInv
<1>3. ASSUME NEW e \in UserEvent, events' = Append(events, e), handle = "open" \/ handle' # "open"
      PROVE  /\ StreamAlive' => StreamAlive
             /\ e \in {"end", "error"} => ~StreamAlive'
  <2>1. Range(events') = Range(events) \cup {e}
    BY <1>3, RangeOfAppend
  <2> QED BY <1>3, <2>1 DEF StreamAlive, Emitted
<1>4. CASE net_socket_connect
  BY <1>2, <1>4 DEF net_socket_connect, StreamAlive, Emitted
<1>5. CASE \E ok \in BOOLEAN : on_socket_dns_lookup(ok)
  <2>1. conn = "resolving"
    BY <1>5 DEF on_socket_dns_lookup
  <2>2. UNCHANGED <<handle, reading>>
    BY <1>5 DEF on_socket_dns_lookup
  <2>3. StreamAlive' => StreamAlive
    <3> PICK ok \in BOOLEAN : on_socket_dns_lookup(ok)
      BY <1>5
    <3> DEFINE more == IF ok THEN <<"lookup", "ready">> ELSE <<"lookup">>
    <3>1. more \in Seq(UserEvent)
      <4>1. <<"lookup", "ready">> \in Seq(UserEvent) /\ <<"lookup">> \in Seq(UserEvent)
        BY DEF UserEvent
      <4> QED BY <4>1
    <3>2. events' = events \o more
      BY DEF on_socket_dns_lookup
    <3> HIDE DEF more
    <3>3. Range(events') = Range(events) \cup Range(more)
      BY <3>1, <3>2, RangeConcatenation
    <3> QED BY <2>2, <3>3 DEF StreamAlive, Emitted
  <2> QED BY <1>2, <2>1, <2>2, <2>3
<1>6. CASE \E ok \in BOOLEAN : on_uv_connect(ok)
  <2>1. /\ conn = "connecting" /\ events' = Append(events, "connect")
        /\ handle' = handle /\ reading' = TRUE
    BY <1>6 DEF on_uv_connect, Emit
  <2>2. StreamAlive' => StreamAlive
    BY <1>3, <2>1 DEF UserEvent, StreamAlive
  <2> QED BY <1>2, <2>1, <2>2
<1>7. CASE ReadData
  <2>1. /\ events' = Append(events, "data") /\ handle = "open" /\ UNCHANGED <<conn, reading>>
    BY <1>7 DEF ReadData, CanRead, Emit
  <2> QED BY <1>2, <1>3, <2>1 DEF UserEvent
<1>8. CASE (\E result \in {"eof", "reset"} : ReadEnd(result)) \/ ReadError
  <2>1. \/ events' = Append(events, "end") /\ handle = "open"
        \/ events' = Append(events, "error") /\ handle = "open"
    BY <1>8 DEF ReadEnd, ReadError, CanRead, Emit
  <2> QED BY <1>1, <1>3, <2>1 DEF UserEvent
<1>9. CASE \E ok \in BOOLEAN : on_uv_write(ok)
  BY <1>2, <1>9 DEF on_uv_write, streamVars, StreamAlive, Emitted
<1>10. CASE on_uv_shutdown
  <2>1. UNCHANGED <<conn, reading, events>> /\ (handle' = "open" => handle = "open")
    BY <1>10 DEF on_uv_shutdown, UvClose
  <2> QED BY <1>2, <2>1 DEF StreamAlive, Emitted
<1>11. CASE on_uv_close
  BY <1>1, <1>11 DEF on_uv_close, StreamAlive
<1> QED
  BY <1>4, <1>5, <1>6, <1>7, <1>8, <1>9, <1>10, <1>11 DEF UvStep

LEMMA InitFlow == Init => FlowInv
BY DEF Init, FlowInv, Callers, LastFlow

LEMMA NextFlow ==
  ASSUME Callers = {Loop}
  PROVE  PathInv /\ FlowInv /\ [Next]_vars => FlowInv'
<1>1. FlowInv /\ UNCHANGED vars => FlowInv'
  BY DEF FlowInv, StreamAlive, Emitted, LastFlow, vars, callVars, historyVars,
         flagVars, streamVars
<1> QED BY <1>1, FlowBegin, FlowCallStep, FlowAsync, FlowUv DEF Next

LEMMA FlowIsResumed ==
  ASSUME Callers = {Loop}, FlagInv, FlowInv
  PROVE  ResumeHolds
<1> SUFFICES ASSUME Quiet, StreamAlive, LastFlow("resume") PROVE reading
  BY DEF ResumeHolds
<1>1. pc[Loop] = "idle" /\ loop = "poll" /\ ~async_pending
  BY DEF Quiet
<1>2. ~async_event["resume"]
  BY <1>1 DEF FlagInv, NoLostWakeup, Untested, Event
<1> QED BY <1>1, <1>2 DEF FlowInv

(* Where only callbacks call, the resume() that is called last has data    *)
(* read again, although on_uv_async_event looks at the flags in an order   *)
(* of its own and not in that of the calls.                                *)
THEOREM ResumeTakesEffect ==
  ASSUME Threads = {}
  PROVE  Spec => []ResumeHolds
<1>1. Callers = {Loop}
  BY DEF Callers
<1>2. PathInv /\ FlowInv /\ [Next]_vars => FlowInv'
  BY <1>1, NextFlow
<1>3. FlagInv /\ FlowInv => ResumeHolds
  BY <1>1, FlowIsResumed
<1> QED BY InitPath, NextPath, InitFlags, NextFlags, InitFlow, <1>2, <1>3, PTL DEF Spec
=============================================================================
