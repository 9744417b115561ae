------------------------------ MODULE LogPipe ------------------------------
(***************************************************************************)
(* The logger of uvmodules/uvlog/uvLog.c.                                  *)
(*                                                                         *)
(* Any thread may call uv_log_write: it makes a task, puts it in the ring  *)
(* of the logger it names (of root, if there is no logger of that name)    *)
(* and calls uv_async_send.  The log's own thread runs                     *)
(* _uv_async_write_cb, which looks at the first task of every ring, passes *)
(* it to the appenders of the logger and, if the logger is additive, to    *)
(* those of root, one after the other, and then consumes it.  Other        *)
(* threads may submit tasks at any point of this.                          *)
(*                                                                         *)
(* Nothing sets the type of an appender (see LogConfig), so that each one  *)
(* a configuration makes is a console to _write_task; here it may be of    *)
(* any type, as _write_task is written.                                    *)
(*                                                                         *)
(* The ring buffer (utilc) and libuv are external.  The ring is taken to   *)
(* be what uvLog.c uses it for: a bounded queue, safe for many writers and *)
(* one reader, that refuses a task when it is full.                        *)
(***************************************************************************)
EXTENDS Naturals, Sequences, FiniteSets, Functions

CONSTANTS
  Threads,        \* the threads that write to the log
  Tasks,          \* the tasks that can be submitted, each at most once
  Loggers,        \* the <logger> elements of the configuration
  Names,          \* the names uv_log_write is called with
  Root,           \* the root logger
  None,           \* "no task"
  Capacity,       \* the size of a ring (100 in logconfig.c)
  appender_ref,   \* the appenders of every logger, in order
  additivity,     \* which loggers also write to the appenders of root
  Consoles,       \* the appenders of type console
  Files           \* the appenders of type file; the others are rolling files

AllLoggers == Loggers \cup {Root}

ASSUME LoggerAssumption == Root \notin Loggers
ASSUME NoneAssumption == None \notin Tasks
ASSUME CapacityAssumption == Capacity \in Nat \ {0}
ASSUME ConfigAssumption ==
  /\ additivity \in [Loggers -> BOOLEAN]
  /\ DOMAIN appender_ref = AllLoggers
  /\ \A l \in AllLoggers : appender_ref[l] \in Seq(Range(appender_ref[l]))
  /\ Consoles \cap Files = {}

VARIABLES
  pc,             \* where each thread stands in uv_log_write
  task,           \* its task
  target,         \* the logger it found
  ring,           \* the ring of every logger
  async_pending,  \* uv_async_send called and its callback not yet started
  loop,           \* where the log's thread stands in _uv_async_write_cb
  todo,           \* the loggers it has still to visit in this callback
  logger,         \* the logger whose task it passes on
  next,           \* the next of the appenders it passes the task to
  opened,         \* the consoles that have been opened
  opens,          \* how many times each file has been opened
  \* what has happened
  output,         \* what was written to the consoles, in order
  accepted,       \* the tasks each ring took, in order
  taken,          \* the tasks the log's thread has passed on, in order
  dropped         \* the tasks each ring refused

callVars   == <<pc, task, target>>
loopVars   == <<loop, todo, logger, next>>
outputVars == <<opened, opens, output>>
vars == <<callVars, ring, async_pending, loopVars, outputVars, accepted, taken,
          dropped>>

(* _uv_log_init and a configuration: every ring is empty.                  *)
Init ==
  /\ pc = [t \in Threads |-> "idle"]
  /\ task = [t \in Threads |-> None]
  /\ target = [t \in Threads |-> Root]
  /\ ring = [l \in AllLoggers |-> <<>>]
  /\ async_pending = FALSE
  /\ loop = "poll" /\ todo = {} /\ logger = Root /\ next = 1
  /\ opened = {} /\ opens = [a \in Files |-> 0] /\ output = <<>>
  /\ accepted = [l \in AllLoggers |-> <<>>]
  /\ taken = [l \in AllLoggers |-> <<>>]
  /\ dropped = [l \in AllLoggers |-> {}]

----------------------------------------------------------------------------
(* uv_log_write.                                                           *)

(* The logger of that name, or root.                                       *)
LoggerOf(name) == IF name \in Loggers THEN name ELSE Root

Fresh(m) ==
  /\ \A l \in AllLoggers : m \notin Range(accepted[l]) \cup dropped[l]
  /\ \A t \in Threads : task[t] # m

(* The logger is looked up and the task is made.                           *)
uv_log_write(t, m, name) ==
  /\ pc[t] = "idle" /\ Fresh(m)
  /\ task' = [task EXCEPT ![t] = m]
  /\ target' = [target EXCEPT ![t] = LoggerOf(name)]
  /\ pc' = [pc EXCEPT ![t] = "insert"]
  /\ UNCHANGED <<ring, async_pending, loopVars, outputVars, accepted, taken, dropped>>

(* Faulty variant: the oldest task makes room for the new one.             *)
InsertOverwrites(t) ==
  /\ pc[t] = "insert"
  /\ LET l == target[t]
         full == Len(ring[l]) = Capacity
     IN  /\ ring' = [ring EXCEPT ![l] = Append(IF full THEN Tail(@) ELSE @, task[t])]
         /\ accepted' = [accepted EXCEPT ![l] = Append(@, task[t])]
  /\ pc' = [pc EXCEPT ![t] = "send"]
  /\ UNCHANGED <<task, target, async_pending, loopVars, outputVars, taken, dropped>>

(* simple_ring_insert, whose result is not looked at.                      *)
Insert(t) ==
  /\ pc[t] = "insert"
  /\ LET l == target[t]
         full == Len(ring[l]) = Capacity
     IN  /\ ring' = IF full THEN ring ELSE [ring EXCEPT ![l] = Append(@, task[t])]
         /\ accepted' = IF full THEN accepted
                        ELSE [accepted EXCEPT ![l] = Append(@, task[t])]
         /\ dropped' = IF full THEN [dropped EXCEPT ![l] = @ \cup {task[t]}]
                       ELSE dropped
  /\ pc' = [pc EXCEPT ![t] = "send"]
  /\ UNCHANGED <<task, target, async_pending, loopVars, outputVars, taken>>

(* uv_async_send, and the return of the call.                              *)
Send(t) ==
  /\ pc[t] = "send"
  /\ async_pending' = TRUE
  /\ pc' = [pc EXCEPT ![t] = "idle"]
  /\ UNCHANGED <<task, target, ring, loopVars, outputVars, accepted, taken, dropped>>

CallStep(t) == Insert(t) \/ Send(t)

----------------------------------------------------------------------------
(* _uv_async_write_cb, run by the log's thread.                            *)

(* Faulty variant: additivity is taken the other way round.                *)
RefsInverted(l) ==
  appender_ref[l] \o
    IF l \in Loggers /\ ~additivity[l] THEN appender_ref[Root] ELSE <<>>

(* The appenders a task of a logger goes to.                               *)
RefsOf(l) ==
  appender_ref[l] \o
    IF l \in Loggers /\ additivity[l] THEN appender_ref[Root] ELSE <<>>

AsyncStart ==
  /\ loop = "poll" /\ async_pending
  /\ async_pending' = FALSE
  /\ loop' = "loggers" /\ todo' = Loggers
  /\ UNCHANGED <<callVars, ring, logger, next, outputVars, accepted, taken, dropped>>

(* Faulty variant: an empty ring ends the callback, as it does for root.   *)
SkipReturns(l) ==
  /\ loop = "loggers" /\ l \in todo /\ ring[l] = <<>>
  /\ todo' = {} /\ loop' = "poll"
  /\ UNCHANGED <<callVars, ring, async_pending, logger, next, outputVars,
                 accepted, taken, dropped>>

(* The ring of a logger is empty: continue.                                *)
SkipLogger(l) ==
  /\ loop = "loggers" /\ l \in todo /\ ring[l] = <<>>
  /\ todo' = todo \ {l}
  /\ UNCHANGED <<callVars, ring, async_pending, loop, logger, next, outputVars,
                 accepted, taken, dropped>>

(* The first task of l goes to the appenders, from the first of them on.   *)
Begin(l) ==
  /\ ring[l] # <<>>
  /\ logger' = l /\ next' = 1 /\ loop' = "write"
  /\ UNCHANGED <<callVars, ring, async_pending, outputVars, accepted, taken, dropped>>

BeginLogger(l) ==
  /\ loop = "loggers" /\ l \in todo
  /\ todo' = todo \ {l}
  /\ Begin(l)

(* _write_task for one appender.  A console is opened once and written to. *)
(* A file is opened every time, because nothing sets its opened flag, and  *)
(* for the same reason is never written to.  Nothing is done for a rolling *)
(* file.                                                                   *)
WriteTask ==
  /\ loop = "write" /\ next <= Len(RefsOf(logger))
  /\ next' = next + 1
  /\ LET a == RefsOf(logger)[next]
         shown == [appender |-> a, logger |-> logger, task |-> Head(ring[logger])]
     IN  /\ opened' = IF a \in Consoles THEN opened \cup {a} ELSE opened
         /\ output' = IF a \in Consoles THEN Append(output, shown) ELSE output
         /\ opens' = IF a \in Files THEN [opens EXCEPT ![a] = @ + 1] ELSE opens
  /\ UNCHANGED <<callVars, ring, async_pending, loop, todo, logger, accepted,
                 taken, dropped>>

(* The task has been passed to the last appender.  It is consumed, except  *)
(* in the ring of root, where the callback ends.                           *)
Consume ==
  /\ loop = "write" /\ next > Len(RefsOf(logger))
  /\ taken' = [taken EXCEPT ![logger] = Append(@, Head(ring[logger]))]
  /\ ring' = IF logger = Root THEN ring ELSE [ring EXCEPT ![logger] = Tail(@)]
  /\ loop' = IF logger = Root THEN "poll" ELSE "loggers"
  /\ UNCHANGED <<callVars, async_pending, todo, logger, next, outputVars,
                 accepted, dropped>>

AfterLoggers ==
  /\ loop = "loggers" /\ todo = {}
  /\ loop' = "root"
  /\ UNCHANGED <<callVars, ring, async_pending, todo, logger, next, outputVars,
                 accepted, taken, dropped>>

(* Root's turn; without a task the callback ends.                          *)
BeginRoot ==
  /\ loop = "root"
  /\ \/ Begin(Root) /\ UNCHANGED todo
     \/ /\ ring[Root] = <<>> /\ loop' = "poll"
        /\ UNCHANGED <<callVars, ring, async_pending, todo, logger, next,
                       outputVars, accepted, taken, dropped>>

AsyncStep ==
  \/ AsyncStart
  \/ \E l \in Loggers : SkipLogger(l) \/ BeginLogger(l)
  \/ WriteTask
  \/ Consume
  \/ AfterLoggers
  \/ BeginRoot

Next ==
  \/ \E t \in Threads, m \in Tasks, name \in Names : uv_log_write(t, m, name)
  \/ \E t \in Threads : CallStep(t)
  \/ AsyncStep

Spec == Init /\ [][Next]_vars

(* A call that has begun runs on, and the log's thread runs its callback.  *)
FairSpec ==
  /\ Spec
  /\ \A t \in Threads : WF_vars(CallStep(t))
  /\ WF_vars(AsyncStep)

----------------------------------------------------------------------------
(* A logger is a LogChannel, whatever the threads do: what it took is      *)
(* written in order and once, and what is dropped was refused by a full    *)
(* ring.                                                                   *)
Channel(l) == INSTANCE LogChannel
                WITH Data <- Tasks, queue <- ring[l], out <- taken[l],
                     dropped <- dropped[l]
LoggersAreChannels ==
  /\ \A l \in Loggers : Channel(l)!Init
  /\ [][\A l \in Loggers : [Channel(l)!Next]_(Channel(l)!vars)]_vars

(* How often an element is in a sequence.                                  *)
Times(seq, e) == Cardinality({i \in DOMAIN seq : seq[i] = e})

(* How often the lists of references name an appender for the tasks of a   *)
(* logger: its own, and if it is additive that of root too.                *)
Copies(l, a) ==
  Times(appender_ref[l], a) + IF additivity[l] THEN Times(appender_ref[Root], a) ELSE 0

(* Every console shows a task of a logger once for each reference to it,   *)
(* whatever else is written or inserted before or in between, and shows    *)
(* nothing of a task that has not been taken.  This is about the lists     *)
(* only: the levels of loggers and the filters of appenders, which a       *)
(* configuration has too (demo/uvlog.xml), are looked at by nothing in     *)
(* the write path, so that more is shown than they ask for.                *)
ShownOncePerReference ==
  \A l \in Loggers, a \in Consoles, m \in Tasks :
    ~(loop = "write" /\ logger = l) =>
      Times(output, [appender |-> a, logger |-> l, task |-> m])
        = IF m \in Range(taken[l]) THEN Copies(l, a) ELSE 0

(* The task at the head of a ring is written as soon as any writer of any  *)
(* logger wakes the log's thread.                                          *)
HeadIsWritten ==
  \A l \in Loggers, m \in Tasks :
    (async_pending /\ ring[l] # <<>> /\ Head(ring[l]) = m) ~> m \in Range(taken[l])

(* Every accepted task is written in the end.                              *)
AcceptedIsWritten ==
  \A l \in Loggers, m \in Tasks :
    m \in Range(accepted[l]) ~> m \in Range(taken[l])
=============================================================================
