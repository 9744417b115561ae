---------------------------- MODULE LogPipeProofs ----------------------------
(***************************************************************************)
(* Theorems about LogPipe, for any number of threads, tasks and loggers,   *)
(* any size of the rings and any configuration.                            *)
(***************************************************************************)
EXTENDS LogPipe, FiniteSetTheorems, FunctionTheorems, SequenceTheorems, TLAPS

(* Types.  A thread inserts a task it has, into a ring that holds no more  *)
(* than its capacity; the log's thread passes on a task that is there.     *)

Shown == [appender : Consoles, logger : AllLoggers, task : Tasks]

TypeInv ==
  /\ pc \in [Threads -> {"idle", "insert", "send"}]
  /\ task \in [Threads -> Tasks \cup {None}]
  /\ target \in [Threads -> AllLoggers]
  /\ \A t \in Threads : pc[t] = "insert" => task[t] # None
  /\ ring \in [AllLoggers -> Seq(Tasks)]
  /\ \A l \in AllLoggers : Len(ring[l]) <= Capacity
  /\ async_pending \in BOOLEAN
  /\ loop \in {"poll", "loggers", "write", "root"}
  /\ todo \in SUBSET Loggers /\ logger \in AllLoggers /\ next \in Nat \ {0}
  /\ loop = "write" => ring[logger] # <<>>
  /\ opened \in SUBSET Consoles /\ opens \in [Files -> Nat]
  /\ output \in Seq(Shown)
  /\ accepted \in [AllLoggers -> Seq(Tasks)] /\ taken \in [AllLoggers -> Seq(Tasks)]
  /\ dropped \in [AllLoggers -> SUBSET Tasks]

LEMMA InitType == Init => TypeInv
<1> SUFFICES ASSUME Init PROVE TypeInv
  OBVIOUS
<1>1. <<>> \in Seq(Tasks) /\ <<>> \in Seq(Shown) /\ Len(<<>>) = 0 /\ 0 <= Capacity
  BY CapacityAssumption
<1>2. /\ pc \in [Threads -> {"idle", "insert", "send"}] /\ task \in [Threads -> Tasks \cup {None}]
      /\ target \in [Threads -> AllLoggers] /\ \A t \in Threads : pc[t] # "insert"
  BY DEF Init, AllLoggers
<1>3. /\ ring \in [AllLoggers -> Seq(Tasks)] /\ \A l \in AllLoggers : Len(ring[l]) <= Capacity
      /\ accepted \in [AllLoggers -> Seq(Tasks)] /\ taken \in [AllLoggers -> Seq(Tasks)]
      /\ dropped \in [AllLoggers -> SUBSET Tasks]
  BY <1>1 DEF Init
<1>4. /\ async_pending \in BOOLEAN /\ loop = "poll" /\ todo \in SUBSET Loggers
      /\ logger \in AllLoggers
  BY DEF Init, AllLoggers
<1>6. next \in Nat \ {0}
  BY DEF Init
<1>5. opened \in SUBSET Consoles /\ opens \in [Files -> Nat] /\ output \in Seq(Shown)
  BY <1>1 DEF Init
<1> QED BY <1>2, <1>3, <1>4, <1>5, <1>6 DEF TypeInv

LEMMA RefsType ==
  ASSUME NEW l \in AllLoggers
  PROVE  \E S : RefsOf(l) \in Seq(S)
<1> DEFINE S == Range(appender_ref[l]) \cup Range(appender_ref[Root])
<1>1. \A A, B : \A q \in Seq(A) : q \in Seq(A \cup B) /\ q \in Seq(B \cup A)
  OBVIOUS
<1>2. Root \in AllLoggers
  BY DEF AllLoggers
<1>3. appender_ref[l] \in Seq(S) /\ appender_ref[Root] \in Seq(S)
  BY <1>1, <1>2, ConfigAssumption
<1> HIDE DEF S
<1>4. RefsOf(l) \in Seq(S)
  BY <1>3 DEF RefsOf
<1> QED BY <1>4

LEMMA CallType ==
  ASSUME TypeInv, NEW t \in Threads
  PROVE  /\ \A m \in Tasks, name \in Names : uv_log_write(t, m, name) => TypeInv'
         /\ CallStep(t) => TypeInv'
<1>1. ASSUME NEW m \in Tasks, NEW name \in Names, uv_log_write(t, m, name) PROVE TypeInv'
  <2>1. LoggerOf(name) \in AllLoggers /\ m # None
    BY NoneAssumption DEF LoggerOf, AllLoggers
  <2> QED BY <1>1, <2>1 DEF uv_log_write, TypeInv, loopVars, outputVars
<1>2. ASSUME Insert(t) PROVE TypeInv'
  <2> DEFINE l == target[t]
  <2>1. task[t] \in Tasks /\ l \in AllLoggers /\ ring[l] \in Seq(Tasks) /\ accepted[l] \in Seq(Tasks)
    BY <1>2 DEF Insert, TypeInv
  <2>2. CASE Len(ring[l]) = Capacity
    BY <1>2, <2>1, <2>2 DEF Insert, TypeInv, loopVars, outputVars
  <2>3. CASE Len(ring[l]) # Capacity
    <3>1. /\ ring' = [ring EXCEPT ![l] = Append(ring[l], task[t])]
          /\ accepted' = [accepted EXCEPT ![l] = Append(accepted[l], task[t])]
          /\ dropped' = dropped
      BY <1>2, <2>3 DEF Insert
    <3>2. /\ Append(ring[l], task[t]) \in Seq(Tasks) /\ Append(ring[l], task[t]) # <<>>
          /\ Append(accepted[l], task[t]) \in Seq(Tasks)
          /\ Len(Append(ring[l], task[t])) <= Capacity
      <4>1. Len(ring[l]) \in Nat /\ Len(ring[l]) < Capacity
        BY <2>1, <2>3, CapacityAssumption DEF TypeInv
      <4> QED BY <2>1, <4>1, CapacityAssumption
    <3>3. /\ ring' \in [AllLoggers -> Seq(Tasks)] /\ accepted' \in [AllLoggers -> Seq(Tasks)]
          /\ \A q \in AllLoggers : Len(ring'[q]) <= Capacity
          /\ loop = "write" => ring'[logger] # <<>>
      BY <3>1, <3>2 DEF TypeInv
    <3> QED BY <1>2, <3>1, <3>3 DEF Insert, TypeInv, loopVars, outputVars
  <2> QED BY <2>2, <2>3
<1>3. ASSUME Send(t) PROVE TypeInv'
  BY <1>3 DEF Send, TypeInv, loopVars, outputVars
<1> QED BY <1>1, <1>2, <1>3 DEF CallStep

LEMMA AsyncType ==
  ASSUME TypeInv, AsyncStep
  PROVE  TypeInv'
<1>r. Root \in AllLoggers /\ Loggers \subseteq AllLoggers
  BY DEF AllLoggers
<1>1. CASE AsyncStart
  BY <1>1 DEF AsyncStart, TypeInv, callVars, outputVars
<1>2. ASSUME NEW l \in Loggers, SkipLogger(l) PROVE TypeInv'
  BY <1>2 DEF SkipLogger, TypeInv, callVars, outputVars
<1>3. ASSUME NEW l \in AllLoggers, Begin(l), todo' \in SUBSET Loggers PROVE TypeInv'
  BY <1>3 DEF Begin, TypeInv, callVars, outputVars
<1>4. CASE WriteTask
  <2> DEFINE a == RefsOf(logger)[next]
             m == Head(ring[logger])
             e == [appender |-> a, logger |-> logger, task |-> m]
  <2>1. m \in Tasks
    <3>1. ring[logger] \in Seq(Tasks) /\ ring[logger] # <<>>
      BY <1>4 DEF WriteTask, TypeInv
    <3> QED BY <3>1, HeadTailProperties
  <2>2. a \in Consoles => e \in Shown
    BY <2>1 DEF Shown, TypeInv
  <2>3. /\ next' = next + 1 /\ opened' = IF a \in Consoles THEN opened \cup {a} ELSE opened
        /\ output' = IF a \in Consoles THEN Append(output, e) ELSE output
        /\ opens' = IF a \in Files THEN [opens EXCEPT ![a] = opens[a] + 1] ELSE opens
        /\ UNCHANGED <<callVars, ring, async_pending, loop, todo, logger, accepted, taken, dropped>>
    BY <1>4 DEF WriteTask
  <2> HIDE DEF a, m, e
  <2>4. output' \in Seq(Shown)
    BY <2>2, <2>3, AppendProperties DEF TypeInv
  <2>5. opens' \in [Files -> Nat]
    BY <2>3 DEF TypeInv
  <2>6. opened' \in SUBSET Consoles /\ next' \in Nat \ {0}
    BY <2>3 DEF TypeInv
  <2> QED BY <2>3, <2>4, <2>5, <2>6 DEF TypeInv, callVars
<1>5. CASE Consume
  <2>1. ring[logger] \in Seq(Tasks) /\ ring[logger] # <<>> /\ logger \in AllLoggers
        /\ taken[logger] \in Seq(Tasks) /\ Len(ring[logger]) <= Capacity
    BY <1>5 DEF Consume, TypeInv
  <2>2. /\ Head(ring[logger]) \in Tasks /\ Tail(ring[logger]) \in Seq(Tasks)
        /\ Len(Tail(ring[logger])) <= Capacity
        /\ Append(taken[logger], Head(ring[logger])) \in Seq(Tasks)
    <3>1. Len(ring[logger]) \in Nat /\ Len(Tail(ring[logger])) = Len(ring[logger]) - 1
      BY <2>1
    <3>2. Head(ring[logger]) \in Tasks /\ Tail(ring[logger]) \in Seq(Tasks)
      BY <2>1, HeadTailProperties
    <3> QED BY <2>1, <3>1, <3>2, CapacityAssumption
  <2>3. /\ ring' \in [AllLoggers -> Seq(Tasks)] /\ taken' \in [AllLoggers -> Seq(Tasks)]
        /\ \A l \in AllLoggers : Len(ring'[l]) <= Capacity
    BY <1>5, <2>1, <2>2 DEF Consume, TypeInv
  <2> QED BY <1>5, <2>3 DEF Consume, TypeInv, callVars, outputVars
<1>6. CASE AfterLoggers
  BY <1>6 DEF AfterLoggers, TypeInv, callVars, outputVars
<1>7. CASE BeginRoot /\ ring[Root] = <<>>
  BY <1>7 DEF BeginRoot, Begin, TypeInv, callVars, outputVars
<1>8. CASE BeginRoot /\ ring[Root] # <<>>
  BY <1>3, <1>8, <1>r DEF BeginRoot, TypeInv
<1>9. ASSUME NEW l \in Loggers, BeginLogger(l) PROVE TypeInv'
  BY <1>3, <1>9, <1>r DEF BeginLogger, TypeInv
<1> QED BY <1>1, <1>2, <1>4, <1>5, <1>6, <1>7, <1>8, <1>9 DEF AsyncStep

LEMMA NextType == TypeInv /\ [Next]_vars => TypeInv'
<1>1. UNCHANGED vars /\ TypeInv => TypeInv'
  BY DEF vars, callVars, loopVars, outputVars, TypeInv
<1> QED BY <1>1, CallType, AsyncType DEF Next

(* Every variable keeps its type, no ring holds more than its capacity,    *)
(* and the log's thread passes on only a task that is in the ring.         *)
THEOREM TypeCorrect == Spec => []TypeInv
BY InitType, NextType, PTL DEF Spec

----------------------------------------------------------------------------
(* A logger is a bounded queue.                                            *)

LEMMA InitChannel ==
  ASSUME Init, NEW l \in Loggers
  PROVE  Channel(l)!Init
BY DEF Init, AllLoggers, Channel!Init

LEMMA StepChannel ==
  ASSUME TypeInv, [Next]_vars, NEW l \in Loggers
  PROVE  [Channel(l)!Next]_(Channel(l)!vars)
<1>l. l \in AllLoggers /\ l # Root
  BY LoggerAssumption DEF AllLoggers
<1>0. ASSUME ring'[l] = ring[l], taken'[l] = taken[l], dropped'[l] = dropped[l]
      PROVE  [Channel(l)!Next]_(Channel(l)!vars)
  BY <1>0 DEF Channel!vars
<1>1. ASSUME NEW t \in Threads, Insert(t) PROVE [Channel(l)!Next]_(Channel(l)!vars)
  <2>1. CASE target[t] # l
    <3>1. ring'[l] = ring[l] /\ taken'[l] = taken[l] /\ dropped'[l] = dropped[l]
      BY <1>1, <2>1 DEF Insert, TypeInv
    <3> QED BY <1>0, <3>1
  <2>2. CASE target[t] = l /\ Len(ring[l]) = Capacity
    <3>1. ring'[l] = ring[l] /\ taken'[l] = taken[l] /\ dropped'[l] = dropped[l] \cup {task[t]}
      BY <1>1, <1>l, <2>2 DEF Insert, TypeInv
    <3>2. task[t] \in Tasks
      BY <1>1 DEF Insert, TypeInv
    <3> QED BY <2>2, <3>1, <3>2 DEF Channel!Next, Channel!Refuse
  <2>3. CASE target[t] = l /\ Len(ring[l]) # Capacity
    <3>1. ring'[l] = Append(ring[l], task[t]) /\ taken'[l] = taken[l] /\ dropped'[l] = dropped[l]
      BY <1>1, <1>l, <2>3 DEF Insert, TypeInv
    <3>2. task[t] \in Tasks
      BY <1>1 DEF Insert, TypeInv
    <3>3. Len(ring[l]) < Capacity
      <4>1. ring[l] \in Seq(Tasks) /\ Len(ring[l]) <= Capacity
        BY <1>l DEF TypeInv
      <4> QED BY <2>3, <4>1, CapacityAssumption
    <3> QED BY <3>1, <3>2, <3>3 DEF Channel!Next, Channel!Accept
  <2> QED BY <2>1, <2>2, <2>3
<1>2. CASE Consume
  <2>1. CASE logger # l
    <3>1. ring'[l] = ring[l] /\ taken'[l] = taken[l] /\ dropped'[l] = dropped[l]
      BY <1>2, <1>l, <2>1 DEF Consume, TypeInv
    <3> QED BY <1>0, <3>1
  <2>2. CASE logger = l
    <3>1. /\ ring[l] # <<>> /\ ring'[l] = Tail(ring[l]) /\ dropped'[l] = dropped[l]
          /\ taken'[l] = Append(taken[l], Head(ring[l]))
      BY <1>2, <1>l, <2>2 DEF Consume, TypeInv
    <3> QED BY <3>1 DEF Channel!Next, Channel!Take
  <2> QED BY <2>1, <2>2
<1>3. ASSUME UNCHANGED <<ring, taken, dropped>> PROVE [Channel(l)!Next]_(Channel(l)!vars)
  BY <1>0, <1>3
<1> QED BY <1>1, <1>2, <1>3
        DEF Next, vars, uv_log_write, CallStep, Send, AsyncStep, AsyncStart, SkipLogger,
            Begin, BeginLogger, WriteTask, AfterLoggers, BeginRoot

(* Every logger implements the bounded queue of LogChannel, whatever the   *)
(* threads do: uvLog.c writes the tasks that the ring of a logger takes,   *)
(* one at a time, each once and in their order.                            *)
THEOREM EveryLoggerIsAChannel == Spec => LoggersAreChannels
<1>1. Init => \A l \in Loggers : Channel(l)!Init
  BY InitChannel
<1>2. TypeInv /\ [Next]_vars => \A l \in Loggers : [Channel(l)!Next]_(Channel(l)!vars)
  BY StepChannel
<1> QED BY <1>1, <1>2, InitType, NextType, PTL DEF Spec, LoggersAreChannels

----------------------------------------------------------------------------
(* Every task of a logger is written in the order in which its ring took   *)
(* it, or is still in the ring; and the ring takes it once.                *)
Distinct(s) == \A i, j \in DOMAIN s : s[i] = s[j] => i = j

OrderInv ==
  /\ \A l \in Loggers : accepted[l] = taken[l] \o ring[l]
  /\ \A l \in AllLoggers : Distinct(accepted[l])
  /\ \A t \in Threads : pc[t] = "insert" =>
       \A l \in AllLoggers : task[t] \notin Range(accepted[l]) \cup dropped[l]
  /\ \A t, u \in Threads : task[t] # None /\ task[t] = task[u] => t = u

LEMMA RangeOfAppend ==
  ASSUME NEW S, NEW s \in Seq(S), NEW e \in S
  PROVE  Range(Append(s, e)) = Range(s) \cup {e}
<1>1. DOMAIN Append(s, e) = 1 .. Len(s) + 1 /\ DOMAIN s = 1 .. Len(s) /\ Len(s) \in Nat
  OBVIOUS
<1>2. \A i \in 1 .. Len(s) + 1 : Append(s, e)[i] = IF i = Len(s) + 1 THEN e ELSE s[i]
  OBVIOUS
<1>3. ASSUME NEW i \in DOMAIN Append(s, e) PROVE Append(s, e)[i] \in Range(s) \cup {e}
  BY <1>1, <1>2 DEF Range
<1>4. ASSUME NEW i \in DOMAIN s PROVE s[i] \in Range(Append(s, e))
  <2>1. i \in DOMAIN Append(s, e) /\ Append(s, e)[i] = s[i]
    BY <1>1, <1>2
  <2> QED BY <2>1 DEF Range
<1>5. e \in Range(Append(s, e))
  <2>1. Len(s) + 1 \in DOMAIN Append(s, e) /\ Append(s, e)[Len(s) + 1] = e
    BY <1>1, <1>2
  <2> QED BY <2>1 DEF Range
<1> QED BY <1>3, <1>4, <1>5 DEF Range

LEMMA ConcatTake ==
  ASSUME NEW S, NEW s \in Seq(S), NEW q \in Seq(S), q # <<>>
  PROVE  Append(s, Head(q)) \o Tail(q) = s \o q
OBVIOUS

LEMMA AppendDistinct ==
  ASSUME NEW S, NEW s \in Seq(S), NEW e \in S, Distinct(s), e \notin Range(s)
  PROVE  Distinct(Append(s, e))
<1> DEFINE n == Len(s)
           A == Append(s, e)
<1>1. /\ DOMAIN A = 1 .. n + 1 /\ DOMAIN s = 1 .. n /\ n \in Nat
      /\ \A i \in 1 .. n : A[i] = s[i]
      /\ A[n + 1] = e
  OBVIOUS
<1>2. \A i \in 1 .. n : s[i] # e
  BY <1>1 DEF Range
<1> HIDE DEF n, A
<1>3. ASSUME NEW i \in DOMAIN A, NEW j \in DOMAIN A, A[i] = A[j] PROVE i = j
  <2>1. i \in 1 .. n \/ i = n + 1
    BY <1>1
  <2>2. j \in 1 .. n \/ j = n + 1
    BY <1>1
  <2> QED BY <1>1, <1>2, <1>3, <2>1, <2>2 DEF Distinct
<1> QED BY <1>3 DEF Distinct, A

(* What follows the first element of a sequence without repetition.        *)
LEMMA DistinctHead ==
  ASSUME NEW S, NEW s \in Seq(S), NEW q \in Seq(S), q # <<>>, Distinct(s \o q)
  PROVE  Head(q) \notin Range(s)
<1> DEFINE n == Len(s)
           c == s \o q
<1>1. n \in Nat /\ Len(q) \in Nat \ {0} /\ DOMAIN s = 1 .. n /\ Head(q) = q[1]
  OBVIOUS
<1>2. DOMAIN c = 1 .. n + Len(q)
  BY <1>1, ConcatProperties
<1>3. \A i \in 1 .. n + Len(q) : c[i] = IF i <= n THEN s[i] ELSE q[i - n]
  BY ConcatProperties
<1> HIDE DEF c, n
<1>4. n + 1 \in 1 .. n + Len(q) /\ ~(n + 1 <= n) /\ (n + 1) - n = 1
  BY <1>1
<1>5. c[n + 1] = q[1]
  BY <1>3, <1>4
<1>6. ASSUME NEW i \in 1 .. n, s[i] = q[1] PROVE FALSE
  <2>1. i \in DOMAIN c /\ n + 1 \in DOMAIN c /\ i # n + 1 /\ i <= n /\ i \in 1 .. n + Len(q)
    BY <1>1, <1>2, <1>4
  <2>2. c[i] = c[n + 1]
    BY <1>3, <1>5, <1>6, <2>1
  <2> QED BY <2>1, <2>2 DEF Distinct, c
<1> QED BY <1>1, <1>6 DEF Range

LEMMA InitOrder == Init => OrderInv
<1> SUFFICES ASSUME Init PROVE OrderInv
  OBVIOUS
<1>1. \A l \in AllLoggers : accepted[l] = <<>> /\ taken[l] = <<>> /\ ring[l] = <<>>
  BY DEF Init
<1>2. <<>> \o <<>> = <<>> /\ Distinct(<<>>)
  BY DEF Distinct
<1>3. Loggers \subseteq AllLoggers
  BY DEF AllLoggers
<1> QED BY <1>1, <1>2, <1>3 DEF Init, OrderInv

LEMMA OrderInsert ==
  ASSUME TypeInv, OrderInv, NEW t \in Threads, Insert(t)
  PROVE  OrderInv'
<1> DEFINE k == target[t]
<1>t. /\ k \in AllLoggers /\ task[t] \in Tasks /\ pc[t] = "insert" /\ pc'[t] = "send"
      /\ ring[k] \in Seq(Tasks) /\ accepted[k] \in Seq(Tasks)
      /\ \A l \in AllLoggers : taken[l] \in Seq(Tasks) /\ ring[l] \in Seq(Tasks)
  BY DEF Insert, TypeInv
<1>u. /\ UNCHANGED <<task, taken>> /\ \A u \in Threads \ {t} : pc'[u] = pc[u]
  BY DEF Insert, TypeInv
<1>d. /\ \A u \in Threads \ {t} : pc[u] = "insert" => task[u] # task[t]
      /\ task[t] \notin Range(accepted[k])
  BY <1>t, NoneAssumption DEF OrderInv
<1>l. Loggers \subseteq AllLoggers
  BY DEF AllLoggers
<1> HIDE DEF k
<1>1. CASE Len(ring[k]) = Capacity
  <2>1. /\ UNCHANGED <<ring, accepted>>
        /\ dropped' = [dropped EXCEPT ![k] = dropped[k] \cup {task[t]}]
    BY <1>1 DEF Insert, k
  <2>2. \A l \in AllLoggers : dropped'[l] \subseteq dropped[l] \cup {task[t]}
    BY <1>t, <2>1 DEF TypeInv
  <2> QED BY <1>t, <1>u, <1>d, <2>1, <2>2 DEF OrderInv
<1>2. CASE Len(ring[k]) # Capacity
  <2>1. /\ ring' = [ring EXCEPT ![k] = Append(ring[k], task[t])]
        /\ accepted' = [accepted EXCEPT ![k] = Append(accepted[k], task[t])]
        /\ dropped' = dropped
    BY <1>2 DEF Insert, k
  <2>2. /\ ring'[k] = Append(ring[k], task[t]) /\ accepted'[k] = Append(accepted[k], task[t])
        /\ \A l \in AllLoggers \ {k} : ring'[l] = ring[l] /\ accepted'[l] = accepted[l]
    BY <1>t, <2>1 DEF TypeInv
  <2>3. ASSUME NEW l \in Loggers PROVE accepted'[l] = taken'[l] \o ring'[l]
    <3>1. accepted[l] = taken[l] \o ring[l]
      BY DEF OrderInv
    <3>2. CASE l = k
      <4>1. Append(taken[l] \o ring[l], task[t]) = taken[l] \o Append(ring[l], task[t])
        <5>1. taken[l] \in Seq(Tasks) /\ ring[l] \in Seq(Tasks) /\ task[t] \in Tasks
          BY <1>t, <3>2
        <5>2. \A s, q \in Seq(Tasks), e \in Tasks : Append(s \o q, e) = s \o Append(q, e)
          OBVIOUS
        <5> QED BY <5>1, <5>2, Zenon
      <4> QED BY <1>u, <2>2, <3>1, <3>2, <4>1
    <3>3. CASE l # k
      BY <1>u, <1>l, <2>2, <3>1, <3>3
    <3> QED BY <3>2, <3>3
  <2>4. \A l \in AllLoggers : Distinct(accepted'[l])
    <3>1. Distinct(Append(accepted[k], task[t]))
      <4>1. Distinct(accepted[k])
        BY <1>t DEF OrderInv
      <4> QED BY <1>t, <1>d, <4>1, AppendDistinct
    <3> QED BY <2>2, <3>1 DEF OrderInv
  <2>5. \A l \in AllLoggers : Range(accepted'[l]) \subseteq Range(accepted[l]) \cup {task[t]}
    <3>1. Range(Append(accepted[k], task[t])) = Range(accepted[k]) \cup {task[t]}
      BY <1>t, RangeOfAppend
    <3> QED BY <2>2, <3>1
  <2> QED BY <1>t, <1>u, <1>d, <2>1, <2>3, <2>4, <2>5 DEF OrderInv
<1> QED BY <1>1, <1>2

LEMMA NextOrder == TypeInv /\ OrderInv /\ [Next]_vars => OrderInv'
<1> SUFFICES ASSUME TypeInv, OrderInv, [Next]_vars PROVE OrderInv'
  OBVIOUS
<1>1. ASSUME NEW t \in Threads, NEW m \in Tasks, NEW name \in Names, uv_log_write(t, m, name)
      PROVE  OrderInv'
  <2>1. /\ task' = [task EXCEPT ![t] = m] /\ pc' = [pc EXCEPT ![t] = "insert"]
        /\ UNCHANGED <<ring, accepted, taken, dropped>> /\ Fresh(m)
    BY <1>1 DEF uv_log_write
  <2>2. /\ task'[t] = m /\ \A u \in Threads \ {t} : task'[u] = task[u] /\ pc'[u] = pc[u]
        /\ \A u \in Threads : task[u] # m
    BY <2>1 DEF TypeInv, Fresh
  <2> QED BY <2>1, <2>2 DEF OrderInv, Fresh
<1>2. ASSUME NEW t \in Threads, Send(t) PROVE OrderInv'
  <2>1. /\ UNCHANGED <<task, ring, accepted, taken, dropped>>
        /\ \A u \in Threads : pc'[u] = "insert" => pc[u] = "insert"
    BY <1>2 DEF Send, TypeInv
  <2> QED BY <2>1 DEF OrderInv
<1>3. CASE Consume
  <2>1. /\ UNCHANGED <<pc, task, accepted, dropped>>
        /\ logger \in AllLoggers /\ ring[logger] # <<>>
        /\ ring[logger] \in Seq(Tasks) /\ taken[logger] \in Seq(Tasks)
    BY <1>3 DEF Consume, TypeInv, callVars
  <2>2. ASSUME NEW l \in Loggers PROVE accepted'[l] = taken'[l] \o ring'[l]
    <3>1. accepted[l] = taken[l] \o ring[l]
      BY DEF OrderInv
    <3>l. l # Root /\ l \in AllLoggers
      BY LoggerAssumption DEF AllLoggers
    <3>2. CASE l = logger
      <4>1. /\ taken'[l] = Append(taken[l], Head(ring[l])) /\ ring'[l] = Tail(ring[l])
        BY <1>3, <3>l, <3>2 DEF Consume, TypeInv
      <4>2. Append(taken[l], Head(ring[l])) \o Tail(ring[l]) = taken[l] \o ring[l]
        BY <2>1, <3>2, ConcatTake
      <4> QED BY <2>1, <3>1, <4>1, <4>2
    <3>3. CASE l # logger
      <4>1. taken'[l] = taken[l] /\ ring'[l] = ring[l]
        BY <1>3, <3>l, <3>3 DEF Consume, TypeInv
      <4> QED BY <2>1, <3>1, <4>1
    <3> QED BY <3>2, <3>3
  <2> QED BY <2>1, <2>2 DEF OrderInv
<1>4. ASSUME UNCHANGED <<pc, task, ring, accepted, taken, dropped>> PROVE OrderInv'
  BY <1>4 DEF OrderInv
<1> QED BY <1>1, <1>2, <1>3, <1>4, OrderInsert
        DEF Next, vars, callVars, CallStep, AsyncStep, AsyncStart, SkipLogger, Begin,
            BeginLogger, WriteTask, AfterLoggers, BeginRoot

(* What the ring of a logger takes, it takes once, and it is written in    *)
(* that order or still waits: no task is lost, repeated or overtaken after *)
(* simple_ring_insert.                                                     *)
THEOREM TasksKeepTheirOrder == Spec => []OrderInv
BY InitType, NextType, InitOrder, NextOrder, PTL DEF Spec

----------------------------------------------------------------------------
(* How often something is in a sequence that grows, or in two of them.     *)

LEMMA TimesType ==
  ASSUME NEW S, NEW s \in Seq(S), NEW e
  PROVE  /\ IsFiniteSet({i \in DOMAIN s : s[i] = e}) /\ Times(s, e) \in Nat
<1>1. DOMAIN s = 1 .. Len(s) /\ Len(s) \in Nat
  OBVIOUS
<1>2. IsFiniteSet(DOMAIN s)
  BY <1>1, FS_Interval
<1>3. IsFiniteSet({i \in DOMAIN s : s[i] = e})
  BY <1>2, FS_Subset
<1> QED BY <1>3, FS_CardinalityType DEF Times

LEMMA TimesAppend ==
  ASSUME NEW S, NEW s \in Seq(S), NEW x \in S, NEW e
  PROVE  Times(Append(s, x), e) = Times(s, e) + IF x = e THEN 1 ELSE 0
<1> DEFINE n == Len(s)
           A == Append(s, x)
           D == {i \in DOMAIN s : s[i] = e}
<1>1. /\ DOMAIN A = 1 .. n + 1 /\ DOMAIN s = 1 .. n /\ n \in Nat
      /\ \A i \in 1 .. n : A[i] = s[i]
      /\ A[n + 1] = x
  OBVIOUS
<1>2. IsFiniteSet(D) /\ Cardinality(D) \in Nat
  BY TimesType DEF Times
<1>3. 1 .. n + 1 = (1 .. n) \cup {n + 1} /\ n + 1 \notin 1 .. n
  BY <1>1
<1> HIDE DEF n, A
<1>4. {i \in DOMAIN A : A[i] = e} = IF x = e THEN D \cup {n + 1} ELSE D
  BY <1>1, <1>3
<1>5. n + 1 \notin D
  BY <1>1, <1>3
<1> HIDE DEF D
<1>6. Cardinality(D \cup {n + 1}) = Cardinality(D) + 1
  BY <1>2, <1>5, FS_AddElement
<1>7. Times(A, e) = Cardinality(D) + IF x = e THEN 1 ELSE 0
  <2>1. Times(A, e) = Cardinality(IF x = e THEN D \cup {n + 1} ELSE D)
    BY <1>4 DEF Times
  <2>2. CASE x = e
    BY <1>6, <2>1, <2>2
  <2>3. CASE x # e
    BY <1>2, <2>1, <2>3
  <2> QED BY <2>2, <2>3
<1> QED BY <1>7 DEF Times, A, D

LEMMA TimesConcat ==
  ASSUME NEW S, NEW s \in Seq(S), NEW q \in Seq(S), NEW e
  PROVE  Times(s \o q, e) = Times(s, e) + Times(q, e)
<1> DEFINE n == Len(s)
           k == Len(q)
           c == s \o q
           A == {i \in DOMAIN s : s[i] = e}
           B == {i \in DOMAIN q : q[i] = e}
           C == {i \in n + 1 .. n + k : c[i] = e}
<1>1. n \in Nat /\ k \in Nat /\ DOMAIN s = 1 .. n /\ DOMAIN q = 1 .. k
  OBVIOUS
<1>2. /\ DOMAIN c = 1 .. n + k
      /\ \A i \in 1 .. n + k : c[i] = IF i <= n THEN s[i] ELSE q[i - n]
  BY <1>1, ConcatProperties
<1>3. /\ IsFiniteSet(A) /\ Cardinality(A) \in Nat
      /\ IsFiniteSet(B) /\ Cardinality(B) \in Nat
  BY TimesType DEF Times
<1> HIDE DEF n, k, c
<1>4. {i \in DOMAIN c : c[i] = e} = A \cup C
  <2>1. 1 .. n + k = (1 .. n) \cup (n + 1 .. n + k)
    BY <1>1
  <2>2. \A i \in 1 .. n : c[i] = s[i]
    BY <1>1, <1>2
  <2> QED BY <1>1, <1>2, <2>1, <2>2
<1>5. A \cap C = {}
  BY <1>1
<1>6. ExistsBijection(B, C)
  <2> DEFINE f == [j \in B |-> n + j]
  <2>1. \A j \in B : n + j \in C
    BY <1>1, <1>2
  <2>2. \A j, m \in B : n + j = n + m => j = m
    BY <1>1
  <2>3. \A i \in C : i - n \in B /\ n + (i - n) = i
    BY <1>1, <1>2
  <2> HIDE DEF B, C
  <2>4. f \in Bijection(B, C)
    BY <2>1, <2>2, <2>3, Fun_IsBij
  <2> QED BY <2>4, Fun_ExistsBij
<1> HIDE DEF A, B, C
<1>7. IsFiniteSet(C) /\ Cardinality(C) = Cardinality(B)
  BY <1>3, <1>6, FS_Bijection
<1>8. Cardinality(A \cup C) = Cardinality(A) + Cardinality(C)
  <2>1. Cardinality(A \cup C) = Cardinality(A) + Cardinality(C) - Cardinality(A \cap C)
    BY <1>3, <1>7, FS_Union
  <2>2. Cardinality(A \cap C) = 0
    BY <1>5, FS_EmptySet
  <2> QED BY <1>3, <1>7, <2>1, <2>2
<1>9. Times(c, e) = Cardinality(A) + Cardinality(B)
  BY <1>4, <1>7, <1>8 DEF Times
<1> QED BY <1>9 DEF Times, A, B, c

----------------------------------------------------------------------------
(* What the consoles show: all that a configuration says of a task that is *)
(* taken, and of the task in hand what its first appenders add to it.      *)
SoFar(l, a, n) == Cardinality({i \in 1 .. n - 1 : RefsOf(l)[i] = a})

Entry(a, l, m) == [appender |-> a, logger |-> l, task |-> m]

InHand(l, m) == loop = "write" /\ logger = l /\ Head(ring[l]) = m

ShownInv ==
  /\ loop = "write" => next <= Len(RefsOf(logger)) + 1
  /\ \A l \in Loggers, a \in Consoles, m \in Tasks :
       Times(output, Entry(a, l, m)) =
         IF InHand(l, m) THEN SoFar(l, a, next)
         ELSE IF m \in Range(taken[l]) THEN Copies(l, a) ELSE 0

LEMMA SoFarStep ==
  ASSUME NEW l, NEW a, NEW n \in Nat \ {0}
  PROVE  /\ SoFar(l, a, 1) = 0
         /\ SoFar(l, a, n + 1) = SoFar(l, a, n) + IF RefsOf(l)[n] = a THEN 1 ELSE 0
<1> DEFINE D == {i \in 1 .. n - 1 : RefsOf(l)[i] = a}
           E == {i \in 1 .. (n + 1) - 1 : RefsOf(l)[i] = a}
<1>1. {i \in 1 .. 1 - 1 : RefsOf(l)[i] = a} = {}
  OBVIOUS
<1>2. 1 .. (n + 1) - 1 = (1 .. n - 1) \cup {n} /\ n \notin 1 .. n - 1
  OBVIOUS
<1>3. E = (IF RefsOf(l)[n] = a THEN D \cup {n} ELSE D) /\ n \notin D
  BY <1>2
<1>4. IsFiniteSet(D) /\ Cardinality(D) \in Nat
  <2>1. IsFiniteSet(1 .. n - 1)
    BY FS_Interval
  <2>2. IsFiniteSet(D)
    BY <2>1, FS_Subset
  <2> QED BY <2>2, FS_CardinalityType
<1> HIDE DEF D, E
<1>5. Cardinality(D \cup {n}) = Cardinality(D) + 1
  BY <1>3, <1>4, FS_AddElement
<1>6. Cardinality(E) = Cardinality(D) + IF RefsOf(l)[n] = a THEN 1 ELSE 0
  <2>1. CASE RefsOf(l)[n] = a
    BY <1>3, <1>5, <2>1
  <2>2. CASE RefsOf(l)[n] # a
    BY <1>3, <1>4, <2>2
  <2> QED BY <2>1, <2>2
<1> QED BY <1>1, <1>6, FS_EmptySet DEF SoFar, D, E

(* After the last appender a task has gone to each as often as the         *)
(* configuration says.                                                     *)
LEMMA SoFarAll ==
  ASSUME NEW l \in Loggers, NEW a
  PROVE  SoFar(l, a, Len(RefsOf(l)) + 1) = Copies(l, a)
<1> DEFINE S == Range(appender_ref[l]) \cup Range(appender_ref[Root])
           own == appender_ref[l]
           rest == IF additivity[l] THEN appender_ref[Root] ELSE <<>>
<1>1. \A A, B : \A q \in Seq(A) : q \in Seq(A \cup B) /\ q \in Seq(B \cup A)
  OBVIOUS
<1>2. l \in AllLoggers /\ Root \in AllLoggers
  BY DEF AllLoggers
<1>3. appender_ref[l] \in Seq(S) /\ appender_ref[Root] \in Seq(S) /\ <<>> \in Seq(S)
  BY <1>1, <1>2, ConfigAssumption
<1>4. own \in Seq(S) /\ rest \in Seq(S)
  BY <1>3
<1>5. RefsOf(l) = own \o rest
  BY DEF RefsOf
<1>6. Times(<<>>, a) = 0
  BY FS_EmptySet DEF Times
<1>7. Times(own, a) + Times(rest, a) = Copies(l, a)
  BY <1>6 DEF Copies
<1> HIDE DEF S, own, rest
<1>8. RefsOf(l) \in Seq(S) /\ Times(RefsOf(l), a) = Copies(l, a)
  BY <1>4, <1>5, <1>7, TimesConcat
<1>9. SoFar(l, a, Len(RefsOf(l)) + 1) = Times(RefsOf(l), a)
  <2>1. DOMAIN RefsOf(l) = 1 .. (Len(RefsOf(l)) + 1) - 1
    BY <1>8
  <2> QED BY <2>1 DEF SoFar, Times
<1> QED BY <1>8, <1>9

LEMMA InitShown == Init => ShownInv
<1> SUFFICES ASSUME Init PROVE ShownInv
  OBVIOUS
<1>1. Loggers \subseteq AllLoggers
  BY DEF AllLoggers
<1>2. \A l \in Loggers : Range(taken[l]) = {}
  BY <1>1 DEF Init, Range
<1>3. \A e : Times(output, e) = 0
  BY FS_EmptySet DEF Init, Times
<1>4. loop = "poll"
  BY DEF Init
<1> QED BY <1>2, <1>3, <1>4 DEF ShownInv, InHand

LEMMA ShownBegin ==
  ASSUME TypeInv, OrderInv, ShownInv, loop # "write", NEW k \in AllLoggers, Begin(k)
  PROVE  ShownInv'
<1>1. /\ ring[k] # <<>> /\ ring[k] \in Seq(Tasks) /\ taken[k] \in Seq(Tasks)
      /\ logger' = k /\ next' = 1 /\ loop' = "write"
      /\ UNCHANGED <<ring, output, taken>>
  BY DEF Begin, TypeInv, outputVars
<1>2. next' <= Len(RefsOf(logger')) + 1
  <2>1. Len(RefsOf(k)) \in Nat
    BY RefsType
  <2> QED BY <1>1, <2>1
<1>3. ASSUME NEW l \in Loggers, NEW a \in Consoles, NEW m \in Tasks
      PROVE  Times(output, Entry(a, l, m)) =
               IF l = k /\ Head(ring[l]) = m THEN SoFar(l, a, 1)
               ELSE IF m \in Range(taken[l]) THEN Copies(l, a) ELSE 0
  <2>1. Times(output, Entry(a, l, m)) = IF m \in Range(taken[l]) THEN Copies(l, a) ELSE 0
    BY DEF ShownInv, InHand
  <2>2. CASE l = k /\ Head(ring[l]) = m
    <3>1. Distinct(taken[l] \o ring[l])
      BY <2>2 DEF OrderInv
    <3>2. m \notin Range(taken[l])
      BY <1>1, <2>2, <3>1, DistinctHead
    <3>3. SoFar(l, a, 1) = 0
      BY SoFarStep
    <3> QED BY <2>1, <2>2, <3>2, <3>3
  <2> QED BY <2>1, <2>2
<1> QED BY <1>1, <1>2, <1>3 DEF ShownInv, InHand

LEMMA ShownWrite ==
  ASSUME TypeInv, ShownInv, WriteTask
  PROVE  ShownInv'
<1> DEFINE a0 == RefsOf(logger)[next]
           m0 == Head(ring[logger])
<1>1. /\ loop = "write" /\ loop' = "write" /\ next <= Len(RefsOf(logger)) /\ next' = next + 1
      /\ output' = IF a0 \in Consoles THEN Append(output, Entry(a0, logger, m0)) ELSE output
      /\ UNCHANGED <<logger, ring, taken>>
  BY DEF WriteTask, Entry
<1>2. /\ output \in Seq(Shown) /\ next \in Nat \ {0} /\ Len(RefsOf(logger)) \in Nat
      /\ ring[logger] \in Seq(Tasks) /\ ring[logger] # <<>> /\ logger \in AllLoggers
  BY <1>1, RefsType DEF TypeInv
<1>3. m0 \in Tasks
  BY <1>2, HeadTailProperties
<1> HIDE DEF a0, m0
<1>4. next' <= Len(RefsOf(logger')) + 1
  BY <1>1, <1>2
<1>5. ASSUME NEW l \in Loggers, NEW a \in Consoles, NEW m \in Tasks
      PROVE  Times(output', Entry(a, l, m)) =
               IF InHand(l, m) THEN SoFar(l, a, next + 1)
               ELSE IF m \in Range(taken[l]) THEN Copies(l, a) ELSE 0
  <2>1. Times(output, Entry(a, l, m)) =
          IF InHand(l, m) THEN SoFar(l, a, next)
          ELSE IF m \in Range(taken[l]) THEN Copies(l, a) ELSE 0
    BY DEF ShownInv
  <2>2. InHand(l, m) <=> l = logger /\ m = m0
    BY <1>1 DEF InHand, m0
  <2>3. Entry(a0, logger, m0) = Entry(a, l, m) <=> a0 = a /\ InHand(l, m)
    BY <2>2 DEF Entry
  <2>4. Times(output', Entry(a, l, m)) =
          Times(output, Entry(a, l, m)) + IF a0 = a /\ InHand(l, m) THEN 1 ELSE 0
    <3>0. Times(output, Entry(a, l, m)) \in Nat
      BY <1>2, TimesType
    <3>1. CASE a0 \in Consoles
      <4>1. Entry(a0, logger, m0) \in Shown
        BY <1>2, <1>3, <3>1 DEF Entry, Shown
      <4>2. Times(Append(output, Entry(a0, logger, m0)), Entry(a, l, m)) =
              Times(output, Entry(a, l, m)) + IF Entry(a0, logger, m0) = Entry(a, l, m) THEN 1 ELSE 0
        BY <1>2, <4>1, TimesAppend
      <4> QED BY <1>1, <2>3, <3>1, <4>2
    <3>2. CASE a0 \notin Consoles
      <4>1. output' = output /\ a0 # a
        BY <1>1, <3>2
      <4> QED BY <3>0, <4>1
    <3> QED BY <3>1, <3>2
  <2>5. CASE InHand(l, m)
    <3>1. SoFar(l, a, next + 1) = SoFar(l, a, next) + IF RefsOf(l)[next] = a THEN 1 ELSE 0
      BY <1>2, SoFarStep
    <3>2. RefsOf(l)[next] = a0
      BY <2>2, <2>5 DEF a0
    <3> QED BY <2>1, <2>4, <2>5, <3>1, <3>2
  <2>6. CASE ~InHand(l, m)
    <3>1. Times(output, Entry(a, l, m)) \in Nat
      BY <1>2, TimesType
    <3> QED BY <2>1, <2>4, <2>6, <3>1
  <2> QED BY <2>5, <2>6
<1> QED BY <1>1, <1>4, <1>5 DEF ShownInv, InHand

LEMMA ShownConsume ==
  ASSUME TypeInv, ShownInv, Consume
  PROVE  ShownInv'
<1>1. /\ loop = "write" /\ loop' # "write" /\ next > Len(RefsOf(logger)) /\ output' = output
      /\ taken' = [taken EXCEPT ![logger] = Append(taken[logger], Head(ring[logger]))]
  BY DEF Consume, outputVars
<1>2. /\ next \in Nat /\ Len(RefsOf(logger)) \in Nat /\ logger \in AllLoggers
      /\ ring[logger] \in Seq(Tasks) /\ ring[logger] # <<>> /\ taken[logger] \in Seq(Tasks)
  BY <1>1, RefsType DEF TypeInv
<1>3. next = Len(RefsOf(logger)) + 1
  BY <1>1, <1>2 DEF ShownInv
<1>4. ASSUME NEW l \in Loggers, NEW a \in Consoles, NEW m \in Tasks
      PROVE  Times(output, Entry(a, l, m)) = IF m \in Range(taken'[l]) THEN Copies(l, a) ELSE 0
  <2>1. Times(output, Entry(a, l, m)) =
          IF InHand(l, m) THEN SoFar(l, a, next)
          ELSE IF m \in Range(taken[l]) THEN Copies(l, a) ELSE 0
    BY DEF ShownInv
  <2>2. CASE l = logger
    <3>1. Range(taken'[l]) = Range(taken[l]) \cup {Head(ring[l])}
      <4>1. Head(ring[l]) \in Tasks
        BY <1>2, <2>2, HeadTailProperties
      <4>2. taken'[l] = Append(taken[l], Head(ring[l]))
        BY <1>1, <1>2, <2>2 DEF TypeInv
      <4> QED BY <1>2, <2>2, <4>1, <4>2, RangeOfAppend
    <3>2. InHand(l, m) <=> Head(ring[l]) = m
      BY <1>1, <2>2 DEF InHand
    <3>3. SoFar(l, a, next) = Copies(l, a)
      BY <1>3, <2>2, SoFarAll
    <3> QED BY <2>1, <3>1, <3>2, <3>3
  <2>3. CASE l # logger
    <3>1. ~InHand(l, m)
      BY <2>3 DEF InHand
    <3>2. taken'[l] = taken[l]
      <4>1. l \in AllLoggers
        BY DEF AllLoggers
      <4> QED BY <1>1, <2>3, <4>1 DEF TypeInv
    <3> QED BY <2>1, <3>1, <3>2
  <2> QED BY <2>2, <2>3
<1> QED BY <1>1, <1>4 DEF ShownInv, InHand

LEMMA NextShown == TypeInv /\ OrderInv /\ ShownInv /\ [Next]_vars => ShownInv'
<1> SUFFICES ASSUME TypeInv, OrderInv, ShownInv, [Next]_vars PROVE ShownInv'
  OBVIOUS
<1>1. ASSUME UNCHANGED <<logger, next, ring, output, taken>>,
             loop' = loop \/ (loop # "write" /\ loop' # "write")
      PROVE  ShownInv'
  BY <1>1 DEF ShownInv, InHand
<1>2. ASSUME NEW t \in Threads, Insert(t) PROVE ShownInv'
  <2>1. UNCHANGED <<loop, logger, next, output, taken>>
    BY <1>2 DEF Insert, loopVars, outputVars
  <2>2. loop = "write" => Head(ring'[logger]) = Head(ring[logger])
    <3>1. ASSUME loop = "write", target[t] = logger, Len(ring[logger]) # Capacity
          PROVE  Head(ring'[logger]) = Head(ring[logger])
      <4>1. ring'[logger] = Append(ring[logger], task[t])
        BY <1>2, <3>1 DEF Insert, TypeInv
      <4>2. ring[logger] \in Seq(Tasks) /\ ring[logger] # <<>> /\ task[t] \in Tasks
        BY <1>2, <3>1 DEF Insert, TypeInv
      <4>3. Head(Append(ring[logger], task[t])) = Head(ring[logger])
        BY <4>2
      <4> QED BY <4>1, <4>3
    <3>2. ASSUME ~(target[t] = logger /\ Len(ring[logger]) # Capacity)
          PROVE  ring'[logger] = ring[logger]
      BY <1>2, <3>2 DEF Insert, TypeInv
    <3> QED BY <3>1, <3>2
  <2>3. \A l, m : InHand(l, m)' <=> InHand(l, m)
    BY <2>1, <2>2 DEF InHand
  <2> QED BY <2>1, <2>3 DEF ShownInv
<1>3. ASSUME NEW l \in Loggers, BeginLogger(l) PROVE ShownInv'
  BY <1>3, ShownBegin DEF BeginLogger, AllLoggers
<1>4. CASE BeginRoot /\ Begin(Root)
  BY <1>4, ShownBegin DEF BeginRoot, AllLoggers
<1> QED BY <1>1, <1>2, <1>3, <1>4, ShownWrite, ShownConsume
        DEF Next, vars, callVars, loopVars, outputVars, CallStep, uv_log_write, Send,
            AsyncStep, AsyncStart, SkipLogger, AfterLoggers, BeginRoot

(* Every console shows a task of a logger once for each reference to it in *)
(* the lists of that logger and of root, once it has been passed on, and   *)
(* before that nothing of it: what _uv_async_write_cb does with the tasks  *)
(* of other loggers, or with other tasks of the same one, adds nothing and *)
(* takes nothing away.  Levels and filters, which it does not look at, are *)
(* no part of this.                                                        *)
THEOREM ShownForEachReference == Spec => []ShownOncePerReference
<1>1. ShownInv => ShownOncePerReference
  BY DEF ShownInv, ShownOncePerReference, InHand, Entry
<1> QED BY <1>1, InitType, NextType, InitOrder, NextOrder, InitShown, NextShown, PTL DEF Spec
=============================================================================
