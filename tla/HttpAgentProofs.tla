-------------------------- MODULE HttpAgentProofs --------------------------
(***************************************************************************)
(* Theorems about HttpAgent, for any number of requests, sockets and       *)
(* limits: its pools, then what its users are told and what can end the    *)
(* program.                                                                *)
(***************************************************************************)
EXTENDS HttpAgent, FiniteSetTheorems, SequenceTheorems, TLAPS

(* Types.  Lemmas on what the operators of one socket give, then the steps *)
(* of the system.                                                          *)

Words == {"sent", "unsent", "response", "failed"}
ToldType == [Requests -> Seq(Words)]
FaultType == {"none", "stuck", "crash"}

LEMMA TellType ==
  ASSUME NEW t \in ToldType, NEW r \in Requests \cup {None}, NEW what \in Words
  PROVE  Tell(t, r, what) \in ToldType
  <1>1. ASSUME NEW q \in Requests PROVE Append(t[q], what) \in Seq(Words)
    <2>1. t[q] \in Seq(Words)
      BY DEF ToldType
    <2> QED
      BY <2>1, AppendProperties
  <1>2. Tell(t, r, what) = [q \in Requests |-> IF q = r THEN Append(t[q], what) ELSE t[q]]
    BY DEF Tell, ToldType
  <1> QED
    BY <1>1, <1>2 DEF ToldType

LEMMA CreateType ==
  ASSUME NEW r \in Requests \cup {None} PROVE create_socket(r) \in SocketType
  BY DEF create_socket, Unused, SocketType

LEMMA DestoryType ==
  ASSUME NEW k \in SocketType PROVE destory_socket(k) \in SocketType
  BY DEF destory_socket, SocketType

LEMMA SendType ==
  ASSUME TypeOK, NEW s \in Sockets, NEW k \in SocketType, send_socket(s, k)
  PROVE  socket' \in [Sockets -> SocketType] /\ fault' \in FaultType
  <1>1. [k EXCEPT !.writing = TRUE] \in SocketType
    BY DEF SocketType
  <1> QED
    BY <1>1 DEF send_socket, TypeOK, FaultType

LEMMA RunType ==
  ASSUME TypeOK, NEW s \in Sockets, NEW k \in SocketType, NEW t \in ToldType,
         socket_run(s, k, t)
  PROVE  /\ socket' \in [Sockets -> SocketType] /\ fault' \in FaultType
         /\ told' \in ToldType
  <1>1. CASE k.status = "init"
    <2>1. /\ [k EXCEPT !.conn = "connecting"] \in SocketType
          /\ [k EXCEPT !.conn = "refused"] \in SocketType
      BY DEF SocketType
    <2>2. Tell(t, k.req, "unsent") \in ToldType
      <3>1. k.req \in Requests \cup {None}
        BY DEF SocketType
      <3> QED
        BY <3>1, TellType DEF Words
    <2>3. socket' \in [Sockets -> SocketType]
      BY <1>1, <2>1 DEF socket_run, TypeOK
    <2>4. told' \in ToldType
      BY <1>1, <2>2 DEF socket_run
    <2> QED
      BY <1>1, <2>3, <2>4 DEF socket_run, TypeOK, FaultType
  <1>2. CASE k.status # "init"
    BY <1>2, SendType DEF socket_run
  <1> QED
    BY <1>1, <1>2

LEMMA TypeInit == Init => TypeOK
  <1> SUFFICES ASSUME Init PROVE TypeOK
    OBVIOUS
  <1>1. Unused \in SocketType
    BY DEF Unused, SocketType
  <1> QED
    BY <1>1, EmptySeq, RequestAssumption DEF Init, TypeOK

LEMMA TypeStep == TypeOK /\ [Next]_vars => TypeOK'
  <1> SUFFICES ASSUME TypeOK, [Next]_vars PROVE TypeOK'
    OBVIOUS
  <1> USE RequestAssumption
  <1>t. told \in ToldType /\ fault \in FaultType
    BY DEF TypeOK, ToldType, Words, FaultType
  <1>n. New \subseteq Sockets
    BY DEF New
  <1>1. ASSUME NEW r \in Requests, agent_request(r) PROVE TypeOK'
    <2>1. submitted' \in 0 .. MaxRequests
      BY <1>1 DEF agent_request, Requests
    <2>2. CASE Enqueue(r)
      <3>1. requests' \in Seq(Requests)
        BY <2>2, AppendProperties DEF Enqueue, TypeOK
      <3> QED
        BY <1>1, <2>1, <2>2, <3>1 DEF agent_request, Enqueue, TypeOK, givenVars
    <2>3. CASE Start(r)
      <3>1. PICK s \in IF free_sockets = {} THEN New ELSE free_sockets :
              LET k == IF free_sockets = {} THEN create_socket(r)
                       ELSE [socket[s] EXCEPT !.req = r]
              IN  /\ sockets' = sockets \cup {s}
                  /\ free_sockets' = free_sockets \ {s}
                  /\ IF recursive THEN socket_run(s, k, told)
                     ELSE /\ socket' = [socket EXCEPT ![s] = k]
                          /\ fault' = "stuck" /\ UNCHANGED told
        BY <2>3 DEF Start
      <3> DEFINE k == IF free_sockets = {} THEN create_socket(r)
                      ELSE [socket[s] EXCEPT !.req = r]
      <3>2. s \in Sockets
        BY <1>n, <3>1 DEF TypeOK
      <3>3. k \in SocketType
        <4>1. [socket[s] EXCEPT !.req = r] \in SocketType
          BY <3>2 DEF TypeOK, SocketType
        <4> QED
          BY <4>1, CreateType
      <3>4. /\ socket' \in [Sockets -> SocketType] /\ fault' \in FaultType
            /\ told' \in ToldType
        <4> HIDE DEF k
        <4>1. CASE recursive
          <5>1. socket_run(s, k, told)
            BY <3>1, <4>1 DEF k
          <5> QED
            BY <5>1, <3>2, <3>3, <1>t, RunType
        <4>2. CASE ~recursive
          <5>1. socket' = [socket EXCEPT ![s] = k] /\ fault' = "stuck" /\ told' = told
            BY <3>1, <4>2 DEF k
          <5> QED
            BY <5>1, <3>3, <1>t DEF TypeOK, FaultType
        <4> QED
          BY <4>1, <4>2
      <3>5. sockets' \in SUBSET Sockets /\ free_sockets' \in SUBSET Sockets
        BY <3>1, <3>2 DEF TypeOK
      <3>6. started' \in Seq(Requests) /\ requests' = requests
        BY <2>3, AppendProperties DEF Start, TypeOK
      <3> QED
        BY <1>1, <2>1, <3>4, <3>5, <3>6
        DEF agent_request, TypeOK, givenVars, ToldType, Words, FaultType
    <2> QED
      BY <1>1, <2>2, <2>3 DEF agent_request
  <1>2. ASSUME NEW s \in Sockets, NEW ok \in BOOLEAN, connect_cb(s, ok) PROVE TypeOK'
    <2>1. CASE ok
      <3> DEFINE k == [socket[s] EXCEPT !.conn = "up", !.status = "connected"]
      <3>1. k \in SocketType
        BY DEF TypeOK, SocketType
      <3>2. send_socket(s, k) /\ told' = told
        BY <1>2, <2>1 DEF connect_cb
      <3>3. socket' \in [Sockets -> SocketType] /\ fault' \in FaultType
        BY <3>1, <3>2, SendType
      <3> QED
        BY <1>2, <3>2, <3>3 DEF connect_cb, TypeOK, givenVars, poolVars, FaultType
    <2>2. CASE ~ok
      <3>1. Tell(told, socket[s].req, "unsent") \in ToldType
        BY <1>t, TellType DEF TypeOK, SocketType, Words
      <3>2. [socket EXCEPT ![s].conn = "refused"] \in [Sockets -> SocketType]
        BY DEF TypeOK, SocketType
      <3> QED
        BY <1>2, <2>2, <3>1, <3>2
        DEF connect_cb, TypeOK, givenVars, poolVars, ToldType, Words
    <2> QED
      BY <2>1, <2>2
  <1>3. ASSUME NEW s \in Sockets, NEW ok \in BOOLEAN, write_cb(s, ok) PROVE TypeOK'
    <2>1. \A w \in Words : Tell(told, socket[s].req, w) \in ToldType
      BY <1>t, TellType DEF TypeOK, SocketType
    <2>2. told' \in ToldType /\ fault' \in FaultType
      BY <1>3, <1>t, <2>1 DEF write_cb, Words, FaultType
    <2>3. socket' \in [Sockets -> SocketType]
      <3> DEFINE k == [socket[s] EXCEPT !.writing = FALSE,
                                        !.status = IF ok THEN "send" ELSE @]
      <3>1. k \in SocketType
        BY DEF TypeOK, SocketType
      <3>2. socket' = [socket EXCEPT ![s] = k]
        BY <1>3 DEF write_cb, TypeOK
      <3> QED
        BY <3>1, <3>2 DEF TypeOK
    <2> QED
      BY <1>3, <2>2, <2>3 DEF write_cb, TypeOK, givenVars, poolVars, ToldType, Words, FaultType
  <1>4. ASSUME NEW s \in Sockets, ReadPart(s) PROVE TypeOK'
    <2>1. socket' \in [Sockets -> SocketType]
      BY <1>4 DEF ReadPart, TypeOK, SocketType
    <2> QED
      BY <1>4, <2>1 DEF ReadPart, TypeOK, givenVars, poolVars
  <1>5. ASSUME NEW s \in Sockets, ReadLast(s) PROVE TypeOK'
    <2> DEFINE k == [socket[s] EXCEPT !.status = "recv"]
               t == Tell(told, k.req, "response")
    <2>1. k \in SocketType
      BY DEF TypeOK, SocketType
    <2>2. t \in ToldType
      BY <2>1, <1>t, TellType DEF SocketType, Words
    <2>3. RunNext(s, k, t) \/ SetFree(s, k, t)
      BY <1>5 DEF ReadLast
    <2> HIDE DEF k, t
    <2>4. CASE RunNext(s, k, t)
      <3>1. /\ requests' \in Seq(Requests) /\ started' \in Seq(Requests)
            /\ Head(requests) \in Requests
        BY <2>4, HeadTailProperties, AppendProperties DEF RunNext, TypeOK
      <3>2. [k EXCEPT !.req = Head(requests)] \in SocketType
        BY <2>1, <3>1 DEF SocketType
      <3>3. /\ socket' \in [Sockets -> SocketType] /\ fault' \in FaultType
            /\ told' \in ToldType
        BY <2>2, <2>4, <3>2, RunType DEF RunNext
      <3> QED
        BY <1>5, <2>4, <3>1, <3>3
        DEF ReadLast, RunNext, TypeOK, givenVars, ToldType, Words, FaultType
    <2>5. CASE SetFree(s, k, t)
      <3>1. /\ [k EXCEPT !.req = None] \in SocketType
            /\ destory_socket([k EXCEPT !.req = None]) \in SocketType
        BY <2>1, DestoryType DEF SocketType
      <3>2. socket' \in [Sockets -> SocketType]
        BY <2>5, <3>1 DEF SetFree, TypeOK
      <3>3. sockets' \in SUBSET Sockets /\ free_sockets' \in SUBSET Sockets
        BY <2>5 DEF SetFree, TypeOK
      <3> QED
        BY <1>5, <2>2, <2>5, <3>2, <3>3
        DEF ReadLast, SetFree, TypeOK, givenVars, ToldType, Words
    <2> QED
      BY <2>3, <2>4, <2>5
  <1>6. ASSUME NEW s \in Sockets, ReadError(s) PROVE TypeOK'
    <2> DEFINE k == [socket[s] EXCEPT !.status = "init", !.conn = "down"]
               t == IF socket[s].status = "send" /\ k.req # None
                    THEN Tell(told, k.req, "failed") ELSE told
               closed == [socket EXCEPT ![s] = destory_socket([k EXCEPT !.req = None])]
    <2>1. k \in SocketType
      BY DEF TypeOK, SocketType
    <2>2. t \in ToldType
      <3>1. Tell(told, k.req, "failed") \in ToldType
        BY <2>1, <1>t, TellType DEF SocketType, Words
      <3> QED
        BY <3>1, <1>t
    <2>3. Fail(s, k, t)
      BY <1>6 DEF ReadError
    <2>4. closed \in [Sockets -> SocketType]
      <3>1. [k EXCEPT !.req = None] \in SocketType
        BY <2>1 DEF SocketType
      <3> QED
        BY <3>1, DestoryType DEF TypeOK
    <2> HIDE DEF k, t
    <2>5. /\ told' \in ToldType /\ free_sockets' \in SUBSET Sockets
          /\ started' = started
      BY <2>2, <2>3 DEF Fail, TypeOK
    <2>6. CASE s \in sockets /\ requests # <<>>
      <3>1. PICK n \in New :
              /\ requests' = Tail(requests)
              /\ sockets' = (sockets \ {s}) \cup {n}
              /\ socket' = [closed EXCEPT ![n] = create_socket(None)]
              /\ fault' = "crash"
        BY <2>3, <2>6 DEF Fail
      <3>2. requests' \in Seq(Requests)
        BY <2>6, <3>1, HeadTailProperties DEF TypeOK
      <3>3. create_socket(None) \in SocketType
        BY CreateType
      <3>4. socket' \in [Sockets -> SocketType]
        BY <2>4, <3>1, <3>3
      <3>5. sockets' \in SUBSET Sockets
        BY <1>n, <3>1 DEF TypeOK
      <3> QED
        BY <1>6, <2>5, <3>1, <3>2, <3>4, <3>5
        DEF ReadError, TypeOK, givenVars, ToldType, Words
    <2>7. CASE ~(s \in sockets /\ requests # <<>>)
      <3>1. /\ sockets' = sockets \ {s} /\ socket' = closed
            /\ requests' = requests /\ fault' = fault
        BY <2>3, <2>7 DEF Fail
      <3> QED
        BY <1>6, <2>4, <2>5, <3>1 DEF ReadError, TypeOK, givenVars, ToldType, Words
    <2> QED
      BY <2>6, <2>7
  <1>7. ASSUME NEW s \in Sockets, close_cb(s) PROVE TypeOK'
    <2>1. Unused \in SocketType
      BY DEF Unused, SocketType
    <2> QED
      BY <1>7, <2>1 DEF close_cb, TypeOK, givenVars, poolVars
  <1>8. CASE UNCHANGED vars
    BY <1>8 DEF vars, givenVars, poolVars, TypeOK
  <1> QED
    BY <1>1, <1>2, <1>3, <1>4, <1>5, <1>6, <1>7, <1>8 DEF Next, Callback

(* Every variable keeps its type, whatever the peers and the limits.       *)
THEOREM TypeCorrect == Spec => []TypeOK
  BY TypeInit, TypeStep, PTL DEF Spec

-----------------------------------------------------------------------------
(* The limits.  What a step does with the two sets of sockets comes in few *)
(* forms, and the limits follow from these forms alone.                    *)

PoolInv ==
  /\ IsFiniteSet(sockets) /\ IsFiniteSet(free_sockets)
  /\ PoolBounded

LEMMA PoolInit == Init => PoolInv
  <1> SUFFICES ASSUME Init PROVE PoolInv
    OBVIOUS
  <1> USE SizeAssumption
  <1>1. IsFiniteSet({}) /\ Cardinality({}) = 0
    BY FS_EmptySet
  <1> QED
    BY <1>1 DEF Init, PoolInv, PoolBounded

(* Taking a socket out of a set, and putting one in, keeps the limit of    *)
(* the set if there is room.                                               *)
LEMMA Shrink ==
  ASSUME NEW S, NEW s, NEW m \in Nat, IsFiniteSet(S), Cardinality(S) <= m
  PROVE  IsFiniteSet(S \ {s}) /\ Cardinality(S \ {s}) <= m
  <1>1. IsFiniteSet(S \ {s}) /\ Cardinality(S \ {s}) <= Cardinality(S)
    BY FS_Subset
  <1>2. Cardinality(S) \in Nat /\ Cardinality(S \ {s}) \in Nat
    BY <1>1, FS_CardinalityType
  <1> QED
    BY <1>1, <1>2

LEMMA Grow ==
  ASSUME NEW S, NEW s, NEW m \in Nat, IsFiniteSet(S), ~(Cardinality(S) >= m)
  PROVE  IsFiniteSet(S \cup {s}) /\ Cardinality(S \cup {s}) <= m
  <1>1. Cardinality(S) \in Nat
    BY FS_CardinalityType
  <1>2. /\ IsFiniteSet(S \cup {s})
        /\ \/ Cardinality(S \cup {s}) = Cardinality(S)
           \/ Cardinality(S \cup {s}) = Cardinality(S) + 1
    BY FS_AddElement
  <1> QED
    BY <1>1, <1>2

LEMMA Exchange ==
  ASSUME NEW S, NEW s \in S, NEW n, NEW m \in Nat, IsFiniteSet(S), Cardinality(S) <= m
  PROVE  /\ IsFiniteSet((S \ {s}) \cup {n})
         /\ Cardinality((S \ {s}) \cup {n}) <= m
  <1>1. IsFiniteSet(S \ {s}) /\ Cardinality(S \ {s}) = Cardinality(S) - 1
    BY FS_RemoveElement
  <1>2. Cardinality(S) \in Nat
    BY FS_CardinalityType
  <1>3. ~(Cardinality(S \ {s}) >= m)
    BY <1>1, <1>2
  <1> QED
    BY <1>1, <1>3, Grow

LEMMA PoolStep == PoolInv /\ [Next]_vars => PoolInv'
  <1> SUFFICES ASSUME PoolInv, [Next]_vars PROVE PoolInv'
    OBVIOUS
  <1> USE SizeAssumption
  <1>1. ASSUME NEW r \in Requests, agent_request(r) PROVE PoolInv'
    <2>1. CASE Enqueue(r)
      BY <2>1 DEF Enqueue, PoolInv, PoolBounded
    <2>2. CASE Start(r)
      <3>1. PICK s : sockets' = sockets \cup {s} /\ free_sockets' = free_sockets \ {s}
        BY <2>2 DEF Start
      <3>2. ~(Cardinality(sockets) >= max_sockets)
        BY <2>2 DEF Start, Full
      <3> QED
        BY <3>1, <3>2, Grow, Shrink DEF PoolInv, PoolBounded
    <2> QED
      BY <1>1, <2>1, <2>2 DEF agent_request
  <1>2. ASSUME UNCHANGED poolVars PROVE PoolInv'
    BY <1>2 DEF poolVars, PoolInv, PoolBounded
  <1>3. ASSUME NEW s \in Sockets, ReadLast(s) PROVE PoolInv'
    <2>1. PICK k, t : RunNext(s, k, t) \/ SetFree(s, k, t)
      BY <1>3 DEF ReadLast
    <2>2. CASE RunNext(s, k, t)
      BY <2>2 DEF RunNext, PoolInv, PoolBounded
    <2>3. CASE SetFree(s, k, t)
      <3>1. sockets' = sockets \ {s}
        BY <2>3 DEF SetFree
      <3>2. \/ free_sockets' = free_sockets
            \/ /\ ~(Cardinality(free_sockets) >= max_free_sockets)
               /\ free_sockets' = free_sockets \cup {s}
        BY <2>3 DEF SetFree
      <3> QED
        BY <3>1, <3>2, Grow, Shrink DEF PoolInv, PoolBounded
    <2> QED
      BY <2>1, <2>2, <2>3
  <1>4. ASSUME NEW s \in Sockets, ReadError(s) PROVE PoolInv'
    <2>1. PICK k, t : Fail(s, k, t)
      BY <1>4 DEF ReadError
    <2>2. free_sockets' = free_sockets \ {s}
      BY <2>1 DEF Fail
    <2>3. \/ sockets' = sockets \ {s}
          \/ s \in sockets /\ \E n : sockets' = (sockets \ {s}) \cup {n}
      BY <2>1 DEF Fail
    <2>4. IsFiniteSet(free_sockets') /\ Cardinality(free_sockets') <= max_free_sockets
      BY <2>2, Shrink DEF PoolInv, PoolBounded
    <2>5. IsFiniteSet(sockets') /\ Cardinality(sockets') <= max_sockets
      <3>1. CASE sockets' = sockets \ {s}
        BY <3>1, Shrink DEF PoolInv, PoolBounded
      <3>2. ASSUME s \in sockets, NEW n, sockets' = (sockets \ {s}) \cup {n}
            PROVE  IsFiniteSet(sockets') /\ Cardinality(sockets') <= max_sockets
        BY <3>2, Exchange DEF PoolInv, PoolBounded
      <3> QED
        BY <2>3, <3>1, <3>2
    <2> QED
      BY <2>4, <2>5 DEF PoolInv, PoolBounded
  <1>5. CASE UNCHANGED vars
    BY <1>2, <1>5 DEF vars
  <1> QED
    BY <1>1, <1>2, <1>3, <1>4, <1>5
    DEF Next, Callback, connect_cb, write_cb, ReadPart, close_cb

(* The agent keeps the limits of its configuration (agent.h:15, 16):       *)
(* agent_request tests the one before it makes a socket busy, and          *)
(* agent_request_finish the other before it sets one free.                 *)
THEOREM PoolStaysBounded == Spec => []PoolBounded
  <1>1. PoolInv => PoolBounded
    BY DEF PoolInv
  <1> QED
    BY <1>1, PoolInit, PoolStep, PTL DEF Spec

-----------------------------------------------------------------------------
(* The queue.  That requests keep their order when one gets a socket at    *)
(* once, past the waiting list, needs that list to be empty whenever there *)
(* is room, and so the two go together.                                    *)

Numbers(n) == [i \in 1 .. n |-> i]

QueueInv == TypeOK /\ PoolInv /\ WaitingMeansFull /\ StartedInOrder

LEMMA NumbersAppend ==
  ASSUME NEW n \in Nat PROVE Append(Numbers(n), n + 1) = Numbers(n + 1)
  BY DEF Numbers

LEMMA QueueInit == Init => QueueInv
  <1> SUFFICES ASSUME Init PROVE QueueInv
    OBVIOUS
  <1>1. WaitingMeansFull
    BY DEF Init, WaitingMeansFull
  <1>2. StartedInOrder
    <2>1. <<>> \o <<>> = [i \in 1 .. 0 |-> i]
      OBVIOUS
    <2> QED
      BY <2>1 DEF Init, StartedInOrder
  <1> QED
    BY <1>1, <1>2, TypeInit, PoolInit DEF QueueInv

LEMMA QueueStep == QueueInv /\ [Next]_vars => QueueInv'
  <1> SUFFICES ASSUME QueueInv, [Next]_vars PROVE QueueInv'
    OBVIOUS
  <1>t. TypeOK' /\ PoolInv'
    BY TypeStep, PoolStep DEF QueueInv
  <1> SUFFICES WaitingMeansFull' /\ StartedInOrder'
    BY <1>t DEF QueueInv
  <1> DEFINE Q == WaitingMeansFull' /\ StartedInOrder'
  <1>s. started \in Seq(Requests) /\ requests \in Seq(Requests) /\ submitted \in Nat
    BY RequestAssumption DEF QueueInv, TypeOK
  <1>1. ASSUME NEW r \in Requests, agent_request(r) PROVE Q
    <2>1. /\ r = submitted + 1 /\ submitted' = r
          /\ started \o requests = Numbers(submitted)
      BY <1>1 DEF agent_request, QueueInv, StartedInOrder, Numbers
    <2>2. Append(started \o requests, r) = Numbers(submitted')
      BY <1>s, <2>1, NumbersAppend
    <2>3. CASE Enqueue(r)
      <3>1. started' \o requests' = Append(started \o requests, r)
        BY <1>s, <2>3 DEF Enqueue
      <3>2. Full'
        BY <2>3 DEF Enqueue, Full
      <3> QED
        BY <2>2, <3>1, <3>2 DEF WaitingMeansFull, StartedInOrder, Numbers
    <2>4. CASE Start(r)
      <3>1. requests = <<>> /\ requests' = <<>>
        BY <1>1, <2>4 DEF agent_request, Start, QueueInv, WaitingMeansFull
      <3>2. started' \o requests' = Append(started \o requests, r)
        BY <1>s, <2>4, <3>1 DEF Start
      <3> QED
        BY <2>2, <3>1, <3>2 DEF WaitingMeansFull, StartedInOrder, Numbers
    <2> QED
      BY <1>1, <2>3, <2>4 DEF agent_request
  <1>2. ASSUME UNCHANGED <<poolVars, submitted, started>>, Running' => Running PROVE Q
    BY <1>2 DEF poolVars, QueueInv, WaitingMeansFull, StartedInOrder, Full
  <1>3. ASSUME NEW s \in Sockets, ReadLast(s) PROVE Q
    <2>1. PICK k, t : RunNext(s, k, t) \/ SetFree(s, k, t)
      BY <1>3 DEF ReadLast
    <2>2. Running /\ submitted' = submitted
      BY <1>3 DEF ReadLast
    <2>3. CASE RunNext(s, k, t)
      <3>1. started' \o requests' = started \o requests
        BY <1>s, <2>3 DEF RunNext
      <3>2. Full'
        BY <2>2, <2>3 DEF RunNext, QueueInv, WaitingMeansFull, Full
      <3> QED
        BY <2>2, <3>1, <3>2 DEF QueueInv, WaitingMeansFull, StartedInOrder
    <2>4. CASE SetFree(s, k, t)
      BY <2>2, <2>4 DEF SetFree, QueueInv, WaitingMeansFull, StartedInOrder
    <2> QED
      BY <2>1, <2>3, <2>4
  <1>4. ASSUME NEW s \in Sockets, ReadError(s) PROVE Q
    <2>1. PICK k, t : Fail(s, k, t)
      BY <1>4 DEF ReadError
    <2>2. Running /\ submitted' = submitted /\ started' = started
      BY <1>4, <2>1 DEF ReadError, Fail
    <2>3. CASE s \in sockets /\ requests # <<>>
      <3>1. fault' = "crash"
        BY <2>1, <2>3 DEF Fail
      <3> QED
        BY <3>1 DEF Running, WaitingMeansFull, StartedInOrder
    <2>4. CASE ~(s \in sockets /\ requests # <<>>)
      <3>1. requests' = requests /\ sockets' = sockets \ {s}
        BY <2>1, <2>4 DEF Fail
      <3>2. requests # <<>> => sockets' = sockets
        BY <2>4, <3>1
      <3> QED
        BY <2>2, <3>1, <3>2 DEF QueueInv, WaitingMeansFull, StartedInOrder, Full
    <2> QED
      BY <2>3, <2>4
  <1>5. CASE UNCHANGED vars
    BY <1>2, <1>5 DEF vars, Running
  <1> QED
    BY <1>1, <1>2, <1>3, <1>4, <1>5
    DEF Next, Callback, connect_cb, write_cb, ReadPart, close_cb

(* A request waits only while max_sockets are busy: every handler that     *)
(* makes room serves the list first.                                       *)
THEOREM WaitsOnlyWhenFull == Spec => []WaitingMeansFull
  <1>1. QueueInv => WaitingMeansFull
    BY DEF QueueInv
  <1> QED
    BY <1>1, QueueInit, QueueStep, PTL DEF Spec

(* Requests get sockets in the order of agent_request, none is lost on the *)
(* way and none is started twice.                                          *)
THEOREM RequestsStartInOrder == Spec => []StartedInOrder
  <1>1. QueueInv => StartedInOrder
    BY DEF QueueInv
  <1> QED
    BY <1>1, QueueInit, QueueStep, PTL DEF Spec

-----------------------------------------------------------------------------
(* The sockets on the lists.  One lemma for each of the operators that     *)
(* give a socket away: what it leaves alone.                               *)

UsableInv == TypeOK /\ PooledAreUsable

LEMMA RunKeeps ==
  ASSUME TypeOK, NEW s \in Sockets, NEW k \in SocketType, NEW t,
         socket_run(s, k, t)
  PROVE  /\ socket'[s].handle = k.handle /\ socket'[s].req = k.req
         /\ \A q \in Sockets \ {s} : socket'[q] = socket[q]
  <1>1. CASE k.status = "init"
    BY <1>1 DEF socket_run, TypeOK, SocketType
  <1>2. CASE k.status # "init"
    BY <1>2 DEF socket_run, send_socket, TypeOK, SocketType
  <1> QED
    BY <1>1, <1>2

LEMMA UsableInit == Init => UsableInv
  BY TypeInit DEF Init, UsableInv, PooledAreUsable

LEMMA UsableStep == UsableInv /\ [Next]_vars => UsableInv'
  <1> SUFFICES ASSUME UsableInv, [Next]_vars PROVE PooledAreUsable'
    BY TypeStep DEF UsableInv
  <1>t. TypeOK
    BY DEF UsableInv
  <1>f. sockets \subseteq Sockets /\ free_sockets \subseteq Sockets
    BY <1>t DEF TypeOK
  <1>1. ASSUME NEW r \in Requests, agent_request(r), Running' PROVE PooledAreUsable'
    <2>1. Running
      BY <1>1 DEF agent_request
    <2>2. CASE Enqueue(r)
      BY <2>1, <2>2 DEF Enqueue, UsableInv, PooledAreUsable, Connected
    <2>3. CASE Start(r)
      <3>1. PICK s \in IF free_sockets = {} THEN New ELSE free_sockets :
              LET k == IF free_sockets = {} THEN create_socket(r)
                       ELSE [socket[s] EXCEPT !.req = r]
              IN  /\ sockets' = sockets \cup {s}
                  /\ free_sockets' = free_sockets \ {s}
                  /\ IF recursive THEN socket_run(s, k, told)
                     ELSE /\ socket' = [socket EXCEPT ![s] = k]
                          /\ fault' = "stuck" /\ UNCHANGED told
        BY <2>3 DEF Start
      <3> DEFINE k == IF free_sockets = {} THEN create_socket(r)
                      ELSE [socket[s] EXCEPT !.req = r]
      <3>2. s \in Sockets
        BY <1>f, <3>1 DEF New
      <3>3. k \in SocketType /\ k.handle = "open" /\ k.req = r
        <4>1. CASE free_sockets = {}
          BY <4>1, CreateType DEF create_socket, Unused
        <4>2. CASE free_sockets # {}
          <5>1. s \in free_sockets
            BY <3>1, <4>2
          <5>2. socket[s] \in SocketType /\ socket[s].handle = "open"
            BY <2>1, <3>2, <5>1, <1>t DEF UsableInv, PooledAreUsable, Connected, TypeOK
          <5> QED
            BY <4>2, <5>2 DEF SocketType
        <4> QED
          BY <4>1, <4>2
      <3>4. socket_run(s, k, told)
        BY <1>1, <3>1 DEF Running
      <3> HIDE DEF k
      <3>5. /\ socket'[s].handle = "open" /\ socket'[s].req # None
            /\ \A q \in Sockets \ {s} : socket'[q] = socket[q]
        BY <1>t, <3>2, <3>3, <3>4, RunKeeps, NoneAssumption
      <3> QED
        BY <1>f, <2>1, <3>1, <3>5 DEF UsableInv, PooledAreUsable, Connected
    <2> QED
      BY <1>1, <2>2, <2>3 DEF agent_request
  <1>2. ASSUME NEW s \in Sockets, NEW ok \in BOOLEAN, connect_cb(s, ok) PROVE PooledAreUsable'
    <2>1. Running /\ socket[s].conn = "connecting" /\ UNCHANGED poolVars
      BY <1>2 DEF connect_cb
    <2>2. /\ socket'[s].handle = socket[s].handle /\ socket'[s].req = socket[s].req
          /\ \A q \in Sockets \ {s} : socket'[q] = socket[q]
      BY <1>2, <1>t DEF connect_cb, send_socket, TypeOK, SocketType
    <2>3. s \notin free_sockets
      BY <2>1 DEF UsableInv, PooledAreUsable, Connected
    <2> QED
      BY <1>f, <2>1, <2>2, <2>3 DEF UsableInv, PooledAreUsable, Connected, poolVars
  <1>3. ASSUME NEW s \in Sockets, Running, UNCHANGED poolVars,
               socket'[s].handle = socket[s].handle, socket'[s].req = socket[s].req,
               socket'[s].conn = socket[s].conn,
               \A q \in Sockets \ {s} : socket'[q] = socket[q]
        PROVE  PooledAreUsable'
    BY <1>3, <1>f DEF UsableInv, PooledAreUsable, Connected, poolVars
  <1>4. ASSUME NEW s \in Sockets, NEW ok \in BOOLEAN, write_cb(s, ok) PROVE PooledAreUsable'
    <2>1. /\ socket'[s].handle = socket[s].handle /\ socket'[s].req = socket[s].req
          /\ socket'[s].conn = socket[s].conn
          /\ \A q \in Sockets \ {s} : socket'[q] = socket[q]
      BY <1>4, <1>t DEF write_cb, TypeOK, SocketType
    <2> QED
      BY <1>3, <1>4, <2>1 DEF write_cb
  <1>5. ASSUME NEW s \in Sockets, ReadPart(s) PROVE PooledAreUsable'
    <2>1. /\ socket'[s].handle = socket[s].handle /\ socket'[s].req = socket[s].req
          /\ socket'[s].conn = socket[s].conn
          /\ \A q \in Sockets \ {s} : socket'[q] = socket[q]
      BY <1>5, <1>t DEF ReadPart, TypeOK, SocketType
    <2> QED
      BY <1>3, <1>5, <2>1 DEF ReadPart
  <1>6. ASSUME NEW s \in Sockets, ReadLast(s) PROVE PooledAreUsable'
    <2> DEFINE k == [socket[s] EXCEPT !.status = "recv"]
               t == Tell(told, k.req, "response")
    <2>1. /\ k \in SocketType /\ k.handle = "open" /\ k.conn = "up"
          /\ Running /\ socket[s].req # None
      BY <1>6, <1>t DEF ReadLast, Connected, TypeOK, SocketType
    <2>2. s \notin free_sockets
      BY <2>1 DEF UsableInv, PooledAreUsable
    <2>3. RunNext(s, k, t) \/ SetFree(s, k, t)
      BY <1>6 DEF ReadLast
    <2> HIDE DEF k, t
    <2>4. CASE RunNext(s, k, t)
      <3> DEFINE next == [k EXCEPT !.req = Head(requests)]
      <3>1. Head(requests) \in Requests
        BY <1>t, <2>4, HeadTailProperties DEF RunNext, TypeOK
      <3>2. next \in SocketType /\ next.handle = "open" /\ next.req # None
        BY <2>1, <3>1, NoneAssumption DEF SocketType
      <3>3. socket_run(s, next, t)
        BY <2>4 DEF RunNext
      <3> HIDE DEF next
      <3>4. /\ socket'[s].handle = "open" /\ socket'[s].req # None
            /\ \A q \in Sockets \ {s} : socket'[q] = socket[q]
        BY <1>t, <3>2, <3>3, RunKeeps
      <3> QED
        BY <1>f, <2>1, <2>2, <2>4, <3>4
        DEF RunNext, UsableInv, PooledAreUsable, Connected
    <2>5. CASE SetFree(s, k, t)
      <3>1. \A q \in Sockets \ {s} : socket'[q] = socket[q]
        BY <1>t, <2>5 DEF SetFree, TypeOK
      <3>2. sockets' = sockets \ {s}
        BY <2>5 DEF SetFree
      <3>3. Cardinality(free_sockets) >= max_free_sockets => free_sockets' = free_sockets
        BY <2>5 DEF SetFree
      <3>4. ASSUME ~(Cardinality(free_sockets) >= max_free_sockets)
            PROVE  /\ free_sockets' = free_sockets \cup {s}
                   /\ socket'[s].handle = "open" /\ socket'[s].conn = "up"
                   /\ socket'[s].req = None
        <4>1. /\ socket' = [socket EXCEPT ![s] = [k EXCEPT !.req = None]]
              /\ free_sockets' = free_sockets \cup {s}
          BY <2>5, <3>4 DEF SetFree
        <4>2. socket'[s] = [k EXCEPT !.req = None]
          BY <1>t, <4>1 DEF TypeOK
        <4> QED
          BY <2>1, <4>1, <4>2 DEF SocketType
      <3>5. \A q \in sockets' : socket'[q].handle = "open" /\ socket'[q].req # None
        BY <1>f, <2>1, <3>1, <3>2 DEF UsableInv, PooledAreUsable
      <3>6. \A q \in free_sockets' :
              socket'[q].handle = "open" /\ socket'[q].conn = "up" /\ socket'[q].req = None
        BY <1>f, <2>1, <2>2, <3>1, <3>3, <3>4 DEF UsableInv, PooledAreUsable, Connected
      <3>7. sockets' \cap free_sockets' = {}
        BY <2>1, <3>2, <3>3, <3>4 DEF UsableInv, PooledAreUsable
      <3> QED
        BY <3>5, <3>6, <3>7 DEF PooledAreUsable, Connected
    <2> QED
      BY <2>3, <2>4, <2>5
  <1>7. ASSUME NEW s \in Sockets, ReadError(s), Running' PROVE PooledAreUsable'
    <2>1. PICK k, t : Fail(s, k, t)
      BY <1>7 DEF ReadError
    <2>2. ~(s \in sockets /\ requests # <<>>)
      BY <1>7, <2>1 DEF Fail, Running
    <2>3. /\ sockets' = sockets \ {s} /\ free_sockets' = free_sockets \ {s}
          /\ \A q \in Sockets \ {s} : socket'[q] = socket[q]
      BY <1>t, <2>1, <2>2 DEF Fail, TypeOK
    <2>4. Running
      BY <1>7 DEF ReadError
    <2> QED
      BY <1>f, <2>3, <2>4 DEF UsableInv, PooledAreUsable, Connected
  <1>8. ASSUME NEW s \in Sockets, close_cb(s) PROVE PooledAreUsable'
    <2>1. Running /\ socket[s].handle = "closing" /\ UNCHANGED poolVars
      BY <1>8 DEF close_cb
    <2>2. s \notin sockets /\ s \notin free_sockets
      BY <2>1 DEF UsableInv, PooledAreUsable, Connected
    <2>3. \A q \in Sockets \ {s} : socket'[q] = socket[q]
      BY <1>t, <1>8 DEF close_cb, TypeOK
    <2> QED
      BY <1>f, <2>1, <2>2, <2>3 DEF UsableInv, PooledAreUsable, Connected, poolVars
  <1>9. CASE UNCHANGED vars
    BY <1>9 DEF vars, poolVars, UsableInv, PooledAreUsable, Connected, Running
  <1>10. CASE ~Running'
    BY <1>10 DEF PooledAreUsable
  <1> QED
    BY <1>1, <1>2, <1>4, <1>5, <1>6, <1>7, <1>8, <1>9, <1>10 DEF Next, Callback

(* A socket on a list of the agent is open, on one list, and has a request *)
(* exactly when it is busy: what the next agent_request relies on.         *)
THEOREM PooledStayUsable == Spec => []PooledAreUsable
  <1>1. UsableInv => PooledAreUsable
    BY DEF UsableInv
  <1> QED
    BY <1>1, UsableInit, UsableStep, PTL DEF Spec

----------------------------------------------------------------------------
(***************************************************************************)
(* What the users of the agent are told, and what can end the program.     *)
(***************************************************************************)

(* One final answer at most.  A request is told something only by a socket *)
(* that holds it; no two sockets hold one request, no socket holds one     *)
(* that has its final answer, and a request that has not been given to a   *)
(* socket yet, whose number is above Len(started), has none.               *)

Final == {"response", "failed"}

AnsweredIn(t, r) == \E i \in DOMAIN t[r] : t[r][i] \in Final

OnceIn(t) ==
  \A r \in Requests : \A i \in DOMAIN t[r] : t[r][i] \in Final => i = Len(t[r])

(* Of the sockets sk, what was told t, and n requests given to a socket.   *)
HoldIn(sk, t, n) ==
  /\ \A s \in Sockets :
       sk[s].req # None => sk[s].req <= n /\ ~AnsweredIn(t, sk[s].req)
  /\ \A s \in Sockets : \A q \in Sockets \ {s} :
       sk[s].req # None => sk[q].req # sk[s].req
  /\ \A r \in Requests : AnsweredIn(t, r) => r <= n

AnswerInv ==
  /\ OnceIn(told)
  /\ Running => HoldIn(socket, told, Len(started))

LEMMA TellSays ==
  ASSUME NEW t \in ToldType, NEW r \in Requests, NEW w \in Words,
         OnceIn(t), ~AnsweredIn(t, r)
  PROVE  /\ OnceIn(Tell(t, r, w))
         /\ \A q \in Requests : AnsweredIn(Tell(t, r, w), q) =>
              AnsweredIn(t, q) \/ (q = r /\ w \in Final)
<1> DEFINE T == Tell(t, r, w)
           A == Append(t[r], w)
           n == Len(t[r])
<1>1. T[r] = A /\ \A q \in Requests \ {r} : T[q] = t[q]
  BY DEF Tell, ToldType
<1>2. t[r] \in Seq(Words)
  BY DEF ToldType
<1>3. /\ DOMAIN t[r] = 1 .. n /\ n \in Nat
      /\ DOMAIN A = 1 .. n + 1 /\ Len(A) = n + 1
      /\ \A i \in 1 .. n : A[i] = t[r][i]
      /\ A[n + 1] = w
  BY <1>2
<1>4. \A i \in 1 .. n : t[r][i] \notin Final
  BY <1>3 DEF AnsweredIn
<1> HIDE DEF T, A, n
<1>5. \A i \in DOMAIN A : A[i] \in Final => i = Len(A) /\ w \in Final
  <2>1. ASSUME NEW i \in DOMAIN A, A[i] \in Final PROVE i = n + 1
    <3>1. i \in 1 .. n + 1
      BY <1>3, <2>1
    <3>2. i \notin 1 .. n
      BY <1>3, <1>4, <2>1
    <3> QED BY <1>3, <3>1, <3>2
  <2> QED BY <1>3, <2>1
<1>6. OnceIn(T)
  BY <1>1, <1>5 DEF OnceIn
<1>7. ASSUME NEW q \in Requests, AnsweredIn(T, q)
      PROVE  AnsweredIn(t, q) \/ (q = r /\ w \in Final)
  BY <1>1, <1>5, <1>7 DEF AnsweredIn
<1> QED BY <1>6, <1>7 DEF T

(* The user of a request that a socket holds is told something that is not *)
(* final.                                                                  *)
LEMMA TellHeld ==
  ASSUME NEW sk \in [Sockets -> SocketType], NEW t \in ToldType, NEW n \in Nat,
         OnceIn(t), HoldIn(sk, t, n), NEW s \in Sockets, sk[s].req # None,
         NEW w \in Words \ Final
  PROVE  OnceIn(Tell(t, sk[s].req, w)) /\ HoldIn(sk, Tell(t, sk[s].req, w), n)
<1> DEFINE r == sk[s].req
<1>t. \A q \in Sockets : sk[q].req \in Requests \cup {None}
  BY DEF SocketType
<1>1. r \in Requests /\ ~AnsweredIn(t, r)
  BY <1>t DEF HoldIn
<1>2. /\ OnceIn(Tell(t, r, w))
      /\ \A q \in Requests : AnsweredIn(Tell(t, r, w), q) => AnsweredIn(t, q)
  BY <1>1, TellSays
<1> HIDE DEF r
<1>3. HoldIn(sk, Tell(t, r, w), n)
  BY <1>t, <1>2 DEF HoldIn
<1> QED BY <1>2, <1>3 DEF r

(* What a socket holds is all that HoldIn asks of it.                      *)
LEMMA SameHeld ==
  ASSUME NEW a, NEW b, NEW t, NEW n, HoldIn(a, t, n), \A s \in Sockets : b[s].req = a[s].req
  PROVE  HoldIn(b, t, n)
BY DEF HoldIn

(* A socket lets its request go.                                           *)
LEMMA LetGo ==
  ASSUME NEW a, NEW b, NEW t, NEW n, HoldIn(a, t, n), NEW s \in Sockets, b[s].req = None,
         \A q \in Sockets \ {s} : b[q].req = a[q].req
  PROVE  HoldIn(b, t, n)
BY DEF HoldIn

(* The next request is given to a socket that has none.                    *)
LEMMA GiveNext ==
  ASSUME NEW a, NEW b, NEW t, NEW n \in Nat, HoldIn(a, t, n), NEW s \in Sockets,
         n + 1 \in Requests, b[s].req = n + 1,
         \A q \in Sockets \ {s} : b[q].req = a[q].req,
         \A q \in Sockets : a[q].req \in Requests \cup {None}
  PROVE  HoldIn(b, t, n + 1)
<1>1. Requests \subseteq Nat
  BY RequestAssumption DEF Requests
<1>2. ~AnsweredIn(t, n + 1)
  BY <1>1 DEF HoldIn
<1>3. \A q \in Sockets \ {s} : a[q].req # n + 1 \/ a[q].req = None
  BY <1>1 DEF HoldIn
<1>4. n + 1 # None
  BY NoneAssumption
<1>5. ASSUME NEW q \in Sockets, b[q].req # None
      PROVE  b[q].req <= n + 1 /\ ~AnsweredIn(t, b[q].req)
  <2>1. CASE q = s
    BY <1>1, <1>2, <2>1
  <2>2. CASE q # s
    <3>1. a[q].req = b[q].req /\ a[q].req <= n /\ ~AnsweredIn(t, a[q].req)
      BY <1>5, <2>2 DEF HoldIn
    <3>2. b[q].req \in Nat
      BY <1>1, <1>5, <3>1
    <3> QED BY <3>1, <3>2
  <2> QED BY <2>1, <2>2
<1>6. ASSUME NEW p \in Sockets, NEW q \in Sockets \ {p}, b[p].req # None
      PROVE  b[q].req # b[p].req
  BY <1>3, <1>4, <1>6 DEF HoldIn
<1>7. ASSUME NEW r \in Requests, AnsweredIn(t, r) PROVE r <= n + 1
  BY <1>1, <1>7 DEF HoldIn
<1> QED BY <1>5, <1>6, <1>7 DEF HoldIn

(* The user is told the final answer, and the socket lets its request go.  *)
LEMMA TellFinal ==
  ASSUME NEW a \in [Sockets -> SocketType], NEW b, NEW t \in ToldType, NEW n \in Nat,
         OnceIn(t), HoldIn(a, t, n), NEW s \in Sockets, a[s].req # None, NEW w \in Final,
         b[s].req = None, \A q \in Sockets \ {s} : b[q].req = a[q].req
  PROVE  OnceIn(Tell(t, a[s].req, w)) /\ HoldIn(b, Tell(t, a[s].req, w), n)
<1> DEFINE r == a[s].req
<1>t. \A q \in Sockets : a[q].req \in Requests \cup {None}
  BY DEF SocketType
<1>1. r \in Requests /\ ~AnsweredIn(t, r) /\ r <= n
  BY <1>t DEF HoldIn
<1>2. w \in Words
  BY DEF Words, Final
<1>3. /\ OnceIn(Tell(t, r, w))
      /\ \A q \in Requests : AnsweredIn(Tell(t, r, w), q) => AnsweredIn(t, q) \/ q = r
  BY <1>1, <1>2, TellSays
<1>4. \A q \in Sockets \ {s} : a[q].req # r
  BY DEF HoldIn
<1> HIDE DEF r
<1>5. HoldIn(b, Tell(t, r, w), n)
  BY <1>t, <1>1, <1>3, <1>4 DEF HoldIn
<1> QED BY <1>3, <1>5 DEF r

LEMMA TellNone ==
  ASSUME NEW t \in ToldType, NEW w PROVE Tell(t, None, w) = t
BY NoneAssumption DEF Tell, ToldType

(* socket_run, of a socket that has been given its request.                *)
LEMMA RunHold ==
  ASSUME TypeOK, NEW s \in Sockets, NEW k \in SocketType, NEW t \in ToldType,
         NEW n \in Nat, k.req # None, socket_run(s, k, t),
         OnceIn(t), HoldIn([socket EXCEPT ![s] = k], t, n)
  PROVE  OnceIn(told') /\ HoldIn(socket', told', n)
<1> DEFINE sk == [socket EXCEPT ![s] = k]
<1>1. sk \in [Sockets -> SocketType] /\ sk[s] = k
  BY DEF TypeOK
<1>2. \A q \in Sockets : socket'[q].req = sk[q].req
  BY <1>1, RunKeeps DEF TypeOK
<1>3. told' = t \/ told' = Tell(t, k.req, "unsent")
  BY DEF socket_run
<1>4. "unsent" \in Words \ Final
  BY DEF Words, Final
<1> HIDE DEF sk
<1>5. HoldIn(sk, t, n)
  BY DEF sk
<1>6. OnceIn(Tell(t, k.req, "unsent")) /\ HoldIn(sk, Tell(t, k.req, "unsent"), n)
  BY <1>1, <1>4, <1>5, TellHeld
<1>7. OnceIn(told') /\ HoldIn(sk, told', n)
  BY <1>3, <1>5, <1>6
<1> QED BY <1>2, <1>7, SameHeld

LEMMA HeadAfter ==
  ASSUME NEW S, NEW a \in Seq(S), NEW b \in Seq(S), b # <<>>
  PROVE  /\ Len(a) + 1 \in 1 .. Len(a) + Len(b)
         /\ (a \o b)[Len(a) + 1] = Head(b)
<1>1. Len(a) \in Nat /\ Len(b) \in Nat \ {0} /\ Head(b) = b[1]
  OBVIOUS
<1>2. Len(a) + 1 \in 1 .. Len(a) + Len(b) /\ ~(Len(a) + 1 <= Len(a)) /\ (Len(a) + 1) - Len(a) = 1
  BY <1>1
<1>3. (a \o b)[Len(a) + 1] = IF Len(a) + 1 <= Len(a) THEN a[Len(a) + 1] ELSE b[(Len(a) + 1) - Len(a)]
  BY <1>2, ConcatProperties, Zenon
<1> QED BY <1>1, <1>2, <1>3

(* The number of the request that gets a socket next.                      *)
LEMMA NextNumber ==
  ASSUME TypeOK, StartedInOrder, Running
  PROVE  /\ requests = <<>> => Len(started) = submitted
         /\ requests # <<>> => Head(requests) = Len(started) + 1
<1>1. /\ started \o requests = [i \in 1 .. submitted |-> i]
      /\ started \in Seq(Requests) /\ requests \in Seq(Requests) /\ submitted \in Nat
  BY RequestAssumption DEF TypeOK, StartedInOrder
<1>2. Len(started) + Len(requests) = submitted
  <2>1. Len(started \o requests) = Len(started) + Len(requests)
    BY <1>1
  <2>2. Len([i \in 1 .. submitted |-> i]) = submitted
    BY <1>1
  <2> QED BY <1>1, <2>1, <2>2
<1>3. ASSUME requests # <<>> PROVE Head(requests) = Len(started) + 1
  <2>1. /\ Len(started) + 1 \in 1 .. submitted
        /\ (started \o requests)[Len(started) + 1] = Head(requests)
    BY <1>1, <1>2, <1>3, HeadAfter
  <2> QED BY <1>1, <2>1
<1>4. ASSUME requests = <<>> PROVE Len(started) = submitted
  BY <1>1, <1>2, <1>4
<1> QED BY <1>3, <1>4

LEMMA AnswerInit == Init => AnswerInv
<1> SUFFICES ASSUME Init PROVE AnswerInv
  OBVIOUS
<1>1. OnceIn(told) /\ \A r \in Requests : ~AnsweredIn(told, r)
  BY DEF Init, OnceIn, AnsweredIn
<1>2. \A s \in Sockets : socket[s].req = None
  BY DEF Init, Unused
<1> QED BY <1>1, <1>2 DEF AnswerInv, HoldIn

LEMMA AnswerRequest ==
  ASSUME QueueInv, AnswerInv, NEW r \in Requests, agent_request(r)
  PROVE  AnswerInv'
<1> DEFINE n == Len(started)
<1>t. TypeOK /\ told \in ToldType /\ n \in Nat /\ Running
  BY DEF QueueInv, TypeOK, ToldType, Words, agent_request
<1>h. OnceIn(told) /\ HoldIn(socket, told, n)
  BY <1>t DEF AnswerInv
<1>1. CASE Enqueue(r)
  BY <1>1, <1>h DEF Enqueue, AnswerInv
<1>2. CASE Start(r)
  <2>1. PICK s \in IF free_sockets = {} THEN New ELSE free_sockets :
          LET k == IF free_sockets = {} THEN create_socket(r)
                   ELSE [socket[s] EXCEPT !.req = r]
          IN  IF recursive THEN socket_run(s, k, told)
              ELSE fault' = "stuck" /\ UNCHANGED told
    BY <1>2 DEF Start
  <2> DEFINE k == IF free_sockets = {} THEN create_socket(r)
                  ELSE [socket[s] EXCEPT !.req = r]
             b == [socket EXCEPT ![s] = k]
  <2>2. s \in Sockets
    BY <1>t, <2>1 DEF New, TypeOK
  <2>3. k \in SocketType /\ k.req = r
    <3>1. [socket[s] EXCEPT !.req = r] \in SocketType /\ [socket[s] EXCEPT !.req = r].req = r
      BY <1>t, <2>2 DEF TypeOK, SocketType
    <3>2. create_socket(r) \in SocketType /\ create_socket(r).req = r
      BY CreateType DEF create_socket, Unused
    <3> QED BY <3>1, <3>2
  <2>4. CASE recursive
    <3>1. socket_run(s, k, told)
      BY <2>1, <2>4
    <3> HIDE DEF k
    <3>2. r = n + 1 /\ started' = Append(started, r) /\ Len(started') = n + 1
      <4>1. requests = <<>> /\ r = submitted + 1
        BY <1>t, <1>2 DEF Start, QueueInv, WaitingMeansFull, agent_request
      <4>2. n = submitted
        BY <1>t, <4>1, NextNumber DEF QueueInv
      <4> QED BY <1>t, <1>2, <4>1, <4>2 DEF Start, TypeOK
    <3>3. b[s] = k /\ \A q \in Sockets \ {s} : b[q] = socket[q]
      BY <1>t, <2>2 DEF TypeOK
    <3>4. \A q \in Sockets : socket[q].req \in Requests \cup {None}
      BY <1>t DEF TypeOK, SocketType
    <3>5. HoldIn(b, told, n + 1)
      <4> HIDE DEF b
      <4> QED BY <1>t, <1>h, <2>2, <2>3, <3>2, <3>3, <3>4, GiveNext
    <3>6. k.req # None
      BY <2>3, NoneAssumption
    <3>7. OnceIn(told') /\ HoldIn(socket', told', n + 1)
      BY <1>t, <1>h, <2>2, <2>3, <3>1, <3>5, <3>6, RunHold
    <3> QED BY <3>2, <3>7 DEF AnswerInv
  <2>5. CASE ~recursive
    <3>1. fault' = "stuck" /\ told' = told
      BY <2>1, <2>5
    <3> QED BY <1>h, <3>1 DEF AnswerInv, Running
  <2> QED BY <2>4, <2>5
<1> QED BY <1>1, <1>2 DEF agent_request

LEMMA AnswerReadLast ==
  ASSUME QueueInv, AnswerInv, NEW s \in Sockets, ReadLast(s)
  PROVE  AnswerInv'
<1> DEFINE n == Len(started)
           k == [socket[s] EXCEPT !.status = "recv"]
           t == Tell(told, k.req, "response")
           b == [socket EXCEPT ![s] = [k EXCEPT !.req = None]]
<1>t. TypeOK /\ told \in ToldType /\ n \in Nat /\ Running
  BY DEF QueueInv, TypeOK, ToldType, Words, ReadLast
<1>h. OnceIn(told) /\ HoldIn(socket, told, n)
  BY <1>t DEF AnswerInv
<1>1. /\ k \in SocketType /\ k.req = socket[s].req /\ socket[s].req \in Requests
      /\ [k EXCEPT !.req = None] \in SocketType /\ [k EXCEPT !.req = None].req = None
  BY <1>t DEF ReadLast, TypeOK, SocketType
<1>2. RunNext(s, k, t) \/ SetFree(s, k, t)
  BY DEF ReadLast
<1>3. /\ b \in [Sockets -> SocketType] /\ b[s].req = None
      /\ \A q \in Sockets \ {s} : b[q] = socket[q]
  BY <1>t, <1>1 DEF TypeOK
<1>4. t \in ToldType
  BY <1>t, <1>1, TellType DEF Words
<1> HIDE DEF k, b, n
<1>5. OnceIn(t) /\ HoldIn(b, t, n)
  <2>1. socket \in [Sockets -> SocketType] /\ "response" \in Final /\ socket[s].req # None
    BY <1>t, <1>1, NoneAssumption DEF TypeOK, Final
  <2>2. /\ OnceIn(Tell(told, socket[s].req, "response"))
        /\ HoldIn(b, Tell(told, socket[s].req, "response"), n)
    BY <1>t, <1>h, <1>3, <2>1, TellFinal
  <2> QED BY <1>1, <2>2
<1> HIDE DEF t
<1>6. CASE RunNext(s, k, t)
  <2> DEFINE j == [k EXCEPT !.req = Head(requests)]
             c == [socket EXCEPT ![s] = j]
  <2>1. /\ Head(requests) = n + 1 /\ Head(requests) \in Requests
        /\ started' = Append(started, Head(requests)) /\ Len(started') = n + 1
    <3>1. Head(requests) = n + 1
      BY <1>t, <1>6, NextNumber DEF RunNext, QueueInv, n
    <3>2. Head(requests) \in Requests
      BY <1>t, <1>6, HeadTailProperties DEF RunNext, TypeOK
    <3> QED BY <1>t, <1>6, <3>1, <3>2 DEF RunNext, TypeOK, n
  <2>2. j \in SocketType /\ j.req = n + 1 /\ j.req # None
    BY <1>1, <2>1, NoneAssumption DEF SocketType
  <2>3. socket_run(s, j, t)
    BY <1>6 DEF RunNext
  <2> HIDE DEF j
  <2>4. c[s] = j /\ \A q \in Sockets \ {s} : c[q].req = b[q].req
    BY <1>t, <1>3 DEF TypeOK
  <2>5. \A q \in Sockets : b[q].req \in Requests \cup {None}
    BY <1>3 DEF SocketType
  <2>6. HoldIn(c, t, n + 1)
    <3> HIDE DEF c
    <3> QED BY <1>t, <1>5, <2>1, <2>2, <2>4, <2>5, GiveNext
  <2>7. OnceIn(told') /\ HoldIn(socket', told', n + 1)
    BY <1>t, <1>4, <1>5, <2>2, <2>3, <2>6, RunHold
  <2> QED BY <2>1, <2>7 DEF AnswerInv
<1>7. CASE SetFree(s, k, t)
  <2>1. /\ told' = t /\ started' = started
        /\ \/ socket' = [socket EXCEPT ![s] = destory_socket([k EXCEPT !.req = None])]
           \/ socket' = [socket EXCEPT ![s] = [k EXCEPT !.req = None]]
    BY <1>7 DEF SetFree
  <2>2. destory_socket([k EXCEPT !.req = None]).req = None
    BY <1>1 DEF destory_socket, SocketType
  <2>3. \A q \in Sockets : socket'[q].req = b[q].req
    BY <1>t, <1>1, <1>3, <2>1, <2>2 DEF TypeOK
  <2>4. HoldIn(socket', t, n)
    BY <1>5, <2>3, SameHeld
  <2> QED BY <1>5, <2>1, <2>4 DEF AnswerInv, n
<1> QED BY <1>2, <1>6, <1>7

LEMMA AnswerReadError ==
  ASSUME TypeOK, AnswerInv, NEW s \in Sockets, ReadError(s)
  PROVE  AnswerInv'
<1> DEFINE n == Len(started)
           k == [socket[s] EXCEPT !.status = "init", !.conn = "down"]
           t == IF socket[s].status = "send" /\ k.req # None
                THEN Tell(told, k.req, "failed") ELSE told
           b == [socket EXCEPT ![s] = destory_socket([k EXCEPT !.req = None])]
<1>t. socket \in [Sockets -> SocketType] /\ told \in ToldType /\ n \in Nat /\ Running
  BY DEF TypeOK, ToldType, Words, ReadError
<1>h. OnceIn(told) /\ HoldIn(socket, told, n)
  BY <1>t DEF AnswerInv
<1>1. k.req = socket[s].req /\ destory_socket([k EXCEPT !.req = None]).req = None
  BY <1>t DEF destory_socket, SocketType
<1>2. b[s].req = None /\ \A q \in Sockets \ {s} : b[q].req = socket[q].req
  BY <1>t, <1>1
<1>3. Fail(s, k, t)
  BY DEF ReadError
<1>4. /\ told' = t /\ started' = started
      /\ fault' = "crash" \/ socket' = b
  BY <1>3 DEF Fail
<1> HIDE DEF b, n
<1>5. OnceIn(t) /\ HoldIn(b, t, n)
  <2>1. CASE t = told
    BY <1>h, <1>2, <2>1, LetGo
  <2>2. CASE t # told
    <3>1. t = Tell(told, socket[s].req, "failed") /\ socket[s].req # None
      BY <1>1, <2>2
    <3>2. "failed" \in Final
      BY DEF Final
    <3> QED BY <1>t, <1>h, <1>2, <3>1, <3>2, TellFinal
  <2> QED BY <2>1, <2>2
<1> QED BY <1>4, <1>5 DEF AnswerInv, Running, n

LEMMA AnswerStep == QueueInv /\ AnswerInv /\ [Next]_vars => AnswerInv'
<1> SUFFICES ASSUME QueueInv, AnswerInv, [Next]_vars PROVE AnswerInv'
  OBVIOUS
<1> DEFINE n == Len(started)
<1>t. /\ TypeOK /\ socket \in [Sockets -> SocketType] /\ told \in ToldType /\ n \in Nat
      /\ \A s \in Sockets : socket[s].req \in Requests \cup {None}
  BY DEF QueueInv, TypeOK, ToldType, Words, SocketType
<1>1. ASSUME Running, started' = started, NEW w \in Words \ Final, NEW s \in Sockets,
             told' = told \/ told' = Tell(told, socket[s].req, w),
             \A q \in Sockets : socket'[q].req = socket[q].req
      PROVE  AnswerInv'
  <2>1. OnceIn(told) /\ HoldIn(socket, told, n)
    BY <1>1 DEF AnswerInv
  <2>2. CASE socket[s].req = None
    BY <1>t, <1>1, <2>1, <2>2, TellNone, SameHeld DEF AnswerInv
  <2>3. CASE socket[s].req # None
    <3>1. OnceIn(told') /\ HoldIn(socket, told', n)
      BY <1>t, <1>1, <2>1, <2>3, TellHeld
    <3> QED BY <1>1, <3>1, SameHeld DEF AnswerInv
  <2> QED BY <2>2, <2>3
<1>w. {"sent", "unsent"} \subseteq Words \ Final
  BY DEF Words, Final
<1>2. ASSUME NEW s \in Sockets, NEW ok \in BOOLEAN, connect_cb(s, ok) PROVE AnswerInv'
  <2>1. \A q \in Sockets : socket'[q].req = socket[q].req
    <3>1. CASE ok
      <4> DEFINE k == [socket[s] EXCEPT !.conn = "up", !.status = "connected"]
      <4>1. socket' = [socket EXCEPT ![s] = [k EXCEPT !.writing = TRUE]]
        BY <1>2, <3>1 DEF connect_cb, send_socket
      <4>2. [k EXCEPT !.writing = TRUE].req = socket[s].req
        BY <1>t DEF SocketType
      <4> QED BY <1>t, <4>1, <4>2
    <3>2. CASE ~ok
      BY <1>t, <1>2, <3>2 DEF connect_cb, SocketType
    <3> QED BY <3>1, <3>2
  <2> QED BY <1>1, <1>2, <1>w, <2>1 DEF connect_cb
<1>3. ASSUME NEW s \in Sockets, NEW ok \in BOOLEAN, write_cb(s, ok) PROVE AnswerInv'
  <2>1. \A q \in Sockets : socket'[q].req = socket[q].req
    BY <1>t, <1>3 DEF write_cb, SocketType
  <2>2. PICK w \in {"sent", "unsent"} : told' = told \/ told' = Tell(told, socket[s].req, w)
    BY <1>3 DEF write_cb
  <2> QED BY <1>1, <1>3, <1>w, <2>1, <2>2 DEF write_cb
<1>4. ASSUME NEW s \in Sockets, ReadPart(s) PROVE AnswerInv'
  <2>1. \A q \in Sockets : socket'[q].req = socket[q].req
    BY <1>t, <1>4 DEF ReadPart, SocketType
  <2> QED BY <1>1, <1>4, <1>w, <2>1 DEF ReadPart
<1>5. ASSUME NEW s \in Sockets, close_cb(s) PROVE AnswerInv'
  <2>1. OnceIn(told) /\ HoldIn(socket, told, n)
    BY <1>5 DEF AnswerInv, close_cb
  <2>2. /\ socket'[s].req = None /\ \A q \in Sockets \ {s} : socket'[q].req = socket[q].req
        /\ told' = told /\ started' = started
    BY <1>t, <1>5 DEF close_cb, Unused
  <2>3. HoldIn(socket', told, n)
    BY <2>1, <2>2, LetGo
  <2> QED BY <2>1, <2>2, <2>3 DEF AnswerInv
<1>6. CASE UNCHANGED vars
  BY <1>6 DEF vars, AnswerInv, Running
<1> QED BY <1>t, <1>2, <1>3, <1>4, <1>5, <1>6, AnswerRequest, AnswerReadLast, AnswerReadError
        DEF Next, Callback

(* The user of a request gets one final answer at most and nothing after   *)
(* it, whatever the peer does: no handler tells the request of a socket    *)
(* that another handler has finished with.                                 *)
THEOREM OneFinalAnswer == Spec => []AnsweredOnce
<1>1. AnswerInv => AnsweredOnce
  BY DEF AnswerInv, OnceIn, AnsweredOnce, Final
<1> QED BY <1>1, QueueInit, QueueStep, AnswerInit, AnswerStep, PTL DEF Spec

----------------------------------------------------------------------------
(* What can end the program.  Without early answers, only a dropped        *)
(* connection leaves a write behind whose request is gone; a socket that   *)
(* connects has a request and writes nothing; and an open socket without a *)
(* request is an idle one.                                                 *)

Careful == "early" \notin peer

SafeSocket(k) ==
  /\ k.writing /\ k.req = None => k.handle = "closing" /\ "drop" \in peer
  /\ k.conn = "connecting" => ~k.writing /\ k.req # None

IdleInv ==
  Running => \A s \in Sockets :
    socket[s].handle = "open" /\ socket[s].req = None => s \in free_sockets

CrashInv ==
  /\ CrashHasCause
  /\ Running /\ Careful => \A s \in Sockets : SafeSocket(socket[s])

LEMMA IdleInit == Init => IdleInv
BY DEF Init, IdleInv, Unused

(* socket_run keeps the handle of its socket, and its request.             *)
LEMMA RunIdle ==
  ASSUME TypeOK, IdleInv, Running, NEW s \in Sockets, NEW k, NEW t, k \in SocketType,
         k.req # None, socket_run(s, k, t),
         \A q \in Sockets \ {s} : q \in free_sockets => q \in free_sockets'
  PROVE  IdleInv'
<1>1. \E j \in SocketType : socket' = [socket EXCEPT ![s] = j] /\ j.req = k.req
  <2>1. \A c \in {"connecting", "refused"} :
          [k EXCEPT !.conn = c] \in SocketType /\ [k EXCEPT !.conn = c].req = k.req
    BY DEF SocketType
  <2>2. [k EXCEPT !.writing = TRUE] \in SocketType /\ [k EXCEPT !.writing = TRUE].req = k.req
    BY DEF SocketType
  <2> QED BY <2>1, <2>2 DEF socket_run, send_socket
<1> QED BY <1>1 DEF IdleInv, TypeOK

LEMMA IdleStep == TypeOK /\ IdleInv /\ [Next]_vars => IdleInv'
<1> SUFFICES ASSUME TypeOK, IdleInv, [Next]_vars PROVE IdleInv'
  OBVIOUS
<1>t. socket \in [Sockets -> SocketType]
  BY DEF TypeOK
<1>1. ASSUME NEW s \in Sockets, Running, socket'[s].handle = socket[s].handle,
             socket'[s].req = socket[s].req, UNCHANGED free_sockets,
             \A q \in Sockets \ {s} : socket'[q] = socket[q]
      PROVE  IdleInv'
  BY <1>1 DEF IdleInv
<1>2. ASSUME NEW r \in Requests, agent_request(r) PROVE IdleInv'
  <2>0. Running
    BY <1>2 DEF agent_request
  <2>1. CASE Enqueue(r)
    BY <2>0, <2>1 DEF Enqueue, IdleInv
  <2>2. CASE Start(r)
    <3>1. PICK s \in IF free_sockets = {} THEN New ELSE free_sockets :
            LET k == IF free_sockets = {} THEN create_socket(r)
                     ELSE [socket[s] EXCEPT !.req = r]
            IN  /\ free_sockets' = free_sockets \ {s}
                /\ IF recursive THEN socket_run(s, k, told) ELSE fault' = "stuck"
      BY <2>2 DEF Start
    <3> DEFINE k == IF free_sockets = {} THEN create_socket(r)
                    ELSE [socket[s] EXCEPT !.req = r]
    <3>2. s \in Sockets
      BY <3>1 DEF New, TypeOK
    <3>3. k \in SocketType /\ k.req = r
      <4>1. CASE free_sockets = {}
        BY <4>1, CreateType DEF create_socket, Unused
      <4>2. CASE free_sockets # {}
        BY <1>t, <3>2, <4>2 DEF SocketType
      <4> QED BY <4>1, <4>2
    <3>4. CASE recursive
      <4>1. socket_run(s, k, told) /\ free_sockets' = free_sockets \ {s}
        BY <3>1, <3>4
      <4>2. k.req # None
        BY <3>3, NoneAssumption
      <4> HIDE DEF k
      <4> QED BY <2>0, <3>2, <3>3, <4>1, <4>2, RunIdle
    <3>5. CASE ~recursive
      BY <3>1, <3>5 DEF IdleInv, Running
    <3> QED BY <3>4, <3>5
  <2> QED BY <1>2, <2>1, <2>2 DEF agent_request
<1>3. ASSUME NEW s \in Sockets, NEW ok \in BOOLEAN, connect_cb(s, ok) PROVE IdleInv'
  <2>1. /\ socket'[s].handle = socket[s].handle /\ socket'[s].req = socket[s].req
        /\ \A q \in Sockets \ {s} : socket'[q] = socket[q]
    BY <1>t, <1>3 DEF connect_cb, send_socket, SocketType
  <2> QED BY <1>1, <1>3, <2>1 DEF connect_cb, poolVars
<1>4. ASSUME NEW s \in Sockets, NEW ok \in BOOLEAN, write_cb(s, ok) PROVE IdleInv'
  <2>1. /\ socket'[s].handle = socket[s].handle /\ socket'[s].req = socket[s].req
        /\ \A q \in Sockets \ {s} : socket'[q] = socket[q]
    BY <1>t, <1>4 DEF write_cb, SocketType
  <2> QED BY <1>1, <1>4, <2>1 DEF write_cb, poolVars
<1>5. ASSUME NEW s \in Sockets, ReadPart(s) PROVE IdleInv'
  <2>1. /\ socket'[s].handle = socket[s].handle /\ socket'[s].req = socket[s].req
        /\ \A q \in Sockets \ {s} : socket'[q] = socket[q]
    BY <1>t, <1>5 DEF ReadPart, SocketType
  <2> QED BY <1>1, <1>5, <2>1 DEF ReadPart, poolVars
<1>6. ASSUME NEW s \in Sockets, ReadLast(s) PROVE IdleInv'
  <2> DEFINE k == [socket[s] EXCEPT !.status = "recv"]
             t == Tell(told, k.req, "response")
  <2>1. Running /\ k \in SocketType
    BY <1>t, <1>6 DEF ReadLast, SocketType
  <2>2. RunNext(s, k, t) \/ SetFree(s, k, t)
    BY <1>6 DEF ReadLast
  <2> HIDE DEF k, t
  <2>3. CASE RunNext(s, k, t)
    <3> DEFINE j == [k EXCEPT !.req = Head(requests)]
    <3>1. Head(requests) \in Requests
      BY <2>3, HeadTailProperties DEF RunNext, TypeOK
    <3>2. j \in SocketType /\ j.req # None
      BY <2>1, <3>1, NoneAssumption DEF SocketType
    <3>3. socket_run(s, j, t) /\ UNCHANGED free_sockets
      BY <2>3 DEF RunNext
    <3> HIDE DEF j
    <3> QED BY <2>1, <3>2, <3>3, RunIdle
  <2>4. CASE SetFree(s, k, t)
    <3> DEFINE j == [k EXCEPT !.req = None]
    <3>1. \/ socket' = [socket EXCEPT ![s] = destory_socket(j)] /\ UNCHANGED free_sockets
          \/ free_sockets' = free_sockets \cup {s} /\ socket' = [socket EXCEPT ![s] = j]
      BY <2>4 DEF SetFree
    <3>2. destory_socket(j).handle = "closing"
      BY <2>1 DEF destory_socket, SocketType
    <3> HIDE DEF j
    <3> QED BY <1>t, <2>1, <3>1, <3>2 DEF IdleInv
  <2> QED BY <2>2, <2>3, <2>4
<1>7. ASSUME NEW s \in Sockets, ReadError(s) PROVE IdleInv'
  <2> DEFINE k == [socket[s] EXCEPT !.status = "init", !.conn = "down"]
             j == destory_socket([k EXCEPT !.req = None])
  <2>1. j.handle = "closing"
    BY <1>t DEF destory_socket, SocketType
  <2>2. PICK t : Fail(s, k, t)
    BY <1>7 DEF ReadError
  <2>3. \/ fault' = "crash"
        \/ socket' = [socket EXCEPT ![s] = j] /\ free_sockets' = free_sockets \ {s}
    BY <2>2 DEF Fail
  <2> HIDE DEF j
  <2> QED BY <1>t, <1>7, <2>1, <2>3 DEF IdleInv, Running, ReadError
<1>8. ASSUME NEW s \in Sockets, close_cb(s) PROVE IdleInv'
  <2>1. socket' = [socket EXCEPT ![s] = Unused] /\ Unused.handle = "none"
    BY <1>8 DEF close_cb, Unused
  <2> QED BY <1>t, <1>8, <2>1 DEF close_cb, IdleInv, poolVars
<1>9. CASE UNCHANGED vars
  BY <1>9 DEF vars, IdleInv, Running, poolVars
<1> QED BY <1>2, <1>3, <1>4, <1>5, <1>6, <1>7, <1>8, <1>9 DEF Next, Callback

LEMMA CrashInit == Init => CrashInv
BY DEF Init, CrashInv, CrashHasCause, Careful, SafeSocket, Unused

(* socket_run, of a socket that has a request and nothing in flight.       *)
LEMMA RunSafe ==
  ASSUME TypeOK, Running, peer' = peer, NEW s \in Sockets, NEW k \in SocketType, NEW t,
         k.req # None, ~k.writing, k.conn # "connecting", socket_run(s, k, t),
         \A q \in Sockets \ {s} : SafeSocket(socket[q])
  PROVE  fault' = fault /\ \A q \in Sockets : SafeSocket(socket[q])'
<1>1. CASE k.status = "init"
  <2>1. fault' = fault /\ \E c \in {"connecting", "refused"} :
          socket' = [socket EXCEPT ![s] = [k EXCEPT !.conn = c]]
    BY <1>1 DEF socket_run
  <2>2. \A c \in {"connecting", "refused"} : SafeSocket([k EXCEPT !.conn = c])
    BY DEF SafeSocket, SocketType
  <2> QED BY <2>1, <2>2 DEF TypeOK, SafeSocket
<1>2. CASE k.status # "init"
  <2>1. fault' = fault /\ socket' = [socket EXCEPT ![s] = [k EXCEPT !.writing = TRUE]]
    BY <1>2 DEF socket_run, send_socket
  <2>2. SafeSocket([k EXCEPT !.writing = TRUE])
    BY DEF SafeSocket, SocketType
  <2> QED BY <2>1, <2>2 DEF TypeOK, SafeSocket
<1> QED BY <1>1, <1>2

(* A step that leaves no unsafe socket and does not end the program.       *)
LEMMA StaysSafe ==
  ASSUME Running, peer' = peer, fault' # "crash",
         \A q \in Sockets : SafeSocket(socket[q])'
  PROVE  CrashInv'
BY DEF CrashInv, CrashHasCause

LEMMA CrashRequest ==
  ASSUME UsableInv, CrashInv, Careful, NEW r \in Requests, agent_request(r)
  PROVE  CrashInv'
<1>t. TypeOK /\ Running /\ fault = "none" /\ peer' = peer
      /\ \A q \in Sockets : SafeSocket(socket[q])
  BY DEF UsableInv, agent_request, givenVars, Running, CrashInv
<1>1. CASE Enqueue(r)
  BY <1>1, <1>t, StaysSafe DEF Enqueue, SafeSocket
<1>2. CASE Start(r)
  <2>1. PICK s \in IF free_sockets = {} THEN New ELSE free_sockets :
          LET k == IF free_sockets = {} THEN create_socket(r)
                   ELSE [socket[s] EXCEPT !.req = r]
          IN  IF recursive THEN socket_run(s, k, told) ELSE fault' = "stuck"
    BY <1>2 DEF Start
  <2> DEFINE k == IF free_sockets = {} THEN create_socket(r)
                  ELSE [socket[s] EXCEPT !.req = r]
  <2>2. s \in Sockets
    BY <1>t, <2>1 DEF New, TypeOK
  <2>3. k \in SocketType /\ k.req = r /\ ~k.writing /\ k.conn # "connecting"
    <3>1. CASE free_sockets = {}
      BY <3>1, CreateType DEF create_socket, Unused
    <3>2. CASE free_sockets # {}
      <4>1. socket[s].conn = "up" /\ ~socket[s].writing /\ socket[s] \in SocketType
        BY <1>t, <2>1, <2>2, <3>2 DEF UsableInv, PooledAreUsable, Connected, SafeSocket, TypeOK
      <4> QED BY <3>2, <4>1 DEF SocketType
    <3> QED BY <3>1, <3>2
  <2>4. CASE recursive
    <3>1. socket_run(s, k, told)
      BY <2>1, <2>4
    <3>2. k.req # None
      BY <2>3, NoneAssumption
    <3> HIDE DEF k
    <3> QED BY <1>t, <2>2, <2>3, <3>1, <3>2, RunSafe, StaysSafe
  <2>5. CASE ~recursive
    BY <2>1, <2>5 DEF CrashInv, CrashHasCause, Running
  <2> QED BY <2>4, <2>5
<1> QED BY <1>1, <1>2 DEF agent_request

LEMMA CrashReadLast ==
  ASSUME UsableInv, CrashInv, Careful, NEW s \in Sockets, ReadLast(s)
  PROVE  CrashInv'
<1> DEFINE k == [socket[s] EXCEPT !.status = "recv"]
           t == Tell(told, k.req, "response")
<1>t. TypeOK /\ Running /\ fault = "none" /\ peer' = peer
      /\ \A q \in Sockets : SafeSocket(socket[q])
  BY DEF UsableInv, ReadLast, givenVars, Running, CrashInv
<1>1. k \in SocketType /\ ~k.writing /\ k.conn = "up" /\ k.handle = "open"
  BY <1>t DEF ReadLast, Answering, Careful, Connected, TypeOK, SocketType
<1>2. RunNext(s, k, t) \/ SetFree(s, k, t)
  BY DEF ReadLast
<1> HIDE DEF k, t
<1>3. CASE RunNext(s, k, t)
  <2> DEFINE j == [k EXCEPT !.req = Head(requests)]
  <2>1. Head(requests) \in Requests
    BY <1>t, <1>3, HeadTailProperties DEF RunNext, TypeOK
  <2>2. j \in SocketType /\ j.req # None /\ ~j.writing /\ j.conn # "connecting"
    BY <1>1, <2>1, NoneAssumption DEF SocketType
  <2>3. socket_run(s, j, t)
    BY <1>3 DEF RunNext
  <2> HIDE DEF j
  <2> QED BY <1>t, <2>2, <2>3, RunSafe, StaysSafe
<1>4. CASE SetFree(s, k, t)
  <2> DEFINE j == [k EXCEPT !.req = None]
  <2>1. fault' = fault /\ \/ socket' = [socket EXCEPT ![s] = destory_socket(j)]
                          \/ socket' = [socket EXCEPT ![s] = j]
    BY <1>4 DEF SetFree
  <2>2. SafeSocket(j) /\ SafeSocket(destory_socket(j))
    BY <1>1 DEF SafeSocket, destory_socket, SocketType
  <2> HIDE DEF j
  <2>3. \A q \in Sockets : SafeSocket(socket[q])'
    BY <1>t, <2>1, <2>2 DEF SafeSocket, TypeOK
  <2> QED BY <1>t, <2>1, <2>3, StaysSafe
<1> QED BY <1>2, <1>3, <1>4

LEMMA CrashReadError ==
  ASSUME UsableInv, CrashInv, Careful, NEW s \in Sockets, ReadError(s)
  PROVE  CrashInv'
<1> DEFINE k == [socket[s] EXCEPT !.status = "init", !.conn = "down"]
           j == destory_socket([k EXCEPT !.req = None])
           closed == [socket EXCEPT ![s] = j]
<1>t. TypeOK /\ Running /\ fault = "none" /\ peer' = peer
      /\ \A q \in Sockets : SafeSocket(socket[q])
  BY DEF UsableInv, ReadError, givenVars, Running, CrashInv
<1>1. /\ j.handle = "closing" /\ j.conn = "down" /\ j.req = None
      /\ j.writing = socket[s].writing
  BY <1>t DEF destory_socket, TypeOK, SocketType
<1>2. socket[s].handle = "open" /\ (socket[s].req = None \/ "drop" \in peer)
  BY DEF ReadError, Connected
<1>3. PICK t : Fail(s, k, t)
  BY DEF ReadError
<1> HIDE DEF j
<1>4. CASE s \in sockets /\ requests # <<>>
  <2>1. "drop" \in peer
    BY <1>t, <1>2, <1>4 DEF UsableInv, PooledAreUsable
  <2>2. PICK n \in New : socket' = [closed EXCEPT ![n] = create_socket(None)] /\ fault' = "crash"
    BY <1>3, <1>4 DEF Fail, j
  <2>3. n # s
    <3>1. socket[n] = Unused
      BY <2>2 DEF New
    <3>2. Unused.handle # "open"
      BY DEF Unused
    <3> QED BY <1>2, <3>1, <3>2
  <2>4. socket'[s].handle = "closing"
    BY <1>t, <1>1, <2>2, <2>3 DEF TypeOK
  <2> QED BY <1>t, <2>1, <2>2, <2>4 DEF CrashInv, CrashHasCause, Running
<1>5. CASE ~(s \in sockets /\ requests # <<>>)
  <2>1. socket' = closed /\ fault' = fault
    BY <1>3, <1>5 DEF Fail, j
  <2>2. SafeSocket(j)
    BY <1>t, <1>1, <1>2 DEF SafeSocket
  <2>3. \A q \in Sockets : SafeSocket(socket[q])'
    BY <1>t, <2>1, <2>2 DEF SafeSocket, TypeOK
  <2> QED BY <1>t, <2>1, <2>3, StaysSafe
<1> QED BY <1>4, <1>5

LEMMA CrashStep == UsableInv /\ IdleInv /\ CrashInv /\ [Next]_vars => CrashInv'
<1> SUFFICES ASSUME UsableInv, IdleInv, CrashInv, [Next]_vars PROVE CrashInv'
  OBVIOUS
<1>p. peer' = peer
  BY DEF Next, Callback, agent_request, connect_cb, write_cb, ReadPart, ReadLast,
         ReadError, close_cb, givenVars, vars
<1> SUFFICES ASSUME Careful PROVE CrashInv'
  BY <1>p DEF CrashInv, CrashHasCause, Careful
<1>t. TypeOK /\ socket \in [Sockets -> SocketType]
  BY DEF UsableInv, TypeOK
<1>1. ASSUME NEW s \in Sockets, Running, fault' # "crash", NEW k, SafeSocket(k),
             socket' = [socket EXCEPT ![s] = k]
      PROVE  CrashInv'
  <2>1. \A q \in Sockets : SafeSocket(socket[q])'
    BY <1>p, <1>t, <1>1 DEF CrashInv, SafeSocket
  <2> QED BY <1>p, <1>1, <2>1, StaysSafe
<1>2. ASSUME NEW s \in Sockets, NEW ok \in BOOLEAN, connect_cb(s, ok) PROVE CrashInv'
  <2>1. Running /\ fault = "none" /\ ~socket[s].writing /\ socket[s].req # None
    BY <1>2 DEF connect_cb, Running, CrashInv, SafeSocket
  <2>2. CASE ok
    <3> DEFINE k == [socket[s] EXCEPT !.conn = "up", !.status = "connected"]
    <3>1. ~k.writing /\ k.req # None
      BY <1>t, <2>1 DEF SocketType
    <3>2. fault' = fault /\ socket' = [socket EXCEPT ![s] = [k EXCEPT !.writing = TRUE]]
      BY <1>2, <2>2, <3>1 DEF connect_cb, send_socket
    <3>3. SafeSocket([k EXCEPT !.writing = TRUE])
      BY <1>t, <2>1 DEF SafeSocket, SocketType
    <3> QED BY <1>1, <2>1, <3>2, <3>3
  <2>3. CASE ~ok
    <3>1. fault' = fault /\ socket' = [socket EXCEPT ![s] = [socket[s] EXCEPT !.conn = "refused"]]
      BY <1>2, <2>3 DEF connect_cb
    <3>2. SafeSocket([socket[s] EXCEPT !.conn = "refused"])
      BY <1>t, <2>1 DEF SafeSocket, SocketType
    <3> QED BY <1>1, <2>1, <3>1, <3>2
  <2> QED BY <2>2, <2>3
<1>3. ASSUME NEW s \in Sockets, NEW ok \in BOOLEAN, write_cb(s, ok) PROVE CrashInv'
  <2> DEFINE k == [socket[s] EXCEPT !.writing = FALSE, !.status = IF ok THEN "send" ELSE @]
  <2>1. Running /\ fault = "none" /\ socket[s].writing /\ SafeSocket(socket[s])
    BY <1>3 DEF write_cb, Running, CrashInv
  <2>2. socket' = [socket EXCEPT ![s] = k]
    BY <1>3, <1>t DEF write_cb
  <2>3. CASE socket[s].req = None
    <3>1. fault' = "crash" /\ "drop" \in peer /\ k.handle = "closing"
      BY <1>3, <1>t, <2>1, <2>3 DEF write_cb, SafeSocket, SocketType
    <3> QED BY <1>p, <1>t, <2>2, <3>1 DEF CrashInv, CrashHasCause, Running
  <2>4. CASE socket[s].req # None
    <3>1. fault' = fault
      BY <1>3, <2>4 DEF write_cb
    <3>2. SafeSocket(k)
      BY <1>t, <2>1, <2>4 DEF SafeSocket, SocketType
    <3> QED BY <1>1, <2>1, <2>2, <3>1, <3>2
  <2> QED BY <2>3, <2>4
<1>4. ASSUME NEW s \in Sockets, ReadPart(s) PROVE CrashInv'
  <2>1. Running /\ fault = "none" /\ SafeSocket(socket[s]) /\ Connected(s)
    BY <1>4 DEF ReadPart, Running, CrashInv
  <2>2. CASE socket[s].req = None
    <3>1. fault' = "crash" /\ UNCHANGED <<peer, free_sockets>>
      BY <1>4, <2>2 DEF ReadPart, givenVars, poolVars
    <3>2. peer \cap {"unasked", "empty"} # {}
      BY <1>4, <2>2 DEF ReadPart, Answering
    <3>3. s \in free_sockets
      BY <2>1, <2>2 DEF IdleInv, Connected
    <3> QED BY <3>1, <3>2, <3>3 DEF CrashInv, CrashHasCause, Running
  <2>3. CASE socket[s].req # None
    <3>1. /\ fault' = fault
          /\ socket' = [socket EXCEPT ![s] = [socket[s] EXCEPT !.status = "recv"]]
      BY <1>4, <2>3 DEF ReadPart
    <3>2. SafeSocket([socket[s] EXCEPT !.status = "recv"])
      BY <1>t, <2>1 DEF SafeSocket, SocketType
    <3> QED BY <1>1, <2>1, <3>1, <3>2
  <2> QED BY <2>2, <2>3
<1>5. ASSUME NEW s \in Sockets, close_cb(s) PROVE CrashInv'
  BY <1>1, <1>5 DEF close_cb, Running, SafeSocket, Unused
<1>6. CASE UNCHANGED vars
  BY <1>6 DEF vars, givenVars, poolVars, CrashInv, CrashHasCause, Running, Careful, SafeSocket
<1> QED BY <1>2, <1>3, <1>4, <1>5, <1>6, CrashRequest, CrashReadLast, CrashReadError
        DEF Next, Callback

(* A peer that does not answer early can end the program in two ways: a    *)
(* connection that is in use is dropped, and its socket is closing when    *)
(* the program uses the request that went with it; or read_cb is called    *)
(* for a socket that is idle and looks for its request.                    *)
THEOREM CrashesHaveACause == Spec => []CrashHasCause
<1>1. CrashInv => CrashHasCause
  BY DEF CrashInv
<1>2. UsableInv => TypeOK
  BY DEF UsableInv
<1> QED BY <1>1, <1>2, UsableInit, UsableStep, IdleInit, IdleStep, CrashInit, CrashStep, PTL
        DEF Spec
=============================================================================
