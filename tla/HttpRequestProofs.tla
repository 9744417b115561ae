------------------------- MODULE HttpRequestProofs --------------------------
(***************************************************************************)
(* The head of a request says what the calls of add_req_header said, for   *)
(* any names and values and any number of calls, before request(), after   *)
(* it and behind the head.  And request() takes any URL, of any length,    *)
(* into the parts it was made from.                                        *)
(***************************************************************************)
EXTENDS MCHttpRequest, TextScanProofs, TLAPS

Calls == [key : Keys \cup Known, value : Values]

TypeInv ==
  /\ keep_alive \in BOOLEAN /\ chunked \in BOOLEAN
  /\ headers \in [DOMAIN headers -> Values \cup {Empty}]
  /\ made \in Seq(Calls)

(* Until the head is written the request itself says what was called: each *)
(* header in the map, the three known ones in their fields.                *)
RequestAsCalled ==
  /\ HeadersAsCalled(headers)
  /\ keep_alive <=> ~Said("connection", Close)
  /\ chunked <=> Said("transfer-encoding", Chunked)
  /\ LengthAsCalled(content_length)

HeadInv ==
  /\ TypeInv
  /\ written = NoHead => RequestAsCalled
  /\ HeadIsAsCalled

----------------------------------------------------------------------------
(* A sequence with one more element behind it.                             *)
LEMMA AppendFacts ==
  ASSUME NEW S, NEW s \in Seq(S), NEW e \in S
  PROVE  /\ Append(s, e) \in Seq(S)
         /\ Len(s) \in Nat
         /\ DOMAIN s = 1 .. Len(s)
         /\ DOMAIN Append(s, e) = 1 .. Len(s) + 1
         /\ \A i \in 1 .. Len(s) : Append(s, e)[i] = s[i]
         /\ Append(s, e)[Len(s) + 1] = e
  OBVIOUS

(* What a header that is put into the map leaves in it.                    *)
LEMMA PutHeaderFacts ==
  ASSUME NEW key, NEW value \in Values, PutHeader(key, value), TypeInv
  PROVE  /\ DOMAIN headers' = DOMAIN headers \cup {key}
         /\ key \notin DOMAIN headers => headers'[key] = value
         /\ \A k \in DOMAIN headers \ {key} : headers'[k] = headers[k]
         /\ headers' \in [DOMAIN headers' -> Values \cup {Empty}]
  BY DEF PutHeader, TypeInv

(* One more call: what was said before is still said, the last call for a  *)
(* name is the new one for its own name and the old one for others, and    *)
(* the new one is the only one for its name if there was none before.      *)
LEMMA OneMoreCall ==
  ASSUME NEW key \in Keys \cup Known, NEW value \in Values, made \in Seq(Calls),
         made' = Append(made, [key |-> key, value |-> value])
  PROVE  /\ made' \in Seq(Calls)
         /\ \A k, v : Said(k, v)' <=> Said(k, v) \/ (k = key /\ v = value)
         /\ {made'[i].key : i \in DOMAIN made'} = {made[i].key : i \in DOMAIN made} \cup {key}
         /\ \A i \in DOMAIN made' : IsLast(i)' =>
              \/ made'[i].key = key /\ made'[i].value = value
              \/ i \in DOMAIN made /\ made'[i] = made[i] /\ made[i].key # key /\ IsLast(i)
         /\ \A i \in DOMAIN made' : IsOnly(i)' =>
              \/ /\ made'[i].key = key /\ made'[i].value = value
                 /\ key \notin {made[j].key : j \in DOMAIN made}
              \/ i \in DOMAIN made /\ made'[i] = made[i] /\ made[i].key # key /\ IsOnly(i)
<1> DEFINE c == [key |-> key, value |-> value]
           n == Len(made)
<1>0. c \in Calls /\ c.key = key /\ c.value = value
  BY DEF Calls
<1> HIDE DEF c
<1>1. /\ made' \in Seq(Calls) /\ n \in Nat
      /\ DOMAIN made = 1 .. n /\ DOMAIN made' = 1 .. n + 1
      /\ \A i \in 1 .. n : made'[i] = made[i]
      /\ made'[n + 1] = c
  <2>1. made' = Append(made, c)
    BY DEF c
  <2>2. QED
    BY <1>0, <2>1, AppendFacts
<1>2. /\ DOMAIN made' = DOMAIN made \cup {n + 1}
      /\ n + 1 \notin DOMAIN made
      /\ \A i \in DOMAIN made : made'[i] = made[i] /\ ~(n + 1 <= i)
  BY <1>1
<1> HIDE DEF n
<1>3. ASSUME NEW k, NEW v
      PROVE  Said(k, v)' <=> Said(k, v) \/ (k = key /\ v = value)
  <2>1. c = [key |-> k, value |-> v] <=> (k = key /\ v = value)
    BY DEF c
  <2>2. QED
    BY <1>1, <1>2, <2>1 DEF Said
<1>4. {made'[i].key : i \in DOMAIN made'} = {made[i].key : i \in DOMAIN made} \cup {key}
  BY <1>0, <1>1, <1>2
<1>5. ASSUME NEW i \in DOMAIN made', IsLast(i)'
      PROVE  \/ made'[i].key = key /\ made'[i].value = value
             \/ i \in DOMAIN made /\ made'[i] = made[i] /\ made[i].key # key /\ IsLast(i)
  <2>1. CASE i = n + 1
    BY <2>1, <1>0, <1>1
  <2>2. CASE i \in DOMAIN made
    <3>1. made'[i] = made[i] /\ ~(n + 1 <= i)
      BY <2>2, <1>2
    <3>2. made[i].key # key
      BY <3>1, <1>0, <1>1, <1>2, <1>5 DEF IsLast
    <3>3. IsLast(i)
      BY <2>2, <3>1, <1>2, <1>5 DEF IsLast
    <3>4. QED
      BY <2>2, <3>1, <3>2, <3>3
  <2>3. QED
    BY <2>1, <2>2, <1>2
<1>6. ASSUME NEW i \in DOMAIN made', IsOnly(i)'
      PROVE  \/ /\ made'[i].key = key /\ made'[i].value = value
                /\ key \notin {made[j].key : j \in DOMAIN made}
             \/ i \in DOMAIN made /\ made'[i] = made[i] /\ made[i].key # key /\ IsOnly(i)
  <2>1. \A j \in DOMAIN made' : made'[j].key = made'[i].key => j = i
    BY <1>6 DEF IsOnly
  <2>2. CASE i = n + 1
    <3>1. \A j \in DOMAIN made : made[j].key # key
      BY <2>1, <2>2, <1>0, <1>1, <1>2
    <3>2. QED
      BY <2>2, <3>1, <1>0, <1>1
  <2>3. CASE i \in DOMAIN made
    <3>1. made'[i] = made[i] /\ i # n + 1
      BY <2>3, <1>2
    <3>2. made[i].key # key
      BY <2>1, <3>1, <1>0, <1>1, <1>2
    <3>3. IsOnly(i)
      BY <2>1, <2>3, <3>1, <1>2 DEF IsOnly
    <3>4. QED
      BY <2>3, <3>1, <3>2, <3>3
  <2>4. QED
    BY <2>2, <2>3, <1>2
<1>7. QED
  BY <1>1, <1>3, <1>4, <1>5, <1>6

----------------------------------------------------------------------------
(* A call before the head is written keeps the request as it was called.   *)
LEMMA AddHeaderKeepsRequest ==
  ASSUME HeadInv, NEW key \in Keys \cup Known, NEW value \in Values,
         AddHeader(key, value), written = NoHead,
         made' = Append(made, [key |-> key, value |-> value])
  PROVE  TypeInv' /\ RequestAsCalled'
<1>0. TypeInv /\ RequestAsCalled
  BY DEF HeadInv
<1>1. /\ made' \in Seq(Calls)
      /\ \A k, v : Said(k, v)' <=> Said(k, v) \/ (k = key /\ v = value)
      /\ {made'[i].key : i \in DOMAIN made'} = {made[i].key : i \in DOMAIN made} \cup {key}
      /\ \A i \in DOMAIN made' : IsLast(i)' =>
           \/ made'[i].key = key /\ made'[i].value = value
           \/ i \in DOMAIN made /\ made'[i] = made[i] /\ made[i].key # key /\ IsLast(i)
      /\ \A i \in DOMAIN made' : IsOnly(i)' =>
           \/ /\ made'[i].key = key /\ made'[i].value = value
              /\ key \notin {made[j].key : j \in DOMAIN made}
           \/ i \in DOMAIN made /\ made'[i] = made[i] /\ made[i].key # key /\ IsOnly(i)
  BY <1>0, OneMoreCall DEF TypeInv
<1>2. /\ key = "content-length" => content_length' = atoi(value)
      /\ key # "content-length" => content_length' = content_length
      /\ keep_alive' = (keep_alive /\ ~(key = "connection" /\ value = Close))
      /\ chunked' = (chunked \/ (key = "transfer-encoding" /\ value = Chunked))
      /\ key \in Known => headers' = headers
      /\ key \notin Known => PutHeader(key, value)
  BY <1>0 DEF AddHeader, Known, TypeInv
<1>3. TypeInv'
  <2>1. headers' \in [DOMAIN headers' -> Values \cup {Empty}]
    BY <1>0, <1>2, PutHeaderFacts DEF TypeInv
  <2>2. keep_alive' \in BOOLEAN /\ chunked' \in BOOLEAN
    BY <1>2
  <2>3. QED
    BY <1>1, <2>1, <2>2 DEF TypeInv
<1>4. keep_alive' <=> ~Said("connection", Close)'
  BY <1>0, <1>1, <1>2 DEF RequestAsCalled
<1>5. chunked' <=> Said("transfer-encoding", Chunked)'
  BY <1>0, <1>1, <1>2 DEF RequestAsCalled
<1>6. LengthAsCalled(content_length)'
  <2>1. ASSUME \A i \in DOMAIN made' : made'[i].key # "content-length"
        PROVE  content_length' = "0"
    <3>1. "content-length" \notin {made[i].key : i \in DOMAIN made} \cup {key}
      BY <1>1, <2>1
    <3>2. QED
      BY <1>0, <1>2, <3>1 DEF RequestAsCalled, LengthAsCalled
  <2>2. ASSUME NEW i \in DOMAIN made', made'[i].key = "content-length", IsLast(i)'
        PROVE  content_length' = atoi(made'[i].value)
    BY <1>0, <1>1, <1>2, <2>2 DEF RequestAsCalled, LengthAsCalled
  <2>3. QED
    BY <2>1, <2>2 DEF LengthAsCalled, atoi, Numbers
<1>7. HeadersAsCalled(headers)'
  <2>1. CASE key \in Known
    <3>1. headers' = headers /\ key \notin Keys
      BY <2>1, <1>2, KeysAssumption
    <3>2. ASSUME NEW i \in DOMAIN made', made'[i].key \in Keys, IsOnly(i)'
          PROVE  headers'[made'[i].key] = made'[i].value
      BY <1>0, <1>1, <3>1, <3>2 DEF RequestAsCalled, HeadersAsCalled
    <3>3. DOMAIN headers' = {made'[i].key : i \in DOMAIN made'} \cap Keys
      BY <1>0, <1>1, <3>1 DEF RequestAsCalled, HeadersAsCalled
    <3>4. QED
      BY <3>2, <3>3 DEF HeadersAsCalled
  <2>2. CASE key \notin Known
    <3>1. key \in Keys
      BY <2>2
    <3>2. /\ DOMAIN headers' = DOMAIN headers \cup {key}
          /\ key \notin DOMAIN headers => headers'[key] = value
          /\ \A k \in DOMAIN headers \ {key} : headers'[k] = headers[k]
      BY <2>2, <1>0, <1>2, PutHeaderFacts
    <3>3. DOMAIN headers' = {made'[i].key : i \in DOMAIN made'} \cap Keys
      BY <1>0, <1>1, <3>1, <3>2 DEF RequestAsCalled, HeadersAsCalled
    <3>4. ASSUME NEW i \in DOMAIN made', made'[i].key \in Keys, IsOnly(i)'
          PROVE  headers'[made'[i].key] = made'[i].value
      <4>1. CASE /\ made'[i].key = key /\ made'[i].value = value
                 /\ key \notin {made[j].key : j \in DOMAIN made}
        <5>1. key \notin DOMAIN headers
          BY <1>0, <4>1 DEF RequestAsCalled, HeadersAsCalled
        <5>2. QED
          BY <3>2, <4>1, <5>1
      <4>2. CASE i \in DOMAIN made /\ made'[i] = made[i] /\ made[i].key # key /\ IsOnly(i)
        BY <1>0, <3>2, <3>4, <4>2 DEF RequestAsCalled, HeadersAsCalled
      <4>3. QED
        BY <1>1, <3>4, <4>1, <4>2
    <3>5. QED
      BY <3>3, <3>4 DEF HeadersAsCalled
  <2>3. QED
    BY <2>1, <2>2
<1>8. QED
  BY <1>3, <1>4, <1>5, <1>6, <1>7 DEF RequestAsCalled

(* What is said of a head that is written stays true while it and the      *)
(* record of the calls stay.                                               *)
LEMMA HeadStays ==
  ASSUME HeadIsAsCalled, written' = written, made' = made
  PROVE  HeadIsAsCalled'
  BY DEF HeadIsAsCalled, HeadersAsCalled, LengthAsCalled, Said, IsLast, IsOnly

(* What the request says stays while it and the record stay.               *)
LEMMA RequestStays ==
  ASSUME RequestAsCalled, made' = made, headers' = headers, keep_alive' = keep_alive,
         chunked' = chunked, content_length' = content_length
  PROVE  RequestAsCalled'
  BY DEF RequestAsCalled, HeadersAsCalled, LengthAsCalled, Said, IsLast, IsOnly

(* creat_request leaves a request that says nothing yet.                   *)
LEMMA InitHead == MCInit => HeadInv
<1> SUFFICES ASSUME MCInit PROVE HeadInv
  OBVIOUS
<1>1. TypeInv
  <2>1. headers = <<>> /\ <<>> \in Seq(Values) /\ Len(<<>>) = 0
    BY DEF MCInit, Init
  <2>2. headers \in [DOMAIN headers -> Values \cup {Empty}]
    BY <2>1
  <2>3. made \in Seq(Calls)
    BY DEF MCInit
  <2>4. keep_alive \in BOOLEAN /\ chunked \in BOOLEAN
    BY DEF MCInit, Init
  <2>5. QED
    BY <2>2, <2>3, <2>4 DEF TypeInv
<1>2. RequestAsCalled
  BY DEF MCInit, Init, RequestAsCalled, HeadersAsCalled, LengthAsCalled, Said
<1>3. HeadIsAsCalled
  BY DEF MCInit, Init, HeadIsAsCalled
<1>4. QED
  BY <1>1, <1>2, <1>3 DEF HeadInv

(* Every call keeps the request, and then the head, as it was called.      *)
LEMMA NextHead == HeadInv /\ [MCNext]_<<vars, parts, made>> => HeadInv'
<1> SUFFICES ASSUME HeadInv, [MCNext]_<<vars, parts, made>> PROVE HeadInv'
  OBVIOUS
<1>0. TypeInv /\ (written = NoHead => RequestAsCalled) /\ HeadIsAsCalled
  BY DEF HeadInv
<1>1. ASSUME NEW key \in Keys \cup Known, NEW value \in Values, AddHeader(key, value),
             made' = IF written = NoHead THEN Append(made, [key |-> key, value |-> value]) ELSE made
      PROVE  HeadInv'
  <2>0. written' = written
    BY <1>1 DEF AddHeader
  <2>1. CASE written = NoHead
    <3>1. TypeInv' /\ RequestAsCalled'
      BY <1>1, <2>1, AddHeaderKeepsRequest
    <3>2. HeadIsAsCalled'
      BY <2>0, <2>1 DEF HeadIsAsCalled
    <3>3. QED
      BY <3>1, <3>2 DEF HeadInv
  <2>2. CASE written # NoHead
    <3>1. HeadIsAsCalled'
      BY <1>0, <1>1, <2>0, <2>2, HeadStays
    <3>2. headers' = headers \/ PutHeader(key, value)
      BY <1>1 DEF AddHeader
    <3>3. headers' \in [DOMAIN headers' -> Values \cup {Empty}]
      BY <1>0, <3>2, PutHeaderFacts DEF TypeInv
    <3>4. keep_alive' \in BOOLEAN /\ chunked' \in BOOLEAN
      BY <1>0, <1>1 DEF AddHeader, TypeInv
    <3>5. QED
      BY <1>0, <1>1, <2>0, <2>2, <3>1, <3>3, <3>4 DEF HeadInv, TypeInv
  <2>3. QED
    BY <2>1, <2>2
<1>2. ASSUME made' = made, written' = written, headers' = headers, keep_alive' = keep_alive,
             chunked' = chunked, content_length' = content_length
      PROVE  HeadInv'
  <2>1. HeadIsAsCalled'
    BY <1>0, <1>2, HeadStays
  <2>2. written' = NoHead => RequestAsCalled'
    BY <1>0, <1>2, RequestStays
  <2>3. TypeInv'
    BY <1>0, <1>2 DEF TypeInv
  <2>4. QED
    BY <2>1, <2>2, <2>3 DEF HeadInv
<1>3. ASSUME Send, made' = made
      PROVE  HeadInv'
  <2>0. written = NoHead /\ written'.head = generic_request_header
    BY <1>3 DEF Send
  <2>1. RequestAsCalled /\ RequestAsCalled'
    BY <1>0, <1>3, <2>0, RequestStays DEF Send
  <2>2. TypeInv'
    BY <1>0, <1>3 DEF TypeInv, Send
  <2>3. /\ written'.head.headers = headers
        /\ written'.head.connection = IF keep_alive THEN "Keep-Alive" ELSE "Close"
        /\ written'.head.framing = IF chunked THEN Chunked ELSE content_length
    BY <2>0 DEF generic_request_header
  <2>4. HeadIsAsCalled'
    BY <1>3, <2>1, <2>3
       DEF HeadIsAsCalled, RequestAsCalled, HeadersAsCalled, LengthAsCalled, Said, IsLast, IsOnly
  <2>5. QED
    BY <2>1, <2>2, <2>4 DEF HeadInv
<1>4. CASE MCNext
  <2>1. CASE (\E part \in Parts : AddBody(part)) /\ UNCHANGED made
    BY <1>2, <2>1 DEF AddBody
  <2>2. CASE Request /\ UNCHANGED made
    BY <1>2, <2>2 DEF Request
  <2>3. QED
    BY <1>1, <1>3, <1>4, <2>1, <2>2 DEF MCNext
<1>5. CASE UNCHANGED <<vars, parts, made>>
  BY <1>2, <1>5 DEF vars
<1>6. QED
  BY <1>4, <1>5

(* Whatever is called, and in whatever order, the head that is handed to   *)
(* uv_write says what add_req_header was told until then: request.c keeps  *)
(* each header, with its value if it was added once, the three known ones  *)
(* in their fields, and no later call changes the head.                    *)
THEOREM HeadSaysTheCalls == MCSpec => []HeadIsAsCalled
<1>1. HeadInv => HeadIsAsCalled
  BY DEF HeadInv
<1>2. QED
  BY InitHead, NextHead, <1>1, PTL DEF MCSpec

----------------------------------------------------------------------------
(* Symbols are found in a text if they are read somewhere in it.           *)
LEMMA FoundIs ==
  ASSUME NEW s, NEW n, IsText(s, n), \A k \in 1 .. n : s[k] # NUL, NEW i \in Nat, i >= 1, NEW w
  PROVE  Found(s, i, w) <=> \E j \in i .. n : Reads(s, j, w)
<1> DEFINE P == {j \in DOMAIN s : Reads(s, j, w)}
           u == Until(s, i, P)
<1>n. n = Len(s) /\ n \in Nat /\ DOMAIN s = 1 .. n
  BY DEF IsText
<1>0. Found(s, i, w) <=> At(s, u) # NUL
  BY DEF Found, Find
<1>1. ASSUME At(s, u) # NUL PROVE \E j \in i .. n : Reads(s, j, w)
  <2>1. FirstOf(u, n, i, P)
    <3> HIDE DEF P
    <3> QED BY UntilIs
  <2>2. u \in Nat
    BY <2>1 DEF FirstOf
  <2>3. u <= n
    <3> HIDE DEF u
    <3> QED BY <1>1, <2>2, AtEnd
  <2>4. u \in P /\ u \in i .. n
    <3> HIDE DEF u, P
    <3> QED BY <2>1, <2>2, <2>3, <1>n DEF FirstOf
  <2> QED BY <2>4
<1>2. ASSUME NEW j \in i .. n, Reads(s, j, w) PROVE At(s, u) # NUL
  <2> DEFINE T == {k \in i .. n : k \in P}
  <2>1. j \in P
    BY <1>2, <1>n
  <2> HIDE DEF P
  <2>2. T \subseteq Nat /\ j \in T
    BY <2>1, <1>n
  <2>3. PICK m \in T : \A k \in T : m <= k
    <3> HIDE DEF T
    <3> QED BY <2>2, Least
  <2>4. m \in i .. n + 1 /\ m \in P /\ \A k \in i .. m - 1 : k \notin P
    BY <2>3, <1>n
  <2>5. u = m
    BY <2>4, UntilMeets
  <2>6. m \in 1 .. n
    BY <2>3, <1>n
  <2> HIDE DEF u
  <2> QED BY <2>5, <2>6, <1>n DEF At
<1> QED BY <1>0, <1>1, <1>2

----------------------------------------------------------------------------
(* An address with its port, as it stands in a URL or is set as the host.  *)
InHost == Symbols \ {"/"}

(* No symbol of a URL is mistaken for another, or for the end of it.       *)
LEMMA WordsAreSymbols ==
  /\ \A w \in Words : w \in InHost /\ w # ":" /\ w # "/" /\ w # NUL
  /\ \A w \in InHost : w \in Symbols /\ w # "/" /\ w # NUL
  /\ \A w \in Symbols : w # NUL /\ w # "NULL"
  /\ ":" \in InHost /\ "/" \in Symbols /\ ":" \in Symbols
<1>1. NULL[1] = "NULL"
  BY DEF NULL
<1> QED BY <1>1, SymbolAssumption DEF Words, InHost

(* request() divides a host at its first colon.                            *)
HostTaken(h, t) ==
  LET colon == Find(h, 1, <<":">>)
  IN /\ Part(h, 1, colon) = t.addr
     /\ At(h, colon) = NUL <=> t.port = <<>>
     /\ t.port # <<>> => SubSeq(h, colon + 1, Len(h)) = t.port

EndsInWord(h) == Len(h) >= 1 => h[Len(h)] # ":"

(* From what WithPort puts together request() takes the same parts again.  *)
LEMMA HostIs ==
  ASSUME NEW t, IsTarget(t), NEW h, h = WithPort(t.addr, t.port)
  PROVE  h \in Seq(InHost) /\ HostTaken(h, t) /\ EndsInWord(h)
<1> DEFINE a == t.addr
           b == t.port
           c == Find(h, 1, <<":">>)
           m == Len(a)
           n == Len(h)
<1>1. a \in Seq(Words) /\ b \in Seq(Words)
  BY DEF IsTarget
<1>2. a \in Seq(InHost) /\ b \in Seq(InHost) /\ <<":">> \in Seq(InHost)
  <2>1. Words \subseteq InHost /\ ":" \in InHost
    BY WordsAreSymbols
  <2> QED BY <1>1, <2>1
<1>3. \A i \in 1 .. m : a[i] # ":"
  <2>1. \A i \in 1 .. m : a[i] \in Words
    BY <1>1, ElementOfSeq
  <2> QED BY <2>1, WordsAreSymbols
<1>m. m \in Nat
  BY <1>1
<1>4. CASE b = <<>>
  <2>1. h = a
    <3>1. h = a \o <<>>
      BY <1>4 DEF WithPort
    <3> QED BY <3>1, <1>1, ConcatEmptySeq
  <2>2. IsText(h, n) /\ n = m /\ n \in Nat
    BY <1>2, <2>1 DEF IsText
  <2> HIDE DEF n, m, a
  <2>3. c = n + 1
    <3>1. n + 1 \in 1 .. n + 1 /\ \A k \in 1 .. (n + 1) - 1 : h[k] # ":"
      BY <2>1, <2>2, <1>3
    <3> QED BY <3>1, <2>2, MarkIs
  <2> HIDE DEF c
  <2>4. Part(h, 1, c) = a
    <3>1. Part(h, 1, c) = SubSeq(h, 1, n)
      BY <2>2, <2>3 DEF Part
    <3>2. SubSeq(h, 1, n) = h
      BY <1>2, <2>1, SubSeqFull DEF n
    <3> QED BY <2>1, <3>1, <3>2
  <2>5. At(h, c) = NUL
    BY <2>2, <2>3 DEF At, IsText
  <2>6. EndsInWord(h)
    BY <1>3, <2>1, <2>2 DEF EndsInWord, n
  <2> QED BY <1>2, <2>1, <2>4, <2>5, <2>6, <1>4 DEF HostTaken, c, a
<1>5. CASE b # <<>>
  <2> DEFINE k == <<":">>
             r == k \o b
             q == Len(b)
  <2>1. h = a \o r /\ k \in Seq(InHost) /\ Len(k) = 1 /\ k[1] = ":"
    BY <1>2, <1>5 DEF WithPort
  <2>2. q \in Nat /\ q >= 1 /\ b[q] # ":"
    <3>1. q \in Nat /\ q >= 1
      BY <1>1, <1>5
    <3> QED BY <1>1, <3>1, WordsAreSymbols, ElementOfSeq
  <2> HIDE DEF k, a, b, q
  <2> DEFINE one == 1
  <2>0. one = Len(k) /\ q = Len(b) /\ b \in Seq(InHost) /\ k \in Seq(InHost)
    BY <1>2, <2>1 DEF q
  <2> HIDE DEF one
  <2>3. Joined(InHost, r, k, one, b, q)
    BY <2>0, PartsOf
  <2>3a. /\ r \in Seq(InHost) /\ Len(r) = 1 + q
         /\ r[1] = ":"
         /\ \A i \in 1 .. q : r[1 + i] = b[i]
    <3> HIDE DEF r
    <3>1. \A i \in 1 .. 1 : r[0 + i] = k[i]
      BY <2>3 DEF Joined, Stands, one
    <3>2. r[0 + 1] = k[1]
      BY <3>1
    <3> QED BY <2>1, <2>3, <3>2 DEF Joined, Stands, one
  <2> DEFINE w == Len(r)
  <2>3b. w = 1 + q /\ w = Len(r) /\ m = Len(a) /\ a \in Seq(InHost) /\ r \in Seq(InHost)
    BY <1>2, <2>3a
  <2> HIDE DEF r, m, n, w
  <2>3c. Joined(InHost, h, a, m, r, w)
    BY <2>1, <2>3b, PartsOf
  <2>4. /\ h \in Seq(InHost) /\ n = m + (1 + q)
        /\ \A i \in 1 .. m : h[i] = a[i]
        /\ \A i \in 1 .. 1 + q : h[m + i] = r[i]
        /\ SubSeq(h, 1, m) = a
    <3>1. h \in Seq(InHost) /\ n = m + w /\ SubSeq(h, 1, m) = a
      BY <2>3c DEF Joined, n
    <3>2. Stands(h, 0, a, m) /\ Stands(h, m, r, w)
      BY <2>3c DEF Joined
    <3>3. \A i \in 1 .. m : h[i] = a[i]
      <4>1. \A i \in 1 .. m : h[0 + i] = a[i]
        BY <3>2 DEF Stands
      <4>2. \A i \in 1 .. m : 0 + i = i
        BY <1>m
      <4> QED BY <4>1, <4>2
    <3>4. \A i \in 1 .. w : h[m + i] = r[i]
      BY <3>2 DEF Stands
    <3> QED BY <3>1, <3>3, <3>4, <2>3b
  <2>5. h[m + 1] = ":"
    BY <2>2, <2>3a, <2>4
  <2>6. IsText(h, n) /\ n \in Nat /\ m + 1 \in 1 .. n
    BY <2>2, <2>4, <1>m DEF IsText, n
  <2> DEFINE j == m + 1
  <2>7. j \in Nat /\ \A i \in 1 .. q : h[j + i] = b[i]
    <3> SUFFICES ASSUME NEW i \in 1 .. q PROVE h[j + i] = b[i]
      BY <1>m
    <3>1. 1 + i \in 1 .. 1 + q /\ m + (1 + i) = j + i
      BY <1>m, <2>2
    <3> QED BY <3>1, <2>3a, <2>4
  <2>8. j \in 1 .. n + 1 /\ h[j] = ":" /\ (\A i \in 1 .. j - 1 : h[i] # ":") /\ n = j + q /\ j - 1 = m
    BY <2>4, <2>5, <2>6, <1>3, <1>m, <2>2
  <2> HIDE DEF j
  <2>9. c = j
    BY <2>6, <2>8, MarkIs
  <2> HIDE DEF c
  <2>10. Part(h, 1, c) = a
    BY <2>4, <2>8, <2>9 DEF Part
  <2>11. At(h, c) # NUL
    BY <2>6, <2>7, <2>8, <2>9, WordsAreSymbols DEF At, IsText, j
  <2>12. SubSeq(h, c + 1, n) = b
    <3>0. Stands(h, j, b, q)
      BY <2>2, <2>7 DEF Stands, q
    <3>1. SubSeq(h, j + 1, j + q) = b
      BY <1>2, <3>0, SliceIs
    <3> QED BY <3>1, <2>8, <2>9
  <2>13. EndsInWord(h)
    <3>1. h[n] = b[q]
      BY <2>2, <2>7, <2>8
    <3> QED BY <3>1, <2>2 DEF EndsInWord, n
  <2> QED BY <1>5, <2>4, <2>10, <2>11, <2>12, <2>13 DEF HostTaken, c, n, a, b
<1> QED BY <1>4, <1>5

----------------------------------------------------------------------------
(* Where the parts of a URL are in it.                                     *)
Three(S, s, a, k, b, m, c, l) ==
  /\ s \in Seq(S) /\ k \in Nat /\ m \in Nat /\ l \in Nat /\ Len(s) = k + m + l
  /\ Stands(s, 0, a, k) /\ Stands(s, k, b, m) /\ Stands(s, k + m, c, l)
  /\ SubSeq(s, k + 1, k + m) = b
  /\ SubSeq(s, k + m + 1, k + m + l) = c

(* Three texts put together, and the parts taken from there.               *)
LEMMA ThreeParts ==
  ASSUME NEW S, NEW a \in Seq(S), NEW b \in Seq(S), NEW c \in Seq(S),
         NEW k, NEW m, NEW l, k = Len(a), m = Len(b), l = Len(c)
  PROVE  Three(S, a \o b \o c, a, k, b, m, c, l)
<1> DEFINE r == a \o b
           s == r \o c
           q == k + m
<1>1. Joined(S, r, a, k, b, m)
  BY PartsOf
<1> HIDE DEF r
<1>2. r \in Seq(S) /\ q = Len(r)
  BY <1>1 DEF Joined
<1> HIDE DEF q
<1>3. Joined(S, s, r, q, c, l)
  BY <1>2, PartsOf
<1> HIDE DEF s
<1>4. k \in Nat /\ m \in Nat /\ l \in Nat /\ q = k + m
  BY <1>1, <1>3 DEF Joined, q
<1>5. \A i \in 1 .. q : s[0 + i] = r[i]
  BY <1>3 DEF Joined, Stands
<1>6. Stands(s, 0, a, k)
  <2> SUFFICES ASSUME NEW i \in 1 .. k PROVE s[0 + i] = a[i]
    BY <1>4 DEF Stands
  <2>1. i \in 1 .. q /\ 0 + i = i /\ r[0 + i] = a[i]
    BY <1>1, <1>4 DEF Joined, Stands
  <2> QED BY <2>1, <1>5
<1>7. Stands(s, k, b, m)
  <2> SUFFICES ASSUME NEW i \in 1 .. m PROVE s[k + i] = b[i]
    BY <1>4 DEF Stands
  <2>1. k + i \in 1 .. q /\ 0 + (k + i) = k + i /\ r[k + i] = b[i]
    BY <1>1, <1>4 DEF Joined, Stands
  <2> QED BY <2>1, <1>5
<1>8. SubSeq(s, k + 1, k + m) = b
  BY <1>7, SliceIs
<1>9. Three(S, s, a, k, b, m, c, l)
  BY <1>3, <1>4, <1>6, <1>7, <1>8 DEF Three, Joined
<1> QED BY <1>9 DEF s, r

Prefix(u) == IF u.scheme = <<>> THEN <<>> ELSE u.scheme \o <<":", "/", "/">>

(* A URL of n symbols: a scheme of p symbols with its marks, a host of h   *)
(* symbols, a path of l.                                                   *)
Layout(s, u, n, p, h, l) ==
  /\ n \in Nat /\ p \in {0, 4} /\ h \in Nat /\ l \in Nat
  /\ IsText(s, n) /\ n = p + h + l /\ h = Len(WithPort(u.addr, u.port)) /\ l = Len(u.path)
  /\ \A i \in 1 .. n : s[i] \in Symbols
  /\ p = 0 <=> u.scheme = <<>>
  /\ p = 4 => u.scheme = <<s[1]>> /\ s[2] = ":" /\ s[3] = "/" /\ s[4] = "/"
  /\ \A i \in 1 .. h : s[p + i] = WithPort(u.addr, u.port)[i]
  /\ \A i \in 1 .. l : s[p + h + i] = u.path[i]
  /\ SubSeq(s, p + 1, p + h) = WithPort(u.addr, u.port)
  /\ SubSeq(s, p + h + 1, n) = u.path

(* Every URL made from parts is laid out like that.                        *)
LEMMA UrlIs ==
  ASSUME NEW u, IsURL(u), NEW s, s = Rendered(u)
  PROVE  \E n, p, h, l : Layout(s, u, n, p, h, l)
<1> DEFINE a == Prefix(u)
           b == WithPort(u.addr, u.port)
           c == u.path
           p == Len(a)
           h == Len(b)
           l == Len(c)
           n == Len(s)
<1>1. s = a \o b \o c
  BY DEF Rendered, Prefix
<1>2. b \in Seq(Symbols)
  <2>1. b \in Seq(InHost)
    BY HostIs DEF IsURL
  <2> HIDE DEF b
  <2> QED BY <2>1, WordsAreSymbols
<1>3. c \in Seq(Symbols)
  BY DEF IsURL
<1>4. /\ a \in Seq(Symbols) /\ p \in {0, 4} /\ (p = 0 <=> u.scheme = <<>>)
      /\ p = 4 => u.scheme = <<a[1]>> /\ a[2] = ":" /\ a[3] = "/" /\ a[4] = "/"
  <2>1. CASE u.scheme = <<>>
    BY <2>1 DEF Prefix
  <2>2. CASE u.scheme # <<>>
    <3> DEFINE d == u.scheme
               e == <<":", "/", "/">>
    <3>1. d \in Seq(Symbols) /\ Len(d) = 1 /\ d = <<d[1]>>
      <4>1. d \in Seq(Words) /\ Len(d) <= 1 /\ Len(d) \in Nat \ {0}
        BY <2>2 DEF IsURL
      <4>2. d \in Seq(Symbols)
        BY <4>1 DEF Words
      <4> HIDE DEF d
      <4>3. Len(d) = 1 /\ d[1] \in Symbols
        <5>1. Len(d) = 1
          <6> DEFINE q == Len(d)
          <6>1. q \in Nat /\ q # 0 /\ q <= 1
            BY <4>1
          <6> HIDE DEF q
          <6>2. q = 1
            BY <6>1
          <6> QED BY <6>2 DEF q
        <5>2. 1 \in 1 .. Len(d)
          BY <5>1
        <5> QED BY <4>2, <5>1, <5>2, ElementOfSeq
      <4>4. <<d[1]>> \in Seq(Symbols) /\ Len(<<d[1]>>) = 1 /\ <<d[1]>>[1] = d[1]
        BY <4>3
      <4>5. d = <<d[1]>>
        <5> DEFINE f == <<d[1]>>
        <5>1. f \in Seq(Symbols) /\ Len(f) = 1 /\ f[1] = d[1]
          BY <4>4
        <5> HIDE DEF d, f
        <5>2. d = f
          BY <4>2, <4>3, <5>1, SeqEqual
        <5> QED BY <5>2 DEF f
      <4> QED BY <4>2, <4>3, <4>5
    <3>2. /\ e \in Seq(Symbols) /\ Len(e) = 3 /\ e[1] = ":" /\ e[2] = "/" /\ e[3] = "/"
      BY SymbolAssumption
    <3>3. a = d \o e
      BY <2>2 DEF Prefix
    <3> HIDE DEF a, d, e
    <3> DEFINE one == 1
               three == 3
    <3>4. one = Len(d) /\ three = Len(e)
      BY <3>1, <3>2
    <3> HIDE DEF one, three
    <3>5. Joined(Symbols, a, d, one, e, three)
      BY <3>1, <3>2, <3>3, <3>4, PartsOf
    <3>7. /\ a \in Seq(Symbols) /\ Len(a) = 1 + 3
          /\ \A i \in 1 .. 1 : a[0 + i] = d[i]
          /\ \A i \in 1 .. 3 : a[1 + i] = e[i]
      BY <3>5 DEF Joined, Stands, one, three
    <3>8. a[0 + 1] = d[1] /\ a[1 + 1] = e[1] /\ a[1 + 2] = e[2] /\ a[1 + 3] = e[3]
      BY <3>7
    <3>6. a[1] = d[1] /\ a[2] = ":" /\ a[3] = "/" /\ a[4] = "/"
      BY <3>2, <3>8
    <3> QED BY <2>2, <3>1, <3>6, <3>7 DEF d
  <2> QED BY <2>1, <2>2
<1> HIDE DEF a, b, c
<1>5. /\ s \in Seq(Symbols) /\ p \in Nat /\ h \in Nat /\ l \in Nat /\ n = p + h + l
      /\ \A i \in 1 .. p : s[i] = a[i]
      /\ \A i \in 1 .. h : s[p + i] = b[i]
      /\ \A i \in 1 .. l : s[p + h + i] = c[i]
      /\ SubSeq(s, p + 1, p + h) = b
      /\ SubSeq(s, p + h + 1, p + h + l) = c
  <2> HIDE DEF p, h, l
  <2>1. p = Len(a) /\ h = Len(b) /\ l = Len(c)
    BY DEF p, h, l
  <2>2. Three(Symbols, s, a, p, b, h, c, l)
    BY <1>1, <1>2, <1>3, <1>4, <2>1, ThreeParts
  <2>3. \A i \in 1 .. p : s[i] = a[i]
    <3>1. p \in Nat /\ \A i \in 1 .. p : s[0 + i] = a[i]
      BY <2>2 DEF Three, Stands
    <3> QED BY <3>1
  <2> QED BY <2>2, <2>3 DEF Three, Stands
<1>6. p = 4 => u.scheme = <<s[1]>> /\ s[2] = ":" /\ s[3] = "/" /\ s[4] = "/"
  BY <1>4, <1>5
<1>7. IsText(s, n) /\ n \in Nat /\ \A i \in 1 .. n : s[i] \in Symbols
  BY <1>5 DEF IsText
<1>8. h = Len(WithPort(u.addr, u.port)) /\ l = Len(u.path)
  BY DEF b, c
<1>9. Layout(s, u, n, p, h, l)
  <2> HIDE DEF n, p, h, l
  <2> QED BY <1>4, <1>5, <1>6, <1>7, <1>8 DEF Layout, b, c
<1> QED BY <1>9
(* What is read at each place of a URL, and behind it.                     *)
LEMMA ReadInUrl ==
  ASSUME NEW u, IsURL(u), NEW s, NEW n, NEW p, NEW h, NEW l, Layout(s, u, n, p, h, l)
  PROVE  /\ \A j \in 1 .. n : At(s, j) = s[j] /\ s[j] # NUL
         /\ \A j \in Nat : At(s, j) # NUL => j \in 1 .. n
         /\ \A i \in 1 .. h : At(s, p + i) \in InHost
         /\ h >= 1 => At(s, p + h) # ":"
         /\ DOMAIN u.path = 1 .. l
         /\ \A i \in Nat : i >= 1 => At(s, p + h + i) = At(u.path, i)
         /\ l >= 1 => At(s, p + h + 1) = "/"
<1> DEFINE host_of == WithPort(u.addr, u.port)
           path_of == u.path
<1>0. /\ n \in Nat /\ p \in {0, 4} /\ h \in Nat /\ l \in Nat /\ n = p + h + l
      /\ IsText(s, n) /\ h = Len(host_of) /\ l = Len(path_of)
      /\ \A i \in 1 .. n : s[i] \in Symbols
      /\ \A i \in 1 .. h : s[p + i] = host_of[i]
      /\ \A i \in 1 .. l : s[p + h + i] = path_of[i]
  BY DEF Layout
<1>1. host_of \in Seq(InHost) /\ EndsInWord(host_of)
  BY HostIs DEF IsURL
<1>2. path_of \in Seq(Symbols) /\ (path_of # <<>> => path_of[1] = "/")
  BY DEF IsURL
<1> HIDE DEF host_of, path_of
<1>3. \A j \in 1 .. n : At(s, j) = s[j] /\ s[j] # NUL
  BY <1>0, WordsAreSymbols DEF At, IsText
<1>4. \A j \in Nat : At(s, j) # NUL => j \in 1 .. n
  BY <1>0 DEF At, IsText
<1>5. ASSUME NEW i \in 1 .. h PROVE At(s, p + i) = host_of[i] /\ host_of[i] \in InHost
  <2>1. p + i \in 1 .. n
    BY <1>0
  <2>2. At(s, p + i) = host_of[i]
    BY <1>0, <1>3, <2>1
  <2>3. host_of[i] \in InHost
    BY <1>0, <1>1, ElementOfSeq
  <2> QED BY <2>2, <2>3
<1>6. h >= 1 => At(s, p + h) # ":"
  BY <1>0, <1>1, <1>5 DEF EndsInWord
<1>7. DOMAIN path_of = 1 .. l
  BY <1>0, <1>2
<1>8. ASSUME NEW i \in Nat, i >= 1 PROVE At(s, p + h + i) = At(path_of, i)
  <2>1. CASE i <= l
    <3>1. p + h + i \in 1 .. n /\ i \in 1 .. l
      BY <1>0, <1>8, <2>1
    <3> QED BY <1>0, <1>3, <1>7, <3>1 DEF At
  <2>2. CASE i > l
    <3>1. p + h + i \notin 1 .. n /\ i \notin 1 .. l
      BY <1>0, <1>8, <2>2
    <3> QED BY <1>0, <1>7, <3>1 DEF At, IsText
  <2> QED BY <1>0, <2>1, <2>2
<1>9. l >= 1 => At(s, p + h + 1) = "/"
  <2> SUFFICES ASSUME l >= 1 PROVE At(s, p + h + 1) = "/"
    OBVIOUS
  <2>1. path_of # <<>> /\ 1 \in 1 .. l
    BY <1>0
  <2>2. At(path_of, 1) = "/"
    BY <1>2, <1>7, <2>1 DEF At
  <2> QED BY <1>8, <2>2
<1> QED BY <1>3, <1>4, <1>5, <1>6, <1>7, <1>8, <1>9 DEF path_of

(* The marks behind a scheme are found in a URL that has one, or whose     *)
(* path has them; and one without a scheme does not begin with http://.    *)
LEMMA SchemeIs ==
  ASSUME NEW u, IsURL(u), NEW s, NEW n, NEW p, NEW h, NEW l, Layout(s, u, n, p, h, l)
  PROVE  /\ Found(s, 1, <<":", "/", "/">>)
              <=> p = 4 \/ \E i \in DOMAIN u.path : Reads(u.path, i, <<":", "/", "/">>)
         /\ Reads(s, 1, Scheme) <=> u.scheme = <<"http">>
<1> DEFINE R(t, i) == Reads(t, i, <<":", "/", "/">>)
           path_of == u.path
<1>0. /\ n \in Nat /\ p \in {0, 4} /\ h \in Nat /\ l \in Nat /\ n = p + h + l
      /\ IsText(s, n)
      /\ p = 0 <=> u.scheme = <<>>
      /\ p = 4 => u.scheme = <<s[1]>> /\ s[2] = ":" /\ s[3] = "/" /\ s[4] = "/"
  BY DEF Layout
<1>1. /\ \A j \in 1 .. n : At(s, j) = s[j] /\ s[j] # NUL
      /\ \A j \in Nat : At(s, j) # NUL => j \in 1 .. n
      /\ \A i \in 1 .. h : At(s, p + i) \in InHost
      /\ h >= 1 => At(s, p + h) # ":"
      /\ DOMAIN path_of = 1 .. l
      /\ \A i \in Nat : i >= 1 => At(s, p + h + i) = At(path_of, i)
      /\ l >= 1 => At(s, p + h + 1) = "/"
  BY ReadInUrl
<1>2. \A t : \A i \in Nat : R(t, i) <=> At(t, i) = ":" /\ At(t, i + 1) = "/" /\ At(t, i + 2) = "/"
  BY ReadsMarks
<1>3. Found(s, 1, <<":", "/", "/">>) <=> \E j \in 1 .. n : R(s, j)
  <2>1. \A k \in 1 .. n : s[k] # NUL
    BY <1>1
  <2> QED BY <1>0, <2>1, FoundIs
<1> HIDE DEF R, path_of
<1>4. ":" # NUL /\ "/" # NUL /\ "/" \notin InHost /\ ":" # "/"
  BY WordsAreSymbols DEF InHost
<1>5. ASSUME p = 4 PROVE R(s, 2) /\ 2 \in 1 .. n
  <2>1. 2 \in 1 .. n /\ 3 \in 1 .. n /\ 4 \in 1 .. n
    BY <1>0, <1>5
  <2>2. At(s, 2) = ":" /\ At(s, 3) = "/" /\ At(s, 4) = "/"
    BY <1>0, <1>1, <1>5, <2>1
  <2>3. 2 \in Nat /\ 2 + 1 = 3 /\ 2 + 2 = 4
    OBVIOUS
  <2> QED BY <1>2, <2>1, <2>2, <2>3
<1>6. ASSUME NEW i \in DOMAIN path_of, R(path_of, i) PROVE \E j \in 1 .. n : R(s, j)
  <2>1. i \in 1 .. l /\ i \in Nat /\ i >= 1 /\ p + h + i \in 1 .. n /\ p + h + i \in Nat
    <3>1. i \in 1 .. l
      BY <1>1
    <3>2. n \in Nat /\ p \in {0, 4} /\ h \in Nat /\ l \in Nat /\ n = p + h + l
      BY <1>0
    <3> QED BY <3>1, <3>2
  <2>2. /\ At(s, p + h + i) = At(path_of, i)
        /\ At(s, (p + h + i) + 1) = At(path_of, i + 1)
        /\ At(s, (p + h + i) + 2) = At(path_of, i + 2)
    <3>1. /\ i + 1 \in Nat /\ i + 2 \in Nat /\ i + 1 >= 1 /\ i + 2 >= 1
          /\ p + h + (i + 1) = (p + h + i) + 1 /\ p + h + (i + 2) = (p + h + i) + 2
      BY <1>0, <2>1
    <3> QED BY <1>1, <2>1, <3>1
  <2>3. R(s, p + h + i)
    BY <1>2, <1>6, <2>1, <2>2
  <2> QED BY <2>1, <2>3
<1>7. ASSUME p = 0, NEW j \in 1 .. n, R(s, j) PROVE \E i \in DOMAIN path_of : R(path_of, i)
  <2>1. At(s, j) = ":" /\ At(s, j + 1) = "/" /\ At(s, j + 2) = "/" /\ j \in Nat /\ j >= 1
    BY <1>2, <1>7
  <2>2. ~(j + 1 <= h)
    <3> SUFFICES ASSUME j + 1 <= h PROVE FALSE
      OBVIOUS
    <3>1. j + 1 \in 1 .. h /\ p + (j + 1) = j + 1
      BY <1>0, <1>7, <2>1
    <3> QED BY <1>1, <1>4, <2>1, <3>1
  <2>3. j # h
    BY <1>0, <1>1, <1>7, <2>1
  <2>4. j + 2 \in 1 .. n
    BY <1>1, <1>4, <2>1
  <2> DEFINE i == j - h
  <2>5. /\ i \in 1 .. l /\ i \in Nat /\ i >= 1 /\ i + 1 \in Nat /\ i + 2 \in Nat /\ i + 1 >= 1 /\ i + 2 >= 1
        /\ p + h + i = j /\ p + h + (i + 1) = j + 1 /\ p + h + (i + 2) = j + 2
    BY <1>0, <1>7, <2>1, <2>2, <2>3, <2>4
  <2> HIDE DEF i
  <2>6. R(path_of, i)
    BY <1>1, <1>2, <2>1, <2>5
  <2> QED BY <1>1, <2>5, <2>6
<1>8. \A i \in Nat : Reads(s, i, Scheme)
        <=> At(s, i) = "http" /\ At(s, i + 1) = ":" /\ At(s, i + 2) = "/" /\ At(s, i + 3) = "/"
  BY ReadsMarks DEF Scheme
<1>9. Reads(s, 1, Scheme) <=> At(s, 1) = "http" /\ At(s, 2) = ":" /\ At(s, 3) = "/" /\ At(s, 4) = "/"
  BY <1>8
<1>10. CASE p = 4
  <2>1. At(s, 1) = s[1] /\ At(s, 2) = ":" /\ At(s, 3) = "/" /\ At(s, 4) = "/"
    <3>1. 1 \in 1 .. n /\ 2 \in 1 .. n /\ 3 \in 1 .. n /\ 4 \in 1 .. n
      BY <1>0, <1>10
    <3> QED BY <1>0, <1>1, <1>10, <3>1
  <2>2. u.scheme = <<"http">> <=> s[1] = "http"
    BY <1>0, <1>10
  <2> QED BY <1>3, <1>5, <1>9, <1>10, <2>1, <2>2 DEF R, path_of
<1>11. CASE p = 0
  <2>1. u.scheme # <<"http">>
    <3>1. u.scheme = <<>>
      BY <1>0, <1>11
    <3>2. Len(<<>>) # Len(<<"http">>)
      OBVIOUS
    <3> QED BY <3>1, <3>2
  <2>2. ASSUME At(s, 1) = "http", At(s, 2) = ":", At(s, 3) = "/" PROVE FALSE
    <3>0. "http" # "/" /\ 3 \in 1 .. n
      BY <1>1, <1>4, <2>2
    <3>1. CASE h = 0
      BY <1>0, <1>1, <1>11, <2>2, <3>0, <3>1
    <3>2. CASE h = 1
      BY <1>0, <1>1, <1>4, <1>11, <2>2, <3>0, <3>2
    <3>3. CASE h = 2
      BY <1>0, <1>1, <1>11, <2>2, <3>3
    <3>4. CASE h >= 3
      <4>1. 3 \in 1 .. h /\ p + 3 = 3
        BY <1>0, <1>11, <3>4
      <4> QED BY <1>1, <1>4, <2>2, <4>1
    <3> QED BY <1>0, <3>1, <3>2, <3>3, <3>4
  <2> QED BY <1>3, <1>6, <1>7, <1>9, <1>11, <2>1, <2>2 DEF R, path_of
<1> QED BY <1>0, <1>10, <1>11

----------------------------------------------------------------------------
(* The URL and the host are made from their parts and stay as they are.    *)
Placed ==
  /\ parts \in URLs
  /\ url = Rendered(parts)
  /\ host = (IF parts.host = NoHost THEN NULL ELSE WithPort(parts.host.addr, parts.host.port))

UrlInv == Placed /\ UrlTakenApart

AddressInPath == \E i \in DOMAIN parts.path : Reads(parts.path, i, <<":", "/", "/">>)
Refused == parts.scheme \notin {<<>>, <<"http">>} \/ (parts.scheme = <<>> /\ AddressInPath)
Target == IF parts.host = NoHost THEN parts ELSE parts.host

(* request() refuses what it should, and cuts the rest where its parts     *)
(* begin and end.                                                          *)
Cuts ==
  /\ OtherProtocol <=> Refused
  /\ ~OtherProtocol =>
       /\ At(url, PathBegin) = NUL <=> parts.path = <<>>
       /\ parts.path # <<>> => SubSeq(url, PathBegin, Len(url)) = parts.path
       /\ Host = WithPort(Target.addr, Target.port)
       /\ HostTaken(Host, Target)

LEMMA RequestCuts ==
  ASSUME Placed
  PROVE  Cuts
<1> DEFINE w == WithPort(parts.addr, parts.port)
<1>0. IsURL(parts) /\ url = Rendered(parts)
  BY UrlAssumption DEF Placed
<1>1. PICK n, p, h, l : Layout(url, parts, n, p, h, l)
  BY <1>0, UrlIs
<1>2. /\ n \in Nat /\ p \in {0, 4} /\ h \in Nat /\ l \in Nat /\ n = p + h + l
      /\ IsText(url, n) /\ n = Len(url) /\ l = Len(parts.path)
      /\ p = 0 <=> parts.scheme = <<>>
      /\ SubSeq(url, p + 1, p + h) = w
      /\ SubSeq(url, p + h + 1, n) = parts.path
  BY <1>1 DEF Layout, IsText
<1>n. n \in Nat /\ p \in {0, 4} /\ h \in Nat /\ l \in Nat /\ n = p + h + l
  BY <1>2
<1>3. /\ Found(url, 1, <<":", "/", "/">>) <=> p = 4 \/ AddressInPath
      /\ Reads(url, 1, Scheme) <=> parts.scheme = <<"http">>
  BY <1>0, <1>1, SchemeIs DEF AddressInPath
<1>4. <<>> # <<"http">>
  <2>1. Len(<<>>) # Len(<<"http">>)
    OBVIOUS
  <2> QED BY <2>1
<1> DEFINE sch == parts.scheme
           http == <<"http">>
           none == <<>>
           fnd == Found(url, 1, <<":", "/", "/">>)
           rds == Reads(url, 1, Scheme)
<1>5. /\ OtherProtocol <=> Refused
      /\ ~OtherProtocol => (fnd <=> p = 4)
  <2>1. /\ OtherProtocol <=> fnd /\ ~rds
        /\ Refused <=> sch \notin {none, http} \/ (sch = none /\ AddressInPath)
        /\ p = 0 <=> sch = none
        /\ p \in {0, 4}
        /\ fnd <=> p = 4 \/ AddressInPath
        /\ rds <=> sch = http
        /\ none # http
    BY <1>2, <1>3, <1>4 DEF OtherProtocol, Refused
  <2> HIDE DEF sch, http, none, fnd, rds
  <2> QED BY <2>1
<1>6. ASSUME ~OtherProtocol
      PROVE  /\ At(url, PathBegin) = NUL <=> parts.path = <<>>
             /\ parts.path # <<>> => SubSeq(url, PathBegin, Len(url)) = parts.path
             /\ host = NULL => Host = w
  <2> DEFINE x == p + 1
             y == p + h + 1
  <2>1. AddrBegin = x
    <3>1. /\ AddrBegin = IF fnd THEN 5 ELSE 1
          /\ fnd <=> p = 4
      BY <1>5, <1>6 DEF AddrBegin
    <3> HIDE DEF fnd
    <3> QED BY <1>2, <3>1
  <2>2. /\ \A j \in 1 .. n : At(url, j) = url[j] /\ url[j] # NUL
        /\ \A j \in Nat : At(url, j) # NUL => j \in 1 .. n
        /\ \A i \in 1 .. h : At(url, p + i) \in InHost
        /\ l >= 1 => At(url, p + h + 1) = "/"
    BY <1>0, <1>1, ReadInUrl
  <2>3. x \in Nat /\ x >= 1 /\ y \in x .. n + 1 /\ y \in Nat
    BY <1>n
  <2>4. y = n + 1 \/ url[y] = "/"
    <3>1. CASE l = 0
      BY <1>n, <3>1
    <3>2. CASE l # 0
      <4>1. y \in 1 .. n /\ l >= 1
        BY <1>n, <3>2
      <4> QED BY <2>2, <4>1
    <3> QED BY <3>1, <3>2
  <2>5. ASSUME NEW k \in x .. y - 1 PROVE url[k] # "/"
    <3> DEFINE i == k - p
    <3>1. i \in 1 .. h /\ p + i = k /\ k \in 1 .. n
      BY <1>n
    <3> HIDE DEF i
    <3>2. url[k] \in InHost
      BY <2>2, <3>1
    <3> QED BY <3>2 DEF InHost
  <2> HIDE DEF x, y
  <2>6. PathBegin = y
    <3>0. IsText(url, n) /\ \A k \in x .. y - 1 : url[k] # "/"
      BY <1>2, <2>5
    <3>1. Find(url, x, <<"/">>) = y
      BY <2>3, <2>4, <3>0, MarkIs
    <3> QED BY <2>1, <3>1 DEF PathBegin
  <2>7. At(url, y) = NUL <=> l = 0
    <3>1. y \in 1 .. n <=> l # 0
      BY <1>2 DEF y
    <3> QED BY <2>2, <2>3, <3>1
  <2>8. l = 0 <=> parts.path = <<>>
    <3>1. parts.path \in Seq(Symbols)
      BY <1>0 DEF IsURL
    <3> QED BY <1>2, <3>1
  <2>9. SubSeq(url, y, Len(url)) = parts.path
    BY <1>2 DEF y
  <2>10. host = NULL => Host = w
    <3>1. y - 1 = p + h
      BY <1>2 DEF y
    <3>2. Part(url, x, y) = w
      BY <1>2, <3>1 DEF Part, x
    <3> QED BY <2>1, <2>6, <3>2 DEF Host
  <2> QED BY <2>6, <2>7, <2>8, <2>9, <2>10
<1>7. IsTarget(parts) /\ IsTarget(parts.host)
  BY <1>0 DEF IsURL
<1>8. IsTarget(Target)
  BY <1>7 DEF Target
<1>9. ASSUME ~OtherProtocol PROVE Host = WithPort(Target.addr, Target.port)
  <2>1. CASE parts.host = NoHost
    BY <1>6, <1>9, <2>1 DEF Placed, Target
  <2>2. CASE parts.host # NoHost
    <3> DEFINE g == WithPort(parts.host.addr, parts.host.port)
    <3>1. host = g
      BY <2>2 DEF Placed
    <3>2. g \in Seq(InHost)
      BY <1>7, HostIs
    <3>3. g # NULL
      <4> SUFFICES ASSUME g = NULL PROVE FALSE
        OBVIOUS
      <4>1. Len(NULL) = 1 /\ NULL[1] = "NULL"
        BY DEF NULL
      <4> HIDE DEF g
      <4>2. g \in Seq(InHost) /\ 1 \in 1 .. Len(g) /\ g[1] = "NULL"
        BY <3>2, <4>1
      <4>3. g[1] \in InHost
        BY <4>2, ElementOfSeq
      <4> QED BY <4>2, <4>3, WordsAreSymbols
    <3> QED BY <2>2, <3>1, <3>3 DEF Host, Target
  <2> QED BY <2>1, <2>2
<1>10. ASSUME ~OtherProtocol PROVE HostTaken(Host, Target)
  BY <1>8, <1>9, <1>10, HostIs
<1> QED BY <1>5, <1>6, <1>9, <1>10 DEF Cuts

(* Nothing is taken apart before request() is called.                      *)
LEMMA UrlInvInit ==
  ASSUME MCInit
  PROVE  UrlInv
BY DEF MCInit, Init, UrlInv, Placed, UrlTakenApart

(* request() leaves in its fields what the URL was made from.              *)
LEMMA UrlInvRequest ==
  ASSUME UrlInv, Request, UNCHANGED parts
  PROVE  UrlInv'
<1>1. Placed /\ Placed'
  BY DEF UrlInv, Placed, Request, asked
<1>2. Cuts
  BY <1>1, RequestCuts
<1>3. CASE OtherProtocol
  <2>1. ret' = "err_protocol" /\ Refused
    BY <1>2, <1>3 DEF Request, Cuts
  <2>2. Len(<<>>) # Len(<<"http">>)
    OBVIOUS
  <2>3. parts' = parts /\ <<>> # <<"http">>
    BY <2>2
  <2>4. /\ parts.scheme = <<>> => AddressInPath
        /\ parts.scheme # <<"http">>
    BY <2>1, <2>3 DEF Refused
  <2> QED BY <1>1, <2>1, <2>3, <2>4 DEF UrlInv, UrlTakenApart, AddressInPath
<1>4. CASE ~OtherProtocol
  <2>1. /\ ret' \in {"ok", "err_dns"} /\ ~Refused
        /\ str_path' = IF parts.path = <<>> THEN <<"/">> ELSE parts.path
        /\ str_host' = WithPort(Target.addr, Target.port)
        /\ str_addr' = Target.addr
        /\ str_port' = IF Target.port = <<>> THEN <<"80">> ELSE Target.port
    BY <1>2, <1>4 DEF Request, Cuts, HostTaken, PortBegin, Default
  <2>2. parts' = parts /\ parts.scheme \in {<<>>, <<"http">>}
    BY <2>1 DEF Refused
  <2>3. ret' # "none" /\ ret' # "err_protocol"
    BY <2>1
  <2> QED BY <1>1, <2>1, <2>2, <2>3 DEF UrlInv, UrlTakenApart, Target
<1> QED BY <1>3, <1>4

(* What the parts of the URL are found to be depends on nothing else that  *)
(* changes.                                                                *)
LEMMA UrlInvKept ==
  ASSUME UrlInv, UNCHANGED <<asked, address, ret, parts>>
  PROVE  UrlInv'
BY DEF UrlInv, Placed, UrlTakenApart, asked, address

(* Whatever the parts of a URL and the host set with it, and whatever is   *)
(* called before and after it: request() finds exactly these parts, a      *)
(* colon or an address in the path notwithstanding, prefers the host that  *)
(* was set and fills in port 80 and the path /; it refuses every other     *)
(* protocol, and no URL with http:// nor one without it, unless the path   *)
(* of the latter holds an address.                                         *)
THEOREM UrlIsTakenApart == MCSpec => []UrlTakenApart
<1>1. MCInit => UrlInv
  BY UrlInvInit
<1>2. UrlInv /\ [MCNext]_<<vars, parts, made>> => UrlInv'
  <2> SUFFICES ASSUME UrlInv, [MCNext]_<<vars, parts, made>> PROVE UrlInv'
    OBVIOUS
  <2>1. CASE Request /\ UNCHANGED parts
    BY <2>1, UrlInvRequest
  <2>2. ASSUME NEW key, NEW value, AddHeader(key, value), UNCHANGED parts PROVE UrlInv'
    BY <2>2, UrlInvKept DEF AddHeader, PutHeader
  <2>3. ASSUME NEW part, AddBody(part), UNCHANGED parts PROVE UrlInv'
    BY <2>3, UrlInvKept DEF AddBody
  <2>4. CASE Send /\ UNCHANGED parts
    BY <2>4, UrlInvKept DEF Send
  <2>5. CASE UNCHANGED <<vars, parts, made>>
    BY <2>5, UrlInvKept DEF vars, asked, address
  <2> QED BY <2>1, <2>2, <2>3, <2>4, <2>5 DEF MCNext
<1>3. UrlInv => UrlTakenApart
  BY DEF UrlInv
<1> QED BY <1>1, <1>2, <1>3, PTL DEF MCSpec
=============================================================================
