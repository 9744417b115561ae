---------------------------- MODULE HttpResponse ----------------------------
(***************************************************************************)
(* The parser of uvmodules/uvnet/response.c, fed one response in the       *)
(* segments in which it happens to arrive.                                 *)
(*                                                                         *)
(* read_cb calls response_recive with what libuv has read.  The parser     *)
(* keeps its step and its numbers between calls, but not the text it has   *)
(* read of an unfinished token; and it looks ahead of the character it is  *)
(* at.  So what it makes of a response depends on where the stream is cut. *)
(*                                                                         *)
(* A stream is a sequence of symbols: a word stands for a token, of which  *)
(* the parser sees the beginning and the end, and CR, LF, separators,      *)
(* digits and the letters of HTTP for themselves.                          *)
(***************************************************************************)
EXTENDS Integers, Sequences, FiniteSets, SequencesExt

CONSTANTS
  Responses,    \* the responses of this instance, see Response
  MaxSegments   \* how many segments a response comes in at most

VARIABLES
  response,     \* the response that arrives
  got,          \* how many of its symbols have arrived
  cuts,         \* where the segments have ended
  from,         \* data: where the segment begins that was read last
  at,           \* data + i: where the loop over it is, behind it when it has returned
  res,          \* response_p_t
  tmp, tmp2,    \* str_tmp, str_tmp2: what the call has collected
  delivered,    \* the positions of the characters given to res_data
  finish,       \* res_cb has been called
  fault         \* a number has gone below zero, and what follows is undefined

input == <<response, got, cuts, from>>
vars == <<input, at, res, tmp, tmp2, delivered, finish, fault>>

----------------------------------------------------------------------------
(* Responses as they are sent.                                             *)

CR == "CR"
LF == "LF"
SP == " "
Digits == <<"0", "1", "2", "3", "4", "5", "6", "7", "8", "9", "a", "b", "c", "d", "e", "f">>

(* The names of the fields that say how the body is framed.                *)
Framing == {"Content-Length", "Transfer-Encoding"}

(* before, after: the fields around the one for the framing; data: the     *)
(* chunks, or the body in one piece, and sizes: their lengths as they are  *)
(* written; extra: what the peer sends after the response.                 *)
Texts == Seq(STRING)
Response ==
  [before : Seq(Texts \X Texts), after : Seq(Texts \X Texts), chunked : BOOLEAN,
   data : Seq(Texts), sizes : Seq(Texts), extra : Texts]

----------------------------------------------------------------------------
(* Numbers.                                                                *)

DigitValue == [c \in ToSet(Digits) |-> CHOOSE n \in 0 .. 15 : Digits[n + 1] = c]

(* 16 * n + d in an int of 32 bits: the upper four bits are lost, and the  *)
(* next one becomes the sign.                                              *)
Shifted(n, d) ==
  LET high == (n \div 2 ^ 24) % 16
      low  == n % 2 ^ 24
  IN  (IF high >= 8 THEN high - 16 ELSE high) * 2 ^ 28 + 16 * low + d

(* What is no digit is passed over.                                        *)
htoi(text) ==
  LET number[k \in 0 .. Len(text)] ==
        IF k = 0 THEN 0
        ELSE IF text[k] \in ToSet(Digits) THEN Shifted(number[k - 1], DigitValue[text[k]])
        ELSE number[k - 1]
  IN  number[Len(text)]

(* External: atoi, which ends with the first character that is no decimal  *)
(* digit.  Numbers that are too large for an int are left aside, and so is *)
(* a sign, as the parser treats a length below zero as none.               *)
Decimal(c) == c \in ToSet(SubSeq(Digits, 1, 10))
atoi(text) ==
  LET number[k \in 0 .. Len(text)] ==
        IF k = 0 THEN 0
        ELSE IF \A i \in 1 .. k : Decimal(text[i])
             THEN 10 * number[k - 1] + DigitValue[text[k]]
        ELSE number[k - 1]
  IN  number[Len(text)]

----------------------------------------------------------------------------
(* A field is written in one line, its name holds no colon and is not that *)
(* of the framing, though it may end with it, and its value does not begin *)
(* with a blank.                                                           *)
IsField(f) ==
  /\ \A c \in ToSet(f[1] \o f[2]) : c \notin {CR, LF}
  /\ ~Contains(f[1], ":") /\ \A w \in Framing : f[1] # <<w>>
  /\ f[2] # <<>> => f[2][1] # SP

(* The lengths are right, and no chunk but the last, which is not among    *)
(* them, is empty.                                                         *)
ASSUME ResponseAssumption ==
  /\ Responses \subseteq Response
  /\ \A r \in Responses :
       /\ \A i \in DOMAIN r.before : IsField(r.before[i])
       /\ \A i \in DOMAIN r.after : IsField(r.after[i])
       /\ r.data # <<>> /\ (~r.chunked => Len(r.data) = 1)
       /\ Len(r.sizes) = Len(r.data)
       /\ \A i \in DOMAIN r.data :
            /\ \A c \in ToSet(r.sizes[i]) : c \in ToSet(Digits)
            /\ IF r.chunked THEN r.data[i] # <<>> /\ Len(r.data[i]) = htoi(r.sizes[i])
               ELSE Len(r.data[i]) = atoi(r.sizes[i])
ASSUME SegmentAssumption == MaxSegments \in Nat

Line(text) == text \o <<CR, LF>>

FramingField(r) ==
  IF r.chunked THEN << <<"Transfer-Encoding">>, <<"chunked">> >>
  ELSE << <<"Content-Length">>, r.sizes[1] >>

Fields(r) == r.before \o <<FramingField(r)>> \o r.after

FieldLine(f) == Line(f[1] \o <<":", SP>> \o f[2])

HeadText(r) ==
  Line(<<"H", "T", "T", "P", "/", "1.1", SP, "200", SP, "OK">>)
  \o FlattenSeq([i \in DOMAIN Fields(r) |-> FieldLine(Fields(r)[i])])
  \o Line(<<>>)

BodyText(r) ==
  IF r.chunked
  THEN FlattenSeq([i \in DOMAIN r.data |-> Line(r.sizes[i]) \o Line(r.data[i])])
       \o Line(<<"0">>) \o Line(<<>>)
  ELSE r.data[1]

Stream(r) == HeadText(r) \o BodyText(r) \o r.extra

Streams == [r \in Responses |-> Stream(r)]
stream == Streams[response]

----------------------------------------------------------------------------
(* response_recive: a loop over the segment, whose step depends on what is *)
(* being read.                                                             *)

NewRes ==
  [parse_step |-> "protocol", status |-> <<>>, headers |-> <<>>, chunked |-> FALSE,
   content_length |-> 0, chunk_length |-> 0, recived_length |-> 0]

(* data[j - from]: alloc_cb clears the buffer, so that behind the segment  *)
(* there are zeros (a segment that fills all of its 1 MB is left aside).   *)
At(j) == IF j <= got THEN stream[j] ELSE "NUL"
LineEnd(j) == At(j) = CR /\ At(j + 1) = LF

(* The loop stands at a character it takes for a part of this.             *)
Reading(step) == at <= got /\ res.parse_step = step /\ ~fault

Skip(n) == at' = at + n
Break == at' = got + 1
Goto(step) == res' = [res EXCEPT !.parse_step = step]

(* The character is kept.                                                  *)
Push == tmp' = Append(tmp, At(at)) /\ Skip(1) /\ UNCHANGED <<res, tmp2>>

(* The request is told nothing.                                            *)
Quiet == UNCHANGED <<input, delivered, finish>>

(* Of fewer than four characters the parser compares those from a place on *)
(* that is below zero: that may end anyhow.                                *)
Protocol ==
  /\ Reading("protocol") /\ Quiet
  /\ \/ At(at) # "/" /\ Push /\ UNCHANGED fault
     \/ /\ At(at) = "/" /\ Len(tmp) >= 4
        /\ Goto(IF IsSuffix(<<"h", "t", "t", "p">>, tmp) THEN "status_code" ELSE "version")
        /\ tmp' = <<>> /\ Skip(1) /\ UNCHANGED <<tmp2, fault>>
     \/ /\ At(at) = "/" /\ Len(tmp) < 4
        /\ \E step \in {"status_code", "version"} : Goto(step)
        /\ tmp' = <<>> /\ Skip(1) /\ UNCHANGED <<tmp2, fault>>
     \/ /\ At(at) = "/" /\ Len(tmp) < 4
        /\ fault' = TRUE /\ UNCHANGED <<at, res, tmp, tmp2>>

Version ==
  /\ Reading("version") /\ Quiet /\ UNCHANGED fault
  /\ \/ At(at) # SP /\ Push
     \/ At(at) = SP /\ Goto("status_code") /\ tmp' = <<>> /\ Skip(1) /\ UNCHANGED tmp2

StatusCode ==
  /\ Reading("status_code") /\ Quiet /\ UNCHANGED fault
  /\ \/ At(at) # SP /\ Push
     \/ /\ At(at) = SP
        /\ res' = [res EXCEPT !.status = tmp, !.parse_step = "status_desc"]
        /\ tmp' = <<>> /\ Skip(1) /\ UNCHANGED tmp2

StatusDesc ==
  /\ Reading("status_desc") /\ Quiet /\ UNCHANGED fault
  /\ \/ ~LineEnd(at) /\ Push
     \/ LineEnd(at) /\ Goto("header_key") /\ tmp' = <<>> /\ Skip(2) /\ UNCHANGED tmp2

HeaderKey ==
  /\ Reading("header_key") /\ Quiet /\ UNCHANGED fault
  /\ \/ At(at) # ":" /\ Push
     \/ At(at) = ":" /\ Goto("header_value") /\ Skip(1) /\ UNCHANGED <<tmp, tmp2>>

(* What a complete field says.                                             *)
Field(r, key, value) ==
  [r EXCEPT !.headers = Append(@, <<key, value>>),
            !.chunked = @ \/ <<key, value>> = << <<"Transfer-Encoding">>, <<"chunked">> >>,
            !.content_length = IF key = <<"Content-Length">> THEN atoi(value) ELSE @]

PushValue ==
  /\ tmp2' = IF At(at) = SP /\ tmp2 = <<>> THEN tmp2 ELSE Append(tmp2, At(at))
  /\ Skip(1) /\ UNCHANGED <<res, tmp>>

(* The step behind the header.                                             *)
BodyStep(r) == IF r.chunked THEN "chunk_len" ELSE "body"

EndField(last) ==
  LET r == Field(res, tmp, tmp2)
  IN  /\ res' = [r EXCEPT !.parse_step = IF last THEN BodyStep(r) ELSE "header_key"]
      /\ tmp' = <<>> /\ tmp2' = <<>>

(* Faulty variant: the empty line after the header is left to the body.    *)
HeaderValueStops ==
  /\ Reading("header_value") /\ Quiet /\ UNCHANGED fault
  /\ \/ ~LineEnd(at) /\ PushValue
     \/ LineEnd(at) /\ EndField(LineEnd(at + 2)) /\ Skip(2)

(* At the end of a field the parser looks for the empty line that ends the *)
(* header.                                                                 *)
HeaderValue ==
  /\ Reading("header_value") /\ Quiet /\ UNCHANGED fault
  /\ \/ ~LineEnd(at) /\ PushValue
     \/ LineEnd(at) /\ ~LineEnd(at + 2) /\ EndField(FALSE) /\ Skip(2)
     \/ LineEnd(at) /\ LineEnd(at + 2) /\ EndField(TRUE) /\ Skip(4)

(* Gives n characters to res_data.                                         *)
Give(n) == delivered' = delivered \o [j \in 1 .. n |-> at + j - 1]

(* What is left of the segment, and what has then come of the body or the  *)
(* chunk.                                                                  *)
Left == got - at + 1
Recived == res.recived_length + Left
Count == res' = [res EXCEPT !.recived_length = Recived]

(* Faulty variant: finished one character early.                           *)
BodyEarly ==
  LET length == res.content_length
  IN  /\ Reading("body") /\ Count /\ Break /\ UNCHANGED <<input, tmp, tmp2, fault>>
      /\ Give(IF length > 0 /\ Recived > length THEN length - res.recived_length ELSE Left)
      /\ finish' = (length > 0 /\ Recived >= length - 1)

(* Faulty variant: does not add up what has come before.                   *)
BodyForgets ==
  LET length == res.content_length
  IN  /\ Reading("body") /\ Break /\ UNCHANGED <<input, tmp, tmp2, fault>>
      /\ res' = [res EXCEPT !.recived_length = Left]
      /\ Give(IF length > 0 /\ Left > length THEN length ELSE Left)
      /\ finish' = (length > 0 /\ Left >= length)

(* A body in one piece: the rest of the segment, or what Content-Length    *)
(* leaves of it.  Without a length, or with one of 0, the response is      *)
(* never finished.                                                         *)
Body ==
  LET length == res.content_length
  IN  /\ Reading("body") /\ Count /\ Break /\ UNCHANGED <<input, tmp, tmp2, fault>>
      /\ Give(IF length > 0 /\ Recived > length THEN length - res.recived_length ELSE Left)
      /\ finish' = (length > 0 /\ Recived >= length)


ChunkLen ==
  /\ Reading("chunk_len") /\ UNCHANGED <<input, tmp2, delivered, fault>>
  /\ \/ ~LineEnd(at) /\ Push /\ UNCHANGED finish
     \/ /\ LineEnd(at) /\ htoi(tmp) = 0
        /\ res' = [res EXCEPT !.chunk_length = 0]
        /\ finish' = TRUE /\ Break /\ UNCHANGED tmp
     \/ /\ LineEnd(at) /\ htoi(tmp) # 0
        /\ res' = [res EXCEPT !.chunk_length = htoi(tmp), !.recived_length = 0,
                              !.parse_step = "chunk_buff"]
        /\ tmp' = <<>> /\ Skip(2) /\ UNCHANGED finish

(* A chunk.  If its end is in a segment that begins with it, or within it, *)
(* that part of it is dropped.  With the line end, the first digit of the  *)
(* next length is passed over.  If the length is below zero, res_data is   *)
(* given a number below zero, or data is read in front of the segment.     *)
ChunkBuff ==
  LET need == res.chunk_length - res.recived_length
      down == IF at > from THEN need < 0 ELSE need < -1
  IN  /\ Reading("chunk_buff") /\ UNCHANGED <<input, tmp, tmp2, finish>>
      /\ \/ /\ Recived > res.chunk_length /\ ~down
            /\ Give(IF at > from THEN need ELSE 0)
            /\ Goto("chunk_len") /\ Skip(need + 3) /\ UNCHANGED fault
         \/ /\ Recived > res.chunk_length /\ down
            /\ fault' = TRUE /\ UNCHANGED <<at, res, delivered>>
         \/ Recived <= res.chunk_length /\ Give(Left) /\ Count /\ Break /\ UNCHANGED fault

Step ==
  \/ Protocol \/ Version \/ StatusCode \/ StatusDesc \/ HeaderKey \/ HeaderValue
  \/ Body \/ ChunkLen \/ ChunkBuff

----------------------------------------------------------------------------
Init ==
  /\ response \in Responses
  /\ got = 0 /\ cuts = {} /\ from = 1 /\ at = 1
  /\ res = NewRes /\ tmp = <<>> /\ tmp2 = <<>>
  /\ delivered = <<>> /\ finish = FALSE /\ fault = FALSE

(* read_cb hands the next segment to the parser, until the response is     *)
(* finished: then the request is destroyed.  What the call before has      *)
(* collected of a token is lost.                                           *)
response_recive(n) ==
  /\ at > got /\ ~finish /\ ~fault /\ Cardinality(cuts) < MaxSegments
  /\ got + n <= Len(stream)
  /\ got' = got + n /\ cuts' = cuts \cup {got'}
  /\ from' = got + 1 /\ at' = from'
  /\ tmp' = <<>> /\ tmp2' = <<>>
  /\ UNCHANGED <<response, res, delivered, finish, fault>>

Next == (\E n \in 1 .. Len(stream) - got : response_recive(n)) \/ Step

Spec == Init /\ [][Next]_vars

----------------------------------------------------------------------------
HeadLengths == [r \in Responses |-> Len(HeadText(r))]
HeadLength == HeadLengths[response]

(* How much of a body in one piece has arrived.                            *)
Length == Len(response.data[1])
DataArrived ==
  IF got <= HeadLength THEN 0
  ELSE IF got <= HeadLength + Length THEN got - HeadLength ELSE Length

(* Where a header may be cut: at the end of a line, but not before the     *)
(* empty one.                                                              *)
HeadCuts == {j \in 1 .. HeadLength : stream[j] = LF} \ {HeadLength - 2}

(* Nothing behind the header looks like a field, and no segment begins     *)
(* within a name with that of the framing, which would be taken for it.    *)
NotMistaken ==
  /\ ~Contains(BodyText(response) \o response.extra, ":")
  /\ \A j \in cuts \ {Len(stream)} : stream[j + 1] \in Framing => stream[j] = LF

(* No empty line follows behind the header, or with its last line break:   *)
(* if a cut hides the end of the header, that one would be taken for it.   *)
EmptyLineOnce ==
  \A j \in HeadLength - 1 .. Len(stream) - 3 :
    SubSeq(stream, j, j + 3) # Line(<<>>) \o Line(<<>>)

(* Where a line with the length of a chunk ends: its LF.                   *)
LengthEnds ==
  {j \in HeadLength + 2 .. Len(stream) :
     /\ stream[j] = LF
     /\ \E i \in DOMAIN response.sizes :
          LET n == Len(response.sizes[i])
          IN  SubSeq(stream, j - n - 2, j) = <<LF>> \o Line(response.sizes[i])}

(* Wherever the stream is cut, what the user gets as the body follows the  *)
(* header, in order and each character once at most, until a number goes   *)
(* below zero, with which the behaviour ends.                              *)
DeliveredIsBody ==
  \A i \in DOMAIN delivered :
    /\ delivered[i] > HeadLength
    /\ \A j \in 1 .. i - 1 : delivered[j] < delivered[i]


(* A response with Content-Length that is called finished has come and     *)
(* been delivered completely, wherever the stream is cut, unless a cut     *)
(* makes a field of what is none, or an empty line of the body the end of  *)
(* the header.                                                             *)
FinishedIsComplete ==
  finish /\ ~response.chunked /\ NotMistaken /\ EmptyLineOnce =>
    /\ ToSet(delivered) = HeadLength + 1 .. HeadLength + Length
    /\ HeadLength + Length <= got

(* A response with Content-Length whose header is cut only between lines   *)
(* is understood.  If the length is not 0, the data is delivered as it     *)
(* comes, wherever that is cut, and the response is finished with the last *)
(* of it.  If it is 0 the response is never finished.                      *)
LengthExact ==
  /\ ~response.chunked /\ at > got
  /\ \A j \in cuts : j <= HeadLength => j \in HeadCuts
  => /\ Length > 0 => delivered = [j \in 1 .. DataArrived |-> HeadLength + j]
     /\ finish <=> Length > 0 /\ DataArrived = Length
     /\ got >= HeadLength => /\ res.status = <<"200">>
                             /\ res.headers = Fields(response)
=============================================================================
