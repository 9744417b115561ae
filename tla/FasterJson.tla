----------------------------- MODULE FasterJson -----------------------------
(***************************************************************************)
(* thirdparty/faster/fasterjson.c: the JSON scanner TravelJsonBuffer.  It  *)
(* calls a function at the beginning and the end of an object ("branch")   *)
(* and of an array and for every other value ("leaf"), each time with the  *)
(* path of names that leads there.                                         *)
(*                                                                         *)
(* `levels' is the C stack of its recursive functions, outermost first:    *)
(* _TravelJsonBuffer ("top"), _TravelJsonLeafBuffer ("object") and         *)
(* _TravelJsonArrayBuffer ("array").  `step' is the token the innermost of *)
(* them reads next: a "value", an object's "name" and the "colon" behind   *)
(* it, what comes "after" a value.                                         *)
(*                                                                         *)
(* There is one buffer for the path.  A level writes one name behind the   *)
(* len names it was given, and goes by newlen for the length with it; one  *)
(* name of the path is one symbol of the buffer here.  The function        *)
(* returns 0, as _on_json_node does, the only one ever passed.             *)
(***************************************************************************)
EXTENDS TextScan, SequencesExt

VARIABLES
  text, at,
  step,          \* the token to read, or "done"
  levels,
  jpath,         \* the names in the buffer
  calls,         \* [type, path, node, content] of the calls so far
  ret

vars == <<text, at, step, levels, jpath, calls, ret>>

INVALID == -150
CUT == -160                    \* FASTERJSON_ERROR_END_OF_BUFFER
Brackets == {"{", "}", "[", "]", ":", ","}
Constants == {"true", "false", "null"}

(* Words that begin as a constant does and are none.                       *)
Misspelt == {"nil"}

(* A level of this kind for a value that the levels around it call node.   *)
Level(kind, node, len) ==
  [kind |-> kind, node |-> node, first_node |-> TRUE, name |-> <<>>, quoted |-> FALSE,
   len |-> len, newlen |-> 0]

----------------------------------------------------------------------------
(* TOKENJSON.  The text of a comment is searched for its end from the      *)
(* fourth character on, which may lie behind the NUL of a short one.  A    *)
(* character of several bytes is part of a word.                           *)
Skip(s, i) ==
  LET skip[j \in Nat] ==
        LET k == Until(s, j, NoneOf(s, Blanks))
            long == Reads(s, k, <<"/", "*">>)
            end == IF long THEN <<"*", "/">> ELSE <<"\n">>
            e == Find(s, k + 4, end)
        IN IF ~long /\ ~Reads(s, k, <<"/", "/">>) THEN k
           ELSE IF k + 4 > Len(s) + 1 THEN Len(s) + 2
           ELSE IF At(s, e) = NUL THEN e ELSE skip[e + Len(end)]
  IN skip[i]

(* Faulty variant: a backslash hides nothing.                              *)
QuotedPlainly(s, b) ==
  LET e == Until(s, b + 1, AnyOf(s, {s[b]}))
  IN IF At(s, e) = NUL THEN NoToken(s)
     ELSE [Token(s, s[b], b + 1, e) EXCEPT !.next = e + 1]

(* A quoted text up to its quote; a backslash hides the symbol behind it,  *)
(* which must be one of those it may stand before; NUL passes for one.     *)
Quoted(s, b) ==
  LET scan[j \in Nat] ==
        CASE At(s, j) = NUL -> NoToken(s)
          [] At(s, j) = s[b] -> [Token(s, s[b], b + 1, j) EXCEPT !.next = j + 1]
          [] At(s, j) = "\n" -> Token(s, "INVALID", b, j)
          [] At(s, j) = "\\" -> IF At(s, j + 1) = NUL THEN Outside(s)
                                ELSE IF At(s, j + 1) \in {"t", "\"", "\\", "/"} THEN scan[j + 2]
                                ELSE Token(s, "INVALID", b, j)
          [] OTHER -> scan[j + 1]
  IN scan[b + 1]

(* A number or a constant: up to a blank or a bracket, and behind a        *)
(* leading zero only a point.                                              *)
Plain(s, b) ==
  LET e == Until(s, b, AnyOf(s, Blanks \cup Brackets))
      word == Part(s, b, e)
      invalid == \/ s[b] = "0" /\ e > b + 1 /\ s[b + 1] # "."
                 \/ \E j \in DOMAIN word : word[j] \in {"\\", "(", ")"}
      const == s[b] \in Constants \cup Misspelt
  IN CASE invalid -> Token(s, "INVALID", b, e)
       [] ~invalid /\ At(s, e) = NUL -> NoToken(s)
       [] ~invalid /\ At(s, e) # NUL ->
            Token(s, IF ~const THEN "TEXT"
                     ELSE IF word = <<s[b]>> /\ s[b] \in Constants THEN "CONST" ELSE "INVALID", b, e)

TokenAt(s, b) ==
  CASE At(s, b) = NUL -> NoToken(s)
    [] At(s, b) \in Brackets -> Token(s, At(s, b), b, b + 1)
    [] At(s, b) \in Quotes -> Quoted(s, b)
    [] OTHER -> Plain(s, b)
JsonToken(s, i) ==
  IF Skip(s, i) > Len(s) + 1 THEN Outside(s) ELSE TokenAt(s, Skip(s, i))

Nothing == {"EOF", "INVALID", "OUTSIDE"}
Scalars == {"\"", "TEXT", "CONST"}        \* single quotes are for no value

(* What is told of a value: of a constant, whose length is set to one, the *)
(* first letter, and of null the character 0x7F (lines 341 and 685).       *)
Content(token) ==
  IF token.tag # "CONST" THEN token.text
  ELSE CASE token.text = <<"true">> -> <<"t">>
         [] token.text = <<"false">> -> <<"f">>
         [] token.text = <<"null">> -> <<"0x7F">>

----------------------------------------------------------------------------
Init ==
  /\ at = 1 /\ step = "value"
  /\ levels = <<Level("top", <<>>, 0)>>
  /\ jpath = <<>> /\ calls = <<>> /\ ret = 0

tok == JsonToken(text, at)
top == Last(levels)
kind == top.kind
Outer == Front(levels)

Return(code) == step' = "done" /\ ret' = code /\ UNCHANGED <<levels, jpath, calls>>
Reading(tag) == at' = tok.next /\ tok.tag \in tag /\ UNCHANGED text
GoOn(to) == step' = to /\ ret' = ret
Top(level) == levels' = Append(Outer, level)

(* The first len names of the path, as far as its string goes.             *)
Path(buffer, len) == SubSeq(buffer, 1, Min({len, Len(buffer)}))

(* A name put behind the first len of the path ends the string; what is    *)
(* put behind the string's end is not seen.                                *)
Put(buffer, len, name) ==
  IF len > Len(buffer) THEN buffer ELSE Append(Path(buffer, len), name)

Call(type, path, node, content) ==
  [type |-> type, path |-> path, node |-> node, content |-> content]

----------------------------------------------------------------------------
(* The text ends, a token is none, or the text is left.  Between two       *)
(* values of the top level the text may end.                               *)
NoMore ==
  /\ step # "done" /\ Reading(Nothing)
  /\ Return(CASE tok.tag = "INVALID" -> INVALID
              [] tok.tag = "OUTSIDE" -> OUTSIDE
              [] tok.tag = "EOF" -> IF kind = "top" THEN 0 ELSE CUT)

(* A name.                                                                 *)
Name ==
  /\ step = "name" /\ Reading(Quotes \cup {"TEXT"})
  /\ Top([top EXCEPT !.name = tok.text, !.quoted = tok.tag = "\""])
  /\ GoOn("colon") /\ UNCHANGED <<jpath, calls>>

(* Faulty variant: the name is put behind the one of the value before it.  *)
ColonBehind ==
  /\ step = "colon" /\ Reading({":"}) /\ top.quoted
  /\ Top([top EXCEPT !.newlen = @ + 1])
  /\ jpath' = Put(jpath, top.newlen, top.name)
  /\ GoOn("value") /\ UNCHANGED calls

(* The colon behind it: the name becomes part of the path.                 *)
Colon ==
  /\ step = "colon" /\ Reading({":"}) /\ top.quoted
  /\ Top([top EXCEPT !.newlen = top.len + 1])
  /\ jpath' = Put(jpath, top.len, top.name)
  /\ GoOn("value") /\ UNCHANGED calls

(* A value that is neither object nor array.                               *)
Scalar ==
  /\ step = "value" /\ kind # "top" /\ Reading(Scalars)
  /\ IF kind = "object"
     THEN UNCHANGED <<levels, jpath>>
     ELSE Top([top EXCEPT !.newlen = top.len + 1]) /\ jpath' = Put(jpath, top.len, <<".">>)
  /\ calls' = Append(calls, Call(<<"leaf">>, Path(jpath', Last(levels').newlen), top.name, Content(tok)))
  /\ GoOn("after")

(* An object or an array begins.  In an array an object is given the path  *)
(* of the array, and an array the path of the value before it.             *)
Begin ==
  /\ step = "value" /\ Reading({"{", "["})
  /\ LET object == tok.tag = "{"
         node == IF object /\ kind = "object" THEN top.name
                 ELSE IF kind = "top" THEN tok.text ELSE <<"[">>
         len == IF object /\ kind = "array" THEN top.len ELSE top.newlen
     IN /\ levels' = Outer \o <<[top EXCEPT !.name = IF object \/ kind # "object" THEN @ ELSE <<"[">>],
                                Level(IF object THEN "object" ELSE "array", node, len)>>
        /\ calls' = Append(calls, Call(<<"enter", Last(levels').kind>>, Path(jpath, len), node, <<>>))
        /\ GoOn(IF object THEN "name" ELSE "value")
  /\ UNCHANGED jpath

(* A level returns to the one around it, which makes a call of these and   *)
(* puts the name of the value back into the path: before the call behind   *)
(* an object, and after it behind an array.                                *)
LevelEnds(made, buffer) ==
  LET outer == Last(Outer)
      array == kind = "array"
      named == [outer EXCEPT !.newlen = outer.len + 1]
      Leave(path) == Call(<<"leave", kind>>, Path(path, top.len), top.node, <<>>)
  IN /\ IF outer.kind = "top" \/ (outer.kind = "array" /\ ~array)
        THEN levels' = Outer /\ jpath' = buffer
        ELSE /\ levels' = Append(Front(Outer), named)
             /\ jpath' = Put(buffer, outer.len, IF array THEN <<"[">> ELSE outer.name)
     /\ calls' = calls \o Append(made, Leave(IF array THEN buffer ELSE jpath'))
     /\ GoOn(IF outer.kind = "top" THEN "value" ELSE "after")

End ==
  /\ \/ step = "after"
     \/ step = (IF kind = "object" THEN "name" ELSE "value") /\ top.first_node
  /\ kind # "top" /\ Reading({IF kind = "object" THEN "}" ELSE "]"})
  /\ LevelEnds(<<>>, jpath)

(* A bracket of either kind in the place of the colon ends the object; it  *)
(* is taken for the content of a value without a name.                     *)
NoValue ==
  /\ step = "colon" /\ Reading({"}", "]"})
  /\ LET unnamed == Put(jpath, top.len, <<".">>)
     IN LevelEnds(<<Call(<<"leaf">>, Path(unnamed, top.len + 1), <<>>, tok.text)>>, unnamed)

Comma ==
  /\ step = "after" /\ Reading({","})
  /\ Top([top EXCEPT !.first_node = FALSE])
  /\ GoOn(IF kind = "object" THEN "name" ELSE "value") /\ UNCHANGED <<jpath, calls>>

(* Any other token, or one in a wrong place.                               *)
Expected ==
  CASE step = "name" -> Quotes \cup {"TEXT"} \cup IF top.first_node THEN {"}"} ELSE {}
    [] step = "colon" -> {"}", "]"} \cup IF top.quoted THEN {":"} ELSE {}
    [] step = "value" -> {"{", "["} \cup (IF kind = "top" THEN {} ELSE Scalars)
                                    \cup (IF kind = "array" /\ top.first_node THEN {"]"} ELSE {})
    [] step = "after" -> {",", IF kind = "object" THEN "}" ELSE "]"}

Wrong ==
  /\ step # "done" /\ tok.tag \notin Expected \cup Nothing
  /\ at' = tok.next /\ UNCHANGED text
  /\ Return(CASE step = "name" -> -131
              [] step = "colon" -> IF tok.tag \in {":", ","} THEN -131 ELSE -132
              [] step = "value" /\ kind = "top" -> -121
              [] step = "value" /\ kind = "object" -> -133
              [] step = "value" /\ kind = "array" -> IF tok.tag = "'" THEN -131 ELSE -141
              [] step = "after" -> IF kind = "object" THEN -134 ELSE -142)

Next ==
  \/ NoMore \/ Name \/ Colon \/ Scalar \/ Begin \/ End \/ NoValue \/ Comma \/ Wrong

Spec == Init /\ [][Next]_vars
=============================================================================
