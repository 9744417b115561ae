------------------------------ MODULE XmlText -------------------------------
(***************************************************************************)
(* How thirdparty/faster/fasterxml.c reads a text: its tokens, the tags,   *)
(* the properties in a tag.                                                *)
(***************************************************************************)
EXTENDS TextScan

INVALID == -100
END_OF_BUFFER == -13
Unexpected(tag) == INVALID - CASE tag = "RAB" -> 4 [] tag = "TEXT" -> 6 [] tag = "EQ" -> 15

(* Behind blanks and comments.  The text of a comment is searched for its  *)
(* end from behind <!-- on.                                                *)
Skip(s, i) ==
  LET skip[j \in Nat] ==
        LET k == Until(s, j, NoneOf(s, Blanks))
            e == Find(s, k + 3, <<"--", ">">>)
        IN IF ~Reads(s, k, <<"<", "!", "--">>) THEN k
           ELSE IF At(s, e) = NUL THEN e ELSE skip[e + 2]
  IN skip[i]

XmlTokenAt(s, b) ==
  LET e == Until(s, b + 1, AnyOf(s, Blanks \cup {"<", "/", "?", ">"}))
      Is(tag, n) == Token(s, tag, b, b + n)
  IN CASE At(s, b) = "<" /\ At(s, b + 1) \in {"?", "!"} -> Is("LAB_SP", 2)
       [] At(s, b) = "<" /\ At(s, b + 1) \notin {"?", "!", "\n", NUL} -> Is("LAB", 1)
       [] At(s, b) = "/" -> Is("SLASH", 1)
       [] At(s, b) = ">" -> Is("RAB", 1)
       [] OTHER -> IF At(s, e) = NUL THEN NoToken(s) ELSE Token(s, "TEXT", b, e)
XmlToken(s, i) == XmlTokenAt(s, Skip(s, i))

(* In a tag: a name, an equals sign or a value, up to the end of the tag.  *)
(* Behind a text in quotes one character is stepped over, which is NUL if  *)
(* the quotes are not closed.                                              *)
PropertyTokenAt(s, b) ==
  LET q == Until(s, b + 1, AnyOf(s, {s[b]}))
      e == Until(s, b, AnyOf(s, Blanks \cup {"=", "?", ">"}))
  IN CASE \/ At(s, b) \in {NUL, ">"}
          \/ Reads(s, b, <<"/", ">">>) \/ Reads(s, b, <<"?", ">">>) -> NoToken(s)
       [] At(s, b) \in Quotes -> [Token(s, "TEXT", b + 1, q) EXCEPT !.next = q + 1]
       [] At(s, b) = "=" -> Token(s, "EQ", b, b + 1)
       [] OTHER -> Token(s, "TEXT", b, e)
PropertyToken(s, i) ==
  IF i > Len(s) + 1 THEN Outside(s) ELSE PropertyTokenAt(s, Skip(s, i))

(* TravelXmlPropertiesBuffer: the properties of a tag in their order.  The *)
(* ones in front of an error have been reported when it is met.            *)
Properties(s) ==
  LET read[i \in Nat] ==
        LET Stop(nret) == [list |-> <<>>, nret |-> nret]
            Nothing(token) == token.tag \in {"EOF", "OUTSIDE"}
            StopAt(token, nret) == Stop(IF token.tag = "OUTSIDE" THEN OUTSIDE ELSE nret)
            Report(name, v, next) ==
              [read[next] EXCEPT !.list = <<[name |-> name.text, value |-> v]>> \o @]
            WithValue(name, value) ==
              IF Nothing(value) THEN StopAt(value, END_OF_BUFFER)
              ELSE Report(name, value.text, value.next)
            WithEq(name, eq) ==
              IF Nothing(eq) THEN StopAt(eq, END_OF_BUFFER)
              ELSE IF eq.text # <<"=">> THEN Stop(Unexpected("EQ"))
              ELSE WithValue(name, PropertyToken(s, eq.next))
            WithName(name) ==
              IF Nothing(name) THEN StopAt(name, 0)
              ELSE IF At(s, name.next) \in {" ", ">"} THEN Report(name, <<>>, name.next)
              ELSE WithEq(name, PropertyToken(s, name.next))
        IN WithName(PropertyToken(s, i))
  IN read[1]

(* Behind the end of the tag; a bracket in quotes is none.                 *)
TagEnd(s, i) ==
  LET scan[j \in Nat] ==
        LET q == Until(s, j + 1, AnyOf(s, {s[j]}))
        IN CASE At(s, j) = NUL -> j
             [] At(s, j) \in Quotes -> IF At(s, q) = NUL THEN q ELSE scan[q + 1]
             [] At(s, j) = ">" -> j + 1
             [] Reads(s, j, <<"/", ">">>) -> j + 2
             [] OTHER -> scan[j + 1]
  IN scan[i]

(* Where the text in an element ends: at a tag, be it inside a comment.    *)
ContentEnd(s, i) ==
  Until(s, i, {j \in AnyOf(s, {"<"}) : At(s, j + 1) \notin Marks \/ At(s, j + 1) = "/"})
=============================================================================
