----------------------------- MODULE FasterXml ------------------------------
(***************************************************************************)
(* thirdparty/faster/fasterxml.c: the XML scanner TravelXmlBuffer.  It     *)
(* walks the text from tag to tag, without a tree, and calls a function    *)
(* for an element without a body ("branch"), for one that holds text only  *)
(* ("leaf"), and at the beginning ("enter") and the end ("leave") of one   *)
(* that holds elements.  The C stack of _TravelXmlBuffer is `stack': one   *)
(* element for each level but the first.                                   *)
(*                                                                         *)
(* An action takes the scanner from one of its loops to the next: `phase'  *)
(* is "open" where it looks for a tag, "tag" behind the name in one,       *)
(* "content" behind a tag that leaves its element open, and "close" where  *)
(* a level has returned and the end of its element is read.                *)
(*                                                                         *)
(* No skip tags are set (nothing calls AddSkipXmlTag), the paths stay      *)
(* below the 1024 characters given for them, and the function returns no   *)
(* positive value, which would break off the level it is called from:      *)
(* _on_xml_node, the one function ever passed, returns none.               *)
(***************************************************************************)
EXTENDS XmlDom, SequencesExt

VARIABLES
  text,          \* xml_buffer
  at,            \* *xml_ptr
  started,       \* __FASTERXML_RECCOUNT # 0
  phase,
  elem,          \* the element whose tag is read: its name, where its properties
                 \* begin, whether <? or <! opens it, whether it was read ahead
  stack,         \* the elements entered and not left, outermost first
  p,             \* the struct parse_info of the function, OnXmlNode
  told, call,    \* how many calls it got, and the last
  ret

xml == <<at, started, phase, elem, stack, p, told, call, ret>>

NoElem == [name |-> <<>>, properties |-> 0, sp |-> FALSE, first |-> FALSE]
NoCall == [type |-> "none", path |-> <<>>, node |-> <<>>, properties |-> <<>>]

----------------------------------------------------------------------------
XmlInit ==
  /\ at = 1 /\ started = FALSE /\ phase = "open"
  /\ elem = NoElem /\ stack = <<>>
  /\ p = NoTree /\ told = 0 /\ call = NoCall /\ ret = 0

Return(code) == phase' = "done" /\ ret' = code
GoOn(to) == phase' = to /\ ret' = ret
ReturnOr(code, to) == IF code < 0 THEN Return(code) ELSE GoOn(to)

(* The function is called with an element, whose path ends with it, and    *)
(* says whether to go on.                                                  *)
Tell(type, e, outer) ==
  /\ told' = told + 1
  /\ call' = [type |-> type, node |-> e.name,
              path |-> Append([i \in DOMAIN outer |-> outer[i].name], e.name),
              properties |-> SubSeq(text, e.properties, Len(text))]
  /\ p' = OnXmlNode(p, call').p

Nret == OnXmlNode(p, call').nret

TellNothing == UNCHANGED <<p, told, call>>
Fail(code) == Return(code) /\ TellNothing /\ UNCHANGED <<elem, stack>>

(* What the tokens of an end tag are wrong with.                           *)
NameError(name, e) ==
  IF name.tag = "EOF" THEN END_OF_BUFFER
  ELSE IF name.text # e.name THEN Unexpected("TEXT") ELSE 0
RabError(rab) ==
  IF rab.tag = "EOF" THEN END_OF_BUFFER
  ELSE IF rab.tag # "RAB" THEN Unexpected("RAB") ELSE 0

(* At the top of a level: the text may end here, and what is no tag is     *)
(* passed over, but not before the first tag.                              *)
NoTag ==
  LET tok == XmlToken(text, at)
  IN /\ phase = "open" /\ tok.tag \notin {"LAB", "LAB_SP"}
     /\ at' = tok.next /\ started' = TRUE
     /\ IF tok.tag = "EOF" THEN Return(0)
        ELSE ReturnOr(IF started THEN 0 ELSE INVALID, "open")
     /\ TellNothing /\ UNCHANGED <<text, elem, stack>>

(* The tag of an element begins.                                           *)
OpenTag ==
  LET tok == XmlToken(text, at)
      name == XmlToken(text, tok.next)
  IN /\ phase = "open" /\ tok.tag \in {"LAB", "LAB_SP"} /\ name.tag # "SLASH"
     /\ at' = name.next /\ started' = TRUE
     /\ ReturnOr(IF name.tag = "EOF" THEN END_OF_BUFFER ELSE 0, "tag")
     /\ elem' = [name |-> name.text, properties |-> name.next,
                 sp |-> tok.tag = "LAB_SP", first |-> FALSE]
     /\ TellNothing /\ UNCHANGED <<text, stack>>

(* Faulty variant: the level returns in front of the slash.                *)
EndLevelInFront ==
  LET tok == XmlToken(text, at)
  IN /\ phase = "open" /\ tok.tag \in {"LAB", "LAB_SP"} /\ XmlToken(text, tok.next).tag = "SLASH"
     /\ at' = at /\ started' = TRUE
     /\ IF stack = <<>> THEN Return(0) ELSE GoOn("close")
     /\ TellNothing /\ UNCHANGED <<text, elem, stack>>

(* An end tag: the level returns to the one that entered the element, and  *)
(* the first level to its caller, whatever stands behind.                  *)
EndLevel ==
  LET tok == XmlToken(text, at)
      slash == XmlToken(text, tok.next)
      name == XmlToken(text, slash.next)
  IN /\ phase = "open" /\ tok.tag \in {"LAB", "LAB_SP"} /\ slash.tag = "SLASH"
     /\ at' = slash.next /\ started' = TRUE
     /\ IF name.tag = "EOF" THEN Return(END_OF_BUFFER)
        ELSE IF name.tag # "TEXT" THEN Return(Unexpected("TEXT"))
        ELSE IF stack = <<>> THEN Return(0) ELSE GoOn("close")
     /\ TellNothing /\ UNCHANGED <<text, elem, stack>>

(* The tag ends.  A text that ends right behind a tag is taken for one cut *)
(* off.                                                                    *)
EndTag ==
  LET e == TagEnd(text, at)
      branch == elem.sp \/ Reads(text, e - 2, <<"/", ">">>)
  IN /\ phase = "tag" /\ at' = e
     /\ IF At(text, e) = NUL THEN Fail(END_OF_BUFFER)
        ELSE IF branch THEN /\ Tell("branch", elem, stack) /\ ReturnOr(Nret, "open")
                            /\ elem' = NoElem /\ UNCHANGED stack
        ELSE GoOn("content") /\ TellNothing /\ UNCHANGED <<elem, stack>>
     /\ UNCHANGED <<text, started>>

(* The element ends behind its text.                                       *)
Leaf ==
  LET slash == XmlToken(text, ContentEnd(text, at) + 1)
      name == XmlToken(text, slash.next)
      rab == XmlToken(text, name.next)
  IN /\ phase = "content" /\ slash.tag = "SLASH" /\ at' = rab.next
     /\ IF NameError(name, elem) < 0 THEN Fail(NameError(name, elem))
        ELSE IF RabError(rab) < 0 THEN Fail(RabError(rab))
        ELSE /\ Tell("leaf", elem, stack) /\ ReturnOr(Nret, "open")
             /\ elem' = NoElem /\ UNCHANGED stack
     /\ UNCHANGED <<text, started>>

(* The element holds another, whose name has been read when the level for  *)
(* it begins.                                                              *)
EnterElement ==
  LET name == XmlToken(text, ContentEnd(text, at) + 1)
  IN /\ phase = "content" /\ name.tag # "SLASH" /\ at' = name.next
     /\ IF name.tag = "EOF" THEN Fail(END_OF_BUFFER)
        ELSE /\ Tell("enter", elem, stack) /\ ReturnOr(Nret, "tag")
             /\ stack' = Append(stack, elem)
             /\ elem' = [name |-> name.text, properties |-> name.next,
                         sp |-> FALSE, first |-> TRUE]
     /\ UNCHANGED <<text, started>>

(* Faulty variant: the name in the end tag is reported and not compared.   *)
LeaveElementUnchecked ==
  LET name == XmlToken(text, at)
      rab == XmlToken(text, name.next)
      last == Last(stack)
  IN /\ phase = "close" /\ at' = rab.next
     /\ Tell("leave", [last EXCEPT !.name = name.text], Front(stack))
     /\ ReturnOr(IF Nret < 0 THEN Nret ELSE RabError(rab), "open")
     /\ stack' = Front(stack) /\ UNCHANGED <<text, started, elem>>

(* The level for its elements has returned at the name in the end tag.     *)
(* The bracket behind that name is looked for after the call.              *)
LeaveElement ==
  LET name == XmlToken(text, at)
      rab == XmlToken(text, name.next)
      last == Last(stack)
  IN /\ phase = "close" /\ at' = rab.next
     /\ IF NameError(name, last) < 0 THEN Fail(NameError(name, last))
        ELSE /\ Tell("leave", last, Front(stack))
             /\ ReturnOr(IF Nret < 0 THEN Nret ELSE RabError(rab), "open")
             /\ stack' = Front(stack) /\ UNCHANGED elem
     /\ UNCHANGED <<text, started>>

XmlNext == NoTag \/ OpenTag \/ EndLevel \/ EndTag \/ Leaf \/ EnterElement \/ LeaveElement

XmlSpec == XmlInit /\ [][XmlNext]_<<text, xml>>

----------------------------------------------------------------------------
(* Whatever the text is, the calls nest.  The elements entered and not     *)
(* left are those of `stack', and the innermost is fresh until the tag     *)
(* that was read ahead has been told of.                                   *)
Sax == INSTANCE SaxStream WITH open <- [i \in DOMAIN stack |-> stack[i].name],
                               fresh <- elem.first
CallsNest == Sax!Spec
=============================================================================
