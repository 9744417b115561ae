---------------------------- MODULE MCLogConfig -----------------------------
(***************************************************************************)
(* LogConfig on four families of texts: configurations in XML, each in     *)
(* full and cut off anywhere; other XML documents, also with one symbol    *)
(* replaced; JSON values, in full and cut off anywhere; and every short    *)
(* text of a few symbols.  What each text stands for is written down here  *)
(* without regard to the scanners.                                         *)
(***************************************************************************)
EXTENDS LogConfig

CONSTANT Length               \* of the short texts

VARIABLE doc                  \* what the text was made from

----------------------------------------------------------------------------
(* XML documents.                                                          *)

Element(name, attr, kids) == [name |-> <<name>>, attr |-> attr, kids |-> kids]
Attr(name, value) == [name |-> <<name>>, value |-> <<value>>]
Flat(seqs) == FlattenSeq(seqs)
Map(Op(_), seq) == [i \in DOMAIN seq |-> Op(seq[i])]

RECURSIVE Rendered(_)
Rendered(e) ==
  LET attrs == Flat(Map(LAMBDA a : <<" ">> \o a.name \o <<"=", "\"">> \o a.value \o <<"\"">>, e.attr))
  IN <<"<">> \o e.name \o attrs
       \o IF e.kids = <<>> THEN <<"/", ">">>
          ELSE <<">", "\n">> \o Flat(Map(Rendered, e.kids)) \o <<"<", "/">> \o e.name \o <<">", "\n">>

Prolog == <<"<", "?", "xml", " ", "version", "=", "\"", "1", "\"", "?", ">", "\n",
            "<", "!", "--", " ", "x", "=", "/", " ", "--", ">">>

(* The elements in the order of their beginnings, with their parents.      *)
RECURSIVE Listed(_, _, _)
Listed(es, parent, n) ==
  IF es = <<>> THEN <<>>
  ELSE LET e == Head(es)
           kids == Listed(e.kids, n, n + 1)
       IN <<[name |-> e.name, attr |-> e.attr, parent |-> parent]>> \o kids
            \o Listed(Tail(es), parent, n + 1 + Len(kids))

----------------------------------------------------------------------------
(* Configurations.                                                         *)

Pattern == Element("patternlayout", <<Attr("pattern", "m")>>, <<>>)
Filter == Element("thresholdfilter", <<Attr("level", "warn"), Attr("onmatch", "deny")>>, <<>>)
Policies == Element("policies", <<>>, <<Element("sizebasedtriggeringpolicy", <<Attr("size", "100")>>, <<>>)>>)
Ref(name) == Element("appender-ref", <<Attr("ref", name)>>, <<>>)

Sections(c) ==
  [appenders |-> Element("appenders", <<>>,
     <<Element("console", <<Attr("name", "con"), Attr("target", "system_err")>>, c.children),
       Element("rollingfile", <<Attr("name", "rol"), Attr("filepattern", "f")>>, c.children)>>),
   loggers |-> Element("loggers", <<>>,
     <<Element("logger", <<Attr("name", "log"), Attr("level", "warn"), Attr("additivity", "false")>>, <<>>),
       Element("root", <<Attr("level", c.level)>>, Map(Ref, c.refs))>>),
   properties |-> Element("properties", <<>>, <<>>)]

Configuration(c) ==
  Element("configuration", <<Attr("status", "warn"), Attr("monitorinterval", "30")>>,
          Map(LAMBDA s : Sections(c)[s], c.order))

Configurations ==
  [order : {<<"appenders", "loggers">>, <<"loggers", "appenders">>, <<"properties", "appenders", "loggers">>,
            <<"appenders", "loggers", "properties">>},
   refs : {<<>>, <<"con">>, <<"con", "rol">>},
   children : {<<>>, <<Pattern>>, <<Pattern, Filter>>, <<Filter, Pattern, Policies>>},
   level : {"all", "info"}]

(* What a configuration means.                                             *)
Meaning(c) ==
  LET apd(class, more) ==
        more @@ [create_appender(class) EXCEPT
                   !.pattern_layout = IF Pattern \in ToSet(c.children) THEN <<"m">> ELSE <<>>,
                   !.filter = IF Filter \in ToSet(c.children)
                              THEN <<[create_filter EXCEPT !.level = "warn", !.on_match = "deny"]>> ELSE <<>>]
      rolling == [file_name |-> <<"f">>, size |-> IF Policies \in ToSet(c.children) THEN "100" ELSE "0"]
  IN [status |-> "warn", monitorinterval |-> "30",
      appenders |-> (<<"con">> :> apd("console", [target |-> "system_err"]))
                      @@ (<<"rol">> :> apd("rollingfile", rolling)),
      loggers |-> <<"log">> :> [level |-> "warn", appender_ref |-> <<>>, additivity |-> FALSE],
      root |-> [level |-> c.level, appender_ref |-> Map(LAMBDA r : <<r>>, c.refs), additivity |-> TRUE]]

(* What of it is read: one reference for a logger, no child of an appender *)
(* but its layout, no level "info", and no references at all unless the    *)
(* loggers come last.                                                      *)
LoggersLast(c) == Last(c.order) = "loggers" \/ c.refs = <<>>
Plain(c) == /\ LoggersLast(c) /\ Len(c.refs) <= 1 /\ c.level # "info"
            /\ ToSet(c.children) \subseteq {Pattern}

----------------------------------------------------------------------------
(* Other documents: elements in elements, several at the top, and "xml".   *)

Leaves == {Element("a", <<>>, <<>>), Element("xml", <<Attr("k", "v")>>, <<>>)}
Holders(es) == {Element(n, <<>>, kids) : n \in {"b", "xml"}, kids \in es}
Trees1 == Leaves \cup Holders({<<e>> : e \in Leaves} \cup {<<e, Element("c", <<>>, <<>>)>> : e \in Leaves})
Trees2 == Trees1 \cup Holders({<<e, f>> : e \in Trees1, f \in Leaves})

(* An element "xml" at the top makes no node, and a node in it has no      *)
(* parent.                                                                 *)
Unwrapped(es) == Flat(Map(LAMBDA e : IF e.name = <<"xml">> THEN e.kids ELSE <<e>>, es))

Doc(kind, content, list, symbols) ==
  [kind |-> kind, cut |-> FALSE, content |-> content, list |-> list, text |-> symbols]
XmlDoc(kind, content, es, prolog) ==
  Doc(kind, content, Listed(Unwrapped(es), NULL, 1), prolog \o Flat(Map(Rendered, es)) \o <<"\n">>)

ConfigDocs == {XmlDoc("config", c, <<Configuration(c)>>, Prolog) : c \in Configurations}
TreeDocs == {XmlDoc("tree", {}, <<e>>, <<>>) : e \in Trees2}
              \cup {XmlDoc("tree", {}, <<e, f>>, Prolog) : e \in Trees1, f \in Trees1}

----------------------------------------------------------------------------
(* JSON values: their symbols, and the calls they stand for.  The scanner  *)
(* tells a constant by one character.                                      *)

ScalarVs == {[t |-> "leaf", text |-> <<"\"", "x", "\\", "\"", "\"">>, content |-> <<"x", "\\", "\"">>],
             [t |-> "leaf", text |-> <<" ", "0", ".", "5">>, content |-> <<"0", ".", "5">>],
             [t |-> "leaf", text |-> <<"true">>, content |-> <<"t">>],
             [t |-> "leaf", text |-> <<"null">>, content |-> <<"0x7F">>]}
Objects(vs) == {[t |-> "object", parts |-> s] : s \in SeqOf(vs, 2)}
Arrays(vs) == {[t |-> "array", parts |-> s] : s \in SeqOf(vs, 2)}
SmallVs == LET one == {CHOOSE v \in ScalarVs : v.text = <<"true">>}
           IN Objects(one) \cup Arrays(one)
Values == Objects(ScalarVs \cup SmallVs) \cup Arrays(ScalarVs \cup SmallVs)

Names == <<"m", "n">>
RECURSIVE Symbols(_)
Symbols(v) ==
  LET comma(i) == IF i = 1 THEN <<>> ELSE <<",", " ">>
      member(i) == IF v.t = "object" THEN <<"\"", Names[i], "\"", ":">> ELSE <<>>
      all == Flat([i \in DOMAIN v.parts |-> comma(i) \o member(i) \o Symbols(v.parts[i])])
  IN IF v.t = "leaf" THEN v.text
     ELSE IF v.t = "object" THEN <<"{">> \o all \o <<"}">> ELSE <<"[">> \o all \o <<"]">>

(* The calls for a value known as node, inside members of these names.     *)
RECURSIVE Told(_, _, _)
Told(v, node, names) ==
  LET Event(type, content) == <<[type |-> type, node |-> node, content |-> content, names |-> names]>>
      Part_(i) == IF v.t = "object"
                  THEN Told(v.parts[i], IF v.parts[i].t = "array" THEN <<"[">> ELSE <<Names[i]>>,
                            Append(names, <<Names[i]>>))
                  ELSE Told(v.parts[i], IF v.parts[i].t = "leaf" THEN <<>> ELSE <<"[">>, names)
  IN IF v.t = "leaf" THEN Event(<<"leaf">>, v.content)
     ELSE Event(<<"enter", v.t>>, <<>>) \o Flat([i \in DOMAIN v.parts |-> Part_(i)])
            \o Event(<<"leave", v.t>>, <<>>)

(* An array in an array, with nothing but objects before it, is given an   *)
(* empty path, and overwrites the beginning of the path.                   *)
Spoilt(v) == v.t # "leaf" /\ \E i \in DOMAIN v.parts :
               /\ v.parts[i].t = "array" /\ v.t = "array"
               /\ \A j \in 1 .. i - 1 : v.parts[j].t = "object"

Comment == <<"/", "/", "x", "x", "x", "\n">>
JsonDocs ==
  {Doc("json", v, Told(v, IF v.t = "object" THEN <<"{">> ELSE <<"[">>, <<>>), Comment \o Symbols(v)) :
     v \in Values}

----------------------------------------------------------------------------
Alphabets ==
  {{"<", "/", ">", "a", "=", "\"", " "}, {"<", "/", ">", "a", "!", "--", "?"},
   {"{", "}", "[", "]", ":", ",", "\"", "a"}, {"[", "]", "'", "0", "nil", "/", "*", "\n"}}

(* A text in quotes that the tag's end ignores and its properties begin.   *)
Misquoted == Doc("short", {}, <<>>, <<"<", "a", " ", "b", "\"", " ", "\"", "/", ">", "\n">>)

(* With one symbol replaced, so that a name may differ from the one in the *)
(* end tag.                                                                *)
Spelt(d, n, symbol) == Doc("short", {}, <<>>, [d.text EXCEPT ![n] = symbol])
Cut(d, n) == [d EXCEPT !.text = SubSeq(@, 1, n), !.cut = TRUE]

(* Of the configurations one is cut off.                                   *)
OneConfig(c) == /\ c.order = <<"appenders", "loggers">> /\ Len(c.refs) = 2
                /\ c.children = <<Pattern, Filter>> /\ c.level = "all"

MCInit ==
  /\ \/ doc \in ConfigDocs \/ doc \in TreeDocs \/ doc \in JsonDocs \/ doc = Misquoted
     \/ \E a \in Alphabets : \E s \in SeqOf(a, Length) : doc = Doc("short", {}, <<>>, s)
     \/ \E d \in {d \in ConfigDocs : OneConfig(d.content)} : \E n \in 0 .. Len(d.text) - 1 : doc = Cut(d, n)
     \/ \E d \in TreeDocs : \E n \in 0 .. Len(d.text) - 1 : doc = Cut(d, n)
     \/ \E d \in TreeDocs : \E n \in DOMAIN d.text, symbol \in {"c", "/"} : doc = Spelt(d, n, symbol)
     \/ \E d \in JsonDocs : \E n \in 0 .. Len(d.text) - 1 : doc = Cut(d, n)
  /\ text = doc.text
  /\ Init

Ended == stage \notin {"json", "xml", "read"}
Stopped == Ended /\ UNCHANGED vars
MCNext == (Next \/ Stopped) /\ UNCHANGED doc

MCSpec == MCInit /\ [][MCNext]_<<vars, doc>>

----------------------------------------------------------------------------
(* The tree holds the elements of the document as far as it has been read, *)
(* each with its attributes and in its place, and walking along the links  *)
(* meets the children of a node in their order.  A whole document is read  *)
(* without an error and to its last element.  Of one that was cut off only *)
(* a beginning is in the tree, and the code it ends with says nothing:     *)
(* what was cut off between two tags is taken for whole.                   *)
TreeIsDocument ==
  LET n == Len(p.nodes)
      Shown(i) == [name |-> p.nodes[i].name, attr |-> p.nodes[i].attr, parent |-> p.nodes[i].parent]
      Below(i) == SelectSeq([j \in 1 .. n |-> j], LAMBDA j : p.nodes[j].parent = i)
  IN doc.kind \in {"config", "tree"} =>
       /\ [i \in 1 .. n |-> Shown(i)] = SubSeq(doc.list, 1, n)
       /\ \A i \in 1 .. n : ChildrenOf(p.nodes, i) = Below(i)
       /\ phase = "done" /\ ~doc.cut => ret = 0 /\ n = Len(doc.list)

(* The calls of the JSON scanner are those the value stands for, in their  *)
(* order; a whole value is accepted.  One cut off anywhere is refused, or  *)
(* the scanner leaves the text: behind a backslash at its end, and in a    *)
(* comment shorter than four characters.                                   *)
JsonReadsValue ==
  LET Shown(c) == [type |-> c.type, node |-> c.node, content |-> c.content]
  IN doc.kind = "json" =>
       /\ Len(calls) <= Len(doc.list)
       /\ \A i \in DOMAIN calls : Shown(calls[i]) = Shown(doc.list[i])
       /\ step = "done" /\ ~doc.cut => jret = 0 /\ Len(calls) = Len(doc.list)
       /\ step = "done" /\ doc.cut => jret < 0 \/ calls = <<>>
       /\ jret = OUTSIDE => doc.cut /\ (Last(text) = "\\" \/ Len(text) \in {2, 3})

(* The one buffer for the path of all levels holds, at each call, the      *)
(* names of the members that the value is inside, in every value without   *)
(* an array in an array that has nothing but objects before it (such a     *)
(* value loses the names: see Spoilt).                                     *)
RECURSIVE SomeSpoilt(_)
SomeSpoilt(v) == Spoilt(v) \/ (v.t # "leaf" /\ \E i \in DOMAIN v.parts : SomeSpoilt(v.parts[i]))
PathsIntact ==
  doc.kind = "json" /\ ~SomeSpoilt(doc.content) =>
    \A i \in DOMAIN calls :
      SelectSeq(calls[i].path, LAMBDA name : name \notin {<<".">>, <<"[">>}) = doc.list[i].names

(* A plain configuration is read as what it means, in full, whatever the   *)
(* order of its sections.  Any other is read to an end as well, but for    *)
(* one with references in loggers that another section follows, on which   *)
(* the reading never ends.  Plain leaves out what is not read as it is     *)
(* meant: a second reference, a child of an appender that is not its       *)
(* layout, the level "info".                                               *)
ConfigIsMeaning ==
  LET c == doc.content
  IN doc.kind = "config" /\ ~doc.cut /\ Ended =>
       /\ stage = IF LoggersLast(c) THEN "config" ELSE "endless"
       /\ Plain(c) => config = Meaning(c)

(* st.h: the appender_ref of a logger says to which appenders it writes.   *)
(* So each reference in the root element of a configuration that is read   *)
(* is kept, in its order.                                                  *)
ReferencesKept ==
  LET c == doc.content
  IN doc.kind = "config" /\ ~doc.cut /\ stage = "config" =>
       config.root.appender_ref = Map(LAMBDA r : <<r>>, c.refs)
=============================================================================
