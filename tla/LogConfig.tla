----------------------------- MODULE LogConfig ------------------------------
(***************************************************************************)
(* uvlog/uvLog.c and logconfig.c: from the text of a configuration to the  *)
(* configuration of a logger, as uv_log_init_conf_buff goes about it.  The *)
(* text is tried as JSON; what the JSON scanner refuses is read as XML;    *)
(* and the tree of the one that took it is read section by section.        *)
(*                                                                         *)
(* Every appender and every logger of a text has a name of its own, and no *)
(* element has an attribute twice.  A word is in lower case.               *)
(* The variables of the XML scanner are those of FasterXml; both scanners  *)
(* read its text.                                                          *)
(***************************************************************************)
EXTENDS FasterXml

VARIABLES
  jat, step, levels, jpath, calls, jret,       \* parse_json
  stage,         \* "json", "xml", "read", or how it ended: "config", "failed",
                 \* "fault" (a NULL pointer followed), "endless", "outside"
  config

json == <<jat, step, levels, jpath, calls, jret>>
vars == <<text, json, xml, stage, config>>

Json == INSTANCE FasterJson WITH at <- jat, ret <- jret

----------------------------------------------------------------------------
(* logconfig.c: what stands in a configuration before it is read.  Memory  *)
(* comes zeroed, and a type of zero is a console's: nothing ever sets it.  *)
create_filter == [level |-> "all", on_match |-> "accept", mis_match |-> "deny"]
create_appender(class) ==
  [class |-> class, type |-> "console", target |-> "system_out", file_name |-> <<>>,
   append |-> FALSE, pattern_layout |-> <<>>, filter |-> <<>>,
   interval |-> "24", modulate |-> FALSE, size |-> "0", max |-> "7"]
create_logger == [level |-> "info", appender_ref |-> <<>>, additivity |-> TRUE]
create_config ==
  [status |-> "error", monitorinterval |-> "5", appenders |-> <<>>, loggers |-> <<>>,
   root |-> create_logger]

----------------------------------------------------------------------------
(* The values.                                                             *)

(* Faulty variant: "warn" too is asked for with a letter too few.          *)
_parse_level_short(value) ==
  IF value \in {<<w>> : w \in {"all", "trace", "debug", "fatal", "off"}} THEN value[1] ELSE "debug"

(* _parse_level.  Of "Info" and "Error" the wrong number of letters is     *)
(* asked for: "erro" is an error, and what is no level is debug.           *)
_parse_level(value) ==
  IF value = <<"erro">> THEN "error"
  ELSE IF value \in {<<w>> : w \in {"all", "trace", "debug", "warn", "fatal", "off"}}
       THEN value[1] ELSE "debug"

(* _parse_match compares with beginnings of the words, so that no word it  *)
(* is meant for changes the value.                                         *)
_parse_match(value, old) ==
  CASE value = <<"acc">> -> "accept" [] value = <<"neutr">> -> "neutral"
    [] value \notin {<<"acc">>, <<"neutr">>} -> old

(* atoi: the number a value begins with.                                   *)
atoi(value) == IF value # <<>> /\ value[1] \in {"1", "20", "30", "100"} THEN value[1] ELSE "0"

(* What the attributes make of an object, read one after the other.        *)
Read(attrs, Set(_, _, _), object) ==
  FoldLeft(LAMBDA o, a : Set(o, a.name, a.value), object, attrs)

Named(node, word) == node.name = <<word>>

SetFilter(f, name, value) ==
  CASE name = <<"level">> -> [f EXCEPT !.level = _parse_level(value)]
    [] name = <<"onmatch">> -> [f EXCEPT !.on_match = _parse_match(value, @)]
    [] name = <<"onmismatch">> -> [f EXCEPT !.mis_match = _parse_match(value, @)]
    [] OTHER -> f
_parse_threshold_filter(node) == <<Read(node.attr, SetFilter, create_filter)>>

Children(nodes, n) == [i \in DOMAIN ChildrenOf(nodes, n) |-> nodes[ChildrenOf(nodes, n)[i]]]

_parse_filters(nodes, n) ==
  LET filters == SelectSeq(Children(nodes, n), LAMBDA c : Named(c, "thresholdfilter"))
  IN FoldLeft(LAMBDA fs, c : fs \o _parse_threshold_filter(c), <<>>, filters)

SetTimePolicy(apd, name, value) ==
  CASE name = <<"interval">> -> [apd EXCEPT !.interval = atoi(value)]
    [] name = <<"modulate">> -> [apd EXCEPT !.modulate = @ \/ value = <<"true">>]
    [] OTHER -> apd
SetSizePolicy(apd, name, value) == IF name = <<"size">> THEN [apd EXCEPT !.size = atoi(value)] ELSE apd
_parse_policies(nodes, n, apd) ==
  LET Policy(a, c) == IF Named(c, "timebasedtriggeringpolicy") THEN Read(c.attr, SetTimePolicy, a)
                      ELSE IF Named(c, "sizebasedtriggeringpolicy") THEN Read(c.attr, SetSizePolicy, a)
                      ELSE a
  IN FoldLeft(Policy, apd, Children(nodes, n))

SetPattern(apd, name, value) ==
  IF name = <<"pattern">> THEN [apd EXCEPT !.pattern_layout = value] ELSE apd
SetMax(apd, name, value) == IF name = <<"max">> THEN [apd EXCEPT !.max = atoi(value)] ELSE apd

(* The children of an appender.  Each function is meant for one kind of    *)
(* child; it is called only if the one before it was for the same child.   *)
ChildKinds == <<"patternlayout", "thresholdfilter", "filters", "policies", "defaultrolloverstrategy">>
Handled(nodes, n, k, apd) ==
  CASE k = 1 -> Read(nodes[n].attr, SetPattern, apd)
    [] k = 2 -> [apd EXCEPT !.filter = @ \o _parse_threshold_filter(nodes[n])]
    [] k = 3 -> [apd EXCEPT !.filter = @ \o _parse_filters(nodes, n)]
    [] k = 4 -> _parse_policies(nodes, n, apd)
    [] k = 5 -> Read(nodes[n].attr, SetMax, apd)

Reached(node, k) == \A j \in 1 .. k - 1 : Named(node, ChildKinds[j])

AppenderChild(nodes, apd, n) ==
  LET kinds == IF apd.class = "rollingfile" THEN 1 .. 5 ELSE 1 .. 3
      mine == {k \in kinds : Named(nodes[n], ChildKinds[k]) /\ Reached(nodes[n], k)}
  IN IF mine = {} THEN apd ELSE Handled(nodes, n, CHOOSE k \in mine : TRUE, apd)

SetAppender(apd, name, value) ==
  CASE name = <<"target">> /\ apd.class = "console" /\ value = <<"system_err">> ->
         [apd EXCEPT !.target = value[1]]
    [] name = <<"filename">> /\ apd.class = "file" -> [apd EXCEPT !.file_name = value]
    [] name = <<"append">> /\ apd.class = "file" -> [apd EXCEPT !.append = @ \/ value = <<"true">>]
    [] name = <<"filepattern">> /\ apd.class = "rollingfile" -> [apd EXCEPT !.file_name = value]
    [] OTHER -> apd

NameIn(attrs) == LET i == CHOOSE j \in DOMAIN attrs : attrs[j].name = <<"name">> IN attrs[i].value

----------------------------------------------------------------------------
(* _parse_xml_config.                                                      *)

AddAppender(nodes, conf, n) ==
  LET node == nodes[n]
      read == Read(node.attr, SetAppender, create_appender(node.name[1]))
      apd == FoldLeft(LAMBDA a, c : AppenderChild(nodes, a, c), read, ChildrenOf(nodes, n))
  IN IF node.name \notin {<<"console">>, <<"file">>, <<"rollingfile">>} THEN conf
     ELSE [conf EXCEPT !.appenders = (NameIn(node.attr) :> apd) @@ @]

(* The loop over the references in a logger goes on from the section it    *)
(* stands in: it ends behind the first reference if that is the last       *)
(* section, and never if another follows.                                  *)
Endless(nodes, section, n) ==
  nodes[n].name \in {<<"logger">>, <<"root">>}
    /\ nodes[n].first_child # NULL /\ nodes[section].next # NULL

RefsSeen(nodes, n) == IF nodes[n].first_child = NULL THEN <<>> ELSE <<nodes[n].first_child>>

RefsOf(nodes, seen) ==
  LET Ref(refs, n) ==
        LET named == SelectSeq(nodes[n].attr, LAMBDA a : a.name = <<"ref">>)
        IN IF Named(nodes[n], "appender-ref") /\ named # <<>>
           THEN Append(refs, named[1].value) ELSE refs
  IN FoldLeft(Ref, <<>>, seen)

SetLogger(l, name, value) ==
  CASE name = <<"level">> -> [l EXCEPT !.level = _parse_level(value)]
    [] name = <<"additivity">> -> [l EXCEPT !.additivity = @ /\ value # <<"false">>]
    [] OTHER -> l

AddLogger(nodes, conf, n) ==
  LET node == nodes[n]
      refs == RefsOf(nodes, RefsSeen(nodes, n))
      log == [Read(node.attr, SetLogger, create_logger) EXCEPT !.appender_ref = refs]
  IN CASE Named(node, "logger") -> [conf EXCEPT !.loggers = (NameIn(node.attr) :> log) @@ @]
       [] Named(node, "root") -> [conf EXCEPT !.root.level = Read(node.attr, SetLogger, conf.root).level,
                                              !.root.appender_ref = @ \o refs]
       [] OTHER -> conf

SetConfig(conf, name, value) ==
  CASE name = <<"status">> -> [conf EXCEPT !.status = _parse_level(value)]
    [] name = <<"monitorinterval">> -> [conf EXCEPT !.monitorinterval = atoi(value)]
    [] OTHER -> conf

AddSection(nodes, conf, n) ==
  CASE Named(nodes[n], "appenders") ->
         FoldLeft(LAMBDA c, m : AddAppender(nodes, c, m), conf, ChildrenOf(nodes, n))
    [] Named(nodes[n], "loggers") ->
         FoldLeft(LAMBDA c, m : AddLogger(nodes, c, m), conf, ChildrenOf(nodes, n))
    [] OTHER -> conf

NeverEnds(nodes, root) ==
  \E s \in ToSet(ChildrenOf(nodes, root)) :
    Named(nodes[s], "loggers") /\ \E n \in ToSet(ChildrenOf(nodes, s)) : Endless(nodes, s, n)

_parse_xml_config(nodes, root) ==
  FoldLeft(LAMBDA c, s : AddSection(nodes, c, s), Read(nodes[root].attr, SetConfig, create_config),
           ChildrenOf(nodes, root))

----------------------------------------------------------------------------
(* _uv_log_init: the handle with its configuration as created.             *)
Init ==
  /\ text \in Seq(STRING)
  /\ Json!Init /\ XmlInit
  /\ stage = "json" /\ config = create_config

(* parse_json: the function it gives to the scanner only prints, and makes *)
(* no tree.                                                                *)
ParseJson ==
  /\ stage = "json"
  /\ \/ Json!Next /\ UNCHANGED stage
     \/ /\ step = "done"
        /\ stage' = IF jret = OUTSIDE THEN "outside" ELSE IF jret < 0 THEN "xml" ELSE "read"
        /\ UNCHANGED <<text, json>>
  /\ UNCHANGED <<xml, config>>

ParseXml ==
  /\ stage = "xml"
  /\ \/ XmlNext /\ UNCHANGED stage
     \/ /\ phase = "done"
        /\ stage' = CASE p.fault -> "fault"
                      [] ~p.fault /\ ret = OUTSIDE -> "outside"
                      [] ~p.fault /\ ret = 0 -> "read"
                      [] ~p.fault /\ ret \notin {0, OUTSIDE} -> "failed"
        /\ UNCHANGED <<text, xml>>
  /\ UNCHANGED <<json, config>>

(* The tree is read from its root on.                                      *)
ReadTree ==
  /\ stage = "read"
  /\ IF p.root = NULL THEN stage' = "fault" /\ UNCHANGED config
     ELSE IF ~Named(p.nodes[p.root], "configuration") THEN stage' = "failed" /\ UNCHANGED config
     ELSE IF NeverEnds(p.nodes, p.root) THEN stage' = "endless" /\ UNCHANGED config
     ELSE stage' = "config" /\ config' = _parse_xml_config(p.nodes, p.root)
  /\ UNCHANGED <<text, json, xml>>

Next == ParseJson \/ ParseXml \/ ReadTree

Spec == Init /\ [][Next]_vars

----------------------------------------------------------------------------
(* Whatever the text is, the tree builder, which keeps only a cursor,      *)
(* never has to go up from NULL or from beside the tree: when the end of   *)
(* an element is told to _on_xml_node the cursor is at a child of its      *)
(* node, and that is so although the element "xml" at the top has none.    *)
TreeNeverFaults == ~p.fault

(* The tree builder keeps only a cursor, and yet follows the scanner: the  *)
(* nodes entered and not left are the open elements, one below the other,  *)
(* and the cursor is at the innermost of them or at a child of it.         *)
CursorFollows ==
  LET open == IF stack # <<>> /\ stack[1].name = <<"xml">> THEN Tail(stack) ELSE stack
      entered == {n \in DOMAIN p.nodes : p.nodes[n].node_type = "enter"}
  IN \E chain \in [DOMAIN open -> entered] :
       LET inner == IF open = <<>> THEN NULL ELSE chain[Len(open)]
       IN /\ entered = {chain[i] : i \in DOMAIN open}
          /\ \A i \in DOMAIN open :
               /\ p.nodes[chain[i]].name = open[i].name
               /\ p.nodes[chain[i]].parent = IF i = 1 THEN NULL ELSE chain[i - 1]
          /\ p.current = inner \/ (p.current # NULL /\ p.nodes[p.current].parent = inner)

(* On every text every step of a scanner takes it forward, and no further  *)
(* than to the text's end, but for the last: with that it returns, or has  *)
(* left the text (fasterjson.c:58, :72, :181 and fasterxml.c:161 step over *)
(* NUL).  So none of their nested loops runs for ever inside the text.     *)
Forward(from, to) == to > from /\ to <= Len(text) + 1

EveryStepAdvances ==
  [][/\ stage = "json" => Forward(jat, jat') \/ step' = "done"
     /\ stage = "xml" => Forward(at, at') \/ phase' = "done"]_vars
=============================================================================
