------------------------------- MODULE XmlDom -------------------------------
(***************************************************************************)
(* thirdparty/faster/fasterparse.c: the function parse_xml gives to        *)
(* TravelXmlBuffer, which builds the tree.  A node is named by its place   *)
(* in the order of the calls; `current' is the cursor.  The tree goes on   *)
(* from the cursor alone: below it while its node has been entered and not *)
(* left, else beside it.                                                   *)
(***************************************************************************)
EXTENDS XmlText

NULL == 0

(* The struct parse_info; fault: a NULL pointer has been followed.         *)
NoTree == [nodes |-> <<>>, root |-> NULL, current |-> NULL, fault |-> FALSE]

(* Faulty variant: a node beside the cursor gets no parent.                *)
NewNodeOrphan(p, name, node_type, attr) ==
  LET new == Len(p.nodes) + 1
      cur == p.current
      below == cur # NULL /\ p.nodes[cur].node_type = "enter"
      node == [name |-> name, attr |-> attr, node_type |-> node_type,
               parent |-> IF below THEN cur ELSE NULL, next |-> NULL, first_child |-> NULL]
      linked == IF cur = NULL THEN p.nodes
                ELSE IF below THEN [p.nodes EXCEPT ![cur].first_child = new]
                ELSE [p.nodes EXCEPT ![cur].next = new]
  IN [p EXCEPT !.nodes = Append(linked, node), !.current = new,
               !.root = IF cur = NULL THEN new ELSE @]

(* _on_xml_node, for the three kinds of calls that make a node.            *)
NewNode(p, name, node_type, attr) ==
  LET new == Len(p.nodes) + 1
      cur == p.current
      below == cur # NULL /\ p.nodes[cur].node_type = "enter"
      node == [name |-> name, attr |-> attr, node_type |-> node_type,
               parent |-> IF below THEN cur ELSE IF cur = NULL THEN NULL ELSE p.nodes[cur].parent,
               next |-> NULL, first_child |-> NULL]
      linked == IF cur = NULL THEN p.nodes
                ELSE IF below THEN [p.nodes EXCEPT ![cur].first_child = new]
                ELSE [p.nodes EXCEPT ![cur].next = new]
  IN [p EXCEPT !.nodes = Append(linked, node), !.current = new,
               !.root = IF cur = NULL THEN new ELSE @]

(* Faulty variant: the node the cursor comes to still counts as entered.   *)
LeaveNodeUnmarked(p) ==
  IF p.current = NULL THEN [p EXCEPT !.fault = TRUE]
  ELSE [p EXCEPT !.current = p.nodes[p.current].parent]

(* The cursor goes up, and the node it comes to is left.                   *)
LeaveNode(p) ==
  LET up == p.nodes[p.current].parent
  IN IF p.current = NULL THEN [p EXCEPT !.fault = TRUE]
     ELSE [p EXCEPT !.current = up,
                    !.nodes = IF up = NULL THEN @ ELSE [@ EXCEPT ![up].node_type = "leave"]]

(* Faulty variant: an element "xml" makes no node wherever it stands.      *)
DeclarationAnywhere(call) == call.type \in {"enter", "branch"} /\ call.node = <<"xml">>

(* An element "xml" at the top, meant to be the declaration <?xml ...?>,   *)
(* makes no node.                                                          *)
Declaration(call) == call.type \in {"enter", "branch"} /\ call.path = <<<<"xml">>>>

(* _on_xml_property puts what it is told to the end of the new node's      *)
(* attributes.                                                             *)
NodeWith(p, call, properties) ==
  [p |-> NewNode(p, call.node, call.type, properties.list), nret |-> properties.nret]

(* _on_xml_node.                                                           *)
OnXmlNode(p, call) ==
  CASE call.type = "leave" -> [p |-> LeaveNode(p), nret |-> IF p.current = NULL THEN -1 ELSE 0]
    [] Declaration(call) -> [p |-> p, nret |-> 0]
    [] call.type # "leave" /\ ~Declaration(call) -> NodeWith(p, call, Properties(call.properties))

----------------------------------------------------------------------------
(* How a tree is walked: from a node's first child along the next ones.    *)
ChildrenOf(nodes, n) ==
  LET along[m \in Nat] == IF m = NULL THEN <<>> ELSE <<m>> \o along[nodes[m].next]
  IN along[nodes[n].first_child]
=============================================================================
