-------------------------- MODULE LogConfigProofs ---------------------------
(***************************************************************************)
(* What holds of reading a configuration for every text: building the tree *)
(* never follows a NULL pointer, the calls of the scanner nest, and both   *)
(* scanners come to an end.                                                *)
(***************************************************************************)
EXTENDS LogConfig, TextScanProofs, SequenceTheorems, TLAPS

(* The element read ahead is told of before the scanner looks for another  *)
(* tag, and a level that returns inside an element is one of its own.      *)
ScanInv ==
  /\ \E S : stack \in Seq(S)
  /\ elem.first \in BOOLEAN
  /\ phase \in {"open", "close"} => elem.first = FALSE
  /\ phase = "close" => stack # <<>>

NamesOf(elements) == [i \in DOMAIN elements |-> elements[i].name]

----------------------------------------------------------------------------

LEMMA EntersOne ==
  ASSUME NEW S, NEW s \in Seq(S), NEW e
  PROVE  /\ Append(s, e) \in Seq(S \cup {e})
         /\ NamesOf(Append(s, e)) = Append(NamesOf(s), e.name)
<1>1. s \in Seq(S \cup {e}) /\ e \in S \cup {e}
  OBVIOUS
<1>2. Append(s, e) \in Seq(S \cup {e})
  BY <1>1
<1>3. NamesOf(s) \in Seq({s[i].name : i \in DOMAIN s} \cup {e.name}) /\ Len(NamesOf(s)) = Len(s)
  BY DEF NamesOf
<1>4. NamesOf(Append(s, e)) = Append(NamesOf(s), e.name)
  BY <1>1, <1>2, <1>3 DEF NamesOf
<1> QED BY <1>2, <1>4

LEMMA LeavesOne ==
  ASSUME NEW S, NEW s \in Seq(S), s # <<>>
  PROVE  /\ Front(s) \in Seq(S)
         /\ NamesOf(Front(s)) = Front(NamesOf(s))
         /\ Last(NamesOf(s)) = Last(s).name
         /\ NamesOf(s) # <<>>
<1>1. Len(s) \in Nat \ {0} /\ DOMAIN s = 1 .. Len(s)
  OBVIOUS
<1>2. /\ NamesOf(s) \in Seq({s[i].name : i \in DOMAIN s}) /\ Len(NamesOf(s)) = Len(s)
      /\ \A i \in 1 .. Len(s) : NamesOf(s)[i] = s[i].name
  BY <1>1 DEF NamesOf
<1>3. /\ Front(s) \in Seq(S) /\ Len(Front(s)) = Len(s) - 1
      /\ \A i \in 1 .. Len(s) - 1 : Front(s)[i] = s[i]
  BY <1>1 DEF Front
<1>4. /\ Front(NamesOf(s)) \in Seq({s[i].name : i \in DOMAIN s})
      /\ Len(Front(NamesOf(s))) = Len(s) - 1
      /\ \A i \in 1 .. Len(s) - 1 : Front(NamesOf(s))[i] = s[i].name
  BY <1>1, <1>2 DEF Front
<1>5. DOMAIN Front(s) = 1 .. Len(s) - 1 /\ DOMAIN Front(NamesOf(s)) = 1 .. Len(s) - 1
  BY <1>1, <1>3, <1>4
<1>6. NamesOf(Front(s)) = [i \in 1 .. Len(s) - 1 |-> s[i].name]
  BY <1>3, <1>5 DEF NamesOf
<1>7. Front(NamesOf(s)) = [i \in 1 .. Len(s) - 1 |-> Front(NamesOf(s))[i]]
  BY <1>4, <1>5
<1>8. NamesOf(Front(s)) = Front(NamesOf(s))
  BY <1>4, <1>6, <1>7
<1> QED BY <1>1, <1>2, <1>3, <1>8 DEF Last

LEMMA InitScan == Init => ScanInv
BY DEF Init, XmlInit, ScanInv, NoElem

(* What a step does to the elements and to the function: it makes one call *)
(* for an element without another in it, enters one, leaves one, or makes  *)
(* no call at all.                                                         *)
Calls(types) ==
  /\ told' = told + 1 /\ p' = OnXmlNode(p, call').p
  /\ call'.type \in types

NoCallMade == UNCHANGED <<told, call, p, stack>> /\ elem'.first = elem.first

Names == [i \in DOMAIN stack |-> stack[i].name]

OneInside ==
  /\ Calls({"branch", "leaf"}) /\ call'.path = Append(Names, elem.name)
  /\ stack' = stack /\ elem'.first = FALSE

OneEntered ==
  /\ Calls({"enter"}) /\ call'.path = Append(Names, elem.name) /\ call'.node = elem.name
  /\ stack' = Append(stack, elem) /\ elem'.first = TRUE

OneLeft ==
  /\ Calls({"leave"}) /\ call'.node = Last(stack).name
  /\ stack # <<>> /\ stack' = Front(stack) /\ elem.first = FALSE /\ elem'.first = FALSE

LEMMA StepKinds ==
  ASSUME ScanInv, [XmlNext]_<<text, xml>>
  PROVE  ScanInv' /\ (NoCallMade \/ OneInside \/ OneEntered \/ OneLeft)
<1>0. PICK S : stack \in Seq(S)
  BY DEF ScanInv
<1>1. CASE NoTag \/ OpenTag \/ EndLevel
  <2>1. UNCHANGED <<told, call, p, stack>> /\ elem.first = FALSE /\ elem'.first = FALSE
    BY <1>1 DEF ScanInv, NoTag, OpenTag, EndLevel, TellNothing
  <2>2. phase' = "close" => stack # <<>>
    BY <1>1 DEF NoTag, OpenTag, EndLevel, ReturnOr, Return, GoOn
  <2> QED BY <1>0, <2>1, <2>2 DEF ScanInv, NoCallMade
<1>2. CASE EndTag \/ Leaf
  <2>1. stack' = stack /\ phase' # "close"
    BY <1>2 DEF EndTag, Leaf, Fail, Return, GoOn, ReturnOr
  <2>2. \/ OneInside
        \/ NoCallMade /\ elem' = elem /\ phase' \in {"done", "content"}
    BY <1>2, <2>1 DEF EndTag, Leaf, Fail, Tell, TellNothing, Return, GoOn, OneInside, Calls,
                      Names, NoElem, NoCallMade
  <2> QED BY <1>0, <2>1, <2>2 DEF ScanInv, OneInside
<1>3. CASE EnterElement
  <2>1. \/ NoCallMade /\ elem' = elem /\ phase' = "done"
        \/ OneEntered /\ phase' \in {"done", "tag"}
    BY <1>3 DEF EnterElement, Fail, Tell, TellNothing, Return, GoOn, ReturnOr, OneEntered, Calls,
                Names, NoCallMade
  <2>2. CASE OneEntered
    BY <1>0, <2>1, <2>2, EntersOne DEF OneEntered, ScanInv
  <2> QED BY <1>0, <2>1, <2>2 DEF ScanInv, NoCallMade
<1>4. CASE LeaveElement
  <2>0. stack # <<>> /\ elem.first = FALSE
    BY <1>4 DEF ScanInv, LeaveElement
  <2>1. \/ NoCallMade /\ elem' = elem /\ phase' = "done"
        \/ OneLeft /\ phase' \in {"done", "open"}
    BY <1>4, <2>0 DEF LeaveElement, Fail, Tell, TellNothing, Return, GoOn, ReturnOr, OneLeft,
                      Calls, NoCallMade, Front, Last
  <2>2. CASE OneLeft
    BY <1>0, <2>0, <2>1, <2>2, LeavesOne DEF OneLeft, ScanInv
  <2> QED BY <1>0, <2>0, <2>1, <2>2 DEF ScanInv, NoCallMade
<1>5. CASE UNCHANGED <<text, xml>>
  BY <1>0, <1>5 DEF xml, ScanInv, NoCallMade
<1> QED BY <1>1, <1>2, <1>3, <1>4, <1>5 DEF XmlNext

----------------------------------------------------------------------------
(* An element "xml" at the top is entered, but has no node.                *)
Unseen == IF stack # <<>> /\ stack[1].name = <<"xml">> THEN 1 ELSE 0

IsNode(n) ==
  /\ n = [name |-> n.name, attr |-> n.attr, node_type |-> n.node_type,
          parent |-> n.parent, next |-> n.next, first_child |-> n.first_child]

IsTree(t) ==
  /\ t = [nodes |-> t.nodes, root |-> t.root, current |-> t.current, fault |-> FALSE]
  /\ \E S : t.nodes \in Seq(S)
  /\ \A i \in 1 .. Len(t.nodes) : IsNode(t.nodes[i])
  /\ t.current \in 0 .. Len(t.nodes)

Inner(chain) == IF chain = <<>> THEN NULL ELSE chain[Len(chain)]

(* chain: the nodes entered and not left, one below the other.             *)
IsChain(chain, nodes) ==
  /\ chain \in Seq(1 .. Len(nodes))
  /\ \A i \in 1 .. Len(chain) :
       /\ nodes[chain[i]].node_type = "enter"
       /\ nodes[chain[i]].parent = IF i = 1 THEN NULL ELSE chain[i - 1]
  /\ \A i, j \in 1 .. Len(chain) : i < j => chain[i] < chain[j]

(* No other node is entered and not left, and they have the names of the   *)
(* elements: the chain begins behind so many elements without a node.      *)
IsOpen(chain, nodes, elements, unseen) ==
  /\ \A n \in 1 .. Len(nodes) :
       nodes[n].node_type = "enter" => \E i \in 1 .. Len(chain) : chain[i] = n
  /\ \A i \in 1 .. Len(chain) : nodes[chain[i]].name = elements[i + unseen].name

(* Of the nodes only this one changes its type, and none its name.         *)
Kept(nodes, more, but) ==
  \A i \in 1 .. Len(nodes) :
    more[i].name = nodes[i].name /\ (i # but => more[i].node_type = nodes[i].node_type)

(* The cursor t.current is at the innermost node, of which nothing has been *)
(* told yet, or at a child of it.                                           *)
CursorAt(t, chain, first, inside) ==
  /\ t.current = NULL => chain = <<>> /\ (inside => first)
  /\ t.current # NULL /\ t.nodes[t.current].node_type = "enter" =>
       first /\ chain # <<>> /\ t.current = Inner(chain)
  /\ t.current # NULL /\ t.nodes[t.current].node_type # "enter" =>
       t.nodes[t.current].parent = Inner(chain)

TreeInv ==
  /\ ScanInv
  /\ IsTree(p)
  /\ \E chain :
       /\ IsChain(chain, p.nodes)
       /\ IsOpen(chain, p.nodes, stack, Unseen)
       /\ Len(chain) = Len(stack) - Unseen
       /\ CursorAt(p, chain, elem.first, stack # <<>>)

----------------------------------------------------------------------------

LEMMA SeqInLarger ==
  ASSUME NEW S, NEW T, S \subseteq T, NEW s \in Seq(S)
  PROVE  s \in Seq(T)
OBVIOUS

LEMMA FrontOf ==
  ASSUME NEW S, NEW s \in Seq(S), s # <<>>
  PROVE  /\ Front(s) \in Seq(S) /\ Len(Front(s)) = Len(s) - 1
         /\ \A i \in 1 .. Len(s) - 1 : Front(s)[i] = s[i]
<1>1. Len(s) \in Nat \ {0} /\ DOMAIN s = 1 .. Len(s)
  OBVIOUS
<1> QED BY <1>1 DEF Front

(* A new node is put below or beside the cursor, and its parent is the     *)
(* innermost node.                                                         *)
LEMMA NewNodeLinks ==
  ASSUME NEW t, IsTree(t), NEW chain, IsChain(chain, t.nodes),
         NEW first, NEW inside, CursorAt(t, chain, first, inside),
         NEW name, NEW node_type, NEW attr,
         NEW u, u = NewNode(t, name, node_type, attr)
  PROVE  /\ IsTree(u) /\ IsChain(chain, u.nodes)
         /\ u.current = Len(t.nodes) + 1 /\ u.current = Len(u.nodes)
         /\ u.nodes[u.current].node_type = node_type
         /\ u.nodes[u.current].parent = Inner(chain)
         /\ \A i \in 1 .. Len(chain) : chain[i] < u.current
         /\ Kept(t.nodes, u.nodes, u.current)
         /\ u.nodes[u.current].name = name
<1> DEFINE cur == t.current
           below == cur # NULL /\ t.nodes[cur].node_type = "enter"
           new == Len(t.nodes) + 1
           linked == IF cur = NULL THEN t.nodes
                     ELSE IF below THEN [t.nodes EXCEPT ![cur].first_child = new]
                     ELSE [t.nodes EXCEPT ![cur].next = new]
           node == [name |-> name, attr |-> attr, node_type |-> node_type,
                    parent |-> IF below THEN cur ELSE IF cur = NULL THEN NULL ELSE t.nodes[cur].parent,
                    next |-> NULL, first_child |-> NULL]
<1>0. PICK S : t.nodes \in Seq(S)
  BY DEF IsTree
<1>1. /\ u = [t EXCEPT !.nodes = Append(linked, node), !.current = new,
                       !.root = IF cur = NULL THEN new ELSE @]
  BY DEF NewNode
<1>2. /\ Len(t.nodes) \in Nat /\ new \in Nat /\ cur \in 0 .. Len(t.nodes)
      /\ t.nodes = [i \in 1 .. Len(t.nodes) |-> t.nodes[i]]
  BY <1>0 DEF IsTree
<1>3. /\ linked = [i \in 1 .. Len(t.nodes) |-> linked[i]]
      /\ \A i \in 1 .. Len(t.nodes) :
           /\ IsNode(linked[i])
           /\ linked[i].node_type = t.nodes[i].node_type
           /\ linked[i].parent = t.nodes[i].parent
           /\ linked[i].name = t.nodes[i].name
  <2>1. CASE cur = NULL
    BY <1>2, <2>1 DEF IsTree
  <2>2. CASE cur # NULL
    <3>1. IsNode(t.nodes[cur]) /\ cur \in 1 .. Len(t.nodes)
      BY <1>2, <2>2 DEF IsTree, NULL
    <3>2. PICK k1 \in {[t.nodes[cur] EXCEPT !.first_child = new], [t.nodes[cur] EXCEPT !.next = new]} :
            linked = [t.nodes EXCEPT ![cur] = k1]
      BY <2>2
    <3>3. IsNode(k1) /\ k1.node_type = t.nodes[cur].node_type /\ k1.parent = t.nodes[cur].parent
          /\ k1.name = t.nodes[cur].name
      BY <3>1, <3>2 DEF IsNode
    <3> HIDE DEF linked
    <3>4. /\ linked = [i \in 1 .. Len(t.nodes) |-> linked[i]]
          /\ \A i \in 1 .. Len(t.nodes) : linked[i] = IF i = cur THEN k1 ELSE t.nodes[i]
      BY <1>2, <3>1, <3>2
    <3> QED BY <3>1, <3>3, <3>4 DEF IsTree
  <2> QED BY <2>1, <2>2
<1> HIDE DEF linked
<1>4. IsNode(node) /\ node.node_type = node_type /\ node.name = name
  BY DEF IsNode
<1>5. node.parent = Inner(chain)
  BY <1>2 DEF CursorAt, Inner
<1> HIDE DEF node
<1>6. /\ u.nodes = Append(linked, node) /\ u.current = new
      /\ u = [nodes |-> u.nodes, root |-> u.root, current |-> u.current, fault |-> FALSE]
  <2>1. PICK ns, ro, cu : t = [nodes |-> ns, root |-> ro, current |-> cu, fault |-> FALSE]
    BY DEF IsTree
  <2>2. PICK rt, ap, nw : rt = (IF cur = NULL THEN new ELSE ro) /\ ap = Append(linked, node) /\ nw = new
    OBVIOUS
  <2>3. u = [t EXCEPT !.nodes = ap, !.current = nw, !.root = rt]
    BY <1>1, <2>1, <2>2
  <2>4. u = [nodes |-> ap, root |-> rt, current |-> nw, fault |-> FALSE]
    BY <2>1, <2>3
  <2> QED BY <2>2, <2>4
<1>7. linked \in Seq({linked[i] : i \in 1 .. Len(t.nodes)}) /\ Len(linked) = Len(t.nodes)
  BY <1>2, <1>3
<1>8. /\ u.nodes \in Seq({linked[i] : i \in 1 .. Len(t.nodes)} \cup {node})
      /\ Len(u.nodes) = new /\ u.nodes[new] = node
      /\ \A i \in 1 .. Len(t.nodes) : u.nodes[i] = linked[i]
  BY <1>2, <1>6, <1>7
<1>9. IsTree(u)
  <2>1. \A i \in 1 .. Len(u.nodes) : IsNode(u.nodes[i])
    <3> TAKE i \in 1 .. Len(u.nodes)
    <3>1. i = new \/ i \in 1 .. Len(t.nodes)
      BY <1>2, <1>8
    <3> QED BY <1>3, <1>4, <1>8, <3>1
  <2> QED BY <1>2, <1>6, <1>8, <2>1 DEF IsTree
<1>10. \A i \in 1 .. Len(chain) : chain[i] \in 1 .. Len(t.nodes)
  BY DEF IsChain
<1>11. IsChain(chain, u.nodes)
  <2>1. chain \in Seq(1 .. Len(u.nodes))
    <3>1. chain \in Seq(1 .. Len(t.nodes))
      BY DEF IsChain
    <3>2. 1 .. Len(t.nodes) \subseteq 1 .. Len(u.nodes)
      BY <1>2, <1>8
    <3> DEFINE T1 == 1 .. Len(t.nodes)
               T2 == 1 .. Len(u.nodes)
    <3> HIDE DEF T1, T2
    <3>3. chain \in Seq(T1) /\ T1 \subseteq T2
      BY <3>1, <3>2 DEF T1, T2
    <3>4. chain \in Seq(T2)
      BY <3>3, SeqInLarger
    <3> QED BY <3>4 DEF T2
  <2>2. \A i \in 1 .. Len(chain) : u.nodes[chain[i]] = linked[chain[i]]
    BY <1>8, <1>10
  <2>3. \A i \in 1 .. Len(chain) :
          /\ u.nodes[chain[i]].node_type = t.nodes[chain[i]].node_type
          /\ u.nodes[chain[i]].parent = t.nodes[chain[i]].parent
    BY <1>3, <1>10, <2>2
  <2> QED BY <2>1, <2>3 DEF IsChain
<1>12. Kept(t.nodes, u.nodes, u.current)
  BY <1>3, <1>8 DEF Kept
<1>13. u.nodes[u.current].name = name
  BY <1>4, <1>6, <1>8
<1> QED BY <1>2, <1>4, <1>5, <1>6, <1>8, <1>9, <1>10, <1>11, <1>12, <1>13

(* The end of an element: the cursor is at a child of the innermost node,  *)
(* and goes up to that node, which has then been left.                     *)
LEMMA LeaveNodeLinks ==
  ASSUME NEW t, IsTree(t), NEW chain, IsChain(chain, t.nodes),
         CursorAt(t, chain, FALSE, TRUE), chain # <<>>,
         NEW u, u = LeaveNode(t)
  PROVE  /\ IsTree(u) /\ IsChain(Front(chain), u.nodes)
         /\ u.current = Inner(chain) /\ u.current # NULL
         /\ u.nodes[u.current].node_type = "leave"
         /\ u.nodes[u.current].parent = Inner(Front(chain))
         /\ Len(u.nodes) = Len(t.nodes)
         /\ Kept(t.nodes, u.nodes, u.current)
<1> DEFINE up == t.nodes[t.current].parent
           left == [t.nodes EXCEPT ![up].node_type = "leave"]
           n == Len(t.nodes)
           m == Len(chain)
<1>0. PICK S : t.nodes \in Seq(S)
  BY DEF IsTree
<1>1. n \in Nat /\ t.nodes = [i \in 1 .. n |-> t.nodes[i]]
  BY <1>0
<1>2. /\ chain \in Seq(1 .. n) /\ m \in Nat \ {0}
      /\ \A i \in 1 .. m : chain[i] \in 1 .. n
      /\ \A i \in 1 .. m : /\ t.nodes[chain[i]].node_type = "enter"
                           /\ t.nodes[chain[i]].parent = IF i = 1 THEN NULL ELSE chain[i - 1]
      /\ \A i, j \in 1 .. m : i < j => chain[i] < chain[j]
      /\ Inner(chain) = chain[m]
  BY DEF IsChain, Inner
<1> HIDE DEF m
<1>3. /\ t.current # NULL /\ t.nodes[t.current].node_type # "enter"
      /\ up = chain[m] /\ up \in 1 .. n /\ up # NULL
  BY <1>1, <1>2 DEF CursorAt, NULL
<1>4. PICK ns, ro, cu : t = [nodes |-> ns, root |-> ro, current |-> cu, fault |-> FALSE]
  BY DEF IsTree
<1>5. u = [t EXCEPT !.current = up, !.nodes = left]
  BY <1>3 DEF LeaveNode
<1>6. IsNode(t.nodes[up])
  BY <1>3 DEF IsTree
<1> HIDE DEF up
<1>7. PICK k : k = [t.nodes[up] EXCEPT !.node_type = "leave"]
  OBVIOUS
<1>8. IsNode(k) /\ k.node_type = "leave" /\ k.parent = t.nodes[up].parent /\ k.name = t.nodes[up].name
  BY <1>6, <1>7 DEF IsNode
<1>9. left = [t.nodes EXCEPT ![up] = k]
  BY <1>7
<1> HIDE DEF left
<1>10. /\ left = [i \in 1 .. n |-> left[i]]
       /\ \A i \in 1 .. n : left[i] = IF i = up THEN k ELSE t.nodes[i]
  BY <1>1, <1>3, <1>9
<1>11. u = [nodes |-> left, root |-> ro, current |-> up, fault |-> FALSE]
  BY <1>4, <1>5
<1>12. left \in Seq({left[i] : i \in 1 .. n}) /\ Len(left) = n
  BY <1>1, <1>10
<1>13. \A i \in 1 .. n : IsNode(left[i])
  BY <1>8, <1>10 DEF IsTree
<1>14. IsTree(u)
  BY <1>3, <1>11, <1>12, <1>13 DEF IsTree
<1>15. /\ Front(chain) \in Seq(1 .. n) /\ Len(Front(chain)) = m - 1
       /\ \A i \in 1 .. m - 1 : Front(chain)[i] = chain[i]
  BY <1>2, FrontOf DEF m
<1>16. \A i \in 1 .. m - 1 : chain[i] # up /\ left[chain[i]] = t.nodes[chain[i]]
  <2>1. \A i \in 1 .. m - 1 : chain[i] < chain[m]
    BY <1>2
  <2> TAKE i \in 1 .. m - 1
  <2>2. chain[i] \in 1 .. n /\ chain[m] \in 1 .. n
    BY <1>2
  <2>3. chain[i] # up
    BY <1>3, <2>1, <2>2
  <2> QED BY <1>10, <2>2, <2>3
<1>17. IsChain(Front(chain), u.nodes)
  <2>1. \A i \in 1 .. m - 1 :
          /\ left[chain[i]].node_type = "enter"
          /\ left[chain[i]].parent = IF i = 1 THEN NULL ELSE chain[i - 1]
    <3> TAKE i \in 1 .. m - 1
    <3>1. i \in 1 .. m
      BY <1>2
    <3>2. left[chain[i]] = t.nodes[chain[i]]
      BY <1>16
    <3> QED BY <1>2, <3>1, <3>2
  <2>2. PICK f : f = Front(chain)
    OBVIOUS
  <2>3. PICK l \in Nat : l = m - 1 /\ l < m
    BY <1>2
  <2>4. Len(f) = l /\ f \in Seq(1 .. n) /\ \A i \in 1 .. l : f[i] = chain[i]
    BY <1>15, <2>2, <2>3
  <2>5. ASSUME NEW i \in 1 .. l
        PROVE  /\ left[f[i]].node_type = "enter"
               /\ left[f[i]].parent = IF i = 1 THEN NULL ELSE f[i - 1]
    <3>1. f[i] = chain[i] /\ (i # 1 => f[i - 1] = chain[i - 1])
      BY <2>3, <2>4
    <3> QED BY <2>1, <2>3, <3>1
  <2>6. ASSUME NEW i \in 1 .. l, NEW j \in 1 .. l, i < j
        PROVE  f[i] < f[j]
    <3>1. i \in 1 .. m /\ j \in 1 .. m
      BY <1>2, <2>3
    <3> QED BY <1>2, <2>4, <2>6, <3>1
  <2>7. u.nodes = left /\ Len(u.nodes) = n
    BY <1>11, <1>12
  <2> QED BY <2>2, <2>4, <2>5, <2>6, <2>7 DEF IsChain
<1>18. k.parent = Inner(Front(chain))
  <2>1. k.parent = IF m = 1 THEN NULL ELSE chain[m - 1]
    BY <1>2, <1>3, <1>8
  <2>2. m # 1 => Front(chain) # <<>> /\ Front(chain)[m - 1] = chain[m - 1]
    BY <1>2, <1>15
  <2>3. m = 1 => Front(chain) = <<>>
    BY <1>2, <1>15
  <2> QED BY <1>2, <1>15, <2>1, <2>2, <2>3 DEF Inner
<1>19. u.current = up /\ up = Inner(chain) /\ u.nodes[up] = k
  <2>1. up = Inner(chain)
    BY <1>2, <1>3
  <2>2. u.current = up /\ u.nodes = left
    BY <1>11
  <2> QED BY <1>3, <1>10, <2>1, <2>2
<1>20. Len(u.nodes) = Len(t.nodes) /\ Kept(t.nodes, u.nodes, u.current)
  <2>1. u.nodes = left /\ u.current = up
    BY <1>11
  <2> QED BY <1>8, <1>10, <1>12, <2>1 DEF Kept
<1>21. u.nodes[u.current].node_type = "leave" /\ u.nodes[u.current].parent = Inner(Front(chain))
  BY <1>8, <1>18, <1>19
<1>22. u.current = Inner(chain) /\ u.current # NULL
  BY <1>3, <1>19
<1> QED BY <1>14, <1>17, <1>20, <1>21, <1>22

(* Above the elements with a node there is only the element "xml".         *)
LEMMA LeaveXml ==
  ASSUME NEW t, IsTree(t), CursorAt(t, <<>>, FALSE, TRUE),
         NEW u, u = LeaveNode(t)
  PROVE  /\ IsTree(u) /\ u.nodes = t.nodes /\ u.current = NULL
<1>1. t.current # NULL /\ t.nodes[t.current].node_type # "enter" /\ t.nodes[t.current].parent = NULL
  BY DEF CursorAt, Inner
<1>2. u = [t EXCEPT !.current = NULL, !.nodes = t.nodes]
  BY <1>1 DEF LeaveNode
<1>3. PICK ns, ro, cu : t = [nodes |-> ns, root |-> ro, current |-> cu, fault |-> FALSE]
  BY DEF IsTree
<1>4. u = [nodes |-> t.nodes, root |-> ro, current |-> NULL, fault |-> FALSE]
  BY <1>2, <1>3
<1>5. u.nodes = t.nodes /\ u.current = NULL
  BY <1>4
<1>6. (\E S : u.nodes \in Seq(S)) /\ \A i \in 1 .. Len(u.nodes) : IsNode(u.nodes[i])
  BY <1>5 DEF IsTree
<1>7. u.current \in 0 .. Len(u.nodes)
  BY <1>5, <1>6 DEF NULL
<1>8. u = [nodes |-> u.nodes, root |-> u.root, current |-> u.current, fault |-> FALSE]
  BY <1>4
<1> QED BY <1>5, <1>6, <1>7, <1>8 DEF IsTree

(* How the open nodes change: not with a node beside or below them that is *)
(* not entered, by one that is, and by the innermost when it is left.      *)
LEMMA OpenStays ==
  ASSUME NEW S, NEW nodes \in Seq(S), NEW chain, IsChain(chain, nodes),
         NEW elements, NEW k, IsOpen(chain, nodes, elements, k),
         NEW T, NEW more \in Seq(T), Len(more) = Len(nodes) + 1,
         Kept(nodes, more, Len(more)),
         more[Len(more)].node_type # "enter"
  PROVE  IsOpen(chain, more, elements, k)
<1>1. \A i \in 1 .. Len(chain) : chain[i] \in 1 .. Len(nodes)
  BY DEF IsChain
<1>2. \A n \in 1 .. Len(more) : n \in 1 .. Len(nodes) \/ n = Len(more)
  OBVIOUS
<1> QED BY <1>1, <1>2 DEF IsOpen, Kept

LEMMA OpenGrows ==
  ASSUME NEW S, NEW nodes \in Seq(S), NEW chain, IsChain(chain, nodes),
         NEW E, NEW elements \in Seq(E), NEW k \in {0, 1}, IsOpen(chain, nodes, elements, k),
         Len(chain) = Len(elements) - k,
         NEW T, NEW more \in Seq(T), Len(more) = Len(nodes) + 1,
         Kept(nodes, more, Len(more)),
         NEW e, more[Len(more)].name = e.name
  PROVE  IsOpen(Append(chain, Len(more)), more, Append(elements, e), k)
<1> DEFINE next == Append(chain, Len(more))
           els == Append(elements, e)
<1>1. /\ Len(nodes) \in Nat /\ Len(more) \in Nat /\ Len(chain) \in Nat /\ Len(elements) \in Nat
      /\ \A i \in 1 .. Len(chain) : chain[i] \in 1 .. Len(nodes)
  BY DEF IsChain
<1>2. /\ Len(next) = Len(chain) + 1 /\ next[Len(chain) + 1] = Len(more)
      /\ \A i \in 1 .. Len(chain) : next[i] = chain[i]
  BY <1>1 DEF IsChain
<1>3. /\ els[Len(elements) + 1] = e
      /\ \A i \in 1 .. Len(elements) : els[i] = elements[i]
  OBVIOUS
<1> HIDE DEF next, els
<1>4. ASSUME NEW n \in 1 .. Len(more), more[n].node_type = "enter"
      PROVE  \E i \in 1 .. Len(next) : next[i] = n
  <2>1. CASE n = Len(more)
    BY <2>1, <1>1, <1>2
  <2>2. CASE n \in 1 .. Len(nodes)
    <3>1. PICK i \in 1 .. Len(chain) : chain[i] = n
      <4>1. n # Len(more)
        BY <1>1, <2>2
      <4>2. nodes[n].node_type = "enter"
        BY <1>4, <2>2, <4>1 DEF Kept
      <4> QED BY <2>2, <4>2 DEF IsOpen
    <3>2. i \in 1 .. Len(next) /\ next[i] = n
      BY <1>1, <1>2, <3>1
    <3> QED BY <3>2
  <2> QED BY <1>1, <2>1, <2>2
<1>5. ASSUME NEW i \in 1 .. Len(next)
      PROVE  more[next[i]].name = els[i + k].name
  <2>1. CASE i \in 1 .. Len(chain)
    <3>1. i + k \in 1 .. Len(elements)
      BY <1>1, <2>1
    <3>2. next[i] = chain[i] /\ els[i + k] = elements[i + k]
      BY <1>2, <1>3, <2>1, <3>1
    <3>3. more[chain[i]].name = nodes[chain[i]].name
      BY <1>1, <2>1 DEF Kept
    <3> QED BY <2>1, <3>2, <3>3 DEF IsOpen
  <2>2. CASE i = Len(chain) + 1
    <3>1. i + k = Len(elements) + 1
      BY <1>1, <2>2
    <3> QED BY <1>2, <1>3, <2>2, <3>1
  <2> QED BY <1>1, <1>2, <2>1, <2>2
<1> QED BY <1>4, <1>5 DEF IsOpen, next, els

LEMMA OpenShrinks ==
  ASSUME NEW S, NEW nodes \in Seq(S), NEW chain, IsChain(chain, nodes), chain # <<>>,
         NEW E, NEW elements \in Seq(E), elements # <<>>, NEW k \in {0, 1},
         IsOpen(chain, nodes, elements, k), Len(chain) = Len(elements) - k,
         NEW T, NEW left \in Seq(T), Len(left) = Len(nodes),
         Kept(nodes, left, Inner(chain)),
         left[Inner(chain)].node_type = "leave"
  PROVE  IsOpen(Front(chain), left, Front(elements), k)
<1> DEFINE rest == Front(chain)
           els == Front(elements)
           m == Len(chain)
<1>1. /\ m \in Nat \ {0} /\ Len(elements) \in Nat \ {0} /\ Inner(chain) = chain[m]
      /\ \A i \in 1 .. m : chain[i] \in 1 .. Len(nodes)
  BY DEF IsChain, Inner
<1>2. Len(rest) = m - 1 /\ \A i \in 1 .. m - 1 : rest[i] = chain[i]
  BY FrontOf DEF IsChain
<1>3. \A i \in 1 .. Len(elements) - 1 : els[i] = elements[i]
  BY FrontOf
<1> HIDE DEF rest, els, m
<1>4. ASSUME NEW n \in 1 .. Len(left), left[n].node_type = "enter"
      PROVE  \E i \in 1 .. Len(rest) : rest[i] = n
  <2>1. n # Inner(chain) /\ nodes[n].node_type = "enter"
    <3>1. n # Inner(chain) /\ n \in 1 .. Len(nodes)
      BY <1>4
    <3> QED BY <1>4, <3>1 DEF Kept
  <2>2. PICK i \in 1 .. m : chain[i] = n
    BY <2>1 DEF IsOpen, m
  <2>3. i # m
    BY <1>1, <2>1, <2>2
  <2>4. i \in 1 .. Len(rest) /\ rest[i] = n
    BY <1>1, <1>2, <2>2, <2>3
  <2> QED BY <2>4
<1>5. ASSUME NEW i \in 1 .. Len(rest)
      PROVE  left[rest[i]].name = els[i + k].name
  <2>1. i \in 1 .. m - 1 /\ i \in 1 .. m /\ i + k \in 1 .. Len(elements) - 1
    BY <1>1, <1>2 DEF m
  <2>2. rest[i] = chain[i] /\ els[i + k] = elements[i + k]
    BY <1>2, <1>3, <2>1
  <2>3. left[chain[i]].name = nodes[chain[i]].name
    BY <1>1, <2>1 DEF Kept
  <2> QED BY <2>1, <2>2, <2>3 DEF IsOpen, m
<1> QED BY <1>4, <1>5 DEF IsOpen, rest, els

(* A call of the function for an element, told under the innermost one.    *)
LEMMA CallMakes ==
  ASSUME NEW c, NEW type \in {"enter", "branch", "leaf"}, c.type = type
  PROVE  \/ Declaration(c) /\ OnXmlNode(p, c).p = p
         \/ ~Declaration(c) /\ \E attr : OnXmlNode(p, c).p = NewNode(p, c.node, type, attr)
<1>1. c.type # "leave"
  OBVIOUS
<1>2. CASE Declaration(c)
  <2>1. OnXmlNode(p, c) = [p |-> p, nret |-> 0]
    BY <1>1, <1>2 DEF OnXmlNode
  <2> QED BY <1>2, <2>1
<1>3. CASE ~Declaration(c)
  <2>1. OnXmlNode(p, c) = [p |-> NewNode(p, c.node, c.type, Properties(c.properties).list),
                           nret |-> Properties(c.properties).nret]
    BY <1>1, <1>3 DEF OnXmlNode, NodeWith
  <2> QED BY <1>3, <2>1
<1> QED BY <1>2, <1>3

(* Only at the top is an element taken for the declaration.                *)
LEMMA DeclarationAtTop ==
  ASSUME NEW S, stack \in Seq(S), NEW c, NEW name, c.path = Append(Names, name), Declaration(c)
  PROVE  stack = <<>> /\ name = <<"xml">> /\ c.type # "leaf"
<1>1. Names \in Seq({stack[i].name : i \in DOMAIN stack}) /\ Len(Names) = Len(stack)
  BY DEF Names
<1>2. Append(Names, name) = <<<<"xml">>>>
  BY DEF Declaration
<1>3. Len(Append(Names, name)) = Len(Names) + 1
      /\ Append(Names, name)[Len(Names) + 1] = name
  BY <1>1
<1>4. Len(Names) = 0
  BY <1>1, <1>2, <1>3
<1>5. stack = <<>>
  <2>1. Len(stack) = 0
    BY <1>1, <1>4
  <2> QED BY <2>1
<1>6. Append(Names, name)[1] = name
  BY <1>3, <1>4
<1>7. name = <<"xml">>
  BY <1>2, <1>6
<1> QED BY <1>5, <1>7 DEF Declaration

LEMMA TreeStep ==
  ASSUME TreeInv, [XmlNext]_<<text, xml>>
  PROVE  TreeInv'
<1>1. ScanInv' /\ (NoCallMade \/ OneInside \/ OneEntered \/ OneLeft)
  BY StepKinds DEF TreeInv
<1>2. PICK S : stack \in Seq(S)
  BY DEF TreeInv, ScanInv
<1>3. PICK chain : /\ IsChain(chain, p.nodes)
                   /\ IsOpen(chain, p.nodes, stack, Unseen)
                   /\ Len(chain) = Len(stack) - Unseen
                   /\ CursorAt(p, chain, elem.first, stack # <<>>)
  BY DEF TreeInv
<1>4. IsTree(p) /\ Unseen \in {0, 1}
  BY DEF TreeInv, Unseen
<1>5. CASE NoCallMade
  <2>1. p' = p /\ stack' = stack /\ Unseen' = Unseen /\ elem'.first = elem.first
    BY <1>5 DEF NoCallMade, Unseen
  <2> QED BY <1>1, <1>3, <1>4, <2>1 DEF TreeInv
<1>6. CASE OneInside
  <2>1. /\ p' = OnXmlNode(p, call').p /\ call'.type \in {"branch", "leaf"}
        /\ call'.path = Append(Names, elem.name)
        /\ stack' = stack /\ Unseen' = Unseen /\ elem'.first = FALSE
    BY <1>6 DEF OneInside, Calls, Unseen
  <2>2. CASE Declaration(call')
    <3>1. stack = <<>> /\ p' = p
      BY <1>2, <2>1, <2>2, DeclarationAtTop, CallMakes
    <3>2. chain = <<>>
      BY <1>3, <3>1 DEF Unseen, IsChain
    <3>3. CursorAt(p', chain, elem'.first, stack' # <<>>)
      BY <1>3, <2>1, <3>1, <3>2 DEF CursorAt
    <3> QED BY <1>1, <1>3, <1>4, <2>1, <3>1, <3>3 DEF TreeInv
  <2>3. CASE ~Declaration(call')
    <3>1. PICK type, attr : type \in {"branch", "leaf"} /\ p' = NewNode(p, call'.node, type, attr)
      BY <2>1, <2>3, CallMakes
    <3>2. /\ IsTree(p') /\ IsChain(chain, p'.nodes)
          /\ p'.current = Len(p.nodes) + 1 /\ p'.current = Len(p'.nodes)
          /\ p'.nodes[p'.current].node_type = type
          /\ p'.nodes[p'.current].parent = Inner(chain)
          /\ Kept(p.nodes, p'.nodes, p'.current)
      BY <1>3, <1>4, <3>1, NewNodeLinks
    <3>3. p'.current # NULL
      BY <1>4, <3>2 DEF IsTree, NULL
    <3>4. CursorAt(p', chain, elem'.first, stack' # <<>>)
      BY <3>1, <3>2, <3>3 DEF CursorAt
    <3>5. PICK A, B : p.nodes \in Seq(A) /\ p'.nodes \in Seq(B)
      BY <1>4, <3>2 DEF IsTree
    <3>6. IsOpen(chain, p'.nodes, stack, Unseen)
      BY <1>3, <3>1, <3>2, <3>5, OpenStays
    <3> QED BY <1>1, <1>3, <2>1, <3>2, <3>4, <3>6 DEF TreeInv
  <2> QED BY <2>2, <2>3
<1>7. CASE OneEntered
  <2>1. /\ p' = OnXmlNode(p, call').p /\ call'.type = "enter"
        /\ call'.path = Append(Names, elem.name) /\ call'.node = elem.name
        /\ stack' = Append(stack, elem) /\ elem'.first = TRUE
    BY <1>7 DEF OneEntered, Calls
  <2>2. /\ Len(stack) \in Nat /\ Len(stack') = Len(stack) + 1 /\ stack' # <<>>
        /\ stack'[1] = IF stack = <<>> THEN elem ELSE stack[1]
    BY <1>2, <2>1
  <2>3. CASE Declaration(call')
    <3>1. stack = <<>> /\ elem.name = <<"xml">> /\ p' = p
      BY <1>2, <2>1, <2>3, DeclarationAtTop, CallMakes
    <3>2. chain = <<>> /\ Len(chain) = 0 /\ Len(stack) = 0
      BY <1>3, <3>1 DEF Unseen, IsChain
    <3>3. Unseen' = 1
      BY <2>2, <3>1 DEF Unseen
    <3>4. CursorAt(p', chain, elem'.first, stack' # <<>>)
      BY <1>3, <2>1, <3>1, <3>2 DEF CursorAt
    <3>5. Len(chain) = Len(stack') - Unseen'
      BY <2>2, <3>2, <3>3
    <3>6. IsOpen(chain, p'.nodes, stack', Unseen')
      BY <1>3, <3>1, <3>2 DEF IsOpen
    <3> QED BY <1>1, <1>3, <1>4, <3>1, <3>4, <3>5, <3>6 DEF TreeInv
  <2>4. CASE ~Declaration(call')
    <3>0. /\ call'.path # <<<<"xml">>>>
      BY <2>1, <2>4 DEF Declaration
    <3>1. PICK attr : p' = NewNode(p, call'.node, "enter", attr)
      BY <2>1, <2>4, CallMakes
    <3>2. /\ IsTree(p') /\ IsChain(chain, p'.nodes)
          /\ p'.current = Len(p.nodes) + 1 /\ p'.current = Len(p'.nodes)
          /\ p'.nodes[p'.current].node_type = "enter"
          /\ p'.nodes[p'.current].parent = Inner(chain)
          /\ \A i \in 1 .. Len(chain) : chain[i] < p'.current
          /\ Kept(p.nodes, p'.nodes, p'.current)
          /\ p'.nodes[p'.current].name = elem.name
      BY <1>3, <1>4, <2>1, <3>1, NewNodeLinks
    <3>3. p'.current # NULL /\ p'.current \in 1 .. Len(p'.nodes)
      BY <1>4, <3>2 DEF IsTree, NULL
    <3>4. Unseen' = Unseen
      <4>1. stack = <<>> => elem.name # <<"xml">>
        <5>1. ASSUME stack = <<>>, elem.name = <<"xml">> PROVE FALSE
          <6>1. Names = <<>>
            BY <5>1 DEF Names
          <6> QED BY <2>1, <3>0, <5>1, <6>1
        <5> QED BY <5>1
      <4> QED BY <2>2, <4>1 DEF Unseen
    <3>5. PICK next : next = Append(chain, p'.current)
      OBVIOUS
    <3>6. /\ next \in Seq(1 .. Len(p'.nodes)) /\ Len(next) = Len(chain) + 1 /\ Len(chain) \in Nat
          /\ next # <<>> /\ next[Len(next)] = p'.current
          /\ \A i \in 1 .. Len(chain) : next[i] = chain[i]
      BY <3>2, <3>3, <3>5 DEF IsChain
    <3>7. IsChain(next, p'.nodes)
      <4>1. ASSUME NEW i \in 1 .. Len(next)
            PROVE  /\ p'.nodes[next[i]].node_type = "enter"
                   /\ p'.nodes[next[i]].parent = IF i = 1 THEN NULL ELSE next[i - 1]
        <5>1. CASE i \in 1 .. Len(chain)
          <6>1. next[i] = chain[i] /\ (i # 1 => next[i - 1] = chain[i - 1])
            BY <3>6, <5>1
          <6> QED BY <3>2, <5>1, <6>1 DEF IsChain
        <5>2. CASE i = Len(chain) + 1
          <6>1. i # 1 => chain # <<>> /\ next[i - 1] = chain[Len(chain)]
            BY <3>6, <5>2
          <6>2. i = 1 => chain = <<>>
            BY <3>2, <3>6, <5>2 DEF IsChain
          <6> QED BY <3>2, <3>6, <5>2, <6>1, <6>2 DEF Inner
        <5> QED BY <3>6, <5>1, <5>2
      <4>2. ASSUME NEW i \in 1 .. Len(next), NEW j \in 1 .. Len(next), i < j
            PROVE  next[i] < next[j]
        <5>1. i \in 1 .. Len(chain)
          BY <3>6, <4>2
        <5>2. CASE j \in 1 .. Len(chain)
          BY <3>2, <3>6, <4>2, <5>1, <5>2 DEF IsChain
        <5>3. CASE j = Len(next)
          BY <3>2, <3>6, <5>1, <5>3
        <5> QED BY <3>6, <5>2, <5>3
      <4> QED BY <3>6, <4>1, <4>2 DEF IsChain
    <3>8. CursorAt(p', next, elem'.first, stack' # <<>>)
      BY <2>1, <3>2, <3>3, <3>6 DEF CursorAt, Inner
    <3>9. Len(next) = Len(stack') - Unseen'
      BY <1>3, <2>2, <3>4, <3>6 DEF Unseen
    <3>10. PICK A, B : p.nodes \in Seq(A) /\ p'.nodes \in Seq(B)
      BY <1>4, <3>2 DEF IsTree
    <3>11. IsOpen(next, p'.nodes, stack', Unseen')
      <4>0. Len(p'.nodes) = Len(p.nodes) + 1 /\ p'.nodes[Len(p'.nodes)].name = elem.name
        BY <3>2
      <4>1. IsOpen(Append(chain, Len(p'.nodes)), p'.nodes, Append(stack, elem), Unseen)
        BY <1>2, <1>3, <1>4, <3>2, <3>10, <4>0, OpenGrows
      <4> QED BY <2>1, <3>2, <3>4, <3>5, <4>1
    <3> QED BY <1>1, <3>2, <3>7, <3>8, <3>9, <3>11 DEF TreeInv
  <2> QED BY <2>3, <2>4
<1>8. CASE OneLeft
  <2>1. /\ p' = OnXmlNode(p, call').p /\ call'.type = "leave"
        /\ stack # <<>> /\ stack' = Front(stack) /\ elem.first = FALSE /\ elem'.first = FALSE
    BY <1>8 DEF OneLeft, Calls
  <2>2. p' = LeaveNode(p)
    <3>1. OnXmlNode(p, call') = [p |-> LeaveNode(p), nret |-> IF p.current = NULL THEN -1 ELSE 0]
      <4>1. ~Declaration(call')
        BY <2>1 DEF Declaration
      <4> QED BY <2>1, <4>1 DEF OnXmlNode
    <3> QED BY <2>1, <3>1
  <2>3. /\ Len(stack) \in Nat \ {0} /\ stack' \in Seq(S) /\ Len(stack') = Len(stack) - 1
        /\ Len(stack) # 1 => stack'[1] = stack[1] /\ stack' # <<>>
        /\ Len(stack) = 1 => stack' = <<>>
    <3>1. PICK f : f = Front(stack)
      OBVIOUS
    <3>2. f \in Seq(S) /\ Len(f) = Len(stack) - 1 /\ \A i \in 1 .. Len(stack) - 1 : f[i] = stack[i]
      BY <1>2, <2>1, <3>1, FrontOf
    <3>3. Len(stack) \in Nat \ {0}
      BY <1>2, <2>1
    <3>4. stack' = f
      BY <2>1, <3>1
    <3> QED BY <3>2, <3>3, <3>4
  <2>4. CursorAt(p, chain, FALSE, TRUE)
    BY <1>3, <2>1
  <2>5. CASE chain # <<>>
    <3>1. /\ IsTree(p') /\ IsChain(Front(chain), p'.nodes)
          /\ p'.current = Inner(chain) /\ p'.current # NULL
          /\ p'.nodes[p'.current].node_type = "leave"
          /\ p'.nodes[p'.current].parent = Inner(Front(chain))
          /\ Len(p'.nodes) = Len(p.nodes)
          /\ Kept(p.nodes, p'.nodes, p'.current)
      BY <1>3, <1>4, <2>2, <2>4, <2>5, LeaveNodeLinks
    <3>2. Len(chain) \in Nat \ {0} /\ Len(Front(chain)) = Len(chain) - 1
      BY <1>3, <2>5, FrontOf DEF IsChain
    <3>3. Unseen' = Unseen
      BY <1>3, <2>3, <3>2, <2>1 DEF Unseen
    <3>4. CursorAt(p', Front(chain), elem'.first, stack' # <<>>)
      BY <3>1 DEF CursorAt
    <3>5. Len(Front(chain)) = Len(stack') - Unseen'
      BY <1>3, <2>3, <3>2, <3>3 DEF Unseen
    <3>6. PICK A, B : p.nodes \in Seq(A) /\ p'.nodes \in Seq(B)
      BY <1>4, <3>1 DEF IsTree
    <3>7. IsOpen(Front(chain), p'.nodes, stack', Unseen')
      <4>1. IsOpen(Front(chain), p'.nodes, Front(stack), Unseen)
        BY <1>2, <1>3, <1>4, <2>1, <2>5, <3>1, <3>6, OpenShrinks
      <4> QED BY <2>1, <3>3, <4>1
    <3> QED BY <1>1, <3>1, <3>4, <3>5, <3>7 DEF TreeInv
  <2>6. CASE chain = <<>>
    <3>1. IsTree(p') /\ p'.nodes = p.nodes /\ p'.current = NULL
      BY <1>4, <2>2, <2>4, <2>6, LeaveXml
    <3>2. Len(stack) = 1 /\ stack' = <<>> /\ Len(stack') = 0 /\ Len(chain) = 0
      BY <1>3, <2>3, <2>6 DEF Unseen
    <3>3. CursorAt(p', chain, elem'.first, stack' # <<>>)
      BY <2>6, <3>1, <3>2 DEF CursorAt
    <3>4. Len(chain) = Len(stack') - Unseen'
      BY <3>2 DEF Unseen
    <3>5. IsOpen(chain, p'.nodes, stack', Unseen')
      BY <1>3, <3>1, <3>2 DEF IsOpen
    <3> QED BY <1>1, <1>3, <3>1, <3>3, <3>4, <3>5 DEF TreeInv
  <2> QED BY <2>5, <2>6
<1> QED BY <1>1, <1>5, <1>6, <1>7, <1>8

LEMMA InitTree == Init => TreeInv
<1>1. Init => stack = <<>> /\ p = NoTree /\ elem.first = FALSE /\ ScanInv
  BY DEF Init, XmlInit, NoElem, ScanInv
<1>2. p = NoTree => IsTree(p) /\ IsChain(<<>>, p.nodes) /\ CursorAt(p, <<>>, FALSE, FALSE)
                         /\ IsOpen(<<>>, p.nodes, stack, Unseen)
  BY DEF NoTree, IsTree, IsChain, IsOpen, CursorAt, NULL
<1>3. stack = <<>> => Len(<<>>) = Len(stack) - Unseen
  BY DEF Unseen
<1> QED BY <1>1, <1>2, <1>3 DEF TreeInv

(* Reading a configuration moves the XML scanner by its own steps.         *)
LEMMA ScannerSteps ==
  ASSUME [Next]_vars
  PROVE  [XmlNext]_<<text, xml>>
<1>1. UNCHANGED <<text, xml>> => UNCHANGED <<text, xml>>
  BY DEF xml, xml
<1>2. CASE ParseJson
  <2>1. Json!Next => UNCHANGED text
    BY DEF Json!Next, Json!NoMore, Json!Name, Json!Colon, Json!Scalar, Json!Begin, Json!End,
           Json!NoValue, Json!Comma, Json!Wrong, Json!Reading
  <2>2. UNCHANGED <<text, xml>>
    BY <1>2, <2>1 DEF ParseJson
  <2> QED BY <1>1, <2>2
<1>3. CASE ParseXml
  BY <1>1, <1>3 DEF ParseXml
<1>4. CASE ReadTree
  BY <1>1, <1>4 DEF ReadTree
<1>5. CASE UNCHANGED vars
  BY <1>1, <1>5 DEF vars
<1> QED BY <1>2, <1>3, <1>4, <1>5 DEF Next

LEMMA StepNests ==
  ASSUME ScanInv, [XmlNext]_<<text, xml>>
  PROVE  Sax!Next \/ UNCHANGED <<told, call, Names, elem.first>>
<1>0. PICK S : stack \in Seq(S)
  BY DEF ScanInv
<1>1. CASE NoCallMade
  BY <1>1 DEF NoCallMade, Names
<1>2. CASE OneInside
  BY <1>2 DEF OneInside, Calls, Sax!Next, Sax!Inside
<1>3. CASE OneEntered
  <2>1. NamesOf(stack') = Append(NamesOf(stack), elem.name)
    BY <1>0, <1>3, EntersOne DEF OneEntered
  <2> QED BY <1>3, <2>1 DEF OneEntered, Calls, Sax!Next, Sax!Enter, NamesOf
<1>4. CASE OneLeft
  <2>1. /\ NamesOf(stack') = Front(NamesOf(stack))
        /\ Last(NamesOf(stack)) = Last(stack).name /\ NamesOf(stack) # <<>>
    BY <1>0, <1>4, LeavesOne DEF OneLeft
  <2> QED BY <1>4, <2>1 DEF OneLeft, Calls, Sax!Next, Sax!Leave, Sax!Last, Sax!Front, Last, Front, NamesOf
<1> QED BY <1>1, <1>2, <1>3, <1>4, StepKinds

(* Whatever the text is, the calls _on_xml_node gets nest as SaxStream says. *)
THEOREM Nesting == Spec => CallsNest
<1>1. Init => Sax!Init
  BY DEF Init, XmlInit, Sax!Init, NoElem
<1>2. ScanInv /\ [Next]_vars => ScanInv'
  BY ScannerSteps, StepKinds
<1>3. ScanInv /\ [Next]_vars => [Sax!Next]_<<told, call, Names, elem.first>>
  BY ScannerSteps, StepNests
<1> QED BY <1>1, <1>2, <1>3, InitScan, PTL DEF Spec, CallsNest, Sax!Spec, Names

(* Whatever the text is, building its tree never follows a NULL pointer.   *)
THEOREM TreeIsSafe == Spec => []TreeNeverFaults
<1>1. TreeInv /\ [Next]_vars => TreeInv'
  BY TreeStep, ScannerSteps
<1>2. TreeInv => TreeNeverFaults
  BY DEF TreeInv, IsTree, TreeNeverFaults
<1> QED BY <1>1, <1>2, InitTree, PTL DEF Spec

(* The nodes of the chain are those CursorFollows speaks of.               *)
LEMMA ChainFollows == TreeInv => CursorFollows
<1> SUFFICES ASSUME TreeInv PROVE CursorFollows
  OBVIOUS
<1> DEFINE open == IF stack # <<>> /\ stack[1].name = <<"xml">> THEN Tail(stack) ELSE stack
           entered == {n \in DOMAIN p.nodes : p.nodes[n].node_type = "enter"}
<1>1. PICK S : stack \in Seq(S)
  BY DEF TreeInv, ScanInv
<1>2. PICK chain : /\ IsChain(chain, p.nodes)
                   /\ IsOpen(chain, p.nodes, stack, Unseen)
                   /\ Len(chain) = Len(stack) - Unseen
                   /\ CursorAt(p, chain, elem.first, stack # <<>>)
  BY DEF TreeInv
<1>3. PICK T : p.nodes \in Seq(T)
  BY DEF TreeInv, IsTree
<1>4. /\ chain \in Seq(1 .. Len(p.nodes)) /\ Len(chain) \in Nat /\ DOMAIN chain = 1 .. Len(chain)
      /\ DOMAIN p.nodes = 1 .. Len(p.nodes)
      /\ chain = [i \in 1 .. Len(chain) |-> chain[i]]
  BY <1>2, <1>3 DEF IsChain
<1>5. /\ Len(open) = Len(chain) /\ DOMAIN open = 1 .. Len(chain)
      /\ \A i \in 1 .. Len(chain) : open[i] = stack[i + Unseen]
      /\ open = <<>> <=> chain = <<>>
  <2>1. CASE stack # <<>> /\ stack[1].name = <<"xml">>
    <3>1. Unseen = 1 /\ open = Tail(stack) /\ Len(stack) \in Nat \ {0}
      BY <1>1, <2>1 DEF Unseen
    <3>2. /\ Tail(stack) \in Seq(S) /\ Len(Tail(stack)) = Len(stack) - 1
          /\ \A i \in 1 .. Len(stack) - 1 : Tail(stack)[i] = stack[i + 1]
      BY <1>1, <2>1
    <3>3. open \in Seq(S) /\ Len(open) = Len(chain)
      BY <1>2, <3>1, <3>2
    <3>4. \A i \in 1 .. Len(chain) : open[i] = stack[i + Unseen]
      BY <1>2, <3>1, <3>2
    <3> HIDE DEF open
    <3> QED BY <1>4, <3>3, <3>4
  <2>2. CASE ~(stack # <<>> /\ stack[1].name = <<"xml">>)
    BY <1>1, <1>2, <1>4, <2>2 DEF Unseen
  <2> QED BY <2>1, <2>2
<1> HIDE DEF open
<1>6. chain \in [DOMAIN open -> entered]
  BY <1>2, <1>4, <1>5 DEF IsChain
<1>7. entered = {chain[i] : i \in DOMAIN open}
  BY <1>2, <1>4, <1>5 DEF IsChain, IsOpen
<1>8. \A i \in DOMAIN open :
        /\ p.nodes[chain[i]].name = open[i].name
        /\ p.nodes[chain[i]].parent = IF i = 1 THEN NULL ELSE chain[i - 1]
  BY <1>2, <1>5 DEF IsChain, IsOpen
<1>9. LET inner == IF open = <<>> THEN NULL ELSE chain[Len(open)]
      IN p.current = inner \/ (p.current # NULL /\ p.nodes[p.current].parent = inner)
  BY <1>2, <1>5 DEF CursorAt, Inner
<1> QED BY <1>6, <1>7, <1>8, <1>9 DEF CursorFollows, open

(* Whatever the text is, the one cursor of the tree builder follows the    *)
(* scanner: the nodes entered and not left are the open elements.          *)
THEOREM TreeFollowsTheScanner == Spec => []CursorFollows
<1>1. TreeInv /\ [Next]_vars => TreeInv'
  BY TreeStep, ScannerSteps
<1> QED BY <1>1, InitTree, ChainFollows, PTL DEF Spec

----------------------------------------------------------------------------
(* The loop in Skip of XmlText.                                            *)
XmlSkipFrom(skip, s, j) ==
  LET k == Until(s, j, NoneOf(s, Blanks))
      e == Find(s, k + 3, <<"--", ">">>)
  IN IF ~Reads(s, k, <<"<", "!", "--">>) THEN k
     ELSE IF At(s, e) = NUL THEN e ELSE skip[e + 2]
XmlSkips(skip, s) == skip = [j \in Nat |-> XmlSkipFrom(skip, s, j)]

(* What is skipped ends behind where it begins, or at the end of the text. *)
Skipped(b, n, i) ==
  /\ b \in Nat /\ b <= n + 1
  /\ i <= n + 1 => b >= i
  /\ i > n + 1 => b = n + 1

LEMMA XmlSkipIs ==
  ASSUME NEW s, NEW n, IsText(s, n), NEW i \in Nat
  PROVE  Skipped(Skip(s, i), n, i)
<1> DEFINE k(j) == Until(s, j, NoneOf(s, Blanks))
           e(j) == Find(s, k(j) + 3, <<"--", ">">>)
           long(j) == Reads(s, k(j), <<"<", "!", "--">>)
           D == {j \in Nat : long(j) /\ At(s, e(j)) # NUL}
           N == [j \in Nat |-> e(j) + 2]
           K == [j \in Nat |-> IF ~long(j) THEN k(j) ELSE e(j)]
           C == CHOOSE skip : XmlSkips(skip, s)
<1>n. n \in Nat
  BY DEF IsText
<1>1. ASSUME NEW j \in Nat
      PROVE  /\ FirstOf(k(j), n, j, NoneOf(s, Blanks)) /\ k(j) \in Nat
             /\ FirstOf(e(j), n, k(j) + 3, {m \in DOMAIN s : Reads(s, m, <<"--", ">">>)})
             /\ e(j) \in Nat
  <2>1. FirstOf(k(j), n, j, NoneOf(s, Blanks))
    BY UntilIs
  <2>2. k(j) \in Nat /\ k(j) + 3 \in Nat
    BY <2>1 DEF FirstOf
  <2>3. FirstOf(e(j), n, k(j) + 3, {m \in DOMAIN s : Reads(s, m, <<"--", ">">>)})
    <3> HIDE DEF k
    <3> QED BY <2>2, UntilIs DEF Find
  <2>4. e(j) \in Nat
    <3> HIDE DEF k, e
    <3> QED BY <2>3 DEF FirstOf
  <2> QED BY <2>1, <2>2, <2>3, <2>4
<1>2. ASSUME NEW G, NEW j \in Nat
      PROVE  XmlSkipFrom(G, s, j) = IF j \in D THEN G[N[j]] ELSE K[j]
  <2>1. XmlSkipFrom(G, s, j) = IF ~long(j) THEN k(j) ELSE IF At(s, e(j)) = NUL THEN e(j) ELSE G[e(j) + 2]
    BY DEF XmlSkipFrom
  <2> HIDE DEF k, e, long
  <2> QED BY <2>1
<1> HIDE DEF k, e, long
<1>3. Onward(D, N, n)
  <2>1. ASSUME NEW j \in D PROVE j \in 0 .. n /\ N[j] \in Nat /\ N[j] > j
    <3>1. j \in Nat /\ At(s, e(j)) # NUL
      OBVIOUS
    <3>2. e(j) \in Nat /\ e(j) <= n
      BY <3>1, <1>1, AtEnd
    <3>3. e(j) >= k(j) + 3 /\ k(j) \in Nat /\ (j <= n + 1 => k(j) >= j)
      BY <3>1, <3>2, <1>1 DEF FirstOf
    <3>4. j > n + 1 => k(j) = n + 1
      <4>1. FirstOf(k(j), n, j, NoneOf(s, Blanks))
        BY <1>1, <3>1
      <4> QED BY <4>1, <1>n, <3>1 DEF FirstOf
    <3> QED BY <3>1, <3>2, <3>3, <3>4, <1>n
  <2> HIDE DEF D, N
  <2> QED BY <2>1, <1>n DEF Onward
<1>4. ASSUME NEW G PROVE XmlSkips(G, s) <=> Scans(G, D, N, K)
  <2> HIDE DEF D, N, K
  <2> QED BY <1>2 DEF XmlSkips, Scans
<1>5. XmlSkips(C, s)
  <2>1. \E F : Scans(F, D, N, K)
    <3> HIDE DEF D, N, K
    <3> QED BY <1>3, ScanExists
  <2>2. \E F : XmlSkips(F, s)
    BY <2>1, <1>4
  <2> QED BY <2>2
<1>6. Skip(s, i) = C[i]
  BY Zenon DEF Skip, XmlSkips, XmlSkipFrom
<1> HIDE DEF C
<1>7. PICK m \in Nat : m >= i /\ m \notin D /\ C[i] = K[m]
  <2>1. Scans(C, D, N, K)
    BY <1>4, <1>5
  <2> HIDE DEF D, N, K
  <2> QED BY <2>1, <1>3, ScanStops
<1>8. Skip(s, i) = k(m) \/ Skip(s, i) = e(m)
  BY <1>6, <1>7
<1>9. /\ k(m) \in Nat /\ k(m) <= n + 1 /\ (m <= n + 1 => k(m) >= m)
      /\ e(m) \in Nat /\ e(m) <= n + 1 /\ (k(m) + 3 <= n + 1 => e(m) >= k(m) + 3)
      /\ e(m) <= n => e(m) >= k(m) + 3
  BY <1>1 DEF FirstOf
<1>10. m > n + 1 => k(m) = n + 1
  <2>1. FirstOf(k(m), n, m, NoneOf(s, Blanks))
    BY <1>1
  <2> QED BY <2>1, <1>n, <1>7 DEF FirstOf
<1> QED BY <1>7, <1>8, <1>9, <1>10, <1>n DEF Skipped

(* A token that is none ends the text; any other one ends behind the place *)
(* it was looked for at.                                                   *)
TokenGoesOn(t, n, i) ==
  /\ t.next \in Nat /\ t.next <= n + 1
  /\ t.tag # "EOF" => t.next > i

LEMMA XmlTokenIs ==
  ASSUME NEW s, NEW n, IsText(s, n), NEW i \in Nat
  PROVE  TokenGoesOn(XmlToken(s, i), n, i)
<1> DEFINE b == Skip(s, i)
           P == AnyOf(s, Blanks \cup {"<", "/", "?", ">"})
           e == Until(s, b + 1, P)
           t == XmlToken(s, i)
           sp == At(s, b) = "<" /\ At(s, b + 1) \in {"?", "!"}
           lab == At(s, b) = "<" /\ At(s, b + 1) \notin {"?", "!", "\n", NUL}
           slash == At(s, b) = "/"
           rab == At(s, b) = ">"
           word == IF At(s, e) = NUL THEN NoToken(s) ELSE Token(s, "TEXT", b, e)
<1>n. n \in Nat /\ n = Len(s)
  BY DEF IsText
<1>b. Skipped(b, n, i) /\ b \in Nat /\ b + 1 \in Nat
  <2>1. Skipped(b, n, i)
    BY XmlSkipIs
  <2> HIDE DEF b
  <2> QED BY <2>1 DEF Skipped
<1> HIDE DEF b, P
<1>e. FirstOf(e, n, b + 1, P)
  BY <1>b, UntilIs
<1>1. t = CASE sp -> Token(s, "LAB_SP", b, b + 2)
            [] lab -> Token(s, "LAB", b, b + 1)
            [] slash -> Token(s, "SLASH", b, b + 1)
            [] rab -> Token(s, "RAB", b, b + 1)
            [] OTHER -> word
  BY Zenon DEF XmlToken, XmlTokenAt, b, P
<1>2. At(s, b) # NUL => b >= 1 /\ b <= n
  BY <1>b, AtEnd
<1>3. At(s, b + 1) # NUL => b + 1 <= n
  BY <1>b, AtEnd
<1>4. At(s, e) # NUL => e <= n
  <2>1. e \in Nat
    BY <1>e DEF FirstOf
  <2> HIDE DEF e
  <2> QED BY <2>1, AtEnd
<1>5. b <= n => b >= i
  BY <1>b, <1>n DEF Skipped
<1>6. sp => b <= n /\ b + 1 <= n
  BY <1>2, <1>3 DEF NUL
<1>7. (lab \/ slash \/ rab) => b <= n
  BY <1>2 DEF NUL
<1>8. word = NoToken(s) \/ (word = Token(s, "TEXT", b, e) /\ e <= n)
  BY <1>4
<1> HIDE DEF e, word, sp, lab, slash, rab, t
<1>9. \/ t = Token(s, "LAB_SP", b, b + 2) /\ b + 1 <= n
      \/ t = Token(s, "LAB", b, b + 1) /\ b <= n
      \/ t = Token(s, "SLASH", b, b + 1) /\ b <= n
      \/ t = Token(s, "RAB", b, b + 1) /\ b <= n
      \/ t = NoToken(s)
      \/ t = Token(s, "TEXT", b, e) /\ e <= n
  BY <1>1, <1>6, <1>7, <1>8
<1>10. e <= n => e >= b + 1
  BY <1>e DEF FirstOf
<1>11. e \in Nat
  BY <1>e DEF FirstOf
<1>12. TokenGoesOn(t, n, i)
  BY <1>9, <1>5, <1>10, <1>11, <1>b, <1>n DEF TokenGoesOn, Token, NoToken
<1> QED BY <1>12 DEF t

(* The loop in TagEnd.                                                     *)
TagEndFrom(scan, s, j) ==
  LET q == Until(s, j + 1, AnyOf(s, {s[j]}))
  IN CASE At(s, j) = NUL -> j
       [] At(s, j) \in Quotes -> IF At(s, q) = NUL THEN q ELSE scan[q + 1]
       [] At(s, j) = ">" -> j + 1
       [] Reads(s, j, <<"/", ">">>) -> j + 2
       [] OTHER -> scan[j + 1]
TagEnds(scan, s) == scan = [j \in Nat |-> TagEndFrom(scan, s, j)]

(* The end of a tag is behind the place it is looked for at, unless the    *)
(* text ends there.                                                        *)
LEMMA TagEndIs ==
  ASSUME NEW s, NEW n, IsText(s, n), NEW i \in Nat
  PROVE  TagEnd(s, i) \in Nat /\ (At(s, TagEnd(s, i)) # NUL => TagEnd(s, i) > i)
<1> DEFINE q(j) == Until(s, j + 1, AnyOf(s, {s[j]}))
           nul(j) == At(s, j) = NUL
           quote(j) == At(s, j) \in Quotes
           rab(j) == At(s, j) = ">"
           slash(j) == Reads(s, j, <<"/", ">">>)
           D == {j \in Nat : ~nul(j) /\ IF quote(j) THEN ~nul(q(j)) ELSE ~rab(j) /\ ~slash(j)}
           N == [j \in Nat |-> IF quote(j) THEN q(j) + 1 ELSE j + 1]
           K == [j \in Nat |-> IF nul(j) THEN j ELSE IF quote(j) THEN q(j)
                               ELSE IF rab(j) THEN j + 1 ELSE j + 2]
           C == CHOOSE scan : TagEnds(scan, s)
<1>n. n \in Nat
  BY DEF IsText
<1>1. ASSUME NEW j \in Nat
      PROVE  q(j) \in Nat /\ (q(j) <= n => q(j) >= j + 1) /\ q(j) <= n + 1
  <2> DEFINE u == q(j)
             P == AnyOf(s, {s[j]})
  <2>0. j + 1 \in Nat /\ u = Until(s, j + 1, P)
    OBVIOUS
  <2>1. FirstOf(u, n, j + 1, P)
    <3> HIDE DEF P, u
    <3> QED BY <2>0, UntilIs
  <2> HIDE DEF u, P
  <2>2. u \in Nat /\ (u <= n => u >= j + 1) /\ u <= n + 1
    BY <2>1 DEF FirstOf
  <2> QED BY <2>2 DEF u
<1>2. ASSUME NEW j \in Nat
      PROVE  ~nul(j) => j <= n
  BY AtEnd
<1>3. ASSUME NEW G, NEW j \in Nat
      PROVE  TagEndFrom(G, s, j) = IF j \in D THEN G[N[j]] ELSE K[j]
  <2>1. TagEndFrom(G, s, j) =
          CASE nul(j) -> j
            [] quote(j) -> IF nul(q(j)) THEN q(j) ELSE G[q(j) + 1]
            [] rab(j) -> j + 1
            [] slash(j) -> j + 2
            [] OTHER -> G[j + 1]
    BY Zenon DEF TagEndFrom
  <2>2. /\ nul(j) => ~quote(j) /\ ~rab(j) /\ ~slash(j)
        /\ quote(j) => ~rab(j) /\ ~slash(j)
        /\ rab(j) => ~slash(j)
    <3>1. slash(j) => At(s, j) = "/"
      <4>1. slash(j) => At(s, j + 1 - 1) = "/"
        BY DEF Reads
      <4> QED BY <4>1
    <3>2. NUL \notin Quotes /\ ">" \notin Quotes /\ "/" \notin Quotes /\ NUL # ">" /\ NUL # "/"
      BY Zenon DEF Quotes, NUL
    <3> QED BY <3>1, <3>2
  <2> HIDE DEF q, nul, quote, rab, slash
  <2>3. CASE j \in D
    BY <2>1, <2>2, <2>3
  <2>4. CASE j \notin D
    BY <2>1, <2>2, <2>4
  <2> QED BY <2>3, <2>4
<1>4. Onward(D, N, n)
  <2>1. ASSUME NEW j \in D PROVE j \in 0 .. n /\ N[j] \in Nat /\ N[j] > j
    <3>1. j \in Nat /\ j <= n
      BY <1>2
    <3>2. quote(j) => q(j) <= n
      <4>1. quote(j) => ~nul(q(j))
        OBVIOUS
      <4>2. q(j) \in Nat
        BY <1>1, <3>1
      <4> HIDE DEF q, nul, D
      <4> QED BY <4>1, <4>2, <1>2
    <3>3. N[j] = IF quote(j) THEN q(j) + 1 ELSE j + 1
      BY <3>1
    <3>4. q(j) \in Nat /\ (q(j) <= n => q(j) >= j + 1)
      BY <1>1, <3>1
    <3> HIDE DEF q, quote, D, N
    <3> QED BY <3>1, <3>2, <3>3, <3>4, <1>n
  <2> HIDE DEF D, N
  <2> QED BY <2>1, <1>n DEF Onward
<1> HIDE DEF D, N
<1>5. ASSUME NEW G PROVE TagEnds(G, s) <=> Scans(G, D, N, K)
  <2> HIDE DEF K
  <2> QED BY <1>3 DEF TagEnds, Scans
<1>6. TagEnds(C, s)
  <2>1. \E F : Scans(F, D, N, K)
    <3> HIDE DEF K
    <3> QED BY <1>4, ScanExists
  <2>2. \E F : TagEnds(F, s)
    BY <2>1, <1>5
  <2> QED BY <2>2
<1>7. TagEnd(s, i) = C[i]
  BY Zenon DEF TagEnd, TagEnds, TagEndFrom
<1> HIDE DEF C
<1>8. PICK m \in Nat : m >= i /\ m \notin D /\ C[i] = K[m]
  <2>1. Scans(C, D, N, K)
    BY <1>5, <1>6
  <2> HIDE DEF K
  <2> QED BY <2>1, <1>4, ScanStops
<1>9. TagEnd(s, i) = IF nul(m) THEN m ELSE IF quote(m) THEN q(m) ELSE IF rab(m) THEN m + 1 ELSE m + 2
  BY <1>7, <1>8
<1>10. q(m) \in Nat /\ (~nul(q(m)) => q(m) > m)
  <2>1. q(m) \in Nat /\ (q(m) <= n => q(m) >= m + 1)
    BY <1>1
  <2>2. ~nul(q(m)) => q(m) <= n
    <3> HIDE DEF q, nul
    <3> QED BY <2>1, <1>2
  <2> HIDE DEF q, nul
  <2> QED BY <2>1, <2>2, <1>n
<1> DEFINE e == TagEnd(s, i)
<1>11. e \in Nat /\ (~nul(e) => e > i)
  <2>1. m \in Nat /\ m >= i
    BY <1>8
  <2> HIDE DEF q, nul, quote, rab, e
  <2>2. e = IF nul(m) THEN m ELSE IF quote(m) THEN q(m) ELSE IF rab(m) THEN m + 1 ELSE m + 2
    BY <1>9 DEF e
  <2> QED BY <2>1, <2>2, <1>10
<1> QED BY <1>11

(* The text of a configuration is one.                                     *)
LEMMA TextIs ==
  ASSUME NEW s \in Seq(STRING)
  PROVE  IsText(s, Len(s))
BY DEF IsText

(* The text of an element ends behind its tag.                             *)
LEMMA ContentEndIs ==
  ASSUME NEW s, NEW n, IsText(s, n), NEW i \in Nat
  PROVE  ContentEnd(s, i) \in Nat /\ (ContentEnd(s, i) <= n => ContentEnd(s, i) >= i)
<1> DEFINE P == {j \in AnyOf(s, {"<"}) : At(s, j + 1) \notin Marks \/ At(s, j + 1) = "/"}
           e == ContentEnd(s, i)
<1>1. e = Until(s, i, P)
  BY Zenon DEF ContentEnd
<1> HIDE DEF P, e
<1>2. FirstOf(e, n, i, P)
  BY <1>1, UntilIs
<1>3. e \in Nat /\ (e <= n => e >= i)
  BY <1>2 DEF FirstOf
<1> QED BY <1>3 DEF e

----------------------------------------------------------------------------
(* What is wrong with the tokens of an end tag ends the scan.              *)
LEMMA WrongIsNegative ==
  ASSUME NEW t
  PROVE  /\ t.tag = "EOF" => RabError(t) < 0
         /\ \A e : t.tag = "EOF" => NameError(t, e) < 0
BY DEF RabError, NameError, END_OF_BUFFER

(* At the top of a level.                                                  *)
LEMMA NoTagAdvances ==
  ASSUME at \in Nat, text \in Seq(STRING), NoTag
  PROVE  at' \in Nat /\ (Forward(at, at') \/ phase' = "done")
<1> DEFINE n == Len(text)
           tok == XmlToken(text, at)
<1>1. TokenGoesOn(tok, n, at)
  BY TextIs, XmlTokenIs
<1>2. at' = tok.next /\ (tok.tag = "EOF" => phase' = "done")
  BY DEF NoTag, Return
<1> HIDE DEF n, tok
<1> QED BY <1>1, <1>2 DEF TokenGoesOn, Forward, n

(* At a tag and the name in it.                                            *)
LEMMA OpenTagAdvances ==
  ASSUME at \in Nat, text \in Seq(STRING), OpenTag
  PROVE  at' \in Nat /\ (Forward(at, at') \/ phase' = "done")
<1> DEFINE n == Len(text)
           tok == XmlToken(text, at)
           name == XmlToken(text, tok.next)
<1>0. IsText(text, n)
  BY TextIs
<1>1. TokenGoesOn(tok, n, at)
  BY <1>0, XmlTokenIs
<1>2. tok.next \in Nat
  BY <1>1 DEF TokenGoesOn
<1>3. TokenGoesOn(name, n, tok.next)
  <2> HIDE DEF tok, n
  <2> QED BY <1>0, <1>2, XmlTokenIs
<1>4. tok.tag # "EOF"
  BY DEF OpenTag
<1>5. at' = name.next /\ (name.tag = "EOF" => phase' = "done")
  BY DEF OpenTag, ReturnOr, Return, END_OF_BUFFER
<1> HIDE DEF n, tok, name
<1> QED BY <1>1, <1>3, <1>4, <1>5 DEF TokenGoesOn, Forward, n

(* At an end tag, behind its slash.                                        *)
LEMMA EndLevelAdvances ==
  ASSUME at \in Nat, text \in Seq(STRING), EndLevel
  PROVE  at' \in Nat /\ (Forward(at, at') \/ phase' = "done")
<1> DEFINE n == Len(text)
           tok == XmlToken(text, at)
           slash == XmlToken(text, tok.next)
<1>0. IsText(text, n)
  BY TextIs
<1>1. TokenGoesOn(tok, n, at)
  BY <1>0, XmlTokenIs
<1>2. tok.next \in Nat
  BY <1>1 DEF TokenGoesOn
<1>3. TokenGoesOn(slash, n, tok.next)
  <2> HIDE DEF tok, n
  <2> QED BY <1>0, <1>2, XmlTokenIs
<1>4. tok.tag # "EOF" /\ slash.tag # "EOF"
  BY DEF EndLevel
<1>5. at' = slash.next
  BY DEF EndLevel
<1> HIDE DEF n, tok, slash
<1> QED BY <1>1, <1>3, <1>4, <1>5 DEF TokenGoesOn, Forward, n

(* At the end of a tag.                                                    *)
LEMMA EndTagAdvances ==
  ASSUME at \in Nat, text \in Seq(STRING), EndTag
  PROVE  at' \in Nat /\ (Forward(at, at') \/ phase' = "done")
<1> DEFINE e == TagEnd(text, at)
<1>1. e \in Nat /\ (At(text, e) # NUL => e > at)
  BY TextIs, TagEndIs
<1>2. at' = e
  BY DEF EndTag
<1>3. At(text, e) = NUL => phase' = "done"
  BY DEF EndTag, Fail, Return
<1> HIDE DEF e
<1>4. At(text, e) # NUL => e <= Len(text)
  BY <1>1, TextIs, AtEnd
<1> QED BY <1>1, <1>2, <1>3, <1>4 DEF Forward

(* The token behind the text of an element.                                *)
LEMMA BehindContent ==
  ASSUME NEW s, NEW n, IsText(s, n), NEW i \in Nat, NEW t, t = XmlToken(s, ContentEnd(s, i) + 1)
  PROVE  t.next \in Nat /\ t.next <= n + 1 /\ (t.tag # "EOF" => t.next > i)
<1> DEFINE e == ContentEnd(s, i)
<1>1. e \in Nat /\ (e <= n => e >= i)
  BY ContentEndIs
<1>2. n \in Nat
  BY DEF IsText
<1>3. e + 1 \in Nat
  BY <1>1
<1>4. TokenGoesOn(t, n, e + 1)
  <2> HIDE DEF e
  <2>1. t = XmlToken(s, e + 1)
    BY DEF e
  <2> QED BY <2>1, <1>3, XmlTokenIs
<1> HIDE DEF e
<1> QED BY <1>1, <1>2, <1>4 DEF TokenGoesOn

(* At the end tag behind a text: three tokens, of which the last may be    *)
(* missing only if the scanner returns.                                    *)
LEMMA LeafAdvances ==
  ASSUME at \in Nat, text \in Seq(STRING), Leaf
  PROVE  at' \in Nat /\ (Forward(at, at') \/ phase' = "done")
<1> DEFINE n == Len(text)
           slash == XmlToken(text, ContentEnd(text, at) + 1)
           name == XmlToken(text, slash.next)
           rab == XmlToken(text, name.next)
<1>0. IsText(text, n)
  BY TextIs
<1>1. slash.next \in Nat /\ slash.next > at
  <2>1. slash.tag # "EOF"
    BY DEF Leaf
  <2> DEFINE t == slash
  <2>2. t = XmlToken(text, ContentEnd(text, at) + 1)
    OBVIOUS
  <2> HIDE DEF n, t
  <2>3. t.next \in Nat /\ (t.tag # "EOF" => t.next > at)
    BY <1>0, <2>2, BehindContent
  <2> QED BY <2>1, <2>3 DEF t
<1>2. TokenGoesOn(name, n, slash.next)
  <2> HIDE DEF slash, n
  <2> QED BY <1>0, <1>1, XmlTokenIs
<1>3. name.next \in Nat
  BY <1>2 DEF TokenGoesOn
<1>4. TokenGoesOn(rab, n, name.next)
  <2> HIDE DEF name, n
  <2> QED BY <1>0, <1>3, XmlTokenIs
<1>5. /\ at' = rab.next
      /\ NameError(name, elem) < 0 \/ RabError(rab) < 0 => phase' = "done"
  BY DEF Leaf, Fail, Return
<1> HIDE DEF n, slash, name, rab
<1>6. (name.tag = "EOF" => NameError(name, elem) < 0) /\ (rab.tag = "EOF" => RabError(rab) < 0)
  BY WrongIsNegative
<1> QED BY <1>1, <1>2, <1>4, <1>5, <1>6 DEF TokenGoesOn, Forward, n

(* At the name of the first element in an element.                         *)
LEMMA EnterElementAdvances ==
  ASSUME at \in Nat, text \in Seq(STRING), EnterElement
  PROVE  at' \in Nat /\ (Forward(at, at') \/ phase' = "done")
<1> DEFINE n == Len(text)
           name == XmlToken(text, ContentEnd(text, at) + 1)
<1>0. IsText(text, n)
  BY TextIs
<1>1. name.next \in Nat /\ name.next <= n + 1 /\ (name.tag # "EOF" => name.next > at)
  <2> DEFINE t == name
  <2>2. t = XmlToken(text, ContentEnd(text, at) + 1)
    OBVIOUS
  <2> HIDE DEF n, t
  <2>3. t.next \in Nat /\ t.next <= n + 1 /\ (t.tag # "EOF" => t.next > at)
    BY <1>0, <2>2, BehindContent
  <2> QED BY <2>3 DEF t
<1>2. at' = name.next /\ (name.tag = "EOF" => phase' = "done")
  BY DEF EnterElement, Fail, Return
<1> HIDE DEF n, name
<1> QED BY <1>1, <1>2 DEF Forward, n

(* At the name and the bracket of the end tag of an element entered.       *)
LEMMA LeaveElementAdvances ==
  ASSUME at \in Nat, text \in Seq(STRING), LeaveElement
  PROVE  at' \in Nat /\ (Forward(at, at') \/ phase' = "done")
<1> DEFINE n == Len(text)
           name == XmlToken(text, at)
           rab == XmlToken(text, name.next)
<1>0. IsText(text, n)
  BY TextIs
<1>1. TokenGoesOn(name, n, at)
  BY <1>0, XmlTokenIs
<1>2. name.next \in Nat
  BY <1>1 DEF TokenGoesOn
<1>3. TokenGoesOn(rab, n, name.next)
  <2> HIDE DEF name, n
  <2> QED BY <1>0, <1>2, XmlTokenIs
<1>4. (name.tag = "EOF" => NameError(name, Last(stack)) < 0) /\ (rab.tag = "EOF" => RabError(rab) < 0)
  BY WrongIsNegative
<1>5. at' = rab.next /\ (NameError(name, Last(stack)) < 0 => phase' = "done")
  BY DEF LeaveElement, Fail, Return
<1>6. ~(NameError(name, Last(stack)) < 0)
        => ReturnOr(IF Nret < 0 THEN Nret ELSE RabError(rab), "open")
  BY Zenon DEF LeaveElement
<1>7. ~(NameError(name, Last(stack)) < 0) /\ RabError(rab) < 0 => phase' = "done"
  <2> HIDE DEF name, rab
  <2> QED BY <1>6 DEF ReturnOr, Return
<1> HIDE DEF n, name, rab
<1> QED BY <1>1, <1>3, <1>4, <1>5, <1>7 DEF TokenGoesOn, Forward, n

(* Each step of TravelXmlBuffer takes it forward, or it returns.           *)
LEMMA XmlAdvances ==
  ASSUME at \in Nat, text \in Seq(STRING), XmlNext
  PROVE  at' \in Nat /\ (Forward(at, at') \/ phase' = "done") /\ text' = text
<1>1. text' = text
  BY DEF XmlNext, NoTag, OpenTag, EndLevel, EndTag, Leaf, EnterElement, LeaveElement
<1> QED BY <1>1, NoTagAdvances, OpenTagAdvances, EndLevelAdvances, EndTagAdvances, LeafAdvances,
           EnterElementAdvances, LeaveElementAdvances DEF XmlNext

----------------------------------------------------------------------------
(* The loop in Skip of FasterJson.                                         *)
JsonSkipFrom(skip, s, j) ==
  LET k == Until(s, j, NoneOf(s, Blanks))
      long == Reads(s, k, <<"/", "*">>)
      end == IF long THEN <<"*", "/">> ELSE <<"\n">>
      e == Find(s, k + 4, end)
  IN IF ~long /\ ~Reads(s, k, <<"/", "/">>) THEN k
     ELSE IF k + 4 > Len(s) + 1 THEN Len(s) + 2
     ELSE IF At(s, e) = NUL THEN e ELSE skip[e + Len(end)]
JsonSkips(skip, s) == skip = [j \in Nat |-> JsonSkipFrom(skip, s, j)]

(* What is skipped ends at no blank, or behind NUL.                        *)
LEMMA JsonSkipIs ==
  ASSUME NEW s, NEW n, IsText(s, n), NEW i \in Nat
  PROVE  /\ Json!Skip(s, i) = n + 2 \/ Skipped(Json!Skip(s, i), n, i)
         /\ Json!Skip(s, i) <= n => At(s, Json!Skip(s, i)) \notin Blanks
<1> DEFINE k(j) == Until(s, j, NoneOf(s, Blanks))
           long(j) == Reads(s, k(j), <<"/", "*">>)
           short(j) == Reads(s, k(j), <<"/", "/">>)
           end(j) == IF long(j) THEN <<"*", "/">> ELSE <<"\n">>
           e(j) == Find(s, k(j) + 4, end(j))
           beyond(j) == k(j) + 4 > Len(s) + 1
           D == {j \in Nat : (long(j) \/ short(j)) /\ ~beyond(j) /\ At(s, e(j)) # NUL}
           N == [j \in Nat |-> e(j) + Len(end(j))]
           K == [j \in Nat |-> IF ~long(j) /\ ~short(j) THEN k(j)
                               ELSE IF beyond(j) THEN Len(s) + 2 ELSE e(j)]
           C == CHOOSE skip : JsonSkips(skip, s)
<1>n. n \in Nat
  BY DEF IsText
<1>1. ASSUME NEW j \in Nat
      PROVE  /\ FirstOf(k(j), n, j, NoneOf(s, Blanks)) /\ k(j) \in Nat
             /\ FirstOf(e(j), n, k(j) + 4, {m \in DOMAIN s : Reads(s, m, end(j))})
             /\ e(j) \in Nat
  <2>1. FirstOf(k(j), n, j, NoneOf(s, Blanks))
    BY UntilIs
  <2>2. k(j) \in Nat /\ k(j) + 4 \in Nat
    BY <2>1 DEF FirstOf
  <2>3. FirstOf(e(j), n, k(j) + 4, {m \in DOMAIN s : Reads(s, m, end(j))})
    <3> HIDE DEF k, end
    <3> QED BY <2>2, UntilIs DEF Find
  <2>4. e(j) \in Nat
    <3> HIDE DEF k, e, end
    <3> QED BY <2>3 DEF FirstOf
  <2> QED BY <2>1, <2>2, <2>3, <2>4
<1>2. ASSUME NEW j \in Nat
      PROVE  Len(end(j)) \in Nat /\ Len(end(j)) >= 1
  <2>1. CASE long(j)
    <3>1. end(j) = <<"*", "/">>
      BY <2>1
    <3> HIDE DEF end
    <3> QED BY <3>1
  <2>2. CASE ~long(j)
    <3>1. end(j) = <<"\n">>
      BY <2>2
    <3> HIDE DEF end
    <3> QED BY <3>1
  <2> QED BY <2>1, <2>2
<1>3. ASSUME NEW G, NEW j \in Nat
      PROVE  JsonSkipFrom(G, s, j) = IF j \in D THEN G[N[j]] ELSE K[j]
  <2>1. JsonSkipFrom(G, s, j)
          = IF ~long(j) /\ ~short(j) THEN k(j)
            ELSE IF beyond(j) THEN Len(s) + 2
            ELSE IF At(s, e(j)) = NUL THEN e(j) ELSE G[e(j) + Len(end(j))]
    BY Zenon DEF JsonSkipFrom
  <2> HIDE DEF k, e, long, short, end, beyond
  <2> QED BY <2>1
<1> HIDE DEF k, e, long, short, end, beyond
<1>4. Onward(D, N, n)
  <2>1. ASSUME NEW j \in D PROVE j \in 0 .. n /\ N[j] \in Nat /\ N[j] > j
    <3>1. j \in Nat /\ At(s, e(j)) # NUL
      OBVIOUS
    <3>2. e(j) \in Nat /\ e(j) <= n
      BY <3>1, <1>1, AtEnd
    <3>3. e(j) >= k(j) + 4 /\ k(j) \in Nat /\ (j <= n + 1 => k(j) >= j)
      BY <3>1, <3>2, <1>1 DEF FirstOf
    <3>4. j > n + 1 => k(j) = n + 1
      <4>1. FirstOf(k(j), n, j, NoneOf(s, Blanks))
        BY <1>1, <3>1
      <4> QED BY <4>1, <1>n, <3>1 DEF FirstOf
    <3> DEFINE l == Len(end(j))
    <3>5. l \in Nat /\ l >= 1
      BY <1>2, <3>1
    <3>6. N[j] = e(j) + l
      BY <3>1
    <3> HIDE DEF l, D, N
    <3> QED BY <3>1, <3>2, <3>3, <3>4, <3>5, <3>6, <1>n
  <2> HIDE DEF D, N
  <2> QED BY <2>1, <1>n DEF Onward
<1>5. ASSUME NEW G PROVE JsonSkips(G, s) <=> Scans(G, D, N, K)
  <2> HIDE DEF D, N, K
  <2> QED BY <1>3 DEF JsonSkips, Scans
<1>6. JsonSkips(C, s)
  <2>1. \E F : Scans(F, D, N, K)
    <3> HIDE DEF D, N, K
    <3> QED BY <1>4, ScanExists
  <2>2. \E F : JsonSkips(F, s)
    BY <2>1, <1>5
  <2> QED BY <2>2
<1>7. Json!Skip(s, i) = C[i]
  BY Zenon DEF Json!Skip, JsonSkips, JsonSkipFrom, Json!Until, Json!NoneOf, Json!Blanks, Json!Reads,
               Json!Find, Json!At, Json!NUL, Until, NoneOf, Blanks, Reads, Find, At, NUL
<1> HIDE DEF C
<1>8. PICK m \in Nat : m >= i /\ m \notin D /\ C[i] = K[m]
  <2>1. Scans(C, D, N, K)
    BY <1>5, <1>6
  <2> HIDE DEF D, N, K
  <2> QED BY <2>1, <1>4, ScanStops
<1> DEFINE r == Json!Skip(s, i)
<1>9. r = k(m) \/ r = n + 2 \/ (r = e(m) /\ At(s, r) = NUL)
  BY <1>7, <1>8 DEF IsText
<1>10. FirstOf(k(m), n, m, NoneOf(s, Blanks)) /\ k(m) \in Nat
  BY <1>1
<1>11. m > n + 1 => k(m) = n + 1
  BY <1>10, <1>n, <1>8 DEF FirstOf
<1>12. /\ k(m) \in Nat /\ k(m) <= n + 1 /\ (m <= n + 1 => k(m) >= m)
       /\ e(m) \in Nat /\ e(m) <= n + 1 /\ (k(m) + 4 <= n + 1 => e(m) >= k(m) + 4)
       /\ e(m) <= n => e(m) >= k(m) + 4
  BY <1>1 DEF FirstOf
<1> HIDE DEF r, D, N, K
<1>13. r = n + 2 \/ Skipped(r, n, i)
  BY <1>8, <1>9, <1>11, <1>12, <1>n DEF Skipped
<1>14. r <= n => At(s, r) \notin Blanks
  <2>1. NUL \notin Blanks
    BY Zenon DEF NUL, Blanks
  <2>2. CASE r = k(m)
    <3>1. k(m) <= n => k(m) \in NoneOf(s, Blanks)
      BY <1>10 DEF FirstOf
    <3>2. k(m) \in NoneOf(s, Blanks) => At(s, k(m)) \notin Blanks
      BY DEF NoneOf, At
    <3> QED BY <2>2, <3>1, <3>2
  <2> QED BY <1>9, <1>n, <2>1, <2>2
<1> QED BY <1>13, <1>14 DEF r

(* A token that is one ends behind the place it was looked for at, and not *)
(* behind NUL.                                                             *)
JsonGoesOn(t, n, i) ==
  t.next \in Nat /\ (t.tag \notin Json!Nothing => t.next > i /\ t.next <= n + 1)

(* The loop in Quoted.                                                     *)
QuotedFrom(scan, s, b, j) ==
  CASE At(s, j) = NUL -> NoToken(s)
    [] At(s, j) = s[b] -> [Token(s, s[b], b + 1, j) EXCEPT !.next = j + 1]
    [] At(s, j) = "\n" -> Token(s, "INVALID", b, j)
    [] At(s, j) = "\\" -> IF At(s, j + 1) = NUL THEN Outside(s)
                          ELSE IF At(s, j + 1) \in {"t", "\"", "\\", "/"} THEN scan[j + 2]
                          ELSE Token(s, "INVALID", b, j)
    [] OTHER -> scan[j + 1]
QuotedScans(scan, s, b) == scan = [j \in Nat |-> QuotedFrom(scan, s, b, j)]

(* A quoted text ends behind its quote.                                    *)
LEMMA QuotedIs ==
  ASSUME NEW s, NEW n, IsText(s, n), NEW b \in Nat, s[b] \in Quotes
  PROVE  JsonGoesOn(Json!Quoted(s, b), n, b)
<1> DEFINE nul(j) == At(s, j) = NUL
           quote(j) == At(s, j) = s[b]
           line(j) == At(s, j) = "\n"
           back(j) == At(s, j) = "\\"
           last(j) == At(s, j + 1) = NUL
           hidden(j) == At(s, j + 1) \in {"t", "\"", "\\", "/"}
           closed(j) == [Token(s, s[b], b + 1, j) EXCEPT !.next = j + 1]
           bad(j) == Token(s, "INVALID", b, j)
           D == {j \in Nat : ~nul(j) /\ ~quote(j) /\ ~line(j) /\ (back(j) => ~last(j) /\ hidden(j))}
           N == [j \in Nat |-> IF back(j) THEN j + 2 ELSE j + 1]
           K == [j \in Nat |-> IF nul(j) THEN NoToken(s) ELSE IF quote(j) THEN closed(j)
                               ELSE IF ~line(j) /\ last(j) THEN Outside(s) ELSE bad(j)]
           C == CHOOSE scan : QuotedScans(scan, s, b)
<1>n. n \in Nat /\ n = Len(s)
  BY DEF IsText
<1>1. ASSUME NEW j \in Nat
      PROVE  ~nul(j) => j <= n
  BY AtEnd
<1>2. ASSUME NEW G, NEW j \in Nat
      PROVE  QuotedFrom(G, s, b, j) = IF j \in D THEN G[N[j]] ELSE K[j]
  <2>1. QuotedFrom(G, s, b, j) =
          CASE nul(j) -> NoToken(s)
            [] quote(j) -> closed(j)
            [] line(j) -> bad(j)
            [] back(j) -> IF last(j) THEN Outside(s) ELSE IF hidden(j) THEN G[j + 2] ELSE bad(j)
            [] OTHER -> G[j + 1]
    BY Zenon DEF QuotedFrom
  <2>2. /\ nul(j) => ~quote(j) /\ ~line(j) /\ ~back(j)
        /\ quote(j) => ~line(j) /\ ~back(j)
        /\ line(j) => ~back(j)
    <3>1. /\ NUL \notin Quotes /\ "\n" \notin Quotes /\ "\\" \notin Quotes
          /\ NUL # "\n" /\ NUL # "\\" /\ "\n" # "\\"
      BY Zenon DEF Quotes, NUL
    <3> QED BY <3>1, Zenon
  <2> HIDE DEF nul, quote, line, back, last, hidden, closed, bad
  <2>3. CASE j \in D
    BY <2>1, <2>2, <2>3
  <2>4. CASE j \notin D
    BY <2>1, <2>2, <2>4
  <2> QED BY <2>3, <2>4
<1> HIDE DEF quote, line, back, last, hidden
<1>3. Onward(D, N, n)
  <2>1. ASSUME NEW j \in D PROVE j \in 0 .. n /\ N[j] \in Nat /\ N[j] > j
    BY <1>1, <1>n
  <2> HIDE DEF D, N
  <2> QED BY <2>1, <1>n DEF Onward
<1> HIDE DEF D, N
<1>4. ASSUME NEW G PROVE QuotedScans(G, s, b) <=> Scans(G, D, N, K)
  <2> HIDE DEF K
  <2> QED BY <1>2 DEF QuotedScans, Scans
<1>5. QuotedScans(C, s, b)
  <2>1. \E F : Scans(F, D, N, K)
    <3> HIDE DEF K
    <3> QED BY <1>3, ScanExists
  <2>2. \E F : QuotedScans(F, s, b)
    BY <2>1, <1>4
  <2> QED BY <2>2
<1>6. Json!Quoted(s, b) = C[b + 1]
  BY Zenon DEF Json!Quoted, QuotedScans, QuotedFrom, Json!At, Json!NUL, Json!NoToken, Json!Token,
               Json!Part, Json!Outside, At, NUL, NoToken, Token, Part, Outside
<1> HIDE DEF C
<1> DEFINE i == b + 1
<1>7. i \in Nat
  OBVIOUS
<1> HIDE DEF i
<1>8. PICK m \in Nat : m >= i /\ m \notin D /\ C[i] = K[m]
  <2>1. Scans(C, D, N, K)
    BY <1>4, <1>5
  <2> HIDE DEF K
  <2> QED BY <2>1, <1>3, <1>7, ScanStops
<1> DEFINE t == Json!Quoted(s, b)
<1>9. t = NoToken(s) \/ t = Outside(s) \/ t = bad(m) \/ (t = closed(m) /\ ~nul(m))
  <2> HIDE DEF nul
  <2> QED BY <1>6, <1>8 DEF i
<1>10. /\ NoToken(s).tag = "EOF" /\ NoToken(s).next = n + 1
       /\ Outside(s).tag = "OUTSIDE" /\ Outside(s).next = n + 2
       /\ closed(m).next = m + 1
       /\ bad(m).tag = "INVALID" /\ bad(m).next = m
  BY <1>n DEF NoToken, Outside, Token
<1>12. ~nul(m) => m <= n
  BY <1>1, <1>8
<1> HIDE DEF t, closed, bad, nul
<1>11. JsonGoesOn(t, n, b)
  BY <1>8, <1>9, <1>10, <1>12, <1>n DEF JsonGoesOn, Json!Nothing, i
<1> QED BY <1>11 DEF t

(* A number or a constant has one symbol at least: TOKENJSON stops there   *)
(* at what is no blank, bracket or quote.                                  *)
LEMMA PlainIs ==
  ASSUME NEW s, NEW n, IsText(s, n), NEW b \in Nat, b >= 1, b <= n,
         s[b] \notin Blanks \cup Json!Brackets
  PROVE  JsonGoesOn(Json!Plain(s, b), n, b)
<1> DEFINE P == AnyOf(s, Blanks \cup Json!Brackets)
           e == Until(s, b, P)
           word == Part(s, b, e)
           invalid == \/ s[b] = "0" /\ e > b + 1 /\ s[b + 1] # "."
                      \/ \E j \in DOMAIN word : word[j] \in {"\\", "(", ")"}
           const == s[b] \in Json!Constants \cup Json!Misspelt
           tag == IF ~const THEN "TEXT"
                  ELSE IF word = <<s[b]>> /\ s[b] \in Json!Constants THEN "CONST" ELSE "INVALID"
           t == Json!Plain(s, b)
<1>n. n \in Nat /\ n = Len(s)
  BY DEF IsText
<1>1. t = CASE invalid -> Token(s, "INVALID", b, e)
            [] ~invalid /\ At(s, e) = NUL -> NoToken(s)
            [] ~invalid /\ At(s, e) # NUL -> Token(s, tag, b, e)
  BY Zenon DEF Json!Plain, Json!Until, Json!AnyOf, Json!Blanks, Json!Part, Json!At, Json!NUL,
               Json!Token, Json!NoToken, Until, AnyOf, Blanks, Part, At, NUL, Token, NoToken
<1>2. FirstOf(e, n, b, P)
  BY UntilIs
<1>3. e \in Nat /\ (e <= n => e \in P /\ e >= b)
  <2> HIDE DEF e, P
  <2> QED BY <1>2 DEF FirstOf
<1>4. b \notin P
  <2> HIDE DEF e
  <2> QED BY DEF AnyOf
<1>5. At(s, e) # NUL => e <= n
  <2> HIDE DEF e
  <2> QED BY <1>3, AtEnd
<1> HIDE DEF invalid, tag, t, P, e
<1>6. t = Token(s, "INVALID", b, e) \/ t = NoToken(s) \/ (t = Token(s, tag, b, e) /\ e <= n)
  BY <1>1, <1>5
<1>7. e <= n => e > b
  BY <1>3, <1>4
<1>8. JsonGoesOn(t, n, b)
  BY <1>3, <1>6, <1>7, <1>n DEF JsonGoesOn, Json!Nothing, Token, NoToken
<1> QED BY <1>8 DEF t

(* The tokens of the JSON scanner.                                         *)
LEMMA JsonTokenIs ==
  ASSUME NEW s, NEW n, IsText(s, n), NEW i \in Nat
  PROVE  JsonGoesOn(Json!JsonToken(s, i), n, i)
<1> DEFINE b == Json!Skip(s, i)
           t == Json!JsonToken(s, i)
           nul == At(s, b) = NUL
           bracket == At(s, b) \in Json!Brackets
           quote == At(s, b) \in Quotes
<1>n. n \in Nat /\ n = Len(s)
  BY DEF IsText
<1>0. CASE b > n + 1
  <2>1. t = Outside(s)
    BY <1>0, <1>n, Zenon DEF Json!JsonToken, Json!Outside, Json!Token, Json!Part, Outside, Token, Part
  <2>2. Outside(s).next \in Nat /\ Outside(s).tag \in Json!Nothing
    BY <1>n DEF Outside, Token, Json!Nothing
  <2> HIDE DEF t
  <2> QED BY <2>1, <2>2 DEF JsonGoesOn, t
<1> SUFFICES ASSUME ~(b > n + 1) PROVE JsonGoesOn(t, n, i)
  BY <1>0
<1>1. Skipped(b, n, i) /\ (b <= n => At(s, b) \notin Blanks)
  <2>1. /\ b = n + 2 \/ Skipped(b, n, i)
        /\ b <= n => At(s, b) \notin Blanks
    BY JsonSkipIs
  <2> HIDE DEF b
  <2> QED BY <2>1, <1>n
<1>2. t = CASE nul -> NoToken(s)
            [] bracket -> Token(s, At(s, b), b, b + 1)
            [] quote -> Json!Quoted(s, b)
            [] OTHER -> Json!Plain(s, b)
  <2>1. ~(b > Len(s) + 1)
    BY <1>n
  <2> QED BY <2>1, Zenon DEF Json!JsonToken, Json!TokenAt, Json!At, Json!NUL, Json!NoToken, Json!Token, Json!Part,
               Json!Quotes, At, NUL, NoToken, Token, Part, Quotes
<1> HIDE DEF b
<1>3. b \in Nat /\ (b <= n => b >= i)
  BY <1>1, <1>n DEF Skipped
<1>4. ~nul => b >= 1 /\ b <= n /\ At(s, b) = s[b]
  BY <1>3, AtEnd
<1>5. ~nul /\ quote => JsonGoesOn(Json!Quoted(s, b), n, b)
  BY <1>3, <1>4, QuotedIs
<1>6. ~nul /\ ~bracket => JsonGoesOn(Json!Plain(s, b), n, b)
  <2>1. ~nul /\ ~bracket => s[b] \notin Blanks \cup Json!Brackets
    BY <1>1, <1>4
  <2> QED BY <1>3, <1>4, <2>1, PlainIs
<1>7. ~nul => JsonGoesOn(Token(s, At(s, b), b, b + 1), n, b)
  BY <1>3, <1>4, <1>n DEF JsonGoesOn, Json!Nothing, Token
<1>8. JsonGoesOn(NoToken(s), n, i)
  BY <1>n DEF JsonGoesOn, Json!Nothing, NoToken, Token
<1>11. nul => ~bracket /\ ~quote
  <2>1. NUL \notin Json!Brackets /\ NUL \notin Quotes
    BY Zenon DEF NUL, Json!Brackets, Quotes
  <2> QED BY <2>1
<1> HIDE DEF t, nul, bracket, quote
<1>9. t = NoToken(s) \/ (b <= n /\ JsonGoesOn(t, n, b))
  <2>1. CASE nul
    <3>1. ~bracket /\ ~quote
      BY <2>1, <1>11
    <3>2. t = NoToken(s)
      BY <1>2, <2>1, <3>1
    <3> QED BY <3>2
  <2>2. CASE ~nul
    <3>1. \/ t = Token(s, At(s, b), b, b + 1) /\ bracket
          \/ t = Json!Quoted(s, b) /\ quote
          \/ t = Json!Plain(s, b) /\ ~bracket
      BY <1>2, <2>2
    <3> QED BY <2>2, <3>1, <1>4, <1>5, <1>6, <1>7
  <2> QED BY <2>1, <2>2
<1>10. JsonGoesOn(t, n, i)
  BY <1>3, <1>8, <1>9, <1>n DEF JsonGoesOn
<1> QED BY <1>10

(* A token that one of the functions has a use for takes it forward.       *)
LEMMA ReadingAdvances ==
  ASSUME jat \in Nat, text \in Seq(STRING), NEW T, Json!Reading(T), T \cap Json!Nothing = {}
  PROVE  jat' \in Nat /\ Forward(jat, jat')
<1> DEFINE t == Json!JsonToken(text, jat)
           n == Len(text)
<1>1. JsonGoesOn(t, n, jat)
  BY TextIs, JsonTokenIs
<1>2. jat' = t.next /\ t.tag \in T
  BY DEF Json!Reading, Json!tok
<1> HIDE DEF t
<1> QED BY <1>1, <1>2 DEF JsonGoesOn, Forward

(* Each step of TravelJsonBuffer takes it forward, or it returns.          *)
LEMMA JsonAdvances ==
  ASSUME jat \in Nat, text \in Seq(STRING), Json!Next
  PROVE  jat' \in Nat /\ (Forward(jat, jat') \/ step' = "done") /\ text' = text
<1> DEFINE t == Json!JsonToken(text, jat)
<1>1. t.next \in Nat
  <2>1. JsonGoesOn(t, Len(text), jat)
    BY TextIs, JsonTokenIs
  <2> HIDE DEF t
  <2> QED BY <2>1 DEF JsonGoesOn
<1>2. CASE Json!NoMore \/ Json!Wrong
  <2>1. jat' = t.next /\ step' = "done" /\ text' = text
    BY <1>2 DEF Json!NoMore, Json!Wrong, Json!Reading, Json!Return, Json!tok
  <2> HIDE DEF t
  <2> QED BY <1>1, <2>1
<1>3. ASSUME NEW T, Json!Reading(T), T \cap Json!Nothing = {}
      PROVE  jat' \in Nat /\ Forward(jat, jat') /\ text' = text
  BY <1>3, ReadingAdvances DEF Json!Reading
<1>4. CASE Json!Name
  <2> DEFINE T == Json!Quotes \cup {"TEXT"}
  <2>1. Json!Reading(T)
    BY <1>4 DEF Json!Name
  <2>2. T \cap Json!Nothing = {}
    BY Zenon DEF Json!Quotes, Json!Nothing
  <2> HIDE DEF T
  <2> QED BY <1>3, <2>1, <2>2
<1>5. CASE Json!Colon
  <2>2. {":"} \cap Json!Nothing = {}
    BY DEF Json!Nothing
  <2>1. Json!Reading({":"})
    BY <1>5 DEF Json!Colon
  <2> QED BY <1>3, <2>1, <2>2
<1>6. CASE Json!Scalar
  <2>1. Json!Reading(Json!Scalars)
    BY <1>6 DEF Json!Scalar
  <2>2. Json!Scalars \cap Json!Nothing = {}
    BY Zenon DEF Json!Scalars, Json!Nothing
  <2> QED BY <1>3, <2>1, <2>2
<1>7. CASE Json!Begin
  <2>2. {"{", "["} \cap Json!Nothing = {}
    BY DEF Json!Nothing
  <2>1. Json!Reading({"{", "["})
    BY <1>7 DEF Json!Begin
  <2> QED BY <1>3, <2>1, <2>2
<1>8. CASE Json!End
  <2> DEFINE T == {IF Json!kind = "object" THEN "}" ELSE "]"}
  <2>1. Json!Reading(T)
    BY <1>8 DEF Json!End
  <2>2. T \cap Json!Nothing = {}
    BY DEF Json!Nothing
  <2> HIDE DEF T
  <2> QED BY <1>3, <2>1, <2>2
<1>9. CASE Json!NoValue
  <2>2. {"}", "]"} \cap Json!Nothing = {}
    BY DEF Json!Nothing
  <2>1. Json!Reading({"}", "]"})
    BY <1>9 DEF Json!NoValue
  <2> QED BY <1>3, <2>1, <2>2
<1>10. CASE Json!Comma
  <2>2. {","} \cap Json!Nothing = {}
    BY DEF Json!Nothing
  <2>1. Json!Reading({","})
    BY <1>10 DEF Json!Comma
  <2> QED BY <1>3, <2>1, <2>2
<1> QED BY <1>2, <1>4, <1>5, <1>6, <1>7, <1>8, <1>9, <1>10 DEF Json!Next

----------------------------------------------------------------------------
(* Both scanners are somewhere in a text or behind it.                     *)
Places == at \in Nat /\ jat \in Nat /\ text \in Seq(STRING)

Advances ==
  /\ stage = "json" => Forward(jat, jat') \/ step' = "done"
  /\ stage = "xml" => Forward(at, at') \/ phase' = "done"

(* Reading a configuration leaves the text as it is.                       *)
LEMMA StepAdvances ==
  ASSUME Places, Next
  PROVE  Places' /\ (Advances \/ UNCHANGED vars)
<1>1. CASE ParseJson
  <2>1. stage = "json" /\ at' = at
    BY <1>1 DEF ParseJson, xml
  <2>2. CASE Json!Next
    <3>1. jat' \in Nat /\ (Forward(jat, jat') \/ step' = "done") /\ text' = text
      BY <2>2, JsonAdvances DEF Places
    <3> QED BY <2>1, <3>1 DEF Places, Advances
  <2>3. CASE step = "done" /\ UNCHANGED <<text, json>>
    <3>1. step' = "done" /\ jat' = jat /\ text' = text
      BY <2>3 DEF json
    <3> QED BY <2>1, <3>1 DEF Places, Advances
  <2> QED BY <1>1, <2>2, <2>3 DEF ParseJson
<1>2. CASE ParseXml
  <2>1. stage = "xml" /\ jat' = jat
    BY <1>2 DEF ParseXml, json
  <2>2. CASE XmlNext
    <3>1. at' \in Nat /\ (Forward(at, at') \/ phase' = "done") /\ text' = text
      BY <2>2, XmlAdvances DEF Places
    <3> QED BY <2>1, <3>1 DEF Places, Advances
  <2>3. CASE phase = "done" /\ UNCHANGED <<text, xml>>
    <3>1. phase' = "done" /\ at' = at /\ text' = text
      BY <2>3 DEF xml
    <3> QED BY <2>1, <3>1 DEF Places, Advances
  <2> QED BY <1>2, <2>2, <2>3 DEF ParseXml
<1>3. CASE ReadTree
  <2>1. stage = "read" /\ at' = at /\ jat' = jat /\ text' = text
    BY <1>3 DEF ReadTree, json, xml
  <2> QED BY <2>1 DEF Places, Advances
<1> QED BY <1>1, <1>2, <1>3 DEF Next

(* Whatever the text is, and however it is broken: none of the loops of    *)
(* TravelJsonBuffer and TravelXmlBuffer, nested as they are, runs for      *)
(* ever inside the text; with each step they are further on in it, at its  *)
(* end at most, or the step is their last, with which they return or have  *)
(* stepped over the NUL of a text that ends where the code does not look.  *)
THEOREM ScannersAdvance == Spec => EveryStepAdvances
<1>1. Init => Places
  BY DEF Init, Json!Init, XmlInit, Places
<1>2. Places /\ [Next]_vars => Places'
  <2>1. CASE UNCHANGED vars
    BY <2>1 DEF vars, json, xml, Places
  <2> QED BY <2>1, StepAdvances
<1>3. Places /\ [Next]_vars => [Advances]_vars
  BY StepAdvances
<1>4. Spec => [][Advances]_vars
  BY <1>1, <1>2, <1>3, PTL DEF Spec
<1>5. [][Advances]_vars <=> EveryStepAdvances
  BY DEF Advances, EveryStepAdvances
<1> QED BY <1>4, <1>5
=============================================================================
