---------------------------- MODULE AhoCorasick ----------------------------
(***************************************************************************)
(* strings/AhoCorasick.cpp.  A BorNode is named by the letters on its way  *)
(* from the root, which is <<>>; its children are the nodes one letter     *)
(* longer.  fail and matches are its fields fail_node and m_matches.       *)
(***************************************************************************)
EXTENDS Integers, FiniteSets, Sequences, SequencesExt

Root == <<>>

\* addWord for every word: the nodes it makes, and the words that end in one.
Nodes(dict) ==
  {Root} \cup UNION {{SubSeq(dict[w], 1, n) : n \in 0..Len(dict[w])} : w \in DOMAIN dict}

Ending(dict, node) == SelectSeq(dict, LAMBDA w : w = node)

\* pushChildrenToQueue, breadth first: the letters of a level in their order.
LessThan(a, b) ==
  \/ Len(a) < Len(b)
  \/ /\ Len(a) = Len(b)
     /\ \E i \in DOMAIN a : a[i] < b[i] /\ \A j \in 1..(i - 1) : a[j] = b[j]

RECURSIVE BreadthFirst(_)
BreadthFirst(S) ==
  IF S = {} THEN <<>>
  ELSE LET first == CHOOSE x \in S : \A y \in S \ {x} : LessThan(x, y)
       IN  <<first>> \o BreadthFirst(S \ {first})

\* getFallNode: fail is known for the nodes of the levels above.
RECURSIVE getFallNode(_, _, _, _)
getFallNode(nodes, fail, node, c) ==
  CASE Append(fail[node], c) \in nodes -> Append(fail[node], c)
    [] node # fail[node]               -> getFallNode(nodes, fail, fail[node], c)
    [] OTHER                           -> node

Link_NoMatches(nodes, a, node) ==
  LET fall == IF Len(node) = 1 THEN Root
              ELSE getFallNode(nodes, a.fail, Front(node), Last(node))
  IN  [a EXCEPT !.fail[node] = fall]

\* One node of the constructor's second loop; the children of the root get
\* the root, and nothing of its matches.
Link(nodes, a, node) ==
  LET fall == IF Len(node) = 1 THEN Root
              ELSE getFallNode(nodes, a.fail, Front(node), Last(node))
  IN  [fail    |-> [a.fail EXCEPT ![node] = fall],
       matches |-> [a.matches EXCEPT ![node] = IF Len(node) = 1 THEN @ ELSE @ \o a.matches[fall]]]

Automaton(dict) ==
  LET nodes == Nodes(dict)
      start == [fail |-> [n \in nodes |-> Root], matches |-> [n \in nodes |-> Ending(dict, n)]]
  IN  [nodes |-> nodes,
       links |-> FoldLeft(LAMBDA a, n : Link(nodes, a, n), start,
                          BreadthFirst(nodes \ {Root}))]

\* findMatches from letter i on with the automaton in node cur: the words
\* found, each with the place it begins at.
RECURSIVE MatchesFrom(_, _, _, _)
MatchesFrom(a, text, i, cur) ==
  IF i > Len(text) THEN <<>>
  ELSE LET child == Append(cur, text[i])
           ms    == a.links.matches[child]
       IN  CASE child \in a.nodes ->
                  [k \in DOMAIN ms |-> <<ms[k], i - Len(ms[k]) + 1>>]
                     \o MatchesFrom(a, text, i + 1, child)
             [] cur = Root -> MatchesFrom(a, text, i + 1, Root)
             [] OTHER -> MatchesFrom(a, text, i, a.links.fail[cur])

findMatches(a, text) == MatchesFrom(a, text, 1, Root)
=============================================================================
