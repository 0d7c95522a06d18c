------------------------------ MODULE MapPaths ------------------------------
(***************************************************************************)
(* domain/map-utils: how an agent walks.  findPath is a breadth-first      *)
(* search over the grid; a step takes one node off its queue.              *)
(***************************************************************************)
EXTENDS Null, Integers, Sequences, SequencesExt

CONSTANTS Rows, Cols      \* of the map

ASSUME MapAssumption == {Rows, Cols} \subseteq Nat \ {0}

VARIABLES
  walls,                  \* the nodes that are not passable
  search                  \* the variables of a call of findPath

pathVars == <<walls, search>>

Nodes == (1 .. Rows) \X (1 .. Cols)
isPassable(n) == n \notin walls

\* north, south, east, west
CARDINAL_DIRECTIONS == << <<-1, 0>>, <<1, 0>>, <<0, 1>>, <<0, -1>> >>

isNodeWithinBounds(n) == n \in Nodes
getAdjacentNodeId(n, direction) == <<n[1] + direction[1], n[2] + direction[2]>>

findPath(from, to) ==
  [from |-> from, to |-> to, queue |-> IF from = to THEN <<>> ELSE <<from>>,
   visited |-> {from}, previous |-> [n \in Nodes |-> None], found |-> from = to]

\* A node is visited when it is queued, not when it is taken off.
visit(s, current, adjacent) ==
  IF s.found \/ adjacent \in s.visited \/ ~isNodeWithinBounds(adjacent) \/ ~isPassable(adjacent)
  THEN s
  ELSE [s EXCEPT !.visited = @ \cup {adjacent},
                 !.previous[adjacent] = current,
                 !.found = adjacent = s.to,
                 !.queue = IF adjacent = s.to THEN <<>> ELSE Append(@, adjacent)]

visitAround(s, current) ==
  LET next(t, i) == visit(t, current, getAdjacentNodeId(current, CARDINAL_DIRECTIONS[i]))
  IN  next(next(next(next(s, 1), 2), 3), 4)

\* Slip: the search takes the node it found last.
expandedLast(s) == visitAround([s EXCEPT !.queue = Front(@)], Last(s.queue))

expanded(s) == visitAround([s EXCEPT !.queue = Tail(@)], Head(s.queue))

\* Back from the goal, then reversed.
reconstructPath(s) ==
  LET back[k \in Nat] == IF k = 0 THEN s.to ELSE s.previous[back[k - 1]]
      length == CHOOSE k \in 0 .. Rows * Cols :
                  back[k] = s.from /\ \A j \in 0 .. k - 1 : back[j] # s.from
  IN  [i \in 1 .. length |-> back[length - i]]

InitPaths ==
  /\ walls \in SUBSET Nodes
  /\ \E from \in Nodes \ walls, to \in Nodes : search = findPath(from, to)

PathsNext ==
  /\ search.queue # <<>>
  /\ search' = expanded(search)
  /\ UNCHANGED walls

PathsSpec == InitPaths /\ [][PathsNext]_pathVars

(***************************************************************************)
(* Reference: what a walk of n steps can reach.                            *)
(***************************************************************************)
Beside(m, n) == (m[1] - n[1]) * (m[1] - n[1]) + (m[2] - n[2]) * (m[2] - n[2]) = 1

Near(n, blocked) == {n} \cup {m \in Nodes \ blocked : Beside(m, n)}

Reached(n, from, blocked) ==
  LET reached[k \in Nat] ==
        IF k = 0 THEN {from} ELSE UNION {Near(m, blocked) : m \in reached[k - 1]}
  IN  reached[n]

\* The path found is a walk over passable nodes to the goal, and none is
\* shorter; when none is found there is none.
PathIsShortest ==
  search.queue = <<>> =>
    IF ~search.found THEN search.to \notin Reached(Rows * Cols, search.from, walls)
    ELSE LET path == <<search.from>> \o reconstructPath(search)
         IN  /\ path[Len(path)] = search.to
             /\ \A i \in 2 .. Len(path) : path[i] \in Nodes \ walls /\ Beside(path[i - 1], path[i])
             /\ Len(path) > 1 =>
                  search.to \notin Reached(Len(path) - 2, search.from, walls)
=============================================================================
