---------------------------------- MODULE QTree --------------------------------
(***************************************************************************)
(* The quadtree of qtree/qtree.go as the demo server of main.go uses it:   *)
(* points are inserted one by one and rectangles are queried.              *)
(*                                                                         *)
(* A node is named by its path from the root: the children taken, 1 to 4   *)
(* for NorthEast, NorthWest, SouthEast, SouthWest.  It is divided when its *)
(* children are in the tree.  The *Point of the n-th Insert is n.          *)
(*                                                                         *)
(* Each call of the recursive Insert on a node is one step.  Coordinates   *)
(* are integers: the half widths stay whole numbers as deep as MaxPoints   *)
(* insertions can divide, as the demo's stay exact in a float64.           *)
(***************************************************************************)
EXTENDS Integers, Sequences, FiniteSets

Sets == INSTANCE FiniteSetsExt

CONSTANTS
  Boundary,   \* the root's rectangle
  Capacity,   \* points a node holds, 4 in main.go
  Points,     \* the points that are inserted, in the boundary or not
  Ranges,     \* the rectangles that are asked for
  MaxPoints   \* how many points are inserted

VARIABLES
  tree,       \* path -> node
  given,      \* the points of the Inserts so far, in their order
  call        \* whether an Insert is under way, and the node it is at

Point == [x: Int, y: Int]
Rect  == [x: Int, y: Int, hw: Int, hh: Int]

(* A side halved k times.                                                  *)
Halved(side, k) == side \div 2 ^ k

ASSUME TreeAssumption ==
  /\ Capacity \in Nat \ {0}
  /\ MaxPoints \in Nat
  /\ Points \subseteq Point
  /\ Ranges \subseteq Rect
  /\ Boundary \in Rect
  /\ \A side \in {Boundary.hw, Boundary.hh} :
       /\ Halved(side, 0) = side
       /\ \A k \in 1 .. MaxPoints - 1 :
            /\ Halved(side, k) \in Int
            /\ Halved(side, k - 1) = 2 * Halved(side, k)

(* The closed rectangle of a centre and two half widths.                   *)
Contains(r, p) ==
  /\ p.x >= r.x - r.hw /\ p.x <= r.x + r.hw
  /\ p.y >= r.y - r.hh /\ p.y <= r.y + r.hh

Intersects(r, other) ==
  /\ other.x - other.hw <= r.x + r.hw /\ other.x + other.hw >= r.x - r.hw
  /\ other.y - other.hh <= r.y + r.hh /\ other.y + other.hh >= r.y - r.hh

NewQtree(boundary) == [boundary |-> boundary, points |-> {}]

Rectangle(x, y, hw, hh) == [x |-> x, y |-> y, hw |-> hw, hh |-> hh]

-----------------------------------------------------------------------------
Quadrants == 1 .. 4

Child(q, c) == Append(q, c)

Above(q, k) == SubSeq(q, 1, k)

(* North east, north west, south east, south west; y grows to the south.   *)
Quadrant(b, c) ==
  LET hw == b.hw \div 2
      hh == b.hh \div 2
  IN  Rectangle(IF c \in {1, 3} THEN b.x + hw ELSE b.x - hw,
                IF c \in {1, 2} THEN b.y - hh ELSE b.y + hh, hw, hh)

(* The tree with the node at q divided; a divided one is left as it is.    *)
Subdivide_Again(q) ==
  [n \in DOMAIN tree \cup {Child(q, c) : c \in Quadrants} |->
     IF \E c \in Quadrants : n = Child(q, c)
     THEN NewQtree(Quadrant(tree[q].boundary, n[Len(n)])) ELSE tree[n]]

Subdivide(q) ==
  [n \in DOMAIN tree \cup {Child(q, c) : c \in Quadrants} |->
     IF n \in DOMAIN tree
     THEN tree[n] ELSE NewQtree(Quadrant(tree[q].boundary, n[Len(n)]))]

Divided(q) == Child(q, 1) \in DOMAIN tree

-----------------------------------------------------------------------------
(* Insert.  The call tries the children of a full node one by one, from    *)
(* the first to the one that takes the point.                              *)
Idle == [on |-> FALSE, at |-> <<>>]

Try(q) == [on |-> TRUE, at |-> q]

(* After false: the next child of the deepest node above with one left, or *)
(* false to the caller of Insert.                                          *)
Resume(q) ==
  LET left == {k \in 1 .. Len(q) : q[k] < 4} IN
  IF left = {} THEN Idle
  ELSE LET k == Sets!Max(left) IN Try(Child(Above(q, k - 1), q[k] + 1))

Arriving == given[Len(given)]

Here == tree[call.at]

InsertPoint(p) ==
  /\ ~call.on
  /\ Len(given) < MaxPoints
  /\ given' = Append(given, p)
  /\ call' = Try(<<>>)
  /\ UNCHANGED tree

OutsideBoundary ==
  /\ call.on
  /\ ~Contains(Here.boundary, Arriving)
  /\ call' = Resume(call.at)
  /\ UNCHANGED <<tree, given>>

Keep ==
  /\ call.on
  /\ Contains(Here.boundary, Arriving)
  /\ Cardinality(Here.points) < Capacity
  /\ tree' = [tree EXCEPT ![call.at].points = @ \cup {Len(given)}]
  /\ call' = Idle
  /\ UNCHANGED given

PassOn ==
  /\ call.on
  /\ Contains(Here.boundary, Arriving)
  /\ Cardinality(Here.points) >= Capacity
  /\ tree' = Subdivide(call.at)
  /\ call' = Try(Child(call.at, 1))
  /\ UNCHANGED given

(* Query goes down from the root as long as the boundaries meet the range. *)
Visited(range) ==
  {q \in DOMAIN tree :
     \A k \in 0 .. Len(q) : Intersects(tree[Above(q, k)].boundary, range)}

Found(range) ==
  {hit \in Visited(range) \X (1 .. Len(given)) :
     hit[2] \in tree[hit[1]].points /\ Contains(range, given[hit[2]])}

-----------------------------------------------------------------------------
TreeInit ==
  /\ tree = [q \in {<<>>} |-> NewQtree(Boundary)]
  /\ given = <<>>
  /\ call = Idle

TreeNext ==
  \/ \E p \in Points : InsertPoint(p)
  \/ OutsideBoundary \/ Keep \/ PassOn

treeVars == <<tree, given, call>>

TreeSpec == TreeInit /\ [][TreeNext]_treeVars

-----------------------------------------------------------------------------
Nodes == [boundary: Rect, points: SUBSET (1 .. Len(given))]

TreeTypeOK ==
  /\ given \in Seq(Points)
  /\ Len(given) <= MaxPoints
  /\ DOMAIN tree \subseteq Seq(Quadrants)
  /\ tree \in [DOMAIN tree -> Nodes]
  /\ call \in [on: BOOLEAN, at: DOMAIN tree]

(* The Inserts that have returned.                                         *)
Returned == (1 .. Len(given)) \ (IF call.on THEN {Len(given)} ELSE {})

(* A query finds every point inserted within both the boundary and the     *)
(* range, and no other, each once: points on a line that two or four       *)
(* children share are neither lost nor found twice, however deep the tree. *)
QueryExact ==
  \A range \in Ranges :
    /\ {hit[2] : hit \in Found(range)} =
         {n \in Returned : Contains(range, given[n]) /\ Contains(Boundary, given[n])}
    /\ \A hit, other \in Found(range) : hit[2] = other[2] => hit = other
=============================================================================
