-------------------------------- MODULE MCSpatial ------------------------------
(***************************************************************************)
(* The two spatial structures of the repository, the H3 index and the      *)
(* quadtree.  They share nothing: a behaviour uses one of them.            *)
(***************************************************************************)
EXTENDS Search, QTree, TLC

(* Cells in a row, far enough apart for a search to stop short of one.     *)
Row == 1 .. 4

Steps(b, c) == IF b < c THEN c - b ELSE b - c

(* Boundary [0, 16] x [0, 16]: halved to 4, 2 and 1, once per insertion.   *)
Square == Rectangle(8, 8, 8, 8)

(* On the middle lines, on an edge, beside a line, and outside.            *)
Grid == {[x |-> x, y |-> y] : x \in {0, 8, 9}, y \in {4, 8}}
          \cup {[x |-> 17, y |-> 8]}

Windows == {Rectangle(x, y, hw, 4) : x \in {0, 8, 12}, y \in {4, 8}, hw \in {0, 4}}

Symmetry == Permutations(Drivers)

BothInit == SearchInit /\ TreeInit

BothNext ==
  \/ given = <<>> /\ SearchNext /\ UNCHANGED treeVars
  \/ SearchInit /\ TreeNext /\ UNCHANGED <<vars, search>>

BothSpec == BothInit /\ [][BothNext]_<<vars, search, treeVars>>
=============================================================================
