---------------------------- MODULE IntervalTree ----------------------------
(* The red-black tree of core/rb_tree.c and, built on it, the interval      *)
(* tree of core/interval_tree.c, in which core/memory.c finds the watches   *)
(* an access falls into and removes them while it iterates.                 *)
(*                                                                          *)
(* A tree is a record of the fields of its nodes; node 0 is NULL.           *)
EXTENDS Integers, Sequences, FiniteSets

CONSTANTS
  ItNodes,   \* nodes, 1 .. n
  ItRange,   \* the interval of each node, a pair
  ItAddrs    \* addresses that are accessed

VARIABLES
  ittree,    \* struct rb_tree with its nodes
  itlast     \* the last access: address, nodes in the tree before, nodes visited
itvars == <<ittree, itlast>>

ASSUME ItAssumption == ItNodes = 1 .. Cardinality(ItNodes) /\ \A n \in ItNodes : ItRange[n][1] <= ItRange[n][2]

Low(n) == ItRange[n][1]
High(n) == ItRange[n][2]
MaxOf(a, b) == IF a > b THEN a ELSE b

EmptyTree == LET none == [n \in ItNodes |-> 0]
             IN  [root |-> 0, parent |-> none, left |-> none, right |-> none, color |-> [n \in ItNodes |-> "red"],
                  max |-> none, size |-> none, height |-> none]

----------------------------------------------------------------------------
(* core/rb_tree.c                                                          *)

Color(t, n) == IF n = 0 THEN "black" ELSE t.color[n]
SetColor(t, n, c) == [t EXCEPT !.color[n] = c]
Grandparent(t, n) == t.parent[t.parent[n]]
Sibling(t, n) == IF n = t.left[t.parent[n]] THEN t.right[t.parent[n]] ELSE t.left[t.parent[n]]
Uncle(t, n) == Sibling(t, t.parent[n])

RECURSIVE MinNode(_, _), MaxNode(_, _)
MinNode(t, n) == IF n # 0 /\ t.left[n] # 0 THEN MinNode(t, t.left[n]) ELSE n
MaxNode(t, n) == IF n # 0 /\ t.right[n] # 0 THEN MaxNode(t, t.right[n]) ELSE n

(* rb_replace_node                                                         *)
Replace(t, old, new) ==
  LET p == t.parent[old]
      u == CASE p = 0 -> [t EXCEPT !.root = new]
             [] p # 0 /\ t.left[p] = old -> [t EXCEPT !.left[p] = new]
             [] OTHER -> [t EXCEPT !.right[p] = new]
  IN  IF new = 0 THEN u ELSE [u EXCEPT !.parent[new] = p]

(* rb_swap_node: a and b exchange places; where one is the parent of the   *)
(* other the pointers between them turn around.  Placed does one half:     *)
(* node x takes the place that y had in t, the other node now being y.     *)
Placed(u, t, x, y) ==
  LET turn(q) == IF q = x THEN y ELSE q
      p == turn(t.parent[y])
      l == turn(t.left[y])
      r == turn(t.right[y])
      v == [u EXCEPT !.parent[x] = p, !.left[x] = l, !.right[x] = r, !.color[x] = t.color[y]]
      w == CASE p = 0 -> [v EXCEPT !.root = x]
             [] p # 0 /\ v.left[p] = y -> [v EXCEPT !.left[p] = x]
             [] p # 0 /\ v.left[p] # y /\ v.right[p] = y -> [v EXCEPT !.right[p] = x]
             [] OTHER -> v
      z == IF l = 0 THEN w ELSE [w EXCEPT !.parent[l] = x]
  IN  IF r = 0 THEN z ELSE [z EXCEPT !.parent[r] = x]
Swap(t, a, b) == Placed(Placed(t, t, a, b), t, b, a)

(* interval_node_fix_counts                                                *)
FixCounts(t, n) ==
  LET of(f, k) == IF k = 0 THEN 0 ELSE f[k]
      l == t.left[n]
      r == t.right[n]
  IN  IF n = 0 THEN t
      ELSE [t EXCEPT !.size[n] = 1 + of(t.size, l) + of(t.size, r),
                     !.height[n] = 1 + MaxOf(of(t.height, l), of(t.height, r)),
                     !.max[n] = MaxOf(MaxOf(High(n), of(t.max, l)), of(t.max, r))]

(* interval_tree_augment_rotate and interval_tree_augment_propagate        *)
AugmentRotate(t, old, new) ==
  LET u == FixCounts(FixCounts(t, old), new) IN FixCounts(u, u.parent[new])
RECURSIVE AugmentPropagate(_, _)
AugmentPropagate(t, n) == IF n = 0 THEN t ELSE AugmentPropagate(FixCounts(t, n), t.parent[n])

RotateLeft(t, n) ==
  LET r == t.right[n]
      c == t.left[r]
      u == [Replace(t, n, r) EXCEPT !.right[n] = c, !.left[r] = n, !.parent[n] = r]
  IN  AugmentRotate(IF c = 0 THEN u ELSE [u EXCEPT !.parent[c] = n], n, r)
RotateRight(t, n) ==
  LET l == t.left[n]
      c == t.right[l]
      u == [Replace(t, n, l) EXCEPT !.left[n] = c, !.right[l] = n, !.parent[n] = l]
  IN  AugmentRotate(IF c = 0 THEN u ELSE [u EXCEPT !.parent[c] = n], n, l)

(* rb_link_1 to rb_link_5                                                  *)
Link5(t, n) ==
  LET g == Grandparent(t, n)
      u == SetColor(SetColor(t, t.parent[n], "black"), g, "red")
  IN  IF n = t.left[t.parent[n]] /\ t.parent[n] = t.left[g] THEN RotateRight(u, g) ELSE RotateLeft(u, g)
Link4(t, n) ==
  LET p == t.parent[n]
      g == Grandparent(t, n)
  IN  CASE n = t.right[p] /\ p = t.left[g] -> LET u == RotateLeft(t, p) IN Link5(u, u.left[n])
        [] n = t.left[p] /\ p = t.right[g] -> LET u == RotateRight(t, p) IN Link5(u, u.right[n])
        [] OTHER -> Link5(t, n)
RECURSIVE Link1(_, _)
Link3(t, n) ==
  IF Color(t, Uncle(t, n)) = "red"
  THEN LET u == [t EXCEPT !.color[t.parent[n]] = "black", !.color[Uncle(t, n)] = "black", !.color[Grandparent(t, n)] = "red"]
       IN  Link1(u, Grandparent(u, n))
  ELSE Link4(t, n)
Link1(t, n) == IF t.parent[n] = 0 \/ Color(t, t.parent[n]) = "black" THEN t ELSE Link3(t, n)

(* rb_unlink_1 to rb_unlink_6                                              *)
Unlink6(t, n) ==
  LET p == t.parent[n]
      s == Sibling(t, n)
      u == SetColor(SetColor(t, s, t.color[p]), p, "black")
  IN  IF n = t.left[p] THEN RotateLeft(SetColor(u, u.right[s], "black"), p)
      ELSE RotateRight(SetColor(u, u.left[s], "black"), p)
Unlink5(t, n) ==
  LET p == t.parent[n]
      s == Sibling(t, n)
      l == t.left[s]
      r == t.right[s]
  IN  CASE n = t.left[p] /\ Color(t, s) = "black" /\ Color(t, l) = "red" /\ Color(t, r) = "black" ->
             Unlink6(RotateRight(SetColor(SetColor(t, s, "red"), l, "black"), s), n)
        [] n = t.right[p] /\ Color(t, s) = "black" /\ Color(t, r) = "red" /\ Color(t, l) = "black" ->
             Unlink6(RotateLeft(SetColor(SetColor(t, s, "red"), r, "black"), s), n)
        [] OTHER -> Unlink6(t, n)
BlackFamily(t, s) == Color(t, s) = "black" /\ Color(t, t.left[s]) = "black" /\ Color(t, t.right[s]) = "black"
Unlink4(t, n) ==
  LET p == t.parent[n]
      s == Sibling(t, n)
  IN  IF Color(t, p) = "red" /\ BlackFamily(t, s) THEN SetColor(SetColor(t, s, "red"), p, "black") ELSE Unlink5(t, n)
RECURSIVE Unlink1(_, _)
Unlink3(t, n) ==
  IF Color(t, t.parent[n]) = "black" /\ BlackFamily(t, Sibling(t, n))
  THEN Unlink1(SetColor(t, Sibling(t, n), "red"), t.parent[n])
  ELSE Unlink4(t, n)
Unlink2(t, n) ==
  LET p == t.parent[n]
      s == Sibling(t, n)
      u == SetColor(SetColor(t, p, "red"), s, "black")
  IN  Unlink3(CASE Color(t, s) # "red" -> t
                [] Color(t, s) = "red" /\ n = t.left[p] -> RotateLeft(u, p)
                [] OTHER -> RotateRight(u, p), n)
Unlink1(t, n) == IF t.parent[n] = 0 THEN t ELSE Unlink2(t, n)

BlackRoot(t) == IF t.root = 0 THEN t ELSE SetColor(t, t.root, "black")

(* rb_link, after rb_insert has put the node under its parent.             *)
LinkNode(t, n) == AugmentPropagate(BlackRoot(Link1(t, n)), n)

(* rb_unlink: a node with two children changes places with the one before  *)
(* it, then its only child takes its place.                                *)
CutOut(t, n) ==
  BlackRoot(Replace(IF Color(t, n) = "black" THEN Unlink1(t, n) ELSE t, n,
                    IF t.right[n] # 0 THEN t.right[n] ELSE t.left[n]))
Detached(t, n) ==
  [AugmentPropagate(t, t.parent[n]) EXCEPT !.parent[n] = 0, !.left[n] = 0, !.right[n] = 0, !.color[n] = "red"]
UnlinkNode(t, n) ==
  Detached(CutOut(IF t.left[n] # 0 /\ t.right[n] # 0 THEN Swap(t, n, MaxNode(t, t.left[n])) ELSE t, n), n)

(* interval_tree_cmp: by low end, then by high end.                        *)
Before(m, n) == Low(m) < Low(n) \/ (Low(m) = Low(n) /\ High(m) < High(n))

(* rb_insert: the place below p.                                           *)
RECURSIVE InsertBelow(_, _, _)
InsertBelow(t, n, p) ==
  LET child == IF Before(n, p) THEN t.left[p] ELSE t.right[p]
      under == [t EXCEPT !.parent[n] = p, !.left[n] = 0, !.right[n] = 0, !.color[n] = "red"]
  IN  CASE child # 0 -> InsertBelow(t, n, child)
        [] child = 0 /\ Before(n, p) -> [under EXCEPT !.left[p] = n]
        [] OTHER -> [under EXCEPT !.right[p] = n]
InsertNode(t, n) ==
  LinkNode(IF t.root # 0 THEN InsertBelow(t, n, t.root)
           ELSE [t EXCEPT !.root = n, !.parent[n] = 0, !.left[n] = 0, !.right[n] = 0, !.color[n] = "red"], n)

(* rb_find and rb_upper_bound for a key equal to that of node k.           *)
RECURSIVE RbFind(_, _, _), RbUpperBound(_, _, _, _)
RbFind(t, n, k) ==
  CASE n = 0 \/ (n # 0 /\ ItRange[n] = ItRange[k]) -> n
    [] OTHER -> RbFind(t, IF Before(k, n) THEN t.left[n] ELSE t.right[n], k)
RbUpperBound(t, n, k, ub) ==
  IF n = 0 THEN ub
  ELSE IF Before(k, n) THEN RbUpperBound(t, t.left[n], k, n) ELSE RbUpperBound(t, t.right[n], k, ub)

(* rb_next and rb_prev                                                     *)
RECURSIVE UpLeft(_, _), UpRight(_, _)
UpLeft(t, c) ==
  LET p == t.parent[c] IN IF p # 0 /\ t.right[p] = c THEN UpLeft(t, p) ELSE p
UpRight(t, c) ==
  LET p == t.parent[c] IN IF p # 0 /\ t.left[p] = c THEN UpRight(t, p) ELSE p
RbNext(t, n) == IF t.right[n] # 0 THEN MinNode(t, t.right[n]) ELSE UpLeft(t, n)
RbPrev(t, n) == IF t.left[n] # 0 THEN MaxNode(t, t.left[n]) ELSE UpRight(t, n)

----------------------------------------------------------------------------
(* core/interval_tree.c                                                    *)

Intersects(n, low, high) == high >= Low(n) /\ High(n) >= low

(* interval_tree_min_interval                                              *)
RECURSIVE MinFrom(_, _, _, _, _)
MinFrom(t, n, low, high, min) ==
  LET hit == Intersects(n, low, high)
      best == IF hit THEN n ELSE min
  IN  CASE n = 0 -> min
        [] n # 0 /\ (t.left[n] = 0 \/ t.max[t.left[n]] < low) /\ hit -> best
        [] n # 0 /\ (t.left[n] = 0 \/ t.max[t.left[n]] < low) /\ ~hit -> MinFrom(t, t.right[n], low, high, best)
        [] OTHER -> MinFrom(t, t.left[n], low, high, best)
MinInterval(t, n, low, high) == MinFrom(t, n, low, high, 0)

(* interval_tree_next_interval: the right subtree, else the next ancestor  *)
(* reached over a left link.                                               *)
RECURSIVE NextInterval(_, _, _, _)
NextInterval(t, n, low, high) ==
  LET min == IF t.right[n] = 0 THEN 0 ELSE MinInterval(t, t.right[n], low, high)
      up == UpLeft(t, n)
  IN  CASE n = 0 -> 0
        [] n # 0 /\ min # 0 -> min
        [] n # 0 /\ min = 0 /\ up # 0 /\ Intersects(up, low, high) -> up
        [] OTHER -> NextInterval(t, up, low, high)

(* interval_tree_find                                                      *)
RECURSIVE FindFrom(_, _, _, _)
FindFrom(t, n, low, high) ==
  CASE n = 0 -> 0
    [] n # 0 /\ Intersects(n, low, high) -> n
    [] n # 0 /\ ~Intersects(n, low, high) /\ (t.left[n] = 0 \/ t.max[t.left[n]] < low) -> FindFrom(t, t.right[n], low, high)
    [] OTHER -> FindFrom(t, t.left[n], low, high)

(* The loop of watcher_handle_exception: the next node is looked up, then  *)
(* the current one is removed.                                             *)
RECURSIVE RemoveHits(_, _, _, _)

(* Mutant: the next node is looked up from the node that was removed.      *)
RemoveHitsLate(t, n, addr, seen) ==
  IF n = 0 THEN [tree |-> t, seen |-> seen]
  ELSE LET u == UnlinkNode(t, n) IN RemoveHits(u, NextInterval(u, n, addr, addr), addr, Append(seen, n))

RemoveHits(t, n, addr, seen) ==
  IF n = 0 THEN [tree |-> t, seen |-> seen]
  ELSE RemoveHits(UnlinkNode(t, n), NextInterval(t, n, addr, addr), addr, Append(seen, n))

----------------------------------------------------------------------------
InTree(t) == {n \in ItNodes : n = t.root \/ t.parent[n] # 0}
NoAccess == [addr |-> 0, before |-> {}, seen |-> <<>>]

ItInsert(n) ==
  /\ n \notin InTree(ittree)
  /\ ittree' = InsertNode(ittree, n)
  /\ itlast' = NoAccess

ItRemove(n) ==
  /\ n \in InTree(ittree)
  /\ ittree' = UnlinkNode(ittree, n)
  /\ itlast' = NoAccess

(* watcher_handle_exception                                                *)
ItFault(addr) ==
  /\ ittree.root # 0
  /\ \E w \in {RemoveHits(ittree, MinInterval(ittree, ittree.root, addr, addr), addr, <<>>)} :
       /\ ittree' = w.tree
       /\ itlast' = [addr |-> addr, before |-> InTree(ittree), seen |-> w.seen]

ItInit == ittree = EmptyTree /\ itlast = NoAccess
ItNext ==
  \/ \E n \in ItNodes : ItInsert(n) \/ ItRemove(n)
  \/ \E addr \in ItAddrs : ItFault(addr)

----------------------------------------------------------------------------
(* The nodes below and including n, and the black nodes down to a leaf.    *)
RECURSIVE Below(_, _), BlackHeight(_, _), Walk(_, _)
Below(t, n) == IF n = 0 THEN {} ELSE {n} \cup Below(t, t.left[n]) \cup Below(t, t.right[n])
BlackHeight(t, n) == IF n = 0 THEN 1 ELSE BlackHeight(t, t.left[n]) + (IF Color(t, n) = "black" THEN 1 ELSE 0)

(* The nodes from n on, by rb_next.                                        *)
Walk(t, n) == IF n = 0 THEN <<>> ELSE <<n>> \o Walk(t, RbNext(t, n))

(* After any sequence of insertions and removals the tree is ordered,      *)
(* balanced as rb_verify would have it (VERIFY_TREE is off), linked both   *)
(* ways, and every node knows the size and the greatest end of its         *)
(* subtree; walks in either direction and lookups agree with the order     *)
(* (rb_link, rb_unlink, interval_tree_augment_rotate, rb_next, rb_find).   *)
TreeSound ==
  LET t == ittree
      in == InTree(t)
  IN  /\ Color(t, t.root) = "black" /\ Below(t, t.root) = in
      /\ \A n \in in :
           LET l == t.left[n]
               r == t.right[n]
           IN  /\ \A k \in {l, r} \ {0} : t.parent[k] = n /\ (Color(t, n) = "red" => Color(t, k) = "black")
               /\ \A k \in Below(t, l) : ~Before(n, k)
               /\ \A k \in Below(t, r) : ~Before(k, n)
               /\ BlackHeight(t, l) = BlackHeight(t, r)
               /\ t.size[n] = Cardinality(Below(t, n))
               /\ t.max[n] \in {High(k) : k \in Below(t, n)} /\ \A k \in Below(t, n) : High(k) <= t.max[n]
      /\ LET walk == Walk(t, MinNode(t, t.root))
         IN  /\ Len(walk) = Cardinality(in) /\ (in = {} \/ walk[Len(walk)] = MaxNode(t, t.root))
             /\ \A j, k \in DOMAIN walk : j < k => ~Before(walk[k], walk[j])
             /\ \A j \in DOMAIN walk : RbPrev(t, walk[j]) = IF j = 1 THEN 0 ELSE walk[j - 1]
             /\ \A k \in ItNodes :
                  LET after == {j \in DOMAIN walk : Before(k, walk[j])}
                      ub == RbUpperBound(t, t.root, k, 0)
                  IN  /\ (RbFind(t, t.root, k) # 0) = (\E n \in in : ItRange[n] = ItRange[k])
                      /\ ub = IF after = {} THEN 0 ELSE walk[CHOOSE j \in after : \A i \in after : j <= i]

(* An access visits each watch it falls into exactly once, in order,       *)
(* although it removes every one it has visited, and leaves all others;    *)
(* and a search for any range finds a node if there is one                 *)
(* (watcher_handle_exception, interval_tree_next_interval).  The tree      *)
(* itself stays sound.                                                     *)
AccessFindsAll ==
  LET hits == {n \in itlast.before : Intersects(n, itlast.addr, itlast.addr)}
      seen == itlast.seen
  IN  /\ TreeSound
      /\ {seen[k] : k \in DOMAIN seen} = hits /\ Len(seen) = Cardinality(hits)
      /\ \A j, k \in DOMAIN seen : j < k => ~Before(seen[k], seen[j])
      /\ itlast.before # {} => InTree(ittree) = itlast.before \ hits
      /\ \A low, high \in ItAddrs : low <= high =>
           (FindFrom(ittree, ittree.root, low, high) = 0) = (\A n \in InTree(ittree) : ~Intersects(n, low, high))

=============================================================================
