----------------------------- MODULE FlameTree -----------------------------
(***************************************************************************)
(* The flame graph of build_viewer.py: build_flame_svg (662-767) and      *)
(* build_flame_tree (770-800), as main calls them one after the other     *)
(* (lines 236-238).                                                        *)
(*                                                                         *)
(* A Node tree is kept as the set of its paths from the root: `own` maps   *)
(* every path (the root is << >>) to its Node.value, and `nodes` lists the *)
(* non-root paths in creation order, which is the insertion order of      *)
(* every children dict.  An entry is abstracted to                         *)
(*   chain  the function_chain string as its pieces between "->", a piece  *)
(*          being a label or Blank (strips to ""); None when not a str     *)
(*   loc    the fallback label f"{file}:{line}"                            *)
(*   w      the weight of the selected metric (cycles or count, >= 0 after *)
(*          validate_and_load)                                             *)
(* Layout coordinates are kept in weight units: the code multiplies every  *)
(* width by the one factor 1200/total, which no property here depends on. *)
(* A y coordinate is a row: one row is bar_h + pad_y = 20 pixels.  Colour  *)
(* and SVG text are left out.                                              *)
(***************************************************************************)
EXTENDS Integers, Sequences, TLC
LOCAL INSTANCE SequencesExt

CONSTANTS
    EntryLists,   \* the entry sequences the run may be given
    Blank,        \* a chain piece that is empty after strip()
    None

VARIABLES
    entries,  \* out["entries"]
    i,        \* the svg loop's next entry
    st,       \* build_flame_svg's tree: [nodes, own]
    total,    \* build_flame_svg's total
    value,    \* the Node values after aggregate(root)
    rects,    \* the rects list, in append order
    height,   \* depth_max + 1, in rows
    svg,      \* "none" | "nodata" | "drawn"
    tree,     \* flame_json
    phase     \* "svg" | "tree" | "done"

vars == <<entries, i, st, total, value, rects, height, svg, tree, phase>>

EmptyTree == [nodes |-> << >>, own |-> (<< >> :> 0)]

(* Line 682: a chain is used when it is a str and chain.strip() is not    *)
(* empty, i.e. it holds a "->" or a non-blank piece; line 683 then keeps   *)
(* the non-blank pieces (possibly none: "->"); line 686 falls back.        *)
Parts(e) ==
    IF e.chain # None /\ (Len(e.chain) > 1 \/ e.chain[1] # Blank)
    THEN SelectSeq(e.chain, LAMBDA p : p # Blank)
    ELSE << e.loc >>

\* the walk adding w at the end of the path without creating its nodes
InsertNoSetdefault(t, e) ==
    IF e.w <= 0 THEN t
    ELSE LET ps   == Parts(e)
             new  == SelectSeq([k \in 1..Len(ps) |-> SubSeq(ps, 1, k)],
                               LAMBDA q : q \notin DOMAIN t.own)
         IN [nodes |-> t.nodes \o new,
             own   |-> [t.own EXCEPT ![ps] = @ + e.w]]

(* One pass of the loop body (779-791, identical to 677-690): skip a      *)
(* non-positive weight, walk setdefault along the parts from the root,     *)
(* and add w to the value of the node reached.                             *)
Insert(t, e) ==
    IF e.w <= 0 THEN t
    ELSE LET ps   == Parts(e)
             new  == SelectSeq([k \in 1..Len(ps) |-> SubSeq(ps, 1, k)],
                               LAMBDA q : q \notin DOMAIN t.own)
             own0 == [q \in DOMAIN t.own \cup ToSet(new) |->
                         IF q \in DOMAIN t.own THEN t.own[q] ELSE 0]
         IN [nodes |-> t.nodes \o new,
             own   |-> [own0 EXCEPT ![ps] = @ + e.w]]

\* n.children.items(), in insertion order
Children(t, p) ==
    SelectSeq(t.nodes, LAMBDA q : Len(q) = Len(p) + 1 /\ IsPrefix(p, q))

(* sorted(..., key=value, reverse=True): descending value; sorted() is    *)
(* stable, so equal values keep insertion order.                           *)
ByValueDesc(ks, val) ==
    LET idx == SortSeq([k \in DOMAIN ks |-> k],
                       LAMBDA a, b : val[ks[a]] > val[ks[b]]
                                     \/ (val[ks[a]] = val[ks[b]] /\ a < b))
    IN [k \in DOMAIN idx |-> ks[idx[k]]]

(* aggregate (694-699): a node's value becomes its own value plus the     *)
(* aggregates of its children.                                             *)
RECURSIVE Aggregate(_, _), AggregateChildrenOnly(_, _)
AggregateChildrenOnly(t, p) ==
    LET ks == Children(t, p)
    IN FoldLeft(LAMBDA s, c : s + AggregateChildrenOnly(t, c), 0, ks)

Aggregate(t, p) ==
    LET ks == Children(t, p)
    IN t.own[p] + FoldLeft(LAMBDA s, c : s + Aggregate(t, c), 0, ks)

RECURSIVE Layout(_, _, _, _, _), LayoutKids(_, _, _, _, _)

(* The loop of layout (713-727) over the sorted children ks: skip w <= 0, *)
(* append the rect, lay out the child's children one row down at x, and   *)
(* advance x by w.                                                         *)
LayoutKidsNoAdvance(t, val, ks, x, y) ==
    IF ks = << >> THEN << >>
    ELSE LET c == Head(ks) IN
         IF val[c] <= 0 THEN LayoutKids(t, val, Tail(ks), x, y)
         ELSE << [path |-> c, x |-> x, y |-> y, w |-> val[c]] >>
              \o Layout(t, val, c, x, y + 1)
              \o LayoutKids(t, val, Tail(ks), x, y)

LayoutKids(t, val, ks, x, y) ==
    IF ks = << >> THEN << >>
    ELSE LET c == Head(ks) IN
         IF val[c] <= 0 THEN LayoutKids(t, val, Tail(ks), x, y)
         ELSE << [path |-> c, x |-> x, y |-> y, w |-> val[c]] >>
              \o Layout(t, val, c, x, y + 1)
              \o LayoutKids(t, val, Tail(ks), x + val[c], y)

\* layout(n, x0, y, ...) (709-714)
Layout(t, val, p, x0, y) == LayoutKids(t, val, ByValueDesc(Children(t, p), val), x0, y)

(* to_dict (793-798): name, the node's value as folded (no aggregate      *)
(* pass), and the children sorted by that value.                           *)
RECURSIVE ToDict(_, _)
ToDict(t, p) ==
    LET ks == ByValueDesc(Children(t, p), t.own) IN
    [name     |-> IF p = << >> THEN "root" ELSE Last(p),
     value    |-> t.own[p],
     children |-> [k \in DOMAIN ks |-> ToDict(t, ks[k])]]

-----------------------------------------------------------------------------

Init ==
    /\ entries \in EntryLists
    /\ i = 1
    /\ st = EmptyTree
    /\ total = 0
    /\ value = << >>
    /\ rects = << >>
    /\ height = 0
    /\ svg = "none"
    /\ tree = None
    /\ phase = "svg"

\* One iteration of build_flame_svg's loop (676-691).
FoldEntry ==
    /\ phase = "svg"
    /\ i <= Len(entries)
    /\ st' = Insert(st, entries[i])
    /\ total' = IF entries[i].w > 0 THEN total + entries[i].w ELSE total
    /\ i' = i + 1
    /\ UNCHANGED <<entries, value, rects, height, svg, tree, phase>>

(* Lines 700-733: aggregate, then either "No data" (total <= 0) or the    *)
(* layout from the root at x 0, row 0; height is depth_max + 1 rows, where *)
(* depth_max is one more than the lowest row drawn.                        *)
Render ==
    /\ phase = "svg"
    /\ i > Len(entries)
    /\ \E val \in {[p \in DOMAIN st.own |-> Aggregate(st, p)]} :
         /\ value' = val
         /\ IF total <= 0
            THEN /\ svg' = "nodata"
                 /\ UNCHANGED <<rects, height>>
            ELSE \E rs \in {Layout(st, val, << >>, 0, 0)} :
                   /\ rects' = rs
                   /\ height' = 1 + FoldLeft(LAMBDA m, r : IF r.y + 1 > m THEN r.y + 1 ELSE m, 0, rs)
                   /\ svg' = "drawn"
    /\ phase' = "tree"
    /\ UNCHANGED <<entries, i, st, total, tree>>

\* build_flame_tree (770-800): a fresh fold of the same entries, then to_dict.
BuildTree ==
    /\ phase = "tree"
    /\ tree' = ToDict(FoldLeft(Insert, EmptyTree, entries), << >>)
    /\ phase' = "done"
    /\ UNCHANGED <<entries, i, st, total, value, rects, height, svg>>

FlameNext == FoldEntry \/ Render \/ BuildTree

FlameSpec == Init /\ [][FlameNext]_vars

Done == phase = "done"

-----------------------------------------------------------------------------

\* the sum of the positive weights of the entries
PositiveWeight == FoldLeft(LAMBDA s, e : IF e.w > 0 THEN s + e.w ELSE s, 0, entries)

\* reference: the own values of a node and of all its descendants
SubtreeWeight(p) == MapThenSumSet(LAMBDA q : st.own[q], {q \in DOMAIN st.own : IsPrefix(p, q)})

Rows(rs) == {rs[k] : k \in DOMAIN rs}

Parent(p) == SubSeq(p, 1, Len(p) - 1)

Inside(r, o) == o.x <= r.x /\ r.x + r.w <= o.x + o.w

Disjoint(r, o) == r.x + r.w <= o.x \/ o.x + o.w <= r.x

FlameTypeOK ==
    /\ phase \in {"svg", "tree", "done"}
    /\ svg \in {"none", "nodata", "drawn"}
    /\ i \in 1..Len(entries) + 1
    /\ total \in Nat
    /\ << >> \in DOMAIN st.own
    /\ \A k \in DOMAIN st.nodes : st.nodes[k] \in DOMAIN st.own
    /\ \A r \in Rows(rects) : r.path \in DOMAIN st.own /\ r.w \in Nat /\ r.x \in Nat

(* Spec section 8 on the tree aggregate(root) leaves behind: once the svg *)
(* is built, every node's value is the weight of the entries whose walk   *)
(* ended in its subtree, so children never exceed their parent, and the   *)
(* root holds the sum of all positive weights.                             *)
RollupIsSubtreeSum ==
    svg # "none" =>
        /\ \A p \in DOMAIN st.own : value[p] = SubtreeWeight(p)
        /\ value[<< >>] = PositiveWeight

(* The layout of lines 709-732 draws every node but the root exactly once, *)
(* with its rolled-up value as width, inside its parent's bar and one row *)
(* below it (a top-level bar inside [0, total] on row 0), and no two       *)
(* siblings overlap.                                                       *)
FlameLayoutTiles ==
    svg = "drawn" =>
        /\ Len(rects) = Len(st.nodes)
        /\ {r.path : r \in Rows(rects)} = DOMAIN st.own \ {<< >>}
        /\ \A r \in Rows(rects) :
              /\ r.w = value[r.path]
              /\ IF Len(r.path) = 1
                 THEN r.y = 0 /\ Inside(r, [x |-> 0, w |-> total])
                 ELSE \E o \in Rows(rects) :
                        o.path = Parent(r.path) /\ r.y = o.y + 1 /\ Inside(r, o)
        /\ \A r, o \in Rows(rects) :
              r # o /\ Parent(r.path) = Parent(o.path) => Disjoint(r, o)

RECURSIVE ChildrenWithin(_)
ChildrenWithin(n) ==
    /\ FoldLeft(LAMBDA s, c : s + c.value, 0, n.children) <= n.value
    /\ \A k \in DOMAIN n.children : ChildrenWithin(n.children[k])

(* Spec section 8 on the flame tree main embeds as flame_json (line 238):  *)
(* the children's values at every level sum to at most the parent's, and  *)
(* the root's value is the sum of all positive weights.                   *)
FlameRollup ==
    Done => tree.value = PositiveWeight /\ ChildrenWithin(tree)

=============================================================================
