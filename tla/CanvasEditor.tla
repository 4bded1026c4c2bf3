---------------------------- MODULE CanvasEditor ----------------------------
(***************************************************************************)
(* The pure canvas edits of src/src/canvas/editor.rs and the validation of *)
(* src/src/domain/workspace.rs.  A layout holds cards (nodes), groups and  *)
(* directed connections, each under an id; a card's target is an agent or  *)
(* a note.  Geometry is in CanvasGeometry.                                 *)
(***************************************************************************)
EXTENDS Integers, FiniteSets, Functions, FiniteSetsExt

Note == 0   \* the target of a card that is not an agent's
EmptyLayout == [nodes |-> <<>>, groups |-> <<>>, links |-> <<>>]

NextId(f) == Max(DOMAIN f \cup {0}) + 1
Over(g, f) == [i \in DOMAIN f \cup DOMAIN g |-> IF i \in DOMAIN f THEN f[i] ELSE g[i]]
KeepIf(f, P(_)) == [i \in {j \in DOMAIN f : P(f[j])} |-> f[i]]

\* A group is selected as a whole.
Expanded(l, sel) == sel \cup UNION {g \in Range(l.groups) : g \cap sel # {}}

Fragment(l, sel) ==
  LET all == Expanded(l, sel) \cap DOMAIN l.nodes IN
  [nodes  |-> [n \in all |-> l.nodes[n]],
   groups |-> KeepIf(l.groups, LAMBDA g : g \subseteq all),
   links  |-> KeepIf(l.links, LAMBDA e : {e[1], e[2]} \subseteq all)]

\* The fresh ids of the elements of ids, in their order, above those in use.
Fresh(ids, used) == [i \in ids |-> NextId(used) + Cardinality({j \in ids : j < i})]
Under(new, f) == [k \in Range(new) |-> f[CHOOSE i \in DOMAIN new : new[i] = k]]

\* The copy of a fragment, every id above those of the whole workspace.
Pasted(l, fragment, all) ==
  LET ids == Fresh(DOMAIN fragment.nodes, all.nodes)
      groups == [g \in DOMAIN fragment.groups |-> {ids[n] : n \in fragment.groups[g]}]
      links == [e \in DOMAIN fragment.links |-> <<ids[fragment.links[e][1]], ids[fragment.links[e][2]]>>]
  IN [nodes  |-> Over(l.nodes, Under(ids, fragment.nodes)),
      groups |-> Over(l.groups, Under(Fresh(DOMAIN groups, all.groups), groups)),
      links  |-> Over(l.links, Under(Fresh(DOMAIN links, all.links), links))]
Duplicated(l, sel, all) == Pasted(l, Fragment(l, sel), all)

Pruned(groups, sel) ==
  LET left == [g \in DOMAIN groups |-> groups[g] \ sel] IN KeepIf(left, LAMBDA g : Cardinality(g) >= 2)

Removed(l, sel) ==
  [nodes  |-> [n \in DOMAIN l.nodes \ sel |-> l.nodes[n]],
   groups |-> Pruned(l.groups, sel),
   links  |-> KeepIf(l.links, LAMBDA e : {e[1], e[2]} \cap sel = {})]

Grouped(l, sel, all) ==
  IF Cardinality(sel) < 2 THEN l
  ELSE [l EXCEPT !.groups = Over(Pruned(l.groups, sel), [g \in {NextId(all.groups)} |-> sel])]

Ungrouped(l, sel) == [l EXCEPT !.groups = KeepIf(l.groups, LAMBDA g : g \cap sel = {})]

CanConnect(l, source, target) ==
  source # target /\ {source, target} \subseteq DOMAIN l.nodes /\ <<source, target>> \notin Range(l.links)
Connected(l, source, target, all) ==
  [l EXCEPT !.links = Over(l.links, [e \in {NextId(all.links)} |-> <<source, target>>])]

-----------------------------------------------------------------------------
\* Workspace::validate_canvas, where targets holds what a card may refer to.
ValidCanvas(l, targets) ==
  /\ Range(l.nodes) \subseteq targets
  /\ \A g \in DOMAIN l.groups :
       /\ Cardinality(l.groups[g]) >= 2 /\ l.groups[g] \subseteq DOMAIN l.nodes
       /\ \A h \in DOMAIN l.groups \ {g} : l.groups[g] \cap l.groups[h] = {}
  /\ \A e \in DOMAIN l.links :
       /\ l.links[e][1] # l.links[e][2] /\ {l.links[e][1], l.links[e][2]} \subseteq DOMAIN l.nodes
       /\ \A f \in DOMAIN l.links \ {e} : l.links[e] # l.links[f]

\* The part of a layout whose cards are in shown, and the rest.
Part(l, shown) ==
  [nodes  |-> [n \in DOMAIN l.nodes \cap shown |-> l.nodes[n]],
   groups |-> KeepIf(l.groups, LAMBDA g : g \subseteq shown),
   links  |-> KeepIf(l.links, LAMBDA e : {e[1], e[2]} \subseteq shown)]
Without(l, part) ==
  [k \in DOMAIN l |-> [i \in DOMAIN l[k] \ DOMAIN part[k] |-> l[k][i]]]
Together(l, part) == [k \in DOMAIN l |-> Over(l[k], part[k])]
Disjoint(l, part) == \A k \in DOMAIN l : DOMAIN l[k] \cap DOMAIN part[k] = {}
=============================================================================
