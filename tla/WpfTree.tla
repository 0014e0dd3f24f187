-------------------------------- MODULE WpfTree --------------------------------
(***************************************************************************)
(* The trees of a WPF application as the worker reads them.  GetParent     *)
(* asks for the visual parent.  GetChildren asks, by its tree_mode, for    *)
(* the visual or the logical children, or for what the control was given   *)
(* to show: its Content, Header, items, columns or rows.  The three are    *)
(* different relations, and an element need not be a child of its parent.  *)
(*                                                                         *)
(* The elements of control templates are left out.                         *)
(***************************************************************************)
CONSTANTS
    Element,    \* DependencyObjects of the application
    Visual,     \* those that are Visual, UIElement and IInputElement
    Holders,    \* ContentControls and ItemsControls, windows excepted
    Generated   \* columns, and rows made for data: not in the logical tree

VARIABLES
    parent,     \* the visual parent; windows that are open hang at "Application"
    content     \* what a holder shows: elements, and "data" if its Content, or each
                \* of its items, is a value that is not one

OpenWindows == {x \in Element : parent[x] = "Application"}

Parents(e) == IF e \in Visual THEN {parent[e]} \cap Element ELSE {}

visualChildren(e) == IF e \in Visual THEN {x \in Element : parent[x] = e} ELSE {}

held(e) == content[e] \cap Element

\* The overloads for holders: data has no element but those of its template.
customChildren(e) ==
    IF e \in Holders
    THEN held(e) \cup (IF "data" \in content[e] THEN visualChildren(e) ELSE {})
    ELSE visualChildren(e)

logicalChildren(e) == (IF e \in Holders THEN held(e) ELSE visualChildren(e)) \ Generated

Children(e, tree_mode) ==
    CASE tree_mode = "visual"  -> visualChildren(e)
      [] tree_mode = "logical" -> logicalChildren(e)
      [] OTHER                 -> customChildren(e)
=============================================================================
