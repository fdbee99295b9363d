----------------------------- MODULE ScopedTable -----------------------------
(***************************************************************************)
(* The assembler's symbol table (scoped_table_base_class.hpp): a tree of   *)
(* scopes that is kept after a scope has been left, so that a second pass  *)
(* can go through it again.  A node is its position in the sequence of the *)
(* nodes made so far (__node_pool); its parent was made before it.         *)
(***************************************************************************)
EXTENDS Integers, Sequences

Tree    == 1      \* &__tree, which holds no symbols
Global  == 2      \* tree().children.front()
NullPtr == 0

NewNode(parent) == [parent |-> parent, children |-> <<>>, table |-> <<>>]

\* mkscope: the new node becomes the last child of `node', and the current one.
MkScope(tree, node) ==
  Append([tree EXCEPT ![node].children = Append(@, Len(tree) + 1)],
         NewNode(node))

EmptyTable == MkScope(<<NewNode(NullPtr)>>, Tree)

\* find: the node of the innermost scope around `node' that has the name.
Find(tree, node, name) ==
  LET Search[n \in Tree .. node] ==
        IF n = Tree THEN NullPtr
        ELSE IF name \in DOMAIN tree[n].table THEN n
        ELSE Search[tree[n].parent]
  IN Search[node]

FindInThisBlkLev(tree, node, name) ==
  IF name \in DOMAIN tree[node].table THEN node ELSE NullPtr

\* find_or_insert: where the symbol is, or would be put.
FindOrInsert(tree, node, name) ==
  LET found == Find(tree, node, name)
  IN IF found # NullPtr THEN found ELSE node

WithSymbol(table, name, symbol) ==
  [x \in {name} \cup DOMAIN table |-> IF x = name THEN symbol ELSE table[x]]

\* The symbol of a label gets its address (set_found_as_label, set_addr).
Bind(tree, node, name, addr) ==
  [tree EXCEPT ![FindOrInsert(tree, node, name)].table =
     WithSymbol(@, name, [addr |-> addr, found_as_label |-> TRUE])]
==============================================================================
