--------------------------- MODULE MCSchemaEditor ---------------------------
(* Values for model-checking SchemaEditor. *)
EXTENDS SchemaEditor

CONSTANTS A, B, x, m

TwoContainers == {A, B}
OneLimited == {B}
OneNew == {m}
FirstEntry == {1}
\* A holds x, B beside it is empty.
TwoRoots == SetAt(SetAt(Node(None), Root, <<Node(A), Node(B)>>), <<0>>, <<Node(x)>>)
=============================================================================
