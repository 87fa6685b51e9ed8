---------------------------- MODULE MCAdminLists ----------------------------
(* Values of the constants of AdminLists. *)
EXTENDS AdminLists

\* Two rows share a created_at.
MCRow == {<<1, 1>>, <<1, 2>>, <<2, 1>>, <<3, 1>>}
=============================================================================
