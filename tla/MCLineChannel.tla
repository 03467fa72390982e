--------------------------- MODULE MCLineChannel ---------------------------
(* Values for the constants of LineChannel. *)
EXTENDS LineChannel

\* A request of one byte, and its newline.
MCRequests == {<<"plain">>}
=============================================================================
