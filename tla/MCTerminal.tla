----------------------------- MODULE MCTerminal -----------------------------
(* A screen of a few cells; term_row wraps after a few screens. *)
EXTENDS Terminal

MCMessages == {<<"x", "x", "\n">>, <<"x", "x", "x", "x">>, <<"\n", "x">>}
=============================================================================
