---------------------------- MODULE MCGeneration ----------------------------
(* Generation on a two-layer model, dense or with its last layer recurrent.  *)
EXTENDS Generation

Kinds == {{}, {1}}
Sids == 1 .. MaxRequests
Dialogues == {<<"a">>, <<"b", "a", "a", "b">>}
=============================================================================
