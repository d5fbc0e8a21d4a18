------------------------------- MODULE MCTouch -------------------------------
(***************************************************************************)
(* Touch for TLC: two points close enough for the filter and one far off.  *)
(***************************************************************************)
EXTENDS Touch

SomePoints == {<<0, 0>>, <<8, 4>>, <<500, 0>>}
=============================================================================
