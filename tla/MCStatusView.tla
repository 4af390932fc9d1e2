---------------------------- MODULE MCStatusView ----------------------------
(* Instances of StatusView for TLC: waiting jobs or all of them; lists     *)
(* without an end, a first page and a second page; two jobs of one group   *)
(* and one of another.                                                     *)
EXTENDS StatusView

CONSTANTS A, B

MCGroupOf == [j \in Jobs |-> IF j = 2 THEN B ELSE A]
MCAsks == {Keys, {"group"}}
MCPages == {<<0, -1>>, <<0, 0>>, <<1, 1>>}
=============================================================================
