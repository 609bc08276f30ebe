------------------------------- MODULE MCIfEd -------------------------------
(* Model-checking instance of IfEd: two processors, two transmit buffers, *)
(* a four-page ring.                                                      *)
EXTENDS IfEd

CONSTANTS c1, c2
MCCpus == {c1, c2}
MCPktPages == {1, 2}
====
