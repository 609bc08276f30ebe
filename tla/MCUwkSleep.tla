---------------------------- MODULE MCUwkSleep ----------------------------
(* Model-checking instance of UwkSleep: a 4-bit tick counter and count of  *)
(* killed environments in two 2-bit halves, 3-bit usecs, two tick lengths, *)
(* a watched word over two values.                                         *)
EXTENDS UwkSleep
====
