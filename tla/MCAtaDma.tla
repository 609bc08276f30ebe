------------------------------ MODULE MCAtaDma ------------------------------
(* Model-checking instance of AtaDma: four-byte pages, chains of up to     *)
(* three buffers, each in its own pair of virtual pages, of 2, 4 or 6      *)
(* bytes starting at a page boundary or in the middle of a page.          *)
EXTENDS AtaDma

MCFrame == [v \in 0..5 |-> 5 - v]
MCBuffer(k) == {[memaddr |-> 8 * (k - 1) + a, bcount |-> n] : a \in {0, 2}, n \in {2, 4, 6}}
MCChains == UNION {[1..n -> UNION {MCBuffer(k) : k \in 1..3}] : n \in 1..3}
MCChainsInPlace == {c \in MCChains : \A k \in DOMAIN c : c[k] \in MCBuffer(k)}
====
