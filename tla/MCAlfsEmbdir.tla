---------------------------- MODULE MCAlfsEmbdir ----------------------------
(* Model-checking instance of AlfsEmbdir: a directory of up to two blocks *)
(* of two six-unit sectors, four names of two entry sizes; composed with  *)
(* the directory-number map of AlfsDirNum, whose calls interleave with    *)
(* the directory calls (both are library state of one ALFS process) and  *)
(* count towards the same bound MaxOps.                                   *)
EXTENDS AlfsEmbdir, AlfsDirNum, TLC

CONSTANTS n1, n2, n3, n4
MCNames == {n1, n2, n3, n4}
Symm == Permutations(MCNames)

MCInit == Init /\ DirInit

MCNext ==
  \/ Next /\ UNCHANGED dirvars
  \/ DirNext /\ Calling /\ UNCHANGED <<mem, nblocks, status, last>>

MCSpec == MCInit /\ [][MCNext]_<<vars, dirvars>>
====
