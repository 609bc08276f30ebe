----------------------------- MODULE EmbdirNames -----------------------------
(***************************************************************************)
(* What an ALFS directory with embedded content promises its callers, as  *)
(* the header comments of src/lib/alfs/alfs_embdir.c state it: a directory *)
(* is the set of names it holds, "." and ".." from initDir on.             *)
(* alfs_embdir_addEntry adds a name and returns 0, or returns 1 when the  *)
(* name already exists; alfs_embdir_removeLink_byName removes a name and  *)
(* returns 1, or returns 0 when it is not there.  `last` is the latest    *)
(* call with its result, so that every call is a visible step.            *)
(***************************************************************************)
CONSTANT Names            \* the names callers add and remove

VARIABLES names, last

Dots == {".", ".."}

Call(op, n, ret) == [op |-> op, name |-> n, ret |-> ret]

Init == names = Dots /\ last = Call("init", ".", 0)

Add(n) ==
  /\ last' = Call("add", n, IF n \in names THEN 1 ELSE 0)
  /\ names' = names \cup {n}

Remove(n) ==
  /\ last' = Call("remove", n, IF n \in names THEN 1 ELSE 0)
  /\ names' = names \ {n}

Next == \E n \in Names : Add(n) \/ Remove(n)

Spec == Init /\ [][Next]_<<names, last>>
====
