----------------------------- MODULE AlfsDirNum -----------------------------
(***************************************************************************)
(* The directory-number map of ALFS (src/lib/alfs/alfs_embdir.c, lines    *)
(* 67-71 and 679-792).  alfs_embdir_dirNumMap[i] is the dinode number of  *)
(* the directory with number i, 0 when i is free; it lives on disk in      *)
(* ALFS_EMBDIR_DIRNUMBLOCKS blocks, is read by mountDisk and written back  *)
(* by unmountDisk.  allocDirNum searches from alfs_embdir_lastDirNum up,   *)
(* then from 1 up to it, and returns i << 16, or -1 when nothing is free.  *)
(* The callers (mkdir and rmdir of the file system) are not in the tree:  *)
(* they mount, allocate a number for a new directory, and free the number *)
(* of a directory they remove.  `dirs` records the callers' directories, *)
(* each with a fresh dinode number and the directory number it was given. *)
(*                                                                         *)
(* A returned number is kept as i: the shift is lossless, as i is below   *)
(* ALFS_EMBDIR_MAXDIRNUM < 2^16, and transDirNum undoes it.               *)
(***************************************************************************)
EXTENDS Integers

CONSTANTS
  MaxDirNum,   \* ALFS_EMBDIR_MAXDIRNUM (8 * BLOCK_SIZE / 4 - 1 in the code)
  RootDirNo,   \* rootdirno passed to initDisk
  RootInum,    \* rootinum passed to initDisk
  Inodes       \* non-zero dinode numbers of directories the callers create

NoDirNum == -1   \* allocDirNum's (unsigned) -1
DirNums == 0..MaxDirNum

VARIABLES
  dirNumMap,   \* alfs_embdir_dirNumMap, in memory
  lastDirNum,  \* alfs_embdir_lastDirNum
  disk,        \* the map as stored in the DIRNUMBLOCKS blocks
  mounted,     \* between mountDisk and unmountDisk
  dirs,        \* the callers' directories: [num, ino] records
  res          \* the latest call and its result

dirvars == <<dirNumMap, lastDirNum, disk, mounted, dirs, res>>

\* alfs_embdir_initDisk (lines 679-696) has written initMap, zero but for
\* the root, to the first block and zeros to the others; the static map
\* and lastDirNum start at 0 and 1 (lines 70-71)
DirInit ==
  /\ disk = [i \in DirNums |-> IF i = RootDirNo THEN RootInum ELSE 0]
  /\ dirNumMap = [i \in DirNums |-> 0]
  /\ lastDirNum = 1
  /\ mounted = FALSE
  /\ dirs = {[num |-> RootDirNo, ino |-> RootInum]}
  /\ res = [op |-> "init", num |-> RootDirNo]

\* alfs_embdir_mountDisk (lines 699-707): the blocks are read into the map
MountDisk ==
  /\ ~mounted
  /\ dirNumMap' = disk /\ mounted' = TRUE
  /\ res' = [op |-> "mount", num |-> 0]
  /\ UNCHANGED <<lastDirNum, disk, dirs>>

\* mutant: the map is not written back
UnmountDiskNoWrite ==
  /\ mounted
  /\ mounted' = FALSE
  /\ res' = [op |-> "unmount", num |-> 0]
  /\ UNCHANGED <<dirNumMap, lastDirNum, disk, dirs>>

\* alfs_embdir_unmountDisk (lines 710-718): the map is written back
UnmountDisk ==
  /\ mounted
  /\ disk' = dirNumMap /\ mounted' = FALSE
  /\ res' = [op |-> "unmount", num |-> 0]
  /\ UNCHANGED <<dirNumMap, lastDirNum, dirs>>

\* the first i in lo..hi-1 with a free entry, or hi
FirstFree(lo, hi) ==
  LET F == {i \in lo..(hi - 1) : dirNumMap[i] = 0}
  IN IF F = {} THEN hi ELSE CHOOSE i \in F : \A j \in F : i <= j

\* mutant: no wrap-around search below lastDirNum
AllocSearchNoWrap ==
  LET up == FirstFree(lastDirNum, MaxDirNum)
  IN IF up # MaxDirNum THEN up ELSE NoDirNum

\* the two loops of alfs_embdir_allocDirNum: lastDirNum .. MAXDIRNUM - 1,
\* then 1 .. lastDirNum - 1
AllocSearch ==
  LET up == FirstFree(lastDirNum, MaxDirNum)
  IN IF up # MaxDirNum THEN up
     ELSE IF FirstFree(1, lastDirNum) = lastDirNum THEN NoDirNum
     ELSE FirstFree(1, lastDirNum)

\* alfs_embdir_allocDirNum(dinodeNum) (lines 757-782)
AllocDirNum(d) ==
  /\ mounted
  /\ LET i == AllocSearch IN
     IF i = NoDirNum
       THEN /\ res' = [op |-> "alloc", num |-> NoDirNum]
            /\ UNCHANGED <<dirNumMap, lastDirNum, dirs>>
       ELSE /\ dirNumMap' = [dirNumMap EXCEPT ![i] = d]
            /\ lastDirNum' = i
            /\ dirs' = dirs \cup {[num |-> i, ino |-> d]}
            /\ res' = [op |-> "alloc", num |-> i]
  /\ UNCHANGED <<disk, mounted>>

\* alfs_embdir_deallocDirNum(dirnum) (lines 784-792), called for a
\* directory the caller removes; assert(dirnum < ALFS_EMBDIR_MAXDIRNUM)
DeallocDirNum(dir) ==
  /\ mounted
  /\ dir.num < MaxDirNum
  /\ dirNumMap' = [dirNumMap EXCEPT ![dir.num] = 0]
  /\ dirs' = dirs \ {dir}
  /\ res' = [op |-> "dealloc", num |-> dir.num]
  /\ UNCHANGED <<lastDirNum, disk, mounted>>

DirNext ==
  \/ MountDisk \/ UnmountDisk
  \/ \E d \in Inodes \ {x.ino : x \in dirs} : AllocDirNum(d)
  \/ \E dir \in dirs : dir.num # RootDirNo /\ DeallocDirNum(dir)

DirSpec == DirInit /\ [][DirNext]_dirvars

(***************************************************************************)
(* Properties.                                                             *)
(***************************************************************************)
\* The map is the callers' directories, whatever mounts, unmounts,
\* allocations and frees came before: allocDirNum never gives out the
\* root's number or one a live directory holds (its two loops skip every
\* entry that is not 0), every number is freed by deallocDirNum alone, and
\* what unmountDisk stores is what the next mountDisk reads back.  Between
\* mounts it is the copy on disk that must match.
MapMatchesDirs ==
  LET m == IF mounted THEN dirNumMap ELSE disk
  IN /\ \A x, y \in dirs : x.num = y.num => x = y
     /\ \A i \in DirNums : m[i] = IF \E x \in dirs : x.num = i
                                  THEN (CHOOSE x \in dirs : x.num = i).ino
                                  ELSE 0

\* allocDirNum reports the map full (-1) only when it is: the search from
\* lastDirNum up and the wrap-around search from 1 together visit every
\* number from 1 to ALFS_EMBDIR_MAXDIRNUM - 1, wherever earlier calls
\* left lastDirNum.
FullOnlyWhenFull ==
  res = [op |-> "alloc", num |-> NoDirNum] =>
    1..(MaxDirNum - 1) \subseteq {x.num : x \in dirs}
====
