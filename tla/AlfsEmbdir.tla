----------------------------- MODULE AlfsEmbdir -----------------------------
(***************************************************************************)
(* The directory blocks of ALFS (src/lib/alfs/alfs_embdir.c).  A block is *)
(* SECTORS "sectors"; a sector holds a chain of entries, each a header     *)
(* (type, name, nameLen/contentLen, entryLen, preventryLen) followed by    *)
(* its name and content.  entryLen leads from one entry to the next and   *)
(* may exceed the entry's own size (embdirentsize): the excess is free    *)
(* space.  preventryLen leads back to the previous entry of the sector.   *)
(*                                                                         *)
(* Lengths are in 4-byte units (all entry sizes are rounded up to 4 bytes, *)
(* header comment at lines 44-50).  The header defining embdirentsize and *)
(* the sector size is not in the tree: an entry's size is a number in     *)
(* Sizes, fixed when it is added and left in its header (nameLen and      *)
(* contentLen) until the header is overwritten.                           *)
(*                                                                         *)
(* mem[b][o] is the header stored at offset o of directory block b, or    *)
(* Junk where no header was ever written; headers left behind by a removal *)
(* or a move stay in memory as the code leaves them.  Each call runs to    *)
(* completion with the blocks it holds; the buffer cache is not modelled.  *)
(***************************************************************************)
EXTENDS Integers, Sequences, FiniteSets
LOCAL INSTANCE SequencesExt

CONSTANTS
  SECTOR,      \* ALFS_EMBDIR_SECTOR_SIZE, in 4-byte units
  SECTORS,     \* sectors per block: BLOCK_SIZE / ALFS_EMBDIR_SECTOR_SIZE
  MaxBlocks,   \* bound on the directory's length, in blocks
  Names,       \* the names callers add and remove
  Sizes,       \* the entry sizes (embdirentsize) callers' entries have
  DotSize,     \* embdirentsize of the "." and ".." entries
  MaxOps,      \* bound on the number of calls
  Junk, NoName

BLOCK == SECTOR * SECTORS

Dots == {".", ".."}

Header == [type : {0, 1}, name : Names \cup Dots \cup {NoName},
           size : 0..SECTOR, entryLen : 0..BLOCK, prev : 0..BLOCK]

VARIABLES
  mem,       \* block -> offset -> header or Junk
  nblocks,   \* the directory's length (alfs_dinode_getLength), in blocks
  status,    \* "ok", or "assert"/"hang" once a call aborted or looped
  last,      \* the latest call and its result
  ops        \* calls made

vars == <<mem, nblocks, status, last, ops>>

Call(op, n, ret) == [op |-> op, name |-> n, ret |-> ret]

(***************************************************************************)
(* Walking entries.                                                        *)
(***************************************************************************)
\* the offsets `for (i = ...; i < end; i += dirent->entryLen)` visits in
\* block m; -1 marks a header never written or an entryLen of 0, where the
\* code would read garbage or loop forever
RECURSIVE Walk(_, _, _)
Walk(m, i, end) ==
  IF i >= end THEN <<>>
  ELSE IF m[i] = Junk \/ m[i].entryLen = 0 THEN <<-1>>
  ELSE <<i>> \o Walk(m, i + m[i].entryLen, end)

Entries(m, i, end) == Range(Walk(m, i, end)) \ {-1}

\* the free space of an entry: all of a deleted one, else the excess
Extra(h) == IF h.type = 0 THEN h.entryLen ELSE h.entryLen - h.size

Live(h, n) == h.type # 0 /\ h.name = n

Blocks == 0..(nblocks - 1)
SectorStarts == {<<b, k * SECTOR>> : b \in Blocks, k \in 0..(SECTORS - 1)}

\* scan order: by block, then by offset
FirstOf(S) == CHOOSE p \in S : \A q \in S : p[1] * BLOCK + p[2] <= q[1] * BLOCK + q[2]

(***************************************************************************)
(* alfs_embdir_getblockforname: one sector at a time, the entry with the  *)
(* name (found), the first entry with room for the new one, and the first *)
(* sector whose free space adds up to it.  The sector is only remembered  *)
(* when no entry with room precedes it, and is only used when no entry   *)
(* with room exists at all (addEntry, prevDirent == NULL).               *)
(***************************************************************************)
SectorEntries(p) == {<<p[1], o>> : o \in Entries(mem[p[1]], p[2], p[2] + SECTOR)}

\* mutant: the name compared without the `dirent->type != 0` test
FoundAnyType(n) == \E p \in SectorStarts : \E e \in SectorEntries(p) : mem[e[1]][e[2]].name = n

Found(n) == \E p \in SectorStarts : \E e \in SectorEntries(p) : Live(mem[e[1]][e[2]], n)

FreeDirents(len) ==
  {e \in UNION {SectorEntries(p) : p \in SectorStarts} : Extra(mem[e[1]][e[2]]) >= len}

ExtraSpaceCount(p) ==
  FoldLeft(LAMBDA acc, o : acc + IF o = -1 THEN 0 ELSE Extra(mem[p[1]][o]),
           0, Walk(mem[p[1]], p[2], p[2] + SECTOR))

CompressibleSectors(len) == {p \in SectorStarts : ExtraSpaceCount(p) >= len}

\* alfs_embdir_lookupname: a whole block at a time
LookupHits(n) ==
  {<<b, o>> \in Blocks \X (0..(BLOCK - 1)) :
      o \in Entries(mem[b], 0, BLOCK) /\ Live(mem[b][o], n)}

(***************************************************************************)
(* Block contents.                                                         *)
(***************************************************************************)
\* a header's preventryLen set, where a header is there to set
SetPrev(m, o, v) ==
  IF o \in DOMAIN m /\ m[o] # Junk THEN [m EXCEPT ![o].prev = v] ELSE m

\* alfs_embdir_initDirBlock: one free entry per sector; nameLen and
\* contentLen of a fresh buffer are not written (size 0 here): such an
\* entry always has room, so compressEntries never reads them
InitDirBlock ==
  [o \in 0..(BLOCK - 1) |->
     IF o % SECTOR = 0
       THEN [type |-> 0, name |-> NoName, size |-> 0, entryLen |-> SECTOR, prev |-> 0]
       ELSE Junk]

\* alfs_embdir_compressEntries(dirBlock, SECTOR) over the sector at st of
\* block m: each entry with free space that is not the last gives it to
\* the next, which is copied down to abut it; returns the last entry
RECURSIVE Compress(_, _, _, _)
Compress(m, st, i, d) ==
  IF i >= SECTOR THEN [mem |-> m, last |-> d, res |-> "ok"]
  ELSE LET o  == st + i
           h  == m[o]
           x  == h.entryLen - h.size
           nl == h.entryLen - x
           nx == [m[o + h.entryLen] EXCEPT !.entryLen = @ + x, !.prev = nl]
       IN IF h = Junk \/ h.entryLen = 0 THEN [mem |-> m, last |-> d, res |-> "hang"]
          ELSE IF x < 0 THEN [mem |-> m, last |-> o, res |-> "assert"]
          ELSE IF x # 0 /\ SECTOR > i + h.entryLen
            THEN Compress([m EXCEPT ![o].entryLen = nl, ![o + h.entryLen] = nx,
                                    ![o + nl] = nx], st, i + nl, o)
            ELSE Compress(m, st, i + h.entryLen, o)

\* addEntry once it has prevDirent at o in block m: shrink prevDirent to its
\* size, put the new entry in the space freed with all of it as entryLen,
\* and point the following entry of the sector back at it; the caller then
\* gives the new entry its type
Place(m, o, n, len) ==
  LET x  == Extra(m[o])
      pl == m[o].entryLen - x
      no == o + pl
      m1 == [m EXCEPT ![o].entryLen = pl]
      m2 == [m1 EXCEPT ![no] = [type |-> 1, name |-> n, size |-> len,
                                entryLen |-> x, prev |-> pl]]
  IN IF (no + x) % SECTOR # 0 THEN SetPrev(m2, no + x, x) ELSE m2

\* the new block's first sector is the new entry's
NewBlock(n, len) ==
  [InitDirBlock EXCEPT ![0] = [type |-> 1, name |-> n, size |-> len,
                               entryLen |-> SECTOR, prev |-> 0]]

\* mutant: the next entry's preventryLen left as it was
RemoveLinkByEntryKeepNext(m, o) ==
  LET d == m[o]
  IN IF o % SECTOR = 0 THEN [m EXCEPT ![o].type = 0]
     ELSE [m EXCEPT ![o].type = 0, ![o - d.prev].entryLen = @ + d.entryLen]

\* mutant: the previous entry's entryLen shrunk instead of grown
RemoveLinkByEntrySub(m, o) ==
  LET d == m[o]
  IN IF o % SECTOR = 0 THEN [m EXCEPT ![o].type = 0]
     ELSE [m EXCEPT ![o].type = 0, ![o - d.prev].entryLen = @ - d.entryLen]

\* alfs_embdir_removeLink_byEntry on the entry at o of block m
RemoveLinkByEntry(m, o) ==
  LET d  == m[o]
      m1 == [m EXCEPT ![o].type = 0]
      p  == o - d.prev
      m2 == [m1 EXCEPT ![p].entryLen = @ + d.entryLen]
  IN IF o % SECTOR = 0 THEN m1
     ELSE IF (o + d.entryLen) % SECTOR # 0
            THEN SetPrev(m2, o + d.entryLen, m2[p].entryLen)
            ELSE m2

(***************************************************************************)
(* The calls.                                                              *)
(***************************************************************************)
\* alfs_embdir_initDir / initDirRaw with a parent: "." then ".." in the
\* extra space of "."
Init ==
  /\ mem = [b \in 0..(MaxBlocks - 1) |->
              IF b = 0
                THEN [InitDirBlock EXCEPT
                        ![0] = [type |-> 1, name |-> ".", size |-> DotSize,
                                entryLen |-> DotSize, prev |-> 0],
                        ![DotSize] = [type |-> 1, name |-> "..", size |-> DotSize,
                                      entryLen |-> SECTOR - DotSize, prev |-> DotSize]]
                ELSE [o \in 0..(BLOCK - 1) |-> Junk]]
  /\ nblocks = 1 /\ status = "ok" /\ ops = 0
  /\ last = Call("init", ".", 0)

Calling == status = "ok" /\ ops < MaxOps /\ ops' = ops + 1

\* addEntry's last step from prevDirent at e = <<b, o>> of memory m:
\* assert(extraSpace >= entryLen), then Place
Finish(m, e, n, len) ==
  IF Extra(m[e[1]][e[2]]) < len
    THEN /\ status' = "assert" /\ UNCHANGED last
         /\ mem' = [m EXCEPT ![e[1]][e[2]].entryLen = @ - Extra(m[e[1]][e[2]])]
    ELSE /\ mem' = [m EXCEPT ![e[1]] = Place(@, e[2], n, len)]
         /\ last' = Call("add", n, 0) /\ UNCHANGED status

\* alfs_embdir_addEntry(name, entry size len)
AddEntry(n, len) ==
  /\ Calling
  /\ IF Found(n)
       THEN last' = Call("add", n, 1) /\ UNCHANGED <<mem, nblocks, status>>
     ELSE IF FreeDirents(len) # {}
       THEN Finish(mem, FirstOf(FreeDirents(len)), n, len) /\ UNCHANGED nblocks
     ELSE IF CompressibleSectors(len) # {}
       THEN LET p == FirstOf(CompressibleSectors(len))
                c == Compress(mem[p[1]], p[2], 0, p[2])
                m == [mem EXCEPT ![p[1]] = c.mem]
            IN /\ UNCHANGED nblocks
               /\ IF c.res = "ok" THEN Finish(m, <<p[1], c.last>>, n, len)
                  ELSE status' = c.res /\ mem' = m /\ UNCHANGED last
     ELSE /\ nblocks < MaxBlocks
          /\ mem' = [mem EXCEPT ![nblocks] = NewBlock(n, len)]
          /\ nblocks' = nblocks + 1
          /\ last' = Call("add", n, 0) /\ UNCHANGED status

\* alfs_embdir_removeLink_byName: lookupname, then removeLink_byEntry
RemoveLinkByName(n) ==
  /\ Calling
  /\ UNCHANGED <<nblocks, status>>
  /\ IF LookupHits(n) = {}
       THEN last' = Call("remove", n, 0) /\ UNCHANGED mem
       ELSE LET e == FirstOf(LookupHits(n))
            IN /\ mem' = [mem EXCEPT ![e[1]] = RemoveLinkByEntry(@, e[2])]
               /\ last' = Call("remove", n, 1)

Next ==
  \/ \E n \in Names, len \in Sizes : AddEntry(n, len)
  \/ \E n \in Names : RemoveLinkByName(n)

Spec == Init /\ [][Next]_vars

(***************************************************************************)
(* Properties.                                                             *)
(***************************************************************************)
TypeOK ==
  /\ nblocks \in 1..MaxBlocks /\ ops \in 0..MaxOps
  /\ status \in {"ok", "assert", "hang"}
  /\ \A b \in DOMAIN mem : \A o \in DOMAIN mem[b] : mem[b][o] \in Header \cup {Junk}

\* The sector layout every walk relies on (header comment, lines 48-50):
\* in every sector the entryLen chain ends exactly at the sector's end, every
\* live entry fits in its entryLen, a deleted entry is only ever a sector's
\* first, and each other entry's preventryLen leads back to the entry before
\* it, which removeLink_byEntry and addEntry use to find their neighbours.
WellFormed ==
  status = "ok" =>
    \A p \in SectorStarts :
      LET w == Walk(mem[p[1]], p[2], p[2] + SECTOR)
      IN /\ \A k \in DOMAIN w : w[k] # -1
         /\ w # <<>> /\ w[1] = p[2]
         /\ mem[p[1]][w[Len(w)]].entryLen + w[Len(w)] = p[2] + SECTOR
         /\ \A k \in DOMAIN w :
              LET h == mem[p[1]][w[k]]
              IN /\ h.type # 0 => h.size <= h.entryLen
                 /\ h.type = 0 => k = 1
                 /\ k > 1 => h.prev = mem[p[1]][w[k - 1]].entryLen

\* The names the directory holds: the live entries of its sectors.
LiveNames ==
  {mem[e[1]][e[2]].name : e \in {e \in UNION {SectorEntries(p) : p \in SectorStarts} :
                                     mem[e[1]][e[2]].type # 0}}

\* addEntry and removeLink_byName behave as the set of names their header
\* comments describe: adding a present name or removing an absent one
\* changes nothing and says so, every other call adds or removes exactly
\* that name, and "." and ".." stay.  Checked up to the point a call aborts.
Abstract == INSTANCE EmbdirNames WITH names <- LiveNames

ImplementsNames == Abstract!Spec

\* addEntry's assert(extraSpace >= entryLen) (line 345) never fails: the
\* sector getblockforname chose for compression has the room it counted.
NoAddEntryAbort == status # "assert"
====
