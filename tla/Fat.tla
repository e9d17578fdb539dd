-------------------------------- MODULE Fat --------------------------------
(***************************************************************************)
(* The FAT16 file system of app/lib/fat/fat.na: one cached block, written  *)
(* through; two copies of the table; descriptors that follow a chain of    *)
(* clusters and write the directory entry when they are closed.            *)
(*                                                                         *)
(* A call is a sequence of steps, one per block that is fetched or         *)
(* flushed: at each the card may fail (set_fat_error switches it off until *)
(* fat_mount), and between any two the power may fail.  The tables and the *)
(* directory are kept; of the data blocks only the addresses are, which is *)
(* what TransferInPlace is about.                                          *)
(***************************************************************************)
EXTENDS Integers, FiniteSets

CONSTANTS
  Names,             (* files of the root directory                       *)
  None,              (* INVALID_BLOCK_ADDR, and the name of no file       *)
  Fds,               (* descriptors                                       *)
  BlockSize, BlocksPerCluster,
  Entries, Sectors,  (* entries in a sector of the table, sectors in it   *)
  NFats,             (* copies of the table                               *)
  Lens,              (* lengths programs read and write                   *)
  MaxSize,           (* bound on the size of a file                       *)
  MaxFaults,         (* bound on failures of the card and of the power    *)
  ReuseTruncated     (* programs go on with a file truncated to nothing   *)

ASSUME GeometryAssumption ==
  /\ BlockSize \in Nat \ {0} /\ BlocksPerCluster \in Nat \ {0}
  /\ Entries \in Nat \ {0} /\ Sectors \in Nat \ {0} /\ Entries * Sectors > 2
  /\ NFats \in 1 .. 2
ASSUME ProgramsAssumption ==
  /\ Fds \subseteq Nat
  /\ Lens \subseteq Nat \ {0} /\ MaxSize \in Nat /\ MaxFaults \in Nat
  /\ ReuseTruncated \in BOOLEAN
  /\ None \notin Names

VARIABLES
  disk,       (* contents of the tables and of the directory              *)
  card,       (* on, or off after an error                                *)
  cacheAddr,  (* cache_block_addr                                         *)
  cache,      (* cache_block                                              *)
  fd,         (* fat_private_file_desc                                    *)
  job,        (* the call that is running                                 *)
  cut,        (* history: files truncated whose entry is not yet written  *)
  torn,       (* history: files a failure caught in a change not written  *)
  faults      (* history: failures so far                                 *)

vars == <<disk, card, cacheAddr, cache, fd, job, cut, torn, faults>>

End == 65535                         (* 0xffff               *)
IsLast(c) == c >= 65528              (* FAT_MIN_LAST_CLUSTER *)
ClusterSize == BlockSize * BlocksPerCluster
Clusters == 2 .. Entries * Sectors - 1
U16(x) == x % 65536

At(pc) == job.pc = pc
Desc == fd[job.d]                    (* of the call that is running *)
Usable(d) == ~fd[d].free /\ ~fd[d].stale
Unsaved ==
  {fd[d].name : d \in {d \in Fds : Usable(d) /\ (fd[d].modified \/ job.d = d)}}

---------------------------------------------------------------------------
(* The card. *)

(* fat_mount leaves fat1_offset alone when there is one table: it is zero, *)
(* and the sectors written there are the first of the card.                *)
Table(s) == <<"fat", s>>
Mirror(s) == IF NFats = 2 THEN <<"mirror", s>> ELSE <<"boot", s>>
Dir == <<"dir", 0>>
Data(b) == <<"data", b>>
FirstBlock(c) == (c - 2) * BlocksPerCluster

SectorNumbers == 0 .. Sectors - 1
TableBlocks == {<<k, s>> : k \in {"fat", "mirror", "boot"}, s \in SectorNumbers}
DataBlocks == {Data(b) : b \in 0 .. FirstBlock(Entries * Sectors) - 1}

(* INVALID_BLOCK_ADDR is the address of no block. *)
ASSUME NoneAssumption == None \notin TableBlocks \cup DataBlocks \cup {Dir}

Sector(c) == c \div Entries
EmptyEntry == [used |-> FALSE, cluster |-> 0, size |-> 0]
FreeTable(s) == [i \in 0 .. Entries - 1 |-> IF s * Entries + i < 2 THEN End ELSE 0]

(* A card just formatted. *)
Formatted ==
  [b \in TableBlocks \cup {Dir} |->
     IF b = Dir THEN [n \in Names |-> EmptyEntry] ELSE FreeTable(b[2])]

Contents == <<>>                     (* of a data block *)
OnCard(b) == IF b \in DOMAIN disk THEN disk[b] ELSE Contents
Get(b) == IF cacheAddr = b THEN cache ELSE OnCard(b)
Entry(c) == Get(Table(Sector(c)))[c % Entries]
WithEntry(b, c, v) == [Get(b) EXCEPT ![c % Entries] = v]

(* A card that is off answers with an error as well. *)
CardFails ==
  /\ card = "on" => faults < MaxFaults
  /\ faults' = IF card = "on" THEN faults + 1 ELSE faults
  /\ torn' = IF card = "on" THEN torn \cup Unsaved ELSE torn
  /\ card' = "off"

(* cache: a hit needs no card.                                             *)
Fetch(b, miss, ok) ==
  \/ /\ ok /\ (card = "on" \/ ~miss)
     /\ cacheAddr' = b /\ cache' = Get(b)
     /\ UNCHANGED <<disk, card, torn, faults>>
  \/ /\ ~ok /\ miss /\ CardFails
     /\ cacheAddr' = None /\ cache' = <<>>
     /\ UNCHANGED disk

Stored(b, block) == IF b \in DOMAIN disk THEN [disk EXCEPT ![b] = block] ELSE disk

(* flush_cache.  A write that fails may or may not have reached the card,  *)
(* and the block stays in the cache as if it had.                          *)
Flush(b, block, ok) ==
  /\ cacheAddr' = b /\ cache' = block
  /\ \/ /\ ok /\ card = "on"
        /\ disk' = Stored(b, block)
        /\ UNCHANGED <<card, torn, faults>>
     \/ /\ ~ok /\ CardFails
        /\ disk' \in IF card = "on" THEN {disk, Stored(b, block)} ELSE {disk}

(* cache, then flush_cache of what it has become. *)
Update(b, block, miss, ok) ==
  \/ (card = "on" \/ ~miss) /\ Flush(b, block, ok)
  \/ ~ok /\ Fetch(b, miss, ok)

Miss(b) == cacheAddr # b

---------------------------------------------------------------------------
(* Descriptors and calls. *)

Free == [free |-> TRUE, stale |-> FALSE, name |-> None, modified |-> FALSE,
         cluster |-> 0, size |-> 0, last |-> 0, addr |-> 0, block |-> 0,
         index |-> 0, next |-> End, cur |-> 0, pos |-> 0]

IsOpen(n) == \E d \in Fds : Usable(d) /\ fd[d].name = n
NextFd(d) == fd[d].free /\ \A e \in Fds : fd[e].free => d <= e

Idle == [pc |-> "idle", d |-> 0, write |-> FALSE, left |-> 0, new |-> 0,
         from |-> 0, whole |-> FALSE]
Return == job' = Idle
Goto(pc) == job' = [job EXCEPT !.pc = pc]
Set(f) == fd' = [fd EXCEPT ![job.d] = f]

(* fat_private_init_fd: at the beginning of the file.                      *)
LastLen(size) ==
  IF size = 0 THEN 0
  ELSE IF size % ClusterSize = 0 THEN ClusterSize ELSE size % ClusterSize
Opened(n, e, next) ==
  [Free EXCEPT !.free = FALSE, !.name = n, !.cluster = e.cluster, !.size = e.size,
               !.last = LastLen(e.size), !.addr = FirstBlock(e.cluster),
               !.next = next, !.cur = e.cluster]

(* Programs open a file once at a time, and leave alone one whose          *)
(* truncation never reached the directory.                                 *)
MayOpen(n) == At("idle") /\ ~IsOpen(n) /\ n \notin cut

(* fat_open_file of an entry that exists. *)
OpenFile(n) ==
  /\ MayOpen(n)
  /\ \E d \in Fds, ok \in BOOLEAN :
       LET e == Get(Dir)[n]
           t == Table(Sector(e.cluster))
           b == IF e.cluster = 0 THEN Dir ELSE t
           next == IF e.cluster = 0 THEN End ELSE Entry(e.cluster)
       IN  /\ NextFd(d)
           /\ e.used
           /\ Fetch(b, Miss(Dir) \/ e.cluster # 0, ok)
           /\ fd' = IF ok /\ next # 0 THEN [fd EXCEPT ![d] = Opened(n, e, next)] ELSE fd
  /\ UNCHANGED <<job, cut>>

(* fat_open_file with O_CREAT of one that does not. *)
CreateFile(n) ==
  /\ MayOpen(n)
  /\ \E d \in Fds, ok \in BOOLEAN :
       LET e == [EmptyEntry EXCEPT !.used = TRUE]
       IN  /\ NextFd(d)
           /\ ~Get(Dir)[n].used
           /\ Update(Dir, [Get(Dir) EXCEPT ![n] = e], Miss(Dir), ok)
           /\ fd' = IF ok THEN [fd EXCEPT ![d] = Opened(n, e, End)] ELSE fd
  /\ UNCHANGED <<job, cut>>

(* fat_close: a descriptor that is not stale writes its entry, and nobody  *)
(* looks whether that succeeds.                                            *)
CloseFile(d) ==
  /\ At("idle") /\ ~fd[d].free
  /\ LET f == fd[d]
         e == [used |-> TRUE, cluster |-> f.cluster, size |-> f.size]
     IN  IF f.modified /\ ~f.stale
           THEN \E ok \in BOOLEAN :
                  /\ Update(Dir, [Get(Dir) EXCEPT ![f.name] = e], Miss(Dir), ok)
                  /\ cut' = IF ok THEN cut \ {f.name} ELSE cut
           ELSE UNCHANGED <<disk, card, cacheAddr, cache, cut, torn, faults>>
  /\ fd' = [fd EXCEPT ![d] = Free]
  /\ UNCHANGED job

MountKeepsCache ==
  /\ At("idle") /\ card = "off"
  /\ card' \in {"on", "off"}
  /\ fd' = [d \in Fds |-> [fd[d] EXCEPT !.stale = ~fd[d].free]]
  /\ UNCHANGED <<disk, cacheAddr, cache, job, cut, torn, faults>>

(* fat_mount after the card has been switched off. *)
Mount ==
  /\ At("idle") /\ card = "off"
  /\ card' \in {"on", "off"}
  /\ cacheAddr' = None /\ cache' = <<>>
  /\ fd' = [d \in Fds |-> [fd[d] EXCEPT !.stale = ~fd[d].free]]
  /\ UNCHANGED <<disk, job, cut, torn, faults>>

(* The power fails; fat_init and fat_mount follow. *)
Crash ==
  /\ faults < MaxFaults
  /\ faults' = faults + 1
  /\ card' = "on"
  /\ cacheAddr' = None /\ cache' = <<>>
  /\ fd' = [d \in Fds |-> Free]
  /\ torn' = torn \cup Unsaved
  /\ Return
  /\ UNCHANGED <<disk, cut>>

InUse(d) ==
  Usable(d) /\ (ReuseTruncated \/ ~(fd[d].name \in cut /\ fd[d].cluster = 0))
MayUse(d) == At("idle") /\ InUse(d)

---------------------------------------------------------------------------
(* fat_read and fat_write: fat_action. *)

StartTransfer(d, n, write) ==
  /\ MayUse(d)
  /\ write => fd[d].pos + n <= MaxSize
  /\ job' = [Idle EXCEPT !.pc = "transfer", !.d = d, !.write = write, !.left = n]
  /\ UNCHANGED <<disk, card, cacheAddr, cache, fd, cut, torn, faults>>

Continue(left) ==
  IF left = 0 THEN Return
              ELSE job' = [job EXCEPT !.pc = "transfer", !.left = left, !.new = 0]

(* A file that has no cluster yet, or whose last one is full.              *)
NeedsCluster(f) == f.cur = 0 \/ (IsLast(f.next) /\ f.block = BlocksPerCluster)

FreeEntries == {c \in 0 .. Entries * Sectors - 1 : Entry(c) = 0}
FirstFree == LET free == FreeEntries IN {c \in free : \A e \in free : c <= e}

(* alloc_cluster: four writes; the first copy of the table goes first for  *)
(* the cluster that is taken, the second for the one it is linked to.      *)
TakeCluster ==
  /\ At("transfer") /\ job.write /\ NeedsCluster(Desc)
  /\ \E c \in FirstFree, ok \in BOOLEAN :
       LET b == Table(Sector(c))
       IN  /\ Update(b, WithEntry(b, c, End), Miss(Table(0)) \/ b # Table(0), ok)
           /\ IF ok THEN job' = [job EXCEPT !.pc = "takeMirror", !.new = c] ELSE Return
  /\ UNCHANGED <<fd, cut>>

DiskFull ==
  /\ At("transfer") /\ job.write /\ NeedsCluster(Desc)
  /\ FreeEntries = {}
  /\ \E ok \in BOOLEAN : Fetch(Table(Sectors - 1), Miss(Table(0)) \/ Sectors > 1, ok)
  /\ Return
  /\ UNCHANGED <<fd, cut>>

AttachedStaleBlock(f, c) ==
  [f EXCEPT !.cur = c, !.next = End, !.addr = FirstBlock(c), !.modified = TRUE,
            !.cluster = IF f.cur = 0 THEN c ELSE @,
            !.last = IF f.cur = 0 THEN @ ELSE 0]

Attached(f, c) ==
  IF f.cur = 0
    THEN [f EXCEPT !.cur = c, !.next = End, !.addr = FirstBlock(c),
                   !.cluster = c, !.modified = TRUE]
    ELSE [f EXCEPT !.cur = c, !.next = End, !.addr = FirstBlock(c),
                   !.last = 0, !.block = 0]

TakeMirror ==
  /\ At("takeMirror")
  /\ \E ok \in BOOLEAN :
       /\ Flush(Mirror(Sector(job.new)), cache, ok)
       /\ CASE ok /\ Desc.cur = 0 -> Set(Attached(Desc, job.new)) /\ Continue(job.left)
            [] ok /\ Desc.cur # 0 -> UNCHANGED fd /\ Goto("link")
            [] ~ok                -> UNCHANGED fd /\ Return
  /\ UNCHANGED cut

LinkClusterInFirst ==
  /\ At("link")
  /\ \E ok \in BOOLEAN :
       LET b == Table(Sector(Desc.cur))
       IN  /\ Update(b, WithEntry(b, Desc.cur, job.new), Miss(b), ok)
           /\ IF ok THEN Goto("linkMirror") ELSE Return
  /\ UNCHANGED <<fd, cut>>

LinkCluster ==
  /\ At("link")
  /\ \E ok \in BOOLEAN :
       LET b == Mirror(Sector(Desc.cur))
       IN  /\ Update(b, WithEntry(b, Desc.cur, job.new), Miss(b), ok)
           /\ IF ok THEN Goto("linkMirror") ELSE Return
  /\ UNCHANGED <<fd, cut>>

LinkMirror ==
  /\ At("linkMirror")
  /\ \E ok \in BOOLEAN :
       /\ Flush(Table(Sector(Desc.cur)), cache, ok)
       /\ IF ok THEN Set(Attached(Desc, job.new)) /\ Continue(job.left)
                ELSE UNCHANGED fd /\ Return
  /\ UNCHANGED cut

(* How much of the current block is transferred, and what it does to the   *)
(* size.  The arithmetic is that of 16-bit words.                          *)
Remainder(f) == U16(f.last - f.block * BlockSize)
InLastBlock(f) == IsLast(f.next) /\ Remainder(f) <= BlockSize
Room(f) == IF InLastBlock(f) THEN U16(Remainder(f) - f.index) ELSE BlockSize - f.index
Grows(f) == job.write /\ InLastBlock(f) /\ job.left > Room(f)
Least(x, y) == IF x < y THEN x ELSE y
ChunkLen(f) == Least(job.left, IF Grows(f) THEN BlockSize - f.index ELSE Room(f))
Grown(f) ==
  LET delta == U16(f.index + ChunkLen(f) - Remainder(f))
  IN  IF Grows(f)
        THEN [f EXCEPT !.last = U16(@ + delta), !.size = @ + delta, !.modified = TRUE]
        ELSE f

(* seek_advance, but for the step into the next cluster. *)
AtBlockEnd(f, n) == f.index + n = BlockSize
AtClusterEnd(f, n) == AtBlockEnd(f, n) /\ f.block + 1 = BlocksPerCluster
AdvancedNoWrap(f, n) ==
  [f EXCEPT !.pos = @ + n, !.index = @ + n,
            !.block = IF AtBlockEnd(f, n) THEN @ + 1 ELSE @]
Advanced(f, n) ==
  [f EXCEPT !.pos = @ + n,
            !.index = IF AtBlockEnd(f, n) THEN 0 ELSE @ + n,
            !.block = IF AtBlockEnd(f, n) THEN @ + 1 ELSE @,
            !.addr = IF AtBlockEnd(f, n) /\ ~AtClusterEnd(f, n) THEN @ + 1 ELSE @]

TransferChunk ==
  /\ At("transfer")
  /\ ~(job.write /\ NeedsCluster(Desc))
  /\ ChunkLen(Desc) > 0
  /\ \E ok \in BOOLEAN :
       LET n == ChunkLen(Desc)
           b == Data(Desc.addr)
           f == Grown(Desc)
       IN  /\ IF job.write THEN Update(b, Contents, Miss(b), ok)
                           ELSE Fetch(b, Miss(b), ok)
           /\ Set(IF ok THEN Advanced(f, n) ELSE f)
           /\ CASE ~ok -> Return
                [] ok /\ AtClusterEnd(Desc, n) /\ ~IsLast(Desc.next) ->
                     job' = [job EXCEPT !.pc = "cross", !.left = @ - n]
                [] OTHER -> Continue(job.left - n)
  /\ UNCHANGED cut

EndOfFile ==
  /\ At("transfer")
  /\ ~(job.write /\ NeedsCluster(Desc))
  /\ ChunkLen(Desc) = 0
  /\ Return
  /\ UNCHANGED <<disk, card, cacheAddr, cache, fd, cut, torn, faults>>

(* seek_advance into the next cluster. *)
CrossCluster ==
  /\ At("cross")
  /\ \E ok \in BOOLEAN :
       LET b == Table(Sector(Desc.next))
           next == IF ok THEN Entry(Desc.next) ELSE 0
           f == [Desc EXCEPT !.addr = FirstBlock(Desc.next), !.cur = Desc.next,
                             !.next = next]
       IN  /\ Fetch(b, Miss(b), ok)
           /\ IF next = 0 THEN Set(f) /\ Return
                          ELSE Set([f EXCEPT !.block = 0]) /\ Continue(job.left)
  /\ UNCHANGED cut

---------------------------------------------------------------------------
(* fat_truncate. *)

EndedShort(f) == [f EXCEPT !.next = End, !.last = f.pos % ClusterSize]

(* The length of the last cluster once the chain behind it is gone. *)
Ended(f) ==
  LET n == f.pos % ClusterSize
  IN  [f EXCEPT !.next = End,
                !.last = IF n = 0 /\ f.block # 0 THEN ClusterSize ELSE n]

Emptied(f) == [f EXCEPT !.cur = 0, !.next = End]

AtClusterStart(f) == f.block = 0 /\ f.index = 0
Resized(f) == [f EXCEPT !.size = f.pos, !.modified = TRUE]

StartTruncate(d, pc, f, from, whole) ==
  /\ MayUse(d) /\ fd[d].pos # fd[d].size
  /\ fd' = [fd EXCEPT ![d] = f]
  /\ cut' = cut \cup {f.name}
  /\ job' = IF pc = "idle" THEN Idle
            ELSE [Idle EXCEPT !.pc = pc, !.d = d, !.from = from, !.whole = whole]

(* To nothing: the whole chain is freed. *)
TruncateWhole(d) ==
  LET f == fd[d]
  IN  /\ AtClusterStart(f) /\ f.cur = f.cluster
      /\ StartTruncate(d, "free", [Resized(f) EXCEPT !.cluster = 0], f.cur, TRUE)
      /\ UNCHANGED <<disk, card, cacheAddr, cache, torn, faults>>

(* At the start of a cluster. *)
TruncateBetween(d) ==
  LET f == fd[d]
  IN  /\ AtClusterStart(f) /\ f.cur # f.cluster
      /\ StartTruncate(d, "parent", Resized(f), f.cluster, FALSE)
      /\ UNCHANGED <<disk, card, cacheAddr, cache, torn, faults>>

(* find_parent_cluster, one cluster: the walk from the first one stops at  *)
(* the cluster that leads to cur_cluster, where the chain will be cut.     *)
FindParent ==
  /\ At("parent")
  /\ \E ok \in BOOLEAN :
       LET b == Table(Sector(job.from))
           next == IF ok THEN Entry(job.from) ELSE 0
       IN  /\ Fetch(b, Miss(b), ok)
           /\ \/ /\ next = Desc.cur
                 /\ Set([Desc EXCEPT !.next = Desc.cur, !.cur = job.from,
                                     !.block = BlocksPerCluster])
                 /\ job' = [job EXCEPT !.pc = "cut", !.from = Desc.cur]
              \/ /\ next # Desc.cur
                 /\ UNCHANGED fd
                 /\ IF next = 0 \/ IsLast(next)
                      THEN Return ELSE job' = [job EXCEPT !.from = next]
  /\ UNCHANGED cut

TruncateInsideKeepsChain(d) ==
  /\ ~AtClusterStart(fd[d])
  /\ StartTruncate(d, "idle", Ended(Resized(fd[d])), 0, FALSE)
  /\ UNCHANGED <<disk, card, cacheAddr, cache, torn, faults>>
TruncateInside(d) ==
  LET f == fd[d]
  IN  /\ ~AtClusterStart(f)
      /\ IF IsLast(f.next)
           THEN StartTruncate(d, "idle", Ended(Resized(f)), 0, FALSE)
           ELSE StartTruncate(d, "cut", Resized(f), f.next, FALSE)
      /\ UNCHANGED <<disk, card, cacheAddr, cache, torn, faults>>

CutNext ==
  /\ At("cut")
  /\ \E ok \in BOOLEAN :
       LET b == Table(Sector(job.from))
       IN  /\ Update(b, WithEntry(b, job.from, End), Miss(b), ok)
           /\ IF ok THEN Goto("cutMirror") ELSE Return
  /\ UNCHANGED <<fd, cut>>

(* write_fat_entry: both copies of the table. *)
CutChain ==
  /\ At("cut")
  /\ \E ok \in BOOLEAN :
       LET b == Table(Sector(Desc.cur))
       IN  /\ Update(b, WithEntry(b, Desc.cur, End), Miss(b), ok)
           /\ IF ok THEN Goto("cutMirror") ELSE Return
  /\ UNCHANGED <<fd, cut>>

CutMirror ==
  /\ At("cutMirror")
  /\ \E ok \in BOOLEAN :
       LET b == Mirror(Sector(Desc.cur))
       IN  /\ Update(b, WithEntry(b, Desc.cur, End), Miss(b), ok)
           /\ IF ok THEN Goto("free") ELSE Return
  /\ UNCHANGED <<fd, cut>>

(* free_cluster_chain, one cluster.  Whatever becomes of it, a file that   *)
(* was truncated to nothing has no cluster any more.                       *)
AbortFree ==
  /\ IF job.whole THEN Set(Emptied(Desc)) ELSE UNCHANGED fd
  /\ Return

FreeCluster ==
  /\ At("free")
  /\ \E ok \in BOOLEAN :
       LET b == Table(Sector(job.from))
           next == Entry(job.from)
       IN  /\ IF next = 0 THEN Fetch(b, Miss(b), ok)
                          ELSE Update(b, WithEntry(b, job.from, 0), Miss(b), ok)
           /\ IF ok /\ next # 0
                THEN UNCHANGED fd /\ job' = [job EXCEPT !.pc = "freeMirror", !.new = next]
                ELSE AbortFree
  /\ UNCHANGED cut

FreeMirror ==
  /\ At("freeMirror")
  /\ \E ok \in BOOLEAN :
       LET b == Mirror(Sector(job.from))
       IN  /\ Update(b, WithEntry(b, job.from, 0), Miss(b), ok)
           /\ CASE ~ok -> AbortFree
                [] ok /\ ~IsLast(job.new) ->
                     UNCHANGED fd /\ job' = [job EXCEPT !.pc = "free", !.from = job.new, !.new = 0]
                [] ok /\ IsLast(job.new) ->
                     Set(IF job.whole THEN Emptied(Desc) ELSE Ended(Desc)) /\ Return
  /\ UNCHANGED cut

---------------------------------------------------------------------------
(* fat_seek_end. *)

AtEndNoBlock(f) ==
  [f EXCEPT !.pos = f.size, !.block = f.last \div BlockSize,
            !.index = f.last % BlockSize, !.addr = FirstBlock(f.cur)]
AtEnd(f) ==
  LET block == f.last \div BlockSize
  IN  [f EXCEPT !.pos = f.size, !.block = block, !.index = f.last % BlockSize,
                !.addr = FirstBlock(f.cur) + block]

StartSeek(d) ==
  /\ MayUse(d)
  /\ job' = [Idle EXCEPT !.pc = "seek", !.d = d]
  /\ UNCHANGED <<disk, card, cacheAddr, cache, fd, cut, torn, faults>>

SeekOnStale ==
  /\ At("seek") /\ ~IsLast(Desc.next)
  /\ \E ok \in BOOLEAN :
       LET b == Table(Sector(Desc.cur))
           next == IF ok THEN Entry(Desc.cur) ELSE 0
       IN  /\ Fetch(b, Miss(b), ok)
           /\ Set([Desc EXCEPT !.next = next])
           /\ IF next = 0 THEN Return ELSE UNCHANGED job
  /\ UNCHANGED cut

SeekOn ==
  /\ At("seek") /\ ~IsLast(Desc.next)
  /\ \E ok \in BOOLEAN :
       LET b == Table(Sector(Desc.next))
           next == IF ok THEN Entry(Desc.next) ELSE 0
       IN  /\ Fetch(b, Miss(b), ok)
           /\ Set([Desc EXCEPT !.cur = Desc.next, !.next = next])
           /\ IF next = 0 THEN Return ELSE UNCHANGED job
  /\ UNCHANGED cut

EndSeek ==
  /\ At("seek") /\ IsLast(Desc.next)
  /\ Set(AtEnd(Desc)) /\ Return
  /\ UNCHANGED <<disk, card, cacheAddr, cache, cut, torn, faults>>

---------------------------------------------------------------------------
Init ==
  /\ disk = Formatted
  /\ card = "on" /\ cacheAddr = None /\ cache = <<>>
  /\ fd = [d \in Fds |-> Free]
  /\ job = Idle
  /\ cut = {} /\ torn = {} /\ faults = 0

Call ==
  \/ \E n \in Names : OpenFile(n) \/ CreateFile(n)
  \/ \E d \in Fds :
       \/ CloseFile(d) \/ StartSeek(d)
       \/ TruncateWhole(d) \/ TruncateBetween(d) \/ TruncateInside(d)
       \/ \E n \in Lens, write \in BOOLEAN : StartTransfer(d, n, write)

Step ==
  \/ TakeCluster \/ DiskFull \/ TakeMirror \/ LinkCluster \/ LinkMirror
  \/ TransferChunk \/ EndOfFile \/ CrossCluster
  \/ FindParent \/ CutChain \/ CutMirror \/ FreeCluster \/ FreeMirror
  \/ SeekOn \/ EndSeek

Next == Call \/ Step \/ Mount \/ Crash

Spec == Init /\ [][Next]_vars

(* A call that runs goes on. *)
FairSpec == Spec /\ WF_vars(Step)

---------------------------------------------------------------------------
(* Properties. *)

(* The chain that begins at c: its nth cluster in the first table. *)
OnDisk(c) == disk[Table(Sector(c))][c % Entries]
Nth(c) ==
  LET nth[i \in 0 .. Entries * Sectors] ==
        IF i = 0 THEN c
        ELSE LET before == nth[i - 1]
             IN  IF before \in Clusters THEN OnDisk(before) ELSE before
  IN  nth
Chain(c) == LET nth == Nth(c) IN {nth[i] : i \in DOMAIN nth} \cap Clusters

(* What a file is: what its descriptor says while the card can be told of  *)
(* it, or else its directory entry.                                        *)
File(n) ==
  IF IsOpen(n) /\ card = "on"
    THEN LET d == CHOOSE d \in Fds : Usable(d) /\ fd[d].name = n
         IN  [cluster |-> fd[d].cluster, size |-> fd[d].size]
    ELSE [cluster |-> disk[Dir][n].cluster, size |-> disk[Dir][n].size]
ClustersOf(size) == (size + ClusterSize - 1) \div ClusterSize
BlockOf(c, x) ==
  Data(FirstBlock(Nth(c)[x \div ClusterSize]) + (x % ClusterSize) \div BlockSize)

Descriptor ==
  [free : BOOLEAN, stale : BOOLEAN, name : Names \cup {None}, modified : BOOLEAN,
   cluster : {0} \cup Clusters, size : Nat, last : 0 .. End, addr : Int,
   block : 0 .. BlocksPerCluster, index : 0 .. BlockSize - 1,
   next : 0 .. End, cur : {0} \cup Clusters, pos : Nat]
Steps == {"idle", "transfer", "takeMirror", "link", "linkMirror", "cross",
          "parent", "cut", "cutMirror", "free", "freeMirror", "seek"}
Moving == {"seek", "transfer", "takeMirror", "link", "linkMirror", "cross"}

TypeOK ==
  /\ DOMAIN disk = TableBlocks \cup {Dir}
  /\ \A b \in TableBlocks : disk[b] \in [0 .. Entries - 1 -> 0 .. End]
  /\ disk[Dir] \in [Names -> [used : BOOLEAN, cluster : {0} \cup Clusters, size : Nat]]
  /\ card \in {"on", "off"}
  /\ cacheAddr \in TableBlocks \cup DataBlocks \cup {Dir, None}
  /\ fd \in [Fds -> Descriptor]
  /\ job \in [pc : Steps, d : Fds \cup {0}, write : BOOLEAN, left : Nat,
              new : 0 .. End, from : 0 .. End, whole : BOOLEAN]
  /\ cut \subseteq Names /\ torn \subseteq Names
  /\ faults \in 0 .. MaxFaults

Whole(n) == n \notin torn
Growth(f) == IF job.write /\ f.pos > Desc.size THEN f.pos ELSE Desc.size

(* Between calls every file is whole: its chain is as long as its size     *)
(* needs and shares no cluster with another, whatever has failed, unless   *)
(* the failure came while the file itself was being changed.               *)
FilesWhole ==
  At("idle") => \A n \in Names : Whole(n) =>
    LET f == File(n)
        k == ClustersOf(f.size)
    IN  /\ (f.cluster = 0 <=> k = 0)
        /\ k > 0 => /\ Cardinality(Chain(f.cluster)) = k
                    /\ IsLast(Nth(f.cluster)[k])
        /\ \A m \in Names \ {n} :
             Whole(m) => Chain(f.cluster) \cap Chain(File(m).cluster) = {}

(* Every chunk that is read or written is the one that the chain, followed *)
(* from the file's first cluster, holds at the pointer; it is inside the   *)
(* file, and a write makes the file longer by what lies past its old end.  *)
TransferInPlace ==
  [][TransferChunk /\ Whole(Desc.name) =>
       LET f == fd'[job.d]
       IN  f.pos # Desc.pos =>
             /\ cacheAddr' = BlockOf(f.cluster, Desc.pos)
             /\ Desc.index = Desc.pos % BlockSize
             /\ f.pos <= f.size
             /\ f.size = Growth(f)]_vars

(* last_cluster_len is the "number of bytes in the last cluster in the     *)
(* chain" (private.h), for every descriptor that programs go on with: in   *)
(* every step of every call but the truncation of this file, also when a   *)
(* cluster has been linked and nothing is in it yet.                       *)
Truncates(d) == job.d = d /\ ~At("idle") /\ job.pc \notin Moving
LastClusterLen ==
  card = "on" => \A d \in Fds : InUse(d) /\ Whole(fd[d].name) /\ ~Truncates(d) =>
    LET k == Cardinality(Chain(fd[d].cluster))
    IN  fd[d].size = fd[d].last + (IF k = 0 THEN 0 ELSE (k - 1) * ClusterSize)

(* Between calls the two copies of the table agree until something fails.  *)
TablesAgree ==
  At("idle") /\ faults = 0 => \A s \in SectorNumbers : disk[Table(s)] = disk[Mirror(s)]

(* The second copy of the table is written to its own place ("write fat1", *)
(* alloc_cluster): the first blocks of the card stay as they are.          *)
BootIntact == \A s \in SectorNumbers : disk[<<"boot", s>>] = FreeTable(s)

(* While the card answers, the cached block is the block on the card: no   *)
(* error leaves a block in the cache that was never stored.                *)
CacheFresh == card = "on" /\ cacheAddr # None => cache = OnCard(cacheAddr)

(* Whenever the card or the power fails, the directory entries left on the *)
(* card lead to clusters that are taken, and no two of them to the same    *)
(* one - but for files whose truncation has not reached the directory.     *)
ChainsApart ==
  LET chain == [n \in Names |-> Chain(disk[Dir][n].cluster)]
  IN  \A n \in Names \ cut :
        /\ \A x \in chain[n] : OnDisk(x) # 0
        /\ \A m \in Names \ (cut \cup {n}) : chain[n] \cap chain[m] = {}

(* Every call returns. *)
CallReturns == ~At("idle") ~> At("idle")

=============================================================================
