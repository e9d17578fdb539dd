------------------------------ MODULE FatProofs ------------------------------
(***************************************************************************)
(* The cached block is the block on the card, and the two copies of the    *)
(* table agree, for every geometry of the card and every number of files.  *)
(*                                                                         *)
(* Neither is inductive.  A step stores what it finds in the cache, so it  *)
(* has to be known which sector that is; and a step changes one entry of   *)
(* the sector that holds a cluster, so every cluster that a descriptor, a  *)
(* call, the directory or the table names has to be on the card.           *)
(***************************************************************************)
EXTENDS Fat, TLAPS

Nums == 0 .. Entries * Sectors - 1
Ptrs == Nums \cup {End}
TableBlock == [0 .. Entries - 1 -> Ptrs]
DirOK(x) ==
  DOMAIN x = Names /\ \A n \in Names : DOMAIN x[n] = DOMAIN EmptyEntry /\ x[n].cluster \in Nums
BlockOK(b, x) ==
  /\ b \in TableBlocks => x \in TableBlock
  /\ b = Dir => DirOK(x)

(* The card and the cache. *)
DiskOK ==
  /\ DOMAIN disk = TableBlocks \cup {Dir}
  /\ \A b \in DOMAIN disk : BlockOK(b, disk[b])
Store == DiskOK /\ BlockOK(cacheAddr, cache) /\ CacheFresh
Counts == faults \in Nat /\ card \in {"on", "off"} /\ (faults = 0 => card = "on")

(* What descriptors and calls point to. *)
DescOK(f) ==
  /\ DOMAIN f = DOMAIN Free
  /\ f.cluster \in Nums /\ f.cur \in Nums /\ f.next \in Ptrs
Descs == DOMAIN fd = Fds /\ \A d \in Fds : DescOK(fd[d])
Jobs ==
  /\ DOMAIN job = DOMAIN Idle
  /\ job.pc # "idle" => job.d \in Fds
  /\ job.from \in Nums /\ job.new \in Ptrs
  /\ job.pc \in {"takeMirror", "link", "linkMirror"} => job.new \in Nums
  /\ job.pc = "cross" => ~IsLast(Desc.next)
  /\ job.pc = "takeMirror" => cacheAddr = Table(Sector(job.new))
  /\ job.pc = "linkMirror" => cacheAddr = Mirror(Sector(Desc.cur))

(* The copies of the table while nothing has failed. *)
Halfway == {"takeMirror", "linkMirror", "cutMirror", "freeMirror"}
Same(k, s) == k[Table(s)] = k[Mirror(s)]
AheadBy(k, s, c, v) ==
  IF s = Sector(c) THEN k[Table(s)] = [k[Mirror(s)] EXCEPT ![c % Entries] = v]
                   ELSE Same(k, s)
Copied(s) ==
  /\ job.pc = "takeMirror" => s = Sector(job.new) \/ Same(disk, s)
  /\ job.pc = "linkMirror" => s = Sector(Desc.cur) \/ Same(disk, s)
  /\ job.pc = "cutMirror" => AheadBy(disk, s, Desc.cur, End)
  /\ job.pc = "freeMirror" => AheadBy(disk, s, job.from, 0)
  /\ job.pc \notin Halfway => Same(disk, s)
Copies == faults = 0 => \A s \in SectorNumbers : Copied(s)

IInv == Store /\ Counts /\ Descs /\ Jobs /\ Copies

---------------------------------------------------------------------------
(* Where a cluster's entry is. *)

LEMMA Sizes ==
  /\ Entries \in Nat /\ Entries > 0 /\ Sectors \in Nat /\ Sectors > 0
  /\ Entries * Sectors \in Nat /\ Entries * Sectors > 2
  /\ 0 \in Nums /\ 1 \in Nums /\ Nums \subseteq Nat
  BY GeometryAssumption DEF Nums

LEMMA EntryPlace ==
  ASSUME NEW c \in Nums
  PROVE  Sector(c) \in SectorNumbers /\ c % Entries \in 0 .. Entries - 1
  BY Sizes DEF Nums, Sector, SectorNumbers

LEMMA Blocks ==
  ASSUME NEW s \in SectorNumbers
  PROVE  /\ Table(s) \in TableBlocks /\ Mirror(s) \in TableBlocks
         /\ Table(s) # Mirror(s) /\ Table(s) # None /\ Mirror(s) # None
         /\ \A r \in SectorNumbers \ {s} : Table(r) # Table(s) /\ Mirror(r) # Mirror(s)
         /\ \A r \in SectorNumbers : Table(r) # Mirror(s)
  BY NoneAssumption DEF Table, Mirror, TableBlocks

LEMMA DirApart == Dir \notin TableBlocks /\ \A a : Data(a) \notin TableBlocks \cup {Dir}
  BY DEF Dir, Data, TableBlocks

---------------------------------------------------------------------------
(* What a step does to the card and to the cache. *)

LEMMA GetOK ==
  ASSUME Store, NEW b
  PROVE  /\ BlockOK(b, Get(b))
         /\ card = "on" /\ b # None => Get(b) = OnCard(b)
  BY DEF Store, DiskOK, CacheFresh, Get, OnCard, BlockOK

LEMMA EntryOK ==
  ASSUME Store, NEW c \in Nums
  PROVE  Entry(c) \in Ptrs
  <1>1. Table(Sector(c)) \in TableBlocks /\ c % Entries \in 0 .. Entries - 1
    BY EntryPlace, Blocks
  <1>2. Get(Table(Sector(c))) \in TableBlock
    BY <1>1, GetOK DEF BlockOK
  <1> QED BY <1>1, <1>2 DEF Entry, TableBlock

LEMMA WithEntryOK ==
  ASSUME Store, NEW b \in TableBlocks, NEW c \in Nums, NEW v \in Ptrs
  PROVE  WithEntry(b, c, v) \in TableBlock
  <1>1. Get(b) \in TableBlock
    BY GetOK DEF BlockOK
  <1> QED BY <1>1, EntryPlace DEF WithEntry, TableBlock

Failed == faults' # 0
Fetched(b, ok) ==
  /\ Store' /\ Counts' /\ disk' = disk
  /\ IF ok THEN cacheAddr' = b /\ faults' = faults ELSE Failed
Written(b, block, ok) ==
  /\ Store' /\ Counts'
  /\ IF ok THEN /\ disk' = Stored(b, block) /\ (b # None => Get(b) = OnCard(b))
                /\ cacheAddr' = b /\ faults' = faults
           ELSE Failed

LEMMA CardFailsEffect ==
  ASSUME Counts, CardFails
  PROVE  Counts' /\ Failed /\ card' = "off"
  BY DEF Counts, CardFails, Failed

LEMMA FetchEffect ==
  ASSUME Store, Counts, NEW b, NEW miss \in BOOLEAN, NEW ok \in BOOLEAN,
         Fetch(b, miss, ok)
  PROVE  Fetched(b, ok)
  <1>1. CASE ok /\ cacheAddr' = b /\ cache' = Get(b) /\ UNCHANGED <<disk, card, torn, faults>>
    <2>1. BlockOK(b, Get(b)) /\ (card = "on" /\ b # None => Get(b) = OnCard(b))
      BY GetOK
    <2> QED BY <1>1, <2>1 DEF Fetched, Store, DiskOK, CacheFresh, OnCard, Counts, BlockOK
  <1>2. CASE ~ok /\ CardFails /\ cacheAddr' = None /\ cache' = <<>> /\ UNCHANGED disk
    <2>1. BlockOK(None, <<>>)
      BY NoneAssumption DEF BlockOK
    <2> QED BY <1>2, <2>1, CardFailsEffect DEF Fetched, Store, DiskOK, CacheFresh, BlockOK
  <1> QED BY <1>1, <1>2 DEF Fetch

LEMMA FlushEffect ==
  ASSUME Store, Counts, NEW b, NEW block, BlockOK(b, block),
         b \notin DOMAIN disk => block = Contents, NEW ok \in BOOLEAN,
         Flush(b, block, ok)
  PROVE  Written(b, block, ok)
  <1>1. disk' \in {disk, Stored(b, block)} => DiskOK'
    BY DEF Store, DiskOK, Stored, BlockOK
  <1>2. BlockOK(cacheAddr, cache)'
    BY DEF Flush, BlockOK
  <1>3. CASE ok /\ card = "on" /\ disk' = Stored(b, block) /\ UNCHANGED <<card, torn, faults>>
    <2>1. CacheFresh'
      BY <1>3 DEF Flush, CacheFresh, OnCard, Stored, Store, DiskOK
    <2> QED BY <1>1, <1>2, <1>3, <2>1, GetOK DEF Written, Store, Counts, Flush
  <1>4. CASE ~ok /\ CardFails /\ disk' \in {disk, Stored(b, block)}
    BY <1>1, <1>2, <1>4, CardFailsEffect DEF Written, Store, CacheFresh
  <1> QED BY <1>3, <1>4 DEF Flush

LEMMA UpdateEffect ==
  ASSUME Store, Counts, NEW b, NEW block, BlockOK(b, block),
         b \notin DOMAIN disk => block = Contents, NEW miss \in BOOLEAN, NEW ok \in BOOLEAN,
         Update(b, block, miss, ok)
  PROVE  Written(b, block, ok)
  <1>1. CASE Flush(b, block, ok)
    BY <1>1, FlushEffect
  <1>2. CASE ~ok /\ Fetch(b, miss, ok)
    BY <1>2, FetchEffect DEF Fetched, Written
  <1> QED BY <1>1, <1>2 DEF Update

---------------------------------------------------------------------------
(* Descriptors and calls. *)

LEMMA SetKeeps ==
  ASSUME Descs, NEW d \in Fds, NEW f, DescOK(f), fd' = [fd EXCEPT ![d] = f]
  PROVE  Descs' /\ fd'[d] = f
  BY DEF Descs, DescOK

LEMMA FreeOK == DescOK(Free)
  BY Sizes DEF DescOK, Free, Ptrs

LEMMA OpenedOK ==
  ASSUME NEW n, NEW e, DOMAIN e = DOMAIN EmptyEntry, e.cluster \in Nums, NEW next \in Ptrs
  PROVE  DescOK(Opened(n, e, next))
  BY DEF DescOK, Opened, Free

LEMMA AttachedOK ==
  ASSUME NEW f, DescOK(f), NEW c \in Nums
  PROVE  DescOK(Attached(f, c))
  BY DEF DescOK, Attached, Free, Ptrs

LEMMA GrownOK ==
  ASSUME NEW f, DescOK(f)
  PROVE  DescOK(Grown(f)) /\ Grown(f).cur = f.cur /\ Grown(f).next = f.next
  BY DEF DescOK, Grown, Free

LEMMA AdvancedOK ==
  ASSUME NEW f, DescOK(f), NEW n
  PROVE  DescOK(Advanced(f, n)) /\ Advanced(f, n).next = f.next
  BY DEF DescOK, Advanced, Free

LEMMA ResizedOK ==
  ASSUME NEW f, DescOK(f)
  PROVE  DescOK(Resized(f)) /\ Resized(f).cur = f.cur /\ Resized(f).next = f.next
  BY DEF DescOK, Resized, Free

LEMMA EndedOK ==
  ASSUME NEW f, DescOK(f)
  PROVE  DescOK(Ended(f))
  BY DEF DescOK, Ended, Free, Ptrs

LEMMA EmptiedOK ==
  ASSUME NEW f, DescOK(f)
  PROVE  DescOK(Emptied(f))
  BY Sizes DEF DescOK, Emptied, Free, Ptrs

LEMMA AtEndOK ==
  ASSUME NEW f, DescOK(f)
  PROVE  DescOK(AtEnd(f))
  BY DEF DescOK, AtEnd, Free

LEMMA ReturnKeeps ==
  ASSUME Return
  PROVE  Jobs' /\ job'.pc = "idle"
  BY Sizes DEF Return, Idle, Jobs, Ptrs

LEMMA StayIdle ==
  ASSUME Jobs, At("idle"), UNCHANGED job
  PROVE  Jobs' /\ job'.pc = "idle"
  BY DEF Jobs, At

LEMMA NextNum ==
  ASSUME NEW c \in Ptrs, ~IsLast(c)
  PROVE  c \in Nums
  BY DEF Ptrs, IsLast, End

---------------------------------------------------------------------------
(* What a step does to the copies of the table. *)

Kept ==
  \A s \in SectorNumbers :
    disk'[Table(s)] = disk[Table(s)] /\ disk'[Mirror(s)] = disk[Mirror(s)]

LEMMA CopiesKept ==
  ASSUME Copies, Kept, job.pc \notin Halfway, job'.pc \notin Halfway, faults' = faults
  PROVE  Copies'
  BY DEF Copies, Copied, Kept, Same, Halfway

LEMMA FailedCopies ==
  ASSUME Failed
  PROVE  Copies'
  BY DEF Copies, Failed

LEMMA FetchedCopies ==
  ASSUME Copies, NEW b, NEW ok \in BOOLEAN, Fetched(b, ok),
         job.pc \notin Halfway, job'.pc \notin Halfway
  PROVE  Copies'
  BY CopiesKept, FailedCopies DEF Fetched, Kept

LEMMA WrittenApart ==
  ASSUME Copies, NEW b, b \notin TableBlocks, NEW block, NEW ok \in BOOLEAN,
         Store, Written(b, block, ok), job.pc \notin Halfway, job'.pc \notin Halfway
  PROVE  Copies'
  <1>1. CASE ok
    <2>1. Kept
      BY <1>1, Blocks DEF Kept, Written, Stored, Store, DiskOK
    <2> QED BY <1>1, <2>1, CopiesKept DEF Written
  <1> QED BY <1>1, FailedCopies DEF Written

LEMMA EntryStored ==
  ASSUME Store, NEW c \in Nums, NEW v, NEW b \in TableBlocks,
         Written(b, WithEntry(b, c, v), TRUE)
  PROVE  /\ disk' = [disk EXCEPT ![b] = [disk[b] EXCEPT ![c % Entries] = v]]
         /\ faults' = faults
  BY NoneAssumption DEF Written, WithEntry, Stored, OnCard, Store, DiskOK

LEMMA FirstChanged ==
  ASSUME Store, NEW c \in Nums, NEW v, NEW b, b = Table(Sector(c)),
         \A s \in SectorNumbers : Same(disk, s), Written(b, WithEntry(b, c, v), TRUE)
  PROVE  \A s \in SectorNumbers : AheadBy(disk', s, c, v)
  <1>1. b \in TableBlocks /\ Sector(c) \in SectorNumbers
    BY EntryPlace, Blocks
  <1>2. disk' = [disk EXCEPT ![b] = [disk[b] EXCEPT ![c % Entries] = v]]
    BY <1>1, EntryStored
  <1> SUFFICES ASSUME NEW s \in SectorNumbers PROVE AheadBy(disk', s, c, v)
    OBVIOUS
  <1>3. disk'[Mirror(s)] = disk[Table(s)] /\ DOMAIN disk = TableBlocks \cup {Dir}
    BY <1>1, <1>2, Blocks DEF Same, Store, DiskOK
  <1>4. CASE s = Sector(c)
    BY <1>1, <1>2, <1>3, <1>4, Blocks DEF AheadBy
  <1>5. CASE s # Sector(c)
    BY <1>1, <1>2, <1>3, <1>5, Blocks DEF AheadBy, Same
  <1> QED BY <1>4, <1>5

LEMMA SecondChanged ==
  ASSUME Store, NEW c \in Nums, NEW v, NEW b, b = Mirror(Sector(c)),
         \A s \in SectorNumbers : AheadBy(disk, s, c, v), Written(b, WithEntry(b, c, v), TRUE)
  PROVE  \A s \in SectorNumbers : Same(disk', s)
  <1>1. b \in TableBlocks /\ Sector(c) \in SectorNumbers
    BY EntryPlace, Blocks
  <1>2. disk' = [disk EXCEPT ![b] = [disk[b] EXCEPT ![c % Entries] = v]]
    BY <1>1, EntryStored
  <1> SUFFICES ASSUME NEW s \in SectorNumbers PROVE Same(disk', s)
    OBVIOUS
  <1>3. DOMAIN disk = TableBlocks \cup {Dir}
    BY DEF Store, DiskOK
  <1>4. CASE s = Sector(c)
    BY <1>1, <1>2, <1>3, <1>4, Blocks DEF AheadBy, Same
  <1>5. CASE s # Sector(c)
    BY <1>1, <1>2, <1>3, <1>5, Blocks DEF AheadBy, Same
  <1> QED BY <1>4, <1>5

(* A change of one sector of the second copy, and the copy of one sector. *)
LEMMA OthersSame ==
  ASSUME Store, NEW r \in SectorNumbers, NEW b \in {Table(r), Mirror(r)}, NEW block,
         \A s \in SectorNumbers : s = r \/ Same(disk, s), Written(b, block, TRUE)
  PROVE  \A s \in SectorNumbers : s = r \/ Same(disk', s)
  <1>1. disk' = [disk EXCEPT ![b] = block]
    BY Blocks DEF Written, Stored, Store, DiskOK
  <1> QED BY <1>1, Blocks DEF Same, Store, DiskOK

LEMMA SectorCopied ==
  ASSUME Store, NEW r \in SectorNumbers, NEW a, NEW b,
         {a, b} = {Table(r), Mirror(r)},
         \A s \in SectorNumbers : s = r \/ Same(disk, s), Written(b, disk[a], TRUE)
  PROVE  \A s \in SectorNumbers : Same(disk', s)
  <1>1. disk' = [disk EXCEPT ![b] = disk[a]]
    BY Blocks DEF Written, Stored, Store, DiskOK
  <1>2. \A s \in SectorNumbers : s = r \/ Same(disk', s)
    BY OthersSame
  <1>3. Same(disk', r)
    BY <1>1, Blocks DEF Same, Store, DiskOK
  <1> QED BY <1>2, <1>3

---------------------------------------------------------------------------
(* The calls of programs. *)

LEMMA DirBlock ==
  ASSUME Store
  PROVE  /\ Dir \in DOMAIN disk /\ DirOK(Get(Dir))
         /\ \A n, e : DOMAIN e = DOMAIN EmptyEntry /\ e.cluster \in Nums =>
              BlockOK(Dir, [Get(Dir) EXCEPT ![n] = e])
  <1>1. DirOK(Get(Dir))
    BY GetOK DEF BlockOK
  <1> QED BY <1>1, DirApart DEF Store, DiskOK, BlockOK, DirOK

LEMMA TableBlockOf ==
  ASSUME NEW c \in Nums
  PROVE  /\ Table(Sector(c)) \in TableBlocks /\ Table(Sector(c)) # None
         /\ Mirror(Sector(c)) \in TableBlocks /\ Mirror(Sector(c)) # None
  BY EntryPlace, Blocks

LEMMA OpenFileKeeps ==
  ASSUME IInv, NEW n \in Names, OpenFile(n)
  PROVE  IInv'
  <1> USE DEF IInv
  <1>1. At("idle") /\ UNCHANGED job
    BY DEF OpenFile, MayOpen
  <1> DEFINE e == Get(Dir)[n]
             b == IF e.cluster = 0 THEN Dir ELSE Table(Sector(e.cluster))
             next == IF e.cluster = 0 THEN End ELSE Entry(e.cluster)
  <1>2. PICK d \in Fds, ok \in BOOLEAN :
          /\ Fetch(b, Miss(Dir) \/ e.cluster # 0, ok)
          /\ fd' = IF ok /\ next # 0 THEN [fd EXCEPT ![d] = Opened(n, e, next)] ELSE fd
    BY DEF OpenFile
  <1>3. DOMAIN e = DOMAIN EmptyEntry /\ e.cluster \in Nums
    BY DirBlock DEF DirOK
  <1>4. next \in Ptrs
    BY <1>3, EntryOK DEF Ptrs
  <1>5. Fetched(b, ok)
    BY <1>2, <1>4, FetchEffect
  <1>6. Descs'
    <2>1. DescOK(Opened(n, e, next))
      BY <1>3, <1>4, OpenedOK
    <2> QED BY <1>2, <2>1, SetKeeps DEF Descs
  <1>7. Jobs' /\ job'.pc = "idle" /\ job.pc = "idle"
    BY <1>1, StayIdle DEF At
  <1>8. Copies'
    BY <1>5, <1>7, FetchedCopies DEF Halfway
  <1> QED BY <1>5, <1>6, <1>7, <1>8 DEF Fetched

LEMMA CreateFileKeeps ==
  ASSUME IInv, NEW n \in Names, CreateFile(n)
  PROVE  IInv'
  <1> USE DEF IInv
  <1>1. At("idle") /\ UNCHANGED job
    BY DEF CreateFile, MayOpen
  <1> DEFINE e == [EmptyEntry EXCEPT !.used = TRUE]
             block == [Get(Dir) EXCEPT ![n] = e]
  <1>2. PICK d \in Fds, ok \in BOOLEAN :
          /\ Update(Dir, block, Miss(Dir), ok)
          /\ fd' = IF ok THEN [fd EXCEPT ![d] = Opened(n, e, End)] ELSE fd
    BY DEF CreateFile
  <1>3. DOMAIN e = DOMAIN EmptyEntry /\ e.cluster \in Nums /\ Miss(Dir) \in BOOLEAN
    BY Sizes DEF EmptyEntry, Miss
  <1>4. BlockOK(Dir, block) /\ Dir \in DOMAIN disk
    BY <1>3, DirBlock
  <1> HIDE DEF e, block
  <1>5. Written(Dir, block, ok)
    BY <1>2, <1>3, <1>4, UpdateEffect
  <1>6. Descs'
    <2>1. DescOK(Opened(n, e, End))
      BY <1>3, OpenedOK DEF Ptrs
    <2> QED BY <1>2, <2>1, SetKeeps DEF Descs
  <1>7. Jobs' /\ job'.pc = "idle" /\ job.pc = "idle"
    BY <1>1, StayIdle DEF At
  <1>8. Copies'
    BY <1>5, <1>7, WrittenApart, DirApart DEF Halfway
  <1> QED BY <1>5, <1>6, <1>7, <1>8 DEF Written

LEMMA CloseFileKeeps ==
  ASSUME IInv, NEW d \in Fds, CloseFile(d)
  PROVE  IInv'
  <1> USE DEF IInv
  <1> DEFINE e == [used |-> TRUE, cluster |-> fd[d].cluster, size |-> fd[d].size]
             block == [Get(Dir) EXCEPT ![fd[d].name] = e]
  <1>1. Jobs' /\ job'.pc = "idle" /\ job.pc = "idle"
    BY StayIdle DEF At, CloseFile
  <1>2. Descs'
    BY FreeOK, SetKeeps DEF CloseFile
  <1>3. CASE UNCHANGED <<disk, card, cacheAddr, cache, cut, torn, faults>>
    <2>1. Store' /\ Counts'
      BY <1>3 DEF Store, DiskOK, CacheFresh, OnCard, BlockOK, Counts
    <2>2. Copies'
      BY <1>1, <1>3, CopiesKept DEF Kept, Halfway
    <2> QED BY <1>1, <1>2, <2>1, <2>2
  <1>4. ASSUME NEW ok \in BOOLEAN, Update(Dir, block, Miss(Dir), ok) PROVE IInv'
    <2>1. DOMAIN e = DOMAIN EmptyEntry /\ e.cluster \in Nums /\ Miss(Dir) \in BOOLEAN
      BY DEF EmptyEntry, Miss, Descs, DescOK
    <2>2. BlockOK(Dir, block) /\ Dir \in DOMAIN disk
      BY <2>1, DirBlock
    <2> HIDE DEF e, block
    <2>3. Written(Dir, block, ok)
      BY <1>4, <2>1, <2>2, UpdateEffect
    <2>4. Copies'
      BY <1>1, <2>3, WrittenApart, DirApart DEF Halfway
    <2> QED BY <1>1, <1>2, <2>3, <2>4 DEF Written
  <1> QED BY <1>3, <1>4 DEF CloseFile

(* What changes descriptors and the call that runs, and no block. *)
LEMMA CardUntouched ==
  ASSUME IInv, UNCHANGED <<disk, card, cacheAddr, cache, torn, faults>>,
         Descs', Jobs', job.pc \notin Halfway, job'.pc \notin Halfway
  PROVE  IInv'
  <1>1. Store' /\ Counts'
    BY DEF IInv, Store, DiskOK, CacheFresh, OnCard, BlockOK, Counts
  <1>2. Copies'
    BY CopiesKept DEF Kept, IInv
  <1> QED BY <1>1, <1>2 DEF IInv

LEMMA StartTransferKeeps ==
  ASSUME IInv, NEW d \in Fds, NEW n \in Lens, NEW write \in BOOLEAN, StartTransfer(d, n, write)
  PROVE  IInv'
  <1>1. Descs'
    BY DEF IInv, StartTransfer, Descs, DescOK
  <1>2. Jobs' /\ job'.pc = "transfer" /\ job.pc = "idle"
    BY Sizes DEF StartTransfer, MayUse, InUse, At, Idle, Jobs, Ptrs
  <1> QED BY <1>1, <1>2, CardUntouched DEF StartTransfer, Halfway

LEMMA StartSeekKeeps ==
  ASSUME IInv, NEW d \in Fds, StartSeek(d)
  PROVE  IInv'
  <1>1. Descs'
    BY DEF IInv, StartSeek, Descs, DescOK
  <1>2. Jobs' /\ job'.pc = "seek" /\ job.pc = "idle"
    BY Sizes DEF StartSeek, MayUse, InUse, At, Idle, Jobs, Ptrs
  <1> QED BY <1>1, <1>2, CardUntouched DEF StartSeek, Halfway

LEMMA StartTruncateKeeps ==
  ASSUME IInv, NEW d \in Fds, NEW f, DescOK(f), NEW pc \in {"idle", "free", "parent", "cut"},
         NEW from \in Nums, NEW whole \in BOOLEAN, StartTruncate(d, pc, f, from, whole),
         UNCHANGED <<disk, card, cacheAddr, cache, torn, faults>>
  PROVE  IInv'
  <1>1. Descs'
    BY SetKeeps DEF IInv, StartTruncate
  <1>2. Jobs' /\ job'.pc = pc /\ job.pc = "idle"
    BY Sizes DEF StartTruncate, MayUse, InUse, At, Idle, Jobs, Ptrs
  <1> QED BY <1>1, <1>2, CardUntouched DEF Halfway

LEMMA TruncateKeeps ==
  ASSUME IInv, NEW d \in Fds, TruncateWhole(d) \/ TruncateBetween(d) \/ TruncateInside(d)
  PROVE  IInv'
  <1> DEFINE f == fd[d]
  <1>1. DescOK(f)
    BY DEF IInv, Descs
  <1>2. DescOK(Resized(f)) /\ DescOK([Resized(f) EXCEPT !.cluster = 0]) /\ DescOK(Ended(Resized(f)))
    BY <1>1, ResizedOK, EndedOK, Sizes DEF DescOK, Free
  <1>3. f.cur \in Nums /\ f.cluster \in Nums /\ 0 \in Nums /\ (~IsLast(f.next) => f.next \in Nums)
    BY <1>1, Sizes, NextNum DEF DescOK
  <1>4. CASE TruncateWhole(d)
    BY <1>2, <1>3, <1>4, StartTruncateKeeps DEF TruncateWhole
  <1>5. CASE TruncateBetween(d)
    BY <1>2, <1>3, <1>5, StartTruncateKeeps DEF TruncateBetween
  <1>6. CASE TruncateInside(d)
    BY <1>2, <1>3, <1>6, StartTruncateKeeps DEF TruncateInside
  <1> QED BY <1>4, <1>5, <1>6

---------------------------------------------------------------------------
(* The steps of reading and writing. *)

LEMMA Running ==
  ASSUME IInv, job.pc # "idle"
  PROVE  job.d \in Fds /\ DescOK(Desc) /\ Desc.cur \in Nums /\ Desc.next \in Ptrs
  BY DEF IInv, Jobs, Descs, DescOK, Desc

(* A call goes on with its job or ends, and its descriptor stays. *)
LEMMA FdStays ==
  ASSUME Descs, UNCHANGED fd
  PROVE  Descs'
  BY DEF Descs, DescOK

LEMMA ContinueKeeps ==
  ASSUME Jobs, job.pc # "idle", NEW left, Continue(left)
  PROVE  Jobs' /\ job'.pc \notin Halfway
  <1>1. CASE left = 0
    BY <1>1, ReturnKeeps DEF Continue, Halfway
  <1>2. CASE left # 0
    BY <1>2, Sizes DEF Continue, Jobs, Halfway, Idle, Ptrs
  <1> QED BY <1>1, <1>2

(* The call that fails: what it has left behind no longer matters to the   *)
(* copies.                                                                 *)
LEMMA FailedReturn ==
  ASSUME IInv, Failed, Store', Counts', Descs', Return
  PROVE  IInv'
  BY ReturnKeeps, FailedCopies DEF IInv

LEMMA TakeClusterKeeps ==
  ASSUME IInv, TakeCluster
  PROVE  IInv'
  <1>1. job.pc = "transfer" /\ Descs'
    BY FdStays DEF TakeCluster, At, IInv
  <1>2. PICK c \in FirstFree, ok \in BOOLEAN :
          LET b == Table(Sector(c))
          IN  /\ Update(b, WithEntry(b, c, End), Miss(Table(0)) \/ b # Table(0), ok)
              /\ IF ok THEN job' = [job EXCEPT !.pc = "takeMirror", !.new = c] ELSE Return
    BY DEF TakeCluster
  <1>3. c \in Nums
    BY DEF FirstFree, FreeEntries, Nums
  <1> DEFINE b == Table(Sector(c))
  <1>4. b \in TableBlocks
    BY <1>3, TableBlockOf
  <1>5. BlockOK(b, WithEntry(b, c, End)) /\ b \in DOMAIN disk
    BY <1>3, <1>4, WithEntryOK, DirApart DEF IInv, BlockOK, Ptrs, Store, DiskOK
  <1>6. Written(b, WithEntry(b, c, End), ok)
    BY <1>2, <1>4, <1>5, UpdateEffect DEF IInv
  <1>7. CASE ok
    <2>1. Jobs'
      BY <1>1, <1>2, <1>3, <1>6, <1>7 DEF IInv, Jobs, Written, Ptrs, Idle
    <2>2. Copies'
      <3> SUFFICES ASSUME faults' = 0 PROVE \A s \in SectorNumbers : Copied(s)'
        BY DEF Copies
      <3>1. \A s \in SectorNumbers : Same(disk, s)
        BY <1>1, <1>6, <1>7 DEF IInv, Copies, Copied, Halfway, Written
      <3>2. \A s \in SectorNumbers : AheadBy(disk', s, c, End)
        BY <1>3, <1>6, <1>7, <3>1, FirstChanged DEF IInv
      <3>3. job'.pc = "takeMirror" /\ job'.new = c
        BY <1>2, <1>7 DEF IInv, Jobs, Idle
      <3> QED BY <3>2, <3>3 DEF Copied, AheadBy, Halfway
    <2> QED BY <1>1, <1>6, <2>1, <2>2 DEF IInv, Written
  <1>8. CASE ~ok
    BY <1>1, <1>2, <1>6, <1>8, FailedReturn DEF Written
  <1> QED BY <1>7, <1>8

LEMMA DiskFullKeeps ==
  ASSUME IInv, DiskFull
  PROVE  IInv'
  <1>1. job.pc = "transfer" /\ Descs' /\ Return
    BY FdStays DEF DiskFull, At, IInv
  <1>2. PICK ok \in BOOLEAN : Fetch(Table(Sectors - 1), Miss(Table(0)) \/ Sectors > 1, ok)
    BY DEF DiskFull
  <1>3. Miss(Table(0)) \in BOOLEAN
    BY DEF Miss
  <1>4. Fetched(Table(Sectors - 1), ok)
    BY <1>2, <1>3, Sizes, FetchEffect DEF IInv
  <1>5. Copies' /\ Jobs'
    BY <1>1, <1>4, ReturnKeeps, FetchedCopies DEF IInv, Halfway
  <1> QED BY <1>1, <1>4, <1>5 DEF IInv, Fetched

(* The other copy of the sector that is in the cache. *)
LEMMA CachedSector ==
  ASSUME IInv, NEW c \in Nums, NEW a, NEW b, {a, b} = {Table(Sector(c)), Mirror(Sector(c))},
         cacheAddr = a, NEW ok \in BOOLEAN, Flush(b, cache, ok)
  PROVE  /\ Written(b, cache, ok)
         /\ ok => cache = disk[a]
  <1>1. {a, b} \subseteq TableBlocks /\ a # None /\ b # None
    BY TableBlockOf
  <1>2. BlockOK(b, cache) /\ b \in DOMAIN disk
    BY <1>1, DirApart DEF IInv, Store, DiskOK, BlockOK
  <1>3. Written(b, cache, ok)
    BY <1>1, <1>2, FlushEffect DEF IInv
  <1>4. ok => card = "on"
    BY DEF Flush
  <1> QED BY <1>1, <1>3, <1>4 DEF IInv, Store, DiskOK, CacheFresh, OnCard

LEMMA TakeMirrorKeeps ==
  ASSUME IInv, TakeMirror
  PROVE  IInv'
  <1> DEFINE c == job.new
             a == Table(Sector(c))
             b == Mirror(Sector(c))
  <1>1. job.pc = "takeMirror" /\ c \in Nums /\ cacheAddr = a /\ job.d \in Fds /\ DescOK(Desc)
    BY Running DEF TakeMirror, At, IInv, Jobs
  <1>2. PICK ok \in BOOLEAN :
          /\ Flush(b, cache, ok)
          /\ CASE ok /\ Desc.cur = 0 -> Set(Attached(Desc, c)) /\ Continue(job.left)
               [] ok /\ Desc.cur # 0 -> UNCHANGED fd /\ Goto("link")
               [] ~ok                -> UNCHANGED fd /\ Return
    BY DEF TakeMirror
  <1>3. Written(b, cache, ok) /\ (ok => cache = disk[a])
    BY <1>1, <1>2, CachedSector
  <1>4. ASSUME ok, job'.pc \notin Halfway PROVE Copies'
    <2> SUFFICES ASSUME faults' = 0 PROVE \A s \in SectorNumbers : Copied(s)'
      BY DEF Copies
    <2>1. \A s \in SectorNumbers : s = Sector(c) \/ Same(disk, s)
      BY <1>1, <1>3, <1>4 DEF IInv, Copies, Copied, Written
    <2>2. \A s \in SectorNumbers : Same(disk', s)
      BY <1>1, <1>3, <1>4, <2>1, SectorCopied, EntryPlace DEF IInv
    <2> QED BY <1>4, <2>2 DEF Copied, Halfway
  <1>5. CASE ok /\ Desc.cur = 0
    <2>1. Descs'
      BY <1>1, <1>2, <1>5, AttachedOK, SetKeeps DEF Set, IInv
    <2>2. Jobs' /\ job'.pc \notin Halfway
      BY <1>1, <1>2, <1>5, ContinueKeeps DEF IInv
    <2> QED BY <1>3, <1>4, <1>5, <2>1, <2>2 DEF IInv, Written
  <1>6. CASE ok /\ Desc.cur # 0
    <2>1. Jobs' /\ job'.pc \notin Halfway
      BY <1>1, <1>2, <1>6 DEF IInv, Jobs, Goto, Halfway, Idle
    <2>2. Descs'
      BY <1>2, <1>6, FdStays DEF IInv
    <2> QED BY <1>3, <1>4, <1>6, <2>1, <2>2 DEF IInv, Written
  <1>7. CASE ~ok
    BY <1>2, <1>3, <1>7, FailedReturn, FdStays DEF IInv, Written
  <1> QED BY <1>5, <1>6, <1>7

LEMMA LinkClusterKeeps ==
  ASSUME IInv, LinkCluster
  PROVE  IInv'
  <1> DEFINE c == Desc.cur
             b == Mirror(Sector(c))
  <1>1. job.pc = "link" /\ c \in Nums /\ job.new \in Nums /\ Descs' /\ UNCHANGED fd
    BY Running, FdStays DEF LinkCluster, At, IInv, Jobs
  <1>2. PICK ok \in BOOLEAN :
          /\ Update(b, WithEntry(b, c, job.new), Miss(b), ok)
          /\ IF ok THEN Goto("linkMirror") ELSE Return
    BY DEF LinkCluster
  <1>3. b \in TableBlocks /\ Miss(b) \in BOOLEAN
    BY <1>1, TableBlockOf DEF Miss
  <1>4. BlockOK(b, WithEntry(b, c, job.new)) /\ b \in DOMAIN disk
    BY <1>1, <1>3, WithEntryOK, DirApart DEF IInv, BlockOK, Ptrs, Store, DiskOK
  <1>5. Written(b, WithEntry(b, c, job.new), ok)
    BY <1>2, <1>3, <1>4, UpdateEffect DEF IInv
  <1>6. CASE ok
    <2>1. job' = [job EXCEPT !.pc = "linkMirror"] /\ Desc' = Desc
      BY <1>1, <1>2, <1>6 DEF Goto, Desc, IInv, Jobs, Idle
    <2>2. Jobs'
      BY <1>1, <1>5, <1>6, <2>1 DEF IInv, Jobs, Written, Idle
    <2>3. Copies'
      <3> SUFFICES ASSUME faults' = 0 PROVE \A s \in SectorNumbers : Copied(s)'
        BY DEF Copies
      <3>1. \A s \in SectorNumbers : Same(disk, s)
        BY <1>1, <1>5, <1>6 DEF IInv, Copies, Copied, Halfway, Written
      <3>2. \A s \in SectorNumbers : s = Sector(c) \/ Same(disk', s)
        BY <1>1, <1>5, <1>6, <3>1, OthersSame, EntryPlace DEF IInv
      <3>3. job'.pc = "linkMirror"
        BY <2>1 DEF IInv, Jobs, Idle
      <3> QED BY <2>1, <3>2, <3>3 DEF Copied, Halfway
    <2> QED BY <1>1, <1>5, <2>2, <2>3 DEF IInv, Written
  <1>7. CASE ~ok
    BY <1>1, <1>2, <1>5, <1>7, FailedReturn DEF Written
  <1> QED BY <1>6, <1>7

LEMMA LinkMirrorKeeps ==
  ASSUME IInv, LinkMirror
  PROVE  IInv'
  <1> DEFINE c == Desc.cur
             a == Mirror(Sector(c))
             b == Table(Sector(c))
  <1>1. /\ job.pc = "linkMirror" /\ c \in Nums /\ job.new \in Nums
        /\ cacheAddr = a /\ job.d \in Fds /\ DescOK(Desc)
    BY Running DEF LinkMirror, At, IInv, Jobs
  <1>2. PICK ok \in BOOLEAN :
          /\ Flush(b, cache, ok)
          /\ IF ok THEN Set(Attached(Desc, job.new)) /\ Continue(job.left)
                   ELSE UNCHANGED fd /\ Return
    BY DEF LinkMirror
  <1>3. Written(b, cache, ok) /\ (ok => cache = disk[a])
    BY <1>1, <1>2, CachedSector
  <1>4. CASE ok
    <2>1. Descs'
      BY <1>1, <1>2, <1>4, AttachedOK, SetKeeps DEF Set, IInv
    <2>2. Jobs' /\ job'.pc \notin Halfway
      BY <1>1, <1>2, <1>4, ContinueKeeps DEF IInv
    <2>3. Copies'
      <3> SUFFICES ASSUME faults' = 0 PROVE \A s \in SectorNumbers : Copied(s)'
        BY DEF Copies
      <3>1. \A s \in SectorNumbers : s = Sector(c) \/ Same(disk, s)
        BY <1>1, <1>3, <1>4 DEF IInv, Copies, Copied, Written
      <3>2. \A s \in SectorNumbers : Same(disk', s)
        BY <1>1, <1>3, <1>4, <3>1, SectorCopied, EntryPlace DEF IInv
      <3> QED BY <2>2, <3>2 DEF Copied, Halfway
    <2> QED BY <1>3, <1>4, <2>1, <2>2, <2>3 DEF IInv, Written
  <1>5. CASE ~ok
    BY <1>2, <1>3, <1>5, FailedReturn, FdStays DEF IInv, Written
  <1> QED BY <1>4, <1>5

LEMMA TransferChunkKeeps ==
  ASSUME IInv, TransferChunk
  PROVE  IInv'
  <1> DEFINE n == ChunkLen(Desc)
             b == Data(Desc.addr)
             f == Grown(Desc)
  <1>1. job.pc = "transfer" /\ job.d \in Fds /\ DescOK(Desc)
    BY Running DEF TransferChunk, At
  <1>2. PICK ok \in BOOLEAN :
          /\ IF job.write THEN Update(b, Contents, Miss(b), ok)
                          ELSE Fetch(b, Miss(b), ok)
          /\ Set(IF ok THEN Advanced(f, n) ELSE f)
          /\ CASE ~ok -> Return
               [] ok /\ AtClusterEnd(Desc, n) /\ ~IsLast(Desc.next) ->
                    job' = [job EXCEPT !.pc = "cross", !.left = @ - n]
               [] OTHER -> Continue(job.left - n)
    BY DEF TransferChunk
  <1>3. DescOK(f) /\ DescOK(Advanced(f, n)) /\ Advanced(f, n).next = Desc.next
    BY <1>1, GrownOK, AdvancedOK
  <1>4. Descs' /\ (ok => fd'[job.d] = Advanced(f, n))
    BY <1>1, <1>2, <1>3, SetKeeps DEF Set, IInv
  <1>5. Jobs' /\ job'.pc \notin Halfway
    <2>1. CASE ~ok
      BY <1>2, <2>1, ReturnKeeps DEF Halfway
    <2>2. CASE ok /\ AtClusterEnd(Desc, n) /\ ~IsLast(Desc.next)
      BY <1>1, <1>2, <1>3, <1>4, <2>2 DEF IInv, Jobs, Desc, Halfway, Idle
    <2>3. CASE ok /\ ~(AtClusterEnd(Desc, n) /\ ~IsLast(Desc.next))
      BY <1>1, <1>2, <2>3, ContinueKeeps DEF IInv
    <2> QED BY <2>1, <2>2, <2>3
  <1>6. Miss(b) \in BOOLEAN /\ b \notin TableBlocks /\ b \notin DOMAIN disk /\ BlockOK(b, Contents)
    BY DirApart DEF Miss, BlockOK, IInv, Store, DiskOK
  <1>7. CASE job.write
    <2>1. Written(b, Contents, ok)
      BY <1>2, <1>6, <1>7, UpdateEffect DEF IInv
    <2>2. Copies'
      BY <1>1, <1>5, <1>6, <2>1, WrittenApart DEF IInv, Halfway
    <2> QED BY <1>4, <1>5, <2>1, <2>2 DEF IInv, Written
  <1>8. CASE ~job.write
    <2>1. Fetched(b, ok)
      BY <1>2, <1>6, <1>8, FetchEffect DEF IInv
    <2>2. Copies'
      BY <1>1, <1>5, <2>1, FetchedCopies DEF IInv, Halfway
    <2> QED BY <1>4, <1>5, <2>1, <2>2 DEF IInv, Fetched
  <1> QED BY <1>7, <1>8

LEMMA EndOfFileKeeps ==
  ASSUME IInv, EndOfFile
  PROVE  IInv'
  <1>1. job.pc = "transfer" /\ Descs'
    BY FdStays DEF EndOfFile, At, IInv
  <1>2. Jobs' /\ job'.pc = "idle"
    BY ReturnKeeps DEF EndOfFile
  <1> QED BY <1>1, <1>2, CardUntouched DEF EndOfFile, Halfway

LEMMA CrossClusterKeeps ==
  ASSUME IInv, CrossCluster
  PROVE  IInv'
  <1> DEFINE b == Table(Sector(Desc.next))
  <1>1. job.pc = "cross" /\ job.d \in Fds /\ DescOK(Desc) /\ Desc.next \in Nums
    BY Running, NextNum DEF CrossCluster, At, IInv, Jobs
  <1>2. PICK ok \in BOOLEAN :
          LET next == IF ok THEN Entry(Desc.next) ELSE 0
              f == [Desc EXCEPT !.addr = FirstBlock(Desc.next), !.cur = Desc.next, !.next = next]
          IN  /\ Fetch(b, Miss(b), ok)
              /\ IF next = 0 THEN Set(f) /\ Return
                             ELSE Set([f EXCEPT !.block = 0]) /\ Continue(job.left)
    BY DEF CrossCluster
  <1> DEFINE next == IF ok THEN Entry(Desc.next) ELSE 0
             f == [Desc EXCEPT !.addr = FirstBlock(Desc.next), !.cur = Desc.next, !.next = next]
  <1>3. next \in Ptrs
    BY <1>1, EntryOK, Sizes DEF IInv, Ptrs
  <1>4. DescOK(f) /\ DescOK([f EXCEPT !.block = 0])
    BY <1>1, <1>3 DEF DescOK, Free
  <1> HIDE DEF next, f
  <1>5. Descs'
    BY <1>1, <1>2, <1>4, SetKeeps DEF Set, IInv, next, f
  <1>6. Jobs' /\ job'.pc \notin Halfway
    BY <1>1, <1>2, ReturnKeeps, ContinueKeeps DEF IInv, Halfway
  <1>7. Fetched(b, ok)
    BY <1>2, FetchEffect DEF IInv, Miss
  <1>8. Copies'
    BY <1>1, <1>6, <1>7, FetchedCopies DEF IInv, Halfway
  <1> QED BY <1>5, <1>6, <1>7, <1>8 DEF IInv, Fetched

---------------------------------------------------------------------------
(* The steps of truncation and of seeking. *)

LEMMA FindParentKeeps ==
  ASSUME IInv, FindParent
  PROVE  IInv'
  <1> DEFINE b == Table(Sector(job.from))
  <1>1. /\ job.pc = "parent" /\ job.d \in Fds /\ DescOK(Desc) /\ Desc.cur \in Nums
        /\ job.from \in Nums
    BY Running DEF FindParent, At, IInv, Jobs
  <1>2. PICK ok \in BOOLEAN :
          LET next == IF ok THEN Entry(job.from) ELSE 0
          IN  /\ Fetch(b, Miss(b), ok)
              /\ \/ /\ next = Desc.cur
                    /\ Set([Desc EXCEPT !.next = Desc.cur, !.cur = job.from,
                                        !.block = BlocksPerCluster])
                    /\ job' = [job EXCEPT !.pc = "cut", !.from = Desc.cur]
                 \/ /\ next # Desc.cur
                    /\ UNCHANGED fd
                    /\ IF next = 0 \/ IsLast(next)
                         THEN Return ELSE job' = [job EXCEPT !.from = next]
    BY DEF FindParent
  <1> DEFINE next == IF ok THEN Entry(job.from) ELSE 0
             f == [Desc EXCEPT !.next = Desc.cur, !.cur = job.from, !.block = BlocksPerCluster]
  <1>3. next \in Ptrs
    BY <1>1, EntryOK, Sizes DEF IInv, Ptrs
  <1> HIDE DEF next
  <1>4. Descs' /\ Jobs' /\ job'.pc \notin Halfway
    <2>1. CASE Set(f) /\ job' = [job EXCEPT !.pc = "cut", !.from = Desc.cur]
      <3>1. DescOK(f)
        BY <1>1 DEF DescOK, Free, Ptrs
      <3>2. Descs'
        BY <1>1, <2>1, <3>1, SetKeeps DEF Set, IInv
      <3>3. Jobs' /\ job'.pc \notin Halfway
        BY <1>1, <2>1 DEF IInv, Jobs, Idle, Halfway
      <3> QED BY <3>2, <3>3
    <2>2. CASE UNCHANGED fd /\ Return
      BY <2>2, FdStays, ReturnKeeps DEF IInv, Halfway
    <2>3. CASE UNCHANGED fd /\ ~IsLast(next) /\ job' = [job EXCEPT !.from = next]
      BY <1>1, <1>3, <2>3, FdStays, NextNum DEF IInv, Jobs, Idle, Halfway
    <2> QED BY <1>2, <2>1, <2>2, <2>3 DEF next
  <1>5. Fetched(b, ok)
    BY <1>2, FetchEffect DEF IInv, Miss
  <1>6. Copies'
    BY <1>1, <1>4, <1>5, FetchedCopies DEF IInv, Halfway
  <1> QED BY <1>4, <1>5, <1>6 DEF IInv, Fetched

LEMMA CutChainKeeps ==
  ASSUME IInv, CutChain
  PROVE  IInv'
  <1> DEFINE c == Desc.cur
             b == Table(Sector(c))
  <1>1. job.pc = "cut" /\ c \in Nums /\ Descs' /\ UNCHANGED fd
    BY Running, FdStays DEF CutChain, At, IInv
  <1>2. PICK ok \in BOOLEAN :
          /\ Update(b, WithEntry(b, c, End), Miss(b), ok)
          /\ IF ok THEN Goto("cutMirror") ELSE Return
    BY DEF CutChain
  <1>3. BlockOK(b, WithEntry(b, c, End)) /\ b \in DOMAIN disk /\ Miss(b) \in BOOLEAN
    BY <1>1, TableBlockOf, WithEntryOK, DirApart DEF IInv, BlockOK, Ptrs, Store, DiskOK, Miss
  <1>4. Written(b, WithEntry(b, c, End), ok)
    BY <1>2, <1>3, UpdateEffect DEF IInv
  <1>5. CASE ok
    <2>1. job'.pc = "cutMirror" /\ Desc' = Desc
      BY <1>1, <1>2, <1>5 DEF Goto, Desc, IInv, Jobs, Idle
    <2>2. Jobs'
      BY <1>1, <1>2, <1>5 DEF IInv, Jobs, Goto, Idle
    <2>3. Copies'
      <3> SUFFICES ASSUME faults' = 0 PROVE \A s \in SectorNumbers : Copied(s)'
        BY DEF Copies
      <3>1. \A s \in SectorNumbers : Same(disk, s)
        BY <1>1, <1>4, <1>5 DEF IInv, Copies, Copied, Halfway, Written
      <3>2. \A s \in SectorNumbers : AheadBy(disk', s, c, End)
        BY <1>1, <1>4, <1>5, <3>1, FirstChanged DEF IInv
      <3> QED BY <2>1, <3>2 DEF Copied, Halfway
    <2> QED BY <1>1, <1>4, <1>5, <2>2, <2>3 DEF IInv, Written
  <1>6. CASE ~ok
    BY <1>1, <1>2, <1>4, <1>6, FailedReturn DEF Written
  <1> QED BY <1>5, <1>6

LEMMA CutMirrorKeeps ==
  ASSUME IInv, CutMirror
  PROVE  IInv'
  <1> DEFINE c == Desc.cur
             b == Mirror(Sector(c))
  <1>1. job.pc = "cutMirror" /\ c \in Nums /\ Descs'
    BY Running, FdStays DEF CutMirror, At, IInv
  <1>2. PICK ok \in BOOLEAN :
          /\ Update(b, WithEntry(b, c, End), Miss(b), ok)
          /\ IF ok THEN Goto("free") ELSE Return
    BY DEF CutMirror
  <1>3. BlockOK(b, WithEntry(b, c, End)) /\ b \in DOMAIN disk /\ Miss(b) \in BOOLEAN
    BY <1>1, TableBlockOf, WithEntryOK, DirApart DEF IInv, BlockOK, Ptrs, Store, DiskOK, Miss
  <1>4. Written(b, WithEntry(b, c, End), ok)
    BY <1>2, <1>3, UpdateEffect DEF IInv
  <1>5. CASE ok
    <2>1. Jobs' /\ job'.pc = "free"
      BY <1>1, <1>2, <1>5 DEF IInv, Jobs, Goto, Idle
    <2>2. Copies'
      <3> SUFFICES ASSUME faults' = 0 PROVE \A s \in SectorNumbers : Copied(s)'
        BY DEF Copies
      <3>1. \A s \in SectorNumbers : AheadBy(disk, s, c, End)
        BY <1>1, <1>4, <1>5 DEF IInv, Copies, Copied, Written
      <3>2. \A s \in SectorNumbers : Same(disk', s)
        BY <1>1, <1>4, <1>5, <3>1, SecondChanged DEF IInv
      <3> QED BY <2>1, <3>2 DEF Copied, Halfway
    <2> QED BY <1>1, <1>4, <1>5, <2>1, <2>2 DEF IInv, Written
  <1>6. CASE ~ok
    BY <1>1, <1>2, <1>4, <1>6, FailedReturn DEF Written
  <1> QED BY <1>5, <1>6

LEMMA AbortFreeKeeps ==
  ASSUME IInv, job.pc # "idle", AbortFree
  PROVE  Descs' /\ Jobs' /\ job'.pc = "idle"
  BY Running, EmptiedOK, SetKeeps, FdStays, ReturnKeeps DEF AbortFree, Set, IInv

LEMMA FreeClusterKeeps ==
  ASSUME IInv, FreeCluster
  PROVE  IInv'
  <1> DEFINE c == job.from
             b == Table(Sector(c))
             next == Entry(c)
  <1>1. job.pc = "free" /\ c \in Nums
    BY DEF FreeCluster, At, IInv, Jobs
  <1>2. PICK ok \in BOOLEAN :
          /\ IF next = 0 THEN Fetch(b, Miss(b), ok)
                         ELSE Update(b, WithEntry(b, c, 0), Miss(b), ok)
          /\ IF ok /\ next # 0
               THEN UNCHANGED fd /\ job' = [job EXCEPT !.pc = "freeMirror", !.new = next]
               ELSE AbortFree
    BY DEF FreeCluster
  <1>3. next \in Ptrs /\ 0 \in Ptrs
    BY <1>1, EntryOK, Sizes DEF IInv, Ptrs
  <1>4. BlockOK(b, WithEntry(b, c, 0)) /\ b \in DOMAIN disk /\ Miss(b) \in BOOLEAN
    BY <1>1, <1>3, TableBlockOf, WithEntryOK, DirApart DEF IInv, BlockOK, Store, DiskOK, Miss
  <1> HIDE DEF next
  <1>5. CASE next = 0
    <2>1. Fetched(b, ok)
      BY <1>2, <1>4, <1>5, FetchEffect DEF IInv
    <2>2. Descs' /\ Jobs' /\ job'.pc = "idle"
      BY <1>1, <1>2, <1>5, AbortFreeKeeps
    <2>3. Copies'
      BY <1>1, <2>1, <2>2, FetchedCopies DEF IInv, Halfway
    <2> QED BY <2>1, <2>2, <2>3 DEF IInv, Fetched
  <1>6. CASE next # 0
    <2>1. Written(b, WithEntry(b, c, 0), ok)
      BY <1>2, <1>4, <1>6, UpdateEffect DEF IInv
    <2>2. CASE ok
      <3>1. Descs' /\ Jobs' /\ job'.pc = "freeMirror" /\ job'.from = c
        BY <1>1, <1>2, <1>3, <1>6, <2>2, FdStays DEF IInv, Jobs, Idle
      <3>2. Copies'
        <4> SUFFICES ASSUME faults' = 0 PROVE \A s \in SectorNumbers : Copied(s)'
          BY DEF Copies
        <4>1. \A s \in SectorNumbers : Same(disk, s)
          BY <1>1, <2>1, <2>2 DEF IInv, Copies, Copied, Halfway, Written
        <4>2. \A s \in SectorNumbers : AheadBy(disk', s, c, 0)
          BY <1>1, <2>1, <2>2, <4>1, FirstChanged DEF IInv
        <4> QED BY <3>1, <4>2 DEF Copied, Halfway
      <3> QED BY <2>1, <2>2, <3>1, <3>2 DEF IInv, Written
    <2>3. CASE ~ok
      BY <1>1, <1>2, <2>1, <2>3, AbortFreeKeeps, FailedCopies DEF IInv, Written
    <2> QED BY <2>2, <2>3
  <1> QED BY <1>5, <1>6

LEMMA FreeMirrorKeeps ==
  ASSUME IInv, FreeMirror
  PROVE  IInv'
  <1> DEFINE c == job.from
             b == Mirror(Sector(c))
  <1>1. job.pc = "freeMirror" /\ c \in Nums /\ job.new \in Ptrs /\ job.d \in Fds /\ DescOK(Desc)
    BY Running DEF FreeMirror, At, IInv, Jobs
  <1>2. PICK ok \in BOOLEAN :
          /\ Update(b, WithEntry(b, c, 0), Miss(b), ok)
          /\ CASE ~ok -> AbortFree
               [] ok /\ ~IsLast(job.new) ->
                    UNCHANGED fd /\ job' = [job EXCEPT !.pc = "free", !.from = job.new, !.new = 0]
               [] ok /\ IsLast(job.new) ->
                    Set(IF job.whole THEN Emptied(Desc) ELSE Ended(Desc)) /\ Return
    BY DEF FreeMirror
  <1>3. BlockOK(b, WithEntry(b, c, 0)) /\ b \in DOMAIN disk /\ Miss(b) \in BOOLEAN
    BY <1>1, TableBlockOf, WithEntryOK, Sizes, DirApart
       DEF IInv, BlockOK, Ptrs, Store, DiskOK, Miss
  <1>4. Written(b, WithEntry(b, c, 0), ok)
    BY <1>2, <1>3, UpdateEffect DEF IInv
  <1>5. CASE ok
    <2>1. Descs' /\ Jobs' /\ job'.pc \notin Halfway
      <3>1. CASE IsLast(job.new)
        <4>1. DescOK(IF job.whole THEN Emptied(Desc) ELSE Ended(Desc))
          BY <1>1, EmptiedOK, EndedOK
        <4>2. Descs'
          BY <1>1, <1>2, <1>5, <3>1, <4>1, SetKeeps DEF Set, IInv
        <4>3. Jobs' /\ job'.pc = "idle"
          BY <1>2, <1>5, <3>1, ReturnKeeps
        <4> QED BY <4>2, <4>3 DEF Halfway
      <3>2. CASE ~IsLast(job.new)
        <4>1. job.new \in Nums
          BY <1>1, <3>2, NextNum
        <4> QED BY <1>1, <1>2, <1>5, <3>2, <4>1, FdStays, Sizes DEF IInv, Jobs, Idle, Ptrs, Halfway
      <3> QED BY <3>1, <3>2
    <2>2. Copies'
      <3> SUFFICES ASSUME faults' = 0 PROVE \A s \in SectorNumbers : Copied(s)'
        BY DEF Copies
      <3>1. \A s \in SectorNumbers : AheadBy(disk, s, c, 0)
        BY <1>1, <1>4, <1>5 DEF IInv, Copies, Copied, Written
      <3>2. \A s \in SectorNumbers : Same(disk', s)
        BY <1>1, <1>4, <1>5, <3>1, SecondChanged DEF IInv
      <3> QED BY <2>1, <3>2 DEF Copied, Halfway
    <2> QED BY <1>4, <1>5, <2>1, <2>2 DEF IInv, Written
  <1>6. CASE ~ok
    BY <1>1, <1>2, <1>4, <1>6, AbortFreeKeeps, FailedCopies DEF IInv, Written
  <1> QED BY <1>5, <1>6

LEMMA SeekOnKeeps ==
  ASSUME IInv, SeekOn
  PROVE  IInv'
  <1> DEFINE b == Table(Sector(Desc.next))
  <1>1. job.pc = "seek" /\ job.d \in Fds /\ DescOK(Desc) /\ Desc.next \in Nums
    BY Running, NextNum DEF SeekOn, At
  <1>2. PICK ok \in BOOLEAN :
          LET next == IF ok THEN Entry(Desc.next) ELSE 0
          IN  /\ Fetch(b, Miss(b), ok)
              /\ Set([Desc EXCEPT !.cur = Desc.next, !.next = next])
              /\ IF next = 0 THEN Return ELSE UNCHANGED job
    BY DEF SeekOn
  <1> DEFINE next == IF ok THEN Entry(Desc.next) ELSE 0
             f == [Desc EXCEPT !.cur = Desc.next, !.next = next]
  <1>3. next \in Ptrs
    BY <1>1, EntryOK, Sizes DEF IInv, Ptrs
  <1>4. DescOK(f)
    BY <1>1, <1>3 DEF DescOK, Free
  <1>5. Descs'
    BY <1>1, <1>2, <1>4, SetKeeps DEF Set, IInv
  <1>6. Jobs' /\ job'.pc \notin Halfway
    BY <1>1, <1>2, ReturnKeeps DEF IInv, Jobs, Halfway
  <1>7. Fetched(b, ok)
    BY <1>2, FetchEffect DEF IInv, Miss
  <1>8. Copies'
    BY <1>1, <1>6, <1>7, FetchedCopies DEF IInv, Halfway
  <1> QED BY <1>5, <1>6, <1>7, <1>8 DEF IInv, Fetched

LEMMA EndSeekKeeps ==
  ASSUME IInv, EndSeek
  PROVE  IInv'
  <1>1. job.pc = "seek" /\ job.d \in Fds /\ DescOK(Desc)
    BY Running DEF EndSeek, At
  <1>2. Descs'
    BY <1>1, AtEndOK, SetKeeps DEF EndSeek, Set, IInv
  <1>3. Jobs' /\ job'.pc = "idle"
    BY ReturnKeeps DEF EndSeek
  <1> QED BY <1>1, <1>2, <1>3, CardUntouched DEF EndSeek, Halfway

---------------------------------------------------------------------------
(* Mounting, and the power. *)

LEMMA CacheDropped ==
  ASSUME Store, UNCHANGED disk, cacheAddr' = None, cache' = <<>>
  PROVE  Store'
  BY NoneAssumption DEF Store, DiskOK, BlockOK, CacheFresh

LEMMA MountKeeps ==
  ASSUME IInv, Mount
  PROVE  IInv'
  <1>1. Store' /\ Counts' /\ Failed
    BY CacheDropped DEF IInv, Mount, Counts, Failed
  <1>2. Descs'
    BY DEF IInv, Mount, Descs, DescOK, Free
  <1>3. Jobs'
    BY StayIdle DEF IInv, Mount
  <1> QED BY <1>1, <1>2, <1>3, FailedCopies DEF IInv

LEMMA CrashKeeps ==
  ASSUME IInv, Crash
  PROVE  IInv'
  <1>1. Store' /\ Counts' /\ Failed
    BY CacheDropped DEF IInv, Crash, Counts, Failed
  <1>2. Descs'
    BY FreeOK DEF Crash, Descs
  <1> QED BY <1>1, <1>2, FailedReturn DEF Crash

---------------------------------------------------------------------------
LEMMA InitOK == Init => IInv
  <1> SUFFICES ASSUME Init PROVE IInv
    OBVIOUS
  <1>1. \A s \in SectorNumbers : FreeTable(s) \in TableBlock
    BY Sizes DEF FreeTable, TableBlock, Ptrs
  <1>2. \A k \in {"fat", "mirror", "boot"}, s \in SectorNumbers :
          <<k, s>> # Dir /\ disk[<<k, s>>] = FreeTable(s)
    BY DirApart DEF Init, Formatted, TableBlocks
  <1>3. DOMAIN disk = TableBlocks \cup {Dir} /\ \A b \in TableBlocks : disk[b] \in TableBlock
    <2>1. ASSUME NEW b \in TableBlocks PROVE disk[b] \in TableBlock
      <3>1. PICK k \in {"fat", "mirror", "boot"}, s \in SectorNumbers : b = <<k, s>>
        BY DEF TableBlocks
      <3> QED BY <1>1, <1>2, <3>1
    <2> QED BY <2>1 DEF Init, Formatted
  <1>4. DirOK(disk[Dir])
    BY Sizes DEF Init, Formatted, DirOK, EmptyEntry
  <1>5. Store
    BY <1>3, <1>4, NoneAssumption, DirApart DEF Init, Store, DiskOK, BlockOK, CacheFresh
  <1>6. Counts /\ Descs /\ Jobs
    BY FreeOK, Sizes DEF Init, Counts, Descs, Jobs, Idle, Ptrs
  <1>7. Copies
    BY <1>2 DEF Copies, Copied, Same, Table, Mirror, Init, Idle, Halfway
  <1> QED BY <1>5, <1>6, <1>7 DEF IInv

LEMMA NextKeeps == IInv /\ [Next]_vars => IInv'
  <1> SUFFICES ASSUME IInv, [Next]_vars PROVE IInv'
    OBVIOUS
  <1>1. CASE Call
    BY <1>1, OpenFileKeeps, CreateFileKeeps, CloseFileKeeps, StartSeekKeeps,
       TruncateKeeps, StartTransferKeeps DEF Call
  <1>2. CASE Step
    BY <1>2, TakeClusterKeeps, DiskFullKeeps, TakeMirrorKeeps, LinkClusterKeeps,
       LinkMirrorKeeps, TransferChunkKeeps, EndOfFileKeeps, CrossClusterKeeps,
       FindParentKeeps, CutChainKeeps, CutMirrorKeeps, FreeClusterKeeps,
       FreeMirrorKeeps, SeekOnKeeps, EndSeekKeeps DEF Step
  <1>3. CASE Mount
    BY <1>3, MountKeeps
  <1>4. CASE Crash
    BY <1>4, CrashKeeps
  <1>5. CASE UNCHANGED vars
    BY <1>5 DEF vars, IInv, Store, DiskOK, CacheFresh, OnCard, BlockOK, Counts, Descs,
       DescOK, Jobs, Desc, Copies, Copied, Same, AheadBy
  <1> QED BY <1>1, <1>2, <1>3, <1>4, <1>5 DEF Next

LEMMA Invariant == Spec => []IInv
  BY InitOK, NextKeeps, PTL DEF Spec

(* The cached block is the block on the card for as long as the card       *)
(* answers, whatever has failed before (cache, flush_cache, fat_mount).    *)
THEOREM CacheCoherent == Spec => []CacheFresh
  <1>1. IInv => CacheFresh
    BY DEF IInv, Store
  <1> QED BY <1>1, Invariant, PTL

(* Between calls the two copies of the table agree until something fails   *)
(* (alloc_cluster, write_fat_entry, free_cluster_chain).                   *)
THEOREM CopiesAgree == Spec => []TablesAgree
  <1>1. IInv => TablesAgree
    BY DEF IInv, Copies, Copied, Same, Halfway, TablesAgree, At
  <1> QED BY <1>1, Invariant, PTL

---------------------------------------------------------------------------
(* What a card with two copies of the table keeps. *)

BootKept == \A s \in SectorNumbers : disk'[<<"boot", s>>] = disk[<<"boot", s>>]

LEMMA NoBoot ==
  ASSUME NFats = 2, NEW s \in SectorNumbers
  PROVE  /\ \A r : <<"boot", s>> # Table(r) /\ <<"boot", s>> # Mirror(r)
         /\ <<"boot", s>> # Dir /\ \A a : <<"boot", s>> # Data(a)
         /\ <<"boot", s>> \in TableBlocks
  BY DEF Table, Mirror, Dir, Data, TableBlocks

LEMMA FlushBoot ==
  ASSUME NFats = 2, Store, NEW b, NEW block, NEW ok \in BOOLEAN, Flush(b, block, ok),
         \A s \in SectorNumbers : <<"boot", s>> # b
  PROVE  BootKept
  BY NoBoot DEF Flush, Stored, BootKept, Store, DiskOK

LEMMA UpdateBoot ==
  ASSUME NFats = 2, Store, NEW b, NEW block, NEW miss, NEW ok \in BOOLEAN,
         Update(b, block, miss, ok), \A s \in SectorNumbers : <<"boot", s>> # b
  PROVE  BootKept
  BY FlushBoot DEF Update, Fetch, BootKept

LEMMA StepBoot ==
  ASSUME NFats = 2, IInv, [Next]_vars
  PROVE  BootKept
  <1> USE DEF IInv
  <1>1. ASSUME NEW n \in Names, CreateFile(n) PROVE BootKept
    BY <1>1, UpdateBoot, NoBoot DEF CreateFile
  <1>2. ASSUME NEW d \in Fds, CloseFile(d) PROVE BootKept
    <2>1. CASE UNCHANGED disk
      BY <2>1 DEF BootKept
    <2>2. CASE fd[d].modified /\ ~fd[d].stale
      BY <1>2, <2>2, UpdateBoot, NoBoot DEF CloseFile
    <2> QED BY <1>2, <2>1, <2>2 DEF CloseFile
  <1>3. CASE TakeCluster
    BY <1>3, UpdateBoot, NoBoot DEF TakeCluster
  <1>4. CASE TakeMirror
    BY <1>4, FlushBoot, NoBoot DEF TakeMirror
  <1>5. CASE LinkCluster
    BY <1>5, UpdateBoot, NoBoot DEF LinkCluster
  <1>6. CASE LinkMirror
    BY <1>6, FlushBoot, NoBoot DEF LinkMirror
  <1>7. CASE TransferChunk
    <2>1. CASE job.write
      BY <1>7, <2>1, UpdateBoot, NoBoot DEF TransferChunk
    <2>2. CASE ~job.write
      BY <1>7, <2>2 DEF TransferChunk, Fetch, BootKept
    <2> QED BY <2>1, <2>2
  <1>8. CASE CutChain
    BY <1>8, UpdateBoot, NoBoot DEF CutChain
  <1>9. CASE CutMirror
    BY <1>9, UpdateBoot, NoBoot DEF CutMirror
  <1>10. CASE FreeCluster
    <2>1. CASE Entry(job.from) = 0
      BY <1>10, <2>1 DEF FreeCluster, Fetch, BootKept
    <2>2. CASE Entry(job.from) # 0
      BY <1>10, <2>2, UpdateBoot, NoBoot DEF FreeCluster
    <2> QED BY <2>1, <2>2
  <1>11. CASE FreeMirror
    BY <1>11, UpdateBoot, NoBoot DEF FreeMirror
  <1>12. CASE \/ \E n \in Names : OpenFile(n)
              \/ \E d \in Fds :
                   \/ StartSeek(d) \/ TruncateWhole(d) \/ TruncateBetween(d) \/ TruncateInside(d)
                   \/ \E n \in Lens, write \in BOOLEAN : StartTransfer(d, n, write)
              \/ DiskFull \/ EndOfFile \/ CrossCluster \/ FindParent \/ SeekOn \/ EndSeek
              \/ Mount \/ Crash \/ UNCHANGED vars
    <2>1. UNCHANGED disk
      BY <1>12 DEF OpenFile, StartSeek, TruncateWhole, TruncateBetween, TruncateInside,
         StartTransfer, DiskFull, EndOfFile, CrossCluster, FindParent, SeekOn, EndSeek,
         Mount, Crash, vars, Fetch
    <2> QED BY <2>1 DEF BootKept
  <1> QED BY <1>1, <1>2, <1>3, <1>4, <1>5, <1>6, <1>7, <1>8, <1>9, <1>10, <1>11, <1>12
          DEF Next, Call, Step

(* The first blocks of the card stay as they are on a card with two copies *)
(* of the table (fat_mount, alloc_cluster, write_fat_entry).               *)
THEOREM BootStays ==
  ASSUME NFats = 2
  PROVE  Spec => []BootIntact
  <1>1. Init => BootIntact
    BY NoBoot, DirApart DEF Init, BootIntact, Formatted
  <1>2. BootIntact /\ IInv /\ [Next]_vars => BootIntact'
    BY StepBoot DEF BootKept, BootIntact, FreeTable
  <1> QED BY <1>1, <1>2, Invariant, PTL DEF Spec

=============================================================================
