---------------------------- MODULE ChainProofs ----------------------------
(***************************************************************************)
(* Whenever the card or the power fails, no two files of the directory     *)
(* share a cluster and no cluster of a file is free: ChainsApart, for      *)
(* every number of files and any number of failures.                       *)
(*                                                                         *)
(* The two copies of the table may disagree after a failure, and a later   *)
(* write of a sector brings an old entry of one copy back into the other:  *)
(* so the invariant is about the links of both copies together.  No        *)
(* cluster is led to from two others; and the clusters can be labelled,    *)
(* each with a file and with its distance from the first cluster of the    *)
(* file, so that links stay in the file and go one further.  Two labels    *)
(* that differ are two clusters that differ, which is all the apartness    *)
(* that is needed: what is freed belongs to the file that is truncated.    *)
(***************************************************************************)
EXTENDS FatProofs, FiniteSetTheorems

---------------------------------------------------------------------------
(* The tables of a card k, and the labels L of its clusters. *)

First(k, c) == k[Table(Sector(c))][c % Entries]
Second(k, c) == k[Mirror(Sector(c))][c % Entries]
Leads(k, x, y) == First(k, x) = y \/ Second(k, x) = y
Used(k, c) == First(k, c) # 0 /\ Second(k, c) # 0
OnlyFrom(k, x, y) == \A z \in Clusters : Leads(k, z, y) => z = x
NoneLeads(k, y) == \A z \in Clusters : ~Leads(k, z, y)

Labels == [own : [Clusters -> Names \cup {None}], rank : [Clusters -> Nat]]
Belongs(k, L, c, n) == c \in Clusters /\ L.own[c] = n /\ Used(k, c)
Begins(k, L, c, n) == Belongs(k, L, c, n) /\ L.rank[c] = 0
Further(L, x, y) == L.own[y] = L.own[x] /\ L.rank[y] = L.rank[x] + 1

Values == Clusters \cup {0, End}
Filled(k) ==
  /\ \A c \in Nums : First(k, c) \in Values /\ Second(k, c) \in Values
  /\ Used(k, 0) /\ Used(k, 1)
Links(k, L) ==
  \A x, y \in Clusters : Leads(k, x, y) => Further(L, x, y) /\ Used(k, y) /\ OnlyFrom(k, x, y)
Entered(k, L, n, e) ==
  /\ e.size \in Nat
  /\ IF e.cluster = 0 THEN e.size = 0 ELSE Begins(k, L, e.cluster, n)
Listed(k, L, hidden) == \A n \in Names \ hidden : Entered(k, L, n, k[Dir][n])
Tables(k, L, hidden) == Filled(k) /\ Links(k, L) /\ Listed(k, L, hidden)

---------------------------------------------------------------------------
(* A descriptor f: where it is in its file. *)

Numbers(f) == f.name \in Names /\ {f.block, f.index, f.last, f.size, f.pos} \subseteq Nat
Begun(k, L, f) == f.cluster # 0 => Begins(k, L, f.cluster, f.name) /\ f.cur # 0
Stands(k, L, f) == f.cur # 0 => Belongs(k, L, f.cur, f.name) /\ f.cluster # 0
Ahead(k, L, f) ==
  ~IsLast(f.next) =>
    /\ f.cur # 0 /\ Belongs(k, L, f.next, f.name)
    /\ L.rank[f.next] = L.rank[f.cur] + 1 /\ OnlyFrom(k, f.cur, f.next)

(* A file without clusters is empty, and nothing but its beginning or its  *)
(* end is at the start of the first cluster: fat_truncate frees the whole  *)
(* chain only of a file that it empties.                                   *)
Start(f, hidden) ==
  /\ f.cluster = 0 => f.size = 0
  /\ f.cluster = 0 /\ f.name \notin hidden => f.pos = 0 /\ f.last = 0 /\ AtClusterStart(f)
  /\ f.cluster # 0 /\ f.cur = f.cluster /\ AtClusterStart(f) => f.pos \in {0, f.size}

Founded(k, L, f, hidden) == Numbers(f) /\ Start(f, hidden) /\ Begun(k, L, f)
Settled(k, L, f, hidden) == Founded(k, L, f, hidden) /\ Stands(k, L, f) /\ Ahead(k, L, f)

(* The call j that runs on f. *)
Freeing == {"free", "freeMirror"}
Taking(k, j) == j.new \in Clusters /\ First(k, j.new) = End /\ NoneLeads(k, j.new)
Linking(k, L, j, f) ==
  /\ f.cur # 0 /\ Belongs(k, L, j.new, f.name) /\ L.rank[j.new] = L.rank[f.cur] + 1
  /\ IF j.pc = "link" THEN NoneLeads(k, j.new) ELSE OnlyFrom(k, f.cur, j.new)
Cutting(k, L, j, f) ==
  /\ ~j.whole /\ f.cur # 0 /\ Belongs(k, L, j.from, f.name)
  /\ L.rank[j.from] = L.rank[f.cur] + 1 /\ OnlyFrom(k, f.cur, j.from)
  /\ j.pc = "cutMirror" => First(k, f.cur) = End
Behind(k, L, j, f, c) == Belongs(k, L, c, f.name) /\ (~j.whole => L.rank[c] > L.rank[f.cur])
Releasing(k, L, j, f, hidden) ==
  /\ Founded(k, L, f, hidden)
  /\ IF j.whole THEN f.cluster = 0 ELSE f.cur # 0 /\ Stands(k, L, f)
  /\ IF j.pc = "free"
       THEN Behind(k, L, j, f, j.from) /\ NoneLeads(k, j.from)
       ELSE /\ j.from \in Clusters /\ First(k, j.from) = 0
            /\ ~IsLast(j.new) => Behind(k, L, j, f, j.new) /\ OnlyFrom(k, j.from, j.new)
Task(k, L, j, f, hidden) ==
  /\ j.left \in Nat
  /\ IF j.pc \in Moving THEN ~(f.name \in hidden /\ f.cluster = 0) ELSE f.name \in hidden
  /\ j.pc \in {"takeMirror", "link", "linkMirror"} => IsLast(f.next)
  /\ j.pc = "takeMirror" => Taking(k, j)
  /\ j.pc \in {"link", "linkMirror"} => Linking(k, L, j, f)
  /\ j.pc = "parent" => ~j.whole /\ Belongs(k, L, j.from, f.name) /\ f.cur # 0
  /\ j.pc \in {"cut", "cutMirror"} => Cutting(k, L, j, f)
  /\ j.pc \in Freeing => Releasing(k, L, j, f, hidden)

---------------------------------------------------------------------------
(* The invariant: what is on the card, and, while the card answers, what   *)
(* the descriptors and the call make of it.                                *)

Releases(d) == job.d = d /\ job.pc \in Freeing
Distinct == \A d, e \in Fds : Usable(d) /\ Usable(e) /\ fd[d].name = fd[e].name => d = e
Fresh(c) ==
  /\ \A n \in Names \ cut : disk[Dir][n].cluster # c
  /\ \A d \in Fds : Usable(d) =>
       /\ fd[d].cluster # c /\ fd[d].cur # c
       /\ ~IsLast(fd[d].next) => fd[d].next # c
Live(L) ==
  /\ Distinct
  /\ \A d \in Fds : Usable(d) /\ ~Releases(d) => Settled(disk, L, fd[d], cut)
  /\ job.pc # "idle" => Usable(job.d) /\ Task(disk, L, job, Desc, cut)
  /\ job.pc = "takeMirror" => Fresh(job.new)

Labelled(L) == Tables(disk, L, cut) /\ (card = "on" => Live(L))
ChainInv == \E L \in Labels : Labelled(L)

---------------------------------------------------------------------------
(* One entry of a sector is changed, or one copy of a sector is made the   *)
(* other.                                                                  *)

Put(k, b, c, v) == [k EXCEPT ![b] = [k[b] EXCEPT ![c % Entries] = v]]
Copy(k, a, b) == [k EXCEPT ![b] = k[a]]
Shaped(k) ==
  /\ DOMAIN k = TableBlocks \cup {Dir}
  /\ \A b \in TableBlocks : DOMAIN k[b] = 0 .. Entries - 1

(* The clusters are too few for End to be one of them: a table of 256      *)
(* sectors, whose last entry has the number 0xffff, is left out.           *)
Narrow == Entries * Sectors <= End

LEMMA ClusterNumbers ==
  ASSUME Narrow
  PROVE  /\ Clusters \subseteq Nums /\ 0 \notin Clusters /\ End \notin Clusters /\ End # 0
         /\ \A c \in Nums : c \in {0, 1} \cup Clusters
         /\ \A c \in Values : ~IsLast(c) /\ c # 0 => c \in Clusters
         /\ IsLast(End) /\ ~IsLast(0)
  BY Sizes DEF Narrow, Clusters, Nums, End, Values, IsLast

LEMMA DivMod ==
  ASSUME NEW c \in Nat
  PROVE  c = Sector(c) * Entries + (c % Entries)
  BY Sizes DEF Sector

LEMMA EntryApart ==
  ASSUME NEW c \in Nums, NEW x \in Nums, Sector(x) = Sector(c), x % Entries = c % Entries
  PROVE  x = c
  <1>1. x \in Nat /\ c \in Nat
    BY Sizes
  <1> QED BY <1>1, DivMod

LEMMA PutFirst ==
  ASSUME NEW k, Shaped(k), NEW c \in Nums, NEW v, NEW x \in Nums
  PROVE  LET m == Put(k, Table(Sector(c)), c, v)
         IN  First(m, x) = (IF x = c THEN v ELSE First(k, x)) /\ Second(m, x) = Second(k, x)
  <1> DEFINE b == Table(Sector(c))
             m == Put(k, b, c, v)
  <1>1. b \in TableBlocks /\ c % Entries \in 0 .. Entries - 1
    BY EntryPlace, Blocks
  <1>2. m[b] = [k[b] EXCEPT ![c % Entries] = v] /\ \A a \in TableBlocks \ {b} : m[a] = k[a]
    BY <1>1 DEF Put, Shaped
  <1>3. Sector(x) \in SectorNumbers /\ Sector(c) \in SectorNumbers /\ x % Entries \in 0 .. Entries - 1
    BY EntryPlace
  <1>4. Mirror(Sector(x)) \in TableBlocks \ {b} /\ Table(Sector(x)) \in TableBlocks
    BY <1>3, Blocks
  <1>5. Table(Sector(x)) = b <=> Sector(x) = Sector(c)
    BY <1>3, Blocks
  <1>6. DOMAIN k[b] = 0 .. Entries - 1 /\ (Sector(x) = Sector(c) => k[b][x % Entries] = First(k, x))
    BY <1>1 DEF First, Shaped
  <1> HIDE DEF m, b
  <1>7. First(m, x) = (IF x = c THEN v ELSE First(k, x)) /\ Second(m, x) = Second(k, x)
    <2>1. CASE Sector(x) = Sector(c)
      BY <1>1, <1>2, <1>3, <1>4, <1>5, <1>6, <2>1, EntryApart DEF First, Second
    <2>2. CASE Sector(x) # Sector(c)
      BY <1>2, <1>4, <1>5, <2>2 DEF First, Second
    <2> QED BY <2>1, <2>2
  <1> QED BY <1>7 DEF m, b

LEMMA PutSecond ==
  ASSUME NEW k, Shaped(k), NEW c \in Nums, NEW v, NEW x \in Nums
  PROVE  LET m == Put(k, Mirror(Sector(c)), c, v)
         IN  First(m, x) = First(k, x) /\ Second(m, x) = (IF x = c THEN v ELSE Second(k, x))
  <1> DEFINE b == Mirror(Sector(c))
             m == Put(k, b, c, v)
  <1>1. b \in TableBlocks /\ c % Entries \in 0 .. Entries - 1
    BY EntryPlace, Blocks
  <1>2. m[b] = [k[b] EXCEPT ![c % Entries] = v] /\ \A a \in TableBlocks \ {b} : m[a] = k[a]
    BY <1>1 DEF Put, Shaped
  <1>3. Sector(x) \in SectorNumbers /\ Sector(c) \in SectorNumbers /\ x % Entries \in 0 .. Entries - 1
    BY EntryPlace
  <1>4. Table(Sector(x)) \in TableBlocks \ {b} /\ Mirror(Sector(x)) \in TableBlocks
    BY <1>3, Blocks
  <1>5. Mirror(Sector(x)) = b <=> Sector(x) = Sector(c)
    BY <1>3, Blocks
  <1>6. DOMAIN k[b] = 0 .. Entries - 1 /\ (Sector(x) = Sector(c) => k[b][x % Entries] = Second(k, x))
    BY <1>1 DEF Second, Shaped
  <1> HIDE DEF m, b
  <1>7. First(m, x) = First(k, x) /\ Second(m, x) = (IF x = c THEN v ELSE Second(k, x))
    <2>1. CASE Sector(x) = Sector(c)
      BY <1>1, <1>2, <1>3, <1>4, <1>5, <1>6, <2>1, EntryApart DEF First, Second
    <2>2. CASE Sector(x) # Sector(c)
      BY <1>2, <1>4, <1>5, <2>2 DEF First, Second
    <2> QED BY <2>1, <2>2
  <1> QED BY <1>7 DEF m, b

LEMMA CopyEntries ==
  ASSUME NEW k, Shaped(k), NEW s \in SectorNumbers, NEW x \in Nums
  PROVE  /\ LET m == Copy(k, Table(s), Mirror(s))
            IN  First(m, x) = First(k, x) /\ Second(m, x) = IF Sector(x) = s THEN First(k, x) ELSE Second(k, x)
         /\ LET m == Copy(k, Mirror(s), Table(s))
            IN  Second(m, x) = Second(k, x) /\ First(m, x) = IF Sector(x) = s THEN Second(k, x) ELSE First(k, x)
  BY EntryPlace, Blocks DEF Copy, Shaped, First, Second

LEMMA DirKept ==
  ASSUME NEW k, Shaped(k), NEW b \in TableBlocks, NEW c, NEW v, NEW a
  PROVE  Put(k, b, c, v)[Dir] = k[Dir] /\ Copy(k, a, b)[Dir] = k[Dir]
  BY DirApart DEF Put, Copy, Shaped

---------------------------------------------------------------------------
(* A change of the tables after which no link is new and no cluster but z  *)
(* is given up.                                                            *)

Lessens(k, m, z) ==
  /\ \A x, y \in Clusters : Leads(m, x, y) => Leads(k, x, y)
  /\ \A y \in Clusters \ {z} : Used(k, y) => Used(m, y)
  /\ m[Dir] = k[Dir]

Erased(v, c) == IF v = 0 THEN c ELSE 0

LEMMA ErasesFirst ==
  ASSUME Narrow, NEW k, Shaped(k), Filled(k), NEW c \in Clusters, NEW v \in {0, End}
  PROVE  LET m == Put(k, Table(Sector(c)), c, v)
         IN  Filled(m) /\ Lessens(k, m, Erased(v, c)) /\ First(m, c) = v /\ Second(m, c) = Second(k, c)
  <1> DEFINE m == Put(k, Table(Sector(c)), c, v)
  <1>1. \A x \in Nums : First(m, x) = (IF x = c THEN v ELSE First(k, x)) /\ Second(m, x) = Second(k, x)
    BY PutFirst, ClusterNumbers
  <1>2. m[Dir] = k[Dir]
    BY TableBlockOf, ClusterNumbers, DirKept
  <1> HIDE DEF m
  <1>3. Filled(m)
    BY <1>1, ClusterNumbers, Sizes DEF Filled, Values, Used, Clusters
  <1>4. Lessens(k, m, Erased(v, c))
    BY <1>1, <1>2, ClusterNumbers DEF Lessens, Leads, Used, Erased
  <1> QED BY <1>1, <1>3, <1>4, ClusterNumbers DEF m

LEMMA ErasesSecond ==
  ASSUME Narrow, NEW k, Shaped(k), Filled(k), NEW c \in Clusters, NEW v \in {0, End}
  PROVE  LET m == Put(k, Mirror(Sector(c)), c, v)
         IN  Filled(m) /\ Lessens(k, m, Erased(v, c)) /\ First(m, c) = First(k, c) /\ Second(m, c) = v
  <1> DEFINE m == Put(k, Mirror(Sector(c)), c, v)
  <1>1. \A x \in Nums : First(m, x) = First(k, x) /\ Second(m, x) = (IF x = c THEN v ELSE Second(k, x))
    BY PutSecond, ClusterNumbers
  <1>2. m[Dir] = k[Dir]
    BY TableBlockOf, ClusterNumbers, DirKept
  <1> HIDE DEF m
  <1>3. Filled(m)
    BY <1>1, ClusterNumbers, Sizes DEF Filled, Values, Used, Clusters
  <1>4. Lessens(k, m, Erased(v, c))
    BY <1>1, <1>2, ClusterNumbers DEF Lessens, Leads, Used, Erased
  <1> QED BY <1>1, <1>3, <1>4, ClusterNumbers DEF m

LEMMA CopyLessens ==
  ASSUME Narrow, NEW k, Shaped(k), Filled(k), NEW s \in SectorNumbers, NEW m,
         m \in {Copy(k, Table(s), Mirror(s)), Copy(k, Mirror(s), Table(s))}
  PROVE  Filled(m) /\ Lessens(k, m, 0)
  <1>1. \/ \A x \in Nums : First(m, x) = First(k, x) /\ Second(m, x) \in {First(k, x), Second(k, x)}
        \/ \A x \in Nums : Second(m, x) = Second(k, x) /\ First(m, x) \in {First(k, x), Second(k, x)}
    <2>1. CASE m = Copy(k, Table(s), Mirror(s))
      BY <2>1, CopyEntries
    <2>2. CASE m = Copy(k, Mirror(s), Table(s))
      BY <2>2, CopyEntries
    <2> QED BY <2>1, <2>2
  <1>2. m[Dir] = k[Dir]
    BY Blocks, DirKept
  <1>3. Filled(m)
    BY <1>1, Sizes DEF Filled, Used
  <1>4. Lessens(k, m, 0)
    BY <1>1, <1>2, ClusterNumbers DEF Lessens, Leads, Used
  <1> QED BY <1>3, <1>4

LEMMA LinksLessen ==
  ASSUME NEW k, NEW m, NEW z, NEW L, Links(k, L), Lessens(k, m, z),
         z \in Clusters => NoneLeads(k, z)
  PROVE  Links(m, L)
  BY DEF Links, Lessens, OnlyFrom, NoneLeads

LEMMA ListedLessens ==
  ASSUME NEW k, NEW m, NEW z, NEW L, NEW hidden, NEW more, Listed(k, L, hidden),
         Lessens(k, m, z), hidden \subseteq more,
         \A n \in Names \ more : ~Belongs(k, L, z, n)
  PROVE  Listed(m, L, more)
  BY DEF Listed, Entered, Lessens, Begins, Belongs

LEMMA OnlyLessens ==
  ASSUME NEW k, NEW m, NEW z, Lessens(k, m, z), NEW y \in Clusters
  PROVE  /\ \A x : OnlyFrom(k, x, y) => OnlyFrom(m, x, y)
         /\ NoneLeads(k, y) => NoneLeads(m, y)
  BY DEF Lessens, OnlyFrom, NoneLeads

LEMMA BelongsLessens ==
  ASSUME NEW k, NEW m, NEW z, Lessens(k, m, z), NEW L, NEW c, NEW n, Belongs(k, L, c, n), c # z
  PROVE  Belongs(m, L, c, n)
  BY DEF Lessens, Belongs

LEMMA FoundedLessens ==
  ASSUME NEW k, NEW m, NEW z, Lessens(k, m, z), NEW L, NEW f, NEW hidden, NEW more,
         hidden \subseteq more, Founded(k, L, f, hidden), f.cluster # z \/ f.cluster = 0
  PROVE  Founded(m, L, f, more)
  <1>1. Start(f, more)
    BY DEF Founded, Start
  <1>2. Begun(m, L, f)
    BY BelongsLessens DEF Founded, Begun, Begins
  <1> QED BY <1>1, <1>2 DEF Founded

LEMMA SettledLessens ==
  ASSUME NEW k, NEW m, NEW z, Lessens(k, m, z), NEW L, NEW f, NEW hidden, NEW more,
         hidden \subseteq more, Settled(k, L, f, hidden), ~Belongs(k, L, z, f.name)
  PROVE  Settled(m, L, f, more)
  <1>1. Founded(m, L, f, more)
    BY FoundedLessens DEF Settled, Founded, Begun, Begins
  <1>2. Stands(m, L, f)
    BY BelongsLessens DEF Settled, Stands
  <1>3. Ahead(m, L, f)
    BY BelongsLessens, OnlyLessens DEF Settled, Ahead, Belongs
  <1> QED BY <1>1, <1>2, <1>3 DEF Settled

---------------------------------------------------------------------------
(* What a write leaves on the card: all of it, or, when it fails and the   *)
(* card is switched off, perhaps nothing.                                  *)

Wrote(m, ok) ==
  IF ok THEN card = "on" /\ card' = "on" /\ disk' = m
        ELSE card' = "off" /\ (disk' = disk \/ (card = "on" /\ disk' = m))

LEMMA OffIsNotOn == "off" # "on"
  OBVIOUS

LEMMA FlushWrites ==
  ASSUME NEW b, NEW block, NEW ok \in BOOLEAN, Flush(b, block, ok)
  PROVE  Wrote(Stored(b, block), ok)
  BY DEF Flush, CardFails, Wrote

LEMMA UpdateWrites ==
  ASSUME NEW b, NEW block, NEW miss, NEW ok \in BOOLEAN, Update(b, block, miss, ok)
  PROVE  Wrote(Stored(b, block), ok)
  <1>1. CASE Flush(b, block, ok)
    BY <1>1, FlushWrites
  <1>2. CASE ~ok /\ Fetch(b, miss, ok)
    BY <1>2 DEF Fetch, CardFails, Wrote
  <1> QED BY <1>1, <1>2 DEF Update

LEMMA FetchReads ==
  ASSUME NEW b, NEW miss, NEW ok \in BOOLEAN, Fetch(b, miss, ok)
  PROVE  disk' = disk /\ IF ok THEN card' = card ELSE card' = "off"
  BY DEF Fetch, CardFails

LEMMA ShapedDisk ==
  ASSUME IInv
  PROVE  Shaped(disk)
  BY DEF IInv, Store, DiskOK, BlockOK, TableBlock, Shaped

(* An entry as the cache has it is the entry on the card. *)
LEMMA EntryRead ==
  ASSUME IInv, card = "on", NEW c \in Nums
  PROVE  Entry(c) = First(disk, c)
  <1>1. Table(Sector(c)) \in TableBlocks /\ Table(Sector(c)) # None
    BY TableBlockOf
  <1> QED BY <1>1, GetOK, ShapedDisk DEF IInv, Entry, First, OnCard, Shaped

LEMMA EntryWritten ==
  ASSUME IInv, NEW c \in Nums, NEW b \in {Table(Sector(c)), Mirror(Sector(c))}, NEW v,
         NEW miss, NEW ok \in BOOLEAN, Update(b, WithEntry(b, c, v), miss, ok)
  PROVE  Wrote(Put(disk, b, c, v), ok)
  <1>1. b \in TableBlocks /\ b # None
    BY TableBlockOf
  <1>2. card = "on" => Stored(b, WithEntry(b, c, v)) = Put(disk, b, c, v)
    BY <1>1, GetOK, ShapedDisk DEF IInv, WithEntry, Stored, Put, OnCard, Shaped
  <1> QED BY <1>2, UpdateWrites DEF Wrote

LEMMA SectorWritten ==
  ASSUME IInv, NEW c \in Nums, NEW a, NEW b, {a, b} = {Table(Sector(c)), Mirror(Sector(c))},
         cacheAddr = a, NEW ok \in BOOLEAN, Flush(b, cache, ok)
  PROVE  Wrote(Copy(disk, a, b), ok)
  <1>1. {a, b} \subseteq TableBlocks /\ a # None
    BY TableBlockOf
  <1>2. card = "on" => Stored(b, cache) = Copy(disk, a, b)
    BY <1>1, ShapedDisk DEF IInv, Store, CacheFresh, OnCard, Stored, Copy, Shaped
  <1> QED BY <1>2, FlushWrites DEF Wrote

PutDir(n, e) == [disk EXCEPT ![Dir] = [disk[Dir] EXCEPT ![n] = e]]

LEMMA DirWritten ==
  ASSUME IInv, NEW n, NEW e, NEW miss, NEW ok \in BOOLEAN,
         Update(Dir, [Get(Dir) EXCEPT ![n] = e], miss, ok)
  PROVE  Wrote(PutDir(n, e), ok)
  <1>1. card = "on" => Stored(Dir, [Get(Dir) EXCEPT ![n] = e]) = PutDir(n, e)
    BY NoneAssumption, GetOK, ShapedDisk DEF IInv, Stored, PutDir, OnCard, Shaped
  <1> QED BY <1>1, UpdateWrites DEF Wrote

(* The directory is no part of the table. *)
LEMMA DirLinks ==
  ASSUME IInv, Narrow, NEW L, Filled(disk), Links(disk, L), NEW n, NEW e
  PROVE  /\ Filled(PutDir(n, e)) /\ Links(PutDir(n, e), L)
         /\ \A c \in Nums : First(PutDir(n, e), c) = First(disk, c) /\ Second(PutDir(n, e), c) = Second(disk, c)
         /\ \A m \in Names : PutDir(n, e)[Dir][m] = IF m = n THEN e ELSE disk[Dir][m]
  <1> DEFINE k == PutDir(n, e)
  <1>1. \A c \in Nums : First(k, c) = First(disk, c) /\ Second(k, c) = Second(disk, c)
    BY ShapedDisk, TableBlockOf, DirApart DEF PutDir, Shaped, First, Second
  <1>2. \A m \in Names : k[Dir][m] = IF m = n THEN e ELSE disk[Dir][m]
    BY ShapedDisk DEF PutDir, Shaped, IInv, Store, DiskOK, BlockOK, DirOK
  <1> HIDE DEF k
  <1>3. Filled(k)
    BY <1>1, Sizes DEF Filled, Used
  <1>4. Links(k, L)
    BY <1>1, ClusterNumbers DEF Links, Leads, Used, OnlyFrom
  <1> QED BY <1>1, <1>2, <1>3, <1>4 DEF k

---------------------------------------------------------------------------
(* The invariant for labels L, and a step that the card does not survive.  *)

Before(L) == Narrow /\ ReuseTruncated = FALSE /\ IInv /\ L \in Labels /\ Labelled(L)

LEMMA OffKeeps ==
  ASSUME NEW L, Before(L), card' # "on", disk' = disk, cut \subseteq cut'
  PROVE  Labelled(L)'
  BY DEF Before, Labelled, Tables, Listed

LEMMA FailedKeeps ==
  ASSUME NEW L, Before(L), NEW m, Wrote(m, FALSE),
         card = "on" => Tables(m, L, cut'), cut \subseteq cut'
  PROVE  Labelled(L)'
  BY OffKeeps DEF Before, Labelled, Wrote

(* The tables after a change that lessens them. *)
LEMMA TablesLessen ==
  ASSUME NEW k, NEW m, NEW z, NEW L, NEW hidden, NEW more, Tables(k, L, hidden), Filled(m),
         Lessens(k, m, z), z \in Clusters => NoneLeads(k, z), hidden \subseteq more,
         \A n \in Names \ more : ~Belongs(k, L, z, n)
  PROVE  Tables(m, L, more)
  BY LinksLessen, ListedLessens DEF Tables

(* The other descriptors, when the one of a step is d. *)
LEMMA OthersKept ==
  ASSUME NEW L, Live(L), NEW d \in Fds, \A e \in Fds \ {d} : fd'[e] = fd[e],
         Usable(d), job.pc \in Freeing => job.d = d, cut \subseteq cut',
         NEW z, Lessens(disk, disk', z),
         \A n : n # fd[d].name => ~Belongs(disk, L, z, n)
  PROVE  \A e \in Fds \ {d} : Usable(e)' => Settled(disk', L, fd'[e], cut')
  <1> SUFFICES ASSUME NEW e \in Fds \ {d}, Usable(e)' PROVE Settled(disk', L, fd'[e], cut')
    OBVIOUS
  <1>1. Usable(e) /\ fd'[e] = fd[e] /\ fd[e].name # fd[d].name
    BY DEF Live, Distinct, Usable
  <1>2. Settled(disk, L, fd[e], cut)
    BY <1>1 DEF Live, Releases
  <1> QED BY <1>1, <1>2, SettledLessens

LEMMA Assembled ==
  ASSUME NEW L, Distinct, NEW d \in Fds, \A e \in Fds \ {d} : fd'[e] = fd[e],
         \A e \in Fds \ {d} : Usable(e)' => Settled(disk', L, fd'[e], cut'),
         Usable(d), Usable(d)', fd'[d].name = fd[d].name,
         ~Releases(d)' => Settled(disk', L, fd'[d], cut'),
         job'.pc = "idle" \/ (job'.d = d /\ Task(disk', L, job', fd'[d], cut')),
         job'.pc = "takeMirror" => Fresh(job.new)'
  PROVE  Live(L)'
  <1>1. Distinct'
    <2>1. \A e \in Fds : Usable(e)' => Usable(e) /\ fd'[e].name = fd[e].name
      BY DEF Usable
    <2> QED BY <2>1 DEF Distinct
  <1>2. \A e \in Fds : Usable(e)' /\ ~Releases(e)' => Settled(disk', L, fd'[e], cut')
    OBVIOUS
  <1>3. job'.pc # "idle" => Usable(job.d)' /\ Task(disk', L, job', Desc', cut')
    BY DEF Desc, Usable
  <1> QED BY <1>1, <1>2, <1>3 DEF Live

LEMMA NothingLessens ==
  ASSUME UNCHANGED disk
  PROVE  Lessens(disk, disk', 0)
  BY DEF Lessens

SameFile(f, g) == f.free = g.free /\ f.stale = g.stale /\ f.name = g.name
OneChanged(d, f) == fd'[d] = f /\ \A e \in Fds \ {d} : fd'[e] = fd[e]

(* A step of a call, or a call that begins, on a card that answers: only   *)
(* the descriptor d has to be looked at.                                   *)
LEMMA StepKeeps ==
  ASSUME NEW L, Before(L), card = "on", NEW d \in Fds, Usable(d), At("idle") \/ job.d = d,
         NEW f, OneChanged(d, f), SameFile(f, fd[d]), cut \subseteq cut',
         NEW z, Lessens(disk, disk', z), Filled(disk'), z \in Clusters => NoneLeads(disk, z),
         \A n : Belongs(disk, L, z, n) => n = fd[d].name /\ n \in cut',
         ~Releases(d)' => Settled(disk', L, f, cut'),
         job'.pc = "idle" \/ (job'.d = d /\ Task(disk', L, job', f, cut')),
         job'.pc = "takeMirror" => Fresh(job.new)'
  PROVE  Labelled(L)'
  <1>1. Tables(disk', L, cut')
    <2>1. Tables(disk, L, cut)
      BY DEF Before, Labelled
    <2> QED BY <2>1, TablesLessen
  <1>2. Live(L)
    BY DEF Before, Labelled
  <1>3. \A e \in Fds \ {d} : Usable(e)' => Settled(disk', L, fd'[e], cut')
    BY <1>2, OthersKept DEF OneChanged, Freeing, At
  <1>4. Usable(d)' /\ fd'[d].name = fd[d].name /\ fd'[d] = f
    BY DEF OneChanged, SameFile, Usable
  <1>5. Live(L)'
    BY <1>2, <1>3, <1>4, Assembled DEF OneChanged, Live
  <1> QED BY <1>1, <1>5 DEF Labelled

(* The same when the tables stay as they are. *)
LEMMA QuietKeeps ==
  ASSUME NEW L, Before(L), card = "on", NEW d \in Fds, Usable(d), At("idle") \/ job.d = d,
         NEW f, OneChanged(d, f), SameFile(f, fd[d]), cut \subseteq cut', disk' = disk,
         ~Releases(d)' => Settled(disk, L, f, cut'),
         job'.pc = "idle" \/ (job'.d = d /\ Task(disk, L, job', f, cut')),
         job'.pc # "takeMirror"
  PROVE  Labelled(L)'
  <1>1. Filled(disk) /\ 0 \notin Clusters
    BY ClusterNumbers DEF Before, Labelled, Tables
  <1>2. \A n : ~Belongs(disk, L, 0, n)
    BY <1>1 DEF Belongs
  <1> QED BY <1>1, <1>2, NothingLessens, StepKeeps

LEMMA Settlement ==
  ASSUME NEW L, Before(L), card = "on", NEW d \in Fds, Usable(d), ~Releases(d)
  PROVE  Settled(disk, L, fd[d], cut) /\ DescOK(fd[d])
  BY DEF Before, Labelled, Live, IInv, Descs

LEMMA Underway ==
  ASSUME NEW L, Before(L), card = "on", job.pc # "idle"
  PROVE  /\ job.d \in Fds /\ Usable(job.d) /\ DescOK(Desc) /\ DOMAIN job = DOMAIN Idle
         /\ Task(disk, L, job, Desc, cut)
         /\ job.pc \notin Freeing => Settled(disk, L, Desc, cut)
  <1>1. job.d \in Fds /\ DescOK(Desc) /\ DOMAIN job = DOMAIN Idle
    BY Running DEF Before, IInv, Jobs
  <1> QED BY <1>1 DEF Before, Labelled, Live, Releases, Desc

LEMMA SetOne ==
  ASSUME IInv, NEW d \in Fds, NEW f, fd' = [fd EXCEPT ![d] = f]
  PROVE  OneChanged(d, f)
  BY DEF IInv, Descs, OneChanged

(* An entry that leads on, as a walk along the chain reads it. *)
LEMMA WalkOn ==
  ASSUME NEW L, Before(L), NEW x, NEW n, Belongs(disk, L, x, n), NEW y, y = First(disk, x)
  PROVE  /\ y # 0
         /\ ~IsLast(y) => y \in Clusters
         /\ y \in Clusters => /\ Belongs(disk, L, y, n) /\ L.rank[y] = L.rank[x] + 1
                              /\ OnlyFrom(disk, x, y)
  <1>1. y \in Values /\ y # 0 /\ x \in Clusters
    BY ClusterNumbers DEF Belongs, Used, Before, Labelled, Tables, Filled
  <1> QED BY <1>1, ClusterNumbers DEF Before, Labelled, Tables, Links, Leads, Further, Belongs

LEMMA RanksNat ==
  ASSUME NEW L, Before(L), NEW c \in Clusters
  PROVE  L.rank[c] \in Nat
  BY DEF Before, Labels

---------------------------------------------------------------------------
(* The calls of programs. *)

LEMMA Lengths ==
  ASSUME NEW size \in Nat
  PROVE  LastLen(size) \in Nat /\ (size = 0 => LastLen(size) = 0)
  <1>1. ClusterSize \in Nat /\ ClusterSize > 0
    BY GeometryAssumption DEF ClusterSize
  <1> QED BY <1>1 DEF LastLen

LEMMA OpenedSettled ==
  ASSUME NEW L, Before(L), NEW n \in Names, NEW e, NEW k, Entered(k, L, n, e),
         NEW next,
         ~IsLast(next) => /\ e.cluster # 0 /\ Belongs(k, L, next, n)
                          /\ L.rank[next] = L.rank[e.cluster] + 1 /\ OnlyFrom(k, e.cluster, next),
         NEW hidden
  PROVE  Settled(k, L, Opened(n, e, next), hidden)
  <1> DEFINE f == Opened(n, e, next)
  <1>1. /\ f.name = n /\ f.cluster = e.cluster /\ f.size = e.size /\ f.last = LastLen(e.size)
        /\ f.block = 0 /\ f.index = 0 /\ f.next = next /\ f.cur = e.cluster /\ f.pos = 0
    BY DEF Opened, Free
  <1> HIDE DEF f
  <1>2. Numbers(f) /\ Start(f, hidden)
    BY <1>1, Lengths DEF Numbers, Start, AtClusterStart, Entered
  <1>3. Begun(k, L, f) /\ Stands(k, L, f) /\ Ahead(k, L, f)
    BY <1>1 DEF Begun, Stands, Ahead, Entered, Begins
  <1>4. Settled(k, L, f, hidden)
    BY <1>2, <1>3 DEF Settled, Founded
  <1> QED BY <1>4 DEF f

(* A descriptor that is opened: nobody else has its name. *)
LEMMA OpenedLive ==
  ASSUME NEW L, Before(L), card = "on", At("idle"), UNCHANGED <<job, cut>>, NEW d \in Fds,
         NEW n, ~IsOpen(n), NEW f, OneChanged(d, f), f.name = n, Settled(disk', L, f, cut),
         Lessens(disk, disk', 0)
  PROVE  Live(L)'
  <1>1. \A e \in Fds \ {d} : Usable(e)' => Usable(e) /\ fd'[e] = fd[e] /\ fd[e].name # n
    BY DEF OneChanged, Usable, IsOpen
  <1>2. Distinct'
    BY <1>1 DEF OneChanged, Before, Labelled, Live, Distinct
  <1>3. \A e \in Fds \ {d} : Usable(e)' => Settled(disk', L, fd'[e], cut')
    <2> SUFFICES ASSUME NEW e \in Fds \ {d}, Usable(e)' PROVE Settled(disk', L, fd'[e], cut')
      OBVIOUS
    <2>1. Settled(disk, L, fd[e], cut) /\ ~Belongs(disk, L, 0, fd[e].name)
      BY <1>1, Settlement, ClusterNumbers DEF Releases, At, Freeing, Before, Belongs
    <2> QED BY <1>1, <2>1, SettledLessens
  <1> QED BY <1>2, <1>3 DEF Live, OneChanged, At

LEMMA OpenFileLabels ==
  ASSUME NEW L, Before(L), NEW n \in Names, OpenFile(n)
  PROVE  Labelled(L)'
  <1> DEFINE e == Get(Dir)[n]
             b == IF e.cluster = 0 THEN Dir ELSE Table(Sector(e.cluster))
             next == IF e.cluster = 0 THEN End ELSE Entry(e.cluster)
  <1>1. PICK d \in Fds, ok \in BOOLEAN :
          /\ NextFd(d)
          /\ Fetch(b, Miss(Dir) \/ e.cluster # 0, ok)
          /\ fd' = IF ok /\ next # 0 THEN [fd EXCEPT ![d] = Opened(n, e, next)] ELSE fd
    BY DEF OpenFile
  <1>2. At("idle") /\ ~IsOpen(n) /\ n \notin cut /\ UNCHANGED <<job, cut>>
    BY DEF OpenFile, MayOpen
  <1>3. disk' = disk /\ IF ok THEN card' = card ELSE card' = "off"
    BY <1>1, FetchReads
  <1>4. CASE card' # "on"
    BY <1>2, <1>3, <1>4, OffKeeps
  <1>5. CASE card' = "on"
    <2>1. ok /\ card = "on" /\ IInv
      BY <1>3, <1>5 DEF Before
    <2>2. e = disk[Dir][n]
      BY <2>1, GetOK, NoneAssumption, ShapedDisk DEF IInv, OnCard, Shaped
    <2>3. Entered(disk, L, n, e)
      BY <1>2, <2>2 DEF Before, Labelled, Tables, Listed
    <2> HIDE DEF e
    <2>4. ~IsLast(next) /\ next # 0 =>
            /\ e.cluster # 0 /\ Belongs(disk, L, next, n)
            /\ L.rank[next] = L.rank[e.cluster] + 1 /\ OnlyFrom(disk, e.cluster, next)
      <3> SUFFICES ASSUME ~IsLast(next), next # 0
                   PROVE  /\ e.cluster # 0 /\ Belongs(disk, L, next, n)
                          /\ L.rank[next] = L.rank[e.cluster] + 1 /\ OnlyFrom(disk, e.cluster, next)
        OBVIOUS
      <3>1. e.cluster # 0 /\ Belongs(disk, L, e.cluster, n) /\ e.cluster \in Nums
        BY <2>3, ClusterNumbers DEF Before, Entered, Begins, Belongs
      <3>2. next = First(disk, e.cluster)
        BY <2>1, <3>1, EntryRead
      <3> QED BY <3>1, <3>2, WalkOn
    <2>5. CASE next # 0
      <3>1. OneChanged(d, Opened(n, e, next))
        BY <1>1, <2>1, <2>5, SetOne
      <3>2. Settled(disk', L, Opened(n, e, next), cut)
        BY <1>3, <2>3, <2>4, <2>5, OpenedSettled
      <3>3. Live(L)'
        BY <1>2, <1>3, <2>1, <3>1, <3>2, OpenedLive, NothingLessens DEF Opened, Free
      <3> QED BY <1>2, <1>3, <3>3 DEF Labelled, Before
    <2>6. CASE next = 0
      BY <1>1, <1>2, <1>3, <2>1, <2>6
         DEF Before, Labelled, Live, Distinct, Usable, Releases, Desc, At, Tables, Listed
    <2> QED BY <2>5, <2>6
  <1> QED BY <1>4, <1>5

(* A file is entered in the directory: the clusters of the others are      *)
(* what they were.                                                         *)
LEMMA EnteredTables ==
  ASSUME NEW L, Before(L), NEW n, NEW e, Entered(disk, L, n, e),
         NEW hidden, cut \ {n} \subseteq hidden
  PROVE  Tables(PutDir(n, e), L, hidden)
  <1> DEFINE k == PutDir(n, e)
  <1>1. /\ Filled(k) /\ Links(k, L)
        /\ \A c \in Nums : First(k, c) = First(disk, c) /\ Second(k, c) = Second(disk, c)
        /\ \A m \in Names : k[Dir][m] = IF m = n THEN e ELSE disk[Dir][m]
    BY DirLinks DEF Before, Labelled, Tables
  <1> HIDE DEF k
  <1>2. \A c, m : Belongs(disk, L, c, m) => Belongs(k, L, c, m)
    BY <1>1, ClusterNumbers DEF Belongs, Used, Before
  <1>3. ASSUME NEW m \in Names \ hidden PROVE Entered(k, L, m, k[Dir][m])
    BY <1>1, <1>2 DEF Before, Labelled, Tables, Listed, Entered, Begins
  <1>4. Tables(k, L, hidden)
    BY <1>1, <1>3 DEF Tables, Listed
  <1> QED BY <1>4 DEF k

LEMMA EnteredSettled ==
  ASSUME NEW L, Before(L), NEW n, NEW e, disk' = PutDir(n, e), NEW f, NEW hidden,
         Settled(disk, L, f, hidden)
  PROVE  Settled(disk', L, f, hidden)
  <1>1. \A c \in Nums : First(disk', c) = First(disk, c) /\ Second(disk', c) = Second(disk, c)
    BY DirLinks DEF Before, Labelled, Tables
  <1>2. \A c, m : Belongs(disk, L, c, m) => Belongs(disk', L, c, m)
    BY <1>1, ClusterNumbers DEF Belongs, Used, Before
  <1>3. \A x, y \in Clusters : Leads(disk', x, y) <=> Leads(disk, x, y)
    BY <1>1, ClusterNumbers DEF Leads, Before
  <1>4. Begun(disk', L, f) /\ Stands(disk', L, f)
    BY <1>2 DEF Settled, Founded, Begun, Begins, Stands
  <1>5. Ahead(disk', L, f)
    BY <1>2, <1>3 DEF Settled, Ahead, OnlyFrom, Belongs
  <1> QED BY <1>4, <1>5 DEF Settled, Founded

LEMMA CreateFileLabels ==
  ASSUME NEW L, Before(L), NEW n \in Names, CreateFile(n)
  PROVE  Labelled(L)'
  <1> DEFINE e == [EmptyEntry EXCEPT !.used = TRUE]
             f == Opened(n, e, End)
  <1>1. PICK d \in Fds, ok \in BOOLEAN :
          /\ NextFd(d)
          /\ Update(Dir, [Get(Dir) EXCEPT ![n] = e], Miss(Dir), ok)
          /\ fd' = IF ok THEN [fd EXCEPT ![d] = f] ELSE fd
    BY DEF CreateFile
  <1>2. At("idle") /\ ~IsOpen(n) /\ UNCHANGED <<job, cut>> /\ IInv
    BY DEF CreateFile, MayOpen, Before
  <1>3. e.cluster = 0 /\ e.size = 0
    BY DEF EmptyEntry
  <1> HIDE DEF e
  <1>4. Wrote(PutDir(n, e), ok)
    BY <1>1, <1>2, DirWritten
  <1>5. Entered(disk, L, n, e)
    BY <1>3 DEF Entered
  <1>6. Tables(PutDir(n, e), L, cut')
    BY <1>2, <1>5, EnteredTables
  <1>7. CASE ~ok
    BY <1>2, <1>4, <1>6, <1>7, FailedKeeps
  <1>8. CASE ok
    <2>1. card = "on" /\ card' = "on" /\ disk' = PutDir(n, e)
      BY <1>4, <1>8 DEF Wrote
    <2>2. OneChanged(d, f)
      BY <1>1, <1>2, <1>8, SetOne
    <2>3. Settled(disk', L, f, cut)
      <3>1. IsLast(End) /\ Entered(disk', L, n, e)
        BY <1>3 DEF IsLast, End, Entered
      <3> QED BY <3>1, OpenedSettled
    <2>4. f.name = n
      BY DEF Opened, Free
    <2> HIDE DEF f
    <2>5. Live(L)'
      <3>1. \A x \in Fds \ {d} : Usable(x)' => Usable(x) /\ fd'[x] = fd[x] /\ fd[x].name # n
        BY <1>2, <2>2 DEF OneChanged, Usable, IsOpen
      <3>2. Distinct'
        BY <2>1, <2>2, <2>4, <3>1 DEF OneChanged, Before, Labelled, Live, Distinct
      <3>3. \A x \in Fds \ {d} : Usable(x)' => Settled(disk', L, fd'[x], cut')
        BY <1>2, <2>1, <3>1, Settlement, EnteredSettled DEF Releases, At, Freeing
      <3> QED BY <1>2, <2>2, <2>3, <3>2, <3>3 DEF Live, OneChanged, At
    <2> QED BY <1>6, <2>1, <2>5 DEF Labelled
  <1> QED BY <1>7, <1>8

LEMMA CloseFileLabels ==
  ASSUME NEW L, Before(L), NEW d \in Fds, CloseFile(d)
  PROVE  Labelled(L)'
  <1> DEFINE f == fd[d]
             e == [used |-> TRUE, cluster |-> f.cluster, size |-> f.size]
  <1>1. At("idle") /\ ~f.free /\ UNCHANGED job /\ OneChanged(d, Free) /\ IInv
    BY SetOne DEF CloseFile, Before
  <1>2. \A x \in Fds : Usable(x)' => x # d /\ Usable(x) /\ fd'[x] = fd[x]
    BY <1>1 DEF OneChanged, Usable, Free
  <1>3. card = "on" =>
          /\ \A x \in Fds : Usable(x) => Settled(disk, L, fd[x], cut)
          /\ Distinct /\ Distinct'
    BY <1>1, <1>2, Settlement DEF Releases, At, Freeing, Before, Labelled, Live, Distinct
  <1>4. CASE UNCHANGED <<disk, card, cut>>
    BY <1>1, <1>2, <1>3, <1>4, OffKeeps DEF Labelled, Live, At, Before, Releases, Tables, Listed
  <1>5. ASSUME f.modified, ~f.stale, NEW ok \in BOOLEAN,
               Update(Dir, [Get(Dir) EXCEPT ![f.name] = e], Miss(Dir), ok),
               cut' = IF ok THEN cut \ {f.name} ELSE cut
        PROVE  Labelled(L)'
    <2>1. Wrote(PutDir(f.name, e), ok)
      BY <1>1, <1>5, DirWritten
    <2>2. card = "on" => Tables(PutDir(f.name, e), L, cut')
      <3> SUFFICES ASSUME card = "on" PROVE Tables(PutDir(f.name, e), L, cut')
        OBVIOUS
      <3>1. Settled(disk, L, f, cut)
        BY <1>1, <1>3, <1>5 DEF Usable
      <3>2. Entered(disk, L, f.name, e)
        BY <3>1 DEF Settled, Founded, Numbers, Start, Begun, Entered
      <3> HIDE DEF e
      <3> QED BY <1>5, <3>2, EnteredTables
    <2> HIDE DEF e
    <2>3. CASE ~ok
      BY <1>5, <2>1, <2>2, <2>3, FailedKeeps
    <2>4. CASE ok
      <3>1. card = "on" /\ card' = "on" /\ disk' = PutDir(f.name, e) /\ cut' = cut \ {f.name}
        BY <1>5, <2>1, <2>4 DEF Wrote
      <3>2. ASSUME NEW x \in Fds, Usable(x)' PROVE Settled(disk', L, fd'[x], cut')
        <4>1. Settled(disk, L, fd[x], cut) /\ fd[x].name # f.name /\ fd'[x] = fd[x]
          BY <1>1, <1>2, <1>3, <1>5, <3>1, <3>2 DEF Distinct, Usable
        <4>2. Settled(disk', L, fd[x], cut)
          BY <3>1, <4>1, EnteredSettled
        <4> QED BY <3>1, <4>1, <4>2 DEF Settled, Founded, Start
      <3>3. Live(L)'
        BY <1>1, <1>3, <3>1, <3>2 DEF Live, At
      <3> QED BY <2>2, <3>1, <3>3 DEF Labelled
    <2> QED BY <2>3, <2>4
  <1> QED BY <1>4, <1>5 DEF CloseFile

(* A call that begins on descriptor d: on a card that is off nothing has   *)
(* to be known of it.                                                      *)
LEMMA CallKeeps ==
  ASSUME NEW L, Before(L), At("idle"), UNCHANGED <<disk, card>>, cut \subseteq cut',
         NEW d \in Fds, Usable(d), NEW f, OneChanged(d, f), SameFile(f, fd[d]),
         card = "on" =>
           /\ job'.pc \notin Freeing => Settled(disk, L, f, cut')
           /\ job'.pc = "idle" \/ (job'.d = d /\ Task(disk, L, job', f, cut')),
         job'.pc # "takeMirror"
  PROVE  Labelled(L)'
  <1>1. CASE card # "on"
    BY <1>1, OffKeeps
  <1>2. CASE card = "on"
    <2>1. job'.pc \in Freeing => job'.d = d
      BY <1>2 DEF Freeing
    <2>2. ~Releases(d)' => Settled(disk, L, f, cut')
      BY <1>2, <2>1 DEF Releases
    <2> QED BY <1>2, <2>2, QuietKeeps
  <1> QED BY <1>1, <1>2

LEMMA Unchanged ==
  ASSUME UNCHANGED fd, NEW d
  PROVE  OneChanged(d, fd[d]) /\ SameFile(fd[d], fd[d])
  BY DEF OneChanged, SameFile

LEMMA MoveOn ==
  ASSUME NEW k, NEW L, NEW j, NEW f, NEW hidden, j.pc \in {"transfer", "seek", "cross"},
         j.left \in Nat, ~(f.name \in hidden /\ f.cluster = 0)
  PROVE  Task(k, L, j, f, hidden)
  BY DEF Task, Moving, Freeing

LEMMA StartTransferLabels ==
  ASSUME NEW L, Before(L), NEW d \in Fds, NEW n \in Lens, NEW write \in BOOLEAN,
         StartTransfer(d, n, write)
  PROVE  Labelled(L)'
  <1>1. At("idle") /\ Usable(d) /\ ~(fd[d].name \in cut /\ fd[d].cluster = 0)
    BY DEF StartTransfer, MayUse, InUse, Before
  <1>2. job'.pc = "transfer" /\ job'.d = d /\ job'.left \in Nat
    BY ProgramsAssumption DEF StartTransfer, Idle
  <1>3. UNCHANGED <<disk, card, fd, cut>>
    BY DEF StartTransfer
  <1>4. Task(disk, L, job', fd[d], cut')
    BY <1>1, <1>2, <1>3, MoveOn
  <1>5. card = "on" => Settled(disk, L, fd[d], cut')
    BY <1>1, <1>3, Settlement DEF Releases, At, Freeing
  <1> QED BY <1>1, <1>2, <1>3, <1>4, <1>5, Unchanged, CallKeeps

LEMMA StartSeekLabels ==
  ASSUME NEW L, Before(L), NEW d \in Fds, StartSeek(d)
  PROVE  Labelled(L)'
  <1>1. At("idle") /\ Usable(d) /\ ~(fd[d].name \in cut /\ fd[d].cluster = 0)
    BY DEF StartSeek, MayUse, InUse, Before
  <1>2. job'.pc = "seek" /\ job'.d = d /\ job'.left \in Nat
    BY DEF StartSeek, Idle
  <1>3. UNCHANGED <<disk, card, fd, cut>>
    BY DEF StartSeek
  <1>4. Task(disk, L, job', fd[d], cut')
    BY <1>1, <1>2, <1>3, MoveOn
  <1>5. card = "on" => Settled(disk, L, fd[d], cut')
    BY <1>1, <1>3, Settlement DEF Releases, At, Freeing
  <1> QED BY <1>1, <1>2, <1>3, <1>4, <1>5, Unchanged, CallKeeps

(* A file that is truncated has clusters: an empty one is at its end.      *)
LEMMA TruncatedFile ==
  ASSUME NEW L, Before(L), NEW d \in Fds, NEW pc, NEW f, NEW from, NEW whole,
         StartTruncate(d, pc, f, from, whole), card = "on"
  PROVE  LET g == fd[d]
         IN  /\ Settled(disk, L, g, cut) /\ DescOK(g) /\ g.cluster # 0 /\ g.cur # 0
             /\ Begins(disk, L, g.cluster, g.name) /\ Belongs(disk, L, g.cur, g.name)
             /\ g.pos # g.size
  <1>1. /\ At("idle") /\ Usable(d) /\ ~(fd[d].name \in cut /\ fd[d].cluster = 0)
        /\ fd[d].pos # fd[d].size
    BY DEF StartTruncate, MayUse, InUse, Before
  <1>2. Settled(disk, L, fd[d], cut) /\ DescOK(fd[d])
    BY <1>1, Settlement DEF Releases, At, Freeing
  <1> QED BY <1>1, <1>2 DEF Settled, Founded, Start, Begun, Stands

(* The size is where the descriptor is. *)
LEMMA ResizedFounded ==
  ASSUME NEW k, NEW L, NEW f, NEW hidden, NEW g, DescOK(f), Founded(k, L, f, hidden),
         f.cluster # 0, NEW more, f.name \in more, g = Resized(f)
  PROVE  /\ Founded(k, L, g, more) /\ DescOK(g)
         /\ g.cluster = f.cluster /\ g.cur = f.cur /\ g.next = f.next /\ g.name = f.name
         /\ g.size = f.pos /\ g.pos = f.pos /\ g.last = f.last /\ g.block = f.block
         /\ g.index = f.index /\ SameFile(g, f)
  <1>1. /\ DescOK(g)
        /\ g.cluster = f.cluster /\ g.cur = f.cur /\ g.next = f.next /\ g.name = f.name
        /\ g.size = f.pos /\ g.pos = f.pos /\ g.last = f.last /\ g.block = f.block
        /\ g.index = f.index /\ SameFile(g, f)
    BY DEF DescOK, Resized, Free, SameFile
  <1> QED BY <1>1 DEF Founded, Numbers, Start, Begun, AtClusterStart

LEMMA StartsTruncate ==
  ASSUME NEW L, Before(L), NEW d \in Fds, NEW pc \in {"idle", "free", "parent", "cut"},
         NEW f, NEW from, NEW whole, StartTruncate(d, pc, f, from, whole),
         UNCHANGED <<disk, card>>, SameFile(f, fd[d]),
         card = "on" =>
           /\ pc # "free" => Settled(disk, L, f, cut')
           /\ pc # "idle" => \A j : j.pc = pc /\ j.from = from /\ j.whole = whole /\ j.left \in Nat
                               => Task(disk, L, j, f, cut')
  PROVE  Labelled(L)'
  <1>1. At("idle") /\ Usable(d) /\ cut' = cut \cup {f.name} /\ IInv
    BY DEF StartTruncate, MayUse, InUse, Before
  <1>2. OneChanged(d, f)
    BY <1>1, SetOne DEF StartTruncate
  <1>3. /\ job'.pc = pc
        /\ pc # "idle" => job'.from = from /\ job'.whole = whole /\ job'.left \in Nat /\ job'.d = d
    BY DEF StartTruncate, Idle
  <1> QED BY <1>1, <1>2, <1>3, CallKeeps DEF Freeing

LEMMA TruncateWholeLabels ==
  ASSUME NEW L, Before(L), NEW d \in Fds, TruncateWhole(d)
  PROVE  Labelled(L)'
  <1> DEFINE f == fd[d]
             g == Resized(f)
             h == [g EXCEPT !.cluster = 0]
  <1>1. /\ AtClusterStart(f) /\ f.cur = f.cluster
        /\ StartTruncate(d, "free", h, f.cur, TRUE) /\ UNCHANGED <<disk, card>>
    BY DEF TruncateWhole
  <1>2. DescOK(f) /\ cut' = cut \cup {h.name}
    BY <1>1 DEF Before, IInv, Descs, StartTruncate
  <1>3. /\ h.cluster = 0 /\ h.size = f.pos /\ SameFile(h, f) /\ h.name = f.name /\ h.cur = f.cur
        /\ h.pos = f.pos /\ h.last = f.last /\ h.block = f.block /\ h.index = f.index
    BY <1>2 DEF DescOK, Resized, Free, SameFile
  <1> HIDE DEF f, g, h
  <1>4. ASSUME card = "on", NEW j, j.pc = "free", j.from = f.cur, j.whole = TRUE, j.left \in Nat
        PROVE  Task(disk, L, j, h, cut')
    <2>1. /\ Settled(disk, L, f, cut) /\ f.cluster # 0 /\ Begins(disk, L, f.cur, f.name)
          /\ f.pos # f.size
      BY <1>1, <1>4, TruncatedFile DEF f
    <2>2. f.pos = 0
      BY <1>1, <2>1 DEF Settled, Founded, Start
    <2>3. Founded(disk, L, h, cut')
      BY <1>2, <1>3, <2>1, <2>2 DEF Settled, Founded, Numbers, Start, Begun
    <2>4. NoneLeads(disk, f.cur)
      <3> SUFFICES ASSUME NEW x \in Clusters, Leads(disk, x, f.cur) PROVE FALSE
        BY DEF NoneLeads
      <3>1. L.rank[f.cur] = 0 /\ f.cur \in Clusters
        BY <2>1 DEF Begins, Belongs
      <3>2. L.rank[f.cur] = L.rank[x] + 1 /\ L.rank[x] \in Nat
        BY <3>1, RanksNat DEF Before, Labelled, Tables, Links, Further
      <3> QED BY <3>1, <3>2
    <2>5. Releasing(disk, L, j, h, cut')
      BY <1>3, <1>4, <2>1, <2>3, <2>4 DEF Releasing, Behind, Begins
    <2> QED BY <1>2, <1>4, <2>5 DEF Task, Moving, Freeing
  <1> QED BY <1>1, <1>3, <1>4, StartsTruncate DEF f

LEMMA TruncateBetweenLabels ==
  ASSUME NEW L, Before(L), NEW d \in Fds, TruncateBetween(d)
  PROVE  Labelled(L)'
  <1> DEFINE f == fd[d]
             g == Resized(f)
  <1>1. StartTruncate(d, "parent", g, f.cluster, FALSE) /\ UNCHANGED <<disk, card>>
    BY DEF TruncateBetween
  <1>2. DescOK(f) /\ cut' = cut \cup {g.name} /\ SameFile(g, f) /\ g.name = f.name
    BY <1>1, ResizedOK DEF Before, IInv, Descs, StartTruncate, SameFile, Resized, DescOK, Free
  <1> HIDE DEF f, g
  <1>3. CASE card = "on"
    <2>1. /\ Settled(disk, L, f, cut) /\ f.cluster # 0 /\ f.cur # 0
          /\ Begins(disk, L, f.cluster, f.name)
      BY <1>1, <1>3, TruncatedFile DEF f
    <2>2. Founded(disk, L, g, cut') /\ g.cur = f.cur /\ g.next = f.next /\ g.cluster = f.cluster
      BY <1>2, <2>1, ResizedFounded DEF g, Settled
    <2>3. Settled(disk, L, g, cut')
      BY <1>2, <2>1, <2>2 DEF Settled, Stands, Ahead
    <2>4. ASSUME NEW j, j.pc = "parent", j.from = f.cluster, j.whole = FALSE, j.left \in Nat
          PROVE  Task(disk, L, j, g, cut')
      BY <1>2, <2>1, <2>2, <2>4 DEF Task, Moving, Freeing, Begins
    <2> QED BY <1>1, <1>2, <1>3, <2>3, <2>4, StartsTruncate DEF f
  <1> QED BY <1>1, <1>2, <1>3, StartsTruncate DEF f

LEMMA EndedSettled ==
  ASSUME NEW k, NEW L, NEW f, NEW hidden, DescOK(f), Founded(k, L, f, hidden), Stands(k, L, f),
         f.name \in hidden, f.cluster # 0
  PROVE  Settled(k, L, Ended(f), hidden) /\ SameFile(Ended(f), f)
  <1> DEFINE g == Ended(f)
  <1>1. /\ g.cluster = f.cluster /\ g.cur = f.cur /\ g.next = End /\ g.name = f.name
        /\ g.size = f.size /\ g.pos = f.pos /\ g.block = f.block
        /\ g.index = f.index /\ SameFile(g, f)
        /\ g.last \in {f.pos % ClusterSize, ClusterSize}
    BY DEF DescOK, Ended, Free, SameFile
  <1>2. ClusterSize \in Nat /\ ClusterSize > 0
    BY GeometryAssumption DEF ClusterSize
  <1> HIDE DEF g
  <1>3. g.last \in Nat
    BY <1>1, <1>2 DEF Founded, Numbers
  <1>4. Founded(k, L, g, hidden)
    BY <1>1, <1>3 DEF Founded, Numbers, Start, Begun, AtClusterStart
  <1>5. Stands(k, L, g) /\ Ahead(k, L, g)
    BY <1>1 DEF Stands, Ahead, IsLast, End
  <1> QED BY <1>1, <1>4, <1>5 DEF Settled, g

LEMMA TruncateInsideLabels ==
  ASSUME NEW L, Before(L), NEW d \in Fds, TruncateInside(d)
  PROVE  Labelled(L)'
  <1> DEFINE f == fd[d]
             g == Resized(f)
  <1>1. /\ UNCHANGED <<disk, card>> /\ DescOK(f)
        /\ IF IsLast(f.next) THEN StartTruncate(d, "idle", Ended(g), 0, FALSE)
                             ELSE StartTruncate(d, "cut", g, f.next, FALSE)
    BY DEF TruncateInside, Before, IInv, Descs
  <1>2. DescOK(g) /\ SameFile(g, f) /\ SameFile(Ended(g), f) /\ g.name = f.name /\ Ended(g).name = f.name
    BY <1>1 DEF SameFile, Resized, Ended, DescOK, Free
  <1>3. cut' = cut \cup {f.name}
    BY <1>1, <1>2 DEF StartTruncate
  <1> HIDE DEF f, g
  <1>4. card = "on" =>
          /\ Settled(disk, L, f, cut) /\ f.cluster # 0 /\ f.cur # 0
          /\ Settled(disk, L, g, cut') /\ g.cur = f.cur /\ g.next = f.next /\ g.cluster = f.cluster
          /\ Settled(disk, L, Ended(g), cut')
    <2> SUFFICES ASSUME card = "on"
                 PROVE  /\ Settled(disk, L, f, cut) /\ f.cluster # 0 /\ f.cur # 0
                        /\ Settled(disk, L, g, cut') /\ g.cur = f.cur /\ g.next = f.next
                        /\ g.cluster = f.cluster /\ Settled(disk, L, Ended(g), cut')
      OBVIOUS
    <2>1. Settled(disk, L, f, cut) /\ f.cluster # 0 /\ f.cur # 0
      BY <1>1, TruncatedFile DEF f
    <2>2. Founded(disk, L, g, cut') /\ g.cur = f.cur /\ g.next = f.next /\ g.cluster = f.cluster
      <3>1. DescOK(f) /\ Founded(disk, L, f, cut) /\ f.name \in cut' /\ f.cluster # 0
        BY <1>1, <1>3, <2>1 DEF Settled
      <3> QED BY <3>1, ResizedFounded DEF g
    <2>3. Settled(disk, L, g, cut')
      BY <1>2, <2>1, <2>2 DEF Settled, Stands, Ahead
    <2>4. Settled(disk, L, Ended(g), cut')
      BY <1>2, <1>3, <2>1, <2>2, <2>3, EndedSettled DEF Settled
    <2> QED BY <2>1, <2>2, <2>3, <2>4
  <1>5. CASE IsLast(f.next)
    BY <1>1, <1>2, <1>4, <1>5, StartsTruncate DEF f
  <1>6. CASE ~IsLast(f.next)
    <2>1. ASSUME card = "on", NEW j, j.pc = "cut", j.from = f.next, j.whole = FALSE, j.left \in Nat
          PROVE  Task(disk, L, j, g, cut')
      <3>1. Cutting(disk, L, j, g)
        BY <1>2, <1>4, <1>6, <2>1 DEF Cutting, Settled, Ahead
      <3> QED BY <1>2, <1>3, <2>1, <3>1 DEF Task, Moving, Freeing
    <2> QED BY <1>1, <1>2, <1>4, <1>6, <2>1, StartsTruncate DEF f
  <1> QED BY <1>5, <1>6

---------------------------------------------------------------------------
(* The steps of reading and writing. *)

(* A change of the tables that gives up no cluster. *)
LEMMA SparingTables ==
  ASSUME NEW L, Before(L), NEW m, Filled(m), Lessens(disk, m, 0)
  PROVE  Tables(m, L, cut) /\ 0 \notin Clusters /\ \A n : ~Belongs(disk, L, 0, n)
  <1>1. 0 \notin Clusters
    BY ClusterNumbers DEF Before
  <1>2. \A n : ~Belongs(disk, L, 0, n)
    BY <1>1 DEF Belongs
  <1> QED BY <1>1, <1>2, TablesLessen DEF Before, Labelled

(* A call that ends, or goes on moving, with the tables as they are.       *)
LEMMA MoveKeeps ==
  ASSUME NEW L, Before(L), job.pc \in Moving, UNCHANGED <<disk, cut>>, NEW f,
         OneChanged(job.d, f),
         card' = "on" => /\ card = "on" /\ SameFile(f, Desc) /\ Settled(disk, L, f, cut)
                         /\ ~(f.name \in cut /\ f.cluster = 0),
         job'.pc = "idle" \/
           (job'.pc \in {"transfer", "seek", "cross"} /\ job'.d = job.d /\ job'.left \in Nat)
  PROVE  Labelled(L)'
  <1>1. CASE card' # "on"
    BY <1>1, OffKeeps
  <1>2. CASE card' = "on"
    <2>1. job.d \in Fds /\ Usable(job.d) /\ Desc = fd[job.d] /\ card = "on" /\ SameFile(f, Desc)
      BY <1>2, Underway DEF Moving, Desc
    <2>2. job'.pc = "idle" \/ (job'.d = job.d /\ Task(disk, L, job', f, cut'))
      BY <1>2, MoveOn
    <2> QED BY <1>2, <2>1, <2>2, QuietKeeps
  <1> QED BY <1>1, <1>2

LEMMA ContinueMoves ==
  ASSUME IInv, NEW left \in Nat, Continue(left)
  PROVE  job'.pc = "idle" \/ (job'.pc = "transfer" /\ job'.d = job.d /\ job'.left \in Nat)
  <1>1. DOMAIN job = DOMAIN Idle
    BY DEF IInv, Jobs
  <1>2. CASE left = 0
    BY <1>2 DEF Continue, Return, Idle
  <1>3. CASE left # 0
    BY <1>1, <1>3 DEF Continue, Idle
  <1> QED BY <1>2, <1>3

(* A call that gives up, and has changed nothing but the cache. *)
LEMMA GivesUp ==
  ASSUME NEW L, Before(L), job.pc # "idle", job.pc \notin Freeing, UNCHANGED <<disk, fd, cut>>,
         card' \in {card, "off"}, Return
  PROVE  Labelled(L)'
  <1>1. CASE card' # "on"
    BY <1>1, OffKeeps
  <1>2. CASE card' = "on"
    <2>1. job.d \in Fds /\ Usable(job.d) /\ Settled(disk, L, fd[job.d], cut)
      BY <1>2, Underway DEF Desc
    <2>2. job'.pc = "idle"
      BY DEF Return, Idle
    <2> QED BY <1>2, <2>1, <2>2, Unchanged, QuietKeeps
  <1> QED BY <1>1, <1>2

(* Nobody has come upon a cluster that is free. *)
LEMMA FreeFresh ==
  ASSUME NEW L, Before(L), card = "on", job.pc \notin Freeing, NEW c \in Clusters, ~Used(disk, c)
  PROVE  Fresh(c)
  <1>1. c # 0
    BY ClusterNumbers DEF Before
  <1>2. \A n : ~Belongs(disk, L, c, n)
    BY DEF Belongs
  <1>3. \A n \in Names \ cut : disk[Dir][n].cluster # c
    BY <1>1, <1>2 DEF Before, Labelled, Tables, Listed, Entered, Begins
  <1>4. ASSUME NEW d \in Fds, Usable(d)
        PROVE  /\ fd[d].cluster # c /\ fd[d].cur # c
               /\ ~IsLast(fd[d].next) => fd[d].next # c
    <2>1. Settled(disk, L, fd[d], cut)
      BY <1>4, Settlement DEF Releases
    <2> QED BY <1>1, <1>2, <2>1 DEF Settled, Founded, Begun, Begins, Stands, Ahead
  <1> QED BY <1>3, <1>4 DEF Fresh

LEMMA TakeClusterLabels ==
  ASSUME NEW L, Before(L), TakeCluster
  PROVE  Labelled(L)'
  <1>1. job.pc = "transfer" /\ NeedsCluster(Desc) /\ UNCHANGED <<fd, cut>> /\ IInv /\ Filled(disk)
    BY DEF TakeCluster, At, Before, Labelled, Tables
  <1>2. PICK c \in FirstFree, ok \in BOOLEAN :
          LET b == Table(Sector(c))
          IN  /\ Update(b, WithEntry(b, c, End), Miss(Table(0)) \/ b # Table(0), ok)
              /\ IF ok THEN job' = [job EXCEPT !.pc = "takeMirror", !.new = c] ELSE Return
    BY DEF TakeCluster
  <1> DEFINE m == Put(disk, Table(Sector(c)), c, End)
  <1>3. c \in Nums /\ Entry(c) = 0
    BY DEF FirstFree, FreeEntries, Nums
  <1>4. Wrote(m, ok)
    BY <1>1, <1>2, <1>3, EntryWritten
  <1>5. card = "on" => c \in Clusters /\ First(disk, c) = 0
    BY <1>1, <1>3, EntryRead, ClusterNumbers DEF Filled, Used, Before
  <1>6. c \in Clusters => Filled(m) /\ Lessens(disk, m, 0) /\ First(m, c) = End
    BY <1>1, ShapedDisk, ErasesFirst, ClusterNumbers DEF Erased, Before
  <1> HIDE DEF m
  <1>7. CASE ~ok
    BY <1>1, <1>4, <1>5, <1>6, <1>7, SparingTables, FailedKeeps
  <1>8. CASE ok
    <2>1. card = "on" /\ card' = "on" /\ disk' = m /\ c \in Clusters
      BY <1>4, <1>5, <1>8 DEF Wrote
    <2>2. /\ job.d \in Fds /\ Usable(job.d) /\ Settled(disk, L, Desc, cut)
          /\ Task(disk, L, job, Desc, cut) /\ Desc = fd[job.d] /\ DOMAIN job = DOMAIN Idle
      BY <1>1, <2>1, Underway DEF Freeing, Desc
    <2>3. job'.pc = "takeMirror" /\ job'.new = c /\ job'.d = job.d /\ job'.left = job.left
      BY <1>2, <1>8, <2>2 DEF Idle
    <2>4. NoneLeads(m, c)
      <3>1. NoneLeads(disk, c)
        BY <1>5, <2>1 DEF NoneLeads, Before, Labelled, Tables, Links, Used
      <3> QED BY <1>6, <2>1, <3>1, OnlyLessens
    <2>5. ~Belongs(disk, L, 0, Desc.name)
      BY <1>6, <2>1, SparingTables
    <2>6. Settled(disk', L, Desc, cut')
      BY <1>1, <1>6, <2>1, <2>2, <2>5, SettledLessens
    <2>7. IsLast(Desc.next)
      BY <1>1, <2>2 DEF NeedsCluster, Settled, Ahead
    <2>8. Task(disk', L, job', Desc, cut')
      BY <1>1, <1>6, <2>1, <2>2, <2>3, <2>4, <2>7 DEF Task, Taking, Moving, Freeing
    <2>9. Fresh(job.new)'
      <3>1. Fresh(c)
        BY <1>1, <1>5, <2>1, FreeFresh DEF Freeing, Used
      <3>2. disk'[Dir] = disk[Dir]
        BY <1>6, <2>1 DEF Lessens
      <3> QED BY <1>1, <2>3, <3>1, <3>2 DEF Fresh, Usable
    <2>10. OneChanged(job.d, Desc) /\ SameFile(Desc, fd[job.d])
      BY <1>1, Unchanged DEF Desc
    <2> QED BY <1>1, <1>6, <2>1, <2>2, <2>3, <2>6, <2>8, <2>9, <2>10, SparingTables, StepKeeps
  <1> QED BY <1>7, <1>8

LEMMA DiskFullLabels ==
  ASSUME NEW L, Before(L), DiskFull
  PROVE  Labelled(L)'
  <1>1. job.pc = "transfer" /\ Return /\ UNCHANGED <<fd, cut>>
    BY DEF DiskFull, At
  <1>2. PICK ok \in BOOLEAN : Fetch(Table(Sectors - 1), Miss(Table(0)) \/ Sectors > 1, ok)
    BY DEF DiskFull
  <1> QED BY <1>1, <1>2, FetchReads, GivesUp DEF Freeing

(* The label of a cluster that is taken: that of the file it is for, one   *)
(* further than the last cluster.                                          *)
LEMMA Relabelling ==
  ASSUME NEW L \in Labels, NEW c \in Clusters, NEW n \in Names \cup {None}, NEW r \in Nat
  PROVE  \E M \in Labels :
           /\ M.own[c] = n /\ M.rank[c] = r
           /\ \A x \in Clusters \ {c} : M.own[x] = L.own[x] /\ M.rank[x] = L.rank[x]
  <1> DEFINE M == [own |-> [L.own EXCEPT ![c] = n], rank |-> [L.rank EXCEPT ![c] = r]]
  <1>1. M \in Labels
    BY DEF Labels
  <1>2. /\ M.own[c] = n /\ M.rank[c] = r
        /\ \A x \in Clusters \ {c} : M.own[x] = L.own[x] /\ M.rank[x] = L.rank[x]
    BY DEF Labels
  <1> HIDE DEF M
  <1> QED BY <1>1, <1>2

LEMMA RelabelledTables ==
  ASSUME NEW k, NEW L, NEW hidden, Tables(k, L, hidden), NEW c \in Clusters,
         NoneLeads(k, c), \A y \in Clusters : ~Leads(k, c, y),
         \A n \in Names \ hidden : k[Dir][n].cluster # c,
         NEW M, \A x \in Clusters \ {c} : M.own[x] = L.own[x] /\ M.rank[x] = L.rank[x]
  PROVE  Tables(k, M, hidden)
  <1>1. Links(k, M)
    BY DEF Tables, Links, NoneLeads, Further
  <1>2. Listed(k, M, hidden)
    BY DEF Tables, Listed, Entered, Begins, Belongs
  <1> QED BY <1>1, <1>2 DEF Tables

LEMMA RelabelledSettled ==
  ASSUME NEW k, NEW L, NEW f, NEW hidden, Settled(k, L, f, hidden), NEW c \in Clusters, c # 0,
         f.cluster # c, f.cur # c, ~IsLast(f.next) => f.next # c,
         NEW M, \A x \in Clusters \ {c} : M.own[x] = L.own[x] /\ M.rank[x] = L.rank[x]
  PROVE  Settled(k, M, f, hidden)
  <1>1. Founded(k, M, f, hidden) /\ Stands(k, M, f)
    BY DEF Settled, Founded, Begun, Begins, Stands, Belongs
  <1>2. Ahead(k, M, f)
    BY DEF Settled, Ahead, Stands, Belongs
  <1> QED BY <1>1, <1>2 DEF Settled

(* The labels M after the step: while the card answers, the cluster has    *)
(* the label of what it is taken for.                                      *)
Marked(L, M) ==
  IF card' = "on"
    THEN /\ M.own[job.new] = Desc.name
         /\ M.rank[job.new] = IF Desc.cur = 0 THEN 0 ELSE L.rank[Desc.cur] + 1
         /\ \A x \in Clusters \ {job.new} : M.own[x] = L.own[x] /\ M.rank[x] = L.rank[x]
    ELSE M = L

LEMMA TakeMirrorMarks ==
  ASSUME NEW L, Before(L), TakeMirror
  PROVE  \E M \in Labels : Labelled(M)' /\ Marked(L, M)
  <1> DEFINE c == job.new
             s == Sector(c)
             m == Copy(disk, Table(s), Mirror(s))
  <1>1. /\ job.pc = "takeMirror" /\ c \in Nums /\ cacheAddr = Table(s) /\ UNCHANGED cut
        /\ IInv /\ L \in Labels /\ Filled(disk)
    BY DEF TakeMirror, At, IInv, Jobs, Before, Labelled, Tables
  <1>2. PICK ok \in BOOLEAN :
          /\ Flush(Mirror(s), cache, ok)
          /\ CASE ok /\ Desc.cur = 0 -> Set(Attached(Desc, c)) /\ Continue(job.left)
               [] ok /\ Desc.cur # 0 -> UNCHANGED fd /\ Goto("link")
               [] ~ok                -> UNCHANGED fd /\ Return
    BY DEF TakeMirror
  <1>3. Wrote(m, ok)
    BY <1>1, <1>2, SectorWritten
  <1>4. Filled(m) /\ Lessens(disk, m, 0)
    BY <1>1, ShapedDisk, EntryPlace, CopyLessens DEF Before
  <1>5. First(m, c) = First(disk, c) /\ Second(m, c) = First(disk, c)
    BY <1>1, ShapedDisk, EntryPlace, CopyEntries
  <1> HIDE DEF m, s
  <1>6. Tables(m, L, cut) /\ 0 \notin Clusters /\ \A n : ~Belongs(disk, L, 0, n)
    BY <1>4, SparingTables
  <1>7. CASE ~ok
    <2>1. Labelled(L)'
      BY <1>1, <1>3, <1>6, <1>7, FailedKeeps
    <2>2. Marked(L, L)
      BY <1>3, <1>7, OffIsNotOn DEF Wrote, Marked
    <2> QED BY <1>1, <2>1, <2>2
  <1>8. CASE ok
    <2> DEFINE r == IF Desc.cur = 0 THEN 0 ELSE L.rank[Desc.cur] + 1
    <2>1. card = "on" /\ card' = "on" /\ disk' = m
      BY <1>3, <1>8 DEF Wrote
    <2>2. /\ job.d \in Fds /\ Usable(job.d) /\ Settled(disk, L, Desc, cut) /\ DescOK(Desc)
          /\ Task(disk, L, job, Desc, cut) /\ Desc = fd[job.d] /\ DOMAIN job = DOMAIN Idle
      BY <1>1, <2>1, Underway DEF Freeing, Desc
    <2>3. /\ c \in Clusters /\ First(disk, c) = End /\ NoneLeads(disk, c) /\ job.left \in Nat
          /\ ~(Desc.name \in cut /\ Desc.cluster = 0) /\ IsLast(Desc.next)
      BY <1>1, <2>2 DEF Task, Taking, Moving
    <2>4. Live(L) /\ Fresh(c)
      BY <1>1, <2>1 DEF Before, Labelled, Live
    <2>5. Desc.name \in Names /\ r \in Nat
      BY <2>2, RanksNat DEF Settled, Founded, Numbers, Stands, Belongs
    <2>6. PICK M \in Labels :
          /\ M.own[c] = Desc.name /\ M.rank[c] = r
          /\ \A x \in Clusters \ {c} : M.own[x] = L.own[x] /\ M.rank[x] = L.rank[x]
      <3>1. L \in Labels /\ c \in Clusters
        BY <1>1, <2>3 DEF Before
      <3> HIDE DEF c, r
      <3> QED BY <2>5, <3>1, Relabelling
    <2>7. NoneLeads(m, c) /\ (\A y \in Clusters : ~Leads(m, c, y)) /\ Used(m, c)
      <3>1. NoneLeads(m, c)
        BY <1>4, <2>3, OnlyLessens
      <3> QED BY <1>5, <2>3, <3>1, ClusterNumbers DEF Leads, Used, Before
    <2>8. Tables(disk', M, cut')
      <3>1. \A n \in Names \ cut : m[Dir][n].cluster # c
        BY <1>4, <2>4 DEF Fresh, Lessens
      <3> QED BY <1>1, <1>6, <2>1, <2>3, <2>6, <2>7, <3>1, RelabelledTables
    <2>9. /\ Desc.cluster # c /\ Desc.cur # c /\ c # 0
          /\ \A e \in Fds : Usable(e) => /\ fd[e].cluster # c /\ fd[e].cur # c
                                         /\ ~IsLast(fd[e].next) => fd[e].next # c
      BY <1>6, <2>2, <2>3, <2>4 DEF Fresh
    <2>10. ASSUME NEW f, OneChanged(job.d, f), SameFile(f, Desc), Settled(disk', M, f, cut'),
                  job'.pc = "idle" \/ (job'.d = job.d /\ Task(disk', M, job', f, cut')),
                  job'.pc # "takeMirror"
           PROVE  \E N \in Labels : Labelled(N)' /\ Marked(L, N)
      <3>1. \A e \in Fds \ {job.d} : Usable(e)' => Settled(disk', L, fd'[e], cut')
        BY <1>1, <1>4, <1>6, <2>1, <2>2, <2>4, <2>10, OthersKept DEF OneChanged, Freeing
      <3>2. \A e \in Fds \ {job.d} : Usable(e)' => Settled(disk', M, fd'[e], cut')
        <4> SUFFICES ASSUME NEW e \in Fds \ {job.d}, Usable(e)' PROVE Settled(disk', M, fd'[e], cut')
          OBVIOUS
        <4>1. Usable(e) /\ fd'[e] = fd[e]
          BY <2>10 DEF OneChanged, Usable
        <4> QED BY <2>3, <2>6, <2>9, <3>1, <4>1, RelabelledSettled
      <3>3. PICK d \in Fds : d = job.d
        BY <2>2
      <3>4. Usable(d)' /\ fd'[d].name = fd[d].name /\ fd'[d] = f
        BY <2>2, <2>10, <3>3 DEF OneChanged, SameFile, Usable
      <3>5. Live(M)'
        BY <2>2, <2>4, <2>10, <3>2, <3>3, <3>4, Assembled DEF OneChanged, Live
      <3>6. Labelled(M)'
        BY <2>8, <3>5 DEF Labelled
      <3>7. Marked(L, M)
        BY <2>1, <2>6 DEF Marked
      <3> QED BY <2>6, <3>6, <3>7
    <2>11. CASE Desc.cur = 0
      <3> DEFINE f == Attached(Desc, c)
      <3>1. /\ f.cur = c /\ f.next = End /\ f.cluster = c /\ SameFile(f, Desc) /\ f.name = Desc.name
            /\ f.pos = Desc.pos /\ f.size = Desc.size /\ f.last = Desc.last
            /\ f.block = Desc.block /\ f.index = Desc.index
        BY <2>2, <2>11 DEF Attached, DescOK, Free, SameFile
      <3> HIDE DEF f
      <3>2. Desc.cluster = 0 /\ Desc.pos = 0
        BY <2>2, <2>3, <2>11 DEF Settled, Founded, Begun, Start
      <3>3. Begins(disk', M, c, Desc.name)
        BY <2>1, <2>3, <2>6, <2>7, <2>11 DEF Begins, Belongs
      <3>4. Settled(disk', M, f, cut')
        <4>1. Numbers(f) /\ Start(f, cut')
          BY <2>2, <2>9, <3>1, <3>2 DEF Settled, Founded, Numbers, Start
        <4>2. Begun(disk', M, f) /\ Stands(disk', M, f) /\ Ahead(disk', M, f)
          BY <2>9, <3>1, <3>3 DEF Begun, Stands, Ahead, Begins, IsLast, End
        <4> QED BY <4>1, <4>2 DEF Settled, Founded
      <3>5. OneChanged(job.d, f)
        BY <1>1, <1>2, <1>8, <2>2, <2>11, SetOne DEF Set, f
      <3>6. job'.pc = "idle" \/ (job'.pc = "transfer" /\ job'.d = job.d /\ job'.left \in Nat)
        BY <1>1, <1>2, <1>8, <2>3, <2>11, ContinueMoves
      <3>7. job'.pc = "idle" \/ (job'.d = job.d /\ Task(disk', M, job', f, cut'))
        BY <2>9, <3>1, <3>6, MoveOn
      <3> QED BY <2>10, <3>1, <3>4, <3>5, <3>6, <3>7
    <2>12. CASE Desc.cur # 0
      <3>1. OneChanged(job.d, Desc) /\ SameFile(Desc, Desc)
        BY <1>2, <1>8, <2>12, Unchanged DEF Desc
      <3>2. job'.pc = "link" /\ job'.d = job.d /\ job'.left = job.left /\ job'.new = c
        BY <1>2, <1>8, <2>2, <2>12 DEF Goto, Idle
      <3>3. Settled(disk', L, Desc, cut')
        BY <1>1, <1>4, <1>6, <2>1, <2>2, SettledLessens
      <3>4. Settled(disk', M, Desc, cut')
        BY <2>2, <2>3, <2>6, <2>9, <3>3, RelabelledSettled
      <3>5. M.rank[c] = M.rank[Desc.cur] + 1
        BY <2>2, <2>6, <2>9, <2>12 DEF Settled, Stands, Belongs
      <3>6. Linking(disk', M, job', Desc)
        BY <2>1, <2>3, <2>6, <2>7, <2>12, <3>2, <3>5 DEF Linking, Belongs
      <3>7. Task(disk', M, job', Desc, cut')
        BY <1>1, <2>3, <3>2, <3>6 DEF Task, Moving, Freeing
      <3> QED BY <2>10, <3>1, <3>2, <3>4, <3>7
    <2> QED BY <2>11, <2>12
  <1> QED BY <1>7, <1>8

LEMMA TakeMirrorLabels ==
  ASSUME NEW L, Before(L), TakeMirror
  PROVE  ChainInv'
  <1>1. PICK M \in Labels : Labelled(M)'
    BY TakeMirrorMarks
  <1> QED BY <1>1 DEF ChainInv

(* A link that is new: to a cluster that nothing led to, from the cluster  *)
(* before it.                                                              *)
LEMMA LinkAdded ==
  ASSUME Narrow, NEW k, Shaped(k), NEW L, NEW hidden, Tables(k, L, hidden),
         NEW c \in Clusters, NEW y \in Clusters, Further(L, c, y), Used(k, y), NoneLeads(k, y)
  PROVE  LET m == Put(k, Mirror(Sector(c)), c, y)
         IN  /\ Tables(m, L, hidden)
             /\ \A x \in Clusters : Used(k, x) => Used(m, x)
             /\ \A x, z \in Clusters : Leads(m, x, z) => Leads(k, x, z) \/ (x = c /\ z = y)
  <1> DEFINE m == Put(k, Mirror(Sector(c)), c, y)
  <1>1. \A x \in Nums : First(m, x) = First(k, x) /\ Second(m, x) = (IF x = c THEN y ELSE Second(k, x))
    BY PutSecond, ClusterNumbers
  <1>2. m[Dir] = k[Dir]
    BY TableBlockOf, ClusterNumbers, DirKept
  <1> HIDE DEF m
  <1>3. Filled(m)
    BY <1>1, ClusterNumbers, Sizes DEF Tables, Filled, Values, Used, Clusters
  <1>4. \A x \in Clusters : Used(k, x) => Used(m, x)
    BY <1>1, ClusterNumbers DEF Used
  <1>5. \A x, z \in Clusters : Leads(m, x, z) => Leads(k, x, z) \/ (x = c /\ z = y)
    BY <1>1, ClusterNumbers DEF Leads
  <1>6. Links(m, L)
    BY <1>4, <1>5 DEF Tables, Links, OnlyFrom, NoneLeads
  <1>7. Listed(m, L, hidden)
    BY <1>2, <1>4 DEF Tables, Listed, Entered, Begins, Belongs
  <1> QED BY <1>3, <1>4, <1>5, <1>6, <1>7 DEF Tables, m

LEMMA LinkedSettled ==
  ASSUME NEW k, NEW m, NEW L, NEW f, NEW hidden, NEW y, Settled(k, L, f, hidden),
         \A x \in Clusters : Used(k, x) => Used(m, x),
         \A x, z \in Clusters : Leads(m, x, z) => Leads(k, x, z) \/ z = y,
         ~IsLast(f.next) => f.next # y
  PROVE  Settled(m, L, f, hidden)
  <1>1. Founded(m, L, f, hidden) /\ Stands(m, L, f)
    BY DEF Settled, Founded, Begun, Begins, Stands, Belongs
  <1>2. Ahead(m, L, f)
    BY DEF Settled, Ahead, Belongs, OnlyFrom
  <1> QED BY <1>1, <1>2 DEF Settled

LEMMA LinkClusterLabels ==
  ASSUME NEW L, Before(L), LinkCluster
  PROVE  Labelled(L)'
  <1> DEFINE c == Desc.cur
             y == job.new
             m == Put(disk, Mirror(Sector(c)), c, y)
  <1>1. job.pc = "link" /\ UNCHANGED <<fd, cut>> /\ IInv /\ Narrow /\ Tables(disk, L, cut)
    BY DEF LinkCluster, At, Before, Labelled
  <1>2. PICK ok \in BOOLEAN :
          /\ Update(Mirror(Sector(c)), WithEntry(Mirror(Sector(c)), c, y), Miss(Mirror(Sector(c))), ok)
          /\ IF ok THEN Goto("linkMirror") ELSE Return
    BY DEF LinkCluster
  <1>3. Wrote(m, ok)
    BY <1>1, <1>2, Running, EntryWritten
  <1>4. CASE card # "on"
    BY <1>1, <1>3, <1>4, OffKeeps DEF Wrote
  <1>5. CASE card = "on"
    <2>1. PICK d \in Fds : d = job.d /\ Usable(d)
      BY <1>1, <1>5, Underway
    <2>2. /\ Settled(disk, L, Desc, cut) /\ Task(disk, L, job, Desc, cut) /\ Desc = fd[d]
          /\ DOMAIN job = DOMAIN Idle
      BY <1>1, <1>5, <2>1, Underway DEF Freeing, Desc
    <2>3. /\ c # 0 /\ Belongs(disk, L, y, Desc.name) /\ L.rank[y] = L.rank[c] + 1
          /\ NoneLeads(disk, y) /\ IsLast(Desc.next)
      BY <1>1, <2>2 DEF Task, Linking
    <2>4. Belongs(disk, L, c, Desc.name)
      BY <2>2, <2>3 DEF Settled, Stands
    <2>5. /\ Tables(m, L, cut)
          /\ \A x \in Clusters : Used(disk, x) => Used(m, x)
          /\ \A x, z \in Clusters : Leads(m, x, z) => Leads(disk, x, z) \/ (x = c /\ z = y)
      BY <1>1, <2>3, <2>4, ShapedDisk, LinkAdded DEF Belongs, Further
    <2> HIDE DEF m, c, y
    <2>6. CASE ~ok
      BY <1>1, <1>3, <2>5, <2>6, FailedKeeps
    <2>7. CASE ok
      <3>1. card' = "on" /\ disk' = m
        BY <1>3, <2>7 DEF Wrote
      <3>2. Live(L)
        BY <1>5 DEF Before, Labelled
      <3>3. ASSUME NEW e \in Fds, Usable(e)' PROVE Settled(disk', L, fd'[e], cut')
        <4>1. Usable(e) /\ fd'[e] = fd[e]
          BY <1>1, <3>3 DEF Usable
        <4>2. Settled(disk, L, fd[e], cut)
          BY <1>1, <1>5, <4>1, Settlement DEF Releases, Freeing
        <4>3. ~IsLast(fd[e].next) => fd[e].next # y
          <5>1. CASE e = d
            BY <2>2, <2>3, <5>1
          <5>2. CASE e # d
            <6>1. fd[e].name # Desc.name
              BY <2>1, <2>2, <3>2, <4>1, <5>2 DEF Live, Distinct
            <6> QED BY <2>3, <4>2, <6>1 DEF Settled, Ahead, Belongs
          <5> QED BY <5>1, <5>2
        <4> QED BY <1>1, <2>5, <3>1, <4>1, <4>2, <4>3, LinkedSettled
      <3>4. job'.pc = "linkMirror" /\ job'.d = d /\ job'.left = job.left /\ job'.new = y
        BY <1>2, <2>1, <2>2, <2>7 DEF Goto, Idle, y
      <3>5. Linking(disk', L, job', Desc)
        BY <2>3, <2>5, <3>1, <3>4 DEF Linking, Belongs, OnlyFrom, NoneLeads, c
      <3>6. Task(disk', L, job', Desc, cut')
        BY <1>1, <2>2, <3>4, <3>5 DEF Task, Moving, Freeing
      <3>7. Live(L)'
        BY <1>1, <2>1, <2>2, <3>2, <3>3, <3>4, <3>6, Assembled DEF Live, Usable
      <3> QED BY <1>1, <2>5, <3>1, <3>7 DEF Labelled
    <2> QED BY <2>6, <2>7
  <1> QED BY <1>4, <1>5

LEMMA LinkMirrorLabels ==
  ASSUME NEW L, Before(L), LinkMirror
  PROVE  Labelled(L)'
  <1> DEFINE c == Desc.cur
             y == job.new
             s == Sector(c)
             m == Copy(disk, Mirror(s), Table(s))
             f == Attached(Desc, y)
  <1>1. /\ job.pc = "linkMirror" /\ c \in Nums /\ cacheAddr = Mirror(s) /\ UNCHANGED cut
        /\ IInv /\ Filled(disk) /\ Narrow
    BY Running DEF LinkMirror, At, IInv, Jobs, Before, Labelled, Tables
  <1>2. PICK ok \in BOOLEAN :
          /\ Flush(Table(s), cache, ok)
          /\ IF ok THEN Set(f) /\ Continue(job.left) ELSE UNCHANGED fd /\ Return
    BY DEF LinkMirror
  <1>3. Wrote(m, ok)
    BY <1>1, <1>2, SectorWritten
  <1>4. Filled(m) /\ Lessens(disk, m, 0)
    BY <1>1, ShapedDisk, EntryPlace, CopyLessens
  <1>5. Tables(m, L, cut) /\ 0 \notin Clusters /\ \A n : ~Belongs(disk, L, 0, n)
    BY <1>4, SparingTables
  <1> HIDE DEF m, c, y, f
  <1>6. CASE ~ok
    BY <1>1, <1>3, <1>5, <1>6, FailedKeeps
  <1>7. CASE ok
    <2>1. card = "on" /\ card' = "on" /\ disk' = m
      BY <1>3, <1>7 DEF Wrote
    <2>2. /\ job.d \in Fds /\ Usable(job.d) /\ Settled(disk, L, Desc, cut) /\ DescOK(Desc)
          /\ Task(disk, L, job, Desc, cut) /\ Desc = fd[job.d]
      BY <1>1, <2>1, Underway DEF Freeing, Desc
    <2>3. /\ c # 0 /\ Belongs(disk, L, y, Desc.name) /\ L.rank[y] = L.rank[c] + 1
          /\ ~(Desc.name \in cut /\ Desc.cluster = 0) /\ job.left \in Nat
      BY <1>1, <2>2 DEF Task, Linking, Moving, c, y
    <2>4. /\ f.cur = y /\ f.next = End /\ f.cluster = Desc.cluster /\ f.name = Desc.name
          /\ f.last = 0 /\ f.block = 0 /\ f.index = Desc.index /\ f.pos = Desc.pos
          /\ f.size = Desc.size /\ SameFile(f, Desc)
      BY <2>2, <2>3 DEF f, c, Attached, DescOK, Free, SameFile
    <2>5. Desc.cluster # 0 /\ Begins(disk, L, Desc.cluster, Desc.name) /\ Belongs(disk, L, c, Desc.name)
      BY <2>2, <2>3 DEF Settled, Founded, Begun, Stands, c
    <2>6. y # Desc.cluster /\ y # 0 /\ Desc.cluster # 0
      <3>1. L.rank[c] \in Nat
        BY <2>5, RanksNat DEF Belongs
      <3> QED BY <1>5, <2>3, <2>5, <3>1 DEF Begins, Belongs
    <2>7. Settled(disk, L, f, cut)
      <3>1. Founded(disk, L, f, cut)
        BY <2>2, <2>4, <2>5, <2>6 DEF Settled, Founded, Numbers, Start, Begun
      <3>2. Stands(disk, L, f) /\ Ahead(disk, L, f)
        BY <2>3, <2>4, <2>5 DEF Stands, Ahead, IsLast, End
      <3> QED BY <3>1, <3>2 DEF Settled
    <2>8. Settled(disk', L, f, cut')
      BY <1>1, <1>4, <1>5, <2>1, <2>7, SettledLessens
    <2>9. OneChanged(job.d, f)
      BY <1>1, <1>2, <1>7, <2>2, SetOne DEF Set
    <2>10. job'.pc = "idle" \/ (job'.pc = "transfer" /\ job'.d = job.d /\ job'.left \in Nat)
      BY <1>1, <1>2, <1>7, <2>3, ContinueMoves
    <2>11. job'.pc = "idle" \/ (job'.d = job.d /\ Task(disk', L, job', f, cut'))
      BY <2>4, <2>6, <2>10, MoveOn
    <2> QED BY <1>1, <1>4, <1>5, <2>1, <2>2, <2>4, <2>8, <2>9, <2>10, <2>11, StepKeeps
  <1> QED BY <1>6, <1>7

LEMMA WordRange ==
  ASSUME NEW x \in Int
  PROVE  U16(x) \in Int /\ U16(x) >= 0 /\ U16(x) <= 65535
  BY DEF U16

(* How much is transferred. *)
LEMMA ChunkSize ==
  ASSUME NEW f, Numbers(f), job.left \in Nat, ChunkLen(f) > 0
  PROVE  /\ ChunkLen(f) \in Nat /\ ChunkLen(f) <= job.left
         /\ IsLast(f.next) /\ f.last = 0 /\ f.block = 0 /\ f.index = 0 => job.write
  <1>1. BlockSize \in Nat /\ BlockSize > 0 /\ f.block \in Nat /\ f.index \in Nat /\ f.last \in Nat
    BY GeometryAssumption DEF Numbers
  <1>2. f.block * BlockSize \in Nat
    BY <1>1
  <1>3. Remainder(f) \in Int
    BY <1>1, <1>2, WordRange DEF Remainder
  <1>4. Room(f) \in Int
    BY <1>1, <1>3, WordRange DEF Room
  <1>5. ChunkLen(f) \in Int /\ ChunkLen(f) <= job.left
    BY <1>1, <1>4 DEF ChunkLen, Least
  <1>6. ASSUME IsLast(f.next), f.last = 0, f.block = 0, f.index = 0, ~job.write PROVE FALSE
    <2>1. Remainder(f) = 0
      BY <1>1, <1>6 DEF Remainder, U16
    <2>2. Room(f) = 0 /\ ~Grows(f)
      BY <1>1, <1>6, <2>1 DEF Room, InLastBlock, U16, Grows
    <2> QED BY <2>2 DEF ChunkLen, Least
  <1> QED BY <1>5, <1>6

LEMMA TransferredSettled ==
  ASSUME NEW L, NEW f, DescOK(f), Settled(disk, L, f, cut), job.left \in Nat,
         ~(job.write /\ NeedsCluster(f)), ChunkLen(f) > 0, ~(f.name \in cut /\ f.cluster = 0)
  PROVE  LET g == Advanced(Grown(f), ChunkLen(f))
         IN  Settled(disk, L, g, cut) /\ SameFile(g, f) /\ f.cluster # 0 /\ g.cluster = f.cluster
  <1> DEFINE n == ChunkLen(f)
             h == Grown(f)
             g == Advanced(h, n)
  <1>1. /\ n \in Nat /\ n > 0
        /\ IsLast(f.next) /\ f.last = 0 /\ f.block = 0 /\ f.index = 0 => job.write
    BY ChunkSize DEF Settled, Founded
  <1>2. f.cluster # 0
    BY <1>1 DEF Settled, Founded, Start, Stands, Ahead, AtClusterStart, NeedsCluster
  <1>3. /\ h.name = f.name /\ h.cluster = f.cluster /\ h.cur = f.cur /\ h.next = f.next
        /\ h.block = f.block /\ h.index = f.index /\ h.pos = f.pos /\ DescOK(h) /\ SameFile(h, f)
    BY DEF Grown, DescOK, Free, SameFile
  <1>4. h.last \in Nat /\ h.size \in Nat
    <2>1. /\ f.last \in Nat /\ f.size \in Nat /\ f.index \in Nat /\ f.block \in Nat /\ BlockSize \in Nat
      BY GeometryAssumption DEF Settled, Founded, Numbers
    <2>2. f.block * BlockSize \in Nat
      BY <2>1
    <2>3. Remainder(f) \in Int
      BY <2>1, <2>2, WordRange DEF Remainder
    <2> DEFINE delta == U16(f.index + n - Remainder(f))
    <2>4. delta \in Nat
      BY <1>1, <2>1, <2>3, WordRange
    <2>5. h.last \in {f.last, U16(f.last + delta)} /\ h.size \in {f.size, f.size + delta}
      BY DEF Grown, DescOK, Free
    <2> HIDE DEF delta
    <2> QED BY <2>1, <2>4, <2>5, WordRange
  <1> HIDE DEF n, h
  <1>5. /\ g.name = f.name /\ g.cluster = f.cluster /\ g.cur = f.cur /\ g.next = f.next
        /\ g.last = h.last /\ g.size = h.size /\ g.pos = f.pos + n /\ SameFile(g, f)
        /\ g.index = (IF AtBlockEnd(f, n) THEN 0 ELSE f.index + n)
        /\ g.block = (IF AtBlockEnd(f, n) THEN f.block + 1 ELSE f.block)
    BY <1>3 DEF Advanced, DescOK, Free, SameFile, AtBlockEnd
  <1> HIDE DEF g
  <1>6. f.block \in Nat /\ f.index \in Nat /\ f.pos \in Nat /\ f.name \in Names
    BY DEF Settled, Founded, Numbers
  <1>7. ~AtClusterStart(g)
    BY <1>1, <1>5, <1>6 DEF AtClusterStart
  <1>8. Numbers(g)
    BY <1>1, <1>4, <1>5, <1>6 DEF Numbers
  <1>9. Founded(disk, L, g, cut)
    BY <1>2, <1>5, <1>7, <1>8 DEF Settled, Founded, Start, Begun
  <1>10. Stands(disk, L, g) /\ Ahead(disk, L, g)
    BY <1>5 DEF Settled, Stands, Ahead
  <1> QED BY <1>2, <1>5, <1>9, <1>10 DEF Settled, g, h, n

LEMMA TransferChunkLabels ==
  ASSUME NEW L, Before(L), TransferChunk
  PROVE  Labelled(L)'
  <1> DEFINE n == ChunkLen(Desc)
             b == Data(Desc.addr)
             g == Grown(Desc)
  <1>1. /\ job.pc = "transfer" /\ ~(job.write /\ NeedsCluster(Desc)) /\ n > 0
        /\ UNCHANGED cut /\ IInv
    BY DEF TransferChunk, At, Before
  <1>2. PICK ok \in BOOLEAN :
          /\ IF job.write THEN Update(b, Contents, Miss(b), ok)
                          ELSE Fetch(b, Miss(b), ok)
          /\ Set(IF ok THEN Advanced(g, n) ELSE g)
          /\ CASE ~ok -> Return
               [] ok /\ AtClusterEnd(Desc, n) /\ ~IsLast(Desc.next) ->
                    job' = [job EXCEPT !.pc = "cross", !.left = @ - n]
               [] OTHER -> Continue(job.left - n)
    BY DEF TransferChunk
  <1> DEFINE f == IF ok THEN Advanced(g, n) ELSE g
  <1>3. UNCHANGED disk /\ IF ok THEN card' = card ELSE card' = "off"
    <2>1. Stored(b, Contents) = disk
      BY <1>1, DirApart DEF Stored, IInv, Store, DiskOK
    <2>2. CASE job.write
      BY <1>2, <2>1, <2>2, UpdateWrites DEF Wrote
    <2>3. CASE ~job.write
      BY <1>2, <2>3, FetchReads
    <2> QED BY <2>2, <2>3
  <1>4. CASE card' # "on"
    BY <1>1, <1>3, <1>4, OffKeeps
  <1>5. CASE card' = "on"
    <2>1. ok /\ card = "on"
      BY <1>3, <1>5
    <2>2. /\ job.d \in Fds /\ Settled(disk, L, Desc, cut) /\ DescOK(Desc)
          /\ Task(disk, L, job, Desc, cut) /\ Desc = fd[job.d] /\ DOMAIN job = DOMAIN Idle
      BY <1>1, <2>1, Underway DEF Freeing, Desc
    <2>3. ~(Desc.name \in cut /\ Desc.cluster = 0) /\ job.left \in Nat
      BY <1>1, <2>2 DEF Task, Moving
    <2>4. Settled(disk, L, f, cut) /\ SameFile(f, Desc) /\ Desc.cluster # 0 /\ f.cluster = Desc.cluster
      BY <1>1, <2>1, <2>2, <2>3, TransferredSettled
    <2>5. OneChanged(job.d, f)
      BY <1>1, <1>2, <2>2, SetOne DEF Set
    <2>6. n \in Nat /\ n <= job.left
      BY <1>1, <2>2, <2>3, ChunkSize DEF Settled, Founded
    <2> HIDE DEF f, g, n
    <2>7. job'.pc = "idle" \/ (job'.pc \in {"transfer", "cross"} /\ job'.d = job.d /\ job'.left \in Nat)
      <3>1. CASE AtClusterEnd(Desc, n) /\ ~IsLast(Desc.next)
        <4>1. job' = [job EXCEPT !.pc = "cross", !.left = job.left - n]
          BY <1>2, <2>1, <3>1
        <4> QED BY <2>2, <2>3, <2>6, <4>1 DEF Idle
      <3>2. CASE ~(AtClusterEnd(Desc, n) /\ ~IsLast(Desc.next))
        BY <1>1, <1>2, <2>1, <2>3, <2>6, <3>2, ContinueMoves
      <3> QED BY <3>1, <3>2
    <2> QED BY <1>1, <1>3, <2>1, <2>4, <2>5, <2>7, MoveKeeps DEF Moving
  <1> QED BY <1>4, <1>5

LEMMA EndOfFileLabels ==
  ASSUME NEW L, Before(L), EndOfFile
  PROVE  Labelled(L)'
  BY GivesUp DEF EndOfFile, At, Freeing

(* The next cluster of the chain, as reading and seeking step on to it.    *)
LEMMA SteppedSettled ==
  ASSUME NEW L, Before(L), NEW f, Settled(disk, L, f, cut), ~IsLast(f.next), NEW g,
         g.name = f.name, g.cluster = f.cluster, g.cur = f.next, g.next = First(disk, f.next),
         g.size = f.size, g.pos = f.pos, g.last = f.last, g.index = f.index,
         g.block \in {0, f.block}
  PROVE  Settled(disk, L, g, cut) /\ f.cluster # 0 /\ g.next # 0
  <1>1. /\ Belongs(disk, L, f.cur, f.name) /\ Belongs(disk, L, f.next, f.name)
        /\ f.cluster # 0 /\ Begins(disk, L, f.cluster, f.name)
        /\ L.rank[f.next] = L.rank[f.cur] + 1
    BY DEF Settled, Founded, Begun, Stands, Ahead
  <1>2. f.next # f.cluster
    <2>1. L.rank[f.cur] \in Nat
      BY <1>1, RanksNat DEF Belongs
    <2> QED BY <1>1, <2>1 DEF Begins
  <1>3. f.next # 0
    BY <1>1, ClusterNumbers DEF Belongs, Before
  <1>4. Founded(disk, L, g, cut)
    BY <1>1, <1>2, <1>3 DEF Settled, Founded, Numbers, Start, Begun
  <1>5. Stands(disk, L, g) /\ Ahead(disk, L, g) /\ g.next # 0
    BY <1>1, <1>3, WalkOn DEF Stands, Ahead
  <1> QED BY <1>1, <1>4, <1>5 DEF Settled

LEMMA CrossClusterLabels ==
  ASSUME NEW L, Before(L), CrossCluster
  PROVE  Labelled(L)'
  <1> DEFINE b == Table(Sector(Desc.next))
  <1>1. job.pc = "cross" /\ ~IsLast(Desc.next) /\ UNCHANGED cut /\ IInv
    BY DEF CrossCluster, At, Before, IInv, Jobs
  <1>2. PICK ok \in BOOLEAN :
          LET next == IF ok THEN Entry(Desc.next) ELSE 0
              f == [Desc EXCEPT !.addr = FirstBlock(Desc.next), !.cur = Desc.next, !.next = next]
          IN  /\ Fetch(b, Miss(b), ok)
              /\ IF next = 0 THEN Set(f) /\ Return
                             ELSE Set([f EXCEPT !.block = 0]) /\ Continue(job.left)
    BY DEF CrossCluster
  <1>3. disk' = disk /\ IF ok THEN card' = card ELSE card' = "off"
    BY <1>2, FetchReads
  <1>4. CASE card' # "on"
    BY <1>1, <1>3, <1>4, OffKeeps
  <1>5. CASE card' = "on"
    <2>1. ok /\ card = "on"
      BY <1>3, <1>5
    <2>2. /\ job.d \in Fds /\ Settled(disk, L, Desc, cut) /\ DescOK(Desc)
          /\ Task(disk, L, job, Desc, cut) /\ Desc = fd[job.d]
      BY <1>1, <2>1, Underway DEF Freeing, Desc
    <2>3. ~(Desc.name \in cut /\ Desc.cluster = 0) /\ job.left \in Nat
      BY <1>1, <2>2 DEF Task, Moving
    <2>4. Desc.next \in Nums /\ Entry(Desc.next) = First(disk, Desc.next)
      BY <1>1, <2>1, Running, NextNum, EntryRead
    <2> DEFINE next == First(disk, Desc.next)
               f == [Desc EXCEPT !.addr = FirstBlock(Desc.next), !.cur = Desc.next, !.next = next]
               g == [f EXCEPT !.block = 0]
    <2>5. /\ g.name = Desc.name /\ g.cluster = Desc.cluster /\ g.cur = Desc.next
          /\ g.next = next /\ g.size = Desc.size /\ g.pos = Desc.pos /\ g.last = Desc.last
          /\ g.index = Desc.index /\ g.block = 0 /\ SameFile(g, Desc)
      BY <2>2 DEF DescOK, Free, SameFile
    <2> HIDE DEF g
    <2>6. Settled(disk, L, g, cut) /\ Desc.cluster # 0 /\ next # 0
      BY <1>1, <2>2, <2>5, SteppedSettled
    <2>7. Set(g) /\ Continue(job.left)
      BY <1>2, <2>1, <2>4, <2>6 DEF g
    <2>8. OneChanged(job.d, g)
      BY <1>1, <2>2, <2>7, SetOne DEF Set
    <2>9. job'.pc = "idle" \/ (job'.pc = "transfer" /\ job'.d = job.d /\ job'.left \in Nat)
      BY <1>1, <2>3, <2>7, ContinueMoves
    <2> QED BY <1>1, <1>3, <2>1, <2>5, <2>6, <2>8, <2>9, MoveKeeps DEF Moving
  <1> QED BY <1>4, <1>5

---------------------------------------------------------------------------
(* The steps of truncation. *)

LEMMA FindParentLabels ==
  ASSUME NEW L, Before(L), FindParent
  PROVE  Labelled(L)'
  <1> DEFINE b == Table(Sector(job.from))
             found == [Desc EXCEPT !.next = Desc.cur, !.cur = job.from, !.block = BlocksPerCluster]
  <1>1. job.pc = "parent" /\ UNCHANGED cut /\ IInv
    BY DEF FindParent, At, Before
  <1>2. PICK ok \in BOOLEAN :
          LET next == IF ok THEN Entry(job.from) ELSE 0
          IN  /\ Fetch(b, Miss(b), ok)
              /\ \/ /\ next = Desc.cur /\ Set(found)
                    /\ job' = [job EXCEPT !.pc = "cut", !.from = Desc.cur]
                 \/ /\ next # Desc.cur /\ UNCHANGED fd
                    /\ IF next = 0 \/ IsLast(next)
                         THEN Return ELSE job' = [job EXCEPT !.from = next]
    BY DEF FindParent
  <1>3. disk' = disk /\ IF ok THEN card' = card ELSE card' = "off"
    BY <1>2, FetchReads
  <1>4. CASE card' # "on"
    BY <1>1, <1>3, <1>4, OffKeeps
  <1>5. CASE card' = "on"
    <2>1. ok /\ card = "on"
      BY <1>3, <1>5
    <2>2. /\ job.d \in Fds /\ Usable(job.d) /\ Settled(disk, L, Desc, cut) /\ DescOK(Desc)
          /\ Task(disk, L, job, Desc, cut) /\ Desc = fd[job.d] /\ DOMAIN job = DOMAIN Idle
      BY <1>1, <2>1, Underway DEF Freeing, Desc
    <2>3. /\ Belongs(disk, L, job.from, Desc.name) /\ Desc.cur # 0 /\ job.left \in Nat
          /\ ~job.whole /\ Desc.name \in cut
      BY <1>1, <2>2 DEF Task, Moving
    <2>4. Belongs(disk, L, Desc.cur, Desc.name) /\ Desc.cluster # 0
      BY <2>2, <2>3 DEF Settled, Stands
    <2> DEFINE next == First(disk, job.from)
    <2>5. next = Entry(job.from)
      BY <1>1, <2>1, <2>3, EntryRead, ClusterNumbers DEF Belongs, Before
    <2>6. /\ next # 0 /\ (~IsLast(next) => next \in Clusters)
          /\ next \in Clusters => /\ Belongs(disk, L, next, Desc.name)
                                  /\ L.rank[next] = L.rank[job.from] + 1
                                  /\ OnlyFrom(disk, job.from, next)
      BY <2>3, WalkOn
    <2> HIDE DEF next
    <2>7. CASE next = Desc.cur
      <3>1. Set(found) /\ job' = [job EXCEPT !.pc = "cut", !.from = Desc.cur]
        BY <1>2, <2>1, <2>5, <2>7
      <3>2. /\ found.name = Desc.name /\ found.cluster = Desc.cluster /\ found.cur = job.from
            /\ found.next = Desc.cur /\ found.size = Desc.size /\ found.pos = Desc.pos
            /\ found.last = Desc.last /\ found.index = Desc.index
            /\ found.block = BlocksPerCluster /\ SameFile(found, Desc)
        BY <2>2 DEF DescOK, Free, SameFile
      <3> HIDE DEF found
      <3>3. OneChanged(job.d, found)
        BY <1>1, <2>2, <3>1, SetOne DEF Set
      <3>4. BlocksPerCluster \in Nat /\ BlocksPerCluster # 0
        BY GeometryAssumption
      <3>5. Settled(disk, L, found, cut)
        <4>1. job.from # 0 /\ next \in Clusters
          BY <2>3, <2>4, <2>7, ClusterNumbers DEF Belongs, Before
        <4>2. Founded(disk, L, found, cut)
          BY <2>2, <2>4, <3>2, <3>4, <4>1
             DEF Settled, Founded, Numbers, Start, Begun, AtClusterStart
        <4>3. Stands(disk, L, found) /\ Ahead(disk, L, found)
          BY <2>3, <2>4, <2>6, <2>7, <3>2, <4>1 DEF Stands, Ahead
        <4> QED BY <4>2, <4>3 DEF Settled
      <3>6. /\ job'.pc = "cut" /\ job'.from = Desc.cur /\ job'.d = job.d /\ job'.left = job.left
            /\ job'.whole = job.whole
        BY <2>2, <3>1 DEF Idle
      <3>7. ~job'.whole
        BY <2>3, <3>6
      <3>8. Cutting(disk, L, job', found)
        BY <2>3, <2>4, <2>6, <2>7, <3>2, <3>6, <3>7, ClusterNumbers DEF Cutting, Belongs, Before
      <3>9. Task(disk, L, job', found, cut')
        BY <1>1, <2>3, <3>2, <3>6, <3>8 DEF Task, Moving, Freeing
      <3> QED BY <1>1, <1>3, <2>1, <2>2, <3>2, <3>3, <3>5, <3>6, <3>9, QuietKeeps
    <2>8. CASE next # Desc.cur
      <3>1. UNCHANGED fd
        BY <1>2, <2>1, <2>5, <2>8
      <3>2. CASE IsLast(next)
        BY <1>1, <1>2, <1>3, <2>1, <2>5, <2>6, <2>8, <3>1, <3>2, GivesUp DEF Freeing
      <3>3. CASE ~IsLast(next)
        <4>1. job' = [job EXCEPT !.from = next]
          BY <1>2, <2>1, <2>5, <2>6, <2>8, <3>3
        <4>2. job'.pc = "parent" /\ job'.from = next /\ job'.d = job.d /\ job'.left = job.left
          BY <1>1, <2>2, <4>1 DEF Idle
        <4>3. Task(disk, L, job', Desc, cut')
          BY <1>1, <2>2, <2>3, <2>6, <3>3, <4>1, <4>2 DEF Task, Moving, Freeing, Idle
        <4>4. OneChanged(job.d, Desc) /\ SameFile(Desc, fd[job.d])
          BY <3>1, Unchanged DEF Desc
        <4> QED BY <1>1, <1>3, <2>1, <2>2, <4>2, <4>3, <4>4, QuietKeeps
      <3> QED BY <3>2, <3>3
    <2> QED BY <2>7, <2>8
  <1> QED BY <1>4, <1>5

LEMMA CutChainLabels ==
  ASSUME NEW L, Before(L), CutChain
  PROVE  Labelled(L)'
  <1> DEFINE c == Desc.cur
             b == Table(Sector(c))
             m == Put(disk, b, c, End)
  <1>1. job.pc = "cut" /\ UNCHANGED <<fd, cut>> /\ IInv /\ Narrow /\ Filled(disk)
    BY DEF CutChain, At, Before, Labelled, Tables
  <1>2. PICK ok \in BOOLEAN :
          /\ Update(b, WithEntry(b, c, End), Miss(b), ok)
          /\ IF ok THEN Goto("cutMirror") ELSE Return
    BY DEF CutChain
  <1>3. Wrote(m, ok)
    BY <1>1, <1>2, Running, EntryWritten
  <1>4. CASE card # "on"
    BY <1>1, <1>3, <1>4, OffKeeps DEF Wrote
  <1>5. CASE card = "on"
    <2>1. /\ job.d \in Fds /\ Usable(job.d) /\ Settled(disk, L, Desc, cut)
          /\ Task(disk, L, job, Desc, cut) /\ Desc = fd[job.d] /\ DOMAIN job = DOMAIN Idle
      BY <1>1, <1>5, Underway DEF Freeing, Desc
    <2>2. Cutting(disk, L, job, Desc) /\ Desc.name \in cut /\ job.left \in Nat
      BY <1>1, <2>1 DEF Task, Moving
    <2>3. c \in Clusters
      BY <2>1, <2>2 DEF Cutting, Settled, Stands, Belongs
    <2>4. Filled(m) /\ Lessens(disk, m, 0) /\ First(m, c) = End
      BY <1>1, <2>3, ShapedDisk, ErasesFirst, ClusterNumbers DEF Erased
    <2>5. Tables(m, L, cut) /\ 0 \notin Clusters /\ \A n : ~Belongs(disk, L, 0, n)
      BY <2>4, SparingTables
    <2> HIDE DEF m, b
    <2>6. CASE ~ok
      BY <1>1, <1>3, <2>5, <2>6, FailedKeeps
    <2>7. CASE ok
      <3>1. card' = "on" /\ disk' = m
        BY <1>3, <2>7 DEF Wrote
      <3>2. /\ job'.pc = "cutMirror" /\ job'.d = job.d /\ job'.left = job.left
            /\ job'.from = job.from /\ job'.whole = job.whole
        BY <1>2, <2>1, <2>7 DEF Goto, Idle
      <3>3. Settled(disk', L, Desc, cut')
        BY <1>1, <2>1, <2>4, <2>5, <3>1, SettledLessens
      <3>4. Cutting(disk', L, job', Desc)
        <4>1. Belongs(disk', L, job.from, Desc.name) /\ OnlyFrom(disk', c, job.from)
          BY <2>2, <2>4, <2>5, <3>1, BelongsLessens, OnlyLessens DEF Cutting, Belongs
        <4> QED BY <2>2, <2>4, <3>1, <3>2, <4>1 DEF Cutting
      <3>5. Task(disk', L, job', Desc, cut')
        BY <1>1, <2>2, <3>2, <3>4 DEF Task, Moving, Freeing
      <3>6. OneChanged(job.d, Desc) /\ SameFile(Desc, fd[job.d])
        BY <1>1, Unchanged DEF Desc
      <3> QED BY <1>1, <1>5, <2>1, <2>4, <2>5, <3>1, <3>2, <3>3, <3>5, <3>6, StepKeeps
    <2> QED BY <2>6, <2>7
  <1> QED BY <1>4, <1>5

LEMMA CutMirrorLabels ==
  ASSUME NEW L, Before(L), CutMirror
  PROVE  Labelled(L)'
  <1> DEFINE c == Desc.cur
             b == Mirror(Sector(c))
             m == Put(disk, b, c, End)
  <1>1. job.pc = "cutMirror" /\ UNCHANGED <<fd, cut>> /\ IInv /\ Narrow /\ Filled(disk)
    BY DEF CutMirror, At, Before, Labelled, Tables
  <1>2. PICK ok \in BOOLEAN :
          /\ Update(b, WithEntry(b, c, End), Miss(b), ok)
          /\ IF ok THEN Goto("free") ELSE Return
    BY DEF CutMirror
  <1>3. Wrote(m, ok)
    BY <1>1, <1>2, Running, EntryWritten
  <1>4. CASE card # "on"
    BY <1>1, <1>3, <1>4, OffKeeps DEF Wrote
  <1>5. CASE card = "on"
    <2>1. /\ job.d \in Fds /\ Usable(job.d) /\ Settled(disk, L, Desc, cut)
          /\ Task(disk, L, job, Desc, cut) /\ Desc = fd[job.d] /\ DOMAIN job = DOMAIN Idle
      BY <1>1, <1>5, Underway DEF Freeing, Desc
    <2>2. Cutting(disk, L, job, Desc) /\ Desc.name \in cut /\ job.left \in Nat
      BY <1>1, <2>1 DEF Task, Moving
    <2>3. Belongs(disk, L, c, Desc.name) /\ First(disk, c) = End
      BY <1>1, <2>1, <2>2 DEF Cutting, Settled, Stands
    <2>4. c \in Clusters /\ job.from \in Clusters
      BY <2>2, <2>3 DEF Cutting, Belongs
    <2>5. Filled(m) /\ Lessens(disk, m, 0) /\ First(m, c) = First(disk, c) /\ Second(m, c) = End
      BY <1>1, <2>4, ShapedDisk, ErasesSecond, ClusterNumbers DEF Erased
    <2>6. Tables(m, L, cut) /\ 0 \notin Clusters /\ \A n : ~Belongs(disk, L, 0, n)
      BY <2>5, SparingTables
    <2> HIDE DEF m, b
    <2>7. CASE ~ok
      BY <1>1, <1>3, <2>6, <2>7, FailedKeeps
    <2>8. CASE ok
      <3>1. card' = "on" /\ disk' = m
        BY <1>3, <2>8 DEF Wrote
      <3>2. /\ job'.pc = "free" /\ job'.d = job.d /\ job'.left = job.left
            /\ job'.from = job.from /\ job'.whole = job.whole
        BY <1>2, <2>1, <2>8 DEF Goto, Idle
      <3>3. Settled(disk', L, Desc, cut')
        BY <1>1, <2>1, <2>5, <2>6, <3>1, SettledLessens
      <3>4. Belongs(disk', L, job.from, Desc.name)
        BY <2>2, <2>4, <2>5, <2>6, <3>1, BelongsLessens DEF Cutting
      <3>5. NoneLeads(disk', job.from)
        <4>1. OnlyFrom(disk', c, job.from)
          BY <2>2, <2>4, <2>5, <3>1, OnlyLessens DEF Cutting
        <4>2. ~Leads(disk', c, job.from)
          BY <1>1, <2>3, <2>4, <2>5, <3>1, ClusterNumbers DEF Leads
        <4> QED BY <4>1, <4>2 DEF OnlyFrom, NoneLeads
      <3>6. L.rank[job.from] > L.rank[c]
        <4>1. L.rank[c] \in Nat
          BY <2>4, RanksNat
        <4> QED BY <2>2, <4>1 DEF Cutting
      <3>7. Releasing(disk', L, job', Desc, cut')
        BY <2>2, <3>2, <3>3, <3>4, <3>5, <3>6 DEF Releasing, Behind, Settled, Cutting
      <3>8. Task(disk', L, job', Desc, cut')
        BY <1>1, <2>2, <3>2, <3>7 DEF Task, Moving, Freeing
      <3>9. OneChanged(job.d, Desc) /\ SameFile(Desc, fd[job.d])
        BY <1>1, Unchanged DEF Desc
      <3> QED BY <1>1, <1>5, <2>1, <2>5, <2>6, <3>1, <3>2, <3>3, <3>8, <3>9, StepKeeps
    <2> QED BY <2>7, <2>8
  <1> QED BY <1>4, <1>5

(* What is freed belongs to the file that is truncated, and none of it is  *)
(* where its descriptor is.                                                *)
LEMMA Released ==
  ASSUME NEW L, Before(L), card = "on", job.pc \in Freeing
  PROVE  /\ job.d \in Fds /\ Usable(job.d) /\ Desc = fd[job.d] /\ DOMAIN job = DOMAIN Idle
         /\ DescOK(Desc) /\ Releasing(disk, L, job, Desc, cut) /\ Desc.name \in cut
         /\ job.left \in Nat
  BY Underway DEF Task, Moving, Freeing, Desc

LEMMA FreeClusterLabels ==
  ASSUME NEW L, Before(L), FreeCluster
  PROVE  Labelled(L)'
  <1> DEFINE c == job.from
             b == Table(Sector(c))
             next == Entry(c)
             m == Put(disk, b, c, 0)
  <1>1. job.pc = "free" /\ UNCHANGED cut /\ IInv /\ Narrow /\ Filled(disk) /\ c \in Nums
    BY DEF FreeCluster, At, Before, Labelled, Tables, IInv, Jobs
  <1>2. PICK ok \in BOOLEAN :
          /\ IF next = 0 THEN Fetch(b, Miss(b), ok)
                         ELSE Update(b, WithEntry(b, c, 0), Miss(b), ok)
          /\ IF ok /\ next # 0
               THEN UNCHANGED fd /\ job' = [job EXCEPT !.pc = "freeMirror", !.new = next]
               ELSE AbortFree
    BY DEF FreeCluster
  <1>3. CASE next = 0
    <2>1. disk' = disk /\ IF ok THEN card' = card ELSE card' = "off"
      BY <1>2, <1>3, FetchReads
    <2>2. card # "on"
      <3> SUFFICES ASSUME card = "on" PROVE FALSE
        OBVIOUS
      <3>1. Belongs(disk, L, c, Desc.name)
        BY <1>1, Released DEF Releasing, Behind, Freeing
      <3>2. First(disk, c) # 0
        BY <3>1 DEF Belongs, Used
      <3> QED BY <1>1, <1>3, <3>2, EntryRead
    <2> QED BY <1>1, <2>1, <2>2, OffKeeps
  <1>4. CASE next # 0
    <2>1. Wrote(m, ok)
      BY <1>1, <1>2, <1>4, EntryWritten
    <2>2. CASE card # "on"
      BY <1>1, <2>1, <2>2, OffKeeps DEF Wrote
    <2>3. CASE card = "on"
      <3>1. /\ job.d \in Fds /\ Usable(job.d) /\ Desc = fd[job.d] /\ DOMAIN job = DOMAIN Idle
            /\ DescOK(Desc) /\ Releasing(disk, L, job, Desc, cut) /\ Desc.name \in cut
            /\ job.left \in Nat
        BY <1>1, <2>3, Released DEF Freeing
      <3>2. /\ Belongs(disk, L, c, Desc.name) /\ NoneLeads(disk, c) /\ c \in Clusters
            /\ ~job.whole => L.rank[c] > L.rank[Desc.cur]
        BY <1>1, <3>1 DEF Releasing, Behind, Belongs
      <3>3. next = First(disk, c)
        BY <1>1, <2>3, EntryRead
      <3>4. Filled(m) /\ Lessens(disk, m, c) /\ First(m, c) = 0 /\ Second(m, c) = Second(disk, c)
        BY <1>1, <3>2, ShapedDisk, ErasesFirst DEF Erased
      <3>5. \A n : Belongs(disk, L, c, n) => n = Desc.name /\ n \in cut
        BY <3>1, <3>2 DEF Belongs
      <3>6. Tables(m, L, cut)
        BY <3>2, <3>4, <3>5, TablesLessen DEF Before, Labelled
      <3>7. /\ ~IsLast(next) => next \in Clusters
            /\ next \in Clusters => /\ Belongs(disk, L, next, Desc.name)
                                    /\ L.rank[next] = L.rank[c] + 1 /\ OnlyFrom(disk, c, next)
        BY <3>2, <3>3, WalkOn
      <3> HIDE DEF m, b, next
      <3>8. CASE ~ok
        BY <1>1, <2>1, <3>6, <3>8, FailedKeeps
      <3>9. CASE ok
        <4>1. card' = "on" /\ disk' = m
          BY <2>1, <3>9 DEF Wrote
        <4>2. UNCHANGED fd /\ job' = [job EXCEPT !.pc = "freeMirror", !.new = next]
          BY <1>2, <1>4, <3>9
        <4>3. /\ job'.pc = "freeMirror" /\ job'.d = job.d /\ job'.left = job.left
              /\ job'.from = c /\ job'.whole = job.whole /\ job'.new = next
          BY <3>1, <4>2 DEF Idle
        <4>4. L.rank[c] \in Nat
          BY <3>2, RanksNat
        <4>5. Founded(disk', L, Desc, cut')
          <5>1. Desc.cluster # c \/ Desc.cluster = 0
            <6>1. CASE job.whole
              BY <3>1, <6>1 DEF Releasing
            <6>2. CASE ~job.whole
              <7>1. Belongs(disk, L, Desc.cur, Desc.name) /\ Begins(disk, L, Desc.cluster, Desc.name)
                BY <3>1, <6>2 DEF Releasing, Founded, Begun, Stands
              <7>2. L.rank[Desc.cur] \in Nat /\ L.rank[Desc.cluster] = 0
                BY <7>1, RanksNat DEF Belongs, Begins
              <7> QED BY <3>2, <4>4, <6>2, <7>2
            <6> QED BY <6>1, <6>2
          <5> QED BY <1>1, <3>1, <3>4, <4>1, <5>1, FoundedLessens DEF Releasing
        <4>6. ~job.whole => Desc.cur # 0 /\ Stands(disk', L, Desc)
          <5> SUFFICES ASSUME ~job.whole PROVE Desc.cur # 0 /\ Stands(disk', L, Desc)
            OBVIOUS
          <5>1. Desc.cur # 0 /\ Stands(disk, L, Desc)
            BY <3>1 DEF Releasing
          <5>2. L.rank[Desc.cur] \in Nat
            BY <5>1, RanksNat DEF Stands, Belongs
          <5>3. Desc.cur # c
            BY <3>2, <4>4, <5>2
          <5> QED BY <3>4, <4>1, <5>1, <5>3, BelongsLessens DEF Stands
        <4>7. ~IsLast(next) => Behind(disk', L, job', Desc, next) /\ OnlyFrom(disk', c, next)
          <5> SUFFICES ASSUME ~IsLast(next)
                       PROVE  Behind(disk', L, job', Desc, next) /\ OnlyFrom(disk', c, next)
            OBVIOUS
          <5>1. next \in Clusters /\ Belongs(disk, L, next, Desc.name) /\ next # c
            BY <3>7, <4>4
          <5>2. Belongs(disk', L, next, Desc.name) /\ OnlyFrom(disk', c, next)
            BY <3>4, <3>7, <4>1, <5>1, BelongsLessens, OnlyLessens
          <5>3. ~job.whole => L.rank[next] > L.rank[Desc.cur]
            <6> SUFFICES ASSUME ~job.whole PROVE L.rank[next] > L.rank[Desc.cur]
              OBVIOUS
            <6>1. L.rank[Desc.cur] \in Nat
              BY <4>6, RanksNat DEF Stands, Belongs
            <6> QED BY <3>2, <3>7, <4>4, <5>1, <6>1
          <5> QED BY <4>3, <5>2, <5>3 DEF Behind
        <4>8. Releasing(disk', L, job', Desc, cut')
          <5>1. IF job'.whole THEN Desc.cluster = 0 ELSE Desc.cur # 0 /\ Stands(disk', L, Desc)
            BY <3>1, <4>3, <4>6 DEF Releasing
          <5> QED BY <3>2, <3>4, <4>1, <4>3, <4>5, <4>7, <5>1 DEF Releasing
        <4>9. Task(disk', L, job', Desc, cut')
          BY <1>1, <3>1, <4>3, <4>8 DEF Task, Moving, Freeing
        <4>10. OneChanged(job.d, Desc) /\ SameFile(Desc, fd[job.d])
          BY <4>2, Unchanged DEF Desc
        <4>11. \A n : Belongs(disk, L, c, n) => n = fd[job.d].name /\ n \in cut'
          BY <1>1, <3>1, <3>5
        <4>12. job'.d = job.d /\ job'.pc \in Freeing /\ job'.pc # "takeMirror"
          BY <4>3 DEF Freeing
        <4> QED BY <1>1, <2>3, <3>1, <3>2, <3>4, <4>1, <4>9, <4>10, <4>11, <4>12, StepKeeps DEF Releases
      <3> QED BY <3>8, <3>9
    <2> QED BY <2>2, <2>3
  <1> QED BY <1>3, <1>4

LEMMA EmptiedSettled ==
  ASSUME NEW k, NEW L, NEW f, NEW hidden, DescOK(f), Founded(k, L, f, hidden),
         f.name \in hidden, f.cluster = 0
  PROVE  Settled(k, L, Emptied(f), hidden) /\ SameFile(Emptied(f), f)
  <1> DEFINE g == Emptied(f)
  <1>1. /\ g.cluster = f.cluster /\ g.cur = 0 /\ g.next = End /\ g.name = f.name
        /\ g.size = f.size /\ g.pos = f.pos /\ g.block = f.block /\ g.last = f.last
        /\ g.index = f.index /\ SameFile(g, f)
    BY DEF DescOK, Emptied, Free, SameFile
  <1> HIDE DEF g
  <1>2. Founded(k, L, g, hidden)
    BY <1>1 DEF Founded, Numbers, Start, Begun
  <1>3. Stands(k, L, g) /\ Ahead(k, L, g)
    BY <1>1 DEF Stands, Ahead, IsLast, End
  <1> QED BY <1>1, <1>2, <1>3 DEF Settled, g

LEMMA FreeMirrorLabels ==
  ASSUME NEW L, Before(L), FreeMirror
  PROVE  Labelled(L)'
  <1> DEFINE c == job.from
             b == Mirror(Sector(c))
             m == Put(disk, b, c, 0)
             f == IF job.whole THEN Emptied(Desc) ELSE Ended(Desc)
  <1>1. job.pc = "freeMirror" /\ UNCHANGED cut /\ IInv /\ Narrow /\ Filled(disk) /\ c \in Nums
    BY DEF FreeMirror, At, Before, Labelled, Tables, IInv, Jobs
  <1>2. PICK ok \in BOOLEAN :
          /\ Update(b, WithEntry(b, c, 0), Miss(b), ok)
          /\ CASE ~ok -> AbortFree
               [] ok /\ ~IsLast(job.new) ->
                    UNCHANGED fd /\ job' = [job EXCEPT !.pc = "free", !.from = job.new, !.new = 0]
               [] ok /\ IsLast(job.new) -> Set(f) /\ Return
    BY DEF FreeMirror
  <1>3. Wrote(m, ok)
    BY <1>1, <1>2, EntryWritten
  <1>4. CASE card # "on"
    BY <1>1, <1>3, <1>4, OffKeeps DEF Wrote
  <1>5. CASE card = "on"
    <2>1. /\ job.d \in Fds /\ Usable(job.d) /\ Desc = fd[job.d] /\ DOMAIN job = DOMAIN Idle
          /\ DescOK(Desc) /\ Releasing(disk, L, job, Desc, cut) /\ Desc.name \in cut
          /\ job.left \in Nat
      BY <1>1, <1>5, Released DEF Freeing
    <2>2. /\ c \in Clusters /\ First(disk, c) = 0
          /\ ~IsLast(job.new) => Behind(disk, L, job, Desc, job.new) /\ OnlyFrom(disk, c, job.new)
      BY <1>1, <2>1 DEF Releasing
    <2>3. /\ Filled(m) /\ Lessens(disk, m, c) /\ First(m, c) = First(disk, c) /\ Second(m, c) = 0
      BY <1>1, <2>2, ShapedDisk, ErasesSecond DEF Erased
    <2>4. ~Used(disk, c) /\ (\A n : ~Belongs(disk, L, c, n)) /\ NoneLeads(disk, c) /\ c # 0
      BY <2>2, ClusterNumbers DEF Used, Belongs, NoneLeads, Before, Labelled, Tables, Links
    <2>5. Tables(m, L, cut)
      BY <2>3, <2>4, TablesLessen DEF Before, Labelled
    <2> HIDE DEF m, b
    <2>6. CASE ~ok
      BY <1>1, <1>3, <2>5, <2>6, FailedKeeps
    <2>7. CASE ok
      <3>1. card' = "on" /\ disk' = m
        BY <1>3, <2>7 DEF Wrote
      <3>2. Founded(disk', L, Desc, cut')
        <4>1. Desc.cluster # c \/ Desc.cluster = 0
          BY <2>1, <2>4 DEF Releasing, Founded, Begun, Begins
        <4> QED BY <1>1, <2>1, <2>3, <3>1, <4>1, FoundedLessens DEF Releasing
      <3>3. ~job.whole => Desc.cur # 0 /\ Stands(disk', L, Desc)
        <4> SUFFICES ASSUME ~job.whole PROVE Desc.cur # 0 /\ Stands(disk', L, Desc)
          OBVIOUS
        <4>1. Desc.cur # 0 /\ Stands(disk, L, Desc)
          BY <2>1 DEF Releasing
        <4> QED BY <2>3, <2>4, <3>1, <4>1, BelongsLessens DEF Stands
      <3>4. job.whole => Desc.cluster = 0
        BY <2>1 DEF Releasing
      <3>5. CASE IsLast(job.new)
        <4>1. Set(f) /\ Return
          BY <1>2, <2>7, <3>5
        <4>2. Settled(disk', L, f, cut') /\ SameFile(f, Desc)
          <5>1. CASE job.whole
            BY <1>1, <2>1, <3>2, <3>4, <5>1, EmptiedSettled
          <5>2. CASE ~job.whole
            BY <1>1, <2>1, <3>2, <3>3, <5>2, EndedSettled DEF Stands
          <5> QED BY <5>1, <5>2
        <4> HIDE DEF f
        <4>3. OneChanged(job.d, f)
          BY <1>1, <2>1, <4>1, SetOne DEF Set
        <4>4. job'.pc = "idle"
          BY <4>1 DEF Return, Idle
        <4> QED BY <1>1, <1>5, <2>1, <2>3, <2>4, <3>1, <4>2, <4>3, <4>4, StepKeeps
      <3>6. CASE ~IsLast(job.new)
        <4>1. UNCHANGED fd /\ job' = [job EXCEPT !.pc = "free", !.from = job.new, !.new = 0]
          BY <1>2, <2>7, <3>6
        <4>2. /\ job'.pc = "free" /\ job'.d = job.d /\ job'.left = job.left
              /\ job'.from = job.new /\ job'.whole = job.whole
          BY <2>1, <4>1 DEF Idle
        <4>3. /\ Belongs(disk, L, job.new, Desc.name) /\ job.new \in Clusters
              /\ ~job.whole => L.rank[job.new] > L.rank[Desc.cur]
          BY <2>2, <3>6 DEF Behind, Belongs
        <4>4. Belongs(disk', L, job.new, Desc.name)
          BY <2>3, <2>4, <3>1, <4>3, BelongsLessens
        <4>5. NoneLeads(disk', job.new)
          <5>1. OnlyFrom(disk', c, job.new)
            BY <2>2, <2>3, <3>1, <3>6, <4>3, OnlyLessens
          <5>2. ~Leads(disk', c, job.new)
            BY <2>2, <2>3, <3>1, <4>3, ClusterNumbers DEF Leads, Before
          <5> QED BY <5>1, <5>2 DEF OnlyFrom, NoneLeads
        <4>6. Releasing(disk', L, job', Desc, cut')
          <5>1. IF job'.whole THEN Desc.cluster = 0 ELSE Desc.cur # 0 /\ Stands(disk', L, Desc)
            BY <3>3, <3>4, <4>2
          <5>2. Behind(disk', L, job', Desc, job'.from)
            BY <4>2, <4>3, <4>4 DEF Behind
          <5> QED BY <3>2, <4>2, <4>5, <5>1, <5>2 DEF Releasing
        <4>7. Task(disk', L, job', Desc, cut')
          BY <1>1, <2>1, <4>2, <4>6 DEF Task, Moving, Freeing
        <4>8. OneChanged(job.d, Desc) /\ SameFile(Desc, fd[job.d])
          BY <4>1, Unchanged DEF Desc
        <4>9. job'.d = job.d /\ job'.pc \in Freeing /\ job'.pc # "takeMirror"
          BY <4>2 DEF Freeing
        <4> QED BY <1>1, <1>5, <2>1, <2>3, <2>4, <3>1, <4>7, <4>8, <4>9, StepKeeps DEF Releases
      <3> QED BY <3>5, <3>6
    <2> QED BY <2>6, <2>7
  <1> QED BY <1>4, <1>5

---------------------------------------------------------------------------
(* Seeking, mounting, and the power. *)

LEMMA SeekOnLabels ==
  ASSUME NEW L, Before(L), SeekOn
  PROVE  Labelled(L)'
  <1> DEFINE b == Table(Sector(Desc.next))
  <1>1. job.pc = "seek" /\ ~IsLast(Desc.next) /\ UNCHANGED cut /\ IInv
    BY DEF SeekOn, At, Before
  <1>2. PICK ok \in BOOLEAN :
          LET next == IF ok THEN Entry(Desc.next) ELSE 0
          IN  /\ Fetch(b, Miss(b), ok)
              /\ Set([Desc EXCEPT !.cur = Desc.next, !.next = next])
              /\ IF next = 0 THEN Return ELSE UNCHANGED job
    BY DEF SeekOn
  <1>3. disk' = disk /\ IF ok THEN card' = card ELSE card' = "off"
    BY <1>2, FetchReads
  <1>4. CASE card' # "on"
    BY <1>1, <1>3, <1>4, OffKeeps
  <1>5. CASE card' = "on"
    <2>1. ok /\ card = "on"
      BY <1>3, <1>5
    <2>2. /\ job.d \in Fds /\ Settled(disk, L, Desc, cut) /\ DescOK(Desc)
          /\ Task(disk, L, job, Desc, cut) /\ Desc = fd[job.d]
      BY <1>1, <2>1, Underway DEF Freeing, Desc
    <2>3. ~(Desc.name \in cut /\ Desc.cluster = 0) /\ job.left \in Nat
      BY <1>1, <2>2 DEF Task, Moving
    <2>4. Desc.next \in Nums /\ Entry(Desc.next) = First(disk, Desc.next)
      BY <1>1, <2>1, Running, NextNum, EntryRead
    <2> DEFINE next == First(disk, Desc.next)
               g == [Desc EXCEPT !.cur = Desc.next, !.next = next]
    <2>5. /\ g.name = Desc.name /\ g.cluster = Desc.cluster /\ g.cur = Desc.next
          /\ g.next = next /\ g.size = Desc.size /\ g.pos = Desc.pos /\ g.last = Desc.last
          /\ g.index = Desc.index /\ g.block = Desc.block /\ SameFile(g, Desc)
      BY <2>2 DEF DescOK, Free, SameFile
    <2> HIDE DEF g
    <2>6. Settled(disk, L, g, cut) /\ Desc.cluster # 0 /\ next # 0
      BY <1>1, <2>2, <2>5, SteppedSettled
    <2>7. Set(g) /\ UNCHANGED job
      BY <1>2, <2>1, <2>4, <2>6 DEF g
    <2>8. OneChanged(job.d, g)
      BY <1>1, <2>2, <2>7, SetOne DEF Set
    <2> QED BY <1>1, <1>3, <2>1, <2>3, <2>5, <2>6, <2>7, <2>8, MoveKeeps DEF Moving
  <1> QED BY <1>4, <1>5

LEMMA EndSeekLabels ==
  ASSUME NEW L, Before(L), EndSeek
  PROVE  Labelled(L)'
  <1> DEFINE g == AtEnd(Desc)
  <1>1. /\ job.pc = "seek" /\ IsLast(Desc.next) /\ Set(g) /\ Return
        /\ UNCHANGED <<disk, card, cut>> /\ IInv
    BY DEF EndSeek, At, Before
  <1>2. CASE card' # "on"
    BY <1>1, <1>2, OffKeeps
  <1>3. CASE card' = "on"
    <2>1. /\ job.d \in Fds /\ Settled(disk, L, Desc, cut) /\ DescOK(Desc)
          /\ Task(disk, L, job, Desc, cut) /\ Desc = fd[job.d]
      BY <1>1, <1>3, Underway DEF Freeing, Desc
    <2>2. ~(Desc.name \in cut /\ Desc.cluster = 0)
      BY <1>1, <2>1 DEF Task, Moving
    <2>3. /\ g.name = Desc.name /\ g.cluster = Desc.cluster /\ g.cur = Desc.cur
          /\ g.next = Desc.next /\ g.size = Desc.size /\ g.pos = Desc.size /\ g.last = Desc.last
          /\ g.block = Desc.last \div BlockSize /\ g.index = Desc.last % BlockSize
          /\ SameFile(g, Desc)
      BY <2>1 DEF AtEnd, DescOK, Free, SameFile
    <2> HIDE DEF g
    <2>4. Desc.last \in Nat /\ BlockSize \in Nat /\ BlockSize > 0
      BY <2>1, GeometryAssumption DEF Settled, Founded, Numbers
    <2>5. /\ g.block \in Nat /\ g.index \in Nat
          /\ Desc.last = 0 => g.block = 0 /\ g.index = 0
      BY <2>3, <2>4
    <2>6. Founded(disk, L, g, cut)
      BY <2>1, <2>3, <2>5 DEF Settled, Founded, Numbers, Start, Begun, AtClusterStart
    <2>7. Settled(disk, L, g, cut)
      BY <2>1, <2>3, <2>6 DEF Settled, Stands, Ahead
    <2>8. OneChanged(job.d, g) /\ job'.pc = "idle"
      BY <1>1, <2>1, SetOne DEF Set, Return, Idle
    <2> QED BY <1>1, <1>3, <2>2, <2>3, <2>7, <2>8, MoveKeeps DEF Moving
  <1> QED BY <1>2, <1>3

LEMMA MountLabels ==
  ASSUME NEW L, Before(L), Mount
  PROVE  Labelled(L)'
  <1>1. UNCHANGED <<disk, cut, job>> /\ job.pc = "idle"
    BY DEF Mount, At
  <1>2. \A d \in Fds : ~Usable(d)'
    BY DEF Mount, Usable, Before, IInv, Descs, DescOK, Free
  <1>3. Live(L)'
    BY <1>1, <1>2 DEF Live, Distinct
  <1> QED BY <1>1, <1>3 DEF Before, Labelled, Tables, Listed

LEMMA CrashLabels ==
  ASSUME NEW L, Before(L), Crash
  PROVE  Labelled(L)'
  <1>1. UNCHANGED <<disk, cut>> /\ job'.pc = "idle"
    BY DEF Crash, Return, Idle
  <1>2. \A d \in Fds : ~Usable(d)'
    BY DEF Crash, Usable, Free
  <1>3. Live(L)'
    BY <1>1, <1>2 DEF Live, Distinct
  <1> QED BY <1>1, <1>3 DEF Before, Labelled, Tables, Listed

---------------------------------------------------------------------------
LEMMA LabelsKept ==
  ASSUME Narrow, ReuseTruncated = FALSE, IInv, ChainInv, [Next]_vars
  PROVE  ChainInv'
  <1>1. PICK L \in Labels : Labelled(L)
    BY DEF ChainInv
  <1>2. Before(L)
    BY <1>1 DEF Before
  <1>3. Labelled(L)' => ChainInv'
    BY DEF ChainInv
  <1>4. CASE Call
    BY <1>2, <1>3, <1>4, OpenFileLabels, CreateFileLabels, CloseFileLabels, StartSeekLabels,
       TruncateWholeLabels, TruncateBetweenLabels, TruncateInsideLabels, StartTransferLabels DEF Call
  <1>5. CASE Step
    BY <1>2, <1>3, <1>5, TakeClusterLabels, DiskFullLabels, TakeMirrorLabels, LinkClusterLabels,
       LinkMirrorLabels, TransferChunkLabels, EndOfFileLabels, CrossClusterLabels,
       FindParentLabels, CutChainLabels, CutMirrorLabels, FreeClusterLabels, FreeMirrorLabels,
       SeekOnLabels, EndSeekLabels DEF Step
  <1>6. CASE Mount \/ Crash
    BY <1>2, <1>3, <1>6, MountLabels, CrashLabels
  <1>7. CASE UNCHANGED vars
    <2>1. Labelled(L)'
      BY <1>1, <1>7 DEF vars, Labelled, Tables, Listed, Live, Distinct, Usable, Releases, Fresh, Desc
    <2> QED BY <1>3, <2>1
  <1> QED BY <1>4, <1>5, <1>6, <1>7 DEF Next

(* A card just formatted: every cluster is free, and belongs to nobody. *)
LEMMA FormattedEntries ==
  ASSUME Init
  PROVE  /\ \A c \in Nums : /\ First(disk, c) = IF c < 2 THEN End ELSE 0
                            /\ Second(disk, c) = IF c < 2 THEN End ELSE 0
         /\ \A n \in Names : disk[Dir][n] = EmptyEntry
  <1>1. ASSUME NEW c \in Nums
        PROVE  /\ First(disk, c) = IF c < 2 THEN End ELSE 0
               /\ Second(disk, c) = IF c < 2 THEN End ELSE 0
    <2>1. Sector(c) \in SectorNumbers /\ c % Entries \in 0 .. Entries - 1
      BY EntryPlace
    <2>2. disk[Table(Sector(c))] = FreeTable(Sector(c)) /\ disk[Mirror(Sector(c))] = FreeTable(Sector(c))
      BY <2>1, DirApart DEF Init, Formatted, TableBlocks, Table, Mirror
    <2>3. Sector(c) * Entries + (c % Entries) = c
      BY DivMod, Sizes
    <2> QED BY <2>1, <2>2, <2>3 DEF FreeTable, First, Second
  <1>2. \A n \in Names : disk[Dir][n] = EmptyEntry
    BY DEF Init, Formatted
  <1> QED BY <1>1, <1>2

LEMMA FormattedLabels ==
  ASSUME Narrow, Init
  PROVE  ChainInv
  <1> DEFINE L == [own |-> [c \in Clusters |-> None], rank |-> [c \in Clusters |-> 0]]
  <1>1. L \in Labels
    BY DEF Labels
  <1>2. \A c \in Nums : /\ First(disk, c) = IF c < 2 THEN End ELSE 0
                        /\ Second(disk, c) = IF c < 2 THEN End ELSE 0
    BY FormattedEntries
  <1>3. \A n \in Names : disk[Dir][n] = EmptyEntry
    BY FormattedEntries
  <1>4. Filled(disk)
    BY <1>2, Sizes, ClusterNumbers DEF Filled, Values, Used
  <1>5. Links(disk, L)
    BY <1>2, ClusterNumbers DEF Links, Leads, Clusters
  <1>6. Listed(disk, L, cut)
    BY <1>3 DEF Listed, Entered, EmptyEntry
  <1>7. Live(L)
    BY DEF Init, Live, Distinct, Usable, Free, Idle
  <1> HIDE DEF L
  <1> QED BY <1>1, <1>4, <1>5, <1>6, <1>7 DEF ChainInv, Labelled, Tables

---------------------------------------------------------------------------
(* The chains of the directory: the nth cluster of one is labelled with    *)
(* its file.                                                               *)

(* A set that holds 0, and the successor of each number it holds. *)
LEMMA SetInduction ==
  ASSUME NEW S, 0 \in S, \A n \in Nat : n \in S => n + 1 \in S
  PROVE  Nat \subseteq S
  <1> SUFFICES ASSUME NEW n \in Nat, n \notin S PROVE FALSE
    OBVIOUS
  <1> DEFINE T == {k \in 0 .. n : k \notin S}
             f == [k \in T |-> k - 1]
  <1>1. IsFiniteSet(T) /\ Cardinality(T) \in Nat
    <2>1. IsFiniteSet(0 .. n)
      BY FS_Interval
    <2> QED BY <2>1, FS_Subset, FS_CardinalityType
  <1>2. n \in T /\ IsFiniteSet(T \ {n}) /\ Cardinality(T \ {n}) = Cardinality(T) - 1
    <2>1. n \in T
      OBVIOUS
    <2> QED BY <1>1, <2>1, FS_RemoveElement
  <1>3. f \in [T -> T \ {n}]
    <2> SUFFICES ASSUME NEW k \in T PROVE k - 1 \in T \ {n}
      OBVIOUS
    <2>1. k # 0 /\ k - 1 \in Nat /\ (k - 1) + 1 = k
      OBVIOUS
    <2> QED BY <2>1
  <1>4. Cardinality(T \ {n}) < Cardinality(T)
    BY <1>1, <1>2
  <1> HIDE DEF f
  <1>5. PICK x \in T, y \in T : x # y /\ f[x] = f[y]
    BY <1>1, <1>2, <1>3, <1>4, FS_PigeonHole
  <1> QED BY <1>5 DEF f

Onward(x) == IF x \in Clusters THEN OnDisk(x) ELSE x
Walk(f, c, m) == f = [i \in 0 .. m |-> IF i = 0 THEN c ELSE Onward(f[i - 1])]

LEMMA NthWalks ==
  ASSUME NEW c
  PROVE  Walk(Nth(c), c, Entries * Sectors)
  <1> DEFINE S == {m \in Nat : \E f : Walk(f, c, m)}
  <1>1. 0 \in S
    <2>1. Walk([i \in 0 .. 0 |-> c], c, 0)
      BY DEF Walk
    <2> QED BY <2>1
  <1>2. ASSUME NEW m \in Nat, m \in S PROVE m + 1 \in S
    <2>1. PICK f : Walk(f, c, m)
      BY <1>2
    <2> DEFINE g == [i \in 0 .. m + 1 |-> IF i = m + 1 THEN Onward(f[m]) ELSE f[i]]
    <2>2. ASSUME NEW i \in 0 .. m + 1
          PROVE  g[i] = IF i = 0 THEN c ELSE Onward(g[i - 1])
      <3>1. CASE i = m + 1
        BY <3>1
      <3>2. CASE i # m + 1
        BY <2>1, <3>2 DEF Walk
      <3> QED BY <3>1, <3>2
    <2>3. Walk(g, c, m + 1)
      BY <2>2, Z3 DEF Walk
    <2> HIDE DEF g
    <2> QED BY <2>3
  <1>3. \E f : Walk(f, c, Entries * Sectors)
    BY <1>1, <1>2, SetInduction, Sizes
  <1>4. Nth(c) = CHOOSE f : Walk(f, c, Entries * Sectors)
    BY DEF Nth, Walk, Onward
  <1> QED BY <1>3, <1>4

LEMMA ChainLabelled ==
  ASSUME NEW L, Before(L), NEW n \in Names \ cut, NEW x \in Chain(disk[Dir][n].cluster)
  PROVE  Belongs(disk, L, x, n)
  <1> DEFINE c == disk[Dir][n].cluster
             N == Entries * Sectors
             f == Nth(c)
             S == {i \in Nat : i <= N /\ f[i] \in Clusters => Belongs(disk, L, f[i], n)}
  <1>1. f = [i \in 0 .. N |-> IF i = 0 THEN c ELSE Onward(f[i - 1])] /\ N \in Nat
    BY NthWalks, Sizes DEF Walk
  <1>2. PICK i \in 0 .. N : x = f[i] /\ x \in Clusters
    <2>1. DOMAIN f = 0 .. N
      BY <1>1
    <2> HIDE DEF f
    <2> QED BY <2>1 DEF Chain, f
  <1> HIDE DEF f, N
  <1>3. 0 \in S
    <2>1. f[0] = c
      BY <1>1
    <2>2. c \in Clusters => Belongs(disk, L, c, n)
      BY ClusterNumbers DEF Before, Labelled, Tables, Listed, Entered, Begins
    <2> HIDE DEF c
    <2> QED BY <2>1, <2>2
  <1>4. ASSUME NEW j \in Nat, j \in S PROVE j + 1 \in S
    <2> SUFFICES ASSUME j + 1 <= N, f[j + 1] \in Clusters PROVE Belongs(disk, L, f[j + 1], n)
      OBVIOUS
    <2>1. f[j + 1] = Onward(f[j]) /\ j <= N
      BY <1>1
    <2>2. f[j] \in Clusters
      BY <2>1 DEF Onward
    <2>3. Belongs(disk, L, f[j], n)
      BY <1>4, <2>1, <2>2
    <2>4. f[j + 1] = First(disk, f[j])
      BY <2>1, <2>2 DEF Onward, OnDisk, First
    <2> QED BY <2>3, <2>4, WalkOn
  <1>5. Nat \subseteq S
    <2> HIDE DEF S
    <2> QED BY <1>3, <1>4, SetInduction
  <1>6. i \in Nat /\ i <= N
    BY <1>1, <1>2
  <1> QED BY <1>2, <1>5, <1>6

(* Whenever the card or the power fails, no two files of the directory     *)
(* share a cluster and no cluster of a file is free (alloc_cluster,        *)
(* write_fat_entry, free_cluster_chain, fat_close) - but for files whose   *)
(* truncation has not reached the directory, and if programs leave alone   *)
(* a file that was truncated to nothing.                                   *)
THEOREM FilesApart ==
  ASSUME Narrow, ReuseTruncated = FALSE
  PROVE  Spec => []ChainsApart
  <1>1. Init => ChainInv
    BY FormattedLabels
  <1>2. IInv /\ ChainInv /\ [Next]_vars => ChainInv'
    BY LabelsKept
  <1>3. IInv /\ ChainInv => ChainsApart
    <2> SUFFICES ASSUME IInv, ChainInv PROVE ChainsApart
      OBVIOUS
    <2>1. PICK L \in Labels : Before(L)
      BY DEF ChainInv, Before
    <2>2. ASSUME NEW n \in Names \ cut, NEW x \in Chain(disk[Dir][n].cluster)
          PROVE  OnDisk(x) # 0 /\ x \in Clusters /\ L.own[x] = n
      BY <2>1, ChainLabelled DEF Belongs, Used, First, OnDisk
    <2> QED BY <2>2 DEF ChainsApart
  <1> QED BY <1>1, <1>2, <1>3, Invariant, PTL DEF Spec

=============================================================================
