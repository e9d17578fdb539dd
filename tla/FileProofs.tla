----------------------------- MODULE FileProofs -----------------------------
(***************************************************************************)
(* Files are whole between calls, a chunk is transferred in its place, and *)
(* last_cluster_len is what it says: FilesWhole, TransferInPlace and       *)
(* LastClusterLen, for every card, every number of files and any number of *)
(* failures; and TypeOK, if none of them tears a file.                     *)
(*                                                                         *)
(* A file that no failure has torn has one cluster of each rank up to its  *)
(* number of clusters, the two copies of the table agree on them, and its  *)
(* size fills all but the last.  Every call takes it through states that   *)
(* fall short of this, each in its own way: the invariant says how far,    *)
(* step by step.  What the other files have does not change: a step writes *)
(* entries of one file, or copies a sector of one copy of the table into   *)
(* the other, where the entries of the others are the same.                *)
(***************************************************************************)
EXTENDS ChainProofs

(* The length of a cluster is a word: cluster_mask + 1 does not wrap.  And *)
(* no cluster has the number of an end: with the 256 entries of a sector,  *)
(* both bounds leave out the same tables, those of 256 sectors.            *)
Small == ClusterSize < 65536 /\ Entries * Sectors <= 65528

---------------------------------------------------------------------------
(* The clusters of file n on card k: their ranks are in R, the next rank   *)
(* is in E where there is no next cluster, and the copies agree on all of  *)
(* them but z.                                                             *)

Formed(k, L, n, R, E, z) ==
  /\ \A x \in Clusters : Belongs(k, L, x, n) =>
       /\ L.rank[x] \in R
       /\ IsLast(First(k, x)) => L.rank[x] + 1 \in E
       /\ L.rank[x] + 1 \in E => IsLast(First(k, x))
  /\ \A x, y \in Clusters :
       Belongs(k, L, x, n) /\ Belongs(k, L, y, n) /\ L.rank[x] = L.rank[y] => x = y
  /\ \A x \in Clusters \ {z} : L.own[x] = n => First(k, x) = Second(k, x)
Complete(k, L, n, C) == Formed(k, L, n, 0 .. C - 1, {C}, 0)

(* The size of a file of C clusters, and the bytes in its last one.        *)
Fills(size, last, C) ==
  IF C = 0 THEN size = 0 /\ last = 0
           ELSE last \in 1 .. ClusterSize /\ size = (C - 1) * ClusterSize + last
Heads(k, L, n, c, C) == IF C = 0 THEN c = 0 ELSE Begins(k, L, c, n)
Makes(k, L, n, e, C) ==
  Complete(k, L, n, C) /\ Heads(k, L, n, e.cluster, C) /\ Fills(e.size, LastLen(e.size), C)
FileOK(k, L, n, e) == \E C \in Nat : Makes(k, L, n, e, C)

---------------------------------------------------------------------------
(* A descriptor f of a file of C clusters. *)

Offset(f) == f.block * BlockSize + f.index
Within(f) ==
  /\ f.block \in 0 .. BlocksPerCluster /\ f.index \in 0 .. BlockSize - 1
  /\ f.block = BlocksPerCluster => f.index = 0
  /\ f.block < BlocksPerCluster => f.addr = FirstBlock(f.cur) + f.block
Base(L, f, C) == IF C = 0 THEN 0 ELSE L.rank[f.cur] * ClusterSize
Points(L, f, C) == Within(f) /\ f.pos = Base(L, f, C) + Offset(f) /\ f.pos <= f.size

Located(k, L, f) == Begins(k, L, f.cluster, f.name) /\ Belongs(k, L, f.cur, f.name)
Lies(k, L, f, C) ==
  IF C = 0 THEN f.cluster = 0 /\ f.cur = 0 /\ IsLast(f.next)
  ELSE /\ Located(k, L, f)
       /\ IF IsLast(f.next) THEN L.rank[f.cur] + 1 = C ELSE f.next = First(k, f.cur)

Spent(f, hidden) == f.cluster = 0 /\ f.name \in hidden
AtLast(f) == f.block = BlocksPerCluster => IsLast(f.next)
Ready(k, L, f, C) == Lies(k, L, f, C) /\ Fills(f.size, f.last, C) /\ Points(L, f, C)
Standing(k, L, f, C) == Complete(k, L, f.name, C) /\ Ready(k, L, f, C) /\ AtLast(f)
Resting(k, L, f, C, hidden) ==
  IF Spent(f, hidden) THEN C = 0 /\ Complete(k, L, f.name, C) /\ f.size = 0
                      ELSE Standing(k, L, f, C)

---------------------------------------------------------------------------
(* The call j that runs on f. *)

(* A cluster has been attached, and nothing is written to it yet.          *)
Attaching(k, L, j, f, C) ==
  /\ j.write /\ C > 0 /\ Complete(k, L, f.name, C) /\ Lies(k, L, f, C) /\ IsLast(f.next)
  /\ f.last = 0 /\ f.size = (C - 1) * ClusterSize /\ Points(L, f, C)
Sending(k, L, j, f, C) == Standing(k, L, f, C) \/ Attaching(k, L, j, f, C)

(* A cluster is taken for the file, and linked to its last one.            *)
Wanting(j, f) == j.write /\ j.left \in Nat \ {0} /\ NeedsCluster(f)
Extending(k, L, j, f, C, z) ==
  /\ Wanting(j, f) /\ C > 0 /\ Ready(k, L, f, C)
  /\ Formed(k, L, f.name, 0 .. C, {C, C + 1}, z)
  /\ Belongs(k, L, j.new, f.name) /\ L.rank[j.new] = C

(* The file ends where the descriptor is: the clusters behind cur go.      *)
Ending(L, f) == Within(f) /\ f.size = f.pos /\ f.pos = L.rank[f.cur] * ClusterSize + Offset(f)
Shortened(k, L, f) == Located(k, L, f) /\ Ending(L, f) /\ ~AtClusterStart(f)
Searching(k, L, j, f, C) ==
  /\ Complete(k, L, f.name, C) /\ Located(k, L, f) /\ Ending(L, f) /\ AtClusterStart(f)
  /\ Belongs(k, L, j.from, f.name) /\ L.rank[j.from] < L.rank[f.cur]
Halving(k, L, j, f, C) ==
  /\ Complete(k, L, f.name, C) /\ Shortened(k, L, f) /\ ~j.whole
  /\ j.from = First(k, f.cur) /\ ~IsLast(j.from)
Length(L, j, f) == IF j.whole THEN 0 ELSE L.rank[f.cur] + 1
Remains(k, L, j, f) == IF j.whole THEN f.cluster = 0 /\ f.size = 0 ELSE Shortened(k, L, f)
Parting(k, L, j, f, C, r, z) ==
  /\ Remains(k, L, j, f) /\ L.rank[j.from] \in Length(L, j, f) .. C - 1
  /\ Formed(k, L, f.name, (0 .. Length(L, j, f) - 1) \cup (r .. C - 1), {Length(L, j, f), C}, z)
Parted(k, L, j, f, C) ==
  /\ ~j.whole /\ First(k, f.cur) = End
  /\ Belongs(k, L, j.from, f.name) /\ L.rank[j.from] = L.rank[f.cur] + 1
  /\ Parting(k, L, j, f, C, L.rank[j.from], f.cur)
Losing(k, L, j, f, C) ==
  Belongs(k, L, j.from, f.name) /\ Parting(k, L, j, f, C, L.rank[j.from], 0)
Lost(k, L, j, f, C) ==
  /\ L.own[j.from] = f.name /\ First(k, j.from) = 0
  /\ Parting(k, L, j, f, C, L.rank[j.from] + 1, j.from)
  /\ IF IsLast(j.new) THEN L.rank[j.from] + 1 = C
     ELSE Belongs(k, L, j.new, f.name) /\ L.rank[j.new] = L.rank[j.from] + 1

Doing(k, L, j, f, C, hidden) ==
  /\ j.pc = "idle" => Resting(k, L, f, C, hidden)
  /\ j.pc \in {"transfer", "cross", "seek"} => ~Spent(f, hidden)
  /\ j.pc = "transfer" => j.left \in Nat \ {0} /\ Sending(k, L, j, f, C)
  /\ j.pc = "takeMirror" => Wanting(j, f) /\ Standing(k, L, f, C)
  /\ j.pc = "link" => Extending(k, L, j, f, C, 0)
  /\ j.pc = "linkMirror" => Extending(k, L, j, f, C, f.cur) /\ Second(k, f.cur) = j.new
  /\ j.pc = "cross" =>
       /\ Complete(k, L, f.name, C) /\ Ready(k, L, f, C)
       /\ f.block = BlocksPerCluster /\ ~IsLast(f.next)
  /\ j.pc = "seek" =>
       Complete(k, L, f.name, C) /\ Lies(k, L, f, C) /\ Fills(f.size, f.last, C)
  /\ j.pc = "parent" => Searching(k, L, j, f, C)
  /\ j.pc = "cut" => Halving(k, L, j, f, C)
  /\ j.pc = "cutMirror" => Parted(k, L, j, f, C)
  /\ j.pc = "free" => f.name \in hidden /\ Losing(k, L, j, f, C)
  /\ j.pc = "freeMirror" => f.name \in hidden /\ Lost(k, L, j, f, C)
Good(k, L, j, f, hidden) == \E C \in Nat : Doing(k, L, j, f, C, hidden)

---------------------------------------------------------------------------
(* The invariant.  What a failure has torn is left out; what descriptors   *)
(* say matters while the card answers, and for what is read from a cached  *)
(* block of data after it has ceased to.                                   *)

Job(d) == IF job.d = d THEN job ELSE Idle
IsData(a) == a \notin TableBlocks \cup {Dir, None}
Active == card = "on" \/ IsData(cacheAddr)
InTurn(d) == Usable(d) /\ fd[d].name \notin torn

FilesOK(L) ==
  \A n \in Names \ torn : (card = "on" => ~IsOpen(n)) => FileOK(disk, L, n, disk[Dir][n])
Tidy == \A n \in Names : disk[Dir][n].cluster # 0 => disk[Dir][n].used
Engaged ==
  /\ Distinct /\ \A d \in Fds : Usable(d) => fd[d].name \in Names
  /\ ~At("idle") => job.d \in Fds /\ Usable(job.d)
InHand(L) == Active => \A d \in Fds : InTurn(d) => Good(disk, L, Job(d), fd[d], cut)
Saved ==
  card = "on" => \A d \in Fds : InTurn(d) /\ ~fd[d].modified =>
    LET e == disk[Dir][fd[d].name] IN e.cluster = fd[d].cluster /\ e.size = fd[d].size
Loose(L) == card = "on" /\ At("takeMirror") => L.own[job.new] \notin Names \ torn
Sound(L) == FilesOK(L) /\ Tidy /\ Engaged /\ InHand(L) /\ Saved /\ Loose(L)

Given(L) == Small /\ Before(L) /\ Sound(L)
WholeInv == \E L \in Labels : Labelled(L) /\ Sound(L)

---------------------------------------------------------------------------
(* Arithmetic. *)

LEMMA Geometry ==
  /\ BlockSize \in Nat /\ BlockSize > 0 /\ BlocksPerCluster \in Nat /\ BlocksPerCluster > 0
  /\ ClusterSize \in Nat /\ ClusterSize > 0 /\ ClusterSize = BlocksPerCluster * BlockSize
  BY GeometryAssumption DEF ClusterSize

LEMMA Multiples ==
  ASSUME NEW a \in Nat, NEW b \in Nat, a < b, NEW s \in Nat
  PROVE  a * s \in Nat /\ a * s + s <= b * s /\ (a + 1) * s = a * s + s
  <1>1. a * s \in Nat /\ (a + 1) * s = a * s + s
    OBVIOUS
  <1>2. PICK i \in Nat : b = a + 1 + i
    <2>1. b - a - 1 \in Nat /\ b = a + 1 + (b - a - 1)
      OBVIOUS
    <2> QED BY <2>1
  <1>3. i * s \in Nat /\ b * s = a * s + s + i * s
    BY <1>2
  <1> QED BY <1>1, <1>3

LEMMA SmallNumbers ==
  ASSUME Small
  PROVE  Narrow /\ (\A c \in Clusters : ~IsLast(c)) /\ ClusterSize < 65536
  BY Sizes DEF Small, Narrow, Clusters, IsLast, End

LEMMA NextMultiple ==
  ASSUME NEW a \in Nat
  PROVE  a * ClusterSize \in Nat /\ (a + 1) * ClusterSize = a * ClusterSize + ClusterSize
  <1>1. ClusterSize \in Nat
    BY Geometry
  <1> HIDE DEF ClusterSize
  <1> QED BY <1>1

LEMMA OffsetRange ==
  ASSUME NEW f, Within(f)
  PROVE  /\ Offset(f) \in 0 .. ClusterSize /\ f.block * BlockSize \in Nat
         /\ f.block = BlocksPerCluster => Offset(f) = ClusterSize
         /\ Offset(f) = ClusterSize => f.block = BlocksPerCluster
         /\ AtClusterStart(f) => Offset(f) = 0
         /\ Offset(f) = 0 => AtClusterStart(f)
         /\ f.block < BlocksPerCluster => f.block * BlockSize + BlockSize <= ClusterSize
  <1>1. f.block \in Nat /\ f.block <= BlocksPerCluster /\ f.index \in Nat /\ f.index < BlockSize
    BY Geometry DEF Within
  <1>2. CASE f.block = BlocksPerCluster
    <2>1. Offset(f) = ClusterSize /\ f.block * BlockSize \in Nat
      BY <1>2, Geometry DEF Within, Offset
    <2>2. ~AtClusterStart(f)
      BY <1>2, Geometry DEF AtClusterStart
    <2> QED BY <1>2, <2>1, <2>2, Geometry
  <1>3. CASE f.block < BlocksPerCluster
    <2>1. f.block * BlockSize \in Nat /\ f.block * BlockSize + BlockSize <= ClusterSize
      BY <1>1, <1>3, Multiples, Geometry
    <2>2. f.block # 0 => f.block * BlockSize >= BlockSize
      <3>1. CASE f.block # 0
        <4>1. 0 * BlockSize + BlockSize <= f.block * BlockSize
          BY <1>1, <3>1, Multiples, Geometry
        <4> QED BY <4>1, Geometry
      <3> QED BY <3>1
    <2>3. f.block = 0 => f.block * BlockSize = 0
      BY Geometry
    <2>4. Offset(f) \in 0 .. ClusterSize /\ Offset(f) # ClusterSize
      BY <1>1, <2>1, Geometry DEF Offset
    <2>5. AtClusterStart(f) => Offset(f) = 0
      BY <1>1, <2>3 DEF AtClusterStart, Offset
    <2>6. Offset(f) = 0 => AtClusterStart(f)
      BY <1>1, <2>1, <2>2, Geometry DEF AtClusterStart, Offset
    <2>7. f.block # BlocksPerCluster
      BY <1>1, <1>3, Geometry
    <2> QED BY <2>1, <2>4, <2>5, <2>6, <2>7
  <1>4. f.block = BlocksPerCluster \/ f.block < BlocksPerCluster
    BY <1>1, Geometry
  <1> QED BY <1>2, <1>3, <1>4

(* The last of C clusters holds what the size leaves. *)
LEMMA Divides ==
  ASSUME NEW q \in Nat, NEW r \in Nat, r < ClusterSize, NEW x, x = q * ClusterSize + r
  PROVE  x \in Nat /\ x \div ClusterSize = q /\ x % ClusterSize = r
  BY Geometry, SMTT(30)

LEMMA FillsLen ==
  ASSUME NEW C \in Nat, NEW size, NEW last, Fills(size, last, C)
  PROVE  /\ size \in Nat /\ last \in Nat /\ last = LastLen(size) /\ ClustersOf(size) = C
         /\ C = 0 <=> size = 0
  <1>1. CASE C = 0
    <2>1. 0 * ClusterSize + (ClusterSize - 1) = ClusterSize - 1 /\ ClusterSize - 1 \in Nat
      BY Geometry
    <2>2. (ClusterSize - 1) \div ClusterSize = 0
      BY <2>1, Divides, Geometry
    <2> QED BY <1>1, <2>2, Geometry DEF Fills, LastLen, ClustersOf
  <1>2. CASE C # 0
    <2>1. C - 1 \in Nat /\ last \in Nat /\ last > 0 /\ last <= ClusterSize
          /\ size = (C - 1) * ClusterSize + last /\ (C - 1) * ClusterSize \in Nat
      BY <1>2, Geometry DEF Fills
    <2>2. size \in Nat /\ size # 0
      BY <2>1
    <2>3. ClustersOf(size) = C
      <3>1. C * ClusterSize = (C - 1) * ClusterSize + ClusterSize
        BY Geometry
      <3>2. size + ClusterSize - 1 = C * ClusterSize + (last - 1)
        BY <2>1, <3>1, Geometry
      <3>3. last - 1 \in Nat /\ last - 1 < ClusterSize
        BY <2>1, Geometry
      <3> QED BY <3>2, <3>3, Divides DEF ClustersOf
    <2>4. last = LastLen(size)
      <3>1. CASE last = ClusterSize
        <4>1. size = C * ClusterSize + 0
          BY <2>1, <3>1, Geometry
        <4>2. size % ClusterSize = 0
          BY <4>1, Divides, Geometry
        <4> QED BY <2>2, <3>1, <4>2 DEF LastLen
      <3>2. CASE last < ClusterSize
        <4>1. size % ClusterSize = last
          BY <2>1, <3>2, Divides
        <4> QED BY <2>1, <2>2, <4>1 DEF LastLen
      <3> QED BY <2>1, <3>1, <3>2, Geometry
    <2> QED BY <1>2, <2>1, <2>2, <2>3, <2>4
  <1> QED BY <1>1, <1>2

---------------------------------------------------------------------------
(* The clusters of a file n are, on a card m with labels M, what they are  *)
(* on k with L.                                                            *)

Alike(k, L, m, M, n) ==
  \A x \in Clusters :
    /\ Belongs(k, L, x, n) => Belongs(m, M, x, n)
    /\ M.own[x] = n =>
         /\ L.own[x] = n /\ M.rank[x] = L.rank[x]
         /\ First(m, x) = First(k, x) /\ Second(m, x) = Second(k, x)

LEMMA AlikeBelongs ==
  ASSUME NEW k, NEW L, NEW m, NEW M, NEW n, Alike(k, L, m, M, n), NEW x
  PROVE  /\ Belongs(k, L, x, n) => Belongs(m, M, x, n)
         /\ Belongs(m, M, x, n) =>
              Belongs(k, L, x, n) /\ M.rank[x] = L.rank[x] /\ First(m, x) = First(k, x)
  BY DEF Alike, Belongs, Used

LEMMA AlikeFormed ==
  ASSUME NEW k, NEW L, NEW m, NEW M, NEW n, Alike(k, L, m, M, n),
         NEW R, NEW E, NEW z, Formed(k, L, n, R, E, z)
  PROVE  Formed(m, M, n, R, E, z)
  <1>1. \A x \in Clusters : Belongs(m, M, x, n) =>
          Belongs(k, L, x, n) /\ M.rank[x] = L.rank[x] /\ First(m, x) = First(k, x)
    BY AlikeBelongs
  <1>2. \A x \in Clusters \ {z} : M.own[x] = n => First(m, x) = Second(m, x)
    BY DEF Alike, Formed
  <1>3. \A x \in Clusters : Belongs(m, M, x, n) =>
          /\ M.rank[x] \in R
          /\ IsLast(First(m, x)) => M.rank[x] + 1 \in E
          /\ M.rank[x] + 1 \in E => IsLast(First(m, x))
    BY <1>1 DEF Formed
  <1>4. \A x, y \in Clusters :
          Belongs(m, M, x, n) /\ Belongs(m, M, y, n) /\ M.rank[x] = M.rank[y] => x = y
    BY <1>1 DEF Formed
  <1> QED BY <1>2, <1>3, <1>4 DEF Formed

LEMMA AlikeComplete ==
  ASSUME NEW k, NEW L, NEW m, NEW M, NEW n, Alike(k, L, m, M, n), NEW C, Complete(k, L, n, C)
  PROVE  Complete(m, M, n, C)
  BY AlikeFormed DEF Complete

LEMMA AlikeFile ==
  ASSUME NEW k, NEW L, NEW m, NEW M, NEW n, Alike(k, L, m, M, n), NEW e, FileOK(k, L, n, e)
  PROVE  FileOK(m, M, n, e)
  <1>1. PICK C \in Nat : Makes(k, L, n, e, C)
    BY DEF FileOK
  <1>2. Heads(m, M, n, e.cluster, C)
    BY <1>1, AlikeBelongs DEF Makes, Heads, Begins
  <1>3. Complete(m, M, n, C)
    BY <1>1, AlikeComplete DEF Makes
  <1> QED BY <1>1, <1>2, <1>3 DEF Makes, FileOK

LEMMA AlikeLies ==
  ASSUME NEW k, NEW L, NEW m, NEW M, NEW f, Alike(k, L, m, M, f.name), NEW C, Lies(k, L, f, C)
  PROVE  /\ Lies(m, M, f, C)
         /\ C # 0 => M.rank[f.cur] = L.rank[f.cur]
  <1>1. CASE C = 0
    BY <1>1 DEF Lies
  <1>2. CASE C # 0
    <2>1. Belongs(k, L, f.cluster, f.name) /\ L.rank[f.cluster] = 0 /\ Belongs(k, L, f.cur, f.name)
      BY <1>2 DEF Lies, Located, Begins
    <2>2. /\ Belongs(m, M, f.cluster, f.name) /\ M.rank[f.cluster] = 0
          /\ Belongs(m, M, f.cur, f.name) /\ M.rank[f.cur] = L.rank[f.cur]
          /\ First(m, f.cur) = First(k, f.cur)
      BY <2>1, AlikeBelongs
    <2> QED BY <1>2, <2>2 DEF Lies, Located, Begins
  <1> QED BY <1>1, <1>2

LEMMA AlikeResting ==
  ASSUME NEW k, NEW L, NEW m, NEW M, NEW f, Alike(k, L, m, M, f.name), NEW C,
         NEW hidden, NEW more, f.name \in more <=> f.name \in hidden,
         Resting(k, L, f, C, hidden)
  PROVE  Resting(m, M, f, C, more)
  <1>1. CASE Spent(f, hidden)
    BY <1>1, AlikeComplete DEF Resting, Spent
  <1>2. CASE ~Spent(f, hidden)
    <2>1. Complete(m, M, f.name, C)
      BY <1>2, AlikeComplete DEF Resting, Standing
    <2>2. Lies(m, M, f, C) /\ (C # 0 => M.rank[f.cur] = L.rank[f.cur])
      BY <1>2, AlikeLies DEF Resting, Standing, Ready
    <2>3. Points(M, f, C)
      BY <1>2, <2>2 DEF Resting, Standing, Ready, Points, Base
    <2>4. Standing(m, M, f, C)
      BY <1>2, <2>1, <2>2, <2>3 DEF Resting, Standing, Ready
    <2> QED BY <1>2, <2>4 DEF Resting, Spent
  <1> QED BY <1>1, <1>2

LEMMA AlikeSame ==
  ASSUME NEW k, NEW L, NEW m, NEW n, m = k
  PROVE  Alike(k, L, m, L, n)
  BY DEF Alike

(* What a descriptor at rest says of its file, the directory may say. *)
LEMMA RestingFile ==
  ASSUME NEW k, NEW L, NEW f, NEW C \in Nat, NEW hidden, Resting(k, L, f, C, hidden)
  PROVE  FileOK(k, L, f.name, f)
  <1>1. CASE Spent(f, hidden)
    <2>1. C = 0 /\ Complete(k, L, f.name, C) /\ f.size = 0 /\ f.cluster = 0
      BY <1>1 DEF Resting, Spent
    <2>2. Makes(k, L, f.name, f, C)
      BY <2>1 DEF Makes, Heads, Fills, LastLen
    <2> QED BY <2>2 DEF FileOK
  <1>2. CASE ~Spent(f, hidden)
    <2>1. Complete(k, L, f.name, C) /\ Lies(k, L, f, C) /\ Fills(f.size, f.last, C)
      BY <1>2 DEF Resting, Standing, Ready
    <2>2. f.last = LastLen(f.size)
      BY <2>1, FillsLen
    <2>3. Heads(k, L, f.name, f.cluster, C)
      BY <2>1 DEF Lies, Located, Heads
    <2>4. Makes(k, L, f.name, f, C)
      BY <2>1, <2>2, <2>3 DEF Makes
    <2> QED BY <2>4 DEF FileOK
  <1> QED BY <1>1, <1>2

LEMMA SameEntry ==
  ASSUME NEW k, NEW L, NEW n, NEW f, FileOK(k, L, n, f),
         NEW e, e.cluster = f.cluster, e.size = f.size
  PROVE  FileOK(k, L, n, e)
  BY DEF FileOK, Makes

LEMMA RestingGood ==
  ASSUME NEW k, NEW L, NEW j, j.pc = "idle", NEW f, NEW hidden
  PROVE  /\ Good(k, L, j, f, hidden) => \E C \in Nat : Resting(k, L, f, C, hidden)
         /\ (\E C \in Nat : Resting(k, L, f, C, hidden)) => Good(k, L, j, f, hidden)
  <1>1. ASSUME NEW C PROVE /\ Doing(k, L, j, f, C, hidden) => Resting(k, L, f, C, hidden)
                           /\ Resting(k, L, f, C, hidden) => Doing(k, L, j, f, C, hidden)
    BY DEF Doing
  <1> QED BY <1>1 DEF Good

LEMMA AlikeGood ==
  ASSUME NEW k, NEW L, NEW m, NEW M, NEW f, Alike(k, L, m, M, f.name), NEW i, NEW j,
         i.pc = "idle", j.pc = "idle",
         NEW hidden, NEW more, f.name \in more <=> f.name \in hidden, Good(k, L, i, f, hidden)
  PROVE  Good(m, M, j, f, more)
  <1>1. PICK C \in Nat : Resting(k, L, f, C, hidden)
    BY RestingGood
  <1>2. Resting(m, M, f, C, more)
    BY <1>1, AlikeResting
  <1> QED BY <1>2, RestingGood

---------------------------------------------------------------------------
(* What a step does to the card and to the cache. *)

Tears == torn' = IF card = "on" /\ card' # "on" THEN torn \cup Unsaved ELSE torn
Cached(b) == cacheAddr' \in {b, None}
Reads(b, ok) ==
  /\ Tears /\ Cached(b) /\ disk' = disk
  /\ IF ok THEN card' = card /\ cacheAddr' = b /\ (card = "on" \/ cacheAddr = b)
           ELSE card' = "off" /\ cacheAddr' = None
Writes(b, m, ok) == Tears /\ Cached(b) /\ Wrote(m, ok)

LEMMA FetchTears ==
  ASSUME NEW b, NEW miss, NEW ok \in BOOLEAN, Fetch(b, miss, ok), ~miss => cacheAddr = b
  PROVE  Reads(b, ok)
  BY DEF Fetch, CardFails, Tears, Cached, Reads

LEMMA FlushTears ==
  ASSUME NEW b, NEW block, NEW ok \in BOOLEAN, Flush(b, block, ok)
  PROVE  Tears /\ Cached(b)
  BY DEF Flush, CardFails, Tears, Cached

LEMMA UpdateTears ==
  ASSUME NEW b, NEW block, NEW miss, NEW ok \in BOOLEAN, Update(b, block, miss, ok)
  PROVE  Tears /\ Cached(b)
  <1>1. CASE Flush(b, block, ok)
    BY <1>1, FlushTears
  <1>2. CASE ~ok /\ Fetch(b, miss, ok)
    BY <1>2 DEF Fetch, CardFails, Tears, Cached
  <1> QED BY <1>1, <1>2 DEF Update

LEMMA NoData ==
  ASSUME NEW b, b \in TableBlocks \cup {Dir}, Cached(b)
  PROVE  ~IsData(cacheAddr')
  BY DEF Cached, IsData

---------------------------------------------------------------------------
(* A step on descriptor d leaves the files of the others alone. *)

One(d, f) ==
  /\ d \in Fds /\ Usable(d) /\ OneChanged(d, f) /\ SameFile(f, fd[d])
  /\ At("idle") \/ job.d = d
  /\ job'.pc = "idle" \/ job'.d = d
Steady(L, M, name) ==
  \A n \in Names \ torn' : n # name =>
    Alike(disk, L, disk', M, n) /\ (n \in cut' <=> n \in cut)
Accounted(d, f) ==
  ~f.modified => ~fd[d].modified /\ f.cluster = fd[d].cluster /\ f.size = fd[d].size

LEMMA SameUsers ==
  ASSUME NEW d, NEW f, One(d, f), NEW e \in Fds
  PROVE  /\ Usable(e)' => Usable(e) /\ fd'[e].name = fd[e].name
         /\ Usable(e) => Usable(e)' /\ fd'[e].name = fd[e].name
         /\ e # d => fd'[e] = fd[e]
         /\ e # d => Job(e).pc = "idle" /\ Job(e)'.pc = "idle"
  <1>1. e # d => fd'[e] = fd[e]
    BY DEF One, OneChanged
  <1>2. fd'[d].free = fd[d].free /\ fd'[d].stale = fd[d].stale /\ fd'[d].name = fd[d].name
    BY DEF One, OneChanged, SameFile
  <1>3. e # d => Job(e).pc = "idle" /\ Job(e)'.pc = "idle"
    BY DEF One, Job, At, Idle
  <1> QED BY <1>1, <1>2, <1>3 DEF Usable

LEMMA SameOpen ==
  ASSUME NEW d, NEW f, One(d, f), NEW n
  PROVE  (IsOpen(n)' => IsOpen(n)) /\ (IsOpen(n) => IsOpen(n)')
  BY SameUsers DEF IsOpen

LEMMA EngagedKept ==
  ASSUME Engaged, NEW d, NEW f, One(d, f)
  PROVE  Engaged'
  <1>1. Distinct'
    BY SameUsers DEF Engaged, Distinct
  <1>2. \A e \in Fds : Usable(e)' => fd'[e].name \in Names
    BY SameUsers DEF Engaged
  <1>3. ~At("idle")' => job'.d \in Fds /\ Usable(job.d)'
    <2>1. Usable(d)' /\ d \in Fds
      BY SameUsers DEF One
    <2> QED BY <2>1 DEF One, At
  <1> QED BY <1>1, <1>2, <1>3 DEF Engaged

LEMMA HandKept ==
  ASSUME NEW L, NEW M, Sound(L), NEW d, NEW f, One(d, f), torn \subseteq torn',
         Steady(L, M, fd[d].name), Active' => Active,
         Active' /\ f.name \notin torn' => Good(disk', M, job', f, cut')
  PROVE  InHand(M)'
  <1> SUFFICES ASSUME Active', NEW e \in Fds, InTurn(e)'
               PROVE  Good(disk', M, Job(e)', fd'[e], cut')
    BY DEF InHand
  <1>1. CASE e = d
    <2>1. fd'[e] = f /\ f.name \notin torn'
      BY <1>1 DEF One, OneChanged, InTurn
    <2>2. Good(disk', M, job', f, cut')
      BY <2>1
    <2>3. CASE job'.d = d
      BY <1>1, <2>1, <2>2, <2>3 DEF Job
    <2>4. CASE job'.d # d
      <3>1. job'.pc = "idle" /\ Job(e)' = Idle /\ Idle.pc = "idle"
        BY <1>1, <2>4 DEF Job, One, Idle
      <3>2. Alike(disk', M, disk', M, f.name)
        BY AlikeSame
      <3> QED BY <2>1, <2>2, <3>1, <3>2, AlikeGood
    <2> QED BY <2>3, <2>4
  <1>2. CASE e # d
    <2>1. /\ Usable(e) /\ fd'[e] = fd[e] /\ Job(e).pc = "idle" /\ Job(e)'.pc = "idle"
          /\ fd[e].name \in Names \ torn'
      BY <1>2, SameUsers DEF InTurn, Sound, Engaged
    <2>2. fd[e].name # fd[d].name
      BY <1>2, <2>1 DEF Sound, Engaged, Distinct, One
    <2>3. Good(disk, L, Job(e), fd[e], cut)
      BY <2>1 DEF Sound, InHand, InTurn
    <2>4. Alike(disk, L, disk', M, fd[e].name) /\ (fd[e].name \in cut' <=> fd[e].name \in cut)
      BY <2>1, <2>2 DEF Steady
    <2> QED BY <2>1, <2>3, <2>4, AlikeGood
  <1> QED BY <1>1, <1>2

LEMMA SavedKept ==
  ASSUME NEW L, Sound(L), NEW d, NEW f, One(d, f), torn \subseteq torn',
         card' = "on" => card = "on", disk'[Dir] = disk[Dir], Accounted(d, f)
  PROVE  Saved'
  <1> SUFFICES ASSUME card' = "on", NEW e \in Fds, InTurn(e)', ~fd'[e].modified
               PROVE  /\ disk'[Dir][fd'[e].name].cluster = fd'[e].cluster
                      /\ disk'[Dir][fd'[e].name].size = fd'[e].size
    BY DEF Saved
  <1>1. InTurn(e) /\ fd'[e].name = fd[e].name
    BY SameUsers DEF InTurn
  <1>2. /\ ~fd[e].modified /\ fd'[e].cluster = fd[e].cluster /\ fd'[e].size = fd[e].size
    <2>1. CASE e = d
      BY <2>1 DEF One, OneChanged, Accounted
    <2>2. CASE e # d
      BY <2>2, SameUsers
    <2> QED BY <2>1, <2>2
  <1> QED BY <1>1, <1>2 DEF Sound, Saved

LEMMA FilesKept ==
  ASSUME NEW L, NEW M, Sound(L), NEW d, NEW f, One(d, f), torn' = torn, card' = card,
         Steady(L, M, fd[d].name), disk'[Dir] = disk[Dir],
         card # "on" => disk' = disk /\ M = L
  PROVE  FilesOK(M)'
  <1> SUFFICES ASSUME NEW n \in Names \ torn, card' = "on" => ~IsOpen(n)'
               PROVE  FileOK(disk', M, n, disk'[Dir][n])
    BY DEF FilesOK
  <1>1. FileOK(disk, L, n, disk[Dir][n])
    BY SameOpen DEF Sound, FilesOK
  <1>2. CASE card # "on"
    BY <1>1, <1>2
  <1>3. CASE card = "on"
    <2>1. n # fd[d].name
      BY <1>3, SameOpen DEF IsOpen, One
    <2>2. Alike(disk, L, disk', M, n)
      BY <2>1 DEF Steady
    <2> QED BY <1>1, <2>2, AlikeFile
  <1> QED BY <1>2, <1>3

LEMMA StepSound ==
  ASSUME NEW L, NEW M, Sound(L), NEW d, NEW f, One(d, f), torn' = torn, card' = card,
         Steady(L, M, fd[d].name), disk'[Dir] = disk[Dir],
         card # "on" => disk' = disk /\ M = L,
         Active' => Active, Accounted(d, f), Loose(M)',
         Active' /\ f.name \notin torn => Good(disk', M, job', f, cut')
  PROVE  Sound(M)'
  <1>1. FilesOK(M)'
    BY FilesKept
  <1>2. Tidy'
    BY DEF Sound, Tidy
  <1>3. Engaged'
    BY EngagedKept DEF Sound
  <1>4. InHand(M)'
    BY HandKept
  <1>5. Saved'
    BY SavedKept
  <1> QED BY <1>1, <1>2, <1>3, <1>4, <1>5 DEF Sound

(* The card fails, or is off: the files that nobody was changing are what  *)
(* the directory says.                                                     *)
LEMMA ClosedFile ==
  ASSUME NEW L, Sound(L), NEW n \in Names \ torn, card = "on" => n \notin Unsaved
  PROVE  FileOK(disk, L, n, disk[Dir][n])
  <1>1. CASE card = "on" => ~IsOpen(n)
    BY <1>1 DEF Sound, FilesOK
  <1>2. CASE card = "on" /\ IsOpen(n)
    <2>1. PICK d \in Fds : Usable(d) /\ fd[d].name = n
      BY <1>2 DEF IsOpen
    <2>2. ~fd[d].modified /\ job.d # d
      BY <1>2, <2>1 DEF Unsaved
    <2>3. Good(disk, L, Job(d), fd[d], cut) /\ Job(d).pc = "idle"
      BY <1>2, <2>1, <2>2 DEF Sound, InHand, InTurn, Active, Job, Idle
    <2>4. PICK C \in Nat : Resting(disk, L, fd[d], C, cut)
      BY <2>3, RestingGood
    <2>5. FileOK(disk, L, n, fd[d])
      BY <2>1, <2>4, RestingFile
    <2>6. disk[Dir][n].cluster = fd[d].cluster /\ disk[Dir][n].size = fd[d].size
      BY <1>2, <2>1, <2>2 DEF Sound, Saved, InTurn
    <2> QED BY <2>5, <2>6, SameEntry
  <1> QED BY <1>1, <1>2

LEMMA FilesLost ==
  ASSUME NEW L, Sound(L), Tears, card' # "on",
         \A n \in Names \ torn' :
           Alike(disk, L, disk', L, n) /\ disk'[Dir][n] = disk[Dir][n]
  PROVE  FilesOK(L)'
  <1> SUFFICES ASSUME NEW n \in Names \ torn' PROVE FileOK(disk', L, n, disk'[Dir][n])
    BY DEF FilesOK
  <1>1. n \notin torn /\ (card = "on" => n \notin Unsaved)
    BY DEF Tears
  <1>2. FileOK(disk, L, n, disk[Dir][n])
    BY <1>1, ClosedFile
  <1> QED BY <1>2, AlikeFile

LEMMA FailSound ==
  ASSUME NEW L, Sound(L), Tears, card' # "on", ~IsData(cacheAddr'), Engaged', Tidy',
         \A n \in Names \ torn' :
           Alike(disk, L, disk', L, n) /\ disk'[Dir][n] = disk[Dir][n]
  PROVE  Sound(L)'
  <1>1. FilesOK(L)'
    BY FilesLost
  <1>2. ~Active' /\ Saved' /\ Loose(L)'
    BY DEF Active, Saved, Loose
  <1> QED BY <1>1, <1>2 DEF Sound, InHand

LEMMA JobTorn ==
  ASSUME Engaged, ~At("idle"), Tears, card = "on", card' # "on", NEW n \in Names \ torn'
  PROVE  n # Desc.name /\ n \notin torn
  BY DEF Engaged, Tears, Unsaved, Desc

(* A call that fails: of what is on the card only the entries of its own   *)
(* file are touched.                                                       *)
LEMMA CallFails ==
  ASSUME NEW L, Sound(L), ~At("idle"), NEW b \in TableBlocks \cup {Dir}, NEW m,
         Writes(b, m, FALSE), m[Dir] = disk[Dir], NEW f, OneChanged(job.d, f), SameFile(f, Desc),
         job'.pc = "idle" \/ job'.d = job.d,
         card = "on" => \A n \in Names \ torn : n # Desc.name => Alike(disk, L, m, L, n)
  PROVE  Sound(L)'
  <1>1. One(job.d, f)
    BY DEF Sound, Engaged, One, Desc
  <1>2. Tears /\ card' # "on" /\ Cached(b) /\ (disk' = disk \/ (card = "on" /\ disk' = m))
    BY OffIsNotOn DEF Writes, Wrote
  <1>3. ~IsData(cacheAddr')
    BY <1>2, NoData
  <1>4. Engaged'
    BY <1>1, EngagedKept DEF Sound
  <1>5. disk'[Dir] = disk[Dir]
    BY <1>2
  <1>6. Tidy'
    BY <1>5 DEF Sound, Tidy
  <1>7. ASSUME NEW n \in Names \ torn' PROVE Alike(disk, L, disk', L, n)
    <2>1. CASE disk' = disk
      BY <2>1, AlikeSame
    <2>2. CASE card = "on" /\ disk' = m
      BY <1>2, <2>2, JobTorn DEF Sound
    <2> QED BY <1>2, <2>1, <2>2
  <1> QED BY <1>2, <1>3, <1>4, <1>5, <1>6, <1>7, FailSound

LEMMA ReadFails ==
  ASSUME NEW L, Sound(L), ~At("idle"), NEW b \in TableBlocks \cup {Dir}, NEW ok, Reads(b, ok),
         card' # "on", NEW f, OneChanged(job.d, f), SameFile(f, Desc),
         job'.pc = "idle" \/ job'.d = job.d
  PROVE  Sound(L)'
  <1>1. One(job.d, f)
    BY DEF Sound, Engaged, One, Desc
  <1>2. Tears /\ Cached(b) /\ disk' = disk
    BY DEF Reads
  <1>3. ~IsData(cacheAddr')
    BY <1>2, NoData
  <1>4. Engaged'
    BY <1>1, EngagedKept DEF Sound
  <1>5. Tidy'
    BY <1>2 DEF Sound, Tidy
  <1>6. \A n \in Names \ torn' : Alike(disk, L, disk', L, n)
    BY <1>2, AlikeSame
  <1> QED BY <1>2, <1>3, <1>4, <1>5, <1>6, FailSound

---------------------------------------------------------------------------
(* A write that touches no entry of a file, and a copy of a sector where   *)
(* the two copies of the table say the same of it.                         *)

Twin(k, L, n) == \A x \in Clusters : L.own[x] = n => First(k, x) = Second(k, x)

LEMMA CompleteTwin ==
  ASSUME Narrow, NEW k, NEW L, NEW n, NEW R, NEW E, Formed(k, L, n, R, E, 0)
  PROVE  Twin(k, L, n)
  BY ClusterNumbers DEF Formed, Twin

LEMMA SameAlike ==
  ASSUME NEW k, NEW L, NEW m, NEW n,
         \A x \in Clusters : L.own[x] = n =>
           First(m, x) = First(k, x) /\ Second(m, x) = Second(k, x)
  PROVE  Alike(k, L, m, L, n)
  BY DEF Alike, Belongs, Used

LEMMA AlikeTwice ==
  ASSUME NEW k, NEW L, NEW m, NEW M, NEW q, NEW N, NEW n,
         Alike(k, L, m, M, n), Alike(m, M, q, N, n)
  PROVE  Alike(k, L, q, N, n)
  <1>1. \A x \in Clusters : Belongs(k, L, x, n) => Belongs(q, N, x, n)
    BY DEF Alike
  <1>2. \A x \in Clusters : N.own[x] = n =>
          /\ L.own[x] = n /\ N.rank[x] = L.rank[x]
          /\ First(q, x) = First(k, x) /\ Second(q, x) = Second(k, x)
    BY DEF Alike
  <1> QED BY <1>1, <1>2 DEF Alike

LEMMA FirstAlike ==
  ASSUME Narrow, NEW k, Shaped(k), NEW c \in Clusters, NEW v, NEW L, NEW n,
         L.own[c] = n => v = First(k, c)
  PROVE  Alike(k, L, Put(k, Table(Sector(c)), c, v), L, n)
  <1> DEFINE m == Put(k, Table(Sector(c)), c, v)
  <1>1. \A x \in Nums : First(m, x) = (IF x = c THEN v ELSE First(k, x)) /\ Second(m, x) = Second(k, x)
    BY PutFirst, ClusterNumbers
  <1> HIDE DEF m
  <1>2. Alike(k, L, m, L, n)
    BY <1>1, ClusterNumbers, SameAlike
  <1> QED BY <1>2 DEF m

LEMMA SecondAlike ==
  ASSUME Narrow, NEW k, Shaped(k), NEW c \in Clusters, NEW v, NEW L, NEW n,
         L.own[c] = n => v = Second(k, c)
  PROVE  Alike(k, L, Put(k, Mirror(Sector(c)), c, v), L, n)
  <1> DEFINE m == Put(k, Mirror(Sector(c)), c, v)
  <1>1. \A x \in Nums : First(m, x) = First(k, x) /\ Second(m, x) = (IF x = c THEN v ELSE Second(k, x))
    BY PutSecond, ClusterNumbers
  <1> HIDE DEF m
  <1>2. Alike(k, L, m, L, n)
    BY <1>1, ClusterNumbers, SameAlike
  <1> QED BY <1>2 DEF m

LEMMA CopyAlike ==
  ASSUME Narrow, NEW k, Shaped(k), NEW s \in SectorNumbers, NEW m,
         m \in {Copy(k, Table(s), Mirror(s)), Copy(k, Mirror(s), Table(s))},
         NEW L, NEW n, Twin(k, L, n)
  PROVE  Alike(k, L, m, L, n)
  <1>1. ASSUME NEW x \in Clusters, L.own[x] = n
        PROVE  First(m, x) = First(k, x) /\ Second(m, x) = Second(k, x)
    <2>1. First(k, x) = Second(k, x) /\ x \in Nums
      BY <1>1, ClusterNumbers DEF Twin
    <2>2. CASE m = Copy(k, Table(s), Mirror(s))
      BY <2>1, <2>2, CopyEntries
    <2>3. CASE m = Copy(k, Mirror(s), Table(s))
      BY <2>1, <2>3, CopyEntries
    <2> QED BY <2>2, <2>3
  <1> QED BY <1>1, SameAlike

(* A file that no call is changing: its copies agree. *)
LEMMA OthersTwin ==
  ASSUME NEW L, Narrow, Sound(L), card = "on", NEW n \in Names \ torn,
         At("idle") \/ n # Desc.name
  PROVE  Twin(disk, L, n)
  <1>1. CASE ~IsOpen(n)
    <2>1. FileOK(disk, L, n, disk[Dir][n])
      BY <1>1 DEF Sound, FilesOK
    <2>2. PICK C \in Nat : Complete(disk, L, n, C)
      BY <2>1 DEF FileOK, Makes
    <2> QED BY <2>2, CompleteTwin DEF Complete
  <1>2. CASE IsOpen(n)
    <2>1. PICK d \in Fds : Usable(d) /\ fd[d].name = n
      BY <1>2 DEF IsOpen
    <2>2. Job(d).pc = "idle"
      BY <2>1 DEF Job, Desc, At, Idle
    <2>3. Good(disk, L, Job(d), fd[d], cut)
      BY <2>1 DEF Sound, InHand, InTurn, Active
    <2>4. PICK C \in Nat : Resting(disk, L, fd[d], C, cut)
      BY <2>2, <2>3, RestingGood
    <2>5. Complete(disk, L, n, C)
      BY <2>1, <2>4 DEF Resting, Standing
    <2> QED BY <2>5, CompleteTwin DEF Complete
  <1> QED BY <1>1, <1>2

(* What the call on a descriptor makes of its file. *)
LEMMA Hand ==
  ASSUME NEW L, Sound(L), Active, ~At("idle"), Desc.name \notin torn
  PROVE  \E C \in Nat : Doing(disk, L, job, Desc, C, cut)
  BY DEF Sound, InHand, InTurn, Engaged, Desc, Job, Good

LEMMA HandAtRest ==
  ASSUME NEW L, Sound(L), Active, At("idle"), NEW d \in Fds, Usable(d), fd[d].name \notin torn
  PROVE  \E C \in Nat : Resting(disk, L, fd[d], C, cut)
  <1>1. Job(d).pc = "idle"
    BY DEF Job, At, Idle
  <1>2. Good(disk, L, Job(d), fd[d], cut)
    BY DEF Sound, InHand, InTurn
  <1> QED BY <1>1, <1>2, RestingGood

LEMMA HandReady ==
  ASSUME NEW L, Sound(L), Active, NEW d \in Fds, MayUse(d), fd[d].name \notin torn,
         ReuseTruncated = FALSE
  PROVE  ~Spent(fd[d], cut) /\ \E C \in Nat : Standing(disk, L, fd[d], C)
  <1>1. At("idle") /\ Usable(d) /\ ~Spent(fd[d], cut)
    BY DEF MayUse, InUse, Spent
  <1>2. PICK C \in Nat : Resting(disk, L, fd[d], C, cut)
    BY <1>1, HandAtRest
  <1> QED BY <1>1, <1>2 DEF Resting

(* A step after which the job does this or that is good. *)
LEMMA DoneGood ==
  ASSUME NEW k, NEW L, NEW j, NEW f, NEW hidden, NEW C \in Nat, j.pc = "idle",
         Resting(k, L, f, C, hidden)
  PROVE  Good(k, L, j, f, hidden)
  BY RestingGood

LEMMA StandingGood ==
  ASSUME NEW k, NEW L, NEW j, NEW f, NEW hidden, NEW C \in Nat, Standing(k, L, f, C),
         ~Spent(f, hidden), j.pc = "idle" \/ (j.pc = "transfer" /\ j.left \in Nat \ {0})
  PROVE  Good(k, L, j, f, hidden)
  <1>1. Doing(k, L, j, f, C, hidden)
    BY DEF Doing, Resting, Sending
  <1> QED BY <1>1 DEF Good

---------------------------------------------------------------------------
(* Steps that write nothing. *)

LEMMA QuietSound ==
  ASSUME NEW L, Sound(L), NEW d, NEW f, One(d, f), torn' = torn, card' = card, disk' = disk,
         \A n : n # fd[d].name => (n \in cut' <=> n \in cut),
         Active' => Active, Accounted(d, f), job'.pc # "takeMirror",
         Active /\ f.name \notin torn => Good(disk, L, job', f, cut')
  PROVE  Sound(L)'
  <1>1. Steady(L, L, fd[d].name)
    BY AlikeSame DEF Steady
  <1>2. Loose(L)'
    BY DEF Loose, At
  <1> QED BY <1>1, <1>2, StepSound

LEMMA Acting ==
  ASSUME NEW L, Given(L), ~At("idle")
  PROVE  /\ job.d \in Fds /\ Usable(job.d) /\ Desc = fd[job.d] /\ DescOK(Desc)
         /\ DOMAIN job = DOMAIN Idle /\ IInv /\ Narrow /\ Sound(L) /\ Before(L) /\ Small
         /\ Desc.name \in Names
  BY DEF Given, Sound, Engaged, Before, IInv, Descs, Jobs, Desc

(* A step that reads the table. *)
LEMMA ReadSound ==
  ASSUME NEW L, Sound(L), ~At("idle"), NEW b \in TableBlocks \cup {Dir}, NEW ok \in BOOLEAN,
         Reads(b, ok), UNCHANGED cut, NEW f, OneChanged(job.d, f), SameFile(f, Desc),
         job'.pc = "idle" \/ job'.d = job.d, job'.pc # "takeMirror",
         ok /\ card = "on" => /\ Accounted(job.d, f)
                              /\ Desc.name \notin torn => Good(disk, L, job', f, cut)
  PROVE  Sound(L)'
  <1>1. CASE card' # "on"
    BY <1>1, ReadFails
  <1>2. CASE card' = "on"
    <2>1. ok /\ card = "on" /\ card' = card /\ disk' = disk /\ torn' = torn /\ Cached(b)
      BY <1>2, OffIsNotOn DEF Reads, Tears
    <2>2. Active
      BY <2>1 DEF Active
    <2>3. One(job.d, f) /\ f.name = Desc.name
      BY DEF Sound, Engaged, One, Desc, SameFile
    <2> QED BY <2>1, <2>2, <2>3, QuietSound
  <1> QED BY <1>1, <1>2

LEMMA SpentSame ==
  ASSUME NEW f, NEW g, g.cluster = f.cluster, g.name = f.name, NEW hidden
  PROVE  ~Spent(f, hidden) => ~Spent(g, hidden)
  BY DEF Spent

(* The cluster that follows, or the end of the file. *)
LEMMA CompleteWalk ==
  ASSUME NEW L, Before(L), NEW n, NEW C \in Nat, Complete(disk, L, n, C),
         NEW x, Belongs(disk, L, x, n), NEW y, y = First(disk, x)
  PROVE  /\ x \in Clusters /\ x # 0 /\ L.rank[x] \in Nat /\ L.rank[x] < C /\ y # 0
         /\ IsLast(y) => L.rank[x] + 1 = C
         /\ L.rank[x] + 1 = C => IsLast(y)
         /\ ~IsLast(y) => /\ y \in Clusters /\ Belongs(disk, L, y, n)
                          /\ L.rank[y] = L.rank[x] + 1 /\ L.rank[y] < C
  <1>1. x \in Clusters /\ L.rank[x] \in Nat /\ x # 0
    BY RanksNat, ClusterNumbers DEF Belongs, Before
  <1>2. L.rank[x] < C /\ (IsLast(y) => L.rank[x] + 1 = C) /\ (L.rank[x] + 1 = C => IsLast(y))
    BY <1>1 DEF Complete, Formed
  <1>3. y # 0 /\ (~IsLast(y) => y \in Clusters /\ Belongs(disk, L, y, n) /\ L.rank[y] = L.rank[x] + 1)
    BY WalkOn
  <1>4. ~IsLast(y) => L.rank[y] < C
    BY <1>3 DEF Complete, Formed
  <1> QED BY <1>1, <1>2, <1>3, <1>4

LEMMA LiesIn ==
  ASSUME NEW L, Before(L), NEW f, NEW C \in Nat, Complete(disk, L, f.name, C), Lies(disk, L, f, C)
  PROVE  /\ C = 0 => f.cluster = 0 /\ f.cur = 0 /\ IsLast(f.next)
         /\ C # 0 => /\ Located(disk, L, f) /\ f.cluster # 0 /\ f.cur # 0
                     /\ L.rank[f.cur] \in Nat /\ L.rank[f.cur] < C
                     /\ IsLast(f.next) => L.rank[f.cur] + 1 = C
         /\ ~IsLast(f.next) =>
              /\ C # 0 /\ Belongs(disk, L, f.next, f.name) /\ f.next = First(disk, f.cur)
              /\ L.rank[f.next] = L.rank[f.cur] + 1 /\ L.rank[f.next] < C
  <1>1. CASE C = 0
    BY <1>1 DEF Lies
  <1>2. CASE C # 0
    <2>1. Located(disk, L, f) /\ Belongs(disk, L, f.cur, f.name) /\ Belongs(disk, L, f.cluster, f.name)
      BY <1>2 DEF Lies, Located, Begins
    <2>2. L.rank[f.cur] \in Nat /\ L.rank[f.cur] < C /\ f.cur # 0 /\ f.cluster # 0
      BY <2>1, CompleteWalk
    <2>3. IsLast(f.next) => L.rank[f.cur] + 1 = C
      BY <1>2 DEF Lies
    <2>4. CASE ~IsLast(f.next)
      <3>1. f.next = First(disk, f.cur)
        BY <1>2, <2>4 DEF Lies
      <3> QED BY <1>2, <2>1, <2>2, <2>3, <2>4, <3>1, CompleteWalk
    <2> QED BY <1>2, <2>1, <2>2, <2>3, <2>4
  <1> QED BY <1>1, <1>2

LEMMA SteppedLies ==
  ASSUME NEW L, Before(L), NEW f, NEW C \in Nat, Complete(disk, L, f.name, C), Lies(disk, L, f, C),
         ~IsLast(f.next), NEW g, g.name = f.name, g.cluster = f.cluster, g.cur = f.next,
         g.next = First(disk, f.next)
  PROVE  /\ Complete(disk, L, g.name, C) /\ Lies(disk, L, g, C) /\ g.next # 0 /\ C # 0
         /\ L.rank[f.cur] \in Nat /\ L.rank[g.cur] = L.rank[f.cur] + 1
  <1>1. /\ C # 0 /\ Located(disk, L, f) /\ L.rank[f.cur] \in Nat
        /\ Belongs(disk, L, f.next, f.name) /\ L.rank[f.next] = L.rank[f.cur] + 1
    BY LiesIn
  <1>2. g.next # 0 /\ (IsLast(g.next) => L.rank[f.next] + 1 = C)
    BY <1>1, CompleteWalk
  <1>3. Located(disk, L, g)
    BY <1>1 DEF Located, Begins
  <1> QED BY <1>1, <1>2, <1>3 DEF Lies

LEMMA ContinueJob ==
  ASSUME DOMAIN job = DOMAIN Idle, NEW left \in Nat, Continue(left)
  PROVE  job'.pc = "idle" \/ (/\ job'.pc = "transfer" /\ job'.left \in Nat \ {0} /\ job'.left = left
                              /\ job'.d = job.d /\ (job.write => job'.write))
  <1>1. CASE left = 0
    BY <1>1 DEF Continue, Return, Idle
  <1>2. CASE left # 0
    <2>1. job'.pc = "transfer" /\ job'.left = left /\ job'.d = job.d
      BY <1>2 DEF Continue, Idle
    <2>2. job.write => job'.write
      BY <1>2 DEF Continue, Idle
    <2> QED BY <1>2, <2>1, <2>2
  <1> QED BY <1>1, <1>2

LEMMA ContinuePc ==
  ASSUME DOMAIN job = DOMAIN Idle, NEW left, Continue(left)
  PROVE  job'.pc \in {"idle", "transfer"} /\ (job'.pc = "idle" \/ job'.d = job.d)
  <1>1. CASE left = 0
    BY <1>1 DEF Continue, Return, Idle
  <1>2. CASE left # 0
    BY <1>2 DEF Continue, Idle
  <1> QED BY <1>1, <1>2

LEMMA CrossClusterSound ==
  ASSUME NEW L, Given(L), CrossCluster
  PROVE  Sound(L)'
  <1> DEFINE b == Table(Sector(Desc.next))
  <1>1. job.pc = "cross" /\ ~At("idle") /\ UNCHANGED cut
    BY DEF CrossCluster, At
  <1>2. PICK ok \in BOOLEAN :
          LET next == IF ok THEN Entry(Desc.next) ELSE 0
              f == [Desc EXCEPT !.addr = FirstBlock(Desc.next), !.cur = Desc.next, !.next = next]
          IN  /\ Fetch(b, Miss(b), ok)
              /\ IF next = 0 THEN Set(f) /\ Return
                             ELSE Set([f EXCEPT !.block = 0]) /\ Continue(job.left)
    BY ZenonT(60) DEF CrossCluster
  <1>3. /\ job.d \in Fds /\ Desc = fd[job.d] /\ DescOK(Desc) /\ DOMAIN job = DOMAIN Idle
        /\ IInv /\ Narrow /\ Sound(L) /\ Before(L)
    BY <1>1, Acting
  <1> DEFINE next == IF ok THEN Entry(Desc.next) ELSE 0
             h == [Desc EXCEPT !.addr = FirstBlock(Desc.next), !.cur = Desc.next, !.next = next]
             g == [h EXCEPT !.block = 0]
             f == IF next = 0 THEN h ELSE g
  <1>4. b \in TableBlocks /\ Reads(b, ok) /\ ~IsLast(Desc.next) /\ Desc.next \in Nums
    <2>1. ~IsLast(Desc.next)
      BY <1>1, <1>3 DEF IInv, Jobs
    <2>2. Desc.next \in Nums
      BY <1>3, <2>1, NextNum DEF DescOK
    <2> QED BY <1>2, <2>1, <2>2, FetchTears, TableBlockOf DEF Miss
  <1>11. (next = 0 => Set(h) /\ Return) /\ (next # 0 => Set(g) /\ Continue(job.left))
    BY <1>2
  <1>5. /\ g.name = Desc.name /\ g.cluster = Desc.cluster /\ g.cur = Desc.next /\ g.next = next
        /\ g.size = Desc.size /\ g.pos = Desc.pos /\ g.last = Desc.last /\ g.index = Desc.index
        /\ g.block = 0 /\ g.addr = FirstBlock(Desc.next) /\ g.modified = Desc.modified
        /\ SameFile(g, Desc) /\ SameFile(h, Desc)
    BY <1>3 DEF DescOK, Free, SameFile
  <1>6. OneChanged(job.d, f) /\ SameFile(f, Desc)
    BY <1>3, <1>5, <1>11, SetOne DEF Set
  <1> HIDE DEF b, g, h, next
  <1>8. ASSUME ok, card = "on"
        PROVE  /\ next # 0 /\ job.left \in Nat
               /\ Desc.name \notin torn => Good(disk, L, job', g, cut)
    <2>1. next = First(disk, Desc.next)
      BY <1>3, <1>4, <1>8, EntryRead DEF next
    <2>2. Settled(disk, L, Desc, cut) /\ job.left \in Nat
      BY <1>1, <1>3, <1>8, Underway DEF Freeing, Task
    <2>3. next # 0
      BY <1>3, <1>4, <2>1, <2>2, WalkOn DEF Settled, Ahead
    <2>4. ASSUME Desc.name \notin torn PROVE Good(disk, L, job', g, cut)
      <3>1. PICK C \in Nat : Doing(disk, L, job, Desc, C, cut)
        BY <1>1, <1>3, <1>8, <2>4, Hand DEF Active
      <3>2. /\ ~Spent(Desc, cut) /\ Complete(disk, L, Desc.name, C) /\ Ready(disk, L, Desc, C)
            /\ Desc.block = BlocksPerCluster
        BY <1>1, <3>1 DEF Doing
      <3>3. /\ Complete(disk, L, g.name, C) /\ Lies(disk, L, g, C) /\ C # 0
            /\ L.rank[Desc.cur] \in Nat /\ L.rank[g.cur] = L.rank[Desc.cur] + 1
        BY <1>3, <1>4, <1>5, <2>1, <3>2, SteppedLies DEF Ready
      <3>4. Points(L, g, C)
        <4>1. Offset(Desc) = ClusterSize /\ Desc.index = 0 /\ Within(Desc)
              /\ Desc.pos = L.rank[Desc.cur] * ClusterSize + Offset(Desc) /\ Desc.pos <= Desc.size
          BY <3>2, <3>3, OffsetRange DEF Ready, Points, Base, Within
        <4>2. (L.rank[Desc.cur] + 1) * ClusterSize = L.rank[Desc.cur] * ClusterSize + ClusterSize
              /\ L.rank[Desc.cur] * ClusterSize \in Nat
          BY <3>3, Geometry
        <4>3. Offset(g) = 0
          BY <1>5, <4>1, Geometry DEF Offset
        <4>4. g.addr = FirstBlock(g.cur) + g.block
          <5>1. Desc.next \in Int /\ FirstBlock(Desc.next) \in Int
            BY <1>4, Sizes, Geometry DEF Nums, FirstBlock
          <5> QED BY <1>5, <5>1
        <4>5. Within(g)
          BY <1>5, <4>1, <4>4, Geometry DEF Within
        <4>6. g.pos = L.rank[g.cur] * ClusterSize + Offset(g) /\ g.pos <= g.size
          BY <1>5, <3>3, <4>1, <4>2, <4>3, Geometry
        <4> QED BY <3>3, <4>5, <4>6 DEF Points, Base
      <3>5. Standing(disk, L, g, C)
        <4>1. Fills(g.size, g.last, C) /\ AtLast(g)
          BY <1>5, <3>2, Geometry DEF Ready, AtLast
        <4> QED BY <3>3, <3>4, <4>1 DEF Standing, Ready
      <3>6. ~Spent(g, cut)
        BY <1>5, <3>2, SpentSame
      <3>7. job'.pc = "idle" \/ (job'.pc = "transfer" /\ job'.left \in Nat \ {0})
        <4>1. Continue(job.left)
          BY <1>11, <2>3
        <4> QED BY <1>3, <2>2, <4>1, ContinueJob
      <3> QED BY <3>5, <3>6, <3>7, StandingGood
    <2> QED BY <2>2, <2>3, <2>4
  <1>9. job'.pc \in {"idle", "transfer"} /\ (job'.pc = "idle" \/ job'.d = job.d)
    <2>1. CASE next = 0
      BY <1>11, <2>1 DEF Return, Idle
    <2>2. CASE next # 0
      BY <1>3, <1>11, <2>2, ContinuePc
    <2> QED BY <2>1, <2>2
  <1>10. ok /\ card = "on" => Accounted(job.d, f) /\ (Desc.name \notin torn => Good(disk, L, job', f, cut))
    BY <1>3, <1>5, <1>8 DEF Accounted
  <1> HIDE DEF f
  <1> QED BY <1>1, <1>3, <1>4, <1>6, <1>9, <1>10, ReadSound

LEMMA SeekOnSound ==
  ASSUME NEW L, Given(L), SeekOn
  PROVE  Sound(L)'
  <1> DEFINE b == Table(Sector(Desc.next))
  <1>1. job.pc = "seek" /\ ~At("idle") /\ UNCHANGED cut /\ ~IsLast(Desc.next)
    BY DEF SeekOn, At
  <1>2. PICK ok \in BOOLEAN :
          LET next == IF ok THEN Entry(Desc.next) ELSE 0
          IN  /\ Fetch(b, Miss(b), ok)
              /\ Set([Desc EXCEPT !.cur = Desc.next, !.next = next])
              /\ IF next = 0 THEN Return ELSE UNCHANGED job
    BY DEF SeekOn
  <1>3. /\ job.d \in Fds /\ Desc = fd[job.d] /\ DescOK(Desc) /\ DOMAIN job = DOMAIN Idle
        /\ IInv /\ Narrow /\ Sound(L) /\ Before(L)
    BY <1>1, Acting
  <1> DEFINE next == IF ok THEN Entry(Desc.next) ELSE 0
             g == [Desc EXCEPT !.cur = Desc.next, !.next = next]
  <1>4. Set(g) /\ IF next = 0 THEN Return ELSE UNCHANGED job
    BY <1>2
  <1>5. b \in TableBlocks /\ Reads(b, ok) /\ Desc.next \in Nums
    <2>1. Desc.next \in Nums
      BY <1>1, <1>3, NextNum DEF DescOK
    <2> QED BY <1>2, <2>1, FetchTears, TableBlockOf DEF Miss
  <1>6. /\ g.name = Desc.name /\ g.cluster = Desc.cluster /\ g.cur = Desc.next /\ g.next = next
        /\ g.size = Desc.size /\ g.last = Desc.last /\ g.modified = Desc.modified
        /\ SameFile(g, Desc)
    BY <1>3 DEF DescOK, Free, SameFile
  <1> HIDE DEF b, g, next
  <1>7. OneChanged(job.d, g)
    BY <1>3, <1>4, SetOne DEF Set
  <1>8. job'.pc \in {"idle", "seek"} /\ (job'.pc = "idle" \/ job'.d = job.d)
    BY <1>1, <1>4 DEF Return, Idle
  <1>9. ASSUME ok, card = "on", Desc.name \notin torn PROVE Good(disk, L, job', g, cut)
    <2>1. next = First(disk, Desc.next)
      BY <1>3, <1>5, <1>9, EntryRead DEF next
    <2>2. PICK C \in Nat : Doing(disk, L, job, Desc, C, cut)
      BY <1>1, <1>3, <1>9, Hand DEF Active
    <2>3. /\ ~Spent(Desc, cut) /\ Complete(disk, L, Desc.name, C)
          /\ Lies(disk, L, Desc, C) /\ Fills(Desc.size, Desc.last, C)
      BY <1>1, <2>2 DEF Doing
    <2>4. Complete(disk, L, g.name, C) /\ Lies(disk, L, g, C) /\ next # 0
      BY <1>1, <1>3, <1>6, <2>1, <2>3, SteppedLies
    <2>5. ~Spent(g, cut) /\ Fills(g.size, g.last, C)
      BY <1>6, <2>3, SpentSame
    <2>6. job'.pc = "seek"
      BY <1>1, <1>4, <2>4
    <2>7. Doing(disk, L, job', g, C, cut)
      BY <2>4, <2>5, <2>6 DEF Doing
    <2> QED BY <2>7 DEF Good
  <1>10. Accounted(job.d, g)
    BY <1>3, <1>6 DEF Accounted
  <1> QED BY <1>1, <1>3, <1>5, <1>6, <1>7, <1>8, <1>9, <1>10, ReadSound

(* fat_seek_end arrives at the end of the last cluster. *)
LEMMA AtEndStanding ==
  ASSUME NEW L, Before(L), NEW f, DescOK(f), NEW C \in Nat, Complete(disk, L, f.name, C),
         Lies(disk, L, f, C), Fills(f.size, f.last, C), IsLast(f.next)
  PROVE  Standing(disk, L, AtEnd(f), C)
  <1> DEFINE g == AtEnd(f)
             q == f.last \div BlockSize
             r == f.last % BlockSize
  <1>1. /\ g.name = f.name /\ g.cluster = f.cluster /\ g.cur = f.cur /\ g.next = f.next
        /\ g.size = f.size /\ g.pos = f.size /\ g.last = f.last /\ g.block = q
        /\ g.index = r /\ g.addr = FirstBlock(f.cur) + q
    BY DEF AtEnd, DescOK, Free
  <1> HIDE DEF g
  <1>2. f.last \in 0 .. ClusterSize
    BY Geometry DEF Fills
  <1>3. q \in Nat /\ r \in Nat /\ r < BlockSize /\ f.last = q * BlockSize + r
    BY <1>2, Geometry
  <1>4. q <= BlocksPerCluster /\ (q = BlocksPerCluster => r = 0)
    <2> HIDE DEF q, r
    <2>1. BlocksPerCluster * BlockSize \in Nat /\ q * BlockSize \in Nat
      BY <1>3, Geometry
    <2>2. ASSUME q > BlocksPerCluster PROVE FALSE
      <3>1. BlocksPerCluster * BlockSize + BlockSize <= q * BlockSize
        BY <1>3, <2>2, Geometry, Multiples
      <3> QED BY <1>2, <1>3, <2>1, <3>1, Geometry
    <2>3. ASSUME q = BlocksPerCluster PROVE r = 0
      BY <1>2, <1>3, <2>1, <2>3, Geometry
    <2> QED BY <1>3, <2>2, <2>3, Geometry
  <1> HIDE DEF q, r
  <1>5. Within(g)
    BY <1>1, <1>3, <1>4, Geometry DEF Within
  <1>6. Offset(g) = f.last
    BY <1>1, <1>3 DEF Offset
  <1>7. Points(L, g, C)
    <2>1. CASE C = 0
      <3>1. g.pos = 0 /\ g.size = 0 /\ Offset(g) = 0
        BY <1>1, <1>6, <2>1 DEF Fills
      <3> QED BY <1>5, <2>1, <3>1 DEF Points, Base
    <2>2. CASE C # 0
      <3>1. L.rank[f.cur] \in Nat /\ L.rank[f.cur] + 1 = C
        BY <2>2, LiesIn
      <3>2. C - 1 = L.rank[f.cur] /\ (C - 1) * ClusterSize \in Nat
        BY <3>1, Geometry
      <3>3. g.size = (C - 1) * ClusterSize + f.last
        BY <1>1, <2>2 DEF Fills
      <3>4. g.pos = Base(L, g, C) + Offset(g) /\ g.pos <= g.size
        BY <1>1, <1>2, <1>6, <2>2, <3>2, <3>3, Geometry DEF Base
      <3> QED BY <1>5, <3>4 DEF Points
    <2> QED BY <2>1, <2>2
  <1>8. Lies(disk, L, g, C)
    BY <1>1 DEF Lies, Located
  <1>9. Standing(disk, L, g, C)
    BY <1>1, <1>7, <1>8 DEF Standing, Ready, AtLast
  <1> QED BY <1>9 DEF g

LEMMA EndSeekSound ==
  ASSUME NEW L, Given(L), EndSeek
  PROVE  Sound(L)'
  <1> DEFINE g == AtEnd(Desc)
  <1>1. /\ job.pc = "seek" /\ ~At("idle") /\ IsLast(Desc.next) /\ Set(g) /\ job'.pc = "idle"
        /\ UNCHANGED <<disk, card, cacheAddr, cut, torn>>
    BY DEF EndSeek, At, Return, Idle
  <1>2. /\ job.d \in Fds /\ Usable(job.d) /\ Desc = fd[job.d] /\ DescOK(Desc)
        /\ IInv /\ Sound(L) /\ Before(L)
    BY <1>1, Acting
  <1>3. /\ g.name = Desc.name /\ g.cluster = Desc.cluster /\ g.size = Desc.size
        /\ g.modified = Desc.modified /\ SameFile(g, Desc)
    BY <1>2 DEF AtEnd, DescOK, Free, SameFile
  <1>4. OneChanged(job.d, g)
    BY <1>1, <1>2, SetOne DEF Set
  <1>5. ASSUME Active, Desc.name \notin torn PROVE Good(disk, L, job', g, cut)
    <2>1. PICK C \in Nat : Doing(disk, L, job, Desc, C, cut)
      BY <1>1, <1>2, <1>5, Hand
    <2>2. Standing(disk, L, g, C) /\ ~Spent(Desc, cut)
      BY <1>1, <1>2, <2>1, AtEndStanding DEF Doing
    <2> HIDE DEF g
    <2> QED BY <1>1, <1>3, <2>2, SpentSame, StandingGood
  <1> HIDE DEF g
  <1>6. One(job.d, g) /\ Accounted(job.d, g)
    BY <1>1, <1>2, <1>3, <1>4 DEF One, Accounted
  <1>7. Active' => Active
    BY <1>1 DEF Active
  <1> QED BY <1>1, <1>2, <1>3, <1>5, <1>6, <1>7, QuietSound

LEMMA StayOne ==
  ASSUME NEW L, Given(L), ~At("idle"), UNCHANGED fd, job'.pc = "idle" \/ job'.d = job.d
  PROVE  /\ One(job.d, Desc) /\ Accounted(job.d, Desc) /\ OneChanged(job.d, Desc)
         /\ SameFile(Desc, Desc)
  BY Acting, Unchanged DEF One, Accounted

LEMMA StartOne ==
  ASSUME NEW L, Given(L), NEW d \in Fds, MayUse(d), NEW f, OneChanged(d, f), SameFile(f, fd[d]),
         job'.pc = "idle" \/ job'.d = d
  PROVE  One(d, f)
  BY DEF One, MayUse, InUse

LEMMA StartTransferSound ==
  ASSUME NEW L, Given(L), NEW d \in Fds, NEW n \in Lens, NEW write \in BOOLEAN,
         StartTransfer(d, n, write)
  PROVE  Sound(L)'
  <1>1. MayUse(d) /\ UNCHANGED <<disk, card, cacheAddr, fd, cut, torn>>
    BY DEF StartTransfer
  <1>2. job'.pc = "transfer" /\ job'.d = d /\ job'.left \in Nat \ {0}
    BY ProgramsAssumption DEF StartTransfer, Idle
  <1>3. One(d, fd[d]) /\ Accounted(d, fd[d])
    BY <1>1, <1>2, Unchanged, StartOne DEF Accounted
  <1>4. ASSUME Active, fd[d].name \notin torn PROVE Good(disk, L, job', fd[d], cut)
    <2>1. PICK C \in Nat : Standing(disk, L, fd[d], C)
      BY <1>1, <1>4, HandReady DEF Given, Before
    <2>2. ~Spent(fd[d], cut)
      BY <1>1, <1>4, HandReady DEF Given, Before
    <2> QED BY <1>2, <2>1, <2>2, StandingGood
  <1>5. Active' => Active
    BY <1>1 DEF Active
  <1> QED BY <1>1, <1>2, <1>3, <1>4, <1>5, QuietSound DEF Given

LEMMA StartSeekSound ==
  ASSUME NEW L, Given(L), NEW d \in Fds, StartSeek(d)
  PROVE  Sound(L)'
  <1>1. MayUse(d) /\ UNCHANGED <<disk, card, cacheAddr, fd, cut, torn>>
    BY DEF StartSeek
  <1>2. job'.pc = "seek" /\ job'.d = d
    BY DEF StartSeek, Idle
  <1>3. One(d, fd[d]) /\ Accounted(d, fd[d])
    BY <1>1, <1>2, Unchanged, StartOne DEF Accounted
  <1>4. ASSUME Active, fd[d].name \notin torn PROVE Good(disk, L, job', fd[d], cut)
    <2>1. PICK C \in Nat : Standing(disk, L, fd[d], C)
      BY <1>1, <1>4, HandReady DEF Given, Before
    <2>2. ~Spent(fd[d], cut)
      BY <1>1, <1>4, HandReady DEF Given, Before
    <2>3. Doing(disk, L, job', fd[d], C, cut)
      BY <1>2, <2>1, <2>2 DEF Doing, Standing, Ready
    <2> QED BY <2>3 DEF Good
  <1>5. Active' => Active
    BY <1>1 DEF Active
  <1> QED BY <1>1, <1>2, <1>3, <1>4, <1>5, QuietSound DEF Given

(* A cluster that has been attached is empty: there is room for a chunk.   *)
LEMMA AttachingRoom ==
  ASSUME NEW L, Before(L), NEW f, NEW C \in Nat, job.left \in Nat \ {0},
         Attaching(disk, L, job, f, C)
  PROVE  /\ AtClusterStart(f) /\ ~NeedsCluster(f) /\ Remainder(f) = 0 /\ InLastBlock(f)
         /\ Room(f) = 0 /\ Grows(f) /\ ChunkLen(f) > 0
         /\ L.rank[f.cur] = C - 1 /\ L.rank[f.cur] \in Nat
  <1>1. /\ job.write /\ C > 0 /\ Complete(disk, L, f.name, C) /\ Lies(disk, L, f, C)
        /\ IsLast(f.next) /\ f.last = 0 /\ f.size = (C - 1) * ClusterSize /\ Points(L, f, C)
    BY DEF Attaching
  <1>2. L.rank[f.cur] \in Nat /\ L.rank[f.cur] + 1 = C /\ f.cur # 0 /\ Within(f)
    BY <1>1, LiesIn DEF Points
  <1>3. L.rank[f.cur] = C - 1 /\ (C - 1) * ClusterSize \in Nat
    BY <1>2, Geometry
  <1>4. Offset(f) = 0
    BY <1>1, <1>2, <1>3, OffsetRange, Geometry DEF Points, Base
  <1>5. f.block = 0 /\ f.index = 0 /\ AtClusterStart(f)
    BY <1>2, <1>4, OffsetRange DEF AtClusterStart
  <1>6. ~NeedsCluster(f)
    BY <1>2, <1>5, Geometry DEF NeedsCluster
  <1>7. Remainder(f) = 0
    BY <1>1, <1>5, Geometry DEF Remainder, U16
  <1>8. InLastBlock(f) /\ Room(f) = 0
    BY <1>1, <1>5, <1>7, Geometry DEF InLastBlock, Room, U16
  <1>9. Grows(f)
    BY <1>1, <1>8 DEF Grows
  <1>10. ChunkLen(f) > 0
    BY <1>5, <1>9, Geometry DEF ChunkLen, Least
  <1> QED BY <1>2, <1>3, <1>5, <1>6, <1>7, <1>8, <1>9, <1>10

LEMMA EndOfFileSound ==
  ASSUME NEW L, Given(L), EndOfFile
  PROVE  Sound(L)'
  <1>1. /\ job.pc = "transfer" /\ ~At("idle") /\ ChunkLen(Desc) = 0 /\ job'.pc = "idle"
        /\ UNCHANGED <<disk, card, cacheAddr, fd, cut, torn>>
    BY DEF EndOfFile, At, Return, Idle
  <1>2. One(job.d, Desc) /\ Accounted(job.d, Desc) /\ Sound(L) /\ Before(L) /\ Desc = fd[job.d]
    BY <1>1, StayOne, Acting
  <1>3. ASSUME Active, Desc.name \notin torn PROVE Good(disk, L, job', Desc, cut)
    <2>1. PICK C \in Nat : Doing(disk, L, job, Desc, C, cut)
      BY <1>1, <1>2, <1>3, Hand
    <2>2. ~Spent(Desc, cut) /\ job.left \in Nat \ {0} /\ Sending(disk, L, job, Desc, C)
      BY <1>1, <2>1 DEF Doing
    <2>3. Standing(disk, L, Desc, C)
      BY <1>1, <1>2, <2>2, AttachingRoom DEF Sending
    <2> QED BY <1>1, <2>2, <2>3, StandingGood
  <1>4. Active' => Active
    BY <1>1 DEF Active
  <1> QED BY <1>1, <1>2, <1>3, <1>4, QuietSound

LEMMA DiskFullSound ==
  ASSUME NEW L, Given(L), DiskFull
  PROVE  Sound(L)'
  <1> DEFINE b == Table(Sectors - 1)
  <1>1. /\ job.pc = "transfer" /\ ~At("idle") /\ UNCHANGED <<fd, cut>> /\ job'.pc = "idle"
        /\ NeedsCluster(Desc)
    BY DEF DiskFull, At, Return, Idle
  <1>2. PICK ok \in BOOLEAN : Fetch(b, Miss(Table(0)) \/ Sectors > 1, ok)
    BY DEF DiskFull
  <1>3. b \in TableBlocks /\ Reads(b, ok)
    <2>1. Sectors - 1 \in SectorNumbers
      BY Sizes DEF SectorNumbers
    <2>2. ~(Miss(Table(0)) \/ Sectors > 1) => cacheAddr = b
      <3>1. CASE Sectors > 1
        BY <3>1
      <3>2. CASE Sectors = 1
        BY <3>2 DEF Miss
      <3> QED BY <3>1, <3>2, Sizes
    <2> HIDE DEF b
    <2>3. Reads(b, ok)
      BY <1>2, <2>2, FetchTears
    <2> QED BY <2>1, <2>3, Blocks DEF b
  <1> HIDE DEF b
  <1>4. /\ Accounted(job.d, Desc) /\ OneChanged(job.d, Desc) /\ SameFile(Desc, Desc)
        /\ Sound(L) /\ Before(L)
    BY <1>1, StayOne, Acting
  <1>5. ASSUME card = "on", Desc.name \notin torn PROVE Good(disk, L, job', Desc, cut)
    <2>1. PICK C \in Nat : Doing(disk, L, job, Desc, C, cut)
      BY <1>1, <1>4, <1>5, Hand DEF Active
    <2>2. ~Spent(Desc, cut) /\ job.left \in Nat \ {0} /\ Sending(disk, L, job, Desc, C)
      BY <1>1, <2>1 DEF Doing
    <2>3. Standing(disk, L, Desc, C)
      BY <1>1, <1>4, <2>2, AttachingRoom DEF Sending
    <2> QED BY <1>1, <2>2, <2>3, StandingGood
  <1> QED BY <1>1, <1>3, <1>4, <1>5, ReadSound

LEMMA FoundGood ==
  ASSUME NEW L, Before(L), NEW j, NEW f, NEW C \in Nat, Searching(disk, L, j, f, C),
         f.cur = First(disk, j.from),
         NEW g, g.name = f.name, g.cluster = f.cluster, g.cur = j.from, g.size = f.size,
         g.pos = f.pos, g.index = f.index, g.block = BlocksPerCluster,
         NEW i, i.pc = "cut", i.from = f.cur, ~i.whole, NEW hidden
  PROVE  Good(disk, L, i, g, hidden)
  <1>1. /\ Complete(disk, L, f.name, C) /\ Located(disk, L, f) /\ Ending(L, f) /\ AtClusterStart(f)
        /\ Belongs(disk, L, j.from, f.name) /\ Belongs(disk, L, f.cur, f.name)
    BY DEF Searching, Located
  <1>2. ~IsLast(f.cur)
    <2>1. /\ L.rank[j.from] \in Nat /\ (IsLast(f.cur) => L.rank[j.from] + 1 = C)
          /\ L.rank[f.cur] \in Nat /\ L.rank[f.cur] < C
      BY <1>1, CompleteWalk
    <2>2. L.rank[j.from] < L.rank[f.cur]
      BY DEF Searching
    <2> QED BY <2>1, <2>2
  <1>3. L.rank[j.from] \in Nat /\ L.rank[f.cur] = L.rank[j.from] + 1
    BY <1>1, <1>2, CompleteWalk
  <1>4. f.index = 0 /\ f.block = 0
    BY <1>1 DEF AtClusterStart
  <1>5. Within(g) /\ Offset(g) = ClusterSize
    BY <1>4, Geometry DEF Within, Offset
  <1>6. Offset(f) = 0
    BY <1>4, Geometry DEF Offset
  <1>7. g.pos = L.rank[g.cur] * ClusterSize + Offset(g)
    <2>1. (L.rank[j.from] + 1) * ClusterSize = L.rank[j.from] * ClusterSize + ClusterSize
          /\ L.rank[j.from] * ClusterSize \in Nat
      BY <1>3, NextMultiple
    <2> QED BY <1>1, <1>3, <1>5, <1>6, <2>1, Geometry DEF Ending
  <1>8. Ending(L, g) /\ ~AtClusterStart(g)
    BY <1>1, <1>5, <1>7, Geometry DEF Ending, AtClusterStart
  <1>9. Located(disk, L, g)
    BY <1>1 DEF Located
  <1>10. Halving(disk, L, i, g, C)
    BY <1>1, <1>2, <1>8, <1>9 DEF Halving, Shortened
  <1>11. Doing(disk, L, i, g, C, hidden)
    BY <1>10 DEF Doing
  <1> QED BY <1>11 DEF Good

LEMMA SearchGood ==
  ASSUME NEW L, Before(L), NEW j, NEW f, NEW C \in Nat, Searching(disk, L, j, f, C),
         NEW y, y = First(disk, j.from), y # f.cur
  PROVE  /\ ~IsLast(y)
         /\ \A i, hidden : i.pc = "parent" /\ i.from = y => Good(disk, L, i, f, hidden)
  <1>1. /\ Complete(disk, L, f.name, C) /\ Located(disk, L, f)
        /\ Belongs(disk, L, j.from, f.name) /\ Belongs(disk, L, f.cur, f.name)
        /\ L.rank[j.from] < L.rank[f.cur]
    BY DEF Searching, Located
  <1>2. /\ L.rank[f.cur] \in Nat /\ L.rank[f.cur] < C /\ f.cur \in Clusters
        /\ L.rank[j.from] \in Nat /\ (IsLast(y) => L.rank[j.from] + 1 = C)
        /\ ~IsLast(y) => /\ y \in Clusters /\ Belongs(disk, L, y, f.name)
                         /\ L.rank[y] = L.rank[j.from] + 1
    BY <1>1, CompleteWalk
  <1>3. ~IsLast(y)
    BY <1>1, <1>2
  <1>4. L.rank[y] # L.rank[f.cur]
    BY <1>1, <1>2, <1>3 DEF Complete, Formed
  <1>5. L.rank[y] < L.rank[f.cur]
    BY <1>1, <1>2, <1>3, <1>4
  <1>6. ASSUME NEW i, NEW hidden, i.pc = "parent", i.from = y PROVE Good(disk, L, i, f, hidden)
    <2>1. Searching(disk, L, i, f, C)
      BY <1>2, <1>3, <1>5, <1>6 DEF Searching
    <2>2. Doing(disk, L, i, f, C, hidden)
      BY <1>6, <2>1 DEF Doing
    <2> QED BY <2>2 DEF Good
  <1> QED BY <1>3, <1>6

LEMMA FindParentSound ==
  ASSUME NEW L, Given(L), FindParent
  PROVE  Sound(L)'
  <1> DEFINE b == Table(Sector(job.from))
             found == [Desc EXCEPT !.next = Desc.cur, !.cur = job.from, !.block = BlocksPerCluster]
  <1>1. job.pc = "parent" /\ ~At("idle") /\ UNCHANGED cut
    BY DEF FindParent, At
  <1>2. PICK ok \in BOOLEAN :
          LET next == IF ok THEN Entry(job.from) ELSE 0
          IN  /\ Fetch(b, Miss(b), ok)
              /\ \/ /\ next = Desc.cur /\ Set(found)
                    /\ job' = [job EXCEPT !.pc = "cut", !.from = Desc.cur]
                 \/ /\ next # Desc.cur /\ UNCHANGED fd
                    /\ IF next = 0 \/ IsLast(next)
                         THEN Return ELSE job' = [job EXCEPT !.from = next]
    BY DEF FindParent
  <1>3. /\ job.d \in Fds /\ Desc = fd[job.d] /\ DescOK(Desc) /\ DOMAIN job = DOMAIN Idle
        /\ IInv /\ Narrow /\ Sound(L) /\ Before(L) /\ job.from \in Nums
    BY <1>1, Acting DEF IInv, Jobs
  <1> DEFINE next == IF ok THEN Entry(job.from) ELSE 0
  <1>4. \/ /\ next = Desc.cur /\ Set(found)
           /\ job' = [job EXCEPT !.pc = "cut", !.from = Desc.cur]
        \/ /\ next # Desc.cur /\ UNCHANGED fd
           /\ IF next = 0 \/ IsLast(next)
                THEN Return ELSE job' = [job EXCEPT !.from = next]
    BY <1>2
  <1>5. b \in TableBlocks /\ Reads(b, ok)
    BY <1>2, <1>3, FetchTears, TableBlockOf DEF Miss
  <1>6. /\ found.name = Desc.name /\ found.cluster = Desc.cluster /\ found.cur = job.from
        /\ found.size = Desc.size /\ found.pos = Desc.pos
        /\ found.index = Desc.index /\ found.block = BlocksPerCluster
        /\ found.modified = Desc.modified /\ SameFile(found, Desc)
    BY <1>3 DEF DescOK, Free, SameFile
  <1> HIDE DEF b, found, next
  <1>7. ASSUME ok, card = "on", Desc.name \notin torn
        PROVE  /\ next = Desc.cur => Good(disk, L, job', found, cut)
               /\ next # Desc.cur => Good(disk, L, job', Desc, cut)
    <2>1. next = First(disk, job.from)
      BY <1>3, <1>7, EntryRead DEF next
    <2>2. PICK C \in Nat : Doing(disk, L, job, Desc, C, cut)
      BY <1>1, <1>3, <1>7, Hand DEF Active
    <2>3. Searching(disk, L, job, Desc, C)
      BY <1>1, <2>2 DEF Doing
    <2>4. ~job.whole
      BY <1>1, <1>3, <1>7, Underway DEF Task, Moving
    <2>5. CASE next = Desc.cur
      <3>1. job'.pc = "cut" /\ job'.from = Desc.cur
        BY <1>3, <1>4, <2>5 DEF Idle
      <3>2. ~job'.whole
        BY <1>3, <1>4, <2>4, <2>5 DEF Idle
      <3> QED BY <1>3, <1>6, <2>1, <2>3, <2>5, <3>1, <3>2, FoundGood
    <2>6. CASE next # Desc.cur
      <3>1. ~IsLast(next)
        BY <1>3, <2>1, <2>3, <2>6, SearchGood
      <3>2. next # 0
        BY <1>3, <2>1, <2>3, WalkOn DEF Searching
      <3>3. job'.pc = "parent" /\ job'.from = next
        BY <1>1, <1>3, <1>4, <2>6, <3>1, <3>2 DEF Idle
      <3> QED BY <1>3, <2>1, <2>3, <2>6, <3>3, SearchGood
    <2> QED BY <2>5, <2>6
  <1>8. CASE next = Desc.cur
    <2>1. OneChanged(job.d, found) /\ Accounted(job.d, found)
      BY <1>3, <1>4, <1>6, <1>8, SetOne DEF Set, Accounted
    <2>2. job'.pc = "cut" /\ job'.d = job.d
      BY <1>3, <1>4, <1>8 DEF Idle
    <2> QED BY <1>1, <1>3, <1>5, <1>6, <1>7, <1>8, <2>1, <2>2, ReadSound
  <1>9. CASE next # Desc.cur
    <2>1. job'.pc \in {"idle", "parent"} /\ (job'.pc = "idle" \/ job'.d = job.d) /\ UNCHANGED fd
      BY <1>1, <1>3, <1>4, <1>9 DEF Return, Idle
    <2>2. /\ Accounted(job.d, Desc) /\ OneChanged(job.d, Desc) /\ SameFile(Desc, Desc)
      BY <1>1, <2>1, StayOne
    <2> QED BY <1>1, <1>3, <1>5, <1>7, <1>9, <2>1, <2>2, ReadSound
  <1> QED BY <1>8, <1>9

---------------------------------------------------------------------------
(* A file that is truncated. *)

LEMMA TruncateSound ==
  ASSUME NEW L, Given(L), NEW d \in Fds, NEW pc \in {"idle", "free", "parent", "cut"}, NEW f,
         NEW from, NEW whole \in BOOLEAN, StartTruncate(d, pc, f, from, whole),
         UNCHANGED <<disk, card, cacheAddr, torn>>, SameFile(f, fd[d]), f.modified,
         Active /\ f.name \notin torn =>
           \A j : j.pc = pc /\ (pc # "idle" => /\ j.from = from
                                               /\ whole => j.whole
                                               /\ ~whole => ~j.whole)
                    => Good(disk, L, j, f, cut')
  PROVE  Sound(L)'
  <1>1. MayUse(d) /\ cut' = cut \cup {f.name} /\ IInv /\ Sound(L)
    BY DEF StartTruncate, Given, Before
  <1>2. OneChanged(d, f)
    BY <1>1, SetOne DEF StartTruncate
  <1>3. job'.pc = pc /\ (pc # "idle" => job'.d = d /\ job'.from = from)
    BY DEF StartTruncate, Idle
  <1>4. pc # "idle" => (whole => job'.whole) /\ (~whole => ~job'.whole)
    BY DEF StartTruncate, Idle
  <1>5. One(d, f) /\ Accounted(d, f) /\ f.name = fd[d].name
    BY <1>1, <1>2, <1>3, StartOne DEF Accounted, SameFile
  <1>6. \A n : n # fd[d].name => (n \in cut' <=> n \in cut)
    BY <1>1, <1>5
  <1>7. Active' => Active
    BY DEF Active
  <1>8. Active /\ f.name \notin torn => Good(disk, L, job', f, cut')
    BY <1>3, <1>4
  <1> QED BY <1>1, <1>3, <1>5, <1>6, <1>7, <1>8, QuietSound

(* What is truncated has clusters. *)
LEMMA Truncated ==
  ASSUME NEW L, Given(L), NEW d \in Fds, NEW pc, NEW f, NEW from, NEW whole,
         StartTruncate(d, pc, f, from, whole), Active, fd[d].name \notin torn
  PROVE  LET g == fd[d]
         IN  \E C \in Nat \ {0} :
               /\ Standing(disk, L, g, C) /\ Complete(disk, L, g.name, C) /\ Lies(disk, L, g, C)
               /\ Located(disk, L, g) /\ g.cluster # 0 /\ Within(g) /\ L.rank[g.cluster] = 0
               /\ Belongs(disk, L, g.cluster, g.name) /\ Belongs(disk, L, g.cur, g.name)
               /\ g.pos = L.rank[g.cur] * ClusterSize + Offset(g)
  <1> DEFINE g == fd[d]
  <1>1. MayUse(d) /\ g.pos # g.size
    BY DEF StartTruncate
  <1>2. PICK C \in Nat : Standing(disk, L, g, C)
    BY <1>1, HandReady DEF Given, Before
  <1> HIDE DEF g
  <1>3. /\ Complete(disk, L, g.name, C) /\ Lies(disk, L, g, C) /\ Fills(g.size, g.last, C)
        /\ Points(L, g, C) /\ Within(g)
    BY <1>2 DEF Standing, Ready, Points
  <1>4. C # 0
    <2> SUFFICES ASSUME C = 0 PROVE FALSE
      OBVIOUS
    <2>1. g.size = 0 /\ g.pos = 0 + Offset(g) /\ g.pos <= g.size
      BY <1>3 DEF Fills, Points, Base
    <2>2. Offset(g) \in Nat
      BY <1>3, OffsetRange, Geometry
    <2> QED BY <1>1, <2>1, <2>2 DEF g
  <1>5. Located(disk, L, g) /\ g.cluster # 0
    BY <1>3, <1>4, LiesIn DEF Given
  <1>6. g.pos = L.rank[g.cur] * ClusterSize + Offset(g)
    BY <1>3, <1>4 DEF Points, Base
  <1>7. L.rank[g.cluster] = 0 /\ Belongs(disk, L, g.cluster, g.name) /\ Belongs(disk, L, g.cur, g.name)
    BY <1>5 DEF Located, Begins
  <1> QED BY <1>2, <1>3, <1>4, <1>5, <1>6, <1>7 DEF g

LEMMA ResizedSame ==
  ASSUME NEW f, DescOK(f), NEW g, g = Resized(f)
  PROVE  /\ g.name = f.name /\ g.cluster = f.cluster /\ g.cur = f.cur /\ g.next = f.next
         /\ g.size = f.pos /\ g.pos = f.pos /\ g.block = f.block /\ g.index = f.index
         /\ g.addr = f.addr /\ g.modified /\ SameFile(g, f) /\ DescOK(g)
         /\ Offset(g) = Offset(f) /\ (Within(f) => Within(g))
         /\ (AtClusterStart(f) => AtClusterStart(g)) /\ (AtClusterStart(g) => AtClusterStart(f))
  <1>1. /\ g.name = f.name /\ g.cluster = f.cluster /\ g.cur = f.cur /\ g.next = f.next
        /\ g.size = f.pos /\ g.pos = f.pos /\ g.block = f.block /\ g.index = f.index
        /\ g.addr = f.addr /\ g.modified /\ SameFile(g, f) /\ DescOK(g)
    BY DEF DescOK, Resized, Free, SameFile
  <1> QED BY <1>1 DEF Offset, Within, AtClusterStart

LEMMA TruncateWholeSound ==
  ASSUME NEW L, Given(L), NEW d \in Fds, TruncateWhole(d)
  PROVE  Sound(L)'
  <1> DEFINE f == fd[d]
             g == Resized(f)
             h == [g EXCEPT !.cluster = 0]
  <1>1. /\ AtClusterStart(f) /\ f.cur = f.cluster
        /\ StartTruncate(d, "free", h, f.cur, TRUE)
        /\ UNCHANGED <<disk, card, cacheAddr, torn>>
    BY DEF TruncateWhole
  <1>2. DescOK(f) /\ cut' = cut \cup {h.name}
    BY <1>1 DEF Given, Before, IInv, Descs, StartTruncate
  <1>3. h.cluster = 0 /\ h.size = f.pos /\ SameFile(h, f) /\ h.name = f.name /\ h.modified
    BY <1>2 DEF DescOK, Resized, Free, SameFile
  <1> HIDE DEF f, g, h
  <1>4. ASSUME Active, h.name \notin torn, NEW j, j.pc = "free", j.from = f.cur, j.whole
        PROVE  Good(disk, L, j, h, cut')
    <2>1. PICK C \in Nat \ {0} :
               /\ Complete(disk, L, f.name, C) /\ Within(f) /\ L.rank[f.cluster] = 0
               /\ Belongs(disk, L, f.cur, f.name)
               /\ f.pos = L.rank[f.cur] * ClusterSize + Offset(f)
      BY <1>1, <1>3, <1>4, Truncated DEF f
    <2>2. f.pos = 0
      <3>1. L.rank[f.cur] = 0 /\ Offset(f) = 0
        BY <1>1, <2>1, OffsetRange
      <3> QED BY <2>1, <3>1, Geometry
    <2>3. Remains(disk, L, j, h) /\ Length(L, j, h) = 0
      BY <1>3, <1>4, <2>2 DEF Remains, Length
    <2>4. Formed(disk, L, h.name, (0 .. 0 - 1) \cup (0 .. C - 1), {0, C}, 0)
      <3>1. \A x \in Clusters : Belongs(disk, L, x, f.name) => L.rank[x] + 1 # 0
        BY RanksNat DEF Given
      <3> QED BY <1>3, <2>1, <3>1 DEF Complete, Formed
    <2>5. L.rank[j.from] = 0 /\ L.rank[j.from] \in 0 .. C - 1
      BY <1>1, <1>4, <2>1
    <2>6. Parting(disk, L, j, h, C, L.rank[j.from], 0)
      BY <2>3, <2>4, <2>5 DEF Parting
    <2>7. Losing(disk, L, j, h, C)
      BY <1>3, <1>4, <2>1, <2>6 DEF Losing
    <2>8. Doing(disk, L, j, h, C, cut')
      BY <1>2, <1>4, <2>7 DEF Doing
    <2> QED BY <2>8 DEF Good
  <1> QED BY <1>1, <1>3, <1>4, TruncateSound DEF f

LEMMA TruncateBetweenSound ==
  ASSUME NEW L, Given(L), NEW d \in Fds, TruncateBetween(d)
  PROVE  Sound(L)'
  <1> DEFINE f == fd[d]
             g == Resized(f)
  <1>1. /\ AtClusterStart(f) /\ f.cur # f.cluster
        /\ StartTruncate(d, "parent", g, f.cluster, FALSE)
        /\ UNCHANGED <<disk, card, cacheAddr, torn>>
    BY DEF TruncateBetween
  <1>2. DescOK(f)
    BY DEF Given, Before, IInv, Descs
  <1>3. /\ g.name = f.name /\ g.cluster = f.cluster /\ g.cur = f.cur
        /\ g.size = f.pos /\ g.pos = f.pos /\ g.modified /\ SameFile(g, f)
        /\ Offset(g) = Offset(f) /\ (Within(f) => Within(g)) /\ AtClusterStart(g)
    BY <1>1, <1>2, ResizedSame
  <1> HIDE DEF f, g
  <1>4. ASSUME Active, g.name \notin torn, NEW j, j.pc = "parent", j.from = f.cluster, ~j.whole
        PROVE  Good(disk, L, j, g, cut')
    <2>1. PICK C \in Nat \ {0} :
               /\ Complete(disk, L, f.name, C) /\ Located(disk, L, f)
               /\ Within(f) /\ L.rank[f.cluster] = 0
               /\ Belongs(disk, L, f.cluster, f.name) /\ Belongs(disk, L, f.cur, f.name)
               /\ f.pos = L.rank[f.cur] * ClusterSize + Offset(f)
      BY <1>1, <1>3, <1>4, Truncated DEF f
    <2>2. L.rank[f.cur] \in Nat /\ L.rank[f.cur] # 0
      <3>1. f.cur \in Clusters /\ f.cluster \in Clusters
        BY <2>1 DEF Belongs
      <3> QED BY <1>1, <2>1, <3>1, RanksNat DEF Given, Complete, Formed
    <2>3. Ending(L, g) /\ Located(disk, L, g)
      BY <1>3, <2>1 DEF Ending, Located
    <2>4. Searching(disk, L, j, g, C)
      BY <1>3, <1>4, <2>1, <2>2, <2>3 DEF Searching
    <2>5. Doing(disk, L, j, g, C, cut')
      BY <1>4, <2>4 DEF Doing
    <2> QED BY <2>5 DEF Good
  <1> QED BY <1>1, <1>3, <1>4, TruncateSound DEF f

(* The end of a file that has no cluster behind the descriptor's. *)
LEMMA EndedStanding ==
  ASSUME NEW k, NEW L, NEW f, DescOK(f), NEW C \in Nat, Complete(k, L, f.name, C),
         Located(k, L, f), Ending(L, f), ~AtClusterStart(f), L.rank[f.cur] \in Nat,
         L.rank[f.cur] + 1 = C
  PROVE  /\ Standing(k, L, Ended(f), C) /\ SameFile(Ended(f), f)
         /\ Ended(f).cluster = f.cluster /\ Ended(f).name = f.name
         /\ Ended(f).modified = f.modified
  <1> DEFINE g == Ended(f)
             n == f.pos % ClusterSize
             r == L.rank[f.cur]
  <1>1. /\ g.name = f.name /\ g.cluster = f.cluster /\ g.cur = f.cur /\ g.next = End
        /\ g.size = f.size /\ g.pos = f.pos /\ g.block = f.block /\ g.index = f.index
        /\ g.addr = f.addr /\ g.modified = f.modified /\ SameFile(g, f)
        /\ g.last = IF n = 0 /\ f.block # 0 THEN ClusterSize ELSE n
    BY DEF DescOK, Ended, Free, SameFile
  <1> HIDE DEF g
  <1>2. /\ Within(f) /\ f.size = f.pos /\ f.pos = r * ClusterSize + Offset(f)
        /\ Offset(f) \in 1 .. ClusterSize
    <2>1. Within(f) /\ f.size = f.pos /\ f.pos = r * ClusterSize + Offset(f)
      BY DEF Ending
    <2>2. Offset(f) # 0 /\ Offset(f) \in 0 .. ClusterSize
      BY <2>1, OffsetRange
    <2> QED BY <2>1, <2>2, Geometry
  <1>3. g.last = Offset(f)
    <2>1. CASE f.block = BlocksPerCluster
      <3>1. Offset(f) = ClusterSize
        BY <1>2, <2>1, OffsetRange
      <3>2. f.pos = (r + 1) * ClusterSize + 0
        BY <1>2, <3>1, NextMultiple, Geometry
      <3>3. n = 0
        BY <3>2, Divides, Geometry
      <3> QED BY <1>1, <2>1, <3>1, <3>3, Geometry
    <2>2. CASE f.block # BlocksPerCluster
      <3>1. Offset(f) # ClusterSize
        BY <1>2, <2>2, OffsetRange
      <3>2. Offset(f) \in Nat /\ Offset(f) < ClusterSize
        BY <1>2, <3>1, Geometry
      <3>3. n = Offset(f)
        BY <1>2, <3>2, Divides
      <3> QED BY <1>1, <1>2, <3>3
    <2> QED BY <2>1, <2>2
  <1> HIDE DEF n
  <1>4. Fills(g.size, g.last, C)
    BY <1>1, <1>2, <1>3 DEF Fills
  <1>5. Within(g) /\ Offset(g) = Offset(f)
    BY <1>1, <1>2 DEF Within, Offset
  <1>6. Points(L, g, C)
    <2>1. f.pos \in Nat
      BY <1>2, NextMultiple, Geometry
    <2> QED BY <1>1, <1>2, <1>5, <2>1 DEF Points, Base
  <1>7. IsLast(g.next)
    BY <1>1 DEF IsLast, End
  <1>8. Lies(k, L, g, C)
    BY <1>1, <1>7 DEF Lies, Located
  <1>9. Standing(k, L, g, C)
    BY <1>1, <1>4, <1>6, <1>7, <1>8 DEF Standing, Ready, AtLast
  <1> QED BY <1>1, <1>9 DEF g

LEMMA TruncateInsideSound ==
  ASSUME NEW L, Given(L), NEW d \in Fds, TruncateInside(d)
  PROVE  Sound(L)'
  <1> DEFINE f == fd[d]
             g == Resized(f)
  <1>1. /\ UNCHANGED <<disk, card, cacheAddr, torn>> /\ ~AtClusterStart(f)
        /\ IF IsLast(f.next) THEN StartTruncate(d, "idle", Ended(g), 0, FALSE)
                             ELSE StartTruncate(d, "cut", g, f.next, FALSE)
    BY DEF TruncateInside
  <1>2. DescOK(f)
    BY DEF Given, Before, IInv, Descs
  <1>3. /\ g.name = f.name /\ g.cluster = f.cluster /\ g.cur = f.cur /\ g.next = f.next
        /\ g.size = f.pos /\ g.pos = f.pos /\ g.modified /\ SameFile(g, f) /\ DescOK(g)
        /\ Offset(g) = Offset(f) /\ (Within(f) => Within(g)) /\ ~AtClusterStart(g)
    BY <1>1, <1>2, ResizedSame
  <1>4. Ended(g).modified /\ SameFile(Ended(g), f) /\ Ended(g).name = f.name
    BY <1>3 DEF SameFile, Ended, DescOK, Free
  <1> HIDE DEF f, g
  <1>5. ASSUME Active, f.name \notin torn
        PROVE  \E C \in Nat : /\ Complete(disk, L, g.name, C) /\ Lies(disk, L, f, C) /\ C # 0
                              /\ Located(disk, L, g) /\ Ending(L, g) /\ L.rank[g.cur] \in Nat
                              /\ ~Spent(g, cut')
    <2>1. PICK C \in Nat \ {0} :
               /\ Complete(disk, L, f.name, C) /\ Located(disk, L, f) /\ Lies(disk, L, f, C)
               /\ Within(f) /\ f.cluster # 0 /\ Belongs(disk, L, f.cur, f.name)
               /\ f.pos = L.rank[f.cur] * ClusterSize + Offset(f)
      BY <1>1, <1>5, Truncated DEF f
    <2>2. L.rank[f.cur] \in Nat
      BY <2>1, RanksNat DEF Given, Belongs
    <2>3. Ending(L, g) /\ Located(disk, L, g)
      BY <1>3, <2>1 DEF Ending, Located
    <2>4. ~Spent(g, cut')
      BY <1>3, <2>1 DEF Spent
    <2> QED BY <1>3, <2>1, <2>2, <2>3, <2>4
  <1>6. CASE IsLast(f.next)
    <2>1. ASSUME Active, f.name \notin torn, NEW j, j.pc = "idle"
          PROVE  Good(disk, L, j, Ended(g), cut')
      <3>1. PICK C \in Nat : /\ Complete(disk, L, g.name, C) /\ Lies(disk, L, f, C) /\ C # 0
                             /\ Located(disk, L, g) /\ Ending(L, g) /\ L.rank[g.cur] \in Nat
                             /\ ~Spent(g, cut')
        BY <1>5, <2>1
      <3>2. L.rank[g.cur] + 1 = C
        BY <1>3, <1>6, <3>1 DEF Lies
      <3>3. /\ Standing(disk, L, Ended(g), C)
            /\ Ended(g).cluster = g.cluster /\ Ended(g).name = g.name
        BY <1>3, <3>1, <3>2, EndedStanding
      <3>4. ~Spent(Ended(g), cut')
        BY <3>1, <3>3, SpentSame
      <3> QED BY <2>1, <3>3, <3>4, StandingGood
    <2> QED BY <1>1, <1>4, <1>6, <2>1, TruncateSound DEF f
  <1>7. CASE ~IsLast(f.next)
    <2>1. ASSUME Active, f.name \notin torn, NEW j, j.pc = "cut", j.from = f.next, ~j.whole
          PROVE  Good(disk, L, j, g, cut')
      <3>1. PICK C \in Nat : /\ Complete(disk, L, g.name, C) /\ Lies(disk, L, f, C) /\ C # 0
                             /\ Located(disk, L, g) /\ Ending(L, g)
        BY <1>5, <2>1
      <3>2. f.next = First(disk, g.cur)
        BY <1>3, <1>7, <3>1 DEF Lies
      <3>3. Halving(disk, L, j, g, C)
        BY <1>3, <1>7, <2>1, <3>1, <3>2 DEF Halving, Shortened
      <3>4. Doing(disk, L, j, g, C, cut')
        BY <2>1, <3>3 DEF Doing
      <3> QED BY <3>4 DEF Good
    <2> QED BY <1>1, <1>3, <1>7, <2>1, TruncateSound DEF f
  <1> QED BY <1>6, <1>7

---------------------------------------------------------------------------
(* A step of a call that writes an entry or copies a sector. *)

LEMMA WriteSound ==
  ASSUME NEW L, Given(L), ~At("idle"), NEW b \in TableBlocks, NEW m, NEW ok \in BOOLEAN,
         Writes(b, m, ok), m[Dir] = disk[Dir], UNCHANGED cut,
         NEW f, OneChanged(job.d, f), SameFile(f, Desc), ok => Accounted(job.d, f),
         job'.pc = "idle" \/ job'.d = job.d,
         ok /\ job'.pc = "takeMirror" => L.own[job'.new] \notin Names \ torn,
         card = "on" => \A n \in Names \ torn : n # Desc.name => Alike(disk, L, m, L, n),
         ok /\ card = "on" /\ Desc.name \notin torn => Good(m, L, job', f, cut)
  PROVE  Sound(L)'
  <1>1. Sound(L) /\ b \in TableBlocks \cup {Dir}
    BY DEF Given
  <1>2. CASE ~ok
    BY <1>1, <1>2, CallFails
  <1>3. CASE ok
    <2>1. /\ card = "on" /\ card' = "on" /\ disk' = m /\ torn' = torn /\ Tears /\ Cached(b)
          /\ card' = card
      BY <1>3 DEF Writes, Wrote, Tears
    <2>2. One(job.d, f) /\ fd[job.d].name = Desc.name /\ f.name = Desc.name
      BY <1>1 DEF Sound, Engaged, One, Desc, SameFile
    <2>3. Steady(L, L, fd[job.d].name)
      BY <2>1, <2>2 DEF Steady
    <2>4. Loose(L)'
      BY <1>3, <2>1 DEF Loose, At
    <2>5. Active
      BY <2>1 DEF Active
    <2>6. Active' /\ f.name \notin torn => Good(disk', L, job', f, cut')
      BY <1>3, <2>1, <2>2
    <2> QED BY <1>1, <1>3, <2>1, <2>2, <2>3, <2>4, <2>5, <2>6, StepSound
  <1> QED BY <1>2, <1>3

LEMMA EntryTears ==
  ASSUME IInv, NEW c \in Nums, NEW b \in {Table(Sector(c)), Mirror(Sector(c))}, NEW v,
         NEW miss, NEW ok \in BOOLEAN, Update(b, WithEntry(b, c, v), miss, ok)
  PROVE  /\ Writes(b, Put(disk, b, c, v), ok) /\ b \in TableBlocks
         /\ Put(disk, b, c, v)[Dir] = disk[Dir]
  <1>1. b \in TableBlocks
    BY TableBlockOf
  <1> QED BY <1>1, EntryWritten, UpdateTears, ShapedDisk, DirKept DEF Writes

LEMMA SectorTears ==
  ASSUME IInv, NEW c \in Nums, NEW a, NEW b, {a, b} = {Table(Sector(c)), Mirror(Sector(c))},
         cacheAddr = a, NEW ok \in BOOLEAN, Flush(b, cache, ok)
  PROVE  /\ Writes(b, Copy(disk, a, b), ok) /\ b \in TableBlocks
         /\ Copy(disk, a, b)[Dir] = disk[Dir]
  <1>1. b \in TableBlocks
    BY TableBlockOf
  <1> QED BY <1>1, SectorWritten, FlushTears, ShapedDisk, DirKept DEF Writes

(* The clusters of a file, and where they lead in the first copy of the    *)
(* table, are on card m what they are on k.                                *)
Heir(k, m, L, n) ==
  \A x \in Clusters :
    /\ Belongs(k, L, x, n) => Belongs(m, L, x, n) /\ First(m, x) = First(k, x)
    /\ Belongs(m, L, x, n) => Belongs(k, L, x, n)

LEMMA HeirFormed ==
  ASSUME NEW k, NEW m, NEW L, NEW n, Heir(k, m, L, n), NEW R, NEW E, NEW y, NEW z,
         Formed(k, L, n, R, E, y),
         \A x \in Clusters \ {z} : L.own[x] = n => First(m, x) = Second(m, x)
  PROVE  Formed(m, L, n, R, E, z)
  BY DEF Heir, Formed

LEMMA HeirLocated ==
  ASSUME NEW k, NEW m, NEW L, NEW f, Heir(k, m, L, f.name)
  PROVE  /\ Located(k, L, f) => Located(m, L, f)
         /\ Shortened(k, L, f) => Shortened(m, L, f)
         /\ \A C : Ready(k, L, f, C) => Ready(m, L, f, C)
         /\ \A j : Remains(k, L, j, f) => Remains(m, L, j, f)
  <1>1. \A x : Belongs(k, L, x, f.name) => Belongs(m, L, x, f.name) /\ First(m, x) = First(k, x)
    BY DEF Heir, Belongs
  <1>2. Located(k, L, f) => Located(m, L, f)
    BY <1>1 DEF Located, Begins
  <1>3. \A C : Lies(k, L, f, C) => Lies(m, L, f, C)
    BY <1>1, <1>2 DEF Lies, Located
  <1>4. Shortened(k, L, f) => Shortened(m, L, f)
    BY <1>2 DEF Shortened
  <1> QED BY <1>2, <1>3, <1>4 DEF Ready, Remains

LEMMA LinkClusterSound ==
  ASSUME NEW L, Given(L), LinkCluster
  PROVE  Sound(L)'
  <1> DEFINE c == Desc.cur
             y == job.new
             b == Mirror(Sector(c))
             m == Put(disk, b, c, y)
  <1>1. job.pc = "link" /\ ~At("idle") /\ UNCHANGED <<fd, cut>>
    BY DEF LinkCluster, At
  <1>2. PICK ok \in BOOLEAN :
          /\ Update(b, WithEntry(b, c, y), Miss(b), ok)
          /\ IF ok THEN Goto("linkMirror") ELSE Return
    BY DEF LinkCluster
  <1>3. /\ IInv /\ Narrow /\ Sound(L) /\ Before(L) /\ DOMAIN job = DOMAIN Idle /\ Desc = fd[job.d]
        /\ c \in Nums /\ Shaped(disk)
    BY <1>1, Acting, ShapedDisk DEF DescOK
  <1>4. Writes(b, m, ok) /\ b \in TableBlocks /\ m[Dir] = disk[Dir]
    BY <1>2, <1>3, EntryTears
  <1>5. /\ ok => /\ job'.pc = "linkMirror" /\ job'.new = y /\ job'.left = job.left
                 /\ job'.d = job.d
        /\ ok /\ job.write => job'.write
        /\ ~ok => job'.pc = "idle"
    BY <1>2, <1>3 DEF Goto, Return, Idle
  <1>6. ASSUME card = "on"
        PROVE  /\ Belongs(disk, L, c, Desc.name) /\ Belongs(disk, L, y, Desc.name)
               /\ \A x \in Nums : First(m, x) = First(disk, x)
                                  /\ Second(m, x) = (IF x = c THEN y ELSE Second(disk, x))
    <2>1. Settled(disk, L, Desc, cut) /\ Task(disk, L, job, Desc, cut)
      BY <1>1, <1>3, <1>6, Underway DEF Freeing
    <2>2. c # 0 /\ Belongs(disk, L, y, Desc.name)
      BY <1>1, <2>1 DEF Task, Linking
    <2> QED BY <1>3, <2>1, <2>2, PutSecond DEF Settled, Stands
  <1>7. ASSUME card = "on", NEW n \in Names \ torn, n # Desc.name PROVE Alike(disk, L, m, L, n)
    BY <1>3, <1>6, <1>7, SecondAlike DEF Belongs
  <1> HIDE DEF m, b, c, y
  <1>8. ASSUME ok, card = "on", Desc.name \notin torn PROVE Good(m, L, job', Desc, cut)
    <2>1. PICK C \in Nat : Doing(disk, L, job, Desc, C, cut)
      BY <1>1, <1>3, <1>8, Hand DEF Active
    <2>2. /\ Wanting(job, Desc) /\ C > 0 /\ Ready(disk, L, Desc, C)
          /\ Formed(disk, L, Desc.name, 0 .. C, {C, C + 1}, 0)
          /\ L.rank[y] = C
      BY <1>1, <2>1 DEF Doing, Extending, y
    <2>3. c \in Clusters /\ y \in Clusters /\ y # 0 /\ Used(disk, c)
      BY <1>3, <1>6, <1>8, ClusterNumbers DEF Belongs
    <2>4. \A x \in Clusters : /\ First(m, x) = First(disk, x)
                              /\ Second(m, x) = (IF x = c THEN y ELSE Second(disk, x))
      BY <1>3, <1>6, <1>8, ClusterNumbers
    <2>5. Heir(disk, m, L, Desc.name)
      BY <2>3, <2>4 DEF Heir, Belongs, Used
    <2>6. Formed(m, L, Desc.name, 0 .. C, {C, C + 1}, c)
      <3>1. \A x \in Clusters \ {c} : L.own[x] = Desc.name => First(m, x) = Second(m, x)
        BY <1>3, <2>2, <2>4, ClusterNumbers DEF Formed
      <3> QED BY <2>2, <2>5, <3>1, HeirFormed
    <2>7. Belongs(m, L, y, Desc.name)
      BY <1>6, <1>8, <2>3, <2>5 DEF Heir
    <2>8. Wanting(job', Desc)
      BY <1>5, <1>8, <2>2 DEF Wanting
    <2>9. Extending(m, L, job', Desc, C, Desc.cur)
      BY <1>5, <1>8, <2>2, <2>5, <2>6, <2>7, <2>8, HeirLocated DEF Extending, c
    <2>10. Second(m, Desc.cur) = job'.new
      BY <1>5, <1>8, <2>3, <2>4 DEF c
    <2>11. Doing(m, L, job', Desc, C, cut)
      BY <1>5, <1>8, <2>9, <2>10 DEF Doing
    <2> QED BY <2>11 DEF Good
  <1>9. job'.pc \in {"idle", "linkMirror"} /\ (job'.pc = "idle" \/ job'.d = job.d)
    BY <1>5
  <1>10. Accounted(job.d, Desc) /\ OneChanged(job.d, Desc) /\ SameFile(Desc, Desc)
    BY <1>1, <1>9, StayOne
  <1> QED BY <1>1, <1>4, <1>7, <1>8, <1>9, <1>10, WriteSound

(* The link is in both copies: the file has one cluster more, and nothing  *)
(* in it yet.                                                              *)
LEMMA LinkedComplete ==
  ASSUME Small, NEW k, NEW m, NEW L, NEW n, NEW C \in Nat, NEW c, NEW y \in Clusters,
         Formed(k, L, n, 0 .. C, {C, C + 1}, c), Belongs(k, L, c, n), L.rank[c] + 1 = C,
         \A x \in Clusters : L.rank[x] \in Nat,
         \A x \in Clusters : L.own[x] = n =>
           /\ Second(m, x) = Second(k, x)
           /\ First(m, x) = (IF x = c THEN Second(k, c) ELSE First(k, x)),
         Second(k, c) = y
  PROVE  /\ Complete(m, L, n, C + 1)
         /\ \A x : Belongs(k, L, x, n) => Belongs(m, L, x, n)
  <1>1. c \in Clusters /\ L.own[c] = n /\ ~IsLast(y) /\ y # 0 /\ 0 \notin Clusters
    BY SmallNumbers, ClusterNumbers DEF Belongs
  <1>2. \A x \in Clusters : Belongs(m, L, x, n) => Belongs(k, L, x, n)
    BY DEF Belongs, Used
  <1>3. \A x : Belongs(k, L, x, n) => Belongs(m, L, x, n)
    BY <1>1 DEF Belongs, Used
  <1>4. ASSUME NEW x \in Clusters, Belongs(m, L, x, n)
        PROVE  /\ L.rank[x] \in 0 .. (C + 1) - 1
               /\ IsLast(First(m, x)) => L.rank[x] + 1 \in {C + 1}
               /\ L.rank[x] + 1 \in {C + 1} => IsLast(First(m, x))
    <2>1. Belongs(k, L, x, n) /\ L.own[x] = n /\ L.rank[x] \in Nat /\ L.rank[c] \in Nat
      BY <1>1, <1>2, <1>4 DEF Belongs
    <2>2. /\ L.rank[x] \in 0 .. C
          /\ IsLast(First(k, x)) => L.rank[x] + 1 \in {C, C + 1}
          /\ L.rank[x] + 1 \in {C, C + 1} => IsLast(First(k, x))
          /\ L.rank[x] = L.rank[c] => x = c
      BY <1>1, <2>1 DEF Formed
    <2>3. CASE x = c
      BY <1>1, <2>1, <2>2, <2>3
    <2>4. CASE x # c
      <3>1. First(m, x) = First(k, x)
        BY <2>1, <2>4
      <3> QED BY <2>1, <2>2, <2>4, <3>1
    <2> QED BY <2>3, <2>4
  <1>5. \A x, y1 \in Clusters :
          Belongs(m, L, x, n) /\ Belongs(m, L, y1, n) /\ L.rank[x] = L.rank[y1] => x = y1
    BY <1>2 DEF Formed
  <1>6. \A x \in Clusters \ {0} : L.own[x] = n => First(m, x) = Second(m, x)
    BY <1>1 DEF Formed
  <1>7. Complete(m, L, n, C + 1)
    BY <1>4, <1>5, <1>6 DEF Complete, Formed
  <1> QED BY <1>3, <1>7

(* A file whose last cluster is full, where the descriptor is behind it.   *)
LEMMA FullCluster ==
  ASSUME NEW k, NEW L, NEW f, NEW C \in Nat, C > 0, Ready(k, L, f, C), NeedsCluster(f),
         f.cur \in Clusters => L.rank[f.cur] \in Nat, 0 \notin Clusters
  PROVE  /\ f.cur \in Clusters /\ f.cluster \in Clusters /\ IsLast(f.next)
         /\ L.rank[f.cur] \in Nat /\ L.rank[f.cur] + 1 = C
         /\ f.index = 0 /\ f.block = BlocksPerCluster /\ C * ClusterSize \in Nat
         /\ f.size = C * ClusterSize /\ f.pos = C * ClusterSize
         /\ Belongs(k, L, f.cur, f.name) /\ Begins(k, L, f.cluster, f.name)
  <1>1. Lies(k, L, f, C) /\ Fills(f.size, f.last, C) /\ Points(L, f, C) /\ Within(f)
    BY DEF Ready, Points
  <1>2. Belongs(k, L, f.cur, f.name) /\ Begins(k, L, f.cluster, f.name)
    BY <1>1 DEF Lies, Located
  <1>3. f.cur \in Clusters /\ f.cluster \in Clusters /\ f.cur # 0
    BY <1>2 DEF Belongs, Begins
  <1>4. IsLast(f.next) /\ f.block = BlocksPerCluster /\ f.index = 0
    BY <1>1, <1>3 DEF NeedsCluster, Within
  <1>5. L.rank[f.cur] + 1 = C /\ L.rank[f.cur] \in Nat /\ C - 1 = L.rank[f.cur]
    BY <1>1, <1>3, <1>4 DEF Lies
  <1>6. Offset(f) = ClusterSize
    BY <1>1, <1>4, OffsetRange
  <1>7. (L.rank[f.cur] + 1) * ClusterSize = L.rank[f.cur] * ClusterSize + ClusterSize
        /\ L.rank[f.cur] * ClusterSize \in Nat
    BY <1>5, NextMultiple
  <1>8. f.pos = L.rank[f.cur] * ClusterSize + ClusterSize /\ f.pos <= f.size
    BY <1>1, <1>6 DEF Points, Base
  <1>9. f.last \in Nat /\ f.last <= ClusterSize /\ f.size = L.rank[f.cur] * ClusterSize + f.last
    BY <1>1, <1>5, Geometry DEF Fills
  <1>10. f.size = f.pos
    BY <1>7, <1>8, <1>9, Geometry
  <1>11. f.pos = C * ClusterSize
    BY <1>5, <1>7, <1>8
  <1>12. C * ClusterSize \in Nat
    BY NextMultiple
  <1> QED BY <1>2, <1>3, <1>4, <1>5, <1>10, <1>11, <1>12

(* The descriptor on its new cluster, the last of C. *)
LEMMA OnNewCluster ==
  ASSUME Small, NEW k, NEW L, NEW j, NEW f, NEW c, NEW n, NEW C \in Nat,
         f.name = n, f.cur = c, f.next = End, f.addr = FirstBlock(c), f.last = 0, f.block = 0,
         f.index = 0, f.size = C * ClusterSize, f.pos = C * ClusterSize, C * ClusterSize \in Nat,
         j.write, j.pc = "transfer", j.left \in Nat \ {0},
         Complete(k, L, n, C + 1), Begins(k, L, f.cluster, n), Belongs(k, L, c, n),
         L.rank[c] = C, NEW hidden
  PROVE  Good(k, L, j, f, hidden)
  <1>1. c \in Clusters /\ f.cluster # 0 /\ IsLast(f.next)
    BY SmallNumbers, ClusterNumbers DEF Belongs, Begins, IsLast, End
  <1>2. Lies(k, L, f, C + 1)
    BY <1>1 DEF Lies, Located
  <1>3. Within(f) /\ Offset(f) = 0
    <2>1. FirstBlock(c) \in Int
      BY <1>1, Sizes, Geometry DEF Clusters, FirstBlock
    <2> QED BY <2>1, Geometry DEF Within, Offset
  <1>4. Points(L, f, C + 1)
    BY <1>3 DEF Points, Base
  <1>5. Attaching(k, L, j, f, C + 1)
    BY <1>1, <1>2, <1>4 DEF Attaching
  <1>6. Doing(k, L, j, f, C + 1, hidden)
    BY <1>1, <1>5 DEF Doing, Sending, Spent
  <1> QED BY <1>6 DEF Good

LEMMA AttachedLinked ==
  ASSUME NEW f, DescOK(f), f.cur # 0, NEW c
  PROVE  LET g == Attached(f, c)
         IN  /\ g.cur = c /\ g.next = End /\ g.cluster = f.cluster /\ g.name = f.name
             /\ g.last = 0 /\ g.block = 0 /\ g.index = f.index /\ g.pos = f.pos
             /\ g.size = f.size /\ SameFile(g, f) /\ g.addr = FirstBlock(c)
             /\ g.modified = f.modified
  BY DEF Attached, DescOK, Free, SameFile

LEMMA LinkMirrorSound ==
  ASSUME NEW L, Given(L), LinkMirror
  PROVE  Sound(L)'
  <1> DEFINE c == Desc.cur
             y == job.new
             s == Sector(c)
             m == Copy(disk, Mirror(s), Table(s))
             g == Attached(Desc, y)
  <1>1. job.pc = "linkMirror" /\ ~At("idle") /\ UNCHANGED cut /\ c \in Nums
        /\ cacheAddr = Mirror(s)
    BY Running DEF LinkMirror, At, IInv, Jobs, Given, Before
  <1>2. PICK ok \in BOOLEAN :
          /\ Flush(Table(s), cache, ok)
          /\ IF ok THEN Set(g) /\ Continue(job.left) ELSE UNCHANGED fd /\ Return
    BY DEF LinkMirror
  <1>3. /\ IInv /\ Narrow /\ Sound(L) /\ Before(L) /\ DOMAIN job = DOMAIN Idle /\ Desc = fd[job.d]
        /\ DescOK(Desc) /\ job.d \in Fds /\ Shaped(disk) /\ s \in SectorNumbers /\ Small
    BY <1>1, Acting, ShapedDisk, EntryPlace
  <1>4. Writes(Table(s), m, ok) /\ Table(s) \in TableBlocks /\ m[Dir] = disk[Dir]
    BY <1>1, <1>2, <1>3, SectorTears
  <1>5. ASSUME card = "on", NEW n \in Names \ torn, n # Desc.name PROVE Alike(disk, L, m, L, n)
    <2>1. Twin(disk, L, n)
      BY <1>1, <1>3, <1>5, OthersTwin
    <2> QED BY <1>3, <2>1, CopyAlike
  <1>6. \A x \in Clusters :
          /\ Second(m, x) = Second(disk, x)
          /\ First(m, x) = (IF Sector(x) = s THEN Second(disk, x) ELSE First(disk, x))
    BY <1>3, ClusterNumbers, CopyEntries
  <1>7. CASE ~ok
    <2>1. UNCHANGED fd /\ job'.pc = "idle"
      BY <1>2, <1>7 DEF Return, Idle
    <2>2. OneChanged(job.d, Desc) /\ SameFile(Desc, Desc)
      BY <1>1, <2>1, StayOne
    <2> HIDE DEF m
    <2> QED BY <1>1, <1>3, <1>4, <1>5, <1>7, <2>1, <2>2, WriteSound
  <1>8. CASE ok
    <2>1. card = "on" /\ Set(g) /\ Continue(job.left)
      BY <1>2, <1>4, <1>8 DEF Writes, Wrote
    <2>2. /\ c # 0 /\ Belongs(disk, L, y, Desc.name) /\ job.left \in Nat
      BY <1>1, <1>3, <2>1, Underway DEF Task, Linking
    <2>3. /\ g.cur = y /\ g.next = End /\ g.cluster = Desc.cluster /\ g.name = Desc.name
          /\ g.last = 0 /\ g.block = 0 /\ g.index = Desc.index /\ g.pos = Desc.pos
          /\ g.size = Desc.size /\ SameFile(g, Desc) /\ g.addr = FirstBlock(y)
          /\ g.modified = Desc.modified
      BY <1>3, <2>2, AttachedLinked
    <2>4. OneChanged(job.d, g)
      BY <1>3, <2>1, SetOne DEF Set
    <2>5. Accounted(job.d, g)
      BY <1>3, <2>3 DEF Accounted
    <2>6. job'.pc \in {"idle", "transfer"} /\ (job'.pc = "idle" \/ job'.d = job.d)
      BY <1>3, <2>1, ContinuePc
    <2> HIDE DEF g, m
    <2>7. ASSUME Desc.name \notin torn PROVE Good(m, L, job', g, cut)
      <3>1. PICK C \in Nat : Doing(disk, L, job, Desc, C, cut)
        BY <1>1, <1>3, <2>1, <2>7, Hand DEF Active
      <3>2. /\ Wanting(job, Desc) /\ C > 0 /\ Ready(disk, L, Desc, C)
            /\ Formed(disk, L, Desc.name, 0 .. C, {C, C + 1}, c)
            /\ L.rank[y] = C /\ Second(disk, c) = y
        BY <1>1, <3>1 DEF Doing, Extending
      <3>3. \A x \in Clusters : L.rank[x] \in Nat
        BY <1>3, RanksNat
      <3>4. 0 \notin Clusters /\ y \in Clusters
        BY <1>3, <2>2, ClusterNumbers DEF Belongs
      <3>5. /\ c \in Clusters /\ L.rank[c] \in Nat /\ L.rank[c] + 1 = C
            /\ Desc.index = 0 /\ C * ClusterSize \in Nat
            /\ Desc.size = C * ClusterSize /\ Desc.pos = C * ClusterSize
            /\ Belongs(disk, L, c, Desc.name) /\ Begins(disk, L, Desc.cluster, Desc.name)
        BY <3>2, <3>3, <3>4, FullCluster DEF Wanting
      <3>6. \A x \in Clusters : L.own[x] = Desc.name =>
              /\ Second(m, x) = Second(disk, x)
              /\ First(m, x) = (IF x = c THEN Second(disk, c) ELSE First(disk, x))
        <4> SUFFICES ASSUME NEW x \in Clusters, L.own[x] = Desc.name
                     PROVE  /\ Second(m, x) = Second(disk, x)
                            /\ First(m, x) = (IF x = c THEN Second(disk, c) ELSE First(disk, x))
          OBVIOUS
        <4>1. CASE x = c
          BY <1>6, <3>5, <4>1
        <4>2. CASE x # c
          <5>1. First(disk, x) = Second(disk, x)
            BY <3>2, <4>2 DEF Formed
          <5> QED BY <1>6, <4>2, <5>1
        <4> QED BY <4>1, <4>2
      <3> HIDE DEF c, y
      <3>7. Complete(m, L, Desc.name, C + 1) /\ \A x : Belongs(disk, L, x, Desc.name) => Belongs(m, L, x, Desc.name)
        BY <1>3, <3>2, <3>3, <3>4, <3>5, <3>6, LinkedComplete
      <3>8. Begins(m, L, Desc.cluster, Desc.name) /\ Belongs(m, L, y, Desc.name)
        BY <2>2, <3>5, <3>7 DEF Begins, y
      <3>9. job'.pc = "transfer" /\ job'.left \in Nat \ {0}
        <4>1. job.left \in Nat \ {0}
          BY <3>2 DEF Wanting
        <4> QED BY <1>3, <2>1, <4>1 DEF Continue, Idle
      <3>10. job'.write
        <4>1. job.left # 0 /\ job.write
          BY <3>2 DEF Wanting
        <4> QED BY <1>3, <2>1, <4>1 DEF Continue, Idle
      <3> QED BY <1>3, <2>3, <3>2, <3>5, <3>7, <3>8, <3>9, <3>10, OnNewCluster DEF y
    <2> QED BY <1>1, <1>3, <1>4, <1>5, <1>8, <2>3, <2>4, <2>5, <2>6, <2>7, WriteSound
  <1> QED BY <1>7, <1>8

(* The chain is cut in the first copy: what is behind the cut is a chain   *)
(* of its own.                                                             *)
LEMMA CutParts ==
  ASSUME NEW L, Before(L), NEW f, NEW C \in Nat, NEW j, Halving(disk, L, j, f, C), NEW m,
         \A x \in Clusters : /\ Second(m, x) = Second(disk, x)
                             /\ First(m, x) = (IF x = f.cur THEN End ELSE First(disk, x)),
         NEW i, ~i.whole, i.from = j.from
  PROVE  Parted(m, L, i, f, C)
  <1> DEFINE c == f.cur
             r == L.rank[j.from]
  <1>1. /\ Complete(disk, L, f.name, C) /\ Located(disk, L, f) /\ Ending(L, f) /\ ~AtClusterStart(f)
        /\ Belongs(disk, L, c, f.name) /\ j.from = First(disk, c) /\ ~IsLast(j.from)
    BY DEF Halving, Shortened, Located
  <1>2. /\ c \in Clusters /\ L.rank[c] \in Nat /\ j.from \in Clusters
        /\ Belongs(disk, L, j.from, f.name) /\ r = L.rank[c] + 1 /\ r < C
    BY <1>1, CompleteWalk
  <1>3. IsLast(End) /\ End # 0 /\ 0 \notin Clusters
    BY ClusterNumbers DEF Before
  <1>4. \A x : /\ Belongs(disk, L, x, f.name) => Belongs(m, L, x, f.name)
               /\ Belongs(m, L, x, f.name) => Belongs(disk, L, x, f.name)
    BY <1>1, <1>3 DEF Belongs, Used
  <1>5. Shortened(m, L, f) /\ First(m, c) = End /\ Belongs(m, L, i.from, f.name)
    BY <1>1, <1>2, <1>4 DEF Shortened, Located, Begins
  <1>6. Length(L, i, f) = r /\ L.rank[i.from] = r /\ Remains(m, L, i, f)
    BY <1>2, <1>5 DEF Length, Remains
  <1>7. ASSUME NEW x \in Clusters, Belongs(m, L, x, f.name)
        PROVE  /\ L.rank[x] \in (0 .. r - 1) \cup (r .. C - 1)
               /\ IsLast(First(m, x)) => L.rank[x] + 1 \in {r, C}
               /\ L.rank[x] + 1 \in {r, C} => IsLast(First(m, x))
    <2>1. Belongs(disk, L, x, f.name) /\ L.rank[x] \in Nat
      BY <1>4, <1>7, RanksNat
    <2>2. /\ L.rank[x] \in 0 .. C - 1
          /\ IsLast(First(disk, x)) => L.rank[x] + 1 = C
          /\ L.rank[x] + 1 = C => IsLast(First(disk, x))
          /\ L.rank[x] = L.rank[c] => x = c
      BY <1>1, <1>2, <2>1 DEF Complete, Formed
    <2>3. L.rank[x] \in (0 .. r - 1) \cup (r .. C - 1)
      BY <1>2, <2>2
    <2>4. CASE x = c
      BY <1>2, <1>3, <2>3, <2>4
    <2>5. CASE x # c
      <3>1. First(m, x) = First(disk, x) /\ L.rank[x] + 1 # r
        BY <1>2, <2>1, <2>2, <2>5
      <3> QED BY <2>2, <2>3, <3>1
    <2> QED BY <2>4, <2>5
  <1>8. \A x, y \in Clusters :
          Belongs(m, L, x, f.name) /\ Belongs(m, L, y, f.name) /\ L.rank[x] = L.rank[y] => x = y
    BY <1>1, <1>4 DEF Complete, Formed
  <1>9. \A x \in Clusters \ {c} : L.own[x] = f.name => First(m, x) = Second(m, x)
    BY <1>1, <1>3 DEF Complete, Formed
  <1>10. Formed(m, L, f.name, (0 .. r - 1) \cup (r .. C - 1), {r, C}, c)
    BY <1>7, <1>8, <1>9 DEF Formed
  <1>11. Parting(m, L, i, f, C, L.rank[i.from], c)
    BY <1>2, <1>6, <1>10 DEF Parting
  <1> QED BY <1>2, <1>5, <1>6, <1>11 DEF Parted

LEMMA CutChainSound ==
  ASSUME NEW L, Given(L), CutChain
  PROVE  Sound(L)'
  <1> DEFINE c == Desc.cur
             b == Table(Sector(c))
             m == Put(disk, b, c, End)
  <1>1. job.pc = "cut" /\ ~At("idle") /\ UNCHANGED <<fd, cut>>
    BY DEF CutChain, At
  <1>2. PICK ok \in BOOLEAN :
          /\ Update(b, WithEntry(b, c, End), Miss(b), ok)
          /\ IF ok THEN Goto("cutMirror") ELSE Return
    BY DEF CutChain
  <1>3. /\ IInv /\ Narrow /\ Sound(L) /\ Before(L) /\ DOMAIN job = DOMAIN Idle /\ Desc = fd[job.d]
        /\ c \in Nums /\ Shaped(disk)
    BY <1>1, Acting, ShapedDisk DEF DescOK
  <1>4. Writes(b, m, ok) /\ b \in TableBlocks /\ m[Dir] = disk[Dir]
    BY <1>2, <1>3, EntryTears
  <1>5. /\ ok => /\ job'.pc = "cutMirror" /\ job'.from = job.from /\ job'.d = job.d
                 /\ ~job.whole => ~job'.whole
        /\ ~ok => job'.pc = "idle"
    BY <1>2, <1>3 DEF Goto, Return, Idle
  <1>6. ASSUME card = "on"
        PROVE  /\ Belongs(disk, L, c, Desc.name)
               /\ \A x \in Nums : First(m, x) = (IF x = c THEN End ELSE First(disk, x))
                                  /\ Second(m, x) = Second(disk, x)
    <2>1. Settled(disk, L, Desc, cut) /\ Task(disk, L, job, Desc, cut)
      BY <1>1, <1>3, <1>6, Underway DEF Freeing
    <2>2. c # 0
      BY <1>1, <2>1 DEF Task, Cutting
    <2> QED BY <1>3, <2>1, <2>2, PutFirst DEF Settled, Stands
  <1>7. ASSUME card = "on", NEW n \in Names \ torn, n # Desc.name PROVE Alike(disk, L, m, L, n)
    BY <1>3, <1>6, <1>7, FirstAlike DEF Belongs
  <1> HIDE DEF m, b, c
  <1>8. ASSUME ok, card = "on", Desc.name \notin torn PROVE Good(m, L, job', Desc, cut)
    <2>1. PICK C \in Nat : Doing(disk, L, job, Desc, C, cut)
      BY <1>1, <1>3, <1>8, Hand DEF Active
    <2>2. Halving(disk, L, job, Desc, C) /\ ~job.whole
      BY <1>1, <2>1 DEF Doing, Halving
    <2>3. \A x \in Clusters : /\ Second(m, x) = Second(disk, x)
                              /\ First(m, x) = (IF x = c THEN End ELSE First(disk, x))
      BY <1>3, <1>6, <1>8, ClusterNumbers
    <2>4. Parted(m, L, job', Desc, C)
      BY <1>3, <1>5, <1>8, <2>2, <2>3, CutParts DEF c
    <2>5. Doing(m, L, job', Desc, C, cut)
      BY <1>5, <1>8, <2>4 DEF Doing
    <2> QED BY <2>5 DEF Good
  <1>9. job'.pc \in {"idle", "cutMirror"} /\ (job'.pc = "idle" \/ job'.d = job.d)
    BY <1>5
  <1>10. Accounted(job.d, Desc) /\ OneChanged(job.d, Desc) /\ SameFile(Desc, Desc)
    BY <1>1, <1>9, StayOne
  <1> QED BY <1>1, <1>4, <1>7, <1>8, <1>9, <1>10, WriteSound

LEMMA CutMirrorSound ==
  ASSUME NEW L, Given(L), CutMirror
  PROVE  Sound(L)'
  <1> DEFINE c == Desc.cur
             b == Mirror(Sector(c))
             m == Put(disk, b, c, End)
  <1>1. job.pc = "cutMirror" /\ ~At("idle") /\ UNCHANGED <<fd, cut>>
    BY DEF CutMirror, At
  <1>2. PICK ok \in BOOLEAN :
          /\ Update(b, WithEntry(b, c, End), Miss(b), ok)
          /\ IF ok THEN Goto("free") ELSE Return
    BY DEF CutMirror
  <1>3. /\ IInv /\ Narrow /\ Sound(L) /\ Before(L) /\ DOMAIN job = DOMAIN Idle /\ Desc = fd[job.d]
        /\ c \in Nums /\ Shaped(disk)
    BY <1>1, Acting, ShapedDisk DEF DescOK
  <1>4. Writes(b, m, ok) /\ b \in TableBlocks /\ m[Dir] = disk[Dir]
    BY <1>2, <1>3, EntryTears
  <1>5. /\ ok => /\ job'.pc = "free" /\ job'.from = job.from /\ job'.d = job.d
                 /\ ~job.whole => ~job'.whole
        /\ ~ok => job'.pc = "idle"
    BY <1>2, <1>3 DEF Goto, Return, Idle
  <1>6. ASSUME card = "on"
        PROVE  /\ Belongs(disk, L, c, Desc.name) /\ Desc.name \in cut
               /\ \A x \in Nums : First(m, x) = First(disk, x)
                                  /\ Second(m, x) = (IF x = c THEN End ELSE Second(disk, x))
    <2>1. Settled(disk, L, Desc, cut) /\ Task(disk, L, job, Desc, cut)
      BY <1>1, <1>3, <1>6, Underway DEF Freeing
    <2>2. c # 0 /\ Desc.name \in cut
      BY <1>1, <2>1 DEF Task, Cutting, Moving
    <2> QED BY <1>3, <2>1, <2>2, PutSecond DEF Settled, Stands
  <1>7. ASSUME card = "on", NEW n \in Names \ torn, n # Desc.name PROVE Alike(disk, L, m, L, n)
    BY <1>3, <1>6, <1>7, SecondAlike DEF Belongs
  <1> HIDE DEF m, b, c
  <1>8. ASSUME ok, card = "on", Desc.name \notin torn PROVE Good(m, L, job', Desc, cut)
    <2>1. PICK C \in Nat : Doing(disk, L, job, Desc, C, cut)
      BY <1>1, <1>3, <1>8, Hand DEF Active
    <2>2. Parted(disk, L, job, Desc, C)
      BY <1>1, <2>1 DEF Doing
    <2>3. /\ ~job.whole /\ First(disk, c) = End /\ Belongs(disk, L, job.from, Desc.name)
          /\ Parting(disk, L, job, Desc, C, L.rank[job.from], c)
      BY <2>2 DEF Parted, c
    <2>4. \A x \in Clusters : /\ First(m, x) = First(disk, x)
                              /\ Second(m, x) = (IF x = c THEN End ELSE Second(disk, x))
      BY <1>3, <1>6, <1>8, ClusterNumbers
    <2>5. Heir(disk, m, L, Desc.name)
      <3>1. Used(disk, c) /\ End # 0
        BY <1>3, <1>6, <1>8, ClusterNumbers DEF Belongs
      <3> QED BY <2>4, <3>1 DEF Heir, Belongs, Used
    <2>6. Belongs(m, L, job'.from, Desc.name)
      BY <1>5, <1>8, <2>3, <2>5 DEF Heir, Belongs
    <2>7. /\ Remains(m, L, job', Desc) /\ Length(L, job', Desc) = Length(L, job, Desc)
      <3>1. Remains(disk, L, job', Desc)
        BY <1>5, <1>8, <2>3 DEF Remains, Parting
      <3> QED BY <1>5, <1>8, <2>3, <2>5, <3>1, HeirLocated DEF Length
    <2>8. \A x \in Clusters \ {0} : L.own[x] = Desc.name => First(m, x) = Second(m, x)
      BY <2>3, <2>4 DEF Parting, Formed
    <2>9. Parting(m, L, job', Desc, C, L.rank[job'.from], 0)
      BY <1>5, <1>8, <2>3, <2>5, <2>7, <2>8, HeirFormed DEF Parting
    <2>10. Losing(m, L, job', Desc, C)
      BY <2>6, <2>9 DEF Losing
    <2>11. Doing(m, L, job', Desc, C, cut)
      BY <1>5, <1>6, <1>8, <2>10 DEF Doing
    <2> QED BY <2>11 DEF Good
  <1>9. job'.pc \in {"idle", "free"} /\ (job'.pc = "idle" \/ job'.d = job.d)
    BY <1>5
  <1>10. Accounted(job.d, Desc) /\ OneChanged(job.d, Desc) /\ SameFile(Desc, Desc)
    BY <1>1, <1>9, StayOne
  <1> QED BY <1>1, <1>4, <1>7, <1>8, <1>9, <1>10, WriteSound

---------------------------------------------------------------------------
(* The clusters behind the cut, one after the other. *)

LEMMA AbortOne ==
  ASSUME NEW L, Given(L), ~At("idle"), AbortFree
  PROVE  \E f : OneChanged(job.d, f) /\ SameFile(f, Desc) /\ job'.pc = "idle"
  <1>1. IInv /\ job.d \in Fds /\ DescOK(Desc) /\ Desc = fd[job.d]
    BY Acting
  <1>2. job'.pc = "idle"
    BY DEF AbortFree, Return, Idle
  <1>3. CASE job.whole
    <2>1. OneChanged(job.d, Emptied(Desc))
      BY <1>1, <1>3, SetOne DEF AbortFree, Set
    <2>2. SameFile(Emptied(Desc), Desc)
      BY <1>1 DEF Emptied, DescOK, Free, SameFile
    <2> QED BY <1>2, <2>1, <2>2
  <1>4. CASE ~job.whole
    <2>1. OneChanged(job.d, Desc) /\ SameFile(Desc, Desc)
      BY <1>2, <1>4, StayOne DEF AbortFree
    <2> QED BY <1>2, <2>1
  <1> QED BY <1>3, <1>4

LEMMA FreedLost ==
  ASSUME NEW L, Before(L), NEW f, NEW C \in Nat, NEW j, Losing(disk, L, j, f, C), NEW m,
         \A x \in Clusters : /\ Second(m, x) = Second(disk, x)
                             /\ First(m, x) = (IF x = j.from THEN 0 ELSE First(disk, x)),
         NEW i, i.from = j.from, i.new = First(disk, j.from),
         j.whole => i.whole, ~j.whole => ~i.whole
  PROVE  Lost(m, L, i, f, C)
  <1> DEFINE c == j.from
             r == L.rank[c]
             n == Length(L, j, f)
             y == First(disk, c)
  <1>1. /\ Belongs(disk, L, c, f.name) /\ Remains(disk, L, j, f) /\ r \in n .. C - 1
        /\ Formed(disk, L, f.name, (0 .. n - 1) \cup (r .. C - 1), {n, C}, 0)
    BY DEF Losing, Parting
  <1>2. c \in Clusters /\ L.own[c] = f.name /\ r \in Nat /\ First(m, c) = 0
    BY <1>1, RanksNat DEF Belongs
  <1>3. \A x : /\ Belongs(disk, L, x, f.name) /\ x # c => Belongs(m, L, x, f.name)
               /\ Belongs(m, L, x, f.name) => Belongs(disk, L, x, f.name) /\ x # c
                                              /\ First(m, x) = First(disk, x)
    BY <1>2 DEF Belongs, Used
  <1>4. n \in Nat
    <2>1. CASE j.whole
      BY <2>1 DEF Length
    <2>2. CASE ~j.whole
      <3>1. Belongs(disk, L, f.cur, f.name)
        BY <1>1, <2>2 DEF Remains, Shortened, Located
      <3>2. L.rank[f.cur] \in Nat
        BY <3>1, RanksNat DEF Belongs
      <3> QED BY <2>2, <3>2 DEF Length
    <2> QED BY <2>1, <2>2
  <1>5. Remains(m, L, i, f) /\ Length(L, i, f) = n
    <2>1. CASE j.whole
      BY <1>1, <2>1 DEF Remains, Length
    <2>2. CASE ~j.whole
      <3>1. Shortened(disk, L, f) /\ n = L.rank[f.cur] + 1
        BY <1>1, <2>2 DEF Remains, Length
      <3>2. /\ Belongs(disk, L, f.cur, f.name) /\ Belongs(disk, L, f.cluster, f.name)
            /\ L.rank[f.cluster] = 0
        BY <3>1 DEF Shortened, Located, Begins
      <3>3. L.rank[f.cur] \in Nat
        BY <3>2, RanksNat DEF Belongs
      <3>4. f.cur # c /\ f.cluster # c
        BY <1>1, <1>2, <3>1, <3>2, <3>3
      <3>5. Shortened(m, L, f)
        BY <1>3, <3>1, <3>2, <3>4 DEF Shortened, Located, Begins
      <3> QED BY <2>2, <3>1, <3>5 DEF Remains, Length
    <2> QED BY <2>1, <2>2
  <1> HIDE DEF n
  <1>6. ASSUME NEW x \in Clusters, Belongs(m, L, x, f.name)
        PROVE  /\ L.rank[x] \in (0 .. n - 1) \cup (r + 1 .. C - 1)
               /\ IsLast(First(m, x)) => L.rank[x] + 1 \in {n, C}
               /\ L.rank[x] + 1 \in {n, C} => IsLast(First(m, x))
    <2>1. Belongs(disk, L, x, f.name) /\ x # c /\ First(m, x) = First(disk, x) /\ L.rank[x] \in Nat
      BY <1>3, <1>6, RanksNat
    <2>2. L.rank[x] \in (0 .. n - 1) \cup (r .. C - 1) /\ L.rank[x] # r
      BY <1>1, <1>2, <2>1 DEF Formed
    <2>3. L.rank[x] \in (0 .. n - 1) \cup (r + 1 .. C - 1)
      BY <1>2, <1>4, <2>1, <2>2
    <2> QED BY <1>1, <2>1, <2>3 DEF Formed
  <1>7. \A x, z \in Clusters :
          Belongs(m, L, x, f.name) /\ Belongs(m, L, z, f.name) /\ L.rank[x] = L.rank[z] => x = z
    BY <1>1, <1>3 DEF Formed
  <1>8. \A x \in Clusters \ {c} : L.own[x] = f.name => First(m, x) = Second(m, x)
    <2>1. 0 \notin Clusters
      BY ClusterNumbers DEF Before
    <2> QED BY <1>1, <2>1 DEF Formed
  <1>9. Formed(m, L, f.name, (0 .. n - 1) \cup (r + 1 .. C - 1), {n, C}, c)
    BY <1>6, <1>7, <1>8 DEF Formed
  <1>10. Parting(m, L, i, f, C, L.rank[i.from] + 1, i.from)
    BY <1>1, <1>5, <1>9 DEF Parting
  <1>11. IF IsLast(y) THEN r + 1 = C ELSE Belongs(m, L, y, f.name) /\ L.rank[y] = r + 1
    <2>1. CASE IsLast(y)
      <3>1. r + 1 \in {n, C}
        BY <1>1, <1>2, <2>1 DEF Formed
      <3> QED BY <1>1, <1>2, <1>4, <2>1, <3>1
    <2>2. CASE ~IsLast(y)
      <3>1. Belongs(disk, L, y, f.name) /\ L.rank[y] = r + 1
        BY <1>1, <2>2, WalkOn
      <3> QED BY <1>2, <1>3, <2>2, <3>1
    <2> QED BY <2>1, <2>2
  <1> QED BY <1>2, <1>10, <1>11 DEF Lost

LEMMA FreeClusterSound ==
  ASSUME NEW L, Given(L), FreeCluster
  PROVE  Sound(L)'
  <1> DEFINE c == job.from
             b == Table(Sector(c))
             next == Entry(c)
             m == Put(disk, b, c, 0)
  <1>1. job.pc = "free" /\ ~At("idle") /\ UNCHANGED cut
    BY DEF FreeCluster, At
  <1>2. PICK ok \in BOOLEAN :
          /\ IF next = 0 THEN Fetch(b, Miss(b), ok)
                         ELSE Update(b, WithEntry(b, c, 0), Miss(b), ok)
          /\ IF ok /\ next # 0
               THEN UNCHANGED fd /\ job' = [job EXCEPT !.pc = "freeMirror", !.new = next]
               ELSE AbortFree
    BY DEF FreeCluster
  <1>3. /\ IInv /\ Narrow /\ Sound(L) /\ Before(L) /\ DOMAIN job = DOMAIN Idle /\ Desc = fd[job.d]
        /\ c \in Nums /\ Shaped(disk)
    BY <1>1, Acting, ShapedDisk DEF IInv, Jobs
  <1>4. ASSUME card = "on"
        PROVE  /\ Belongs(disk, L, c, Desc.name) /\ next = First(disk, c) /\ next # 0
               /\ \A x \in Nums : First(m, x) = (IF x = c THEN 0 ELSE First(disk, x))
                                  /\ Second(m, x) = Second(disk, x)
    <2>1. Belongs(disk, L, c, Desc.name)
      BY <1>1, <1>3, <1>4, Released DEF Releasing, Behind, Freeing
    <2>2. next = First(disk, c)
      BY <1>3, <1>4, EntryRead
    <2> QED BY <1>3, <2>1, <2>2, PutFirst DEF Belongs, Used
  <1>5. CASE next = 0
    <2>1. Reads(b, ok) /\ b \in TableBlocks
      BY <1>2, <1>3, <1>5, FetchTears, TableBlockOf DEF Miss
    <2>2. card' # "on"
      BY <1>4, <1>5, <2>1, OffIsNotOn DEF Reads
    <2>3. AbortFree
      BY <1>2, <1>5
    <2>4. PICK f : OneChanged(job.d, f) /\ SameFile(f, Desc) /\ job'.pc = "idle"
      BY <1>1, <2>3, AbortOne
    <2> HIDE DEF b
    <2> QED BY <1>1, <1>3, <2>1, <2>2, <2>4, ReadFails
  <1>6. ASSUME card = "on", NEW n \in Names \ torn, n # Desc.name PROVE Alike(disk, L, m, L, n)
    BY <1>3, <1>4, <1>6, FirstAlike DEF Belongs
  <1>7. CASE next # 0
    <2>1. Writes(b, m, ok) /\ b \in TableBlocks /\ m[Dir] = disk[Dir]
      BY <1>2, <1>3, <1>7, EntryTears
    <2> HIDE DEF m, b, c, next
    <2>2. CASE ~ok
      <3>1. AbortFree
        BY <1>2, <2>2
      <3>2. PICK f : OneChanged(job.d, f) /\ SameFile(f, Desc) /\ job'.pc = "idle"
        BY <1>1, <3>1, AbortOne
      <3> QED BY <1>1, <1>6, <2>1, <2>2, <3>2, WriteSound
    <2>3. CASE ok
      <3>1. UNCHANGED fd /\ job' = [job EXCEPT !.pc = "freeMirror", !.new = next]
        BY <1>2, <1>7, <2>3
      <3>2. /\ job'.pc = "freeMirror" /\ job'.d = job.d /\ job'.from = job.from /\ job'.new = next
            /\ (job.whole => job'.whole) /\ (~job.whole => ~job'.whole)
        BY <1>3, <3>1 DEF Idle
      <3>3. Accounted(job.d, Desc) /\ OneChanged(job.d, Desc) /\ SameFile(Desc, Desc)
        BY <1>1, <3>1, <3>2, StayOne
      <3>4. ASSUME card = "on", Desc.name \notin torn PROVE Good(m, L, job', Desc, cut)
        <4>1. PICK C \in Nat : Doing(disk, L, job, Desc, C, cut)
          BY <1>1, <1>3, <3>4, Hand DEF Active
        <4>2. Losing(disk, L, job, Desc, C) /\ Desc.name \in cut
          BY <1>1, <4>1 DEF Doing
        <4>3. \A x \in Clusters : /\ Second(m, x) = Second(disk, x)
                                  /\ First(m, x) = (IF x = job.from THEN 0 ELSE First(disk, x))
          BY <1>3, <1>4, <3>4, ClusterNumbers DEF c
        <4>4. next = First(disk, job.from)
          BY <1>4, <3>4 DEF c
        <4>5. Lost(m, L, job', Desc, C)
          BY <1>3, <3>2, <4>2, <4>3, <4>4, FreedLost
        <4>6. Doing(m, L, job', Desc, C, cut)
          BY <3>2, <4>2, <4>5 DEF Doing
        <4> QED BY <4>6 DEF Good
      <3> QED BY <1>1, <1>6, <2>1, <2>3, <3>2, <3>3, <3>4, WriteSound
    <2> QED BY <2>2, <2>3
  <1> QED BY <1>5, <1>7

(* The second copy follows.  Either there is another cluster, or the file  *)
(* is what the cut has left of it.                                         *)
LEMMA LostOn ==
  ASSUME NEW L, Before(L), NEW f, NEW C \in Nat, NEW j, Lost(disk, L, j, f, C), NEW m,
         \A x \in Clusters : /\ First(m, x) = First(disk, x)
                             /\ Second(m, x) = (IF x = j.from THEN 0 ELSE Second(disk, x)),
         j.from \in Clusters
  PROVE  /\ ~IsLast(j.new) =>
              \A i : i.from = j.new /\ (j.whole => i.whole) /\ (~j.whole => ~i.whole)
                       => Losing(m, L, i, f, C)
         /\ IsLast(j.new) => /\ Complete(m, L, f.name, Length(L, j, f)) /\ Remains(m, L, j, f)
                             /\ Length(L, j, f) \in Nat
  <1> DEFINE c == j.from
             r == L.rank[c]
             n == Length(L, j, f)
  <1>1. /\ L.own[c] = f.name /\ First(disk, c) = 0 /\ Remains(disk, L, j, f) /\ r \in n .. C - 1
        /\ Formed(disk, L, f.name, (0 .. n - 1) \cup (r + 1 .. C - 1), {n, C}, c)
    BY DEF Lost, Parting
  <1>2. Heir(disk, m, L, f.name)
    BY <1>1 DEF Heir, Belongs, Used
  <1>3. r \in Nat /\ Remains(m, L, j, f)
    BY <1>1, <1>2, RanksNat, HeirLocated
  <1>4. n \in Nat
    <2>1. CASE j.whole
      BY <2>1 DEF Length
    <2>2. CASE ~j.whole
      <3>1. Belongs(disk, L, f.cur, f.name)
        BY <1>1, <2>2 DEF Remains, Shortened, Located
      <3>2. L.rank[f.cur] \in Nat
        BY <3>1, RanksNat DEF Belongs
      <3> QED BY <2>2, <3>2 DEF Length
    <2> QED BY <2>1, <2>2
  <1>5. Formed(m, L, f.name, (0 .. n - 1) \cup (r + 1 .. C - 1), {n, C}, 0)
    <2>1. \A x \in Clusters \ {0} : L.own[x] = f.name => First(m, x) = Second(m, x)
      BY <1>1 DEF Formed
    <2> QED BY <1>1, <1>2, <2>1, HeirFormed
  <1>6. ASSUME ~IsLast(j.new), NEW i, i.from = j.new, j.whole => i.whole, ~j.whole => ~i.whole
        PROVE  Losing(m, L, i, f, C)
    <2>1. Belongs(disk, L, j.new, f.name) /\ L.rank[j.new] = r + 1
      BY <1>6 DEF Lost
    <2>2. Belongs(m, L, j.new, f.name) /\ j.new \in Clusters
      BY <1>2, <2>1 DEF Heir, Belongs
    <2>3. Length(L, i, f) = n /\ Remains(m, L, i, f)
      BY <1>3, <1>6 DEF Length, Remains
    <2>4. L.rank[j.new] \in (0 .. n - 1) \cup (r + 1 .. C - 1)
      BY <1>5, <2>2 DEF Formed
    <2> HIDE DEF n
    <2>5. L.rank[j.new] \in n .. C - 1
      BY <1>1, <1>3, <1>4, <2>1, <2>4
    <2>6. Parting(m, L, i, f, C, L.rank[i.from], 0)
      BY <1>5, <1>6, <2>1, <2>3, <2>5 DEF Parting
    <2> QED BY <1>6, <2>2, <2>6 DEF Losing
  <1>7. ASSUME IsLast(j.new) PROVE Complete(m, L, f.name, n)
    <2>1. r + 1 = C
      BY <1>7 DEF Lost
    <2> HIDE DEF n
    <2>2. ASSUME NEW x \in Clusters, Belongs(m, L, x, f.name)
          PROVE  /\ L.rank[x] \in 0 .. n - 1
                 /\ IsLast(First(m, x)) => L.rank[x] + 1 \in {n}
                 /\ L.rank[x] + 1 \in {n} => IsLast(First(m, x))
      <3>1. /\ L.rank[x] \in (0 .. n - 1) \cup (r + 1 .. C - 1)
            /\ IsLast(First(m, x)) => L.rank[x] + 1 \in {n, C}
            /\ L.rank[x] + 1 \in {n, C} => IsLast(First(m, x))
        BY <1>5, <2>2 DEF Formed
      <3>2. L.rank[x] \in 0 .. n - 1 /\ L.rank[x] + 1 # C
        BY <1>1, <1>3, <1>4, <2>1, <3>1
      <3> QED BY <3>1, <3>2
    <2> QED BY <1>5, <2>2 DEF Complete, Formed
  <1> QED BY <1>3, <1>4, <1>6, <1>7

LEMMA FreeMirrorSound ==
  ASSUME NEW L, Given(L), FreeMirror
  PROVE  Sound(L)'
  <1> DEFINE c == job.from
             b == Mirror(Sector(c))
             m == Put(disk, b, c, 0)
             f == IF job.whole THEN Emptied(Desc) ELSE Ended(Desc)
  <1>1. job.pc = "freeMirror" /\ ~At("idle") /\ UNCHANGED cut
    BY DEF FreeMirror, At
  <1>2. PICK ok \in BOOLEAN :
          /\ Update(b, WithEntry(b, c, 0), Miss(b), ok)
          /\ CASE ~ok -> AbortFree
               [] ok /\ ~IsLast(job.new) ->
                    UNCHANGED fd /\ job' = [job EXCEPT !.pc = "free", !.from = job.new, !.new = 0]
               [] ok /\ IsLast(job.new) -> Set(f) /\ Return
    BY DEF FreeMirror
  <1>3. /\ IInv /\ Narrow /\ Sound(L) /\ Before(L) /\ DOMAIN job = DOMAIN Idle /\ Desc = fd[job.d]
        /\ c \in Nums /\ Shaped(disk) /\ DescOK(Desc) /\ job.d \in Fds
    BY <1>1, Acting, ShapedDisk DEF IInv, Jobs
  <1>4. ASSUME card = "on"
        PROVE  /\ c \in Clusters /\ First(disk, c) = 0
               /\ \A x \in Nums : First(m, x) = First(disk, x)
                                  /\ Second(m, x) = (IF x = c THEN 0 ELSE Second(disk, x))
    <2>1. c \in Clusters /\ First(disk, c) = 0
      BY <1>1, <1>3, <1>4, Released DEF Releasing, Freeing
    <2> QED BY <1>3, <2>1, PutSecond
  <1>5. Writes(b, m, ok) /\ b \in TableBlocks /\ m[Dir] = disk[Dir]
    BY <1>2, <1>3, EntryTears
  <1>6. ASSUME card = "on", NEW n \in Names \ torn, n # Desc.name PROVE Alike(disk, L, m, L, n)
    <2>1. Twin(disk, L, n)
      BY <1>1, <1>3, <1>6, OthersTwin
    <2> QED BY <1>3, <1>4, <1>6, <2>1, SecondAlike DEF Twin
  <1> HIDE DEF m, b, c
  <1>7. CASE ~ok
    <2>1. AbortFree
      BY <1>2, <1>7
    <2>2. PICK g : OneChanged(job.d, g) /\ SameFile(g, Desc) /\ job'.pc = "idle"
      BY <1>1, <2>1, AbortOne
    <2> QED BY <1>1, <1>5, <1>6, <1>7, <2>2, WriteSound
  <1>8. ASSUME card = "on", Desc.name \notin torn
        PROVE  /\ Desc.name \in cut
               /\ \E C \in Nat :
                    /\ ~IsLast(job.new) =>
                         \A i : i.from = job.new /\ (job.whole => i.whole) /\ (~job.whole => ~i.whole)
                                  => Losing(m, L, i, Desc, C)
                    /\ IsLast(job.new) =>
                         /\ Complete(m, L, Desc.name, Length(L, job, Desc))
                         /\ Remains(m, L, job, Desc) /\ Length(L, job, Desc) \in Nat
    <2>1. PICK C \in Nat : Doing(disk, L, job, Desc, C, cut)
      BY <1>1, <1>3, <1>8, Hand DEF Active
    <2>2. Lost(disk, L, job, Desc, C) /\ Desc.name \in cut
      BY <1>1, <2>1 DEF Doing
    <2>3. \A x \in Clusters : /\ First(m, x) = First(disk, x)
                              /\ Second(m, x) = (IF x = job.from THEN 0 ELSE Second(disk, x))
      BY <1>3, <1>4, <1>8, ClusterNumbers DEF c
    <2>4. job.from \in Clusters
      BY <1>4, <1>8 DEF c
    <2> QED BY <1>3, <2>2, <2>3, <2>4, LostOn
  <1>9. CASE ok /\ ~IsLast(job.new)
    <2>1. UNCHANGED fd /\ job' = [job EXCEPT !.pc = "free", !.from = job.new, !.new = 0]
      BY <1>2, <1>9
    <2>2. /\ job'.pc = "free" /\ job'.d = job.d /\ job'.from = job.new
          /\ (job.whole => job'.whole) /\ (~job.whole => ~job'.whole)
      BY <1>3, <2>1 DEF Idle
    <2>3. Accounted(job.d, Desc) /\ OneChanged(job.d, Desc) /\ SameFile(Desc, Desc)
      BY <1>1, <2>1, <2>2, StayOne
    <2>4. ASSUME card = "on", Desc.name \notin torn PROVE Good(m, L, job', Desc, cut)
      <3>1. PICK C \in Nat : Losing(m, L, job', Desc, C)
        BY <1>8, <1>9, <2>2, <2>4
      <3>2. Doing(m, L, job', Desc, C, cut)
        BY <1>8, <2>2, <2>4, <3>1 DEF Doing
      <3> QED BY <3>2 DEF Good
    <2> QED BY <1>1, <1>5, <1>6, <1>9, <2>2, <2>3, <2>4, WriteSound
  <1>10. CASE ok /\ IsLast(job.new)
    <2>1. Set(f) /\ job'.pc = "idle"
      BY <1>2, <1>10 DEF Return, Idle
    <2>2. OneChanged(job.d, f)
      BY <1>3, <2>1, SetOne DEF Set
    <2>3. SameFile(f, Desc) /\ Accounted(job.d, f)
      <3>1. /\ f.name = Desc.name /\ f.free = Desc.free /\ f.stale = Desc.stale
            /\ f.modified = Desc.modified /\ f.cluster = Desc.cluster /\ f.size = Desc.size
        BY <1>3 DEF Emptied, Ended, DescOK, Free
      <3> HIDE DEF f
      <3> QED BY <1>3, <3>1 DEF SameFile, Accounted
    <2>4. ASSUME card = "on", Desc.name \notin torn PROVE Good(m, L, job', f, cut)
      <3>1. /\ Complete(m, L, Desc.name, Length(L, job, Desc)) /\ Desc.name \in cut
            /\ Remains(m, L, job, Desc) /\ Length(L, job, Desc) \in Nat
        BY <1>8, <1>10, <2>4
      <3>2. CASE job.whole
        <4>1. Complete(m, L, Desc.name, 0) /\ Desc.cluster = 0 /\ Desc.size = 0
          BY <3>1, <3>2 DEF Length, Remains
        <4>2. f.cluster = 0 /\ f.size = 0 /\ f.name = Desc.name
          BY <1>3, <3>2, <4>1 DEF Emptied, DescOK, Free
        <4> HIDE DEF f
        <4>3. Resting(m, L, f, 0, cut)
          BY <3>1, <4>1, <4>2 DEF Resting, Spent
        <4> QED BY <2>1, <4>3, DoneGood
      <3>3. CASE ~job.whole
        <4>1. /\ Shortened(m, L, Desc) /\ Length(L, job, Desc) = L.rank[Desc.cur] + 1
              /\ f = Ended(Desc)
          BY <3>1, <3>3 DEF Remains, Length
        <4>2. /\ Located(m, L, Desc) /\ Belongs(m, L, Desc.cur, Desc.name)
              /\ Ending(L, Desc) /\ ~AtClusterStart(Desc) /\ Desc.cluster \in Clusters
          BY <4>1 DEF Shortened, Located, Begins, Belongs
        <4>3. L.rank[Desc.cur] \in Nat /\ Desc.cluster # 0
          BY <1>3, <4>2, RanksNat, ClusterNumbers DEF Belongs
        <4>4. /\ Standing(m, L, f, Length(L, job, Desc)) /\ f.cluster = Desc.cluster
              /\ f.name = Desc.name
          BY <1>3, <3>1, <4>1, <4>2, <4>3, EndedStanding
        <4>5. ~Spent(f, cut)
          BY <4>3, <4>4 DEF Spent
        <4> QED BY <2>1, <3>1, <4>4, <4>5, StandingGood
      <3> QED BY <3>2, <3>3
    <2> HIDE DEF f
    <2> QED BY <1>1, <1>5, <1>6, <1>10, <2>1, <2>2, <2>3, <2>4, WriteSound
  <1> QED BY <1>7, <1>9, <1>10

---------------------------------------------------------------------------
(* A cluster that is taken. *)

LEMMA AlikeStanding ==
  ASSUME NEW k, NEW L, NEW m, NEW M, NEW f, Alike(k, L, m, M, f.name), NEW C,
         Standing(k, L, f, C)
  PROVE  Standing(m, M, f, C)
  <1>1. ~Spent(f, {})
    BY DEF Spent
  <1>2. Resting(m, M, f, C, {})
    BY <1>1, AlikeResting DEF Resting
  <1> QED BY <1>1, <1>2 DEF Resting

LEMMA AlikeSending ==
  ASSUME NEW k, NEW L, NEW m, NEW M, NEW f, Alike(k, L, m, M, f.name), NEW C \in Nat, NEW j,
         Sending(k, L, j, f, C)
  PROVE  Sending(m, M, j, f, C)
  <1>1. CASE Standing(k, L, f, C)
    BY <1>1, AlikeStanding DEF Sending
  <1>2. CASE Attaching(k, L, j, f, C)
    <2>1. Complete(m, M, f.name, C) /\ Lies(m, M, f, C) /\ M.rank[f.cur] = L.rank[f.cur]
      BY <1>2, AlikeComplete, AlikeLies DEF Attaching
    <2>2. Points(M, f, C)
      BY <1>2, <2>1 DEF Attaching, Points, Base
    <2> QED BY <1>2, <2>1, <2>2 DEF Attaching, Sending
  <1> QED BY <1>1, <1>2 DEF Sending

(* A cluster that is free belongs to no file that is whole, or might as    *)
(* well: nothing is linked to it.                                          *)
LEMMA FreeTwin ==
  ASSUME NEW L, Given(L), card = "on", job.pc = "transfer", NEW n \in Names \ torn
  PROVE  Twin(disk, L, n)
  <1>1. ~At("idle")
    BY DEF At
  <1>2. Sound(L) /\ Narrow /\ Before(L)
    BY <1>1, Acting
  <1>3. CASE n # Desc.name
    BY <1>2, <1>3, OthersTwin
  <1>4. CASE n = Desc.name
    <2>1. PICK C \in Nat : Doing(disk, L, job, Desc, C, cut)
      BY <1>1, <1>2, <1>4, Hand DEF Active
    <2>2. Complete(disk, L, n, C)
      BY <1>4, <2>1 DEF Doing, Sending, Standing, Attaching
    <2> QED BY <1>2, <2>2, CompleteTwin DEF Complete
  <1> QED BY <1>3, <1>4

LEMMA ReleasedSound ==
  ASSUME NEW L, Given(L), job.pc = "transfer", NEW M, Before(M),
         \A n \in Names \ torn : Alike(disk, L, disk, M, n)
  PROVE  Given(M)
  <1>1. Sound(L) /\ ~At("idle")
    BY DEF Given, At
  <1>2. FilesOK(M)
    BY <1>1, AlikeFile DEF Sound, FilesOK
  <1>3. InHand(M)
    <2> SUFFICES ASSUME Active, NEW d \in Fds, InTurn(d) PROVE Good(disk, M, Job(d), fd[d], cut)
      BY DEF InHand
    <2>1. Good(disk, L, Job(d), fd[d], cut)
      BY <1>1 DEF Sound, InHand
    <2>2. Alike(disk, L, disk, M, fd[d].name)
      BY <1>1 DEF Sound, Engaged, InTurn
    <2>3. CASE job.d # d
      BY <2>1, <2>2, <2>3, AlikeGood DEF Job, Idle
    <2>4. CASE job.d = d
      <3>1. PICK C \in Nat : Doing(disk, L, job, fd[d], C, cut)
        BY <2>1, <2>4 DEF Good, Job
      <3>2. /\ ~Spent(fd[d], cut) /\ job.left \in Nat \ {0}
            /\ Sending(disk, M, job, fd[d], C)
        BY <2>2, <3>1, AlikeSending DEF Doing
      <3>3. Doing(disk, M, job, fd[d], C, cut)
        BY <3>2 DEF Doing
      <3> QED BY <2>4, <3>3 DEF Good, Job
    <2> QED BY <2>3, <2>4
  <1>4. Loose(M)
    BY DEF Loose, At
  <1> QED BY <1>1, <1>2, <1>3, <1>4 DEF Given, Sound

LEMMA Loosened ==
  ASSUME NEW L, Given(L), card = "on", job.pc = "transfer", NEW c \in Clusters,
         First(disk, c) = 0
  PROVE  \E M : Given(M) /\ M.own[c] \notin Names \ torn
  <1>1. /\ Before(L) /\ L \in Labels /\ Labelled(L) /\ 0 \notin Clusters /\ c # 0
        /\ Tables(disk, L, cut) /\ Live(L)
    BY ClusterNumbers DEF Given, Before, Labelled
  <1>2. CASE L.own[c] \notin Names \ torn
    BY <1>2
  <1>3. CASE L.own[c] \in Names \ torn
    <2>1. Second(disk, c) = 0
      BY <1>3, FreeTwin DEF Twin
    <2>2. Fresh(c) /\ NoneLeads(disk, c) /\ \A y \in Clusters : ~Leads(disk, c, y)
      <3>1. Fresh(c)
        BY <1>1, FreeFresh DEF Freeing, Used
      <3>2. NoneLeads(disk, c)
        BY <1>1 DEF NoneLeads, Tables, Links, Used
      <3> QED BY <1>1, <2>1, <3>1, <3>2 DEF Leads
    <2>3. PICK M \in Labels :
           /\ M.own[c] = None /\ M.rank[c] = 0
           /\ \A x \in Clusters \ {c} : M.own[x] = L.own[x] /\ M.rank[x] = L.rank[x]
      BY <1>1, Relabelling
    <2>4. Tables(disk, M, cut)
      BY <1>1, <2>2, <2>3, RelabelledTables DEF Fresh
    <2>5. ASSUME NEW d \in Fds, Usable(d) PROVE Settled(disk, M, fd[d], cut)
      <3>1. Settled(disk, L, fd[d], cut)
        BY <1>1, <2>5, Settlement DEF Releases, Freeing
      <3>2. fd[d].cluster # c /\ fd[d].cur # c /\ (~IsLast(fd[d].next) => fd[d].next # c)
        BY <2>2, <2>5 DEF Fresh
      <3> QED BY <1>1, <2>3, <3>1, <3>2, RelabelledSettled
    <2>6. Usable(job.d) /\ Task(disk, M, job, Desc, cut)
      BY <1>1 DEF Live, Task, Freeing
    <2>7. Live(M)
      BY <1>1, <2>5, <2>6 DEF Live
    <2>8. Before(M)
      BY <1>1, <2>3, <2>4, <2>7 DEF Before, Labelled
    <2>9. ASSUME NEW n \in Names \ torn PROVE Alike(disk, L, disk, M, n)
      <3>1. M.own[c] # n
        BY <2>3, ProgramsAssumption
      <3> QED BY <2>3, <3>1 DEF Alike, Belongs, Used
    <2>10. Given(M)
      BY <2>8, <2>9, ReleasedSound
    <2>11. M.own[c] \notin Names \ torn
      BY <2>3, ProgramsAssumption
    <2> QED BY <2>10, <2>11
  <1> QED BY <1>2, <1>3

Taken(c, ok) ==
  /\ Update(Table(Sector(c)), WithEntry(Table(Sector(c)), c, End),
            Miss(Table(0)) \/ Table(Sector(c)) # Table(0), ok)
  /\ IF ok THEN job' = [job EXCEPT !.pc = "takeMirror", !.new = c] ELSE Return

LEMMA TakeClusterKeptSound ==
  ASSUME NEW L, Given(L), TakeCluster, NEW c \in Nums, Entry(c) = 0,
         card = "on" => L.own[c] \notin Names \ torn, NEW ok \in BOOLEAN, Taken(c, ok)
  PROVE  Sound(L)'
  <1> DEFINE b == Table(Sector(c))
             m == Put(disk, b, c, End)
             miss == Miss(Table(0)) \/ b # Table(0)
  <1>1. /\ job.pc = "transfer" /\ ~At("idle") /\ UNCHANGED <<fd, cut>>
        /\ job.write /\ NeedsCluster(Desc)
    BY DEF TakeCluster, At
  <1>2. /\ IInv /\ Narrow /\ Sound(L) /\ Before(L) /\ DOMAIN job = DOMAIN Idle /\ Desc = fd[job.d]
        /\ Shaped(disk) /\ Desc.name \in Names
    BY <1>1, Acting, ShapedDisk
  <1>3. Writes(b, m, ok) /\ b \in TableBlocks /\ m[Dir] = disk[Dir]
    <2> HIDE DEF miss
    <2>1. Update(b, WithEntry(b, c, End), miss, ok)
      BY DEF miss, Taken
    <2> QED BY <1>2, <2>1, EntryTears
  <1>4. /\ ok => /\ job'.pc = "takeMirror" /\ job'.new = c /\ job'.left = job.left
                 /\ job'.d = job.d
        /\ ok => job'.write
        /\ ~ok => job'.pc = "idle"
    <2>1. CASE ok
      <3>1. job' = [job EXCEPT !.pc = "takeMirror", !.new = c]
        BY <2>1 DEF Taken
      <3>2. job.write /\ DOMAIN job = DOMAIN Idle
        BY <1>1, <1>2
      <3>3. /\ job'.pc = "takeMirror" /\ job'.new = c /\ job'.left = job.left
            /\ job'.d = job.d
        BY <3>1, <3>2 DEF Idle
      <3>4. job'.write
        BY <3>1, <3>2 DEF Idle
      <3> QED BY <2>1, <3>3, <3>4
    <2>2. CASE ~ok
      BY <2>2 DEF Taken, Return, Idle
    <2> QED BY <2>1, <2>2
  <1>5. card = "on" => c \in Clusters
    BY <1>2, EntryRead, ClusterNumbers DEF Before, Labelled, Tables, Filled, Used
  <1>6. ASSUME card = "on", NEW n \in Names \ torn PROVE Alike(disk, L, m, L, n)
    BY <1>2, <1>5, <1>6, FirstAlike
  <1> HIDE DEF m, b, miss
  <1>7. ASSUME ok, card = "on", Desc.name \notin torn PROVE Good(m, L, job', Desc, cut)
    <2>1. PICK C \in Nat : Doing(disk, L, job, Desc, C, cut)
      BY <1>1, <1>2, <1>7, Hand DEF Active
    <2>2. Sending(disk, L, job, Desc, C) /\ job.left \in Nat \ {0}
      BY <1>1, <2>1 DEF Doing
    <2>3. Standing(disk, L, Desc, C)
      BY <1>1, <1>2, <2>2, AttachingRoom DEF Sending
    <2>4. Standing(m, L, Desc, C)
      BY <1>2, <1>6, <1>7, <2>3, AlikeStanding
    <2>5. Wanting(job', Desc)
      BY <1>1, <1>4, <1>7, <2>2 DEF Wanting
    <2>6. Doing(m, L, job', Desc, C, cut)
      BY <1>4, <1>7, <2>4, <2>5 DEF Doing
    <2> QED BY <2>6 DEF Good
  <1>8. job'.pc \in {"idle", "takeMirror"} /\ (job'.pc = "idle" \/ job'.d = job.d)
    BY <1>4
  <1>9. Accounted(job.d, Desc) /\ OneChanged(job.d, Desc) /\ SameFile(Desc, Desc)
    BY <1>1, <1>8, StayOne
  <1>10. ok /\ job'.pc = "takeMirror" => L.own[job'.new] \notin Names \ torn
    BY <1>3, <1>4 DEF Writes, Wrote
  <1> QED BY <1>1, <1>3, <1>6, <1>7, <1>8, <1>9, <1>10, WriteSound

LEMMA TakeClusterSound ==
  ASSUME NEW L, Given(L), TakeCluster
  PROVE  WholeInv'
  <1>1. job.pc = "transfer" /\ ~At("idle") /\ IInv /\ Before(L) /\ Narrow
    BY DEF TakeCluster, At, Given, Before
  <1>2. PICK c \in FirstFree, ok \in BOOLEAN : Taken(c, ok)
    BY ZenonT(60) DEF TakeCluster, Taken
  <1>3. c \in Nums /\ Entry(c) = 0
    BY DEF FirstFree, FreeEntries, Nums
  <1>4. card = "on" => c \in Clusters /\ First(disk, c) = 0
    BY <1>1, <1>3, EntryRead, ClusterNumbers DEF Before, Labelled, Tables, Filled, Used
  <1>5. PICK M : Given(M) /\ (card = "on" => M.own[c] \notin Names \ torn)
    BY <1>1, <1>4, Loosened
  <1>6. Sound(M)'
    BY <1>2, <1>3, <1>5, TakeClusterKeptSound
  <1>7. Labelled(M)' /\ M \in Labels
    BY <1>5, TakeClusterLabels DEF Given, Before
  <1> QED BY <1>6, <1>7 DEF WholeInv

(* A cluster that is free joins a file as its last. *)
Joins(k, m, L, M, n, C, c) ==
  /\ c \in Clusters /\ C \in Nat /\ Complete(k, L, n, C) /\ L.own[c] # n
  /\ M.own[c] = n /\ M.rank[c] = C
  /\ \A x \in Clusters \ {c} : M.own[x] = L.own[x] /\ M.rank[x] = L.rank[x]
  /\ \A x \in Clusters : L.own[x] = n =>
       First(m, x) = First(k, x) /\ Second(m, x) = Second(k, x)
  /\ First(m, c) = End /\ Second(m, c) = End

LEMMA Joined ==
  ASSUME Small, NEW k, NEW m, NEW L, NEW M, NEW n, NEW C, NEW c, Joins(k, m, L, M, n, C, c)
  PROVE  /\ Formed(m, M, n, 0 .. C, {C, C + 1}, 0)
         /\ C = 0 => Complete(m, M, n, C + 1)
         /\ Belongs(m, M, c, n)
  <1>0. /\ c \in Clusters /\ C \in Nat /\ Complete(k, L, n, C) /\ L.own[c] # n
        /\ M.own[c] = n /\ M.rank[c] = C
        /\ \A x \in Clusters \ {c} : M.own[x] = L.own[x] /\ M.rank[x] = L.rank[x]
        /\ \A x \in Clusters : L.own[x] = n =>
             First(m, x) = First(k, x) /\ Second(m, x) = Second(k, x)
        /\ First(m, c) = End /\ Second(m, c) = End
    BY DEF Joins
  <1>1. IsLast(End) /\ End # 0 /\ 0 \notin Clusters
    BY SmallNumbers, ClusterNumbers
  <1>2. Belongs(m, M, c, n)
    BY <1>0, <1>1 DEF Belongs, Used
  <1>4. ASSUME NEW x, Belongs(m, M, x, n), x # c
        PROVE  /\ x \in Clusters /\ Belongs(k, L, x, n) /\ M.rank[x] = L.rank[x]
               /\ First(m, x) = First(k, x)
    BY <1>0, <1>4 DEF Belongs, Used
  <1>5. ASSUME NEW x, Belongs(m, M, x, n), x # c
        PROVE  /\ M.rank[x] \in 0 .. C - 1
               /\ IsLast(First(m, x)) => M.rank[x] + 1 = C
               /\ M.rank[x] + 1 = C => IsLast(First(m, x))
    BY <1>0, <1>4, <1>5 DEF Complete, Formed
  <1>6. \A x, y \in Clusters :
          Belongs(m, M, x, n) /\ Belongs(m, M, y, n) /\ M.rank[x] = M.rank[y] => x = y
    <2> SUFFICES ASSUME NEW x \in Clusters, NEW y \in Clusters, Belongs(m, M, x, n),
                        Belongs(m, M, y, n), M.rank[x] = M.rank[y]
                 PROVE  x = y
      OBVIOUS
    <2>1. CASE x # c /\ y # c
      BY <1>0, <1>4, <2>1 DEF Complete, Formed
    <2>2. CASE x = c /\ y # c
      BY <1>0, <1>5, <2>2
    <2>3. CASE x # c /\ y = c
      BY <1>0, <1>5, <2>3
    <2> QED BY <2>1, <2>2, <2>3
  <1>7. \A x \in Clusters \ {0} : M.own[x] = n => First(m, x) = Second(m, x)
    BY <1>0, <1>1 DEF Complete, Formed
  <1>8. Formed(m, M, n, 0 .. C, {C, C + 1}, 0)
    <2>1. ASSUME NEW x \in Clusters, Belongs(m, M, x, n)
          PROVE  /\ M.rank[x] \in 0 .. C
                 /\ IsLast(First(m, x)) => M.rank[x] + 1 \in {C, C + 1}
                 /\ M.rank[x] + 1 \in {C, C + 1} => IsLast(First(m, x))
      <3>1. CASE x = c
        BY <1>0, <1>1, <3>1
      <3>2. CASE x # c
        BY <1>0, <1>5, <2>1, <3>2
      <3> QED BY <3>1, <3>2
    <2> QED BY <1>6, <1>7, <2>1 DEF Formed
  <1>9. ASSUME C = 0 PROVE Complete(m, M, n, C + 1)
    <2>1. ASSUME NEW x \in Clusters, Belongs(m, M, x, n)
          PROVE  x = c
      BY <1>0, <1>5, <1>9, <2>1
    <2>2. ASSUME NEW x \in Clusters, Belongs(m, M, x, n)
          PROVE  /\ M.rank[x] \in 0 .. (C + 1) - 1
                 /\ IsLast(First(m, x)) => M.rank[x] + 1 \in {C + 1}
                 /\ M.rank[x] + 1 \in {C + 1} => IsLast(First(m, x))
      BY <1>0, <1>1, <2>1, <2>2
    <2> QED BY <1>6, <1>7, <2>2 DEF Complete, Formed
  <1> QED BY <1>2, <1>8, <1>9

LEMMA JoinedKeeps ==
  ASSUME NEW k, NEW m, NEW L, NEW M, NEW n, NEW C, NEW c, Joins(k, m, L, M, n, C, c),
         NEW x, Belongs(k, L, x, n)
  PROVE  Belongs(m, M, x, n) /\ M.rank[x] = L.rank[x] /\ First(m, x) = First(k, x)
  BY DEF Joins, Belongs, Used

(* The others do not see the label that is given. *)
LEMMA MarkedAlike ==
  ASSUME NEW m, NEW L, NEW M, NEW c, NEW n, L.own[c] # n, M.own[c] # n,
         \A x \in Clusters \ {c} : M.own[x] = L.own[x] /\ M.rank[x] = L.rank[x]
  PROVE  Alike(m, L, m, M, n)
  BY DEF Alike, Belongs

(* A descriptor of a file that has no cluster. *)
LEMMA NoCluster ==
  ASSUME NEW L, Before(L), NEW f, DescOK(f), NEW C \in Nat, Standing(disk, L, f, C), f.cur = 0
  PROVE  /\ C = 0 /\ f.size = 0 /\ f.last = 0 /\ f.pos = 0 /\ f.block = 0 /\ f.index = 0
         /\ f.cluster = 0
  <1>1. /\ Complete(disk, L, f.name, C) /\ Lies(disk, L, f, C) /\ Fills(f.size, f.last, C)
        /\ Points(L, f, C)
    BY DEF Standing, Ready
  <1>2. C = 0
    BY <1>1, LiesIn
  <1>3. f.size = 0 /\ f.last = 0 /\ f.cluster = 0
    BY <1>1, <1>2 DEF Fills, Lies
  <1>4. Within(f) /\ f.pos = 0 + Offset(f) /\ f.pos <= 0
    BY <1>1, <1>2, <1>3 DEF Points, Base
  <1>5. Offset(f) \in Nat
    BY <1>4, OffsetRange, Geometry
  <1>6. Offset(f) = 0 /\ f.pos = 0
    BY <1>4, <1>5
  <1>7. AtClusterStart(f)
    BY <1>4, <1>6, OffsetRange
  <1> QED BY <1>2, <1>3, <1>6, <1>7 DEF AtClusterStart

LEMMA AttachedFirst ==
  ASSUME NEW f, DescOK(f), f.cur = 0, NEW c
  PROVE  LET g == Attached(f, c)
         IN  /\ g.cur = c /\ g.next = End /\ g.cluster = c /\ g.name = f.name
             /\ g.last = f.last /\ g.block = f.block /\ g.index = f.index /\ g.pos = f.pos
             /\ g.size = f.size /\ SameFile(g, f) /\ g.addr = FirstBlock(c)
             /\ g.modified
  BY DEF Attached, DescOK, Free, SameFile

LEMMA TakeMirrorSound ==
  ASSUME NEW L, Given(L), TakeMirror
  PROVE  WholeInv'
  <1> DEFINE c == job.new
             s == Sector(c)
             m == Copy(disk, Table(s), Mirror(s))
             g == Attached(Desc, c)
  <1>1. job.pc = "takeMirror" /\ ~At("idle") /\ UNCHANGED cut /\ c \in Nums
        /\ cacheAddr = Table(s)
    BY DEF TakeMirror, At, IInv, Jobs, Given, Before
  <1>2. PICK ok \in BOOLEAN :
          /\ Flush(Mirror(s), cache, ok)
          /\ CASE ok /\ Desc.cur = 0 -> Set(g) /\ Continue(job.left)
               [] ok /\ Desc.cur # 0 -> UNCHANGED fd /\ Goto("link")
               [] ~ok                -> UNCHANGED fd /\ Return
    BY ZenonT(60) DEF TakeMirror
  <1>3. /\ IInv /\ Narrow /\ Sound(L) /\ Before(L) /\ DOMAIN job = DOMAIN Idle /\ Desc = fd[job.d]
        /\ DescOK(Desc) /\ job.d \in Fds /\ Usable(job.d) /\ Desc.name \in Names
        /\ Shaped(disk) /\ s \in SectorNumbers /\ Small
    BY <1>1, Acting, ShapedDisk, EntryPlace
  <1>4. PICK M \in Labels : Labelled(M)' /\ Marked(L, M)
    BY <1>1, <1>3, TakeMirrorMarks
  <1>5. Writes(Mirror(s), m, ok) /\ Mirror(s) \in TableBlocks /\ m[Dir] = disk[Dir]
    BY <1>1, <1>2, <1>3, SectorTears
  <1>6. ASSUME card = "on", NEW n \in Names \ torn, n # Desc.name PROVE Alike(disk, L, m, L, n)
    <2>1. Twin(disk, L, n)
      BY <1>1, <1>3, <1>6, OthersTwin
    <2> QED BY <1>3, <2>1, CopyAlike
  <1>7. \A x \in Clusters :
          /\ First(m, x) = First(disk, x)
          /\ Second(m, x) = (IF Sector(x) = s THEN First(disk, x) ELSE Second(disk, x))
    BY <1>3, ClusterNumbers, CopyEntries
  <1>8. CASE ~ok
    <2>1. UNCHANGED fd /\ job'.pc = "idle"
      BY <1>2, <1>8 DEF Return, Idle
    <2>2. OneChanged(job.d, Desc) /\ SameFile(Desc, Desc)
      BY <1>1, <2>1, StayOne
    <2>3. M = L
      BY <1>4, <1>5, <1>8, OffIsNotOn DEF Writes, Wrote, Marked
    <2> HIDE DEF m
    <2>4. Sound(L)'
      BY <1>1, <1>3, <1>5, <1>6, <1>8, <2>1, <2>2, WriteSound
    <2> QED BY <1>4, <2>3, <2>4 DEF WholeInv
  <1>9. CASE ok
    <2>1. card = "on" /\ card' = "on" /\ card' = card /\ disk' = m /\ torn' = torn
      BY <1>5, <1>9 DEF Writes, Wrote, Tears
    <2>2. /\ c \in Clusters /\ First(disk, c) = End /\ job.left \in Nat
      BY <1>1, <1>3, <2>1, Underway DEF Task, Taking
    <2>3. /\ M.own[c] = Desc.name
          /\ M.rank[c] = IF Desc.cur = 0 THEN 0 ELSE L.rank[Desc.cur] + 1
          /\ \A x \in Clusters \ {c} : M.own[x] = L.own[x] /\ M.rank[x] = L.rank[x]
          /\ L.own[c] \notin Names \ torn
      BY <1>1, <1>3, <1>4, <2>1 DEF Marked, Sound, Loose, At
    <2>4. Steady(L, M, fd[job.d].name)
      <3> SUFFICES ASSUME NEW n \in Names \ torn, n # Desc.name PROVE Alike(disk, L, m, M, n)
        BY <1>1, <1>3, <2>1 DEF Steady
      <3>1. Alike(disk, L, m, L, n)
        BY <1>6, <2>1
      <3> HIDE DEF m, c
      <3>2. Alike(m, L, m, M, n)
        BY <2>3, MarkedAlike
      <3> QED BY <3>1, <3>2, AlikeTwice
    <2>5. ASSUME Desc.name \notin torn
          PROVE  \E C \in Nat :
                   /\ Wanting(job, Desc) /\ Standing(disk, L, Desc, C)
                   /\ Complete(disk, L, Desc.name, C) /\ L.own[c] # Desc.name
                   /\ \A x \in Clusters : L.own[x] = Desc.name =>
                        First(m, x) = First(disk, x) /\ Second(m, x) = Second(disk, x)
                   /\ First(m, c) = End /\ Second(m, c) = End
      <3>1. PICK C \in Nat : Doing(disk, L, job, Desc, C, cut)
        BY <1>1, <1>3, <2>1, <2>5, Hand DEF Active
      <3>2. Wanting(job, Desc) /\ Standing(disk, L, Desc, C) /\ Complete(disk, L, Desc.name, C)
        BY <1>1, <3>1 DEF Doing, Standing
      <3>3. Twin(disk, L, Desc.name)
        BY <1>3, <3>2, CompleteTwin DEF Complete
      <3>4. \A x \in Clusters : L.own[x] = Desc.name =>
              First(m, x) = First(disk, x) /\ Second(m, x) = Second(disk, x)
        BY <1>7, <3>3 DEF Twin
      <3>5. First(m, c) = End /\ Second(m, c) = End
        BY <1>7, <2>2
      <3>6. L.own[c] # Desc.name
        BY <1>3, <2>3, <2>5
      <3> HIDE DEF m, c
      <3> QED BY <3>2, <3>4, <3>5, <3>6
    <2>6. Active /\ Tears
      BY <1>5, <2>1 DEF Active, Writes
    <2>7. CASE Desc.cur = 0
      <3>1. Set(g) /\ Continue(job.left)
        BY <1>2, <1>9, <2>7
      <3>2. /\ g.cur = c /\ g.next = End /\ g.cluster = c /\ g.name = Desc.name
            /\ g.last = Desc.last /\ g.block = Desc.block /\ g.index = Desc.index
            /\ g.pos = Desc.pos /\ g.size = Desc.size /\ SameFile(g, Desc)
            /\ g.addr = FirstBlock(c) /\ g.modified
        BY <1>3, <2>7, AttachedFirst
      <3>3. OneChanged(job.d, g)
        BY <1>3, <3>1, SetOne DEF Set
      <3>4. job'.pc \in {"idle", "transfer"} /\ (job'.pc = "idle" \/ job'.d = job.d)
        BY <1>3, <3>1, ContinuePc
      <3>5. One(job.d, g) /\ Accounted(job.d, g) /\ Loose(M)'
        BY <1>3, <3>2, <3>3, <3>4 DEF One, Accounted, Loose, At
      <3> HIDE DEF g, m, s
      <3>6. ASSUME Desc.name \notin torn PROVE Good(m, M, job', g, cut')
        <4>1. PICK C \in Nat :
                   /\ Wanting(job, Desc) /\ Standing(disk, L, Desc, C)
                   /\ Complete(disk, L, Desc.name, C) /\ L.own[c] # Desc.name
                   /\ \A x \in Clusters : L.own[x] = Desc.name =>
                        First(m, x) = First(disk, x) /\ Second(m, x) = Second(disk, x)
                   /\ First(m, c) = End /\ Second(m, c) = End
          BY <2>5, <3>6
        <4>2. /\ C = 0 /\ Desc.size = 0 /\ Desc.last = 0 /\ Desc.pos = 0 /\ Desc.block = 0
              /\ Desc.index = 0
          BY <1>3, <2>7, <4>1, NoCluster
        <4>3. M.rank[c] = C
          BY <2>3, <2>7, <4>2
        <4> HIDE DEF c
        <4>4. Complete(m, M, Desc.name, C + 1) /\ Belongs(m, M, c, Desc.name)
          <5>1. Small /\ c \in Clusters /\ M.own[c] = Desc.name
            BY <1>3, <2>2, <2>3
          <5>2. \A x \in Clusters \ {c} : M.own[x] = L.own[x] /\ M.rank[x] = L.rank[x]
            BY <2>3
          <5>3. Joins(disk, m, L, M, Desc.name, C, c)
            BY <4>1, <4>2, <4>3, <5>1, <5>2 DEF Joins
          <5> QED BY <4>2, <5>1, <5>3, Joined
        <4>5. Begins(m, M, c, Desc.name)
          BY <4>2, <4>3, <4>4 DEF Begins
        <4>6. job.left \in Nat \ {0} /\ job.write
          BY <4>1 DEF Wanting
        <4>7. job'.pc = "transfer" /\ job'.left \in Nat \ {0}
          BY <1>3, <3>1, <4>6 DEF Continue, Idle
        <4>8. job'.write
          BY <1>3, <3>1, <4>6 DEF Continue, Idle
        <4>9. C * ClusterSize = 0
          BY <4>2, Geometry
        <4> QED BY <1>3, <3>2, <4>2, <4>3, <4>4, <4>5, <4>7, <4>8, <4>9, OnNewCluster
      <3>7. Active' /\ g.name \notin torn => Good(disk', M, job', g, cut')
        BY <2>1, <3>2, <3>6
      <3>8. Sound(M)'
        BY <1>3, <1>5, <2>1, <2>4, <2>6, <3>5, <3>7, StepSound
      <3> QED BY <1>4, <3>8 DEF WholeInv
    <2>8. CASE Desc.cur # 0
      <3>1. UNCHANGED fd /\ Goto("link")
        BY <1>2, <1>9, <2>8
      <3>2. /\ job'.pc = "link" /\ job'.d = job.d /\ job'.new = c /\ job'.left = job.left
        BY <1>3, <3>1 DEF Goto, Idle
      <3>3. One(job.d, Desc) /\ Accounted(job.d, Desc)
        BY <1>1, <3>1, <3>2, StayOne
      <3>4. Loose(M)'
        BY <3>2 DEF Loose, At
      <3> HIDE DEF g, m, s
      <3>5. ASSUME Desc.name \notin torn PROVE Good(m, M, job', Desc, cut')
        <4>1. PICK C \in Nat :
                   /\ Wanting(job, Desc) /\ Standing(disk, L, Desc, C)
                   /\ Complete(disk, L, Desc.name, C) /\ L.own[c] # Desc.name
                   /\ \A x \in Clusters : L.own[x] = Desc.name =>
                        First(m, x) = First(disk, x) /\ Second(m, x) = Second(disk, x)
                   /\ First(m, c) = End /\ Second(m, c) = End
          BY <2>5, <3>5
        <4>2. C > 0 /\ Ready(disk, L, Desc, C) /\ NeedsCluster(Desc)
          BY <2>8, <4>1 DEF Standing, Ready, Lies, Wanting
        <4>3. /\ Desc.cur \in Clusters /\ IsLast(Desc.next) /\ L.rank[Desc.cur] \in Nat
              /\ L.rank[Desc.cur] + 1 = C /\ Belongs(disk, L, Desc.cur, Desc.name)
              /\ Begins(disk, L, Desc.cluster, Desc.name)
          BY <1>3, <4>2, FullCluster, RanksNat, ClusterNumbers
        <4>4. M.rank[c] = C
          BY <2>3, <2>8, <4>3
        <4> HIDE DEF c
        <4>5. /\ Formed(m, M, Desc.name, 0 .. C, {C, C + 1}, 0) /\ Belongs(m, M, c, Desc.name)
              /\ \A x : Belongs(disk, L, x, Desc.name) =>
                   Belongs(m, M, x, Desc.name) /\ M.rank[x] = L.rank[x] /\ First(m, x) = First(disk, x)
          <5>1. Small /\ c \in Clusters /\ M.own[c] = Desc.name
            BY <1>3, <2>2, <2>3
          <5>2. \A x \in Clusters \ {c} : M.own[x] = L.own[x] /\ M.rank[x] = L.rank[x]
            BY <2>3
          <5>3. Joins(disk, m, L, M, Desc.name, C, c)
            BY <4>1, <4>4, <5>1, <5>2 DEF Joins
          <5>4. Formed(m, M, Desc.name, 0 .. C, {C, C + 1}, 0) /\ Belongs(m, M, c, Desc.name)
            BY <5>1, <5>3, Joined
          <5>5. ASSUME NEW x, Belongs(disk, L, x, Desc.name)
                PROVE  /\ Belongs(m, M, x, Desc.name) /\ M.rank[x] = L.rank[x]
                       /\ First(m, x) = First(disk, x)
            BY <5>3, <5>5, JoinedKeeps
          <5> QED BY <5>4, <5>5
        <4>6. Lies(m, M, Desc, C)
          BY <4>2, <4>3, <4>5 DEF Lies, Located, Begins
        <4>7. Points(M, Desc, C)
          BY <4>2, <4>3, <4>5 DEF Ready, Points, Base
        <4>8. Ready(m, M, Desc, C)
          BY <4>2, <4>6, <4>7 DEF Ready
        <4>9. Wanting(job', Desc)
          <5>1. job.write
            BY <4>1 DEF Wanting
          <5>2. job'.write
            BY <1>3, <3>1, <5>1 DEF Goto, Idle
          <5> QED BY <3>2, <4>1, <5>2 DEF Wanting
        <4>10. Extending(m, M, job', Desc, C, 0)
          BY <3>2, <4>2, <4>4, <4>5, <4>8, <4>9 DEF Extending
        <4>11. Doing(m, M, job', Desc, C, cut')
          BY <3>2, <4>10 DEF Doing
        <4> QED BY <4>11 DEF Good
      <3>6. Active' /\ Desc.name \notin torn => Good(disk', M, job', Desc, cut')
        BY <2>1, <3>5
      <3>7. Sound(M)'
        BY <1>3, <1>5, <2>1, <2>4, <2>6, <3>3, <3>4, <3>6, StepSound
      <3> QED BY <1>4, <3>7 DEF WholeInv
    <2> QED BY <2>7, <2>8
  <1> QED BY <1>8, <1>9

---------------------------------------------------------------------------
(* A chunk that is transferred. *)

LEMMA WordKept ==
  ASSUME NEW x \in Int, x >= 0, x < 65536
  PROVE  U16(x) = x
  BY DEF U16

LEMMA GrownSame ==
  ASSUME NEW f, DescOK(f)
  PROVE  LET g == Grown(f)
         IN  /\ g.name = f.name /\ g.cluster = f.cluster /\ g.cur = f.cur /\ g.next = f.next
             /\ g.block = f.block /\ g.index = f.index /\ g.pos = f.pos /\ g.addr = f.addr
             /\ DescOK(g) /\ SameFile(g, f)
             /\ ~Grows(f) => g = f
             /\ Grows(f) =>
                  LET delta == U16(f.index + ChunkLen(f) - Remainder(f))
                  IN  g.modified /\ g.last = U16(f.last + delta) /\ g.size = f.size + delta
  BY DEF Grown, DescOK, Free, SameFile

(* What a chunk of n bytes does to a descriptor of a file: base bytes are  *)
(* in the clusters before its own.                                         *)
Fits(f, n) ==
  /\ n \in Nat /\ n > 0 /\ n <= job.left /\ f.block \in Nat /\ f.block < BlocksPerCluster
  /\ f.index \in Nat /\ f.index + n <= BlockSize

(* In a cluster that is not the last: up to the end of the block. *)
LEMMA ChunkBetween ==
  ASSUME NEW f, Within(f), ~IsLast(f.next), f.block # BlocksPerCluster, job.left \in Nat \ {0}
  PROVE  Fits(f, ChunkLen(f)) /\ ~Grows(f)
  <1>1. ~InLastBlock(f) /\ ~Grows(f) /\ Room(f) = BlockSize - f.index
    BY DEF InLastBlock, Grows, Room
  <1>2. /\ f.block \in Nat /\ f.block < BlocksPerCluster /\ f.index \in Nat /\ f.index < BlockSize
    BY Geometry DEF Within
  <1>3. ChunkLen(f) = Least(job.left, BlockSize - f.index)
    BY <1>1 DEF ChunkLen
  <1> QED BY <1>1, <1>2, <1>3, Geometry DEF Fits, Least

(* In the last cluster: up to the end of the file, or past it.             *)
Ends(f, base) ==
  /\ Within(f) /\ IsLast(f.next) /\ f.last \in Nat /\ f.last <= ClusterSize
  /\ base \in Nat /\ f.size = base + f.last /\ f.pos = base + Offset(f) /\ f.pos <= f.size

LEMMA LastRemainder ==
  ASSUME Small, NEW f, NEW base, Ends(f, base)
  PROVE  /\ Offset(f) = f.block * BlockSize + f.index /\ f.block * BlockSize \in Nat
         /\ Remainder(f) = f.last - f.block * BlockSize
         /\ Remainder(f) \in Nat /\ f.index <= Remainder(f) /\ f.index \in Nat
         /\ f.index < BlockSize
         /\ InLastBlock(f) => Room(f) = Remainder(f) - f.index
         /\ InLastBlock(f) <=> Remainder(f) <= BlockSize
         /\ f.block \in Nat /\ f.block <= BlocksPerCluster
  <1>1. /\ Within(f) /\ f.last \in Nat /\ f.last <= ClusterSize /\ base \in Nat /\ IsLast(f.next)
        /\ base + Offset(f) <= base + f.last /\ ClusterSize < 65536 /\ ClusterSize \in Nat
    BY Geometry DEF Ends, Small
  <1>2. f.index \in Nat /\ f.index < BlockSize /\ f.block \in Nat /\ f.block <= BlocksPerCluster
    BY <1>1, Geometry DEF Within
  <1> DEFINE q == f.block * BlockSize
  <1>3. q \in Nat /\ Offset(f) = q + f.index
    BY <1>1, OffsetRange DEF Offset
  <1> HIDE DEF q
  <1>4. f.last - q \in Nat /\ f.last - q < 65536 /\ f.index <= f.last - q
    BY <1>1, <1>2, <1>3
  <1>5. Remainder(f) = f.last - q
    <2>1. Remainder(f) = U16(f.last - q)
      BY DEF Remainder, q
    <2> QED BY <1>4, <2>1, WordKept
  <1>6. InLastBlock(f) => Room(f) = Remainder(f) - f.index
    <2>1. InLastBlock(f) => Room(f) = U16(Remainder(f) - f.index)
      BY DEF Room
    <2>2. Remainder(f) - f.index \in Nat /\ Remainder(f) - f.index < 65536
      BY <1>2, <1>4, <1>5
    <2> QED BY <2>1, <2>2, WordKept
  <1>7. InLastBlock(f) <=> Remainder(f) <= BlockSize
    BY <1>1 DEF InLastBlock
  <1> QED BY <1>2, <1>3, <1>4, <1>5, <1>6, <1>7 DEF q

LEMMA ChunkAtEnd ==
  ASSUME Small, NEW f, NEW base, Ends(f, base), DescOK(f), job.left \in Nat \ {0},
         ~(job.write /\ NeedsCluster(f)), ChunkLen(f) > 0
  PROVE  /\ Fits(f, ChunkLen(f))
         /\ ~Grows(f) => f.pos + ChunkLen(f) <= f.size
         /\ Grows(f) => LET g == Grown(f)
                        IN  /\ g.last = Offset(f) + ChunkLen(f) /\ g.last <= ClusterSize
                            /\ g.size = f.pos + ChunkLen(f) /\ f.size <= g.size
                            /\ g.size = base + g.last
  <1> DEFINE n == ChunkLen(f)
             q == f.block * BlockSize
             r == Remainder(f)
             delta == U16(f.index + n - r)
  <1>1. /\ f.last \in Nat /\ f.last <= ClusterSize /\ base \in Nat /\ IsLast(f.next)
        /\ f.size = base + f.last /\ f.pos = base + Offset(f) /\ ClusterSize < 65536
        /\ ClusterSize \in Nat /\ BlockSize \in Nat /\ BlockSize > 0 /\ Within(f)
    BY Geometry DEF Ends, Small
  <1>2. /\ q \in Nat /\ Offset(f) = q + f.index /\ r = f.last - q /\ r \in Nat /\ f.index <= r
        /\ f.index \in Nat /\ f.index < BlockSize /\ f.block \in Nat
        /\ f.block <= BlocksPerCluster
        /\ InLastBlock(f) => Room(f) = r - f.index
        /\ InLastBlock(f) <=> r <= BlockSize
    BY LastRemainder
  <1>3. n = Least(job.left, IF Grows(f) THEN BlockSize - f.index ELSE Room(f)) /\ n > 0
    BY DEF ChunkLen
  <1>4. Grows(f) => job.write /\ InLastBlock(f) /\ job.left > r - f.index
    BY <1>2 DEF Grows
  <1>5. ~InLastBlock(f) => Room(f) = BlockSize - f.index /\ ~Grows(f)
    BY DEF Room, Grows
  <1>6. f.block < BlocksPerCluster
    <2>1. CASE f.block = BlocksPerCluster
      <3>1. ~job.write /\ ~Grows(f)
        BY <1>1, <1>4, <2>1 DEF NeedsCluster
      <3>2. q = ClusterSize /\ f.index = 0
        BY <1>1, <1>2, <2>1, OffsetRange DEF Within
      <3>3. r = 0 /\ Room(f) = 0
        BY <1>1, <1>2, <3>2
      <3>4. n = Least(job.left, 0)
        BY <1>3, <3>1, <3>3
      <3> QED BY <1>3, <3>4 DEF Least
    <2> QED BY <1>2, <2>1, Geometry
  <1>7. q + BlockSize <= ClusterSize
    BY <1>1, <1>6, OffsetRange
  <1>8. CASE ~Grows(f)
    <2>1. n = Least(job.left, Room(f)) /\ Room(f) \in Int /\ Room(f) <= BlockSize - f.index
          /\ Room(f) <= r - f.index
      BY <1>1, <1>2, <1>3, <1>5, <1>8
    <2> HIDE DEF n, q, r
    <2>2. n \in Nat /\ n <= job.left /\ n <= Room(f)
      BY <1>3, <2>1 DEF Least
    <2>3. f.index + n <= BlockSize /\ f.pos + n <= f.size
      BY <1>1, <1>2, <2>1, <2>2
    <2>4. Fits(f, n)
      BY <1>2, <1>3, <1>6, <2>2, <2>3 DEF Fits
    <2> QED BY <1>8, <2>3, <2>4 DEF n
  <1>9. CASE Grows(f)
    <2>1. n = Least(job.left, BlockSize - f.index)
      BY <1>3, <1>9
    <2>2. Grown(f).last = U16(f.last + delta) /\ Grown(f).size = f.size + delta
      BY <1>9, GrownSame
    <2> HIDE DEF n, q, r
    <2>3. n \in Nat /\ n <= job.left /\ n <= BlockSize - f.index /\ f.index + n <= BlockSize
      BY <1>1, <1>2, <1>3, <2>1 DEF Least
    <2>4. n >= r - f.index
      BY <1>1, <1>2, <1>4, <1>9, <2>1 DEF Least
    <2>5. delta = f.index + n - r
      <3>1. f.index + n - r \in Nat /\ f.index + n - r < 65536
        BY <1>1, <1>2, <1>7, <2>3, <2>4
      <3> QED BY <3>1, WordKept
    <2> HIDE DEF delta
    <2>6. Grown(f).last = q + f.index + n
      <3>1. f.last + delta = q + f.index + n /\ q + f.index + n < 65536 /\ q + f.index + n \in Nat
        BY <1>1, <1>2, <1>7, <2>3, <2>5
      <3> QED BY <2>2, <3>1, WordKept
    <2>7. Fits(f, n)
      BY <1>2, <1>3, <1>6, <2>3 DEF Fits
    <2>8. /\ Grown(f).last = Offset(f) + n /\ Grown(f).last <= ClusterSize
      BY <1>2, <1>7, <2>3, <2>6, <1>1
    <2>9. Grown(f).size = f.pos + n /\ f.size <= Grown(f).size /\ Grown(f).size = base + Grown(f).last
      BY <1>1, <1>2, <2>2, <2>3, <2>4, <2>5, <2>6
    <2> QED BY <1>9, <2>7, <2>8, <2>9 DEF n
  <1> QED BY <1>8, <1>9

LEMMA SendingChunk ==
  ASSUME NEW L, Given(L), NEW f, DescOK(f), NEW C \in Nat, Sending(disk, L, job, f, C),
         job.left \in Nat \ {0}, ~(job.write /\ NeedsCluster(f)), ChunkLen(f) > 0
  PROVE  /\ C # 0 /\ Fits(f, ChunkLen(f)) /\ Standing(disk, L, Grown(f), C)
         /\ f.pos + ChunkLen(f) <= Grown(f).size
         /\ Grown(f).size = IF job.write /\ f.pos + ChunkLen(f) > f.size
                              THEN f.pos + ChunkLen(f) ELSE f.size
  <1> DEFINE n == ChunkLen(f)
             g == Grown(f)
  <1>1. Small /\ Before(L) /\ Complete(disk, L, f.name, C) /\ Lies(disk, L, f, C)
        /\ Points(L, f, C) /\ Within(f)
    BY DEF Given, Sending, Standing, Attaching, Ready, Points
  <1>2. ~Attaching(disk, L, job, f, C) => Standing(disk, L, f, C) /\ Fills(f.size, f.last, C)
    BY DEF Sending, Standing, Ready
  <1>3. /\ g.name = f.name /\ g.cluster = f.cluster /\ g.cur = f.cur /\ g.next = f.next
        /\ g.block = f.block /\ g.index = f.index /\ g.pos = f.pos /\ g.addr = f.addr
        /\ ~Grows(f) => g = f
    BY GrownSame
  <1>4. ~Grows(f) => Standing(disk, L, f, C)
    BY <1>1, <1>2, AttachingRoom
  <1>5. CASE ~IsLast(f.next)
    <2>1. Standing(disk, L, f, C) /\ Fills(f.size, f.last, C)
      BY <1>2, <1>5 DEF Attaching
    <2>2. Fits(f, n) /\ ~Grows(f)
      BY <1>1, <1>5, <2>1, ChunkBetween DEF Standing, AtLast
    <2>3. /\ C # 0 /\ L.rank[f.cur] \in Nat /\ L.rank[f.cur] + 1 < C
      BY <1>1, <1>5, LiesIn
    <2>4. f.pos = L.rank[f.cur] * ClusterSize + Offset(f)
      BY <1>1, <2>3 DEF Points, Base
    <2>5. Offset(f) + n <= ClusterSize /\ Offset(f) \in Nat /\ n \in Nat
      <3>1. /\ n \in Nat /\ f.index \in Nat /\ f.index + n <= BlockSize
            /\ f.block \in Nat /\ f.block < BlocksPerCluster
        BY <2>2 DEF Fits
      <3>2. /\ f.block * BlockSize \in Nat /\ f.block * BlockSize + BlockSize <= ClusterSize
        BY <1>1, <3>1, OffsetRange
      <3> HIDE DEF n
      <3> QED BY <3>1, <3>2, Geometry DEF Offset
    <2>6. L.rank[f.cur] * ClusterSize + ClusterSize <= (C - 1) * ClusterSize
          /\ L.rank[f.cur] * ClusterSize \in Nat
      <3>1. C - 1 \in Nat /\ L.rank[f.cur] < C - 1
        BY <2>3
      <3> QED BY <2>3, <3>1, Geometry, Multiples
    <2>7. (C - 1) * ClusterSize \in Nat
      <3>1. C - 1 \in Nat
        BY <2>3
      <3> QED BY <3>1, NextMultiple
    <2>8. f.size = (C - 1) * ClusterSize + f.last /\ f.last \in Nat
      BY <2>1, <2>3, Geometry DEF Fills
    <2>9. f.pos + n <= f.size /\ f.pos \in Nat /\ f.size \in Nat
      <3> HIDE DEF n
      <3> QED BY <2>4, <2>5, <2>6, <2>7, <2>8, Geometry
    <2> QED BY <1>3, <2>1, <2>2, <2>3, <2>5, <2>9
  <1>6. CASE IsLast(f.next)
    <2> DEFINE base == Base(L, f, C)
    <2>1. base \in Nat /\ (C # 0 => base = (C - 1) * ClusterSize)
      <3>1. CASE C = 0
        BY <3>1 DEF Base
      <3>2. CASE C # 0
        <4>1. L.rank[f.cur] \in Nat /\ L.rank[f.cur] + 1 = C
          BY <1>1, <1>6, <3>2, LiesIn
        <4>2. L.rank[f.cur] = C - 1
          BY <4>1
        <4> QED BY <3>2, <4>1, <4>2, NextMultiple DEF Base
      <3> QED BY <3>1, <3>2
    <2>2. f.last \in Nat /\ f.last <= ClusterSize /\ f.size = base + f.last
      <3>1. CASE Attaching(disk, L, job, f, C)
        BY <2>1, <3>1, Geometry DEF Attaching
      <3>2. CASE ~Attaching(disk, L, job, f, C)
        BY <1>2, <2>1, <3>2, Geometry DEF Fills, Base
      <3> QED BY <3>1, <3>2
    <2>3. Ends(f, base)
      BY <1>1, <1>6, <2>1, <2>2 DEF Ends, Points
    <2>4. /\ Fits(f, n)
          /\ ~Grows(f) => f.pos + n <= f.size
          /\ Grows(f) => /\ g.last = Offset(f) + n /\ g.last <= ClusterSize
                         /\ g.size = f.pos + n /\ f.size <= g.size
                         /\ g.size = base + g.last
      BY <1>1, <2>3, ChunkAtEnd
    <2>5. n \in Nat /\ n > 0 /\ Offset(f) \in Nat /\ f.pos = base + Offset(f)
      BY <1>1, <2>3, <2>4, OffsetRange, Geometry DEF Fits, Ends
    <2> HIDE DEF base, n, g
    <2>6. f.pos \in Nat /\ f.size \in Nat
      BY <2>1, <2>2, <2>5
    <2>7. C # 0
      <3>1. CASE C = 0
        <4>1. NeedsCluster(f)
          BY <1>1, <3>1 DEF Lies, NeedsCluster
        <4>2. ~Grows(f)
          BY <4>1 DEF Grows
        <4>3. f.size = 0
          BY <1>2, <3>1, <4>2, <1>4 DEF Standing, Ready, Fills
        <4> QED BY <2>4, <2>5, <2>6, <4>2, <4>3
      <3> QED BY <3>1
    <2>8. CASE ~Grows(f)
      BY <1>3, <1>4, <2>4, <2>5, <2>6, <2>7, <2>8 DEF n, g
    <2>9. CASE Grows(f)
      <3>1. Fills(g.size, g.last, C)
        <4>1. g.last \in Nat /\ g.last > 0 /\ g.size = (C - 1) * ClusterSize + g.last
          BY <2>1, <2>4, <2>5, <2>7, <2>9
        <4> QED BY <2>4, <2>7, <2>9, <4>1, Geometry DEF Fills
      <3>2. Within(g) /\ Offset(g) = Offset(f) /\ Base(L, g, C) = base
        BY <1>1, <1>3 DEF Within, Offset, Base, base
      <3>3. g.pos <= g.size
        BY <1>3, <2>4, <2>5, <2>6, <2>9
      <3>4. Points(L, g, C)
        BY <1>3, <2>5, <3>2, <3>3 DEF Points
      <3>5. Lies(disk, L, g, C) /\ AtLast(g)
        BY <1>1, <1>3, <1>6 DEF Lies, Located, AtLast
      <3>6. Standing(disk, L, g, C)
        BY <1>1, <1>3, <3>1, <3>4, <3>5 DEF Standing, Ready
      <3>7. job.write
        BY <2>9 DEF Grows
      <3>8. f.pos + n <= g.size /\ g.size = IF job.write /\ f.pos + n > f.size THEN f.pos + n ELSE f.size
        BY <2>4, <2>5, <2>6, <2>9, <3>7
      <3> QED BY <2>4, <2>7, <3>6, <3>8 DEF n, g
    <2> QED BY <2>8, <2>9
  <1> QED BY <1>5, <1>6

LEMMA AdvancedReady ==
  ASSUME NEW k, NEW L, NEW f, DescOK(f), NEW C \in Nat, C # 0, Standing(k, L, f, C), NEW n,
         Fits(f, n), f.pos + n <= f.size, L.rank[f.cur] \in Nat
  PROVE  LET g == Advanced(f, n)
         IN  /\ Complete(k, L, g.name, C) /\ Ready(k, L, g, C)
             /\ g.block = BlocksPerCluster => AtClusterEnd(f, n)
             /\ AtClusterEnd(f, n) => g.block = BlocksPerCluster
             /\ g.name = f.name /\ g.cluster = f.cluster /\ g.size = f.size /\ g.next = f.next
             /\ g.modified = f.modified /\ g.pos = f.pos + n /\ SameFile(g, f)
  <1> DEFINE g == Advanced(f, n)
  <1>1. /\ g.name = f.name /\ g.cluster = f.cluster /\ g.cur = f.cur /\ g.next = f.next
        /\ g.last = f.last /\ g.size = f.size /\ g.pos = f.pos + n /\ SameFile(g, f)
        /\ g.modified = f.modified
        /\ g.index = (IF AtBlockEnd(f, n) THEN 0 ELSE f.index + n)
        /\ g.block = (IF AtBlockEnd(f, n) THEN f.block + 1 ELSE f.block)
        /\ g.addr = (IF AtBlockEnd(f, n) /\ ~AtClusterEnd(f, n) THEN f.addr + 1 ELSE f.addr)
    BY DEF Advanced, DescOK, Free, SameFile, AtBlockEnd, AtClusterEnd
  <1> HIDE DEF g
  <1>2. /\ n \in Nat /\ n > 0 /\ f.block \in Nat /\ f.block < BlocksPerCluster
        /\ f.index \in Nat /\ f.index + n <= BlockSize
    BY DEF Fits
  <1>3. /\ Complete(k, L, f.name, C) /\ Lies(k, L, f, C) /\ Fills(f.size, f.last, C) /\ Within(f)
        /\ f.pos = Base(L, f, C) + Offset(f) /\ f.addr = FirstBlock(f.cur) + f.block
    BY <1>2 DEF Standing, Ready, Points, Within
  <1>4. FirstBlock(f.cur) \in Int
    BY Geometry, Sizes DEF DescOK, FirstBlock, Nums
  <1>5. /\ g.block \in Nat /\ g.block <= BlocksPerCluster /\ g.index \in Nat /\ g.index < BlockSize
        /\ (g.block = BlocksPerCluster => AtClusterEnd(f, n) /\ g.index = 0)
        /\ (AtClusterEnd(f, n) => g.block = BlocksPerCluster)
        /\ (g.block < BlocksPerCluster => g.addr = FirstBlock(g.cur) + g.block)
    <2>1. CASE AtBlockEnd(f, n)
      BY <1>1, <1>2, <1>3, <1>4, <2>1, Geometry DEF AtBlockEnd, AtClusterEnd
    <2>2. CASE ~AtBlockEnd(f, n)
      BY <1>1, <1>2, <1>3, <2>2, Geometry DEF AtBlockEnd, AtClusterEnd
    <2> QED BY <2>1, <2>2
  <1>6. Within(g)
    BY <1>5, Geometry DEF Within
  <1>7. Offset(g) = Offset(f) + n /\ Offset(f) \in Nat
    <2>1. f.block * BlockSize \in Nat /\ (f.block + 1) * BlockSize = f.block * BlockSize + BlockSize
      BY <1>2, Multiples, Geometry
    <2>2. CASE AtBlockEnd(f, n)
      BY <1>1, <1>2, <2>1, <2>2, Geometry DEF AtBlockEnd, Offset
    <2>3. CASE ~AtBlockEnd(f, n)
      BY <1>1, <1>2, <2>1, <2>3, Geometry DEF AtBlockEnd, Offset
    <2> QED BY <2>2, <2>3
  <1>8. Base(L, g, C) = Base(L, f, C) /\ Base(L, f, C) \in Nat
    BY <1>1, NextMultiple DEF Base
  <1>9. Points(L, g, C)
    BY <1>1, <1>2, <1>3, <1>6, <1>7, <1>8 DEF Points
  <1>10. Lies(k, L, g, C)
    BY <1>1, <1>3 DEF Lies, Located
  <1> QED BY <1>1, <1>3, <1>5, <1>9, <1>10 DEF Ready, g

(* What the transfer of a chunk does to the card: a write that fails       *)
(* leaves the block in the cache.                                          *)
Carried(b, ok) ==
  /\ Tears /\ disk' = disk
  /\ IF ok THEN card' = card /\ cacheAddr' = b /\ (card = "on" \/ cacheAddr = b)
           ELSE card' = "off" /\ (cacheAddr' = None \/ (cacheAddr' = b /\ (card = "on" \/ cacheAddr = b)))

LEMMA ChunkTears ==
  ASSUME NEW b, b \notin DOMAIN disk, NEW ok \in BOOLEAN,
         IF job.write THEN Update(b, Contents, Miss(b), ok) ELSE Fetch(b, Miss(b), ok)
  PROVE  Carried(b, ok)
  <1>1. CASE Fetch(b, Miss(b), ok)
    <2>1. Reads(b, ok)
      BY <1>1, FetchTears DEF Miss
    <2> QED BY <2>1 DEF Reads, Carried
  <1>2. CASE (card = "on" \/ ~Miss(b)) /\ Flush(b, Contents, ok)
    <2>1. Tears /\ cacheAddr' = b /\ Wrote(Stored(b, Contents), ok)
      BY <1>2, FlushTears, FlushWrites DEF Flush
    <2>2. Stored(b, Contents) = disk
      BY DEF Stored
    <2>3. card = "on" \/ cacheAddr = b
      BY <1>2 DEF Miss
    <2> QED BY <2>1, <2>2, <2>3 DEF Wrote, Carried
  <1> QED BY <1>1, <1>2 DEF Update

LEMMA Chunked ==
  ASSUME TransferChunk
  PROVE  \E ok \in BOOLEAN :
           LET n == ChunkLen(Desc)
               b == Data(Desc.addr)
               f == IF ok THEN Advanced(Grown(Desc), n) ELSE Grown(Desc)
           IN  /\ IF job.write THEN Update(b, Contents, Miss(b), ok) ELSE Fetch(b, Miss(b), ok)
               /\ Set(f)
               /\ ~ok => Return
               /\ ok /\ AtClusterEnd(Desc, n) /\ ~IsLast(Desc.next) =>
                    job' = [job EXCEPT !.pc = "cross", !.left = @ - n]
               /\ ok /\ ~(AtClusterEnd(Desc, n) /\ ~IsLast(Desc.next)) => Continue(job.left - n)
  <1>1. PICK ok \in BOOLEAN :
          LET n == ChunkLen(Desc)
              b == Data(Desc.addr)
              f == Grown(Desc)
          IN  /\ IF job.write THEN Update(b, Contents, Miss(b), ok) ELSE Fetch(b, Miss(b), ok)
              /\ Set(IF ok THEN Advanced(f, n) ELSE f)
              /\ CASE ~ok -> Return
                   [] ok /\ AtClusterEnd(Desc, n) /\ ~IsLast(Desc.next) ->
                        job' = [job EXCEPT !.pc = "cross", !.left = @ - n]
                   [] OTHER -> Continue(job.left - n)
    BY ZenonT(60) DEF TransferChunk
  <1> WITNESS ok \in BOOLEAN
  <1> QED BY <1>1

(* What a call that transfers has in hand, and what it makes of it.        *)
LEMMA ChunkGood ==
  ASSUME NEW L, Given(L), TransferChunk, Active, Desc.name \notin torn
  PROVE  \E C \in Nat :
           LET n == ChunkLen(Desc)
               g == Grown(Desc)
           IN  /\ C # 0 /\ Fits(Desc, n) /\ Standing(disk, L, g, C) /\ Fits(g, n)
               /\ ~Spent(Desc, cut) /\ ~Spent(g, cut)
               /\ g.pos + n <= g.size /\ job.left \in Nat \ {0} /\ L.rank[g.cur] \in Nat
               /\ g.size = IF job.write /\ Desc.pos + n > Desc.size THEN Desc.pos + n ELSE Desc.size
  <1> DEFINE n == ChunkLen(Desc)
             g == Grown(Desc)
  <1>1. /\ job.pc = "transfer" /\ ~At("idle") /\ ~(job.write /\ NeedsCluster(Desc)) /\ n > 0
    BY DEF TransferChunk, At
  <1>2. DescOK(Desc) /\ Sound(L) /\ Before(L)
    BY <1>1, Acting
  <1>3. PICK C \in Nat : Doing(disk, L, job, Desc, C, cut)
    BY <1>1, <1>2, Hand
  <1>4. ~Spent(Desc, cut) /\ job.left \in Nat \ {0} /\ Sending(disk, L, job, Desc, C)
    BY <1>1, <1>3 DEF Doing
  <1>5. /\ C # 0 /\ Fits(Desc, n) /\ Standing(disk, L, g, C)
        /\ Desc.pos + n <= g.size
        /\ g.size = IF job.write /\ Desc.pos + n > Desc.size THEN Desc.pos + n ELSE Desc.size
    BY <1>1, <1>2, <1>4, SendingChunk
  <1>6. /\ g.name = Desc.name /\ g.cluster = Desc.cluster /\ g.pos = Desc.pos
        /\ g.block = Desc.block /\ g.index = Desc.index
    BY <1>2, GrownSame
  <1> HIDE DEF g, n
  <1>7. Fits(g, n) /\ ~Spent(g, cut)
    BY <1>4, <1>5, <1>6, SpentSame DEF Fits
  <1>8. L.rank[g.cur] \in Nat
    BY <1>2, <1>5, LiesIn DEF Standing, Ready
  <1>9. g.pos + n <= g.size
    BY <1>5, <1>6
  <1> QED BY <1>4, <1>5, <1>7, <1>8, <1>9 DEF n, g

LEMMA TransferChunkSound ==
  ASSUME NEW L, Given(L), TransferChunk
  PROVE  Sound(L)'
  <1> DEFINE n == ChunkLen(Desc)
             b == Data(Desc.addr)
             g == Grown(Desc)
             h == Advanced(g, n)
  <1>1. job.pc = "transfer" /\ ~At("idle") /\ UNCHANGED cut
    BY DEF TransferChunk, At
  <1>2. PICK ok \in BOOLEAN :
          /\ IF job.write THEN Update(b, Contents, Miss(b), ok) ELSE Fetch(b, Miss(b), ok)
          /\ Set(IF ok THEN h ELSE g)
          /\ ~ok => Return
          /\ ok /\ AtClusterEnd(Desc, n) /\ ~IsLast(Desc.next) =>
               job' = [job EXCEPT !.pc = "cross", !.left = @ - n]
          /\ ok /\ ~(AtClusterEnd(Desc, n) /\ ~IsLast(Desc.next)) => Continue(job.left - n)
    BY Chunked
  <1>3. /\ IInv /\ Sound(L) /\ Before(L) /\ DOMAIN job = DOMAIN Idle /\ Desc = fd[job.d]
        /\ DescOK(Desc) /\ job.d \in Fds /\ Usable(job.d) /\ Desc.name \in Names
    BY <1>1, Acting
  <1>4. Carried(b, ok)
    <2>1. b \notin DOMAIN disk
      BY <1>3, DirApart DEF IInv, Store, DiskOK
    <2> HIDE DEF b
    <2> QED BY <1>2, <2>1, ChunkTears
  <1>5. /\ g.name = Desc.name /\ g.cluster = Desc.cluster /\ g.next = Desc.next
        /\ g.block = Desc.block /\ g.index = Desc.index /\ DescOK(g) /\ SameFile(g, Desc)
        /\ Accounted(job.d, g)
    <2>1. CASE Grows(Desc)
      BY <1>3, <2>1, GrownSame DEF Accounted
    <2>2. CASE ~Grows(Desc)
      BY <1>3, <2>2, GrownSame DEF Accounted
    <2> QED BY <2>1, <2>2
  <1>6. /\ h.name = g.name /\ h.cluster = g.cluster /\ h.size = g.size /\ h.modified = g.modified
        /\ SameFile(h, g)
    BY <1>5 DEF Advanced, DescOK, Free, SameFile
  <1>7. AtClusterEnd(g, n) <=> AtClusterEnd(Desc, n)
    BY <1>5 DEF AtClusterEnd, AtBlockEnd
  <1> HIDE DEF b, h
  <1>8. CASE ok
    <2>1. /\ disk' = disk /\ card' = card /\ torn' = torn /\ Set(h)
          /\ Active' => Active
      BY <1>2, <1>4, <1>8 DEF Carried, Tears, Active
    <2>2. OneChanged(job.d, h) /\ SameFile(h, Desc) /\ h.name = Desc.name
      BY <1>3, <1>5, <1>6, <2>1, SetOne DEF Set, SameFile
    <2>3. Accounted(job.d, h)
      BY <1>5, <1>6 DEF Accounted
    <2>4. job'.pc \in {"idle", "transfer", "cross"} /\ (job'.pc = "idle" \/ job'.d = job.d)
      <3>1. CASE AtClusterEnd(Desc, n) /\ ~IsLast(Desc.next)
        BY <1>2, <1>3, <1>8, <3>1 DEF Idle
      <3>2. CASE ~(AtClusterEnd(Desc, n) /\ ~IsLast(Desc.next))
        BY <1>2, <1>3, <1>8, <3>2, ContinuePc
      <3> QED BY <3>1, <3>2
    <2>5. One(job.d, h)
      BY <1>3, <2>2, <2>4 DEF One
    <2>6. ASSUME Active, Desc.name \notin torn PROVE Good(disk, L, job', h, cut)
      <3>1. PICK C \in Nat :
              /\ C # 0 /\ Standing(disk, L, g, C) /\ Fits(g, n)
              /\ ~Spent(g, cut) /\ g.pos + n <= g.size /\ job.left \in Nat \ {0}
              /\ L.rank[g.cur] \in Nat
        BY <2>6, ChunkGood
      <3>2. /\ Complete(disk, L, h.name, C) /\ Ready(disk, L, h, C)
            /\ h.block = BlocksPerCluster => AtClusterEnd(g, n)
            /\ AtClusterEnd(g, n) => h.block = BlocksPerCluster
            /\ h.next = g.next
        <4> HIDE DEF g, n
        <4> QED BY <1>5, <3>1, AdvancedReady DEF h
      <3>3. ~Spent(h, cut)
        <4> HIDE DEF g
        <4> QED BY <1>6, <3>1, SpentSame
      <3>4. n \in Nat /\ n <= job.left
        BY <3>1 DEF Fits
      <3> HIDE DEF g, n
      <3>5. CASE AtClusterEnd(Desc, n) /\ ~IsLast(Desc.next)
        <4>1. job'.pc = "cross"
          BY <1>2, <1>3, <1>8, <3>5 DEF Idle
        <4>2. Doing(disk, L, job', h, C, cut)
          BY <1>5, <1>7, <3>2, <3>3, <3>5, <4>1 DEF Doing
        <4> QED BY <4>2 DEF Good
      <3>6. CASE ~(AtClusterEnd(Desc, n) /\ ~IsLast(Desc.next))
        <4>1. Standing(disk, L, h, C)
          BY <1>5, <1>7, <3>2, <3>6 DEF Standing, AtLast
        <4>2. Continue(job.left - n) /\ job.left - n \in Nat
          BY <1>2, <1>8, <3>1, <3>4, <3>6
        <4>3. job'.pc = "idle" \/ (job'.pc = "transfer" /\ job'.left \in Nat \ {0})
          BY <1>3, <4>2, ContinueJob
        <4> QED BY <3>3, <4>1, <4>3, StandingGood
      <3> QED BY <3>5, <3>6
    <2>7. Active /\ h.name \notin torn => Good(disk, L, job', h, cut')
      BY <1>1, <2>2, <2>6
    <2>8. job'.pc # "takeMirror"
      BY <2>4
    <2> QED BY <1>1, <1>3, <2>1, <2>3, <2>5, <2>7, <2>8, QuietSound
  <1>9. CASE ~ok
    <2>1. /\ Tears /\ disk' = disk /\ card' # "on" /\ torn \subseteq torn'
          /\ Set(g) /\ job'.pc = "idle" /\ (Active' => Active)
      <3>1. Tears /\ disk' = disk /\ card' = "off" /\ Set(g) /\ Return
        BY <1>2, <1>4, <1>9 DEF Carried
      <3>2. cacheAddr' = None \/ (cacheAddr' = b /\ (card = "on" \/ cacheAddr = b))
        BY <1>4, <1>9 DEF Carried
      <3>3. Active' => Active
        BY <3>1, <3>2, OffIsNotOn DEF Active, IsData
      <3> QED BY <3>1, <3>3, OffIsNotOn DEF Tears, Return, Idle
    <2>2. OneChanged(job.d, g)
      BY <1>3, <2>1, SetOne DEF Set
    <2>3. One(job.d, g)
      BY <1>3, <1>5, <2>1, <2>2 DEF One
    <2>4. \A m \in Names \ torn' : Alike(disk, L, disk', L, m) /\ disk'[Dir][m] = disk[Dir][m]
      BY <2>1, AlikeSame
    <2>5. FilesOK(L)'
      BY <1>3, <2>1, <2>4, FilesLost
    <2>6. Tidy' /\ Engaged' /\ Saved' /\ Loose(L)'
      BY <1>3, <2>1, <2>3, EngagedKept DEF Sound, Tidy, Saved, Loose
    <2>7. Steady(L, L, fd[job.d].name)
      BY <1>1, <2>4 DEF Steady
    <2>8. ASSUME Active', g.name \notin torn' PROVE Good(disk', L, job', g, cut')
      <3>1. card # "on"
        BY <1>3, <1>5, <1>1, <2>1, <2>8, JobTorn DEF Sound
      <3>2. Active /\ Desc.name \notin torn
        BY <1>5, <2>1, <2>8
      <3>3. PICK C \in Nat : Standing(disk, L, g, C) /\ ~Spent(g, cut)
        BY <3>2, ChunkGood
      <3> HIDE DEF g
      <3> QED BY <1>1, <2>1, <3>3, StandingGood
    <2>9. InHand(L)'
      <3> HIDE DEF g
      <3> QED BY <1>3, <2>1, <2>3, <2>7, <2>8, HandKept
    <2> QED BY <2>5, <2>6, <2>9 DEF Sound
  <1> QED BY <1>8, <1>9

---------------------------------------------------------------------------
(* Files that are opened and closed. *)

LEMMA OpenedStanding ==
  ASSUME NEW k, NEW L, NEW n, NEW e, FileOK(k, L, n, e), NEW next,
         next = IF e.cluster = 0 THEN End ELSE First(k, e.cluster), 0 \notin Clusters
  PROVE  \E C \in Nat : Standing(k, L, Opened(n, e, next), C)
  <1> DEFINE f == Opened(n, e, next)
  <1>1. PICK C \in Nat : /\ Complete(k, L, n, C) /\ Heads(k, L, n, e.cluster, C)
                         /\ Fills(e.size, LastLen(e.size), C)
    BY DEF FileOK, Makes
  <1>2. /\ f.name = n /\ f.cluster = e.cluster /\ f.cur = e.cluster /\ f.size = e.size
        /\ f.last = LastLen(e.size) /\ f.next = next /\ f.block = 0 /\ f.index = 0 /\ f.pos = 0
        /\ f.addr = FirstBlock(e.cluster)
    BY DEF Opened, Free
  <1> HIDE DEF f
  <1>3. Fills(f.size, f.last, C) /\ f.size \in Nat
    BY <1>1, <1>2, FillsLen
  <1>4. C # 0 => Begins(k, L, f.cluster, n) /\ f.cluster \in Clusters /\ L.rank[f.cluster] = 0
    BY <1>1, <1>2 DEF Heads, Begins, Belongs
  <1>5. C = 0 => f.cluster = 0 /\ f.cur = 0 /\ IsLast(f.next)
    BY <1>1, <1>2 DEF Heads, IsLast, End
  <1>6. Lies(k, L, f, C)
    <2>1. CASE C # 0
      <3>1. Located(k, L, f) /\ f.next = First(k, f.cur) /\ f.cur \in Clusters
        BY <1>2, <1>4, <2>1 DEF Located, Begins
      <3>2. IsLast(f.next) => L.rank[f.cur] + 1 = C
        BY <1>1, <1>2, <1>4, <2>1, <3>1 DEF Complete, Formed, Located
      <3> QED BY <2>1, <3>1, <3>2 DEF Lies
    <2> QED BY <1>5, <2>1 DEF Lies
  <1>7. Within(f) /\ Offset(f) = 0
    <2>1. f.addr = FirstBlock(f.cur) + f.block
      <3>1. FirstBlock(e.cluster) \in Int
        <4>1. e.cluster \in Int
          BY <1>2, <1>4, <1>5, Sizes DEF Clusters
        <4> QED BY <4>1, Geometry DEF FirstBlock
      <3> QED BY <1>2, <3>1
    <2> QED BY <1>2, <2>1, Geometry DEF Within, Offset
  <1>8. Base(L, f, C) = 0
    BY <1>2, <1>4, Geometry DEF Base
  <1>9. Points(L, f, C)
    BY <1>2, <1>3, <1>7, <1>8 DEF Points
  <1>10. AtLast(f)
    BY <1>2, Geometry DEF AtLast
  <1>11. Standing(k, L, f, C)
    BY <1>1, <1>2, <1>3, <1>6, <1>9, <1>10 DEF Standing, Ready
  <1> QED BY <1>11 DEF f

(* A step between calls that changes one descriptor and no other file.     *)
Between(L, d, name) ==
  /\ Sound(L) /\ At("idle") /\ UNCHANGED job /\ d \in Fds
  /\ \A e \in Fds \ {d} : fd'[e] = fd[e]
  /\ torn' = torn /\ card' = card /\ (card # "on" => disk' = disk)
  /\ Tidy' /\ (Active' => Active)
  /\ \A m \in Names \ torn : Alike(disk, L, disk', L, m)
  /\ \A m \in Names : m # name => disk'[Dir][m] = disk[Dir][m] /\ (m \in cut' <=> m \in cut)

(* The other descriptors are of other files. *)
LEMMA BetweenOthers ==
  ASSUME NEW L, NEW d, NEW name, Between(L, d, name),
         \A e \in Fds \ {d} : Usable(e) => fd[e].name # name,
         NEW e \in Fds \ {d}, Usable(e)'
  PROVE  /\ Usable(e) /\ fd'[e] = fd[e] /\ fd[e].name \in Names
         /\ Active' /\ fd[e].name \notin torn => Good(disk', L, Job(e)', fd'[e], cut')
         /\ card' = "on" /\ fd[e].name \notin torn /\ ~fd[e].modified =>
              /\ disk'[Dir][fd[e].name].cluster = fd[e].cluster
              /\ disk'[Dir][fd[e].name].size = fd[e].size
  <1>1. fd'[e] = fd[e] /\ Usable(e) /\ fd[e].name # name /\ fd[e].name \in Names
    BY DEF Between, Usable, Sound, Engaged
  <1>2. ASSUME Active', fd[e].name \notin torn PROVE Good(disk', L, Job(e)', fd'[e], cut')
    <2>1. Good(disk, L, Job(e), fd[e], cut)
      BY <1>1, <1>2 DEF Between, Sound, InHand, InTurn
    <2>2. Alike(disk, L, disk', L, fd[e].name) /\ (fd[e].name \in cut' <=> fd[e].name \in cut)
      BY <1>1, <1>2 DEF Between
    <2>3. Job(e).pc = "idle" /\ Job(e)'.pc = "idle"
      BY DEF Between, At, Job, Idle
    <2> QED BY <1>1, <2>1, <2>2, <2>3, AlikeGood
  <1>3. ASSUME card' = "on", fd[e].name \notin torn, ~fd[e].modified
        PROVE  /\ disk'[Dir][fd[e].name].cluster = fd[e].cluster
               /\ disk'[Dir][fd[e].name].size = fd[e].size
    BY <1>1, <1>3 DEF Between, Sound, Saved, InTurn
  <1> QED BY <1>1, <1>2, <1>3

LEMMA OpenedSound ==
  ASSUME NEW L, NEW d, NEW n \in Names, Between(L, d, n), fd[d].free, ~IsOpen(n), n \notin cut,
         NEW e, NEW next, fd'[d] = Opened(n, e, next), UNCHANGED cut, Active' => card = "on",
         card = "on" => disk'[Dir][n].cluster = e.cluster /\ disk'[Dir][n].size = e.size,
         card = "on" /\ n \notin torn => FileOK(disk', L, n, e),
         card = "on" => next = IF e.cluster = 0 THEN End ELSE First(disk', e.cluster),
         0 \notin Clusters
  PROVE  Sound(L)'
  <1> DEFINE f == Opened(n, e, next)
  <1>1. /\ f.name = n /\ f.cluster = e.cluster /\ f.size = e.size /\ ~f.modified
        /\ ~f.free /\ ~f.stale
    BY DEF Opened, Free
  <1> HIDE DEF f
  <1>2. \A c \in Fds \ {d} : Usable(c) => fd[c].name # n
    BY DEF IsOpen
  <1>3. /\ Usable(d)' /\ fd'[d].name = n /\ d \in Fds /\ n \in Names /\ At("idle") /\ At("idle")'
        /\ ~Usable(d)
    BY <1>1 DEF Between, Usable, f, At
  <1>4. FilesOK(L)'
    <2> SUFFICES ASSUME NEW m \in Names \ torn, card' = "on" => ~IsOpen(m)'
                 PROVE  FileOK(disk', L, m, disk'[Dir][m])
      BY DEF FilesOK, Between
    <2>1. ~(card = "on") \/ ~IsOpen(m)
      <3>1. IsOpen(m) => IsOpen(m)'
        BY <1>3 DEF IsOpen, Usable, Between
      <3> QED BY <3>1 DEF Between
    <2>2. FileOK(disk, L, m, disk[Dir][m])
      BY <2>1 DEF Between, Sound, FilesOK
    <2>3. CASE card # "on"
      BY <2>2, <2>3 DEF Between
    <2>4. CASE card = "on"
      <3>1. m # n
        BY <1>3, <2>4 DEF IsOpen, Between
      <3>2. Alike(disk, L, disk', L, m) /\ disk'[Dir][m] = disk[Dir][m]
        BY <3>1 DEF Between
      <3> QED BY <2>2, <3>2, AlikeFile
    <2> QED BY <2>3, <2>4
  <1>5. Engaged'
    <2>1. Distinct /\ ~IsOpen(n)
      BY DEF Between, Sound, Engaged
    <2>2. \A c \in Fds \ {d} : Usable(c)' => Usable(c) /\ fd'[c] = fd[c] /\ fd[c].name \in Names
      BY <1>2, BetweenOthers
    <2>3. Distinct'
      BY <1>2, <1>3, <2>1, <2>2 DEF Distinct
    <2> QED BY <1>3, <2>2, <2>3 DEF Engaged
  <1>6. InHand(L)'
    <2> SUFFICES ASSUME Active', NEW c \in Fds, InTurn(c)'
                 PROVE  Good(disk', L, Job(c)', fd'[c], cut')
      BY DEF InHand
    <2>1. CASE c # d
      BY <1>2, <2>1, BetweenOthers DEF InTurn, Between
    <2>2. CASE c = d
      <3>1. FileOK(disk', L, n, e) /\ next = IF e.cluster = 0 THEN End ELSE First(disk', e.cluster)
        BY <1>3, <2>2 DEF InTurn, Between
      <3>2. PICK C \in Nat : Standing(disk', L, f, C)
        BY <3>1, OpenedStanding DEF f
      <3>3. ~Spent(f, cut') /\ Job(d)'.pc = "idle"
        BY <1>1, <1>3 DEF Spent, Job, At, Idle
      <3>4. Good(disk', L, Job(d)', f, cut')
        BY <3>2, <3>3, StandingGood
      <3> QED BY <2>2, <3>4 DEF f
    <2> QED BY <2>1, <2>2
  <1>7. Saved'
    <2> SUFFICES ASSUME card' = "on", NEW c \in Fds, InTurn(c)', ~fd'[c].modified
                 PROVE  /\ disk'[Dir][fd'[c].name].cluster = fd'[c].cluster
                        /\ disk'[Dir][fd'[c].name].size = fd'[c].size
      BY DEF Saved
    <2>1. CASE c # d
      BY <1>2, <2>1, BetweenOthers DEF InTurn, Between
    <2>2. CASE c = d
      BY <1>1, <2>2 DEF Between, f
    <2> QED BY <2>1, <2>2
  <1>8. Tidy' /\ Loose(L)'
    BY <1>3 DEF Between, Loose, At
  <1> QED BY <1>4, <1>5, <1>6, <1>7, <1>8 DEF Sound

LEMMA ClosedSound ==
  ASSUME NEW L, NEW d, NEW n, Between(L, d, n), fd'[d] = Free, Usable(d) => fd[d].name = n,
         ~Usable(d) => UNCHANGED <<disk, cut>>,
         Usable(d) /\ card = "on" /\ n \notin torn => FileOK(disk', L, n, disk'[Dir][n])
  PROVE  Sound(L)'
  <1>1. ~Usable(d)' /\ d \in Fds /\ At("idle") /\ At("idle")'
    BY DEF Between, Usable, Free, At
  <1>2. FilesOK(L)'
    <2> SUFFICES ASSUME NEW m \in Names \ torn, card' = "on" => ~IsOpen(m)'
                 PROVE  FileOK(disk', L, m, disk'[Dir][m])
      BY DEF FilesOK, Between
    <2>1. CASE Usable(d) /\ m = n /\ card = "on"
      BY <2>1
    <2>2. CASE ~(Usable(d) /\ m = n /\ card = "on")
      <3>1. card = "on" => ~IsOpen(m)
        BY <2>2 DEF IsOpen, Usable, Between
      <3>2. FileOK(disk, L, m, disk[Dir][m]) /\ Alike(disk, L, disk', L, m)
        BY <3>1 DEF Between, Sound, FilesOK
      <3>3. disk'[Dir][m] = disk[Dir][m]
        BY <2>2 DEF Between
      <3> QED BY <3>2, <3>3, AlikeFile
    <2> QED BY <2>1, <2>2
  <1>3. Engaged'
    <2>1. \A c \in Fds : Usable(c)' => Usable(c) /\ fd'[c] = fd[c] /\ fd[c].name \in Names
      BY <1>1 DEF Between, Usable, Sound, Engaged
    <2> QED BY <1>1, <2>1 DEF Engaged, Distinct, Between, Sound
  <1>4. CASE Usable(d)
    <2>1. \A c \in Fds \ {d} : Usable(c) => fd[c].name # n
      BY <1>1, <1>4 DEF Between, Sound, Engaged, Distinct
    <2>2. InHand(L)'
      <3> SUFFICES ASSUME Active', NEW c \in Fds, InTurn(c)'
                   PROVE  Good(disk', L, Job(c)', fd'[c], cut')
        BY DEF InHand
      <3> QED BY <1>1, <2>1, BetweenOthers DEF InTurn, Between
    <2>3. Saved'
      <3> SUFFICES ASSUME card' = "on", NEW c \in Fds, InTurn(c)', ~fd'[c].modified
                   PROVE  /\ disk'[Dir][fd'[c].name].cluster = fd'[c].cluster
                          /\ disk'[Dir][fd'[c].name].size = fd'[c].size
        BY DEF Saved
      <3> QED BY <1>1, <2>1, BetweenOthers DEF InTurn, Between
    <2>4. Tidy' /\ Loose(L)'
      BY <1>1 DEF Between, Loose, At
    <2> QED BY <1>2, <1>3, <2>2, <2>3, <2>4 DEF Sound
  <1>5. CASE ~Usable(d)
    <2>1. UNCHANGED <<disk, cut, job, torn, card>> /\ (Active' => Active)
      BY <1>5 DEF Between
    <2>2. \A c \in Fds : InTurn(c)' => InTurn(c) /\ fd'[c] = fd[c]
      BY <1>1, <2>1 DEF Between, InTurn, Usable
    <2>3. InHand(L)'
      <3> SUFFICES ASSUME Active', NEW c \in Fds, InTurn(c)'
                   PROVE  Good(disk', L, Job(c)', fd'[c], cut')
        BY DEF InHand
      <3>1. Good(disk, L, Job(c), fd[c], cut)
        BY <2>1, <2>2 DEF Between, Sound, InHand
      <3>2. Job(c)' = Job(c)
        BY <2>1 DEF Job
      <3> QED BY <2>1, <2>2, <3>1, <3>2
    <2>4. Saved' /\ Tidy' /\ Loose(L)'
      BY <1>1, <2>1, <2>2 DEF Between, Sound, Saved, Loose, At
    <2> QED BY <1>2, <1>3, <2>3, <2>4 DEF Sound
  <1> QED BY <1>4, <1>5

---------------------------------------------------------------------------
(* Calls of programs that open, create and close. *)

LEMMA SameSound ==
  ASSUME NEW L, Sound(L), UNCHANGED <<disk, card, fd, job, cut, torn>>, Active' => Active
  PROVE  Sound(L)'
  <1>1. \A n : IsOpen(n)' <=> IsOpen(n)
    BY DEF IsOpen, Usable
  <1>2. FilesOK(L)'
    BY <1>1 DEF Sound, FilesOK
  <1>3. Tidy' /\ Engaged' /\ Loose(L)'
    BY DEF Sound, Tidy, Engaged, Distinct, Usable, At, Loose
  <1>4. InHand(L)'
    <2> SUFFICES ASSUME Active', NEW d \in Fds, InTurn(d)'
                 PROVE  Good(disk', L, Job(d)', fd'[d], cut')
      BY DEF InHand
    <2>1. InTurn(d) /\ Job(d)' = Job(d)
      BY DEF InTurn, Usable, Job
    <2>2. Good(disk, L, Job(d), fd[d], cut)
      BY <2>1 DEF Sound, InHand
    <2> QED BY <2>1, <2>2
  <1>5. Saved'
    BY DEF Sound, Saved, InTurn, Usable
  <1> QED BY <1>2, <1>3, <1>4, <1>5 DEF Sound

(* The card fails while an entry of the directory is written. *)
LEMMA EntryFails ==
  ASSUME NEW L, Sound(L), card' # "on", ~IsData(cacheAddr'), Engaged', Tidy',
         \A n \in Names \ torn' : FileOK(disk', L, n, disk'[Dir][n])
  PROVE  Sound(L)'
  <1>1. FilesOK(L)'
    BY DEF FilesOK
  <1>2. ~Active' /\ Saved' /\ Loose(L)'
    BY DEF Active, Saved, Loose
  <1> QED BY <1>1, <1>2 DEF Sound, InHand

(* Between calls, descriptors are free or of files. *)
LEMMA EngagedIdle ==
  ASSUME Engaged, At("idle"), UNCHANGED job, \A d \in Fds : Usable(d)' => fd'[d] = fd[d]
  PROVE  Engaged'
  <1>1. \A d \in Fds : Usable(d)' => Usable(d)
    BY DEF Usable
  <1> QED BY <1>1 DEF Engaged, Distinct, At

LEMMA EntryAlike ==
  ASSUME NEW L, Before(L), NEW n, NEW e
  PROVE  /\ \A m : Alike(disk, L, PutDir(n, e), L, m)
         /\ \A m \in Names : PutDir(n, e)[Dir][m] = IF m = n THEN e ELSE disk[Dir][m]
  <1> DEFINE k == PutDir(n, e)
  <1>1. /\ \A c \in Nums : First(k, c) = First(disk, c) /\ Second(k, c) = Second(disk, c)
        /\ \A m \in Names : k[Dir][m] = IF m = n THEN e ELSE disk[Dir][m]
    BY DirLinks DEF Before, Labelled, Tables
  <1> HIDE DEF k
  <1>2. \A x \in Clusters : First(k, x) = First(disk, x) /\ Second(k, x) = Second(disk, x)
    BY <1>1, ClusterNumbers DEF Before
  <1>3. \A m : Alike(disk, L, k, L, m)
    BY <1>2, SameAlike
  <1> QED BY <1>1, <1>3 DEF k

LEMMA OpenFileSound ==
  ASSUME NEW L, Given(L), NEW n \in Names, OpenFile(n)
  PROVE  Sound(L)'
  <1> DEFINE e == Get(Dir)[n]
             b == IF e.cluster = 0 THEN Dir ELSE Table(Sector(e.cluster))
             next == IF e.cluster = 0 THEN End ELSE Entry(e.cluster)
  <1>1. PICK d \in Fds, ok \in BOOLEAN :
          /\ NextFd(d)
          /\ Fetch(b, Miss(Dir) \/ e.cluster # 0, ok)
          /\ fd' = IF ok /\ next # 0 THEN [fd EXCEPT ![d] = Opened(n, e, next)] ELSE fd
    BY DEF OpenFile
  <1>2. /\ At("idle") /\ ~IsOpen(n) /\ n \notin cut /\ UNCHANGED <<job, cut>>
        /\ IInv /\ Before(L) /\ Sound(L) /\ Narrow
    BY DEF OpenFile, MayOpen, Given, Before
  <1>3. e.cluster \in Nums
    BY <1>2, DirBlock DEF IInv, DirOK
  <1>4. Reads(b, ok) /\ b \in TableBlocks \cup {Dir}
    <2>1. ~(Miss(Dir) \/ e.cluster # 0) => cacheAddr = b
      BY DEF Miss
    <2>2. b \in TableBlocks \cup {Dir}
      BY <1>3, TableBlockOf
    <2> QED BY <1>1, <2>1, <2>2, FetchTears
  <1>5. disk' = disk /\ Tears /\ ~IsData(cacheAddr')
    BY <1>4, NoData DEF Reads
  <1>6. Tidy'
    BY <1>2, <1>5 DEF Sound, Tidy
  <1>7. CASE ~ok
    <2>1. card' # "on" /\ UNCHANGED fd
      BY <1>1, <1>4, <1>7, OffIsNotOn DEF Reads
    <2>2. Engaged'
      BY <1>2, <2>1, EngagedIdle DEF Sound
    <2>3. \A m \in Names \ torn' : Alike(disk, L, disk', L, m)
      BY <1>5, AlikeSame
    <2> QED BY <1>2, <1>5, <1>6, <2>1, <2>2, <2>3, FailSound
  <1>8. CASE ok
    <2>1. card' = card /\ torn' = torn /\ (Active' => card = "on")
      BY <1>4, <1>5, <1>8 DEF Reads, Tears, Active
    <2>2. CASE next = 0
      <3>1. UNCHANGED fd
        BY <1>1, <2>2
      <3> QED BY <1>2, <1>5, <2>1, <3>1, SameSound DEF Active
    <2>3. CASE next # 0
      <3>1. OneChanged(d, Opened(n, e, next)) /\ fd[d].free
        BY <1>1, <1>2, <1>8, <2>3, SetOne DEF NextFd
      <3>2. card = "on" => e = disk[Dir][n] /\ (e.cluster # 0 => next = First(disk, e.cluster))
        BY <1>2, <1>3, GetOK, NoneAssumption, EntryRead, ShapedDisk DEF IInv, OnCard, Shaped
      <3>3. Between(L, d, n)
        <4>1. \A m \in Names \ torn : Alike(disk, L, disk', L, m)
          BY <1>5, AlikeSame
        <4> QED BY <1>2, <1>5, <1>6, <2>1, <3>1, <4>1 DEF Between, OneChanged, Active
      <3>4. card = "on" /\ n \notin torn => FileOK(disk, L, n, e)
        BY <1>2, <3>2 DEF Sound, FilesOK
      <3> HIDE DEF e
      <3>5. /\ card = "on" => disk'[Dir][n].cluster = e.cluster /\ disk'[Dir][n].size = e.size
            /\ card = "on" /\ n \notin torn => FileOK(disk', L, n, e)
            /\ card = "on" => next = IF e.cluster = 0 THEN End ELSE First(disk', e.cluster)
        BY <1>5, <3>2, <3>4
      <3>6. 0 \notin Clusters
        BY <1>2, ClusterNumbers
      <3> HIDE DEF next
      <3>7. fd'[d] = Opened(n, e, next)
        BY <3>1 DEF OneChanged
      <3> QED BY <1>2, <2>1, <3>1, <3>3, <3>5, <3>6, <3>7, OpenedSound
    <2> QED BY <2>2, <2>3
  <1> QED BY <1>7, <1>8

(* A file that the directory does not list is empty. *)
LEMMA Unlisted ==
  ASSUME NEW k, NEW L, NEW n, NEW f, FileOK(k, L, n, f), f.cluster = 0, 0 \notin Clusters
  PROVE  f.size = 0
  <1>1. PICK C \in Nat : Heads(k, L, n, f.cluster, C) /\ Fills(f.size, LastLen(f.size), C)
    BY DEF FileOK, Makes
  <1>2. C = 0
    BY <1>1 DEF Heads, Begins, Belongs
  <1> QED BY <1>1, <1>2 DEF Fills

LEMMA CreateFileSound ==
  ASSUME NEW L, Given(L), NEW n \in Names, CreateFile(n)
  PROVE  Sound(L)'
  <1> DEFINE e == [EmptyEntry EXCEPT !.used = TRUE]
  <1>1. PICK d \in Fds, ok \in BOOLEAN :
          /\ NextFd(d) /\ ~Get(Dir)[n].used
          /\ Update(Dir, [Get(Dir) EXCEPT ![n] = e], Miss(Dir), ok)
          /\ fd' = IF ok THEN [fd EXCEPT ![d] = Opened(n, e, End)] ELSE fd
    BY DEF CreateFile
  <1>2. /\ At("idle") /\ ~IsOpen(n) /\ n \notin cut /\ UNCHANGED <<job, cut>>
        /\ IInv /\ Before(L) /\ Sound(L) /\ Narrow
    BY DEF CreateFile, MayOpen, Given, Before
  <1>3. e.cluster = 0 /\ e.size = 0 /\ e.used
    BY DEF EmptyEntry
  <1> HIDE DEF e
  <1> DEFINE k == PutDir(n, e)
  <1>4. Wrote(k, ok) /\ Tears /\ ~IsData(cacheAddr')
    BY <1>1, <1>2, DirWritten, UpdateTears, NoData
  <1>5. /\ \A m : Alike(disk, L, k, L, m)
        /\ \A m \in Names : k[Dir][m] = IF m = n THEN e ELSE disk[Dir][m]
    BY <1>2, EntryAlike
  <1> HIDE DEF k
  <1>6. 0 \notin Clusters
    BY <1>2, ClusterNumbers
  <1>7. card = "on" => disk[Dir][n].cluster = 0
    <2>1. card = "on" => Get(Dir) = disk[Dir]
      BY <1>2, GetOK, NoneAssumption, ShapedDisk DEF IInv, OnCard, Shaped
    <2> QED BY <1>1, <1>2, <2>1 DEF Sound, Tidy
  <1>8. Tidy' /\ (disk' = disk \/ (card = "on" /\ disk' = k))
    <2>1. disk' = disk \/ (card = "on" /\ disk' = k)
      BY <1>4 DEF Wrote
    <2> QED BY <1>2, <1>3, <1>5, <2>1 DEF Sound, Tidy
  <1>9. ASSUME card = "on", NEW m \in Names, FileOK(disk, L, m, disk[Dir][m])
        PROVE  FileOK(k, L, m, k[Dir][m])
    <2>1. FileOK(k, L, m, disk[Dir][m])
      BY <1>5, <1>9, AlikeFile
    <2>2. k[Dir][m].cluster = disk[Dir][m].cluster /\ k[Dir][m].size = disk[Dir][m].size
      BY <1>3, <1>5, <1>6, <1>7, <1>9, Unlisted
    <2> QED BY <2>1, <2>2, SameEntry
  <1>10. CASE ~ok
    <2>1. card' # "on" /\ UNCHANGED fd
      BY <1>1, <1>4, <1>10, OffIsNotOn DEF Wrote
    <2>2. Engaged'
      BY <1>2, <2>1, EngagedIdle DEF Sound
    <2>3. ASSUME NEW m \in Names \ torn' PROVE FileOK(disk', L, m, disk'[Dir][m])
      <3>1. m \notin torn /\ (card = "on" => m \notin Unsaved)
        BY <1>4, <2>1 DEF Tears
      <3>2. FileOK(disk, L, m, disk[Dir][m])
        BY <1>2, <3>1, ClosedFile
      <3> QED BY <1>8, <1>9, <3>2
    <2> QED BY <1>2, <1>4, <1>8, <2>1, <2>2, <2>3, EntryFails
  <1>11. CASE ok
    <2>1. /\ card = "on" /\ card' = "on" /\ torn' = torn /\ disk' = k
          /\ fd[d].free /\ OneChanged(d, Opened(n, e, End))
      BY <1>1, <1>2, <1>4, <1>11, SetOne DEF Wrote, Tears, NextFd
    <2>2. Between(L, d, n)
      BY <1>2, <1>5, <1>8, <2>1 DEF Between, OneChanged, Active
    <2>3. n \notin torn => FileOK(disk', L, n, e)
      <3>1. n \notin torn => FileOK(disk, L, n, disk[Dir][n])
        BY <1>2 DEF Sound, FilesOK
      <3> QED BY <1>5, <1>9, <2>1, <3>1
    <2>4. disk'[Dir][n] = e
      BY <1>5, <2>1
    <2>5. fd'[d] = Opened(n, e, End)
      BY <2>1 DEF OneChanged
    <2>6. End = IF e.cluster = 0 THEN End ELSE First(disk', e.cluster)
      BY <1>3
    <2> QED BY <1>2, <1>6, <2>1, <2>2, <2>3, <2>4, <2>5, <2>6, OpenedSound
  <1> QED BY <1>10, <1>11

LEMMA CloseFileSound ==
  ASSUME NEW L, Given(L), NEW d \in Fds, CloseFile(d)
  PROVE  Sound(L)'
  <1> DEFINE f == fd[d]
             n == f.name
             e == [used |-> TRUE, cluster |-> f.cluster, size |-> f.size]
  <1>1. /\ At("idle") /\ ~f.free /\ UNCHANGED job /\ OneChanged(d, Free)
        /\ IInv /\ Before(L) /\ Sound(L) /\ Narrow
    BY SetOne DEF CloseFile, Given, Before
  <1>2. fd'[d] = Free /\ \A x \in Fds \ {d} : fd'[x] = fd[x]
    BY <1>1 DEF OneChanged
  <1>3. ~Usable(d)'
    BY <1>2 DEF Usable, Free
  <1>4. CASE UNCHANGED <<disk, card, cacheAddr, cut, torn>> /\ ~(f.modified /\ ~f.stale)
    <2>1. Tidy' /\ (Active' <=> Active)
      BY <1>1, <1>4 DEF Sound, Tidy, Active
    <2>2. \A m \in Names \ torn : Alike(disk, L, disk', L, m)
      BY <1>4, AlikeSame
    <2>3. Between(L, d, n)
      BY <1>1, <1>2, <1>4, <2>1, <2>2 DEF Between
    <2>4. ASSUME Usable(d), card = "on", n \notin torn
          PROVE  FileOK(disk', L, n, disk'[Dir][n])
      <3>1. ~f.modified /\ n \in Names
        BY <1>1, <1>4, <2>4 DEF Usable, Sound, Engaged
      <3>2. PICK C \in Nat : Resting(disk, L, f, C, cut)
        BY <1>1, <2>4, HandAtRest DEF Active
      <3>3. FileOK(disk, L, n, f)
        BY <3>2, RestingFile
      <3>4. disk[Dir][n].cluster = f.cluster /\ disk[Dir][n].size = f.size
        BY <1>1, <2>4, <3>1 DEF Sound, Saved, InTurn
      <3> QED BY <1>4, <3>3, <3>4, SameEntry
    <2>5. ~Usable(d) => UNCHANGED <<disk, cut>>
      BY <1>4
    <2> QED BY <1>2, <2>3, <2>4, <2>5, ClosedSound
  <1>5. ASSUME f.modified, ~f.stale, NEW ok \in BOOLEAN,
               Update(Dir, [Get(Dir) EXCEPT ![n] = e], Miss(Dir), ok),
               cut' = IF ok THEN cut \ {n} ELSE cut
        PROVE  Sound(L)'
    <2> DEFINE k == PutDir(n, e)
    <2>1. /\ Wrote(k, ok) /\ Tears /\ ~IsData(cacheAddr')
          /\ Usable(d) /\ n \in Names
      BY <1>1, <1>5, DirWritten, UpdateTears, NoData DEF Usable, Sound, Engaged
    <2>2. /\ \A m : Alike(disk, L, k, L, m)
          /\ \A m \in Names : k[Dir][m] = IF m = n THEN e ELSE disk[Dir][m]
      BY <1>1, EntryAlike
    <2>3. e.used /\ e.cluster = f.cluster /\ e.size = f.size
      OBVIOUS
    <2> HIDE DEF k, e
    <2>4. Tidy' /\ (disk' = disk \/ (card = "on" /\ disk' = k))
      <3>1. disk' = disk \/ (card = "on" /\ disk' = k)
        BY <2>1 DEF Wrote
      <3> QED BY <1>1, <2>2, <2>3, <3>1 DEF Sound, Tidy
    <2>5. CASE ~ok
      <3>1. card' # "on"
        BY <2>1, <2>5, OffIsNotOn DEF Wrote
      <3>2. Engaged'
        BY <1>1, <1>2, <1>3, EngagedIdle DEF Sound
      <3>3. ASSUME NEW m \in Names \ torn' PROVE FileOK(disk', L, m, disk'[Dir][m])
        <4>1. m \notin torn /\ (card = "on" => m \notin Unsaved /\ m # n)
          <5>1. n \in Unsaved
            BY <1>5, <2>1 DEF Unsaved
          <5> QED BY <2>1, <3>1, <5>1 DEF Tears
        <4>2. FileOK(disk, L, m, disk[Dir][m])
          BY <1>1, <4>1, ClosedFile
        <4>3. CASE disk' = disk
          BY <4>2, <4>3
        <4>4. CASE card = "on" /\ disk' = k
          BY <2>2, <4>1, <4>2, <4>4, AlikeFile
        <4> QED BY <2>4, <4>3, <4>4
      <3> QED BY <1>1, <2>1, <2>4, <3>1, <3>2, <3>3, EntryFails
    <2>6. CASE ok
      <3>1. /\ card = "on" /\ card' = "on" /\ torn' = torn /\ disk' = k /\ cut' = cut \ {n}
        BY <1>5, <2>1, <2>6 DEF Wrote, Tears
      <3>2. Between(L, d, n)
        BY <1>1, <1>2, <2>2, <2>4, <3>1 DEF Between, Active
      <3>3. ASSUME n \notin torn PROVE FileOK(disk', L, n, disk'[Dir][n])
        <4>1. PICK C \in Nat : Resting(disk, L, f, C, cut)
          BY <1>1, <2>1, <3>1, <3>3, HandAtRest DEF Active
        <4>2. FileOK(disk, L, n, f)
          BY <4>1, RestingFile
        <4>3. FileOK(k, L, n, f)
          BY <2>2, <4>2, AlikeFile
        <4>4. k[Dir][n] = e
          BY <2>1, <2>2
        <4> QED BY <2>3, <3>1, <4>3, <4>4, SameEntry
      <3> QED BY <1>2, <2>1, <3>2, <3>3, ClosedSound
    <2> QED BY <2>5, <2>6
  <1> QED BY <1>1, <1>4, <1>5 DEF CloseFile

---------------------------------------------------------------------------
(* Mounting, and the power: no descriptor is usable.                       *)

LEMMA NobodySound ==
  ASSUME NEW L, Sound(L), disk' = disk, torn \cup Unsaved \subseteq torn' \/ card # "on",
         torn \subseteq torn', job'.pc = "idle", \A d \in Fds : ~Usable(d)'
  PROVE  Sound(L)'
  <1>1. FilesOK(L)'
    <2> SUFFICES ASSUME NEW n \in Names \ torn' PROVE FileOK(disk', L, n, disk'[Dir][n])
      BY DEF FilesOK
    <2>1. n \notin torn /\ (card = "on" => n \notin Unsaved)
      OBVIOUS
    <2> QED BY <2>1, ClosedFile
  <1>2. Tidy' /\ Engaged' /\ Loose(L)'
    BY DEF Sound, Tidy, Engaged, Distinct, At, Loose
  <1>3. InHand(L)' /\ Saved'
    BY DEF InHand, Saved, InTurn
  <1> QED BY <1>1, <1>2, <1>3 DEF Sound

LEMMA MountSound ==
  ASSUME NEW L, Given(L), Mount
  PROVE  Sound(L)'
  <1>1. disk' = disk /\ torn' = torn /\ card # "on" /\ job'.pc = "idle"
    BY OffIsNotOn DEF Mount, At
  <1>2. \A d \in Fds : ~Usable(d)'
    BY DEF Mount, Usable, Given, Before, IInv, Descs, DescOK, Free
  <1> QED BY <1>1, <1>2, NobodySound DEF Given

LEMMA CrashSound ==
  ASSUME NEW L, Given(L), Crash
  PROVE  Sound(L)'
  <1>1. disk' = disk /\ torn' = torn \cup Unsaved /\ job'.pc = "idle"
    BY DEF Crash, Return, Idle
  <1>2. \A d \in Fds : ~Usable(d)'
    BY DEF Crash, Usable, Free
  <1> QED BY <1>1, <1>2, NobodySound DEF Given

---------------------------------------------------------------------------
LEMMA FormattedSound ==
  ASSUME Small, Init
  PROVE  WholeInv
  <1>1. Narrow
    BY SmallNumbers
  <1>2. PICK L \in Labels : Labelled(L)
    BY <1>1, FormattedLabels DEF ChainInv
  <1>3. /\ \A c \in Clusters : First(disk, c) = 0 /\ Second(disk, c) = 0
        /\ \A n \in Names : disk[Dir][n] = EmptyEntry
    <2>1. \A c \in Clusters : c \in Nums /\ ~(c < 2)
      BY <1>1, ClusterNumbers DEF Clusters
    <2> QED BY <2>1, FormattedEntries
  <1>4. ASSUME NEW n \in Names PROVE FileOK(disk, L, n, disk[Dir][n])
    <2>1. Complete(disk, L, n, 0)
      BY <1>3 DEF Complete, Formed, Belongs, Used
    <2>2. Heads(disk, L, n, EmptyEntry.cluster, 0) /\ Fills(EmptyEntry.size, LastLen(EmptyEntry.size), 0)
      BY DEF Heads, Fills, EmptyEntry, LastLen
    <2> QED BY <1>3, <2>1, <2>2 DEF FileOK, Makes
  <1>5. \A d \in Fds : ~Usable(d)
    BY DEF Init, Usable, Free
  <1>6. job.pc = "idle"
    BY DEF Init, Idle
  <1>7. FilesOK(L) /\ Tidy
    BY <1>3, <1>4 DEF FilesOK, Tidy, EmptyEntry
  <1>8. Engaged /\ Loose(L)
    BY <1>5, <1>6 DEF Engaged, Distinct, At, Loose
  <1>9. InHand(L) /\ Saved
    BY <1>5 DEF InHand, Saved, InTurn
  <1> QED BY <1>2, <1>7, <1>8, <1>9 DEF WholeInv, Sound

LEMMA CallsKeep ==
  ASSUME NEW L, Given(L), Call
  PROVE  Labelled(L)' /\ Sound(L)'
  <1>1. Before(L)
    BY DEF Given
  <1>2. ASSUME NEW n \in Names, OpenFile(n) \/ CreateFile(n) PROVE Labelled(L)' /\ Sound(L)'
    BY <1>1, <1>2, OpenFileLabels, CreateFileLabels, OpenFileSound, CreateFileSound
  <1>3. ASSUME NEW d \in Fds, CloseFile(d) \/ StartSeek(d) PROVE Labelled(L)' /\ Sound(L)'
    BY <1>1, <1>3, CloseFileLabels, StartSeekLabels, CloseFileSound, StartSeekSound
  <1>4. ASSUME NEW d \in Fds, TruncateWhole(d) \/ TruncateBetween(d) \/ TruncateInside(d)
        PROVE  Labelled(L)' /\ Sound(L)'
    BY <1>1, <1>4, TruncateWholeLabels, TruncateBetweenLabels, TruncateInsideLabels,
       TruncateWholeSound, TruncateBetweenSound, TruncateInsideSound
  <1>5. ASSUME NEW d \in Fds, NEW n \in Lens, NEW write \in BOOLEAN, StartTransfer(d, n, write)
        PROVE  Labelled(L)' /\ Sound(L)'
    BY <1>1, <1>5, StartTransferLabels, StartTransferSound
  <1> QED BY <1>2, <1>3, <1>4, <1>5 DEF Call

LEMMA StepsKeep ==
  ASSUME NEW L, Given(L), Step, ~TakeCluster, ~TakeMirror
  PROVE  Labelled(L)' /\ Sound(L)'
  <1>1. Before(L)
    BY DEF Given
  <1>2. CASE DiskFull \/ LinkCluster \/ LinkMirror \/ TransferChunk \/ EndOfFile \/ CrossCluster
    BY <1>1, <1>2, DiskFullLabels, LinkClusterLabels, LinkMirrorLabels, TransferChunkLabels,
       EndOfFileLabels, CrossClusterLabels, DiskFullSound, LinkClusterSound, LinkMirrorSound,
       TransferChunkSound, EndOfFileSound, CrossClusterSound
  <1>3. CASE FindParent \/ CutChain \/ CutMirror \/ FreeCluster \/ FreeMirror \/ SeekOn \/ EndSeek
    BY <1>1, <1>3, FindParentLabels, CutChainLabels, CutMirrorLabels, FreeClusterLabels,
       FreeMirrorLabels, SeekOnLabels, EndSeekLabels, FindParentSound, CutChainSound,
       CutMirrorSound, FreeClusterSound, FreeMirrorSound, SeekOnSound, EndSeekSound
  <1> QED BY <1>2, <1>3 DEF Step

LEMMA StutterKeeps ==
  ASSUME NEW L, Given(L), UNCHANGED vars
  PROVE  Labelled(L)' /\ Sound(L)'
  <1>1. Labelled(L)'
    BY DEF Given, Before, vars, Labelled, Tables, Listed, Live, Distinct, Usable, Releases,
           Fresh, Desc
  <1>2. Sound(L)'
    <2>1. UNCHANGED <<disk, card, fd, job, cut, torn, cacheAddr>>
      BY DEF vars
    <2> QED BY <2>1, SameSound DEF Given, Active
  <1> QED BY <1>1, <1>2

(* The invariant is kept by every step. *)
LEMMA WholeKept ==
  ASSUME Small, ReuseTruncated = FALSE, IInv, WholeInv, [Next]_vars
  PROVE  WholeInv'
  <1>1. PICK L \in Labels : Labelled(L) /\ Sound(L)
    BY DEF WholeInv
  <1>2. Given(L) /\ Before(L)
    BY <1>1, SmallNumbers DEF Given, Before
  <1>3. Labelled(L)' /\ Sound(L)' => WholeInv'
    BY DEF WholeInv
  <1>4. CASE Call
    BY <1>2, <1>3, <1>4, CallsKeep
  <1>5. CASE Step
    BY <1>2, <1>3, <1>5, StepsKeep, TakeClusterSound, TakeMirrorSound
  <1>6. CASE Mount \/ Crash
    BY <1>2, <1>3, <1>6, MountLabels, CrashLabels, MountSound, CrashSound
  <1>7. CASE UNCHANGED vars
    BY <1>2, <1>3, <1>7, StutterKeeps
  <1> QED BY <1>4, <1>5, <1>6, <1>7 DEF Next

LEMMA WholeInvariant ==
  ASSUME Small, ReuseTruncated = FALSE
  PROVE  Spec => [](IInv /\ WholeInv)
  <1>1. Init => WholeInv
    BY FormattedSound
  <1>2. IInv /\ WholeInv /\ [Next]_vars => WholeInv'
    BY WholeKept, Zenon
  <1> QED BY <1>1, <1>2, Invariant, PTL DEF Spec

---------------------------------------------------------------------------
(* The chain of a file of C clusters: its nth cluster is the one of rank   *)
(* n, and behind the last there is none.                                   *)

LEMMA WholeGiven ==
  ASSUME Small, ReuseTruncated = FALSE, IInv, WholeInv
  PROVE  \E L \in Labels : Given(L) /\ Before(L)
  <1>1. PICK L \in Labels : Labelled(L) /\ Sound(L)
    BY DEF WholeInv
  <1>2. Given(L) /\ Before(L)
    BY <1>1, SmallNumbers DEF Given, Before
  <1> QED BY <1>2

Stops(L, n, C) ==
  \A x \in Clusters : Belongs(disk, L, x, n) /\ L.rank[x] < C =>
    /\ IsLast(First(disk, x)) => L.rank[x] + 1 = C
    /\ L.rank[x] + 1 = C => IsLast(First(disk, x))
Follows(L, n, c, C) == Given(L) /\ Stops(L, n, C) /\ Heads(disk, L, n, c, C)

LEMMA CompleteStops ==
  ASSUME NEW L, NEW n, NEW C, Complete(disk, L, n, C)
  PROVE  Stops(L, n, C)
  BY DEF Complete, Formed, Stops

LEMMA ChainRanks ==
  ASSUME NEW L, NEW n, NEW c, NEW C \in Nat, Follows(L, n, c, C), NEW i \in 0 .. Entries * Sectors
  PROVE  LET x == Nth(c)[i]
         IN  /\ i < C => Belongs(disk, L, x, n) /\ L.rank[x] = i
             /\ C <= i => IF C = 0 THEN x = 0 ELSE IsLast(x)
  <1> DEFINE N == Entries * Sectors
             f == Nth(c)
             P(j) == /\ j < C => Belongs(disk, L, f[j], n) /\ L.rank[f[j]] = j
                     /\ C <= j => IF C = 0 THEN f[j] = 0 ELSE IsLast(f[j])
             S == {j \in Nat : j <= N => P(j)}
  <1>1. f = [j \in 0 .. N |-> IF j = 0 THEN c ELSE Onward(f[j - 1])] /\ N \in Nat
    BY NthWalks, Sizes DEF Walk
  <1>2. /\ Before(L) /\ 0 \notin Clusters /\ (\A x \in Clusters : ~IsLast(x))
        /\ Stops(L, n, C)
    BY SmallNumbers, ClusterNumbers DEF Follows, Given
  <1> HIDE DEF f, N
  <1>3. 0 \in S
    <2>1. f[0] = c
      BY <1>1
    <2>2. C = 0 => c = 0
      BY DEF Follows, Heads
    <2>3. 0 < C => Belongs(disk, L, c, n) /\ L.rank[c] = 0
      BY DEF Follows, Heads, Begins
    <2> QED BY <2>1, <2>2, <2>3
  <1>4. ASSUME NEW j \in Nat, j \in S PROVE j + 1 \in S
    <2> SUFFICES ASSUME j + 1 <= N PROVE P(j + 1)
      OBVIOUS
    <2>1. f[j + 1] = Onward(f[j]) /\ j <= N
      BY <1>1
    <2>2. P(j)
      BY <1>4, <2>1
    <2> HIDE DEF S
    <2>3. CASE j < C
      <3>1. Belongs(disk, L, f[j], n) /\ L.rank[f[j]] = j /\ f[j] \in Clusters
        BY <2>2, <2>3 DEF Belongs
      <3>2. f[j + 1] = First(disk, f[j])
        BY <2>1, <3>1 DEF Onward, OnDisk, First
      <3> DEFINE y == f[j + 1]
      <3> HIDE DEF y
      <3>3. y = First(disk, f[j])
        BY <3>2 DEF y
      <3>4. /\ IsLast(y) => j + 1 = C
            /\ j + 1 = C => IsLast(y)
            /\ ~IsLast(y) => Belongs(disk, L, y, n) /\ L.rank[y] = j + 1
        <4>1. ~IsLast(y) => Belongs(disk, L, y, n) /\ L.rank[y] = j + 1
          BY <1>2, <3>1, <3>3, WalkOn
        <4> QED BY <1>2, <2>3, <3>1, <3>3, <4>1 DEF Stops
      <3>5. P(j + 1)
        <4>1. j + 1 < C => Belongs(disk, L, y, n) /\ L.rank[y] = j + 1
          BY <3>4
        <4>2. C <= j + 1 => C # 0 /\ IsLast(y)
          BY <2>3, <3>4
        <4> QED BY <4>1, <4>2 DEF y
      <3> QED BY <3>5
    <2>4. CASE C <= j
      <3>1. f[j] \notin Clusters
        BY <1>2, <2>2, <2>4
      <3>2. f[j + 1] = f[j]
        BY <2>1, <3>1 DEF Onward
      <3> QED BY <2>2, <2>4, <3>2
    <2> QED BY <2>3, <2>4
  <1>5. Nat \subseteq S
    <2> HIDE DEF S
    <2> QED BY <1>3, <1>4, SetInduction
  <1>6. i \in Nat /\ i <= N
    BY <1>1 DEF N
  <1>7. P(i)
    BY <1>5, <1>6
  <1> QED BY <1>7 DEF f

LEMMA ChainSize ==
  ASSUME NEW L, NEW n, NEW c, NEW C \in Nat, Follows(L, n, c, C)
  PROVE  /\ C <= Entries * Sectors
         /\ Cardinality(Chain(c)) = C
         /\ \A x \in Chain(c) : L.own[x] = n
         /\ C = 0 => Chain(c) = {}
  <1> DEFINE N == Entries * Sectors
             f == Nth(c)
             P(i) == /\ i < C => Belongs(disk, L, f[i], n) /\ L.rank[f[i]] = i
                     /\ C <= i => IF C = 0 THEN f[i] = 0 ELSE IsLast(f[i])
  <1>1. N \in Nat /\ DOMAIN f = 0 .. N
    BY NthWalks, Sizes DEF Walk
  <1>2. 0 \notin Clusters /\ (\A x \in Clusters : ~IsLast(x))
    BY SmallNumbers, ClusterNumbers DEF Follows, Given
  <1>3. \A i \in 0 .. N : P(i)
    BY ChainRanks
  <1>4. Chain(c) = {f[i] : i \in 0 .. N} \cap Clusters
    BY <1>1 DEF Chain
  <1> HIDE DEF f, N
  <1>5. \A i \in 0 .. N : i < C => f[i] \in Clusters /\ L.own[f[i]] = n /\ L.rank[f[i]] = i
    BY <1>3 DEF Belongs
  <1>6. \A i \in 0 .. N : C <= i => f[i] \notin Clusters
    BY <1>2, <1>3
  <1>7. C <= N
    <2> SUFFICES ASSUME N < C PROVE FALSE
      BY <1>1
    <2> DEFINE g == [i \in 0 .. N |-> f[i]]
    <2>1. /\ IsFiniteSet(Nums) /\ Cardinality(Nums) = N
          /\ IsFiniteSet(0 .. N) /\ Cardinality(0 .. N) = N + 1
      <3>1. 0 \in Int /\ N - 1 \in Int /\ N \in Int /\ (N - 1) - 0 + 1 = N /\ N - 0 + 1 = N + 1
            /\ ~(0 > N) /\ N > 0
        BY <1>1, Sizes DEF N
      <3>2. IsFiniteSet(0 .. N - 1) /\ Cardinality(0 .. N - 1) = N
        BY <3>1, FS_Interval
      <3>3. IsFiniteSet(0 .. N) /\ Cardinality(0 .. N) = N + 1
        BY <3>1, FS_Interval
      <3> QED BY <3>2, <3>3 DEF Nums, N
    <2>2. g \in [0 .. N -> Nums]
      <3>1. Clusters \subseteq Nums
        BY ClusterNumbers, SmallNumbers DEF Follows, Given
      <3>2. \A i \in 0 .. N : f[i] \in Nums
        BY <1>1, <1>5, <3>1
      <3> QED BY <3>2
    <2>3. Cardinality(Nums) < Cardinality(0 .. N)
      BY <1>1, <2>1
    <2> HIDE DEF g
    <2>4. PICK i \in 0 .. N, j \in 0 .. N : i # j /\ g[i] = g[j]
      <3> DEFINE T == 0 .. N
      <3> HIDE DEF T
      <3>1. IsFiniteSet(T) /\ g \in [T -> Nums] /\ Cardinality(Nums) < Cardinality(T)
        BY <2>1, <2>2, <2>3 DEF T
      <3>2. \E i, j \in T : i # j /\ g[i] = g[j]
        BY <2>1, <3>1, FS_PigeonHole
      <3> QED BY <3>2 DEF T
    <2>5. f[i] = f[j]
      BY <2>4 DEF g
    <2> QED BY <1>1, <1>5, <2>4, <2>5
  <1>8. Chain(c) = {f[i] : i \in 0 .. C - 1}
    <2>1. ASSUME NEW i \in 0 .. N, f[i] \in Clusters PROVE i \in 0 .. C - 1
      BY <1>1, <1>6, <2>1
    <2>2. ASSUME NEW i \in 0 .. C - 1 PROVE i \in 0 .. N /\ f[i] \in Clusters
      BY <1>1, <1>5, <1>7
    <2> QED BY <1>4, <2>1, <2>2
  <1>9. Cardinality(Chain(c)) = C
    <2> DEFINE I == 0 .. C - 1
               g == [i \in I |-> f[i]]
    <2>1. IsFiniteSet(I) /\ Cardinality(I) = C
      <3>1. CASE C = 0
        <4>1. I = {}
          BY <3>1
        <4> QED BY <3>1, <4>1, FS_EmptySet
      <3>2. CASE C # 0
        <4>1. 0 <= C - 1 /\ C - 1 \in Int /\ (C - 1) - 0 + 1 = C
          BY <3>2
        <4> QED BY <4>1, FS_Interval
      <3> QED BY <3>1, <3>2
    <2>2. \A i, j \in I : f[i] = f[j] => i = j
      <3>1. \A i \in I : L.rank[f[i]] = i
        BY <1>1, <1>5, <1>7
      <3> QED BY <3>1
    <2>3. g \in Bijection(I, Chain(c))
      <3>1. g \in [I -> Chain(c)]
        BY <1>8
      <3>2. \A x \in Chain(c) : \E i \in I : g[i] = x
        BY <1>8
      <3>3. IsInjective(g)
        BY <2>2, <3>1 DEF IsInjective
      <3> HIDE DEF g, I
      <3> QED BY <3>1, <3>2, <3>3 DEF Bijection, Injection, Surjection
    <2> HIDE DEF g, I
    <2> QED BY <2>1, <2>3, FS_Bijection DEF ExistsBijection
  <1>10. \A x \in Chain(c) : L.own[x] = n
    BY <1>1, <1>5, <1>7, <1>8
  <1>11. C = 0 => Chain(c) = {}
    BY <1>8
  <1> QED BY <1>7, <1>9, <1>10, <1>11 DEF N

---------------------------------------------------------------------------
(* What a file is between calls. *)
LEMMA FileIs ==
  ASSUME NEW L, Given(L), At("idle"), NEW n \in Names \ torn
  PROVE  FileOK(disk, L, n, File(n))
  <1> DEFINE e == File(n)
  <1>1. Sound(L)
    BY DEF Given
  <1>2. CASE IsOpen(n) /\ card = "on"
    <2> DEFINE d == CHOOSE d \in Fds : Usable(d) /\ fd[d].name = n
    <2>1. d \in Fds /\ Usable(d) /\ fd[d].name = n
      BY <1>2 DEF IsOpen
    <2>2. e.cluster = fd[d].cluster /\ e.size = fd[d].size
      BY <1>2 DEF File
    <2> HIDE DEF d, e
    <2>3. PICK C \in Nat : Resting(disk, L, fd[d], C, cut)
      BY <1>1, <1>2, <2>1, HandAtRest DEF Active
    <2>4. FileOK(disk, L, n, fd[d])
      BY <2>1, <2>3, RestingFile
    <2>5. FileOK(disk, L, n, e)
      BY <2>2, <2>4, SameEntry
    <2> QED BY <2>5 DEF e
  <1>3. CASE ~(IsOpen(n) /\ card = "on")
    <2>1. FileOK(disk, L, n, disk[Dir][n])
      BY <1>1, <1>3 DEF Sound, FilesOK
    <2>2. e.cluster = disk[Dir][n].cluster /\ e.size = disk[Dir][n].size
      BY <1>3 DEF File
    <2> HIDE DEF e
    <2>3. FileOK(disk, L, n, e)
      BY <2>1, <2>2, SameEntry
    <2> QED BY <2>3 DEF e
  <1> QED BY <1>2, <1>3

LEMMA FileChain ==
  ASSUME NEW L, Given(L), NEW n, NEW e, FileOK(disk, L, n, e)
  PROVE  LET k == ClustersOf(e.size)
         IN  /\ k \in Nat
             /\ e.cluster = 0 => k = 0
             /\ k = 0 => e.cluster = 0
             /\ k > 0 => Cardinality(Chain(e.cluster)) = k /\ IsLast(Nth(e.cluster)[k])
             /\ \A x \in Chain(e.cluster) : L.own[x] = n
  <1>1. PICK C \in Nat : /\ Complete(disk, L, n, C) /\ Heads(disk, L, n, e.cluster, C)
                         /\ Fills(e.size, LastLen(e.size), C)
    BY DEF FileOK, Makes
  <1>2. ClustersOf(e.size) = C
    BY <1>1, FillsLen
  <1>3. Follows(L, n, e.cluster, C)
    BY <1>1, CompleteStops DEF Follows
  <1>4. /\ C <= Entries * Sectors /\ Cardinality(Chain(e.cluster)) = C
        /\ \A x \in Chain(e.cluster) : L.own[x] = n
    BY <1>3, ChainSize
  <1>5. C > 0 => IsLast(Nth(e.cluster)[C])
    <2>1. C \in 0 .. Entries * Sectors /\ C <= C
      BY <1>4, Sizes
    <2>2. IF C = 0 THEN Nth(e.cluster)[C] = 0 ELSE IsLast(Nth(e.cluster)[C])
      BY <1>3, <2>1, ChainRanks
    <2> QED BY <2>2
  <1>6. /\ e.cluster = 0 => C = 0
        /\ C = 0 => e.cluster = 0
    <2>1. 0 \notin Clusters
      BY SmallNumbers, ClusterNumbers DEF Given
    <2> QED BY <1>1, <2>1 DEF Heads, Begins, Belongs
  <1> QED BY <1>2, <1>4, <1>5, <1>6

(* Between calls every file is whole, whatever has failed, unless the      *)
(* failure came while the file itself was being changed: its chain is as   *)
(* long as its size needs, ends there, and shares no cluster with another  *)
(* (alloc_cluster, seek_advance, fat_truncate, fat_close) - if programs    *)
(* leave alone a file that was truncated to nothing.                       *)
THEOREM FilesStayWhole ==
  ASSUME Small, ReuseTruncated = FALSE
  PROVE  Spec => []FilesWhole
  <1>1. IInv /\ WholeInv => FilesWhole
    <2> SUFFICES ASSUME IInv, WholeInv PROVE FilesWhole
      OBVIOUS
    <2>1. PICK L \in Labels : Given(L)
      BY WholeGiven
    <2> SUFFICES ASSUME At("idle"), NEW n \in Names, Whole(n)
                 PROVE  LET f == File(n)
                            k == ClustersOf(f.size)
                        IN  /\ (f.cluster = 0 <=> k = 0)
                            /\ k > 0 => /\ Cardinality(Chain(f.cluster)) = k
                                        /\ IsLast(Nth(f.cluster)[k])
                            /\ \A m \in Names \ {n} :
                                 Whole(m) => Chain(f.cluster) \cap Chain(File(m).cluster) = {}
      BY DEF FilesWhole
    <2> DEFINE f == File(n)
               k == ClustersOf(f.size)
    <2>2. ASSUME NEW m \in Names, Whole(m)
          PROVE  \A x \in Chain(File(m).cluster) : L.own[x] = m
      BY <2>1, <2>2, FileIs, FileChain DEF Whole
    <2>3. FileOK(disk, L, n, f)
      BY <2>1, FileIs DEF Whole
    <2> HIDE DEF f
    <2>4. /\ f.cluster = 0 => k = 0
          /\ k = 0 => f.cluster = 0
          /\ k > 0 => Cardinality(Chain(f.cluster)) = k /\ IsLast(Nth(f.cluster)[k])
          /\ \A x \in Chain(f.cluster) : L.own[x] = n
      BY <2>1, <2>3, FileChain
    <2>5. ASSUME NEW m \in Names \ {n}, Whole(m)
          PROVE  Chain(f.cluster) \cap Chain(File(m).cluster) = {}
      BY <2>2, <2>4, <2>5
    <2>6. f.cluster = 0 <=> k = 0
      BY <2>4
    <2> HIDE DEF k
    <2> QED BY <2>4, <2>5, <2>6 DEF f, k
  <1> QED BY <1>1, WholeInvariant, PTL

(* What a call leaves right until it is done, unless it truncates.  While  *)
(* a cluster is linked, the chain of the copy that is read ends before it. *)
LEMMA InCall ==
  ASSUME NEW L, Given(L), card = "on", NEW d \in Fds, InUse(d), fd[d].name \notin torn,
         ~Truncates(d), ReuseTruncated = FALSE
  PROVE  \E C \in Nat : /\ Follows(L, fd[d].name, fd[d].cluster, C)
                       /\ fd[d].size = fd[d].last + (IF C = 0 THEN 0 ELSE (C - 1) * ClusterSize)
  <1> DEFINE f == fd[d]
             j == Job(d)
             before(C) == IF C = 0 THEN 0 ELSE (C - 1) * ClusterSize
  <1>1. Usable(d) /\ ~Spent(f, cut)
    BY DEF InUse, Spent
  <1>2. PICK C \in Nat : Doing(disk, L, j, f, C, cut)
    BY <1>1 DEF Given, Sound, InHand, InTurn, Active, Good
  <1>3. j.pc = "idle" \/ j.pc \in Moving
    BY DEF Job, Idle, Truncates, At
  <1> HIDE DEF j, f
  <1>4. \/ Complete(disk, L, f.name, C) /\ Lies(disk, L, f, C) /\ Fills(f.size, f.last, C)
        \/ Attaching(disk, L, j, f, C)
        \/ \E z : Extending(disk, L, j, f, C, z)
    BY <1>1, <1>2, <1>3 DEF Moving, Doing, Resting, Sending, Standing, Ready
  <1>5. Lies(disk, L, f, C) => Heads(disk, L, f.name, f.cluster, C)
    BY DEF Lies, Located, Heads
  <1>6. Fills(f.size, f.last, C) => f.size = f.last + before(C)
    BY <1>2, NextMultiple, Geometry DEF Fills
  <1>7. CASE Complete(disk, L, f.name, C) /\ Lies(disk, L, f, C) /\ Fills(f.size, f.last, C)
    BY <1>2, <1>5, <1>6, <1>7, CompleteStops DEF Follows, f
  <1>8. CASE Attaching(disk, L, j, f, C)
    <2>1. f.last = 0 /\ C > 0 /\ f.size = (C - 1) * ClusterSize /\ (C - 1) * ClusterSize \in Nat
      BY <1>2, <1>8, NextMultiple DEF Attaching
    <2>2. f.size = f.last + before(C)
      BY <2>1
    <2>3. Follows(L, f.name, f.cluster, C)
      BY <1>5, <1>8, CompleteStops DEF Follows, Attaching
    <2> QED BY <1>2, <2>2, <2>3 DEF f
  <1>9. ASSUME NEW z, Extending(disk, L, j, f, C, z)
        PROVE  Follows(L, f.name, f.cluster, C) /\ f.size = f.last + before(C)
    <2>1. Formed(disk, L, f.name, 0 .. C, {C, C + 1}, z) /\ Ready(disk, L, f, C)
      BY <1>9 DEF Extending
    <2>2. Stops(L, f.name, C)
      BY <1>2, <2>1 DEF Formed, Stops
    <2> QED BY <1>5, <1>6, <2>1, <2>2 DEF Follows, Ready
  <1> QED BY <1>2, <1>4, <1>7, <1>8, <1>9 DEF f

(* last_cluster_len is the number of bytes in the last cluster of the      *)
(* chain (fat_private_init_fd, fat_action, fat_truncate), in every step of *)
(* every call but the truncation of this file, for every file that no      *)
(* failure has torn.                                                       *)
THEOREM LastLenKept ==
  ASSUME Small, ReuseTruncated = FALSE
  PROVE  Spec => []LastClusterLen
  <1>1. IInv /\ WholeInv => LastClusterLen
    <2> SUFFICES ASSUME IInv, WholeInv, card = "on",
                        NEW d \in Fds, InUse(d), Whole(fd[d].name), ~Truncates(d)
                 PROVE  LET k == Cardinality(Chain(fd[d].cluster))
                        IN  fd[d].size = fd[d].last + (IF k = 0 THEN 0 ELSE (k - 1) * ClusterSize)
      BY DEF LastClusterLen
    <2>1. PICK L \in Labels : Given(L)
      BY WholeGiven
    <2>2. PICK C \in Nat :
            /\ Follows(L, fd[d].name, fd[d].cluster, C)
            /\ fd[d].size = fd[d].last + (IF C = 0 THEN 0 ELSE (C - 1) * ClusterSize)
      BY <2>1, InCall DEF Whole
    <2>3. Cardinality(Chain(fd[d].cluster)) = C
      BY <2>2, ChainSize
    <2> QED BY <2>2, <2>3
  <1> QED BY <1>1, WholeInvariant, PTL

---------------------------------------------------------------------------
(* Where a chunk is: the pointer of a descriptor gives the cluster, the    *)
(* block in the cluster and the byte in the block.                         *)
LEMMA BlockDivides ==
  ASSUME NEW q \in Nat, NEW r \in Nat, r < BlockSize, NEW x, x = q * BlockSize + r
  PROVE  x \in Nat /\ x \div BlockSize = q /\ x % BlockSize = r
  BY Geometry, SMTT(30)

LEMMA Pointed ==
  ASSUME NEW r \in Nat, NEW b \in Nat, b < BlocksPerCluster, NEW i \in Nat, i < BlockSize,
         NEW x, x = r * ClusterSize + (b * BlockSize + i)
  PROVE  /\ x \div ClusterSize = r /\ (x % ClusterSize) \div BlockSize = b
         /\ x % BlockSize = i
  <1> DEFINE o == b * BlockSize + i
  <1>1. b * BlockSize + BlockSize <= ClusterSize /\ b * BlockSize \in Nat
    BY Multiples, Geometry
  <1>2. o \in Nat /\ o < ClusterSize
    BY <1>1, Geometry
  <1>3. o \div BlockSize = b
    BY BlockDivides
  <1>4. x = (r * BlocksPerCluster + b) * BlockSize + i
    <2>1. r * ClusterSize = (r * BlocksPerCluster) * BlockSize
      BY Geometry
    <2>2. (r * BlocksPerCluster + b) * BlockSize = (r * BlocksPerCluster) * BlockSize + b * BlockSize
      BY Geometry
    <2>3. (r * BlocksPerCluster) * BlockSize \in Nat
      BY Geometry
    <2> QED BY <1>1, <2>1, <2>2, <2>3
  <1>5. r * BlocksPerCluster + b \in Nat
    BY Geometry
  <1>6. x % BlockSize = i
    BY <1>4, <1>5, BlockDivides
  <1>7. x = r * ClusterSize + o
    OBVIOUS
  <1> HIDE DEF o
  <1>8. x \div ClusterSize = r /\ x % ClusterSize = o
    BY <1>2, <1>7, Divides
  <1> QED BY <1>3, <1>6, <1>8

(* The nth cluster of a file is the one of rank n. *)
LEMMA RankedNth ==
  ASSUME NEW L, NEW n, NEW c, NEW C \in Nat, Follows(L, n, c, C), Complete(disk, L, n, C),
         NEW x, Belongs(disk, L, x, n)
  PROVE  Nth(c)[L.rank[x]] = x
  <1> DEFINE i == L.rank[x]
             y == Nth(c)[i]
  <1>1. i \in Nat /\ i < C /\ x \in Clusters
    BY CompleteWalk DEF Follows, Given
  <1>2. C <= Entries * Sectors
    BY ChainSize
  <1>3. i \in 0 .. Entries * Sectors
    BY <1>1, <1>2, Sizes
  <1> HIDE DEF i
  <1>4. Belongs(disk, L, y, n) /\ L.rank[y] = i
    BY <1>1, <1>3, ChainRanks
  <1> HIDE DEF y
  <1>5. y \in Clusters
    BY <1>4 DEF Belongs
  <1>6. y = x
    BY <1>1, <1>4, <1>5 DEF i, Complete, Formed
  <1> QED BY <1>6 DEF i, y

LEMMA ChunkPlace ==
  ASSUME NEW L, Given(L), TransferChunk, Active, Desc.name \notin torn
  PROVE  /\ Data(Desc.addr) = BlockOf(Desc.cluster, Desc.pos)
         /\ Desc.index = Desc.pos % BlockSize
  <1> DEFINE g == Grown(Desc)
             n == ChunkLen(Desc)
             r == L.rank[g.cur]
  <1>1. DescOK(Desc) /\ Before(L)
    BY Acting DEF TransferChunk, At
  <1>2. /\ g.name = Desc.name /\ g.cluster = Desc.cluster /\ g.cur = Desc.cur
        /\ g.block = Desc.block /\ g.index = Desc.index /\ g.pos = Desc.pos /\ g.addr = Desc.addr
    BY <1>1, GrownSame
  <1>3. PICK C \in Nat : C # 0 /\ Fits(Desc, n) /\ Standing(disk, L, g, C) /\ L.rank[g.cur] \in Nat
    BY ChunkGood
  <1> HIDE DEF g, n
  <1>4. /\ Complete(disk, L, g.name, C) /\ Lies(disk, L, g, C) /\ Points(L, g, C)
        /\ Located(disk, L, g)
    BY <1>3 DEF Standing, Ready, Lies
  <1>5. Follows(L, g.name, g.cluster, C)
    BY <1>3, <1>4, CompleteStops DEF Follows, Heads, Located
  <1>6. Nth(g.cluster)[r] = g.cur
    BY <1>4, <1>5, RankedNth DEF Located
  <1>7. /\ g.block \in Nat /\ g.block < BlocksPerCluster /\ g.index \in Nat /\ g.index < BlockSize
    BY <1>2, <1>3, Geometry DEF Fits
  <1>8. g.addr = FirstBlock(g.cur) + g.block
    BY <1>4, <1>7 DEF Points, Within
  <1>9. g.pos = r * ClusterSize + (g.block * BlockSize + g.index)
    BY <1>3, <1>4 DEF Points, Base, Offset
  <1>10. r \in Nat
    BY <1>3
  <1> HIDE DEF r
  <1>11. /\ g.pos \div ClusterSize = r /\ (g.pos % ClusterSize) \div BlockSize = g.block
         /\ g.pos % BlockSize = g.index
    BY <1>7, <1>9, <1>10, Pointed
  <1>12. Data(g.addr) = BlockOf(g.cluster, g.pos)
    BY <1>6, <1>8, <1>11 DEF BlockOf
  <1> QED BY <1>2, <1>11, <1>12

(* A pointer that moves has been served from the block that is cached now. *)
LEMMA ChunkServed ==
  ASSUME NEW L, Given(L), \A b : Data(b) # None, TransferChunk, fd'[job.d].pos # Desc.pos
  PROVE  /\ Active /\ cacheAddr' = Data(Desc.addr)
         /\ fd'[job.d] = Advanced(Grown(Desc), ChunkLen(Desc))
  <1> DEFINE n == ChunkLen(Desc)
             b == Data(Desc.addr)
             g == Grown(Desc)
  <1>1. /\ IInv /\ Desc = fd[job.d] /\ DescOK(Desc) /\ job.d \in Fds
    BY Acting DEF TransferChunk, At
  <1>2. PICK ok \in BOOLEAN :
          /\ IF job.write THEN Update(b, Contents, Miss(b), ok) ELSE Fetch(b, Miss(b), ok)
          /\ Set(IF ok THEN Advanced(g, n) ELSE g)
    BY Chunked
  <1>3. g.pos = Desc.pos
    BY <1>1, GrownSame
  <1>4. OneChanged(job.d, IF ok THEN Advanced(g, n) ELSE g)
    BY <1>1, <1>2, SetOne DEF Set
  <1>5. ok /\ fd'[job.d] = Advanced(g, n)
    <2> HIDE DEF g
    <2> QED BY <1>3, <1>4 DEF OneChanged
  <1>6. Carried(b, ok)
    <2>1. b \notin DOMAIN disk
      BY <1>1, DirApart DEF IInv, Store, DiskOK
    <2> HIDE DEF b
    <2> QED BY <1>2, <2>1, ChunkTears
  <1>7. cacheAddr' = b /\ (card = "on" \/ cacheAddr = b)
    BY <1>5, <1>6 DEF Carried
  <1>8. IsData(b)
    BY DirApart DEF IsData
  <1> QED BY <1>5, <1>7, <1>8 DEF Active

(* Every chunk that is read or written is the one that the chain, followed *)
(* from the file's first cluster, holds at the pointer; it is inside the   *)
(* file, and a write makes the file longer by what lies past its old end   *)
(* (fat_action, seek_advance), for a file that no failure has torn - if    *)
(* INVALID_BLOCK_ADDR is the address of no block, and if programs leave    *)
(* alone a file that was truncated to nothing.                             *)
THEOREM ChunksInPlace ==
  ASSUME Small, ReuseTruncated = FALSE, \A b : Data(b) # None
  PROVE  Spec => TransferInPlace
  <1> DEFINE Placed ==
        TransferChunk /\ Whole(Desc.name) =>
          LET f == fd'[job.d]
          IN  f.pos # Desc.pos =>
                /\ cacheAddr' = BlockOf(f.cluster, Desc.pos)
                /\ Desc.index = Desc.pos % BlockSize
                /\ f.pos <= f.size
                /\ f.size = Growth(f)
  <1>1. IInv /\ WholeInv => Placed
    <2> DEFINE f == fd'[job.d]
               n == ChunkLen(Desc)
               g == Grown(Desc)
    <2> SUFFICES ASSUME IInv, WholeInv, TransferChunk, Whole(Desc.name), f.pos # Desc.pos
                 PROVE  /\ cacheAddr' = BlockOf(f.cluster, Desc.pos)
                        /\ Desc.index = Desc.pos % BlockSize
                        /\ f.pos <= f.size
                        /\ f.size = Growth(f)
      OBVIOUS
    <2>1. PICK L \in Labels : Given(L)
      BY WholeGiven
    <2>2. Active /\ cacheAddr' = Data(Desc.addr) /\ f = Advanced(g, n) /\ Desc.name \notin torn
      BY <2>1, ChunkServed DEF Whole
    <2>3. DescOK(Desc)
      BY <2>1, Acting DEF TransferChunk, At
    <2>4. g.cluster = Desc.cluster /\ g.pos = Desc.pos /\ DescOK(g)
      BY <2>3, GrownSame
    <2>5. PICK C \in Nat :
            /\ C # 0 /\ Standing(disk, L, g, C) /\ Fits(g, n) /\ g.pos + n <= g.size
            /\ L.rank[g.cur] \in Nat
            /\ g.size = IF job.write /\ Desc.pos + n > Desc.size THEN Desc.pos + n ELSE Desc.size
      BY <2>1, <2>2, ChunkGood
    <2>6. Data(Desc.addr) = BlockOf(Desc.cluster, Desc.pos) /\ Desc.index = Desc.pos % BlockSize
      BY <2>1, <2>2, ChunkPlace
    <2> HIDE DEF f, g, n
    <2>7. f.cluster = Desc.cluster /\ f.size = g.size /\ f.pos = Desc.pos + n
      BY <2>2, <2>4, <2>5, AdvancedReady
    <2>8. f.pos <= f.size
      BY <2>4, <2>5, <2>7
    <2>9. f.size = Growth(f)
      BY <2>5, <2>7 DEF Growth
    <2> QED BY <2>2, <2>6, <2>7, <2>8, <2>9
  <1>2. IInv /\ WholeInv => [Placed]_vars
    BY <1>1
  <1> HIDE DEF Placed
  <1>3. Spec => [][Placed]_vars
    BY <1>2, WholeInvariant, PTL
  <1> QED BY <1>3 DEF TransferInPlace, Placed

---------------------------------------------------------------------------
(* Types, tighter than TypeOK where a step would leave it: clusters 0 and  *)
(* 1 are never free, so no entry of a table leads to cluster 1.            *)

Slots == {0} \cup Clusters
Words == [0 .. Entries - 1 -> Values]
DirEntry == [used : BOOLEAN, cluster : Slots, size : Nat]
Directory == [Names -> DirEntry]
Typed(b, x) == (b \in TableBlocks => x \in Words) /\ (b = Dir => x \in Directory)
Places == TableBlocks \cup DataBlocks \cup {Dir, None}

DescType ==
  [free : BOOLEAN, stale : BOOLEAN, name : Names \cup {None}, modified : BOOLEAN,
   cluster : Slots, size : Nat, last : 0 .. ClusterSize, addr : Int,
   block : 0 .. BlocksPerCluster, index : 0 .. BlockSize - 1,
   next : Values, cur : Slots, pos : Nat]
CallType ==
  [pc : Steps, d : Fds \cup {0}, write : BOOLEAN, left : Nat, new : Values, from : Slots,
   whole : BOOLEAN]

StoreTyped ==
  /\ DOMAIN disk = TableBlocks \cup {Dir} /\ \A b \in DOMAIN disk : Typed(b, disk[b])
  /\ Typed(cacheAddr, cache) /\ cacheAddr \in Places
  /\ faults \in 0 .. MaxFaults /\ card \in {"on", "off"}
StateTyped == StoreTyped /\ fd \in [Fds -> DescType] /\ job \in CallType /\ cut \subseteq Names

LEMMA Ends16 == End \in Values /\ 0 \in Values /\ 0 \in Slots /\ Clusters \subseteq Slots
  BY DEF Values, Slots

LEMMA OpenedTyped ==
  ASSUME NEW n \in Names, NEW e \in DirEntry, NEW next \in Values
  PROVE  Opened(n, e, next) \in DescType
  <1>1. LastLen(e.size) \in 0 .. ClusterSize
    BY Geometry DEF LastLen, DirEntry
  <1>2. FirstBlock(e.cluster) \in Int
    BY Geometry DEF FirstBlock, DirEntry, Slots, Clusters
  <1>3. 0 \in 0 .. BlocksPerCluster /\ 0 \in 0 .. BlockSize - 1
    BY Geometry
  <1>4. e.cluster \in Slots /\ e.size \in Nat
    BY DEF DirEntry
  <1> QED BY <1>1, <1>2, <1>3, <1>4 DEF Opened, Free, DescType

LEMMA FreeTyped == Free \in DescType
  BY Geometry DEF Free, DescType, Values, Slots

LEMMA AttachedTyped ==
  ASSUME NEW f \in DescType, NEW c \in Slots
  PROVE  Attached(f, c) \in DescType
  <1>1. FirstBlock(c) \in Int /\ c \in Slots /\ End \in Values
    BY Geometry, Ends16 DEF FirstBlock, Clusters, Slots
  <1>2. 0 \in 0 .. BlocksPerCluster /\ 0 \in 0 .. ClusterSize
    BY Geometry
  <1>3. CASE f.cur = 0
    <2>1. Attached(f, c) = [f EXCEPT !.cur = c, !.next = End, !.addr = FirstBlock(c),
                                     !.cluster = c, !.modified = TRUE]
      BY <1>3 DEF Attached
    <2> QED BY <1>1, <2>1 DEF DescType
  <1>4. CASE f.cur # 0
    <2>1. Attached(f, c) = [f EXCEPT !.cur = c, !.next = End, !.addr = FirstBlock(c),
                                     !.last = 0, !.block = 0]
      BY <1>4 DEF Attached
    <2> QED BY <1>1, <1>2, <2>1 DEF DescType
  <1> QED BY <1>3, <1>4

LEMMA EndedTyped ==
  ASSUME NEW f \in DescType
  PROVE  Ended(f) \in DescType /\ Resized(f) \in DescType /\ Emptied(f) \in DescType
         /\ [Resized(f) EXCEPT !.cluster = 0] \in DescType
  <1>1. f.pos % ClusterSize \in 0 .. ClusterSize /\ ClusterSize \in 0 .. ClusterSize
    BY Geometry DEF DescType
  <1>2. Ended(f) \in DescType
    <2>1. PICK n \in 0 .. ClusterSize : Ended(f) = [f EXCEPT !.next = End, !.last = n]
      BY <1>1 DEF Ended
    <2> QED BY <2>1, Ends16 DEF DescType
  <1>3. Resized(f) \in DescType /\ [Resized(f) EXCEPT !.cluster = 0] \in DescType
    BY DEF Resized, DescType, Slots
  <1>4. Emptied(f) \in DescType
    BY DEF Emptied, DescType, Slots, Values
  <1> QED BY <1>2, <1>3, <1>4

LEMMA BlockOfLast ==
  ASSUME NEW x \in 0 .. ClusterSize
  PROVE  x \div BlockSize \in 0 .. BlocksPerCluster /\ x % BlockSize \in 0 .. BlockSize - 1
  <1>1. x \in Nat /\ x <= BlocksPerCluster * BlockSize
    BY Geometry
  <1> DEFINE q == x \div BlockSize
             r == x % BlockSize
  <1>2. q \in Nat /\ r \in 0 .. BlockSize - 1 /\ x = q * BlockSize + r
    BY <1>1, Geometry, SMTT(30)
  <1> HIDE DEF q, r
  <1>3. ~(BlocksPerCluster < q)
    <2> SUFFICES ASSUME BlocksPerCluster < q PROVE FALSE
      OBVIOUS
    <2>1. BlocksPerCluster * BlockSize + BlockSize <= q * BlockSize
      BY <1>2, Multiples, Geometry
    <2> QED BY <1>1, <1>2, <2>1, Geometry
  <1>4. q \in 0 .. BlocksPerCluster
    BY <1>2, <1>3, Geometry
  <1> QED BY <1>2, <1>4 DEF q, r

LEMMA AtEndTyped ==
  ASSUME NEW f \in DescType
  PROVE  AtEnd(f) \in DescType
  <1>1. FirstBlock(f.cur) \in Int
    BY Geometry DEF FirstBlock, DescType, Slots, Clusters
  <1>2. PICK b \in 0 .. BlocksPerCluster : b = f.last \div BlockSize
    BY BlockOfLast DEF DescType
  <1>3. PICK i \in 0 .. BlockSize - 1 : i = f.last % BlockSize
    BY BlockOfLast DEF DescType
  <1>4. PICK a \in Int : a = FirstBlock(f.cur) + b
    BY <1>1, <1>2, Geometry
  <1>5. AtEnd(f) = [f EXCEPT !.pos = f.size, !.block = b, !.index = i, !.addr = a]
    BY <1>2, <1>3, <1>4 DEF AtEnd
  <1> QED BY <1>5 DEF DescType

---------------------------------------------------------------------------
(* The card and the cache.                                                 *)

LEMMA SlotNumbers ==
  /\ Slots \subseteq Nums /\ Slots \subseteq Values /\ End \in Values /\ 0 \in Values
  /\ \A c \in Values : ~IsLast(c) => c \in Slots
  BY Sizes DEF Slots, Values, Nums, Clusters, IsLast, End

LEMMA GetTyped ==
  ASSUME StoreTyped, NEW b
  PROVE  Typed(b, Get(b))
  BY DEF StoreTyped, Typed, Get, OnCard

LEMMA EntryTyped ==
  ASSUME StoreTyped, NEW c \in Slots
  PROVE  Entry(c) \in Values /\ Table(Sector(c)) \in TableBlocks
         /\ Mirror(Sector(c)) \in TableBlocks
  <1>1. Table(Sector(c)) \in TableBlocks /\ c % Entries \in 0 .. Entries - 1
        /\ Mirror(Sector(c)) \in TableBlocks
    BY EntryPlace, Blocks, SlotNumbers
  <1>2. Get(Table(Sector(c))) \in Words
    BY <1>1, GetTyped DEF Typed
  <1> QED BY <1>1, <1>2 DEF Entry, Words

LEMMA WithEntryTyped ==
  ASSUME StoreTyped, NEW b \in TableBlocks, NEW c \in Nums, NEW v \in Values
  PROVE  Typed(b, WithEntry(b, c, v))
  <1>1. Get(b) \in Words
    BY GetTyped DEF Typed
  <1>2. WithEntry(b, c, v) \in Words
    BY <1>1, EntryPlace DEF WithEntry, Words
  <1> QED BY <1>2, DirApart DEF Typed

LEMMA FailsTyped ==
  ASSUME faults \in 0 .. MaxFaults, CardFails
  PROVE  faults' \in 0 .. MaxFaults /\ card' \in {"on", "off"}
  BY ProgramsAssumption DEF CardFails

LEMMA FetchTyped ==
  ASSUME StoreTyped, NEW b, NEW miss \in BOOLEAN, NEW ok \in BOOLEAN,
         card = "on" \/ ~miss => b \in Places, Fetch(b, miss, ok)
  PROVE  StoreTyped'
  <1>1. CASE ok /\ (card = "on" \/ ~miss) /\ cacheAddr' = b /\ cache' = Get(b)
             /\ UNCHANGED <<disk, card, torn, faults>>
    BY <1>1, GetTyped DEF StoreTyped, Typed
  <1>2. CASE ~ok /\ CardFails /\ cacheAddr' = None /\ cache' = <<>> /\ UNCHANGED disk
    <2>1. Typed(None, <<>>) /\ None \in Places
      BY NoneAssumption DEF Typed, Places
    <2> QED BY <1>2, <2>1, FailsTyped DEF StoreTyped, Typed
  <1> QED BY <1>1, <1>2 DEF Fetch

LEMMA FlushTyped ==
  ASSUME StoreTyped, NEW b \in Places, NEW block, Typed(b, block), NEW ok \in BOOLEAN,
         Flush(b, block, ok)
  PROVE  StoreTyped'
  <1>1. cacheAddr' = b /\ cache' = block /\ disk' \in {disk, Stored(b, block)}
        /\ faults' \in 0 .. MaxFaults /\ card' \in {"on", "off"}
    BY FailsTyped DEF Flush, StoreTyped
  <1>2. DOMAIN disk' = TableBlocks \cup {Dir} /\ \A a \in DOMAIN disk' : Typed(a, disk'[a])
    BY <1>1 DEF Stored, StoreTyped, Typed
  <1> QED BY <1>1, <1>2 DEF StoreTyped, Typed

LEMMA UpdateTyped ==
  ASSUME StoreTyped, NEW b, NEW block, Typed(b, block), NEW miss \in BOOLEAN,
         NEW ok \in BOOLEAN, card = "on" \/ ~miss => b \in Places, Update(b, block, miss, ok)
  PROVE  StoreTyped'
  <1>1. CASE (card = "on" \/ ~miss) /\ Flush(b, block, ok)
    BY <1>1, FlushTyped
  <1>2. CASE Fetch(b, miss, ok)
    BY <1>2, FetchTyped
  <1> QED BY <1>1, <1>2 DEF Update

---------------------------------------------------------------------------
(* Calls. *)

LEMMA ReturnTyped ==
  ASSUME Return
  PROVE  job' \in CallType
  BY SlotNumbers DEF Return, Idle, CallType, Steps, Slots

LEMMA GotoTyped ==
  ASSUME job \in CallType, NEW pc \in Steps, Goto(pc)
  PROVE  job' \in CallType
  BY DEF Goto, CallType

LEMMA ContinueTyped ==
  ASSUME job \in CallType, NEW left \in Nat, Continue(left)
  PROVE  job' \in CallType
  BY ReturnTyped, SlotNumbers DEF Continue, CallType, Steps

LEMMA FdTyped ==
  ASSUME fd \in [Fds -> DescType], NEW d \in Fds, NEW f \in DescType,
         fd' = [fd EXCEPT ![d] = f] \/ UNCHANGED fd
  PROVE  fd' \in [Fds -> DescType]
  OBVIOUS

LEMMA AtWork ==
  ASSUME IInv, StateTyped, ~At("idle")
  PROVE  job.d \in Fds /\ Desc \in DescType /\ StoreTyped /\ job \in CallType
         /\ fd \in [Fds -> DescType]
         /\ Desc.cur \in Slots /\ Desc.next \in Values /\ job.new \in Values /\ job.from \in Slots
  <1>1. job.d \in Fds
    BY DEF IInv, Jobs, At
  <1>2. Desc \in DescType /\ job \in CallType
    BY <1>1 DEF StateTyped, Desc
  <1>3. Desc.cur \in Slots /\ Desc.next \in Values
    BY <1>2 DEF DescType
  <1>4. job.new \in Values /\ job.from \in Slots
    BY <1>2 DEF CallType
  <1> QED BY <1>1, <1>2, <1>3, <1>4 DEF StateTyped


LEMMA OpenFileTyped ==
  ASSUME IInv, StateTyped, NEW n \in Names, OpenFile(n)
  PROVE  StateTyped'
  <1> DEFINE e == Get(Dir)[n]
             b == IF e.cluster = 0 THEN Dir ELSE Table(Sector(e.cluster))
             next == IF e.cluster = 0 THEN End ELSE Entry(e.cluster)
  <1>1. PICK d \in Fds, ok \in BOOLEAN :
          /\ Fetch(b, Miss(Dir) \/ e.cluster # 0, ok)
          /\ fd' = IF ok /\ next # 0 THEN [fd EXCEPT ![d] = Opened(n, e, next)] ELSE fd
    BY DEF OpenFile
  <1>2. e \in DirEntry /\ e.cluster \in Slots
    BY GetTyped DEF StateTyped, Typed, Directory, DirEntry
  <1>3. b \in Places /\ next \in Values
    BY <1>2, EntryTyped, SlotNumbers DEF Places, StateTyped
  <1> HIDE DEF e, b, next
  <1>4. StoreTyped'
    BY <1>1, <1>3, FetchTyped DEF StateTyped, Miss
  <1>5. fd' \in [Fds -> DescType]
    BY <1>1, <1>2, <1>3, OpenedTyped, FdTyped DEF StateTyped
  <1> QED BY <1>4, <1>5 DEF StateTyped, OpenFile

LEMMA EnteredTyped ==
  ASSUME StoreTyped, NEW n, NEW e \in DirEntry
  PROVE  Typed(Dir, [Get(Dir) EXCEPT ![n] = e])
  <1>1. Get(Dir) \in Directory
    BY GetTyped DEF Typed
  <1>2. [Get(Dir) EXCEPT ![n] = e] \in Directory
    BY <1>1 DEF Directory
  <1> QED BY <1>2, DirApart DEF Typed

LEMMA CreateFileTyped ==
  ASSUME IInv, StateTyped, NEW n \in Names, CreateFile(n)
  PROVE  StateTyped'
  <1> DEFINE e == [EmptyEntry EXCEPT !.used = TRUE]
  <1>1. PICK d \in Fds, ok \in BOOLEAN :
          /\ Update(Dir, [Get(Dir) EXCEPT ![n] = e], Miss(Dir), ok)
          /\ fd' = IF ok THEN [fd EXCEPT ![d] = Opened(n, e, End)] ELSE fd
    BY DEF CreateFile
  <1>2. e \in DirEntry
    BY DEF EmptyEntry, DirEntry, Slots
  <1> HIDE DEF e
  <1>3. StoreTyped'
    BY <1>1, <1>2, EnteredTyped, UpdateTyped DEF StateTyped, Miss, Places
  <1>4. fd' \in [Fds -> DescType]
    BY <1>1, <1>2, OpenedTyped, FdTyped, SlotNumbers DEF StateTyped
  <1> QED BY <1>3, <1>4 DEF StateTyped, CreateFile

LEMMA CloseFileTyped ==
  ASSUME IInv, StateTyped, NEW d \in Fds, CloseFile(d)
  PROVE  StateTyped'
  <1> DEFINE f == fd[d]
             e == [used |-> TRUE, cluster |-> f.cluster, size |-> f.size]
  <1>1. /\ fd' = [fd EXCEPT ![d] = Free] /\ job' = job
        /\ IF f.modified /\ ~f.stale
             THEN \E ok \in BOOLEAN :
                    /\ Update(Dir, [Get(Dir) EXCEPT ![f.name] = e], Miss(Dir), ok)
                    /\ cut' = IF ok THEN cut \ {f.name} ELSE cut
             ELSE UNCHANGED <<disk, card, cacheAddr, cache, cut, torn, faults>>
    BY DEF CloseFile
  <1>2. e \in DirEntry
    BY DEF StateTyped, DescType, DirEntry
  <1>3. fd' \in [Fds -> DescType]
    BY <1>1, FreeTyped, FdTyped DEF StateTyped
  <1> HIDE DEF e
  <1>4. CASE f.modified /\ ~f.stale
    <2>1. PICK ok \in BOOLEAN :
            /\ Update(Dir, [Get(Dir) EXCEPT ![f.name] = e], Miss(Dir), ok)
            /\ cut' = IF ok THEN cut \ {f.name} ELSE cut
      BY <1>1, <1>4
    <2>2. StoreTyped'
      BY <1>2, <2>1, EnteredTyped, UpdateTyped DEF StateTyped, Miss, Places
    <2> QED BY <1>1, <1>3, <2>1, <2>2 DEF StateTyped
  <1>5. CASE ~(f.modified /\ ~f.stale)
    <2>1. UNCHANGED <<disk, card, cacheAddr, cache, cut, torn, faults>>
      BY <1>1, <1>5
    <2> QED BY <1>1, <1>3, <2>1 DEF StateTyped, StoreTyped, Typed
  <1> QED BY <1>4, <1>5

LEMMA StoreStays ==
  ASSUME StoreTyped, UNCHANGED <<disk, card, cacheAddr, cache, faults>>
  PROVE  StoreTyped'
  BY DEF StoreTyped, Typed

LEMMA StartTyped ==
  ASSUME StateTyped, NEW d \in Fds,
         StartSeek(d) \/ \E n \in Lens, write \in BOOLEAN : StartTransfer(d, n, write)
  PROVE  StateTyped'
  <1>1. UNCHANGED <<disk, card, cacheAddr, cache, fd, cut, faults>>
    BY DEF StartSeek, StartTransfer
  <1>2. job' \in CallType
    <2>1. CASE StartSeek(d)
      BY <2>1, SlotNumbers DEF StartSeek, Idle, CallType, Steps, Slots
    <2>2. ASSUME NEW n \in Lens, NEW write \in BOOLEAN, StartTransfer(d, n, write)
          PROVE  job' \in CallType
      <3>1. n \in Nat
        BY ProgramsAssumption
      <3> QED BY <2>2, <3>1, SlotNumbers DEF StartTransfer, Idle, CallType, Steps, Slots
    <2> QED BY <2>1, <2>2
  <1> QED BY <1>1, <1>2, StoreStays DEF StateTyped

LEMMA StartTruncateTyped ==
  ASSUME StateTyped, Engaged, NEW d \in Fds, NEW pc \in Steps, NEW f \in DescType,
         f.name = fd[d].name, NEW from \in Slots, NEW whole \in BOOLEAN,
         StartTruncate(d, pc, f, from, whole), UNCHANGED <<disk, card, cacheAddr, cache, torn, faults>>
  PROVE  StateTyped'
  <1>1. fd' = [fd EXCEPT ![d] = f] /\ cut' = cut \cup {f.name}
        /\ job' = (IF pc = "idle" THEN Idle
                    ELSE [Idle EXCEPT !.pc = pc, !.d = d, !.from = from, !.whole = whole])
    BY DEF StartTruncate
  <1>2. f.name \in Names
    BY DEF StartTruncate, MayUse, InUse, Engaged
  <1>3. job' \in CallType
    BY <1>1, SlotNumbers DEF Idle, CallType, Steps, Slots
  <1>4. fd' \in [Fds -> DescType]
    BY <1>1, FdTyped DEF StateTyped
  <1> QED BY <1>1, <1>2, <1>3, <1>4, StoreStays DEF StateTyped

LEMMA TruncateTyped ==
  ASSUME StateTyped, Engaged, NEW d \in Fds,
         TruncateWhole(d) \/ TruncateBetween(d) \/ TruncateInside(d)
  PROVE  StateTyped'
  <1> DEFINE f == fd[d]
  <1>1. /\ f \in DescType /\ f.cur \in Slots /\ f.cluster \in Slots /\ f.next \in Values
        /\ Resized(f) \in DescType /\ [Resized(f) EXCEPT !.cluster = 0] \in DescType
        /\ Ended(Resized(f)) \in DescType
    <2>1. f \in DescType
      BY DEF StateTyped
    <2>2. f.cur \in Slots /\ f.cluster \in Slots /\ f.next \in Values
      BY <2>1 DEF DescType
    <2> QED BY <2>1, <2>2, EndedTyped
  <1>2. /\ Resized(f).name = f.name /\ [Resized(f) EXCEPT !.cluster = 0].name = f.name
        /\ Ended(Resized(f)).name = f.name
    BY <1>1 DEF DescType, Resized, Ended
  <1>3. {"free", "parent", "cut", "idle"} \subseteq Steps
    BY DEF Steps
  <1>4. CASE TruncateWhole(d)
    BY <1>1, <1>2, <1>3, <1>4, StartTruncateTyped DEF TruncateWhole
  <1>5. CASE TruncateBetween(d)
    BY <1>1, <1>2, <1>3, <1>5, StartTruncateTyped DEF TruncateBetween
  <1>6. CASE TruncateInside(d) /\ IsLast(f.next)
    <2>1. StartTruncate(d, "idle", Ended(Resized(f)), 0, FALSE)
          /\ UNCHANGED <<disk, card, cacheAddr, cache, torn, faults>>
      BY <1>6 DEF TruncateInside
    <2>2. 0 \in Slots
      BY DEF Slots
    <2> QED BY <1>1, <1>2, <1>3, <2>1, <2>2, StartTruncateTyped
  <1>7. CASE TruncateInside(d) /\ ~IsLast(f.next)
    <2>1. StartTruncate(d, "cut", Resized(f), f.next, FALSE)
          /\ UNCHANGED <<disk, card, cacheAddr, cache, torn, faults>>
      BY <1>7 DEF TruncateInside
    <2>2. f.next \in Slots
      BY <1>1, <1>7, SlotNumbers
    <2> QED BY <1>1, <1>2, <1>3, <2>1, <2>2, StartTruncateTyped
  <1> QED BY <1>4, <1>5, <1>6, <1>7

LEMMA MountTyped ==
  ASSUME StateTyped, Mount \/ Crash
  PROVE  StateTyped'
  <1>1. Typed(None, <<>>) /\ None \in Places
    BY NoneAssumption DEF Typed, Places
  <1>2. cacheAddr' = None /\ cache' = <<>> /\ disk' = disk /\ cut' = cut
        /\ card' \in {"on", "off"} /\ faults' \in 0 .. MaxFaults
    BY ProgramsAssumption DEF Mount, Crash, StateTyped, StoreTyped
  <1>3. StoreTyped'
    BY <1>1, <1>2 DEF StateTyped, StoreTyped, Typed
  <1>4. fd' \in [Fds -> DescType]
    <2>1. CASE Mount
      <3>1. ASSUME NEW f \in DescType PROVE [f EXCEPT !.stale = ~f.free] \in DescType
        BY DEF DescType
      <3> QED BY <2>1, <3>1 DEF Mount, StateTyped
    <2>2. CASE Crash
      BY <2>2, FreeTyped DEF Crash
    <2> QED BY <2>1, <2>2
  <1>5. job' \in CallType
    BY ReturnTyped DEF Mount, Crash, StateTyped
  <1> QED BY <1>2, <1>3, <1>4, <1>5 DEF StateTyped

---------------------------------------------------------------------------
(* The steps of a call.                                                    *)

(* A sector of the table, with one entry changed.                          *)
LEMMA SectorTyped ==
  ASSUME StoreTyped, NEW b \in TableBlocks, NEW c \in Slots, NEW v \in Values,
         NEW miss \in BOOLEAN, NEW ok \in BOOLEAN, Update(b, WithEntry(b, c, v), miss, ok)
  PROVE  StoreTyped'
  <1>1. Typed(b, WithEntry(b, c, v))
    BY WithEntryTyped, SlotNumbers
  <1> QED BY <1>1, UpdateTyped DEF Places

(* One copy of a sector, when the other one is in the cache.               *)
LEMMA CopyTyped ==
  ASSUME StoreTyped, cacheAddr \in TableBlocks, NEW b \in TableBlocks, NEW ok \in BOOLEAN,
         Flush(b, cache, ok)
  PROVE  StoreTyped'
  <1>1. Typed(b, cache)
    BY DirApart DEF StoreTyped, Typed
  <1> QED BY <1>1, FlushTyped DEF Places

LEMMA TakeClusterTyped ==
  ASSUME NEW L, Before(L), StateTyped, TakeCluster
  PROVE  StateTyped'
  <1>1. IInv /\ Filled(disk) /\ ~At("idle") /\ UNCHANGED <<fd, cut>>
    BY DEF TakeCluster, At, Before, Labelled, Tables
  <1>2. PICK c \in FirstFree, ok \in BOOLEAN :
          LET b == Table(Sector(c))
          IN  /\ Update(b, WithEntry(b, c, End), Miss(Table(0)) \/ b # Table(0), ok)
              /\ IF ok THEN job' = [job EXCEPT !.pc = "takeMirror", !.new = c] ELSE Return
    BY DEF TakeCluster
  <1>3. c \in Nums /\ Entry(c) = 0
    BY DEF FirstFree, FreeEntries, Nums
  <1>4. StoreTyped'
    <2>1. Table(Sector(c)) \in TableBlocks
      BY <1>3, EntryPlace, Blocks
    <2>2. Typed(Table(Sector(c)), WithEntry(Table(Sector(c)), c, End))
      BY <1>3, <2>1, WithEntryTyped, SlotNumbers DEF StateTyped
    <2> QED BY <1>2, <2>1, <2>2, UpdateTyped DEF StateTyped, Places, Miss
  <1>5. job' \in CallType
    <2>1. CASE ok
      <3>1. card = "on"
        <4>1. Wrote(Put(disk, Table(Sector(c)), c, End), ok)
          BY <1>1, <1>2, <1>3, EntryWritten
        <4> QED BY <2>1, <4>1 DEF Wrote
      <3>2. c \in Values
        BY <1>1, <1>3, <3>1, EntryRead, ClusterNumbers DEF Filled, Used, Before, Values
      <3> QED BY <1>2, <2>1, <3>2 DEF StateTyped, CallType, Steps
    <2>2. CASE ~ok
      BY <1>2, <2>2, ReturnTyped
    <2> QED BY <2>1, <2>2
  <1> QED BY <1>1, <1>4, <1>5 DEF StateTyped

LEMMA DiskFullTyped ==
  ASSUME StateTyped, DiskFull
  PROVE  StateTyped'
  <1>1. PICK ok \in BOOLEAN : Fetch(Table(Sectors - 1), Miss(Table(0)) \/ Sectors > 1, ok)
    BY DEF DiskFull
  <1>2. Table(Sectors - 1) \in Places
    BY Sizes, Blocks DEF SectorNumbers, Places
  <1>3. StoreTyped'
    BY <1>1, <1>2, FetchTyped DEF StateTyped, Miss
  <1> QED BY <1>3, ReturnTyped DEF DiskFull, StateTyped

LEMMA TakeMirrorTyped ==
  ASSUME Narrow, IInv, StateTyped, TakeMirror
  PROVE  StateTyped'
  <1>1. /\ ~At("idle") /\ cut' = cut
        /\ cacheAddr = Table(Sector(job.new)) /\ job.new \in Nums
    BY DEF TakeMirror, At, IInv, Jobs
  <1>2. job.d \in Fds /\ Desc \in DescType /\ StoreTyped /\ job \in CallType /\ job.new \in Values
        /\ fd \in [Fds -> DescType]
    BY <1>1, AtWork
  <1>3. job.new \in Slots
    BY <1>1, <1>2, Sizes DEF Values, Slots, Nums, Narrow
  <1>4. PICK ok \in BOOLEAN :
          /\ Flush(Mirror(Sector(job.new)), cache, ok)
          /\ CASE ok /\ Desc.cur = 0 -> Set(Attached(Desc, job.new)) /\ Continue(job.left)
               [] ok /\ Desc.cur # 0 -> UNCHANGED fd /\ Goto("link")
               [] ~ok                -> UNCHANGED fd /\ Return
    BY DEF TakeMirror
  <1>5. StoreTyped'
    BY <1>1, <1>2, <1>3, <1>4, EntryTyped, CopyTyped
  <1>6. job.left \in Nat /\ "link" \in Steps
    BY <1>2 DEF CallType, Steps
  <1>7. Attached(Desc, job.new) \in DescType
    BY <1>2, <1>3, AttachedTyped
  <1>8. fd' \in [Fds -> DescType] /\ job' \in CallType
    <2>1. CASE ok /\ Desc.cur = 0
      <3>1. Set(Attached(Desc, job.new)) /\ Continue(job.left)
        BY <1>4, <2>1
      <3> QED BY <1>2, <1>6, <1>7, <3>1, ContinueTyped, FdTyped DEF Set
    <2>2. CASE ok /\ Desc.cur # 0
      <3>1. UNCHANGED fd /\ Goto("link")
        BY <1>4, <2>2
      <3> QED BY <1>2, <1>6, <3>1, GotoTyped
    <2>3. CASE ~ok
      <3>1. UNCHANGED fd /\ Return
        BY <1>4, <2>3
      <3> QED BY <1>2, <3>1, ReturnTyped
    <2> QED BY <2>1, <2>2, <2>3
  <1> QED BY <1>1, <1>5, <1>8 DEF StateTyped

LEMMA LinkClusterTyped ==
  ASSUME IInv, StateTyped, LinkCluster
  PROVE  StateTyped'
  <1>1. ~At("idle") /\ UNCHANGED <<fd, cut>>
    BY DEF LinkCluster, At
  <1>2. /\ Desc.cur \in Slots /\ job.new \in Values /\ StoreTyped /\ job \in CallType
        /\ Mirror(Sector(Desc.cur)) \in TableBlocks
    BY <1>1, AtWork, EntryTyped
  <1> DEFINE b == Mirror(Sector(Desc.cur))
  <1>3. PICK ok \in BOOLEAN :
          /\ Update(b, WithEntry(b, Desc.cur, job.new), Miss(b), ok)
          /\ IF ok THEN Goto("linkMirror") ELSE Return
    BY DEF LinkCluster
  <1>4. StoreTyped'
    BY <1>2, <1>3, SectorTyped DEF Miss
  <1>5. job' \in CallType
    BY <1>2, <1>3, GotoTyped, ReturnTyped DEF Steps
  <1> QED BY <1>1, <1>4, <1>5 DEF StateTyped

LEMMA LinkMirrorTyped ==
  ASSUME Narrow, IInv, StateTyped, LinkMirror
  PROVE  StateTyped'
  <1>1. /\ ~At("idle") /\ cut' = cut
        /\ cacheAddr = Mirror(Sector(Desc.cur)) /\ job.new \in Nums
    BY DEF LinkMirror, At, IInv, Jobs
  <1>2. job.d \in Fds /\ Desc \in DescType /\ StoreTyped /\ job \in CallType /\ job.new \in Values
        /\ fd \in [Fds -> DescType] /\ Desc.cur \in Slots
    BY <1>1, AtWork
  <1>3. job.new \in Slots /\ job.left \in Nat
    BY <1>1, <1>2, Sizes DEF Values, Slots, Nums, Narrow, CallType
  <1>4. PICK ok \in BOOLEAN :
          /\ Flush(Table(Sector(Desc.cur)), cache, ok)
          /\ IF ok THEN Set(Attached(Desc, job.new)) /\ Continue(job.left)
                   ELSE UNCHANGED fd /\ Return
    BY DEF LinkMirror
  <1>5. StoreTyped'
    BY <1>1, <1>2, <1>4, EntryTyped, CopyTyped
  <1>6. Attached(Desc, job.new) \in DescType
    BY <1>2, <1>3, AttachedTyped
  <1>7. fd' \in [Fds -> DescType] /\ job' \in CallType
    BY <1>2, <1>3, <1>4, <1>6, ContinueTyped, ReturnTyped, FdTyped DEF Set
  <1> QED BY <1>1, <1>5, <1>7 DEF StateTyped

LEMMA EndOfFileTyped ==
  ASSUME StateTyped, EndOfFile
  PROVE  StateTyped'
  BY StoreStays, ReturnTyped DEF EndOfFile, StateTyped

LEMMA CrossClusterTyped ==
  ASSUME IInv, StateTyped, CrossCluster
  PROVE  StateTyped'
  <1>1. ~At("idle") /\ cut' = cut /\ ~IsLast(Desc.next)
    BY DEF CrossCluster, At, IInv, Jobs
  <1>2. job.d \in Fds /\ Desc \in DescType /\ StoreTyped /\ job \in CallType
        /\ fd \in [Fds -> DescType] /\ Desc.next \in Slots
    BY <1>1, AtWork, SlotNumbers
  <1> DEFINE b == Table(Sector(Desc.next))
             next(ok) == IF ok THEN Entry(Desc.next) ELSE 0
             f(ok) == [Desc EXCEPT !.addr = FirstBlock(Desc.next), !.cur = Desc.next,
                                   !.next = next(ok)]
  <1>3. PICK ok \in BOOLEAN :
          /\ Fetch(b, Miss(b), ok)
          /\ IF next(ok) = 0 THEN Set(f(ok)) /\ Return
                             ELSE Set([f(ok) EXCEPT !.block = 0]) /\ Continue(job.left)
    BY DEF CrossCluster
  <1>4. StoreTyped'
    BY <1>2, <1>3, EntryTyped, FetchTyped DEF Miss, Places
  <1>5. f(ok) \in DescType /\ [f(ok) EXCEPT !.block = 0] \in DescType
    <2>1. FirstBlock(Desc.next) \in Int
      BY <1>2, Geometry DEF FirstBlock, Slots, Clusters
    <2>2. next(ok) \in Values
      BY <1>2, EntryTyped, SlotNumbers
    <2> HIDE DEF next
    <2>3. f(ok) \in DescType
      BY <1>2, <2>1, <2>2 DEF DescType
    <2>4. 0 \in 0 .. BlocksPerCluster
      BY Geometry
    <2> HIDE DEF f
    <2> QED BY <2>3, <2>4 DEF DescType
  <1> HIDE DEF f, next
  <1>6. fd' \in [Fds -> DescType] /\ job' \in CallType
    <2>1. job.left \in Nat
      BY <1>2 DEF CallType
    <2> QED BY <1>2, <1>3, <1>5, <2>1, ContinueTyped, ReturnTyped, FdTyped DEF Set
  <1> QED BY <1>1, <1>4, <1>6 DEF StateTyped

LEMMA FindParentTyped ==
  ASSUME IInv, StateTyped, FindParent
  PROVE  StateTyped'
  <1>1. ~At("idle") /\ cut' = cut
    BY DEF FindParent, At
  <1>2. job.d \in Fds /\ Desc \in DescType /\ StoreTyped /\ job \in CallType
        /\ fd \in [Fds -> DescType] /\ Desc.cur \in Slots /\ job.from \in Slots
    BY <1>1, AtWork
  <1> DEFINE b == Table(Sector(job.from))
             next(ok) == IF ok THEN Entry(job.from) ELSE 0
             f == [Desc EXCEPT !.next = Desc.cur, !.cur = job.from, !.block = BlocksPerCluster]
  <1>3. PICK ok \in BOOLEAN :
          /\ Fetch(b, Miss(b), ok)
          /\ \/ /\ next(ok) = Desc.cur
                /\ Set(f)
                /\ job' = [job EXCEPT !.pc = "cut", !.from = Desc.cur]
             \/ /\ next(ok) # Desc.cur
                /\ UNCHANGED fd
                /\ IF next(ok) = 0 \/ IsLast(next(ok))
                     THEN Return ELSE job' = [job EXCEPT !.from = next(ok)]
    BY DEF FindParent
  <1>4. StoreTyped'
    BY <1>2, <1>3, EntryTyped, FetchTyped DEF Miss, Places
  <1>5. f \in DescType
    <2>1. BlocksPerCluster \in 0 .. BlocksPerCluster /\ Desc.cur \in Values
      BY <1>2, Geometry, SlotNumbers
    <2> QED BY <1>2, <2>1 DEF DescType
  <1>6. next(ok) \in Values
    BY <1>2, EntryTyped, SlotNumbers
  <1> HIDE DEF f, next
  <1>7. fd' \in [Fds -> DescType]
    BY <1>2, <1>3, <1>5, FdTyped DEF Set
  <1>8. job' \in CallType
    <2>1. CASE next(ok) = Desc.cur
      BY <1>2, <1>3, <2>1 DEF CallType, Steps
    <2>2. CASE next(ok) # Desc.cur /\ (next(ok) = 0 \/ IsLast(next(ok)))
      BY <1>3, <2>2, ReturnTyped
    <2>3. CASE next(ok) # Desc.cur /\ ~(next(ok) = 0 \/ IsLast(next(ok)))
      <3>1. next(ok) \in Slots /\ job' = [job EXCEPT !.from = next(ok)]
        BY <1>3, <1>6, <2>3, SlotNumbers
      <3> QED BY <1>2, <3>1 DEF CallType
    <2> QED BY <2>1, <2>2, <2>3
  <1> QED BY <1>1, <1>4, <1>7, <1>8 DEF StateTyped

LEMMA CutTyped ==
  ASSUME IInv, StateTyped, CutChain \/ CutMirror
  PROVE  StateTyped'
  <1>1. ~At("idle") /\ UNCHANGED <<fd, cut>>
    BY DEF CutChain, CutMirror, At
  <1>2. /\ Desc.cur \in Slots /\ StoreTyped /\ job \in CallType
        /\ Mirror(Sector(Desc.cur)) \in TableBlocks /\ Table(Sector(Desc.cur)) \in TableBlocks
    BY <1>1, AtWork, EntryTyped
  <1>3. PICK b \in TableBlocks, ok \in BOOLEAN, pc \in Steps :
          /\ Update(b, WithEntry(b, Desc.cur, End), Miss(b), ok)
          /\ IF ok THEN Goto(pc) ELSE Return
    <2>1. CASE CutChain
      BY <1>2, <2>1 DEF CutChain, Steps
    <2>2. CASE CutMirror
      BY <1>2, <2>2 DEF CutMirror, Steps
    <2> QED BY <2>1, <2>2
  <1>4. StoreTyped'
    BY <1>2, <1>3, SectorTyped, SlotNumbers DEF Miss
  <1>5. job' \in CallType
    BY <1>2, <1>3, GotoTyped, ReturnTyped
  <1> QED BY <1>1, <1>4, <1>5 DEF StateTyped

LEMMA AbortTyped ==
  ASSUME fd \in [Fds -> DescType], job.d \in Fds, Desc \in DescType, AbortFree
  PROVE  fd' \in [Fds -> DescType] /\ job' \in CallType
  BY EndedTyped, FdTyped, ReturnTyped DEF AbortFree, Set

LEMMA FreeClusterTyped ==
  ASSUME IInv, StateTyped, FreeCluster
  PROVE  StateTyped'
  <1>1. ~At("idle") /\ cut' = cut
    BY DEF FreeCluster, At
  <1>2. job.d \in Fds /\ Desc \in DescType /\ StoreTyped /\ job \in CallType
        /\ fd \in [Fds -> DescType] /\ job.from \in Slots
    BY <1>1, AtWork
  <1> DEFINE b == Table(Sector(job.from))
             next == Entry(job.from)
  <1>3. PICK ok \in BOOLEAN :
          /\ IF next = 0 THEN Fetch(b, Miss(b), ok)
                         ELSE Update(b, WithEntry(b, job.from, 0), Miss(b), ok)
          /\ IF ok /\ next # 0
               THEN UNCHANGED fd /\ job' = [job EXCEPT !.pc = "freeMirror", !.new = next]
               ELSE AbortFree
    BY DEF FreeCluster
  <1>4. b \in TableBlocks /\ next \in Values
    BY <1>2, EntryTyped
  <1> HIDE DEF b, next
  <1>5. StoreTyped'
    <2>1. CASE Fetch(b, Miss(b), ok)
      BY <1>2, <1>4, <2>1, FetchTyped DEF Miss, Places
    <2>2. CASE Update(b, WithEntry(b, job.from, 0), Miss(b), ok)
      BY <1>2, <1>4, <2>2, SectorTyped, SlotNumbers DEF Miss
    <2> QED BY <1>3, <2>1, <2>2
  <1>6. fd' \in [Fds -> DescType] /\ job' \in CallType
    <2>1. CASE ok /\ next # 0
      BY <1>2, <1>3, <1>4, <2>1 DEF CallType, Steps
    <2>2. CASE ~(ok /\ next # 0)
      BY <1>2, <1>3, <2>2, AbortTyped
    <2> QED BY <2>1, <2>2
  <1> QED BY <1>1, <1>5, <1>6 DEF StateTyped

LEMMA FreeMirrorTyped ==
  ASSUME IInv, StateTyped, FreeMirror
  PROVE  StateTyped'
  <1>1. ~At("idle") /\ cut' = cut
    BY DEF FreeMirror, At
  <1>2. job.d \in Fds /\ Desc \in DescType /\ StoreTyped /\ job \in CallType
        /\ fd \in [Fds -> DescType] /\ job.from \in Slots /\ job.new \in Values
    BY <1>1, AtWork
  <1> DEFINE b == Mirror(Sector(job.from))
  <1>3. PICK ok \in BOOLEAN :
          /\ Update(b, WithEntry(b, job.from, 0), Miss(b), ok)
          /\ CASE ~ok -> AbortFree
               [] ok /\ ~IsLast(job.new) ->
                    UNCHANGED fd /\ job' = [job EXCEPT !.pc = "free", !.from = job.new, !.new = 0]
               [] ok /\ IsLast(job.new) ->
                    Set(IF job.whole THEN Emptied(Desc) ELSE Ended(Desc)) /\ Return
    BY DEF FreeMirror
  <1>4. StoreTyped'
    BY <1>2, <1>3, EntryTyped, SectorTyped, SlotNumbers DEF Miss
  <1>5. fd' \in [Fds -> DescType] /\ job' \in CallType
    <2>1. CASE ~ok
      BY <1>2, <1>3, <2>1, AbortTyped
    <2>2. CASE ok /\ ~IsLast(job.new)
      <3>1. UNCHANGED fd /\ job' = [job EXCEPT !.pc = "free", !.from = job.new, !.new = 0]
        BY <1>3, <2>2
      <3>2. job.new \in Slots /\ 0 \in Values
        BY <1>2, <2>2, SlotNumbers
      <3> QED BY <1>2, <3>1, <3>2 DEF CallType, Steps
    <2>3. CASE ok /\ IsLast(job.new)
      <3>1. Set(IF job.whole THEN Emptied(Desc) ELSE Ended(Desc)) /\ Return
        BY <1>3, <2>3
      <3>2. (IF job.whole THEN Emptied(Desc) ELSE Ended(Desc)) \in DescType
        BY <1>2, EndedTyped
      <3> QED BY <1>2, <3>1, <3>2, FdTyped, ReturnTyped DEF Set
    <2> QED BY <2>1, <2>2, <2>3
  <1> QED BY <1>1, <1>4, <1>5 DEF StateTyped

LEMMA SeekOnTyped ==
  ASSUME IInv, StateTyped, SeekOn
  PROVE  StateTyped'
  <1>1. ~At("idle") /\ cut' = cut /\ ~IsLast(Desc.next)
    BY DEF SeekOn, At
  <1>2. job.d \in Fds /\ Desc \in DescType /\ StoreTyped /\ job \in CallType
        /\ fd \in [Fds -> DescType] /\ Desc.next \in Slots
    BY <1>1, AtWork, SlotNumbers
  <1> DEFINE b == Table(Sector(Desc.next))
             next(ok) == IF ok THEN Entry(Desc.next) ELSE 0
  <1>3. PICK ok \in BOOLEAN :
          /\ Fetch(b, Miss(b), ok)
          /\ Set([Desc EXCEPT !.cur = Desc.next, !.next = next(ok)])
          /\ IF next(ok) = 0 THEN Return ELSE UNCHANGED job
    BY DEF SeekOn
  <1>4. StoreTyped'
    BY <1>2, <1>3, EntryTyped, FetchTyped DEF Miss, Places
  <1>5. next(ok) \in Values
    BY <1>2, EntryTyped, SlotNumbers
  <1> HIDE DEF next
  <1>6. [Desc EXCEPT !.cur = Desc.next, !.next = next(ok)] \in DescType
    BY <1>2, <1>5 DEF DescType
  <1>7. fd' \in [Fds -> DescType] /\ job' \in CallType
    BY <1>2, <1>3, <1>6, ReturnTyped, FdTyped DEF Set
  <1> QED BY <1>1, <1>4, <1>7 DEF StateTyped

LEMMA EndSeekTyped ==
  ASSUME IInv, StateTyped, EndSeek
  PROVE  StateTyped'
  <1>1. /\ ~At("idle") /\ Set(AtEnd(Desc)) /\ Return
        /\ UNCHANGED <<disk, card, cacheAddr, cache, cut, faults>>
    BY DEF EndSeek, At
  <1>2. job.d \in Fds /\ Desc \in DescType /\ fd \in [Fds -> DescType]
    BY <1>1, AtWork
  <1>3. fd' \in [Fds -> DescType]
    BY <1>1, <1>2, AtEndTyped, FdTyped DEF Set
  <1> QED BY <1>1, <1>3, ReturnTyped, StoreStays DEF StateTyped

(* Sums of words wrap once at most.                                        *)
LEMMA Wraps ==
  ASSUME NEW x \in Int
  PROVE  /\ 0 <= x /\ x < 65536 => U16(x) = x
         /\ x < 0 /\ 0 <= x + 65536 => U16(x) = x + 65536
         /\ 65536 <= x /\ x - 65536 < 65536 => U16(x) = x - 65536
  BY SMT DEF U16

LEMMA WrapsBack ==
  ASSUME NEW l \in Nat, l < 65536, NEW p \in Nat, NEW x \in Nat, p + x < 65536
  PROVE  LET delta == U16(x - U16(l - p))
         IN  delta \in Nat /\ U16(l + delta) = p + x
  <1>1. CASE p <= l
    <2>1. U16(l - p) = l - p
      BY <1>1, Wraps, SMT
    <2>2. CASE l <= p + x
      <3>1. U16(x - (l - p)) = p + x - l
        BY <2>2, Wraps, SMT
      <3>2. U16(p + x) = p + x /\ l + (p + x - l) = p + x
        BY Wraps, SMT
      <3> QED BY <2>1, <2>2, <3>1, <3>2, SMT
    <2>3. CASE p + x < l
      <3>1. U16(x - (l - p)) = p + x - l + 65536
        BY <2>3, Wraps, SMT
      <3>2. U16(p + x + 65536) = p + x /\ l + (p + x - l + 65536) = p + x + 65536
        BY Wraps, SMT
      <3> QED BY <2>1, <2>3, <3>1, <3>2, SMT
    <2> QED BY <2>2, <2>3, SMT
  <1>2. CASE l < p
    <2>1. U16(l - p) = l - p + 65536
      BY <1>2, Wraps, SMT
    <2>2. U16(x - (l - p + 65536)) = p + x - l
      BY <1>2, Wraps, SMT
    <2>3. U16(p + x) = p + x /\ l + (p + x - l) = p + x /\ p + x - l \in Nat
      BY <1>2, Wraps, SMT
    <2> QED BY <2>1, <2>2, <2>3
  <1> QED BY <1>1, <1>2, SMT

(* A write in the last cluster leaves the file's end in the block that is  *)
(* written.                                                                *)
LEMMA GrownTyped ==
  ASSUME Small, NEW f \in DescType, job.left \in Nat, ~(job.write /\ NeedsCluster(f))
  PROVE  Grown(f) \in DescType
  <1>1. CASE ~Grows(f)
    BY <1>1 DEF Grown
  <1>2. CASE Grows(f)
    <2>1. /\ f.block \in Nat /\ f.block < BlocksPerCluster
          /\ f.index \in Nat /\ f.index < BlockSize /\ f.last \in Nat /\ f.size \in Nat
      BY <1>2, Geometry DEF Grows, InLastBlock, NeedsCluster, DescType
    <2>2. PICK p \in Nat : p = f.block * BlockSize /\ p + BlockSize <= ClusterSize
      BY <2>1, Multiples, Geometry
    <2>3. PICK n \in Nat : n = ChunkLen(f) /\ f.index + n <= BlockSize
      BY <1>2, <2>1, Geometry DEF ChunkLen, Least
    <2>4. PICK x \in Nat : x = f.index + n
      BY <2>1, <2>3
    <2>5. f.last < 65536 /\ p + x < 65536 /\ p + x <= ClusterSize
      BY <2>1, <2>2, <2>3, <2>4, Geometry, SMT DEF Small, DescType
    <2>6. PICK delta \in Nat : delta = U16(x - U16(f.last - p)) /\ U16(f.last + delta) = p + x
      <3> DEFINE D == U16(x - U16(f.last - p))
      <3>1. D \in Nat /\ U16(f.last + D) = p + x
        BY <2>1, <2>5, WrapsBack
      <3> HIDE DEF D
      <3>2. \E delta \in Nat : delta = D /\ U16(f.last + delta) = p + x
        BY <3>1, Zenon
      <3> QED BY <3>2, Zenon DEF D
    <2>7. Grown(f) = [f EXCEPT !.last = U16(f.last + delta), !.size = f.size + delta,
                               !.modified = TRUE]
      <3>1. U16(f.index + ChunkLen(f) - Remainder(f)) = delta
        <4>1. Remainder(f) = U16(f.last - p)
          BY <2>2 DEF Remainder
        <4>2. PICK r \in Int : r = Remainder(f) /\ r = U16(f.last - p)
          BY <2>1, <4>1, WordRange
        <4>3. f.index + ChunkLen(f) - r = x - r
          BY <2>1, <2>3, <2>4
        <4> QED BY <2>6, <4>2, <4>3
      <3> QED BY <1>2, <3>1 DEF Grown
    <2>8. f.size + delta \in Nat /\ U16(f.last + delta) \in 0 .. ClusterSize
      BY <2>1, <2>5, <2>6, Geometry
    <2> QED BY <2>7, <2>8 DEF DescType
  <1> QED BY <1>1, <1>2

LEMMA AdvancedTyped ==
  ASSUME NEW f \in DescType, NEW n, Fits(f, n)
  PROVE  Advanced(f, n) \in DescType
  <1>1. /\ n \in Nat /\ f.block \in Nat /\ f.block < BlocksPerCluster
        /\ f.index \in Nat /\ f.index + n <= BlockSize /\ f.pos \in Nat /\ f.addr \in Int
    BY DEF Fits, DescType
  <1>2. PICK i \in 0 .. BlockSize - 1 : i = IF AtBlockEnd(f, n) THEN 0 ELSE f.index + n
    BY <1>1, Geometry DEF AtBlockEnd
  <1>3. PICK b \in 0 .. BlocksPerCluster : b = IF AtBlockEnd(f, n) THEN f.block + 1 ELSE f.block
    BY <1>1, Geometry
  <1>4. PICK a \in Int :
          a = IF AtBlockEnd(f, n) /\ ~AtClusterEnd(f, n) THEN f.addr + 1 ELSE f.addr
    BY <1>1
  <1>5. Advanced(f, n) = [f EXCEPT !.pos = f.pos + n, !.index = i, !.block = b, !.addr = a]
    BY <1>2, <1>3, <1>4 DEF Advanced
  <1>6. f.pos + n \in Nat
    BY <1>1
  <1> QED BY <1>5, <1>6 DEF DescType

(* The block that a descriptor of a whole file points to is on the card.   *)
LEMMA DataPlace ==
  ASSUME NEW c \in Clusters, NEW i \in Nat, i < BlocksPerCluster
  PROVE  Data(FirstBlock(c) + i) \in DataBlocks
  <1>1. c - 2 \in Nat /\ Entries * Sectors - 2 \in Nat /\ c - 2 < Entries * Sectors - 2
    BY Sizes DEF Clusters
  <1>2. (c - 2) * BlocksPerCluster \in Nat
        /\ (c - 2) * BlocksPerCluster + BlocksPerCluster
             <= (Entries * Sectors - 2) * BlocksPerCluster
    BY <1>1, Multiples, Geometry
  <1>3. FirstBlock(c) \in Nat /\ FirstBlock(c) + BlocksPerCluster <= FirstBlock(Entries * Sectors)
        /\ FirstBlock(Entries * Sectors) \in Int
    BY <1>1, <1>2, Geometry DEF FirstBlock
  <1>4. FirstBlock(c) + i \in 0 .. FirstBlock(Entries * Sectors) - 1
    BY <1>3, Geometry
  <1> QED BY <1>4 DEF DataBlocks

LEMMA TransferChunkTyped ==
  ASSUME NEW L, Given(L), StateTyped, torn = {}, card = "on" \/ \A b : Data(b) # None,
         TransferChunk
  PROVE  StateTyped'
  <1> DEFINE n == ChunkLen(Desc)
             b == Data(Desc.addr)
             g == Grown(Desc)
  <1>1. IInv /\ ~At("idle") /\ cut' = cut /\ ~(job.write /\ NeedsCluster(Desc)) /\ Small
    BY DEF TransferChunk, At, Given, Before
  <1>2. job.d \in Fds /\ Desc \in DescType /\ StoreTyped /\ job \in CallType
        /\ fd \in [Fds -> DescType] /\ job.left \in Nat
    BY <1>1, AtWork DEF CallType
  <1>3. g \in DescType
    BY <1>1, <1>2, GrownTyped
  <1>4. PICK ok \in BOOLEAN :
          /\ IF job.write THEN Update(b, Contents, Miss(b), ok) ELSE Fetch(b, Miss(b), ok)
          /\ Set(IF ok THEN Advanced(g, n) ELSE g)
          /\ ~ok => Return
          /\ ok /\ AtClusterEnd(Desc, n) /\ ~IsLast(Desc.next) =>
               job' = [job EXCEPT !.pc = "cross", !.left = @ - n]
          /\ ok /\ ~(AtClusterEnd(Desc, n) /\ ~IsLast(Desc.next)) => Continue(job.left - n)
    BY Chunked
  <1>5. b \notin TableBlocks \cup {Dir} /\ b \notin DOMAIN disk /\ (card = "on" \/ b # None)
    BY <1>2, DirApart DEF StoreTyped
  <1>6. ASSUME Active
        PROVE  /\ Fits(Desc, n) /\ Fits(g, n) /\ b \in DataBlocks
    <2>1. PICK C \in Nat : /\ C # 0 /\ Fits(Desc, n) /\ Standing(disk, L, g, C) /\ Fits(g, n)
      BY <1>6, ChunkGood
    <2>2. /\ g.addr = FirstBlock(g.cur) + g.block /\ g.cur \in Clusters
          /\ g.block \in Nat /\ g.block < BlocksPerCluster
      BY <2>1 DEF Standing, Ready, Points, Within, Lies, Located, Belongs, Fits
    <2>3. g.addr = Desc.addr
      BY <1>2 DEF Grown, DescType
    <2> HIDE DEF g
    <2> QED BY <2>1, <2>2, <2>3, DataPlace
  <1>7. StoreTyped'
    <2>1. card = "on" \/ ~Miss(b) => b \in Places
      BY <1>2, <1>6 DEF Active, Places, Miss, StoreTyped
    <2>2. Typed(b, Contents) /\ Miss(b) \in BOOLEAN
      BY <1>5 DEF Typed, Miss
    <2> HIDE DEF b
    <2> QED BY <1>2, <1>4, <2>1, <2>2, UpdateTyped, FetchTyped
  <1>8. CASE ~ok
    <2>1. Set(g) /\ Return
      BY <1>4, <1>8
    <2>2. fd' \in [Fds -> DescType]
      BY <1>2, <1>3, <2>1, FdTyped DEF Set
    <2> QED BY <1>1, <1>7, <2>1, <2>2, ReturnTyped DEF StateTyped
  <1>9. CASE ok
    <2>1. Active
      <3>1. Carried(b, ok)
        <4> HIDE DEF b
        <4> QED BY <1>4, <1>5, ChunkTears
      <3> QED BY <1>5, <1>9, <3>1 DEF Carried, Active, IsData
    <2>2. Fits(Desc, n) /\ Fits(g, n)
      BY <1>6, <2>1
    <2> HIDE DEF g, b
    <2>3. Set(Advanced(g, n))
      BY <1>4, <1>9
    <2>4. fd' \in [Fds -> DescType]
      BY <1>2, <1>3, <2>2, <2>3, AdvancedTyped, FdTyped DEF Set
    <2>5. job.left - n \in Nat
      BY <1>2, <2>2 DEF Fits
    <2> HIDE DEF n
    <2>6. job' \in CallType
      <3>1. CASE AtClusterEnd(Desc, n) /\ ~IsLast(Desc.next)
        <4>1. job' = [job EXCEPT !.pc = "cross", !.left = @ - n]
          BY <1>4, <1>9, <3>1
        <4> QED BY <1>2, <2>5, <4>1 DEF CallType, Steps
      <3>2. CASE ~(AtClusterEnd(Desc, n) /\ ~IsLast(Desc.next))
        <4>1. Continue(job.left - n)
          BY <1>4, <1>9, <3>2
        <4> QED BY <1>2, <2>5, <4>1, ContinueTyped
      <3> QED BY <3>1, <3>2
    <2> QED BY <1>1, <1>7, <2>4, <2>6 DEF StateTyped
  <1> QED BY <1>8, <1>9

---------------------------------------------------------------------------
(* The types, as long as no failure has torn a file.                       *)

LEMMA NextTyped ==
  ASSUME Small, ReuseTruncated = FALSE, MaxFaults = 0 \/ \A b : Data(b) # None,
         IInv, WholeInv, StateTyped, torn = {}, [Next]_vars
  PROVE  StateTyped'
  <1>1. PICK L \in Labels : Given(L) /\ Before(L)
    BY WholeGiven
  <1>2. /\ Narrow /\ Engaged
        /\ card = "on" \/ \A b : Data(b) # None
    BY <1>1 DEF Given, Before, Sound, IInv, Counts, StateTyped, StoreTyped
  <1>3. CASE Call
    <2>1. ASSUME NEW n \in Names, OpenFile(n) \/ CreateFile(n) PROVE StateTyped'
      BY <2>1, OpenFileTyped, CreateFileTyped
    <2>2. ASSUME NEW d \in Fds,
                 \/ CloseFile(d) \/ StartSeek(d)
                 \/ TruncateWhole(d) \/ TruncateBetween(d) \/ TruncateInside(d)
                 \/ \E n \in Lens, write \in BOOLEAN : StartTransfer(d, n, write)
          PROVE  StateTyped'
      BY <1>2, <2>2, CloseFileTyped, StartTyped, TruncateTyped
    <2> QED BY <1>3, <2>1, <2>2 DEF Call
  <1>4. CASE Step
    <2>1. CASE TakeCluster \/ DiskFull \/ TakeMirror \/ LinkCluster \/ LinkMirror
      BY <1>1, <1>2, <2>1, TakeClusterTyped, DiskFullTyped, TakeMirrorTyped, LinkClusterTyped,
         LinkMirrorTyped
    <2>2. CASE TransferChunk \/ EndOfFile \/ CrossCluster
      <3>1. TransferChunk => StateTyped'
        BY <1>1, <1>2, TransferChunkTyped
      <3> QED BY <2>2, <3>1, EndOfFileTyped, CrossClusterTyped
    <2>3. CASE FindParent \/ CutChain \/ CutMirror \/ FreeCluster \/ FreeMirror
      BY <2>3, FindParentTyped, CutTyped, FreeClusterTyped, FreeMirrorTyped
    <2>4. CASE SeekOn \/ EndSeek
      BY <2>4, SeekOnTyped, EndSeekTyped
    <2> QED BY <1>4, <2>1, <2>2, <2>3, <2>4 DEF Step
  <1>5. CASE Mount \/ Crash
    BY <1>5, MountTyped
  <1>6. CASE UNCHANGED vars
    BY <1>6, StoreStays DEF StateTyped, vars
  <1> QED BY <1>3, <1>4, <1>5, <1>6 DEF Next

(* What is torn stays so, and only a failure tears.                        *)
Tearing == torn \subseteq torn' /\ (torn' # torn => faults < MaxFaults)

LEMMA CardTears ==
  ASSUME NEW b, NEW block, NEW miss, NEW ok,
         Fetch(b, miss, ok) \/ Flush(b, block, ok) \/ Update(b, block, miss, ok)
  PROVE  Tearing
  <1>1. CardFails => Tearing
    BY DEF CardFails, Tearing
  <1>2. UNCHANGED torn => Tearing
    BY DEF Tearing
  <1> QED BY <1>1, <1>2 DEF Fetch, Flush, Update

LEMMA NextTears ==
  ASSUME [Next]_vars
  PROVE  Tearing
  <1>1. UNCHANGED torn => Tearing
    BY DEF Tearing
  <1>2. CASE Call
    <2>1. ASSUME NEW n \in Names, OpenFile(n) \/ CreateFile(n) PROVE Tearing
      BY <2>1, CardTears, ZenonT(60) DEF OpenFile, CreateFile
    <2>2. ASSUME NEW d \in Fds, CloseFile(d) PROVE Tearing
      BY <1>1, <2>2, CardTears DEF CloseFile
    <2>3. ASSUME NEW d \in Fds, StartSeek(d) \/ TruncateWhole(d) \/ TruncateBetween(d)
                                \/ TruncateInside(d)
          PROVE  Tearing
      BY <1>1, <2>3 DEF StartSeek, TruncateWhole, TruncateBetween, TruncateInside
    <2>4. ASSUME NEW d \in Fds, NEW n \in Lens, NEW write \in BOOLEAN, StartTransfer(d, n, write)
          PROVE  Tearing
      BY <1>1, <2>4 DEF StartTransfer
    <2> QED BY <1>2, <2>1, <2>2, <2>3, <2>4 DEF Call
  <1>3. CASE Step
    <2>1. CASE TakeCluster \/ LinkCluster \/ CutChain \/ CutMirror
      BY <2>1, CardTears DEF TakeCluster, LinkCluster, CutChain, CutMirror
    <2>2. CASE TakeMirror \/ LinkMirror
      BY <2>2, CardTears DEF TakeMirror, LinkMirror
    <2>3. CASE DiskFull \/ CrossCluster \/ FindParent \/ SeekOn
      BY <2>3, CardTears DEF DiskFull, CrossCluster, FindParent, SeekOn
    <2>4. CASE TransferChunk
      BY <2>4, Chunked, CardTears
    <2>5. CASE FreeCluster
      BY <2>5, CardTears DEF FreeCluster
    <2>6. CASE FreeMirror
      BY <2>6, CardTears DEF FreeMirror
    <2>7. CASE EndOfFile \/ EndSeek
      BY <1>1, <2>7 DEF EndOfFile, EndSeek
    <2> QED BY <1>3, <2>1, <2>2, <2>3, <2>4, <2>5, <2>6, <2>7 DEF Step
  <1>4. CASE Mount \/ Crash
    BY <1>1, <1>4 DEF Mount, Crash, Tearing
  <1>5. CASE UNCHANGED vars
    BY <1>1, <1>5 DEF vars
  <1> QED BY <1>2, <1>3, <1>4, <1>5 DEF Next

LEMMA InitTyped == Init => StateTyped /\ torn = {}
  <1> SUFFICES ASSUME Init PROVE StateTyped
    BY DEF Init
  <1>1. ASSUME NEW s PROVE FreeTable(s) \in Words
    BY SlotNumbers DEF FreeTable, Words
  <1>2. [n \in Names |-> EmptyEntry] \in Directory
    BY DEF EmptyEntry, Directory, DirEntry, Slots
  <1>3. DOMAIN Formatted = TableBlocks \cup {Dir} /\ \A b \in DOMAIN Formatted : Typed(b, Formatted[b])
    BY <1>1, <1>2, DirApart DEF Formatted, Typed
  <1>4. Typed(None, <<>>) /\ None \in Places
    BY NoneAssumption DEF Typed, Places
  <1>5. StoreTyped
    BY <1>3, <1>4, ProgramsAssumption DEF Init, StoreTyped
  <1>6. fd \in [Fds -> DescType]
    BY FreeTyped DEF Init
  <1>7. job \in CallType
    BY SlotNumbers DEF Init, Idle, CallType, Steps, Slots
  <1> QED BY <1>5, <1>6, <1>7 DEF Init, StateTyped

LEMMA TypedOK ==
  ASSUME Small, StateTyped, torn = {}
  PROVE  TypeOK
  <1>1. Values \subseteq 0 .. End /\ Slots \subseteq 0 .. End /\ 0 .. ClusterSize \subseteq 0 .. End
    <2>1. ClusterSize \in Nat /\ ClusterSize <= End /\ Entries * Sectors <= End /\ End \in Nat
      BY Geometry, Sizes, SMT DEF Small, End
    <2>2. Clusters \subseteq 0 .. End
      BY <2>1, Sizes DEF Clusters
    <2> QED BY <2>1, <2>2 DEF Values, Slots
  <1>2. \A b \in TableBlocks : disk[b] \in [0 .. Entries - 1 -> 0 .. End]
    BY <1>1 DEF StateTyped, StoreTyped, Typed, Words
  <1>3. disk[Dir] \in [Names -> [used : BOOLEAN, cluster : {0} \cup Clusters, size : Nat]]
    BY DEF StateTyped, StoreTyped, Typed, Directory, DirEntry, Slots
  <1>4. DescType \subseteq Descriptor
    BY <1>1 DEF DescType, Descriptor, Slots
  <1>5. CallType \subseteq [pc : Steps, d : Fds \cup {0}, write : BOOLEAN, left : Nat,
                           new : 0 .. End, from : 0 .. End, whole : BOOLEAN]
    BY <1>1 DEF CallType
  <1>6. fd \in [Fds -> Descriptor]
    BY <1>4 DEF StateTyped
  <1> QED BY <1>2, <1>3, <1>5, <1>6 DEF StateTyped, StoreTyped, Places, TypeOK

LEMMA TypesHeld ==
  ASSUME Small, ReuseTruncated = FALSE, MaxFaults = 0 \/ \A b : Data(b) # None
  PROVE  Spec => [](torn = {} => StateTyped)
  <1>1. Init => (torn = {} => StateTyped)
    BY InitTyped
  <1>2. IInv /\ WholeInv /\ (torn = {} => StateTyped) /\ [Next]_vars
          => (torn = {} => StateTyped)'
    BY NextTyped, NextTears DEF Tearing
  <1> QED BY <1>1, <1>2, WholeInvariant, PTL DEF Spec

(* A descriptor points into a block of its cluster, at a cluster of the    *)
(* card, and the block in the cache is one of the card (fat_action,        *)
(* seek_advance, fat_seek_end, fat_truncate): for any number of failures,  *)
(* as long as none has come while a file was being changed.                *)
THEOREM TypesUntorn ==
  ASSUME Small, ReuseTruncated = FALSE, \A b : Data(b) # None
  PROVE  Spec => [](torn = {} => TypeOK)
  <1>1. (torn = {} => StateTyped) => (torn = {} => TypeOK)
    BY TypedOK
  <1> QED BY <1>1, TypesHeld, PTL

(* The types of a file system that never fails.  With three failures they  *)
(* do not hold: what is left of two changes of one file can make           *)
(* fat_truncate lose its way along the chain, and a third failure leaves a *)
(* descriptor whose position is past the end of its last cluster.          *)
THEOREM TypeCorrect ==
  ASSUME Small, ReuseTruncated = FALSE, MaxFaults = 0
  PROVE  Spec => []TypeOK
  <1>1. Init => torn = {}
    BY DEF Init
  <1>2. torn = {} /\ (torn = {} => StateTyped) /\ [Next]_vars => (torn = {})'
    BY NextTears DEF Tearing, StateTyped, StoreTyped
  <1>3. Spec => [](torn = {})
    BY <1>1, <1>2, TypesHeld, PTL DEF Spec
  <1>4. torn = {} /\ (torn = {} => StateTyped) => TypeOK
    BY TypedOK
  <1> QED BY <1>3, <1>4, TypesHeld, PTL

=============================================================================
