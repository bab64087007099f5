--------------------------- MODULE BlockFileProofs ---------------------------
(***************************************************************************)
(* A block the database has a record of is whole in its file, and the      *)
(* index is a tree rooted at the genesis block, for every tree of blocks,  *)
(* every size of block, chunk and file and any number of crashes.          *)
(***************************************************************************)
EXTENDS BlockFile, InductionProofs

Pos == [nFile : Nat, nBlockPos : Nat]
Record == [pos : Pos, nHeight : Nat]
Entry == [pprev : Block \cup {NoBlock}, pos : Pos, nHeight : Nat, bnChainWork : Nat]
Cell == (Block \cup {NoBlock}) \X Nat

Records == UNION {[S -> Record] : S \in SUBSET Block}
Entries == UNION {[S -> Entry] : S \in SUBSET Block}

(* A state of blkindex.dat: the best block has a record. *)
DbState == {d \in [blockindex : Records, hashBestChain : Block, blkreserved : [File -> Nat]] :
               d.hashBestChain \in DOMAIN d.blockindex}

Job ==
    [at : {"idle", "down", "refused"}]
    \cup [at : {"append", "best"}, b : Block]
    \cup [at : {"reserve"}, b : Block, reserved : Nat, pos : Pos]
    \cup [at : {"write"}, b : Block, pos : Pos, done : Nat]
    \cup [at : {"flush", "index"}, b : Block, pos : Pos]

(* The job has a block that is not in the index yet. *)
Storing == {"append", "reserve", "write", "flush", "index"}

DiskTypeOK ==
    /\ file \in [File -> Seq(Cell)] /\ synced \in [File -> Seq(Cell)]
    /\ log \in Seq(DbState) /\ written \in 1..Len(log)

JobTypeOK ==
    /\ job \in Job /\ nCurrentBlockFile \in File
    /\ job.at \in {"reserve", "write", "flush", "index"} => job.pos.nFile \in File
    /\ fails \in Nat /\ powerFails \in Nat

(* The index: a block that LoadBlockIndex made up has no predecessor. *)
MemoryTypeOK ==
    job.at # "down" =>
        /\ mapBlockIndex \in Entries /\ pindexBest \in DOMAIN mapBlockIndex
        /\ \A b \in DOMAIN mapBlockIndex :
              mapBlockIndex[b].pprev # NoBlock =>
                  mapBlockIndex[b].pprev = hashPrevBlock[b] /\ hashPrevBlock[b] \in DOMAIN mapBlockIndex
        /\ job.at \in Storing => job.b \notin DOMAIN mapBlockIndex
                                 /\ hashPrevBlock[job.b] \in DOMAIN mapBlockIndex
        /\ job.at = "best" => job.b \in DOMAIN mapBlockIndex /\ job.b \in DOMAIN blkindex.blockindex

TypeInv == DiskTypeOK /\ JobTypeOK /\ MemoryTypeOK

-----------------------------------------------------------------------------
(* Records, the log and the index.                                          *)

LEMMA RecordsIff ==
    ASSUME NEW r
    PROVE  r \in Records <=> /\ DOMAIN r \subseteq Block /\ r = [b \in DOMAIN r |-> r[b]]
                             /\ \A b \in DOMAIN r : r[b] \in Record
  <1>1. ASSUME r \in Records
        PROVE  /\ DOMAIN r \subseteq Block /\ r = [b \in DOMAIN r |-> r[b]]
               /\ \A b \in DOMAIN r : r[b] \in Record
    <2>1. PICK S \in SUBSET Block : r \in [S -> Record]
      BY <1>1 DEF Records
    <2> QED  BY <2>1
  <1>2. ASSUME DOMAIN r \subseteq Block, r = [b \in DOMAIN r |-> r[b]],
               \A b \in DOMAIN r : r[b] \in Record
        PROVE  r \in Records
    <2>1. r \in [DOMAIN r -> Record]
      BY <1>2
    <2> QED  BY <1>2, <2>1 DEF Records
  <1> QED  BY <1>1, <1>2

LEMMA EntriesIff ==
    ASSUME NEW r
    PROVE  r \in Entries <=> /\ DOMAIN r \subseteq Block /\ r = [b \in DOMAIN r |-> r[b]]
                             /\ \A b \in DOMAIN r : r[b] \in Entry
  <1>1. ASSUME r \in Entries
        PROVE  /\ DOMAIN r \subseteq Block /\ r = [b \in DOMAIN r |-> r[b]]
               /\ \A b \in DOMAIN r : r[b] \in Entry
    <2>1. PICK S \in SUBSET Block : r \in [S -> Entry]
      BY <1>1 DEF Entries
    <2> QED  BY <2>1
  <1>2. ASSUME DOMAIN r \subseteq Block, r = [b \in DOMAIN r |-> r[b]],
               \A b \in DOMAIN r : r[b] \in Entry
        PROVE  r \in Entries
    <2>1. r \in [DOMAIN r -> Entry]
      BY <1>2
    <2> QED  BY <1>2, <2>1 DEF Entries
  <1> QED  BY <1>1, <1>2

(* What WriteBlockIndex changes of a state of the database. *)
LEMMA RecordsWritten ==
    ASSUME NEW d \in DbState, NEW index \in Entries, NEW blocks \in SUBSET DOMAIN index
    PROVE  LET w == WriteBlockIndex(d, index, blocks)
           IN  /\ w \in DbState
               /\ w.hashBestChain = d.hashBestChain /\ w.blkreserved = d.blkreserved
               /\ DOMAIN w.blockindex = DOMAIN d.blockindex \cup blocks
               /\ \A b \in blocks : /\ w.blockindex[b].pos = index[b].pos
                                    /\ w.blockindex[b].nHeight = index[b].nHeight
               /\ \A b \in DOMAIN d.blockindex \ blocks : w.blockindex[b] = d.blockindex[b]
  <1> DEFINE w == WriteBlockIndex(d, index, blocks)
             r == [b \in DOMAIN d.blockindex \cup blocks |->
                     IF b \in blocks THEN [pos |-> index[b].pos, nHeight |-> index[b].nHeight]
                     ELSE d.blockindex[b]]
  <1>1. w = [blockindex |-> r, hashBestChain |-> d.hashBestChain, blkreserved |-> d.blkreserved]
    BY DEF WriteBlockIndex, DbState
  <1>2. d.blockindex \in Records /\ d.hashBestChain \in Block /\ d.blkreserved \in [File -> Nat]
    BY DEF DbState
  <1>3. DOMAIN index \subseteq Block /\ \A b \in blocks : index[b].pos \in Pos /\ index[b].nHeight \in Nat
    BY EntriesIff DEF Entry
  <1>4. DOMAIN r = DOMAIN d.blockindex \cup blocks /\ DOMAIN r \subseteq Block
        /\ r = [b \in DOMAIN r |-> r[b]]
    BY <1>2, <1>3, RecordsIff
  <1>5. ASSUME NEW b \in DOMAIN r PROVE r[b] \in Record
    <2>1. CASE b \in blocks
      BY <1>3, <1>4, <2>1 DEF Record
    <2>2. CASE b \notin blocks
      BY <1>2, <1>4, <2>2, RecordsIff
    <2> QED  BY <2>1, <2>2
  <1>6. r \in Records
    BY <1>4, <1>5, RecordsIff
  <1>7. /\ \A b \in blocks : r[b].pos = index[b].pos /\ r[b].nHeight = index[b].nHeight
        /\ \A b \in DOMAIN d.blockindex \ blocks : r[b] = d.blockindex[b]
    OBVIOUS
  <1> HIDE DEF r
  <1>8. w \in DbState /\ w.blockindex = r
        /\ w.hashBestChain = d.hashBestChain /\ w.blkreserved = d.blkreserved
    BY <1>1, <1>2, <1>4, <1>6 DEF DbState
  <1> HIDE DEF w
  <1>10. /\ DOMAIN w.blockindex = DOMAIN d.blockindex \cup blocks
         /\ \A b \in blocks : /\ w.blockindex[b].pos = index[b].pos
                              /\ w.blockindex[b].nHeight = index[b].nHeight
         /\ \A b \in DOMAIN d.blockindex \ blocks : w.blockindex[b] = d.blockindex[b]
    BY <1>4, <1>7, <1>8
  <1> QED  BY <1>8, <1>10 DEF w

LEMMA LastState ==
    ASSUME DiskTypeOK
    PROVE  /\ blkindex = log[Len(log)] /\ blkindex \in DbState /\ Len(log) \in Nat
           /\ Len(log) \in written..Len(log) /\ written..Len(log) \subseteq 1..Len(log)
           /\ \A i \in 1..Len(log) : log[i] \in DbState
  BY DEF DiskTypeOK, blkindex, Last

LEMMA LogAppend ==
    ASSUME DiskTypeOK, NEW d \in DbState
    PROVE  /\ Append(log, d) \in Seq(DbState) /\ Len(Append(log, d)) = Len(log) + 1
           /\ Append(log, d)[Len(log) + 1] = d
           /\ \A i \in 1..Len(log) : Append(log, d)[i] = log[i]
  BY DEF DiskTypeOK

LEMMA LogOne ==
    ASSUME NEW d \in DbState
    PROVE  <<d>> \in Seq(DbState) /\ Len(<<d>>) = 1 /\ <<d>>[1] = d
  OBVIOUS

(* The best chain of a state of the database is changed to b. *)
LEMMA BestWritten ==
    ASSUME NEW d \in DbState, NEW b \in DOMAIN d.blockindex
    PROVE  LET w == [d EXCEPT !.hashBestChain = b]
           IN  /\ w \in DbState /\ w.hashBestChain = b
               /\ w.blockindex = d.blockindex /\ w.blkreserved = d.blkreserved
  <1>1. d.blockindex \in Records /\ b \in Block
    BY RecordsIff DEF DbState
  <1> QED  BY <1>1 DEF DbState

(* The reserved cells of file f are changed to n. *)
LEMMA ReservedWritten ==
    ASSUME NEW d \in DbState, NEW f \in File, NEW n \in Nat
    PROVE  LET w == [d EXCEPT !.blkreserved[f] = n]
           IN  /\ w \in DbState /\ w.blockindex = d.blockindex
               /\ w.hashBestChain = d.hashBestChain
               /\ w.blkreserved = [d.blkreserved EXCEPT ![f] = n]
  BY DEF DbState

(* Along hashPrevBlock every block leads to one without predecessor. *)
Roots == {b \in Block : hashPrevBlock[b] = NoBlock}

LEMMA BlocksDescend ==
    \E h : Descends(Block, Roots, hashPrevBlock, h) /\ \A b \in Block : h[b] = Depth[b]
  <1> DEFINE h == [b \in Block |-> Depth[b]]
  <1>1. h \in [Block -> Nat]
    BY DepthAssumption
  <1>2. ASSUME NEW b \in Block \ Roots PROVE hashPrevBlock[b] \in Block /\ h[hashPrevBlock[b]] < h[b]
    <2>1. hashPrevBlock[b] \in Block
      BY FileAssumption DEF Roots
    <2>2. Depth[hashPrevBlock[b]] \in Nat /\ Depth[b] = Depth[hashPrevBlock[b]] + 1
      BY <2>1, DepthAssumption DEF Roots
    <2> QED  BY <2>1, <2>2
  <1>3. Descends(Block, Roots, hashPrevBlock, h)
    BY <1>1, <1>2 DEF Descends
  <1>4. \A b \in Block : h[b] = Depth[b]
    OBVIOUS
  <1> QED  BY <1>3, <1>4

(* Ancestors is the function its definition describes. *)
LEMMA AncestorsUnfold ==
    \A b \in Block : Ancestors[b] = IF b \in Roots THEN {b} ELSE {b} \cup Ancestors[hashPrevBlock[b]]
  <1> DEFINE Def(g) == g = [b \in Block |-> {b} \cup IF hashPrevBlock[b] = NoBlock THEN {}
                                                   ELSE g[hashPrevBlock[b]]]
             V    == SUBSET Block
             init == [b \in Block |-> {b}]
             step == [x \in Block \X V |-> {x[1]} \cup x[2]]
  <1>1. PICK g \in [Block -> V] : Recurs(Block, Roots, hashPrevBlock, init, step, g)
    <2>1. init \in [Block -> V] /\ step \in [Block \X V -> V]
      OBVIOUS
    <2> HIDE DEF V, init, step
    <2> QED  BY <2>1, BlocksDescend, ForestRecursion
  <1>2. Def(g)
    <2>1. ASSUME NEW b \in Block
          PROVE  g[b] = {b} \cup IF hashPrevBlock[b] = NoBlock THEN {} ELSE g[hashPrevBlock[b]]
      <3>1. g[b] = IF b \in Roots THEN init[b] ELSE step[<<b, g[hashPrevBlock[b]]>>]
        BY <1>1 DEF Recurs
      <3>2. b \notin Roots => hashPrevBlock[b] \in Block
        BY FileAssumption DEF Roots
      <3>3. b \in Roots <=> hashPrevBlock[b] = NoBlock
        BY DEF Roots
      <3> QED  BY <3>1, <3>2, <3>3
    <2> QED  BY <2>1
  <1>3. Def(Ancestors)
    <2> HIDE DEF Def
    <2>1. Def(CHOOSE f : Def(f))
      BY <1>2
    <2>2. Ancestors = CHOOSE f : Def(f)
      BY DEF Def, Ancestors
    <2> QED  BY <2>1, <2>2
  <1> QED  BY <1>3 DEF Roots

(* The ancestors of a block are a finite chain in which every one but the   *)
(* block itself is the predecessor of another.                              *)
ChainTo(b) ==
    /\ b \in Ancestors[b] /\ Ancestors[b] \subseteq Block /\ IsFiniteSet(Ancestors[b])
    /\ \A a \in Ancestors[b] :
          /\ Ancestors[a] \subseteq Ancestors[b]
          /\ Depth[a] <= Depth[b] /\ (a # b => Depth[a] < Depth[b])
          /\ a # b => \E c \in Ancestors[b] : hashPrevBlock[c] = a
          /\ \A c \in Ancestors[b] : a \in Ancestors[c] \/ c \in Ancestors[a]

LEMMA ChainsToAll == \A b \in Block : ChainTo(b)
  <1> DEFINE T == {b \in Block : ChainTo(b)}
  <1>1. ASSUME NEW b \in Block, b \in Roots \/ hashPrevBlock[b] \in T PROVE b \in T
    <2>1. CASE b \in Roots
      <3>1. Ancestors[b] = {b} /\ IsFiniteSet({b}) /\ Depth[b] \in Nat
        BY <2>1, AncestorsUnfold, FS_Singleton, DepthAssumption
      <3> QED  BY <3>1 DEF ChainTo
    <2>2. CASE b \notin Roots
      <3> DEFINE p == hashPrevBlock[b]
      <3>1. /\ p \in Block /\ ChainTo(p) /\ Ancestors[b] = {b} \cup Ancestors[p]
            /\ Depth[b] = Depth[p] + 1 /\ Depth[p] \in Nat /\ Depth[b] \in Nat
        <4>1. p \in Block /\ hashPrevBlock[b] # NoBlock
          BY <2>2, FileAssumption DEF Roots
        <4> QED  BY <1>1, <2>2, <4>1, AncestorsUnfold, DepthAssumption
      <3>2. /\ b \in Ancestors[b] /\ p \in Ancestors[p] /\ Ancestors[b] \subseteq Block
            /\ IsFiniteSet(Ancestors[b])
        BY <3>1, FS_AddElement DEF ChainTo
      <3>3. ASSUME NEW a \in Ancestors[p]
            PROVE  /\ Ancestors[a] \subseteq Ancestors[p] /\ Depth[a] < Depth[b] /\ a # b
                   /\ \E c \in Ancestors[b] : hashPrevBlock[c] = a
                   /\ \A c \in Ancestors[p] : a \in Ancestors[c] \/ c \in Ancestors[a]
        <4>1. /\ Ancestors[a] \subseteq Ancestors[p] /\ Depth[a] <= Depth[p]
              /\ a # p => \E c \in Ancestors[p] : hashPrevBlock[c] = a
              /\ \A c \in Ancestors[p] : a \in Ancestors[c] \/ c \in Ancestors[a]
              /\ a \in Block
          BY <3>1 DEF ChainTo
        <4>2. Depth[a] \in Nat
          BY <4>1, DepthAssumption
        <4>3. Depth[a] < Depth[b]
          BY <3>1, <4>1, <4>2
        <4>4. a # b
          BY <4>2, <4>3
        <4>5. \E c \in Ancestors[b] : hashPrevBlock[c] = a
          BY <3>1, <3>2, <4>1
        <4> QED  BY <4>1, <4>3, <4>4, <4>5
      <3> HIDE DEF p
      <3>4. ASSUME NEW a \in Ancestors[b]
            PROVE  /\ Ancestors[a] \subseteq Ancestors[b]
                   /\ Depth[a] <= Depth[b] /\ (a # b => Depth[a] < Depth[b])
                   /\ a # b => \E c \in Ancestors[b] : hashPrevBlock[c] = a
                   /\ \A c \in Ancestors[b] : a \in Ancestors[c] \/ c \in Ancestors[a]
        <4>1. CASE a = b
          BY <3>1, <4>1
        <4>2. CASE a # b
          <5>1. a \in Ancestors[p] /\ a \in Block /\ Depth[a] \in Nat
            BY <3>1, <3>2, <4>2, DepthAssumption
          <5>2. \A c \in Ancestors[b] : a \in Ancestors[c] \/ c \in Ancestors[a]
            BY <3>1, <3>3, <5>1
          <5>3. Ancestors[a] \subseteq Ancestors[b] /\ Depth[a] < Depth[b]
            BY <3>1, <3>3, <5>1
          <5>4. Depth[a] <= Depth[b]
            BY <3>1, <5>1, <5>3
          <5> QED  BY <3>3, <5>1, <5>2, <5>3, <5>4
        <4> QED  BY <4>1, <4>2
      <3> QED  BY <3>2, <3>4 DEF ChainTo
    <2> QED  BY <2>1, <2>2
  <1>2. PICK h : Descends(Block, Roots, hashPrevBlock, h)
    BY BlocksDescend
  <1>3. Block \subseteq T
    <2> HIDE DEF T
    <2> QED  BY <1>1, <1>2, ForestInduction
  <1> QED  BY <1>3

(* What the other proofs use of it. *)
LEMMA Ancestry ==
    ASSUME NEW b \in Block
    PROVE  /\ b \in Ancestors[b] /\ Ancestors[b] \subseteq Block /\ IsFiniteSet(Ancestors[b])
           /\ hashPrevBlock[b] = NoBlock => Ancestors[b] = {b}
           /\ hashPrevBlock[b] # NoBlock =>
                 /\ hashPrevBlock[b] \in Block /\ b \notin Ancestors[hashPrevBlock[b]]
                 /\ hashPrevBlock[b] # b /\ Ancestors[b] = {b} \cup Ancestors[hashPrevBlock[b]]
           /\ \A a \in Ancestors[b] : Ancestors[a] \subseteq Ancestors[b]
           /\ \A a \in Ancestors[b] : b \in Ancestors[a] => a = b
           /\ \A a \in Ancestors[b] \ {b} : \E c \in Ancestors[b] : hashPrevBlock[c] = a
           /\ \A a, c \in Ancestors[b] : a \in Ancestors[c] \/ c \in Ancestors[a]
  <1>1. ChainTo(b)
    BY ChainsToAll
  <1>2. hashPrevBlock[b] = NoBlock => Ancestors[b] = {b}
    BY AncestorsUnfold DEF Roots
  <1>3. ASSUME NEW a \in Ancestors[b], b \in Ancestors[a] PROVE a = b
    <2>1. a \in Block /\ Depth[a] \in Nat /\ Depth[b] \in Nat /\ (a # b => Depth[a] < Depth[b])
      BY <1>1, DepthAssumption DEF ChainTo
    <2>2. Depth[b] <= Depth[a]
      BY <1>3, <2>1, ChainsToAll DEF ChainTo
    <2> QED  BY <2>1, <2>2
  <1>4. ASSUME hashPrevBlock[b] # NoBlock
        PROVE  /\ hashPrevBlock[b] \in Block /\ b \notin Ancestors[hashPrevBlock[b]]
               /\ hashPrevBlock[b] # b /\ Ancestors[b] = {b} \cup Ancestors[hashPrevBlock[b]]
    <2> DEFINE p == hashPrevBlock[b]
    <2>1. p \in Block /\ Depth[p] \in Nat /\ Depth[b] = Depth[p] + 1
      BY <1>4, FileAssumption, DepthAssumption
    <2>2. Ancestors[b] = {b} \cup Ancestors[p] /\ p \in Ancestors[p]
      BY <1>4, <2>1, AncestorsUnfold, ChainsToAll DEF Roots, ChainTo
    <2>3. p # b
      BY <2>1
    <2>4. b \notin Ancestors[p]
      BY <1>3, <2>2, <2>3
    <2> QED  BY <2>1, <2>2, <2>3, <2>4
  <1> QED  BY <1>1, <1>2, <1>3, <1>4 DEF ChainTo

(* Walking back along pprev from a block of the index stays in it. *)
LEMMA BranchInIndex ==
    ASSUME NEW index,
           \A x \in DOMAIN index : index[x].pprev # NoBlock =>
               index[x].pprev = hashPrevBlock[x] /\ hashPrevBlock[x] \in DOMAIN index,
           NEW b \in Block, b \in DOMAIN index
    PROVE  Branch(index, b) \subseteq DOMAIN index
  <1> SUFFICES ASSUME NEW a \in Branch(index, b), a # b PROVE a \in DOMAIN index
    OBVIOUS
  <1>1. a \in Ancestors[b] /\ \A c \in Ancestors[b] \ {a} :
            a \in Ancestors[c] => c \in DOMAIN index /\ index[c].pprev # NoBlock
    BY DEF Branch
  <1>2. PICK c \in Ancestors[b] : hashPrevBlock[c] = a
    BY <1>1, Ancestry
  <1>3. c \in Block /\ a \in Block /\ a # NoBlock
    BY <1>1, Ancestry, FileAssumption
  <1>4. a \in Ancestors[a] /\ Ancestors[c] = {c} \cup Ancestors[a] /\ a # c
    BY <1>2, <1>3, Ancestry
  <1>5. c \in DOMAIN index /\ index[c].pprev # NoBlock
    BY <1>1, <1>4
  <1> QED  BY <1>2, <1>5

-----------------------------------------------------------------------------
(* Types.                                                                   *)

LEMMA AddedChunk ==
    ASSUME TypeInv, job.at = "append"
    PROVE  /\ job.b \in Block /\ Size[job.b] \in Nat /\ reserved \in Nat /\ fileSize \in Nat
           /\ addedChunk \in Nat /\ addedChunk >= Size[job.b] - reserved
           /\ nCurrentBlockFile \in File
  <1>1. job.b \in Block /\ nCurrentBlockFile \in File
    BY DEF TypeInv, JobTypeOK, Job
  <1>2. Size[job.b] \in Nat /\ BLOCKFILE_CHUNK_SIZE \in Nat
    BY <1>1, FileAssumption
  <1>3. reserved \in Nat
    BY <1>1, LastState DEF reserved, TypeInv, DbState
  <1>4. fileSize \in Nat
    BY <1>1 DEF fileSize, TypeInv, DiskTypeOK
  <1>5. PICK n \in Int : n = Size[job.b] - reserved
    BY <1>2, <1>3
  <1>6. addedChunk = Max({BLOCKFILE_CHUNK_SIZE, n})
    BY <1>5 DEF addedChunk
  <1>7. \E x \in {BLOCKFILE_CHUNK_SIZE, n} : \A y \in {BLOCKFILE_CHUNK_SIZE, n} : x >= y
    BY <1>2
  <1>8. addedChunk \in {BLOCKFILE_CHUNK_SIZE, n} /\ addedChunk >= BLOCKFILE_CHUNK_SIZE /\ addedChunk >= n
    BY <1>6, <1>7 DEF Max
  <1>9. addedChunk \in Nat
    BY <1>2, <1>8
  <1> QED  BY <1>1, <1>2, <1>3, <1>4, <1>5, <1>8, <1>9

(* A file extended by n zeros. *)
LEMMA Extended ==
    ASSUME DiskTypeOK, NEW f \in File, NEW n \in Nat
    PROVE  /\ file[f] \o Zeros(n) \in Seq(Cell) /\ Len(file[f] \o Zeros(n)) = Len(file[f]) + n
           /\ \A i \in 1..Len(file[f]) : (file[f] \o Zeros(n))[i] = file[f][i]
  <1>1. Zero \in Cell
    BY DEF Zero, Cell
  <1>2. Zeros(n) \in Seq(Cell) /\ Len(Zeros(n)) = n
    BY <1>1 DEF Zeros
  <1>3. file[f] \in Seq(Cell)
    BY DEF DiskTypeOK
  <1> HIDE DEF Zeros
  <1> QED  BY <1>2, <1>3

(* A file with one cell changed. *)
LEMMA CellChanged ==
    ASSUME NEW s \in Seq(Cell), NEW k, NEW c \in Cell
    PROVE  /\ [s EXCEPT ![k] = c] \in Seq(Cell) /\ Len([s EXCEPT ![k] = c]) = Len(s)
           /\ \A i \in 1..Len(s) : [s EXCEPT ![k] = c][i] = IF i = k THEN c ELSE s[i]
  <1> DEFINE r == [s EXCEPT ![k] = c]
  <1>1. s \in [1..Len(s) -> Cell] /\ Len(s) \in Nat
    OBVIOUS
  <1>2. r \in [1..Len(s) -> Cell] /\ \A i \in 1..Len(s) : r[i] = IF i = k THEN c ELSE s[i]
    BY <1>1
  <1> HIDE DEF r
  <1>3. r \in Seq(Cell)
    BY <1>1, <1>2
  <1>4. Len(r) = Len(s)
    BY <1>1, <1>2, <1>3
  <1> QED  BY <1>2, <1>3, <1>4 DEF r

LEMMA LoadedIsIndex ==
    ASSUME NEW d \in DbState
    PROVE  LET index == LoadedIndex(d.blockindex)
           IN  /\ index \in Entries /\ DOMAIN d.blockindex \subseteq DOMAIN index
               /\ \A b \in DOMAIN index : index[b].pprev # NoBlock =>
                     index[b].pprev = hashPrevBlock[b] /\ hashPrevBlock[b] \in DOMAIN index
               /\ \A b \in DOMAIN index : b \notin DOMAIN d.blockindex => index[b].pos.nFile = 0
               /\ \A b \in DOMAIN d.blockindex :
                     /\ index[b].pprev = hashPrevBlock[b] /\ index[b].pos = d.blockindex[b].pos
                     /\ index[b].nHeight = d.blockindex[b].nHeight
                     /\ index[b].bnChainWork = Cardinality(Connected(d.blockindex, b))
  <1> DEFINE rec == d.blockindex
             named == (DOMAIN rec \cup {hashPrevBlock[b] : b \in DOMAIN rec}) \ {NoBlock}
             index == LoadedIndex(rec)
  <1>1. rec \in Records /\ DOMAIN rec \subseteq Block /\ \A b \in DOMAIN rec : rec[b] \in Record
    BY RecordsIff DEF DbState
  <1>2. named \subseteq Block /\ DOMAIN rec \subseteq named
        /\ \A b \in DOMAIN rec : hashPrevBlock[b] # NoBlock => hashPrevBlock[b] \in named
    BY <1>1, FileAssumption
  <1> HIDE DEF rec
  <1>3. DOMAIN index = named /\ index = [b \in named |-> index[b]]
    BY DEF LoadedIndex
  <1>4. \A b \in DOMAIN rec :
            index[b] = [pprev |-> hashPrevBlock[b], pos |-> rec[b].pos, nHeight |-> rec[b].nHeight,
                        bnChainWork |-> Cardinality(Connected(rec, b))]
    BY <1>2 DEF LoadedIndex
  <1>5. \A b \in named \ DOMAIN rec :
            index[b] = [pprev |-> NoBlock, pos |-> [nFile |-> 0, nBlockPos |-> 0],
                        nHeight |-> 0, bnChainWork |-> 0]
    BY DEF LoadedIndex
  <1> HIDE DEF named, index
  <1>6. ASSUME NEW b \in named PROVE index[b] \in Entry
    <2>1. CASE b \in DOMAIN rec
      <3>1. IsFiniteSet(Connected(rec, b))
        <4>1. Connected(rec, b) \subseteq Ancestors[b] /\ IsFiniteSet(Ancestors[b])
          BY <1>2, Ancestry DEF Connected
        <4> QED  BY <4>1, FS_Subset
      <3>2. Cardinality(Connected(rec, b)) \in Nat
        BY <3>1, FS_CardinalityType
      <3>3. rec[b].pos \in Pos /\ rec[b].nHeight \in Nat /\ hashPrevBlock[b] \in Block \cup {NoBlock}
        BY <1>1, <2>1, FileAssumption DEF Record
      <3> DEFINE n == Cardinality(Connected(rec, b))
      <3>4. index[b] = [pprev |-> hashPrevBlock[b], pos |-> rec[b].pos, nHeight |-> rec[b].nHeight,
                        bnChainWork |-> n]
        BY <1>4, <2>1
      <3> HIDE DEF n
      <3> QED  BY <3>2, <3>3, <3>4 DEF Entry, n
    <2>2. CASE b \notin DOMAIN rec
      <3>1. [nFile |-> 0, nBlockPos |-> 0] \in Pos
        BY DEF Pos
      <3> QED  BY <1>5, <2>2, <3>1 DEF Entry
    <2> QED  BY <2>1, <2>2
  <1>7. index \in Entries
    BY <1>2, <1>3, <1>6, EntriesIff
  <1>10. ASSUME NEW b \in DOMAIN rec
         PROVE  /\ index[b].pprev = hashPrevBlock[b] /\ index[b].pos = rec[b].pos
                /\ index[b].nHeight = rec[b].nHeight
                /\ index[b].bnChainWork = Cardinality(Connected(rec, b))
    <2> DEFINE n == Cardinality(Connected(rec, b))
    <2>1. index[b] = [pprev |-> hashPrevBlock[b], pos |-> rec[b].pos, nHeight |-> rec[b].nHeight,
                      bnChainWork |-> n]
      BY <1>4
    <2> HIDE DEF n
    <2>2. /\ index[b].pprev = hashPrevBlock[b] /\ index[b].pos = rec[b].pos
          /\ index[b].nHeight = rec[b].nHeight /\ index[b].bnChainWork = n
      BY <2>1
    <2> QED  BY <2>2 DEF n
  <1>8. \A b \in DOMAIN index : index[b].pprev # NoBlock =>
            index[b].pprev = hashPrevBlock[b] /\ hashPrevBlock[b] \in DOMAIN index
    BY <1>2, <1>3, <1>5, <1>10
  <1>9. \A b \in DOMAIN index : b \notin DOMAIN rec => index[b].pos.nFile = 0
    BY <1>3, <1>5
  <1> QED  BY <1>2, <1>3, <1>7, <1>8, <1>9, <1>10 DEF index, rec

LEMMA NewIndexIsIndex ==
    ASSUME TypeInv, job.at = "index"
    PROVE  LET index == IndexWith(job.b, job.pos)
               p == hashPrevBlock[job.b]
           IN  /\ index \in Entries /\ DOMAIN index = DOMAIN mapBlockIndex \cup {job.b}
               /\ \A x \in DOMAIN mapBlockIndex : index[x] = mapBlockIndex[x]
               /\ index[job.b].pprev = p /\ index[job.b].pos = job.pos
               /\ index[job.b].nHeight = mapBlockIndex[p].nHeight + 1
               /\ index[job.b].bnChainWork = mapBlockIndex[p].bnChainWork + 1
               /\ p # NoBlock
  <1> DEFINE index == IndexWith(job.b, job.pos)
             p == hashPrevBlock[job.b]
  <1>1. /\ job.b \in Block /\ job.pos \in Pos /\ job.b \notin DOMAIN mapBlockIndex
        /\ p \in DOMAIN mapBlockIndex /\ mapBlockIndex \in Entries
    BY DEF TypeInv, JobTypeOK, MemoryTypeOK, Job, Storing
  <1>2. DOMAIN mapBlockIndex \subseteq Block /\ \A x \in DOMAIN mapBlockIndex : mapBlockIndex[x] \in Entry
    BY <1>1, EntriesIff
  <1>3. NewIndex(job.b, job.pos) = [pprev |-> p, pos |-> job.pos,
            nHeight |-> mapBlockIndex[p].nHeight + 1,
            bnChainWork |-> mapBlockIndex[p].bnChainWork + 1]
    BY <1>1 DEF NewIndex
  <1>4. p \in Block /\ mapBlockIndex[p].nHeight \in Nat /\ mapBlockIndex[p].bnChainWork \in Nat
    BY <1>1, <1>2 DEF Entry
  <1>5. NewIndex(job.b, job.pos) \in Entry
    BY <1>1, <1>3, <1>4 DEF Entry
  <1>6. /\ DOMAIN index = DOMAIN mapBlockIndex \cup {job.b} /\ index = [x \in DOMAIN index |-> index[x]]
        /\ index[job.b] = NewIndex(job.b, job.pos)
        /\ \A x \in DOMAIN mapBlockIndex : index[x] = mapBlockIndex[x]
    BY <1>1 DEF IndexWith
  <1> HIDE DEF index
  <1>7. index \in Entries
    BY <1>1, <1>2, <1>5, <1>6, EntriesIff
  <1>8. p # NoBlock
    BY <1>4, FileAssumption
  <1> QED  BY <1>3, <1>6, <1>7, <1>8 DEF index

(* A job that goes on with its block, or gives it up. *)
LEMMA JobGoesOn ==
    ASSUME TypeInv, UNCHANGED memoryVars, job.at # "down",
           job' = Idle \/ (job.at \in Storing /\ job'.at \in Storing /\ job'.b = job.b)
    PROVE  MemoryTypeOK'
  <1>1. job'.at # "down" /\ job'.at # "best"
    BY DEF Idle, Storing
  <1>2. job'.at \in Storing => job.at \in Storing /\ job'.b = job.b
    BY DEF Idle, Storing
  <1> QED  BY <1>1, <1>2 DEF TypeInv, MemoryTypeOK, memoryVars

LEMMA TypeAccept ==
    ASSUME TypeInv, NEW b \in Block, AcceptBlock(b)
    PROVE  TypeInv'
  <1>1. /\ job = Idle /\ b \notin DOMAIN mapBlockIndex /\ hashPrevBlock[b] \in DOMAIN mapBlockIndex
        /\ job' = [at |-> "append", b |-> b] /\ UNCHANGED <<diskVars, memoryVars, faultVars>>
    BY DEF AcceptBlock
  <1>2. JobTypeOK'
    BY <1>1 DEF TypeInv, JobTypeOK, Job, memoryVars, faultVars
  <1>3. MemoryTypeOK'
    BY <1>1 DEF TypeInv, MemoryTypeOK, Idle, Storing, memoryVars
  <1>4. DiskTypeOK'
    BY <1>1 DEF TypeInv, DiskTypeOK, diskVars
  <1> QED  BY <1>2, <1>3, <1>4 DEF TypeInv

LEMMA TypeUseReserved ==
    ASSUME TypeInv, UseReserved
    PROVE  TypeInv'
  <1>1. job.at = "append" /\ Size[job.b] <= reserved /\ UNCHANGED <<diskVars, memoryVars, faultVars>>
    BY DEF UseReserved
  <1>2. DiskTypeOK'
    BY <1>1 DEF TypeInv, DiskTypeOK, diskVars
  <1>3. CASE job' = Idle
    BY <1>1, <1>2, <1>3, JobGoesOn DEF TypeInv, JobTypeOK, Job, Idle, memoryVars, faultVars
  <1>4. CASE reserved <= fileSize /\ Reserve(fileSize - reserved, reserved - Size[job.b])
    <2>1. PICK n \in Nat, k \in Nat : n = fileSize - reserved /\ k = reserved - Size[job.b]
      BY <1>1, <1>4, AddedChunk
    <2>2. job' = [at |-> "reserve", b |-> job.b, reserved |-> k,
                  pos |-> [nFile |-> nCurrentBlockFile, nBlockPos |-> n]]
      BY <1>4, <2>1 DEF Reserve
    <2>3. nCurrentBlockFile \in Nat /\ nCurrentBlockFile \in File /\ job.b \in Block
      BY <1>1, AddedChunk DEF File
    <2>4. job' \in Job /\ job'.pos.nFile \in File
      BY <2>2, <2>3 DEF Job, Pos
    <2>5. JobTypeOK'
      BY <1>1, <2>4 DEF TypeInv, JobTypeOK, memoryVars, faultVars
    <2>6. MemoryTypeOK'
      BY <1>1, <2>2, JobGoesOn DEF Storing
    <2> QED  BY <1>2, <2>5, <2>6 DEF TypeInv
  <1> QED  BY <1>3, <1>4 DEF UseReserved

LEMMA TypeExtendBy ==
    ASSUME TypeInv, NEW n \in Nat, ExtendBy(n)
    PROVE  DiskTypeOK'
  <1>1. nCurrentBlockFile \in File /\ DiskTypeOK
    BY DEF TypeInv, JobTypeOK
  <1>2. file[nCurrentBlockFile] \o Zeros(n) \in Seq(Cell)
    BY <1>1, Extended
  <1> QED  BY <1>1, <1>2 DEF ExtendBy, DiskTypeOK

LEMMA TypeExtend ==
    ASSUME TypeInv, Extend
    PROVE  TypeInv'
  <1>1. job.at = "append" /\ Size[job.b] > reserved /\ fileSize >= reserved /\ UNCHANGED memoryVars
    BY DEF Extend
  <1>2. CASE /\ ExtendBy(addedChunk) /\ UNCHANGED faultVars
             /\ Reserve(fileSize - reserved, reserved + addedChunk - Size[job.b])
    <2>1. PICK n \in Nat, k \in Nat : n = fileSize - reserved /\ k = reserved + addedChunk - Size[job.b]
      BY <1>1, AddedChunk
    <2>2. job' = [at |-> "reserve", b |-> job.b, reserved |-> k,
                  pos |-> [nFile |-> nCurrentBlockFile, nBlockPos |-> n]]
      BY <1>2, <2>1 DEF Reserve
    <2>3. nCurrentBlockFile \in Nat /\ nCurrentBlockFile \in File /\ job.b \in Block /\ addedChunk \in Nat
      BY <1>1, AddedChunk DEF File
    <2>4. job' \in Job /\ job'.pos.nFile \in File
      BY <2>2, <2>3 DEF Job, Pos
    <2>5. JobTypeOK'
      BY <1>1, <1>2, <2>4 DEF TypeInv, JobTypeOK, memoryVars, faultVars
    <2>6. MemoryTypeOK'
      BY <1>1, <2>2, JobGoesOn DEF Storing
    <2>7. DiskTypeOK'
      BY <1>2, <2>3, TypeExtendBy
    <2> QED  BY <2>5, <2>6, <2>7 DEF TypeInv
  <1>3. CASE Fails("extend") /\ \E n \in 0..(addedChunk - 1) : ExtendBy(n)
    <2>1. job' = Idle /\ fails' = fails + 1 /\ powerFails' = powerFails
      BY <1>3 DEF Fails
    <2>2. PICK n \in Nat : ExtendBy(n)
      BY <1>1, <1>3, AddedChunk
    <2>3. JobTypeOK'
      BY <1>1, <2>1 DEF TypeInv, JobTypeOK, Job, Idle, memoryVars
    <2>4. MemoryTypeOK'
      BY <1>1, <2>1, JobGoesOn
    <2> QED  BY <2>2, <2>3, <2>4, TypeExtendBy DEF TypeInv
  <1> QED  BY <1>2, <1>3 DEF Extend

LEMMA TypeNextFile ==
    ASSUME TypeInv, NextFile
    PROVE  TypeInv'
  <1>1. /\ job.at = "append" /\ nCurrentBlockFile < MaxFiles
        /\ nCurrentBlockFile' = nCurrentBlockFile + 1 /\ job' = job
        /\ UNCHANGED <<diskVars, mapBlockIndex, pindexBest, faultVars>>
    BY DEF NextFile
  <1>2. nCurrentBlockFile' \in File
    BY <1>1, FileAssumption DEF TypeInv, JobTypeOK, File
  <1>3. JobTypeOK'
    BY <1>1, <1>2 DEF TypeInv, JobTypeOK, faultVars
  <1>4. MemoryTypeOK'
    BY <1>1 DEF TypeInv, MemoryTypeOK, Storing
  <1>5. DiskTypeOK'
    BY <1>1 DEF TypeInv, DiskTypeOK, diskVars
  <1> QED  BY <1>3, <1>4, <1>5 DEF TypeInv

LEMMA TypeWriteReserved ==
    ASSUME TypeInv, WriteBlockFileReserved
    PROVE  TypeInv'
  <1>1. job.at = "reserve" /\ UNCHANGED <<file, synced, memoryVars>>
    BY DEF WriteBlockFileReserved
  <1>2. job.b \in Block /\ job.reserved \in Nat /\ job.pos \in Pos /\ job.pos.nFile \in File
    BY <1>1 DEF TypeInv, JobTypeOK, Job
  <1>3. CASE Fails("reserve") /\ UNCHANGED <<log, written>>
    <2>1. job' = Idle /\ fails' = fails + 1 /\ powerFails' = powerFails
      BY <1>3 DEF Fails
    <2>2. JobTypeOK'
      BY <1>1, <2>1 DEF TypeInv, JobTypeOK, Job, Idle, memoryVars
    <2>3. MemoryTypeOK'
      BY <1>1, <2>1, JobGoesOn
    <2>4. DiskTypeOK'
      BY <1>1, <1>3 DEF TypeInv, DiskTypeOK
    <2> QED  BY <2>2, <2>3, <2>4 DEF TypeInv
  <1>4. CASE /\ Write([blkindex EXCEPT !.blkreserved[job.pos.nFile] = job.reserved])
             /\ job' = [at |-> "write", b |-> job.b, pos |-> job.pos, done |-> 0]
             /\ UNCHANGED faultVars
    <2>1. PICK d : d = [blkindex EXCEPT !.blkreserved[job.pos.nFile] = job.reserved]
      OBVIOUS
    <2>2. d \in DbState
      BY <1>2, <2>1, LastState, ReservedWritten DEF TypeInv
    <2>3. log' = Append(log, d) /\ written' = Len(log) + 1
      BY <1>4, <2>1 DEF Write
    <2>4. DiskTypeOK'
      BY <1>1, <2>2, <2>3, LogAppend, LastState DEF TypeInv, DiskTypeOK
    <2>5. job' \in Job /\ job'.pos.nFile \in File
      BY <1>2, <1>4 DEF Job
    <2>6. JobTypeOK'
      BY <1>1, <1>4, <2>5 DEF TypeInv, JobTypeOK, memoryVars, faultVars
    <2>7. MemoryTypeOK'
      BY <1>1, <1>4, JobGoesOn DEF Storing
    <2> QED  BY <2>4, <2>6, <2>7 DEF TypeInv
  <1> QED  BY <1>3, <1>4 DEF WriteBlockFileReserved

LEMMA TypeWriteToDisk ==
    ASSUME TypeInv, WriteToDisk
    PROVE  TypeInv'
  <1>1. job.at = "write" /\ UNCHANGED <<synced, log, written, memoryVars>>
    BY DEF WriteToDisk
  <1>2. /\ job.b \in Block /\ job.pos \in Pos /\ job.pos.nFile \in File /\ job.done \in Nat
        /\ job = [at |-> "write", b |-> job.b, pos |-> job.pos, done |-> job.done]
    BY <1>1 DEF TypeInv, JobTypeOK, Job
  <1>3. CASE Fails("write") /\ UNCHANGED file
    <2>1. job' = Idle /\ fails' = fails + 1 /\ powerFails' = powerFails
      BY <1>3 DEF Fails
    <2>2. JobTypeOK'
      BY <1>1, <2>1 DEF TypeInv, JobTypeOK, Job, Idle, memoryVars
    <2>3. MemoryTypeOK'
      BY <1>1, <2>1, JobGoesOn
    <2>4. DiskTypeOK'
      BY <1>1, <1>3 DEF TypeInv, DiskTypeOK
    <2> QED  BY <2>2, <2>3, <2>4 DEF TypeInv
  <1>4. CASE ~(Fails("write") /\ UNCHANGED file)
    <2>1. PICK i \in Nat : i = job.done + 1
      BY <1>2
    <2>2. /\ file' = [file EXCEPT ![job.pos.nFile][job.pos.nBlockPos + i] = <<job.b, i>>]
          /\ job' = IF i = Size[job.b] THEN [at |-> "flush", b |-> job.b, pos |-> job.pos]
                    ELSE [job EXCEPT !.done = i]
          /\ UNCHANGED faultVars
      BY <1>4, <2>1 DEF WriteToDisk
    <2>3. \/ job' = [at |-> "flush", b |-> job.b, pos |-> job.pos]
          \/ job' = [at |-> "write", b |-> job.b, pos |-> job.pos, done |-> i]
      BY <1>2, <2>2
    <2>4. job' \in Job /\ job'.pos.nFile \in File /\ job'.at \in Storing /\ job'.b = job.b
      BY <1>2, <2>1, <2>3 DEF Job, Storing
    <2>5. JobTypeOK'
      BY <1>1, <2>2, <2>4 DEF TypeInv, JobTypeOK, memoryVars, faultVars
    <2>6. MemoryTypeOK'
      BY <1>1, <2>4, JobGoesOn DEF Storing
    <2>7. file' \in [File -> Seq(Cell)]
      <3>1. <<job.b, i>> \in Cell /\ file[job.pos.nFile] \in Seq(Cell)
        BY <1>2, <2>1 DEF Cell, TypeInv, DiskTypeOK
      <3>2. [file[job.pos.nFile] EXCEPT ![job.pos.nBlockPos + i] = <<job.b, i>>] \in Seq(Cell)
        BY <3>1, CellChanged
      <3> QED  BY <2>2, <3>2 DEF TypeInv, DiskTypeOK
    <2> QED  BY <1>1, <2>5, <2>6, <2>7 DEF TypeInv, DiskTypeOK
  <1> QED  BY <1>3, <1>4 DEF WriteToDisk

LEMMA TypeFlush ==
    ASSUME TypeInv, FlushBlockFile
    PROVE  TypeInv'
  <1>1. job.at \in {"write", "flush"} /\ UNCHANGED <<file, log, written, memoryVars>>
        /\ fails' \in {fails, fails + 1} /\ powerFails' = powerFails
    BY DEF FlushBlockFile, faultVars
  <1>2. job.b \in Block /\ job.pos \in Pos /\ job.pos.nFile \in File
    BY <1>1 DEF TypeInv, JobTypeOK, Job
  <1>3. job' = [at |-> "index", b |-> job.b, pos |-> job.pos]
    BY DEF FlushBlockFile
  <1>4. job' \in Job /\ job'.pos.nFile \in File /\ job'.at \in Storing /\ job'.b = job.b
    BY <1>2, <1>3 DEF Job, Storing
  <1>5. JobTypeOK'
    BY <1>1, <1>4 DEF TypeInv, JobTypeOK, memoryVars
  <1>6. MemoryTypeOK'
    BY <1>1, <1>4, JobGoesOn DEF Storing
  <1>7. synced' = synced \/ synced' = [synced EXCEPT ![job.pos.nFile] = file[job.pos.nFile]]
    BY DEF FlushBlockFile
  <1>8. DiskTypeOK'
    BY <1>1, <1>2, <1>7 DEF TypeInv, DiskTypeOK
  <1> QED  BY <1>5, <1>6, <1>8 DEF TypeInv

LEMMA TypeAddToBlockIndex ==
    ASSUME TypeInv, AddToBlockIndex
    PROVE  TypeInv'
  <1>1. /\ job.at = "index" /\ UNCHANGED <<file, synced, pindexBest, nCurrentBlockFile>>
        /\ mapBlockIndex' = IndexWith(job.b, job.pos)
    BY DEF AddToBlockIndex
  <1>2. job.b \in Block /\ job.pos \in Pos /\ hashPrevBlock[job.b] \in DOMAIN mapBlockIndex
        /\ pindexBest \in DOMAIN mapBlockIndex
    BY <1>1 DEF TypeInv, JobTypeOK, MemoryTypeOK, Job, Storing
  <1>3. PICK index \in Entries :
            /\ index = IndexWith(job.b, job.pos)
            /\ DOMAIN index = DOMAIN mapBlockIndex \cup {job.b}
            /\ \A x \in DOMAIN mapBlockIndex : index[x] = mapBlockIndex[x]
            /\ index[job.b].pprev = hashPrevBlock[job.b]
    BY <1>1, NewIndexIsIndex
  <1>4. /\ mapBlockIndex' \in Entries /\ pindexBest' \in DOMAIN mapBlockIndex'
        /\ \A b \in DOMAIN mapBlockIndex' :
              mapBlockIndex'[b].pprev # NoBlock =>
                  mapBlockIndex'[b].pprev = hashPrevBlock[b] /\ hashPrevBlock[b] \in DOMAIN mapBlockIndex'
        /\ job.b \in DOMAIN mapBlockIndex'
    BY <1>1, <1>2, <1>3 DEF TypeInv, MemoryTypeOK
  <1>5. CASE Fails("index") /\ UNCHANGED <<log, written>>
    <2>1. job' = Idle /\ fails' = fails + 1 /\ powerFails' = powerFails
      BY <1>5 DEF Fails
    <2>2. JobTypeOK'
      BY <1>1, <2>1 DEF TypeInv, JobTypeOK, Job, Idle
    <2>3. MemoryTypeOK'
      BY <1>4, <2>1 DEF MemoryTypeOK, Idle, Storing
    <2>4. DiskTypeOK'
      BY <1>1, <1>5 DEF TypeInv, DiskTypeOK
    <2> QED  BY <2>2, <2>3, <2>4 DEF TypeInv
  <1>6. CASE /\ TxnCommit(WriteBlockIndex(blkindex, index, {job.b}))
             /\ job' = [at |-> "best", b |-> job.b] \/ job' = Idle
             /\ UNCHANGED faultVars
    <2>1. PICK d : d = WriteBlockIndex(blkindex, index, {job.b})
      OBVIOUS
    <2>2. d \in DbState /\ job.b \in DOMAIN d.blockindex
      <3>1. blkindex \in DbState /\ {job.b} \in SUBSET DOMAIN index
        BY <1>3, LastState DEF TypeInv
      <3> HIDE DEF blkindex
      <3> QED  BY <2>1, <3>1, RecordsWritten
    <2>3. log' = Append(log, d) /\ written' = written
      BY <1>6, <2>1 DEF TxnCommit
    <2>4. DiskTypeOK'
      BY <1>1, <2>2, <2>3, LogAppend, LastState DEF TypeInv, DiskTypeOK
    <2>5. blkindex' = d
      BY <2>2, <2>3, <2>4, LogAppend DEF blkindex, Last, TypeInv
    <2>6. JobTypeOK'
      BY <1>1, <1>2, <1>6 DEF TypeInv, JobTypeOK, Job, Idle, faultVars
    <2>7. MemoryTypeOK'
      BY <1>4, <1>6, <2>2, <2>5 DEF MemoryTypeOK, Idle, Storing
    <2> QED  BY <2>4, <2>6, <2>7 DEF TypeInv
  <1> QED  BY <1>3, <1>5, <1>6 DEF AddToBlockIndex

(* The blocks whose records SetBestChain writes are in the index. *)
LEMMA MovedInIndex ==
    ASSUME TypeInv, job.at = "best",
           NEW moved, moved \subseteq Branch(mapBlockIndex, job.b) \cup Branch(mapBlockIndex, pindexBest)
    PROVE  /\ moved \subseteq DOMAIN mapBlockIndex
           /\ {mapBlockIndex[b].pprev : b \in moved} \ {NoBlock} \in SUBSET DOMAIN mapBlockIndex
  <1>1. /\ mapBlockIndex \in Entries /\ job.b \in DOMAIN mapBlockIndex /\ pindexBest \in DOMAIN mapBlockIndex
        /\ \A b \in DOMAIN mapBlockIndex : mapBlockIndex[b].pprev # NoBlock =>
              mapBlockIndex[b].pprev = hashPrevBlock[b] /\ hashPrevBlock[b] \in DOMAIN mapBlockIndex
    BY DEF TypeInv, MemoryTypeOK
  <1>2. job.b \in Block /\ pindexBest \in Block
    BY <1>1, EntriesIff
  <1>3. /\ Branch(mapBlockIndex, job.b) \subseteq DOMAIN mapBlockIndex
        /\ Branch(mapBlockIndex, pindexBest) \subseteq DOMAIN mapBlockIndex
    BY <1>1, <1>2, BranchInIndex
  <1>4. moved \subseteq DOMAIN mapBlockIndex
    BY <1>3
  <1> QED  BY <1>1, <1>4

(* SetBestChain either changes nothing but the job, or moves the best chain *)
(* to the block of the job.                                                 *)
LEMMA BestChainMoves ==
    ASSUME TypeInv, SetBestChain
    PROVE  /\ job.at = "best" /\ job' = Idle
           /\ UNCHANGED <<file, synced, mapBlockIndex, nCurrentBlockFile, written, kills, powerFails, torn>>
           /\ fails' \in {fails, fails + 1}
           /\ \/ UNCHANGED <<log, pindexBest>>
              \/ \E blocks \in SUBSET DOMAIN mapBlockIndex, d \in DbState :
                    /\ d = WriteBlockIndex(blkindex, mapBlockIndex, blocks) /\ fails' = fails
                    /\ [d EXCEPT !.hashBestChain = job.b] \in DbState
                    /\ log' = Append(log, [d EXCEPT !.hashBestChain = job.b]) /\ pindexBest' = job.b
  <1> DEFINE new == Branch(mapBlockIndex, job.b)
             old == Branch(mapBlockIndex, pindexBest)
             moved == (new \ old) \cup (old \ new)
             blocks == {mapBlockIndex[b].pprev : b \in moved} \ {NoBlock}
             d == WriteBlockIndex(blkindex, mapBlockIndex, blocks)
  <1>1. job.at = "best" /\ UNCHANGED <<file, synced, mapBlockIndex, nCurrentBlockFile>>
    BY DEF SetBestChain
  <1>2. moved \subseteq new \cup old
    OBVIOUS
  <1>3. \/ /\ TxnCommit([d EXCEPT !.hashBestChain = job.b])
           /\ pindexBest' = job.b /\ job' = Idle /\ UNCHANGED faultVars
        \/ job' = Idle /\ UNCHANGED <<log, written, pindexBest, faultVars>>
        \/ Fails("best") /\ UNCHANGED <<log, written, pindexBest>>
    BY DEF SetBestChain
  <1> HIDE DEF moved
  <1>4. blocks \in SUBSET DOMAIN mapBlockIndex
    BY <1>1, <1>2, MovedInIndex
  <1> HIDE DEF blocks
  <1>5. /\ mapBlockIndex \in Entries /\ blkindex \in DbState
        /\ job.b \in DOMAIN mapBlockIndex /\ job.b \in DOMAIN blkindex.blockindex
    BY <1>1, LastState DEF TypeInv, MemoryTypeOK
  <1> HIDE DEF blkindex
  <1>6. d \in DbState /\ job.b \in DOMAIN d.blockindex
    BY <1>4, <1>5, RecordsWritten
  <1> HIDE DEF d
  <1>7. [d EXCEPT !.hashBestChain = job.b] \in DbState
    BY <1>6, BestWritten
  <1>8. CASE /\ TxnCommit([d EXCEPT !.hashBestChain = job.b])
             /\ pindexBest' = job.b /\ job' = Idle /\ UNCHANGED faultVars
    <2>1. log' = Append(log, [d EXCEPT !.hashBestChain = job.b]) /\ written' = written
      BY <1>8 DEF TxnCommit
    <2>2. d = WriteBlockIndex(blkindex, mapBlockIndex, blocks)
      BY DEF d
    <2>3. UNCHANGED <<fails, kills, powerFails, torn>>
      BY <1>8 DEF faultVars
    <2> QED  BY <1>1, <1>4, <1>6, <1>7, <1>8, <2>1, <2>2, <2>3
  <1>9. CASE job' = Idle /\ UNCHANGED <<log, written, pindexBest, faultVars>>
    BY <1>1, <1>9 DEF faultVars
  <1>10. CASE Fails("best") /\ UNCHANGED <<log, written, pindexBest>>
    BY <1>1, <1>10 DEF Fails
  <1> QED  BY <1>3, <1>8, <1>9, <1>10

LEMMA TypeSetBestChain ==
    ASSUME TypeInv, SetBestChain
    PROVE  TypeInv'
  <1>1. /\ job.at = "best" /\ job' = Idle
        /\ UNCHANGED <<file, synced, mapBlockIndex, nCurrentBlockFile, written, kills, powerFails>>
        /\ fails' \in {fails, fails + 1}
        /\ \/ UNCHANGED <<log, pindexBest>>
           \/ \E e \in DbState : log' = Append(log, e) /\ pindexBest' = job.b
    BY BestChainMoves
  <1>2. JobTypeOK'
    BY <1>1 DEF TypeInv, JobTypeOK, Job, Idle
  <1>3. MemoryTypeOK'
    BY <1>1 DEF TypeInv, MemoryTypeOK, Idle, Storing
  <1>4. DiskTypeOK'
    <2>1. CASE log' = log
      BY <1>1, <2>1 DEF TypeInv, DiskTypeOK
    <2>2. CASE \E e \in DbState : log' = Append(log, e)
      BY <1>1, <2>2, LogAppend, LastState DEF TypeInv, DiskTypeOK
    <2> QED  BY <1>1, <2>1, <2>2
  <1> QED  BY <1>2, <1>3, <1>4 DEF TypeInv

(* A crash forgets what is in memory and leaves one state of the database. *)
LEMMA CrashForgets ==
    ASSUME TypeInv, Forgets, NEW states \in SUBSET (1..Len(log)), RecoversFrom(states)
    PROVE  /\ \E i \in states : log' = <<log[i]>> /\ blkindex' = log[i] /\ log[i] \in DbState
           /\ log' \in Seq(DbState) /\ written' = 1 /\ Len(log') = 1
           /\ job'.at = "down" /\ MemoryTypeOK' /\ nCurrentBlockFile' \in File /\ job' \in Job
  <1>1. PICK i \in states : log' = <<log[i]>>
    BY DEF RecoversFrom
  <1>2. log[i] \in DbState
    BY LastState DEF TypeInv
  <1>3. log' \in Seq(DbState) /\ Len(log') = 1 /\ log'[1] = log[i]
    BY <1>1, <1>2, LogOne
  <1>4. blkindex' = log[i]
    BY <1>3 DEF blkindex, Last
  <1>5. job'.at = "down" /\ job' \in Job /\ nCurrentBlockFile' \in File
    BY FileAssumption DEF Forgets, Down, Job, File
  <1> QED  BY <1>1, <1>2, <1>3, <1>4, <1>5 DEF MemoryTypeOK, RecoversFrom

LEMMA TypeKill ==
    ASSUME TypeInv, Kill \/ AssertFails
    PROVE  TypeInv'
  <1>1. /\ Forgets /\ RecoversFrom(written..Len(log)) /\ UNCHANGED <<file, synced, fails, powerFails>>
    BY DEF Kill, AssertFails, faultVars
  <1>2. written..Len(log) \in SUBSET (1..Len(log))
    BY LastState DEF TypeInv
  <1>3. /\ log' \in Seq(DbState) /\ written' = 1 /\ Len(log') = 1
        /\ job'.at = "down" /\ MemoryTypeOK' /\ nCurrentBlockFile' \in File /\ job' \in Job
    BY <1>1, <1>2, CrashForgets
  <1> QED  BY <1>1, <1>3 DEF TypeInv, DiskTypeOK, JobTypeOK

LEMMA TypePowerFailure ==
    ASSUME TypeInv, PowerFailure
    PROVE  TypeInv'
  <1>1. /\ Forgets /\ RecoversFrom(1..Len(log)) /\ fails' = fails /\ powerFails' = powerFails + 1
        /\ 1..Len(log) \in SUBSET (1..Len(log))
    BY DEF PowerFailure
  <1>2. /\ log' \in Seq(DbState) /\ written' = 1 /\ Len(log') = 1
        /\ job'.at = "down" /\ MemoryTypeOK' /\ nCurrentBlockFile' \in File /\ job' \in Job
    BY <1>1, CrashForgets
  <1>3. PICK kept \in SUBSET Changed, grown \in SUBSET File :
            file' = Torn(kept, grown) /\ synced' = Torn(kept, grown)
    BY DEF PowerFailure
  <1>4. Torn(kept, grown) \in [File -> Seq(Cell)]
    <2> SUFFICES ASSUME NEW f \in File
                 PROVE  [i \in 1..Len(IF f \in grown THEN file[f] ELSE synced[f]) |->
                            IF <<f, i>> \in kept THEN file[f][i] ELSE Old(f, i)] \in Seq(Cell)
      BY DEF Torn
    <2>1. file[f] \in Seq(Cell) /\ synced[f] \in Seq(Cell)
      BY DEF TypeInv, DiskTypeOK
    <2>2. PICK n \in Nat : n = Len(IF f \in grown THEN file[f] ELSE synced[f])
      BY <2>1
    <2>3. ASSUME NEW i \in 1..n
          PROVE  (IF <<f, i>> \in kept THEN file[f][i] ELSE Old(f, i)) \in Cell
      <3>1. Old(f, i) \in Cell
        BY <2>1 DEF Old, Zero, Cell
      <3>2. <<f, i>> \in kept => i \in DOMAIN file[f]
        BY DEF Changed
      <3> QED  BY <2>1, <3>1, <3>2
    <2> QED  BY <2>2, <2>3
  <1> QED  BY <1>1, <1>2, <1>3, <1>4 DEF TypeInv, DiskTypeOK, JobTypeOK

(* What LoadBlockIndex leaves of the database and in memory: it may go back *)
(* to a block of the best chain that has a record.                          *)
LoadedAs(e) ==
    /\ blkindex' = e
    /\ log' = log \/ log' = Append(log, e)
    /\ e.blockindex = blkindex.blockindex /\ e.blkreserved = blkindex.blkreserved
    /\ e.hashBestChain = pindexBest' /\ pindexBest' \in Ancestors[blkindex.hashBestChain]

LEMMA LoadLeaves ==
    ASSUME TypeInv, LoadBlockIndex
    PROVE  /\ job.at = "down" /\ mapBlockIndex' = LoadedIndex(blkindex.blockindex)
           /\ job' \in {Idle, [at |-> "refused"]}
           /\ UNCHANGED <<file, synced, written, nCurrentBlockFile, faultVars>>
           /\ \E e \in DbState : LoadedAs(e)
  <1>1. PICK d \in DbState : d = blkindex
    BY LastState DEF TypeInv
  <1>2. PICK index \in Entries :
          /\ index = LoadedIndex(d.blockindex) /\ DOMAIN d.blockindex \subseteq DOMAIN index
          /\ \A b \in DOMAIN index : index[b].pprev # NoBlock =>
                index[b].pprev = hashPrevBlock[b] /\ hashPrevBlock[b] \in DOMAIN index
          /\ \A b \in DOMAIN index : b \notin DOMAIN d.blockindex => index[b].pos.nFile = 0
    BY LoadedIsIndex
  <1>3. PICK best \in Block : best = d.hashBestChain /\ best \in DOMAIN index
    BY <1>2 DEF DbState
  <1>4. best \in Ancestors[best] /\ Branch(index, best) \subseteq DOMAIN index
        /\ Branch(index, best) \subseteq Ancestors[best]
    <2>1. Branch(index, best) \subseteq DOMAIN index
      BY <1>2, <1>3, BranchInIndex
    <2>2. Branch(index, best) \subseteq Ancestors[best]
      BY DEF Branch
    <2> QED  BY <2>1, <2>2, Ancestry
  <1>5. /\ job.at = "down" /\ mapBlockIndex' = index /\ job' \in {Idle, [at |-> "refused"]}
        /\ UNCHANGED <<file, synced, written, nCurrentBlockFile, faultVars>>
    BY <1>1, <1>2 DEF LoadBlockIndex, TxnCommit
  <1>6. \/ log' = log /\ pindexBest' = best
        \/ \E b \in Branch(index, best) :
              /\ index[b].pprev # NoBlock /\ ReadHeader(file, index[index[b].pprev].pos, index[b].pprev)
              /\ log' = Append(log, [d EXCEPT !.hashBestChain = index[b].pprev])
              /\ pindexBest' = index[b].pprev
    BY <1>1, <1>2, <1>3 DEF LoadBlockIndex, TxnCommit
  <1>7. CASE log' = log /\ pindexBest' = best
    <2>1. blkindex' = d
      BY <1>1, <1>7 DEF blkindex
    <2>2. LoadedAs(d)
      BY <1>1, <1>3, <1>4, <1>7, <2>1 DEF LoadedAs
    <2> QED  BY <1>1, <1>2, <1>5, <2>2
  <1>8. ASSUME NEW b \in Branch(index, best), index[b].pprev # NoBlock,
               ReadHeader(file, index[index[b].pprev].pos, index[b].pprev),
               log' = Append(log, [d EXCEPT !.hashBestChain = index[b].pprev]),
               pindexBest' = index[b].pprev
        PROVE  \E e \in DbState : LoadedAs(e)
    <2>1. PICK p \in DOMAIN index : p = index[b].pprev /\ p = hashPrevBlock[b]
      BY <1>2, <1>4, <1>8
    <2>2. p \in DOMAIN d.blockindex
      <3>1. index[p].pos.nFile \in File
        BY <1>8, <2>1 DEF ReadHeader
      <3>2. index[p].pos.nFile # 0
        BY <3>1 DEF File
      <3> QED  BY <1>2, <3>2
    <2>3. PICK e \in DbState : /\ e = [d EXCEPT !.hashBestChain = p] /\ e.hashBestChain = p
                               /\ e.blockindex = d.blockindex /\ e.blkreserved = d.blkreserved
      BY <2>2, BestWritten
    <2>4. /\ Len(log') = Len(log) + 1 /\ log'[Len(log) + 1] = e
      BY <1>8, <2>1, <2>3, LogAppend DEF TypeInv
    <2>5. blkindex' = e
      BY <2>4 DEF blkindex, Last
    <2>6. p \in Ancestors[best]
      <3>1. b \in Block /\ b \in Ancestors[best] /\ hashPrevBlock[b] # NoBlock
        BY <1>3, <1>4, <1>8, <2>1, Ancestry
      <3>2. p \in Block /\ p \in Ancestors[p] /\ Ancestors[b] = {b} \cup Ancestors[p]
        BY <2>1, <3>1, Ancestry
      <3> QED  BY <3>1, <3>2, Ancestry
    <2>7. LoadedAs(e)
      BY <1>1, <1>3, <1>8, <2>1, <2>3, <2>5, <2>6 DEF LoadedAs
    <2> QED  BY <2>7
  <1> QED  BY <1>1, <1>2, <1>5, <1>6, <1>7, <1>8

LEMMA TypeLoad ==
    ASSUME TypeInv, LoadBlockIndex
    PROVE  TypeInv'
  <1>1. /\ job.at = "down" /\ mapBlockIndex' = LoadedIndex(blkindex.blockindex)
        /\ job' \in {Idle, [at |-> "refused"]}
        /\ UNCHANGED <<file, synced, written, nCurrentBlockFile, faultVars>>
    BY LoadLeaves
  <1>2. PICK d \in DbState : d = blkindex
    BY LastState DEF TypeInv
  <1>3. PICK index \in Entries :
          /\ index = LoadedIndex(d.blockindex) /\ DOMAIN d.blockindex \subseteq DOMAIN index
          /\ \A b \in DOMAIN index : index[b].pprev # NoBlock =>
                index[b].pprev = hashPrevBlock[b] /\ hashPrevBlock[b] \in DOMAIN index
    BY LoadedIsIndex
  <1>4. PICK e \in DbState : LoadedAs(e)
    BY LoadLeaves
  <1>5. pindexBest' \in DOMAIN index
    BY <1>2, <1>3, <1>4 DEF DbState, LoadedAs
  <1>6. job' \in Job /\ job'.at \in {"idle", "refused"}
    BY <1>1 DEF Idle, Job
  <1>7. MemoryTypeOK'
    BY <1>1, <1>2, <1>3, <1>5, <1>6 DEF MemoryTypeOK, Storing
  <1>8. JobTypeOK'
    BY <1>1, <1>6 DEF TypeInv, JobTypeOK, faultVars
  <1>9. DiskTypeOK'
    <2>1. log' = log \/ log' = Append(log, e)
      BY <1>4 DEF LoadedAs
    <2>2. CASE log' = log
      BY <1>1, <2>2 DEF TypeInv, DiskTypeOK
    <2>3. CASE log' = Append(log, e)
      BY <1>1, <2>3, LogAppend, LastState DEF TypeInv, DiskTypeOK
    <2> QED  BY <2>1, <2>2, <2>3
  <1> QED  BY <1>7, <1>8, <1>9 DEF TypeInv

(* After a checkpoint the last state of the database is the only one. *)
LEMMA CheckpointKeeps ==
    ASSUME TypeInv, Checkpoint
    PROVE  /\ log' = <<blkindex>> /\ written' = 1 /\ log' \in Seq(DbState) /\ Len(log') = 1
           /\ blkindex' = blkindex
           /\ UNCHANGED <<file, synced, memoryVars, job, fails, kills, powerFails, torn>>
  <1>1. log' = <<blkindex>> /\ written' = 1 /\ UNCHANGED <<file, synced, memoryVars, job, faultVars>>
    BY DEF Checkpoint
  <1>2. PICK d \in DbState : d = blkindex
    BY LastState DEF TypeInv
  <1>3. log' \in Seq(DbState) /\ Len(log') = 1 /\ log'[1] = d
    BY <1>1, <1>2, LogOne
  <1>4. blkindex' = d
    BY <1>3 DEF blkindex, Last
  <1> QED  BY <1>1, <1>2, <1>3, <1>4 DEF faultVars

LEMMA TypeCheckpoint ==
    ASSUME TypeInv, Checkpoint
    PROVE  TypeInv'
  <1>1. /\ log' \in Seq(DbState) /\ Len(log') = 1 /\ written' = 1 /\ blkindex' = blkindex
        /\ UNCHANGED <<file, synced, memoryVars, job, fails, kills, powerFails, torn>>
    BY CheckpointKeeps
  <1>2. DiskTypeOK'
    BY <1>1 DEF TypeInv, DiskTypeOK
  <1>3. JobTypeOK'
    BY <1>1 DEF TypeInv, JobTypeOK, memoryVars
  <1>4. MemoryTypeOK'
    BY <1>1 DEF TypeInv, MemoryTypeOK, memoryVars
  <1> QED  BY <1>2, <1>3, <1>4 DEF TypeInv

LEMMA InitState ==
    ASSUME FileInit
    PROVE  /\ TypeInv /\ job = Idle /\ log = <<blkindex>> /\ written = 1
           /\ DOMAIN blkindex.blockindex = {Genesis} /\ blkindex.hashBestChain = Genesis
           /\ blkindex.blockindex[Genesis] = [pos |-> GenesisPos, nHeight |-> 0]
           /\ blkindex.blkreserved = [f \in File |->
                  IF f = 1 THEN BLOCKFILE_CHUNK_SIZE - Size[Genesis] ELSE 0]
           /\ DOMAIN mapBlockIndex = {Genesis}
           /\ mapBlockIndex[Genesis] = [pprev |-> NoBlock, pos |-> GenesisPos,
                                        nHeight |-> 0, bnChainWork |-> 1]
  <1> DEFINE rec == [b \in {Genesis} |-> [pos |-> GenesisPos, nHeight |-> 0]]
             left == [f \in File |-> IF f = 1 THEN BLOCKFILE_CHUNK_SIZE - Size[Genesis] ELSE 0]
             d == [blockindex |-> rec, hashBestChain |-> Genesis, blkreserved |-> left]
  <1>1. Genesis \in Block /\ GenesisPos \in Pos /\ 1 \in File /\ Size[Genesis] \in Nat
        /\ BLOCKFILE_CHUNK_SIZE \in Nat /\ Size[Genesis] <= BLOCKFILE_CHUNK_SIZE
    BY FileAssumption DEF GenesisPos, Pos, File
  <1>2. rec \in Records
    <2>1. [pos |-> GenesisPos, nHeight |-> 0] \in Record
      BY <1>1 DEF Record
    <2> QED  BY <1>1, <2>1, RecordsIff
  <1>3. left \in [File -> Nat]
    BY <1>1
  <1>4. DOMAIN rec = {Genesis} /\ rec[Genesis] = [pos |-> GenesisPos, nHeight |-> 0]
    OBVIOUS
  <1>5. log = <<d>>
    BY DEF FileInit
  <1> HIDE DEF rec, left
  <1>6. d \in DbState
    BY <1>1, <1>2, <1>3, <1>4 DEF DbState
  <1>7. d.blockindex = rec /\ d.hashBestChain = Genesis /\ d.blkreserved = left
    OBVIOUS
  <1> HIDE DEF d
  <1>8. log \in Seq(DbState) /\ Len(log) = 1 /\ blkindex = d
    BY <1>5, <1>6, LogOne DEF blkindex, Last
  <1>9. file \in [File -> Seq(Cell)] /\ synced \in [File -> Seq(Cell)]
    <2> DEFINE g == [i \in 1..BLOCKFILE_CHUNK_SIZE |->
                        IF i <= Size[Genesis] THEN <<Genesis, i>> ELSE Zero]
    <2>1. g \in Seq(Cell)
      <3>1. Zero \in Cell /\ \A i \in 1..BLOCKFILE_CHUNK_SIZE : <<Genesis, i>> \in Cell
        BY <1>1 DEF Zero, Cell
      <3> QED  BY <1>1, <3>1
    <2>2. file = [f \in File |-> IF f = 1 THEN g ELSE <<>>] /\ synced = file
      BY DEF FileInit
    <2> HIDE DEF g
    <2>3. <<>> \in Seq(Cell)
      OBVIOUS
    <2> QED  BY <2>1, <2>2, <2>3
  <1>10. /\ DOMAIN mapBlockIndex = {Genesis} /\ mapBlockIndex = [b \in DOMAIN mapBlockIndex |-> mapBlockIndex[b]]
         /\ mapBlockIndex[Genesis] = [pprev |-> NoBlock, pos |-> GenesisPos, nHeight |-> 0, bnChainWork |-> 1]
         /\ pindexBest = Genesis /\ nCurrentBlockFile = 1 /\ job = Idle
         /\ fails = 0 /\ powerFails = 0 /\ written = 1
    BY DEF FileInit
  <1>11. mapBlockIndex[Genesis] \in Entry /\ mapBlockIndex[Genesis].pprev = NoBlock
    BY <1>1, <1>10 DEF Entry
  <1>12. mapBlockIndex \in Entries
    BY <1>1, <1>10, <1>11, EntriesIff
  <1>13. MemoryTypeOK
    BY <1>10, <1>11, <1>12 DEF MemoryTypeOK, Idle, Storing
  <1>14. JobTypeOK
    BY <1>1, <1>10 DEF JobTypeOK, Idle, Job
  <1>15. DiskTypeOK
    BY <1>8, <1>9, <1>10 DEF DiskTypeOK
  <1> QED  BY <1>4, <1>5, <1>7, <1>8, <1>10, <1>13, <1>14, <1>15 DEF TypeInv, left

LEMMA TypeInvNext == TypeInv /\ [FileNext]_fileVars => TypeInv'
  <1> SUFFICES ASSUME TypeInv, [FileNext]_fileVars PROVE TypeInv'
    OBVIOUS
  <1>1. CASE UNCHANGED fileVars
    BY <1>1 DEF TypeInv, DiskTypeOK, JobTypeOK, MemoryTypeOK, blkindex, fileVars, diskVars,
                memoryVars, faultVars
  <1> QED  BY <1>1, TypeAccept, TypeUseReserved, TypeExtend, TypeNextFile, TypeWriteReserved,
              TypeWriteToDisk, TypeFlush, TypeAddToBlockIndex, TypeSetBestChain,
              TypeCheckpoint, TypeKill, TypePowerFailure, TypeLoad DEF FileNext

LEMMA TypeInvariant == FileSpec => []TypeInv
  BY InitState, TypeInvNext, PTL DEF FileSpec

-----------------------------------------------------------------------------
(* The tree of blocks.                                                      *)

RecordTree(rec) ==
    \A b \in DOMAIN rec :
        IF b = Genesis THEN rec[b].nHeight = 0
        ELSE /\ hashPrevBlock[b] \in DOMAIN rec
             /\ rec[b].nHeight = rec[hashPrevBlock[b]].nHeight + 1

IndexTree ==
    \A b \in DOMAIN mapBlockIndex :
        IF b = Genesis THEN mapBlockIndex[b].nHeight = 0
        ELSE LET p == hashPrevBlock[b]
             IN  /\ mapBlockIndex[b].pprev = p /\ p \in DOMAIN mapBlockIndex
                 /\ mapBlockIndex[b].nHeight = mapBlockIndex[p].nHeight + 1
                 /\ mapBlockIndex[b].bnChainWork = mapBlockIndex[p].bnChainWork + 1

(* Every state of the database is a tree, and the last one has what is in   *)
(* memory.                                                                  *)
TreeInv ==
    fails = 0 =>
        /\ \A i \in 1..Len(log) : RecordTree(log[i].blockindex)
        /\ job.at # "down" =>
              /\ IndexTree /\ DOMAIN mapBlockIndex = DOMAIN blkindex.blockindex
              /\ \A b \in DOMAIN mapBlockIndex :
                    mapBlockIndex[b].nHeight = blkindex.blockindex[b].nHeight

(* bnChainWork, as LoadBlockIndex calculates it. *)
LEMMA WorkOfRecord ==
    ASSUME NEW rec, NEW b \in Block, b \in DOMAIN rec, hashPrevBlock[b] # NoBlock
    PROVE  Cardinality(Connected(rec, b)) = Cardinality(Connected(rec, hashPrevBlock[b])) + 1
  <1>1. PICK p \in Block : p = hashPrevBlock[b]
    BY FileAssumption
  <1>2. Ancestors[b] = {b} \cup Ancestors[p] /\ b \notin Ancestors[p]
    BY <1>1, Ancestry
  <1>3. ASSUME NEW a, a # b PROVE a \in Connected(rec, b) <=> a \in Connected(rec, p)
    BY <1>2, <1>3 DEF Connected
  <1>4. b \in Connected(rec, b) /\ b \notin Connected(rec, p)
    <2>1. b \in Ancestors[b] /\ \A c \in Ancestors[b] : b \in Ancestors[c] => c = b
      BY Ancestry
    <2> QED  BY <1>2, <2>1 DEF Connected
  <1>5. Connected(rec, b) = Connected(rec, p) \cup {b}
    BY <1>3, <1>4
  <1>6. IsFiniteSet(Connected(rec, p))
    <2>1. Connected(rec, p) \subseteq Ancestors[p] /\ IsFiniteSet(Ancestors[p])
      BY Ancestry DEF Connected
    <2> QED  BY <2>1, FS_Subset
  <1> QED  BY <1>1, <1>4, <1>5, <1>6, FS_AddElement

(* A step that leaves the records and the index as they are. *)
LEMMA TreeSame ==
    ASSUME TypeInv, TreeInv, job.at # "down", mapBlockIndex' = mapBlockIndex,
           fails' = 0 => fails = 0,
           log' = log \/ \E e \in DbState : /\ log' = Append(log, e)
                                            /\ e.blockindex = blkindex.blockindex
    PROVE  TreeInv'
  <1> SUFFICES ASSUME fails' = 0
               PROVE  /\ \A i \in 1..Len(log') : RecordTree(log'[i].blockindex)
                      /\ IndexTree' /\ DOMAIN mapBlockIndex' = DOMAIN (blkindex').blockindex
                      /\ \A b \in DOMAIN mapBlockIndex' :
                            mapBlockIndex'[b].nHeight = (blkindex').blockindex[b].nHeight
    BY DEF TreeInv
  <1>1. /\ \A i \in 1..Len(log) : RecordTree(log[i].blockindex)
        /\ IndexTree /\ DOMAIN mapBlockIndex = DOMAIN blkindex.blockindex
        /\ \A b \in DOMAIN mapBlockIndex : mapBlockIndex[b].nHeight = blkindex.blockindex[b].nHeight
    BY DEF TreeInv
  <1>2. IndexTree'
    BY <1>1 DEF IndexTree
  <1>3. CASE log' = log
    <2>1. blkindex' = blkindex
      BY <1>3 DEF blkindex
    <2> QED  BY <1>1, <1>2, <1>3, <2>1
  <1>4. ASSUME NEW e \in DbState, log' = Append(log, e), e.blockindex = blkindex.blockindex
        PROVE  /\ \A i \in 1..Len(log') : RecordTree(log'[i].blockindex)
               /\ (blkindex').blockindex = blkindex.blockindex
    <2>1. /\ Len(log') = Len(log) + 1 /\ log'[Len(log) + 1] = e /\ Len(log) \in Nat
          /\ \A i \in 1..Len(log) : log'[i] = log[i]
      BY <1>4, LogAppend, LastState DEF TypeInv
    <2>2. blkindex' = e
      BY <2>1 DEF blkindex, Last
    <2>3. RecordTree(e.blockindex)
      BY <1>1, <1>4, LastState DEF TypeInv
    <2>4. ASSUME NEW i \in 1..Len(log') PROVE RecordTree(log'[i].blockindex)
      <3>1. i \in 1..Len(log) \/ i = Len(log) + 1
        BY <2>1
      <3> QED  BY <1>1, <2>1, <2>3, <3>1
    <2> QED  BY <1>4, <2>2, <2>4
  <1> QED  BY <1>1, <1>2, <1>3, <1>4

LEMMA TreeAdd ==
    ASSUME TypeInv, TreeInv, AddToBlockIndex
    PROVE  TreeInv'
  <1>1. /\ job.at = "index" /\ mapBlockIndex' = IndexWith(job.b, job.pos) /\ job.at # "down"
    BY DEF AddToBlockIndex
  <1> SUFFICES ASSUME fails' = 0 PROVE TreeInv'
    BY DEF TreeInv
  <1>2. ~Fails("index")
    BY DEF Fails, TypeInv, JobTypeOK
  <1>3. fails = 0 /\ TxnCommit(WriteBlockIndex(blkindex, IndexWith(job.b, job.pos), {job.b}))
    BY <1>2 DEF AddToBlockIndex, faultVars
  <1>4. PICK b \in Block, p \in DOMAIN mapBlockIndex :
            b = job.b /\ b \notin DOMAIN mapBlockIndex /\ p = hashPrevBlock[b]
    BY <1>1 DEF TypeInv, JobTypeOK, MemoryTypeOK, Job, Storing
  <1>5. PICK index \in Entries :
            /\ index = IndexWith(job.b, job.pos)
            /\ DOMAIN index = DOMAIN mapBlockIndex \cup {b}
            /\ \A x \in DOMAIN mapBlockIndex : index[x] = mapBlockIndex[x]
            /\ index[b].pprev = p /\ index[b].nHeight = mapBlockIndex[p].nHeight + 1
            /\ index[b].bnChainWork = mapBlockIndex[p].bnChainWork + 1 /\ p # NoBlock
    BY <1>1, <1>4, NewIndexIsIndex
  <1>6. PICK d0 \in DbState : d0 = blkindex
    BY LastState DEF TypeInv
  <1>7. PICK d \in DbState :
            /\ d = WriteBlockIndex(d0, index, {b})
            /\ DOMAIN d.blockindex = DOMAIN d0.blockindex \cup {b}
            /\ d.blockindex[b].nHeight = index[b].nHeight
            /\ \A x \in DOMAIN d0.blockindex \ {b} : d.blockindex[x] = d0.blockindex[x]
    <2>1. {b} \in SUBSET DOMAIN index
      BY <1>5
    <2> QED  BY <2>1, RecordsWritten
  <1>8. log' = Append(log, d)
    BY <1>3, <1>4, <1>5, <1>6, <1>7 DEF TxnCommit
  <1>9. /\ Len(log') = Len(log) + 1 /\ log'[Len(log) + 1] = d /\ Len(log) \in Nat
        /\ \A i \in 1..Len(log) : log'[i] = log[i]
    BY <1>8, LogAppend, LastState DEF TypeInv
  <1>10. blkindex' = d
    BY <1>9 DEF blkindex, Last
  <1>11. /\ \A i \in 1..Len(log) : RecordTree(log[i].blockindex)
         /\ RecordTree(d0.blockindex)
         /\ IndexTree /\ DOMAIN mapBlockIndex = DOMAIN d0.blockindex
         /\ \A x \in DOMAIN mapBlockIndex : mapBlockIndex[x].nHeight = d0.blockindex[x].nHeight
    BY <1>1, <1>3, <1>6, LastState DEF TreeInv, TypeInv
  <1>12. b # Genesis
    BY <1>4, <1>5, FileAssumption
  <1>13. IndexTree'
    <2>1. mapBlockIndex' = index
      BY <1>1, <1>5
    <2> QED  BY <1>4, <1>5, <1>11, <1>12, <2>1 DEF IndexTree
  <1>14. \A x \in DOMAIN index : index[x].nHeight = d.blockindex[x].nHeight
    BY <1>4, <1>5, <1>7, <1>11, ZenonT(40)
  <1>15. RecordTree(d.blockindex)
    <2>1. ASSUME NEW x \in DOMAIN d.blockindex, x # Genesis
          PROVE  /\ hashPrevBlock[x] \in DOMAIN d.blockindex
                 /\ d.blockindex[x].nHeight = d.blockindex[hashPrevBlock[x]].nHeight + 1
      <3>1. CASE x = b
        <4>1. p \in DOMAIN d0.blockindex /\ p # b /\ p \in DOMAIN d.blockindex
          BY <1>4, <1>7, <1>11
        <4>2. d.blockindex[p] = d0.blockindex[p] /\ mapBlockIndex[p].nHeight = d0.blockindex[p].nHeight
          BY <1>7, <1>11, <4>1
        <4>3. d.blockindex[b].nHeight = mapBlockIndex[p].nHeight + 1
          BY <1>5, <1>7
        <4>4. d.blockindex[b].nHeight = d.blockindex[p].nHeight + 1
          BY <4>2, <4>3
        <4> QED  BY <1>4, <3>1, <4>1, <4>4
      <3>2. CASE x # b
        <4>1. x \in DOMAIN d0.blockindex /\ hashPrevBlock[x] \in DOMAIN d0.blockindex
              /\ d0.blockindex[x].nHeight = d0.blockindex[hashPrevBlock[x]].nHeight + 1
          BY <1>7, <1>11, <2>1, <3>2 DEF RecordTree
        <4>2. hashPrevBlock[x] # b
          BY <1>4, <1>11, <4>1
        <4> QED  BY <1>7, <3>2, <4>1, <4>2
      <3> QED  BY <3>1, <3>2
    <2>2. ASSUME Genesis \in DOMAIN d.blockindex PROVE d.blockindex[Genesis].nHeight = 0
      BY <1>7, <1>11, <1>12, <2>2 DEF RecordTree
    <2> QED  BY <2>1, <2>2 DEF RecordTree
  <1>16. ASSUME NEW i \in 1..Len(log') PROVE RecordTree(log'[i].blockindex)
    <2>1. i \in 1..Len(log) \/ i = Len(log) + 1
      BY <1>9
    <2> QED  BY <1>9, <1>11, <1>15, <2>1
  <1>17. DOMAIN mapBlockIndex' = DOMAIN (blkindex').blockindex
         /\ \A x \in DOMAIN mapBlockIndex' : mapBlockIndex'[x].nHeight = (blkindex').blockindex[x].nHeight
    BY <1>1, <1>5, <1>7, <1>10, <1>11, <1>14
  <1> QED  BY <1>13, <1>16, <1>17 DEF TreeInv

LEMMA TreeBest ==
    ASSUME TypeInv, TreeInv, SetBestChain
    PROVE  TreeInv'
  <1>1. /\ job.at = "best" /\ mapBlockIndex' = mapBlockIndex /\ fails' \in {fails, fails + 1}
        /\ fails \in Nat /\ mapBlockIndex \in Entries
    BY BestChainMoves DEF TypeInv, JobTypeOK, MemoryTypeOK
  <1>2. fails' = 0 => fails = 0
    BY <1>1
  <1>3. CASE log' = log
    BY <1>1, <1>2, <1>3, TreeSame
  <1>4. CASE log' # log
    <2> SUFFICES ASSUME fails' = 0 PROVE TreeInv'
      BY DEF TreeInv
    <2>1. PICK blocks \in SUBSET DOMAIN mapBlockIndex, d \in DbState :
              /\ d = WriteBlockIndex(blkindex, mapBlockIndex, blocks)
              /\ [d EXCEPT !.hashBestChain = job.b] \in DbState
              /\ log' = Append(log, [d EXCEPT !.hashBestChain = job.b])
      BY <1>4, BestChainMoves
    <2>2. PICK e \in DbState : e = [d EXCEPT !.hashBestChain = job.b]
      BY <2>1
    <2>3. e.blockindex = d.blockindex
      BY <2>2 DEF DbState
    <2>4. PICK d0 \in DbState : d0 = blkindex
      BY LastState DEF TypeInv
    <2>5. /\ DOMAIN d.blockindex = DOMAIN d0.blockindex \cup blocks
          /\ \A b \in blocks : d.blockindex[b].nHeight = mapBlockIndex[b].nHeight
          /\ \A b \in DOMAIN d0.blockindex \ blocks : d.blockindex[b] = d0.blockindex[b]
      BY <1>1, <2>1, <2>4, RecordsWritten
    <2>6. /\ \A i \in 1..Len(log) : RecordTree(log[i].blockindex)
          /\ RecordTree(d0.blockindex)
          /\ IndexTree /\ DOMAIN mapBlockIndex = DOMAIN d0.blockindex
          /\ \A x \in DOMAIN mapBlockIndex : mapBlockIndex[x].nHeight = d0.blockindex[x].nHeight
      BY <1>1, <1>2, <2>4, LastState DEF TreeInv, TypeInv
    <2>7. DOMAIN e.blockindex = DOMAIN d0.blockindex
          /\ \A x \in DOMAIN d0.blockindex : e.blockindex[x].nHeight = d0.blockindex[x].nHeight
      BY <2>3, <2>5, <2>6
    <2>8. RecordTree(e.blockindex)
      BY <2>6, <2>7 DEF RecordTree
    <2>9. /\ Len(log') = Len(log) + 1 /\ log'[Len(log) + 1] = e /\ Len(log) \in Nat
          /\ \A i \in 1..Len(log) : log'[i] = log[i]
      BY <2>1, <2>2, LogAppend, LastState DEF TypeInv
    <2>10. blkindex' = e
      BY <2>9 DEF blkindex, Last
    <2>11. ASSUME NEW i \in 1..Len(log') PROVE RecordTree(log'[i].blockindex)
      <3>1. i \in 1..Len(log) \/ i = Len(log) + 1
        BY <2>9
      <3> QED  BY <2>6, <2>8, <2>9, <3>1
    <2>12. IndexTree'
      BY <1>1, <2>6 DEF IndexTree
    <2>13. DOMAIN mapBlockIndex' = DOMAIN (blkindex').blockindex
           /\ \A x \in DOMAIN mapBlockIndex' : mapBlockIndex'[x].nHeight = (blkindex').blockindex[x].nHeight
      BY <1>1, <2>6, <2>7, <2>10
    <2> QED  BY <2>11, <2>12, <2>13 DEF TreeInv
  <1> QED  BY <1>3, <1>4

LEMMA TreeLoad ==
    ASSUME TypeInv, TreeInv, LoadBlockIndex
    PROVE  TreeInv'
  <1>1. /\ mapBlockIndex' = LoadedIndex(blkindex.blockindex) /\ fails' = fails
    BY LoadLeaves DEF faultVars
  <1> SUFFICES ASSUME fails = 0 PROVE TreeInv'
    BY <1>1 DEF TreeInv
  <1>2. PICK d \in DbState : d = blkindex
    BY LastState DEF TypeInv
  <1>3. PICK e \in DbState : LoadedAs(e)
    BY LoadLeaves
  <1>4. RecordTree(d.blockindex) /\ \A i \in 1..Len(log) : RecordTree(log[i].blockindex)
    BY <1>2, LastState DEF TreeInv, TypeInv
  <1>a. /\ blkindex' = e /\ e.blockindex = d.blockindex
        /\ \A i \in 1..Len(log') : RecordTree(log'[i].blockindex)
    <2>1. CASE log' = log
      BY <1>2, <1>3, <1>4, <2>1 DEF LoadedAs
    <2>2. CASE log' = Append(log, e)
      <3>1. /\ Len(log') = Len(log) + 1 /\ log'[Len(log) + 1] = e /\ Len(log) \in Nat
            /\ \A i \in 1..Len(log) : log'[i] = log[i]
        BY <2>2, LogAppend, LastState DEF TypeInv
      <3>2. blkindex' = e /\ e.blockindex = d.blockindex
        BY <1>2, <1>3 DEF LoadedAs
      <3>3. ASSUME NEW i \in 1..Len(log') PROVE RecordTree(log'[i].blockindex)
        <4>1. i \in 1..Len(log) \/ i = Len(log) + 1
          BY <3>1
        <4> QED  BY <1>4, <3>1, <3>2, <4>1
      <3> QED  BY <3>2, <3>3
    <2> QED  BY <1>3, <2>1, <2>2 DEF LoadedAs
  <1>5. PICK index \in Entries :
            /\ index = LoadedIndex(d.blockindex) /\ DOMAIN d.blockindex \subseteq DOMAIN index
            /\ \A b \in DOMAIN d.blockindex :
                  /\ index[b].pprev = hashPrevBlock[b] /\ index[b].nHeight = d.blockindex[b].nHeight
                  /\ index[b].bnChainWork = Cardinality(Connected(d.blockindex, b))
    BY LoadedIsIndex
  <1>6. DOMAIN d.blockindex \subseteq Block
    BY RecordsIff DEF DbState
  <1>7. DOMAIN index = DOMAIN d.blockindex
    <2>1. DOMAIN index = (DOMAIN d.blockindex \cup {hashPrevBlock[b] : b \in DOMAIN d.blockindex}) \ {NoBlock}
      BY <1>5 DEF LoadedIndex
    <2>2. \A b \in DOMAIN d.blockindex : hashPrevBlock[b] # NoBlock => hashPrevBlock[b] \in DOMAIN d.blockindex
      BY <1>4, FileAssumption DEF RecordTree
    <2> QED  BY <1>5, <2>1, <2>2
  <1>8. ASSUME NEW b \in DOMAIN d.blockindex, b # Genesis
        PROVE  /\ index[b].pprev = hashPrevBlock[b] /\ hashPrevBlock[b] \in DOMAIN d.blockindex
               /\ index[b].nHeight = index[hashPrevBlock[b]].nHeight + 1
               /\ index[b].bnChainWork = index[hashPrevBlock[b]].bnChainWork + 1
    <2>1. PICK p \in DOMAIN d.blockindex : p = hashPrevBlock[b]
      BY <1>4, <1>8 DEF RecordTree
    <2>2. b \in Block /\ p # NoBlock
      BY <1>6, FileAssumption
    <2>3. Cardinality(Connected(d.blockindex, b)) = Cardinality(Connected(d.blockindex, p)) + 1
      BY <2>1, <2>2, WorkOfRecord
    <2>4. index[b].bnChainWork = index[p].bnChainWork + 1
      BY <1>5, <2>3
    <2>5. index[b].nHeight = index[p].nHeight + 1
      BY <1>4, <1>5, <1>8, <2>1 DEF RecordTree
    <2> QED  BY <1>5, <2>1, <2>4, <2>5
  <1>9. Genesis \in DOMAIN d.blockindex => index[Genesis].nHeight = 0
    BY <1>4, <1>5 DEF RecordTree
  <1>10. IndexTree'
    BY <1>1, <1>2, <1>5, <1>7, <1>8, <1>9 DEF IndexTree
  <1> QED  BY <1>a, <1>1, <1>2, <1>5, <1>7, <1>10 DEF TreeInv

LEMMA TreeInvNext == TypeInv /\ TreeInv /\ [FileNext]_fileVars => TreeInv'
  <1> SUFFICES ASSUME TypeInv, TreeInv, [FileNext]_fileVars PROVE TreeInv'
    OBVIOUS
  <1>1. CASE UNCHANGED fileVars
    BY <1>1 DEF TreeInv, IndexTree, blkindex, fileVars, diskVars, memoryVars, faultVars
  <1>2. CASE (\E b \in Block : AcceptBlock(b)) \/ UseReserved \/ NextFile
    <2>1. job.at # "down" /\ mapBlockIndex' = mapBlockIndex /\ log' = log /\ fails' = fails
      BY <1>2 DEF AcceptBlock, UseReserved, NextFile, Idle, memoryVars, diskVars, faultVars
    <2> QED  BY <2>1, TreeSame
  <1>3. CASE Extend \/ WriteToDisk \/ FlushBlockFile
    <2>1. /\ job.at # "down" /\ mapBlockIndex' = mapBlockIndex /\ log' = log
          /\ fails' = fails \/ fails' = fails + 1
      BY <1>3 DEF Extend, ExtendBy, WriteToDisk, FlushBlockFile, Fails, memoryVars, faultVars
    <2>2. fails' = 0 => fails = 0
      BY <2>1 DEF TypeInv, JobTypeOK
    <2> QED  BY <2>1, <2>2, TreeSame
  <1>4. CASE WriteBlockFileReserved
    <2>1. /\ job.at = "reserve" /\ mapBlockIndex' = mapBlockIndex
          /\ fails' = fails \/ fails' = fails + 1
          /\ \/ log' = log
             \/ log' = Append(log, [blkindex EXCEPT !.blkreserved[job.pos.nFile] = job.reserved])
      BY <1>4 DEF WriteBlockFileReserved, Write, Fails, memoryVars, faultVars
    <2>2. fails' = 0 => fails = 0
      BY <2>1 DEF TypeInv, JobTypeOK
    <2>3. job.reserved \in Nat /\ job.pos.nFile \in File
      BY <2>1 DEF TypeInv, JobTypeOK, Job
    <2>4. PICK e : e = [blkindex EXCEPT !.blkreserved[job.pos.nFile] = job.reserved]
      OBVIOUS
    <2>5. e \in DbState /\ e.blockindex = blkindex.blockindex
      BY <2>3, <2>4, LastState, ReservedWritten DEF TypeInv
    <2> QED  BY <2>1, <2>2, <2>4, <2>5, TreeSame
  <1>5. CASE Kill \/ AssertFails \/ PowerFailure
    <2>1. /\ Forgets /\ fails' = fails
          /\ RecoversFrom(written..Len(log)) \/ RecoversFrom(1..Len(log))
      BY <1>5 DEF Kill, AssertFails, PowerFailure, faultVars
    <2>2. written..Len(log) \in SUBSET (1..Len(log)) /\ 1..Len(log) \in SUBSET (1..Len(log))
      BY LastState DEF TypeInv
    <2>3. job'.at = "down" /\ \E i \in 1..Len(log) : log' = <<log[i]>> /\ log[i] \in DbState
      <3>1. CASE RecoversFrom(written..Len(log))
        BY <2>1, <2>2, <3>1, CrashForgets
      <3>2. CASE RecoversFrom(1..Len(log))
        BY <2>1, <2>2, <3>2, CrashForgets
      <3> QED  BY <2>1, <3>1, <3>2
    <2>4. PICK i \in 1..Len(log) : Len(log') = 1 /\ log'[1] = log[i]
      BY <2>3, LogOne
    <2> QED  BY <2>1, <2>3, <2>4 DEF TreeInv
  <1>6. CASE Checkpoint
    <2>1. /\ Len(log') = 1 /\ log'[1] = blkindex /\ blkindex' = blkindex
          /\ mapBlockIndex' = mapBlockIndex /\ job' = job /\ fails' = fails
      BY <1>6, CheckpointKeeps DEF memoryVars
    <2>2. fails = 0 => RecordTree(blkindex.blockindex)
      BY LastState DEF TreeInv, TypeInv
    <2> QED  BY <2>1, <2>2 DEF TreeInv, IndexTree
  <1> QED  BY <1>1, <1>2, <1>3, <1>4, <1>5, <1>6, TreeAdd, TreeBest, TreeLoad DEF FileNext

(* TreeRootedAtGenesis: AcceptBlock, AddToBlockIndex and LoadBlockIndex     *)
(* keep the index a tree with the heights and the work of the chains, after *)
(* any number of kills and power failures, as long as no call fails.        *)
THEOREM IndexIsTree == FileSpec => []TreeRootedAtGenesis
  <1>1. FileInit => TreeInv
    <2> SUFFICES ASSUME FileInit PROVE TreeInv
      OBVIOUS
    <2>1. /\ DOMAIN mapBlockIndex = {Genesis} /\ mapBlockIndex[Genesis].nHeight = 0
          /\ DOMAIN blkindex.blockindex = {Genesis} /\ blkindex.blockindex[Genesis].nHeight = 0
      BY InitState
    <2>2. Len(log) = 1 /\ log[1] = blkindex
      BY InitState, LastState, LogOne DEF TypeInv
    <2> QED  BY <2>1, <2>2 DEF TreeInv, IndexTree, RecordTree
  <1>2. TreeInv => TreeRootedAtGenesis
    BY DEF TreeInv, IndexTree, TreeRootedAtGenesis, Running
  <1> QED  BY <1>1, <1>2, TreeInvNext, TypeInvariant, PTL DEF FileSpec

-----------------------------------------------------------------------------
(* The places of the blocks, while only processes are killed.               *)

(* Where the next block of file f goes: the reserved cells are its end. *)
Bound(f) == Len(file[f]) - blkindex.blkreserved[f]

AtPlace == job.at \in {"reserve", "write"}

(* Up to here the cells of file f are not written any more. *)
Limit(f) == IF AtPlace /\ job.pos.nFile = f THEN job.pos.nBlockPos ELSE Bound(f)

(* The place of block b, and all of b in it unless its fflush failed. *)
Placed(pos, b) ==
    /\ pos.nFile \in File /\ pos.nBlockPos + Size[b] <= Limit(pos.nFile)
    /\ b \in torn \/ ReadFromDisk(file, pos, b)

(* b is in the index, and LoadBlockIndex has not made it up. *)
Real(b) == b \in DOMAIN mapBlockIndex /\ mapBlockIndex[b].pos.nFile # 0

(* The states of blkindex.dat that the node may come back to. *)
Recoverable == {log[i] : i \in written..Len(log)}

(* Every write of the reserved cells goes to the system at once. *)
ReservedOK ==
    /\ \A d \in Recoverable : d.blkreserved = blkindex.blkreserved
    /\ \A f \in File : blkindex.blkreserved[f] <= Len(file[f])

JobPlaced ==
    /\ job.at = "reserve" =>
          /\ job.pos.nBlockPos + Size[job.b] + job.reserved = Len(file[job.pos.nFile])
          /\ job.pos.nBlockPos <= Bound(job.pos.nFile)
    /\ job.at = "write" =>
          /\ job.pos.nBlockPos + Size[job.b] <= Bound(job.pos.nFile) /\ job.done < Size[job.b]
          /\ \A i \in 1..job.done : file[job.pos.nFile][job.pos.nBlockPos + i] = <<job.b, i>>
    /\ job.at \in {"flush", "index"} => Placed(job.pos, job.b)

RecordsPlaced ==
    \A d \in Recoverable : \A b \in DOMAIN d.blockindex : Placed(d.blockindex[b].pos, b)

IndexPlaced ==
    job.at # "down" => \A b \in DOMAIN mapBlockIndex :
        IF Real(b) THEN Placed(mapBlockIndex[b].pos, b) /\ mapBlockIndex[b].pprev = hashPrevBlock[b]
        ELSE mapBlockIndex[b].pprev = NoBlock

(* The best chain has records down to the genesis block, on disk and in     *)
(* memory: nothing of it is made up.                                        *)
BestRecorded ==
    \A d \in Recoverable : Ancestors[d.hashBestChain] \subseteq DOMAIN d.blockindex

BestReal ==
    /\ job.at # "down" => /\ pindexBest = blkindex.hashBestChain
                          /\ \A a \in Ancestors[pindexBest] : Real(a)
    /\ job.at = "best" => Real(job.b)

DiskInv == ReservedOK /\ JobPlaced /\ RecordsPlaced /\ BestRecorded
PlaceInv == powerFails = 0 => DiskInv /\ IndexPlaced /\ BestReal

(* A step that writes no cell below the limit, and does not lower it. *)
Grows ==
    /\ torn \subseteq torn'
    /\ \A f \in File :
        /\ Limit(f) <= Limit(f)'
        /\ \A k \in 1..Limit(f) : k \in DOMAIN file'[f] /\ file'[f][k] = file[f][k]

LEMMA Limits ==
    ASSUME TypeInv, ReservedOK, JobPlaced, NEW f \in File
    PROVE  /\ Len(file[f]) \in Nat /\ blkindex.blkreserved[f] \in Nat
           /\ Bound(f) \in Nat /\ Bound(f) <= Len(file[f])
           /\ Limit(f) \in Nat /\ Limit(f) <= Bound(f) /\ DOMAIN file[f] = 1..Len(file[f])
  <1>1. Len(file[f]) \in Nat /\ blkindex.blkreserved[f] \in Nat /\ DOMAIN file[f] = 1..Len(file[f])
    <2>1. blkindex.blkreserved \in [File -> Nat]
      BY LastState DEF TypeInv, DbState
    <2> QED  BY <2>1 DEF TypeInv, DiskTypeOK
  <1>2. Bound(f) \in Nat /\ Bound(f) <= Len(file[f])
    BY <1>1 DEF Bound, ReservedOK
  <1>3. CASE AtPlace /\ job.pos.nFile = f
    <2>1. job.pos.nBlockPos \in Nat /\ Size[job.b] \in Nat
      BY <1>3, FileAssumption DEF TypeInv, JobTypeOK, Job, AtPlace, Pos
    <2>2. job.pos.nBlockPos <= Bound(f)
      BY <1>2, <1>3, <2>1 DEF AtPlace, JobPlaced
    <2> QED  BY <1>1, <1>2, <1>3, <2>1, <2>2 DEF Limit
  <1>4. CASE ~(AtPlace /\ job.pos.nFile = f)
    BY <1>1, <1>2, <1>4 DEF Limit
  <1> QED  BY <1>3, <1>4

LEMMA PlacedKeeps ==
    ASSUME TypeInv, ReservedOK, JobPlaced, Grows, NEW pos \in Pos, NEW b \in Block, Placed(pos, b),
           \A f \in File : Limit(f)' \in Int
    PROVE  Placed(pos, b)'
  <1>1. PICK f \in File : f = pos.nFile
    BY DEF Placed
  <1>2. pos.nBlockPos \in Nat /\ Size[b] \in Nat /\ Limit(f) \in Nat /\ Limit(f)' \in Int
    BY Limits, FileAssumption DEF Pos
  <1>3. pos.nBlockPos + Size[b] <= Limit(f)'
    BY <1>1, <1>2 DEF Placed, Grows
  <1>4. ASSUME b \notin torn, NEW i \in 1..Size[b]
        PROVE  pos.nBlockPos + i \in DOMAIN file'[f] /\ file'[f][pos.nBlockPos + i] = <<b, i>>
    <2>1. pos.nBlockPos + i \in 1..Limit(f)
      BY <1>1, <1>2 DEF Placed
    <2>2. file[f][pos.nBlockPos + i] = <<b, i>>
      BY <1>1, <1>4 DEF Placed, ReadFromDisk
    <2> QED  BY <2>1, <2>2 DEF Grows
  <1>5. (pos.nBlockPos + Size[b] <= Limit(pos.nFile))'
    BY <1>1, <1>3
  <1>6. torn \subseteq torn'
    BY DEF Grows
  <1> QED  BY <1>1, <1>4, <1>5, <1>6 DEF Placed, ReadFromDisk

(* What a step does to the states the node may come back to. *)
LEMMA RecoverableStates ==
    ASSUME TypeInv
    PROVE  blkindex \in Recoverable /\ Recoverable \subseteq DbState
  BY LastState DEF TypeInv, Recoverable

LEMMA LogSame ==
    ASSUME UNCHANGED <<log, written>>
    PROVE  blkindex' = blkindex /\ Recoverable' = Recoverable
  BY DEF blkindex, Recoverable

LEMMA LogGrows ==
    ASSUME TypeInv, NEW e \in DbState, log' = Append(log, e), written' \in {written, Len(log) + 1}
    PROVE  /\ blkindex' = e /\ Recoverable' \subseteq Recoverable \cup {e}
           /\ written' = Len(log) + 1 => Recoverable' = {e}
  <1>1. Len(log) \in Nat /\ written \in 1..Len(log)
    BY DEF TypeInv, DiskTypeOK
  <1>2. /\ Len(log') = Len(log) + 1 /\ log'[Len(log) + 1] = e
        /\ \A i \in 1..Len(log) : log'[i] = log[i]
    BY LogAppend DEF TypeInv
  <1>3. blkindex' = e
    BY <1>2 DEF blkindex, Last
  <1>4. ASSUME NEW i \in written'..Len(log')
        PROVE  log'[i] \in Recoverable \cup {e} /\ (written' = Len(log) + 1 => log'[i] = e)
    <2>1. CASE i = Len(log) + 1
      BY <1>2, <2>1
    <2>2. CASE i # Len(log) + 1
      BY <1>1, <1>2, <2>2 DEF Recoverable
    <2> QED  BY <2>1, <2>2
  <1>5. written' = Len(log) + 1 => Len(log) + 1 \in written'..Len(log')
    BY <1>1, <1>2
  <1> QED  BY <1>2, <1>3, <1>4, <1>5 DEF Recoverable

LEMMA LogRecovers ==
    ASSUME TypeInv, RecoversFrom(written..Len(log))
    PROVE  blkindex' \in Recoverable /\ Recoverable' = {blkindex'}
  <1>1. PICK i \in written..Len(log) : log' = <<log[i]>> /\ written' = 1
    BY DEF RecoversFrom
  <1>2. log[i] \in DbState
    BY LastState DEF TypeInv
  <1>3. Len(log') = 1 /\ log'[1] = log[i]
    BY <1>1, <1>2, LogOne
  <1> QED  BY <1>1, <1>3 DEF blkindex, Last, Recoverable

LEMMA LogCheckpoint ==
    ASSUME TypeInv, Checkpoint
    PROVE  blkindex' = blkindex /\ Recoverable' = {blkindex}
  <1>1. log' = <<blkindex>> /\ written' = 1
    BY DEF Checkpoint
  <1>2. Len(log') = 1 /\ log'[1] = blkindex
    BY <1>1, LogOne, LastState DEF TypeInv
  <1> QED  BY <1>1, <1>2 DEF blkindex, Last, Recoverable

-----------------------------------------------------------------------------
(* No step writes below the limits, or lowers them.                         *)

(* A step that leaves the files and the reserved cells alone, and gives no  *)
(* block a place.                                                           *)
LEMMA QuietStep ==
    ASSUME TypeInv, DiskInv, file' = file, torn \subseteq torn',
           (blkindex').blkreserved = blkindex.blkreserved,
           ~AtPlace' \/ job' = job, Recoverable' \subseteq Recoverable \cup {blkindex'}
    PROVE  Grows /\ ReservedOK' /\ \A f \in File : Limit(f)' \in Nat /\ Bound(f)' = Bound(f)
  <1>1. ASSUME NEW f \in File
        PROVE  /\ Limit(f)' \in Nat /\ Bound(f)' = Bound(f) /\ Limit(f) <= Limit(f)'
               /\ \A k \in 1..Limit(f) : k \in DOMAIN file'[f] /\ file'[f][k] = file[f][k]
    <2>1. /\ Len(file[f]) \in Nat /\ Bound(f) \in Nat /\ Limit(f) \in Nat /\ Bound(f) <= Len(file[f])
          /\ Limit(f) <= Bound(f) /\ DOMAIN file[f] = 1..Len(file[f])
      BY Limits DEF DiskInv
    <2>2. Bound(f)' = Bound(f)
      BY DEF Bound
    <2>3. Limit(f)' = Limit(f) \/ Limit(f)' = Bound(f)
      BY <2>2 DEF Limit, AtPlace
    <2> QED  BY <2>1, <2>2, <2>3
  <1>2. ReservedOK'
    BY DEF DiskInv, ReservedOK
  <1> QED  BY <1>1, <1>2 DEF Grows

(* The invariant of the cells after a step of the job. *)
StepOK == Grows /\ ReservedOK' /\ JobPlaced' /\ \A f \in File : Limit(f)' \in Nat

(* The files stay as they are but for file f, and f is only extended. *)
LEMMA Extends ==
    ASSUME TypeInv, DiskInv, ~AtPlace, NEW f \in File, NEW n \in Nat, UNCHANGED <<log, written, torn>>,
           file' = [file EXCEPT ![f] = @ \o Zeros(n)],
           \/ ~AtPlace'
           \/ job'.pos.nFile = f /\ job'.pos.nBlockPos = Bound(f)
    PROVE  /\ Grows /\ ReservedOK' /\ Len(file'[f]) = Len(file[f]) + n /\ Bound(f)' = Bound(f) + n
           /\ \A g \in File : Limit(g)' \in Nat
  <1>1. blkindex' = blkindex /\ Recoverable' = Recoverable
    BY LogSame
  <1>2. /\ file'[f] = file[f] \o Zeros(n) /\ \A g \in File \ {f} : file'[g] = file[g]
    BY DEF TypeInv, DiskTypeOK
  <1>3. /\ Len(file'[f]) = Len(file[f]) + n /\ DOMAIN file'[f] = 1..Len(file'[f])
        /\ \A i \in 1..Len(file[f]) : file'[f][i] = file[f][i]
    <2>1. PICK s \in Seq(Cell) : s = file[f] \o Zeros(n)
      BY Extended DEF TypeInv
    <2>2. Len(s) = Len(file[f]) + n /\ \A i \in 1..Len(file[f]) : s[i] = file[f][i]
      BY <2>1, Extended DEF TypeInv
    <2> QED  BY <1>2, <2>1, <2>2
  <1>4. ASSUME NEW g \in File
        PROVE  /\ Limit(g)' \in Nat /\ Limit(g) <= Limit(g)' /\ Limit(g) = Bound(g)
               /\ Bound(g)' = IF g = f THEN Bound(g) + n ELSE Bound(g)
               /\ (blkindex').blkreserved[g] <= Len(file'[g])
               /\ \A k \in 1..Limit(g) : k \in DOMAIN file'[g] /\ file'[g][k] = file[g][k]
    <2>1. /\ Len(file[g]) \in Nat /\ Bound(g) \in Nat /\ Limit(g) \in Nat /\ Bound(g) <= Len(file[g])
          /\ blkindex.blkreserved[g] \in Nat
          /\ Limit(g) <= Bound(g) /\ DOMAIN file[g] = 1..Len(file[g])
      BY Limits DEF DiskInv
    <2>2. Bound(g)' = IF g = f THEN Bound(g) + n ELSE Bound(g)
      <3>1. CASE g = f
        BY <1>1, <1>3, <2>1, <3>1 DEF Bound
      <3>2. CASE g # f
        BY <1>1, <1>2, <2>1, <3>2 DEF Bound
      <3> QED  BY <3>1, <3>2
    <2>3. Limit(g) = Bound(g) /\ (Limit(g)' = Bound(g) \/ Limit(g)' = Bound(g)')
      BY DEF Limit
    <2>4. blkindex.blkreserved[g] <= Len(file[g])
      BY DEF DiskInv, ReservedOK
    <2>5. (blkindex').blkreserved[g] <= Len(file'[g])
      BY <1>1, <1>2, <1>3, <2>1, <2>4
    <2>6. \A k \in 1..Limit(g) : k \in DOMAIN file'[g] /\ file'[g][k] = file[g][k]
      BY <1>2, <1>3, <2>1, <2>3
    <2> QED  BY <2>1, <2>2, <2>3, <2>5, <2>6
  <1>5. ReservedOK'
    BY <1>1, <1>4 DEF DiskInv, ReservedOK
  <1> QED  BY <1>3, <1>4, <1>5 DEF Grows

LEMMA PlaceUseReserved ==
    ASSUME TypeInv, DiskInv, UseReserved
    PROVE  StepOK
  <1>1. job.at = "append" /\ Size[job.b] <= reserved /\ UNCHANGED <<diskVars, memoryVars, faultVars>>
    BY DEF UseReserved
  <1>2. blkindex' = blkindex /\ Recoverable' = Recoverable /\ file' = file /\ torn' = torn
    BY <1>1, LogSame DEF diskVars, faultVars
  <1>3. CASE job' = Idle
    <2>1. ~AtPlace' /\ JobPlaced'
      BY <1>3 DEF AtPlace, Idle, JobPlaced
    <2> QED  BY <1>2, <2>1, QuietStep DEF StepOK
  <1>4. CASE reserved <= fileSize /\ Reserve(fileSize - reserved, reserved - Size[job.b])
    <2>1. PICK f \in File : f = nCurrentBlockFile
      BY <1>1, AddedChunk
    <2>2. PICK n \in Nat, k \in Nat : n = fileSize - reserved /\ k = reserved - Size[job.b]
      BY <1>1, <1>4, AddedChunk
    <2>3. job' = [at |-> "reserve", b |-> job.b, reserved |-> k,
                  pos |-> [nFile |-> f, nBlockPos |-> n]]
      BY <1>4, <2>1, <2>2 DEF Reserve
    <2>4. n = Bound(f) /\ ~AtPlace
      BY <1>1, <2>1, <2>2 DEF Bound, reserved, fileSize, AtPlace
    <2>5. ASSUME NEW g \in File
          PROVE  /\ Limit(g)' = Limit(g) /\ Limit(g) \in Nat /\ Bound(g)' = Bound(g)
                 /\ \A i \in 1..Limit(g) : i \in DOMAIN file'[g] /\ file'[g][i] = file[g][i]
      <3>1. /\ Len(file[g]) \in Nat /\ Bound(g) \in Nat /\ Limit(g) \in Nat /\ Bound(g) <= Len(file[g])
            /\ Limit(g) <= Bound(g) /\ DOMAIN file[g] = 1..Len(file[g])
        BY Limits DEF DiskInv
      <3>2. Bound(g)' = Bound(g)
        BY <1>2 DEF Bound
      <3>3. Limit(g)' = Limit(g)
        BY <2>3, <2>4, <3>2 DEF Limit
      <3> QED  BY <1>2, <3>1, <3>2, <3>3
    <2>6. Grows
      BY <1>2, <2>5 DEF Grows
    <2>7. ReservedOK'
      BY <1>2 DEF DiskInv, ReservedOK
    <2>8. n + Size[job.b] + k = Len(file[f])
      BY <1>1, <2>1, <2>2, AddedChunk, SMTT(20) DEF fileSize
    <2>9. JobPlaced'
      BY <1>2, <2>3, <2>4, <2>5, <2>8 DEF JobPlaced
    <2> QED  BY <2>5, <2>6, <2>7, <2>9 DEF StepOK
  <1> QED  BY <1>3, <1>4 DEF UseReserved

LEMMA PlaceExtend ==
    ASSUME TypeInv, DiskInv, Extend
    PROVE  StepOK
  <1>1. job.at = "append" /\ Size[job.b] > reserved /\ fileSize >= reserved /\ ~AtPlace
    BY DEF Extend, AtPlace
  <1>2. PICK f \in File : f = nCurrentBlockFile
    BY <1>1, AddedChunk
  <1>3. CASE /\ ExtendBy(addedChunk)
             /\ Reserve(fileSize - reserved, reserved + addedChunk - Size[job.b])
             /\ UNCHANGED faultVars
    <2>1. PICK n \in Nat, k \in Nat, c \in Nat :
              n = fileSize - reserved /\ k = reserved + addedChunk - Size[job.b] /\ c = addedChunk
      BY <1>1, AddedChunk
    <2>2. job' = [at |-> "reserve", b |-> job.b, reserved |-> k,
                  pos |-> [nFile |-> f, nBlockPos |-> n]]
      BY <1>2, <1>3, <2>1 DEF Reserve
    <2>3. n = Bound(f)
      BY <1>2, <2>1 DEF Bound, reserved, fileSize
    <2>4. file' = [file EXCEPT ![f] = @ \o Zeros(c)] /\ UNCHANGED <<log, written, torn>>
      BY <1>2, <1>3, <2>1 DEF ExtendBy, faultVars
    <2>5. /\ Grows /\ ReservedOK' /\ Len(file'[f]) = Len(file[f]) + c /\ Bound(f)' = Bound(f) + c
          /\ \A g \in File : Limit(g)' \in Nat
      BY <1>1, <2>2, <2>3, <2>4, Extends
    <2>6. n + Size[job.b] + k = Len(file[f]) + c
      BY <1>1, <1>2, <2>1, AddedChunk, SMTT(20) DEF fileSize
    <2>7. JobPlaced'
      BY <2>1, <2>2, <2>3, <2>5, <2>6 DEF JobPlaced
    <2> QED  BY <2>5, <2>7 DEF StepOK
  <1>4. CASE Fails("extend") /\ \E n \in 0..(addedChunk - 1) : ExtendBy(n)
    <2>1. PICK n \in Nat : ExtendBy(n)
      BY <1>1, <1>4, AddedChunk
    <2>2. job' = Idle /\ torn' = torn
      BY <1>4 DEF Fails
    <2>3. file' = [file EXCEPT ![f] = @ \o Zeros(n)] /\ UNCHANGED <<log, written, torn>>
      BY <1>2, <2>1, <2>2 DEF ExtendBy
    <2>4. ~AtPlace' /\ JobPlaced'
      BY <2>2 DEF AtPlace, Idle, JobPlaced
    <2>5. Grows /\ ReservedOK' /\ \A g \in File : Limit(g)' \in Nat
      BY <1>1, <2>3, <2>4, Extends
    <2> QED  BY <2>4, <2>5 DEF StepOK
  <1> QED  BY <1>3, <1>4 DEF Extend

LEMMA PlaceWriteReserved ==
    ASSUME TypeInv, DiskInv, WriteBlockFileReserved
    PROVE  StepOK
  <1>1. job.at = "reserve" /\ file' = file /\ AtPlace /\ torn' = torn
    BY DEF WriteBlockFileReserved, AtPlace, Fails, faultVars
  <1>2. job.b \in Block /\ job.reserved \in Nat /\ job.pos \in Pos /\ job.pos.nFile \in File
    BY <1>1 DEF TypeInv, JobTypeOK, Job
  <1>3. CASE Fails("reserve") /\ UNCHANGED <<log, written>>
    <2>1. job' = Idle
      BY <1>3 DEF Fails
    <2>2. ~AtPlace' /\ JobPlaced'
      BY <2>1 DEF AtPlace, Idle, JobPlaced
    <2> QED  BY <1>1, <1>3, <2>2, LogSame, QuietStep DEF StepOK
  <1>4. CASE /\ Write([blkindex EXCEPT !.blkreserved[job.pos.nFile] = job.reserved])
             /\ job' = [at |-> "write", b |-> job.b, pos |-> job.pos, done |-> 0]
    <2>1. PICK f \in File, n \in Nat, k \in Nat, size \in Nat :
              /\ f = job.pos.nFile /\ n = job.pos.nBlockPos /\ k = job.reserved
              /\ size = Size[job.b] /\ size > 0
      BY <1>2, FileAssumption DEF Pos
    <2>2. PICK e : e = [blkindex EXCEPT !.blkreserved[f] = k]
      OBVIOUS
    <2>3. e \in DbState /\ e.blkreserved = [blkindex.blkreserved EXCEPT ![f] = k]
      BY <2>2, LastState, ReservedWritten DEF TypeInv
    <2>4. blkindex' = e /\ Recoverable' = {e}
      BY <1>4, <2>1, <2>2, <2>3, LogGrows DEF Write
    <2>5. n + size + k = Len(file[f])
      BY <1>1, <2>1 DEF DiskInv, JobPlaced
    <2>6. blkindex.blkreserved \in [File -> Nat]
      BY LastState DEF TypeInv, DbState
    <2>7. ASSUME NEW g \in File
          PROVE  /\ Limit(g)' = Limit(g) /\ Limit(g) \in Nat
                 /\ Bound(g)' = IF g = f THEN n + size ELSE Bound(g)
                 /\ e.blkreserved[g] <= Len(file[g])
                 /\ \A i \in 1..Limit(g) : i \in DOMAIN file'[g] /\ file'[g][i] = file[g][i]
      <3>1. /\ Len(file[g]) \in Nat /\ Bound(g) \in Nat /\ Limit(g) \in Nat /\ Bound(g) <= Len(file[g])
            /\ blkindex.blkreserved[g] <= Len(file[g])
            /\ Limit(g) <= Bound(g) /\ DOMAIN file[g] = 1..Len(file[g])
        BY Limits DEF DiskInv, ReservedOK
      <3>2. e.blkreserved[g] = IF g = f THEN k ELSE blkindex.blkreserved[g]
        BY <2>3, <2>6
      <3>3. Bound(g)' = IF g = f THEN n + size ELSE Bound(g)
        BY <1>1, <2>4, <2>5, <3>1, <3>2 DEF Bound
      <3>4. e.blkreserved[g] <= Len(file[g])
        BY <2>5, <3>1, <3>2
      <3>5. Limit(g)' = Limit(g)
        BY <1>1, <1>4, <2>1, <3>3 DEF Limit, AtPlace
      <3> QED  BY <1>1, <3>1, <3>3, <3>4, <3>5
    <2>8. Grows
      BY <1>1, <2>7 DEF Grows
    <2>9. ReservedOK'
      BY <1>1, <2>4, <2>7 DEF ReservedOK
    <2>10. JobPlaced'
      BY <1>4, <2>1, <2>7 DEF JobPlaced
    <2> QED  BY <2>7, <2>8, <2>9, <2>10 DEF StepOK
  <1> QED  BY <1>3, <1>4 DEF WriteBlockFileReserved

(* The next cell of the block is above the limit, and below the bound. *)
LEMMA PlaceWriteToDisk ==
    ASSUME TypeInv, DiskInv, WriteToDisk
    PROVE  StepOK
  <1>1. job.at = "write" /\ UNCHANGED <<log, written>> /\ AtPlace /\ torn' = torn
    BY DEF WriteToDisk, AtPlace, Fails, faultVars
  <1>2. /\ job.b \in Block /\ job.pos \in Pos /\ job.pos.nFile \in File /\ job.done \in Nat
        /\ job = [at |-> "write", b |-> job.b, pos |-> job.pos, done |-> job.done]
    BY <1>1 DEF TypeInv, JobTypeOK, Job
  <1>3. CASE Fails("write") /\ UNCHANGED file
    <2>1. job' = Idle
      BY <1>3 DEF Fails
    <2>2. ~AtPlace' /\ JobPlaced'
      BY <2>1 DEF AtPlace, Idle, JobPlaced
    <2> QED  BY <1>1, <1>3, <2>2, LogSame, QuietStep DEF StepOK
  <1>4. CASE ~(Fails("write") /\ UNCHANGED file)
    <2>1. PICK b \in Block, f \in File, n \in Nat, size \in Nat, i \in Nat :
              /\ b = job.b /\ f = job.pos.nFile /\ n = job.pos.nBlockPos /\ size = Size[b]
              /\ i = job.done + 1 /\ i > 0
      BY <1>2, FileAssumption DEF Pos
    <2>2. PICK pos \in Pos : pos = job.pos
      BY <1>2
    <2>3. /\ file' = [file EXCEPT ![f][n + i] = <<b, i>>]
          /\ job' = IF i = size THEN [at |-> "flush", b |-> b, pos |-> pos]
                    ELSE [at |-> "write", b |-> b, pos |-> pos, done |-> i]
      BY <1>2, <1>4, <2>1, <2>2 DEF WriteToDisk
    <2>4. /\ n + size <= Bound(f) /\ i <= size
          /\ \A k \in 1..(i - 1) : file[f][n + k] = <<b, k>>
      BY <1>1, <1>2, <2>1 DEF DiskInv, JobPlaced
    <2>5. blkindex' = blkindex /\ Recoverable' = Recoverable
      BY <1>1, LogSame
    <2>6. /\ file'[f] = [file[f] EXCEPT ![n + i] = <<b, i>>]
          /\ \A g \in File \ {f} : file'[g] = file[g]
      BY <2>3 DEF TypeInv, DiskTypeOK
    <2>7. /\ Len(file'[f]) = Len(file[f]) /\ DOMAIN file'[f] = 1..Len(file[f])
          /\ \A k \in 1..Len(file[f]) : file'[f][k] = IF k = n + i THEN <<b, i>> ELSE file[f][k]
      <3>1. file[f] \in Seq(Cell) /\ <<b, i>> \in Cell
        BY DEF TypeInv, DiskTypeOK, Cell
      <3>2. PICK s \in Seq(Cell) : s = [file[f] EXCEPT ![n + i] = <<b, i>>]
        BY <3>1, CellChanged
      <3>3. /\ Len(s) = Len(file[f])
            /\ \A k \in 1..Len(file[f]) : s[k] = IF k = n + i THEN <<b, i>> ELSE file[f][k]
        BY <3>1, <3>2, CellChanged
      <3> QED  BY <2>6, <3>2, <3>3
    <2>8. ASSUME NEW g \in File
          PROVE  /\ Limit(g)' \in Nat /\ Limit(g) <= Limit(g)' /\ Bound(g)' = Bound(g)
                 /\ Len(file'[g]) = Len(file[g]) /\ Len(file[g]) \in Nat
                 /\ Bound(g) \in Nat /\ Bound(g) <= Len(file[g])
                 /\ \A k \in 1..Limit(g) : k \in DOMAIN file'[g] /\ file'[g][k] = file[g][k]
                 /\ i = size => Limit(g)' = Bound(g)
      <3>1. /\ Len(file[g]) \in Nat /\ Bound(g) \in Nat /\ Limit(g) \in Nat /\ Bound(g) <= Len(file[g])
            /\ Limit(g) <= Bound(g) /\ DOMAIN file[g] = 1..Len(file[g])
        BY Limits DEF DiskInv
      <3>2. Len(file'[g]) = Len(file[g])
        BY <2>6, <2>7
      <3>3. Bound(g)' = Bound(g)
        BY <2>5, <3>2 DEF Bound
      <3>4. CASE i = size
        <4>1. Limit(g)' = Bound(g)
          BY <2>3, <3>3, <3>4 DEF Limit, AtPlace
        <4>2. g = f => Limit(g) = n
          BY <1>1, <2>1 DEF Limit
        <4>3. \A k \in 1..Limit(g) : k \in DOMAIN file'[g] /\ file'[g][k] = file[g][k]
          BY <2>1, <2>6, <2>7, <3>1, <4>2, SMTT(20)
        <4> QED  BY <3>1, <3>2, <3>3, <4>1, <4>3
      <3>5. CASE i # size
        <4>1. Limit(g)' = Limit(g)
          BY <1>1, <2>1, <2>2, <2>3, <3>3, <3>5 DEF Limit, AtPlace
        <4>2. g = f => Limit(g) = n
          BY <1>1, <2>1 DEF Limit
        <4>3. \A k \in 1..Limit(g) : k \in DOMAIN file'[g] /\ file'[g][k] = file[g][k]
          BY <2>1, <2>6, <2>7, <3>1, <4>2, SMTT(20)
        <4> QED  BY <3>1, <3>2, <3>3, <3>5, <4>1, <4>3
      <3> QED  BY <3>4, <3>5
    <2>9. Grows
      BY <1>1, <2>8 DEF Grows
    <2>10. ReservedOK'
      BY <2>5, <2>8 DEF DiskInv, ReservedOK
    <2>11. ASSUME NEW k \in 1..i
           PROVE  n + k \in DOMAIN file'[f] /\ file'[f][n + k] = <<b, k>>
      <3>1. n + k \in 1..Len(file[f])
        <4>1. Len(file[f]) \in Nat /\ Bound(f) \in Nat /\ Bound(f) <= Len(file[f])
          BY <2>8
        <4>2. n + k <= n + size /\ n + size <= Bound(f) /\ n + k >= 1
          BY <2>1, <2>4
        <4>3. PICK bound \in Nat, len \in Nat : bound = Bound(f) /\ len = Len(file[f])
          BY <4>1
        <4>4. n + k \in 1..len
          BY <4>1, <4>2, <4>3
        <4> QED  BY <4>3, <4>4
      <3>2. CASE k = i
        BY <2>7, <3>1, <3>2
      <3>3. CASE k # i
        <4>1. k \in 1..(i - 1) /\ n + k # n + i
          BY <3>3
        <4> QED  BY <2>4, <2>7, <3>1, <4>1
      <3> QED  BY <3>2, <3>3
    <2>12. CASE i = size
      <3>1. job' = [at |-> "flush", b |-> b, pos |-> pos] /\ pos.nFile = f /\ pos.nBlockPos = n
        BY <2>1, <2>2, <2>3, <2>12
      <3>2. n + size <= Limit(f)'
        BY <2>4, <2>8, <2>12
      <3>3. \A k \in 1..size : n + k \in DOMAIN file'[f] /\ file'[f][n + k] = <<b, k>>
        BY <2>11, <2>12
      <3>4. (n + size <= Limit(pos.nFile))'
        BY <3>1, <3>2
      <3>5. Placed(pos, b)'
        BY <2>1, <3>1, <3>3, <3>4 DEF Placed, ReadFromDisk
      <3>6. JobPlaced'
        BY <3>1, <3>5 DEF JobPlaced
      <3> QED  BY <2>8, <2>9, <2>10, <3>6 DEF StepOK
    <2>13. CASE i # size
      <3>1. job' = [at |-> "write", b |-> b, pos |-> pos, done |-> i] /\ pos.nFile = f /\ pos.nBlockPos = n
        BY <2>1, <2>2, <2>3, <2>13
      <3>2. n + size <= Bound(f)' /\ i < size
        BY <2>4, <2>8, <2>13
      <3>3. (n + size <= Bound(pos.nFile))'
        BY <3>1, <3>2
      <3>4. JobPlaced'
        BY <2>1, <2>11, <3>1, <3>2, <3>3 DEF JobPlaced
      <3> QED  BY <2>8, <2>9, <2>10, <3>4 DEF StepOK
    <2> QED  BY <2>12, <2>13
  <1> QED  BY <1>3, <1>4

(* The places of the records the node may come back to stay. *)
LEMMA RecordsKeep ==
    ASSUME TypeInv, DiskInv, Grows, \A f \in File : Limit(f)' \in Nat, NEW d \in Recoverable
    PROVE  \A b \in DOMAIN d.blockindex : Placed(d.blockindex[b].pos, b)'
  <1> SUFFICES ASSUME NEW b \in DOMAIN d.blockindex PROVE Placed(d.blockindex[b].pos, b)'
    OBVIOUS
  <1>1. d.blockindex \in Records
    BY RecoverableStates DEF DbState
  <1>2. d.blockindex[b] \in Record /\ b \in Block
    BY <1>1, RecordsIff
  <1>3. PICK pos \in Pos : pos = d.blockindex[b].pos
    BY <1>2 DEF Record
  <1>4. Placed(pos, b)
    BY <1>3 DEF DiskInv, RecordsPlaced
  <1>5. Placed(pos, b)'
    BY <1>2, <1>4, PlacedKeeps DEF DiskInv
  <1> QED  BY <1>3, <1>5

(* And so do those of the blocks in memory. *)
LEMMA IndexKeeps ==
    ASSUME TypeInv, DiskInv, IndexPlaced, job.at # "down", Grows, \A f \in File : Limit(f)' \in Nat,
           NEW b, Real(b)
    PROVE  Placed(mapBlockIndex[b].pos, b) /\ \A pos : pos = mapBlockIndex[b].pos => Placed(pos, b)'
  <1>1. b \in DOMAIN mapBlockIndex /\ mapBlockIndex \in Entries
    BY DEF Real, TypeInv, MemoryTypeOK
  <1>2. b \in Block /\ mapBlockIndex[b] \in Entry
    BY <1>1, EntriesIff
  <1>3. PICK pos \in Pos : pos = mapBlockIndex[b].pos
    BY <1>2 DEF Entry
  <1>4. Placed(pos, b)
    BY <1>1, <1>3 DEF IndexPlaced
  <1>5. Placed(pos, b)'
    BY <1>2, <1>4, PlacedKeeps DEF DiskInv
  <1> QED  BY <1>3, <1>4, <1>5

-----------------------------------------------------------------------------
(* The records and the index.                                               *)

(* A step that leaves the index in memory and the best chain alone. *)
LEMMA OrdinaryStep ==
    ASSUME TypeInv, DiskInv, IndexPlaced, BestReal, StepOK, job.at # "down", job'.at # "best",
           UNCHANGED <<mapBlockIndex, pindexBest>>,
           Recoverable' \subseteq Recoverable \cup {blkindex'},
           (blkindex').blockindex = blkindex.blockindex,
           (blkindex').hashBestChain = blkindex.hashBestChain
    PROVE  DiskInv' /\ IndexPlaced' /\ BestReal'
  <1>1. ASSUME NEW d \in Recoverable'
        PROVE  \E c \in Recoverable : c.blockindex = d.blockindex /\ c.hashBestChain = d.hashBestChain
    BY RecoverableStates
  <1>2. RecordsPlaced'
    <2> SUFFICES ASSUME NEW d \in Recoverable', NEW b \in DOMAIN d.blockindex
                 PROVE  Placed(d.blockindex[b].pos, b)'
      BY DEF RecordsPlaced
    <2>1. PICK c \in Recoverable : c.blockindex = d.blockindex
      BY <1>1
    <2>2. Placed(c.blockindex[b].pos, b)'
      BY <2>1, RecordsKeep DEF StepOK
    <2> QED  BY <2>1, <2>2
  <1>3. BestRecorded'
    BY <1>1 DEF DiskInv, BestRecorded
  <1>4. \A b : Real(b)' <=> Real(b)
    BY DEF Real
  <1>5. IndexPlaced'
    <2> SUFFICES ASSUME NEW b \in DOMAIN mapBlockIndex
                 PROVE  IF Real(b) THEN Placed(mapBlockIndex[b].pos, b)'
                                        /\ mapBlockIndex[b].pprev = hashPrevBlock[b]
                        ELSE mapBlockIndex[b].pprev = NoBlock
      BY <1>4 DEF IndexPlaced
    <2>1. CASE Real(b)
      <3>1. PICK pos : pos = mapBlockIndex[b].pos
        OBVIOUS
      <3>2. Placed(pos, b)'
        BY <2>1, <3>1, IndexKeeps DEF StepOK
      <3>3. pos = (mapBlockIndex[b].pos)'
        BY <3>1
      <3>4. Placed(mapBlockIndex[b].pos, b)'
        BY <3>2, <3>3
      <3> QED  BY <2>1, <3>4 DEF IndexPlaced
    <2>2. CASE ~Real(b)
      BY <2>2 DEF IndexPlaced
    <2> QED  BY <2>1, <2>2
  <1>6. BestReal'
    BY <1>4 DEF BestReal
  <1> QED  BY <1>2, <1>3, <1>5, <1>6 DEF DiskInv, StepOK

LEMMA PlaceJob ==
    ASSUME TypeInv, DiskInv, IndexPlaced, BestReal,
           UseReserved \/ Extend \/ WriteBlockFileReserved \/ WriteToDisk
    PROVE  DiskInv' /\ IndexPlaced' /\ BestReal'
  <1>1. StepOK
    BY PlaceUseReserved, PlaceExtend, PlaceWriteReserved, PlaceWriteToDisk
  <1>2. job.at # "down" /\ UNCHANGED <<mapBlockIndex, pindexBest>>
    BY DEF UseReserved, Extend, WriteBlockFileReserved, WriteToDisk, memoryVars
  <1>3. job'.at # "best"
    <2>1. CASE UseReserved
      BY <2>1 DEF UseReserved, Reserve, Idle
    <2>2. CASE Extend
      BY <2>2 DEF Extend, Reserve, Fails, Idle
    <2>3. CASE WriteBlockFileReserved
      BY <2>3 DEF WriteBlockFileReserved, Fails, Idle
    <2>4. CASE WriteToDisk
      <3>1. job = [at |-> "write", b |-> job.b, pos |-> job.pos, done |-> job.done]
        BY <2>4 DEF WriteToDisk, TypeInv, JobTypeOK, Job
      <3> QED  BY <2>4, <3>1 DEF WriteToDisk, Fails, Idle
    <2> QED  BY <2>1, <2>2, <2>3, <2>4
  <1>4. /\ Recoverable' \subseteq Recoverable \cup {blkindex'}
        /\ (blkindex').blockindex = blkindex.blockindex
        /\ (blkindex').hashBestChain = blkindex.hashBestChain
    <2>1. CASE UNCHANGED <<log, written>>
      BY <2>1, LogSame
    <2>2. CASE WriteBlockFileReserved /\ ~UNCHANGED <<log, written>>
      <3>1. Write([blkindex EXCEPT !.blkreserved[job.pos.nFile] = job.reserved]) /\ job.at = "reserve"
        BY <2>2 DEF WriteBlockFileReserved
      <3>2. job.reserved \in Nat /\ job.pos.nFile \in File
        BY <3>1 DEF TypeInv, JobTypeOK, Job
      <3>3. PICK e : e = [blkindex EXCEPT !.blkreserved[job.pos.nFile] = job.reserved]
        OBVIOUS
      <3>4. e \in DbState /\ e.blockindex = blkindex.blockindex /\ e.hashBestChain = blkindex.hashBestChain
        BY <3>2, <3>3, LastState, ReservedWritten DEF TypeInv
      <3>5. blkindex' = e /\ Recoverable' \subseteq Recoverable \cup {e}
        BY <3>1, <3>3, <3>4, LogGrows DEF Write
      <3> QED  BY <3>4, <3>5
    <2>3. UseReserved \/ Extend \/ WriteToDisk => UNCHANGED <<log, written>>
      BY DEF UseReserved, Extend, ExtendBy, WriteToDisk, diskVars
    <2> QED  BY <2>1, <2>2, <2>3
  <1> QED  BY <1>1, <1>2, <1>3, <1>4, OrdinaryStep

(* The block keeps its place when its buffer is flushed, torn or whole. *)
LEMMA PlaceFlush ==
    ASSUME TypeInv, DiskInv, FlushBlockFile
    PROVE  StepOK
  <1>1. file' = file /\ UNCHANGED <<log, written>> /\ job' = [at |-> "index", b |-> job.b, pos |-> job.pos]
    BY DEF FlushBlockFile
  <1>2. \/ job.at = "flush" /\ torn' = torn
        \/ job.at = "write" /\ torn' = torn \cup {job.b}
    BY DEF FlushBlockFile, faultVars
  <1>3. blkindex' = blkindex /\ Recoverable' = Recoverable
    BY <1>1, LogSame
  <1>4. ~AtPlace'
    BY <1>1 DEF AtPlace
  <1>5. Grows /\ ReservedOK' /\ \A f \in File : Limit(f)' \in Nat /\ Bound(f)' = Bound(f)
    BY <1>1, <1>2, <1>3, <1>4, QuietStep
  <1>6. PICK b \in Block, pos \in Pos : b = job.b /\ pos = job.pos /\ pos.nFile \in File
    BY <1>2 DEF TypeInv, JobTypeOK, Job
  <1>7. Placed(pos, b)'
    <2>1. CASE job.at = "flush"
      <3>1. Placed(pos, b)
        BY <1>6, <2>1 DEF DiskInv, JobPlaced
      <3> QED  BY <1>5, <3>1, PlacedKeeps DEF DiskInv
    <2>2. CASE job.at = "write"
      <3>1. pos.nBlockPos + Size[b] <= Bound(pos.nFile) /\ b \in torn'
        BY <1>2, <1>6, <2>2 DEF DiskInv, JobPlaced
      <3>2. Limit(pos.nFile)' = Bound(pos.nFile)
        BY <1>4, <1>5, <1>6 DEF Limit
      <3>3. (pos.nBlockPos + Size[b] <= Limit(pos.nFile))'
        BY <3>1, <3>2
      <3> QED  BY <1>6, <3>1, <3>3 DEF Placed
    <2> QED  BY <1>2, <2>1, <2>2
  <1>8. Placed(job.pos, job.b)'
    BY <1>1, <1>6, <1>7
  <1>9. JobPlaced'
    BY <1>1, <1>8 DEF JobPlaced
  <1> QED  BY <1>5, <1>9 DEF StepOK

LEMMA PlaceQuiet ==
    ASSUME TypeInv, DiskInv, IndexPlaced, BestReal,
           (\E b \in Block : AcceptBlock(b)) \/ NextFile \/ FlushBlockFile
    PROVE  DiskInv' /\ IndexPlaced' /\ BestReal'
  <1>1. /\ file' = file /\ UNCHANGED <<log, written>> /\ UNCHANGED <<mapBlockIndex, pindexBest>>
        /\ job.at # "down" /\ job'.at # "best"
    BY DEF AcceptBlock, NextFile, FlushBlockFile, diskVars, memoryVars, Idle
  <1>2. blkindex' = blkindex /\ Recoverable' = Recoverable
    BY <1>1, LogSame
  <1>3. StepOK
    <2>1. CASE FlushBlockFile
      BY <2>1, PlaceFlush
    <2>2. CASE (\E b \in Block : AcceptBlock(b)) \/ NextFile
      <3>1. job'.at = "append" /\ torn' = torn
        BY <2>2 DEF AcceptBlock, NextFile, faultVars
      <3>2. ~AtPlace' /\ JobPlaced'
        BY <3>1 DEF AtPlace, JobPlaced
      <3> QED  BY <1>1, <1>2, <3>1, <3>2, QuietStep DEF StepOK
    <2> QED  BY <2>1, <2>2
  <1> QED  BY <1>1, <1>2, <1>3, OrdinaryStep

(* A checkpoint, or a step that changes nothing. *)
LEMMA PlaceSame ==
    ASSUME TypeInv, DiskInv, IndexPlaced, BestReal, file' = file, job' = job, torn' = torn,
           UNCHANGED memoryVars, blkindex' = blkindex, Recoverable' \subseteq Recoverable
    PROVE  DiskInv' /\ IndexPlaced' /\ BestReal'
  <1>1. file' = file /\ job' = job /\ torn' = torn /\ UNCHANGED memoryVars
    OBVIOUS
  <1>2. blkindex' = blkindex /\ Recoverable' \subseteq Recoverable
    OBVIOUS
  <1>3. Grows /\ ReservedOK' /\ \A f \in File : Limit(f)' \in Nat /\ Bound(f)' = Bound(f)
    BY <1>1, <1>2, QuietStep
  <1>4. ASSUME NEW f \in File PROVE Limit(f)' = Limit(f)
    BY <1>1, <1>3 DEF Limit, AtPlace
  <1>5. ASSUME NEW d \in Recoverable' PROVE d \in Recoverable
    BY <1>2
  <1>6. JobPlaced' /\ RecordsPlaced' /\ BestRecorded' /\ IndexPlaced'
    <2>1. ASSUME NEW pos, NEW b PROVE Placed(pos, b)' <=> Placed(pos, b)
      BY <1>1, <1>4 DEF Placed, ReadFromDisk
    <2>2. RecordsPlaced' /\ BestRecorded'
      BY <1>5, <2>1 DEF DiskInv, RecordsPlaced, BestRecorded
    <2>3. JobPlaced'
      <3>1. job.at \in {"reserve", "write"} => job.pos.nFile \in File
        BY DEF TypeInv, JobTypeOK
      <3>2. job.at \in {"flush", "index"} => Placed(job.pos, job.b)'
        BY <1>1, <2>1 DEF DiskInv, JobPlaced
      <3>3. job.at \in {"reserve", "write"} => Bound(job.pos.nFile)' = Bound(job.pos.nFile)
        BY <1>1, <1>3, <3>1
      <3> QED  BY <1>1, <3>2, <3>3 DEF DiskInv, JobPlaced
    <2>4. IndexPlaced'
      <3>1. ASSUME NEW b PROVE Placed(mapBlockIndex[b].pos, b)' <=> Placed(mapBlockIndex[b].pos, b)
        BY <1>1, <2>1 DEF memoryVars
      <3> QED  BY <1>1, <3>1 DEF IndexPlaced, Real, memoryVars
    <2> QED  BY <2>2, <2>3, <2>4
  <1>7. BestReal'
    BY <1>1, <1>2 DEF BestReal, Real, memoryVars
  <1> QED  BY <1>3, <1>6, <1>7 DEF DiskInv

LEMMA PlaceCrash ==
    ASSUME TypeInv, DiskInv, Kill \/ AssertFails
    PROVE  DiskInv' /\ IndexPlaced' /\ BestReal'
  <1>1. /\ RecoversFrom(written..Len(log)) /\ file' = file /\ job'.at = "down" /\ torn' = torn
    BY DEF Kill, AssertFails, Forgets, Down, faultVars
  <1>2. blkindex' \in Recoverable /\ Recoverable' = {blkindex'}
    BY <1>1, LogRecovers
  <1>3. (blkindex').blkreserved = blkindex.blkreserved
    BY <1>2 DEF DiskInv, ReservedOK
  <1>4. ~AtPlace' /\ JobPlaced' /\ IndexPlaced' /\ BestReal'
    BY <1>1 DEF AtPlace, JobPlaced, IndexPlaced, BestReal
  <1>5. Grows /\ ReservedOK' /\ \A f \in File : Limit(f)' \in Nat
    BY <1>1, <1>2, <1>3, <1>4, QuietStep
  <1>6. RecordsPlaced'
    BY <1>2, <1>5, RecordsKeep DEF RecordsPlaced
  <1>7. BestRecorded'
    BY <1>2 DEF DiskInv, BestRecorded
  <1> QED  BY <1>4, <1>5, <1>6, <1>7 DEF DiskInv

LEMMA PlaceAdd ==
    ASSUME TypeInv, DiskInv, IndexPlaced, BestReal, AddToBlockIndex
    PROVE  DiskInv' /\ IndexPlaced' /\ BestReal'
  <1>1. /\ job.at = "index" /\ UNCHANGED <<file, pindexBest>>
        /\ mapBlockIndex' = IndexWith(job.b, job.pos)
        /\ job' = Idle \/ job' = [at |-> "best", b |-> job.b]
        /\ torn' = torn
    BY DEF AddToBlockIndex, Fails, faultVars
  <1>2. PICK b \in Block, pos \in Pos : b = job.b /\ pos = job.pos
    BY <1>1 DEF TypeInv, JobTypeOK, Job
  <1>3. Placed(pos, b) /\ pos.nFile \in File /\ pos.nFile # 0
    BY <1>1, <1>2 DEF DiskInv, JobPlaced, Placed, File
  <1>4. PICK index \in Entries :
            /\ index = IndexWith(b, pos) /\ DOMAIN index = DOMAIN mapBlockIndex \cup {b}
            /\ \A x \in DOMAIN mapBlockIndex : index[x] = mapBlockIndex[x]
            /\ index[b].pprev = hashPrevBlock[b] /\ index[b].pos = pos
    BY <1>1, <1>2, NewIndexIsIndex
  <1>5. ~AtPlace' /\ JobPlaced' /\ job'.at # "down" /\ (job'.at = "best" => job'.b = b)
    BY <1>1, <1>2 DEF AtPlace, JobPlaced, Idle
  <1>6. mapBlockIndex' = index
    BY <1>1, <1>2, <1>4
  <1>7. \/ UNCHANGED <<log, written>>
        \/ TxnCommit(WriteBlockIndex(blkindex, index, {b}))
    BY <1>2, <1>4 DEF AddToBlockIndex
  <1>8. PICK e \in DbState :
            /\ blkindex' = e /\ Recoverable' \subseteq Recoverable \cup {e}
            /\ e.blkreserved = blkindex.blkreserved /\ e.hashBestChain = blkindex.hashBestChain
            /\ DOMAIN blkindex.blockindex \subseteq DOMAIN e.blockindex
            /\ \A x \in DOMAIN e.blockindex :
                  \/ x \in DOMAIN blkindex.blockindex /\ e.blockindex[x] = blkindex.blockindex[x]
                  \/ x = b /\ e.blockindex[x].pos = pos
    <2>1. blkindex \in DbState
      BY LastState DEF TypeInv
    <2>2. CASE UNCHANGED <<log, written>>
      BY <2>1, <2>2, LogSame
    <2>3. CASE TxnCommit(WriteBlockIndex(blkindex, index, {b}))
      <3>1. PICK c \in DbState : c = blkindex
        BY <2>1
      <3>2. PICK e : e = WriteBlockIndex(c, index, {b})
        OBVIOUS
      <3>3. {b} \in SUBSET DOMAIN index
        BY <1>4
      <3>4. /\ e \in DbState /\ e.hashBestChain = c.hashBestChain /\ e.blkreserved = c.blkreserved
            /\ DOMAIN e.blockindex = DOMAIN c.blockindex \cup {b}
            /\ e.blockindex[b].pos = index[b].pos
            /\ \A x \in DOMAIN c.blockindex \ {b} : e.blockindex[x] = c.blockindex[x]
        BY <3>2, <3>3, RecordsWritten
      <3>5. log' = Append(log, e) /\ written' = written
        BY <2>3, <3>1, <3>2 DEF TxnCommit
      <3>6. blkindex' = e /\ Recoverable' \subseteq Recoverable \cup {e}
        BY <3>4, <3>5, LogGrows
      <3> QED  BY <1>4, <3>1, <3>4, <3>6
    <2> QED  BY <1>7, <2>2, <2>3
  <1>9. Grows /\ ReservedOK' /\ \A f \in File : Limit(f)' \in Nat
    BY <1>1, <1>5, <1>8, QuietStep
  <1>10. blkindex \in Recoverable
    BY RecoverableStates
  <1>11. Placed(pos, b)'
    BY <1>3, <1>9, PlacedKeeps DEF DiskInv
  <1>12. RecordsPlaced'
    <2> SUFFICES ASSUME NEW d \in Recoverable', NEW x \in DOMAIN d.blockindex
                 PROVE  Placed(d.blockindex[x].pos, x)'
      BY DEF RecordsPlaced
    <2>1. CASE d \in Recoverable
      BY <1>9, <2>1, RecordsKeep
    <2>2. CASE d = e /\ x = b /\ e.blockindex[x].pos = pos
      BY <1>11, <2>2
    <2>3. CASE d = e /\ x \in DOMAIN blkindex.blockindex /\ e.blockindex[x] = blkindex.blockindex[x]
      <3>1. PICK c \in Recoverable : c = blkindex
        BY <1>10
      <3>2. Placed(c.blockindex[x].pos, x)'
        BY <1>9, <2>3, <3>1, RecordsKeep
      <3> QED  BY <2>3, <3>1, <3>2
    <2> QED  BY <1>8, <2>1, <2>2, <2>3
  <1>13. BestRecorded'
    BY <1>8, <1>10 DEF DiskInv, BestRecorded
  <1>14. /\ \A x \in DOMAIN mapBlockIndex : x # b => (Real(x)' <=> Real(x))
         /\ Real(b)'
    BY <1>3, <1>4, <1>6 DEF Real
  <1>15. b \notin DOMAIN mapBlockIndex
    BY <1>1, <1>2 DEF TypeInv, MemoryTypeOK, Storing
  <1>16. IndexPlaced'
    <2> SUFFICES ASSUME NEW x \in DOMAIN index
                 PROVE  IF Real(x)' THEN Placed(mapBlockIndex[x].pos, x)' /\ index[x].pprev = hashPrevBlock[x]
                        ELSE index[x].pprev = NoBlock
      BY <1>6 DEF IndexPlaced
    <2>1. CASE x = b
      <3>1. Placed(mapBlockIndex[b].pos, b)'
        BY <1>4, <1>6, <1>11
      <3> QED  BY <1>4, <1>14, <2>1, <3>1
    <2>2. CASE x # b /\ Real(x)
      <3>1. PICK q : q = mapBlockIndex[x].pos
        OBVIOUS
      <3>2. x \in DOMAIN mapBlockIndex /\ index[x] = mapBlockIndex[x]
        BY <1>4, <2>2
      <3>3. Placed(q, x)'
        BY <1>1, <1>9, <2>2, <3>1, IndexKeeps
      <3>4. Placed(mapBlockIndex[x].pos, x)'
        BY <1>6, <3>1, <3>2, <3>3
      <3> QED  BY <1>1, <1>14, <2>2, <3>2, <3>4 DEF IndexPlaced
    <2>3. CASE x # b /\ ~Real(x)
      <3>1. x \in DOMAIN mapBlockIndex /\ index[x] = mapBlockIndex[x]
        BY <1>4, <2>3
      <3> QED  BY <1>1, <1>14, <2>3, <3>1 DEF IndexPlaced
    <2> QED  BY <2>1, <2>2, <2>3
  <1>17. BestReal'
    <2>1. pindexBest = blkindex.hashBestChain /\ \A a \in Ancestors[pindexBest] : Real(a)
      BY <1>1 DEF BestReal
    <2>2. \A a \in Ancestors[pindexBest] : Real(a)'
      BY <1>14, <1>15, <2>1 DEF Real
    <2>3. pindexBest' = (blkindex').hashBestChain
      BY <1>1, <1>8, <2>1
    <2>4. job'.at = "best" => Real(job.b)'
      BY <1>5, <1>14
    <2> QED  BY <1>1, <2>2, <2>3, <2>4 DEF BestReal
  <1> QED  BY <1>5, <1>9, <1>12, <1>13, <1>16, <1>17 DEF DiskInv

(* Nothing stops the walk back along a chain of which nothing is made up. *)
LEMMA BranchOfReal ==
    ASSUME IndexPlaced, job.at # "down", NEW b \in Block, \A a \in Ancestors[b] : Real(a)
    PROVE  Branch(mapBlockIndex, b) = Ancestors[b]
  <1> SUFFICES ASSUME NEW a \in Ancestors[b], NEW c \in Ancestors[b] \ {a}, a \in Ancestors[c]
               PROVE  c \in DOMAIN mapBlockIndex /\ mapBlockIndex[c].pprev # NoBlock
    BY DEF Branch
  <1>1. c \in Block /\ Real(c)
    BY Ancestry
  <1>2. hashPrevBlock[c] # NoBlock
    BY <1>1, Ancestry
  <1> QED  BY <1>1, <1>2 DEF Real, IndexPlaced

(* The blocks that SetBestChain disconnects or connects, the ones whose      *)
(* records it writes with them, and when it can.                            *)
Moved ==
    LET new == Branch(mapBlockIndex, job.b)
        old == Branch(mapBlockIndex, pindexBest)
    IN  (new \ old) \cup (old \ new)

Rewritten == {mapBlockIndex[b].pprev : b \in Moved} \ {NoBlock}

Possible ==
    \/ hashPrevBlock[job.b] = pindexBest
    \/ /\ Branch(mapBlockIndex, job.b) \cap Branch(mapBlockIndex, pindexBest) # {}
       /\ \A b \in Branch(mapBlockIndex, job.b) \ Branch(mapBlockIndex, pindexBest) :
             ReadFromDisk(file, mapBlockIndex[b].pos, b)

(* The chain that SetBestChain moves to has no made-up block, and records   *)
(* down to the genesis block once those of the moved blocks' predecessors   *)
(* are written.                                                             *)
LEMMA NewChainReal ==
    ASSUME TypeInv, IndexPlaced, BestReal, BestRecorded, job.at = "best", Possible
    PROVE  /\ \A a \in Ancestors[job.b] : Real(a)
           /\ Ancestors[job.b] \subseteq DOMAIN blkindex.blockindex \cup Rewritten
           /\ \A x \in Rewritten : Real(x)
  <1> DEFINE new == Branch(mapBlockIndex, job.b)
             old == Branch(mapBlockIndex, pindexBest)
             moved == Moved
             blocks == Rewritten
  <1>a. /\ moved = (new \ old) \cup (old \ new)
        /\ blocks = {mapBlockIndex[b].pprev : b \in moved} \ {NoBlock}
        /\ \/ hashPrevBlock[job.b] = pindexBest
           \/ new \cap old # {} /\ \A b \in new \ old : ReadFromDisk(file, mapBlockIndex[b].pos, b)
    BY DEF Moved, Rewritten, Possible
  <1>b. new = Branch(mapBlockIndex, job.b) /\ old = Branch(mapBlockIndex, pindexBest)
    OBVIOUS
  <1> HIDE DEF new, old, moved, blocks
  <1>1. /\ mapBlockIndex \in Entries /\ job.b \in DOMAIN mapBlockIndex /\ pindexBest \in DOMAIN mapBlockIndex
        /\ job.b \in DOMAIN blkindex.blockindex
    BY DEF TypeInv, MemoryTypeOK
  <1>2. PICK n \in Block, p \in Block : n = job.b /\ p = pindexBest
    BY <1>1, EntriesIff
  <1>3. Ancestors[p] \subseteq DOMAIN blkindex.blockindex /\ \A a \in Ancestors[p] : Real(a)
    BY <1>2, RecoverableStates DEF BestReal, BestRecorded
  <1>4. old = Ancestors[p] /\ new \subseteq Ancestors[n]
    BY <1>b, <1>2, <1>3, BranchOfReal DEF Branch
  <1>5. Real(n) /\ new \subseteq DOMAIN mapBlockIndex
    <2>1. \A x \in DOMAIN mapBlockIndex : mapBlockIndex[x].pprev # NoBlock =>
              mapBlockIndex[x].pprev = hashPrevBlock[x] /\ hashPrevBlock[x] \in DOMAIN mapBlockIndex
      BY DEF TypeInv, MemoryTypeOK
    <2> QED  BY <1>b, <1>1, <1>2, <2>1, BranchInIndex DEF BestReal
  <1>6. \A c : Real(c) => c \in DOMAIN mapBlockIndex /\ mapBlockIndex[c].pprev = hashPrevBlock[c]
    BY DEF Real, IndexPlaced
  <1>7. (\A a \in Ancestors[n] : Real(a)) /\ Ancestors[n] \subseteq DOMAIN blkindex.blockindex \cup blocks
    <2>1. CASE hashPrevBlock[n] = p
      <3>1. Ancestors[n] = {n} \cup Ancestors[p]
        BY <2>1, Ancestry, FileAssumption
      <3> QED  BY <1>1, <1>2, <1>3, <1>5, <3>1
    <2>2. CASE new \cap old # {} /\ \A b \in new \ old : ReadFromDisk(file, mapBlockIndex[b].pos, b)
      <3>1. PICK z \in new : z \in old
        BY <2>2
      <3>2. ASSUME NEW a \in new PROVE Real(a)
        <4>1. CASE a \in old
          BY <1>3, <1>4, <4>1
        <4>2. CASE a \notin old
          <5>1. ReadFromDisk(file, mapBlockIndex[a].pos, a)
            BY <1>a, <2>2, <4>2
          <5>2. mapBlockIndex[a].pos.nFile \in File
            BY <5>1 DEF ReadFromDisk
          <5> QED  BY <1>5, <5>2 DEF Real, File
        <4> QED  BY <4>1, <4>2
      <3>3. ASSUME NEW a \in Ancestors[n], a \notin Ancestors[z]
            PROVE  a \in new /\ z \in Ancestors[a]
        <4>1. z \in Ancestors[n] /\ a \in Block /\ z \in Block
          BY <1>4, Ancestry
        <4>2. z \in Ancestors[a]
          BY <3>3, <4>1, Ancestry
        <4>3. ASSUME NEW c \in Ancestors[n] \ {a}, a \in Ancestors[c]
              PROVE  c \in DOMAIN mapBlockIndex /\ mapBlockIndex[c].pprev # NoBlock
          <5>1. c \in Block /\ z \in Ancestors[c] /\ c # z
            BY <3>3, <4>2, <4>3, Ancestry
          <5> QED  BY <1>b, <1>2, <5>1 DEF Branch
        <4> QED  BY <1>b, <1>2, <4>2, <4>3 DEF Branch
      <3>4. ASSUME NEW a \in Ancestors[n]
            PROVE  Real(a) /\ a \in DOMAIN blkindex.blockindex \cup blocks
        <4>1. CASE a \in Ancestors[z] \/ a \in old
          <5>1. Ancestors[z] \subseteq Ancestors[p]
            BY <1>4, <3>1, Ancestry
          <5> QED  BY <1>3, <1>4, <4>1, <5>1
        <4>2. CASE a = n
          BY <1>1, <1>2, <1>5, <4>2
        <4>3. CASE a \notin Ancestors[z] /\ a \notin old /\ a # n
          <5>1. a \in new /\ Real(a) /\ a \in Block /\ a # NoBlock
            <6>1. a \in Block /\ a # NoBlock
              BY Ancestry, FileAssumption
            <6>2. a \in new
              BY <3>3, <4>3
            <6> QED  BY <3>2, <6>1, <6>2
          <5>2. PICK c \in Ancestors[n] : hashPrevBlock[c] = a
            BY <4>3, Ancestry
          <5>3. c \in Block /\ z \in Block
            BY <1>4, <3>1, Ancestry
          <5>4. a \in Ancestors[c]
            BY <5>1, <5>2, <5>3, Ancestry
          <5>5. c \notin Ancestors[z] /\ c \notin old
            BY <1>4, <4>3, <5>3, <5>4, Ancestry
          <5>6. c \in new
            BY <3>3, <5>5
          <5>7. mapBlockIndex[c].pprev = a
            BY <1>6, <3>2, <5>2, <5>6
          <5> QED  BY <1>a, <5>1, <5>5, <5>6, <5>7
        <4> QED  BY <4>1, <4>2, <4>3
      <3> QED  BY <3>4
    <2> QED  BY <1>a, <1>2, <2>1, <2>2
  <1>8. ASSUME NEW x \in blocks PROVE Real(x)
    <2>1. PICK c \in moved : mapBlockIndex[c].pprev = x /\ x # NoBlock
      BY <1>a
    <2>2. c \in Ancestors[n] \/ c \in Ancestors[p]
      BY <1>a, <1>4
    <2>3. Real(c) /\ c \in Block
      BY <1>3, <1>7, <2>2, Ancestry
    <2>4. x = hashPrevBlock[c]
      BY <1>6, <2>1, <2>3
    <2>5. x \in Ancestors[c]
      BY <2>1, <2>3, <2>4, Ancestry
    <2> QED  BY <1>3, <1>7, <2>2, <2>5, Ancestry
  <1> QED  BY <1>2, <1>7, <1>8 DEF blocks

LEMMA PlaceBest ==
    ASSUME TypeInv, DiskInv, IndexPlaced, BestReal, SetBestChain
    PROVE  DiskInv' /\ IndexPlaced' /\ BestReal'
  <1>1. PICK blocks : blocks = Rewritten
    OBVIOUS
  <1>2. /\ job.at = "best" /\ job' = Idle /\ UNCHANGED <<file, mapBlockIndex, torn>>
    BY DEF SetBestChain, Fails, faultVars
  <1>3. ~AtPlace' /\ JobPlaced' /\ job'.at \notin {"down", "best"}
    BY <1>2 DEF AtPlace, JobPlaced, Idle
  <1>4. CASE UNCHANGED <<log, written, pindexBest>>
    <2>1. blkindex' = blkindex /\ Recoverable' = Recoverable
      BY <1>4, LogSame
    <2>2. StepOK
      BY <1>2, <1>3, <2>1, QuietStep DEF StepOK
    <2> QED  BY <1>2, <1>3, <1>4, <2>1, <2>2, OrdinaryStep
  <1>5. CASE /\ Possible
             /\ TxnCommit([WriteBlockIndex(blkindex, mapBlockIndex, blocks) EXCEPT !.hashBestChain = job.b])
             /\ pindexBest' = job.b
    <2>1. /\ \A a \in Ancestors[job.b] : Real(a)
          /\ Ancestors[job.b] \subseteq DOMAIN blkindex.blockindex \cup blocks
          /\ \A x \in blocks : Real(x)
      BY <1>1, <1>2, <1>5, NewChainReal DEF DiskInv
    <2>2. PICK c \in DbState : c = blkindex /\ c \in Recoverable /\ job.b \in DOMAIN c.blockindex
      BY <1>2, LastState, RecoverableStates DEF TypeInv, MemoryTypeOK
    <2>3. mapBlockIndex \in Entries /\ blocks \in SUBSET DOMAIN mapBlockIndex
      BY <1>2, <2>1 DEF TypeInv, MemoryTypeOK, Real
    <2>4. PICK w : w = WriteBlockIndex(c, mapBlockIndex, blocks)
      OBVIOUS
    <2>5. /\ w \in DbState /\ w.hashBestChain = c.hashBestChain /\ w.blkreserved = c.blkreserved
          /\ DOMAIN w.blockindex = DOMAIN c.blockindex \cup blocks
          /\ \A b \in blocks : w.blockindex[b].pos = mapBlockIndex[b].pos
          /\ \A b \in DOMAIN c.blockindex \ blocks : w.blockindex[b] = c.blockindex[b]
      BY <2>3, <2>4, RecordsWritten
    <2>6. PICK e \in DbState : /\ e = [w EXCEPT !.hashBestChain = job.b] /\ e.hashBestChain = job.b
                               /\ e.blockindex = w.blockindex /\ e.blkreserved = w.blkreserved
      BY <2>2, <2>5, BestWritten
    <2>7. log' = Append(log, e) /\ written' = written
      BY <1>5, <2>2, <2>4, <2>6 DEF TxnCommit
    <2>8. blkindex' = e /\ Recoverable' \subseteq Recoverable \cup {e}
      BY <2>7, LogGrows
    <2>9. Grows /\ ReservedOK' /\ \A f \in File : Limit(f)' \in Nat
      BY <1>2, <1>3, <2>2, <2>5, <2>6, <2>8, QuietStep
    <2>10. ASSUME NEW b \in blocks, NEW pos, pos = mapBlockIndex[b].pos PROVE Placed(pos, b)'
      BY <1>2, <2>1, <2>9, <2>10, IndexKeeps
    <2>11. RecordsPlaced'
      <3> SUFFICES ASSUME NEW d \in Recoverable', NEW x \in DOMAIN d.blockindex
                   PROVE  Placed(d.blockindex[x].pos, x)'
        BY DEF RecordsPlaced
      <3>1. CASE d \in Recoverable
        BY <2>9, <3>1, RecordsKeep
      <3>2. CASE d = e /\ x \in blocks
        <4>1. PICK pos : pos = mapBlockIndex[x].pos
          OBVIOUS
        <4>2. d.blockindex[x].pos = pos
          BY <2>5, <2>6, <3>2, <4>1
        <4>3. Placed(pos, x)'
          BY <2>10, <3>2, <4>1
        <4> QED  BY <4>2, <4>3
      <3>3. CASE d = e /\ x \in DOMAIN c.blockindex \ blocks
        <4>1. Placed(c.blockindex[x].pos, x)'
          BY <2>2, <2>9, <3>3, RecordsKeep
        <4>2. d.blockindex[x] = c.blockindex[x]
          BY <2>5, <2>6, <3>3
        <4> QED  BY <4>1, <4>2
      <3> QED  BY <2>5, <2>6, <2>8, <3>1, <3>2, <3>3
    <2>12. BestRecorded'
      BY <2>1, <2>2, <2>5, <2>6, <2>8 DEF DiskInv, BestRecorded
    <2>13. \A b : Real(b)' <=> Real(b)
      BY <1>2 DEF Real
    <2>14. IndexPlaced'
      <3> SUFFICES ASSUME NEW b \in DOMAIN mapBlockIndex
                   PROVE  IF Real(b) THEN Placed(mapBlockIndex[b].pos, b)'
                                          /\ mapBlockIndex[b].pprev = hashPrevBlock[b]
                          ELSE mapBlockIndex[b].pprev = NoBlock
        BY <1>2, <2>13 DEF IndexPlaced
      <3>1. CASE Real(b)
        <4>1. PICK pos : pos = mapBlockIndex[b].pos
          OBVIOUS
        <4>2. Placed(pos, b)'
          BY <1>2, <2>9, <3>1, <4>1, IndexKeeps
        <4>3. Placed(mapBlockIndex[b].pos, b)'
          BY <1>2, <4>1, <4>2
        <4> QED  BY <1>2, <3>1, <4>3 DEF IndexPlaced
      <3>2. CASE ~Real(b)
        BY <1>2, <3>2 DEF IndexPlaced
      <3> QED  BY <3>1, <3>2
    <2>15. BestReal'
      <3>1. \A a \in Ancestors[job.b] : Real(a)'
        BY <2>1, <2>13
      <3>2. pindexBest' = (blkindex').hashBestChain
        BY <1>5, <2>6, <2>8
      <3> QED  BY <1>3, <1>5, <3>1, <3>2 DEF BestReal
    <2> QED  BY <1>3, <2>9, <2>11, <2>12, <2>14, <2>15 DEF DiskInv
  <1> QED  BY <1>1, <1>4, <1>5 DEF SetBestChain, Possible, Rewritten, Moved

LEMMA PlaceLoad ==
    ASSUME TypeInv, DiskInv, LoadBlockIndex
    PROVE  DiskInv' /\ IndexPlaced' /\ BestReal'
  <1>1. /\ job.at = "down" /\ mapBlockIndex' = LoadedIndex(blkindex.blockindex)
        /\ UNCHANGED <<file, written, torn>> /\ job'.at \in {"idle", "refused"}
    BY LoadLeaves DEF faultVars, Idle
  <1>a. PICK e \in DbState : LoadedAs(e)
    BY LoadLeaves
  <1>2. blkindex' = e /\ Recoverable' \subseteq Recoverable \cup {e}
    <2>1. CASE log' = log
      BY <1>1, <1>a, <2>1, LogSame DEF LoadedAs
    <2>2. CASE log' = Append(log, e)
      BY <1>1, <2>2, LogGrows
    <2> QED  BY <1>a, <2>1, <2>2 DEF LoadedAs
  <1>3. ~AtPlace' /\ JobPlaced' /\ job'.at \notin {"down", "best"}
    BY <1>1 DEF AtPlace, JobPlaced
  <1>b. (blkindex').blkreserved = blkindex.blkreserved
    BY <1>a DEF LoadedAs
  <1>4. Grows /\ ReservedOK' /\ \A f \in File : Limit(f)' \in Nat
    BY <1>1, <1>2, <1>3, <1>b, QuietStep
  <1>6. PICK d \in DbState : d = blkindex /\ d \in Recoverable
    BY LastState, RecoverableStates DEF TypeInv
  <1>c. /\ e.blockindex = d.blockindex /\ e.hashBestChain = pindexBest'
        /\ Ancestors[pindexBest'] \subseteq Ancestors[d.hashBestChain]
        /\ Ancestors[d.hashBestChain] \subseteq DOMAIN d.blockindex
    <2>1. pindexBest' \in Ancestors[d.hashBestChain] /\ d.hashBestChain \in Block
      BY <1>a, <1>6 DEF LoadedAs, DbState
    <2>2. Ancestors[pindexBest'] \subseteq Ancestors[d.hashBestChain]
      BY <2>1, Ancestry
    <2> QED  BY <1>a, <1>6, <2>2 DEF LoadedAs, DiskInv, BestRecorded
  <1>5. RecordsPlaced' /\ BestRecorded'
    <2>1. ASSUME NEW c \in Recoverable'
          PROVE  /\ \A b \in DOMAIN c.blockindex : Placed(c.blockindex[b].pos, b)'
                 /\ Ancestors[c.hashBestChain] \subseteq DOMAIN c.blockindex
      <3>1. CASE c \in Recoverable
        BY <1>4, <3>1, RecordsKeep DEF DiskInv, BestRecorded
      <3>2. CASE c = e
        <4>1. \A b \in DOMAIN d.blockindex : Placed(d.blockindex[b].pos, b)'
          BY <1>4, <1>6, RecordsKeep
        <4> QED  BY <1>c, <3>2, <4>1
      <3> QED  BY <1>2, <3>1, <3>2
    <2> QED  BY <2>1 DEF RecordsPlaced, BestRecorded
  <1>7. PICK index \in Entries :
            /\ index = LoadedIndex(d.blockindex) /\ DOMAIN d.blockindex \subseteq DOMAIN index
            /\ \A b \in DOMAIN index : b \notin DOMAIN d.blockindex => index[b].pos.nFile = 0
            /\ \A b \in DOMAIN d.blockindex :
                  index[b].pprev = hashPrevBlock[b] /\ index[b].pos = d.blockindex[b].pos
    BY LoadedIsIndex
  <1>8. \A b \in DOMAIN index : b \notin DOMAIN d.blockindex => index[b].pprev = NoBlock
    BY <1>7 DEF LoadedIndex
  <1>9. mapBlockIndex' = index
    BY <1>1, <1>6, <1>7
  <1>10. \A b \in DOMAIN d.blockindex : d.blockindex[b].pos.nFile \in File /\ d.blockindex[b].pos.nFile # 0
    BY <1>6 DEF DiskInv, RecordsPlaced, Placed, File
  <1>11. \A b : Real(b)' <=> b \in DOMAIN d.blockindex
    BY <1>7, <1>9, <1>10 DEF Real
  <1>12. IndexPlaced'
    <2> SUFFICES ASSUME NEW b \in DOMAIN index
                 PROVE  IF Real(b)' THEN Placed(mapBlockIndex[b].pos, b)' /\ index[b].pprev = hashPrevBlock[b]
                        ELSE index[b].pprev = NoBlock
      BY <1>9 DEF IndexPlaced
    <2>1. CASE b \in DOMAIN d.blockindex
      <3>1. Placed(d.blockindex[b].pos, b)'
        BY <1>4, <1>6, <2>1, RecordsKeep
      <3>2. (mapBlockIndex[b].pos)' = d.blockindex[b].pos
        BY <1>7, <1>9, <2>1
      <3>3. Placed(mapBlockIndex[b].pos, b)'
        BY <3>1, <3>2
      <3> QED  BY <1>7, <1>11, <2>1, <3>3
    <2>2. CASE b \notin DOMAIN d.blockindex
      BY <1>8, <1>11, <2>2
    <2> QED  BY <2>1, <2>2
  <1>13. BestReal'
    <2>1. \A a \in Ancestors[pindexBest'] : Real(a)'
      BY <1>c, <1>11
    <2>2. pindexBest' = (blkindex').hashBestChain
      BY <1>c, <1>2
    <2> QED  BY <1>3, <2>1, <2>2 DEF BestReal
  <1> QED  BY <1>3, <1>4, <1>5, <1>12, <1>13 DEF DiskInv

LEMMA PlaceInit == FileInit => PlaceInv
  <1> SUFFICES ASSUME FileInit PROVE DiskInv /\ IndexPlaced /\ BestReal
    BY DEF PlaceInv
  <1>1. /\ TypeInv /\ job = Idle /\ log = <<blkindex>> /\ written = 1
        /\ DOMAIN blkindex.blockindex = {Genesis} /\ blkindex.hashBestChain = Genesis
        /\ blkindex.blockindex[Genesis] = [pos |-> GenesisPos, nHeight |-> 0]
        /\ blkindex.blkreserved = [f \in File |->
               IF f = 1 THEN BLOCKFILE_CHUNK_SIZE - Size[Genesis] ELSE 0]
        /\ DOMAIN mapBlockIndex = {Genesis}
        /\ mapBlockIndex[Genesis] = [pprev |-> NoBlock, pos |-> GenesisPos,
                                     nHeight |-> 0, bnChainWork |-> 1]
    BY InitState
  <1>2. PICK chunk \in Nat, size \in Nat :
            chunk = BLOCKFILE_CHUNK_SIZE /\ size = Size[Genesis] /\ size <= chunk
    BY FileAssumption
  <1>3. Recoverable = {blkindex}
    <2>1. Len(log) = 1 /\ log[1] = blkindex
      BY <1>1, LogOne, LastState DEF TypeInv
    <2> QED  BY <1>1, <2>1 DEF Recoverable
  <1>4. 1 \in File
    BY FileAssumption DEF File
  <1>5. /\ file[1] = [i \in 1..chunk |-> IF i <= size THEN <<Genesis, i>> ELSE Zero]
        /\ \A f \in File : f # 1 => file[f] = <<>>
    BY <1>2, <1>4 DEF FileInit
  <1>6. file[1] \in Seq(Cell)
    BY <1>1, <1>4 DEF TypeInv, DiskTypeOK
  <1>7. Len(file[1]) = chunk /\ DOMAIN file[1] = 1..chunk
    BY <1>5, <1>6
  <1>8. /\ blkindex.blkreserved[1] = chunk - size
        /\ \A f \in File : f # 1 => blkindex.blkreserved[f] = 0
    BY <1>1, <1>2, <1>4
  <1>9. ReservedOK
    <2>1. \A f \in File : blkindex.blkreserved[f] <= Len(file[f])
      BY <1>5, <1>7, <1>8
    <2> QED  BY <1>3, <2>1 DEF ReservedOK
  <1>10. ~AtPlace /\ JobPlaced /\ job.at = "idle"
    BY <1>1 DEF AtPlace, JobPlaced, Idle
  <1>11. Limit(1) = size
    BY <1>7, <1>8, <1>10 DEF Limit, Bound
  <1>12. Placed(GenesisPos, Genesis)
    <2>1. GenesisPos.nFile = 1 /\ GenesisPos.nBlockPos = 0
      BY DEF GenesisPos
    <2>2. \A i \in 1..size : 0 + i \in DOMAIN file[1] /\ file[1][0 + i] = <<Genesis, i>>
      BY <1>2, <1>5, <1>7
    <2> QED  BY <1>2, <1>4, <1>11, <2>1, <2>2 DEF Placed, ReadFromDisk
  <1>13. blkindex.blockindex[Genesis].pos = GenesisPos
    BY <1>1
  <1>14. RecordsPlaced
    BY <1>1, <1>3, <1>12, <1>13 DEF RecordsPlaced
  <1>15. Genesis \in Block /\ hashPrevBlock[Genesis] = NoBlock /\ Ancestors[Genesis] = {Genesis}
    BY FileAssumption, Ancestry
  <1>16. BestRecorded
    BY <1>1, <1>3, <1>15 DEF BestRecorded
  <1>17. /\ mapBlockIndex[Genesis].pos = GenesisPos /\ mapBlockIndex[Genesis].pprev = NoBlock
         /\ GenesisPos.nFile = 1
    BY <1>1 DEF GenesisPos
  <1>18. Real(Genesis)
    BY <1>1, <1>17 DEF Real
  <1>19. IndexPlaced
    BY <1>1, <1>12, <1>15, <1>17, <1>18 DEF IndexPlaced
  <1>20. BestReal
    BY <1>1, <1>10, <1>15, <1>18 DEF BestReal, FileInit
  <1> QED  BY <1>9, <1>10, <1>14, <1>16, <1>19, <1>20 DEF DiskInv

LEMMA PlaceInvNext == TypeInv /\ PlaceInv /\ [FileNext]_fileVars => PlaceInv'
  <1> SUFFICES ASSUME TypeInv, PlaceInv, [FileNext]_fileVars, powerFails' = 0
               PROVE  DiskInv' /\ IndexPlaced' /\ BestReal'
    BY DEF PlaceInv
  <1>1. CASE UNCHANGED fileVars
    <2>1. /\ file' = file /\ job' = job /\ torn' = torn /\ UNCHANGED memoryVars
          /\ UNCHANGED <<log, written>> /\ powerFails = 0
      BY <1>1 DEF fileVars, diskVars, faultVars
    <2>2. blkindex' = blkindex /\ Recoverable' \subseteq Recoverable
      BY <2>1, LogSame
    <2> QED  BY <2>1, <2>2, PlaceSame DEF PlaceInv
  <1>2. CASE PowerFailure
    BY <1>2 DEF PowerFailure, TypeInv, JobTypeOK
  <1>3. CASE ~PowerFailure /\ FileNext
    <2>1. powerFails = 0
      BY <1>3 DEF FileNext, AcceptBlock, UseReserved, Extend, NextFile, WriteBlockFileReserved,
                  WriteToDisk, FlushBlockFile, AddToBlockIndex, SetBestChain, Checkpoint, Kill,
                  AssertFails, LoadBlockIndex, Fails, faultVars
    <2>2. DiskInv /\ IndexPlaced /\ BestReal
      BY <2>1 DEF PlaceInv
    <2>3. CASE Checkpoint
      <3>1. file' = file /\ job' = job /\ torn' = torn /\ UNCHANGED memoryVars
        BY <2>3 DEF Checkpoint, faultVars
      <3>2. blkindex' = blkindex /\ Recoverable' \subseteq Recoverable
        BY <2>3, LogCheckpoint, RecoverableStates
      <3> QED  BY <2>2, <3>1, <3>2, PlaceSame
    <2> QED  BY <1>3, <2>2, <2>3, PlaceJob, PlaceQuiet, PlaceCrash, PlaceAdd, PlaceBest,
               PlaceLoad DEF FileNext
  <1> QED  BY <1>1, <1>2, <1>3

(* StoredWhole: whatever call fails and whatever part of the log a killed   *)
(* process loses, AppendBlockFile never gives a block the place of another, *)
(* and every block that has a record is whole in its file, but for one      *)
(* whose own fflush failed without FlushBlockFile noticing.                 *)
THEOREM RecordedBlocksAreWhole == FileSpec => []StoredWhole
  <1>1. TypeInv /\ PlaceInv => StoredWhole
    BY DEF PlaceInv, DiskInv, RecordsPlaced, Placed, Recoverable, StoredWhole
  <1> QED  BY <1>1, PlaceInit, PlaceInvNext, TypeInvariant, PTL DEF FileSpec
=============================================================================
