----------------------------- MODULE BlockFile -----------------------------
(***************************************************************************)
(* How a block gets to disk, and back into memory at the next start: the   *)
(* block files blk0001.dat, ... that AppendBlockFile extends in chunks,    *)
(* the number of reserved bytes and the index records in blkindex.dat, and *)
(* LoadBlockIndex.  A call may fail, the process may be killed and the     *)
(* power may fail at every step.                                           *)
(*                                                                         *)
(* All blocks are valid and have the same work; what else happens to a     *)
(* block is in NodeCore.  cs_main is held from AcceptBlock to the end.     *)
(* Bytes are cells, and the limits of a file are a few of them.  hashNext  *)
(* of a record is left out: a block of the best chain has a record.        *)
(***************************************************************************)
EXTENDS Integers, Sequences, FiniteSets, SequencesExt, FiniteSetsExt

CONSTANTS Block, Genesis, NoBlock,
          hashPrevBlock,           \* [Block -> Block \cup {NoBlock}]
          Size,                    \* nTotalSize of each block
          BLOCKFILE_MAX_SIZE, BLOCKFILE_CHUNK_SIZE,
          IsInitialBlockDownload,  \* whether the node is still in it
          SyncEvery,               \* 500: then it syncs at these heights only
          MayFail,                 \* the calls that may fail
          MaxFiles, MaxFails, MaxKills, MaxPowerFails  \* bounds

ASSUME FileAssumption ==
    /\ Genesis \in Block /\ NoBlock \notin Block
    /\ hashPrevBlock \in [Block -> Block \cup {NoBlock}]
    /\ hashPrevBlock[Genesis] = NoBlock
    /\ Size \in [Block -> 1..BLOCKFILE_MAX_SIZE]
    /\ BLOCKFILE_CHUNK_SIZE \in Size[Genesis]..BLOCKFILE_MAX_SIZE
    /\ IsInitialBlockDownload \in BOOLEAN /\ SyncEvery \in Nat \ {0}
    /\ MayFail \subseteq {"extend", "reserve", "write", "flush", "index", "best"}
    /\ MaxFiles \in Nat \ {0} /\ {MaxFails, MaxKills, MaxPowerFails} \subseteq Nat

Ancestors[b \in Block] ==
    {b} \cup IF hashPrevBlock[b] = NoBlock THEN {} ELSE Ancestors[hashPrevBlock[b]]

Depth[b \in Block] == IF hashPrevBlock[b] = NoBlock THEN 0 ELSE Depth[hashPrevBlock[b]] + 1

(* A block is made after its predecessor, so going back comes to an end. *)
ASSUME DepthAssumption ==
    \A b \in Block :
        /\ Depth[b] \in Nat
        /\ hashPrevBlock[b] # NoBlock => Depth[b] = Depth[hashPrevBlock[b]] + 1

File == 1..MaxFiles

Zero == <<NoBlock, 0>>

Zeros(n) == [i \in 1..n |-> Zero]

VARIABLES
    file,      \* file[f]: the cells of block file f
    synced,    \* synced[f]: those that survive a power failure
    log,       \* the states of blkindex.dat since the last checkpoint
    written,   \* log[written]: the last one the system was given to write
    mapBlockIndex, pindexBest, nCurrentBlockFile,  \* in memory
    job,       \* where AcceptBlock is
    fails, kills, powerFails,
    torn       \* history: the blocks that a failed fflush left incomplete

diskVars == <<file, synced, log, written>>
memoryVars == <<mapBlockIndex, pindexBest, nCurrentBlockFile>>
faultVars == <<fails, kills, powerFails, torn>>
fileVars == <<diskVars, memoryVars, job, faultVars>>

blkindex == Last(log)

Idle == [at |-> "idle"]
Down == [at |-> "down"]
Running == job.at \notin {"down", "refused"}

-----------------------------------------------------------------------------
(* The state after the genesis block was stored in a new data directory. *)

GenesisPos == [nFile |-> 1, nBlockPos |-> 0]

FileInit ==
    /\ file = [f \in File |-> IF f = 1 THEN [i \in 1..BLOCKFILE_CHUNK_SIZE |->
                                 IF i <= Size[Genesis] THEN <<Genesis, i>> ELSE Zero]
                              ELSE <<>>]
    /\ synced = file
    /\ log = <<[blockindex |-> [b \in {Genesis} |-> [pos |-> GenesisPos, nHeight |-> 0]],
                hashBestChain |-> Genesis,
                blkreserved |-> [f \in File |->
                    IF f = 1 THEN BLOCKFILE_CHUNK_SIZE - Size[Genesis] ELSE 0]]>>
    /\ written = 1
    /\ mapBlockIndex = [b \in {Genesis} |-> [pprev |-> NoBlock, pos |-> GenesisPos,
                                             nHeight |-> 0, bnChainWork |-> 1]]
    /\ pindexBest = Genesis /\ nCurrentBlockFile = 1
    /\ job = Idle
    /\ fails = 0 /\ kills = 0 /\ powerFails = 0 /\ torn = {}

(* ReadFromDisk of block b at pos succeeds and gives all of b. *)
ReadFromDisk(files, pos, b) ==
    /\ pos.nFile \in File
    /\ \A i \in 1..Size[b] : /\ pos.nBlockPos + i \in DOMAIN files[pos.nFile]
                             /\ files[pos.nFile][pos.nBlockPos + i] = <<b, i>>

(* What is read at pos begins with the header of b: ReadFromDisk checks no *)
(* more than that, and takes what follows for the transactions if it can.  *)
ReadHeader(files, pos, b) ==
    /\ pos.nFile \in File
    /\ pos.nBlockPos + 1 \in DOMAIN files[pos.nFile]
    /\ files[pos.nFile][pos.nBlockPos + 1] = <<b, 1>>

(* A call fails: AcceptBlock returns with what it has done so far. *)
Fails(call) ==
    /\ call \in MayFail /\ fails < MaxFails
    /\ fails' = fails + 1 /\ job' = Idle
    /\ UNCHANGED <<kills, powerFails, torn>>

(* Commit of a transaction (DB_TXN_NOSYNC), and Write outside of one       *)
(* (DB_TXN_WRITE_NOSYNC), which gives the log to the system.               *)
TxnCommit(d) == log' = Append(log, d) /\ UNCHANGED written
Write(d) == log' = Append(log, d) /\ written' = Len(log) + 1

-----------------------------------------------------------------------------
(* AcceptBlock *)

(* Mutant: the predecessor is not looked up. *)
AcceptBlock_AnyPrev(b) ==
    /\ job = Idle /\ b \notin DOMAIN mapBlockIndex
    /\ job' = [at |-> "append", b |-> b]
    /\ UNCHANGED <<diskVars, memoryVars, faultVars>>

(* A block after one that LoadBlockIndex made up (pprev NULL, nBits 0) has *)
(* "incorrect proof of work".                                              *)
AcceptBlock(b) ==
    /\ job = Idle /\ b \notin DOMAIN mapBlockIndex
    /\ hashPrevBlock[b] \in DOMAIN mapBlockIndex
    /\ mapBlockIndex[hashPrevBlock[b]].bnChainWork > 0
    /\ job' = [at |-> "append", b |-> b]
    /\ UNCHANGED <<diskVars, memoryVars, faultVars>>

reserved == blkindex.blkreserved[nCurrentBlockFile]
fileSize == Len(file[nCurrentBlockFile])
addedChunk == Max({BLOCKFILE_CHUNK_SIZE, Size[job.b] - reserved})

(* Where the block goes, and the reserved cells left after it. *)
Reserve(pos, left) ==
    job' = [at |-> "reserve", b |-> job.b, reserved |-> left,
            pos |-> [nFile |-> nCurrentBlockFile, nBlockPos |-> pos]]

(* There is room: fseek fails when the file is shorter than reserved. *)
UseReserved ==
    /\ job.at = "append" /\ Size[job.b] <= reserved
    /\ IF reserved <= fileSize THEN Reserve(fileSize - reserved, reserved - Size[job.b])
       ELSE job' = Idle
    /\ UNCHANGED <<diskVars, memoryVars, faultVars>>

ExtendBy(n) ==
    file' = [file EXCEPT ![nCurrentBlockFile] = @ \o Zeros(n)] /\ UNCHANGED <<synced, log, written>>

(* Mutant: what the block takes is still reserved. *)
Extend_KeepsReserved ==
    /\ job.at = "append" /\ Size[job.b] > reserved /\ fileSize >= reserved
    /\ fileSize + addedChunk <= BLOCKFILE_MAX_SIZE
    /\ ExtendBy(addedChunk)
    /\ Reserve(fileSize - reserved, reserved + addedChunk)
    /\ UNCHANGED <<memoryVars, faultVars>>

(* After assert (fileSize >= reserved). *)
Extend ==
    /\ job.at = "append" /\ Size[job.b] > reserved /\ fileSize >= reserved
    /\ fileSize + addedChunk <= BLOCKFILE_MAX_SIZE
    /\ \/ /\ ExtendBy(addedChunk)
          /\ Reserve(fileSize - reserved, reserved + addedChunk - Size[job.b])
          /\ UNCHANGED faultVars
       \/ Fails("extend") /\ \E n \in 0..(addedChunk - 1) : ExtendBy(n)
    /\ UNCHANGED memoryVars

NextFile ==
    /\ job.at = "append" /\ Size[job.b] > reserved /\ fileSize >= reserved
    /\ fileSize + addedChunk > BLOCKFILE_MAX_SIZE /\ nCurrentBlockFile < MaxFiles
    /\ nCurrentBlockFile' = nCurrentBlockFile + 1
    /\ UNCHANGED <<diskVars, mapBlockIndex, pindexBest, job, faultVars>>

WriteBlockFileReserved ==
    /\ job.at = "reserve"
    /\ \/ /\ Write([blkindex EXCEPT !.blkreserved[job.pos.nFile] = job.reserved])
          /\ job' = [at |-> "write", b |-> job.b, pos |-> job.pos, done |-> 0]
          /\ UNCHANGED faultVars
       \/ Fails("reserve") /\ UNCHANGED <<log, written>>
    /\ UNCHANGED <<file, synced, memoryVars>>

(* The next cell of the block gets from the buffer to the file, the last   *)
(* ones in fflush.                                                         *)
WriteToDisk ==
    /\ job.at = "write"
    /\ \/ LET i == job.done + 1
          IN  /\ file' = [file EXCEPT ![job.pos.nFile][job.pos.nBlockPos + i] = <<job.b, i>>]
              /\ job' = IF i = Size[job.b] THEN [at |-> "flush", b |-> job.b, pos |-> job.pos]
                        ELSE [job EXCEPT !.done = i]
              /\ UNCHANGED faultVars
       \/ Fails("write") /\ UNCHANGED file
    /\ UNCHANGED <<synced, log, written, memoryVars>>

(* The results of fflush and fsync are not looked at: the block goes on to *)
(* the index with the cells it had when the rest of the buffer could not   *)
(* be written, or with all of them and no fsync.                           *)
FlushBlockFile ==
    /\ \/ /\ job.at = "flush"
          /\ LET f == job.pos.nFile
                 fsync == \/ ~IsInitialBlockDownload
                          \/ (mapBlockIndex[pindexBest].nHeight + 1) % SyncEvery = 0
             IN  synced' = IF fsync THEN [synced EXCEPT ![f] = file[f]] ELSE synced
          /\ UNCHANGED faultVars
       \/ /\ job.at \in {"write", "flush"}
          /\ "flush" \in MayFail /\ fails < MaxFails
          /\ fails' = fails + 1
          /\ torn' = IF job.at = "write" THEN torn \cup {job.b} ELSE torn
          /\ UNCHANGED <<synced, kills, powerFails>>
    /\ job' = [at |-> "index", b |-> job.b, pos |-> job.pos]
    /\ UNCHANGED <<file, log, written, memoryVars>>

-----------------------------------------------------------------------------
(* The block index *)

NewIndex(b, pos) ==
    LET p == hashPrevBlock[b]
        prev == IF p \in DOMAIN mapBlockIndex THEN mapBlockIndex[p]
                ELSE [nHeight |-> -1, bnChainWork |-> 0]
    IN  [pprev |-> IF p \in DOMAIN mapBlockIndex THEN p ELSE NoBlock, pos |-> pos,
         nHeight |-> prev.nHeight + 1, bnChainWork |-> prev.bnChainWork + 1]

IndexWith(b, pos) ==
    [x \in DOMAIN mapBlockIndex \cup {b} |-> IF x = b THEN NewIndex(b, pos) ELSE mapBlockIndex[x]]

(* CDiskBlockIndex of what is in memory, as WriteBlockIndex writes it. *)
WriteBlockIndex(d, index, blocks) ==
    [d EXCEPT !.blockindex = [b \in DOMAIN @ \cup blocks |->
        IF b \in blocks THEN [pos |-> index[b].pos, nHeight |-> index[b].nHeight] ELSE @[b]]]

(* Mutant: no record is written. *)
AddToBlockIndex_NoRecord ==
    /\ job.at = "index"
    /\ LET b == job.b
           index == IndexWith(b, job.pos)
       IN  /\ mapBlockIndex' = index
           /\ job' = IF index[b].bnChainWork > index[pindexBest].bnChainWork
                     THEN [at |-> "best", b |-> b] ELSE Idle
    /\ UNCHANGED <<diskVars, pindexBest, nCurrentBlockFile, faultVars>>

(* The block is in mapBlockIndex, whether its record is or not. *)
AddToBlockIndex ==
    /\ job.at = "index"
    /\ LET b == job.b
           index == IndexWith(b, job.pos)
       IN  /\ mapBlockIndex' = index
           /\ \/ /\ TxnCommit(WriteBlockIndex(blkindex, index, {b}))
                 /\ job' = IF index[b].bnChainWork > index[pindexBest].bnChainWork
                           THEN [at |-> "best", b |-> b] ELSE Idle
                 /\ UNCHANGED faultVars
              \/ Fails("index") /\ UNCHANGED <<log, written>>
    /\ UNCHANGED <<file, synced, pindexBest, nCurrentBlockFile>>

(* The blocks on the way from b back along pprev, up to one without. *)
Branch(index, b) ==
    {a \in Ancestors[b] : \A c \in Ancestors[b] \ {a} :
        a \in Ancestors[c] => c \in DOMAIN index /\ index[c].pprev # NoBlock}

(* Reorganize needs a common block, and reads every block it disconnects or *)
(* connects; the records of their predecessors are written with them.       *)
(* ConnectBlock checks the whole block, DisconnectBlock nothing: what it    *)
(* makes of a torn block is open, and so is whether a transaction that is   *)
(* spent can be read when a block of the chain is torn.                     *)
SetBestChain ==
    /\ job.at = "best"
    /\ LET new == Branch(mapBlockIndex, job.b)
           old == Branch(mapBlockIndex, pindexBest)
           moved == (new \ old) \cup (old \ new)
           Whole(b) == ReadFromDisk(file, mapBlockIndex[b].pos, b)
           possible == \/ hashPrevBlock[job.b] = pindexBest
                       \/ /\ new \cap old # {}
                          /\ \A b \in new \ old : Whole(b)
                          /\ \A b \in old \ new : ReadHeader(file, mapBlockIndex[b].pos, b)
           sure == possible /\ \A b \in new \cup old : Whole(b)
       IN  \/ /\ possible
              /\ TxnCommit([WriteBlockIndex(blkindex, mapBlockIndex,
                                            {mapBlockIndex[b].pprev : b \in moved} \ {NoBlock})
                              EXCEPT !.hashBestChain = job.b])
              /\ pindexBest' = job.b /\ job' = Idle
              /\ UNCHANGED faultVars
           \/ ~sure /\ job' = Idle /\ UNCHANGED <<log, written, pindexBest, faultVars>>
           \/ possible /\ Fails("best") /\ UNCHANGED <<log, written, pindexBest>>
    /\ UNCHANGED <<file, synced, mapBlockIndex, nCurrentBlockFile>>

-----------------------------------------------------------------------------
(* Checkpoint, crash and restart *)

(* txn_checkpoint, which every thread that closes a database may make. *)
Checkpoint ==
    /\ Len(log) > 1
    /\ log' = <<blkindex>> /\ written' = 1
    /\ UNCHANGED <<file, synced, memoryVars, job, faultVars>>

Forgets ==
    job' = Down /\ mapBlockIndex' = <<>> /\ pindexBest' = NoBlock /\ nCurrentBlockFile' = 1

(* Recovery of the database ends with a checkpoint. *)
RecoversFrom(states) == written' = 1 /\ \E i \in states : log' = <<log[i]>>

Kill ==
    /\ Running /\ kills < MaxKills
    /\ kills' = kills + 1
    /\ Forgets /\ RecoversFrom(written..Len(log))
    /\ UNCHANGED <<file, synced, fails, powerFails, torn>>

(* assert (fileSize >= reserved) *)
AssertFails ==
    /\ job.at = "append" /\ Size[job.b] > reserved /\ fileSize < reserved
    /\ Forgets /\ RecoversFrom(written..Len(log))
    /\ UNCHANGED <<file, synced, faultVars>>

(* What may be left of the files: any part of what was written since they  *)
(* were last synced, each with its old length or the new one.              *)
Old(f, i) == IF i \in DOMAIN synced[f] THEN synced[f][i] ELSE Zero

Changed == UNION {{<<f, i>> : i \in {k \in DOMAIN file[f] : file[f][k] # Old(f, k)}} : f \in File}

Torn(kept, grown) ==
    [f \in File |-> [i \in 1..Len(IF f \in grown THEN file[f] ELSE synced[f]) |->
        IF <<f, i>> \in kept THEN file[f][i] ELSE Old(f, i)]]

PowerFailure ==
    /\ powerFails < MaxPowerFails
    /\ powerFails' = powerFails + 1
    /\ Forgets /\ RecoversFrom(1..Len(log))
    /\ \E kept \in SUBSET Changed, grown \in SUBSET {f \in File : Len(file[f]) # Len(synced[f])} :
          file' = Torn(kept, grown) /\ synced' = Torn(kept, grown)
    /\ UNCHANGED <<fails, kills, torn>>

(* The recorded blocks on the way back from b, up to one without a record: *)
(* bnChainWork is calculated from them.                                    *)
Connected(rec, b) ==
    {a \in Ancestors[b] : \A c \in Ancestors[b] : a \in Ancestors[c] => c \in DOMAIN rec}

(* Every block a record names is in the index: one that has no record is  *)
(* empty.                                                                  *)
LoadedIndex(rec) ==
    [b \in (DOMAIN rec \cup {hashPrevBlock[b] : b \in DOMAIN rec}) \ {NoBlock} |->
        IF b \in DOMAIN rec
        THEN [pprev |-> hashPrevBlock[b], pos |-> rec[b].pos, nHeight |-> rec[b].nHeight,
              bnChainWork |-> Cardinality(Connected(rec, b))]
        ELSE [pprev |-> NoBlock, pos |-> [nFile |-> 0, nBlockPos |-> 0],
              nHeight |-> 0, bnChainWork |-> 0]]

(* The blocks of the best chain are read and checked.  When one of them    *)
(* cannot be read the node does not start; when one is bad but was read,   *)
(* SetBestChain goes back to the block before the lowest such one, or      *)
(* fails, which is not looked at.  The records it writes are those loaded. *)
LoadBlockIndex ==
    /\ job.at = "down"
    /\ LET index == LoadedIndex(blkindex.blockindex)
           best == blkindex.hashBestChain
           toVerify == {b \in Branch(index, best) : index[b].pprev # NoBlock}
           bad == {b \in toVerify : ~ReadFromDisk(file, index[b].pos, b)}
           Lowest(b) == \A c \in bad : b \in Ancestors[c]
       IN  /\ mapBlockIndex' = index
           /\ \/ /\ bad = {}
                 /\ job' = Idle /\ pindexBest' = best /\ UNCHANGED <<log, written>>
              \/ /\ bad # {}
                 /\ job' = [at |-> "refused"] /\ pindexBest' = best /\ UNCHANGED <<log, written>>
              \/ /\ \A b \in bad : ReadHeader(file, index[b].pos, b)
                 /\ \E b \in bad : LET pindexFork == index[b].pprev IN
                       /\ Lowest(b) /\ ReadHeader(file, index[pindexFork].pos, pindexFork)
                       /\ job' = Idle
                       /\ \/ /\ TxnCommit([blkindex EXCEPT !.hashBestChain = pindexFork])
                             /\ pindexBest' = pindexFork
                          \/ pindexBest' = best /\ UNCHANGED <<log, written>>
    /\ UNCHANGED <<file, synced, nCurrentBlockFile, faultVars>>

FileNext ==
    \/ \E b \in Block : AcceptBlock(b)
    \/ UseReserved \/ Extend \/ NextFile \/ WriteBlockFileReserved \/ WriteToDisk \/ FlushBlockFile
    \/ AddToBlockIndex \/ SetBestChain
    \/ Checkpoint \/ Kill \/ AssertFails \/ PowerFailure \/ LoadBlockIndex

FileSpec == FileInit /\ [][FileNext]_fileVars

-----------------------------------------------------------------------------
(* FileTypeOK: positions are in the files, and the reserved cells of a file *)
(* are never more than it has while only processes are killed.              *)
FileTypeOK ==
    /\ \A f \in File : Len(file[f]) <= BLOCKFILE_MAX_SIZE /\ Len(synced[f]) <= Len(file[f])
    /\ written \in 1..Len(log)
    /\ blkindex.hashBestChain \in DOMAIN blkindex.blockindex
    /\ Running => pindexBest \in DOMAIN mapBlockIndex
    /\ powerFails = 0 => \A f \in File : blkindex.blkreserved[f] <= Len(file[f])

(* StoredWhole: every block that has a record is whole at the place its    *)
(* record says, in every state of the database the node may come back to,  *)
(* unless its own fflush failed, which FlushBlockFile does not notice:     *)
(* AppendBlockFile never gives a block the place of another, whatever call *)
(* failed and whatever part of the log was lost, as long as the machine    *)
(* itself stays up.                                                        *)
StoredWhole ==
    powerFails = 0 => \A i \in written..Len(log) : \A b \in DOMAIN log[i].blockindex \ torn :
        ReadFromDisk(file, log[i].blockindex[b].pos, b)

(* TreeRootedAtGenesis: "The block chain is a tree shaped structure        *)
(* starting with the genesis block at the root" (CBlockIndex), with the    *)
(* heights and the work that follow from it, also after LoadBlockIndex and *)
(* a power failure, as long as no call has failed.                         *)
TreeRootedAtGenesis ==
    Running /\ fails = 0 => \A b \in DOMAIN mapBlockIndex :
        IF b = Genesis THEN mapBlockIndex[b].nHeight = 0
        ELSE LET p == mapBlockIndex[b].pprev
             IN  /\ p = hashPrevBlock[b] /\ p \in DOMAIN mapBlockIndex
                 /\ mapBlockIndex[b].nHeight = mapBlockIndex[p].nHeight + 1
                 /\ mapBlockIndex[b].bnChainWork = mapBlockIndex[p].bnChainWork + 1

(* AppendsOnly: "Append to a splitting block history file" that overwrites *)
(* nothing but "reserved bytes" (AppendBlockFile): writing a block leaves  *)
(* every other block that has a record as it was.                          *)
AppendsOnly ==
    [][job.at = "write" /\ Running' =>
         \A b \in DOMAIN blkindex.blockindex :
            ReadFromDisk(file, blkindex.blockindex[b].pos, b)
              => ReadFromDisk(file', blkindex.blockindex[b].pos, b)]_fileVars
=============================================================================
