----------------------------- MODULE WalletFile -----------------------------
(***************************************************************************)
(* The use of the database files by the threads of the node (db.cpp): the  *)
(* use counts, the thread that flushes wallet.dat, BackupWallet, the       *)
(* rewriting of wallet.dat at the end of EncryptWallet, and Shutdown.      *)
(*                                                                         *)
(* What a thread does with the locks and the files is a sequence of        *)
(* instructions, in the order of the code: "main" and "wallet" enter       *)
(* cs_main and cs_wallet, "-main" and "-wallet" leave them, "open" and     *)
(* "close" are the constructor of a CDB and CDB::Close, "count" is         *)
(* nWalletDBUpdated++ and "put" the write that follows it.  Everything     *)
(* done under cs_db is one step, except the rewriting.                     *)
(***************************************************************************)
EXTENDS Integers, Sequences, FiniteSets

CONSTANTS Thread,     \* threads that use the wallet and the block index
          Nobody,
          Paths,      \* the call paths each thread takes
          MaxUpdates  \* how often the wallet is written

ASSUME WalletFileAssumption ==
    /\ Nobody \notin Thread /\ MaxUpdates \in Nat /\ IsFiniteSet(Thread)

File == {"wallet", "blkindex"}
Lock == {"main", "wallet"}

VARIABLES
    run,               \* the instructions each thread has still to carry out
    owner,             \* who holds cs_main and cs_wallet
    mapFileUseCount,
    mapDb,             \* files with an open Db handle
    uses,              \* files each thread has a CDB for
    nWalletDBUpdated, nLastFlushed,
    written, dat,      \* writes to the wallet, and those moved to the dat file
    rewriter,          \* who holds cs_db for the rewriting
    files,             \* wallet files on disk: the dat file and its new copy
    nEncrypted,        \* calls of EncryptWallet that have finished
    nRewritten,        \* ... and those that have rewritten the file
    fShutdown, stop

vars == <<run, owner, mapFileUseCount, mapDb, uses, nWalletDBUpdated, nLastFlushed,
          written, dat, rewriter, files, nEncrypted, nRewritten, fShutdown, stop>>
dataVars == <<nWalletDBUpdated, nLastFlushed, written, dat>>
rewriteVars == <<rewriter, files, nRewritten>>
stopVars == <<fShutdown, stop>>

(* Call paths.  Transactions that reach the wallet from a block or from the *)
(* network (SyncWithWallets), CommitTransaction, ReserveKeyFromKeyPool:     *)
UpdateWallet == <<"main", "wallet", "open", "count", "put", "close", "-wallet", "-main">>

(* CWallet::SetBestChain, called at the end of SetBestChain under cs_main. *)
SetBestChain == <<"main", "open", "count", "put", "close", "-main">>

(* Mutant: cs_main is not left. *)
UseBlockIndex_KeepsLock == <<"main", "openb", "closeb">>

(* ConnectBlock and everything else that opens a DatabaseSet. *)
UseBlockIndex == <<"main", "openb", "closeb", "-main">>

(* CWallet::KeepKey opens the wallet and then waits for cs_main. *)
KeepKey == <<"open", "main", "count", "put", "-main", "close">>

(* GetAccountBalance and listtransactions open the wallet and then wait for *)
(* cs_wallet.                                                               *)
ReadAccount == <<"open", "wallet", "-wallet", "close">>

(* Mutant: the file is rewritten before the database is closed. *)
EncryptWallet_StillOpen ==
    <<"wallet", "open", "count", "put", "rewrite", "close", "-wallet", "encrypted">>

EncryptWallet == <<"wallet", "open", "count", "put", "close", "rewrite", "-wallet", "encrypted">>

BackupWallet == <<"backup">>

ASSUME PathsAssumption ==
    Paths \in [Thread -> SUBSET {UpdateWallet, SetBestChain, UseBlockIndex, KeepKey, ReadAccount,
                                 EncryptWallet, BackupWallet}]

Init ==
    /\ run = [t \in Thread |-> <<>>] /\ owner = [l \in Lock |-> Nobody]
    /\ mapFileUseCount = [f \in File |-> 0] /\ mapDb = {}
    /\ uses = [t \in Thread |-> {}]
    /\ nWalletDBUpdated = 0 /\ nLastFlushed = 0 /\ written = 0 /\ dat = 0
    /\ rewriter = Nobody /\ files = {"wallet.dat"}
    /\ nEncrypted = 0 /\ nRewritten = 0 /\ fShutdown = FALSE /\ stop = "no"

-----------------------------------------------------------------------------
(* One instruction of a thread                                              *)

Leave == [main |-> "-main", wallet |-> "-wallet"]

At(t, i) == run[t] # <<>> /\ Head(run[t]) = i
Step(t) == run' = [run EXCEPT ![t] = Tail(@)]

dbFree == rewriter = Nobody

(* A thread takes up its next call.  The wallet is encrypted once. *)
Begin(t) ==
    /\ run[t] = <<>> /\ ~fShutdown
    /\ \E p \in Paths[t] :
          /\ \A i \in 1..Len(p) : p[i] = "count" => nWalletDBUpdated < MaxUpdates
          /\ p = EncryptWallet => nEncrypted = 0
                                  /\ \A u \in Thread : \A i \in 1..Len(run[u]) :
                                        run[u][i] # "encrypted"
          /\ run' = [run EXCEPT ![t] = p]
    /\ UNCHANGED <<owner, mapFileUseCount, mapDb, uses, dataVars, rewriteVars, nEncrypted,
                   stopVars>>

Enter(t) ==
    /\ \E l \in Lock : /\ At(t, l) /\ owner[l] = Nobody
                       /\ owner' = [owner EXCEPT ![l] = t]
    /\ Step(t)
    /\ UNCHANGED <<mapFileUseCount, mapDb, uses, dataVars, rewriteVars, nEncrypted, stopVars>>

LeaveLock(t) ==
    /\ \E l \in Lock : /\ At(t, Leave[l])
                       /\ owner' = [owner EXCEPT ![l] = Nobody]
    /\ Step(t)
    /\ UNCHANGED <<mapFileUseCount, mapDb, uses, dataVars, rewriteVars, nEncrypted, stopVars>>

(* The file an "open" or a "close" is about. *)
FileOf(i) == IF i \in {"openb", "closeb"} THEN "blkindex" ELSE "wallet"

(* CDB::CDB: the count first, then the handle. *)
OpenDb(t) ==
    /\ At(t, "open") \/ At(t, "openb")
    /\ dbFree
    /\ LET f == FileOf(Head(run[t]))
       IN  /\ mapFileUseCount' = [mapFileUseCount EXCEPT ![f] = @ + 1]
           /\ mapDb' = mapDb \cup {f}
           /\ uses' = [uses EXCEPT ![t] = @ \cup {f}]
    /\ Step(t)
    /\ UNCHANGED <<owner, dataVars, rewriteVars, nEncrypted, stopVars>>

(* Mutant: the count stays. *)
Close_KeepsCount(t) ==
    /\ At(t, "close") \/ At(t, "closeb")
    /\ dbFree
    /\ uses' = [uses EXCEPT ![t] = @ \ {FileOf(Head(run[t]))}]
    /\ Step(t)
    /\ UNCHANGED <<owner, mapFileUseCount, mapDb, dataVars, rewriteVars, nEncrypted, stopVars>>

(* CDB::Close leaves the handle to the next user. *)
Close(t) ==
    /\ At(t, "close") \/ At(t, "closeb")
    /\ dbFree
    /\ LET f == FileOf(Head(run[t]))
       IN  /\ mapFileUseCount' = [mapFileUseCount EXCEPT ![f] = @ - 1]
           /\ uses' = [uses EXCEPT ![t] = @ \ {f}]
    /\ Step(t)
    /\ UNCHANGED <<owner, mapDb, dataVars, rewriteVars, nEncrypted, stopVars>>

(* A write of CWalletDB: the counter, then the record. *)
Count(t) ==
    /\ At(t, "count")
    /\ nWalletDBUpdated' = nWalletDBUpdated + 1
    /\ Step(t)
    /\ UNCHANGED <<owner, mapFileUseCount, mapDb, uses, nLastFlushed, written, dat,
                   rewriteVars, nEncrypted, stopVars>>

Put(t) ==
    /\ At(t, "put")
    /\ written' = written + 1
    /\ Step(t)
    /\ UNCHANGED <<owner, mapFileUseCount, mapDb, uses, nWalletDBUpdated, nLastFlushed, dat,
                   rewriteVars, nEncrypted, stopVars>>

EncryptReturns(t) ==
    /\ At(t, "encrypted")
    /\ nEncrypted' = nEncrypted + 1
    /\ Step(t)
    /\ UNCHANGED <<owner, mapFileUseCount, mapDb, uses, dataVars, rewriteVars, stopVars>>

-----------------------------------------------------------------------------
(* Flushing, copying and rewriting the wallet                               *)

(* Mutant: the file may be in use. *)
NotInUse_Always(f) == TRUE

NotInUse(f) == mapFileUseCount[f] = 0

(* CloseDb, txn_checkpoint and lsn_reset: the dat file is self-contained.   *)
FlushWallet == mapDb' = mapDb \ {"wallet"} /\ dat' = written

(* ThreadFlushWalletDB, two seconds after the last update. *)
ThreadFlushWalletDB ==
    /\ ~fShutdown /\ dbFree
    /\ nLastFlushed # nWalletDBUpdated
    /\ \A f \in File : NotInUse(f)
    /\ FlushWallet /\ nLastFlushed' = nWalletDBUpdated
    /\ UNCHANGED <<run, owner, mapFileUseCount, uses, nWalletDBUpdated, written, rewriteVars,
                   nEncrypted, stopVars>>

(* BackupWallet tries until the file is not in use, or the node stops. *)
Backup(t) ==
    /\ At(t, "backup") /\ dbFree
    /\ \/ fShutdown /\ UNCHANGED <<mapDb, dat>>
       \/ ~fShutdown /\ NotInUse("wallet") /\ FlushWallet
    /\ Step(t)
    /\ UNCHANGED <<owner, mapFileUseCount, uses, nWalletDBUpdated, nLastFlushed, written,
                   rewriteVars, nEncrypted, stopVars>>

(* CDB::Rewrite begins once the file is not in use ... *)
RewriteBegins(t) ==
    /\ At(t, "rewrite") /\ dbFree /\ ~fShutdown /\ NotInUse("wallet")
    /\ FlushWallet /\ rewriter' = t
    /\ UNCHANGED <<run, owner, mapFileUseCount, uses, nWalletDBUpdated, nLastFlushed, written,
                   files, nRewritten, nEncrypted, stopVars>>

(* ... or gives up when the node stops. *)
RewriteGivesUp(t) ==
    /\ At(t, "rewrite") /\ dbFree /\ fShutdown
    /\ Step(t)
    /\ UNCHANGED <<owner, mapFileUseCount, mapDb, uses, dataVars, rewriteVars, nEncrypted, stopVars>>

(* The copy is made, or cannot be made and is left behind incomplete. *)
RewriteCopies(t) ==
    /\ rewriter = t /\ files = {"wallet.dat"}
    /\ \E c \in {"wallet.dat.rewrite", "partial copy"} : files' = files \cup {c}
    /\ UNCHANGED <<run, owner, mapFileUseCount, mapDb, uses, dataVars, rewriter, nRewritten,
                   nEncrypted, stopVars>>

(* Mutant: the file is removed whether or not the copy is complete. *)
RewriteRemoves_Any(t) ==
    /\ rewriter = t /\ "wallet.dat" \in files /\ files # {"wallet.dat"}
    /\ files' = files \ {"wallet.dat"}
    /\ UNCHANGED <<run, owner, mapFileUseCount, mapDb, uses, dataVars, rewriter, nRewritten,
                   nEncrypted, stopVars>>

RewriteRemoves(t) ==
    /\ rewriter = t /\ files = {"wallet.dat", "wallet.dat.rewrite"}
    /\ files' = {"wallet.dat.rewrite"}
    /\ UNCHANGED <<run, owner, mapFileUseCount, mapDb, uses, dataVars, rewriter, nRewritten,
                   nEncrypted, stopVars>>

RewriteRenames(t) ==
    /\ rewriter = t /\ files = {"wallet.dat.rewrite"}
    /\ files' = {"wallet.dat"} /\ rewriter' = Nobody /\ nRewritten' = nRewritten + 1
    /\ Step(t)
    /\ UNCHANGED <<owner, mapFileUseCount, mapDb, uses, dataVars, nEncrypted, stopVars>>

(* "Rewriting FAILED": EncryptWallet does not look at the result. *)
RewriteFails(t) ==
    /\ rewriter = t /\ "partial copy" \in files
    /\ rewriter' = Nobody
    /\ Step(t)
    /\ UNCHANGED <<owner, mapFileUseCount, mapDb, uses, dataVars, files, nRewritten, nEncrypted,
                   stopVars>>

-----------------------------------------------------------------------------
(* Shutdown                                                                 *)

Shutdown ==
    /\ ~fShutdown /\ fShutdown' = TRUE /\ stop' = "flush"
    /\ UNCHANGED <<run, owner, mapFileUseCount, mapDb, uses, dataVars, rewriteVars, nEncrypted>>

(* DBFlush moves the files that are not in use; the counts of those are     *)
(* erased, which is the same as zero.                                       *)
DBFlush ==
    /\ dbFree
    /\ mapDb' = {f \in mapDb : ~NotInUse(f)}
    /\ dat' = IF NotInUse("wallet") THEN written ELSE dat
    /\ UNCHANGED <<run, owner, mapFileUseCount, uses, nWalletDBUpdated, nLastFlushed, written,
                   rewriteVars, nEncrypted, fShutdown>>

ShutdownFlush == stop = "flush" /\ DBFlush /\ stop' = "wait"

(* Mutant: Shutdown does not wait for the threads. *)
ThreadsStopped_No == TRUE

(* StopNode waits for the message handler and the RPC server. *)
ThreadsStopped == \A t \in Thread : run[t] = <<>>

(* DBFlush(true) closes the environment. *)
ShutdownClose == stop = "wait" /\ ThreadsStopped /\ DBFlush /\ stop' = "closed"

-----------------------------------------------------------------------------
ThreadStep(t) ==
    \/ Enter(t) \/ LeaveLock(t) \/ OpenDb(t) \/ Close(t) \/ Count(t) \/ Put(t)
    \/ EncryptReturns(t) \/ Backup(t)
    \/ RewriteBegins(t) \/ RewriteGivesUp(t) \/ RewriteCopies(t) \/ RewriteRemoves(t)
    \/ RewriteRenames(t) \/ RewriteFails(t)

Next ==
    \/ \E t \in Thread : Begin(t) \/ ThreadStep(t)
    \/ ThreadFlushWalletDB
    \/ Shutdown \/ ShutdownFlush \/ ShutdownClose

(* A thread that could go on again and again does so: a lock is handed on   *)
(* in the end, and a loop that looks every 100 ms finds the file free.      *)
Spec ==
    /\ Init /\ [][Next]_vars
    /\ \A t \in Thread : SF_vars(ThreadStep(t))
    /\ WF_vars(ThreadFlushWalletDB) /\ WF_vars(ShutdownFlush) /\ WF_vars(ShutdownClose)

-----------------------------------------------------------------------------
WalletFileTypeOK ==
    /\ owner \in [Lock -> Thread \cup {Nobody}] /\ rewriter \in Thread \cup {Nobody}
    /\ mapFileUseCount \in [File -> 0..Cardinality(Thread)]
    /\ mapDb \subseteq File /\ uses \in [Thread -> SUBSET File]
    /\ nWalletDBUpdated \in 0..(MaxUpdates + Cardinality(Thread))
    /\ nLastFlushed \in 0..nWalletDBUpdated /\ written \in 0..nWalletDBUpdated /\ dat \in 0..written
    /\ nEncrypted \in 0..1 /\ nRewritten \in 0..1
    /\ fShutdown \in BOOLEAN /\ stop \in {"no", "flush", "wait", "closed"}

(* The flush thread, a backup, the rewriting and Shutdown never close the   *)
(* Db handle a CDB object is working with, and the environment is closed    *)
(* only when nobody uses a file.                                            *)
HandleInUseStaysOpen ==
    \A t \in Thread : uses[t] \subseteq mapDb /\ (stop = "closed" => uses[t] = {})

(* When the flush thread thinks it has nothing to do, every write is in the *)
(* dat file: no update slips in between the flush and its bookkeeping.      *)
FlushedIsFlushed == nLastFlushed = nWalletDBUpdated => dat = written

(* Whenever the process dies, the whole wallet is in one of the files.      *)
WalletSomewhere == files \cap {"wallet.dat", "wallet.dat.rewrite"} # {}

(* "Need to completely rewrite the wallet file; if we don't, bdb might keep *)
(* bits of the unencrypted private key in slack space" (wallet.cpp 1681):   *)
(* when EncryptWallet has returned, the file was rewritten.                 *)
EncryptedMeansRewritten == nEncrypted = 1 => nRewritten = 1

(* EncryptWallet comes to an end: no thread with the wallet open waits for  *)
(* a lock that hangs on the rewriting.                                      *)
EncryptEnds ==
    \A t \in Thread : At(t, "rewrite") ~> ~At(t, "rewrite")

(* ... and so does a backup, and the node stops when it is told to.         *)
BackupEnds == \A t \in Thread : At(t, "backup") ~> ~At(t, "backup")
ShutdownEnds == fShutdown ~> stop = "closed"
=============================================================================
