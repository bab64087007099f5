------------------------------ MODULE KeyPool ------------------------------
(***************************************************************************)
(* The key pool of the wallet (wallet.cpp), its records in wallet.dat, and *)
(* the encryption of the wallet, which flushes the pool.                   *)
(*                                                                         *)
(* ReserveKeyFromKeyPool, ReturnKey and EncryptWallet run under cs_wallet; *)
(* busy says which of them holds it and how far it is.  KeepKey takes      *)
(* cs_main only, which ReserveKeyFromKeyPool holds too and EncryptWallet   *)
(* does not; walletlock and the unlock timer take neither.  Every write to *)
(* wallet.dat outside a database transaction commits by itself             *)
(* (DB_AUTO_COMMIT), so a crash may fall between any two of them.          *)
(***************************************************************************)
EXTENDS Integers, FiniteSets, FiniteSetsExt

CONSTANTS Key,         \* key pairs
          Holder,      \* CReserveKey objects and calls of GetKeyFromKeyPool
          NoKey, Nobody,
          nTargetSize, \* -keypool
          Encrypts,    \* does the user ever call encryptwallet?
          MaxRestarts

ASSUME KeyPoolAssumption ==
    /\ nTargetSize \in Nat /\ NoKey \notin Key /\ Nobody \notin Holder /\ IsFiniteSet(Key)
    /\ Encrypts \in BOOLEAN /\ MaxRestarts \in Nat

(* A new index goes with a new key, so there are no more of them. *)
Index == 1..Cardinality(Key)

VARIABLES
    setKeyPool,   \* indices of the pool, in memory
    pool,         \* the "pool" records of wallet.dat
    keyRec,       \* the "key" and "ckey" records of wallet.dat
    mkey,         \* the "mkey" record: the wallet on disk is encrypted
    fUseCrypto,   \* the wallet in memory is encrypted
    fLocked,      \* ... and vMasterKey is empty
    mapKeys,      \* keys in memory, plain or encrypted
    reserved,     \* CReserveKey: nIndex (-1 when there is none) and vchPubKey
    used,         \* keys shown to somebody: history
    preKeys,      \* keys of the wallet when EncryptWallet began, unless it failed: history
    busy, who,    \* the operation that holds cs_wallet, and the holder it serves
    newKey,       \* GenerateNewKey has returned it, WritePool has not run yet
    nFill,        \* NewKeyPool has written this many records
    restarts

vars == <<setKeyPool, pool, keyRec, mkey, fUseCrypto, fLocked, mapKeys, reserved, used, preKeys,
          busy, who, newKey, nFill, restarts>>
diskVars == <<pool, keyRec, mkey>>
cryptVars == <<fUseCrypto, fLocked>>
history == <<used, preKeys>>

None == [nIndex |-> -1, vchPubKey |-> NoKey]

(* A new wallet.dat. *)
Init ==
    /\ setKeyPool = {} /\ pool = [i \in Index |-> NoKey]
    /\ keyRec = [k \in Key |-> "none"] /\ mkey = FALSE
    /\ fUseCrypto = FALSE /\ fLocked = FALSE /\ mapKeys = {}
    /\ reserved = [h \in Holder |-> None] /\ used = {} /\ preKeys = {}
    /\ busy = "no" /\ who = Nobody /\ newKey = NoKey /\ nFill = 0 /\ restarts = 0

IsLocked == fUseCrypto /\ fLocked

-----------------------------------------------------------------------------
(* GenerateNewKey: CKeyStore::AddKey and the record of the key.             *)

(* Mutant: the key is not written to the file. *)
KeyRecord_Missing(k) == keyRec

KeyRecord(k) == [keyRec EXCEPT ![k] = IF fUseCrypto THEN "ckey" ELSE "key"]

Fresh == {k \in Key : keyRec[k] = "none"} \ mapKeys

AddKey(k) ==
    /\ k \in Fresh
    /\ mapKeys' = mapKeys \cup {k} /\ keyRec' = KeyRecord(k) /\ newKey' = k

(* Mutant: the first index is 0. *)
nEnd_FromZero == IF setKeyPool = {} THEN 0 ELSE Max(setKeyPool) + 1

(* The index a key is added under when the pool is topped up. *)
nEnd == IF setKeyPool = {} THEN 1 ELSE Max(setKeyPool) + 1

WritePool(i) ==
    /\ newKey # NoKey
    /\ pool' = [pool EXCEPT ![i] = newKey]
    /\ setKeyPool' = setKeyPool \cup {i} /\ newKey' = NoKey

(* The operation that holds cs_wallet returns or throws. *)
Leave == busy' = "no" /\ who' = Nobody /\ newKey' = NoKey /\ nFill' = 0

-----------------------------------------------------------------------------
(* ReserveKeyFromKeyPool                                                    *)

(* It looks at IsLocked once, before it tops the pool up.                   *)
ReserveKeyFromKeyPool(h) ==
    /\ busy = "no" /\ reserved[h] = None
    /\ busy' = IF IsLocked THEN "take" ELSE "topup"
    /\ who' = h
    /\ UNCHANGED <<setKeyPool, diskVars, cryptVars, mapKeys, reserved, history, newKey,
                   nFill, restarts>>

(* Mutant: the pool is topped up to -keypool, not to one more. *)
TopUpDone_Exact == Cardinality(setKeyPool) >= nTargetSize

TopUpDone == Cardinality(setKeyPool) >= nTargetSize + 1

TopUpKey ==
    /\ busy = "topup" /\ ~TopUpDone /\ newKey = NoKey /\ ~IsLocked
    /\ \E k \in Key : AddKey(k)
    /\ UNCHANGED <<setKeyPool, pool, mkey, cryptVars, reserved, history, busy, who,
                   nFill, restarts>>

(* The wallet was locked meanwhile: AddKey fails and GenerateNewKey throws. *)
TopUpThrows ==
    /\ busy = "topup" /\ ~TopUpDone /\ newKey = NoKey /\ IsLocked
    /\ Leave
    /\ UNCHANGED <<setKeyPool, diskVars, cryptVars, mapKeys, reserved, history, restarts>>

TopUpPool ==
    /\ busy = "topup" /\ WritePool(nEnd)
    /\ UNCHANGED <<keyRec, mkey, cryptVars, mapKeys, reserved, history, busy, who,
                   nFill, restarts>>

(* Mutant: the newest key is taken. *)
Oldest_Newest == Max(setKeyPool)

Oldest == Min(setKeyPool)

(* The oldest key is taken; a record that cannot be read or an unknown key *)
(* is an error, and its index is lost.                                     *)
TakeKey ==
    /\ busy = "take" \/ (busy = "topup" /\ TopUpDone /\ newKey = NoKey)
    /\ setKeyPool # {}
    /\ setKeyPool' = setKeyPool \ {Oldest}
    /\ reserved' = IF pool[Oldest] \in mapKeys
                   THEN [reserved EXCEPT ![who] = [nIndex |-> Oldest, vchPubKey |-> pool[Oldest]]]
                   ELSE reserved
    /\ Leave
    /\ UNCHANGED <<diskVars, cryptVars, mapKeys, history, restarts>>

(* The wallet is locked and the pool is empty: an error. *)
PoolIsEmpty ==
    /\ busy = "take" /\ setKeyPool = {}
    /\ Leave
    /\ UNCHANGED <<setKeyPool, diskVars, cryptVars, mapKeys, reserved, history, restarts>>

(* Mutant: the record stays in the wallet file. *)
ErasePool_Forgets(i) == pool

ErasePool(i) == [pool EXCEPT ![i] = NoKey]

(* CReserveKey::KeepKey, after which the key is shown (an address, a change *)
(* output, a coinbase).                                                     *)
KeepKey(h) ==
    /\ reserved[h] # None /\ busy \notin {"topup", "take"}
    /\ pool' = ErasePool(reserved[h].nIndex)
    /\ used' = used \cup {reserved[h].vchPubKey}
    /\ reserved' = [reserved EXCEPT ![h] = None]
    /\ UNCHANGED <<setKeyPool, keyRec, mkey, cryptVars, mapKeys, busy, who, newKey,
                   nFill, restarts, preKeys>>

ReturnKey(h) ==
    /\ reserved[h] # None /\ busy = "no"
    /\ setKeyPool' = setKeyPool \cup {reserved[h].nIndex}
    /\ reserved' = [reserved EXCEPT ![h] = None]
    /\ UNCHANGED <<diskVars, cryptVars, mapKeys, history, busy, who, newKey, nFill,
                   restarts>>

-----------------------------------------------------------------------------
(* EncryptWallet, and NewKeyPool at its end                                 *)

(* The keys in memory are encrypted; the master key and the "ckey" records *)
(* are in a database transaction.  LoadWallet has taken the default key.    *)
EncryptWallet ==
    /\ Encrypts /\ used # {} /\ busy = "no" /\ ~fUseCrypto
    /\ fUseCrypto' = TRUE /\ fLocked' = TRUE
    /\ preKeys' = mapKeys
    /\ busy' = "encrypt"
    /\ UNCHANGED <<setKeyPool, diskVars, mapKeys, reserved, used, who, newKey, nFill,
                   restarts>>

(* Mutant: the master key is not in the transaction. *)
EncryptCommit_NoMasterKey ==
    /\ keyRec' = [k \in Key |-> IF keyRec[k] = "key" THEN "ckey" ELSE keyRec[k]]
    /\ UNCHANGED mkey

(* TxnCommit; a failing one ends the process, which is Restart. *)
EncryptCommit ==
    /\ keyRec' = [k \in Key |-> IF keyRec[k] = "key" THEN "ckey" ELSE keyRec[k]]
    /\ mkey' = TRUE

(* ... then Lock, Unlock, and NewKeyPool begins. *)
EncryptTxnCommit ==
    /\ busy = "encrypt"
    /\ EncryptCommit
    /\ fLocked' = FALSE
    /\ busy' = "flush"
    /\ UNCHANGED <<setKeyPool, pool, fUseCrypto, mapKeys, reserved, history, who,
                   newKey, nFill, restarts>>

NewKeyPoolErase ==
    /\ busy = "flush"
    /\ \E i \in setKeyPool :
          /\ pool[i] # NoKey
          /\ pool' = ErasePool(i)
    /\ UNCHANGED <<setKeyPool, keyRec, mkey, cryptVars, mapKeys, reserved, history,
                   busy, who, newKey, nFill, restarts>>

(* The set is cleared; a locked wallet gets no new keys. *)
NewKeyPoolClear ==
    /\ busy = "flush" /\ \A i \in setKeyPool : pool[i] = NoKey
    /\ setKeyPool' = {}
    /\ busy' = IF IsLocked THEN "rewrite" ELSE "fill"
    /\ UNCHANGED <<diskVars, cryptVars, mapKeys, reserved, history, who, newKey, nFill,
                   restarts>>

NewKeyPoolKey ==
    /\ busy = "fill" /\ nFill < nTargetSize /\ newKey = NoKey /\ ~IsLocked
    /\ \E k \in Key : AddKey(k)
    /\ UNCHANGED <<setKeyPool, pool, mkey, cryptVars, reserved, history, busy, who,
                   nFill, restarts>>

(* The wallet was locked meanwhile: GenerateNewKey throws out of             *)
(* EncryptWallet, and the file is not rewritten.                             *)
NewKeyPoolThrows ==
    /\ busy = "fill" /\ nFill < nTargetSize /\ newKey = NoKey /\ IsLocked
    /\ Leave /\ preKeys' = {}
    /\ UNCHANGED <<setKeyPool, diskVars, cryptVars, mapKeys, reserved, used, restarts>>

NewKeyPoolWrite ==
    /\ busy = "fill" /\ WritePool(nFill + 1)
    /\ nFill' = nFill + 1
    /\ UNCHANGED <<keyRec, mkey, cryptVars, mapKeys, reserved, history, busy, who,
                   restarts>>

(* Lock, and CDB::Rewrite. *)
EncryptDone ==
    /\ busy = "rewrite" \/ (busy = "fill" /\ nFill = nTargetSize)
    /\ fLocked' = TRUE
    /\ Leave
    /\ UNCHANGED <<setKeyPool, diskVars, fUseCrypto, mapKeys, reserved, history,
                   restarts>>

(* walletlock, the unlock timer, the lock button. *)
Lock ==
    /\ fUseCrypto /\ ~fLocked
    /\ fLocked' = TRUE
    /\ UNCHANGED <<setKeyPool, diskVars, fUseCrypto, mapKeys, reserved, history, busy,
                   who, newKey, nFill, restarts>>

(* CWallet::Unlock takes cs_wallet. *)
Unlock ==
    /\ IsLocked /\ busy = "no"
    /\ fLocked' = FALSE
    /\ UNCHANGED <<setKeyPool, diskVars, fUseCrypto, mapKeys, reserved, history, busy,
                   who, newKey, nFill, restarts>>

(* The process ends, in an orderly way or not, and LoadWallet reads the     *)
(* file: ~CReserveKey returns no key once fShutdown is set.                 *)
Restart ==
    /\ restarts < MaxRestarts /\ restarts' = restarts + 1
    /\ setKeyPool' = {i \in Index : pool[i] # NoKey}
    /\ mapKeys' = {k \in Key : keyRec[k] # "none"}
    /\ fUseCrypto' = (\E k \in Key : keyRec[k] = "ckey")
    /\ fLocked' = fUseCrypto'
    /\ reserved' = [h \in Holder |-> None]
    /\ preKeys' = IF busy \in {"encrypt", "flush", "fill", "rewrite"} THEN {} ELSE preKeys
    /\ Leave
    /\ UNCHANGED <<diskVars, used>>

Next ==
    \/ \E h \in Holder : ReserveKeyFromKeyPool(h) \/ KeepKey(h) \/ ReturnKey(h)
    \/ TopUpKey \/ TopUpThrows \/ TopUpPool \/ TakeKey \/ PoolIsEmpty
    \/ EncryptWallet \/ EncryptTxnCommit
    \/ NewKeyPoolErase \/ NewKeyPoolClear \/ NewKeyPoolKey \/ NewKeyPoolThrows
    \/ NewKeyPoolWrite \/ EncryptDone
    \/ Lock \/ Unlock \/ Restart

Spec == Init /\ [][Next]_vars

-----------------------------------------------------------------------------
KeyPoolTypeOK ==
    /\ setKeyPool \subseteq Index /\ pool \in [Index -> Key \cup {NoKey}]
    /\ keyRec \in [Key -> {"none", "key", "ckey"}] /\ mkey \in BOOLEAN
    /\ fUseCrypto \in BOOLEAN /\ fLocked \in BOOLEAN /\ mapKeys \subseteq Key
    /\ reserved \in [Holder -> [nIndex : Index \cup {-1}, vchPubKey : Key \cup {NoKey}]]
    /\ used \subseteq Key /\ preKeys \subseteq Key
    /\ busy \in {"no", "topup", "take", "encrypt", "flush", "fill", "rewrite"}
    /\ who \in Holder \cup {Nobody} /\ newKey \in Key \cup {NoKey}
    /\ nFill \in 0..nTargetSize /\ restarts \in 0..MaxRestarts

Held == {h \in Holder : reserved[h] # None}

(* "Take key pair from key pool so it won't be used again" (wallet.cpp      *)
(* 1082): no key is held by two holders, and no key that was shown is held  *)
(* or still in the pool, whatever was returned, kept or lost in a restart,  *)
(* as long as the wallet is not encrypted (see IndexNotReused).             *)
KeyUsedOnce ==
    ~fUseCrypto =>
        /\ \A g, h \in Held : reserved[g].vchPubKey = reserved[h].vchPubKey => g = h
        /\ \A h \in Held : reserved[h].vchPubKey \notin used
        /\ \A i \in setKeyPool : pool[i] \notin used

(* ReserveKeyFromKeyPool never finds an index without a record or a record  *)
(* of a key the wallet does not have ("read failed", "unknown key in key    *)
(* pool"), as long as the wallet is not encrypted: NewKeyPool gives indices *)
(* out again that somebody holds.                                           *)
PoolReadable ==
    ~fUseCrypto => \A i \in setKeyPool : pool[i] \in mapKeys

(* A crash at any point loses no key that was or may be shown, and leaves   *)
(* either a plain wallet or an encrypted one with its master key.           *)
KeysRecoverable ==
    /\ \A h \in Held : keyRec[reserved[h].vchPubKey] # "none"
    /\ \A k \in used : keyRec[k] # "none"
    /\ \A i \in Index : pool[i] # NoKey => keyRec[pool[i]] # "none"
    /\ \A k \in Key : keyRec[k] # "none" => (keyRec[k] = "ckey" <=> mkey)

(* "The keypool has been flushed" (bitcoinrpc.cpp 1914): once EncryptWallet  *)
(* is done, no key of the unencrypted wallet comes out of the pool.          *)
KeyPoolFlushed ==
    mkey /\ busy = "no" => \A i \in setKeyPool : pool[i] \notin preKeys

(* An index in use is never given to another key: what KeyUsedOnce and      *)
(* PoolReadable rest on.  It holds as long as the pool never runs empty,    *)
(* which a locked wallet does and NewKeyPool makes it do.                   *)
IndexNotReused ==
    ~fUseCrypto =>
        /\ \A g, h \in Held : reserved[g].nIndex = reserved[h].nIndex => g = h
        /\ \A h \in Held : /\ reserved[h].nIndex \notin setKeyPool
                           /\ pool[reserved[h].nIndex] = reserved[h].vchPubKey
                           /\ busy = "no" => \E i \in setKeyPool : i > reserved[h].nIndex
=============================================================================
