--------------------------- MODULE KeyPoolProofs ---------------------------
(***************************************************************************)
(* The key pool hands out every key once and loses none, for any number of *)
(* keys and holders, any -keypool and any number of restarts.              *)
(***************************************************************************)
EXTENDS KeyPool, FiniteSetTheorems, TLAPS

USE KeyPoolAssumption

(* Keys that have been given an index: all but the one just generated. *)
Numbers == Cardinality(mapKeys) - (IF newKey = NoKey THEN 0 ELSE 1)

(* No index is larger than the number of keys, so there is one for the     *)
(* next key.                                                               *)
IndexBound ==
    /\ \A i \in setKeyPool : i <= Numbers
    /\ \A i \in Index : pool[i] # NoKey => i <= Numbers
    /\ \A h \in Holder : reserved[h].nIndex <= Numbers
    /\ nFill <= Numbers

(* Memory and file know the same keys; a key without an index is new. *)
KeysKnown ==
    /\ mapKeys = {k \in Key : keyRec[k] # "none"}
    /\ newKey # NoKey =>
         /\ newKey \in mapKeys \ used /\ busy \in {"topup", "fill"}
         /\ busy = "fill" => nFill < nTargetSize
         /\ \A i \in Index : pool[i] # newKey
         /\ \A h \in Holder : reserved[h].vchPubKey # newKey
    /\ \A h \in Holder : \/ reserved[h] = None
                         \/ reserved[h].nIndex \in Index /\ reserved[h].vchPubKey \in mapKeys

(* Memory and file agree on whether the wallet is encrypted, except during *)
(* the transaction of EncryptWallet; and the wallet then has a key, so     *)
(* that LoadWallet finds out about it.                                     *)
CryptOK ==
    /\ fUseCrypto <=> mkey \/ busy = "encrypt"
    /\ busy \in {"take", "flush", "fill", "rewrite"} => mkey
    /\ busy = "encrypt" => ~mkey
    /\ mkey \/ busy = "encrypt" => used # {}

(* Before the wallet is encrypted no index is used twice: the pool always  *)
(* has a larger one than any that is held, and the next is larger still.   *)
PoolInOrder ==
    /\ \A i \in setKeyPool : pool[i] \in mapKeys
    /\ \A i, j \in Index : pool[i] # NoKey /\ pool[i] = pool[j] => i = j
    /\ \A i \in Index : pool[i] \notin used
    /\ \A g, h \in Held : reserved[g].nIndex = reserved[h].nIndex => g = h
    /\ \A h \in Held : /\ reserved[h].nIndex \notin setKeyPool
                       /\ pool[reserved[h].nIndex] = reserved[h].vchPubKey
                       /\ \E i \in setKeyPool : i > reserved[h].nIndex

KeyInv ==
    /\ KeyPoolTypeOK /\ IndexBound /\ KeysKnown /\ CryptOK /\ KeysRecoverable
    /\ nTargetSize > 0 /\ ~mkey => PoolInOrder

-----------------------------------------------------------------------------
(* A nonempty finite set of integers has a largest and a smallest element:  *)
(* the members above x are the fewest when x is the largest.                *)
LEMMA LargestExists ==
    ASSUME NEW S \in SUBSET Int, IsFiniteSet(S), S # {}
    PROVE  \E m \in S : \A y \in S : m >= y
  <1> DEFINE Above(x) == {y \in S : y > x}
             F == {Above(x) : x \in S}
             R == StrictSubsetOrdering(S)
  <1>1. IsWellFoundedOn(R, FiniteSubsetsOf(S))
    BY FS_StrictSubsetOrderingWellFounded
  <1>2. F \subseteq FiniteSubsetsOf(S)
    BY FS_Subset DEF FiniteSubsetsOf
  <1>3. F # {}
    OBVIOUS
  <1> HIDE DEF R
  <1>4. PICK A \in F : \A B \in F : <<B, A>> \notin R
    <2> HIDE DEF F
    <2> QED  BY <1>1, <1>2, <1>3, WFMin
  <1>5. PICK m \in S : A = Above(m)
    BY <1>4
  <1>6. ASSUME NEW y \in S, ~(m >= y) PROVE FALSE
    <2>1. y \in Int /\ m \in Int /\ y > m
      BY <1>6
    <2>2. y \in Above(m) /\ y \notin Above(y)
      BY <2>1
    <2>3. ASSUME NEW z \in S, z > y PROVE z > m
      BY <2>1, <2>3
    <2>5. Above(y) \subseteq Above(m)
      BY <2>3
    <2>4. <<Above(y), Above(m)>> \in R
      BY <2>2, <2>5 DEF R, StrictSubsetOrdering
    <2> QED  BY <1>4, <1>5, <2>4
  <1> QED  BY <1>6

LEMMA SmallestExists ==
    ASSUME NEW S \in SUBSET Int, IsFiniteSet(S), S # {}
    PROVE  \E m \in S : \A y \in S : m <= y
  <1> DEFINE Below(x) == {y \in S : y < x}
             F == {Below(x) : x \in S}
             R == StrictSubsetOrdering(S)
  <1>1. IsWellFoundedOn(R, FiniteSubsetsOf(S))
    BY FS_StrictSubsetOrderingWellFounded
  <1>2. F \subseteq FiniteSubsetsOf(S)
    BY FS_Subset DEF FiniteSubsetsOf
  <1>3. F # {}
    OBVIOUS
  <1> HIDE DEF R
  <1>4. PICK A \in F : \A B \in F : <<B, A>> \notin R
    <2> HIDE DEF F
    <2> QED  BY <1>1, <1>2, <1>3, WFMin
  <1>5. PICK m \in S : A = Below(m)
    BY <1>4
  <1>6. ASSUME NEW y \in S, ~(m <= y) PROVE FALSE
    <2>1. y \in Int /\ m \in Int /\ y < m
      BY <1>6
    <2>2. y \in Below(m) /\ y \notin Below(y)
      BY <2>1
    <2>3. ASSUME NEW z \in S, z < y PROVE z < m
      BY <2>1, <2>3
    <2>5. Below(y) \subseteq Below(m)
      BY <2>3
    <2>4. <<Below(y), Below(m)>> \in R
      BY <2>2, <2>5 DEF R, StrictSubsetOrdering
    <2> QED  BY <1>4, <1>5, <2>4
  <1> QED  BY <1>6

(* What ReserveKeyFromKeyPool takes from the front of the set, and the      *)
(* index it adds at the back.                                               *)
LEMMA PoolEnds ==
    ASSUME KeyPoolTypeOK
    PROVE  /\ IsFiniteSet(setKeyPool) /\ Cardinality(Key) \in Nat
           /\ setKeyPool # {} => /\ Oldest \in setKeyPool /\ \A i \in setKeyPool : Oldest <= i
                                 /\ nEnd - 1 \in setKeyPool
           /\ nEnd \in Nat \ {0} /\ \A i \in setKeyPool : i < nEnd
           /\ setKeyPool = {} => nEnd = 1
  <1>1. Cardinality(Key) \in Nat
    BY FS_CardinalityType
  <1>2. setKeyPool \subseteq Nat \ {0} /\ setKeyPool \in SUBSET Int
    BY <1>1 DEF KeyPoolTypeOK, Index
  <1>3. IsFiniteSet(setKeyPool)
    <2>1. IsFiniteSet(Index) /\ setKeyPool \in SUBSET Index
      BY <1>1, FS_Interval DEF KeyPoolTypeOK, Index
    <2> QED  BY <2>1, FS_Subset
  <1>4. CASE setKeyPool = {}
    BY <1>1, <1>3, <1>4 DEF nEnd
  <1>5. CASE setKeyPool # {}
    <2>1. PICK m \in setKeyPool : \A y \in setKeyPool : m <= y
      BY <1>2, <1>3, <1>5, SmallestExists
    <2>2. PICK M \in setKeyPool : \A y \in setKeyPool : M >= y
      BY <1>2, <1>3, <1>5, LargestExists
    <2>3. Oldest \in setKeyPool /\ \A y \in setKeyPool : Oldest <= y
      BY <2>1 DEF Oldest, Min
    <2>4. Max(setKeyPool) \in setKeyPool /\ \A y \in setKeyPool : Max(setKeyPool) >= y
      BY <2>2 DEF Max
    <2>5. nEnd = Max(setKeyPool) + 1
      BY <1>5 DEF nEnd
    <2> DEFINE mx == Max(setKeyPool)
    <2>6. mx \in Nat \ {0} /\ mx \in setKeyPool /\ nEnd = mx + 1 /\ \A y \in setKeyPool : mx >= y /\ y \in Nat
      BY <1>2, <2>4, <2>5
    <2> HIDE DEF mx
    <2>7. nEnd \in Nat \ {0} /\ nEnd - 1 \in setKeyPool
      BY <2>6
    <2>8. \A y \in setKeyPool : y < nEnd
      BY <2>6
    <2> QED  BY <1>1, <1>3, <1>5, <2>3, <2>7, <2>8
  <1> QED  BY <1>4, <1>5

-----------------------------------------------------------------------------
(* There is an index for the key that was just generated. *)
LEMMA NumbersBound ==
    ASSUME KeyInv
    PROVE  /\ IsFiniteSet(mapKeys) /\ Numbers \in Nat
           /\ newKey # NoKey => Numbers + 1 <= Cardinality(Key)
           /\ Cardinality(mapKeys) \in Nat
           /\ Numbers <= Cardinality(Key)
  <1>1. mapKeys \in SUBSET Key /\ IsFiniteSet(Key) /\ Cardinality(Key) \in Nat
    BY FS_CardinalityType DEF KeyInv, KeyPoolTypeOK
  <1>2. IsFiniteSet(mapKeys) /\ Cardinality(mapKeys) <= Cardinality(Key)
    BY <1>1, FS_Subset
  <1>3. Cardinality(mapKeys) \in Nat
    BY <1>2, FS_CardinalityType
  <1>4. newKey # NoKey => Cardinality(mapKeys) # 0
    BY <1>2, FS_EmptySet DEF KeyInv, KeysKnown
  <1> QED  BY <1>1, <1>2, <1>3, <1>4 DEF Numbers

(* A new key does not count yet; it does when WritePool has run, and when   *)
(* it is forgotten about.                                                   *)
LEMMA NumbersStep ==
    ASSUME KeyInv
    PROVE  /\ newKey = NoKey /\ (\E k \in Key : AddKey(k)) => Numbers' = Numbers
           /\ mapKeys' = mapKeys /\ newKey' = newKey => Numbers' = Numbers
           /\ mapKeys' = mapKeys /\ newKey' = NoKey => Numbers' >= Numbers /\ Numbers' \in Nat
           /\ mapKeys' = mapKeys /\ newKey' = NoKey /\ newKey # NoKey => Numbers' = Numbers + 1
  <1>1. IsFiniteSet(mapKeys) /\ Cardinality(mapKeys) \in Nat
    BY NumbersBound
  <1>2. ASSUME newKey = NoKey, NEW k \in Key, AddKey(k) PROVE Numbers' = Numbers
    <2>1. Cardinality(mapKeys \cup {k}) = Cardinality(mapKeys) + 1
      BY <1>1, <1>2, FS_AddElement DEF AddKey, Fresh
    <2> QED  BY <1>1, <1>2, <2>1 DEF AddKey, Numbers
  <1> QED  BY <1>1, <1>2 DEF Numbers

-----------------------------------------------------------------------------
(* Steps that leave the pool, the keys and the holders alone. *)
LEMMA SameData ==
    ASSUME KeyInv, UNCHANGED <<setKeyPool, pool, keyRec, mkey, mapKeys, reserved, used>>,
           \/ newKey' = NoKey /\ nFill' = 0
           \/ UNCHANGED <<newKey, nFill, busy>>
           \/ UNCHANGED <<newKey, nFill>> /\ newKey = NoKey
    PROVE  /\ IndexBound' /\ KeysKnown' /\ KeysRecoverable'
           /\ nTargetSize > 0 /\ ~mkey' => PoolInOrder'
  <1>1. IndexBound'
    <2>1. Numbers \in Nat /\ Numbers' \in Nat /\ Numbers' >= Numbers
      BY NumbersBound, NumbersStep
    <2>2. /\ \A i \in setKeyPool : i \in Int
          /\ \A i \in Index : i \in Int
          /\ \A h \in Holder : reserved[h].nIndex \in Int
          /\ nFill \in Int
      BY FS_CardinalityType DEF KeyInv, KeyPoolTypeOK, Index
    <2> QED  BY <2>1, <2>2 DEF KeyInv, IndexBound
  <1>2. KeysKnown'
    BY DEF KeyInv, KeysKnown, None
  <1>3. KeysRecoverable'
    BY DEF KeyInv, KeysRecoverable, Held, None
  <1>4. PoolInOrder => PoolInOrder'
    BY DEF PoolInOrder, Held, None
  <1> QED  BY <1>1, <1>2, <1>3, <1>4 DEF KeyInv

LEMMA QuietKeeps ==
    ASSUME KeyInv,
           \/ \E h \in Holder : ReserveKeyFromKeyPool(h)
           \/ TopUpThrows \/ PoolIsEmpty \/ EncryptWallet \/ NewKeyPoolThrows \/ EncryptDone
           \/ Lock \/ Unlock
    PROVE  KeyInv'
  <1>1. newKey # NoKey => busy \in {"topup", "fill"}
    BY DEF KeyInv, KeysKnown
  <1>2. /\ UNCHANGED <<setKeyPool, pool, keyRec, mkey, mapKeys, reserved, used>>
        /\ \/ newKey' = NoKey /\ nFill' = 0
           \/ UNCHANGED <<newKey, nFill, busy>>
           \/ UNCHANGED <<newKey, nFill>> /\ newKey = NoKey
    BY <1>1 DEF ReserveKeyFromKeyPool, TopUpThrows, PoolIsEmpty, EncryptWallet, NewKeyPoolThrows, EncryptDone,
           Lock, Unlock, Leave, diskVars, cryptVars, history
  <1>3. KeyPoolTypeOK'
    <2>1. fUseCrypto' \in BOOLEAN /\ fLocked' \in BOOLEAN
      BY Zenon DEF KeyInv, KeyPoolTypeOK, ReserveKeyFromKeyPool, TopUpThrows, PoolIsEmpty, EncryptWallet,
           NewKeyPoolThrows, EncryptDone, Lock, Unlock, cryptVars
    <2>2. /\ busy' \in {"no", "topup", "take", "encrypt", "flush", "fill", "rewrite"}
          /\ who' \in Holder \cup {Nobody} /\ preKeys' \subseteq Key /\ UNCHANGED restarts
      BY DEF KeyInv, KeyPoolTypeOK, ReserveKeyFromKeyPool, TopUpThrows, PoolIsEmpty, EncryptWallet,
           NewKeyPoolThrows, EncryptDone, Lock, Unlock, Leave, history
    <2>3. newKey' \in Key \cup {NoKey} /\ nFill' \in 0 .. nTargetSize
      BY <1>2 DEF KeyInv, KeyPoolTypeOK
    <2> QED  BY <1>2, <2>1, <2>2, <2>3 DEF KeyInv, KeyPoolTypeOK
  <1>4. CryptOK'
    BY DEF KeyInv, KeyPoolTypeOK, CryptOK, IsLocked, ReserveKeyFromKeyPool, TopUpThrows, PoolIsEmpty, EncryptWallet,
           NewKeyPoolThrows, EncryptDone, Lock, Unlock, Leave, diskVars, cryptVars, history
  <1> QED  BY <1>2, <1>3, <1>4, SameData DEF KeyInv

-----------------------------------------------------------------------------
(* GenerateNewKey and WritePool. *)
LEMMA AddKeyKeeps ==
    ASSUME KeyInv, TopUpKey \/ NewKeyPoolKey
    PROVE  KeyInv'
  <1> PICK k \in Key : AddKey(k)
    BY DEF TopUpKey, NewKeyPoolKey
  <1>1. /\ UNCHANGED <<setKeyPool, pool, mkey, fUseCrypto, fLocked, reserved, used, preKeys, busy, who, nFill, restarts>>
        /\ newKey = NoKey /\ busy \in {"topup", "fill"} /\ (busy = "fill" => nFill < nTargetSize)
    BY DEF TopUpKey, NewKeyPoolKey, cryptVars, history
  <1>2. /\ keyRec[k] = "none" /\ k \notin mapKeys /\ mapKeys' = mapKeys \cup {k} /\ newKey' = k
        /\ keyRec' = [keyRec EXCEPT ![k] = IF mkey THEN "ckey" ELSE "key"] /\ k # NoKey
    BY <1>1 DEF AddKey, Fresh, KeyRecord, KeyInv, CryptOK, KeyPoolTypeOK
  <1>3. KeyPoolTypeOK' /\ CryptOK'
    BY <1>1, <1>2 DEF KeyInv, KeyPoolTypeOK, CryptOK
  <1>4. IndexBound'
    BY <1>1, NumbersStep DEF KeyInv, IndexBound
  <1>5. KeysKnown'
    BY <1>1, <1>2 DEF KeyInv, KeyPoolTypeOK, KeysKnown, KeysRecoverable, None
  <1>6. KeysRecoverable'
    BY <1>1, <1>2 DEF KeyInv, KeyPoolTypeOK, KeysRecoverable, KeysKnown, Held, None
  <1>7. PoolInOrder => PoolInOrder'
    BY <1>1, <1>2 DEF PoolInOrder, Held, None
  <1> QED  BY <1>1, <1>3, <1>4, <1>5, <1>6, <1>7 DEF KeyInv

LEMMA WritePoolKeeps ==
    ASSUME KeyInv, TopUpPool \/ NewKeyPoolWrite
    PROVE  KeyInv'
  <1> DEFINE ix == IF busy = "topup" THEN nEnd ELSE nFill + 1
  <1>1. /\ UNCHANGED <<keyRec, mkey, fUseCrypto, fLocked, mapKeys, reserved, used, preKeys, busy, who, restarts>>
        /\ newKey # NoKey /\ newKey' = NoKey /\ pool' = [pool EXCEPT ![ix] = newKey]
        /\ setKeyPool' = setKeyPool \cup {ix}
        /\ \/ busy = "topup" /\ nFill' = nFill /\ ix = nEnd
           \/ busy = "fill" /\ nFill' = nFill + 1 /\ ix = nFill + 1
    BY DEF TopUpPool, NewKeyPoolWrite, WritePool, cryptVars, history
  <1>2. /\ Numbers \in Nat /\ Numbers' = Numbers + 1 /\ Numbers + 1 <= Cardinality(Key) /\ Cardinality(Key) \in Nat
        /\ nFill \in Nat
    BY <1>1, NumbersBound, NumbersStep, PoolEnds DEF KeyInv, KeyPoolTypeOK
  <1>3. ix \in Nat \ {0} /\ ix <= Numbers + 1
    <2>1. CASE busy = "topup"
      <3>1. nEnd \in Nat \ {0} /\ (nEnd = 1 \/ nEnd - 1 \in setKeyPool)
        BY PoolEnds DEF KeyInv
      <3>2. ix = nEnd
        BY <1>1, <2>1
      <3>3. nEnd = 1 \/ nEnd - 1 <= Numbers
        BY <3>1 DEF KeyInv, IndexBound
      <3> QED  BY <1>2, <3>1, <3>2, <3>3
    <2>2. CASE busy # "topup"
      BY <1>1, <1>2, <2>2 DEF KeyInv, IndexBound
    <2> QED  BY <2>1, <2>2
  <1>4. ix \in Index
    BY <1>2, <1>3 DEF Index
  <1>5. newKey \in mapKeys \ used /\ newKey \in Key
    BY <1>1 DEF KeyInv, KeysKnown
  <1> HIDE DEF ix
  <1>6. KeyPoolTypeOK'
    <2>1. nFill' \in 0 .. nTargetSize
      BY <1>1, <1>2 DEF KeyInv, KeyPoolTypeOK, KeysKnown
    <2> QED  BY <1>1, <1>4, <1>5, <2>1 DEF KeyInv, KeyPoolTypeOK
  <1>7. CryptOK'
    BY <1>1 DEF KeyInv, CryptOK
  <1>8. IndexBound'
    <2>1. /\ \A i \in setKeyPool : i \in Int
          /\ \A i \in Index : i \in Int
          /\ \A h \in Holder : reserved[h].nIndex \in Int
          /\ nFill \in Int /\ pool \in [Index -> Key \cup {NoKey}]
      BY <1>2 DEF KeyInv, KeyPoolTypeOK, Index
    <2> QED  BY <1>1, <1>2, <1>3, <2>1 DEF KeyInv, IndexBound
  <1>9. KeysKnown'
    BY <1>1 DEF KeyInv, KeysKnown, None
  <1>10. KeysRecoverable'
    BY <1>1, <1>4, <1>5 DEF KeyInv, KeyPoolTypeOK, KeysRecoverable, KeysKnown, Held, None
  <1>11. ASSUME nTargetSize > 0, ~mkey PROVE PoolInOrder'
    <2>1. PoolInOrder /\ ix = nEnd
      BY <1>1, <1>11 DEF KeyInv, CryptOK
    <2>2. /\ pool \in [Index -> Key \cup {NoKey}] /\ \A i \in Index : pool[i] # newKey
          /\ \A h \in Held : reserved[h].nIndex \in Index
          /\ setKeyPool \subseteq Index
      BY <1>1 DEF KeyInv, KeyPoolTypeOK, KeysKnown, Held
    <2>3. \A i \in setKeyPool : i < ix /\ i \in Int
      BY <1>2, <2>1, <2>2, PoolEnds DEF KeyInv, Index
    <2>4. \A h \in Held : reserved[h].nIndex < ix /\ reserved[h].nIndex # ix
      <3> SUFFICES ASSUME NEW h \in Held PROVE reserved[h].nIndex < ix
        BY <1>2, <1>3, <2>2 DEF Index
      <3>1. PICK i \in setKeyPool : i > reserved[h].nIndex
        BY <2>1 DEF PoolInOrder
      <3>2. reserved[h].nIndex \in Int
        BY <1>2, <2>2 DEF Index
      <3> QED  BY <1>3, <2>3, <3>1, <3>2
    <2>5. ix \notin setKeyPool
      BY <1>3, <2>3
    <2>6. Held' = Held
      BY <1>1 DEF Held, None
    <2>7. /\ \A i \in setKeyPool' : pool'[i] \in mapKeys'
          /\ \A i, j \in Index : pool'[i] # NoKey /\ pool'[i] = pool'[j] => i = j
          /\ \A i \in Index : pool'[i] \notin used'
      BY <1>1, <1>4, <1>5, <2>1, <2>2 DEF PoolInOrder
    <2>8. /\ \A g, h \in Held' : reserved'[g].nIndex = reserved'[h].nIndex => g = h
          /\ \A h \in Held' : /\ reserved'[h].nIndex \notin setKeyPool'
                              /\ pool'[reserved'[h].nIndex] = reserved'[h].vchPubKey
                              /\ \E i \in setKeyPool' : i > reserved'[h].nIndex
      BY <1>1, <1>4, <2>1, <2>2, <2>4, <2>6 DEF PoolInOrder
    <2> QED  BY <2>7, <2>8 DEF PoolInOrder
  <1> QED  BY <1>1, <1>6, <1>7, <1>8, <1>9, <1>10, <1>11 DEF KeyInv

-----------------------------------------------------------------------------
(* A key is taken, kept or returned. *)
LEMMA TakeKeeps ==
    ASSUME KeyInv, TakeKey
    PROVE  KeyInv'
  <1>1. /\ setKeyPool # {} /\ setKeyPool' = setKeyPool \ {Oldest}
        /\ reserved' = IF pool[Oldest] \in mapKeys
                       THEN [reserved EXCEPT ![who] = [nIndex |-> Oldest, vchPubKey |-> pool[Oldest]]]
                       ELSE reserved
        /\ UNCHANGED <<pool, keyRec, mkey, fUseCrypto, fLocked, mapKeys, used, preKeys, restarts>>
        /\ busy' = "no" /\ who' = Nobody /\ newKey' = NoKey /\ nFill' = 0
        /\ busy = "take" \/ (busy = "topup" /\ TopUpDone /\ newKey = NoKey)
    BY DEF TakeKey, Leave, diskVars, cryptVars, history
  <1>2. Oldest \in setKeyPool /\ Oldest \in Index /\ \A i \in setKeyPool : Oldest <= i
    BY <1>1, PoolEnds DEF KeyInv, KeyPoolTypeOK
  <1>3. newKey = NoKey /\ mkey \in BOOLEAN
    BY <1>1 DEF KeyInv, KeysKnown, KeyPoolTypeOK
  <1> DEFINE entry == [nIndex |-> Oldest, vchPubKey |-> pool[Oldest]]
  <1>4. \A h \in Holder : reserved'[h] = reserved[h] \/ (reserved'[h] = entry /\ h = who /\ pool[Oldest] \in mapKeys)
    BY <1>1 DEF KeyInv, KeyPoolTypeOK
  <1>5. KeyPoolTypeOK'
    <2>1. entry \in [nIndex : Index \cup {-1}, vchPubKey : Key \cup {NoKey}]
      BY <1>2 DEF KeyInv, KeyPoolTypeOK
    <2>2. reserved' \in [Holder -> [nIndex : Index \cup {-1}, vchPubKey : Key \cup {NoKey}]]
      BY <1>1, <2>1 DEF KeyInv, KeyPoolTypeOK
    <2> QED  BY <1>1, <2>2 DEF KeyInv, KeyPoolTypeOK
  <1>6. CryptOK'
    BY <1>1 DEF KeyInv, CryptOK, KeyPoolTypeOK
  <1>7. entry.nIndex = Oldest /\ entry.vchPubKey = pool[Oldest] /\ entry # None
    <2>1. Oldest # -1
      BY <1>2, PoolEnds DEF Index, KeyInv
    <2> QED  BY <2>1 DEF None
  <1> HIDE DEF entry
  <1>8. IndexBound'
    <2>1. Numbers' = Numbers /\ Numbers \in Nat
      BY <1>1, <1>3, NumbersBound, NumbersStep
    <2> QED  BY <1>1, <1>2, <1>4, <1>7, <2>1 DEF KeyInv, IndexBound
  <1>9. KeysKnown'
    BY <1>1, <1>2, <1>4, <1>7 DEF KeyInv, KeysKnown, None
  <1>10. KeysRecoverable'
    BY <1>1, <1>2, <1>4, <1>7 DEF KeyInv, KeyPoolTypeOK, KeysRecoverable, KeysKnown, Held, None
  <1>11. ASSUME nTargetSize > 0, ~mkey PROVE PoolInOrder'
    <2>1. PoolInOrder /\ TopUpDone /\ pool[Oldest] \in mapKeys
      BY <1>1, <1>2, <1>11 DEF KeyInv, CryptOK, PoolInOrder
    <2>2. \A h \in Held' : \/ h \in Held /\ reserved'[h] = reserved[h]
                           \/ h = who /\ reserved'[h] = entry
      <3> TAKE h \in Held'
      <3>1. h \in Holder /\ reserved'[h] # None
        BY DEF Held, None
      <3> QED  BY <1>4, <3>1 DEF Held
    <2>3. \E j \in setKeyPool : j # Oldest
      <3>1. IsFiniteSet(setKeyPool) /\ Cardinality(setKeyPool) \in Nat
        BY PoolEnds, FS_CardinalityType DEF KeyInv
      <3>2. Cardinality(setKeyPool) # 1
        BY <1>11, <2>1, <3>1 DEF TopUpDone
      <3>3. setKeyPool # {Oldest}
        BY <3>1, <3>2, FS_Singleton
      <3> QED  BY <1>2, <3>3
    <2>4. PICK j \in setKeyPool' : j > Oldest /\ j \in Int /\ Oldest \in Int
      BY <1>1, <1>2, <2>3, PoolEnds DEF KeyInv, KeyPoolTypeOK, Index
    <2>5. /\ \A i \in setKeyPool' : pool'[i] \in mapKeys'
          /\ \A i, k \in Index : pool'[i] # NoKey /\ pool'[i] = pool'[k] => i = k
          /\ \A i \in Index : pool'[i] \notin used'
      BY <1>1, <2>1 DEF PoolInOrder
    <2>6. \A g, h \in Held' : reserved'[g].nIndex = reserved'[h].nIndex => g = h
      BY <1>2, <1>7, <2>1, <2>2 DEF PoolInOrder
    <2>7. \A h \in Held' : /\ reserved'[h].nIndex \notin setKeyPool'
                           /\ pool'[reserved'[h].nIndex] = reserved'[h].vchPubKey
      BY <1>1, <1>7, <2>1, <2>2 DEF PoolInOrder
    <2>8. ASSUME NEW h \in Held' PROVE \E i \in setKeyPool' : i > reserved'[h].nIndex
      <3>1. CASE h = who /\ reserved'[h] = entry
        BY <1>7, <2>4, <3>1
      <3>2. CASE h \in Held /\ reserved'[h] = reserved[h]
        <4>1. PICK i \in setKeyPool : i > reserved[h].nIndex
          BY <2>1, <3>2 DEF PoolInOrder
        <4>2. i \in Int /\ reserved[h].nIndex \in Int
          BY <3>2, PoolEnds DEF KeyInv, KeyPoolTypeOK, Index, Held
        <4> QED  BY <1>1, <2>4, <3>2, <4>1, <4>2
      <3> QED  BY <2>2, <3>1, <3>2
    <2> QED  BY <2>5, <2>6, <2>7, <2>8 DEF PoolInOrder
  <1> QED  BY <1>1, <1>5, <1>6, <1>8, <1>9, <1>10, <1>11 DEF KeyInv

LEMMA ReturnKeeps ==
    ASSUME KeyInv, NEW h \in Holder, ReturnKey(h)
    PROVE  KeyInv'
  <1>1. /\ reserved[h] # None /\ busy = "no"
        /\ setKeyPool' = setKeyPool \cup {reserved[h].nIndex}
        /\ reserved' = [reserved EXCEPT ![h] = None]
        /\ UNCHANGED <<pool, keyRec, mkey, fUseCrypto, fLocked, mapKeys, used, preKeys, busy, who, newKey, nFill, restarts>>
    BY DEF ReturnKey, diskVars, cryptVars, history
  <1>2. reserved[h].nIndex \in Index /\ h \in Held
    BY <1>1 DEF KeyInv, KeysKnown, Held
  <1>3. \A g \in Holder : reserved'[g] = IF g = h THEN None ELSE reserved[g]
    BY <1>1 DEF KeyInv, KeyPoolTypeOK
  <1>4. KeyPoolTypeOK' /\ CryptOK'
    BY <1>1, <1>2 DEF KeyInv, KeyPoolTypeOK, CryptOK, None
  <1>5. IndexBound'
    <2>1. Numbers' = Numbers /\ Numbers \in Nat
      BY <1>1, NumbersBound, NumbersStep
    <2> QED  BY <1>1, <1>3, <2>1 DEF KeyInv, IndexBound, None
  <1>6. KeysKnown'
    BY <1>1, <1>3 DEF KeyInv, KeysKnown, None
  <1>7. KeysRecoverable'
    BY <1>1, <1>3 DEF KeyInv, KeysRecoverable, Held, None
  <1>8. ASSUME PoolInOrder PROVE PoolInOrder'
    <2>1. Held' = Held \ {h}
      BY <1>3 DEF Held, None
    <2>2. pool[reserved[h].nIndex] \in mapKeys
      BY <1>1, <1>2, <1>8 DEF PoolInOrder, KeyInv, KeysKnown
    <2>3. \A g \in Held' : g \in Held /\ g # h /\ reserved'[g] = reserved[g]
      BY <1>3, <2>1 DEF Held
    <2> QED  BY <1>1, <1>2, <1>8, <2>2, <2>3 DEF PoolInOrder
  <1> QED  BY <1>1, <1>4, <1>5, <1>6, <1>7, <1>8 DEF KeyInv

LEMMA KeepKeeps ==
    ASSUME KeyInv, NEW h \in Holder, KeepKey(h)
    PROVE  KeyInv'
  <1>1. /\ reserved[h] # None
        /\ pool' = [pool EXCEPT ![reserved[h].nIndex] = NoKey]
        /\ used' = used \cup {reserved[h].vchPubKey}
        /\ reserved' = [reserved EXCEPT ![h] = None]
        /\ UNCHANGED <<setKeyPool, keyRec, mkey, fUseCrypto, fLocked, mapKeys, preKeys, busy, who, newKey, nFill, restarts>>
    BY DEF KeepKey, ErasePool, cryptVars
  <1>2. /\ reserved[h].nIndex \in Index /\ reserved[h].vchPubKey \in mapKeys /\ h \in Held
        /\ reserved[h].vchPubKey \in Key
    BY <1>1 DEF KeyInv, KeysKnown, Held
  <1>3. \A g \in Holder : reserved'[g] = IF g = h THEN None ELSE reserved[g]
    BY <1>1 DEF KeyInv, KeyPoolTypeOK
  <1>4. \A i \in Index : pool'[i] = IF i = reserved[h].nIndex THEN NoKey ELSE pool[i]
    BY <1>1 DEF KeyInv, KeyPoolTypeOK
  <1>5. KeyPoolTypeOK' /\ CryptOK'
    BY <1>1, <1>2 DEF KeyInv, KeyPoolTypeOK, CryptOK, None
  <1>6. IndexBound'
    <2>1. Numbers' = Numbers /\ Numbers \in Nat
      BY <1>1, NumbersBound, NumbersStep
    <2> QED  BY <1>1, <1>3, <1>4, <2>1 DEF KeyInv, IndexBound, None
  <1>7. KeysKnown'
    BY <1>1, <1>2, <1>3, <1>4 DEF KeyInv, KeysKnown, None
  <1>8. KeysRecoverable'
    BY <1>1, <1>2, <1>3, <1>4 DEF KeyInv, KeysRecoverable, KeysKnown, Held, None
  <1>9. ASSUME PoolInOrder PROVE PoolInOrder'
    <2>1. Held' = Held \ {h}
      BY <1>3 DEF Held, None
    <2>2. pool[reserved[h].nIndex] = reserved[h].vchPubKey /\ reserved[h].vchPubKey # NoKey
      BY <1>2, <1>9 DEF PoolInOrder
    <2>3. \A g \in Held' : g \in Held /\ g # h /\ reserved'[g] = reserved[g] /\ reserved[g].nIndex \in Index
      BY <1>3, <2>1 DEF Held, KeyInv, KeysKnown
    <2>4. /\ \A i \in setKeyPool' : pool'[i] \in mapKeys'
          /\ \A i, k \in Index : pool'[i] # NoKey /\ pool'[i] = pool'[k] => i = k
          /\ \A i \in Index : pool'[i] \notin used'
      BY <1>1, <1>2, <1>4, <1>9, <2>2 DEF PoolInOrder, KeyInv, KeyPoolTypeOK
    <2>5. /\ \A g, f \in Held' : reserved'[g].nIndex = reserved'[f].nIndex => g = f
          /\ \A g \in Held' : /\ reserved'[g].nIndex \notin setKeyPool'
                              /\ pool'[reserved'[g].nIndex] = reserved'[g].vchPubKey
                              /\ \E i \in setKeyPool' : i > reserved'[g].nIndex
      BY <1>1, <1>2, <1>4, <1>9, <2>3 DEF PoolInOrder
    <2> QED  BY <2>4, <2>5 DEF PoolInOrder
  <1> QED  BY <1>1, <1>5, <1>6, <1>7, <1>8, <1>9 DEF KeyInv

-----------------------------------------------------------------------------
(* The encryption commits, and the pool is flushed: the wallet is encrypted *)
(* from here on.                                                            *)
LEMMA EncryptKeeps ==
    ASSUME KeyInv, EncryptTxnCommit
    PROVE  KeyInv'
  <1>1. /\ keyRec' = [k \in Key |-> IF keyRec[k] = "key" THEN "ckey" ELSE keyRec[k]]
        /\ mkey' = TRUE /\ fLocked' = FALSE /\ busy = "encrypt" /\ busy' = "flush"
        /\ UNCHANGED <<setKeyPool, pool, fUseCrypto, mapKeys, reserved, used, preKeys, who, newKey, nFill, restarts>>
    BY DEF EncryptTxnCommit, EncryptCommit, history
  <1>2. newKey = NoKey /\ fUseCrypto /\ ~mkey
    BY <1>1 DEF KeyInv, KeysKnown, CryptOK
  <1>3. KeyPoolTypeOK'
    <2>1. mkey' \in BOOLEAN /\ fLocked' \in BOOLEAN
      BY <1>1, Zenon
    <2>2. keyRec' \in [Key -> {"none", "key", "ckey"}]
      BY <1>1 DEF KeyInv, KeyPoolTypeOK
    <2> QED  BY <1>1, <2>1, <2>2 DEF KeyInv, KeyPoolTypeOK
  <1>4. CryptOK' /\ mkey'
    BY <1>1, <1>2 DEF KeyInv, CryptOK
  <1>5. IndexBound'
    BY <1>1, NumbersStep DEF KeyInv, IndexBound
  <1>6. \A k \in Key : /\ keyRec'[k] = "none" <=> keyRec[k] = "none"
                       /\ keyRec'[k] # "none" => keyRec'[k] = "ckey"
    BY <1>1, <1>2 DEF KeyInv, KeyPoolTypeOK, KeysRecoverable
  <1>7. KeysKnown'
    BY <1>1, <1>2, <1>6 DEF KeyInv, KeysKnown, None
  <1>8. KeysRecoverable'
    <2>1. \A h \in Held' : h \in Held /\ reserved'[h].vchPubKey = reserved[h].vchPubKey
                          /\ reserved[h].vchPubKey \in Key
      BY <1>1 DEF Held, None, KeyInv, KeysKnown
    <2>2. used' \subseteq Key /\ \A i \in Index : pool'[i] # NoKey => pool'[i] \in Key
      BY <1>1 DEF KeyInv, KeyPoolTypeOK
    <2> QED  BY <1>1, <1>4, <1>6, <2>1, <2>2 DEF KeyInv, KeysRecoverable
  <1> QED  BY <1>3, <1>4, <1>5, <1>7, <1>8 DEF KeyInv

LEMMA FlushKeeps ==
    ASSUME KeyInv, NewKeyPoolErase \/ NewKeyPoolClear
    PROVE  KeyInv'
  <1>1. /\ UNCHANGED <<keyRec, mkey, fUseCrypto, fLocked, mapKeys, reserved, used, preKeys, who, newKey, nFill, restarts>>
        /\ setKeyPool' \subseteq setKeyPool /\ busy = "flush" /\ busy' \in {"flush", "rewrite", "fill"}
        /\ pool' = pool \/ \E i \in setKeyPool : pool' = [pool EXCEPT ![i] = NoKey]
    BY DEF NewKeyPoolErase, NewKeyPoolClear, ErasePool, diskVars, cryptVars, history
  <1>2. mkey /\ newKey = NoKey /\ fUseCrypto
    BY <1>1 DEF KeyInv, CryptOK, KeysKnown
  <1>3. \A i \in Index : pool'[i] \in {pool[i], NoKey}
    BY <1>1 DEF KeyInv, KeyPoolTypeOK
  <1>4. KeyPoolTypeOK' /\ CryptOK'
    BY <1>1, <1>2 DEF KeyInv, KeyPoolTypeOK, CryptOK
  <1>5. IndexBound'
    BY <1>1, <1>3, NumbersStep DEF KeyInv, IndexBound
  <1>6. KeysKnown'
    BY <1>1, <1>2 DEF KeyInv, KeysKnown, None
  <1>7. KeysRecoverable'
    BY <1>1, <1>3 DEF KeyInv, KeysRecoverable, Held, None
  <1> QED  BY <1>1, <1>2, <1>4, <1>5, <1>6, <1>7 DEF KeyInv

(* A restart at any point: the pool is what the file has. *)
LEMMA RestartKeeps ==
    ASSUME KeyInv, Restart
    PROVE  KeyInv'
  <1>1. /\ restarts < MaxRestarts /\ restarts' = restarts + 1
        /\ setKeyPool' = {i \in Index : pool[i] # NoKey}
        /\ mapKeys' = {k \in Key : keyRec[k] # "none"}
        /\ fUseCrypto' = (\E k \in Key : keyRec[k] = "ckey") /\ fLocked' = fUseCrypto'
        /\ reserved' = [h \in Holder |-> None]
        /\ preKeys' \in {{}, preKeys}
        /\ busy' = "no" /\ who' = Nobody /\ newKey' = NoKey /\ nFill' = 0
        /\ UNCHANGED <<pool, keyRec, mkey, used>>
    BY DEF Restart, Leave, diskVars
  <1>2. mapKeys' = mapKeys
    BY <1>1 DEF KeyInv, KeysKnown
  <1>3. fUseCrypto' <=> mkey
    <2>1. mkey => \E k \in Key : keyRec[k] # "none"
      BY DEF KeyInv, CryptOK, KeysRecoverable, KeyPoolTypeOK
    <2>2. \A k \in Key : keyRec[k] # "none" => (keyRec[k] = "ckey" <=> mkey)
      BY DEF KeyInv, KeysRecoverable
    <2>3. \A k \in Key : keyRec[k] = "ckey" => mkey
      BY <2>2
    <2> QED  BY <1>1, <2>1, <2>2, <2>3, Zenon
  <1>4. KeyPoolTypeOK'
    <2>1. fUseCrypto' \in BOOLEAN /\ fLocked' \in BOOLEAN
      BY <1>1, Zenon
    <2>2. restarts' \in 0 .. MaxRestarts /\ nFill' \in 0 .. nTargetSize
      BY <1>1 DEF KeyInv, KeyPoolTypeOK
    <2>3. reserved' \in [Holder -> [nIndex : Index \cup {-1}, vchPubKey : Key \cup {NoKey}]]
      BY <1>1 DEF None
    <2> QED  BY <1>1, <2>1, <2>2, <2>3 DEF KeyInv, KeyPoolTypeOK
  <1>5. CryptOK'
    BY <1>1, <1>3 DEF KeyInv, CryptOK
  <1>6. \A h \in Holder : reserved'[h] = None /\ None.nIndex = -1 /\ None.vchPubKey = NoKey
    BY <1>1 DEF None
  <1>7. IndexBound'
    <2>1. Numbers \in Nat /\ Numbers' \in Nat /\ Numbers' >= Numbers
      BY <1>1, <1>2, NumbersBound, NumbersStep
    <2>2. \A i \in Index : i \in Int
      BY FS_CardinalityType DEF Index
    <2> QED  BY <1>1, <1>6, <2>1, <2>2 DEF KeyInv, IndexBound
  <1>8. Held' = {}
    BY <1>1 DEF Held, None
  <1>9. KeysKnown'
    BY <1>1, <1>6 DEF KeysKnown, None
  <1>10. KeysRecoverable'
    BY <1>1, <1>8 DEF KeyInv, KeysRecoverable
  <1>11. PoolInOrder => PoolInOrder'
    BY <1>1, <1>2, <1>8 DEF PoolInOrder, KeyInv, KeysRecoverable, KeysKnown, KeyPoolTypeOK
  <1> QED  BY <1>1, <1>4, <1>5, <1>7, <1>9, <1>10, <1>11 DEF KeyInv

-----------------------------------------------------------------------------
LEMMA KeyInvInit ==
    ASSUME Init PROVE KeyInv
  <1>1. KeyPoolTypeOK
    <2>1. mkey \in BOOLEAN /\ fUseCrypto \in BOOLEAN /\ fLocked \in BOOLEAN
      BY Zenon DEF Init
    <2>2. /\ pool \in [Index -> Key \cup {NoKey}] /\ keyRec \in [Key -> {"none", "key", "ckey"}]
          /\ reserved \in [Holder -> [nIndex : Index \cup {-1}, vchPubKey : Key \cup {NoKey}]]
          /\ nFill \in 0 .. nTargetSize /\ restarts \in 0 .. MaxRestarts
      BY DEF Init, None
    <2> QED  BY <2>1, <2>2 DEF Init, KeyPoolTypeOK
  <1>2. \A h \in Holder : reserved[h] = None /\ None.nIndex = -1 /\ None.vchPubKey = NoKey
    BY DEF Init, None
  <1>3. Numbers = 0
    BY FS_EmptySet DEF Init, Numbers
  <1>4. IndexBound
    BY <1>2, <1>3 DEF Init, IndexBound
  <1>5. KeysKnown
    BY <1>2 DEF Init, KeysKnown
  <1>6. CryptOK
    BY DEF Init, CryptOK
  <1>7. Held = {}
    BY <1>2 DEF Held
  <1>8. KeysRecoverable /\ PoolInOrder
    BY <1>7 DEF Init, KeysRecoverable, PoolInOrder
  <1> QED  BY <1>1, <1>4, <1>5, <1>6, <1>8 DEF KeyInv

LEMMA KeyInvNext ==
    ASSUME KeyInv, [Next]_vars PROVE KeyInv'
  <1>1. CASE Next
    BY <1>1, QuietKeeps, AddKeyKeeps, WritePoolKeeps, TakeKeeps, ReturnKeeps, KeepKeeps, EncryptKeeps, FlushKeeps,
       RestartKeeps DEF Next
  <1>2. CASE UNCHANGED vars
    <2>1. UNCHANGED <<setKeyPool, pool, keyRec, mkey, mapKeys, reserved, used, newKey, nFill, busy>>
      BY <1>2 DEF vars
    <2>2. KeyPoolTypeOK' /\ CryptOK'
      BY <1>2 DEF vars, KeyInv, KeyPoolTypeOK, CryptOK
    <2> QED  BY <2>1, <2>2, SameData DEF KeyInv
  <1> QED  BY <1>1, <1>2

(* Wherever the process stops between two writes to wallet.dat, during the  *)
(* encryption too, the file has every key that was or may be shown, and is  *)
(* plain or encrypted as a whole.                                           *)
THEOREM NoKeyIsLost == Spec => []KeysRecoverable
  <1>1. KeyInv => KeysRecoverable
    BY DEF KeyInv
  <1> QED  BY <1>1, KeyInvInit, KeyInvNext, PTL DEF Spec

(* "Take key pair from key pool so it won't be used again": as long as the  *)
(* wallet is not encrypted, for every -keypool but 0.  With 0 the pool is   *)
(* empty after each key, and index 1 goes to the next one too.              *)
THEOREM NoKeyIsHandedOutTwice == nTargetSize > 0 => (Spec => []KeyUsedOnce)
  <1> SUFFICES ASSUME nTargetSize > 0 PROVE Spec => []KeyUsedOnce
    OBVIOUS
  <1>1. ASSUME KeyInv PROVE KeyUsedOnce
    <2> SUFFICES ASSUME ~fUseCrypto
                 PROVE  /\ \A g, h \in Held : reserved[g].vchPubKey = reserved[h].vchPubKey => g = h
                        /\ \A h \in Held : reserved[h].vchPubKey \notin used
                        /\ \A i \in setKeyPool : pool[i] \notin used
      BY DEF KeyUsedOnce
    <2>1. PoolInOrder
      BY <1>1 DEF KeyInv, CryptOK
    <2>2. \A h \in Held : reserved[h].nIndex \in Index /\ reserved[h].vchPubKey # NoKey
      BY <1>1 DEF KeyInv, KeysKnown, Held
    <2>3. setKeyPool \subseteq Index
      BY <1>1 DEF KeyInv, KeyPoolTypeOK
    <2> QED  BY <2>1, <2>2, <2>3 DEF PoolInOrder
  <1> QED  BY <1>1, KeyInvInit, KeyInvNext, PTL DEF Spec
=============================================================================
