--------------------------- MODULE WalletFileProofs ---------------------------
(***************************************************************************)
(* No thread ever works with a database handle another one has closed, the *)
(* wallet is always whole in some file, and the flush thread never takes a *)
(* write for flushed that is not, for any number of threads.               *)
(*                                                                         *)
(* The argument goes over what a thread has still to do: a call closes     *)
(* what it opens, so the files a thread uses can be read off its           *)
(* instructions, and the use counts count the threads that use a file.     *)
(***************************************************************************)
EXTENDS WalletFile, FiniteSetTheorems, TLAPS

Instruction == {"main", "wallet", "-main", "-wallet", "open", "close", "openb", "closeb",
                "count", "put", "rewrite", "encrypted", "backup"}

Opens(i, f) == i = IF f = "wallet" THEN "open" ELSE "openb"
Closes(i, f) == i = IF f = "wallet" THEN "close" ELSE "closeb"

(* Instruction k of s closes the file f that is open after instruction i. *)
ClosesNext(s, i, k, f) ==
    Closes(s[k], f) /\ \A j \in (i + 1)..(k - 1) : ~Opens(s[j], f)

(* The files that are open when s is what is still to be done. *)
Using(s) == {f \in File : \E k \in 1..Len(s) : ClosesNext(s, 0, k, f)}

(* A file is closed once for each time it is opened. *)
Bracketed(s) ==
    \A f \in File : \A i \in 1..Len(s) :
        /\ Opens(s[i], f) => \E k \in (i + 1)..Len(s) : ClosesNext(s, i, k, f)
        /\ Closes(s[i], f) => \A k \in (i + 1)..Len(s) : ~ClosesNext(s, i, k, f)

(* A record is written while the wallet is open, after the counter. *)
WritesCounted(s) ==
    \A i \in 1..Len(s) : s[i] = "put" =>
        /\ \E k \in (i + 1)..Len(s) : ClosesNext(s, i, k, "wallet")
        /\ i > 1 => s[i - 1] = "count"

CallOK(s) == s \in Seq(Instruction) /\ Bracketed(s) /\ WritesCounted(s)

-----------------------------------------------------------------------------
(* The call paths, and what is left of one after an instruction.            *)

LEMMA PathsAreCalls ==
    ASSUME NEW t \in Thread, NEW p \in Paths[t]
    PROVE  CallOK(p) /\ Using(p) = {} /\ (p # <<>> => Head(p) # "put")
  <1>1. p \in {UpdateWallet, SetBestChain, UseBlockIndex, KeepKey, ReadAccount,
               EncryptWallet, BackupWallet}
    BY PathsAssumption
  <1> USE DEF CallOK, Bracketed, WritesCounted, Using, ClosesNext, Opens, Closes, File, Instruction
  <1>2. CASE p = UpdateWallet
    BY <1>2 DEF UpdateWallet
  <1>3. CASE p = SetBestChain
    BY <1>3 DEF SetBestChain
  <1>4. CASE p = UseBlockIndex
    BY <1>4 DEF UseBlockIndex
  <1>5. CASE p = KeepKey
    BY <1>5 DEF KeepKey
  <1>6. CASE p = ReadAccount
    BY <1>6 DEF ReadAccount
  <1>7. CASE p = EncryptWallet
    BY <1>7 DEF EncryptWallet
  <1>8. CASE p = BackupWallet
    BY <1>8 DEF BackupWallet
  <1> QED  BY <1>1, <1>2, <1>3, <1>4, <1>5, <1>6, <1>7, <1>8

(* ClosesNext in the rest of a call is ClosesNext one place later. *)
LEMMA ClosesNextTail ==
    ASSUME NEW s \in Seq(Instruction), s # <<>>, NEW f \in File,
           NEW i \in Nat, NEW k \in 1..(Len(s) - 1)
    PROVE  ClosesNext(Tail(s), i, k, f) <=> ClosesNext(s, i + 1, k + 1, f)
  <1>1. Len(Tail(s)) = Len(s) - 1 /\ \A n \in 1..(Len(s) - 1) : Tail(s)[n] = s[n + 1]
    OBVIOUS
  <1>2. Tail(s)[k] = s[k + 1]
    BY <1>1
  <1>3. ASSUME \A j \in (i + 1)..(k - 1) : ~Opens(Tail(s)[j], f),
               NEW j \in (i + 2)..k
        PROVE  ~Opens(s[j], f)
    <2>1. j - 1 \in (i + 1)..(k - 1) /\ j - 1 \in 1..(Len(s) - 1) /\ (j - 1) + 1 = j
      OBVIOUS
    <2>2. Tail(s)[j - 1] = s[j]
      BY <1>1, <2>1
    <2> QED  BY <1>3, <2>1, <2>2
  <1>4. ASSUME \A j \in (i + 2)..k : ~Opens(s[j], f),
               NEW j \in (i + 1)..(k - 1)
        PROVE  ~Opens(Tail(s)[j], f)
    <2>1. j + 1 \in (i + 2)..k /\ j \in 1..(Len(s) - 1)
      OBVIOUS
    <2> QED  BY <1>1, <1>4, <2>1
  <1>5. ((i + 1) + 1)..((k + 1) - 1) = (i + 2)..k
    OBVIOUS
  <1> QED  BY <1>2, <1>3, <1>4, <1>5 DEF ClosesNext

LEMMA TailIsCall ==
    ASSUME NEW s, CallOK(s), s # <<>>
    PROVE  CallOK(Tail(s))
  <1>1. s \in Seq(Instruction) /\ Tail(s) \in Seq(Instruction) /\ Len(s) \in Nat
        /\ Len(Tail(s)) = Len(s) - 1 /\ \A n \in 1..(Len(s) - 1) : Tail(s)[n] = s[n + 1]
    BY DEF CallOK
  <1>2. Bracketed(Tail(s))
    <2> SUFFICES ASSUME NEW f \in File, NEW i \in 1..(Len(s) - 1)
                 PROVE  /\ Opens(s[i + 1], f) =>
                              \E k \in (i + 1)..(Len(s) - 1) : ClosesNext(Tail(s), i, k, f)
                        /\ Closes(s[i + 1], f) =>
                              \A k \in (i + 1)..(Len(s) - 1) : ~ClosesNext(Tail(s), i, k, f)
      BY <1>1 DEF Bracketed
    <2>1. i + 1 \in 1..Len(s) /\ i \in Nat
      BY <1>1
    <2>2. ASSUME Opens(s[i + 1], f)
          PROVE  \E k \in (i + 1)..(Len(s) - 1) : ClosesNext(Tail(s), i, k, f)
      <3>1. PICK k \in ((i + 1) + 1)..Len(s) : ClosesNext(s, i + 1, k, f)
        BY <2>1, <2>2 DEF CallOK, Bracketed
      <3>2. k - 1 \in (i + 1)..(Len(s) - 1) /\ k - 1 \in 1..(Len(s) - 1) /\ (k - 1) + 1 = k
        BY <1>1
      <3> QED  BY <1>1, <2>1, <3>1, <3>2, ClosesNextTail
    <2>3. ASSUME Closes(s[i + 1], f), NEW k \in (i + 1)..(Len(s) - 1)
          PROVE  ~ClosesNext(Tail(s), i, k, f)
      <3>1. k + 1 \in ((i + 1) + 1)..Len(s) /\ k \in 1..(Len(s) - 1)
        BY <1>1
      <3>2. ~ClosesNext(s, i + 1, k + 1, f)
        BY <2>1, <2>3, <3>1 DEF CallOK, Bracketed
      <3> QED  BY <1>1, <2>1, <3>1, <3>2, ClosesNextTail
    <2> QED  BY <2>2, <2>3
  <1>3. WritesCounted(Tail(s))
    <2> SUFFICES ASSUME NEW i \in 1..(Len(s) - 1), s[i + 1] = "put"
                 PROVE  /\ \E k \in (i + 1)..(Len(s) - 1) : ClosesNext(Tail(s), i, k, "wallet")
                        /\ i > 1 => Tail(s)[i - 1] = "count"
      BY <1>1 DEF WritesCounted
    <2>1. i + 1 \in 1..Len(s) /\ i \in Nat /\ i + 1 > 1 /\ (i + 1) - 1 = i
      BY <1>1
    <2>2. PICK k \in ((i + 1) + 1)..Len(s) : ClosesNext(s, i + 1, k, "wallet")
      BY <2>1 DEF CallOK, WritesCounted
    <2>3. k - 1 \in (i + 1)..(Len(s) - 1) /\ k - 1 \in 1..(Len(s) - 1) /\ (k - 1) + 1 = k
      BY <1>1
    <2>4. ClosesNext(Tail(s), i, k - 1, "wallet")
      BY <1>1, <2>1, <2>2, <2>3, ClosesNextTail DEF File
    <2>5. s[i] = "count"
      BY <2>1 DEF CallOK, WritesCounted
    <2>6. i > 1 => i - 1 \in 1..(Len(s) - 1) /\ (i - 1) + 1 = i
      BY <1>1
    <2> QED  BY <1>1, <2>3, <2>4, <2>5, <2>6
  <1> QED  BY <1>1, <1>2, <1>3 DEF CallOK

LEMMA TailUses ==
    ASSUME NEW s, CallOK(s), s # <<>>
    PROVE  /\ Head(s) \in Instruction
           /\ \A f \in File :
                /\ Opens(Head(s), f) => f \notin Using(s) /\ f \in Using(Tail(s))
                /\ Closes(Head(s), f) => f \in Using(s) /\ f \notin Using(Tail(s))
                /\ ~Opens(Head(s), f) /\ ~Closes(Head(s), f) =>
                      (f \in Using(Tail(s)) <=> f \in Using(s))
           /\ Tail(s) # <<>> /\ Head(Tail(s)) = "put" => Head(s) = "count"
           /\ Head(s) = "put" => "wallet" \in Using(s)
  <1>1. s \in Seq(Instruction) /\ Tail(s) \in Seq(Instruction) /\ Len(s) \in Nat /\ Len(s) > 0
        /\ Len(Tail(s)) = Len(s) - 1 /\ \A n \in 1..(Len(s) - 1) : Tail(s)[n] = s[n + 1]
        /\ Head(s) = s[1] /\ s[1] \in Instruction
    BY DEF CallOK
  <1>2. ASSUME NEW f \in File
        PROVE  f \in Using(Tail(s)) <=> \E k \in 2..Len(s) : ClosesNext(s, 1, k, f)
    <2>1. f \in Using(Tail(s)) <=> \E k \in 1..(Len(s) - 1) : ClosesNext(Tail(s), 0, k, f)
      BY <1>1 DEF Using
    <2>2. \A k \in 1..(Len(s) - 1) : ClosesNext(Tail(s), 0, k, f) <=> ClosesNext(s, 1, k + 1, f)
      BY <1>1, ClosesNextTail
    <2>3. \A k \in 2..Len(s) : k - 1 \in 1..(Len(s) - 1) /\ (k - 1) + 1 = k
      BY <1>1
    <2>4. \A k \in 1..(Len(s) - 1) : k + 1 \in 2..Len(s)
      BY <1>1
    <2>5. ASSUME NEW k \in 2..Len(s), ClosesNext(s, 1, k, f)
          PROVE  \E j \in 1..(Len(s) - 1) : ClosesNext(Tail(s), 0, j, f)
      <3>1. ClosesNext(Tail(s), 0, k - 1, f)
        BY <2>2, <2>3, <2>5
      <3> QED  BY <2>3, <3>1
    <2> QED  BY <2>1, <2>2, <2>4, <2>5
  <1>3. ASSUME NEW f \in File, Opens(Head(s), f)
        PROVE  f \notin Using(s) /\ f \in Using(Tail(s))
    <2>1. ~Closes(s[1], f)
      BY <1>1, <1>3 DEF Opens, Closes
    <2>2. \A k \in 2..Len(s) : 1 \in (0 + 1)..(k - 1)
      OBVIOUS
    <2>3. f \notin Using(s)
      BY <1>1, <1>3, <2>1, <2>2 DEF Using, ClosesNext
    <2>4. 1 \in 1..Len(s) /\ (1 + 1)..Len(s) = 2..Len(s)
      BY <1>1
    <2>5. \E k \in 2..Len(s) : ClosesNext(s, 1, k, f)
      BY <1>1, <1>3, <2>4 DEF CallOK, Bracketed
    <2> QED  BY <1>2, <2>3, <2>5
  <1>4. ASSUME NEW f \in File, Closes(Head(s), f)
        PROVE  f \in Using(s) /\ f \notin Using(Tail(s))
    <2>1. 1 \in 1..Len(s) /\ (1 + 1)..Len(s) = 2..Len(s)
      BY <1>1
    <2>2. ClosesNext(s, 0, 1, f)
      BY <1>1, <1>4 DEF ClosesNext
    <2>3. \A k \in 2..Len(s) : ~ClosesNext(s, 1, k, f)
      BY <1>1, <1>4, <2>1 DEF CallOK, Bracketed
    <2> QED  BY <1>2, <2>1, <2>2, <2>3 DEF Using
  <1>5. ASSUME NEW f \in File, ~Opens(Head(s), f), ~Closes(Head(s), f)
        PROVE  f \in Using(Tail(s)) <=> f \in Using(s)
    <2>1. \A k \in 2..Len(s) : ClosesNext(s, 1, k, f) <=> ClosesNext(s, 0, k, f)
      BY <1>1, <1>5 DEF ClosesNext
    <2>2. ~ClosesNext(s, 0, 1, f)
      BY <1>1, <1>5 DEF ClosesNext
    <2>3. f \in Using(s) <=> \E k \in 2..Len(s) : ClosesNext(s, 0, k, f)
      <3>1. 1..Len(s) = {1} \cup 2..Len(s)
        BY <1>1
      <3> QED  BY <2>2, <3>1 DEF Using
    <2> QED  BY <1>2, <2>1, <2>3
  <1>6. Tail(s) # <<>> /\ Head(Tail(s)) = "put" => Head(s) = "count"
    <2> SUFFICES ASSUME Tail(s) # <<>>, Head(Tail(s)) = "put"
                 PROVE  Head(s) = "count"
      OBVIOUS
    <2>1. Head(Tail(s)) = Tail(s)[1] /\ Len(s) > 1
      BY <1>1
    <2>2. s[2] = "put" /\ 2 \in 1..Len(s) /\ 2 > 1 /\ 2 - 1 = 1
      BY <1>1, <2>1
    <2> QED  BY <1>1, <2>2 DEF CallOK, WritesCounted
  <1>7. Head(s) = "put" => "wallet" \in Using(s)
    <2> SUFFICES ASSUME Head(s) = "put" PROVE "wallet" \in Using(s)
      OBVIOUS
    <2>1. 1 \in 1..Len(s) /\ (1 + 1)..Len(s) = 2..Len(s)
      BY <1>1
    <2>2. \E k \in 2..Len(s) : ClosesNext(s, 1, k, "wallet")
      BY <1>1, <2>1 DEF CallOK, WritesCounted
    <2>3. "wallet" \in File /\ ~Opens(Head(s), "wallet") /\ ~Closes(Head(s), "wallet")
      BY DEF File, Opens, Closes
    <2> QED  BY <1>2, <1>5, <2>2, <2>3
  <1> QED  BY <1>1, <1>3, <1>4, <1>5, <1>6, <1>7

-----------------------------------------------------------------------------
(* The inductive invariant.                                                 *)

(* A thread uses the files that what it has still to do will close. *)
RunsOK ==
    /\ run \in [Thread -> Seq(Instruction)] /\ uses \in [Thread -> SUBSET File]
    /\ \A t \in Thread : CallOK(run[t]) /\ uses[t] = Using(run[t])

Users(f) == {t \in Thread : f \in uses[t]}

CountsOK ==
    /\ mapFileUseCount \in [File -> Nat]
    /\ \A f \in File : mapFileUseCount[f] = Cardinality(Users(f))

HandlesOK == \A t \in Thread : uses[t] \subseteq mapDb

(* Who rewrites the file is at that instruction, and the environment is     *)
(* closed when nothing is left to do and nothing can begin.                 *)
PhasesOK ==
    /\ rewriter # Nobody => rewriter \in Thread /\ At(rewriter, "rewrite")
    /\ stop # "no" => fShutdown
    /\ stop = "closed" => \A t \in Thread : run[t] = <<>>

(* Between the counter and the record of a write there is something to      *)
(* flush.                                                                   *)
FlushOK ==
    /\ nLastFlushed \in Nat /\ nWalletDBUpdated \in Nat /\ nLastFlushed <= nWalletDBUpdated
    /\ \A t \in Thread : At(t, "put") => nLastFlushed # nWalletDBUpdated
    /\ FlushedIsFlushed

UseInv == RunsOK /\ CountsOK /\ HandlesOK /\ PhasesOK

(* A file that is not in use has no user. *)
LEMMA NotInUseNobody ==
    ASSUME CountsOK, NEW f \in File, NotInUse(f)
    PROVE  \A t \in Thread : f \notin uses[t]
  <1>1. IsFiniteSet(Users(f))
    BY WalletFileAssumption, FS_Subset DEF Users
  <1>2. Cardinality(Users(f)) = 0
    BY DEF CountsOK, NotInUse
  <1>3. Users(f) = {}
    BY <1>1, <1>2, FS_EmptySet
  <1> QED  BY <1>3 DEF Users

(* A step of thread t that neither opens nor closes a file. *)
LEMMA StepKeeps ==
    ASSUME UseInv, NEW t \in Thread, run[t] # <<>>, Step(t), uses' = uses,
           Head(run[t]) \notin {"open", "close", "openb", "closeb"}
    PROVE  RunsOK'
  <1>1. run' \in [Thread -> Seq(Instruction)] /\ uses' \in [Thread -> SUBSET File]
    BY DEF UseInv, RunsOK, Step
  <1>2. CallOK(Tail(run[t])) /\ run'[t] = Tail(run[t])
    BY TailIsCall DEF UseInv, RunsOK, Step
  <1>3. \A f \in File : f \in Using(Tail(run[t])) <=> f \in Using(run[t])
    BY TailUses DEF UseInv, RunsOK, Opens, Closes
  <1>4. Using(Tail(run[t])) = Using(run[t])
    BY <1>3 DEF Using
  <1>5. \A u \in Thread : u # t => run'[u] = run[u]
    BY DEF UseInv, RunsOK, Step
  <1> QED  BY <1>1, <1>2, <1>4, <1>5 DEF UseInv, RunsOK

(* ... and one that opens or closes one. *)
LEMMA OpenKeeps ==
    ASSUME UseInv, NEW t \in Thread, OpenDb(t)
    PROVE  RunsOK' /\ CountsOK' /\ HandlesOK'
  <1>0. PICK f \in File : f = FileOf(Head(run[t]))
    BY DEF FileOf, File
  <1>1. run[t] # <<>> /\ Opens(Head(run[t]), f) /\ f \in File
        /\ \A g \in File : g # f => ~Opens(Head(run[t]), g) /\ ~Closes(Head(run[t]), g)
    BY <1>0 DEF OpenDb, At, FileOf, Opens, Closes, File
  <1>2. /\ run' = [run EXCEPT ![t] = Tail(@)] /\ mapDb' = mapDb \cup {f}
        /\ mapFileUseCount' = [mapFileUseCount EXCEPT ![f] = @ + 1]
        /\ uses' = [uses EXCEPT ![t] = @ \cup {f}]
    BY <1>0 DEF OpenDb, Step
  <1>3. CallOK(run[t]) /\ uses[t] = Using(run[t])
    BY DEF UseInv, RunsOK
  <1>4. f \notin uses[t] /\ Using(Tail(run[t])) = uses[t] \cup {f}
    <2>1. f \notin Using(run[t]) /\ f \in Using(Tail(run[t]))
      BY <1>1, <1>3, TailUses
    <2>2. \A g \in File : g # f => (g \in Using(Tail(run[t])) <=> g \in Using(run[t]))
      BY <1>1, <1>3, TailUses
    <2>3. Using(run[t]) \subseteq File /\ Using(Tail(run[t])) \subseteq File
      BY DEF Using
    <2> QED  BY <1>1, <1>3, <2>1, <2>2, <2>3
  <1>5. RunsOK'
    <2>1. run' \in [Thread -> Seq(Instruction)] /\ uses' \in [Thread -> SUBSET File]
      BY <1>1, <1>2 DEF UseInv, RunsOK
    <2>2. CallOK(run'[t]) /\ uses'[t] = Using(run'[t])
      BY <1>1, <1>2, <1>3, <1>4, TailIsCall DEF UseInv, RunsOK
    <2>3. \A u \in Thread : u # t => run'[u] = run[u] /\ uses'[u] = uses[u]
      BY <1>2 DEF UseInv, RunsOK
    <2> QED  BY <2>1, <2>2, <2>3 DEF UseInv, RunsOK
  <1>6. CountsOK'
    <2>1. Users(f)' = Users(f) \cup {t} /\ t \notin Users(f)
      BY <1>2, <1>4 DEF Users, UseInv, RunsOK
    <2>2. IsFiniteSet(Users(f)) /\ Cardinality(Users(f)) \in Nat
      BY WalletFileAssumption, FS_Subset, FS_CardinalityType DEF Users
    <2>3. Cardinality(Users(f)') = Cardinality(Users(f)) + 1
      BY <2>1, <2>2, FS_AddElement
    <2>4. \A g \in File : g # f => Users(g)' = Users(g)
      BY <1>2 DEF Users, UseInv, RunsOK
    <2>5. mapFileUseCount' \in [File -> Nat]
      BY <1>1, <1>2 DEF UseInv, CountsOK
    <2>6. ASSUME NEW g \in File PROVE mapFileUseCount'[g] = Cardinality(Users(g)')
      <3>1. CASE g = f
        BY <1>1, <1>2, <2>3, <3>1 DEF UseInv, CountsOK
      <3>2. CASE g # f
        BY <1>1, <1>2, <2>4, <3>2 DEF UseInv, CountsOK
      <3> QED  BY <3>1, <3>2
    <2> QED  BY <2>5, <2>6 DEF CountsOK
  <1>7. HandlesOK'
    BY <1>2 DEF UseInv, HandlesOK, RunsOK
  <1> QED  BY <1>5, <1>6, <1>7

LEMMA CloseKeeps ==
    ASSUME UseInv, NEW t \in Thread, Close(t)
    PROVE  RunsOK' /\ CountsOK' /\ HandlesOK'
  <1>0. PICK f \in File : f = FileOf(Head(run[t]))
    BY DEF FileOf, File
  <1>1. run[t] # <<>> /\ Closes(Head(run[t]), f) /\ f \in File
        /\ \A g \in File : g # f => ~Opens(Head(run[t]), g) /\ ~Closes(Head(run[t]), g)
    BY <1>0 DEF Close, At, FileOf, Opens, Closes, File
  <1>2. /\ run' = [run EXCEPT ![t] = Tail(@)] /\ mapDb' = mapDb
        /\ mapFileUseCount' = [mapFileUseCount EXCEPT ![f] = @ - 1]
        /\ uses' = [uses EXCEPT ![t] = @ \ {f}]
    BY <1>0 DEF Close, Step
  <1>3. CallOK(run[t]) /\ uses[t] = Using(run[t])
    BY DEF UseInv, RunsOK
  <1>4. f \in uses[t] /\ Using(Tail(run[t])) = uses[t] \ {f}
    <2>1. f \in Using(run[t]) /\ f \notin Using(Tail(run[t]))
      BY <1>1, <1>3, TailUses
    <2>2. \A g \in File : g # f => (g \in Using(Tail(run[t])) <=> g \in Using(run[t]))
      BY <1>1, <1>3, TailUses
    <2>3. Using(run[t]) \subseteq File /\ Using(Tail(run[t])) \subseteq File
      BY DEF Using
    <2> QED  BY <1>1, <1>3, <2>1, <2>2, <2>3
  <1>5. RunsOK'
    <2>1. run' \in [Thread -> Seq(Instruction)] /\ uses' \in [Thread -> SUBSET File]
      BY <1>1, <1>2 DEF UseInv, RunsOK
    <2>2. CallOK(run'[t]) /\ uses'[t] = Using(run'[t])
      BY <1>1, <1>2, <1>3, <1>4, TailIsCall DEF UseInv, RunsOK
    <2>3. \A u \in Thread : u # t => run'[u] = run[u] /\ uses'[u] = uses[u]
      BY <1>2 DEF UseInv, RunsOK
    <2> QED  BY <2>1, <2>2, <2>3 DEF UseInv, RunsOK
  <1>6. CountsOK'
    <2>1. Users(f)' = Users(f) \ {t} /\ t \in Users(f)
      BY <1>2, <1>4 DEF Users, UseInv, RunsOK
    <2>2. IsFiniteSet(Users(f)) /\ Cardinality(Users(f)) \in Nat
      BY WalletFileAssumption, FS_Subset, FS_CardinalityType DEF Users
    <2>3. Cardinality(Users(f)') = Cardinality(Users(f)) - 1 /\ Cardinality(Users(f)') \in Nat
      BY <2>1, <2>2, FS_RemoveElement, FS_CardinalityType
    <2>4. \A g \in File : g # f => Users(g)' = Users(g)
      BY <1>2 DEF Users, UseInv, RunsOK
    <2>5. mapFileUseCount[f] = Cardinality(Users(f)) /\ mapFileUseCount[f] - 1 \in Nat
      BY <1>1, <2>3 DEF UseInv, CountsOK
    <2>6. mapFileUseCount' \in [File -> Nat]
      BY <1>1, <1>2, <2>5 DEF UseInv, CountsOK
    <2>7. ASSUME NEW g \in File PROVE mapFileUseCount'[g] = Cardinality(Users(g)')
      <3>1. CASE g = f
        BY <1>1, <1>2, <2>3, <2>5, <3>1 DEF UseInv, CountsOK
      <3>2. CASE g # f
        BY <1>1, <1>2, <2>4, <3>2 DEF UseInv, CountsOK
      <3> QED  BY <3>1, <3>2
    <2> QED  BY <2>6, <2>7 DEF CountsOK
  <1>7. HandlesOK'
    BY <1>2 DEF UseInv, HandlesOK, RunsOK
  <1> QED  BY <1>5, <1>6, <1>7

LEMMA SameUsers ==
    ASSUME UseInv, uses' = uses, mapFileUseCount' = mapFileUseCount
    PROVE  CountsOK'
  <1>1. \A f \in File : Users(f)' = Users(f)
    BY DEF Users
  <1> QED  BY <1>1 DEF UseInv, CountsOK

(* A step of a thread that is not rewriting. *)
LEMMA StepPhases ==
    ASSUME UseInv, NEW t \in Thread, run[t] # <<>>, Step(t),
           rewriter = Nobody \/ Head(run[t]) # "rewrite",
           rewriter' = rewriter, UNCHANGED stopVars
    PROVE  PhasesOK'
  <1>1. \A u \in Thread : u # t => run'[u] = run[u]
    BY DEF UseInv, RunsOK, Step
  <1>2. stop # "closed"
    BY DEF UseInv, PhasesOK
  <1>3. rewriter # Nobody => rewriter \in Thread /\ rewriter # t /\ At(rewriter, "rewrite")
    BY DEF UseInv, PhasesOK, At
  <1> QED  BY <1>1, <1>2, <1>3 DEF UseInv, PhasesOK, stopVars, At

(* FlushWallet is only called when the wallet is not in use. *)
LEMMA FlushKeepsHandles ==
    ASSUME UseInv, NotInUse("wallet"), FlushWallet, uses' = uses
    PROVE  HandlesOK'
  <1>1. \A t \in Thread : "wallet" \notin uses[t]
    BY NotInUseNobody DEF UseInv, File
  <1> QED  BY <1>1 DEF UseInv, HandlesOK, FlushWallet

LEMMA UseInvStep ==
    ASSUME UseInv, NEW t \in Thread, Begin(t) \/ ThreadStep(t)
    PROVE  UseInv'
  <1>1. CASE Begin(t)
    <2>1. PICK p \in Paths[t] : run' = [run EXCEPT ![t] = p]
      BY <1>1 DEF Begin
    <2>2. CallOK(p) /\ Using(p) = {} /\ p \in Seq(Instruction)
      BY PathsAreCalls DEF CallOK
    <2>3. run[t] = <<>> /\ ~fShutdown /\ uses[t] = {}
      <3>1. Using(<<>>) = {}
        BY DEF Using
      <3> QED  BY <1>1, <3>1 DEF Begin, UseInv, RunsOK
    <2>4. /\ uses' = uses /\ mapFileUseCount' = mapFileUseCount /\ mapDb' = mapDb
          /\ rewriter' = rewriter /\ fShutdown' = fShutdown /\ stop' = stop
      BY <1>1 DEF Begin, rewriteVars, stopVars
    <2>5. run'[t] = p /\ \A u \in Thread : u # t => run'[u] = run[u]
      BY <2>1 DEF UseInv, RunsOK
    <2>6. RunsOK'
      BY <2>1, <2>2, <2>3, <2>4, <2>5 DEF UseInv, RunsOK
    <2>7. PhasesOK'
      BY <2>3, <2>4, <2>5 DEF UseInv, PhasesOK, At
    <2> QED  BY <2>4, <2>6, <2>7, SameUsers DEF UseInv, HandlesOK
  <1>2. ASSUME run[t] # <<>>, Step(t), uses' = uses, mapFileUseCount' = mapFileUseCount,
               Head(run[t]) \notin {"open", "close", "openb", "closeb"}, HandlesOK',
               rewriter = Nobody \/ Head(run[t]) # "rewrite",
               rewriter' = rewriter, UNCHANGED stopVars
        PROVE  UseInv'
    BY <1>2, StepKeeps, StepPhases, SameUsers DEF UseInv
  <1>3. CASE Enter(t)
    <2>1. /\ run[t] # <<>> /\ Step(t) /\ uses' = uses /\ mapFileUseCount' = mapFileUseCount
          /\ Head(run[t]) \in Lock /\ mapDb' = mapDb
          /\ rewriter' = rewriter /\ UNCHANGED stopVars
      BY <1>3 DEF Enter, At, rewriteVars
    <2> QED  BY <1>2, <2>1 DEF UseInv, HandlesOK, Lock
  <1>4. CASE LeaveLock(t)
    <2>1. /\ run[t] # <<>> /\ Step(t) /\ uses' = uses /\ mapFileUseCount' = mapFileUseCount
          /\ Head(run[t]) \in {"-main", "-wallet"} /\ mapDb' = mapDb
          /\ rewriter' = rewriter /\ UNCHANGED stopVars
      BY <1>4 DEF LeaveLock, At, rewriteVars, Lock, Leave
    <2> QED  BY <1>2, <2>1 DEF UseInv, HandlesOK
  <1>5. CASE OpenDb(t)
    <2>1. /\ run[t] # <<>> /\ Step(t) /\ rewriter = Nobody
          /\ rewriter' = rewriter /\ UNCHANGED stopVars
      BY <1>5 DEF OpenDb, At, rewriteVars, dbFree
    <2> QED  BY <1>5, <2>1, OpenKeeps, StepPhases DEF UseInv
  <1>6. CASE Close(t)
    <2>1. /\ run[t] # <<>> /\ Step(t) /\ rewriter = Nobody
          /\ rewriter' = rewriter /\ UNCHANGED stopVars
      BY <1>6 DEF Close, At, rewriteVars, dbFree
    <2> QED  BY <1>6, <2>1, CloseKeeps, StepPhases DEF UseInv
  <1>7. CASE Count(t) \/ Put(t) \/ EncryptReturns(t)
    <2>1. /\ run[t] # <<>> /\ Step(t) /\ uses' = uses /\ mapFileUseCount' = mapFileUseCount
          /\ Head(run[t]) \in {"count", "put", "encrypted"} /\ mapDb' = mapDb
          /\ rewriter' = rewriter /\ UNCHANGED stopVars
      BY <1>7 DEF Count, Put, EncryptReturns, At, rewriteVars
    <2> QED  BY <1>2, <2>1 DEF UseInv, HandlesOK
  <1>8. CASE Backup(t)
    <2>1. /\ run[t] # <<>> /\ Step(t) /\ uses' = uses /\ mapFileUseCount' = mapFileUseCount
          /\ Head(run[t]) = "backup" /\ rewriter' = rewriter /\ UNCHANGED stopVars
          /\ mapDb' = mapDb \/ (NotInUse("wallet") /\ FlushWallet)
      BY <1>8 DEF Backup, At, rewriteVars
    <2>2. HandlesOK'
      BY <2>1, FlushKeepsHandles DEF UseInv, HandlesOK
    <2> QED  BY <1>2, <2>1, <2>2
  <1>9. CASE RewriteBegins(t)
    <2>1. /\ At(t, "rewrite") /\ NotInUse("wallet") /\ FlushWallet /\ rewriter' = t
          /\ run' = run /\ uses' = uses /\ mapFileUseCount' = mapFileUseCount
          /\ fShutdown' = fShutdown /\ stop' = stop
      BY <1>9 DEF RewriteBegins, stopVars
    <2>2. RunsOK' /\ PhasesOK'
      BY <2>1 DEF UseInv, RunsOK, PhasesOK, At
    <2> QED  BY <2>1, <2>2, FlushKeepsHandles, SameUsers DEF UseInv
  <1>10. CASE RewriteGivesUp(t)
    <2>1. /\ run[t] # <<>> /\ Step(t) /\ uses' = uses /\ mapFileUseCount' = mapFileUseCount
          /\ Head(run[t]) = "rewrite" /\ mapDb' = mapDb /\ rewriter = Nobody
          /\ rewriter' = rewriter /\ UNCHANGED stopVars
      BY <1>10 DEF RewriteGivesUp, At, rewriteVars, dbFree
    <2> QED  BY <1>2, <2>1 DEF UseInv, HandlesOK
  <1>11. CASE RewriteCopies(t) \/ RewriteRemoves(t)
    <2>1. /\ run' = run /\ uses' = uses /\ mapFileUseCount' = mapFileUseCount /\ mapDb' = mapDb
          /\ rewriter' = rewriter /\ fShutdown' = fShutdown /\ stop' = stop
      BY <1>11 DEF RewriteCopies, RewriteRemoves, stopVars
    <2> QED  BY <2>1, SameUsers DEF UseInv, RunsOK, HandlesOK, PhasesOK, At
  <1>12. CASE RewriteRenames(t) \/ RewriteFails(t)
    <2>1. /\ rewriter = t /\ rewriter' = Nobody /\ Step(t) /\ uses' = uses
          /\ mapFileUseCount' = mapFileUseCount /\ mapDb' = mapDb
          /\ fShutdown' = fShutdown /\ stop' = stop
      BY <1>12 DEF RewriteRenames, RewriteFails, stopVars
    <2>2. run[t] # <<>> /\ Head(run[t]) = "rewrite"
      BY <2>1, WalletFileAssumption DEF UseInv, PhasesOK, At
    <2>3. RunsOK'
      BY <2>1, <2>2, StepKeeps
    <2>4. stop # "closed"
      BY <2>2 DEF UseInv, PhasesOK
    <2>5. PhasesOK'
      BY <2>1, <2>4 DEF UseInv, PhasesOK
    <2> QED  BY <2>1, <2>3, <2>5, SameUsers DEF UseInv, HandlesOK
  <1> QED  BY <1>1, <1>3, <1>4, <1>5, <1>6, <1>7, <1>8, <1>9, <1>10, <1>11, <1>12
           DEF ThreadStep

LEMMA UseInvNext == UseInv /\ [Next]_vars => UseInv'
  <1> SUFFICES ASSUME UseInv, [Next]_vars PROVE UseInv'
    OBVIOUS
  <1>1. CASE \E t \in Thread : Begin(t) \/ ThreadStep(t)
    BY <1>1, UseInvStep
  <1>2. CASE ThreadFlushWalletDB
    <2>1. /\ NotInUse("wallet") /\ FlushWallet /\ run' = run /\ uses' = uses
          /\ mapFileUseCount' = mapFileUseCount /\ rewriter' = rewriter
          /\ fShutdown' = fShutdown /\ stop' = stop
      BY <1>2 DEF ThreadFlushWalletDB, File, rewriteVars, stopVars
    <2>2. RunsOK' /\ PhasesOK'
      BY <2>1 DEF UseInv, RunsOK, PhasesOK, At
    <2> QED  BY <2>1, <2>2, FlushKeepsHandles, SameUsers DEF UseInv
  <1>3. CASE Shutdown
    <2>1. /\ run' = run /\ uses' = uses /\ mapFileUseCount' = mapFileUseCount /\ mapDb' = mapDb
          /\ rewriter' = rewriter /\ fShutdown' = TRUE /\ stop' = "flush"
      BY <1>3 DEF Shutdown, rewriteVars
    <2> QED  BY <2>1, SameUsers DEF UseInv, RunsOK, HandlesOK, PhasesOK, At
  <1>4. CASE ShutdownFlush \/ ShutdownClose
    <2>1. /\ run' = run /\ uses' = uses /\ mapFileUseCount' = mapFileUseCount
          /\ mapDb' = {f \in mapDb : ~NotInUse(f)}
          /\ rewriter' = rewriter /\ fShutdown' = fShutdown
          /\ stop \in {"flush", "wait"} /\ stop' \in {"wait", "closed"}
          /\ stop' = "closed" => ThreadsStopped
      BY <1>4 DEF ShutdownFlush, ShutdownClose, DBFlush, rewriteVars
    <2>2. HandlesOK'
      <3>1. \A t \in Thread : \A f \in uses[t] : f \in File /\ f \in mapDb /\ ~NotInUse(f)
        BY NotInUseNobody DEF UseInv, RunsOK, HandlesOK
      <3> QED  BY <2>1, <3>1 DEF HandlesOK
    <2>3. RunsOK' /\ PhasesOK'
      BY <2>1 DEF UseInv, RunsOK, PhasesOK, At, ThreadsStopped
    <2> QED  BY <2>1, <2>2, <2>3, SameUsers DEF UseInv
  <1>5. CASE UNCHANGED vars
    <2>1. /\ run' = run /\ uses' = uses /\ mapFileUseCount' = mapFileUseCount /\ mapDb' = mapDb
          /\ rewriter' = rewriter /\ fShutdown' = fShutdown /\ stop' = stop
      BY <1>5 DEF vars
    <2> QED  BY <2>1, SameUsers DEF UseInv, RunsOK, HandlesOK, PhasesOK, At
  <1> QED  BY <1>1, <1>2, <1>3, <1>4, <1>5 DEF Next

LEMMA UseInvariant == Spec => []UseInv
  <1>1. Init => UseInv
    <2> SUFFICES ASSUME Init PROVE UseInv
      OBVIOUS
    <2> USE DEF Init
    <2>1. RunsOK
      <3>1. CallOK(<<>>) /\ Using(<<>>) = {}
        BY DEF CallOK, Bracketed, WritesCounted, Using
      <3> QED  BY <3>1 DEF RunsOK, CallOK
    <2>2. CountsOK
      <3>1. \A f \in File : Users(f) = {}
        BY DEF Users
      <3> QED  BY <3>1, FS_EmptySet DEF CountsOK
    <2> QED  BY <2>1, <2>2 DEF UseInv, HandlesOK, PhasesOK
  <1> QED  BY <1>1, UseInvNext, PTL DEF Spec

(* HandleInUseStaysOpen: ThreadFlushWalletDB, BackupWallet, CDB::Rewrite    *)
(* and DBFlush close no handle under a CDB that another thread still works  *)
(* with, and Shutdown closes the environment after the last one is gone.    *)
THEOREM HandlesStayOpen == Spec => []HandleInUseStaysOpen
  <1>1. UseInv => HandleInUseStaysOpen
    <2>1. Using(<<>>) = {}
      BY DEF Using
    <2> QED  BY <2>1 DEF UseInv, RunsOK, HandlesOK, PhasesOK, HandleInUseStaysOpen
  <1> QED  BY <1>1, UseInvariant, PTL

(* WalletSomewhere: CDB::Rewrite removes the wallet only when its copy is   *)
(* complete, so a crash at any point leaves one whole wallet file.          *)
THEOREM WalletSurvivesRewriting == Spec => []WalletSomewhere
  <1> DEFINE FilesOK == files \in {{"wallet.dat"}, {"wallet.dat", "wallet.dat.rewrite"},
                                   {"wallet.dat", "partial copy"}, {"wallet.dat.rewrite"}}
  <1>1. Init => FilesOK
    BY DEF Init
  <1>2. FilesOK /\ [Next]_vars => FilesOK'
    <2> SUFFICES ASSUME FilesOK, [Next]_vars PROVE FilesOK'
      OBVIOUS
    <2>1. ASSUME NEW t \in Thread, RewriteCopies(t) PROVE FilesOK'
      <3>1. files' = {"wallet.dat", "wallet.dat.rewrite"} \/ files' = {"wallet.dat", "partial copy"}
        BY <2>1 DEF RewriteCopies
      <3> QED  BY <3>1
    <2>2. ASSUME NEW t \in Thread, RewriteRemoves(t) \/ RewriteRenames(t) PROVE FilesOK'
      BY <2>2 DEF RewriteRemoves, RewriteRenames
    <2>3. ASSUME NEW t \in Thread,
                 \/ Begin(t) \/ Enter(t) \/ LeaveLock(t) \/ OpenDb(t) \/ Close(t) \/ Count(t)
                 \/ Put(t) \/ EncryptReturns(t) \/ Backup(t) \/ RewriteBegins(t)
                 \/ RewriteGivesUp(t) \/ RewriteFails(t)
          PROVE  files' = files
      BY <2>3 DEF Begin, Enter, LeaveLock, OpenDb, Close, Count, Put, EncryptReturns, Backup,
                  RewriteBegins, RewriteGivesUp, RewriteFails, rewriteVars
    <2>4. CASE ThreadFlushWalletDB \/ Shutdown \/ ShutdownFlush \/ ShutdownClose \/ UNCHANGED vars
      BY <2>4 DEF ThreadFlushWalletDB, Shutdown, ShutdownFlush, ShutdownClose, DBFlush,
                  rewriteVars, vars
    <2> QED  BY <2>1, <2>2, <2>3, <2>4 DEF Next, ThreadStep
  <1>3. FilesOK => WalletSomewhere
    BY DEF WalletSomewhere
  <1> QED  BY <1>1, <1>2, <1>3, PTL DEF Spec

-----------------------------------------------------------------------------
(* The bookkeeping of the flush thread.                                     *)

(* Which steps lead to a "put". *)
LEMMA PutFollowsCount ==
    ASSUME UseInv, NEW t \in Thread, run[t] # <<>>, Step(t), Head(run[t]) # "count"
    PROVE  \A u \in Thread : At(u, "put")' => At(u, "put")
  <1>1. CallOK(run[t]) /\ run'[t] = Tail(run[t])
    BY DEF UseInv, RunsOK, Step
  <1>2. ~At(t, "put")'
    BY <1>1, TailUses DEF At
  <1>3. \A u \in Thread : u # t => run'[u] = run[u]
    BY DEF UseInv, RunsOK, Step
  <1> QED  BY <1>2, <1>3 DEF At

LEMMA NobodyPuts ==
    ASSUME UseInv, NotInUse("wallet")
    PROVE  \A t \in Thread : ~At(t, "put")
  <1>1. \A t \in Thread : "wallet" \notin uses[t]
    BY NotInUseNobody DEF UseInv, File
  <1>2. \A t \in Thread : CallOK(run[t]) /\ uses[t] = Using(run[t])
    BY DEF UseInv, RunsOK
  <1> QED  BY <1>1, <1>2, TailUses DEF At

LEMMA FlushNext == UseInv /\ FlushOK /\ [Next]_vars => FlushOK'
  <1> SUFFICES ASSUME UseInv, FlushOK, [Next]_vars PROVE FlushOK'
    OBVIOUS
  <1> USE DEF FlushOK, FlushedIsFlushed
  <1>1. ASSUME UNCHANGED <<nLastFlushed, nWalletDBUpdated, written>>, dat' \in {dat, written},
               \A u \in Thread : At(u, "put")' => At(u, "put")
        PROVE  FlushOK'
    BY <1>1
  <1>2. ASSUME NEW t \in Thread, Begin(t) PROVE FlushOK'
    <2>1. PICK p \in Paths[t] : run' = [run EXCEPT ![t] = p]
      BY <1>2 DEF Begin
    <2>2. p # <<>> => Head(p) # "put"
      BY PathsAreCalls
    <2>3. run'[t] = p /\ \A u \in Thread : u # t => run'[u] = run[u]
      BY <2>1 DEF UseInv, RunsOK
    <2>4. \A u \in Thread : At(u, "put")' => At(u, "put")
      BY <2>2, <2>3 DEF At
    <2>5. UNCHANGED <<nLastFlushed, nWalletDBUpdated, written, dat>>
      BY <1>2 DEF Begin, dataVars
    <2> QED  BY <1>1, <2>4, <2>5
  <1>3. ASSUME NEW t \in Thread, Count(t) PROVE FlushOK'
    <2>1. nWalletDBUpdated' = nWalletDBUpdated + 1 /\ nLastFlushed' = nLastFlushed
      BY <1>3 DEF Count
    <2>2. nWalletDBUpdated' \in Nat /\ nLastFlushed' \in Nat /\ nLastFlushed' < nWalletDBUpdated'
      BY <2>1
    <2>3. nLastFlushed' # nWalletDBUpdated'
      BY <2>2
    <2> QED  BY <2>2, <2>3
  <1>4. ASSUME NEW t \in Thread, Put(t) PROVE FlushOK'
    <2>1. At(t, "put") /\ Step(t) /\ UNCHANGED <<nLastFlushed, nWalletDBUpdated>>
      BY <1>4 DEF Put
    <2>2. nLastFlushed # nWalletDBUpdated
      BY <2>1
    <2> QED  BY <2>1, <2>2
  <1>5. ASSUME NEW t \in Thread,
               \/ Enter(t) \/ LeaveLock(t) \/ OpenDb(t) \/ Close(t)
               \/ EncryptReturns(t) \/ RewriteGivesUp(t)
        PROVE  FlushOK'
    <2>1. /\ run[t] # <<>> /\ Step(t) /\ Head(run[t]) # "count"
          /\ UNCHANGED <<nLastFlushed, nWalletDBUpdated, written, dat>>
      BY <1>5 DEF Enter, LeaveLock, OpenDb, Close, EncryptReturns, RewriteGivesUp, At, dataVars,
                  Lock, Leave
    <2> QED  BY <1>1, <2>1, PutFollowsCount
  <1>6. ASSUME NEW t \in Thread, Backup(t) PROVE FlushOK'
    <2>1. /\ run[t] # <<>> /\ Step(t) /\ Head(run[t]) # "count"
          /\ UNCHANGED <<nLastFlushed, nWalletDBUpdated, written>> /\ dat' \in {dat, written}
      BY <1>6 DEF Backup, FlushWallet, At
    <2> QED  BY <1>1, <2>1, PutFollowsCount
  <1>7. ASSUME NEW t \in Thread, RewriteBegins(t) PROVE FlushOK'
    <2>1. /\ run' = run /\ UNCHANGED <<nLastFlushed, nWalletDBUpdated, written>>
          /\ dat' \in {dat, written}
      BY <1>7 DEF RewriteBegins, FlushWallet
    <2> QED  BY <1>1, <2>1 DEF At
  <1>8. ASSUME NEW t \in Thread, RewriteCopies(t) \/ RewriteRemoves(t) PROVE FlushOK'
    <2>1. run' = run /\ UNCHANGED <<nLastFlushed, nWalletDBUpdated, written, dat>>
      BY <1>8 DEF RewriteCopies, RewriteRemoves, dataVars
    <2> QED  BY <1>1, <2>1 DEF At
  <1>9. ASSUME NEW t \in Thread, RewriteRenames(t) \/ RewriteFails(t) PROVE FlushOK'
    <2>1. /\ rewriter = t /\ Step(t)
          /\ UNCHANGED <<nLastFlushed, nWalletDBUpdated, written, dat>>
      BY <1>9 DEF RewriteRenames, RewriteFails, dataVars
    <2>2. run[t] # <<>> /\ Head(run[t]) = "rewrite"
      BY <2>1, WalletFileAssumption DEF UseInv, PhasesOK, At
    <2> QED  BY <1>1, <2>1, <2>2, PutFollowsCount
  <1>10. CASE ThreadFlushWalletDB
    <2>1. /\ NotInUse("wallet") /\ run' = run /\ dat' = written /\ written' = written
          /\ nLastFlushed' = nWalletDBUpdated /\ nWalletDBUpdated' = nWalletDBUpdated
      BY <1>10 DEF ThreadFlushWalletDB, File, FlushWallet
    <2>2. \A t \in Thread : ~At(t, "put")'
      BY <2>1, NobodyPuts DEF At
    <2> QED  BY <2>1, <2>2
  <1>11. CASE Shutdown \/ ShutdownFlush \/ ShutdownClose \/ UNCHANGED vars
    <2>1. /\ run' = run /\ UNCHANGED <<nLastFlushed, nWalletDBUpdated, written>>
          /\ dat' \in {dat, written}
      BY <1>11 DEF Shutdown, ShutdownFlush, ShutdownClose, DBFlush, dataVars, vars
    <2> QED  BY <1>1, <2>1 DEF At
  <1> QED  BY <1>2, <1>3, <1>4, <1>5, <1>6, <1>7, <1>8, <1>9, <1>10, <1>11 DEF Next, ThreadStep

(* FlushedIsFlushed: CWalletDB counts an update before it writes it, and    *)
(* the flush thread reads the counter while nobody has the wallet open: the *)
(* counters agree only when every write is in wallet.dat.                   *)
THEOREM FlushSeesEveryWrite == Spec => []FlushedIsFlushed
  <1>1. Init => FlushOK
    BY DEF Init, FlushOK, FlushedIsFlushed, At
  <1>2. FlushOK => FlushedIsFlushed
    BY DEF FlushOK
  <1> QED  BY <1>1, <1>2, FlushNext, UseInvariant, PTL DEF Spec
=============================================================================
