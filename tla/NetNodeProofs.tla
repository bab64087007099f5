--------------------------- MODULE NetNodeProofs ---------------------------
(***************************************************************************)
(* Until the process exits no thread has a pointer to a deleted CNode, for *)
(* any number of nodes and addresses.                                      *)
(*                                                                         *)
(* UsedNodesAlive is not inductive: a node is deleted when its count is    *)
(* zero, so the count has to cover the references still to be given back   *)
(* (CountCoversUsers), and the node the opening thread has in hand without *)
(* a reference has to be kept by something else (FoundIsHeld).  Around     *)
(* these stand the facts on where each thread is and what it holds there.  *)
(***************************************************************************)
EXTENDS NetNode, TLAPS

(* A node is in at most one place that may delete it, and not in one any   *)
(* more once it is deleted.                                                *)
OneOwner ==
    /\ vNodes \cap vNodesDisconnected = {}
    /\ freeing \notin vNodes \cup vNodesDisconnected
    /\ deleted \cap (vNodes \cup vNodesDisconnected \cup {freeing}) = {}

(* Where the threads are, and what they hold there. *)
ThreadsOK ==
    /\ sock # "service" => sockCopy = {}
    /\ msg # "service" => msgCopy = {}
    /\ open \in {"found", "addref", "connected"} <=> found # NoNode
    /\ stop # "no" => fShutdown
    /\ freeing # NoNode => stop = "exit"
    /\ busy \in created \cup {NoNode}
    /\ \A n \in Node \ created : nRefCount[n] = 0

NetInv ==
    /\ NetTypeOK /\ OneOwner /\ ThreadsOK
    /\ CountCoversUsers /\ FoundIsHeld /\ UsedNodesAlive

Counted == CountCoversUsers /\ FoundIsHeld /\ UsedNodesAlive

USE NetNodeAssumption

-----------------------------------------------------------------------------
(* A node the socket thread may delete has no user, unless its count was    *)
(* overwritten.                                                             *)
LEMMA UnusedHasNoUser ==
    ASSUME NetInv, NEW n \in Unused
    PROVE  /\ n \in created /\ n \notin vNodes /\ n # freeing /\ n \notin deleted
           /\ n \notin raced => n \notin sockCopy \cup msgCopy
           /\ ~Exiting => n # found
  <1>1. n \in created /\ n \in Node /\ n \in vNodesDisconnected
    BY DEF Unused, NetInv, NetTypeOK
  <1>2. n \notin vNodes /\ n # freeing /\ n \notin deleted
    BY <1>1 DEF NetInv, OneOwner
  <1>3. nRefCount[n] \in Int /\ nRefCount[n] <= 0 /\ n \notin grace
    BY <1>1 DEF Unused, GetRefCount, NetInv, NetTypeOK
  <1>4. ~Exiting => n # found
    BY <1>1, <1>2, <1>3 DEF NetInv, FoundIsHeld, Exiting
  <1>5. n \notin raced => n \notin sockCopy \cup msgCopy
    BY <1>1, <1>2, <1>3 DEF NetInv, CountCoversUsers, Users, Count
  <1> QED  BY <1>1, <1>2, <1>4, <1>5

(* Steps that change no count and no list, and at most drop a copy.         *)
LEMMA QuietStep ==
    ASSUME NetInv, UNCHANGED <<lists, nRefCount, grace, found, raced, freeing>>,
           Exiting => Exiting',
           sockCopy' \subseteq sockCopy, msgCopy' \subseteq msgCopy
    PROVE  OneOwner' /\ Counted'
  <1>1. OneOwner' /\ FoundIsHeld' /\ UsedNodesAlive'
    BY DEF NetInv, OneOwner, FoundIsHeld, UsedNodesAlive, Exiting, lists
  <1>2. CountCoversUsers'
    <2> SUFFICES ASSUME NEW n \in created \ (deleted \cup raced)
                 PROVE  nRefCount[n] >= Users(n)'
      BY DEF CountCoversUsers, lists
    <2>1. nRefCount[n] >= Users(n) /\ nRefCount[n] \in Int
      BY DEF NetInv, CountCoversUsers, NetTypeOK
    <2> QED  BY <2>1 DEF Users, Count, lists
  <1> QED  BY <1>1, <1>2 DEF Counted

LEMMA QuietActions ==
    ASSUME NetInv,
           \/ SocketFails \/ SocketReturns \/ SocketEnds
           \/ MessageDone \/ MessageEnds \/ \E n \in Node : ProcessMessages(n)
           \/ OpenNetworkConnection \/ ConnectReadsRef \/ ConnectNew \/ ConnectFails
           \/ Shutdown \/ StopNode \/ ExitDone
    PROVE  NetInv'
  <1>1. CASE SocketFails \/ SocketReturns \/ SocketEnds
    <2>1. NetTypeOK' /\ ThreadsOK'
      BY <1>1 DEF SocketFails, SocketReturns, SocketEnds, NetInv, NetTypeOK, ThreadsOK, lists, sockVars, msgVars, openVars, stopVars
    <2>2. OneOwner' /\ Counted'
      BY <1>1, QuietStep DEF Exiting, SocketFails, SocketReturns, SocketEnds, lists, sockVars, msgVars, openVars, stopVars
    <2> QED  BY <2>1, <2>2 DEF NetInv, Counted
  <1>2. CASE MessageDone \/ MessageEnds \/ \E n \in Node : ProcessMessages(n)
    <2>1. NetTypeOK' /\ ThreadsOK'
      BY <1>2 DEF MessageDone, MessageEnds, ProcessMessages, NetInv, NetTypeOK, ThreadsOK, lists, sockVars, msgVars, openVars, stopVars
    <2>2. OneOwner' /\ Counted'
      BY <1>2, QuietStep DEF Exiting, MessageDone, MessageEnds, ProcessMessages, lists, sockVars, msgVars, openVars, stopVars
    <2> QED  BY <2>1, <2>2 DEF NetInv, Counted
  <1>3. CASE OpenNetworkConnection \/ ConnectReadsRef \/ ConnectNew \/ ConnectFails
    <2>1. NetTypeOK' /\ ThreadsOK'
      BY <1>3 DEF OpenNetworkConnection, ConnectReadsRef, ConnectNew, ConnectFails, NetInv, NetTypeOK, ThreadsOK, lists, sockVars, msgVars, openVars, stopVars
    <2>2. OneOwner' /\ Counted'
      BY <1>3, QuietStep DEF Exiting, OpenNetworkConnection, ConnectReadsRef, ConnectNew, ConnectFails, lists, sockVars, msgVars, openVars, stopVars
    <2> QED  BY <2>1, <2>2 DEF NetInv, Counted
  <1>4. CASE Shutdown \/ StopNode \/ ExitDone
    <2>1. NetTypeOK' /\ ThreadsOK'
      BY <1>4, ZenonT(40) DEF Shutdown, StopNode, ExitDone, NetInv, NetTypeOK, ThreadsOK, lists, sockVars, msgVars, openVars, stopVars
    <2>2. OneOwner' /\ Counted'
      <3>1. Exiting => Exiting'
        BY <1>4 DEF Exiting, Shutdown, StopNode, ExitDone, NetInv, ThreadsOK
      <3> QED  BY <1>4, <3>1, QuietStep DEF Shutdown, StopNode, ExitDone, lists, sockVars, msgVars, openVars, stopVars
    <2> QED  BY <2>1, <2>2 DEF NetInv, Counted
  <1> QED  BY <1>1, <1>2, <1>3, <1>4

-----------------------------------------------------------------------------
(* Nodes are deleted: Unused of the socket thread, and the node the         *)
(* destructor of vNodes waits for.                                          *)
LEMMA DisconnectKeeps ==
    ASSUME NetInv, SocketDisconnect
    PROVE  NetInv'
  <1> PICK idle \in SUBSET {n \in vNodes : GetRefCount(n) <= 0} :
          LET D == idle \cup (vNodes \cap fDisconnect)
          IN  /\ vNodes' = vNodes \ D
              /\ fDisconnect' = fDisconnect \cup D
              /\ grace' = GraceOf(D)
              /\ nRefCount' = Release(D)
              /\ vNodesDisconnected' = (vNodesDisconnected \ Unused) \cup D
    BY DEF SocketDisconnect
  <1> DEFINE D == idle \cup (vNodes \cap fDisconnect)
  <1>1. /\ D \subseteq vNodes
        /\ vNodes' = vNodes \ D
        /\ fDisconnect' = fDisconnect \cup D
        /\ grace' = grace \cup D
        /\ nRefCount' = Release(D)
        /\ vNodesDisconnected' = (vNodesDisconnected \ Unused) \cup D
        /\ deleted' = deleted \cup Unused
        /\ UNCHANGED <<created, sockCopy, msgVars, openVars, stopVars>>
        /\ sock = "top" /\ sock' = "select"
    BY DEF SocketDisconnect, GraceOf
  <1> HIDE DEF D
  <1>2. Unused \subseteq vNodesDisconnected
    BY DEF Unused
  <1>3. NetTypeOK' /\ ThreadsOK'
    <2>1. nRefCount' \in [Node -> Int] /\ \A n \in Node \ created : nRefCount'[n] = 0
      BY <1>1 DEF Release, NetInv, NetTypeOK, ThreadsOK
    <2> QED  BY <1>1, <1>2, <2>1 DEF NetInv, NetTypeOK, ThreadsOK, msgVars, openVars, stopVars
  <1>4. OneOwner'
    BY <1>1, <1>2 DEF NetInv, OneOwner, stopVars
  <1>5. CountCoversUsers'
    <2> SUFFICES ASSUME NEW n \in created \ (deleted \cup raced)
                 PROVE  nRefCount'[n] >= Users(n)'
      BY <1>1 DEF CountCoversUsers, openVars
    <2>1. nRefCount[n] >= Users(n) /\ nRefCount[n] \in Int /\ n \in Node
      BY DEF NetInv, CountCoversUsers, NetTypeOK
    <2>2. nRefCount'[n] = nRefCount[n] - (IF n \in D THEN 1 ELSE 0)
      BY <1>1, <2>1 DEF Release
    <2> QED  BY <1>1, <2>1, <2>2 DEF Users, Count, msgVars
  <1>6. FoundIsHeld'
    BY <1>1 DEF NetInv, FoundIsHeld, Exiting, openVars, stopVars
  <1>7. UsedNodesAlive'
    BY <1>1, <1>4, UnusedHasNoUser DEF NetInv, UsedNodesAlive, Exiting, OneOwner, openVars, stopVars, msgVars
  <1> QED  BY <1>3, <1>4, <1>5, <1>6, <1>7 DEF NetInv

LEMMA FreesKeeps ==
    ASSUME NetInv, SocketFrees \/ ExitFree
    PROVE  NetInv'
  <1>1. CASE SocketFrees
    <2> PICK n \in Unused : /\ vNodesDisconnected' = vNodesDisconnected \ {n}
                            /\ deleted' = deleted \cup {n}
      BY <1>1 DEF SocketFrees
    <2>1. NetTypeOK' /\ ThreadsOK'
      BY <1>1, UnusedHasNoUser DEF SocketFrees, NetInv, NetTypeOK, ThreadsOK, sockVars, msgVars, openVars, stopVars
    <2>2. OneOwner'
      BY <1>1, UnusedHasNoUser DEF SocketFrees, NetInv, OneOwner, stopVars
    <2>3. CountCoversUsers'
      BY <1>1 DEF SocketFrees, NetInv, CountCoversUsers, Users, Count, sockVars, msgVars, openVars
    <2>4. FoundIsHeld' /\ UsedNodesAlive'
      BY <1>1, <2>2, UnusedHasNoUser DEF SocketFrees, NetInv, FoundIsHeld, UsedNodesAlive, Exiting, OneOwner, sockVars, msgVars, openVars, stopVars
    <2> QED  BY <2>1, <2>2, <2>3, <2>4 DEF NetInv
  <1>2. CASE ExitFree
    <2>1. freeing \in created /\ freeing \in Node /\ freeing # NoNode /\ Exiting
      BY <1>2 DEF ExitFree, NetInv, NetTypeOK, ThreadsOK, Exiting
    <2>2. nRefCount[freeing] \in Int /\ nRefCount[freeing] <= 0
      BY <1>2, <2>1 DEF ExitFree, GetRefCount, NetInv, NetTypeOK
    <2>3. freeing \notin raced => freeing \notin sockCopy \cup msgCopy
      BY <2>1, <2>2 DEF NetInv, OneOwner, CountCoversUsers, Users, Count
    <2>4. NetTypeOK' /\ ThreadsOK' /\ OneOwner' /\ FoundIsHeld'
      BY <1>2, <2>1 DEF ExitFree, NetInv, NetTypeOK, ThreadsOK, OneOwner, FoundIsHeld, Exiting, sockVars, msgVars, openVars
    <2>5. CountCoversUsers'
      BY <1>2 DEF ExitFree, NetInv, CountCoversUsers, Users, Count, sockVars, msgVars, openVars
    <2>6. UsedNodesAlive'
      BY <1>2, <2>1, <2>3, <2>4 DEF ExitFree, NetInv, UsedNodesAlive, Exiting, OneOwner, NetTypeOK, sockVars, msgVars, openVars
    <2> QED  BY <2>4, <2>5, <2>6 DEF NetInv
  <1> QED  BY <1>1, <1>2

-----------------------------------------------------------------------------
(* References are taken and given back. *)
LEMMA CopyKeeps ==
    ASSUME NetInv, SocketCopy \/ SocketRelease \/ MessageCopy \/ MessageRelease
    PROVE  NetInv'
  <1>1. NetTypeOK' /\ ThreadsOK'
    BY DEF SocketCopy, SocketRelease, MessageCopy, MessageRelease, AddRef, Release, NetInv, NetTypeOK, ThreadsOK, lists, sockVars, msgVars, openVars, stopVars
  <1>2. OneOwner' /\ FoundIsHeld'
    BY DEF SocketCopy, SocketRelease, MessageCopy, MessageRelease, NetInv, OneOwner, FoundIsHeld, Exiting, lists, openVars, stopVars
  <1>3. CountCoversUsers'
    <2> SUFFICES ASSUME NEW n \in created \ (deleted \cup raced)
                 PROVE  nRefCount'[n] >= Users(n)'
      BY DEF SocketCopy, SocketRelease, MessageCopy, MessageRelease, CountCoversUsers, lists, openVars
    <2>1. nRefCount[n] >= Users(n) /\ nRefCount[n] \in Int /\ n \in Node
      BY DEF NetInv, CountCoversUsers, NetTypeOK
    <2>2. CASE SocketCopy
      BY <2>1, <2>2 DEF SocketCopy, AddRef, Users, Count, NetInv, ThreadsOK, lists, msgVars
    <2>3. CASE SocketRelease
      BY <2>1, <2>3 DEF SocketRelease, Release, Users, Count, lists, msgVars
    <2>4. CASE MessageCopy
      BY <2>1, <2>4 DEF MessageCopy, AddRef, Users, Count, NetInv, ThreadsOK, lists, sockVars
    <2>5. CASE MessageRelease
      BY <2>1, <2>5 DEF MessageRelease, Release, Users, Count, lists, sockVars
    <2> QED  BY <2>2, <2>3, <2>4, <2>5
  <1>4. UsedNodesAlive'
    BY DEF SocketCopy, SocketRelease, MessageCopy, MessageRelease, NetInv, OneOwner, UsedNodesAlive, Exiting, lists, sockVars, msgVars, openVars, stopVars
  <1> QED  BY <1>1, <1>2, <1>3, <1>4 DEF NetInv

(* A node that did not exist enters vNodes with one reference. *)
LEMMA NewNodeKeeps ==
    ASSUME NetInv, NEW n \in Node, SocketAccept(n) \/ ConnectNode(n)
    PROVE  NetInv'
  <1>1. /\ n \notin created /\ created' = created \cup {n} /\ vNodes' = vNodes \cup {n}
        /\ nRefCount' = AddRef({n})
        /\ UNCHANGED <<vNodesDisconnected, deleted, grace, sockCopy, msgCopy, raced, stop, freeing>>
        /\ found' \in {found, n}
    BY DEF SocketAccept, ConnectNode, sockVars, msgVars, openVars, stopVars
  <1>2. NetTypeOK' /\ ThreadsOK'
    BY DEF SocketAccept, ConnectNode, AddRef, NetInv, NetTypeOK, ThreadsOK, sockVars, msgVars, openVars, stopVars
  <1>3. OneOwner' /\ FoundIsHeld'
    BY <1>1 DEF NetInv, OneOwner, FoundIsHeld, Exiting, NetTypeOK
  <1>4. CountCoversUsers'
    <2> SUFFICES ASSUME NEW m \in (created \cup {n}) \ (deleted \cup raced)
                 PROVE  nRefCount'[m] >= Users(m)'
      BY <1>1 DEF CountCoversUsers
    <2>1. m \in Node /\ nRefCount[m] \in Int
      BY DEF NetInv, NetTypeOK
    <2>2. nRefCount'[m] = nRefCount[m] + (IF m = n THEN 1 ELSE 0)
      BY <1>1, <2>1 DEF AddRef
    <2>3. CASE m = n
      <3>1. nRefCount[n] = 0 /\ n \notin sockCopy /\ n \notin msgCopy /\ n \notin vNodes
        BY <1>1 DEF NetInv, ThreadsOK, NetTypeOK
      <3> QED  BY <1>1, <2>2, <2>3, <3>1 DEF Users, Count
    <2>4. CASE m # n
      <3>1. nRefCount[m] >= Users(m)
        BY <2>4 DEF NetInv, CountCoversUsers
      <3> QED  BY <1>1, <2>1, <2>2, <2>4, <3>1 DEF Users, Count
    <2> QED  BY <2>3, <2>4
  <1>5. UsedNodesAlive'
    BY <1>1 DEF NetInv, UsedNodesAlive, Exiting, NetTypeOK
  <1> QED  BY <1>2, <1>3, <1>4, <1>5 DEF NetInv

LEMMA FindKeeps ==
    ASSUME NetInv, ConnectFinds \/ ConnectWritesRef \/ ConnectDone \/ \E n \in Node : GraceEnds(n)
    PROVE  NetInv'
  <1>1. CASE ConnectFinds
    <2>1. found' \in vNodes
      BY <1>1 DEF ConnectFinds, FindNode
    <2>2. NetTypeOK' /\ ThreadsOK' /\ OneOwner' /\ FoundIsHeld'
      BY <1>1, <2>1 DEF ConnectFinds, NetInv, NetTypeOK, ThreadsOK, OneOwner, FoundIsHeld, Exiting, lists, sockVars, msgVars, stopVars
    <2>3. CountCoversUsers' /\ UsedNodesAlive'
      BY <1>1, <2>1 DEF ConnectFinds, NetInv, OneOwner, CountCoversUsers, Users, UsedNodesAlive, Exiting, lists, sockVars, msgVars, stopVars
    <2> QED  BY <2>2, <2>3 DEF NetInv
  <1>2. CASE ConnectWritesRef
    <2>1. found \in created /\ found \in Node /\ nRefCount[found] \in Int /\ seen \in Int
      BY <1>2 DEF ConnectWritesRef, NetInv, ThreadsOK, NetTypeOK
    <2>2. NetTypeOK' /\ ThreadsOK' /\ OneOwner' /\ FoundIsHeld'
      BY <1>2, <2>1 DEF ConnectWritesRef, NetInv, NetTypeOK, ThreadsOK, OneOwner, FoundIsHeld, Exiting, lists, sockVars, msgVars, stopVars
    <2>3. CountCoversUsers'
      <3> SUFFICES ASSUME NEW n \in created \ (deleted \cup raced'), raced \subseteq raced'
                   PROVE  nRefCount'[n] >= Users(n)'
        BY <1>2 DEF ConnectWritesRef, CountCoversUsers, lists
      <3>1. nRefCount[n] >= Users(n) /\ nRefCount[n] \in Int /\ n \in Node /\ Users(n)' = Users(n) /\ Users(n) \in Int
        BY <1>2 DEF ConnectWritesRef, NetInv, CountCoversUsers, NetTypeOK, Users, Count, lists, sockVars, msgVars
      <3>2. nRefCount'[n] = nRefCount[n] \/ nRefCount'[n] = nRefCount[n] + 1
        BY <1>2, <2>1, <3>1 DEF ConnectWritesRef, NetInv, NetTypeOK
      <3> QED  BY <3>1, <3>2
    <2>4. UsedNodesAlive'
      BY <1>2 DEF ConnectWritesRef, NetInv, NetTypeOK, UsedNodesAlive, Exiting, lists, sockVars, msgVars, stopVars
    <2> QED  BY <2>2, <2>3, <2>4 DEF NetInv
  <1>3. CASE \E n \in Node : GraceEnds(n)
    <2>1. NetTypeOK' /\ ThreadsOK' /\ OneOwner' /\ FoundIsHeld'
      BY <1>3 DEF GraceEnds, NetInv, NetTypeOK, ThreadsOK, OneOwner, FoundIsHeld, Exiting, lists, sockVars, msgVars, openVars, stopVars
    <2>2. CountCoversUsers' /\ UsedNodesAlive'
      BY <1>3 DEF GraceEnds, NetInv, CountCoversUsers, Users, UsedNodesAlive, Exiting, lists, sockVars, msgVars, openVars, stopVars
    <2> QED  BY <2>1, <2>2 DEF NetInv
  <1>4. CASE ConnectDone
    <2>1. NetTypeOK' /\ ThreadsOK' /\ OneOwner' /\ FoundIsHeld'
      BY <1>4 DEF ConnectDone, NetInv, NetTypeOK, ThreadsOK, OneOwner, FoundIsHeld, lists, sockVars, msgVars, stopVars
    <2>2. CountCoversUsers' /\ UsedNodesAlive'
      BY <1>4 DEF ConnectDone, NetInv, NetTypeOK, CountCoversUsers, Users, UsedNodesAlive, Exiting, lists, sockVars, msgVars, stopVars
    <2> QED  BY <2>1, <2>2 DEF NetInv
  <1> QED  BY <1>1, <1>2, <1>3, <1>4

LEMMA ExitReleaseKeeps ==
    ASSUME NetInv, NEW n \in Node, ExitRelease(n)
    PROVE  NetInv'
  <1>1. NetTypeOK' /\ ThreadsOK' /\ OneOwner' /\ FoundIsHeld'
    BY DEF ExitRelease, Release, NetInv, NetTypeOK, ThreadsOK, OneOwner, FoundIsHeld, Exiting, sockVars, msgVars, openVars
  <1>2. CountCoversUsers'
    <2> SUFFICES ASSUME NEW m \in created \ (deleted \cup raced)
                 PROVE  nRefCount'[m] >= Users(m)'
      BY DEF ExitRelease, CountCoversUsers, openVars
    <2>1. nRefCount[m] >= Users(m) /\ nRefCount[m] \in Int /\ m \in Node
      BY DEF NetInv, CountCoversUsers, NetTypeOK
    <2> QED  BY <2>1 DEF ExitRelease, Release, Users, Count, sockVars, msgVars
  <1>3. UsedNodesAlive'
    BY DEF ExitRelease, NetInv, OneOwner, UsedNodesAlive, Exiting, sockVars, msgVars, openVars
  <1> QED  BY <1>1, <1>2, <1>3 DEF NetInv

-----------------------------------------------------------------------------
LEMMA NetInvInit ==
    ASSUME Init PROVE NetInv
  <1>1. NetTypeOK
    <2>1. nRefCount \in [Node -> Int] /\ seen \in Int
      BY SMT DEF Init
    <2>2. fShutdown \in BOOLEAN
      BY Zenon DEF Init
    <2> QED  BY <2>1, <2>2 DEF Init, NetTypeOK
  <1>2. OneOwner /\ ThreadsOK
    BY DEF Init, OneOwner, ThreadsOK
  <1>3. CountCoversUsers /\ FoundIsHeld /\ UsedNodesAlive
    BY DEF Init, CountCoversUsers, FoundIsHeld, UsedNodesAlive, Exiting
  <1> QED  BY <1>1, <1>2, <1>3 DEF NetInv

LEMMA NetInvNext ==
    ASSUME NetInv, [Next]_vars PROVE NetInv'
  <1>1. CASE Next
    <2>1. CASE SocketStep
      BY <2>1, QuietActions, DisconnectKeeps, FreesKeeps, CopyKeeps DEF SocketStep
    <2>2. CASE MessageStep
      BY <2>2, QuietActions, CopyKeeps DEF MessageStep
    <2>3. CASE OpenStep
      BY <2>3, QuietActions, FindKeeps, NewNodeKeeps DEF OpenStep
    <2>4. CASE StopStep
      BY <2>4, QuietActions, FreesKeeps, ExitReleaseKeeps DEF StopStep
    <2>5. CASE \E n \in Node : SocketAccept(n) \/ GraceEnds(n)
      BY <2>5, NewNodeKeeps, FindKeeps
    <2> QED  BY <1>1, <2>1, <2>2, <2>3, <2>4, <2>5, QuietActions DEF Next
  <1>2. CASE UNCHANGED vars
    BY <1>2 DEF vars, NetInv, NetTypeOK, OneOwner, ThreadsOK, CountCoversUsers, Users, FoundIsHeld, UsedNodesAlive, Exiting
  <1> QED  BY <1>1, <1>2

(* "wait until threads are done using it": whatever the threads do, however *)
(* many nodes there are, until the process exits no node is deleted while a *)
(* thread or a list still has a pointer to it, except a node whose count    *)
(* the unlocked AddRef of ConnectNode has overwritten.                      *)
THEOREM NoUseAfterDelete == Spec => []UsedNodesAlive
  <1>1. NetInv => UsedNodesAlive
    BY DEF NetInv
  <1> QED  BY <1>1, NetInvInit, NetInvNext, PTL DEF Spec
=============================================================================
