------------------------------ MODULE NetNode ------------------------------
(***************************************************************************)
(* The life of the CNode objects (net.cpp): who may use one, and when it   *)
(* is deleted.  Threads:                                                   *)
(*   sock  ThreadSocketHandler2: accepts connections, serves the sockets,  *)
(*         takes disconnected nodes out of vNodes and deletes them;        *)
(*   msg   ThreadMessageHandler2: handles the messages of all nodes;       *)
(*   open  ThreadOpenConnections2, through OpenNetworkConnection;          *)
(*   stop  StopNode, and the destructor of vNodes when the process exits.  *)
(*                                                                         *)
(* What is done under cs_vNodes is one step.  ConnectNode adds its         *)
(* reference to a node it has found outside of it, and nRefCount is a      *)
(* plain int: its read and its write are two steps.                        *)
(***************************************************************************)
EXTENDS Integers, FiniteSets

CONSTANTS Node,           \* CNode objects
          NoNode,
          IpOf,           \* the address of each
          Inbound         \* those that connect to us; the others we connect to

ASSUME NetNodeAssumption ==
    /\ NoNode \notin Node /\ IsFiniteSet(Node)
    /\ Inbound \subseteq Node

(* Addresses the node connects to. *)
Ip == {IpOf[n] : n \in Node \ Inbound}

VARIABLES
    vNodes, vNodesDisconnected,
    created, deleted,
    nRefCount,
    grace,          \* nodes whose nReleaseTime is not over
    fDisconnect,    \* nodes to be disconnected
    sock, sockCopy, \* where the socket thread is, and its vNodesCopy
    msg, msgCopy,   \* the same of the message thread, ...
    todo, busy,     \* ... the nodes it has not come to, and the one it has locked
    open, openIp,   \* where the opening thread is, and the address it is to connect to
    found, seen,    \* the node ConnectNode has in hand; nRefCount as AddRef has read it
    raced,          \* nodes whose nRefCount was changed between the two: history
    fShutdown, stop,
    freeing         \* the node the destructor of vNodes is waiting for

vars == <<vNodes, vNodesDisconnected, created, deleted, nRefCount, grace, fDisconnect,
          sock, sockCopy, msg, msgCopy, todo, busy, open, openIp, found, seen, raced, fShutdown, stop,
          freeing>>
lists == <<vNodes, vNodesDisconnected, created, deleted>>
sockVars == <<sock, sockCopy>>
msgVars == <<msg, msgCopy, todo, busy>>
openVars == <<open, openIp, found, seen, raced>>
stopVars == <<fShutdown, stop, freeing>>

Init ==
    /\ vNodes = {} /\ vNodesDisconnected = {} /\ created = {} /\ deleted = {}
    /\ nRefCount = [n \in Node |-> 0] /\ grace = {} /\ fDisconnect = {}
    /\ sock = "top" /\ sockCopy = {}
    /\ msg = "top" /\ msgCopy = {} /\ todo = {} /\ busy = NoNode
    /\ open = "idle" /\ openIp \in Ip /\ found = NoNode /\ seen = 0 /\ raced = {}
    /\ fShutdown = FALSE /\ stop = "no" /\ freeing = NoNode

(* Mutant: only the time counts. *)
GetRefCount_Time(n) == IF n \in grace THEN 1 ELSE 0

GetRefCount(n) ==
    (IF nRefCount[n] > 0 THEN nRefCount[n] ELSE 0) + (IF n \in grace THEN 1 ELSE 0)

(* Mutant: no reference is taken. *)
AddRef_None(S) == nRefCount

AddRef(S) == [n \in Node |-> nRefCount[n] + (IF n \in S THEN 1 ELSE 0)]

(* Mutant: the reference is given back twice. *)
Release_Twice(S) == [n \in Node |-> nRefCount[n] - (IF n \in S THEN 2 ELSE 0)]

Release(S) == [n \in Node |-> nRefCount[n] - (IF n \in S THEN 1 ELSE 0)]

FindNode(ip) == {n \in vNodes : IpOf[n] = ip}

-----------------------------------------------------------------------------
(* The socket thread                                                        *)

(* Mutant: nReleaseTime is not set. *)
GraceOf_None(D) == grace

GraceOf(D) == grace \cup D

(* Mutant: a node whose count is zero is not deleted yet. *)
Unused_Negative == {n \in vNodesDisconnected : GetRefCount(n) < 0 /\ busy # n}

(* Nodes to delete: "wait until threads are done using it".  The locks of a *)
(* node are tried too.                                                      *)
Unused == {n \in vNodesDisconnected : GetRefCount(n) <= 0 /\ busy # n}

(* The part under cs_vNodes: nodes with fDisconnect, or without references  *)
(* and with empty buffers, leave vNodes; nodes that left earlier and are    *)
(* not used any more are deleted.                                           *)
SocketDisconnect ==
    /\ sock = "top"
    /\ \E idle \in SUBSET {n \in vNodes : GetRefCount(n) <= 0} :
          LET D == idle \cup (vNodes \cap fDisconnect)
          IN  /\ vNodes' = vNodes \ D
              /\ fDisconnect' = fDisconnect \cup D
              /\ grace' = GraceOf(D)
              /\ nRefCount' = Release(D)
              /\ vNodesDisconnected' = (vNodesDisconnected \ Unused) \cup D
    /\ deleted' = deleted \cup Unused
    /\ sock' = "select"
    /\ UNCHANGED <<created, sockCopy, msgVars, openVars, stopVars>>

(* select() returns; a node that connected may be accepted, and the nodes   *)
(* are copied for the service loop.                                         *)
SocketAccept(n) ==
    /\ sock = "select" /\ ~fShutdown /\ n \in Inbound \ created
    /\ created' = created \cup {n} /\ vNodes' = vNodes \cup {n} /\ nRefCount' = AddRef({n})
    /\ sock' = "accepted"
    /\ UNCHANGED <<vNodesDisconnected, deleted, grace, fDisconnect, sockCopy, msgVars, openVars,
                   stopVars>>

SocketCopy ==
    /\ sock = "accepted" \/ (sock = "select" /\ ~fShutdown)
    /\ sockCopy' = vNodes /\ nRefCount' = AddRef(vNodes)
    /\ sock' = "service"
    /\ UNCHANGED <<lists, grace, fDisconnect, msgVars, openVars, stopVars>>

(* The socket of a node is closed, or silent for too long. *)
SocketFails ==
    /\ sock = "service"
    /\ \E n \in sockCopy \ fDisconnect : fDisconnect' = fDisconnect \cup {n}
    /\ UNCHANGED <<lists, nRefCount, grace, sockVars, msgVars, openVars, stopVars>>

SocketRelease ==
    /\ sock = "service"
    /\ nRefCount' = Release(sockCopy) /\ sockCopy' = {}
    /\ sock' = "top"
    /\ UNCHANGED <<lists, grace, fDisconnect, msgVars, openVars, stopVars>>

(* The thread returns, out of the service loop without releasing a node.    *)
SocketReturns ==
    /\ fShutdown
    /\ sock = "select" \/ (sock = "service" /\ sockCopy # {})
    /\ sock' = "freeing" /\ sockCopy' = {}
    /\ UNCHANGED <<lists, nRefCount, grace, fDisconnect, msgVars, openVars, stopVars>>

(* The destructor of vNodesDisconnected waits for each node.                *)
SocketFrees ==
    /\ sock = "freeing"
    /\ \E n \in Unused : /\ vNodesDisconnected' = vNodesDisconnected \ {n}
                         /\ deleted' = deleted \cup {n}
    /\ UNCHANGED <<vNodes, created, nRefCount, grace, fDisconnect, sockVars, msgVars, openVars,
                   stopVars>>

SocketEnds ==
    /\ sock = "freeing" /\ vNodesDisconnected = {}
    /\ sock' = "ended"
    /\ UNCHANGED <<lists, nRefCount, grace, fDisconnect, sockCopy, msgVars, openVars, stopVars>>

(* Fifteen minutes have passed since the node was disconnected; the opening *)
(* thread does not hold a pointer without a reference for that long.        *)
GraceEnds(n) ==
    /\ n \in grace /\ found # n
    /\ grace' = grace \ {n}
    /\ UNCHANGED <<lists, nRefCount, fDisconnect, sockVars, msgVars, openVars, stopVars>>

-----------------------------------------------------------------------------
(* The message thread                                                       *)

MessageCopy ==
    /\ msg = "top" /\ ~fShutdown
    /\ msgCopy' = vNodes /\ todo' = vNodes /\ nRefCount' = AddRef(vNodes)
    /\ msg' = "service"
    /\ UNCHANGED <<lists, grace, fDisconnect, busy, sockVars, openVars, stopVars>>

(* ProcessMessages and SendMessages, under the locks of the node. *)
ProcessMessages(n) ==
    /\ msg = "service" /\ busy = NoNode /\ n \in todo
    /\ busy' = n /\ todo' = todo \ {n}
    /\ UNCHANGED <<lists, nRefCount, grace, fDisconnect, msg, msgCopy, sockVars, openVars, stopVars>>

(* A message may make the node disconnect; after it fShutdown is looked at. *)
MessageDone ==
    /\ msg = "service" /\ busy # NoNode
    /\ fDisconnect' \in {fDisconnect, fDisconnect \cup {busy}}
    /\ busy' = NoNode
    /\ \/ UNCHANGED <<msg, msgCopy>>
       \/ fShutdown /\ msg' = "ended" /\ msgCopy' = {}
    /\ UNCHANGED <<lists, nRefCount, grace, todo, sockVars, openVars, stopVars>>

MessageRelease ==
    /\ msg = "service" /\ busy = NoNode /\ todo = {}
    /\ nRefCount' = Release(msgCopy) /\ msgCopy' = {}
    /\ msg' = "top"
    /\ UNCHANGED <<lists, grace, fDisconnect, todo, busy, sockVars, openVars, stopVars>>

MessageEnds ==
    /\ msg = "top" /\ fShutdown
    /\ msg' = "ended"
    /\ UNCHANGED <<lists, nRefCount, grace, fDisconnect, msgCopy, todo, busy, sockVars, openVars,
                   stopVars>>

-----------------------------------------------------------------------------
(* The opening thread                                                       *)

OpenNetworkConnection ==
    /\ open = "idle" /\ ~fShutdown
    /\ \E ip \in Ip : FindNode(ip) = {} /\ openIp' = ip
    /\ open' = "connect"
    /\ UNCHANGED <<lists, nRefCount, grace, fDisconnect, found, seen, raced, sockVars, msgVars, stopVars>>

(* ConnectNode: "Look for an existing connection". *)
ConnectFinds ==
    /\ open = "connect"
    /\ found' \in FindNode(openIp)
    /\ open' = "found"
    /\ UNCHANGED <<lists, nRefCount, grace, fDisconnect, openIp, seen, raced, sockVars, msgVars, stopVars>>

(* AddRef outside cs_vNodes: nRefCount is a plain int. *)
ConnectReadsRef ==
    /\ open = "found"
    /\ seen' = nRefCount[found]
    /\ open' = "addref"
    /\ UNCHANGED <<lists, nRefCount, grace, fDisconnect, openIp, found, raced, sockVars, msgVars,
                   stopVars>>

ConnectWritesRef ==
    /\ open = "addref"
    /\ nRefCount' = [nRefCount EXCEPT ![found] = seen + 1]
    /\ raced' = raced \cup {n \in {found} : nRefCount[n] # seen}
    /\ seen' = 0
    /\ open' = "connected"
    /\ UNCHANGED <<lists, grace, fDisconnect, openIp, found, sockVars, msgVars, stopVars>>

ConnectNew ==
    /\ open = "connect" /\ FindNode(openIp) = {}
    /\ open' = "socket"
    /\ UNCHANGED <<lists, nRefCount, grace, fDisconnect, openIp, found, seen, raced, sockVars, msgVars,
                   stopVars>>

(* ConnectSocket has taken its time, and succeeds or fails.  The reference  *)
(* of the new node is that of vNodes.                                       *)
ConnectNode(n) ==
    /\ open = "socket" /\ n \in Node \ (Inbound \cup created) /\ IpOf[n] = openIp
    /\ created' = created \cup {n} /\ vNodes' = vNodes \cup {n} /\ nRefCount' = AddRef({n})
    /\ found' = n
    /\ open' = "connected"
    /\ UNCHANGED <<vNodesDisconnected, deleted, grace, fDisconnect, openIp, seen, raced, sockVars,
                   msgVars, stopVars>>

(* The caller still writes nTimeConnected and fNetworkNode through the      *)
(* pointer, and drops it.                                                   *)
ConnectDone ==
    /\ open = "connected"
    /\ found' = NoNode
    /\ open' = "idle"
    /\ UNCHANGED <<lists, nRefCount, grace, fDisconnect, openIp, seen, raced, sockVars, msgVars,
                   stopVars>>

ConnectFails ==
    /\ open = "socket"
    /\ open' = "idle"
    /\ UNCHANGED <<lists, nRefCount, grace, fDisconnect, openIp, found, seen, raced, sockVars, msgVars,
                   stopVars>>

-----------------------------------------------------------------------------
(* The end of the process                                                   *)

Shutdown ==
    /\ ~fShutdown /\ fShutdown' = TRUE /\ stop' = "waiting"
    /\ UNCHANGED <<lists, nRefCount, grace, fDisconnect, sockVars, msgVars, openVars, freeing>>

(* StopNode waits for the message thread, and for the socket thread only    *)
(* until 20 seconds are over; it does not look at the opening thread.  Then *)
(* the program exits.                                                       *)
StopNode ==
    /\ stop = "waiting" /\ msg \in {"ended", "top"}
    /\ stop' = "exit"
    /\ UNCHANGED <<lists, nRefCount, grace, fDisconnect, sockVars, msgVars, openVars, fShutdown, freeing>>

(* The destructor of vNodes, which takes no cs_vNodes, takes a node and     *)
(* gives its reference back, and deletes the node when its count is zero.   *)
ExitRelease(n) ==
    /\ stop = "exit" /\ freeing = NoNode /\ n \in vNodes
    /\ vNodes' = vNodes \ {n} /\ nRefCount' = Release({n}) /\ freeing' = n
    /\ UNCHANGED <<vNodesDisconnected, created, deleted, grace, fDisconnect, sockVars, msgVars,
                   openVars, fShutdown, stop>>

ExitFree ==
    /\ freeing # NoNode /\ GetRefCount(freeing) <= 0 /\ busy # freeing
    /\ deleted' = deleted \cup {freeing} /\ freeing' = NoNode
    /\ UNCHANGED <<vNodes, vNodesDisconnected, created, nRefCount, grace, fDisconnect, sockVars,
                   msgVars, openVars, fShutdown, stop>>

ExitDone ==
    /\ stop = "exit" /\ freeing = NoNode /\ vNodes = {}
    /\ stop' = "done"
    /\ UNCHANGED <<lists, nRefCount, grace, fDisconnect, sockVars, msgVars, openVars, fShutdown,
                   freeing>>

-----------------------------------------------------------------------------
SocketStep ==
    \/ SocketDisconnect \/ SocketCopy \/ SocketRelease
    \/ SocketReturns \/ SocketFrees \/ SocketEnds

MessageStep ==
    \/ MessageCopy \/ MessageDone \/ MessageRelease \/ MessageEnds
    \/ \E n \in Node : ProcessMessages(n)

OpenStep ==
    \/ ConnectFinds \/ ConnectReadsRef \/ ConnectWritesRef
    \/ ConnectNew \/ ConnectFails \/ ConnectDone
    \/ \E n \in Node : ConnectNode(n)

StopStep == StopNode \/ ExitFree \/ ExitDone \/ \E n \in Node : ExitRelease(n)

Next ==
    \/ SocketStep \/ SocketFails \/ \E n \in Node : SocketAccept(n)
    \/ MessageStep
    \/ OpenNetworkConnection \/ OpenStep
    \/ \E n \in Node : GraceEnds(n)
    \/ Shutdown \/ StopStep

(* The threads run, and time passes.  Nobody has to connect, fail or stop   *)
(* the node.                                                                *)
Spec ==
    /\ Init /\ [][Next]_vars
    /\ WF_vars(SocketStep) /\ WF_vars(MessageStep) /\ WF_vars(OpenStep) /\ WF_vars(StopStep)
    /\ \A n \in Node : WF_vars(GraceEnds(n))

-----------------------------------------------------------------------------
Count(b) == IF b THEN 1 ELSE 0

NetTypeOK ==
    /\ vNodes \subseteq created /\ vNodesDisconnected \subseteq created
    /\ deleted \subseteq created /\ created \subseteq Node /\ grace \subseteq created
    /\ fDisconnect \subseteq created /\ nRefCount \in [Node -> Int]
    /\ sock \in {"top", "select", "accepted", "service", "freeing", "ended"}
    /\ sockCopy \subseteq created
    /\ msg \in {"top", "service", "ended"} /\ msgCopy \subseteq created
    /\ todo \subseteq created /\ busy \in Node \cup {NoNode}
    /\ open \in {"idle", "connect", "found", "addref", "socket", "connected"} /\ openIp \in Ip
    /\ found \in created \cup {NoNode} /\ seen \in Int /\ raced \subseteq created
    /\ fShutdown \in BOOLEAN /\ stop \in {"no", "waiting", "exit", "done"}
    /\ freeing \in created \cup {NoNode}

(* The destructor of vNodes may be running. *)
Exiting == stop \in {"exit", "done"}

(* "wait until threads are done using it" (net.cpp 810): until the process  *)
(* exits, no thread has a pointer to a node that is deleted, and no node is *)
(* deleted while in a list, unless ConnectNode has overwritten a change of  *)
(* its count.  At exit nothing of the kind holds: "Wait until the node is   *)
(* no longer used." (net.cpp 101) waits for the count alone, and the        *)
(* opening thread has a pointer the count does not cover.                   *)
UsedNodesAlive ==
    ~Exiting =>
        deleted \cap (vNodes \cup vNodesDisconnected \cup sockCopy \cup msgCopy
                      \cup {found}) \subseteq raced

(* The references that keep a node and will be given back: of vNodes and of *)
(* the copies of the two threads.                                           *)
Users(n) == Count(n \in vNodes) + Count(n \in sockCopy) + Count(n \in msgCopy)

(* The count covers them: what UsedNodesAlive rests on. *)
CountCoversUsers == \A n \in created \ (deleted \cup raced) : nRefCount[n] >= Users(n)

(* As long as ConnectNode holds a pointer, for which it may have no         *)
(* reference, the node is in vNodes or in its time.                         *)
FoundIsHeld == found # NoNode /\ ~Exiting => found \in vNodes \cup grace

(* A disconnected node is deleted in the end, and its memory and its socket *)
(* do not stay with the process, unless it has a reference nobody gives     *)
(* back: ConnectNode takes one on a node it finds and no caller releases it. *)
NodesFreed ==
    \A n \in Node :
        n \in vNodesDisconnected ~> n \in deleted \/ fShutdown \/ nRefCount[n] > Users(n)

(* The node stops when it is told to. *)
ExitEnds == fShutdown ~> stop = "done"
=============================================================================
