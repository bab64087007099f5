----------------------------- MODULE BlockSync -----------------------------
(***************************************************************************)
(* How nodes get blocks from each other: the messages version, inv,        *)
(* getdata, getblocks and block between the nodes of a network, over TCP   *)
(* connections that may break.                                             *)
(*                                                                         *)
(* All blocks are valid and weigh the same, so that a node follows the     *)
(* first of the longest chains it has; what else happens to a block is in  *)
(* NodeCore.  A handler runs under cs_main and is one step; a connection   *)
(* delivers in order until it breaks, and then loses what is on the way on *)
(* both sides at once (how a CNode goes away is in NetNode).  The chains   *)
(* are short enough for a locator to hold every block.  The limits of      *)
(* getblocks in blocks and in bytes are the one number Limit.  Nodes are   *)
(* past the initial download, so that every new best block is announced.   *)
(***************************************************************************)
EXTENDS Integers, Sequences, FiniteSets, SequencesExt

CONSTANTS Node, Block, Genesis, NoBlock,
          hashPrevBlock,   \* [Block -> Block \cup {NoBlock}]
          StartAt,         \* [Node -> Block]: the tip each node starts with
          Minable,         \* [Node -> SUBSET Block]: what it may find itself
          Limit,           \* the blocks one getblocks is answered with
          Dials,           \* the connections <<n, m>> that n opens to m, in order
          MaxBreaks        \* bound: the connections that break

ASSUME SyncAssumption ==
    /\ Genesis \in Block /\ NoBlock \notin Block
    /\ hashPrevBlock \in [Block -> Block \cup {NoBlock}]
    /\ hashPrevBlock[Genesis] = NoBlock
    /\ StartAt \in [Node -> Block] /\ Minable \in [Node -> SUBSET Block]
    /\ Limit \in Nat \ {0} /\ Dials \in Seq(Node \X Node) /\ MaxBreaks \in Nat

VARIABLES
    mapBlockIndex, mapOrphanBlocks, pindexBest,  \* of each node
    mapAlreadyAskedFor, nAskedForBlocks,         \* of each node
    cnode,     \* cnode[<<n, m>>]: the CNode node n has for m, or NoNode
    net,       \* net[<<n, m>>]: what n has sent to m and m has not handled
    connects, breaks  \* how many of Dials were opened, how many broke

nodeVars == <<mapBlockIndex, mapOrphanBlocks, pindexBest, mapAlreadyAskedFor, nAskedForBlocks>>
syncVars == <<nodeVars, cnode, net, connects, breaks>>

Pair == {p \in Node \X Node : p[1] # p[2]}

Chain[b \in Block] == IF b = Genesis THEN <<b>> ELSE Append(Chain[hashPrevBlock[b]], b)

Ancestors == [b \in Block |-> ToSet(Chain[b])]

nHeight == [b \in Block |-> Len(Chain[b]) - 1]

NoNode == [up |-> FALSE]

(* mapAskFor are the requests whose time has come, later those whose time   *)
(* has not.                                                                 *)
NewNode(fInbound) ==
    [up |-> TRUE, fInbound |-> fInbound, nVersion |-> FALSE,
     setInventoryKnown |-> {}, vInventoryToSend |-> <<>>,
     mapAskFor |-> <<>>, later |-> {},
     lastGetBlocks |-> <<NoBlock, NoBlock>>, hashContinue |-> NoBlock]

Up(n, m) == cnode[<<n, m>>].up

vNodes(n) == {m \in Node \ {n} : Up(n, m)}

AlreadyHave(n, b) == b \in mapBlockIndex[n] \cup mapOrphanBlocks[n]

SyncInit ==
    /\ mapBlockIndex = [n \in Node |-> Ancestors[StartAt[n]]]
    /\ mapOrphanBlocks = [n \in Node |-> {}]
    /\ pindexBest = StartAt
    /\ mapAlreadyAskedFor = [n \in Node |-> <<>>]
    /\ nAskedForBlocks = [n \in Node |-> FALSE]
    /\ cnode = [p \in Pair |-> NoNode]
    /\ net = [p \in Pair |-> <<>>]
    /\ connects = 0 /\ breaks = 0

-----------------------------------------------------------------------------
(* Connections *)

Version == [type |-> "version"]

Connect(n, m) ==
    /\ connects < Len(Dials) /\ Dials[connects + 1] = <<n, m>> /\ ~Up(n, m)
    /\ connects' = connects + 1
    /\ cnode' = [cnode EXCEPT ![<<n, m>>] = NewNode(FALSE), ![<<m, n>>] = NewNode(TRUE)]
    /\ net' = [net EXCEPT ![<<n, m>>] = <<Version>>, ![<<m, n>>] = <<>>]
    /\ UNCHANGED <<nodeVars, breaks>>

Disconnect(n, m) ==
    /\ n # m /\ Up(n, m) /\ breaks < MaxBreaks
    /\ breaks' = breaks + 1
    /\ cnode' = [cnode EXCEPT ![<<n, m>>] = NoNode, ![<<m, n>>] = NoNode]
    /\ net' = [net EXCEPT ![<<n, m>>] = <<>>, ![<<m, n>>] = <<>>]
    /\ UNCHANGED <<nodeVars, connects>>

-----------------------------------------------------------------------------
(* What a handler does to the CNode c of the peer it talks to; out are the *)
(* messages it pushes.                                                      *)

PushMessage(s, msg) == [s EXCEPT !.out = Append(@, msg)]

(* Mutant: only the end of the request is compared. *)
PushGetBlocks_SameEnd(s, begin, end) ==
    IF s.c.lastGetBlocks[2] = end THEN s
    ELSE PushMessage([s EXCEPT !.c.lastGetBlocks = <<begin, end>>],
                     [type |-> "getblocks", locator |-> Reverse(Chain[begin]), stop |-> end])

PushGetBlocks(s, begin, end) ==
    IF s.c.lastGetBlocks = <<begin, end>> THEN s
    ELSE PushMessage([s EXCEPT !.c.lastGetBlocks = <<begin, end>>],
                     [type |-> "getblocks", locator |-> Reverse(Chain[begin]), stop |-> end])

AddInventoryKnown(s, b) == [s EXCEPT !.c.setInventoryKnown = @ \cup {b}]

PushInventory(c, b) ==
    IF b \in c.setInventoryKnown THEN c ELSE [c EXCEPT !.vInventoryToSend = Append(@, b)]

(* mapAlreadyAskedFor: the blocks asked for in the last minutes, in the     *)
(* order of the first request, and how often each was asked for again.      *)
Position(asked, b) == SelectInSeq(asked, LAMBDA e : e[1] = b)

Forget(asked, b) == SelectSeq(asked, LAMBDA e : e[1] # b)

(* Mutant: a block that was asked for is not asked for again. *)
AskFor_Once(s, b) ==
    IF Position(s.asked, b) # 0 THEN s
    ELSE [s EXCEPT !.c.mapAskFor = Append(@, b), !.asked = Append(@, <<b, 0>>)]

(* A block that was asked for before is asked for two minutes after the     *)
(* last request.                                                            *)
AskFor(s, b) ==
    LET i == Position(s.asked, b)
    IN  IF i = 0 THEN [s EXCEPT !.c.mapAskFor = Append(@, b), !.asked = Append(@, <<b, 0>>)]
        ELSE [s EXCEPT !.asked[i][2] = @ + 1, !.c.later = @ \cup {<<b, s.asked[i][2] + 1>>}]

GetOrphanRoot(orphans, b) ==
    LET root[x \in Block] == IF hashPrevBlock[x] \in orphans THEN root[hashPrevBlock[x]] ELSE x
    IN  root[b]

-----------------------------------------------------------------------------
(* The state n handles a message of m in, and what is left of it.          *)

Talk(n, m) == [c |-> cnode[<<n, m>>], out |-> <<>>, asked |-> mapAlreadyAskedFor[n]]

Received(n, m, type) ==
    /\ n # m /\ net[<<m, n>>] # <<>> /\ Head(net[<<m, n>>]).type = type

Answer(n, m, s) ==
    net' = [net EXCEPT ![<<m, n>>] = Tail(@), ![<<n, m>>] = @ \o s.out]

Finish(n, m, s) ==
    /\ Answer(n, m, s)
    /\ cnode' = [cnode EXCEPT ![<<n, m>>] = s.c]
    /\ mapAlreadyAskedFor' = [mapAlreadyAskedFor EXCEPT ![n] = s.asked]
    /\ UNCHANGED <<mapBlockIndex, mapOrphanBlocks, pindexBest, connects, breaks>>

(* "Ask the first connected node for block updates" *)
OnVersion(n, m) ==
    /\ Received(n, m, "version")
    /\ LET greeted == [Talk(n, m) EXCEPT !.c.nVersion = TRUE]
           s == IF greeted.c.fInbound THEN PushMessage(greeted, Version) ELSE greeted
           ask == ~nAskedForBlocks[n] \/ Cardinality(vNodes(n)) <= 1
       IN  /\ nAskedForBlocks' = [nAskedForBlocks EXCEPT ![n] = @ \/ ask]
           /\ Finish(n, m, IF ask THEN PushGetBlocks(s, pindexBest[n], NoBlock) ELSE s)

OnInv(n, m) ==
    /\ Received(n, m, "inv")
    /\ LET One(s, b) ==
             LET known == AddInventoryKnown(s, b)
             IN  IF ~AlreadyHave(n, b) THEN AskFor(known, b)
                 ELSE IF b \in mapOrphanBlocks[n]
                      THEN PushGetBlocks(known, pindexBest[n], GetOrphanRoot(mapOrphanBlocks[n], b))
                 ELSE known
       IN  Finish(n, m, FoldLeft(One, Talk(n, m), Head(net[<<m, n>>]).inv))
    /\ UNCHANGED nAskedForBlocks

(* Mutant: the peer is not told to go on. *)
OnGetData_NoContinue(n, m) ==
    /\ Received(n, m, "getdata")
    /\ LET One(s, b) ==
             IF b \notin mapBlockIndex[n] THEN s ELSE PushMessage(s, [type |-> "block", b |-> b])
       IN  Finish(n, m, FoldLeft(One, Talk(n, m), Head(net[<<m, n>>]).inv))
    /\ UNCHANGED nAskedForBlocks

OnGetData(n, m) ==
    /\ Received(n, m, "getdata")
    /\ LET Send(s, b) == PushMessage(s, [type |-> "block", b |-> b])
           One(s, b) ==
             IF b \notin mapBlockIndex[n] THEN s
             ELSE IF b # s.c.hashContinue THEN Send(s, b)
             ELSE PushMessage([Send(s, b) EXCEPT !.c.hashContinue = NoBlock],
                              [type |-> "inv", inv |-> <<pindexBest[n]>>])
       IN  Finish(n, m, FoldLeft(One, Talk(n, m), Head(net[<<m, n>>]).inv))
    /\ UNCHANGED nAskedForBlocks

(* The main chain from the last block the caller has to hashStop, and how   *)
(* much of it one answer may hold.                                          *)
BlocksAfter(n, msg) ==
    LET main == Chain[pindexBest[n]]
        fork == CHOOSE i \in DOMAIN msg.locator :
                  msg.locator[i] \in Ancestors[pindexBest[n]] /\ \A j \in 1..(i - 1) : msg.locator[j] \notin Ancestors[pindexBest[n]]
        rest == SubSeq(main, Len(Chain[msg.locator[fork]]) + 1, Len(main))
        stops == {i \in DOMAIN rest : rest[i] = msg.stop}
    IN  [inv |-> IF stops = {} THEN rest ELSE SubSeq(rest, 1, (CHOOSE i \in stops : TRUE) - 1),
         limit |-> Limit + fork - 1]

OnGetBlocks(n, m) ==
    /\ Received(n, m, "getblocks")
    /\ LET found == BlocksAfter(n, Head(net[<<m, n>>]))
           full == Len(found.inv) >= found.limit
           sent == IF full THEN SubSeq(found.inv, 1, found.limit) ELSE found.inv
           s == Talk(n, m)
           c == FoldLeft(PushInventory, s.c, sent)
       IN  Finish(n, m, [s EXCEPT !.c = IF full THEN [c EXCEPT !.hashContinue = Last(sent)] ELSE c])
    /\ UNCHANGED nAskedForBlocks

-----------------------------------------------------------------------------
(* ProcessBlock *)

(* Mutant: orphans are not looked at. *)
Accepted_NoOrphans(n, b) == <<b>>

(* b and the orphans that can now be connected, parents first. *)
Accepted(n, b) ==
    LET Connects(x) == \A y \in Ancestors[x] \ mapBlockIndex[n] : y \in mapOrphanBlocks[n] \cup {b}
    IN  SetToSortSeq({b} \cup {x \in mapOrphanBlocks[n] : Connects(x)},
                     LAMBDA x, y : nHeight[x] < nHeight[y])

(* AcceptBlock of a sequence of blocks: each that is the new best is       *)
(* announced to every node.                                                *)
AcceptBlocks(n, acc, nodes) ==
    LET One(s, b) == IF nHeight[b] <= nHeight[s.best] THEN s
                     ELSE [best |-> b, nodes |-> [p \in Pair |->
                             IF p[1] = n /\ s.nodes[p].up THEN PushInventory(s.nodes[p], b)
                             ELSE s.nodes[p]]]
        end == FoldLeft(One, [best |-> pindexBest[n], nodes |-> nodes], acc)
    IN  /\ mapBlockIndex' = [mapBlockIndex EXCEPT ![n] = @ \cup ToSet(acc)]
        /\ mapOrphanBlocks' = [mapOrphanBlocks EXCEPT ![n] = @ \ ToSet(acc)]
        /\ pindexBest' = [pindexBest EXCEPT ![n] = end.best]
        /\ cnode' = end.nodes

OnBlock(n, m) ==
    /\ Received(n, m, "block")
    /\ LET b == Head(net[<<m, n>>]).b
           s == AddInventoryKnown(Talk(n, m), b)
           orphan == PushGetBlocks(s, pindexBest[n], GetOrphanRoot(mapOrphanBlocks[n], b))
           With(c) == [cnode EXCEPT ![<<n, m>>] = c]
       IN  \/ /\ AlreadyHave(n, b)
              /\ cnode' = With(s.c) /\ Answer(n, m, s)
              /\ UNCHANGED <<mapBlockIndex, mapOrphanBlocks, pindexBest, mapAlreadyAskedFor>>
           \/ /\ ~AlreadyHave(n, b) /\ hashPrevBlock[b] \notin mapBlockIndex[n]
              /\ mapOrphanBlocks' = [mapOrphanBlocks EXCEPT ![n] = @ \cup {b}]
              /\ cnode' = With(orphan.c) /\ Answer(n, m, orphan)
              /\ mapAlreadyAskedFor' = [mapAlreadyAskedFor EXCEPT ![n] = Forget(@, b)]
              /\ UNCHANGED <<mapBlockIndex, pindexBest>>
           \/ /\ ~AlreadyHave(n, b) /\ hashPrevBlock[b] \in mapBlockIndex[n]
              /\ AcceptBlocks(n, Accepted(n, b), With(s.c)) /\ Answer(n, m, s)
              /\ mapAlreadyAskedFor' = [mapAlreadyAskedFor EXCEPT ![n] = Forget(@, b)]
    /\ UNCHANGED <<nAskedForBlocks, connects, breaks>>

(* A block n has found. *)
MineBlock(n, b) ==
    /\ b \in Minable[n] /\ ~AlreadyHave(n, b) /\ hashPrevBlock[b] = pindexBest[n]
    /\ AcceptBlocks(n, Accepted(n, b), cnode)
    /\ UNCHANGED <<mapAlreadyAskedFor, nAskedForBlocks, net, connects, breaks>>

ProcessMessage(n, m) ==
    OnVersion(n, m) \/ OnInv(n, m) \/ OnGetData(n, m) \/ OnGetBlocks(n, m) \/ OnBlock(n, m)

-----------------------------------------------------------------------------
(* SendMessages: first the inventory, then the requests whose time has come. *)
SendMessages(n, m) ==
    /\ n # m /\ Up(n, m) /\ cnode[<<n, m>>].nVersion
    /\ LET s == Talk(n, m)
           vInv == SelectSeq(s.c.vInventoryToSend, LAMBDA b : b \notin s.c.setInventoryKnown)
           fresh == FoldLeft(LAMBDA q, b : IF b \in ToSet(q) THEN q ELSE Append(q, b), <<>>, vInv)
           vGetData == SelectSeq(s.c.mapAskFor, LAMBDA b : ~AlreadyHave(n, b))
           Unless(q, type) == IF q = <<>> THEN <<>> ELSE <<[type |-> type, inv |-> q]>>
       IN  /\ s.c.vInventoryToSend # <<>> \/ s.c.mapAskFor # <<>>
           /\ cnode' = [cnode EXCEPT ![<<n, m>>] =
                          [s.c EXCEPT !.vInventoryToSend = <<>>, !.mapAskFor = <<>>,
                                      !.setInventoryKnown = @ \cup ToSet(fresh)]]
           /\ net' = [net EXCEPT ![<<n, m>>] =
                        @ \o Unless(fresh, "inv") \o Unless(vGetData, "getdata")]
    /\ UNCHANGED <<nodeVars, connects, breaks>>

(* The time of a request of mapAskFor has come; of two requests the one    *)
(* that was first made first and made again no more often is the first.    *)
RequestDue(n, m) ==
    /\ n # m /\ Up(n, m)
    /\ LET c == cnode[<<n, m>>]
           At(e) == Position(mapAlreadyAskedFor[n], e[1])
       IN  \E e \in c.later :
             /\ \A f \in c.later : ~(At(f) < At(e) /\ f[2] <= e[2])
             /\ cnode' = [cnode EXCEPT ![<<n, m>>] =
                            [c EXCEPT !.later = @ \ {e}, !.mapAskFor = Append(@, e[1])]]
    /\ UNCHANGED <<nodeVars, net, connects, breaks>>

(* Two minutes have passed since the oldest request. *)
RequestOld(n) ==
    /\ mapAlreadyAskedFor[n] # <<>>
    /\ \A m \in vNodes(n) : \A e \in cnode[<<n, m>>].later : e[1] # Head(mapAlreadyAskedFor[n])[1]
    /\ mapAlreadyAskedFor' = [mapAlreadyAskedFor EXCEPT ![n] = Tail(@)]
    /\ UNCHANGED <<mapBlockIndex, mapOrphanBlocks, pindexBest, nAskedForBlocks, cnode, net,
                   connects, breaks>>

SyncNext ==
    \E n \in Node :
        \/ \E b \in Block : MineBlock(n, b)
        \/ RequestOld(n)
        \/ \E m \in Node : \/ Connect(n, m) \/ Disconnect(n, m)
                           \/ ProcessMessage(n, m) \/ SendMessages(n, m) \/ RequestDue(n, m)

(* ThreadMessageHandler goes round all nodes, and time passes. *)
SyncFairness ==
    \A p \in Pair : /\ WF_syncVars(ProcessMessage(p[1], p[2]))
                    /\ WF_syncVars(SendMessages(p[1], p[2]))
                    /\ WF_syncVars(RequestDue(p[1], p[2]))

SyncSpec == SyncInit /\ [][SyncNext]_syncVars /\ SyncFairness

-----------------------------------------------------------------------------
(* SyncTypeOK: a node has the ancestors of every block of its index, and an *)
(* orphan is a block whose predecessor it does not have.                    *)
SyncTypeOK ==
    /\ \A n \in Node :
          /\ pindexBest[n] \in mapBlockIndex[n]
          /\ \A b \in mapBlockIndex[n] : Ancestors[b] \subseteq mapBlockIndex[n]
          /\ \A b \in mapOrphanBlocks[n] : hashPrevBlock[b] \notin mapBlockIndex[n]
    /\ \A p \in Pair : Up(p[1], p[2]) <=> Up(p[2], p[1])

(* No node can be told anything new. *)
InSync == \A n, m \in Node : nHeight[pindexBest[n]] = nHeight[pindexBest[m]]

(* CatchesUp: two nodes that stay connected end up with chains of the same  *)
(* length, from different branches, after a connection that broke at any    *)
(* point and with requests that wait for their time, however many batches   *)
(* of getblocks it takes and whatever the longer one finds meanwhile.       *)
CatchesUp == (<>[](\A p \in Pair : Up(p[1], p[2]))) => <>[]InSync

(* AnnouncedIsFetched: when no more blocks are found, every block that was  *)
(* announced over a connection that has stayed up is in the index of the    *)
(* node it was announced to, with all its ancestors.                        *)
AnnouncedIsFetched ==
    <>[](\A p \in Pair : Up(p[1], p[2]) =>
            cnode[p].setInventoryKnown \subseteq mapBlockIndex[p[2]])

-----------------------------------------------------------------------------
(* OrphanWaits: "If don't already have its previous block, shunt it off to  *)
(* holding area until we get it" (ProcessBlock): no block stays an orphan   *)
(* while a node that has it in its chain stays connected.                   *)
OrphanWaits ==
    <>[](\A n \in Node, m \in Node : \A b \in mapOrphanBlocks[n] :
            m \in vNodes(n) => b \notin Ancestors[pindexBest[m]])
=============================================================================
