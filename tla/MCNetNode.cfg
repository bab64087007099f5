SPECIFICATION Spec
CONSTANTS
    n1 = n1
    n2 = n2
    n3 = n3
    Node = {n1, n2, n3}
    Inbound = {n1, n3}
    NoNode = NoNode
    IpOf <- OneAddress
CHECK_DEADLOCK FALSE
INVARIANTS UsedNodesAlive
PROPERTIES NodesFreed
