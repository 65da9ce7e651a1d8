SPECIFICATION FairSpec
CONSTANTS
    a = a
    b = b
    c = c
    cast = cast
    single = single
    Node <- const_Node
    Id <- const_Id
    Origin <- const_Origin
    Broadcast <- const_Broadcast
    Urgency <- const_Urgency
    Link <- const_Link
    MaxHops = 2
    Capacity = 1
    MaxStarts <- const_MaxStarts
    Listener <- const_Listener
    Up <- const_Up
    Perishable <- const_Perishable
INVARIANTS DeliveredOnce ForwardedOnce ConnectedKnowsPeers
PROPERTIES EveryoneHears
CHECK_DEADLOCK FALSE
