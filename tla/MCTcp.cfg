CONSTANTS
    client1 = client1
    client2 = client2
    Clients = {client1, client2}
    ClientIsn <- Isns
    ServerIsn = 15
    Mod = 16
    Window = 8
    MSS = 2
    Backlog = 1
    Loads <- Some
SPECIFICATION Spec
INVARIANTS
    
    EofHonest
    Retained
    
CHECK_DEADLOCK FALSE
