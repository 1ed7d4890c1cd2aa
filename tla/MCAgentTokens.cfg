SPECIFICATION FairSpec
CONSTANTS
    Replica = {m1, m2}
    NoReplica = NoReplica
    MaxToken = 2
 
PROPERTIES RPCAgain StatusFollows
CHECK_DEADLOCK FALSE
