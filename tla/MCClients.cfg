\* Two units, one client relation, two users, failures, elections and pauses.
SPECIFICATION Spec
CONSTANTS
    Units = {1, 2}
    Rels = {"amqp:1"}
    Users = {"nova", "heat"}
    Requests <- TwoUsers
    MaxPasswords = 2
    Interventions = {"elect", "pause", "fail"}
    Handover = "lease"
INVARIANTS
    TypeOK
    CredentialsWork
    BrokerAgrees
    
