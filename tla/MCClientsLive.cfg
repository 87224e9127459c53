\* A stable leader, one service that changes its request, rotations.
SPECIFICATION FairSpec
CONSTANTS
    Units = {1, 2}
    Rels = {"amqp:1"}
    Users = {"heat"}
    Requests <- TwoTtls
    MaxPasswords = 2
    Interventions = {"rotate", "rewrite", "fail"}
    Handover = "quiet"
PROPERTIES
    ClientsServed
