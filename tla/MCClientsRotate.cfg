\* Two services on their own relations; a rotation.
SPECIFICATION Spec
CONSTANTS
    Units = {1, 2}
    Rels = {"amqp:1", "amqp:2"}
    Users = {"nova", "heat"}
    Requests <- TwoUsers
    MaxPasswords = 3
    Interventions = {"rotate"}
    Handover = "quiet"
PROPERTIES
    OwnPasswordOnly
