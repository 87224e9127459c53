\* Every part of MCUnit; u1 and u2 are interchangeable.
SPECIFICATION Spec
CONSTANTS
    None = None
    u1 = u1
    u2 = u2
    u3 = u3
    Units = {u1, u2}
    Rels = {"amqp:1"}
    Admins = {"amqp:1"}
    VhostNames = {"openstack", "other"}
    Own = "rabbitmq-server"
    Apps = {"rabbitmq-server", "other"}
    MaxVersion = 1
    MaxTime = 2
    Services = {"rabbitmq-server", "epmd"}
    SavedOptions = {"source"}
    MaxValue = 1
    MaxWrites = 3
    Hardens = {{"ssh", "unknown"}, {"os", "mysql"}, {"apache"}}
    Disturbed = {"sshd_config", "tally2", "limits.d"}
    MaxFaults = 2
    Ubuntu = "jammy"
    CMD_RETRY_COUNT = 1
    Queues = {"q1", "q2"}
    MaxCount = 2
    MaxAge = 2
    Probes = {"plain", "ssl"}
    Messages = 2
    MaxRuns = 2
    MaxChanges = 2
    MaxMoves = 2
    Modes = {"ignore", "autoheal"}
    Multipliers = {None, 2}
    MAX_DEFAULT_THREADS = 48
    MAX_NUM_THREADS = 1024
    DEFAULT_MULTIPLIER = 24
    Users = {"nova", "heat"}
    MaxPasswords = 4
    MaxEdits = 1
    MaxCookies = 3
    MaxSteps = 5
SYMMETRY Symmetry
CHECK_DEADLOCK FALSE
INVARIANTS
    TypeOK
    BrokerApplied
    
    StoreHolds
    
    SourceHonoured
    ServedIsTrusted
    
    
    OkMeansDelivered
    EndpointsHold
    
    
    
    CookieShared
    ExporterHolds
PROPERTIES
    
    StatusHonest
    RestartsStayOff
