CONSTANTS
    Configs <- MCConfigs
    Names = {"a", "b", "c"}
    Modes = {"lxc", "vm"}
    Sizes <- MCSizes
    Owners = {"alice", "Bob"}
    BadOwners = {"Bob"}

SPECIFICATION Spec

INVARIANTS
    TypeOK
    AsAllowed
    RefusesOnlyEdited
    ReplyIsTrue
