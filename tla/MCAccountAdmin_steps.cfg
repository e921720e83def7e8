CONSTANTS
    ann = ann
    bob = bob
    cyd = cyd
    Users = {ann, bob, cyd}
    Admins = {ann, bob}
    Invited = {cyd}
    Calls <- OneKeeperCalls
    UnbanReplyLost = FALSE
    MaxCalls = 5
SPECIFICATION Spec
INVARIANTS
    GrantRemains
    LessAccess
PROPERTIES
    SuccessAgrees
CHECK_DEADLOCK FALSE
