CONSTANTS
    ann = ann
    bob = bob
    cyd = cyd
    Users = {ann, bob, cyd}
    Admins = {ann, bob}
    Invited = {cyd}
    Calls <- MutualCalls
    UnbanReplyLost = FALSE
    MaxCalls = 2
SPECIFICATION Spec
INVARIANTS
    AdminRemains
CHECK_DEADLOCK FALSE
