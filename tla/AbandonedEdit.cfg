CONSTANTS
    Fun = {f1, f2}
    Pass <- mPass
    Order <- mOrder
    Profile <- mProfile
    Culprits = {"silent", "checked"}
    Abandons = {"silent"}
    Wound = {"future_use", "structure"}
    GroupLevel = "Standard"
SPECIFICATION Spec
INVARIANT NoDamageKept
