CONSTANTS
    Fun = {f1, f2}
    Pass <- mPass
    Order <- mOrder
    Profile <- mProfile
    Culprits = {"silent", "checked"}
    Abandons = {"checked"}
    Wound = {"future_use", "phi", "dominance", "structure"}
    GroupLevel = "Standard"
SPECIFICATION Spec
INVARIANTS TypeOK NoDamageKept UnchangedIsUntouched RollbackIsExact FlagNotCarriedOver InnocentRewritesLand
