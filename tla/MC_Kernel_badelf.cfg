CONSTANTS
    NApps = 2
    Candidates <- MC_CandidatesMalformed
    Pages <- MC_Pages
    StackPages <- MC_StackPages
    PortalPage = "portal"
    PortalSlot <- MC_PortalSlot
    LogLevels = {"error", "info"}
SPECIFICATION Spec
INVARIANT
    NoBootFailure
