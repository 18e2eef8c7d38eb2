SPECIFICATION Spec
CONSTANTS
    p1 = p1
    p2 = p2
    key = key
    web = web
    ssh = ssh
    Peers <- MCPeers2
    Plans <- MCPlans
    ControlActions <- MCActions
    TunnelTargets <- MCTargets
    Toggles <- MCToggles
    MAX_PENDING_CONSENTS = 2
    CONSENT_RATE_PER_MINUTE = 2
    RATE_WINDOW = 1
    MAX_CONCURRENT_GUESTS_FREE = 1
    MAX_CONCURRENT_GUESTS_TRIAL = 1
    MAX_CONCURRENT_GUESTS_PRO = 1
    MAX_CONCURRENT_GUESTS_TEAM = 2
    MAX_TERMINAL_SESSIONS = 1
    MAX_TUNNEL_TARGETS_PER_SESSION = 1
    RECONNECT_WINDOW = 1
CONSTRAINT MCOneSide
SYMMETRY MCSymmetry
INVARIANTS
    OneInjector
PROPERTIES
    GuestLimit
    OnlyTheHostWidens
    ResumeInsideWindow
