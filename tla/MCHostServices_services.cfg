SPECIFICATION ServicesSpec
CONSTANTS
    p1 = p1
    p2 = p2
    web = web
    mail = mail
    left = left
    right = right
    s1 = s1
    s2 = s2
    s3 = s3
    native = native
    other = other
    Peers <- MCPeers2
    MAX_PENDING_CONSENTS = 0
    CONSENT_RATE_PER_MINUTE = 0
    RATE_WINDOW = 1
    Plans <- MCPlans
    MAX_CONCURRENT_GUESTS_FREE = 2
    MAX_CONCURRENT_GUESTS_TRIAL = 1
    MAX_CONCURRENT_GUESTS_PRO = 1
    MAX_CONCURRENT_GUESTS_TEAM = 2
    MAX_TERMINAL_SESSIONS = 0
    MAX_TUNNEL_TARGETS_PER_SESSION = 1
    RECONNECT_WINDOW = 0
    ControlActions <- MCNone
    TunnelTargets <- MCTargets2
    StreamIds <- MCStreamIds
    Monitors <- MCMonitors
    Toggles <- MCToggles
    MAX_TERMINALS_PER_SESSION = 1
    MAX_TUNNEL_STREAMS_PER_SESSION = 2
    REBOOT_WARNING = 1
    Modes <- MCModes
    NativeMode <- MCNative
    GrantRoles <- MCFull
    MaxShells = 2
    MaxStreams = 3
    MaxDials = 2
    MaxSwitches = 2
    MaxReboots = 3
CONSTRAINT MCOneService
SYMMETRY MCSymmetry
INVARIANTS
    DisplayReversible
    NothingOutlivesTheConnection
    ServicesBounded
PROPERTIES
    WarnedInFull
    SocketsOpenUnderTheGrant
    SwitchedOffStopsNow
CHECK_DEADLOCK FALSE
