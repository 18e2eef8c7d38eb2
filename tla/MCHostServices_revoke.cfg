SPECIFICATION ServicesSpec
CONSTANTS
    p1 = p1
    p2 = p2
    web = web
    mail = mail
    left = left
    right = right
    s1 = s1
    s2 = s2
    s3 = s3
    native = native
    other = other
    Peers <- MCPeers1
    MAX_PENDING_CONSENTS = 0
    CONSENT_RATE_PER_MINUTE = 0
    RATE_WINDOW = 1
    Plans <- MCPlans
    MAX_CONCURRENT_GUESTS_FREE = 2
    MAX_CONCURRENT_GUESTS_TRIAL = 1
    MAX_CONCURRENT_GUESTS_PRO = 1
    MAX_CONCURRENT_GUESTS_TEAM = 2
    MAX_TERMINAL_SESSIONS = 0
    MAX_TUNNEL_TARGETS_PER_SESSION = 1
    RECONNECT_WINDOW = 0
    ControlActions <- MCNone
    TunnelTargets <- MCTargets1
    StreamIds <- MCStreamIds
    Monitors <- MCMonitors
    Toggles <- MCChannelToggles
    MAX_TERMINALS_PER_SESSION = 1
    MAX_TUNNEL_STREAMS_PER_SESSION = 1
    REBOOT_WARNING = 1
    Modes <- MCModes
    NativeMode <- MCNative
    GrantRoles <- MCFull
    MaxShells = 2
    MaxStreams = 2
    MaxDials = 2
    MaxSwitches = 0
    MaxReboots = 0
INVARIANT RevokedRunsNothing
CHECK_DEADLOCK FALSE
