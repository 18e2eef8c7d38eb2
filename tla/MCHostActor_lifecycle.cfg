SPECIFICATION ActorSpec
CONSTANTS
    p1 = p1
    Peers <- MCPeers1
    MAX_PENDING_CONSENTS = 3
    CONSENT_RATE_PER_MINUTE = 2
    RATE_WINDOW = 1
    Plans <- MCPlans
    MAX_CONCURRENT_GUESTS_FREE = 1
    MAX_CONCURRENT_GUESTS_TRIAL = 1
    MAX_CONCURRENT_GUESTS_PRO = 1
    MAX_CONCURRENT_GUESTS_TEAM = 2
    MAX_TERMINAL_SESSIONS = 1
    MAX_TUNNEL_TARGETS_PER_SESSION = 0
    RECONNECT_WINDOW = 1
    ControlActions <- MCNone
    TunnelTargets <- MCNone
    Toggles <- MCNone
    MaxLinks = 3
    InviteRoles <- MCRoles2
    UNATTENDED_ROLE = "FullControl"
    Attendances <- MCAttendances
    TerminalHellos <- MCHellos
    Saved <- MCNone
    Credentialed <- MCPeers1
CONSTRAINT MCThirdLink
INVARIANTS
    DecidedOnce
    ParkedIsAwaited
    EncodedWhileActive
PROPERTIES
    LiveSessionUndisturbed
    UnnoticedDropResumes
    WindowEndsItsOwnDrop
CHECK_DEADLOCK FALSE
