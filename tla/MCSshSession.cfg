SPECIFICATION SshSpec
CONSTANTS
    HostKeys = {"good", "stolen", "new"}
    KnownHosts <- MCKnownHosts
    TypeOf <- MCTypeOf
    Kinds = {"pty", "upload", "cleanup"}
    Ops = 2
    Chunks = 2
    InFlight = 2
    Window = 2
    SeqSpace = 2
    KbdRounds = 1
    Rekeys = 1
    Slow = 1
INVARIANTS InStep UploadWhole
PROPERTIES SecretsGuarded ResultHonest
CHECK_DEADLOCK FALSE
