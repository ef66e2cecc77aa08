SPECIFICATION ServerSpec
CONSTANTS
    c1 = c1
    c2 = c2
    Clients <- MCClients
    Ips = {ip1}
    KeysPerIP = 1
    Window = 1
    Bodies <- MCBodies
    Undecodable = {3}
    Operations = {1}
    Idems = {1}
    MaxLimit = 1
    ReplayPageSize = 1
    MaxCalls <- MCMaxCalls
    MaxKeys = 2
    MaxFaults = 1
    MaxTime = 1
    Uploaders <- MCClients
    Tenants = {1, 2}
    Runs = {1, 2}
    NoRun = NoRun
    Types = {transcript}
    Uploads <- MCUploads
    MaxUploads = 2
    MaxUploadFaults = 1
SYMMETRY MCSymmetry
CHECK_DEADLOCK FALSE
INVARIANTS
    KeysSound
    TenantsApart
    BatchesAccounted
    WebhooksOnce
    ReplayCovers
    RunsWhole
