\* Is the speaker exactly as before the connection?
CONSTANTS
    mute_method = "EndpointMute"
    Volumes = {0, 1}
    FullVolume = 1
    Clients = {c1}
    None = None
    client_timeout = 1
    Transports = {"wifi"}
    Relay = c1
    auto_mute_pc_speaker = TRUE
    EndpointReady = {TRUE}
    Controllers = {c1}
    ControlVolumes = {0, 1}
    ControlMutes = {}
SPECIFICATION FairSpec
PROPERTY UnmuteIsExact
