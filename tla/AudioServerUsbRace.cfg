\* Does the speaker come back when the USB tunnel is lost?
CONSTANTS
    mute_method = "EndpointMute"
    Volumes = {0, 1}
    FullVolume = 1
    Clients = {relay}
    None = None
    client_timeout = 1
    Transports = {"none"}
    Relay = relay
    auto_mute_pc_speaker = TRUE
    EndpointReady = {TRUE}
    Controllers = {}
    ControlVolumes = {}
    ControlMutes = {}
SPECIFICATION FairSpec
PROPERTIES SpeakerComesBack
