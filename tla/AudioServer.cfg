\* Two Wi-Fi clients that connect, take over, send control commands and go silent, or
\* the phone behind a USB tunnel that drops and reconnects; the volume endpoint may be
\* missing at start.
CONSTANTS
    mute_method = "EndpointMute"
    Volumes = {0, 1}
    FullVolume = 1
    Clients = {c1, relay}
    None = None
    client_timeout = 1
    Transports = {"wifi", "none"}
    Relay = relay
    auto_mute_pc_speaker = TRUE
    EndpointReady = {TRUE, FALSE}
    Controllers = {c1}
    ControlVolumes = {1}
    ControlMutes = {FALSE}
SPECIFICATION FairSpec
INVARIANTS UserSettingKept MuteMatchesSession StoppedRestores
PROPERTIES WifiSpeakerComesBack StopReturns
