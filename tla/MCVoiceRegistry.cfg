CONSTANTS
    alice = alice
    bob = bob
    a1 = a1
    a2 = a2
    b1 = b1
    ta = ta
    tb = tb
    c1 = c1
    c2 = c2
    Channels = {c1, c2}
    Users = {alice, bob}
    Bot = bob
    Sids = {a1, a2, b1}
    NoSid = NoSid
    TrackSids = {ta}
    MusicSid = MusicSid
    AudioStates = {open, mute}
    Neutral = open
    SidOwner <- MCSidOwner
    TrackSession <- MCTrackSession
    depth = 5
    MaxVersion <- MCMaxVersion
SPECIFICATION Spec
VIEW RoomsOnly
INVARIANTS TypeOK ProvisionalHasClock TracksHaveMembers
PROPERTIES DeltasReplayTheRooms JoinIsExclusive ClientsNeverEvictConfirmed ReconcileConverges
