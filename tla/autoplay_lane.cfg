SPECIFICATION LaneSpec
CONSTANTS
    Tracks <- MCTracks
    DurationLimit = 600
INVARIANTS OneLane ScriptKept
