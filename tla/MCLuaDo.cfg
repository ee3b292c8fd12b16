CONSTANTS
    Main = Main
    co1 = co1
    co2 = co2
    Threads = {Main, co1, co2}
    LUAI_MAXCCALLS = 2
    Slack = 2
    LUAI_MAXCALLS = 3
    BASIC_CI_SIZE = 3
    Uses = {"hook", "load", "xpcall", "metamethod"}
SPECIFICATION MCSpec
SYMMETRY Symmetry
INVARIANTS JumpBufferLive FramesMatchActivations YieldReachesResume UnwindingSound
CHECK_DEADLOCK FALSE
