SPECIFICATION Spec
CONSTANTS
    Protos <- MCProtos
    Contents <- MCContents
    Addrs = {a1, a2}
    nullptr = nullptr
    MaxFiles = 3
INVARIANTS TypeOK MapsMirrorPool RegisteredIsComplete
