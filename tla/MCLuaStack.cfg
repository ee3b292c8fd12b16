CONSTANT v1 = v1
SPECIFICATION Spec
INVARIANTS PointersSound FramesFit
PROPERTY ImplementsFrames
