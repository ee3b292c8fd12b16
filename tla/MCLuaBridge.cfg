CONSTANTS
    Classes = {"A", "B", "C"}
    Members = {"x"}
    Spaces = {"x"}
    MaxAdds = 3
    MaxDepth = 2
SPECIFICATION MCSpec
INVARIANTS RegistrationSound LookupsSound ClassCheckIsExact
CHECK_DEADLOCK FALSE
