SPECIFICATION Spec
CONSTANTS
    Chats = {"c1"}
    Workers = {w1}
    People = {"ann", "bo"}
    Sought = {"ann"}
    Directories <- SomeDirectories
INVARIANT ExportStops
