SPECIFICATION Spec
CONSTANTS
    MaxStarts = 2
    Prompts = {{"pid", "tool", "reader", "again"}}
    CanForkFail = FALSE
INVARIANT
    OneFileSystem
