SPECIFICATION Spec
CONSTANTS
    Callers = {c1, c2}
    Tags = {1, 2}
    Fids = {1}
    c1 = c1
    c2 = c2
    Parts <- MCParts
    None = None
    Error = Error
INVARIANTS TypeOK TagsApart FreeIdUnused QueueSound
PROPERTIES PromiseKept CallsEnd
CHECK_DEADLOCK FALSE
