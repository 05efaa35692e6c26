SPECIFICATION Spec
CONSTANTS
    Obj = {o1, o2, o3}
    Workers = {w1, w2}
    Completers = {c1}
    OpTags = {t1}
    FlushTags = {f1, f2}
    NoObj = NoObj
    NoTag = NoTag
    Flushed = Flushed
    ReuseInWindow = FALSE
INVARIANT NoLateReply
