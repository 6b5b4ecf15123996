SPECIFICATION CanvasSpec
CONSTANTS
    outermost = outermost
    outer = outer
    inner = inner
    innermost = innermost
    Components = {outermost, outer, inner, innermost}
    Unknown = Unknown
    Parent <- MCParent
    Models <- MCModels
    Sizes = {0, 1}
    None = None
    Failed = Failed
INVARIANT ParkedRequestIsAwaited
