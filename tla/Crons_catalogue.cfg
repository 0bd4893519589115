SPECIFICATION Spec
CONSTANTS
    a1 = a1
    k1 = k1
    c1 = c1
    s1 = s1
    s2 = s2
    x1 = x1
    x2 = x2
    Ids = {a1}
    Clients = {c1}
    NoId = NoId
    Fields = {"graph_id", "config"}
    Values = {x1, x2}
    Default <- DefaultBody
    NoBody = NoBody
    MaxVersion = 2
    Crons = {k1}
    Schedulers = {s1, s2}
    AssistantOf <- OneAssistant
    MaxTicks = 2
SYMMETRY Alike
INVARIANTS RowIsVersion FiresOncePerTick
PROPERTIES VersionsKept
CHECK_DEADLOCK FALSE
