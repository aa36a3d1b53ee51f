\* Two desks whose requests overlap on one service, or three services that one request
\* after the other edits, at a depth limit that two of them reach.
CONSTANTS
    Desks = {x1, x2}
    Elder = elder
    Rosters = {elder}
    Committee = committee
    Posts = {coordinator}
    Services = {s1, s2, s3}
    Sources = {elder, s1, s2, s3}
    MaxDepth = 4
    None = None

SPECIFICATION ChartSpec
SYMMETRY Alike

INVARIANTS
    OffChartIsFree
    CommitteeStands
    Acyclic
    DepthBounded
    ServicesAnswer

PROPERTIES
    RemovalKeepsTheOrder

CHECK_DEADLOCK FALSE
