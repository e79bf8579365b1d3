SPECIFICATION Spec
CONSTANTS
    Routers = {"bot", "disp", "a", "b"}
    Root = "bot"
    NoRouter = "none"
    Types = {"message", "ready"}
    States = {"s1", "s2"}
    Setup <- MCSetup
    Ops <- MCOps
    MaxOps = 2
    MaxEvents = 2
INVARIANTS CachesCoherent WalkIsComplete NearestDependency OneStatePerRouter
CHECK_DEADLOCK FALSE
