SPECIFICATION Spec
CONSTANTS
    h1 = h1
    h2 = h2
    Handlers <- TwoHandlers
    Forwarder = Forwarder
    Latencies <- SomeLatencies
    None = None
SYMMETRY Symmetry
INVARIANTS
    CountersExact
    
    RecentLatencyShown
    GaugeExactUnlessRaced
