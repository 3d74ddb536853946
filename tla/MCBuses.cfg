SPECIFICATION MCSpec
CONSTANTS
    Size <- MCSize
    Targets <- MCTargets
    MaxAddress = 4
    Values = {0, 1}
    MaxLength <- MCMaxLength
    MaxMappings = 3
    Buses = {1, 2}
    MaxSteps = 5
    MaxDepth = 4
INVARIANTS
    AddressesTranslate
    BusIsFlat
    RouteRecovered
PROPERTIES
    GuardsArePaired
