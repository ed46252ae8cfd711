SPECIFICATION Spec
CONSTANTS
    Plans = {starter, custom}
    starter = starter
    custom = custom
    Paid = {starter}
    Pro = {custom}
    Tagged = {starter, custom}
    Handlers = {h1, h2}
    h1 = h1
    h2 = h2
    MaxSubs = 2
    MaxEvents = 3
    MaxOdds = 2
INVARIANT RecordIsCoherent
INVARIANT MirrorsStripe
INVARIANT ModeIsConfigured
PROPERTY TrialStaysUsed
CHECK_DEADLOCK FALSE
SYMMETRY Symmetry
