SPECIFICATION Spec
CONSTANTS
    p1 = p1
    p2 = p2
    c1 = c1
    c2 = c2
    Providers = {p1, p2}
    FetchProviders = {p1}
    Callers = {c1, c2}
    Routes <- RoundTrip
    Threshold = 2
    Cooldown = 2
    MaxTime = 5
INVARIANTS
    OpensAtThreshold
    ProbesSpaced
    NoProviderForgotten
    OneVoice
PROPERTY OpenProviderRests
