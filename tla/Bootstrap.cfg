SPECIFICATION Spec
CONSTANTS
    Servers = {s1, s2}
    Slugs = {t1}
    Shared = shared
    Control = control
    Template = template
    MaxCrashes = 1
INVARIANTS ServingMeansReady
PROPERTIES EveryServerServes TenantsGetTheirSchema
CHECK_DEADLOCK FALSE
