SPECIFICATION LifecycleSpec
CONSTANTS
    Op = {o1, o2}
    NoOp = NoOp
CHECK_DEADLOCK FALSE
INVARIANTS
    LifecycleTypeOK
    RegistriesExact
PROPERTIES
    ImplementsIdentity
    CallsConclude
