CONSTANTS
    Tasks = {t1, t2}
    Finishers = {f1, f2}
    NoHolder = NoHolder
SPECIFICATION Spec
INVARIANTS
    NoTaskStranded
PROPERTIES
    RegisteredTaskWoken
    ImplementsAbstract
CHECK_DEADLOCK FALSE
