\* The same instance, asking whether a delivered row is final.
CONSTANTS
    d1 = d1
    d2 = d2
    background = background
    manual = manual
    o1 = o1
    o2 = o2
    Deliveries = {d1, d2}
    Background = {background}
    Manual = {manual}
    Operators = {o1, o2}
    Scope <- MCScope
    Limit = 2
    max_attempts = 2
SPECIFICATION Spec
PROPERTY DeliveredIsFinal
CHECK_DEADLOCK FALSE
