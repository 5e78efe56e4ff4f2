\* The teardown against request handlers that need time to be cancelled.
SPECIFICATION Spec
CONSTANTS
    Modes = {"auto"}
    Apps = {"sonix"}
    Habits = {"lingers"}
    Conn = {c1}
    MaxRequests = 1
    Disturbances = {}
INVARIANT
    ResourcesOpen
