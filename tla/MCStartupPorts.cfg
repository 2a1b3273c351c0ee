\* Two federates race for the port of omnetpp.ini.
SPECIFICATION Spec
CONSTANTS
    Pairs = {f1, f2}
    Port = 1
    CmdPort = 0
    Ports = {2, 3, 4, 5}
    Nobody = Nobody
    Unset = Unset
    Zero = Zero
INVARIANT
    PortsListening
CHECK_DEADLOCK FALSE
