\* Two federates with one configuration, as in omnetpp.ini: a fixed port, and
\* a command port the kernel chooses.
SPECIFICATION FairSpec
CONSTANTS
    Pairs = {f1, f2}
    Port = 1
    CmdPort = 0
    Ports = {2, 3, 4, 5}
    Nobody = Nobody
    Unset = Unset
    Zero = Zero
INVARIANTS
    StartupInv
    ChannelsTogether
    TimesAgree
PROPERTY
    Starts
\* accept() has no timeout: a federate may wait for ever.
CHECK_DEADLOCK FALSE
