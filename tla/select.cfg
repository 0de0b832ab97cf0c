SPECIFICATION FairSpec
CONSTANTS
    Fds = {wake, a, b, c}
    Wake = wake
    MaxAdds = 2
    MaxSkips = 1
INVARIANT IInv
PROPERTY ImplementsPass
PROPERTY Served
