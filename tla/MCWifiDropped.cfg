\* Two requests for one network at once.
CONSTANTS
    Callers = {caller1, caller2}
    SSIDs = {ssid1}
    Passwords = {right, wrong}
    Right = right
    Open = nopass
    MaxCalls = 2
SPECIFICATION Spec
CHECK_DEADLOCK FALSE
INVARIANT NetworkKept
