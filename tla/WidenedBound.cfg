SPECIFICATION Spec
CONSTANTS
    Inquiries <- MCLateLength
    Width = 4
    Opaque <- MCOpaque
    WidenAfter = 3
    Budget = 22
INVARIANT FixpointIsSound
CHECK_DEADLOCK FALSE
