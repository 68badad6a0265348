SPECIFICATION Spec
CONSTANTS
    None = None
    Modifiers = {ctrl, lshift}
    Keys = {up, menu}
    Repeating = {up}
    Joystick = {up}
    QDepth = 2
    MaxEvents = 5
INVARIANTS ChordsMeant RepeatsLast
PROPERTIES ModifiersSettle
