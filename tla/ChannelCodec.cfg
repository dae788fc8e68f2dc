\* One type of each form and size, every shape with several dimensions, short
\* and long values, three hops.
CONSTANTS
    Kinds = {"bool", "string", "uint8", "int16", "float32"}
    Shapes <- ShapesUsed
    Bytes = {0, 65}
    Lengths = {1, 2, 3}
    LongLengths = {64}
    MaxHops = 3
SPECIFICATION Spec
INVARIANTS
    Delivered
    Relayable
\* The value has arrived.
CHECK_DEADLOCK FALSE
