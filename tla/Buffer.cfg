SPECIFICATION Spec
CONSTANTS
    Byte = {0, 1}
    Zero = 0
    Size = 3
    MaxLen = 4
PROPERTIES
    ByteQueueSpec
