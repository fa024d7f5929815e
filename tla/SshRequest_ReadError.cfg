SPECIFICATION Spec
CONSTANTS
    Variants = {"exec", "tunnel"}
    ReqLen = 1
    AnsLen = 1
    WBuffer = 1
    MaxReads = 5
PROPERTY ReadErrorShutsDown
CHECK_DEADLOCK FALSE
