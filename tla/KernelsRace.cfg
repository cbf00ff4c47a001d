SPECIFICATION Spec
CONSTANT JobSet = {"flashattention_opt"}
CONSTANT Prompt = {"flashattention_opt"}
INVARIANT ResultIsReference
CHECK_DEADLOCK FALSE
