SPECIFICATION Spec
CONSTANT JobSet = {"dot", "syrk_naive", "covariance_naive", "kmeans", "layernorm_fp8", "softmax", "gelu",
                   "transpose_baseline", "maxpool", "flashattention_blocks"}
CONSTANT Prompt = {}
INVARIANT ResultIsReference
CHECK_DEADLOCK FALSE
