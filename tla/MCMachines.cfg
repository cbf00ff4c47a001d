SPECIFICATION MCSpec
CONSTANTS
  Capacity = 7
  DataWords = 8
  NrCores = 2
  Programs <- MachinePrograms
  JobSet = {"axpy", "dot", "syrk", "syrk_naive", "gemm", "gemm_kernels",
            "covariance", "covariance_naive", "correlation", "atax", "doitgen", "kmeans",
            "layernorm", "layernorm_fp8", "softmax", "gelu", "transpose", "transpose_baseline",
            "concat", "batchnorm", "maxpool", "flashattention", "flashattention_blocks",
            "fused_concat_linear", "mha", "exp", "log", "pi"}
  Prompt = {"dot", "syrk_naive", "covariance_naive", "kmeans", "layernorm_fp8", "softmax", "gelu",
            "transpose_baseline", "maxpool", "flashattention_blocks"}
INVARIANT OnlyEnqueued
INVARIANT CompletionIsTrue
INVARIANT ResultIsReference
INVARIANT ComputeIsUndisturbed
PROPERTY EveryCommandRuns
PROPERTY HostReturns
PROPERTY Returns
