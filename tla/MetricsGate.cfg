SPECIFICATION FairSpec
CONSTANTS
    Collectors = {node, vllm}
    Inference = vllm
    MaxPending = 2
INVARIANTS
    OffOnlyWhenTold
    InferenceOnlyWhenConfirmed
    GatesAgree
PROPERTIES
    OffIsEffective
    OnIsEffective
