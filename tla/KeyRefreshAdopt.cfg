SPECIFICATION Spec
CONSTANTS
    Callers = {submit, sync}
    MaxKey = 2
PROPERTY
    AdoptsNewerKey
