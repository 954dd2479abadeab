CONSTANT
    MaxTime = 3
SPECIFICATION Spec
PROPERTY
    StartsOnRequest
