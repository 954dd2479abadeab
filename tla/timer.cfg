CONSTANT
    MaxTime = 20
SPECIFICATION Spec
INVARIANT
    MeasuresUptime
\* Time stops at MaxTime, but the handlers go on.
