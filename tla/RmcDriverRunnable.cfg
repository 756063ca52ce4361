SPECIFICATION Spec
CONSTANTS
    Jobs = {j1}
    Inputs = {foo}
    Dir = Dir
    None = None
    CommandLines <- Runnable
    MaxVersion = 0
    MaxRuns = 1
INVARIANT RunnableProduced
CHECK_DEADLOCK FALSE
