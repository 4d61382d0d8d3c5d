\* Two workers, two clients, two root tasks for one slot in the queue; one
\* root posts a child.
SPECIFICATION FairSpec
CONSTANTS
    WorkerCount = 2
    Capacity = 1
    RejectPolicy = "caller_runs"
    c1 = c1  c2 = c2
    r1 = r1  r2 = r2  a = a
    Clients = {c1, c2}
    Task <- MCTask
    Roots <- MCRoots
    Children <- MCChildren
    Free = Free
INVARIANTS EachTaskInOnePlace NoLostWakeup ExitOnlyWhenDrained
PROPERTIES ImplementsExecutor AcceptedTaskRuns DestructorReturns
