\* A span against a bounded shutdown(), interrupted or not, which meets an unbounded shutdown(), a
\* level call, or swaps, to the same sink or back; a closer thread may be refused.
CONSTANTS
    a = a  b = b  l1 = l1  t1 = t1  p1 = p1  p2 = p2
    Sinks = {a, b}
    FirstSink = a
    Loggers = {l1}
    Tracers = {t1}
    Stoppers = {p1, p2}
    Bounded = {p1}
    Configures = 2
    Threadless = TRUE
    Interrupts = TRUE
    Configure = Configure
    None = None
SPECIFICATION ApartSpec
INVARIANTS TypeOK OneCloseAtATime NobodyForgotten RegistrationsDischarged DrainKeepsSignal
           LateWorkerRetired ClosedBehindOneStop
PROPERTIES NeverClosedUnderDrain ShutdownReturns
