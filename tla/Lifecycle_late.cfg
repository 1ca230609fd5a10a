\* Two shutdown() calls that overlap before there is a worker, and a span that ends meanwhile.
CONSTANTS
    a = a  b = b  l1 = l1  t1 = t1  p1 = p1  p2 = p2
    Sinks = {a}
    FirstSink = a
    Loggers = {l1}
    Tracers = {t1}
    Stoppers = {p1, p2}
    Bounded = {}
    Configures = 0
    Threadless = FALSE
    Interrupts = FALSE
    Configure = Configure
    None = None
SPECIFICATION Spec
INVARIANTS ClosedBehindTheDrain
