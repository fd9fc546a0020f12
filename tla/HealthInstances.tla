--------------------------- MODULE HealthInstances ---------------------------
(* The settings and answers with which TLC checks the health loop. *)
LOCAL INSTANCE Integers

Cfg(p, i, n, g) ==
  [protocol |-> p, port |-> 80, requestPath |-> FALSE,
   intervalInSeconds |-> i, numberOfProbes |-> n, gracePeriod |-> g]

\* Settings around every default and limit the loop depends on.
SomeSettings ==
  {Cfg("http", 0, 3, 0),     \* default interval and grace period: 5 and 15
   Cfg("http", 5, 2, 22),    \* a grace period that leaves room for wrapping
   Cfg("tcp", 6, 0, 5),      \* one probe commits; grace shorter than interval
   Cfg("tcp", 5, 2, 0),
   Cfg("", 5, 3, 16),        \* no protocol: the default probe
   Cfg("http", 60, 5, 0)}    \* refused: 300 seconds to settle

Answer(k, m) == [kind |-> k, metrics |-> m]

SomeAnswers == {Answer("healthy", "valid"), Answer("unhealthy", "invalid"),
                Answer("refused", "none")}

\* The longest prompt probe for an interval of 5, and one that times out.
SomeDurations == {4, 30}

=============================================================================
