----------------------------- MODULE RateLimit -----------------------------
(***************************************************************************)
(* RateLimitMiddleware (middleware/rate_limit.py), as the processors of    *)
(* one worker share it: a window of start times, checked before a run, and *)
(* a limit that reacts to how runs end.                                    *)
(*                                                                         *)
(* Time runs in ticks and is relative: a start has an age, a sleeper a     *)
(* remaining wait, and an age of Window is "older than one minute".  The   *)
(* limit is int(_current_rpm), what is behind the point being forgotten:   *)
(* the factor 0.5 halves it, 1.05 raises it by a twentieth or by one more. *)
(***************************************************************************)
EXTENDS Integers, Sequences, FiniteSets

CONSTANTS
  Processor,  \* processors of the worker, each runs one task at a time
  MaxRpm,     \* max_per_minute
  Window      \* ticks in a minute

ASSUME MaxRpmAssumption == MaxRpm \in Nat \ {0}

ASSUME WindowAssumption == Window \in Nat \ {0}

VARIABLES
  procs,   \* the processors that take part
  runner,  \* runner[p]: "idle", "waiting" or "running"
  sleep,   \* sleep[p]: ticks until a waiting processor is due
  stamps,  \* _timestamps, as ages, the oldest first
  rpm      \* int(_current_rpm)

rateVars == <<procs, runner, sleep, stamps, rpm>>

RateTypeOK ==
  /\ procs \subseteq Processor
  /\ runner \in [Processor -> {"idle", "waiting", "running"}]
  /\ sleep \in [Processor -> 0 .. Window]
  /\ stamps \in Seq(0 .. Window)
  /\ rpm \in 1 .. MaxRpm

RateInit ==
  /\ procs \in SUBSET Processor \ {{}}
  /\ runner = [p \in Processor |-> "idle"]
  /\ sleep = [p \in Processor |-> 0]
  /\ stamps = <<>>
  /\ rpm = MaxRpm

\* The starts of the last minute: the list has the oldest first, so all but
\* those at its beginning.
Recent(s) ==
  SubSeq(s, Cardinality({k \in DOMAIN s : s[k] >= Window}) + 1, Len(s))

\* Faulty variant: the limit is passed by one.
BeforeProcessOver(p) ==
  /\ p \in procs /\ runner[p] = "idle"
  /\ LET recent == Recent(stamps)
     IN  IF Len(recent) > rpm
           THEN /\ stamps' = recent
                /\ runner' = [runner EXCEPT ![p] = "waiting"]
                /\ sleep' = [sleep EXCEPT ![p] = Window - recent[1]]
           ELSE /\ stamps' = Append(recent, 0)
                /\ runner' = [runner EXCEPT ![p] = "running"]
                /\ UNCHANGED sleep
  /\ UNCHANGED <<procs, rpm>>

\* before_process up to its sleep: a full window means waiting until its
\* oldest start leaves it; otherwise the run starts.
BeforeProcess(p) ==
  /\ p \in procs /\ runner[p] = "idle"
  /\ LET recent == Recent(stamps)
     IN  IF Len(recent) >= rpm
           THEN /\ stamps' = recent
                /\ runner' = [runner EXCEPT ![p] = "waiting"]
                /\ sleep' = [sleep EXCEPT ![p] = Window - recent[1]]
           ELSE /\ stamps' = Append(recent, 0)
                /\ runner' = [runner EXCEPT ![p] = "running"]
                /\ UNCHANGED sleep
  /\ UNCHANGED <<procs, rpm>>

\* before_process after its sleep: the window is not looked at again.
WakeUp(p) ==
  /\ runner[p] = "waiting" /\ sleep[p] = 0
  /\ stamps' = Append(stamps, 0)
  /\ runner' = [runner EXCEPT ![p] = "running"]
  /\ UNCHANGED <<procs, sleep, rpm>>

\* after_process of a run that did not raise: the limit recovers.  One that
\* raised anything but RateLimitError leaves it.
Recover(p) ==
  /\ runner[p] = "running"
  /\ runner' = [runner EXCEPT ![p] = "idle"]
  /\ \/ UNCHANGED rpm
     \/ \E raised \in {rpm + rpm \div 20, rpm + rpm \div 20 + 1} :
          rpm' = IF raised < MaxRpm THEN raised ELSE MaxRpm
  /\ UNCHANGED <<procs, sleep, stamps>>

\* Faulty variant: the limit may be halved to nothing.
SlowDownToZero(p) ==
  /\ runner[p] = "running"
  /\ runner' = [runner EXCEPT ![p] = "idle"]
  /\ rpm' = rpm \div 2
  /\ UNCHANGED <<procs, sleep, stamps>>

\* after_process of a run that raised RateLimitError (nothing in the
\* repository does, a user's adapter may): the limit is halved.
SlowDown(p) ==
  /\ runner[p] = "running"
  /\ runner' = [runner EXCEPT ![p] = "idle"]
  /\ rpm' = IF rpm = 1 THEN 1 ELSE rpm \div 2
  /\ UNCHANGED <<procs, sleep, stamps>>

\* A tick passes for every start and every sleeper; a sleeper may be late.
Tick ==
  /\ stamps' = [k \in 1 .. Len(stamps) |->
                  IF stamps[k] < Window THEN stamps[k] + 1 ELSE Window]
  /\ sleep' = [p \in Processor |-> IF sleep[p] > 0 THEN sleep[p] - 1 ELSE 0]
  /\ UNCHANGED <<procs, runner, rpm>>

RateNext ==
  \/ \E p \in Processor :
       BeforeProcess(p) \/ WakeUp(p) \/ Recover(p) \/ SlowDown(p)
  \/ Tick

RateSpec == RateInit /\ [][RateNext]_rateVars

-----------------------------------------------------------------------------
(* Properties. *)

\* No more than max_per_minute runs start within a minute.
RateLimited == Len(Recent(stamps)) <= MaxRpm

\* One processor keeps to the limit, through slowdowns and recoveries.
\* (Several do not: they wait for the same start to leave the window.)
SoloRateLimited == \A p \in procs : procs = {p} => RateLimited

=============================================================================
