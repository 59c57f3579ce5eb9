------------------------------- MODULE Energy -------------------------------
(***************************************************************************)
(* Energy figures and the baseline they are judged by:                     *)
(* telemetry_service.py (what is measured, and how it is labelled),        *)
(* baseline_service.py (the locked idle baseline) and accuracy_service.py  *)
(* (validation runs).  Handlers run in threads of one process.  The Kepler *)
(* exporter and Prometheus come and go between any two of their queries.   *)
(***************************************************************************)
EXTENDS Naturals, FiniteSets, Deployment

CONSTANTS
  NoProfile,   \* no baseline profile
  Hosts,       \* where the process may run: whether Kepler or Prometheus
               \* can answer there (measured), what is asked (asks: of
               \* "realtime", "accuracy", "log", "lock", "current",
               \* "validate", "report") and, as a bound, how often the
               \* database's clock ticks (ticks)
  MaxProfiles  \* bound: locks asked for

VARIABLES
  host,       \* it never changes, nor does the engine
  exporter,   \* Kepler's own port: "down", "zero" (counters at 0), "up"
  prom,       \* what Prometheus answers: "none", "past" (energy of the last
              \* hour only), "counter" (totals, no rate yet), "rates"
  kepler,     \* KEPLER_AVAILABLE
  task,       \* worker -> its request
  shown,      \* worker -> the label and the sources of its last answer
  profiles,   \* baseline_profiles, committed
  runs,       \* validation_runs, committed
  logged,     \* labels of the carbon records logged from telemetry
  clock       \* the database's clock

sources == <<exporter, prom>>
books   == <<profiles, runs, logged>>
evars   == <<engine, host, sources, kepler, task, shown, books, clock>>

(* mode, power, probe: what a telemetry request has found so far; begun:   *)
(* when its transaction began; base: the profile it works with; known: the *)
(* profiles there were when it began, steady: the sources have not changed *)
(* since (the last two are not in the code).                               *)
Rest ==
  [op |-> "none", at |-> "idle", mode |-> "none", power |-> FALSE, probe |-> "down",
   begun |-> 0, base |-> NoProfile, known |-> {}, steady |-> TRUE]

Nothing ==
  [mode |-> "none", power |-> "none", idle |-> "none", shares |-> "none", steady |-> TRUE]

EnergyInit ==
  /\ engine \in Engines /\ host \in Hosts
  /\ exporter = "down" /\ prom = "none" /\ kepler = FALSE
  /\ task = [w \in Workers |-> Rest]
  /\ shown = [w \in Workers |-> Nothing]
  /\ profiles = {} /\ runs = {} /\ logged = {}
  /\ clock = 0

-----------------------------------------------------------------------------
(* The surroundings.                                                       *)

Change ==
  /\ host.measured
  /\ \/ exporter' \in {"down", "zero", "up"} \ {exporter} /\ UNCHANGED prom
     \/ prom' \in {"none", "past", "counter", "rates"} \ {prom} /\ UNCHANGED exporter
  /\ task' = [w \in Workers |-> IF task[w] = Rest THEN Rest
                                ELSE [task[w] EXCEPT !.steady = FALSE]]
  /\ UNCHANGED <<engine, host, kepler, shown, books, clock>>

DatabaseTick ==
  /\ clock < host.ticks
  /\ clock' = clock + 1
  /\ UNCHANGED <<engine, host, sources, kepler, task, shown, books>>

BeginTask(w, op, stage) ==
  /\ task[w].at = "idle" /\ op \in host.asks
  /\ shown' = [shown EXCEPT ![w] = Nothing]
  /\ task' = [task EXCEPT ![w] = [Rest EXCEPT !.op = op, !.at = stage,
                                              !.begun = clock, !.known = profiles]]
  /\ UNCHANGED <<engine, host, sources, kepler, books, clock>>

Goto(w, stage) == task' = [task EXCEPT ![w].at = stage]

-----------------------------------------------------------------------------
(* check_kepler_availability: the exporter, then two Prometheus queries.   *)

(* Slip: Prometheus is not asked.                                          *)
SlipAvailable == exporter = "up"

Available == exporter = "up" \/ prom \in {"counter", "rates"}

CheckMode(w, stage) ==
  /\ kepler' = Available
  /\ task' = [task EXCEPT ![w].mode = IF Available THEN "OBSERVED" ELSE "SIMULATED",
                          ![w].at = stage]
  /\ UNCHANGED <<engine, host, sources, shown, books, clock>>

(* get_realtime_metrics: the rates, the mode, the probe, the figures.      *)
Rates(w) ==
  /\ task[w].at = "rates"
  /\ task' = [task EXCEPT ![w].power = (prom = "rates"), ![w].at = "mode"]
  /\ UNCHANGED <<engine, host, sources, kepler, shown, books, clock>>

Mode(w) == task[w].at = "mode" /\ CheckMode(w, "probe")

Probe(w) ==
  /\ task[w].at = "probe"
  /\ task' = [task EXCEPT ![w].probe = exporter, ![w].at = "figures"]
  /\ UNCHANGED <<engine, host, sources, kepler, shown, books, clock>>

(* An answer has the platform's and the containers' power, the idle power  *)
(* and the shares of the containers, each from a source of its own: the    *)
(* exporter's counters, Prometheus' rates, the model (70 to 75 W), or      *)
(* figures written in the code (18.7 W; 68, 22 and 10 %).                  *)
Answer(mode, power, idle, shares, steady) ==
  [mode |-> mode, power |-> power, idle |-> idle, shares |-> shares, steady |-> steady]

(* Slip: the label is left as it was when the figures are modelled.        *)
SlipLabelled(t) ==
  CASE t.probe = "up" -> Answer("OBSERVED", "probe", "probe", "fixed", t.steady)
    [] t.probe # "up" /\ ~ t.power -> Answer(t.mode, "model", "model", "fixed", t.steady)
    [] OTHER -> Answer(t.mode, "prometheus", "fixed", "prometheus", t.steady)

(* The exporter's figures before the model's before those of Prometheus.   *)
Labelled(t) ==
  CASE t.probe = "up" -> Answer("OBSERVED", "probe", "probe", "fixed", t.steady)
    [] t.probe # "up" /\ ~ t.power -> Answer("SIMULATED", "model", "model", "fixed", t.steady)
    [] OTHER -> Answer(t.mode, "prometheus", "fixed", "prometheus", t.steady)

(* The note of an OBSERVED answer subscripts the probe (line 209), which   *)
(* is None when the exporter is down: TypeError, answered 500.             *)
Figures(w) ==
  LET a == Labelled(task[w]) IN
  /\ task[w].at = "figures"
  /\ shown' = IF a.mode = "OBSERVED" /\ task[w].probe = "down"
              THEN [shown EXCEPT ![w] = Nothing] ELSE [shown EXCEPT ![w] = a]
  /\ kepler' = (kepler \/ task[w].probe = "up")
  /\ IF shown'[w] # Nothing /\ task[w].op = "accuracy" THEN Goto(w, "look")
     ELSE task' = [task EXCEPT ![w] = Rest]
  /\ UNCHANGED <<engine, host, sources, books, clock>>

(* log_telemetry_emissions: the mode is read before the energy; nothing is *)
(* logged without energy.  Asked again, the same hour is logged again.     *)
LogMode(w) == task[w].at = "logMode" /\ CheckMode(w, "energy")

LogEnergy(w) ==
  /\ task[w].at = "energy"
  /\ logged' = IF prom = "none" THEN logged ELSE logged \cup {task[w].mode}
  /\ task' = [task EXCEPT ![w] = Rest]
  /\ UNCHANGED <<engine, host, sources, kepler, shown, profiles, runs, clock>>

-----------------------------------------------------------------------------
(* The baseline.  timestamp is the database's now(): on PostgreSQL when    *)
(* the transaction began, on SQLite when the row is inserted.              *)

Default == 0    \* the key BASE-DEFAULT-001; other keys are fresh

Profile(w, id) ==
  [id |-> id, stamp |-> IF engine = "postgresql" THEN task[w].begun ELSE clock,
   known |-> task[w].known]

(* lock_baseline_profile; what the calibration manager computes is left    *)
(* out.                                                                    *)
Lock(w) ==
  /\ task[w].at = "lock"
  /\ profiles' = profiles \cup {Profile(w, Cardinality(profiles) + 1)}
  /\ task' = [task EXCEPT ![w] = Rest]
  /\ UNCHANGED <<engine, host, sources, kepler, shown, runs, logged, clock>>

(* Slip: the first profile in the order of insertion.                      *)
SlipNewest == {p \in profiles : \A q \in profiles : p.stamp <= q.stamp}

(* The order among equal time stamps is open.                              *)
Newest == {p \in profiles : \A q \in profiles : q.stamp <= p.stamp}

(* Slip: the look-up asks for the default's key, as seed.py:374 does.      *)
SlipNoneLocked == ~ \E p \in profiles : p.id = Default

NoneLocked == profiles = {}

With(w, p) ==
  task' = [task EXCEPT ![w] = IF task[w].op = "validate"
                              THEN [task[w] EXCEPT !.base = p, !.at = "run"] ELSE Rest]

(* get_current_locked_baseline: for itself, the drift and the accuracy     *)
(* answers, and for a validation run.                                      *)
LookBaseline(w) ==
  /\ task[w].at = "look"
  /\ \/ NoneLocked /\ Goto(w, "default")
     \/ ~ NoneLocked /\ \E p \in Newest : With(w, p)
  /\ UNCHANGED <<engine, host, sources, kepler, shown, books, clock>>

(* The primary key refuses a second default: 500.                          *)
InsertDefault(w) ==
  /\ task[w].at = "default"
  /\ IF \E p \in profiles : p.id = Default
     THEN task' = [task EXCEPT ![w] = Rest] /\ UNCHANGED profiles
     ELSE profiles' = profiles \cup {Profile(w, Default)} /\ With(w, Profile(w, Default))
  /\ UNCHANGED <<engine, host, sources, kepler, shown, runs, logged, clock>>

(* run_full_validation_cycle stores the baseline its drift is against.     *)
SaveRun(w) ==
  /\ task[w].at = "run"
  /\ runs' = runs \cup {[base |-> task[w].base, known |-> task[w].known]}
  /\ task' = [task EXCEPT ![w] = Rest]
  /\ UNCHANGED <<engine, host, sources, kepler, shown, profiles, logged, clock>>

(* A report without any run makes one.                                     *)
LookRun(w) ==
  /\ task[w].at = "report"
  /\ task' = [task EXCEPT ![w] = IF runs # {} THEN Rest
                                 ELSE [task[w] EXCEPT !.op = "validate", !.at = "look"]]
  /\ UNCHANGED <<engine, host, sources, kepler, shown, books, clock>>

(* A lost connection; what was not committed is rolled back.               *)
AbandonTask(w) ==
  /\ task[w].at # "idle"
  /\ task' = [task EXCEPT ![w] = Rest]
  /\ UNCHANGED <<engine, host, sources, kepler, shown, books, clock>>

-----------------------------------------------------------------------------

LocksAhead == Cardinality({w \in Workers : task[w].at = "lock"})

Ask(w) ==
  \/ BeginTask(w, "realtime", "rates") \/ BeginTask(w, "accuracy", "rates")
  \/ BeginTask(w, "log", "logMode")
  \/ Cardinality(profiles) + LocksAhead < MaxProfiles /\ BeginTask(w, "lock", "lock")
  \/ BeginTask(w, "current", "look") \/ BeginTask(w, "validate", "look")
  \/ BeginTask(w, "report", "report")

Serve(w) ==
  \/ Rates(w) \/ Mode(w) \/ Probe(w) \/ Figures(w) \/ LogMode(w) \/ LogEnergy(w)
  \/ Lock(w) \/ LookBaseline(w) \/ InsertDefault(w) \/ SaveRun(w) \/ LookRun(w)

EnergyNext == Change \/ DatabaseTick \/ \E w \in Workers : Ask(w) \/ Serve(w) \/ AbandonTask(w)

EnergySpec == EnergyInit /\ [][EnergyNext]_evars

-----------------------------------------------------------------------------

Honest(a) ==
  /\ a.mode = "OBSERVED" =>
        /\ a.power \in {"probe", "prometheus"}
        /\ a.idle = "fixed" <=> a.shares # "fixed"
  /\ a.power \in {"probe", "prometheus"} /\ a.steady => a.mode = "OBSERVED"

(* "Maintains explicit telemetry source labeling" (telemetry_service.py:6) *)
(* holds of the power, which is what the KPIs use: it is never the model's *)
(* in an OBSERVED answer, and a measured one is answered as SIMULATED only *)
(* when the sources changed while the answer was made.  It does not hold   *)
(* of the whole answer: every OBSERVED one has one figure that the code    *)
(* fills in, the shares beside the exporter's counters (lines 178-182) or  *)
(* the idle power beside Prometheus' rates (line 202).                     *)
ObservedPowerIsMeasured == \A w \in Workers : Honest(shown[w])

(* A validation run cites a committed profile that no profile there was    *)
(* when the run began is newer than (accuracy_service.py:126, 141).        *)
RunsCiteTheirBaseline ==
  \A r \in runs : r.base \in profiles /\ \A q \in r.known : q.stamp <= r.base.stamp

(* There is one default baseline at most, and it never supersedes a lock   *)
(* that was committed before the request that made it began                *)
(* (baseline_service.py:138-155).                                          *)
DefaultComesFirst ==
  \A p \in profiles : p.id = Default =>
     p.known = {} /\ \A q \in profiles : q.id = Default => q = p
=============================================================================
