------------------------------ MODULE Sherlock ------------------------------
(***************************************************************************)
(* Sherlock: sherlock/src/inference.rs, with the two containers of its pod *)
(* that sherlock/deployment.yaml and the chart put next to it.  One task   *)
(* reads config/services.yaml, and for one service after the other asks    *)
(* Prometheus for its telemetry and TensorFlow Serving for a prediction,   *)
(* and sets the service's gauge.  A container copies the models from a     *)
(* bucket to a volume, and TensorFlow Serving loads those of them that     *)
(* models.config names.                                                    *)
(*                                                                         *)
(* The two files are keys of one ConfigMap, which the operator writes      *)
(* together, and a mounted ConfigMap changes at once.                      *)
(* A score is told by the model that computed it; the telemetry and its    *)
(* 270 queries are one call.  A call that is never answered is one that    *)
(* has no fairness: the clients are made without a timeout.                *)
(* Not covered: the arithmetic of query.rs, the versions of a model.       *)
(***************************************************************************)
EXTENDS Naturals

CONSTANTS
    Services,      \* keys of services.yaml
    Namespaces,
    Models,
    Files,         \* contents of the ConfigMap, a subset of Contents
    Bucket,        \* the models there are in the bucket
    SharedVolume,  \* whether the model-poller mounts the volume that is served:
                   \*   it does in sherlock/deployment.yaml, not in the chart
    MaxRestarts,   \* bound on the restarts of a container
    None

InferenceData == [model : Models, namespace : Namespaces]
Contents == [Services -> InferenceData \cup {None}]

ASSUME SherlockAssumption ==
    /\ Files \subseteq Contents
    /\ Bucket \subseteq Models
    /\ SharedVolume \in BOOLEAN
    /\ None \notin InferenceData \cup Contents \cup Services \cup Models

VARIABLES
    file,      \* the ConfigMap as it is mounted; None: it does not parse
    volume,    \* the models in the volume that TensorFlow Serving sees
    served,    \* the models that it has loaded
    collect,   \* DATA_COLLECT_ONLY
    pc,        \* "read", "next", "telemetry", "predict", "dead"
    services,  \* what this round read
    left,      \* its services that this round has still to do
    service,   \* the one it is at
    gauge,     \* anomaly_score: [Services \X Namespaces -> Score]
    named,     \* the entries there were in the file since this round began
    restarts

pod == <<volume, served>>
task == <<pc, services, left, service, gauge>>
vars == <<file, volume, served, collect, pc, services, left, service, gauge, named, restarts>>

\* "error" for -1, "collected" for 0.4.
Score == Models \cup {"error", "collected", None}

NoServices == [s \in Services |-> None]
NoScores == [g \in Services \X Namespaces |-> None]

\* A key whose entry is None is not in the file.
Listed(c) == {s \in Services : c[s] # None}
Entries(c) == {<<s, c[s]>> : s \in Listed(c)}

Init ==
    /\ file \in Files \cup {None}
    /\ volume = {}
    /\ served = {}
    /\ collect \in BOOLEAN
    /\ pc = "read"
    /\ services = NoServices
    /\ left = {}
    /\ service = None
    /\ gauge = NoScores
    /\ named = {}
    /\ restarts = 0

-----------------------------------------------------------------------------
(* poll_anomaly_scores. *)

\* parse_config, or its default.
Parsed == IF file = None THEN NoServices ELSE file

\* Seeded defect: a file that does not parse leaves the services of the round
\* before.
ReadServicesOrKeep ==
    /\ pc = "read"
    /\ pc' = "next"
    /\ services' = IF file = None THEN services ELSE file
    /\ left' = Listed(services')
    /\ named' = Entries(Parsed)
    /\ UNCHANGED <<file, pod, collect, service, gauge, restarts>>

ReadServices ==
    /\ pc = "read"
    /\ pc' = "next"
    /\ services' = Parsed
    /\ left' = Listed(Parsed)
    /\ named' = Entries(Parsed)
    /\ UNCHANGED <<file, pod, collect, service, gauge, restarts>>

\* The order of a HashMap is any order.
NextService ==
    /\ pc = "next"
    /\ \E s \in left : service' = s /\ left' = left \ {s}
    /\ pc' = "telemetry"
    /\ UNCHANGED <<file, pod, collect, services, gauge, named, restarts>>

\* Nothing is left; the task sleeps and starts over.
EndRound ==
    /\ pc = "next"
    /\ left = {}
    /\ pc' = "read"
    /\ UNCHANGED <<file, pod, collect, services, left, service, gauge, named, restarts>>

\* Seeded defect: an error ends the round.
SetGaugeAndStop(score) ==
    /\ gauge' = [gauge EXCEPT ![<<service, services[service].namespace>>] = score]
    /\ pc' = "next"
    /\ left' = IF score = "error" THEN {} ELSE left
    /\ UNCHANGED <<file, pod, collect, services, service, named, restarts>>

\* Seeded defect: the series is set by the name of its model.
SetGaugeToService(score) ==
    /\ gauge' = [gauge EXCEPT ![<<service, services[service].namespace>>] =
                    IF score \in Models THEN service ELSE score]
    /\ pc' = "next"
    /\ UNCHANGED <<file, pod, collect, services, left, service, named, restarts>>

\* The gauge of the service gets its score, and the round goes on.
SetGauge(score) ==
    /\ gauge' = [gauge EXCEPT ![<<service, services[service].namespace>>] = score]
    /\ pc' = "next"
    /\ UNCHANGED <<file, pod, collect, services, left, service, named, restarts>>

\* Prometheus answers, or one of the queries fails or finds nothing.
TelemetryAnswered ==
    /\ pc = "telemetry"
    /\ pc' = "predict"
    /\ UNCHANGED <<file, pod, collect, services, left, service, gauge, named, restarts>>

TelemetryFails == pc = "telemetry" /\ SetGauge("error")

\* Seeded defect: without the model the score stays what it is.
PredictAnsweredOrKeep ==
    /\ pc = "predict"
    /\ ~collect
    /\ LET d == services[service] IN
        SetGauge(IF d.model \in served THEN d.model ELSE gauge[<<service, d.namespace>>])

\* TensorFlow Serving answers with an error when it has not loaded the model.
PredictAnswered ==
    /\ pc = "predict"
    /\ ~collect
    /\ LET m == services[service].model IN
        SetGauge(IF m \in served THEN m ELSE "error")

\* The telemetry is saved, and no prediction asked for.
SaveAnswered == pc = "predict" /\ collect /\ SetGauge("collected")

PredictOrSaveFails == pc = "predict" /\ SetGauge("error")

\* MeanAbsoluteError panics when the model predicts another number of values
\* than it was given, and the panic ends the task; the process goes on serving its metrics.
PredictPanics ==
    /\ pc = "predict"
    /\ ~collect
    /\ services[service].model \in served
    /\ pc' = "dead"
    /\ UNCHANGED <<file, pod, collect, services, left, service, gauge, named, restarts>>

CallFails == TelemetryFails \/ PredictOrSaveFails
Answers == TelemetryAnswered \/ PredictAnswered \/ SaveAnswered \/ CallFails \/ PredictPanics
Task == ReadServices \/ NextService \/ EndRound

-----------------------------------------------------------------------------
(* The rest of the pod, and the operator. *)

\* The model-poller copies the bucket.
PollModels ==
    /\ volume' = IF SharedVolume THEN Bucket ELSE volume
    /\ UNCHANGED <<file, served, collect, task, named, restarts>>

\* TensorFlow Serving polls models.config and the directories of its models.
LoadModels ==
    /\ file # None
    /\ served' = {file[s].model : s \in Listed(file)} \cap volume
    /\ UNCHANGED <<file, volume, collect, task, named, restarts>>

\* The ConfigMap's volume gets a new content: the operator's, or the empty one
\* of the chart, which does not parse.
Swap ==
    /\ file' \in (Files \cup {None}) \ {file}
    /\ named' = named \cup Entries(Parsed')
    /\ UNCHANGED <<pod, collect, task, restarts>>

MayRestart == restarts < MaxRestarts /\ restarts' = restarts + 1

\* Sherlock's container starts over, perhaps with another setting.
RestartSherlock ==
    /\ MayRestart
    /\ collect' \in BOOLEAN
    /\ pc' = "read"
    /\ services' = NoServices /\ left' = {} /\ service' = None
    /\ gauge' = NoScores
    /\ named' = {}
    /\ UNCHANGED <<file, pod>>

RestartServing ==
    /\ MayRestart
    /\ served' = {}
    /\ UNCHANGED <<file, volume, collect, task, named>>

Next ==
    \/ Task \/ Answers
    \/ PollModels \/ LoadModels
    \/ Swap \/ RestartSherlock \/ RestartServing

Spec == Init /\ [][Next]_vars

\* The task and the two pollers run on; nothing is asked of those it calls.
OwnSteps == WF_vars(Task) /\ WF_vars(PollModels) /\ WF_vars(LoadModels)

\* Every call is answered in the end, one way or another.
FairSpec == Spec /\ OwnSteps /\ WF_vars(Answers)

-----------------------------------------------------------------------------
(* Properties. *)

TypeOK ==
    /\ file \in Files \cup {None}
    /\ volume \subseteq Models /\ served \subseteq Models
    /\ collect \in BOOLEAN
    /\ pc \in {"read", "next", "telemetry", "predict", "dead"}
    /\ services \in Contents
    /\ left \subseteq Services
    /\ service \in Services \cup {None}
    /\ gauge \in [Services \X Namespaces -> Score]
    /\ named \subseteq Services \X InferenceData
    /\ restarts \in Nat

\* Once a service is not in the file, the rounds that begin leave its gauge
\* alone: a gauge is set only for an entry that the file has had since the
\* round began, with the namespace it had.
OnlyNamedAreScored ==
    [][\A s \in Services, n \in Namespaces :
        gauge'[<<s, n>>] \notin {gauge[<<s, n>>], None} =>
            \E e \in named : e[1] = s /\ e[2].namespace = n]_vars

\* However often the calls for other services fail, a service that stays in the
\* file is tried again and again, unless the task has panicked.
EveryListedIsTried ==
    \A s \in Services :
        <>[](pc # "dead" /\ file # None /\ file[s] # None)
            => []<>(service = s /\ pc = "telemetry")

\* The score of a service in the end: that of the model the file gives it, or -1
\* when that model is not in the bucket.
Scored(f, s) ==
    gauge[<<s, f[s].namespace>>] =
        IF collect THEN "collected" ELSE IF f[s].model \in Bucket THEN f[s].model ELSE "error"

\* A call fails that has an answer.  TensorFlow Serving has none for a model that
\* it has not loaded.
Lost ==
    \/ TelemetryFails
    \/ PredictOrSaveFails /\ (collect \/ services[service].model \in served)

\* When the file stays and no answer is lost any more, each service gets its
\* score and keeps it, whatever failed or changed before.
ScoresSettle ==
    <>[][~Lost]_vars =>
        \A f \in Files :
            <>[](pc # "dead" /\ file = f) => <>[](\A s \in Listed(f) : Scored(f, s))

\* Each service of the file has its score, and whoever works, works for the file:
\* the round, the model-poller and TensorFlow Serving.
Scores ==
    LET wanted == {file[s].model : s \in Listed(file)} IN
    /\ file # None
    /\ \A s \in Listed(file) : Scored(file, s)
    /\ pc # "read" => services = file /\ left \subseteq Listed(file)
    /\ pc \in {"telemetry", "predict"} => service \in Listed(file)
    /\ Bucket \cap wanted \subseteq volume /\ volume \subseteq Bucket
    /\ served \cap wanted = Bucket \cap wanted

\* The scores stay as they are, round after round, until the file changes, an
\* answer is lost or a container starts over.
ScoresStay ==
    [][Scores /\ ~Lost /\ UNCHANGED <<file, restarts>> => Scores']_vars

\* "Sherlock should periodically calculate the anomaly score for each of the
\* monitored services" (documentation/thesis/chapters/appendix/
\* requirements-evaluation.tex:19, FR12).
ScoredPeriodically ==
    \A s \in Services :
        <>[](file # None /\ file[s] # None) => []<>(service = s /\ pc = "telemetry")
=============================================================================
