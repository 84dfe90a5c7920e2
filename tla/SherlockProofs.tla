---------------------------- MODULE SherlockProofs ----------------------------
(***************************************************************************)
(* Proofs about Sherlock, for any services, models, file contents and      *)
(* bucket, with either volume.                                             *)
(*                                                                         *)
(* A gauge is set from what the round read, perhaps long ago.  That the    *)
(* file has had this entry since the round began (Remembered) is kept      *)
(* until the next round reads the file, and lost names are read no more.   *)
(* Scores that are right stay right, because an answer that comes later is *)
(* the same model's.                                                       *)
(***************************************************************************)
EXTENDS Sherlock, TLAPS

\* What a round works on has been in the file since it began.
Remembered ==
    /\ pc \notin {"read", "dead"} => Entries(services) \subseteq named
    /\ left \subseteq Listed(services)
    /\ pc \in {"telemetry", "predict"} => service \in Listed(services)

SherlockInv == TypeOK /\ Remembered

\* What is in a content of the file is the data of a service.
LEMMA ListedType ==
    ASSUME NEW c \in Contents, NEW s \in Listed(c)
    PROVE  s \in Services /\ c[s] \in InferenceData
           /\ c[s].model \in Models /\ c[s].namespace \in Namespaces
BY DEF Listed, Contents, InferenceData

LEMMA EntriesType ==
    ASSUME NEW c \in Contents
    PROVE  Entries(c) \subseteq Services \X InferenceData
BY ListedType DEF Entries

LEMMA FileTypes ==
    /\ NoServices \in Contents
    /\ file \in Files \cup {None} => Parsed \in Contents
BY SherlockAssumption DEF NoServices, Contents, Parsed

LEMMA InitInv == Init => SherlockInv
<1>1. Init => TypeOK
  BY FileTypes DEF Init, TypeOK, NoScores, Score
<1>2. Init => Remembered
  BY DEF Init, Remembered
<1>. QED BY <1>1, <1>2 DEF SherlockInv

-----------------------------------------------------------------------------
(* The steps. *)

LEMMA ReadServicesInv ==
    ASSUME SherlockInv, ReadServices
    PROVE  SherlockInv'
<1>1. Parsed \in Contents
  BY FileTypes DEF SherlockInv, TypeOK
<1>2. TypeOK'
  BY <1>1, EntriesType DEF SherlockInv, TypeOK, ReadServices, pod, Listed
<1>3. Remembered'
  BY DEF ReadServices, Remembered
<1>. QED BY <1>2, <1>3 DEF SherlockInv

LEMMA RoundInv ==
    ASSUME SherlockInv, NextService \/ EndRound \/ TelemetryAnswered \/ PredictPanics
    PROVE  SherlockInv'
<1>1. TypeOK'
  BY DEF SherlockInv, TypeOK, NextService, EndRound, TelemetryAnswered, PredictPanics, pod
<1>2. Remembered'
  BY DEF SherlockInv, Remembered, NextService, EndRound, TelemetryAnswered, PredictPanics
<1>. QED BY <1>1, <1>2 DEF SherlockInv

LEMMA SetGaugeInv ==
    ASSUME SherlockInv, pc \in {"telemetry", "predict"}, NEW x \in Score, SetGauge(x)
    PROVE  SherlockInv'
<1>1. /\ service \in Services /\ services[service].namespace \in Namespaces
  BY ListedType DEF SherlockInv, TypeOK, Remembered
<1>2. gauge' \in [Services \X Namespaces -> Score]
  BY <1>1 DEF SherlockInv, TypeOK, SetGauge
<1>3. TypeOK'
  BY <1>2 DEF SherlockInv, TypeOK, SetGauge, pod
<1>4. Remembered'
  BY DEF SherlockInv, Remembered, SetGauge
<1>. QED BY <1>3, <1>4 DEF SherlockInv

\* Answers that set the gauge.
LEMMA AnswersSet ==
    ASSUME SherlockInv, Answers
    PROVE  \/ TelemetryAnswered \/ PredictPanics
           \/ pc \in {"telemetry", "predict"} /\ \E x \in Score : SetGauge(x)
<1>1. pc = "predict" => services[service].model \in Models
  BY ListedType DEF SherlockInv, TypeOK, Remembered
<1>. QED BY <1>1 DEF Answers, CallFails, TelemetryFails, PredictAnswered, SaveAnswered,
              PredictOrSaveFails, Score

LEMMA OthersInv ==
    ASSUME SherlockInv, PollModels \/ LoadModels \/ RestartServing
    PROVE  SherlockInv'
<1>1. LoadModels => \A s \in Listed(file) : file[s].model \in Models
  BY ListedType, SherlockAssumption DEF SherlockInv, TypeOK, LoadModels
<1>2. TypeOK'
  BY <1>1, SherlockAssumption DEF SherlockInv, TypeOK, PollModels, LoadModels, RestartServing,
         MayRestart, task
<1>3. Remembered'
  BY DEF SherlockInv, Remembered, PollModels, LoadModels, RestartServing, task
<1>. QED BY <1>2, <1>3 DEF SherlockInv

LEMMA SwapInv ==
    ASSUME SherlockInv, Swap
    PROVE  SherlockInv'
<1>1. file' \in Files \cup {None} /\ Parsed' \in Contents
  BY FileTypes, SherlockAssumption DEF Swap, Parsed
<1>2. Entries(Parsed') \subseteq Services \X InferenceData
  BY <1>1, EntriesType
<1>3. TypeOK'
  BY <1>1, <1>2 DEF SherlockInv, TypeOK, Swap, pod, task
<1>4. Remembered'
  BY DEF SherlockInv, Remembered, Swap, task
<1>. QED BY <1>3, <1>4 DEF SherlockInv

LEMMA RestartInv ==
    ASSUME SherlockInv, RestartSherlock
    PROVE  SherlockInv'
<1>1. TypeOK'
  BY FileTypes DEF SherlockInv, TypeOK, RestartSherlock, MayRestart, NoScores, Score, pod
<1>2. Remembered'
  BY DEF Remembered, RestartSherlock
<1>. QED BY <1>1, <1>2 DEF SherlockInv

LEMMA NextInv == SherlockInv /\ [Next]_vars => SherlockInv'
<1>. SUFFICES ASSUME SherlockInv, [Next]_vars
              PROVE  SherlockInv'
  OBVIOUS
<1>1. CASE Task
  BY <1>1, ReadServicesInv, RoundInv DEF Task
<1>2. CASE Answers
  BY <1>2, AnswersSet, RoundInv, SetGaugeInv
<1>3. CASE PollModels \/ LoadModels \/ RestartServing
  BY <1>3, OthersInv
<1>4. CASE Swap
  BY <1>4, SwapInv
<1>5. CASE RestartSherlock
  BY <1>5, RestartInv
<1>6. CASE UNCHANGED vars
  BY <1>6 DEF SherlockInv, TypeOK, Remembered, vars
<1>. QED BY <1>1, <1>2, <1>3, <1>4, <1>5, <1>6 DEF Next

LEMMA Invariant == Spec => []SherlockInv
BY InitInv, NextInv, PTL DEF Spec

-----------------------------------------------------------------------------
(* The theorems. *)

\* Every variable of Sherlock and of the containers next to it keeps its type.
THEOREM TypeCorrect == Spec => []TypeOK
<1>1. SherlockInv => TypeOK
  BY DEF SherlockInv
<1>. QED BY <1>1, Invariant, PTL

\* A gauge is set only for an entry that the file has had since the round began.
THEOREM OnlyNamedScored == Spec => OnlyNamedAreScored
<1>1. ASSUME SherlockInv, [Next]_vars, NEW s \in Services, NEW n \in Namespaces,
             gauge'[<<s, n>>] \notin {gauge[<<s, n>>], None}
      PROVE  \E e \in named : e[1] = s /\ e[2].namespace = n
  <2>1. gauge' # gauge
    BY <1>1
  <2>2. ~RestartSherlock
    BY <1>1 DEF RestartSherlock, NoScores
  <2>3. Answers
    BY <1>1, <2>1, <2>2 DEF Next, Task, ReadServices, NextService, EndRound, PollModels,
           LoadModels, Swap, RestartServing, task, vars
  <2>4. PICK x \in Score : SetGauge(x) /\ pc \in {"telemetry", "predict"}
    BY <1>1, <2>1, <2>3, AnswersSet DEF TelemetryAnswered, PredictPanics
  <2>5. /\ service \in Listed(services) /\ Entries(services) \subseteq named
        /\ services \in Contents
    BY <1>1, <2>4 DEF SherlockInv, TypeOK, Remembered
  <2>6. service \in Services /\ services[service].namespace \in Namespaces
    BY <2>5, ListedType
  <2>7. <<s, n>> = <<service, services[service].namespace>>
    BY <1>1, <2>4, <2>6 DEF SetGauge, SherlockInv, TypeOK
  <2>8. <<service, services[service]>> \in named
    BY <2>5 DEF Entries
  <2>. QED BY <2>7, <2>8
<1>2. SherlockInv /\ [Next]_vars =>
        [\A s \in Services, n \in Namespaces :
            gauge'[<<s, n>>] \notin {gauge[<<s, n>>], None} =>
                \E e \in named : e[1] = s /\ e[2].namespace = n]_vars
  BY <1>1
<1>. QED BY <1>2, Invariant, PTL DEF Spec, OnlyNamedAreScored

-----------------------------------------------------------------------------
(* Scores stay. *)

\* What an answer makes of the gauge is the service's score, if none is lost.
LEMMA AnswerScores ==
    ASSUME SherlockInv, Scores, ~Lost, Answers,
           UNCHANGED <<file, restarts>>
    PROVE  Scores'
<1>0. /\ file \in Contents /\ gauge \in [Services \X Namespaces -> Score]
      /\ collect \in BOOLEAN
  BY SherlockAssumption DEF SherlockInv, TypeOK, Scores
<1>1. /\ pc \in {"telemetry", "predict"} /\ services = file
      /\ service \in Listed(file) /\ left \subseteq Listed(file)
  BY DEF Scores, Answers, CallFails, TelemetryFails, PredictOrSaveFails, TelemetryAnswered,
         PredictAnswered, SaveAnswered, PredictPanics
<1>2. UNCHANGED <<file, pod, collect, services, left, service>> /\ pc' \in {"next", "predict", "dead"}
  BY DEF Answers, CallFails, TelemetryFails, PredictOrSaveFails, TelemetryAnswered,
         PredictAnswered, SaveAnswered, PredictPanics, SetGauge
<1>3. \A s \in Listed(file) : s \in Services /\ file[s].namespace \in Namespaces
  BY <1>0, ListedType
<1>4. CASE gauge' = gauge
  BY <1>1, <1>2, <1>4 DEF Scores, Scored, pod, Listed
<1>5. CASE gauge' # gauge
  <2>. DEFINE m == file[service].model
              score == IF collect THEN "collected" ELSE IF m \in Bucket THEN m ELSE "error"
  <2>1. m \in served <=> m \in Bucket
    BY <1>1 DEF Scores
  <2>2. SetGauge(score)
    BY <1>1, <1>5, <2>1 DEF Answers, CallFails, TelemetryAnswered, PredictAnswered,
                  SaveAnswered, PredictPanics, Lost, PredictOrSaveFails
  <2>3. gauge' = [gauge EXCEPT ![<<service, file[service].namespace>>] = score]
    BY <1>1, <2>2 DEF SetGauge
  <2>4. \A s \in Listed(file) : Scored(file, s)'
    <3>. TAKE s \in Listed(file)
    <3>1. <<s, file[s].namespace>> \in Services \X Namespaces
      BY <1>3
    <3>2. CASE s = service
      BY <1>0, <1>2, <2>3, <3>1, <3>2 DEF Scored
    <3>3. CASE s # service
      <4>1. gauge'[<<s, file[s].namespace>>] = gauge[<<s, file[s].namespace>>]
        BY <1>0, <2>3, <3>1, <3>3
      <4>2. Scored(file, s)
        BY DEF Scores
      <4>. QED BY <1>2, <4>1, <4>2 DEF Scored
    <3>. QED BY <3>2, <3>3
  <2>. HIDE DEF score, m
  <2>. QED BY <1>1, <1>2, <2>4 DEF Scores, pod, Listed
<1>. QED BY <1>4, <1>5

\* The other steps set no gauge, and read and load what the file names.
LEMMA OthersScore ==
    ASSUME SherlockInv, Scores, Task \/ PollModels \/ LoadModels,
           UNCHANGED <<file, restarts>>
    PROVE  Scores'
<1>1. UNCHANGED <<file, collect, gauge>>
  BY DEF Task, ReadServices, NextService, EndRound, PollModels, LoadModels, task
<1>2. \A s \in Listed(file) : Scored(file, s)'
  BY <1>1 DEF Scores, Scored
<1>3. /\ pc' # "read" => services' = file /\ left' \subseteq Listed(file)
      /\ pc' \in {"telemetry", "predict"} => service' \in Listed(file)
  BY DEF Scores, Task, ReadServices, Parsed, NextService, EndRound, PollModels, LoadModels, task
<1>4. LET wanted == {file[s].model : s \in Listed(file)} IN
      /\ Bucket \cap wanted \subseteq volume' /\ volume' \subseteq Bucket
      /\ served' \cap wanted = Bucket \cap wanted
  <2>1. CASE Task
    BY <2>1 DEF Scores, Task, ReadServices, NextService, EndRound, pod
  <2>2. CASE PollModels
    BY <2>2 DEF Scores, PollModels
  <2>3. CASE LoadModels
    BY <2>3 DEF Scores, LoadModels
  <2>. QED BY <2>1, <2>2, <2>3
<1>. QED BY <1>1, <1>2, <1>3, <1>4 DEF Scores, Listed

\* Once every service of services.yaml has its score and the models it names are
\* loaded, the scores stay round after round, although each round sets every gauge
\* anew (inference.rs:93), the files are read and the models loaded again.
THEOREM ScoresAreKept == Spec => ScoresStay
<1>1. SherlockInv /\ [Next]_vars =>
        [Scores /\ ~Lost /\ UNCHANGED <<file, restarts>> => Scores']_vars
  <2>. SUFFICES ASSUME SherlockInv, Next, Scores, ~Lost, UNCHANGED <<file, restarts>>
                PROVE  Scores'
    OBVIOUS
  <2>1. restarts \in Nat
    BY DEF SherlockInv, TypeOK
  <2>2. ~RestartSherlock /\ ~RestartServing
    BY <2>1 DEF RestartSherlock, RestartServing, MayRestart
  <2>3. ~Swap
    BY DEF Swap
  <2>. QED BY <2>2, <2>3, AnswerScores, OthersScore DEF Next
<1>. QED BY <1>1, Invariant, PTL DEF Spec, ScoresStay
=============================================================================
