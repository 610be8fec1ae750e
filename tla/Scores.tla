------------------------------- MODULE Scores -------------------------------
(***************************************************************************)
(* ScoreUpdaterService.recordAttempt: the row of model_scores is read,     *)
(* changed and written back in separate queries, by every attempt on its   *)
(* own; nobody waits for it.  One model; a row that does not exist yet     *)
(* reads as the seed.  Kept are the columns a sample changes.              *)
(***************************************************************************)
EXTENDS Routing

CONSTANTS
    Recorder,   \* attempts being recorded at once
    Durations,  \* seconds a successful call may take
    MaxSamples  \* bound: attempts

ASSUME ScoresAssumption == Durations \subseteq 0..60 /\ MaxSamples \in Nat

VARIABLES
    row,      \* the row of model_scores
    rec,      \* rec[r]: what recorder r has read, and its sample
    samples,  \* attempts so far
    had       \* history: which of "good" and "bad" a sample has been

scoreVars == <<row, rec, samples, had>>

Seed == [ok |-> 0, bad |-> 0, availability |-> 50, stability |-> 50, latency |-> 50,
         rateLimit |-> 50]
NoSample == [ok |-> FALSE, seconds |-> 0, kind |-> "none"]
Unused == [busy |-> FALSE, read |-> Seed, sample |-> NoSample]

ScoreInit ==
    /\ row = Seed /\ rec = [r \in Recorder |-> Unused] /\ samples = 0 /\ had = {}

(* What execute records: the duration of a success, and 0 with the         *)
(* router's kind for a failure.                                            *)
Sample ==
    {[ok |-> TRUE, seconds |-> d, kind |-> "none"] : d \in Durations}
        \cup {[ok |-> FALSE, seconds |-> 0, kind |-> kind] : kind \in {"rate_limited", "other"}}

SampleRead(r) ==
    /\ ~rec[r].busy /\ samples < MaxSamples
    /\ \E s \in Sample :
          /\ rec' = [rec EXCEPT ![r] = [busy |-> TRUE, read |-> row, sample |-> s]]
          /\ had' = had \cup {IF s.ok THEN "good" ELSE "bad"}
    /\ samples' = samples + 1
    /\ UNCHANGED row

SampleWrite(r) ==
    /\ rec[r].busy
    /\ row' = AfterSample(rec[r].read, rec[r].sample)
    /\ rec' = [rec EXCEPT ![r] = Unused]
    /\ UNCHANGED <<samples, had>>

ScoreNext == \E r \in Recorder : SampleRead(r) \/ SampleWrite(r)
ScoreSpec == ScoreInit /\ [][ScoreNext]_scoreVars

-----------------------------------------------------------------------------
(* Availability, stability and the rate-limit score only rise above their  *)
(* seed by a success and only fall below it by a failure, whichever        *)
(* updates are lost (applyScoreSample, recordAttempt).                     *)
ScoreIsEarned ==
    \A column \in {"availability", "stability", "rateLimit"} :
        /\ row[column] > 50 => "good" \in had
        /\ row[column] < 50 => "bad" \in had
=============================================================================
