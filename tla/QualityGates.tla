----------------------------- MODULE QualityGates -----------------------------
(***************************************************************************)
(* The two gates of the CI job: the retrieval evaluation, which reads the  *)
(* cases and a file of predictions, and the security evaluation.  Each     *)
(* exits 0 only if its report has passed; an exception, or the first gate  *)
(* that fails, ends the job.                                               *)
(*                                                                         *)
(* Abstractions.  Files are the sequences of their parsed lines; a key that *)
(* a line must have may be missing, a list it may leave out is empty.      *)
(* What masking and injection detection return is an input.  Averages are  *)
(* compared as integers, scaled by Scale; precision, reciprocal rank and   *)
(* nDCG are reported but gate nothing, and are left out.  Latencies are    *)
(* counted in a unit that makes them whole; float also lets negative and   *)
(* infinite ones through, which compare as 0 and as a large one do, and    *)
(* nan, which compares with nothing.                                       *)
(***************************************************************************)
EXTENDS Naturals, Sequences, FiniteSets

CONSTANTS
    CaseIds,
    CaseFiles,          \* sequences of [id, relevant, forbidden], and Invalid
    PredictionFiles,    \* sequences of [case, ranked, latency?], and Invalid
    SecurityFiles,      \* sequences of security cases, and Invalid
    Invalid,            \* a line that does not parse
    NaN,                \* float("nan")
    K,                  \* --k
    Percentile,         \* 95 in the code
    Scale               \* divisible by every count of relevant or retrieved chunks

ASSUME QualityGatesAssumption ==
    /\ K \in Nat \ {0}
    /\ Percentile \in 1 .. 100
    /\ Scale \in Nat \ {0}
    /\ \A n \in 1 .. K : Scale % n = 0

IsFile(file) == file \in Seq({file[n] : n \in DOMAIN file})

\* What the loaders make of a line that parses: the chunks of a case are a set,
\* those of a prediction a tuple, and a latency is a number, nan, or missing.
ASSUME FilesAssumption ==
    /\ NaN \notin Nat
    /\ \A file \in CaseFiles :
        /\ IsFile(file)
        /\ \A n \in DOMAIN file : file[n] # Invalid =>
                file[n].id \in CaseIds /\ IsFiniteSet(file[n].relevant)
    /\ \A file \in PredictionFiles :
        /\ IsFile(file)
        /\ \A n \in DOMAIN file : file[n] # Invalid =>
                /\ file[n].case \in CaseIds
                /\ IsFile(file[n].ranked)
                /\ "latency" \in DOMAIN file[n] => file[n].latency \in Nat \cup {NaN}
    /\ \A file \in SecurityFiles : IsFile(file)

VARIABLES
    cases, lines, checks,   \* the three files, once they are read
    step,           \* what the job does; "green" or "red" once it has ended
    next,           \* the line that is read next
    predictions,    \* per case id, the line of its prediction; 0 if there is none
    recall, forbidden,      \* sums over the cases, scaled
    failures        \* lines of the security cases that failed

vars == <<cases, lines, checks, step, next, predictions, recall, forbidden, failures>>

files == <<cases, lines, checks>>

Init ==
    /\ cases = <<>>
    /\ lines = <<>>
    /\ checks = <<>>
    /\ step = "cases"
    /\ next = 1
    /\ predictions = [id \in CaseIds |-> 0]
    /\ recall = 0
    /\ forbidden = 0
    /\ failures = {}

Proceed(to) == step' = to /\ next' = 1

\* The gate's process exits with 1 or with an exception.
Stop == step' = "red" /\ UNCHANGED next

HasInvalid(file) == \E n \in DOMAIN file : file[n] = Invalid

-----------------------------------------------------------------------------
(* The retrieval evaluation.  The thresholds are those of the CI job.      *)

MinRecall == 100        \* in hundredths
MaxForbidden == 0
MaxLatency == 100       \* ms

LoadCases ==
    /\ step = "cases"
    /\ cases' \in CaseFiles
    /\ lines' \in PredictionFiles
    /\ IF HasInvalid(cases') THEN Stop ELSE Proceed("predictions")
    /\ UNCHANGED <<checks, predictions, recall, forbidden, failures>>

\* Mutant: the last prediction of a case wins.
LoadPredictionAgain ==
    /\ step = "predictions"
    /\ next <= Len(lines)
    /\ IF lines[next] = Invalid
       THEN Stop /\ UNCHANGED predictions
       ELSE /\ predictions' = [predictions EXCEPT ![lines[next].case] = next]
            /\ next' = next + 1
            /\ step' = step
    /\ UNCHANGED <<files, recall, forbidden, failures>>

LoadPrediction ==
    /\ step = "predictions"
    /\ next <= Len(lines)
    /\ IF lines[next] = Invalid \/ predictions[lines[next].case] # 0
       THEN Stop /\ UNCHANGED predictions
       ELSE /\ predictions' = [predictions EXCEPT ![lines[next].case] = next]
            /\ next' = next + 1
            /\ step' = step
    /\ UNCHANGED <<files, recall, forbidden, failures>>

EndPredictions ==
    /\ step = "predictions"
    /\ next > Len(lines)
    /\ Proceed("retrieval")
    /\ UNCHANGED <<files, predictions, recall, forbidden, failures>>

PredictionOf(c) == predictions[cases[c].id]

TopK(ranked) == SubSeq(ranked, 1, IF Len(ranked) < K THEN Len(ranked) ELSE K)

Hits(ranked, wanted) == {n \in DOMAIN TopK(ranked) : ranked[n] \in wanted}

\* Mutant: len(hits) instead of len(set(hits)).
RecallOfHits(c, ranked) ==
    IF c.relevant = {} THEN 0
    ELSE Cardinality(Hits(ranked, c.relevant)) * (Scale \div Cardinality(c.relevant))

Recall(c, ranked) ==
    IF c.relevant = {} THEN 0
    ELSE Cardinality({ranked[n] : n \in Hits(ranked, c.relevant)})
            * (Scale \div Cardinality(c.relevant))

ForbiddenRate(c, ranked) ==
    IF ranked = <<>> THEN 0
    ELSE Cardinality(Hits(ranked, c.forbidden)) * (Scale \div Len(TopK(ranked)))

EvaluateCase ==
    /\ step = "retrieval"
    /\ next <= Len(cases)
    /\ \/ PredictionOf(next) = 0 /\ UNCHANGED <<recall, forbidden>>
       \/ /\ PredictionOf(next) # 0
          /\ LET ranked == lines[PredictionOf(next)].ranked IN
             /\ recall' = recall + Recall(cases[next], ranked)
             /\ forbidden' = forbidden + ForbiddenRate(cases[next], ranked)
    /\ next' = next + 1
    /\ UNCHANGED <<files, step, predictions, failures>>

\* float(payload.get("latency_ms", 0.0))
Latency(c) ==
    LET line == lines[PredictionOf(c)] IN
    IF "latency" \in DOMAIN line THEN line.latency ELSE 0

Latencies == {Latency(c) : c \in DOMAIN cases}

\* Mutant: the value before the percentile.
RankOfP95Below(n) ==
    IF Percentile * n < 100 THEN 1 ELSE (Percentile * n) \div 100

\* math.ceil(len(ordered) * 0.95), counted from 1.
RankOfP95(n) == (Percentile * n + 99) \div 100

\* The latency at that rank once they are sorted.  Among nan, which is neither
\* less nor greater, sorted may leave any of them there.
P95Values ==
    IF NaN \in Latencies THEN Latencies
    ELSE {v \in Latencies :
            /\ Cardinality({c \in DOMAIN cases : Latency(c) < v}) < RankOfP95(Len(cases))
            /\ Cardinality({c \in DOMAIN cases : Latency(c) <= v}) >= RankOfP95(Len(cases))}

\* nan > limit is False.
Exceeds(latency, limit) == latency # NaN /\ latency > limit

RetrievalPasses(p95) ==
    /\ 100 * recall >= MinRecall * Len(cases) * Scale
    /\ 100 * forbidden <= MaxForbidden * Len(cases) * Scale
    /\ ~Exceeds(p95, MaxLatency)

\* A dataset without cases raises, and so does a case without a prediction.
GateRetrieval ==
    /\ step = "retrieval"
    /\ next > Len(cases)
    /\ IF cases = <<>> \/ \E c \in DOMAIN cases : PredictionOf(c) = 0
       THEN Stop
       ELSE \E p95 \in P95Values :
                IF RetrievalPasses(p95) THEN Proceed("security cases") ELSE Stop
    /\ UNCHANGED <<files, predictions, recall, forbidden, failures>>

-----------------------------------------------------------------------------
(* The security evaluation.                                                *)

\* A dataset without cases raises.
LoadSecurityCases ==
    /\ step = "security cases"
    /\ checks' \in SecurityFiles
    /\ IF HasInvalid(checks') \/ checks' = <<>> THEN Stop ELSE Proceed("security")
    /\ UNCHANGED <<cases, lines, predictions, recall, forbidden, failures>>

\* authorize of a new ToolAuthorization with this one policy, without a token.
Authorize(check) ==
    IF check.allowed_roles \cap check.roles = {} THEN "denied"
    ELSE IF check.capability = "read_only" THEN "allowed"
    ELSE "approval_required"

Supported == {"pii", "prompt_injection", "acl", "tool_authorization"}

ToolCapability == {"read_only", "write"}

\* What payload[..] reads, or, for "input", what is computed from it.
Required ==
    [pii |-> {"leaked", "marked"},
     prompt_injection |-> {"detected", "expected"},
     acl |-> {},
     tool_authorization |-> {"capability", "expected"}]

\* An unknown category, a missing key, or a capability that is none.
Raises(check) ==
    \/ check.category \notin Supported
    \/ ~(Required[check.category] \subseteq DOMAIN check)
    \/ check.category = "tool_authorization" /\ check.capability \notin ToolCapability

Passes(check) ==
    CASE check.category = "pii" -> ~check.leaked /\ check.marked
      [] check.category = "prompt_injection" -> check.detected = check.expected
      [] check.category = "acl" -> check.retrieved \cap check.forbidden = {}
      [] check.category = "tool_authorization" -> Authorize(check) = check.expected

\* Mutant: each case replaces the verdict of those before it.
EvaluateCheckLast ==
    /\ step = "security"
    /\ next <= Len(checks)
    /\ IF Raises(checks[next])
       THEN Stop /\ UNCHANGED failures
       ELSE /\ failures' = IF Passes(checks[next]) THEN {} ELSE {next}
            /\ next' = next + 1
            /\ step' = step
    /\ UNCHANGED <<files, predictions, recall, forbidden>>

EvaluateCheck ==
    /\ step = "security"
    /\ next <= Len(checks)
    /\ IF Raises(checks[next])
       THEN Stop /\ UNCHANGED failures
       ELSE /\ failures' = failures \cup {n \in {next} : ~Passes(checks[n])}
            /\ next' = next + 1
            /\ step' = step
    /\ UNCHANGED <<files, predictions, recall, forbidden>>

GateSecurity ==
    /\ step = "security"
    /\ next > Len(checks)
    /\ step' = IF failures = {} THEN "green" ELSE "red"
    /\ UNCHANGED <<files, next, predictions, recall, forbidden, failures>>

Next ==
    \/ LoadCases
    \/ LoadPrediction
    \/ EndPredictions
    \/ EvaluateCase
    \/ GateRetrieval
    \/ LoadSecurityCases
    \/ EvaluateCheck
    \/ GateSecurity

Spec == Init /\ [][Next]_vars

-----------------------------------------------------------------------------
(* What a green job says of the files it read.                             *)

Top(ranked) == {ranked[n] : n \in 1 .. K \cap DOMAIN ranked}

\* Averages and dropped lines hide no case: a green job read exactly one
\* prediction for each, none with a forbidden chunk among its first K and each
\* with all the relevant ones, of which there is at least one.
GreenIsSafe ==
    step = "green" =>
        /\ cases # <<>>
        /\ \A c \in DOMAIN cases :
            \E n \in DOMAIN lines :
                /\ {m \in DOMAIN lines : lines[m].case = cases[c].id} = {n}
                /\ Top(lines[n].ranked) \cap cases[c].forbidden = {}
                /\ cases[c].relevant # {}
                /\ cases[c].relevant \subseteq Top(lines[n].ranked)

\* The cases whose latency is a number within the limit.
Within == {c \in DOMAIN cases : Latency(c) # NaN /\ Latency(c) <= MaxLatency}

\* If no latency is nan, a green job has at least Percentile per cent of its
\* cases within the limit, also where the rank of the percentile is not a whole
\* number.  A prediction without a latency counts as one of 0.
GreenIsFast ==
    step = "green" /\ NaN \notin Latencies =>
        100 * Cardinality(Within) >= Percentile * Len(cases)

\* One failed security case anywhere in the file turns the job red, and so does
\* one that cannot be evaluated.  A green job had only masked texts without a
\* leak and with their markers, injections detected where they are expected and
\* nowhere else, no forbidden chunk, and for every tool call the one outcome
\* that its roles and its capability allow.
GreenIsSecure ==
    step = "green" =>
        \A n \in DOMAIN checks :
            LET check == checks[n]
                shared == check.allowed_roles \cap check.roles
            IN
            /\ check.category \in Supported
            /\ check.category = "pii" => ~check.leaked /\ check.marked
            /\ check.category = "prompt_injection" => check.expected = check.detected
            /\ check.category = "acl" => check.retrieved \cap check.forbidden = {}
            /\ check.category = "tool_authorization" =>
                /\ check.expected \in {"allowed", "approval_required", "denied"}
                /\ check.expected = "denied" <=> shared = {}
                /\ check.expected = "allowed" => check.capability = "read_only"
                /\ check.expected = "approval_required" => check.capability = "write"

-----------------------------------------------------------------------------
(* What the documentation says and the code does not do.                   *)

\* docs/interview-questions.md:39: "CI fails when configured thresholds are
\* missed".  The job is green although fewer than Percentile per cent of the cases
\* are within the limit: a nan among the latencies can be the percentile, and
\* compares as not too slow.
LatencyGated ==
    step = "green" => 100 * Cardinality(Within) >= Percentile * Len(cases)

-----------------------------------------------------------------------------
(* The inductive invariant behind them.                                    *)

\* Files, counters and results keep their types.
TypeOK ==
    /\ IsFile(cases) /\ IsFile(lines) /\ IsFile(checks)
    /\ step \in {"cases", "predictions", "retrieval", "security cases", "security",
                 "green", "red"}
    /\ next \in Nat \ {0}
    /\ predictions \in [CaseIds -> Nat]
    /\ recall \in Nat
    /\ forbidden \in Nat
    /\ failures \subseteq Nat

\* A loader that has not raised has read well-formed lines only.
LinesParsed ==
    step \notin {"cases", "red"} =>
        /\ \A c \in DOMAIN cases :
                cases[c].id \in CaseIds /\ IsFiniteSet(cases[c].relevant)
        /\ \A n \in DOMAIN lines : lines[n] # Invalid =>
                /\ lines[n].case \in CaseIds
                /\ IsFile(lines[n].ranked)
                /\ "latency" \in DOMAIN lines[n] => lines[n].latency \in Nat \cup {NaN}

\* Nothing is counted before the loop that counts it.
CountsFresh ==
    /\ step = "cases" => predictions = [id \in CaseIds |-> 0]
    /\ step \in {"cases", "predictions"} => recall = 0 /\ forbidden = 0
    /\ step \in {"cases", "predictions", "retrieval", "security cases"} => failures = {}

Loaded == IF step = "predictions" THEN 1 .. next - 1 ELSE DOMAIN lines

\* The dictionary holds the lines read so far, one for each case they name.
PredictionsExact ==
    step \notin {"cases", "red"} =>
        /\ \A n \in Loaded \cap DOMAIN lines :
                lines[n] # Invalid /\ predictions[lines[n].case] = n
        /\ \A id \in CaseIds : predictions[id] # 0 =>
                /\ predictions[id] \in Loaded \cap DOMAIN lines
                /\ lines[predictions[id]].case = id

RankedOf(c) == lines[PredictionOf(c)].ranked

\* A full sum leaves no case out, and a zero one no forbidden chunk.
SumsExact ==
    step = "retrieval" =>
        /\ next <= Len(cases) + 1
        /\ recall <= (next - 1) * Scale
        /\ recall = (next - 1) * Scale =>
                \A c \in 1 .. next - 1 :
                    PredictionOf(c) # 0 /\ Recall(cases[c], RankedOf(c)) = Scale
        /\ forbidden = 0 =>
                \A c \in 1 .. next - 1 : PredictionOf(c) # 0 =>
                    ForbiddenRate(cases[c], RankedOf(c)) = 0

\* What passed the first gate stays true of the files.
RetrievalPassed ==
    step \in {"security cases", "security", "green"} =>
        /\ cases # <<>>
        /\ \E p95 \in P95Values : ~Exceeds(p95, MaxLatency)
        /\ \A c \in DOMAIN cases :
                /\ PredictionOf(c) # 0
                /\ Recall(cases[c], RankedOf(c)) = Scale
                /\ ForbiddenRate(cases[c], RankedOf(c)) = 0

Checked == IF step = "security" THEN 1 .. next - 1 ELSE DOMAIN checks

\* A security case that has been evaluated has passed or is kept as a failure.
ChecksExact ==
    step \in {"security", "green"} =>
        \A n \in Checked \cap DOMAIN checks :
            /\ ~Raises(checks[n])
            /\ Passes(checks[n]) \/ n \in failures

GreenHasNoFailure == step = "green" => failures = {}

GatesInv ==
    /\ TypeOK
    /\ LinesParsed
    /\ CountsFresh
    /\ PredictionsExact
    /\ SumsExact
    /\ RetrievalPassed
    /\ ChecksExact
    /\ GreenHasNoFailure
=============================================================================
