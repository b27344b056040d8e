------------------------------- MODULE Worker -------------------------------
(***************************************************************************)
(* What one backend execution can report.  Translated from                  *)
(* ovk/core/worker_runner.py, execution_budget.py and the adapters'         *)
(* normalize(): the way a subprocess ended becomes a termination, a raw     *)
(* status and whether the evaluator delivered an envelope; the adapter then *)
(* normalises these to a verification status.                               *)
(***************************************************************************)
EXTENDS Decision

TerminationKind ==
    {"completed", "timeout", "resource_exhausted", "tool_unavailable",
     "tool_error", "invalid_output", "cancelled"}

(***************************************************************************)
(* Ends of a worker subprocess.  "no_budget": a wall-time budget that is    *)
(* not positive, refused before anything is started.  "unenforceable" and   *)
(* "rejected": the worker gave no exit code, because isolation could not be *)
(* enforced or for any other reason.  "garbage": no output, output cut at   *)
(* the byte cap, bad JSON or JSON that is no object.                        *)
(***************************************************************************)
SilentEnd == {"no_budget", "timed_out", "unenforceable", "rejected", "garbage"}

Raw(termination, status, envelope) ==
    [termination |-> termination, status |-> status, envelope |-> envelope]

\* _parse_worker_result for an execution that delivered no envelope.
RawOfSilentEnd(end) ==
    CASE end \in {"no_budget", "timed_out"} -> Raw("timeout", "unknown", FALSE)
      [] end = "unenforceable"              -> Raw("tool_unavailable", "error", FALSE)
      [] end = "rejected"                   -> Raw("tool_error", "error", FALSE)
      [] end = "garbage"                    -> Raw("invalid_output", "error", FALSE)

\* What the evaluators put in an envelope: a verdict, a refused payload, an
\* evaluator that is not known, or a solver that is not installed.
EvaluatorEnvelope ==
    {Raw("completed", s, TRUE) : s \in {"pass", "fail", "unknown"}}
        \cup {Raw("invalid_output", "unknown", TRUE),
              Raw("tool_error", "error", TRUE),
              Raw("tool_unavailable", "unknown", TRUE)}

\* The OPA adapter talks to its worker itself and never marks an envelope.
OpaExecution ==
    {Raw("completed", s, FALSE) : s \in {"pass", "fail", "unknown"}}
        \cup {Raw("timeout", "unknown", FALSE), Raw("tool_unavailable", "unknown", FALSE),
              Raw("tool_error", "error", FALSE)}

AdapterKind == {"deterministic", "z3", "opa"}

RawExecution(kind) ==
    IF kind = "opa" THEN OpaExecution
    ELSE {RawOfSilentEnd(end) : end \in SilentEnd} \cup EvaluatorEnvelope

-----------------------------------------------------------------------------
\* Mutant: a timeout is handed on as it is.
Normalize_RawTimeout(kind, raw) ==
    IF raw.termination = "timeout" THEN "timeout" ELSE raw.status

\* The deterministic adapters override only a timeout; the z3 and OPA adapters
\* also read an unavailable tool as unknown and a tool error as error.
Normalize(kind, raw) ==
    CASE raw.termination = "timeout" -> "unknown"
      [] kind # "deterministic" /\ raw.termination = "tool_unavailable" -> "unknown"
      [] kind # "deterministic" /\ raw.termination = "tool_error" -> "error"
      [] OTHER -> raw.status

\* What run() followed by normalize() may hand to the control plane.
Report(kind, raw) ==
    [status |-> Normalize(kind, raw), termination |-> raw.termination, envelope |-> raw.envelope]

Reports == [kind \in AdapterKind |-> {Report(kind, raw) : raw \in RawExecution(kind)}]
=============================================================================
