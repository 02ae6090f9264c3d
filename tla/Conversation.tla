---------------------------- MODULE Conversation ----------------------------
(***************************************************************************)
(* Code from its author to its first run.  The author is an LLM that is    *)
(* asked again with the report of what was wrong (compile_from_natural_    *)
(* language of tinypipe-compiler/src/llm/mod.rs), until a response         *)
(* compiles or the attempts are exhausted.  The LLM is external: it        *)
(* answers what it likes, or not at all.                                   *)
(*                                                                         *)
(* What the compiler has against a response and what a run of one returns  *)
(* are parameters here; FrontEnd gives them.                               *)
(***************************************************************************)
EXTENDS Naturals, TLAPS

CONSTANTS
    NoReport,     \* neither a report nor a value
    Answers(_),   \* the answers the LLM may give at an attempt
    MaxAttempts,  \* max_repair_attempts
    Fault(_),     \* the report on a response, NoReport if it compiles
    Runs(_),      \* whether a run of the response is of interest
    Result(_)     \* what it returns

ASSUME ConversationAssumption == MaxAttempts \in Nat

VARIABLES
    attempt,      \* the attempt of the loop, from 1
    stage,        \* where the loop is
    lastError,    \* last_error
    prompt,       \* the report that the prompt of the attempt carries
    answer,       \* the latest response
    value         \* what the run of the accepted program returned

vars == <<attempt, stage, lastError, prompt, answer, value>>

-----------------------------------------------------------------------------
Init ==
    /\ attempt = 0
    /\ stage = "ask"
    /\ lastError = NoReport
    /\ prompt = NoReport
    /\ answer = <<>>
    /\ value = NoReport

\* The prompt of an attempt.
Ask ==
    /\ stage = "ask"
    /\ attempt < MaxAttempts
    /\ attempt' = attempt + 1
    /\ prompt' = lastError
    /\ answer' = <<>>
    /\ stage' = "asked"
    /\ UNCHANGED <<lastError, value>>

\* The backend's error ends the loop, whatever attempts are left.
BackendFails ==
    /\ stage = "asked"
    /\ stage' = "failed"
    /\ UNCHANGED <<attempt, lastError, prompt, answer, value>>

Answered(response) ==
    /\ answer' = response
    /\ stage' = "answered"
    /\ UNCHANGED <<attempt, lastError, prompt, value>>

\* Mutant: the first report is kept.
RejectOnce ==
    /\ stage = "answered"
    /\ Fault(answer) # NoReport
    /\ lastError' = IF lastError = NoReport THEN Fault(answer) ELSE lastError
    /\ stage' = "ask"
    /\ UNCHANGED <<attempt, prompt, answer, value>>

\* The response is no code that compiles: the loop goes on.
Reject ==
    /\ stage = "answered"
    /\ Fault(answer) # NoReport
    /\ lastError' = Fault(answer)
    /\ stage' = "ask"
    /\ UNCHANGED <<attempt, prompt, answer, value>>

Accept ==
    /\ stage = "answered"
    /\ Fault(answer) = NoReport
    /\ stage' = "accepted"
    /\ UNCHANGED <<attempt, lastError, prompt, answer, value>>

\* All attempts are exhausted: the caller gets last_error.
GiveUp ==
    /\ stage = "ask"
    /\ attempt = MaxAttempts
    /\ stage' = "rejected"
    /\ UNCHANGED <<attempt, lastError, prompt, answer, value>>

\* A run of the accepted program.
Run ==
    /\ stage = "accepted"
    /\ Runs(answer)
    /\ value' = Result(answer)
    /\ stage' = "ran"
    /\ UNCHANGED <<attempt, lastError, prompt, answer>>

Next ==
    \/ Ask
    \/ BackendFails
    \/ stage = "asked" /\ \E response \in Answers(attempt) : Answered(response)
    \/ Reject
    \/ Accept
    \/ GiveUp
    \/ Run

Spec == Init /\ [][Next]_vars

-----------------------------------------------------------------------------
(* Properties. *)

\* A prompt after the first tells what was wrong with the response before, and
\* not with an earlier one.
PromptTellsWhy ==
    [][attempt' # attempt => prompt' = IF attempt = 0 THEN NoReport ELSE Fault(answer)]_vars

\* The error of a conversation that was given up is the report on the last
\* response; without an attempt there is none.
RejectionTellsWhy ==
    stage = "rejected" =>
        /\ attempt = MaxAttempts
        /\ lastError = IF attempt = 0 THEN NoReport ELSE Fault(answer)

\* What runs is the response of an attempt that was asked for, and it compiled;
\* nothing else has a value.
RunsWhatCompiled ==
    /\ stage \in {"accepted", "ran"} =>
         attempt \in 1..MaxAttempts /\ answer \in Answers(attempt) /\ Fault(answer) = NoReport
    /\ value = IF stage = "ran" THEN Result(answer) ELSE NoReport

\* Where last_error stands at each stage: between two attempts it is the report
\* on the response that was just rejected.
ConversationInv ==
    /\ attempt \in 0..MaxAttempts
    /\ stage \in {"ask", "asked", "answered", "accepted", "ran", "failed", "rejected"}
    /\ stage = "ask" => lastError = IF attempt = 0 THEN NoReport ELSE Fault(answer)
    /\ stage \in {"asked", "answered"} => attempt > 0
    /\ stage = "answered" => answer \in Answers(attempt)
    /\ RejectionTellsWhy
    /\ RunsWhatCompiled

-----------------------------------------------------------------------------
(* Theorems, for every compiler and every number of attempts. *)

LEMMA ConversationInit == Init => ConversationInv
BY ConversationAssumption DEF Init, ConversationInv, RejectionTellsWhy, RunsWhatCompiled

LEMMA ConversationNext == ConversationInv /\ [Next]_vars => ConversationInv'
<1> SUFFICES ASSUME ConversationInv, [Next]_vars PROVE ConversationInv'
  OBVIOUS
<1> USE ConversationAssumption DEF ConversationInv, RejectionTellsWhy, RunsWhatCompiled
<1>1. CASE Ask BY <1>1 DEF Ask
<1>2. CASE BackendFails BY <1>2 DEF BackendFails
<1>3. ASSUME stage = "asked", NEW response \in Answers(attempt), Answered(response)
      PROVE  ConversationInv'
  BY <1>3 DEF Answered
<1>4. CASE Reject BY <1>4 DEF Reject
<1>5. CASE Accept BY <1>5 DEF Accept
<1>6. CASE GiveUp BY <1>6 DEF GiveUp
<1>7. CASE Run BY <1>7 DEF Run
<1>8. CASE UNCHANGED vars BY <1>8 DEF vars
<1> QED BY <1>1, <1>2, <1>3, <1>4, <1>5, <1>6, <1>7, <1>8 DEF Next

\* The report at hand is on the response that was just rejected, and what runs
\* compiled, in every reachable state.
THEOREM Conversing == Spec => []ConversationInv
BY ConversationInit, ConversationNext, PTL DEF Spec

\* The caller whose attempts are exhausted learns what was wrong with the last
\* response; what runs is a response that compiled.
THEOREM EndsAsItTells == Spec => [](RejectionTellsWhy /\ RunsWhatCompiled)
<1>1. ConversationInv => RejectionTellsWhy /\ RunsWhatCompiled BY DEF ConversationInv
<1> QED BY <1>1, Conversing, PTL

\* Each prompt of the repair loop carries the report on the response before it.
THEOREM PromptRight == Spec => PromptTellsWhy
<1> DEFINE Tells == attempt' # attempt => prompt' = IF attempt = 0 THEN NoReport ELSE Fault(answer)
<1>1. ConversationInv /\ [Next]_vars => [Tells]_vars
  BY DEF ConversationInv, Next, Ask, BackendFails, Answered, Reject, Accept, GiveUp, Run, vars
<1> QED BY <1>1, Conversing, PTL DEF Spec, PromptTellsWhy
=============================================================================
