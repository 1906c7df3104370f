---------------------------- MODULE Measurement ----------------------------
(***************************************************************************)
(* What a run of the multi-threaded runtimes promises its caller, without  *)
(* threads, channels or signals: actors work, each one's tally is reset at *)
(* some moment after the reset was asked for, and the report gives for     *)
(* every actor the work it did after its own reset, once all have stopped. *)
(* MultiThreadRuntime and RuntimeZC implement it.                          *)
(***************************************************************************)
EXTENDS Integers

CONSTANTS Actor, MaxCount   \* tallies saturate at MaxCount

VARIABLES
    tally,      \* work done by each actor since its last reset
    pending,    \* actors with a reset still to take effect
    live,       \* actors that have not stopped or failed
    failed,     \* actors that have failed
    outcome,    \* of the run, for the caller
    report      \* the reported tallies

mvars == <<tally, pending, live, failed, outcome, report>>

Zero == [a \in Actor |-> 0]

Init == /\ tally = Zero /\ report = Zero
        /\ pending \in SUBSET Actor
        /\ live = Actor /\ failed = {}
        /\ outcome = "starting"

Begin == /\ outcome = "starting" /\ outcome' = "running"
         /\ UNCHANGED <<tally, pending, live, failed, report>>

Work(a) == /\ a \in live
           /\ tally' = [tally EXCEPT ![a] = IF @ < MaxCount THEN @ + 1 ELSE @]
           /\ UNCHANGED <<pending, live, failed, outcome, report>>

AskReset(a) == /\ outcome = "running" /\ a \in live
               /\ pending' = pending \cup {a}
               /\ UNCHANGED <<tally, live, failed, outcome, report>>

\* Several resets asked for take effect one by one.
Reset(a) == /\ a \in pending
            /\ tally' = [tally EXCEPT ![a] = 0]
            /\ pending' \in {pending, pending \ {a}}
            /\ UNCHANGED <<live, failed, outcome, report>>

\* No actor stops in good order with a reset outstanding.
Stop(a) == /\ a \in live \ pending
           /\ live' = live \ {a}
           /\ UNCHANGED <<tally, pending, failed, outcome, report>>

Fail(a) == /\ a \in live
           /\ live' = live \ {a} /\ failed' = failed \cup {a} /\ pending' = pending \ {a}
           /\ UNCHANGED <<tally, outcome, report>>

Report == /\ outcome = "running" /\ live = {} /\ failed = {}
          /\ outcome' = "reported" /\ report' = tally
          /\ UNCHANGED <<tally, pending, live, failed>>

\* No report if startup goes wrong or an actor has failed; resets may then
\* stay away.
Abort == /\ outcome = "starting" \/ (outcome = "running" /\ failed # {})
         /\ outcome' = "aborted" /\ pending' \in SUBSET pending
         /\ UNCHANGED <<tally, live, failed, report>>

Next == \/ Begin \/ Report \/ Abort
        \/ \E a \in Actor : Work(a) \/ AskReset(a) \/ Reset(a) \/ Stop(a) \/ Fail(a)

Spec == Init /\ [][Next]_mvars

=============================================================================
