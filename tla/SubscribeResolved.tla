-------------------------- MODULE SubscribeResolved --------------------------
(***************************************************************************)
(* The example subscribe-resolved (examples/, main.rs): it subscribes to   *)
(* the exact-resolved stream and prints transactions until it has seen as  *)
(* many as it was asked for, or for ever.  Its loop is a while-let, for    *)
(* which a None of next() is an ordinary end: that an interrupted stream   *)
(* does not pass for a complete one rests on next() reporting the end of   *)
(* the stream as an error first.                                           *)
(*                                                                         *)
(* Its stream is an attachment of FastpathStream, whose server is          *)
(* unconstrained.                                                          *)
(***************************************************************************)
EXTENDS FastpathStream

ASSUME CodesAssumption == {"Ok", "None"} \cap Codes = {}

VARIABLES
    phase,     \* "setup", "run" or "done"
    outcome,   \* what main returned: "Ok" or an error; "None" before
    help,      \* whether --help is among the arguments
    maximum,   \* POLARIS_TX_STREAM_MAX_FRAMES
    count      \* the local of main

main_vars == <<vars, phase, outcome, help, maximum, count>>

SetupErrors ==
    {"InvalidArguments", "InvalidFilter", "InvalidEndpoint", "Transport",
     "SubscribeTimeout"} \cup Codes

MainInit ==
    /\ Init
    /\ phase = "setup" /\ outcome = "None"
    /\ help \in BOOLEAN
    /\ maximum \in U64 \cup {None}
    /\ count = 0

Exit(result) == phase' = "done" /\ outcome' = result

\* Asked for help, main prints its usage, looks at nothing else and returns
\* Ok.
Help ==
    /\ phase = "setup" /\ help
    /\ Exit("Ok")
    /\ UNCHANGED <<vars, help, maximum, count>>

\* Whatever else goes wrong before the loop ends main; a maximum of zero does.
SetUpFails(error) ==
    /\ phase = "setup" /\ ~help
    /\ Exit(error)
    /\ UNCHANGED <<vars, help, maximum, count>>

\* The stream is open, with the mode of the filter.
SetUp ==
    /\ phase = "setup" /\ ~help
    /\ maximum # 0
    /\ phase' = "run"
    /\ UNCHANGED <<vars, outcome, help, maximum, count>>

\* The loop calls next(); on a failed stream that is None, and main returns.
MainCallsNext ==
    /\ phase = "run"
    /\ IF failed
       THEN NextAfterFailure /\ Exit("Ok")
       ELSE CallNext /\ UNCHANGED <<phase, outcome>>
    /\ UNCHANGED <<help, maximum, count>>

\* Mutant of Continue: the maximum is compared before it is counted up to.
ContinueOneMore ==
    /\ count' = count + 1
    /\ IF maximum = count THEN Exit("Ok") ELSE UNCHANGED <<phase, outcome>>

\* The body of the loop.
Continue ==
    /\ count' = count + 1
    /\ IF maximum = count + 1 THEN Exit("Ok") ELSE UNCHANGED <<phase, outcome>>

\* next() completes: a transaction, None, or an error that ? hands on.
Completed ==
    CASE returned' = "Ok"   -> Continue
      [] returned' = "None" -> Exit("Ok") /\ UNCHANGED count
      [] OTHER              -> Exit(returned') /\ UNCHANGED count

MainReceivesFrame(frame) ==
    /\ phase = "run"
    /\ ReceiveFrame(frame)
    /\ Completed
    /\ UNCHANGED <<help, maximum>>

MainReceivesEnd(end) ==
    /\ phase = "run"
    /\ ReceiveEnd(end)
    /\ Completed
    /\ UNCHANGED <<help, maximum>>

MainNext ==
    \/ Help
    \/ \E error \in SetupErrors : SetUpFails(error)
    \/ SetUp
    \/ MainCallsNext
    \/ \E frame \in Frames : MainReceivesFrame(frame)
    \/ \E end \in Ends : MainReceivesEnd(end)

MainSpec == MainInit /\ [][MainNext]_main_vars

\* Unless it was asked for its usage, main succeeds only with exactly as many
\* transactions as it was asked for: the end of the stream, a status or
\* corrupt data never passes for success, and without a maximum it ends only
\* by an error.
SucceedsOnlyComplete ==
    outcome = "Ok" /\ ~help =>
        maximum # None /\ count = maximum /\ Len(delivered) = maximum
=============================================================================
