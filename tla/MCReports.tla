------------------------------ MODULE MCReports ------------------------------
(***************************************************************************)
(* TLC instances of Logger and Stderr, the two ways in which a program     *)
(* reports: a behaviour is one of the component chosen at its beginning.   *)
(* The first backend of the logger prints as Console::entry does, whose    *)
(* pieces Stdio follows through the buffer of stdout.                      *)
(***************************************************************************)
EXTENDS Logger

CONSTANTS StderrPieces, MaxTexts, StderrFaults

VARIABLES component, errHolder, errPc, left, texts, errOut, kept, failed

errVars == <<errHolder, errPc, left, texts, errOut, kept, failed>>

E == INSTANCE Stderr WITH Pieces <- StderrPieces, MaxCalls <- MaxTexts, MaxFaults <- StderrFaults, holder <- errHolder,
       pc <- errPc, calls <- texts, out <- errOut

ASSUME StderrConstants == E!StderrAssumption

\* A message in three pieces of which the second does not fit, and a short one.
MCPieces == [long |-> << <<"a", "n">>, <<"b", "b", "b">>, <<"c">> >>,
             short |-> << <<"d">>, <<"e">> >>]

ReportsInit == component \in {"log", "stderr"} /\ LogInit /\ E!Init

ReportsNext ==
  /\ UNCHANGED component
  /\ \/ component = "log" /\ LogNext /\ UNCHANGED errVars
     \/ component = "stderr" /\ E!Next /\ UNCHANGED logVars

ReportsSpec ==
  ReportsInit /\ [][ReportsNext]_<<component, logVars, errVars>> /\ LogFairness /\ E!Fairness
-----------------------------------------------------------------------------
\* Of stderr: a panic ends, with its message out unless a write of its own has
\* failed, whatever other panics do and unless an eprint has ended; once one has,
\* returned or thrown, nothing goes out, of any thread.
StderrReports == []E!TypeOK /\ E!EprintIsLast /\ E!PanicsReport
=============================================================================
