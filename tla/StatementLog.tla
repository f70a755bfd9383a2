---------------------------- MODULE StatementLog ----------------------------
(***************************************************************************)
(* What a log of SQL statements promises, whatever the driver can do and    *)
(* however often a statement is tried: one warning for each try that        *)
(* failed, one debug entry for the one that succeeded if debug is on then,  *)
(* and nothing else.                                                        *)
(***************************************************************************)
EXTENDS Naturals, Sequences

CONSTANT Calls

VARIABLES debug,   \* is the debug level on
          state,   \* of a call: idle, running, done, failed, or cut: its rows failed
          failures,  \* of a call: its tries that the database answered with an error
          log

vars == <<debug, state, failures, log>>

Line(c, level) == [call |-> c, level |-> level]

Init ==
  /\ debug \in BOOLEAN
  /\ state = [c \in Calls |-> "idle"]
  /\ failures = [c \in Calls |-> 0]
  /\ log = <<>>

Begin(c) ==
  /\ state[c] = "idle"
  /\ state' = [state EXCEPT ![c] = "running"]
  /\ UNCHANGED <<debug, failures, log>>

Fail(c) ==
  /\ state[c] = "running"
  /\ \E s \in {"running", "failed"} : state' = [state EXCEPT ![c] = s]
  /\ failures' = [failures EXCEPT ![c] = @ + 1]
  /\ log' = Append(log, Line(c, "warn"))
  /\ UNCHANGED debug

Succeed(c) ==
  /\ state[c] = "running"
  /\ state' = [state EXCEPT ![c] = "done"]
  /\ log' = IF debug THEN Append(log, Line(c, "debug")) ELSE log
  /\ UNCHANGED <<debug, failures>>

Cut(c) ==
  /\ state[c] = "done"
  /\ state' = [state EXCEPT ![c] = "cut"]
  /\ UNCHANGED <<debug, failures, log>>

SetDebug ==
  /\ debug' = ~debug
  /\ UNCHANGED <<state, failures, log>>

Next == SetDebug \/ \E c \in Calls : Begin(c) \/ Fail(c) \/ Succeed(c) \/ Cut(c)

Spec == Init /\ [][Next]_vars

=============================================================================
