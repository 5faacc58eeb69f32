--------------------------- MODULE AppletSession ---------------------------
(***************************************************************************)
(* What the AM service relies on in a library applet that works on a       *)
(* device: the session the applet goes through, as seen from outside.      *)
(* The applet acquires the device and may change the tag through it.  It   *)
(* ends in this order: the device is released, the transaction becomes     *)
(* complete, a result is left with the broker, the state change is         *)
(* signalled.  A complete applet does not acquire the device again.        *)
(***************************************************************************)
EXTENDS Naturals, Sequences

CONSTANT Results    \* the values of a result

VARIABLES
    held,       \* the applet holds the device
    complete,   \* TransactionComplete
    results,    \* the data pushed to the broker
    signals,    \* the state changes signalled
    written     \* the tag was changed

vars == <<held, complete, results, signals, written>>

Init ==
    /\ held = FALSE
    /\ complete = FALSE
    /\ results = <<>>
    /\ signals = 0
    /\ written = FALSE

Acquire ==
    /\ ~complete
    /\ ~held
    /\ held' = TRUE
    /\ UNCHANGED <<complete, results, signals, written>>

Apply ==
    /\ held
    /\ written' = TRUE
    /\ UNCHANGED <<held, complete, results, signals>>

Release ==
    /\ held' = FALSE
    /\ UNCHANGED <<complete, results, signals, written>>

Complete ==
    /\ ~held
    /\ complete' = TRUE
    /\ UNCHANGED <<held, results, signals, written>>

Push(result) ==
    /\ complete
    /\ results' = Append(results, result)
    /\ UNCHANGED <<held, complete, signals, written>>

Signal ==
    /\ signals < Len(results)
    /\ signals' = signals + 1
    /\ UNCHANGED <<held, complete, results, written>>

Next ==
    \/ Acquire \/ Apply \/ Release \/ Complete \/ Signal
    \/ \E result \in Results : Push(result)

Spec == Init /\ [][Next]_vars
=============================================================================
