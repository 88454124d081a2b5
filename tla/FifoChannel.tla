---------------------------- MODULE FifoChannel ----------------------------
(***************************************************************************)
(* What every queue goroutine of the framework promises to the goroutines  *)
(* on its two ends: an unbounded first-in first-out channel which keeps    *)
(* accepting while its input is open, hands over what it accepted in that  *)
(* order, and closes its output                                            *)
(*   - when its input has ended and everything accepted was handed over, or*)
(*   - after somebody gave it leave to drop the rest.                      *)
(* AsyncBuff (asocket.go, asyncBuff) and RequestStream (handler.go, loop)  *)
(* are shown to implement it.                                              *)
(***************************************************************************)
EXTENDS Naturals, Sequences

CONSTANT Msg    \* the messages

VARIABLES
    sent,       \* what the channel accepted, in order
    got,        \* what it handed over, in order
    status,     \* "open", "ended" (no more input), "closed" (no more output)
    mayDrop     \* leave was given to close with messages still inside

vars == <<sent, got, status, mayDrop>>

TypeOK ==
    /\ sent \in Seq(Msg)
    /\ got \in Seq(Msg)
    /\ status \in {"open", "ended", "closed"}
    /\ mayDrop \in BOOLEAN

Init ==
    /\ sent = <<>>
    /\ got = <<>>
    /\ status = "open"
    /\ mayDrop = FALSE

Put(m) ==
    /\ status = "open"
    /\ sent' = Append(sent, m)
    /\ UNCHANGED <<got, status, mayDrop>>

Take ==
    /\ status # "closed"
    /\ Len(got) < Len(sent)
    /\ got' = Append(got, sent[Len(got) + 1])
    /\ UNCHANGED <<sent, status, mayDrop>>

EndInput ==
    /\ status = "open"
    /\ status' = "ended"
    /\ UNCHANGED <<sent, got, mayDrop>>

AllowDrop ==
    /\ ~mayDrop
    /\ mayDrop' = TRUE
    /\ UNCHANGED <<sent, got, status>>

Close ==
    /\ \/ status = "ended" /\ got = sent
       \/ status # "closed" /\ mayDrop
    /\ status' = "closed"
    /\ UNCHANGED <<sent, got, mayDrop>>

Next == (\E m \in Msg : Put(m)) \/ Take \/ EndInput \/ AllowDrop \/ Close

Spec == Init /\ [][Next]_vars

(***************************************************************************)
(* What is handed over is what was accepted, from the first on, in order,  *)
(* with nothing skipped, repeated or invented.                             *)
(***************************************************************************)
InOrder ==
    /\ Len(got) <= Len(sent)
    /\ \A i \in 1..Len(got) : got[i] = sent[i]

(***************************************************************************)
(* The output closes with messages left inside only by leave.              *)
(***************************************************************************)
NoSilentLoss == status = "closed" /\ ~mayDrop => got = sent
=============================================================================
