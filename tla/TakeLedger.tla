------------------------------ MODULE TakeLedger ------------------------------
(***************************************************************************)
(* What dictation promises about the user's words, without saying how.  A  *)
(* take is opened, and closed with words owed or thrown away; words owed   *)
(* are settled exactly once: pasted, returned to the caller, left on the   *)
(* clipboard, saved for recovery, or reported as empty or failed.  They    *)
(* are never just gone, and they do not stay owed for ever.                *)
(***************************************************************************)
EXTENDS Naturals, Sequences

CONSTANT MaxTakes   \* bound: takes whose settling is promised in the end

VARIABLE ledger     \* the state of take 1, 2, ...

Open == ledger' = Append(ledger, "capturing")

Close(t) ==
  /\ ledger[t] = "capturing"
  /\ \E s \in {"captured", "discarded"} : ledger' = [ledger EXCEPT ![t] = s]

Settle(t) ==
  /\ ledger[t] = "captured"
  /\ ledger' = [ledger EXCEPT ![t] = "settled"]

Init == ledger = <<>>
Next == Open \/ \E t \in DOMAIN ledger : Close(t) \/ Settle(t)

Owed(t) == t \in DOMAIN ledger /\ ledger[t] \in {"capturing", "captured"}

Spec ==
  /\ Init /\ [][Next]_ledger
  /\ \A t \in 1..MaxTakes : WF_ledger(t \in DOMAIN ledger /\ (Close(t) \/ Settle(t)))

(* Every take that is opened is eventually closed and settled.              *)
EventuallySettled == \A t \in 1..MaxTakes : Owed(t) ~> ~Owed(t)
=============================================================================
