----------------------------- MODULE MC_Session -----------------------------
(* Two accounts; the authority starts with a keystore for account a1     *)
(* only, so that a create or an import can add a2, or with a keystore for *)
(* both.                                                                  *)
EXTENDS Session, TLC

CONSTANTS a1, a2

MC_InitialKeystore == (a1 :> "x") @@ (a2 :> Gone)
MC_BothKeystores == [a \in {a1, a2} |-> "x"]

====
