------------------------- MODULE MC_SessionStores -------------------------
(***************************************************************************)
(* Instantiation of SessionStores for TLC: two accounts whose books are  *)
(* disjoint (account a1 may keep c1 and itself, a2 c2 and itself), so a   *)
(* contact of the other account in the list is a leak between sessions.   *)
(* Two storage providers, listed in that order: one at the address of     *)
(* a1's contact c1, so a contact and a provider share an address, and     *)
(* one without a name.  f1 is the faucet, neither contact nor provider.   *)
(***************************************************************************)
EXTENDS SessionStores, TLC

CONSTANTS a1, a2, c1, c2, s2, f1

MC_Providers == {[address |-> c1, name |-> "p"], [address |-> s2, name |-> ""]}
MC_ProviderList == <<[address |-> c1, name |-> "p"], [address |-> s2, name |-> ""]>>

MC_ContactsOf(a) == IF a = a1 THEN {a1, c1} ELSE {a2, c2}

====
