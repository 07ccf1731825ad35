----------------------------- MODULE AddressOps -----------------------------
(***************************************************************************)
(* The address-book mutations and the 'addresses' getter of               *)
(* src/ui/dapp/src/store_go/modules/address.js as pure operators.  A       *)
(* contact is a record [address, name]; NoName stands for an undefined     *)
(* name.  pgpPublicKey is carried through unchanged and left out.          *)
(***************************************************************************)
EXTENDS Integers, Sequences, SequencesExt

CONSTANTS NoName, MyAccountName  \* the translated 'My Account' label

WithAddress(addr, a) == a.address = addr

(* ADD_ADDRESS: unshift the contact, without looking its address up.      *)
ADD_ADDRESS(addrs, c) == <<[address |-> c.address, name |-> c.name]>> \o addrs

(* SET_ADDRESSES: the forEach moves every entry of myself to the front    *)
(* (splice it out, unshift it) and the result becomes the list.  A        *)
(* moved entry shifts the ones before it by one, so the iteration meets   *)
(* each later entry once; for a single self entry the result is the self  *)
(* entry followed by the others in order.                                 *)
RECURSIVE MoveMyselfFirst(_, _, _)
MoveMyselfFirst(addrs, myself, i) ==
  IF i > Len(addrs) THEN addrs
  ELSE IF addrs[i].address = myself
         THEN MoveMyselfFirst(<<addrs[i]>> \o RemoveAt(addrs, i), myself, i + 1)
         ELSE MoveMyselfFirst(addrs, myself, i + 1)

SET_ADDRESSES(addresses, myself) == MoveMyselfFirst(addresses, myself, 1)

(* REMOVE_ADDRESS: splice out the first entry with that address.          *)
REMOVE_ADDRESS(addrs, addr) ==
  LET k == SelectInSeq(addrs, LAMBDA a : WithAddress(addr, a))
  IN  IF k # 0 THEN RemoveAt(addrs, k) ELSE addrs

(* UPDATE_ADDRESS looks the address string up with indexOf in an array of *)
(* contact objects; the index is always -1 and the list is left as it is. *)
UPDATE_ADDRESS(addrs, addr, name) == addrs

(* UPDATE_ADDRESS_NAME: rename the first entry with that address; for an  *)
(* unknown address Vue.set is called on undefined and throws, which       *)
(* leaves the list unchanged.                                             *)
UPDATE_ADDRESS_NAME(addrs, addr, name) ==
  LET k == SelectInSeq(addrs, LAMBDA a : WithAddress(addr, a))
  IN  IF k # 0 THEN [addrs EXCEPT ![k].name = name] ELSE addrs

-----------------------------------------------------------------------------
(* The 'addresses' getter: the entry of myself is shown with the 'My     *)
(* Account' label, an entry without a name with its address; the sort     *)
(* comparator puts a before b when a is myself (-1), after it when b is   *)
(* myself (1), and otherwise returns undefined, i.e. keeps the order.     *)
isMyself(a, myself) == a.address = myself

DisplayEntry(a, myself) ==
  CASE isMyself(a, myself)        -> [a EXCEPT !.name = MyAccountName]
    [] a.name \in {"", NoName}    -> [a EXCEPT !.name = a.address]
    [] OTHER                      -> a

(* Mutant: the signs of the comparator are swapped.                       *)
SelfComparator_Swapped(a, b, myself) ==
  CASE isMyself(a, myself) -> 1
    [] isMyself(b, myself) -> -1
    [] OTHER               -> 0

SelfComparator(a, b, myself) ==
  CASE isMyself(a, myself) -> -1
    [] isMyself(b, myself) -> 1
    [] OTHER               -> 0

(* A stable sort with that comparator: each entry goes before the first   *)
(* sorted entry it compares below, else to the end.                       *)
RECURSIVE InsertBySelf(_, _, _)
InsertBySelf(x, s, myself) ==
  IF s = << >> THEN <<x>>
  ELSE IF SelfComparator(x, Head(s), myself) < 0 THEN <<x>> \o s
  ELSE <<Head(s)>> \o InsertBySelf(x, Tail(s), myself)

addressesView(addrs, myself) ==
  FoldLeft(LAMBDA acc, a : InsertBySelf(DisplayEntry(a, myself), acc, myself),
           << >>, addrs)

====
