----------------------------- MODULE FileSigners -----------------------------
(***************************************************************************)
(* The signature and access getters of                                    *)
(* src/ui/dapp/src/store_go/modules/file.js as pure operators over one    *)
(* file record as handleFileInfo stores it.  A contact is a record        *)
(* [address, name]; a list field the authority sends as null is NoList.   *)
(* A text is the sequence of the strings concatenated into it, the empty  *)
(* string left out, so that a text is empty exactly when it is << >>.     *)
(***************************************************************************)
EXTENDS Integers, Sequences, SequencesExt

CONSTANTS
  NoList,         \* a null list field of the record
  MyAccountName,  \* getters.myself.name, the translated 'My Account'
  SignerAddrs,    \* addresses of the contacts in the records checked
  SignerNames,    \* names the authority sends for a defined signer
  Me,             \* getters.myself.address
  MaxSigners      \* bound on the length of each list of a record

ASSUME NoList \notin Seq({}) /\ MyAccountName # "" /\ Me \in SignerAddrs
ASSUME "" \in SignerNames /\ MaxSigners \in Nat

Addresses(l) == IF l = NoList THEN {} ELSE {l[k].address : k \in DOMAIN l}

(* The test both loops make: the defined signer ds is missing from        *)
(* file.signers (null, undefined or without its address).                 *)
NotSigned(file, ds) == ds.address \notin Addresses(file.signers)

(* Mutant: the two branches of the loop swapped.                          *)
signersList_Swapped(file) ==
  IF file.definedSigners = NoList THEN << >>
  ELSE [k \in DOMAIN file.definedSigners |->
          [signer |-> file.definedSigners[k],
           signed |-> NotSigned(file, file.definedSigners[k])]]

signersList(file) ==
  IF file.definedSigners = NoList THEN << >>
  ELSE [k \in DOMAIN file.definedSigners |->
          [signer |-> file.definedSigners[k],
           signed |-> ~NotSigned(file, file.definedSigners[k])]]

Cat(text, str) == IF str = "" THEN text ELSE Append(text, str)

(* One step of the loop of missingSignersInfo: the first missing signer   *)
(* adds its name (its address if the name is empty, My Account for the    *)
(* own account); a later one adds ', ' + ds.name, whose || ds.address     *)
(* never applies, or the own account's name with no separator.            *)
AddMissing(text, ds, me) ==
  CASE ds.address = me -> Cat(text, MyAccountName)
    [] text = << >>    -> Cat(text, IF ds.name = "" THEN ds.address ELSE ds.name)
    [] OTHER           -> Cat(Cat(text, ", "), ds.name)

missingSignersInfo(file, me) ==
  IF file.definedSigners = NoList THEN << >>
  ELSE FoldLeft(LAMBDA text, ds : AddMissing(text, ds, me), << >>,
                SelectSeq(file.definedSigners, LAMBDA ds : NotSigned(file, ds)))

readAccessList(file) ==
  IF file.readAccess = NoList THEN << >>
  ELSE [k \in DOMAIN file.readAccess |->
          [name |-> file.readAccess[k].name, address |-> file.readAccess[k].address]]

isUndefinedSigner(file, address) ==
  address \in Addresses(file.sentSignRequestsFileUndefinedSigners)
isDefinedSigner(file, address) == address \in Addresses(file.definedSigners)

readAccessButNoSignatureRequestList(file) ==
  SelectSeq(readAccessList(file),
            LAMBDA c : ~isUndefinedSigner(file, c.address) /\ ~isDefinedSigner(file, c.address))

-----------------------------------------------------------------------------
(* The records checked: every list of distinct addresses up to MaxSigners *)
(* long, or null, for each list field; defined signers carry a name,      *)
(* possibly empty.                                                        *)
AddrSeqs == UNION {SetToSeqs(T) : T \in {U \in SUBSET SignerAddrs : Cardinality(U) <= MaxSigners}}
Unnamed == {[k \in DOMAIN s |-> [address |-> s[k], name |-> ""]] : s \in AddrSeqs} \cup {NoList}
Named == UNION {{[k \in DOMAIN s |-> [address |-> s[k], name |-> nm[k]]] :
                   nm \in [DOMAIN s -> SignerNames]} : s \in AddrSeqs} \cup {NoList}

(* spec.md 4.2: signersList marks as unsigned exactly the defined signers *)
(* missing from file.signers, in definedSigners order, and the            *)
(* missing-signers text missingSignersInfo builds by its own loop is      *)
(* empty exactly when that list shows every defined signer signed, for    *)
(* null lists, empty names and the own account among the signers.  The   *)
(* contacts readAccessButNoSignatureRequestList offers are those with     *)
(* read access that are neither defined signers nor already asked.        *)
(* It is over constants only: TLC evaluates the ASSUME below when it      *)
(* starts any run that instantiates this module.                          *)
SignaturePanelAgrees ==
     /\ \A d \in Named, s \in Unnamed :
          LET f  == [definedSigners |-> d, signers |-> s]
              sl == signersList(f)
          IN  /\ Len(sl) = (IF d = NoList THEN 0 ELSE Len(d))
              /\ \A k \in DOMAIN sl : sl[k].signer = d[k] /\ (sl[k].signed <=> d[k].address \in Addresses(s))
              /\ (missingSignersInfo(f, Me) = << >> <=> \A k \in DOMAIN sl : sl[k].signed)
     /\ \A d \in Unnamed, r \in Named, u \in Unnamed :
          LET f == [definedSigners |-> d, readAccess |-> r, sentSignRequestsFileUndefinedSigners |-> u]
              l == readAccessButNoSignatureRequestList(f)
          IN  /\ Addresses(l) = Addresses(r) \ (Addresses(d) \cup Addresses(u))
              /\ \A k \in DOMAIN l : \E j \in DOMAIN r : l[k] = r[j]

ASSUME SignaturePanelAgrees

====
