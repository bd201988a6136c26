-------------------------- MODULE StateStore_proofs --------------------------
(***************************************************************************)
(* Lemmas about the steps of StateStore, for any spec built from them:     *)
(* each keeps the types and the books of the store, and is a step of the   *)
(* register, or none.                                                      *)
(***************************************************************************)
EXTENDS StateStore, TLAPS

StoreInv == StoreTypeOK /\ StoreBooks

(* A step of the store by process p, for some payload. *)
StoreStep(p) ==
  \/ ReadFile(p) \/ Unreadable(p) \/ (\E doc \in Doc : OpenTemp(p, doc))
  \/ FillTemp(p) \/ Replace(p) \/ PutObject(p) \/ WriteFails(p) \/ Abandon(p)

(* The store starts out with its books in order. *)
LEMMA StoreInitInv == StoreInit => StoreInv
BY DEF StoreInit, StoreInv, StoreTypeOK, StoreBooks

(* Every step keeps the books: a filled temporary file has the whole payload. *)
LEMMA StoreStepInv ==
  ASSUME StoreInv, NEW p \in Proc, StoreStep(p) PROVE StoreInv'
<1> USE StoreAssumption DEF StoreInv, StoreTypeOK, StoreBooks
<1>1. CASE ReadFile(p) BY <1>1 DEF ReadFile
<1>2. CASE Unreadable(p) BY <1>2 DEF Unreadable
<1>3. CASE \E doc \in Doc : OpenTemp(p, doc) BY <1>3 DEF OpenTemp
<1>4. CASE FillTemp(p) BY <1>4 DEF FillTemp
<1>5. CASE Replace(p) BY <1>5 DEF Replace
<1>6. CASE PutObject(p) BY <1>6 DEF PutObject
<1>7. CASE WriteFails(p) BY <1>7 DEF WriteFails
<1>8. CASE Abandon(p) BY <1>8 DEF Abandon
<1>9. QED BY <1>1, <1>2, <1>3, <1>4, <1>5, <1>6, <1>7, <1>8 DEF StoreStep

(* A step that leaves the store alone keeps its books. *)
LEMMA StoreIdleInv == ASSUME StoreInv, UNCHANGED storeVars PROVE StoreInv'
BY DEF StoreInv, StoreTypeOK, StoreBooks, storeVars

(* The store starts out as a register. *)
LEMMA StoreInitRegister == StoreInit => Register!Init
BY DEF StoreInit, Register!Init

(* Every step is one of the register: the file changes in one go or not at all. *)
LEMMA StoreStepRegister ==
  ASSUME StoreInv, NEW p \in Proc, StoreStep(p) PROVE [Register!Next]_(Register!vars)
<1> USE StoreAssumption DEF StoreInv, StoreTypeOK, StoreBooks
<1>1. CASE ReadFile(p)
  <2>1. Register!Read(p) BY <1>1 DEF ReadFile, Register!Read
  <2>2. QED BY <2>1 DEF Register!Next
<1>2. CASE Unreadable(p)
  <2>1. Register!Read(p) BY <1>2 DEF Unreadable, Register!Read
  <2>2. QED BY <2>1 DEF Register!Next
<1>3. CASE \E doc \in Doc : OpenTemp(p, doc)
  <2>1. PICK doc \in Doc : OpenTemp(p, doc) BY <1>3
  <2>2. Register!Ask(p, doc) BY <2>1 DEF OpenTemp, Register!Ask
  <2>3. QED BY <2>2 DEF Register!Next
<1>4. CASE FillTemp(p)
  <2>1. UNCHANGED Register!vars BY <1>4 DEF FillTemp, Register!vars
  <2>2. QED BY <2>1
<1>5. CASE Replace(p)
  <2>1. Register!Commit(p) BY <1>5 DEF Replace, Register!Commit
  <2>2. QED BY <2>1 DEF Register!Next
<1>6. CASE PutObject(p)
  <2>1. Register!Commit(p) BY <1>6 DEF PutObject, Register!Commit
  <2>2. QED BY <2>1 DEF Register!Next
<1>7. CASE WriteFails(p)
  <2>1. Register!Drop(p) BY <1>7 DEF WriteFails, Register!Drop
  <2>2. QED BY <2>1 DEF Register!Next
<1>8. CASE Abandon(p)
  <2>1. Register!Drop(p) BY <1>8 DEF Abandon, Register!Drop
  <2>2. QED BY <2>1 DEF Register!Next
<1>9. QED BY <1>1, <1>2, <1>3, <1>4, <1>5, <1>6, <1>7, <1>8 DEF StoreStep

(* A step that leaves the store alone leaves the register alone. *)
LEMMA StoreIdleRegister ==
  ASSUME UNCHANGED storeVars PROVE [Register!Next]_(Register!vars)
BY DEF storeVars, Register!vars
=============================================================================
