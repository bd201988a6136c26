--------------------------- MODULE AtomicRegister ---------------------------
(***************************************************************************)
(* What storage.py promises about a document: whoever reads it gets the    *)
(* whole of what one write left there, or of what was there before; a      *)
(* write that fails or dies leaves it alone.                               *)
(***************************************************************************)
CONSTANTS
  Proc,   \* who reads and writes
  Doc,    \* whole documents
  NoDoc   \* none

VARIABLES
  value,   \* the document
  asked,   \* the document each process is writing, or NoDoc
  seen     \* what each process read last

vars == <<value, asked, seen>>

Init ==
  /\ value \in Doc \cup {NoDoc}
  /\ asked = [p \in Proc |-> NoDoc]
  /\ seen = [p \in Proc |-> NoDoc]

(* A read that fails gives nothing. *)
Read(p) ==
  /\ seen' \in {[seen EXCEPT ![p] = value], [seen EXCEPT ![p] = NoDoc]}
  /\ UNCHANGED <<value, asked>>

Ask(p, doc) ==
  /\ asked[p] = NoDoc
  /\ asked' = [asked EXCEPT ![p] = doc]
  /\ UNCHANGED <<value, seen>>

Commit(p) ==
  /\ asked[p] # NoDoc
  /\ value' = asked[p]
  /\ asked' = [asked EXCEPT ![p] = NoDoc]
  /\ UNCHANGED seen

(* The write has failed, or its process is gone. *)
Drop(p) ==
  /\ asked' = [asked EXCEPT ![p] = NoDoc]
  /\ seen' \in {seen, [seen EXCEPT ![p] = NoDoc]}
  /\ UNCHANGED value

Next == \E p \in Proc : Read(p) \/ (\E doc \in Doc : Ask(p, doc)) \/ Commit(p) \/ Drop(p)

Spec == Init /\ [][Next]_vars
=============================================================================
