------------------------------ MODULE HeaderSeq ------------------------------
(***************************************************************************)
(* What a header list promises to the code that uses it: a sequence of     *)
(* header slots.  A push hands out a slot that holds no header and puts it *)
(* at the end; a removal takes one header out and leaves all the others,   *)
(* in their order and in their slots (nginx keeps pointers to the slots,   *)
(* so a header may never move).                                            *)
(***************************************************************************)
EXTENDS Naturals, Sequences, SequencesExt

CONSTANT Slots      \* the memory the pool may hand out

VARIABLE headers

Init == headers = << >>

Push == \E s \in Slots \ Range(headers) : headers' = Append(headers, s)

Rm == \E p \in DOMAIN headers : headers' = RemoveAt(headers, p)

Next == Push \/ Rm

Spec == Init /\ [][Next]_headers
=============================================================================
