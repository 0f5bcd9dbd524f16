----------------------------- MODULE ContentType -----------------------------
(***************************************************************************)
(* How set_content_type_header finds the charset in a rule's value: the    *)
(* scan whose outcome is CharsetOf in HeadersOut.  Lengths are size_t.     *)
(*                                                                         *)
(* A value is a sequence of characters of which the code asks its class:   *)
(* a semicolon, a space, a quote, or another.  NAME stands for the eight   *)
(* characters of charset=, in any case, which the code compares at once.   *)
(* Positions count from 0 as in the code.                                  *)
(***************************************************************************)
EXTENDS Integers, Sequences

CONSTANTS
    TypeChar,       \* the characters
    Values,         \* the values rules evaluate to
    SEMICOLON, SPACE, QUOTE,
    NAME,           \* charset=
    OLD,            \* a charset set before
    NONE,
    TYPE_SIZE       \* size_t counts modulo TYPE_SIZE

ASSUME ValuesAssumption ==
    /\ TYPE_SIZE \in Nat \ {0}
    /\ \A v \in Values : v \in Seq(TypeChar) /\ Len(v) < TYPE_SIZE
ASSUME CharAssumption ==
    /\ NAME \notin {SEMICOLON, SPACE, QUOTE}
    /\ SPACE \notin {SEMICOLON, QUOTE} /\ SEMICOLON /= QUOTE

VARIABLES
    value, p,
    type_len,       \* content_type_len
    charset,        \* where it is in the value: position and length; or OLD, or NONE
    before,         \* ghost: the charset when the rule was begun
    pc              \* "idle", "scanning" or "done"

type_vars == <<value, p, type_len, charset, before, pc>>

end == Len(value)
At(pos) == value[pos + 1]

TypeInit ==
    /\ value = << >> /\ p = 0
    /\ type_len = 0
    /\ charset \in {OLD, NONE}
    /\ before = charset
    /\ pc = "idle"

BeginScan ==
    /\ pc = "idle"
    /\ value' \in Values
    /\ type_len' = Len(value')
    /\ p' = 0
    /\ pc' = "scanning"
    /\ UNCHANGED <<charset, before>>

Over ==
    /\ pc = "scanning"
    /\ p = end
    /\ pc' = "done"
    /\ UNCHANGED <<value, p, type_len, charset, before>>

Looking == pc = "scanning" /\ p /= end

Other ==
    /\ Looking
    /\ At(p) /= SEMICOLON
    /\ p' = p + 1
    /\ UNCHANGED <<value, type_len, charset, before, pc>>

\* Spaces are not looked for.
AfterSpaces_Next(pos) == pos + 1

\* The first position behind pos that has no space.
AfterSpaces(pos) ==
    CHOOSE q \in pos + 1 .. end :
        /\ \A r \in pos + 1 .. q - 1 : At(r) = SPACE
        /\ q = end \/ At(q) /= SPACE

Semicolon ==
    /\ Looking
    /\ At(p) = SEMICOLON

NothingBehind ==
    /\ Semicolon
    /\ AfterSpaces(p) = end
    /\ pc' = "done"
    /\ p' = end
    /\ UNCHANGED <<value, type_len, charset, before>>

\* Another parameter; its first character is not looked at again.
OtherParameter ==
    /\ Semicolon
    /\ AfterSpaces(p) /= end
    /\ At(AfterSpaces(p)) /= NAME
    /\ p' = AfterSpaces(p) + 1
    /\ UNCHANGED <<value, type_len, charset, before, pc>>

\* What follows is taken for a quote.
Opened_Always(pos) == pos + 1

Opened(pos) == IF pos < end /\ At(pos) = QUOTE THEN pos + 1 ELSE pos

Closed == IF At(end - 1) = QUOTE THEN end - 1 ELSE end

Charset ==
    /\ Semicolon
    /\ AfterSpaces(p) /= end
    /\ At(AfterSpaces(p)) = NAME
    /\ type_len' = p
    /\ LET from == Opened(AfterSpaces(p) + 1)
       IN  charset' = [from |-> from, len |-> (Closed - from) % TYPE_SIZE]
    /\ p' = end
    /\ pc' = "done"
    /\ UNCHANGED <<value, before>>

TypeNext == BeginScan \/ Over \/ Other \/ NothingBehind \/ OtherParameter \/ Charset

TypeSpec == TypeInit /\ [][TypeNext]_type_vars

-----------------------------------------------------------------------------
(* Properties. *)

Found == pc = "done" /\ charset /= before

\* The places of the parameters called charset.
IsSpace(from, to) == \A r \in from .. to : At(r) = SPACE
Parameters ==
    {q \in 0 .. end - 1 : At(q) = NAME /\ \E s \in 0 .. q - 1 : At(s) = SEMICOLON /\ IsSpace(s + 1, q - 1)}

\* The parameter is directly behind one that is empty, as in "t; ;charset=x".
BehindEmpty(q) ==
    \E s \in 0 .. q - 1 : \E s2 \in s + 1 .. q - 1 :
        At(s) = SEMICOLON /\ At(s2) = SEMICOLON /\ IsSpace(s + 1, s2 - 1) /\ IsSpace(s2 + 1, q - 1)

\* The charset is what is behind the first charset parameter, up to the value's end
\* and without a quote at either end; if there is none, the one before is kept.
\* Only a parameter behind an empty one may be passed over.  A value that ends in
\* charset=" has a length that wrapped around: see CharsetInValue.
CharsetExact ==
    pc = "done" =>
        \/ charset = before /\ type_len = end /\ \A q \in Parameters : BehindEmpty(q)
        \/ \E q \in Parameters :
              LET text    == SubSeq(value, q + 2, end)
                  open    == text /= << >> /\ text[1] = QUOTE
                  closed  == Len(text) > 1 /\ text[Len(text)] = QUOTE
                  quoted  == (IF open THEN 1 ELSE 0) + (IF closed THEN 1 ELSE 0)
              IN  /\ \A r \in Parameters : r < q => BehindEmpty(r)
                  /\ type_len < q /\ At(type_len) = SEMICOLON /\ IsSpace(type_len + 1, q - 1)
                  /\ charset.from = q + 1 + (IF open THEN 1 ELSE 0)
                  /\ charset.len = Len(text) - quoted \/ text = <<QUOTE>>

\* The charset is within the value, but for one that ends in charset=", where the
\* same quote opens and closes.
CharsetInValue ==
    Found => \/ charset.from + charset.len <= end
             \/ At(end - 2) = NAME /\ At(end - 1) = QUOTE
=============================================================================
