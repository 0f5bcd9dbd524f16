--------------------------- MODULE HeadersInProofs ---------------------------
(***************************************************************************)
(* The rules change the request's list of headers only in ways that        *)
(* NgxList allows, for any rules and any headers.  So whatever NgxList's   *)
(* list keeps up, this one does.  And every rule that comes to its end has *)
(* had its documented effect: on the headers, on the pointers to them, on  *)
(* the chains and on the fields computed from values.                      *)
(*                                                                         *)
(* The argument for the effect: through all the rounds of the helper's     *)
(* loop, the effect that the rule is still to have on the list as it is    *)
(* now is the effect that it was to have when it was begun.                *)
(***************************************************************************)
EXTENDS HeadersIn, NgxListProofs

\* The position of the loop is in the list, at most one element behind a part.
Cursor == pc = "scan" => part \in 1 .. Len(l.parts) /\ i \in 0 .. l.parts[part].nelts

\* The list is well formed, and the loop is in it.
HInv == IInv /\ Cursor

-----------------------------------------------------------------------------
(* The loop's position. *)

\* The facts about the list that the loop relies on.
LEMMA ListFacts ==
    ASSUME IInv
    PROVE  /\ Len(l.parts) \in Nat /\ Len(l.parts) >= 1
           /\ DOMAIN l.parts = 1 .. Len(l.parts)
           /\ \A n \in 1 .. Len(l.parts) : l.parts[n].nelts \in Nat
           /\ Len(l.parts) > 1 => \A n \in 1 .. Len(l.parts) : l.parts[n].nelts > 0
<1>1. Typed(l) /\ NoEmptyPart(l) /\ Len(l.parts) >= 1
  BY WFFacts DEF IInv
<1>2. QED BY <1>1 DEF Typed, TypedPart, NoEmptyPart

\* Where the loop looks there is a header.
LEMMA LooksAtHeader ==
    ASSUME HInv, Looking
    PROVE  /\ HerePart \in 1 .. Len(l.parts)
           /\ Here \in 0 .. l.parts[HerePart].nelts - 1
<1>1. /\ part \in 1 .. Len(l.parts) /\ i \in 0 .. l.parts[part].nelts
      /\ ~(PartOver /\ part = Len(l.parts))
  BY DEF HInv, Cursor, Looking, AtEnd
<1>2. l.parts[part].nelts \in Nat
  BY <1>1, ListFacts DEF HInv
<1>3. CASE PartOver
  <2>1. part < Len(l.parts) /\ part + 1 \in 1 .. Len(l.parts) /\ Len(l.parts) > 1
    BY <1>1, <1>3, ListFacts DEF HInv
  <2>2. l.parts[part + 1].nelts > 0 /\ l.parts[part + 1].nelts \in Nat
    BY <2>1, ListFacts DEF HInv
  <2>3. HerePart = part + 1 /\ Here = 0
    BY <1>3 DEF HerePart, Here
  <2>4. QED BY <2>1, <2>2, <2>3
<1>4. CASE ~PartOver
  <2>1. HerePart = part /\ Here = i
    BY <1>4 DEF HerePart, Here
  <2>2. i < l.parts[part].nelts
    BY <1>1, <1>2, <1>4 DEF PartOver, Nelts
  <2>3. QED BY <1>1, <1>2, <2>1, <2>2
<1>5. QED BY <1>3, <1>4

\* A turn that goes on leaves the position in the list.
LEMMA GoOnCursor ==
    ASSUME HInv, Looking, GoOn, l' = l
    PROVE  Cursor'
<1>1. /\ HerePart \in 1 .. Len(l.parts)
      /\ Here \in 0 .. l.parts[HerePart].nelts - 1
  BY LooksAtHeader
<1>2. l.parts[HerePart].nelts \in Nat
  BY <1>1, ListFacts DEF HInv
<1>3. Here + 1 \in 0 .. l.parts[HerePart].nelts
  BY <1>1, <1>2
<1>4. QED BY <1>1, <1>3 DEF GoOn, Cursor

\* The first element of a list is where every scan begins.
LEMMA FirstCursor ==
    ASSUME IInv', part' = 1, i' = 0
    PROVE  Cursor'
<1>1. Len(l.parts)' \in Nat /\ Len(l.parts)' >= 1 /\ l'.parts[1].nelts \in Nat
  <2>1. Typed(l') /\ Len(l'.parts) >= 1
    BY WFFacts DEF IInv
  <2>2. QED BY <2>1 DEF Typed, TypedPart
<1>2. QED BY <1>1 DEF Cursor

-----------------------------------------------------------------------------
(* Every step is one of the list's, or leaves the list alone.               *)

\* nginx's and the helper's pushes are pushes.
LEMMA PushIsStep == ASSUME NEW key, NEW value, PushHeader(key, value) PROVE Next
BY DEF PushHeader, Next

\* The helper's removals are removals of a header that is in the list.
LEMMA RemovalIsStep == ASSUME HInv, RemoveHeader PROVE Next
<1>1. Looking /\ (Rm(HerePart, Here) \/ RmGrow(HerePart, Here))
  BY DEF RemoveHeader, BeginRemoval
<1>2. /\ HerePart \in DOMAIN l.parts
      /\ Here \in 0 .. l.parts[HerePart].nelts - 1
  BY <1>1, LooksAtHeader, ListFacts DEF HInv
<1>3. QED BY <1>1, <1>2 DEF Next, RmAny

\* A handler that is called begins a scan at the list's first element.
LEMMA BeginCursor ==
    ASSUME HInv, NEW rule, NEW output, CallHelper(rule, output), UNCHANGED vars
    PROVE  HInv'
<1>1. IInv'
  BY DEF HInv, IInv, vars
<1>2. QED BY <1>1, FirstCursor DEF CallHelper, HInv

\* The handlers.
LEMMA BeginRuleStep ==
    ASSUME HInv, BeginRule
    PROVE  UNCHANGED vars /\ HInv'
<1>1. PICK rule \in Rules :
          \/ SetHeader(rule) \/ RefuseValue(rule)
          \/ SetAbsentBuiltin(rule) \/ KeepBuiltin(rule)
          \/ ClearBuiltin(rule) \/ ReplaceBuiltin(rule)
          \/ SetMulti(rule) \/ SkipMulti(rule)
  BY DEF BeginRule
<1>2. UNCHANGED vars
  BY <1>1 DEF SetHeader, RefuseValue, SetAbsentBuiltin, KeepBuiltin, ClearBuiltin,
     ReplaceBuiltin, SetMulti, SkipMulti, BeginBuiltin
<1>3. CASE \E output : CallHelper(rule, output)
  BY <1>2, <1>3, BeginCursor
<1>4. CASE pc' \in {"idle", "error"}
  BY <1>2, <1>4 DEF HInv, IInv, Cursor, vars
<1>5. QED
  BY <1>1, <1>3, <1>4 DEF SetHeader, RefuseValue, SetAbsentBuiltin, KeepBuiltin,
     ClearBuiltin, ReplaceBuiltin, SetMulti, SkipMulti, ReturnAtOnce

\* The turns of the loop.
LEMMA LoopStep ==
    ASSUME HInv, Loop
    PROVE  [Next]_vars /\ HInv'
<1>1. CASE Miss
  <2>1. UNCHANGED vars /\ Looking /\ GoOn
    BY <1>1 DEF Miss
  <2>2. IInv'
    BY <2>1 DEF HInv, IInv, vars
  <2>3. QED BY <2>1, <2>2, GoOnCursor DEF HInv, vars
<1>2. CASE TakeValue
  <2>1. UNCHANGED vars /\ Looking /\ GoOn
    BY <1>2 DEF TakeValue
  <2>2. IInv'
    BY <2>1 DEF HInv, IInv, vars
  <2>3. QED BY <2>1, <2>2, GoOnCursor DEF HInv, vars
<1>3. CASE RemoveHeader
  <2>1. Next
    BY <1>3, RemovalIsStep
  <2>2. IInv'
    BY <2>1, NextIInv DEF HInv
  <2>3. part' = 1 /\ i' = 0
    BY <1>3 DEF RemoveHeader
  <2>4. QED BY <2>1, <2>2, <2>3, FirstCursor DEF HInv
<1>4. CASE AddNothing \/ RemovalFails \/ Found \/ NotFound
  <2>1. UNCHANGED vars /\ pc' /= "scan"
    BY <1>4 DEF AddNothing, RemovalFails, Found, NotFound, Return
  <2>2. QED BY <2>1 DEF HInv, IInv, Cursor, vars
<1>5. QED BY <1>1, <1>2, <1>3, <1>4 DEF Loop

\* Reading the request and creating a header.
LEMMA PushStep ==
    ASSUME HInv, NEW key, NEW value, PushHeader(key, value), pc' /= "scan"
    PROVE  [Next]_vars /\ HInv'
<1>1. Next
  BY PushIsStep
<1>2. IInv'
  BY <1>1, NextIInv DEF HInv
<1>3. QED BY <1>1, <1>2 DEF HInv, Cursor

\* Every step of the rules.
LEMMA HeadersStep ==
    ASSUME HInv, [HeadersNext]_headers_vars
    PROVE  [Next]_vars /\ HInv'
<1>1. ASSUME NEW key \in Names, NEW value \in Received, Receive(key, value)
      PROVE  [Next]_vars /\ HInv'
  <2>1. PushHeader(key, value) /\ pc' /= "scan"
    BY <1>1 DEF Receive
  <2>2. QED BY <2>1, PushStep
<1>2. CASE Create \/ LowcaseFails
  <2>1. PushHeader(call.key, call.value) /\ pc' /= "scan"
    BY <1>2 DEF Create, LowcaseFails, Return
  <2>2. QED BY <2>1, PushStep
<1>3. CASE AllReceived \/ CreateNowhere \/ PushFails \/ Link
  <2>1. UNCHANGED vars /\ pc' /= "scan"
    BY <1>3 DEF AllReceived, CreateNowhere, PushFails, Link, Return
  <2>2. QED BY <2>1 DEF HInv, IInv, Cursor, vars
<1>4. CASE UNCHANGED headers_vars
  BY <1>4 DEF headers_vars, local_vars, HInv, IInv, Cursor, vars
<1>5. QED
  BY <1>1, <1>2, <1>3, <1>4, BeginRuleStep, LoopStep DEF HeadersNext, Helper

-----------------------------------------------------------------------------
(* Types. *)

\* The values of headers.
AnyValue == Received \cup Values \cup {EMPTY}
\* A header in its slot.
Cell == [key : Keys \cup {NULL}, value : AnyValue, hash : BOOLEAN]

\* The types of the headers and of r->headers_in.
FieldTypes ==
    /\ cell \in [Slots -> Cell]
    /\ malformed \in BOOLEAN /\ keepalive \in BOOLEAN
    /\ ptr \in [Single -> Nat \cup {NULL}]
    /\ chain \in [Multi -> Seq(Nat \cup {NULL, UNSET})]
    /\ derived \in [Derived -> AnyValue]

\* The types of the handlers' variables.  There is a rule where one is carried out.
LocalTypes ==
    /\ pc \in {"receiving", "idle", "scan", "create", "link", "error"}
    /\ call \in Rules \cup {NULL}
    /\ pc \in {"scan", "create", "link"} => call \in Rules
    /\ out \in {NULL, "ptr", "local"}
    /\ part \in Nat \ {0} /\ i \in Nat
    /\ matched \in Nat \cup {NULL}
    /\ h \in Nat \cup {NULL, UNSET}
    /\ count \in Nat

\* The types of all that is not the list's own.
Types == FieldTypes /\ LocalTypes

\* What a rule is made of.
LEMMA RuleTypes ==
    ASSUME NEW rule \in Rules PROVE rule.key \in Keys /\ rule.value \in AnyValue
  BY DEF Rules, AnyValue

\* Writing one header of the list.
LEMMA CellTypes ==
    ASSUME cell \in [Slots -> Cell], NEW s
    PROVE  /\ \A key \in Keys, value \in AnyValue, hash \in BOOLEAN :
                 [cell EXCEPT ![s] = [key |-> key, value |-> value, hash |-> hash]]
                    \in [Slots -> Cell]
           /\ \A value \in AnyValue : [cell EXCEPT ![s].value = value] \in [Slots -> Cell]
           /\ \A hash \in BOOLEAN : [cell EXCEPT ![s].hash = hash] \in [Slots -> Cell]
           /\ \A value \in AnyValue, hash \in BOOLEAN :
                 [cell EXCEPT ![s].hash = hash, ![s].value = value] \in [Slots -> Cell]
<1>1. s \in Slots => cell[s] \in Cell
  OBVIOUS
<1>2. /\ \A c \in Cell, value \in AnyValue : [c EXCEPT !.value = value] \in Cell
      /\ \A c \in Cell, hash \in BOOLEAN : [c EXCEPT !.hash = hash] \in Cell
  BY DEF Cell
<1>3. \A key \in Keys, value \in AnyValue, hash \in BOOLEAN :
         [key |-> key, value |-> value, hash |-> hash] \in Cell
  BY DEF Cell
<1> HIDE DEF Cell
<1>4. \A c : (s \in Slots => c \in Cell) => [cell EXCEPT ![s] = c] \in [Slots -> Cell]
  OBVIOUS
<1>5. ASSUME NEW key \in Keys, NEW value \in AnyValue, NEW hash \in BOOLEAN
      PROVE  [cell EXCEPT ![s] = [key |-> key, value |-> value, hash |-> hash]] \in [Slots -> Cell]
  BY <1>3, <1>4
<1>6. ASSUME NEW value \in AnyValue PROVE [cell EXCEPT ![s].value = value] \in [Slots -> Cell]
  <2>1. [cell EXCEPT ![s] = [cell[s] EXCEPT !.value = value]] \in [Slots -> Cell]
    BY <1>1, <1>2, <1>4
  <2> QED BY <2>1
<1>7. ASSUME NEW hash \in BOOLEAN PROVE [cell EXCEPT ![s].hash = hash] \in [Slots -> Cell]
  <2>1. [cell EXCEPT ![s] = [cell[s] EXCEPT !.hash = hash]] \in [Slots -> Cell]
    BY <1>1, <1>2, <1>4
  <2> QED BY <2>1
<1>8. ASSUME NEW value \in AnyValue, NEW hash \in BOOLEAN
      PROVE  [cell EXCEPT ![s].hash = hash, ![s].value = value] \in [Slots -> Cell]
  <2>1. PICK f \in [Slots -> Cell] : f = [cell EXCEPT ![s].hash = hash]
    BY <1>7
  <2>2. s \in Slots => f[s] \in Cell
    OBVIOUS
  <2>3. [f EXCEPT ![s] = [f[s] EXCEPT !.value = value]] \in [Slots -> Cell]
    BY <1>2, <2>2
  <2>4. [cell EXCEPT ![s].hash = hash, ![s].value = value]
           = [f EXCEPT ![s] = [f[s] EXCEPT !.value = value]]
    BY <2>1
  <2> QED BY <2>3, <2>4
<1> QED BY <1>5, <1>6, <1>7, <1>8

\* Where the loop looks is a slot, and so is what is pushed.
LEMMA SlotTypes ==
    ASSUME HInv
    PROVE  /\ PushSlot(l, brk) \in Nat
           /\ Looking => HereSlot \in Nat /\ HerePart \in Nat \ {0} /\ Here \in Nat
<1>1. Typed(l) /\ brk \in Nat /\ LastIndex(l) = Len(l.parts) /\ Len(l.parts) >= 1
  BY WFFacts DEF HInv, IInv
<1>2. PushSlot(l, brk) \in Nat
  <2>1. Len(l.parts) \in 1 .. Len(l.parts)
    BY <1>1 DEF Typed
  <2> QED BY <1>1, <2>1 DEF PushSlot, Typed, TypedPart
<1>3. ASSUME Looking PROVE HereSlot \in Nat /\ HerePart \in Nat \ {0} /\ Here \in Nat
  <2>1. HerePart \in 1 .. Len(l.parts) /\ Here \in 0 .. l.parts[HerePart].nelts - 1
    BY <1>3, LooksAtHeader
  <2>2. l.parts[HerePart].elts \in Nat /\ l.parts[HerePart].nelts \in Nat
    BY <1>1, <2>1 DEF Typed, TypedPart
  <2> QED BY <1>1, <2>1, <2>2 DEF HereSlot, Typed
<1> QED BY <1>2, <1>3

\* The handlers.
LEMMA BeginTypes ==
    ASSUME Types, BeginRule PROVE Types'
<1>1. PICK rule \in Rules :
          \/ SetHeader(rule) \/ RefuseValue(rule)
          \/ SetAbsentBuiltin(rule) \/ KeepBuiltin(rule)
          \/ ClearBuiltin(rule) \/ ReplaceBuiltin(rule)
          \/ SetMulti(rule) \/ SkipMulti(rule)
  BY DEF BeginRule
<1>2. rule.key \in Keys /\ rule.value \in AnyValue /\ EMPTY \in AnyValue
  BY RuleTypes DEF AnyValue
<1> HIDE DEF AnyValue
<1>3. Begin(rule)
  BY <1>1 DEF SetHeader, RefuseValue, SetAbsentBuiltin, KeepBuiltin, ClearBuiltin,
     ReplaceBuiltin, SetMulti, SkipMulti, BeginBuiltin
<1>4. LocalTypes'
  <2>1. \/ pc' \in {"idle", "error"} /\ UNCHANGED <<out, part, i, matched, h>>
        \/ /\ \E output \in {NULL, "ptr", "local"} : CallHelper(rule, output)
           /\ h' \in {h, UNSET}
    BY <1>1 DEF SetHeader, RefuseValue, SetAbsentBuiltin, KeepBuiltin, ClearBuiltin,
       ReplaceBuiltin, SetMulti, SkipMulti, BeginBuiltin, ReturnAtOnce
  <2>2. call' = rule /\ count' = count + 1
    BY <1>3 DEF Begin
  <2> QED BY <2>1, <2>2 DEF Types, LocalTypes, CallHelper
<1>5. FieldTypes'
  <2>1. malformed' = malformed /\ ptr' = ptr
    BY <1>1 DEF SetHeader, RefuseValue, SetAbsentBuiltin, KeepBuiltin, ClearBuiltin,
       ReplaceBuiltin, SetMulti, SkipMulti, BeginBuiltin, field_vars
  <2>2. Derive(rule) \/ UNCHANGED <<derived, keepalive>>
    BY <1>1 DEF SetHeader, RefuseValue, SetAbsentBuiltin, KeepBuiltin, ClearBuiltin,
       ReplaceBuiltin, SetMulti, SkipMulti, BeginBuiltin, field_vars
  <2>3. derived' \in [Derived -> AnyValue] /\ keepalive' \in BOOLEAN
    BY <1>2, <2>2 DEF Derive, Types, FieldTypes
  <2>4. chain' = chain \/ chain' = [chain EXCEPT ![rule.key] = << >>]
    BY <1>1 DEF SetHeader, RefuseValue, SetAbsentBuiltin, KeepBuiltin, ClearBuiltin,
       ReplaceBuiltin, SetMulti, SkipMulti, BeginBuiltin, field_vars
  <2>5. chain' \in [Multi -> Seq(Nat \cup {NULL, UNSET})]
    <3>1. << >> \in Seq(Nat \cup {NULL, UNSET})
      OBVIOUS
    <3> QED BY <2>4, <3>1 DEF Types, FieldTypes
  <2>6. \/ cell' = cell
        \/ cell' = [cell EXCEPT ![ptr[rule.key]].hash = FALSE, ![ptr[rule.key]].value = EMPTY]
        \/ cell' = [cell EXCEPT ![ptr[rule.key]].hash = TRUE,
                                ![ptr[rule.key]].value = rule.value]
    BY <1>1 DEF SetHeader, RefuseValue, SetAbsentBuiltin, KeepBuiltin, ClearBuiltin,
       ReplaceBuiltin, SetMulti, SkipMulti, BeginBuiltin
  <2>7. cell' \in [Slots -> Cell]
    <3>1. cell \in [Slots -> Cell]
      BY DEF Types, FieldTypes
    <3>2. PICK s : s = ptr[rule.key]
      OBVIOUS
    <3>3. /\ [cell EXCEPT ![s].hash = FALSE, ![s].value = EMPTY] \in [Slots -> Cell]
          /\ [cell EXCEPT ![s].hash = TRUE, ![s].value = rule.value] \in [Slots -> Cell]
      BY <1>2, <3>1, CellTypes
    <3> QED BY <2>6, <3>1, <3>2, <3>3
  <2> QED BY <2>1, <2>3, <2>5, <2>7 DEF Types, FieldTypes
<1> QED BY <1>4, <1>5 DEF Types

\* The turns of the loop.
LEMMA LoopTypes ==
    ASSUME HInv, Types, Loop PROVE Types'
<1>1. pc = "scan" /\ call \in Rules
  BY DEF Loop, Miss, AddNothing, TakeValue, BeginRemoval, RemoveHeader, RemovalFails, Found,
     NotFound, Looking, Types, LocalTypes
<1>2. UNCHANGED <<malformed, chain, derived, keepalive, call, count>>
  BY DEF Loop, Miss, AddNothing, TakeValue, RemoveHeader, RemovalFails, Found, NotFound,
     field_vars, local_vars
<1>3. call.value \in AnyValue
  BY <1>1, RuleTypes
<1>4. Looking => HereSlot \in Nat /\ HerePart \in Nat \ {0} /\ Here \in Nat
  BY SlotTypes
<1>5. cell' \in [Slots -> Cell]
  <2>1. \/ cell' = cell
        \/ cell' = [cell EXCEPT ![HereSlot].value = call.value]
        \/ cell' = [cell EXCEPT ![HereSlot].hash = FALSE]
    BY DEF Loop, Miss, AddNothing, TakeValue, BeginRemoval, RemoveHeader, RemovalFails, Found,
       NotFound
  <2>2. cell \in [Slots -> Cell]
    BY DEF Types, FieldTypes
  <2>3. PICK s : s = HereSlot
    OBVIOUS
  <2>4. /\ [cell EXCEPT ![s].value = call.value] \in [Slots -> Cell]
        /\ [cell EXCEPT ![s].hash = FALSE] \in [Slots -> Cell]
    BY <1>3, <2>2, CellTypes
  <2> QED BY <2>1, <2>2, <2>3, <2>4
<1>6. UNCHANGED <<ptr, h>> \/ Output(NULL) \/ (Looking /\ Output(HereSlot))
  BY DEF Loop, Miss, AddNothing, TakeValue, BeginRemoval, RemoveHeader, RemovalFails, Found,
     NotFound, field_vars, local_vars
<1>7. ptr' \in [Single -> Nat \cup {NULL}] /\ h' \in Nat \cup {NULL, UNSET}
  BY <1>4, <1>6 DEF Output, Types, FieldTypes, LocalTypes
<1>8. FieldTypes'
  BY <1>2, <1>5, <1>7 DEF Types, FieldTypes
<1>9. /\ matched' \in {matched, NULL} \/ (Looking /\ matched' = HereSlot)
      /\ \/ UNCHANGED <<part, i>> \/ (part' = 1 /\ i' = 0)
         \/ Looking /\ part' = HerePart /\ i' = Here + 1
      /\ pc' \in {"scan", "create", "link", "idle", "error"}
      /\ out' \in {out, NULL}
  BY <1>1 DEF Loop, Miss, AddNothing, TakeValue, BeginRemoval, RemoveHeader, RemovalFails, Found,
     NotFound, GoOn, Return, local_vars
<1>10. LocalTypes'
  BY <1>1, <1>2, <1>4, <1>7, <1>9 DEF Types, LocalTypes
<1> QED BY <1>8, <1>10 DEF Types

\* nginx reads a header.
LEMMA ReceiveTypes ==
    ASSUME HInv, Types, NEW key \in Names, NEW value \in Received, Receive(key, value)
    PROVE  Types'
<1> DEFINE s == PushSlot(l, brk)
<1>1. s \in Nat
  BY SlotTypes
<1> HIDE DEF s
<1>2. key \in Keys /\ value \in AnyValue
  BY DEF Keys, AnyValue
<1>3. cell' \in [Slots -> Cell]
  <2>1. cell' = [cell EXCEPT ![PushSlot(l, brk)] =
                    [key |-> key, value |-> value, hash |-> value /= EMPTY]]
    BY DEF Receive, PushHeader
  <2> QED BY <1>2, <2>1, CellTypes DEF Types, FieldTypes
<1>4. ptr' \in [Single -> Nat \cup {NULL}]
  BY <1>1 DEF Receive, s, Types, FieldTypes
<1>5. chain' \in [Multi -> Seq(Nat \cup {NULL, UNSET})]
  <2>1. chain' = chain \/ (key \in Multi /\ chain' = [chain EXCEPT ![key] = Append(chain[key], s)])
    BY DEF Receive, s
  <2>2. ASSUME key \in Multi PROVE Append(chain[key], s) \in Seq(Nat \cup {NULL, UNSET})
    <3>1. chain[key] \in Seq(Nat \cup {NULL, UNSET})
      BY <2>2 DEF Types, FieldTypes
    <3> QED BY <1>1, <3>1
  <2> QED BY <2>1, <2>2 DEF Types, FieldTypes
<1>6. derived' \in [Derived -> AnyValue] /\ keepalive' \in BOOLEAN /\ malformed' = malformed
  BY <1>2 DEF Receive, Types, FieldTypes
<1>7. UNCHANGED <<pc, call, out, part, i, matched, h, count>>
  BY DEF Receive, local_vars
<1> QED BY <1>3, <1>4, <1>5, <1>6, <1>7 DEF Types, FieldTypes, LocalTypes

\* The request has been read; a header is created; a header is linked.
LEMMA OtherTypes ==
    ASSUME HInv, Types,
           AllReceived \/ CreateNowhere \/ Create \/ PushFails \/ LowcaseFails \/ Link
    PROVE  Types'
<1> DEFINE s == PushSlot(l, brk)
<1>1. s \in Nat
  BY SlotTypes
<1> HIDE DEF s
<1>2. CASE AllReceived \/ CreateNowhere \/ PushFails
  <2>1. UNCHANGED <<cell, malformed, field_vars, call, h, count>>
    BY <1>2 DEF AllReceived, CreateNowhere, PushFails, local_vars
  <2>2. /\ pc' \in {"idle", "link", "error"} /\ (pc' = "link" => pc = "create")
        /\ \/ UNCHANGED <<out, part, i, matched>>
           \/ out' = NULL /\ part' = 1 /\ i' = 0 /\ matched' = NULL
    BY <1>2 DEF AllReceived, CreateNowhere, PushFails, Return, local_vars
  <2>3. FieldTypes'
    BY <2>1 DEF Types, FieldTypes, field_vars
  <2>4. LocalTypes'
    BY <2>1, <2>2 DEF Types, LocalTypes
  <2> QED BY <2>3, <2>4 DEF Types
<1>3. CASE Create \/ LowcaseFails
  <2>0. pc = "create" /\ call \in Rules /\ call.key \in Keys /\ call.value \in AnyValue
    BY <1>3, RuleTypes DEF Create, LowcaseFails, Types, LocalTypes
  <2>1. cell' \in [Slots -> Cell]
    <3>1. cell' = [cell EXCEPT ![PushSlot(l, brk)] =
                      [key |-> call.key, value |-> call.value, hash |-> call.value /= EMPTY]]
      BY <1>3 DEF Create, LowcaseFails, PushHeader
    <3>2. (call.value /= EMPTY) \in BOOLEAN
      OBVIOUS
    <3> QED BY <2>0, <3>1, <3>2, CellTypes DEF Types, FieldTypes
  <2>2. UNCHANGED <<ptr, h>> \/ Output(s)
    BY <1>3 DEF Create, LowcaseFails, s, field_vars, local_vars
  <2>3. ptr' \in [Single -> Nat \cup {NULL}] /\ h' \in Nat \cup {NULL, UNSET}
    BY <1>1, <2>2 DEF Output, Types, FieldTypes, LocalTypes
  <2>4. UNCHANGED <<malformed, chain, derived, keepalive, call, count>>
    BY <1>3 DEF Create, LowcaseFails, field_vars
  <2>5. /\ pc' \in {"idle", "link", "error"}
        /\ \/ UNCHANGED <<out, part, i, matched>>
           \/ out' = NULL /\ part' = 1 /\ i' = 0 /\ matched' = NULL
    BY <1>3 DEF Create, LowcaseFails, Return, local_vars
  <2>6. FieldTypes'
    BY <2>1, <2>3, <2>4 DEF Types, FieldTypes
  <2>7. LocalTypes'
    BY <2>0, <2>3, <2>4, <2>5 DEF Types, LocalTypes
  <2> QED BY <2>6, <2>7 DEF Types
<1>4. CASE Link
  <2>1. UNCHANGED <<cell, malformed, ptr, derived, keepalive, call, out, part, i, matched, count>>
        /\ h' = NULL /\ pc' = "idle"
    BY <1>4 DEF Link
  <2>2. chain' = chain \/ chain' = [chain EXCEPT ![call.key] = <<h>>]
    BY <1>4 DEF Link
  <2>3. <<h>> \in Seq(Nat \cup {NULL, UNSET})
    BY DEF Types, LocalTypes
  <2>4. chain' \in [Multi -> Seq(Nat \cup {NULL, UNSET})]
    BY <2>2, <2>3 DEF Types, FieldTypes
  <2> QED BY <2>1, <2>4 DEF Types, FieldTypes, LocalTypes
<1> QED BY <1>2, <1>3, <1>4

\* The types hold at first.
LEMMA InitTypes == HeadersInit => Types
  BY DEF HeadersInit, Types, FieldTypes, LocalTypes, Cell, AnyValue

\* Every step keeps them.
LEMMA StepTypes ==
    ASSUME HInv, Types, [HeadersNext]_headers_vars PROVE Types'
<1>1. CASE UNCHANGED headers_vars
  BY <1>1 DEF headers_vars, field_vars, local_vars, Types, FieldTypes, LocalTypes
<1>2. ASSUME NEW key \in Names, NEW value \in Received, Receive(key, value) PROVE Types'
  BY <1>2, ReceiveTypes
<1>3. CASE BeginRule
  BY <1>3, BeginTypes
<1>4. CASE Loop
  BY <1>4, LoopTypes
<1>5. CASE AllReceived \/ CreateNowhere \/ Create \/ PushFails \/ LowcaseFails \/ Link
  BY <1>5, OtherTypes
<1> QED BY <1>1, <1>2, <1>3, <1>4, <1>5 DEF HeadersNext, Helper

-----------------------------------------------------------------------------
(* Which headers of a list have a name.  The slots s are in list order, ce  *)
(* is what is in them.                                                      *)

\* The header at p is the first with one of the names.
First(s, ce, names, p) ==
    /\ p \in DOMAIN s
    /\ ce[s[p]].key \in names
    /\ \A q \in 1 .. p - 1 : ce[s[q]].key \notin names

\* There is none with one of the names.
None(s, ce, names) == \A p \in DOMAIN s : ce[s[p]].key \notin names

\* If there is one of the name, x is the first.
Led(s, ce, name, x) == \A p : First(s, ce, {name}, p) => x = s[p]

\* There is one of the name, in the slot x.
Sole(s, ce, name, x) ==
    \E p \in DOMAIN s : s[p] = x /\ \A q \in DOMAIN s : ce[s[q]].key = name <=> q = p

\* The names in the slots are the same.
SameKeys(s, ce, cf) == \A p \in DOMAIN s : cf[s[p]].key = ce[s[p]].key

\* And so are the values.
SameLines(s, ce, cf) ==
    \A p \in DOMAIN s : cf[s[p]].key = ce[s[p]].key /\ cf[s[p]].value = ce[s[p]].value

\* The slots of the headers of a name.
LiveIn(s, ce, name) == Pick(s, {p \in DOMAIN s : ce[s[p]].key = name})

\* The headers as names and values.
Lines(s, ce) == [p \in DOMAIN s |-> <<ce[s[p]].key, ce[s[p]].value>>]

\* Where there is one, there is a first one.
LEMMA HasFirst ==
    ASSUME NEW T, NEW s \in Seq(T), NEW ce, NEW names, ~None(s, ce, names)
    PROVE  \E p : First(s, ce, names, p)
<1> DEFINE S == {p \in DOMAIN s : ce[s[p]].key \in names}
<1>1. S \in SUBSET Nat /\ S /= {} /\ DOMAIN s = 1 .. Len(s) /\ Len(s) \in Nat
  BY DEF None
<1>2. PICK p \in S : \A k \in S : p <= k
  BY <1>1, Least
<1>3. ASSUME NEW q \in 1 .. p - 1 PROVE ce[s[q]].key \notin names
  <2>1. q \in DOMAIN s /\ ~(p <= q)
    BY <1>1, <1>2
  <2> QED BY <1>2, <2>1
<1> QED BY <1>2, <1>3 DEF First

\* What LiveIn is in these cases.
LEMMA LiveIs ==
    ASSUME NEW T, NEW s \in Seq(T), NEW ce, NEW name
    PROVE  /\ LiveIn(s, ce, name) = << >> <=> None(s, ce, {name})
           /\ \A p : First(s, ce, {name}, p) =>
                 LiveIn(s, ce, name) /= << >> /\ LiveIn(s, ce, name)[1] = s[p]
           /\ \A x : Sole(s, ce, name, x) => LiveIn(s, ce, name) = <<x>>
<1> DEFINE P == {p \in DOMAIN s : ce[s[p]].key = name}
<1>1. DOMAIN s = 1 .. Len(s) /\ Len(s) \in Nat
  OBVIOUS
<1>2. \A p \in 1 .. Len(s) : p \in P <=> ce[s[p]].key = name
  BY <1>1
<1>3. LiveIn(s, ce, name) = Pick(s, P)
  BY DEF LiveIn
<1> HIDE DEF P
<1>4. LiveIn(s, ce, name) = << >> <=> None(s, ce, {name})
  BY <1>1, <1>2, <1>3, PickNone DEF None
<1>5. ASSUME NEW p, First(s, ce, {name}, p)
      PROVE  LiveIn(s, ce, name) /= << >> /\ LiveIn(s, ce, name)[1] = s[p]
  <2>1. p \in 1 .. Len(s) /\ p \in P
    BY <1>1, <1>2, <1>5 DEF First
  <2>2. \A q \in 1 .. p - 1 : q \notin P
    <3>1. \A q \in 1 .. p - 1 : q \in 1 .. Len(s) /\ ce[s[q]].key \notin {name}
      BY <1>1, <1>5, <2>1 DEF First
    <3> QED BY <1>2, <3>1
  <2> QED BY <1>1, <1>3, <2>1, <2>2, PickFirst
<1>6. ASSUME NEW x, Sole(s, ce, name, x) PROVE LiveIn(s, ce, name) = <<x>>
  <2>1. PICK p \in DOMAIN s : s[p] = x /\ \A q \in DOMAIN s : ce[s[q]].key = name <=> q = p
    BY <1>6 DEF Sole
  <2>2. p \in 1 .. Len(s) /\ \A q \in 1 .. Len(s) : q \in P <=> q = p
    BY <1>1, <1>2, <2>1
  <2> QED BY <1>1, <1>3, <2>1, <2>2, PickOne
<1> QED BY <1>4, <1>5, <1>6

\* Where the names do not change.
LEMMA KeysKept ==
    ASSUME NEW s, NEW ce, NEW cf, SameKeys(s, ce, cf), DOMAIN s = 1 .. Len(s), Len(s) \in Nat
    PROVE  /\ \A names, p : First(s, cf, names, p) <=> First(s, ce, names, p)
           /\ \A names : None(s, cf, names) <=> None(s, ce, names)
           /\ \A name, x : Led(s, cf, name, x) <=> Led(s, ce, name, x)
           /\ \A name, x : Sole(s, cf, name, x) <=> Sole(s, ce, name, x)
<1>1. ASSUME NEW names, NEW p PROVE First(s, cf, names, p) <=> First(s, ce, names, p)
  <2>1. p \in DOMAIN s => \A q \in 1 .. p - 1 : q \in DOMAIN s
    OBVIOUS
  <2> QED BY <2>1 DEF First, SameKeys
<1>2. \A name, x : Led(s, cf, name, x) <=> Led(s, ce, name, x)
  BY <1>1 DEF Led
<1>3. \A names : None(s, cf, names) <=> None(s, ce, names)
  BY DEF None, SameKeys
<1>4. \A name, x : Sole(s, cf, name, x) <=> Sole(s, ce, name, x)
  BY DEF Sole, SameKeys
<1> QED BY <1>1, <1>2, <1>3, <1>4

\* A header of another name goes.
LEMMA OtherRemoved ==
    ASSUME NEW T, NEW s \in Seq(T), NEW t \in Seq(T), NEW p, Lacks(t, s, p),
           NEW ce, NEW name, ce[s[p]].key /= name
    PROVE  \A x : Led(s, ce, name, x) => Led(t, ce, name, x)
<1>1. /\ DOMAIN s = 1 .. Len(s) /\ DOMAIN t = 1 .. Len(t) /\ Len(s) \in Nat /\ p \in 1 .. Len(s)
      /\ Len(t) = Len(s) - 1 /\ \A q \in 1 .. Len(t) : t[q] = s[Past(p, q)]
  BY DEF Lacks
<1>2. ASSUME NEW q, First(t, ce, {name}, q) PROVE First(s, ce, {name}, Past(p, q)) /\ t[q] = s[Past(p, q)]
  <2>1. q \in 1 .. Len(t) /\ ce[t[q]].key = name
    BY <1>1, <1>2 DEF First
  <2>2. Past(p, q) \in DOMAIN s /\ t[q] = s[Past(p, q)]
    BY <1>1, <2>1, Skips
  <2>3. ASSUME NEW k \in 1 .. Past(p, q) - 1 PROVE ce[s[k]].key \notin {name}
    <3>1. CASE k = p
      BY <3>1
    <3>2. CASE k /= p
      <4>1. k \in 1 .. Len(s) /\ k < Past(p, q)
        BY <1>1, <2>2
      <4>2. PICK j \in 1 .. Len(s) - 1 : Past(p, j) = k
        BY <1>1, <3>2, <4>1, Skips
      <4>3. j < q
        BY <1>1, <2>1, <4>1, <4>2, Skips
      <4>4. j \in 1 .. q - 1 /\ j \in 1 .. Len(t)
        BY <1>1, <2>1, <4>3
      <4> QED BY <1>1, <1>2, <4>2, <4>4 DEF First
    <3> QED BY <3>1, <3>2
  <2> QED BY <2>1, <2>2, <2>3 DEF First
<1> QED BY <1>2 DEF Led

\* A header is added at the end.
LEMMA Appended ==
    ASSUME NEW T, NEW s \in Seq(T), NEW x \in T, NEW t, t = Append(s, x),
           NEW ce, NEW cf, SameKeys(s, ce, cf), NEW name
    PROVE  /\ cf[x].key /= name => \A y : Led(s, ce, name, y) => Led(t, cf, name, y)
           /\ ~None(s, ce, {name}) => \A y : Led(s, ce, name, y) => Led(t, cf, name, y)
           /\ None(s, ce, {name}) /\ cf[x].key = name => Led(t, cf, name, x) /\ Sole(t, cf, name, x)
           /\ None(s, ce, {name}) /\ cf[x].key /= name => None(t, cf, {name})
<1> DEFINE n == Len(s)
<1>1. /\ DOMAIN s = 1 .. n /\ n \in Nat /\ DOMAIN t = 1 .. n + 1
      /\ \A p \in 1 .. n : t[p] = s[p]
      /\ t[n + 1] = x
  BY AppendProperties
<1> HIDE DEF n
<1>2. ASSUME NEW p, First(t, cf, {name}, p), p /= n + 1 PROVE First(s, ce, {name}, p) /\ t[p] = s[p]
  <2>1. p \in 1 .. n /\ t[p] = s[p] /\ cf[t[p]].key = name
    BY <1>1, <1>2 DEF First
  <2>2. \A q \in 1 .. p - 1 : q \in 1 .. n /\ t[q] = s[q] /\ cf[t[q]].key \notin {name}
    BY <1>1, <1>2, <2>1 DEF First
  <2> QED BY <1>1, <2>1, <2>2 DEF First, SameKeys
<1>3. ASSUME cf[x].key /= name, NEW y, Led(s, ce, name, y) PROVE Led(t, cf, name, y)
  <2>1. ASSUME NEW p, First(t, cf, {name}, p) PROVE p /= n + 1
    BY <1>1, <1>3, <2>1 DEF First
  <2> QED BY <1>2, <1>3, <2>1 DEF Led
<1>4. ASSUME ~None(s, ce, {name}), NEW y, Led(s, ce, name, y) PROVE Led(t, cf, name, y)
  <2>1. PICK q \in 1 .. n : cf[t[q]].key = name
    BY <1>1, <1>4 DEF None, SameKeys
  <2>2. ASSUME NEW p, First(t, cf, {name}, p) PROVE p /= n + 1
    <3>1. q \in 1 .. (n + 1) - 1
      BY <1>1
    <3> QED BY <2>1, <2>2, <3>1 DEF First
  <2> QED BY <1>2, <1>4, <2>2 DEF Led
<1>5. ASSUME None(s, ce, {name}), cf[x].key = name PROVE Led(t, cf, name, x) /\ Sole(t, cf, name, x)
  <2>1. \A q \in 1 .. n : cf[t[q]].key /= name
    BY <1>1, <1>5 DEF None, SameKeys
  <2>2. \A q \in 1 .. n + 1 : cf[t[q]].key = name <=> q = n + 1
    BY <1>1, <1>5, <2>1
  <2>3. n + 1 \in DOMAIN t
    BY <1>1
  <2>4. Sole(t, cf, name, x)
    BY <1>1, <2>2, <2>3 DEF Sole
  <2>5. Led(t, cf, name, x)
    BY <1>1, <2>2 DEF Led, First
  <2> QED BY <2>4, <2>5
<1>6. ASSUME None(s, ce, {name}), cf[x].key /= name PROVE None(t, cf, {name})
  BY <1>1, <1>6 DEF None, SameKeys
<1> QED BY <1>3, <1>4, <1>5, <1>6

-----------------------------------------------------------------------------
(* What a rule is to do. *)

\* Without a header that it is about, the rule adds one.
Creates(r) == r.op = "append" \/ (r.op \in {"set", "add"} /\ r.value /= EMPTY)

\* The rule takes headers away.
Removes(r) == r.op \in {"set", "clear", "rewrite"} /\ r.value = EMPTY

\* The rule changes the first header that it is about.
Replaces(r) == r.op \in {"set", "rewrite"} /\ r.value /= EMPTY

\* The header at f has the value v.
Valued(u, f, v) == [u EXCEPT ![f][2] = v]

\* p is the first header that the rule is about.
FirstHit(r, u, p) == p \in Hits(r, u) /\ \A q \in Hits(r, u) : p <= q

\* A rule is one of these.
LEMMA OneKind ==
    ASSUME NEW r \in Rules
    PROVE  /\ r.op \in {"set", "add", "clear", "append", "rewrite"}
           /\ r.op \in {"set", "clear", "rewrite"} => Removes(r) \/ Replaces(r)
           /\ Removes(r) => r.op \notin {"append", "add"} /\ r.value = EMPTY
           /\ Replaces(r) => r.op \notin {"append", "add"} /\ r.value /= EMPTY
  BY DEF Rules, Removes, Replaces

\* Nothing is left out.
LEMMA DropNone == ASSUME NEW T, NEW u \in Seq(T) PROVE Dropping(u, {}) = u
<1>1. \A p \in 1 .. Len(u) : p \in DOMAIN u \ {}
  OBVIOUS
<1> QED BY <1>1, PickAll DEF Dropping

\* The effect, case by case.
LEMMA EffectIs ==
    ASSUME NEW r \in Rules, NEW T, NEW u \in Seq(T)
    PROVE  /\ r.op = "append" => Effect(r, u) = Append(u, <<r.key, r.value>>)
           /\ Hits(r, u) = {} =>
                 Effect(r, u) = IF Creates(r) THEN Append(u, <<r.key, r.value>>) ELSE u
           /\ r.op = "add" /\ Hits(r, u) /= {} => Effect(r, u) = u
           /\ Removes(r) => Effect(r, u) = Dropping(u, Hits(r, u))
           /\ \A f : Replaces(r) /\ FirstHit(r, u, f) =>
                 Effect(r, u) = Dropping(Valued(u, f, r.value),
                                         IF r.key \in Single THEN {} ELSE Hits(r, u) \ {f})
<1> DEFINE hits == Hits(r, u)
           new == Append(u, <<r.key, r.value>>)
           replaced == Dropping([u EXCEPT ![Min(hits)][2] = r.value],
                                IF r.key \in Single THEN {} ELSE hits \ {Min(hits)})
<1>0. r.op \in {"set", "add", "clear", "append", "rewrite"} /\ (r.op = "clear" => r.value = EMPTY)
  BY DEF Rules
<1>1. Effect(r, u) =
        CASE r.op = "append" -> new
          [] r.op = "add" -> IF hits = {} /\ r.value /= EMPTY THEN new ELSE u
          [] r.op \in {"set", "clear", "rewrite"} /\ r.value = EMPTY -> Dropping(u, hits)
          [] r.op = "set" /\ r.value /= EMPTY -> IF hits = {} THEN new ELSE replaced
          [] r.op = "rewrite" /\ r.value /= EMPTY -> IF hits = {} THEN u ELSE replaced
  BY Zenon DEF Effect
<1>2. Dropping(u, {}) = u
  BY DropNone
<1>3. PICK eff : eff = Effect(r, u)
  OBVIOUS
<1>4. ASSUME NEW f, FirstHit(r, u, f) PROVE hits /= {} /\ Min(hits) = f
  <2>1. f \in hits /\ \A q \in hits : f <= q
    BY <1>4 DEF FirstHit
  <2>2. hits \subseteq Nat
    BY DEF Hits
  <2> HIDE DEF hits
  <2>3. \A y \in hits : (\A q \in hits : y <= q) => y = f
    BY <2>1, <2>2
  <2>4. Min(hits) = f
    BY <2>1, <2>3 DEF Min
  <2> QED BY <2>1, <2>4
<1> HIDE DEF hits, new, replaced
<1>5. /\ r.op = "append" => eff = new
      /\ r.op = "add" => eff = IF hits = {} /\ r.value /= EMPTY THEN new ELSE u
      /\ r.op \in {"set", "clear", "rewrite"} /\ r.value = EMPTY => eff = Dropping(u, hits)
      /\ r.op = "set" /\ r.value /= EMPTY => eff = IF hits = {} THEN new ELSE replaced
      /\ r.op = "rewrite" /\ r.value /= EMPTY => eff = IF hits = {} THEN u ELSE replaced
  BY <1>1, <1>3
<1>6. hits = {} => eff = IF Creates(r) THEN new ELSE u
  BY <1>0, <1>2, <1>5 DEF Creates
<1>7. Replaces(r) /\ hits /= {} => eff = replaced
  BY <1>5 DEF Replaces
<1>8. ASSUME NEW f, Replaces(r), FirstHit(r, u, f)
      PROVE  eff = Dropping(Valued(u, f, r.value), IF r.key \in Single THEN {} ELSE hits \ {f})
  <2>1. replaced = Dropping(Valued(u, f, r.value), IF r.key \in Single THEN {} ELSE hits \ {f})
    BY <1>4, <1>8 DEF replaced, Valued
  <2> QED BY <1>4, <1>7, <1>8, <2>1
<1>9. Removes(r) => eff = Dropping(u, hits)
  BY <1>5 DEF Removes
<1>10. r.op = "add" /\ hits /= {} => eff = u
  BY <1>5
<1> QED BY <1>3, <1>5, <1>6, <1>8, <1>9, <1>10 DEF hits, new

\* Valued changes the value at one place.
LEMMA ValuedIs ==
    ASSUME NEW u, NEW f, NEW v
    PROVE  /\ DOMAIN Valued(u, f, v) = DOMAIN u
           /\ \A p \in DOMAIN u : p /= f => Valued(u, f, v)[p] = u[p]
           /\ f \in DOMAIN u => Valued(u, f, v)[f] = [u[f] EXCEPT ![2] = v]
  BY DEF Valued

\* The two parts of a header.
LEMMA PairValued ==
    ASSUME NEW a, NEW b, NEW v
    PROVE  [<<a, b>> EXCEPT ![2] = v] = <<a, v>>
  OBVIOUS

\* Headers as pairs, in a sequence.
Paired(u) == u \in Seq({<<u[p][1], u[p][2]>> : p \in DOMAIN u})

\* The pair at a place.
LEMMA PairedIs ==
    ASSUME NEW u, Paired(u)
    PROVE  /\ \A p \in DOMAIN u : u[p] = <<u[p][1], u[p][2]>>
           /\ DOMAIN u = 1 .. Len(u) /\ Len(u) \in Nat
<1>1. PICK T : T = {<<u[p][1], u[p][2]>> : p \in DOMAIN u}
  OBVIOUS
<1>2. u \in Seq(T)
  BY <1>1 DEF Paired
<1>3. DOMAIN u = 1 .. Len(u) /\ Len(u) \in Nat
  BY <1>2
<1>4. ASSUME NEW p \in DOMAIN u PROVE u[p] = <<u[p][1], u[p][2]>>
  <2>1. u[p] \in T
    BY <1>2, <1>3
  <2>2. PICK q \in DOMAIN u : u[p] = <<u[q][1], u[q][2]>>
    BY <1>1, <2>1
  <2> QED BY <2>2
<1> QED BY <1>3, <1>4

\* Such a sequence, by its members.
LEMMA PairedIf ==
    ASSUME NEW u, NEW n \in Nat, u = [p \in 1 .. n |-> u[p]],
           \A p \in 1 .. n : \E a, b : u[p] = <<a, b>>
    PROVE  Paired(u)
<1>1. PICK T : T = {<<u[p][1], u[p][2]>> : p \in DOMAIN u}
  OBVIOUS
<1>2. DOMAIN u = 1 .. n
  OBVIOUS
<1>3. ASSUME NEW p \in 1 .. n PROVE u[p] \in T
  <2>1. PICK a, b : u[p] = <<a, b>>
    OBVIOUS
  <2>2. u[p] = <<u[p][1], u[p][2]>>
    BY <2>1
  <2> QED BY <1>1, <1>2, <2>2
<1>4. u \in Seq(T)
  BY <1>3
<1> QED BY <1>1, <1>4 DEF Paired

\* Changing a value leaves pairs, and the names.
LEMMA ValuedPaired ==
    ASSUME NEW u, Paired(u), NEW f \in DOMAIN u, NEW v
    PROVE  /\ Paired(Valued(u, f, v)) /\ Len(Valued(u, f, v)) = Len(u)
           /\ Valued(u, f, v)[f] = <<u[f][1], v>>
           /\ DOMAIN Valued(u, f, v) = DOMAIN u
           /\ \A p \in DOMAIN u : p /= f => Valued(u, f, v)[p] = u[p]
           /\ \A p \in DOMAIN u : Valued(u, f, v)[p][1] = u[p][1]
           /\ \A r : Hits(r, Valued(u, f, v)) = Hits(r, u)
<1>1. /\ \A p \in DOMAIN u : u[p] = <<u[p][1], u[p][2]>>
      /\ DOMAIN u = 1 .. Len(u) /\ Len(u) \in Nat
  BY PairedIs
<1>2. PICK w : w = Valued(u, f, v)
  OBVIOUS
<1>3. DOMAIN w = DOMAIN u /\ \A p \in DOMAIN u : p /= f => w[p] = u[p]
  <2>1. /\ DOMAIN Valued(u, f, v) = DOMAIN u
        /\ \A p \in DOMAIN u : p /= f => Valued(u, f, v)[p] = u[p]
    BY DEF Valued
  <2> QED BY <1>2, <2>1
<1>4. w[f] = <<u[f][1], v>>
  <2>1. w[f] = [u[f] EXCEPT ![2] = v]
    BY <1>2, ValuedIs
  <2>2. PICK a, b : a = u[f][1] /\ b = u[f][2]
    OBVIOUS
  <2>3. u[f] = <<a, b>>
    BY <1>1, <2>2
  <2> QED BY <2>1, <2>2, <2>3, PairValued
<1>5. w = [p \in 1 .. Len(u) |-> w[p]]
  <2>1. w = [p \in DOMAIN w |-> w[p]]
    BY <1>2 DEF Valued
  <2> QED BY <1>1, <1>3, <2>1
<1>6. \A p \in 1 .. Len(u) : \E a, b : w[p] = <<a, b>>
  BY <1>1, <1>3, <1>4
<1>7. Paired(w)
  BY <1>1, <1>5, <1>6, PairedIf
<1>8. Len(w) = Len(u)
  BY <1>1, <1>3
<1>9. \A p \in DOMAIN u : w[p][1] = u[p][1]
  BY <1>3, <1>4
<1>10. \A r : Hits(r, w) = Hits(r, u)
  BY <1>3, <1>9 DEF Hits
<1> QED BY <1>2, <1>3, <1>4, <1>7, <1>8, <1>9, <1>10

\* What replacing does, in these terms.
LEMMA EffectReplaces ==
    ASSUME NEW r \in Rules, NEW u, Paired(u), NEW f, Replaces(r), FirstHit(r, u, f),
           NEW w, w = Valued(u, f, r.value),
           NEW gone, gone = IF r.key \in Single THEN {} ELSE Hits(r, u) \ {f}
    PROVE  Effect(r, u) = Dropping(w, gone)
<1>1. PICK T : T = {<<u[p][1], u[p][2]>> : p \in DOMAIN u}
  OBVIOUS
<1>2. u \in Seq(T)
  BY <1>1 DEF Paired
<1>3. Effect(r, u) = Dropping(Valued(u, f, r.value),
                              IF r.key \in Single THEN {} ELSE Hits(r, u) \ {f})
  <2>1. \A g : Replaces(r) /\ FirstHit(r, u, g) =>
                Effect(r, u) = Dropping(Valued(u, g, r.value),
                                        IF r.key \in Single THEN {} ELSE Hits(r, u) \ {g})
    BY <1>2, EffectIs, Zenon
  <2> QED BY <2>1
<1> QED BY <1>3

\* The first header is given its value before the rest is done.
LEMMA TakenIsPart ==
    ASSUME NEW r \in Rules, NEW u, Paired(u), NEW f, Replaces(r), FirstHit(r, u, f)
    PROVE  /\ Effect(r, Valued(u, f, r.value)) = Effect(r, u)
           /\ FirstHit(r, Valued(u, f, r.value), f)
<1>0. f \in DOMAIN u
  BY DEF FirstHit, Hits
<1>1. PICK w : w = Valued(u, f, r.value)
  OBVIOUS
<1>2. Paired(w) /\ Hits(r, w) = Hits(r, u)
  BY <1>0, <1>1, ValuedPaired
<1>3. FirstHit(r, w, f)
  BY <1>2 DEF FirstHit
<1>4. Valued(w, f, r.value) = w
  BY <1>0, <1>1 DEF Valued
<1>5. PICK gone : gone = IF r.key \in Single THEN {} ELSE Hits(r, u) \ {f}
  OBVIOUS
<1>6. Effect(r, u) = Dropping(w, gone)
  BY <1>1, <1>5, EffectReplaces
<1>7. Effect(r, w) = Dropping(w, gone)
  <2>1. w = Valued(w, f, r.value) /\ gone = IF r.key \in Single THEN {} ELSE Hits(r, w) \ {f}
    BY <1>2, <1>4, <1>5
  <2> QED BY <1>2, <1>3, <2>1, EffectReplaces
<1> QED BY <1>1, <1>3, <1>6, <1>7

\* A header that goes at the end may go at once.
LEMMA DroppedRemoved ==
    ASSUME NEW u, NEW w, NEW p, Lacks(w, u, p), DOMAIN u = 1 .. Len(u), DOMAIN w = 1 .. Len(w),
           NEW gone, NEW left, p \in gone,
           \A q \in DOMAIN w : q \in left <=> Past(p, q) \in gone
    PROVE  Dropping(w, left) = Dropping(u, gone)
<1> DEFINE P == DOMAIN u \ gone  Q == DOMAIN w \ left
<1>1. p \in 1 .. Len(u) /\ Len(u) \in Nat /\ Len(w) = Len(u) - 1
  BY DEF Lacks
<1>2. p \notin P
  OBVIOUS
<1>3. ASSUME NEW q \in 1 .. Len(w) PROVE q \in Q <=> Past(p, q) \in P
  <2>1. Past(p, q) \in DOMAIN u
    BY <1>1, Skips
  <2> QED BY <2>1
<1> HIDE DEF P, Q
<1>4. Pick(u, P) = Pick(w, Q)
  BY <1>2, <1>3, PickRemoved
<1> QED BY <1>4 DEF Dropping, P, Q

\* A header to be removed is.
LEMMA RemovedIsPart ==
    ASSUME NEW r \in Rules, NEW u, Paired(u), NEW w, Paired(w), NEW p, Lacks(w, u, p),
           p \in Hits(r, u),
           Removes(r) \/ (Replaces(r) /\ r.key \notin Single /\ ~FirstHit(r, u, p))
    PROVE  Effect(r, w) = Effect(r, u)
<1>1. /\ DOMAIN u = 1 .. Len(u) /\ Len(u) \in Nat /\ DOMAIN w = 1 .. Len(w) /\ Len(w) \in Nat
      /\ p \in 1 .. Len(u) /\ Len(w) = Len(u) - 1
      /\ \A q \in 1 .. Len(w) : w[q] = u[Past(p, q)]
  BY PairedIs DEF Lacks
<1>2. \A q \in DOMAIN w : Past(p, q) \in DOMAIN u /\ Past(p, q) /= p
  BY <1>1, Skips
<1>3. \A q \in DOMAIN w : q \in Hits(r, w) <=> Past(p, q) \in Hits(r, u)
  BY <1>1, <1>2 DEF Hits
<1>4. CASE Removes(r)
  <2>1. Dropping(w, Hits(r, w)) = Dropping(u, Hits(r, u))
    BY <1>1, <1>3, DroppedRemoved
  <2> QED BY <1>4, <2>1, EffectIs DEF Paired
<1>5. CASE Replaces(r) /\ r.key \notin Single /\ ~FirstHit(r, u, p)
  <2>1. PICK f : FirstHit(r, u, f)
    <3>1. Hits(r, u) \in SUBSET Nat /\ Hits(r, u) /= {}
      BY <1>1 DEF Hits
    <3> QED BY <3>1, Least DEF FirstHit
  <2>2. f \in Hits(r, u) /\ f \in 1 .. Len(u) /\ f < p
    <3>1. f \in Hits(r, u) /\ f <= p /\ f \in 1 .. Len(u)
      BY <1>1, <2>1 DEF FirstHit, Hits
    <3>2. f /= p
      BY <1>5, <2>1
    <3> QED BY <1>1, <3>1, <3>2
  <2>3. f \in DOMAIN w /\ Past(p, f) = f
    BY <1>1, <2>2 DEF Past
  <2>4. FirstHit(r, w, f)
    <3>1. f \in Hits(r, w)
      BY <1>3, <2>2, <2>3
    <3>2. ASSUME NEW q \in Hits(r, w) PROVE f <= q
      <4>1. q \in 1 .. Len(w) /\ Past(p, q) \in Hits(r, u)
        BY <1>1, <1>3, <3>2 DEF Hits
      <4>2. f <= Past(p, q)
        BY <2>1, <4>1 DEF FirstHit
      <4> QED BY <1>1, <2>2, <4>1, <4>2 DEF Past
    <3> QED BY <3>1, <3>2 DEF FirstHit
  <2>5. PICK uv : uv = Valued(u, f, r.value)
    OBVIOUS
  <2>6. PICK wv : wv = Valued(w, f, r.value)
    OBVIOUS
  <2>7. /\ Paired(uv) /\ Len(uv) = Len(u) /\ uv[f] = <<u[f][1], r.value>>
        /\ \A q \in DOMAIN u : q /= f => uv[q] = u[q]
    <3>1. f \in DOMAIN u
      BY <1>1, <2>2
    <3>2. /\ Paired(Valued(u, f, r.value)) /\ Len(Valued(u, f, r.value)) = Len(u)
          /\ Valued(u, f, r.value)[f] = <<u[f][1], r.value>>
          /\ \A q \in DOMAIN u : q /= f => Valued(u, f, r.value)[q] = u[q]
      BY <3>1, ValuedPaired
    <3> QED BY <2>5, <3>2
  <2>8. /\ Paired(wv) /\ Len(wv) = Len(w) /\ wv[f] = <<w[f][1], r.value>>
        /\ \A q \in DOMAIN w : q /= f => wv[q] = w[q]
    BY <2>3, <2>6, ValuedPaired
  <2>9. Lacks(wv, uv, p)
    <3>1. ASSUME NEW q \in 1 .. Len(w) PROVE wv[q] = uv[Past(p, q)]
      <4>1. CASE q = f
        BY <1>1, <2>3, <2>7, <2>8, <4>1
      <4>2. CASE q /= f
        <5>1. Past(p, q) /= f
          BY <1>1, <2>2, <4>2 DEF Past
        <5> QED BY <1>1, <1>2, <2>7, <2>8, <4>2, <5>1
      <4> QED BY <4>1, <4>2
    <3> QED BY <1>1, <2>7, <2>8, <3>1 DEF Lacks
  <2>10. \A q \in DOMAIN w : q \in Hits(r, w) \ {f} <=> Past(p, q) \in Hits(r, u) \ {f}
    <3>1. \A q \in DOMAIN w : q = f <=> Past(p, q) = f
      BY <1>1, <2>2 DEF Past
    <3> QED BY <1>3, <3>1
  <2>11. DOMAIN uv = 1 .. Len(uv) /\ DOMAIN wv = 1 .. Len(wv) /\ DOMAIN wv = DOMAIN w
    BY <1>1, <2>7, <2>8, PairedIs
  <2>12. p \in Hits(r, u) \ {f}
    BY <2>2
  <2>13. Dropping(wv, Hits(r, w) \ {f}) = Dropping(uv, Hits(r, u) \ {f})
    BY <2>9, <2>10, <2>11, <2>12, DroppedRemoved
  <2>14. Effect(r, u) = Dropping(uv, Hits(r, u) \ {f})
    <3>1. Hits(r, u) \ {f} = IF r.key \in Single THEN {} ELSE Hits(r, u) \ {f}
      BY <1>5
    <3> QED BY <1>5, <2>1, <2>5, <3>1, EffectReplaces
  <2>15. Effect(r, w) = Dropping(wv, Hits(r, w) \ {f})
    <3>1. Hits(r, w) \ {f} = IF r.key \in Single THEN {} ELSE Hits(r, w) \ {f}
      BY <1>5
    <3> QED BY <1>5, <2>4, <2>6, <3>1, EffectReplaces
  <2> QED BY <2>13, <2>14, <2>15
<1> QED BY <1>4, <1>5

\* A rule whose value the only header it is about has is done.
LEMMA EffectDone ==
    ASSUME NEW r \in Rules, NEW u, Paired(u), NEW f, Replaces(r), Hits(r, u) = {f},
           u[f][2] = r.value
    PROVE  Effect(r, u) = u
<1>1. f \in DOMAIN u /\ f \in Nat /\ \A p \in DOMAIN u : u[p] = <<u[p][1], u[p][2]>>
  BY PairedIs DEF Hits
<1>2. FirstHit(r, u, f)
  BY <1>1 DEF FirstHit
<1>3. Valued(u, f, r.value) = u
  <2>1. PICK a, b : a = u[f][1] /\ b = u[f][2]
    OBVIOUS
  <2>2. u[f] = <<a, b>> /\ b = r.value
    BY <1>1, <2>1
  <2>3. [u[f] EXCEPT ![2] = r.value] = u[f]
    BY <2>2, PairValued
  <2>4. \A p \in DOMAIN u : Valued(u, f, r.value)[p] = u[p]
    BY <1>1, <2>3, ValuedIs
  <2>5. Valued(u, f, r.value) = [p \in DOMAIN u |-> Valued(u, f, r.value)[p]]
    BY DEF Valued
  <2>6. u = [p \in DOMAIN u |-> u[p]]
    BY DEF Paired
  <2> QED BY <2>4, <2>5, <2>6
<1>4. (IF r.key \in Single THEN {} ELSE Hits(r, u) \ {f}) = {}
  OBVIOUS
<1>5. Effect(r, u) = Dropping(u, {})
  <2>1. u = Valued(u, f, r.value) /\ {} = IF r.key \in Single THEN {} ELSE Hits(r, u) \ {f}
    BY <1>3, <1>4
  <2> QED BY <1>2, <2>1, EffectReplaces
<1> QED BY <1>5, DropNone DEF Paired

\* For a name that nginx points to, the first header takes the value.
LEMMA EffectSingle ==
    ASSUME NEW r \in Rules, NEW u, Paired(u), NEW f, Replaces(r), FirstHit(r, u, f),
           r.key \in Single
    PROVE  Effect(r, u) = Valued(u, f, r.value)
<1>1. f \in DOMAIN u
  BY DEF FirstHit, Hits
<1>2. Effect(r, u) = Dropping(Valued(u, f, r.value), {})
  <2>1. {} = IF r.key \in Single THEN {} ELSE Hits(r, u) \ {f}
    OBVIOUS
  <2> QED BY <2>1, EffectReplaces
<1>3. Paired(Valued(u, f, r.value))
  BY <1>1, ValuedPaired
<1>4. PICK w : w = Valued(u, f, r.value)
  OBVIOUS
<1> QED BY <1>2, <1>3, <1>4, DropNone DEF Paired

\* The headers of a list as such pairs.
LEMMA LinesAre ==
    ASSUME NEW T, NEW s \in Seq(T), NEW ce
    PROVE  /\ Paired(Lines(s, ce)) /\ Len(Lines(s, ce)) = Len(s)
           /\ DOMAIN Lines(s, ce) = DOMAIN s
           /\ \A p \in DOMAIN s : Lines(s, ce)[p] = <<ce[s[p]].key, ce[s[p]].value>>
           /\ \A r : Hits(r, Lines(s, ce)) = {p \in DOMAIN s : ce[s[p]].key \in Covered(r)}
<1>1. PICK u : u = Lines(s, ce)
  OBVIOUS
<1>2. DOMAIN s = 1 .. Len(s) /\ Len(s) \in Nat
  OBVIOUS
<1>3. DOMAIN u = DOMAIN s /\ \A p \in DOMAIN s : u[p] = <<ce[s[p]].key, ce[s[p]].value>>
  BY <1>1 DEF Lines
<1>4. u = [p \in 1 .. Len(s) |-> u[p]]
  BY <1>1, <1>2 DEF Lines
<1>5. Paired(u)
  <2>1. \A p \in 1 .. Len(s) : \E a, b : u[p] = <<a, b>>
    BY <1>2, <1>3
  <2>2. PICK n \in Nat : n = Len(s)
    BY <1>2
  <2> QED BY <1>4, <2>1, <2>2, PairedIf
<1>6. Len(u) = Len(s)
  BY <1>2, <1>3
<1>7. \A r : Hits(r, u) = {p \in DOMAIN s : ce[s[p]].key \in Covered(r)}
  BY <1>3 DEF Hits
<1> QED BY <1>1, <1>3, <1>5, <1>6, <1>7

-----------------------------------------------------------------------------
(* The headers after a step, by the slots and what is in them.              *)

\* What the writes to a header's fields do to the others: nothing.
LEMMA Writes ==
    ASSUME NEW ce \in [Slots -> Cell], NEW x, NEW v, NEW b, NEW y \in Slots
    PROVE  /\ [ce EXCEPT ![x].value = v][y].key = ce[y].key
           /\ [ce EXCEPT ![x].hash = b, ![x].value = v][y].key = ce[y].key
           /\ [ce EXCEPT ![x].hash = b][y].key = ce[y].key
           /\ [ce EXCEPT ![x].hash = b][y].value = ce[y].value
           /\ [ce EXCEPT ![x].value = v][y].value = IF y = x THEN v ELSE ce[y].value
           /\ [ce EXCEPT ![x].hash = b, ![x].value = v][y].value
                  = IF y = x THEN v ELSE ce[y].value
<1>1. ce[y] \in Cell /\ y \in DOMAIN ce
  OBVIOUS
<1>2. PICK c \in Cell : c = ce[y]
  BY <1>1
<1>3. /\ [c EXCEPT !.value = v].key = c.key /\ [c EXCEPT !.value = v].value = v
      /\ [c EXCEPT !.hash = b].key = c.key /\ [c EXCEPT !.hash = b].value = c.value
  BY DEF Cell
<1>4. PICK d : d = [c EXCEPT !.hash = b]
  OBVIOUS
<1>5. [d EXCEPT !.value = v].key = c.key /\ [d EXCEPT !.value = v].value = v
  BY <1>4 DEF Cell
<1> HIDE DEF Cell
<1>6. [ce EXCEPT ![x].value = v][y] = IF y = x THEN [c EXCEPT !.value = v] ELSE c
  BY <1>1, <1>2
<1>7. [ce EXCEPT ![x].hash = b][y] = IF y = x THEN [c EXCEPT !.hash = b] ELSE c
  BY <1>1, <1>2
<1>8. PICK ch : ch = [ce EXCEPT ![x].hash = b]
  OBVIOUS
<1>9. y \in DOMAIN ch /\ ch[y] = IF y = x THEN d ELSE c
  BY <1>1, <1>4, <1>7, <1>8
<1>10. [ce EXCEPT ![x].hash = b, ![x].value = v] = [ch EXCEPT ![x].value = v]
  BY <1>8
<1>11. [ch EXCEPT ![x].value = v][y] = IF y = x THEN [d EXCEPT !.value = v] ELSE c
  BY <1>9
<1> QED BY <1>2, <1>3, <1>5, <1>6, <1>7, <1>10, <1>11

\* The same names and values.
LEMMA LinesSame ==
    ASSUME NEW s, NEW ce, NEW cf, SameLines(s, ce, cf)
    PROVE  Lines(s, cf) = Lines(s, ce)
  BY DEF Lines, SameLines

\* One header more.
LEMMA LinesAppended ==
    ASSUME NEW T, NEW s \in Seq(T), NEW x \in T, NEW ce, NEW cf, SameLines(s, ce, cf)
    PROVE  Lines(Append(s, x), cf) = Append(Lines(s, ce), <<cf[x].key, cf[x].value>>)
<1>0. PICK t : t = Append(s, x)
  OBVIOUS
<1>1. PICK n \in Nat : n = Len(s)
  OBVIOUS
<1>2. /\ DOMAIN s = 1 .. n /\ DOMAIN t = 1 .. n + 1
      /\ \A p \in 1 .. n : t[p] = s[p]
      /\ t[n + 1] = x
  BY <1>0, <1>1, AppendProperties
<1>3. PICK u : u = Lines(s, ce)
  OBVIOUS
<1>4. PICK y : y = <<cf[x].key, cf[x].value>>
  OBVIOUS
<1>5. Paired(u) /\ Len(u) = n
  BY <1>1, <1>3, LinesAre
<1>6. PICK w : w = Append(u, y)
  OBVIOUS
<1>7. /\ DOMAIN w = 1 .. n + 1 /\ \A p \in 1 .. n : w[p] = u[p]
      /\ w[n + 1] = y /\ w = [p \in DOMAIN w |-> w[p]]
  <2>1. PICK U : U = {<<u[p][1], u[p][2]>> : p \in DOMAIN u} \cup {y}
    OBVIOUS
  <2>2. u \in Seq(U)
    <3>1. PICK W : W = {<<u[p][1], u[p][2]>> : p \in DOMAIN u}
      OBVIOUS
    <3>2. u \in Seq(W) /\ W \subseteq U
      BY <1>5, <2>1, <3>1 DEF Paired
    <3> QED BY <3>2
  <2>3. y \in U
    BY <2>1
  <2>4. /\ w \in Seq(U) /\ Len(w) = Len(u) + 1 /\ w[Len(u) + 1] = y
        /\ \A p \in 1 .. Len(u) : w[p] = u[p]
    BY <1>6, <2>2, <2>3, AppendProperties
  <2>5. DOMAIN w = 1 .. Len(w) /\ w = [p \in DOMAIN w |-> w[p]]
    BY <2>4
  <2> QED BY <1>5, <2>4, <2>5
<1>8. PICK z : z = Lines(t, cf)
  OBVIOUS
<1>9. DOMAIN z = 1 .. n + 1 /\ z = [p \in DOMAIN z |-> z[p]]
  BY <1>2, <1>8 DEF Lines
<1>10. ASSUME NEW p \in 1 .. n + 1 PROVE z[p] = w[p]
  <2>1. z[p] = <<cf[t[p]].key, cf[t[p]].value>>
    BY <1>2, <1>8, <1>10 DEF Lines
  <2>2. CASE p = n + 1
    BY <1>2, <1>4, <1>7, <2>1, <2>2
  <2>3. CASE p /= n + 1
    <3>1. p \in 1 .. n
      BY <1>10, <2>3
    <3>2. u[p] = <<ce[s[p]].key, ce[s[p]].value>>
      BY <1>2, <1>3, <3>1 DEF Lines
    <3>3. cf[s[p]].key = ce[s[p]].key /\ cf[s[p]].value = ce[s[p]].value
      BY <1>2, <3>1 DEF SameLines
    <3> QED BY <1>2, <1>7, <2>1, <3>1, <3>2, <3>3
  <2> QED BY <2>2, <2>3
<1> QED BY <1>0, <1>3, <1>4, <1>6, <1>7, <1>8, <1>9, <1>10

\* The header at f, and no other, was given the value v.
Revalued(s, ce, cf, f, v) ==
    /\ SameKeys(s, ce, cf)
    /\ f \in DOMAIN s /\ cf[s[f]].value = v
    /\ \A p \in DOMAIN s : p /= f => cf[s[p]].value = ce[s[p]].value

\* One header's value changed.
LEMMA LinesValued ==
    ASSUME NEW T, NEW s \in Seq(T), NEW ce, NEW cf, NEW f, NEW v, Revalued(s, ce, cf, f, v)
    PROVE  Lines(s, cf) = Valued(Lines(s, ce), f, v)
<1>0. /\ SameKeys(s, ce, cf) /\ f \in DOMAIN s /\ cf[s[f]].value = v
      /\ \A p \in DOMAIN s : p /= f => cf[s[p]].value = ce[s[p]].value
  BY DEF Revalued
<1>1. PICK u : u = Lines(s, ce)
  OBVIOUS
<1>2. PICK w : w = Valued(u, f, v)
  OBVIOUS
<1>3. Paired(u) /\ DOMAIN u = DOMAIN s
  BY <1>1, LinesAre
<1>4. \A p \in DOMAIN s : u[p] = <<ce[s[p]].key, ce[s[p]].value>>
  BY <1>1 DEF Lines
<1>5. /\ Valued(u, f, v)[f] = <<u[f][1], v>>
      /\ DOMAIN Valued(u, f, v) = DOMAIN u
      /\ \A p \in DOMAIN u : p /= f => Valued(u, f, v)[p] = u[p]
  BY <1>0, <1>3, ValuedPaired
<1>6. PICK z : z = Lines(s, cf)
  OBVIOUS
<1>7. /\ DOMAIN z = DOMAIN s /\ z = [p \in DOMAIN s |-> z[p]]
      /\ \A p \in DOMAIN s : z[p] = <<cf[s[p]].key, cf[s[p]].value>>
  BY <1>6 DEF Lines
<1>8. w = [p \in DOMAIN s |-> w[p]]
  <2>1. w = [p \in DOMAIN w |-> w[p]]
    BY <1>2 DEF Valued
  <2> QED BY <1>2, <1>3, <1>5, <2>1
<1>9. ASSUME NEW p \in DOMAIN s PROVE z[p] = w[p]
  <2>1. z[p] = <<ce[s[p]].key, cf[s[p]].value>>
    BY <1>0, <1>7, <1>9 DEF SameKeys
  <2>2. CASE p = f
    <3>1. u[f][1] = ce[s[f]].key
      BY <1>0, <1>4
    <3> QED BY <1>0, <1>2, <1>5, <2>1, <2>2, <3>1
  <2>3. CASE p /= f
    BY <1>0, <1>2, <1>3, <1>4, <1>5, <2>1, <2>3
  <2> QED BY <2>2, <2>3
<1> QED BY <1>1, <1>2, <1>6, <1>7, <1>8, <1>9

\* What a write to the header's value does.
LEMMA WriteRevalues ==
    ASSUME NEW s \in Seq(Slots), \A p, q \in DOMAIN s : s[p] = s[q] => p = q,
           NEW ce \in [Slots -> Cell], NEW cf, NEW f \in DOMAIN s, NEW x, x = s[f], NEW v,
           \/ cf = [ce EXCEPT ![x].value = v]
           \/ \E b : cf = [ce EXCEPT ![x].hash = b, ![x].value = v]
    PROVE  Revalued(s, ce, cf, f, v)
<1>1. \A y \in Slots : cf[y].key = ce[y].key /\ cf[y].value = IF y = x THEN v ELSE ce[y].value
  <2>1. CASE cf = [ce EXCEPT ![x].value = v]
    <3>1. \A y \in Slots :
             /\ [ce EXCEPT ![x].value = v][y].key = ce[y].key
             /\ [ce EXCEPT ![x].value = v][y].value = IF y = x THEN v ELSE ce[y].value
      BY Writes
    <3> QED BY <2>1, <3>1
  <2>2. ASSUME NEW b, cf = [ce EXCEPT ![x].hash = b, ![x].value = v]
        PROVE  \A y \in Slots :
                  cf[y].key = ce[y].key /\ cf[y].value = IF y = x THEN v ELSE ce[y].value
    <3>1. \A y \in Slots :
             /\ [ce EXCEPT ![x].hash = b, ![x].value = v][y].key = ce[y].key
             /\ [ce EXCEPT ![x].hash = b, ![x].value = v][y].value
                    = IF y = x THEN v ELSE ce[y].value
      BY Writes
    <3> QED BY <2>2, <3>1
  <2> QED BY <2>1, <2>2
<1>2. \A p \in DOMAIN s : s[p] \in Slots /\ (p /= f => s[p] /= x)
  OBVIOUS
<1> QED BY <1>1, <1>2 DEF Revalued, SameKeys

\* One header less.
LEMMA LinesRemoved ==
    ASSUME NEW T, NEW s \in Seq(T), NEW t \in Seq(T), NEW p, Lacks(t, s, p),
           NEW ce, NEW cf, SameLines(t, ce, cf)
    PROVE  Lacks(Lines(t, cf), Lines(s, ce), p)
<1>1. /\ p \in 1 .. Len(s) /\ Len(s) \in Nat /\ Len(t) = Len(s) - 1 /\ DOMAIN t = 1 .. Len(t)
      /\ DOMAIN s = 1 .. Len(s) /\ \A q \in 1 .. Len(t) : t[q] = s[Past(p, q)]
  BY DEF Lacks
<1>2. /\ Len(Lines(s, ce)) = Len(s)
      /\ \A q \in DOMAIN s : Lines(s, ce)[q] = <<ce[s[q]].key, ce[s[q]].value>>
  BY LinesAre
<1>3. /\ Len(Lines(t, cf)) = Len(t)
      /\ \A q \in DOMAIN t : Lines(t, cf)[q] = <<cf[t[q]].key, cf[t[q]].value>>
  BY LinesAre
<1>4. ASSUME NEW q \in 1 .. Len(t) PROVE Lines(t, cf)[q] = Lines(s, ce)[Past(p, q)]
  <2>1. Past(p, q) \in DOMAIN s
    BY <1>1, Skips
  <2>2. q \in DOMAIN t /\ t[q] = s[Past(p, q)]
    BY <1>1
  <2>3. cf[t[q]].key = ce[t[q]].key /\ cf[t[q]].value = ce[t[q]].value
    BY <2>2 DEF SameLines
  <2>4. Lines(t, cf)[q] = <<cf[t[q]].key, cf[t[q]].value>>
    BY <1>3, <2>2
  <2>5. Lines(s, ce)[Past(p, q)] = <<ce[s[Past(p, q)]].key, ce[s[Past(p, q)]].value>>
    BY <1>2, <2>1
  <2> QED BY <2>2, <2>3, <2>4, <2>5
<1> QED BY <1>1, <1>2, <1>3, <1>4 DEF Lacks

\* What goes behind the first header leaves it the first.
LEMMA FirstStays ==
    ASSUME NEW T, NEW s \in Seq(T), NEW t \in Seq(T), NEW p, Lacks(t, s, p),
           NEW ce, NEW cf, SameKeys(t, ce, cf), NEW names, NEW f, First(s, ce, names, f), f < p
    PROVE  First(t, cf, names, f) /\ t[f] = s[f]
<1>1. /\ p \in 1 .. Len(s) /\ Len(s) \in Nat /\ Len(t) = Len(s) - 1 /\ DOMAIN t = 1 .. Len(t)
      /\ DOMAIN s = 1 .. Len(s) /\ \A q \in 1 .. Len(t) : t[q] = s[Past(p, q)]
  BY DEF Lacks
<1>2. f \in 1 .. Len(s) /\ ce[s[f]].key \in names /\ \A q \in 1 .. f - 1 : ce[s[q]].key \notin names
  BY <1>1 DEF First
<1>3. ASSUME NEW q \in 1 .. f PROVE q \in DOMAIN t /\ t[q] = s[q] /\ cf[t[q]].key = ce[s[q]].key
  <2>1. q \in 1 .. Len(t) /\ q < p
    BY <1>1, <1>2
  <2>2. t[q] = s[q]
    BY <1>1, <2>1 DEF Past
  <2> QED BY <1>1, <2>1, <2>2 DEF SameKeys
<1>4. f \in 1 .. f /\ \A q \in 1 .. f - 1 : q \in 1 .. f
  BY <1>1, <1>2
<1> QED BY <1>2, <1>3, <1>4 DEF First

\* The value of a header that will go does not matter.
LEMMA ClearedIsPart ==
    ASSUME NEW r \in Rules, NEW u, Paired(u), NEW f \in Hits(r, u), NEW v, Removes(r)
    PROVE  Effect(r, Valued(u, f, v)) = Effect(r, u)
<1>1. f \in DOMAIN u
  BY DEF Hits
<1>2. PICK w : w = Valued(u, f, v)
  OBVIOUS
<1>3. /\ Paired(w) /\ Len(w) = Len(u) /\ DOMAIN w = DOMAIN u /\ Hits(r, w) = Hits(r, u)
      /\ \A p \in DOMAIN u : p /= f => w[p] = u[p]
  BY <1>1, <1>2, ValuedPaired
<1>4. PICK P : P = DOMAIN u \ Hits(r, u)
  OBVIOUS
<1>5. \A p \in 1 .. Len(u) : p \in P => w[p] = u[p]
  BY <1>3, <1>4
<1>6. DOMAIN u = 1 .. Len(u) /\ Len(u) \in Nat
  BY PairedIs
<1>7. Pick(w, P) = Pick(u, P)
  BY <1>3, <1>5, <1>6, PickSame
<1>8. Effect(r, w) = Pick(w, P) /\ Effect(r, u) = Pick(u, P)
  <2>1. PICK T : T = {<<u[p][1], u[p][2]>> : p \in DOMAIN u}
    OBVIOUS
  <2>2. PICK W : W = {<<w[p][1], w[p][2]>> : p \in DOMAIN w}
    OBVIOUS
  <2>3. u \in Seq(T) /\ w \in Seq(W)
    BY <1>3, <2>1, <2>2 DEF Paired
  <2>4. Effect(r, u) = Dropping(u, Hits(r, u))
    BY <2>3, EffectIs
  <2>5. Effect(r, w) = Dropping(w, Hits(r, w))
    BY <2>3, EffectIs
  <2> QED BY <1>3, <1>4, <2>4, <2>5 DEF Dropping
<1> QED BY <1>2, <1>7, <1>8

\* What a rule is about.
LEMMA CoveredIs ==
    ASSUME NEW r \in Rules
    PROVE  /\ r.key \in Builtin => Covered(r) = {r.key}
           /\ r.value /= EMPTY /\ Covered(r) /= {} => Covered(r) = {r.key}
           /\ r.key \in Builtin => r.op /= "append"
           /\ r.key \in Multi => r.key \notin Single
           /\ r.key \in Derived => r.key \in Single
           /\ r.key \in Single \/ r.key \in Multi <=> r.key \in Builtin
<1>1. \A n \in Builtin : n \notin DOMAIN Prefix
  BY NamesAssumption
<1> QED BY <1>1, NamesAssumption DEF Covered, Wildcard, Rules, Builtin, Derived, Single

-----------------------------------------------------------------------------
(* What holds while the rules are carried out. *)

\* The number of headers the loop has been at.
At == Pos(l, part, i)

\* Of the headers the loop has been at, the rule is about the matched one only.
\* That is the first one in the list, it has its value, and it is the local pointer's.
Seen(s, ce, r, at, m, o, x) ==
    /\ r.op /= "append"
    /\ \A p \in 1 .. at : ce[s[p]].key \in Covered(r) =>
          m /= NULL /\ s[p] = m /\ (o = "local" => x = m)
    /\ m /= NULL =>
          /\ Replaces(r) /\ r.key \notin Single
          /\ \E p : First(s, ce, Covered(r), p) /\ s[p] = m /\ ce[m].value = r.value

\* The pointer was left behind.
Lost(s, ce, r, pt) == r.key \in Single /\ pt[r.key] /= NULL /\ None(s, ce, {r.key})

\* What is left to do of the rule is what it was to do at its beginning.
Owed(s, ce, r, pt, lines) ==
    Effect(r, Lines(s, ce)) = Effect(r, lines) \/ (Removes(r) /\ Lost(s, ce, r, pt))

\* The pointers lead to the first headers of the names,
Resting(s, ce, pt) == \A name \in Single : Led(s, ce, name, pt[name])

\* save those that the rule is taking away.
Guiding(s, ce, r, pt) ==
    /\ \A name \in Single : (Removes(r) /\ name \in Covered(r)) \/ Led(s, ce, name, pt[name])
    /\ r.key \in Single => Removes(r) \/ None(s, ce, {r.key})

\* What the handler has done when it calls the helper.
Prepared(r, o, ch, de) ==
    /\ o = IF r.key \in Single THEN "ptr" ELSE IF r.key \in Multi THEN "local" ELSE NULL
    /\ r.key \in Derived => de[r.key] = r.value
    /\ r.key \in Multi => ch[r.key] = << >> /\ ~malformed

\* The header of the rule's name, if the rule leaves one, is in x.
Left(s, ce, r, x) ==
    r.op \in {"set", "clear"} =>
        IF r.value = EMPTY THEN None(s, ce, {r.key}) ELSE Sole(s, ce, r.key, x)

\* The chain is that header.
Chained(s, ce, r, ch) ==
    r.key \in Multi /\ r.op \in {"set", "clear"} =>
        IF r.value = EMPTY THEN ch[r.key] = << >> /\ None(s, ce, {r.key})
        ELSE \E x : ch[r.key] = <<x>> /\ Sole(s, ce, r.key, x)

\* The fields are those of the first header of the name.
Follows(s, ce, r, de) ==
    r.key \in Derived =>
        /\ de[r.key] = r.value
        /\ r.op \in {"set", "clear"} =>
              IF r.value = EMPTY THEN None(s, ce, {r.key})
              ELSE \E p : First(s, ce, {r.key}, p) /\ ce[s[p]].value = r.value

\* The rule has been carried out.
Ended(s, ce, r, pt, ch, de, lines) ==
    \/ Lost(s, ce, r, pt)
    \/ Lines(s, ce) = Effect(r, lines) /\ Chained(s, ce, r, ch) /\ Follows(s, ce, r, de)

\* While the request is read there is no rule, and no pointer without a header.
Receiving ==
    /\ call = NULL
    /\ Resting(Contents(l), cell, ptr)
    /\ \A name \in Single : ptr[name] /= NULL => ~None(Contents(l), cell, {name})

\* Between rules.
Idle ==
    /\ Resting(Contents(l), cell, ptr)
    /\ call /= NULL /\ ~malformed => Ended(Contents(l), cell, call, ptr, chain, derived, before)

\* In the loop.
Scanning ==
    /\ Seen(Contents(l), cell, call, At, matched, out, h)
    /\ Owed(Contents(l), cell, call, ptr, before)
    /\ Guiding(Contents(l), cell, call, ptr)
    /\ Prepared(call, out, chain, derived)

\* Before a header is created.
Making ==
    /\ Resting(Contents(l), cell, ptr)
    /\ Prepared(call, out, chain, derived)
    /\ Creates(call)
    /\ call.key \in Builtin => None(Contents(l), cell, {call.key})
    /\ Effect(call, before) = Append(Lines(Contents(l), cell), <<call.key, call.value>>)

\* Back in the multi handler.
Linking ==
    /\ Resting(Contents(l), cell, ptr)
    /\ call.key \in Multi
    /\ chain[call.key] = << >> /\ ~malformed
    /\ Lines(Contents(l), cell) = Effect(call, before)
    /\ Left(Contents(l), cell, call, h)

\* The invariant of the rules.
Ruled ==
    /\ pc = "receiving" => Receiving
    /\ pc = "idle" => Idle
    /\ pc = "scan" => Scanning
    /\ pc = "create" => Making
    /\ pc = "link" => Linking

\* All that is known of a state.
Known == HInv /\ Types /\ Placed(Contents(l)) /\ Ruled

\* Where the loop is.
LEMMA CursorFacts ==
    ASSUME HInv, pc = "scan"
    PROVE  /\ At \in Nat
           /\ AtEnd => At = Len(Contents(l))
           /\ ~AtEnd => /\ At + 1 \in 1 .. Len(Contents(l))
                        /\ Contents(l)[At + 1] = HereSlot
                        /\ Pos(l, HerePart, Here) = At
                        /\ Pos(l, HerePart, Here + 1) = At + 1
<1>1. Typed(l)
  BY WFFacts DEF HInv, IInv
<1>2. /\ part \in 1 .. Len(l.parts) /\ i \in 0 .. l.parts[part].nelts
      /\ l.parts[part].nelts \in Nat
  BY ListFacts DEF HInv, Cursor
<1>3. PICK k \in 1 .. Len(l.parts), n \in Nat : k = part /\ n = i
  BY <1>2
<1>4. ASSUME AtEnd PROVE At = Len(Contents(l))
  <2>1. k = Len(l.parts) /\ n = l.parts[k].nelts
    BY <1>2, <1>3, <1>4 DEF AtEnd, PartOver, Nelts
  <2> QED BY <1>1, <1>3, <2>1, Positions DEF At
<1>5. ASSUME ~AtEnd
      PROVE  /\ At + 1 \in 1 .. Len(Contents(l))
             /\ Contents(l)[At + 1] = HereSlot
             /\ Pos(l, HerePart, Here) = At
             /\ Pos(l, HerePart, Here + 1) = At + 1
  <2>1. HerePart \in 1 .. Len(l.parts) /\ Here \in 0 .. l.parts[HerePart].nelts - 1
    BY <1>5, LooksAtHeader DEF Looking
  <2>0. PICK j, m : j = HerePart /\ m = Here
    OBVIOUS
  <2>2. j \in 1 .. Len(l.parts) /\ m \in 0 .. l.parts[j].nelts - 1 /\ j = HerePart /\ m = Here
    BY <2>0, <2>1
  <2>3. /\ Pos(l, j, m) + 1 \in 1 .. Len(Contents(l))
        /\ Contents(l)[Pos(l, j, m) + 1] = l.parts[j].elts + m
        /\ Pos(l, j, m) + 1 = Pos(l, j, m + 1)
    BY <1>1, <2>2, Positions
  <2>4. At = Pos(l, k, n)
    BY <1>3 DEF At
  <2>5. Pos(l, j, m) = Pos(l, k, n)
    <3>1. CASE PartOver
      <4>1. j = k + 1 /\ m = 0 /\ n = l.parts[k].nelts
        BY <1>2, <1>3, <2>2, <3>1 DEF PartOver, Nelts, HerePart, Here
      <4>2. Pos(l, k, l.parts[k].nelts) = Pos(l, k + 1, 0)
        BY <1>1, Positions
      <4> QED BY <4>1, <4>2
    <3>2. CASE ~PartOver
      BY <1>3, <2>2, <3>2 DEF HerePart, Here
    <3> QED BY <3>1, <3>2
  <2>6. HereSlot = l.parts[j].elts + m
    BY <2>2 DEF HereSlot
  <2> QED BY <2>2, <2>3, <2>4, <2>5, <2>6
<1>6. At \in Nat
  <2>1. n \in 0 .. l.parts[k].nelts
    BY <1>2, <1>3
  <2>2. Pos(l, k, n) \in 0 .. Len(Contents(l))
    BY <1>1, <2>1, Positions
  <2> QED BY <1>3, <2>2 DEF At
<1> QED BY <1>4, <1>5, <1>6

\* Where it begins.
LEMMA CursorStart == ASSUME IInv', part' = 1, i' = 0 PROVE At' = 0
<1>1. Typed(l') /\ 1 \in 1 .. Len(l'.parts)
  <2>1. Typed(l') /\ Len(l'.parts) >= 1
    BY WFFacts DEF IInv
  <2> QED BY <2>1 DEF Typed
<1>2. Pos(l', 1, 0) = 0
  BY <1>1, Positions
<1> QED BY <1>2 DEF At

\* The list of the headers, in slots.
LEMMA KnownFacts ==
    ASSUME Known
    PROVE  /\ Contents(l) \in Seq(Slots)
           /\ \A p, q \in DOMAIN Contents(l) : Contents(l)[p] = Contents(l)[q] => p = q
           /\ cell \in [Slots -> Cell]
           /\ DOMAIN Contents(l) = 1 .. Len(Contents(l)) /\ Len(Contents(l)) \in Nat
           /\ Headers = Lines(Contents(l), cell)
<1>1. Contents(l) \in Seq(Slots) /\ cell \in [Slots -> Cell]
  BY DEF Known, Placed, Types, FieldTypes, Slots
<1>2. DOMAIN Contents(l) = 1 .. Len(Contents(l)) /\ Len(Contents(l)) \in Nat
  BY <1>1
<1>3. Headers = Lines(Contents(l), cell)
  BY DEF Headers, Header, Lines
<1> QED BY <1>1, <1>2, <1>3 DEF Known, Placed

\* What is known of the rule where one is carried out.
LEMMA RunningRule ==
    ASSUME Known, pc \in {"scan", "create", "link"}
    PROVE  call \in Rules
  BY DEF Known, Types, LocalTypes

\* A turn that finds nothing.
LEMMA MissRuled ==
    ASSUME Known, Miss PROVE Ruled'
<1>1. /\ pc = "scan" /\ ~AtEnd /\ ~Matches /\ GoOn
      /\ UNCHANGED <<l, cell, malformed, ptr, chain, derived, pc, call, out, matched, h, before>>
  BY DEF Miss, Looking, vars, field_vars
<1>2. PICK s : s = Contents(l)
  OBVIOUS
<1>3. PICK n : n = At
  OBVIOUS
<1>4. n + 1 \in 1 .. Len(s) /\ s[n + 1] = HereSlot /\ At' = n + 1
  <2>1. /\ At + 1 \in 1 .. Len(Contents(l))
        /\ Contents(l)[At + 1] = HereSlot
        /\ Pos(l, HerePart, Here + 1) = At + 1
    BY <1>1, CursorFacts DEF Known
  <2>2. At' = Pos(l, HerePart, Here + 1)
    BY <1>1 DEF At, GoOn
  <2> QED BY <1>2, <1>3, <2>1, <2>2
<1>5. Scanning
  BY <1>1 DEF Known, Ruled
<1>6. Seen(s, cell, call, n, matched, out, h)
  BY <1>2, <1>3, <1>5 DEF Scanning
<1>7. Seen(s, cell, call, n + 1, matched, out, h)
  <2>1. cell[s[n + 1]].key \notin Covered(call)
    BY <1>1, <1>4 DEF Matches
  <2>2. n \in Nat
    BY <1>1, <1>3, CursorFacts DEF Known
  <2>3. \A p \in 1 .. n + 1 : p \in 1 .. n \/ p = n + 1
    BY <2>2
  <2> QED BY <1>6, <2>1, <2>3 DEF Seen
<1>8. Scanning'
  BY <1>1, <1>2, <1>4, <1>5, <1>7 DEF Scanning, Prepared
<1> QED BY <1>1, <1>8 DEF Ruled

\* There is a header, and nothing to add.
LEMMA AddNothingRuled ==
    ASSUME Known, AddNothing PROVE Ruled'
<1>1. /\ pc = "scan" /\ ~AtEnd /\ Matches /\ call.op = "add" /\ Return
      /\ UNCHANGED <<l, cell, malformed, ptr, chain, derived, call, h, before>>
  BY DEF AddNothing, Looking, vars, field_vars
<1>2. PICK s : s = Contents(l)
  OBVIOUS
<1>3. Scanning /\ call \in Rules
  BY <1>1, RunningRule DEF Known, Ruled
<1>4. s \in Seq(Slots) /\ At + 1 \in DOMAIN s /\ s[At + 1] = HereSlot
  BY <1>1, <1>2, CursorFacts, KnownFacts DEF Known
<1>5. cell[s[At + 1]].key \in Covered(call)
  BY <1>1, <1>4 DEF Matches
<1>6. ~Removes(call)
  BY <1>1 DEF Removes
<1>7. call.key \notin Single
  <2>1. SUFFICES ASSUME call.key \in Single PROVE FALSE
    OBVIOUS
  <2>2. None(s, cell, {call.key})
    BY <1>2, <1>3, <1>6, <2>1 DEF Scanning, Guiding
  <2>3. Covered(call) = {call.key}
    BY <1>3, <2>1, CoveredIs
  <2> QED BY <1>4, <1>5, <2>2, <2>3 DEF None
<1>8. Lines(s, cell) = Effect(call, before)
  <2>1. Effect(call, Lines(s, cell)) = Effect(call, before)
    BY <1>2, <1>3, <1>6 DEF Scanning, Owed
  <2>2. At + 1 \in Hits(call, Lines(s, cell))
    BY <1>4, <1>5, LinesAre
  <2>3. PICK u, T : u = Lines(s, cell) /\ T = {<<u[p][1], u[p][2]>> : p \in DOMAIN u}
    OBVIOUS
  <2>4. u \in Seq(T)
    BY <1>4, <2>3, LinesAre DEF Paired
  <2>5. Effect(call, u) = u
    BY <1>1, <1>3, <2>2, <2>3, <2>4, EffectIs
  <2> QED BY <2>1, <2>3, <2>5
<1>9. Resting(s, cell, ptr)
  BY <1>2, <1>3, <1>6 DEF Scanning, Guiding, Resting
<1>10. call.key \notin Derived
  BY <1>3, <1>7, CoveredIs
<1>11. Ended(s, cell, call, ptr, chain, derived, before)
  BY <1>1, <1>8, <1>10 DEF Ended, Chained, Follows
<1>12. CASE out = "local"
  <2>1. call.key \in Multi /\ chain[call.key] = << >> /\ ~malformed
    <3>1. "local" /= "ptr" /\ "local" /= NULL
      BY NullAssumption
    <3> QED BY <1>3, <1>12, <3>1 DEF Scanning, Prepared
  <2>2. Left(s, cell, call, h)
    BY <1>1 DEF Left
  <2>3. Linking' /\ pc' = "link"
    BY <1>1, <1>2, <1>8, <1>9, <1>12, <2>1, <2>2 DEF Linking, Return
  <2> QED BY <2>3 DEF Ruled
<1>13. CASE out /= "local"
  <2>1. Idle' /\ pc' = "idle"
    BY <1>1, <1>2, <1>9, <1>11, <1>13 DEF Idle, Return
  <2> QED BY <2>1 DEF Ruled
<1> QED BY <1>12, <1>13

\* The first header takes the value.
LEMMA TakeValueRuled ==
    ASSUME Known, TakeValue PROVE Ruled'
<1>1. /\ pc = "scan" /\ ~AtEnd /\ Matches /\ call.op /= "add" /\ ~Superfluous /\ GoOn
      /\ cell' = [cell EXCEPT ![HereSlot].value = call.value]
      /\ Output(HereSlot) /\ matched' = HereSlot
      /\ UNCHANGED <<l, malformed, chain, derived, pc, call, out, before>>
  BY DEF TakeValue, Looking, vars
<1>2. PICK s, ce, cf : s = Contents(l) /\ ce = cell /\ cf = cell'
  OBVIOUS
<1>3. PICK f : f = At + 1
  OBVIOUS
<1>4. Scanning /\ call \in Rules
  BY <1>1, RunningRule DEF Known, Ruled
<1>5. /\ s \in Seq(Slots) /\ DOMAIN s = 1 .. Len(s) /\ Len(s) \in Nat
      /\ \A p, q \in DOMAIN s : s[p] = s[q] => p = q
      /\ ce \in [Slots -> Cell]
  BY <1>2, KnownFacts
<1>6. /\ At \in Nat /\ f \in 1 .. Len(s) /\ s[f] = HereSlot /\ At' = f
      /\ s[f] \in Slots
  <2>1. /\ At \in Nat /\ At + 1 \in 1 .. Len(Contents(l))
        /\ Contents(l)[At + 1] = HereSlot
        /\ Pos(l, HerePart, Here + 1) = At + 1
    BY <1>1, CursorFacts DEF Known
  <2>2. At' = Pos(l, HerePart, Here + 1)
    BY <1>1 DEF At, GoOn
  <2> QED BY <1>2, <1>3, <1>5, <2>1, <2>2
<1>7. ce[s[f]].key \in Covered(call)
  BY <1>1, <1>2, <1>6 DEF Matches
<1>8. Replaces(call) /\ ~Removes(call) /\ (matched = NULL \/ matched = s[f])
  <2>1. call.value /= EMPTY /\ (matched = NULL \/ matched = HereSlot)
    BY <1>1 DEF Superfluous
  <2>2. call.op \in {"set", "clear", "rewrite"}
    BY <1>1, <1>4, OneKind DEF Scanning, Seen
  <2> QED BY <1>4, <1>6, <2>1, <2>2, OneKind DEF Removes
<1>9. First(s, ce, Covered(call), f)
  <2>1. Seen(s, ce, call, At, matched, out, h)
    BY <1>2, <1>4 DEF Scanning
  <2>2. CASE matched = NULL
    <3>1. \A p \in 1 .. f - 1 : p \in 1 .. At
      BY <1>3, <1>6
    <3> QED BY <1>5, <1>6, <1>7, <2>1, <2>2, <3>1 DEF First, Seen
  <2>3. CASE matched = s[f] /\ matched /= NULL
    <3>1. PICK p : First(s, ce, Covered(call), p) /\ s[p] = s[f]
      BY <2>1, <2>3 DEF Seen
    <3>2. p = f
      BY <1>5, <1>6, <3>1 DEF First
    <3> QED BY <3>1, <3>2
  <2> QED BY <1>8, <2>2, <2>3
<1>10. call.key \notin Single /\ out /= "ptr"
  <2>1. call.key \notin Single
    <3>1. SUFFICES ASSUME call.key \in Single PROVE FALSE
      OBVIOUS
    <3>2. None(s, ce, {call.key})
      BY <1>2, <1>4, <1>8, <3>1 DEF Scanning, Guiding
    <3>3. Covered(call) = {call.key}
      BY <1>4, <3>1, CoveredIs
    <3> QED BY <1>5, <1>6, <1>7, <3>2, <3>3 DEF None
  <2>2. out /= "ptr"
    BY <1>4, <2>1, NullAssumption DEF Scanning, Prepared
  <2> QED BY <2>1, <2>2
<1>11. Revalued(s, ce, cf, f, call.value) /\ SameKeys(s, ce, cf)
  <2>1. f \in DOMAIN s /\ cf = [ce EXCEPT ![s[f]].value = call.value]
    BY <1>1, <1>2, <1>5, <1>6
  <2>2. PICK x, v : x = s[f] /\ v = call.value
    OBVIOUS
  <2>3. Revalued(s, ce, cf, f, v)
    BY <1>5, <2>1, <2>2, WriteRevalues
  <2> QED BY <2>2, <2>3 DEF Revalued
<1>12. Owed(s, cf, call, ptr', before)
  <2>1. PICK u, w : u = Lines(s, ce) /\ w = Lines(s, cf)
    OBVIOUS
  <2>2. Paired(u) /\ Hits(call, u) = {p \in DOMAIN s : ce[s[p]].key \in Covered(call)}
    BY <1>5, <2>1, LinesAre
  <2>3. FirstHit(call, u, f)
    <3>1. f \in Hits(call, u)
      BY <1>5, <1>6, <1>7, <2>2
    <3>2. ASSUME NEW q \in Hits(call, u) PROVE f <= q
      <4>1. q \in 1 .. Len(s) /\ ~(q \in 1 .. f - 1)
        BY <1>5, <1>9, <2>2 DEF First
      <4> QED BY <1>5, <1>6, <4>1
    <3> QED BY <3>1, <3>2 DEF FirstHit
  <2>4. w = Valued(u, f, call.value)
    BY <1>5, <1>11, <2>1, LinesValued
  <2>5. Effect(call, w) = Effect(call, u)
    BY <1>4, <1>8, <2>2, <2>3, <2>4, TakenIsPart
  <2>6. Effect(call, u) = Effect(call, before)
    BY <1>2, <1>4, <1>8, <2>1 DEF Scanning, Owed
  <2> QED BY <2>1, <2>5, <2>6 DEF Owed
<1>13. Seen(s, cf, call, f, matched', out, h')
  <2>1. SameKeys(s, ce, cf) /\ First(s, cf, Covered(call), f)
    BY <1>5, <1>9, <1>11, KeysKept
  <2>2. matched' = s[f] /\ matched' /= NULL
    <3>1. s[f] \in Nat
      BY <1>6 DEF Slots
    <3> QED BY <1>1, <1>6, <3>1, NullAssumption
  <2>3. ASSUME NEW p \in 1 .. f, cf[s[p]].key \in Covered(call) PROVE p = f
    BY <1>6, <2>1, <2>3 DEF First
  <2>4. out = "local" => h' = s[f]
    BY <1>1, <1>6 DEF Output
  <2>5. call.op /= "append"
    BY <1>4 DEF Scanning, Seen
  <2>6. cf[s[f]].value = call.value
    BY <1>11 DEF Revalued
  <2> QED BY <1>8, <1>10, <2>1, <2>2, <2>3, <2>4, <2>5, <2>6 DEF Seen
<1>14. Guiding(s, cf, call, ptr')
  <2>1. ptr' = ptr
    BY <1>1, <1>10 DEF Output
  <2>2. \A name \in Single : Led(s, ce, name, ptr[name])
    BY <1>2, <1>4, <1>8 DEF Scanning, Guiding
  <2>3. \A name \in Single : Led(s, cf, name, ptr'[name])
    BY <1>5, <1>11, <2>1, <2>2, KeysKept
  <2> QED BY <1>10, <2>3 DEF Guiding
<1>15. Scanning'
  <2>1. Prepared(call, out, chain, derived)'
    BY <1>1, <1>4 DEF Scanning, Prepared
  <2> QED BY <1>1, <1>2, <1>6, <1>12, <1>13, <1>14, <2>1 DEF Scanning
<1> QED BY <1>1, <1>15 DEF Ruled

\* A header is taken out.
LEMMA RemoveHeaderRuled ==
    ASSUME Known, HInv', Placed(Contents(l')), RemoveHeader PROVE Ruled'
<1>1. /\ pc = "scan" /\ ~AtEnd /\ Matches /\ call.op /= "add" /\ Superfluous
      /\ cell' = [cell EXCEPT ![HereSlot].hash = FALSE]
      /\ Rm(HerePart, Here) \/ RmGrow(HerePart, Here)
      /\ Output(NULL) /\ part' = 1 /\ i' = 0
      /\ UNCHANGED <<malformed, chain, derived, pc, call, out, matched, before>>
  BY DEF RemoveHeader, BeginRemoval, Looking
<1>2. PICK s, t, ce, cf : s = Contents(l) /\ t = Contents(l') /\ ce = cell /\ cf = cell'
  OBVIOUS
<1>3. PICK f : f = At + 1
  OBVIOUS
<1>4. Scanning /\ call \in Rules
  BY <1>1, RunningRule DEF Known, Ruled
<1>5. /\ s \in Seq(Slots) /\ DOMAIN s = 1 .. Len(s) /\ Len(s) \in Nat
      /\ \A p, q \in DOMAIN s : s[p] = s[q] => p = q
      /\ ce \in [Slots -> Cell]
      /\ t \in Seq(Slots)
  BY <1>2, KnownFacts DEF Placed, Slots
<1>6. f \in DOMAIN s /\ s[f] = HereSlot /\ Lacks(t, s, f)
  <2>1. /\ At + 1 \in 1 .. Len(Contents(l))
        /\ Contents(l)[At + 1] = HereSlot
        /\ Pos(l, HerePart, Here) = At
    BY <1>1, CursorFacts DEF Known
  <2>2. HerePart \in 1 .. Len(l.parts) /\ Here \in 0 .. l.parts[HerePart].nelts - 1
    BY <1>1, LooksAtHeader DEF Looking, Known
  <2>3. Lacks(Contents(l'), Contents(l), Pos(l, HerePart, Here) + 1)
    BY <1>1, <2>2, RmTakesOut DEF Known, HInv
  <2> QED BY <1>2, <1>3, <1>5, <2>1, <2>3
<1>7. ce[s[f]].key \in Covered(call)
  BY <1>1, <1>2, <1>6 DEF Matches
<1>8. SameLines(t, ce, cf) /\ SameKeys(t, ce, cf)
  <2>1. cf = [ce EXCEPT ![HereSlot].hash = FALSE]
    BY <1>1, <1>2
  <2>2. PICK x, b : x = HereSlot /\ b = FALSE
    OBVIOUS
  <2>3. \A y \in Slots : /\ [ce EXCEPT ![x].hash = b][y].key = ce[y].key
                         /\ [ce EXCEPT ![x].hash = b][y].value = ce[y].value
    BY <1>5, Writes
  <2>4. \A y \in Slots : cf[y].key = ce[y].key /\ cf[y].value = ce[y].value
    BY <2>1, <2>2, <2>3
  <2>5. \A p \in DOMAIN t : t[p] \in Slots
    BY <1>5
  <2> QED BY <2>4, <2>5 DEF SameLines, SameKeys
<1>9. \/ Removes(call)
      \/ /\ Replaces(call) /\ call.key \notin Single
         /\ \E p : First(s, ce, Covered(call), p) /\ s[p] = matched /\ p < f
  <2>1. CASE call.value = EMPTY
    <3>1. call.op \in {"set", "clear", "rewrite"}
      BY <1>1, <1>4, OneKind DEF Scanning, Seen
    <3> QED BY <2>1, <3>1 DEF Removes
  <2>2. CASE call.value /= EMPTY
    <3>1. matched /= NULL /\ matched /= s[f]
      BY <1>1, <1>6, <2>2 DEF Superfluous
    <3>2. Replaces(call) /\ call.key \notin Single
      BY <1>4, <3>1 DEF Scanning, Seen
    <3>3. PICK p : First(s, ce, Covered(call), p) /\ s[p] = matched
      BY <1>2, <1>4, <3>1 DEF Scanning, Seen
    <3>4. p /= f /\ p \in 1 .. Len(s) /\ ~(f \in 1 .. p - 1)
      BY <1>5, <1>7, <3>1, <3>3 DEF First
    <3>5. p < f
      BY <1>5, <1>6, <3>4
    <3> QED BY <3>2, <3>3, <3>5
  <2> QED BY <2>1, <2>2
<1>10. Owed(t, cf, call, ptr', before)
  <2>1. PICK u, w : u = Lines(s, ce) /\ w = Lines(t, cf)
    OBVIOUS
  <2>2. Paired(u) /\ Hits(call, u) = {p \in DOMAIN s : ce[s[p]].key \in Covered(call)} /\ Paired(w)
    BY <1>5, <2>1, LinesAre
  <2>3. Lacks(w, u, f)
    BY <1>5, <1>6, <1>8, <2>1, LinesRemoved
  <2>4. f \in Hits(call, u)
    BY <1>6, <1>7, <2>2
  <2>5. Removes(call) \/ (Replaces(call) /\ call.key \notin Single /\ ~FirstHit(call, u, f))
    <3>1. ASSUME NEW p, First(s, ce, Covered(call), p), p < f PROVE ~FirstHit(call, u, f)
      <4>1. p \in Hits(call, u) /\ p \in 1 .. Len(s)
        BY <1>5, <2>2, <3>1 DEF First
      <4>2. ~(f <= p)
        BY <1>5, <1>6, <3>1, <4>1
      <4> QED BY <4>1, <4>2 DEF FirstHit
    <3> QED BY <1>9, <3>1
  <2>6. Effect(call, w) = Effect(call, u)
    BY <1>4, <2>2, <2>3, <2>4, <2>5, RemovedIsPart
  <2>7. ~Lost(s, ce, call, ptr)
    <3>1. SUFFICES ASSUME Lost(s, ce, call, ptr) PROVE FALSE
      OBVIOUS
    <3>2. call.key \in Single /\ None(s, ce, {call.key})
      BY <3>1 DEF Lost
    <3>3. Covered(call) = {call.key}
      BY <1>4, <3>2, CoveredIs
    <3> QED BY <1>6, <1>7, <3>2, <3>3 DEF None
  <2>8. Effect(call, u) = Effect(call, before)
    BY <1>2, <1>4, <2>1, <2>7 DEF Scanning, Owed
  <2> QED BY <2>1, <2>6, <2>8 DEF Owed
<1>11. Seen(t, cf, call, 0, matched, out, h')
  <2>1. call.op /= "append"
    BY <1>4 DEF Scanning, Seen
  <2>2. ASSUME matched /= NULL
        PROVE  /\ Replaces(call) /\ call.key \notin Single
               /\ \E p : First(t, cf, Covered(call), p) /\ t[p] = matched
                         /\ cf[matched].value = call.value
    <3>1. /\ Replaces(call) /\ call.key \notin Single /\ ce[matched].value = call.value
          /\ ~Removes(call)
      BY <1>2, <1>4, <2>2, OneKind DEF Scanning, Seen
    <3>2. PICK p : First(s, ce, Covered(call), p) /\ s[p] = matched /\ p < f
      BY <1>9, <3>1
    <3>3. First(t, cf, Covered(call), p) /\ t[p] = matched
      BY <1>5, <1>6, <1>8, <3>2, FirstStays
    <3>4. cf[matched].value = ce[matched].value
      BY <1>8, <3>3 DEF First, SameLines
    <3> QED BY <3>1, <3>3, <3>4
  <2> QED BY <2>1, <2>2 DEF Seen
<1>12. Guiding(t, cf, call, ptr')
  <2>1. ASSUME NEW name \in Single, ~(Removes(call) /\ name \in Covered(call))
        PROVE  Led(t, cf, name, ptr'[name])
    <3>1. Led(s, ce, name, ptr[name])
      BY <1>2, <1>4, <2>1 DEF Scanning, Guiding
    <3>2. ce[s[f]].key /= name
      <4>1. CASE Removes(call)
        BY <1>7, <2>1, <4>1
      <4>2. CASE ~Removes(call)
        <5>1. Replaces(call) /\ call.key \notin Single
          BY <1>9, <4>2
        <5>2. Covered(call) = {call.key}
          BY <1>4, <1>7, <5>1, CoveredIs, OneKind
        <5> QED BY <1>7, <2>1, <5>1, <5>2
      <4> QED BY <4>1, <4>2
    <3>3. Led(t, ce, name, ptr[name])
      BY <1>5, <1>6, <3>1, <3>2, OtherRemoved
    <3>4. Led(t, cf, name, ptr[name])
      <4>1. DOMAIN t = 1 .. Len(t) /\ Len(t) \in Nat
        BY <1>5
      <4> QED BY <1>8, <3>3, <4>1, KeysKept
    <3>5. ptr'[name] = ptr[name]
      <4>1. CASE out = "ptr"
        <5>1. call.key \in Single
          BY <1>4, <4>1, NullAssumption DEF Scanning, Prepared
        <5>2. Removes(call) /\ Covered(call) = {call.key}
          BY <1>4, <1>9, <5>1, CoveredIs
        <5>3. name /= call.key
          BY <2>1, <5>2
        <5> QED BY <1>1, <4>1, <5>3 DEF Output
      <4>2. CASE out /= "ptr"
        BY <1>1, <4>2 DEF Output
      <4> QED BY <4>1, <4>2
    <3> QED BY <3>4, <3>5
  <2>2. call.key \in Single => Removes(call)
    BY <1>9
  <2> QED BY <2>1, <2>2 DEF Guiding
<1>13. Scanning'
  <2>1. Prepared(call, out, chain, derived)'
    BY <1>1, <1>4 DEF Scanning, Prepared
  <2>2. At' = 0
    BY <1>1, CursorStart DEF HInv
  <2> QED BY <1>1, <1>2, <1>10, <1>11, <1>12, <2>1, <2>2 DEF Scanning
<1> QED BY <1>1, <1>13 DEF Ruled

\* The loop is over; the header it matched, or none, is what there is.
LEMMA FoundRuled ==
    ASSUME Known, Found PROVE Ruled'
<1>1. /\ pc = "scan" /\ AtEnd /\ Return
      /\ matched /= NULL \/ call.value = EMPTY \/ call.op = "rewrite"
      /\ UNCHANGED <<l, cell, malformed, ptr, chain, derived, call, h, before>>
  BY DEF Found, vars, field_vars
<1>2. PICK s, ce : s = Contents(l) /\ ce = cell
  OBVIOUS
<1>3. Scanning /\ call \in Rules
  BY <1>1, RunningRule DEF Known, Ruled
<1>4. /\ s \in Seq(Slots) /\ DOMAIN s = 1 .. Len(s) /\ Len(s) \in Nat
      /\ \A p, q \in DOMAIN s : s[p] = s[q] => p = q
      /\ At = Len(s)
  BY <1>1, <1>2, KnownFacts, CursorFacts DEF Known
<1>5. Seen(s, ce, call, Len(s), matched, out, h)
  BY <1>2, <1>3, <1>4 DEF Scanning
<1>6. PICK u : u = Lines(s, ce)
  OBVIOUS
<1>7. Paired(u) /\ Hits(call, u) = {p \in DOMAIN s : ce[s[p]].key \in Covered(call)}
      /\ \A p \in DOMAIN s : u[p] = <<ce[s[p]].key, ce[s[p]].value>>
  BY <1>4, <1>6, LinesAre
<1>8. call.key \in Multi => /\ out = "local" /\ call.key \notin Single
                            /\ chain[call.key] = << >> /\ ~malformed
  BY <1>3, CoveredIs DEF Scanning, Prepared
<1>9. out = "local" => call.key \in Multi
  BY <1>3, NullAssumption DEF Scanning, Prepared
<1>10. call.key \in Derived => derived[call.key] = call.value
  BY <1>3 DEF Scanning, Prepared
<1>11. /\ Resting(s, ce, ptr)
       /\ Lost(s, ce, call, ptr) \/ u = Effect(call, before)
       /\ call.key \in Multi => Left(s, ce, call, h)
       /\ Follows(s, ce, call, derived)
  <2>1. CASE matched /= NULL
    <3>1. Replaces(call) /\ ~Removes(call) /\ call.key \notin Single
      BY <1>3, <1>5, <2>1, OneKind DEF Seen
    <3>2. PICK f : First(s, ce, Covered(call), f) /\ s[f] = matched /\ ce[matched].value = call.value
      BY <1>5, <2>1 DEF Seen
    <3>3. Covered(call) = {call.key}
      BY <1>3, <3>1, <3>2, CoveredIs, OneKind DEF First
    <3>4. \A q \in DOMAIN s : ce[s[q]].key = call.key <=> q = f
      <4>1. ASSUME NEW q \in DOMAIN s, ce[s[q]].key = call.key PROVE q = f
        <5>1. s[q] = matched
          BY <1>4, <1>5, <3>3, <4>1 DEF Seen
        <5> QED BY <1>4, <3>2, <5>1 DEF First
      <4> QED BY <3>2, <3>3, <4>1 DEF First
    <3>5. f \in DOMAIN s /\ Hits(call, u) = {f} /\ u[f][2] = call.value
      BY <1>7, <3>2, <3>3, <3>4 DEF First
    <3>6. Effect(call, u) = u
      BY <1>3, <1>7, <3>1, <3>5, EffectDone
    <3>7. u = Effect(call, before)
      BY <1>2, <1>3, <1>6, <3>1, <3>6 DEF Scanning, Owed
    <3>8. Resting(s, ce, ptr)
      BY <1>2, <1>3, <3>1 DEF Scanning, Guiding, Resting
    <3>9. call.key \in Multi => Left(s, ce, call, h)
      <4>1. call.key \in Multi => h = matched
        BY <1>5, <1>8, <1>4, <3>2 DEF Seen, First
      <4>2. call.value /= EMPTY
        BY <1>3, <3>1, OneKind
      <4> QED BY <3>2, <3>4, <3>5, <4>1, <4>2 DEF Left, Sole
    <3>10. Follows(s, ce, call, derived)
      BY <1>3, <3>1, CoveredIs DEF Follows
    <3> QED BY <3>7, <3>8, <3>9, <3>10
  <2>2. CASE matched = NULL
    <3>1. None(s, ce, Covered(call))
      BY <1>4, <1>5, <2>2 DEF Seen, None
    <3>2. Hits(call, u) = {}
      BY <1>7, <3>1 DEF None
    <3>3. ~Creates(call)
      BY <1>1, <1>5, <2>2 DEF Creates, Seen
    <3>4. Effect(call, u) = u
      <4>1. PICK T : T = {<<u[p][1], u[p][2]>> : p \in DOMAIN u}
        OBVIOUS
      <4>2. u \in Seq(T)
        BY <1>7, <4>1 DEF Paired
      <4> QED BY <1>3, <3>2, <3>3, <4>2, EffectIs
    <3>5. Lost(s, ce, call, ptr) \/ u = Effect(call, before)
      BY <1>2, <1>3, <1>6, <3>4 DEF Scanning, Owed
    <3>6. Resting(s, ce, ptr)
      <4>1. ASSUME NEW name \in Single PROVE Led(s, ce, name, ptr[name])
        <5>1. CASE name \in Covered(call)
          BY <3>1, <5>1 DEF None, Led, First
        <5>2. CASE name \notin Covered(call)
          BY <1>2, <1>3, <5>2 DEF Scanning, Guiding
        <5> QED BY <5>1, <5>2
      <4> QED BY <4>1 DEF Resting
    <3>7. call.op \in {"set", "clear"} => call.value = EMPTY
      BY <1>1, <2>2
    <3>8. call.key \in Builtin => None(s, ce, {call.key})
      BY <1>3, <3>1, CoveredIs
    <3>9. call.key \in Multi => Left(s, ce, call, h)
      BY <1>3, <3>7, <3>8, CoveredIs DEF Left
    <3>10. Follows(s, ce, call, derived)
      BY <1>3, <1>10, <3>7, <3>8, CoveredIs DEF Follows
    <3> QED BY <3>5, <3>6, <3>9, <3>10
  <2> QED BY <2>1, <2>2
<1>12. CASE out = "local"
  <2>1. ~Lost(s, ce, call, ptr)
    BY <1>8, <1>9, <1>12 DEF Lost
  <2>2. Linking' /\ pc' = "link"
    BY <1>1, <1>2, <1>6, <1>8, <1>9, <1>11, <1>12, <2>1 DEF Linking, Return
  <2> QED BY <2>2 DEF Ruled
<1>13. CASE out /= "local"
  <2>1. Ended(s, ce, call, ptr, chain, derived, before)
    BY <1>6, <1>8, <1>11, <1>13 DEF Ended, Chained
  <2>2. Idle' /\ pc' = "idle"
    BY <1>1, <1>2, <1>11, <1>13, <2>1 DEF Idle, Return
  <2> QED BY <2>2 DEF Ruled
<1> QED BY <1>12, <1>13

\* The loop is over, and there is no header.
LEMMA NotFoundRuled ==
    ASSUME Known, NotFound PROVE Ruled'
<1>1. /\ pc = "scan" /\ AtEnd /\ pc' = "create"
      /\ matched = NULL /\ call.value /= EMPTY /\ call.op /= "rewrite"
      /\ UNCHANGED <<l, cell, malformed, ptr, chain, derived, call, out, before>>
  BY DEF NotFound, vars, field_vars, local_vars
<1>2. PICK s, ce : s = Contents(l) /\ ce = cell
  OBVIOUS
<1>3. Scanning /\ call \in Rules
  BY <1>1, RunningRule DEF Known, Ruled
<1>4. s \in Seq(Slots) /\ DOMAIN s = 1 .. Len(s) /\ Len(s) \in Nat /\ At = Len(s)
  BY <1>1, <1>2, KnownFacts, CursorFacts DEF Known
<1>5. None(s, ce, Covered(call)) /\ call.op /= "append"
  BY <1>1, <1>2, <1>3, <1>4 DEF Scanning, Seen, None
<1>6. Creates(call) /\ ~Removes(call)
  <2>1. call.op \in {"set", "add"}
    BY <1>1, <1>3, <1>5 DEF Rules
  <2> QED BY <1>1, <2>1 DEF Creates, Removes
<1>7. Effect(call, before) = Append(Lines(s, ce), <<call.key, call.value>>)
  <2>1. PICK u, T : u = Lines(s, ce) /\ T = {<<u[p][1], u[p][2]>> : p \in DOMAIN u}
    OBVIOUS
  <2>2. u \in Seq(T) /\ Hits(call, u) = {p \in DOMAIN s : ce[s[p]].key \in Covered(call)}
    BY <1>4, <2>1, LinesAre DEF Paired
  <2>3. Hits(call, u) = {}
    BY <1>5, <2>2 DEF None
  <2>4. Effect(call, u) = Append(u, <<call.key, call.value>>)
    BY <1>3, <1>6, <2>2, <2>3, EffectIs
  <2>5. Effect(call, u) = Effect(call, before)
    BY <1>2, <1>3, <1>6, <2>1 DEF Scanning, Owed
  <2> QED BY <2>1, <2>4, <2>5
<1>8. Resting(s, ce, ptr)
  BY <1>2, <1>3, <1>6 DEF Scanning, Guiding, Resting
<1>9. call.key \in Builtin => None(s, ce, {call.key})
  BY <1>3, <1>5, CoveredIs
<1>10. Making'
  BY <1>1, <1>2, <1>3, <1>6, <1>7, <1>8, <1>9 DEF Making, Scanning, Prepared
<1> QED BY <1>1, <1>10 DEF Ruled

\* What a push adds to the list, and that it disturbs nothing in it.
LEMMA Pushed ==
    ASSUME Known, Placed(Contents(l')), NEW key, NEW value, PushHeader(key, value),
           NEW s, s = Contents(l), NEW t, t = Contents(l'), NEW x, x = PushSlot(l, brk),
           NEW ce, ce = cell, NEW cf, cf = cell'
    PROVE  /\ t = Append(s, x) /\ x \in Slots /\ s \in Seq(Slots)
           /\ SameLines(s, ce, cf) /\ SameKeys(s, ce, cf)
           /\ cf[x].key = key /\ cf[x].value = value
           /\ Lines(t, cf) = Append(Lines(s, ce), <<key, value>>)
<1>1. /\ s \in Seq(Slots) /\ DOMAIN s = 1 .. Len(s) /\ Len(s) \in Nat
      /\ ce \in [Slots -> Cell] /\ t \in Seq(Slots)
      /\ \A p, q \in DOMAIN t : t[p] = t[q] => p = q
  BY KnownFacts DEF Placed, Slots
<1>2. t = Append(s, x)
  <2>1. Push \/ PushGrow
    BY DEF PushHeader
  <2> QED BY <2>1, PushAppends DEF Known, HInv
<1>3. x \in Slots /\ \A p \in DOMAIN s : s[p] /= x
  <2>1. PICK n \in Nat : n = Len(s)
    BY <1>1
  <2>2. /\ DOMAIN t = 1 .. n + 1 /\ t[n + 1] = x /\ \A p \in 1 .. n : t[p] = s[p]
    BY <1>1, <1>2, <2>1
  <2>3. n + 1 \in DOMAIN t /\ \A p \in 1 .. n : p \in DOMAIN t /\ p /= n + 1
    BY <2>2
  <2> QED BY <1>1, <2>1, <2>2, <2>3
<1>4. PICK c : c = [key |-> key, value |-> value, hash |-> value /= EMPTY]
  OBVIOUS
<1>5. cf = [ce EXCEPT ![x] = c]
  BY <1>4 DEF PushHeader
<1>6. cf[x] = c /\ \A y \in Slots : y /= x => cf[y] = ce[y]
  BY <1>1, <1>3, <1>5
<1>7. \A p \in DOMAIN s : s[p] \in Slots
  BY <1>1
<1>8. SameLines(s, ce, cf) /\ SameKeys(s, ce, cf)
  BY <1>3, <1>6, <1>7 DEF SameLines, SameKeys
<1>9. cf[x].key = key /\ cf[x].value = value
  BY <1>4, <1>6
<1>10. Lines(t, cf) = Append(Lines(s, ce), <<cf[x].key, cf[x].value>>)
  <2>1. s \in Seq(Slots) /\ x \in Slots
    BY <1>1, <1>3
  <2> QED BY ONLY <1>2, <1>8, <2>1, LinesAppended
<1> QED BY <1>1, <1>2, <1>3, <1>8, <1>9, <1>10

\* The header is created.
LEMMA CreateRuled ==
    ASSUME Known, Placed(Contents(l')), Create PROVE Ruled'
<1>1. /\ pc = "create" /\ ~malformed /\ PushHeader(call.key, call.value)
      /\ Output(PushSlot(l, brk)) /\ Return
      /\ UNCHANGED <<malformed, chain, derived, call, before>>
  BY DEF Create
<1>2. PICK s, t, x, ce, cf : /\ s = Contents(l) /\ t = Contents(l') /\ x = PushSlot(l, brk)
                             /\ ce = cell /\ cf = cell'
  OBVIOUS
<1>3. Making /\ call \in Rules
  BY <1>1, RunningRule DEF Known, Ruled
<1>4. PICK key, value : key = call.key /\ value = call.value
  OBVIOUS
<1>5. /\ t = Append(s, x) /\ x \in Slots /\ s \in Seq(Slots) /\ SameKeys(s, ce, cf)
      /\ cf[x].key = key /\ cf[x].value = value
      /\ Lines(t, cf) = Append(Lines(s, ce), <<key, value>>)
  BY <1>1, <1>2, <1>4, Pushed
<1>6. Lines(t, cf) = Effect(call, before)
  BY <1>2, <1>3, <1>4, <1>5 DEF Making
<1>7. key \in Builtin => Sole(t, cf, key, x) /\ Led(t, cf, key, x)
  <2>1. key \in Builtin => None(s, ce, {key})
    BY <1>2, <1>3, <1>4 DEF Making
  <2> QED BY <1>5, <2>1, Appended
<1>8. key \in Builtin => value /= EMPTY
  BY <1>3, <1>4, CoveredIs DEF Making, Creates
<1>9. Resting(t, cf, ptr')
  <2>1. ASSUME NEW name \in Single PROVE Led(t, cf, name, ptr'[name])
    <3>1. CASE name = key
      <4>1. key \in Builtin /\ out = "ptr"
        BY <1>3, <1>4, <2>1, <3>1 DEF Making, Prepared, Builtin
      <4>2. ptr'[name] = x
        <5>1. ptr' = [ptr EXCEPT ![name] = x] /\ ptr \in [Single -> Nat \cup {NULL}]
          BY <1>1, <1>2, <1>4, <3>1, <4>1 DEF Output, Known, Types, FieldTypes
        <5> QED BY <2>1, <5>1
      <4> QED BY <1>7, <3>1, <4>1, <4>2
    <3>2. CASE name /= key
      <4>1. ptr'[name] = ptr[name]
        BY <1>1, <1>4, <3>2 DEF Output
      <4>2. Led(s, ce, name, ptr[name])
        BY <1>2, <1>3, <2>1 DEF Making, Resting
      <4>3. cf[x].key /= name
        BY <1>5, <3>2
      <4>4. \A y : Led(s, ce, name, y) => Led(t, cf, name, y)
        BY <1>5, <4>3, Appended
      <4> QED BY <4>1, <4>2, <4>4
    <3> QED BY <3>1, <3>2
  <2> QED BY <2>1 DEF Resting
<1>10. Follows(t, cf, call, derived')
  <2>1. SUFFICES ASSUME call.key \in Derived PROVE Follows(t, cf, call, derived')
    BY DEF Follows
  <2>2. derived'[call.key] = call.value /\ key \in Builtin
    BY <1>1, <1>3, <1>4, <2>1, CoveredIs DEF Making, Prepared
  <2>3. PICK p \in DOMAIN t : t[p] = x /\ \A q \in DOMAIN t : cf[t[q]].key = key <=> q = p
    BY <1>7, <2>2 DEF Sole
  <2>4. First(t, cf, {key}, p)
    <3>1. t \in Seq(Slots)
      BY <1>5
    <3>2. p \in 1 .. Len(t) /\ \A q \in 1 .. p - 1 : q \in DOMAIN t /\ q /= p
      BY <2>3, <3>1
    <3> QED BY <2>3, <3>2 DEF First
  <2> QED BY <1>4, <1>5, <1>8, <2>2, <2>3, <2>4 DEF Follows
<1>11. CASE out = "local"
  <2>1. key \in Multi /\ key \notin Single /\ key \in Builtin /\ chain[key] = << >>
    BY <1>3, <1>4, <1>11, NullAssumption, CoveredIs DEF Making, Prepared
  <2>2. h' = x
    BY <1>1, <1>2, <1>11 DEF Output
  <2>3. Left(t, cf, call, h')
    BY <1>4, <1>7, <1>8, <2>1, <2>2 DEF Left
  <2>4. Linking' /\ pc' = "link"
    BY <1>1, <1>2, <1>4, <1>6, <1>9, <1>11, <2>1, <2>3 DEF Linking, Return
  <2> QED BY <2>4 DEF Ruled
<1>12. CASE out /= "local"
  <2>1. call.key \notin Multi
    BY <1>3, <1>12, CoveredIs DEF Making, Prepared
  <2>2. Ended(t, cf, call, ptr', chain', derived', before)
    BY <1>6, <1>10, <2>1 DEF Ended, Chained
  <2>3. Idle' /\ pc' = "idle"
    BY <1>1, <1>2, <1>9, <1>12, <2>2 DEF Idle, Return
  <2> QED BY <2>3 DEF Ruled
<1> QED BY <1>11, <1>12

\* There is no list.
LEMMA CreateNowhereRuled ==
    ASSUME Known, CreateNowhere PROVE Ruled'
<1>1. /\ pc = "create" /\ malformed /\ Return
      /\ UNCHANGED <<l, cell, malformed, ptr, chain, derived, call, h, before>>
  BY DEF CreateNowhere, vars, field_vars
<1>2. Making /\ call \in Rules
  BY <1>1, RunningRule DEF Known, Ruled
<1>3. out /= "local"
  BY <1>1, <1>2, NullAssumption DEF Making, Prepared
<1>4. Idle' /\ pc' = "idle"
  BY <1>1, <1>2, <1>3 DEF Idle, Making, Return
<1> QED BY <1>4 DEF Ruled

\* The header becomes the chain.
LEMMA LinkRuled ==
    ASSUME Known, Link PROVE Ruled'
<1>1. /\ pc = "link" /\ pc' = "idle"
      /\ chain' = IF call.value = EMPTY THEN chain ELSE [chain EXCEPT ![call.key] = <<h>>]
      /\ UNCHANGED <<l, cell, malformed, ptr, derived, call, before>>
  BY DEF Link, vars
<1>2. PICK s, ce : s = Contents(l) /\ ce = cell
  OBVIOUS
<1>3. Linking /\ call \in Rules /\ chain \in [Multi -> Seq(Nat \cup {NULL, UNSET})]
  BY <1>1, RunningRule DEF Known, Ruled, Types, FieldTypes
<1>4. call.key \in Multi /\ call.key \notin Derived
  BY <1>3, CoveredIs DEF Linking
<1>5. chain'[call.key] = IF call.value = EMPTY THEN << >> ELSE <<h>>
  BY <1>1, <1>3, <1>4 DEF Linking
<1>6. Chained(s, ce, call, chain')
  BY <1>2, <1>3, <1>5 DEF Linking, Left, Chained
<1>7. Ended(s, ce, call, ptr, chain', derived, before)
  BY <1>2, <1>3, <1>4, <1>6 DEF Linking, Ended, Follows
<1>8. Idle'
  BY <1>1, <1>2, <1>3, <1>7 DEF Idle, Linking
<1> QED BY <1>1, <1>8 DEF Ruled

\* nginx reads a header.
LEMMA ReceiveRuled ==
    ASSUME Known, Placed(Contents(l')), NEW key \in Names, NEW value \in Received,
           Receive(key, value)
    PROVE  Ruled'
<1>1. /\ pc = "receiving" /\ pc' = "receiving" /\ PushHeader(key, value) /\ call' = call
      /\ ptr' = IF key \in Single /\ ptr[key] = NULL
                THEN [ptr EXCEPT ![key] = PushSlot(l, brk)] ELSE ptr
  BY DEF Receive
<1>2. PICK s, t, x, ce, cf : /\ s = Contents(l) /\ t = Contents(l') /\ x = PushSlot(l, brk)
                             /\ ce = cell /\ cf = cell'
  OBVIOUS
<1>3. Receiving /\ ptr \in [Single -> Nat \cup {NULL}]
  BY <1>1 DEF Known, Ruled, Types, FieldTypes
<1>4. /\ t = Append(s, x) /\ x \in Slots /\ s \in Seq(Slots) /\ SameKeys(s, ce, cf)
      /\ cf[x].key = key
  BY <1>1, <1>2, Pushed
<1>5. ASSUME NEW name \in Single
      PROVE  /\ Led(t, cf, name, ptr'[name])
             /\ ptr'[name] /= NULL => ~None(t, cf, {name})
  <2>1. /\ Led(s, ce, name, ptr[name])
        /\ ptr[name] /= NULL => ~None(s, ce, {name})
    BY <1>2, <1>3 DEF Receiving, Resting
  <2>2. CASE name = key /\ ptr[name] = NULL
    <3>1. ptr'[name] = x
      BY <1>1, <1>2, <1>3, <2>2
    <3>2. None(s, ce, {name})
      <4>1. SUFFICES ASSUME ~None(s, ce, {name}) PROVE FALSE
        OBVIOUS
      <4>2. PICK p : First(s, ce, {name}, p)
        BY <1>4, <4>1, HasFirst
      <4>3. s[p] = NULL
        BY <2>1, <2>2, <4>2 DEF Led
      <4>4. p \in DOMAIN s
        BY <4>2 DEF First
      <4>5. s[p] \in Slots
        BY <1>4, <4>4
      <4>6. s[p] \in Nat
        BY <4>5 DEF Slots
      <4> QED BY <4>3, <4>6, NullAssumption
    <3>3. Led(t, cf, name, x) /\ Sole(t, cf, name, x)
      BY <1>4, <2>2, <3>2, Appended
    <3>4. ~None(t, cf, {name})
      BY <3>3 DEF None, Sole
    <3> QED BY <3>1, <3>3, <3>4
  <2>3. CASE ~(name = key /\ ptr[name] = NULL)
    <3>1. ptr'[name] = ptr[name]
      BY <1>1, <1>3, <2>3
    <3>2. Led(t, cf, name, ptr[name])
      <4>1. CASE name /= key
        <5>1. cf[x].key /= name
          BY <1>4, <4>1
        <5>2. \A y : Led(s, ce, name, y) => Led(t, cf, name, y)
          BY <1>4, <5>1, Appended
        <5> QED BY <2>1, <5>2
      <4>2. CASE ptr[name] /= NULL
        <5>1. \A y : Led(s, ce, name, y) => Led(t, cf, name, y)
          BY <1>4, <2>1, <4>2, Appended
        <5> QED BY <2>1, <5>1
      <4> QED BY <2>3, <4>1, <4>2
    <3>3. ~None(s, ce, {name}) => ~None(t, cf, {name})
      <4>1. DOMAIN s \subseteq DOMAIN t /\ \A p \in DOMAIN s : t[p] = s[p]
        <5>1. PICK n \in Nat : n = Len(s)
          BY <1>4
        <5>2. DOMAIN s = 1 .. n /\ DOMAIN t = 1 .. n + 1 /\ \A p \in 1 .. n : t[p] = s[p]
          BY <1>4, <5>1
        <5> QED BY <5>2
      <4> QED BY <1>4, <4>1 DEF None, SameKeys
    <3> QED BY <2>1, <3>1, <3>2, <3>3
  <2> QED BY <2>2, <2>3
<1>6. Receiving'
  BY <1>1, <1>2, <1>3, <1>5 DEF Receiving, Resting
<1> QED BY <1>1, <1>6 DEF Ruled

\* The request has been read.
LEMMA AllReceivedRuled ==
    ASSUME Known, AllReceived PROVE Ruled'
<1>1. /\ pc = "receiving" /\ pc' = "idle"
      /\ UNCHANGED <<l, cell, malformed, ptr, chain, derived, call, before>>
  BY DEF AllReceived, vars, field_vars
<1>2. Receiving
  BY <1>1 DEF Known, Ruled
<1>3. Idle'
  BY <1>1, <1>2 DEF Receiving, Idle
<1> QED BY <1>1, <1>3 DEF Ruled

\* A handler that calls the helper: everything is still to be done.
LEMMA CallRuled ==
    ASSUME Known, IInv', NEW rule \in Rules, Begin(rule), NEW o, CallHelper(rule, o), l' = l,
           Guiding(Contents(l), cell', rule, ptr'),
           Prepared(rule, o, chain, derived)',
           \/ cell' = cell
           \/ Owed(Contents(l), cell', rule, ptr', Headers) /\ rule.op /= "append",
           rule.op = "append" => rule.key \notin Builtin
    PROVE  Ruled'
<1>1. /\ call' = rule /\ before' = Headers /\ out' = o /\ part' = 1 /\ i' = 0 /\ matched' = NULL
      /\ pc' = IF rule.op = "append" THEN "create" ELSE "scan"
  BY DEF Begin, CallHelper
<1>2. PICK s, ce : s = Contents(l) /\ ce = cell'
  OBVIOUS
<1>3. Headers = Lines(s, cell) /\ s \in Seq(Slots)
  BY <1>2, KnownFacts
<1>4. CASE rule.op = "append"
  <2>1. cell' = cell /\ ~Removes(rule)
    BY <1>4 DEF Removes
  <2>2. Resting(s, ce, ptr')
    BY <1>2, <2>1 DEF Guiding, Resting
  <2>3. Effect(rule, Headers) = Append(Lines(s, ce), <<rule.key, rule.value>>)
    <3>1. PICK u, T : u = Lines(s, ce) /\ T = {<<u[p][1], u[p][2]>> : p \in DOMAIN u}
      OBVIOUS
    <3>2. u \in Seq(T)
      BY <1>3, <3>1, LinesAre DEF Paired
    <3>3. Effect(rule, u) = Append(u, <<rule.key, rule.value>>)
      BY <1>4, <3>2, EffectIs
    <3> QED BY <1>2, <1>3, <2>1, <3>1, <3>3
  <2>4. Creates(rule)
    BY <1>4 DEF Creates
  <2>6. Making'
    BY <1>1, <1>2, <1>4, <2>2, <2>3, <2>4 DEF Making, Prepared
  <2> QED BY <1>1, <1>4, <2>6 DEF Ruled
<1>5. CASE rule.op /= "append"
  <2>1. Seen(s, ce, rule, 0, NULL, o, h')
    BY <1>5 DEF Seen
  <2>2. Owed(s, ce, rule, ptr', Headers)
    BY <1>2, <1>3 DEF Owed
  <2>3. At' = 0
    BY <1>1, CursorStart
  <2>4. Scanning'
    BY <1>1, <1>2, <2>1, <2>2, <2>3 DEF Scanning, Prepared
  <2> QED BY <1>1, <1>5, <2>4 DEF Ruled
<1> QED BY <1>4, <1>5

\* The handlers.
LEMMA BeginRuled ==
    ASSUME Known, HInv', NEW rule \in Rules,
           \/ SetHeader(rule) \/ RefuseValue(rule)
           \/ SetAbsentBuiltin(rule) \/ KeepBuiltin(rule)
           \/ ClearBuiltin(rule) \/ ReplaceBuiltin(rule)
           \/ SetMulti(rule) \/ SkipMulti(rule)
    PROVE  Ruled'
<1>1. /\ Begin(rule) /\ pc = "idle" /\ l' = l /\ malformed' = malformed /\ ptr' = ptr
      /\ call' = rule /\ before' = Headers
  BY DEF SetHeader, RefuseValue, SetAbsentBuiltin, KeepBuiltin, ClearBuiltin, ReplaceBuiltin,
     SetMulti, SkipMulti, BeginBuiltin, Begin, vars, field_vars
<1>2. PICK s, ce, cf : s = Contents(l) /\ ce = cell /\ cf = cell'
  OBVIOUS
<1>3. /\ s \in Seq(Slots) /\ DOMAIN s = 1 .. Len(s) /\ Len(s) \in Nat
      /\ \A p, q \in DOMAIN s : s[p] = s[q] => p = q
      /\ ce \in [Slots -> Cell]
      /\ Headers = Lines(s, ce)
  BY <1>2, KnownFacts
<1>4. Resting(s, ce, ptr)
  BY <1>1, <1>2 DEF Known, Ruled, Idle
<1>5. IInv'
  BY DEF HInv
<1>6. rule.op = "append" => rule.key \notin Builtin
  BY CoveredIs
<1>7. CASE SetHeader(rule)
  <2>1. cell' = cell /\ CallHelper(rule, NULL) /\ rule.key \notin Builtin
    BY <1>7 DEF SetHeader
  <2>2. rule.key \notin Single /\ rule.key \notin Multi /\ rule.key \notin Derived
    BY <2>1, CoveredIs
  <2>3. Guiding(s, cf, rule, ptr')
    BY <1>1, <1>2, <1>4, <2>1, <2>2 DEF Guiding, Resting
  <2>4. Prepared(rule, NULL, chain, derived)'
    BY <2>2 DEF Prepared
  <2> QED BY <1>1, <1>2, <1>5, <1>6, <2>1, <2>3, <2>4, CallRuled
<1>8. CASE RefuseValue(rule)
  <2>1. pc' = "error"
    BY <1>8 DEF RefuseValue, ReturnAtOnce
  <2> QED BY <2>1 DEF Ruled
<1>9. CASE SkipMulti(rule)
  <2>1. pc' = "idle" /\ cell' = cell /\ malformed
    BY <1>9 DEF SkipMulti, ReturnAtOnce
  <2>2. Idle'
    BY <1>1, <1>2, <1>4, <2>1 DEF Idle
  <2> QED BY <2>1, <2>2 DEF Ruled
<1>10. CASE SetMulti(rule)
  <2>1. /\ cell' = cell /\ CallHelper(rule, "local") /\ rule.key \in Multi /\ ~malformed
        /\ chain' = [chain EXCEPT ![rule.key] = << >>] /\ derived' = derived
    BY <1>10 DEF SetMulti
  <2>2. rule.key \notin Single /\ rule.key \notin Derived
    BY <2>1, CoveredIs
  <2>3. Guiding(s, cf, rule, ptr')
    BY <1>1, <1>2, <1>4, <2>1, <2>2 DEF Guiding, Resting
  <2>4. chain'[rule.key] = << >>
    BY <2>1 DEF Known, Types, FieldTypes
  <2>5. Prepared(rule, "local", chain, derived)'
    BY <1>1, <2>1, <2>2, <2>4 DEF Prepared
  <2> QED BY <1>1, <1>2, <1>5, <1>6, <2>1, <2>3, <2>5, CallRuled
<1>11. CASE BeginBuiltin(rule)
  <2>1. rule.key \in Single /\ Derive(rule) /\ chain' = chain
    BY <1>11 DEF BeginBuiltin
  <2>2. /\ rule.key \notin Multi /\ Covered(rule) = {rule.key} /\ rule.op /= "append"
    BY <2>1, CoveredIs DEF Builtin
  <2>3. rule.key \in Derived => derived'[rule.key] = rule.value
    BY <2>1 DEF Derive, Known, Types, FieldTypes
  <2>4. Prepared(rule, "ptr", chain, derived)'
    BY <2>1, <2>2, <2>3 DEF Prepared
  <2>5. PICK u : u = Lines(s, ce)
    OBVIOUS
  <2>6. Paired(u) /\ Hits(rule, u) = {p \in DOMAIN s : ce[s[p]].key \in Covered(rule)}
    BY <1>3, <2>5, LinesAre
  <2>7. ASSUME NEW f, First(s, ce, {rule.key}, f)
        PROVE  /\ ptr[rule.key] = s[f] /\ f \in DOMAIN s /\ s[f] \in Slots
               /\ FirstHit(rule, u, f) /\ f \in Hits(rule, u)
    <3>1. ptr[rule.key] = s[f] /\ f \in DOMAIN s
      BY <1>4, <2>1, <2>7 DEF Resting, Led, First
    <3>2. s[f] \in Slots
      BY <1>3, <3>1
    <3>3. f \in Hits(rule, u)
      BY <2>2, <2>6, <2>7 DEF First
    <3>4. ASSUME NEW q \in Hits(rule, u) PROVE f <= q
      <4>1. q \in 1 .. Len(s) /\ ~(q \in 1 .. f - 1)
        BY <1>3, <2>2, <2>6, <2>7 DEF First
      <4> QED BY <1>3, <3>1, <4>1
    <3> QED BY <3>1, <3>2, <3>3, <3>4 DEF FirstHit
  <2>8. CASE SetAbsentBuiltin(rule)
    <3>1. ptr[rule.key] = NULL /\ CallHelper(rule, "ptr") /\ cell' = cell
      BY <2>8 DEF SetAbsentBuiltin
    <3>2. None(s, ce, {rule.key})
      <4>1. SUFFICES ASSUME ~None(s, ce, {rule.key}) PROVE FALSE
        OBVIOUS
      <4>2. PICK f : First(s, ce, {rule.key}, f)
        BY <1>3, <4>1, HasFirst
      <4>3. NULL \in Slots
        BY <2>7, <3>1, <4>2
      <4> QED BY <4>3, NullAssumption DEF Slots
    <3>3. Guiding(s, cf, rule, ptr')
      BY <1>1, <1>2, <1>4, <3>1, <3>2 DEF Guiding, Resting
    <3> QED BY <1>1, <1>2, <1>5, <1>6, <2>4, <3>1, <3>3, CallRuled
  <2>9. CASE KeepBuiltin(rule)
    <3>1. ptr[rule.key] /= NULL /\ rule.op = "add" /\ pc' = "idle" /\ cell' = cell
      BY <2>9 DEF KeepBuiltin, ReturnAtOnce
    <3>2. ASSUME ~Lost(s, ce, rule, ptr) PROVE u = Effect(rule, u)
      <4>1. ~None(s, ce, {rule.key})
        BY <2>1, <3>1, <3>2 DEF Lost
      <4>2. PICK f : First(s, ce, {rule.key}, f)
        BY <1>3, <4>1, HasFirst
      <4>3. Hits(rule, u) /= {}
        BY <2>7, <4>2
      <4>4. PICK T : T = {<<u[p][1], u[p][2]>> : p \in DOMAIN u}
        OBVIOUS
      <4>5. u \in Seq(T)
        BY <2>6, <4>4 DEF Paired
      <4> QED BY <3>1, <4>3, <4>5, EffectIs
    <3>3. Follows(s, ce, rule, derived') /\ Chained(s, ce, rule, chain')
      BY <2>2, <2>3, <3>1 DEF Follows, Chained
    <3>4. Ended(s, ce, rule, ptr, chain', derived', u)
      BY <2>5, <3>2, <3>3 DEF Ended
    <3>5. Idle'
      BY <1>1, <1>2, <1>3, <1>4, <2>5, <3>1, <3>4 DEF Idle
    <3> QED BY <3>1, <3>5 DEF Ruled
  <2>10. ASSUME NEW b, cell' = [cell EXCEPT ![ptr[rule.key]].hash = b,
                                            ![ptr[rule.key]].value = rule.value],
                ptr[rule.key] /= NULL
         PROVE  /\ SameKeys(s, ce, cf) /\ Resting(s, cf, ptr)
                /\ \A f : First(s, ce, {rule.key}, f) =>
                      /\ First(s, cf, {rule.key}, f) /\ cf[s[f]].value = rule.value
                      /\ Lines(s, cf) = Valued(u, f, rule.value)
                /\ None(s, ce, {rule.key}) => Lost(s, cf, rule, ptr)
    <3>1. PICK x, v : x = ptr[rule.key] /\ v = rule.value
      OBVIOUS
    <3>2. cf = [ce EXCEPT ![x].hash = b, ![x].value = v]
      BY <1>2, <2>10, <3>1
    <3>3. SameKeys(s, ce, cf)
      <4>1. \A y \in Slots : [ce EXCEPT ![x].hash = b, ![x].value = v][y].key = ce[y].key
        BY <1>3, Writes
      <4>2. \A p \in DOMAIN s : s[p] \in Slots
        BY <1>3
      <4> QED BY <3>2, <4>1, <4>2 DEF SameKeys
    <3>4. /\ \A names, p : First(s, cf, names, p) <=> First(s, ce, names, p)
          /\ \A names : None(s, cf, names) <=> None(s, ce, names)
          /\ \A name, y : Led(s, cf, name, y) <=> Led(s, ce, name, y)
      BY <1>3, <3>3, KeysKept
    <3>5. Resting(s, cf, ptr)
      BY <1>4, <3>4 DEF Resting
    <3>6. ASSUME NEW f, First(s, ce, {rule.key}, f)
          PROVE  cf[s[f]].value = rule.value /\ Lines(s, cf) = Valued(u, f, rule.value)
      <4>1. x = s[f] /\ f \in DOMAIN s
        BY <2>7, <3>1, <3>6
      <4>2. Revalued(s, ce, cf, f, v)
        BY <1>3, <3>2, <4>1, WriteRevalues
      <4>3. Lines(s, cf) = Valued(Lines(s, ce), f, v)
        BY <1>3, <4>2, LinesValued
      <4>4. cf[s[f]].value = v
        BY <4>2 DEF Revalued
      <4> QED BY <2>5, <3>1, <4>3, <4>4
    <3>7. None(s, ce, {rule.key}) => Lost(s, cf, rule, ptr)
      BY <2>1, <2>10, <3>4 DEF Lost
    <3> QED BY <3>3, <3>4, <3>5, <3>6, <3>7
  <2>11. CASE ClearBuiltin(rule)
    <3>1. /\ ptr[rule.key] /= NULL /\ rule.op /= "add" /\ rule.value = EMPTY
          /\ CallHelper(rule, "ptr")
          /\ cell' = [cell EXCEPT ![ptr[rule.key]].hash = FALSE,
                                  ![ptr[rule.key]].value = EMPTY]
      BY <2>11 DEF ClearBuiltin
    <3>2. Removes(rule)
      BY <2>2, <3>1, OneKind DEF Removes
    <3>3. cell' = [cell EXCEPT ![ptr[rule.key]].hash = FALSE,
                               ![ptr[rule.key]].value = rule.value]
      BY <3>1
    <3>4. /\ Resting(s, cf, ptr)
          /\ \A f : First(s, ce, {rule.key}, f) => Lines(s, cf) = Valued(u, f, rule.value)
          /\ None(s, ce, {rule.key}) => Lost(s, cf, rule, ptr)
      BY <2>10, <3>1, <3>3
    <3>5. Guiding(s, cf, rule, ptr')
      BY <1>1, <3>2, <3>4 DEF Guiding, Resting
    <3>6. Owed(s, cf, rule, ptr, u)
      <4>1. CASE None(s, ce, {rule.key})
        BY <3>2, <3>4, <4>1 DEF Owed
      <4>2. CASE ~None(s, ce, {rule.key})
        <5>1. PICK f : First(s, ce, {rule.key}, f)
          BY <1>3, <4>2, HasFirst
        <5>2. f \in Hits(rule, u) /\ Lines(s, cf) = Valued(u, f, rule.value)
          BY <2>7, <3>4, <5>1
        <5>3. PICK v : v = rule.value
          OBVIOUS
        <5>4. Effect(rule, Valued(u, f, v)) = Effect(rule, u)
          BY <2>6, <3>2, <5>2, ClearedIsPart
        <5> QED BY <5>2, <5>3, <5>4 DEF Owed
      <4> QED BY <4>1, <4>2
    <3>7. Owed(s, cf, rule, ptr', Headers)
      BY <1>1, <1>3, <2>5, <3>6
    <3> QED BY <1>1, <1>2, <1>5, <2>2, <2>4, <3>1, <3>5, <3>7, CallRuled
  <2>12. CASE ReplaceBuiltin(rule)
    <3>1. /\ ptr[rule.key] /= NULL /\ rule.op /= "add" /\ rule.value /= EMPTY /\ pc' = "idle"
          /\ cell' = [cell EXCEPT ![ptr[rule.key]].hash = TRUE,
                                  ![ptr[rule.key]].value = rule.value]
      BY <2>12 DEF ReplaceBuiltin, ReturnAtOnce
    <3>2. Replaces(rule)
      <4>1. rule.op \in {"set", "clear", "rewrite"}
        BY <2>2, <3>1, OneKind
      <4> QED BY <3>1, <4>1, OneKind DEF Removes
    <3>3. /\ Resting(s, cf, ptr)
          /\ \A f : First(s, ce, {rule.key}, f) =>
                /\ First(s, cf, {rule.key}, f) /\ cf[s[f]].value = rule.value
                /\ Lines(s, cf) = Valued(u, f, rule.value)
          /\ None(s, ce, {rule.key}) => Lost(s, cf, rule, ptr)
      BY <2>10, <3>1
    <3>4. Ended(s, cf, rule, ptr, chain', derived', u)
      <4>1. CASE None(s, ce, {rule.key})
        BY <3>3, <4>1 DEF Ended
      <4>2. CASE ~None(s, ce, {rule.key})
        <5>1. PICK f : First(s, ce, {rule.key}, f)
          BY <1>3, <4>2, HasFirst
        <5>2. Lines(s, cf) = Effect(rule, u)
          <6>1. Effect(rule, u) = Valued(u, f, rule.value)
            BY <2>1, <2>6, <2>7, <3>2, <5>1, EffectSingle
          <6> QED BY <3>3, <5>1, <6>1
        <5>3. Follows(s, cf, rule, derived')
          BY <2>3, <3>1, <3>3, <5>1 DEF Follows
        <5>4. Chained(s, cf, rule, chain')
          BY <2>2 DEF Chained
        <5> QED BY <5>2, <5>3, <5>4 DEF Ended
      <4> QED BY <4>1, <4>2
    <3>5. Idle'
      BY <1>1, <1>2, <1>3, <2>5, <3>1, <3>3, <3>4 DEF Idle
    <3> QED BY <3>1, <3>5 DEF Ruled
  <2> QED BY <1>8, <1>7, <1>9, <1>10, <2>8, <2>9, <2>11, <2>12
<1> QED BY <1>7, <1>8, <1>9, <1>10, <1>11
    DEF SetAbsentBuiltin, KeepBuiltin, ClearBuiltin, ReplaceBuiltin

\* Every step.
LEMMA StepRuled ==
    ASSUME Known, HInv', Placed(Contents(l')), [HeadersNext]_headers_vars
    PROVE  Ruled'
<1>1. ASSUME NEW key \in Names, NEW value \in Received, Receive(key, value) PROVE Ruled'
  BY <1>1, ReceiveRuled
<1>2. CASE BeginRule
  <2>1. PICK rule \in Rules :
            \/ SetHeader(rule) \/ RefuseValue(rule)
            \/ SetAbsentBuiltin(rule) \/ KeepBuiltin(rule)
            \/ ClearBuiltin(rule) \/ ReplaceBuiltin(rule)
            \/ SetMulti(rule) \/ SkipMulti(rule)
    BY <1>2 DEF BeginRule
  <2> QED BY <2>1, BeginRuled
<1>3. CASE Loop
  <2>1. RemovalFails => pc' = "error"
    BY DEF RemovalFails
  <2>2. RemovalFails => Ruled'
    BY <2>1 DEF Ruled
  <2> QED BY <1>3, <2>2, MissRuled, AddNothingRuled, TakeValueRuled, RemoveHeaderRuled,
             FoundRuled, NotFoundRuled DEF Loop
<1>4. CASE PushFails \/ LowcaseFails
  <2>1. pc' = "error"
    BY <1>4 DEF PushFails, LowcaseFails
  <2> QED BY <2>1 DEF Ruled
<1>5. CASE UNCHANGED headers_vars
  <2>1. UNCHANGED <<l, cell, malformed, ptr, chain, derived, pc, call, out, part, i, matched,
                    h, before>>
    BY <1>5 DEF headers_vars, vars, field_vars, local_vars
  <2>2. Ruled
    BY DEF Known
  <2> QED BY <2>1, <2>2 DEF Ruled, Receiving, Idle, Scanning, Making, Linking, Prepared, At
<1> QED BY <1>1, <1>2, <1>3, <1>4, <1>5, CreateRuled, CreateNowhereRuled, LinkRuled,
           AllReceivedRuled DEF HeadersNext, Helper

\* A request begins without a header.
LEMMA InitRuled == HeadersInit => Ruled
<1> SUFFICES ASSUME HeadersInit PROVE Receiving
  BY DEF HeadersInit, Ruled
<1>2. Contents(l) = << >>
  BY NAllocAssumption, EmptyContents DEF HeadersInit, Init
<1>3. \A name \in Single : ptr[name] = NULL
  BY DEF HeadersInit
<1>4. DOMAIN << >> = {}
  OBVIOUS
<1> QED BY <1>2, <1>3, <1>4 DEF HeadersInit, Receiving, Resting, Led, First

\* What is meant by a pointer's being stale.
LEMMA LostIsStale ==
    ASSUME Known, NEW name \in Single, ptr[name] /= NULL, None(Contents(l), cell, {name})
    PROVE  Stale(name)
<1>1. PICK x : x = ptr[name]
  OBVIOUS
<1>2. ASSUME x \in Live(l) PROVE cell[x].key /= name
  <2>1. Typed(l)
    BY WFFacts DEF Known, HInv, IInv
  <2>2. PICK p \in 1 .. Len(Contents(l)) : Contents(l)[p] = x
    BY <1>2, <2>1, LiveIsContents
  <2>3. p \in DOMAIN Contents(l)
    BY KnownFacts
  <2> QED BY <2>2, <2>3 DEF None
<1> QED BY <1>1, <1>2 DEF Stale

\* The headers of a name, of which one leads.
LEMMA LiveOfIs ==
    ASSUME Known, NEW name
    PROVE  /\ LiveOf(name) = LiveIn(Contents(l), cell, name)
           /\ LiveOf(name) = << >> <=> None(Contents(l), cell, {name})
           /\ \A p : First(Contents(l), cell, {name}, p) => LiveOf(name)[1] = Contents(l)[p]
           /\ \A x : Sole(Contents(l), cell, name, x) => LiveOf(name) = <<x>>
<1>1. LiveOf(name) = LiveIn(Contents(l), cell, name)
  BY DEF LiveOf, LiveIn
<1>2. Contents(l) \in Seq(Slots)
  BY KnownFacts
<1>3. /\ LiveIn(Contents(l), cell, name) = << >> <=> None(Contents(l), cell, {name})
      /\ \A p : First(Contents(l), cell, {name}, p) =>
            LiveIn(Contents(l), cell, name)[1] = Contents(l)[p]
      /\ \A x : Sole(Contents(l), cell, name, x) => LiveIn(Contents(l), cell, name) = <<x>>
  BY <1>2, LiveIs
<1> QED BY <1>1, <1>3

\* Wherever the rules come to rest, the pointers are right.
LEMMA PointersRight == ASSUME Known PROVE PointersExact
<1> SUFFICES ASSUME pc \in {"receiving", "idle"}, NEW name \in Single
             PROVE  LET live == LiveOf(name)
                    IN  IF live = << >> THEN ptr[name] = NULL \/ Stale(name)
                        ELSE ptr[name] = live[1]
  BY DEF PointersExact
<1>1. Led(Contents(l), cell, name, ptr[name])
  BY DEF Known, Ruled, Receiving, Idle, Resting
<1>2. CASE None(Contents(l), cell, {name})
  BY <1>2, LiveOfIs, LostIsStale
<1>3. CASE ~None(Contents(l), cell, {name})
  <2>1. Contents(l) \in Seq(Slots)
    BY KnownFacts
  <2>2. PICK p : First(Contents(l), cell, {name}, p)
    BY <1>3, <2>1, HasFirst
  <2>3. ptr[name] = Contents(l)[p] /\ LiveOf(name)[1] = Contents(l)[p] /\ LiveOf(name) /= << >>
    BY <1>1, <1>3, <2>2, LiveOfIs DEF Led
  <2> QED BY <2>3
<1> QED BY <1>2, <1>3

\* Wherever a rule has ended, it has been carried out.
LEMMA EndedFacts ==
    ASSUME Known, pc = "idle", call /= NULL, ~malformed
    PROVE  /\ call \in Rules
           /\ \/ call.key \in Single /\ Stale(call.key)
              \/ /\ Headers = Effect(call, before)
                 /\ Chained(Contents(l), cell, call, chain)
                 /\ Follows(Contents(l), cell, call, derived)
<1>1. call \in Rules
  BY DEF Known, Types, LocalTypes
<1>2. Ended(Contents(l), cell, call, ptr, chain, derived, before)
  BY DEF Known, Ruled, Idle
<1>3. CASE Lost(Contents(l), cell, call, ptr)
  BY <1>1, <1>3, LostIsStale DEF Lost
<1> QED BY <1>1, <1>2, <1>3, KnownFacts DEF Ended

-----------------------------------------------------------------------------
(* The theorems. *)

\* The invariant holds in every reachable state.
THEOREM HeadersInvariance == HeadersSpec => []HInv
<1>1. HeadersInit => HInv
  BY InitIInv DEF HeadersInit, HInv, Cursor
<1>2. HInv /\ [HeadersNext]_headers_vars => HInv'
  BY HeadersStep
<1>3. QED BY <1>1, <1>2, PTL DEF HeadersSpec

\* Every variable keeps its type: whatever the rules do, slots, values and pointers
\* get to where the handlers expect such, and a rule is there where one is run.
THEOREM HeadersTypeCorrect == HeadersSpec => []HeadersTypeOK
<1>1. HeadersInit => Types
  BY InitTypes
<1>2. HInv /\ Types /\ [HeadersNext]_headers_vars => Types'
  BY StepTypes
<1>3. HInv /\ Types => HeadersTypeOK
  BY DEF HInv, IInv, WellFormed, TypeOK, Types, FieldTypes, LocalTypes, Cell, AnyValue,
     HeadersTypeOK
<1> QED BY <1>1, <1>2, <1>3, HeadersInvariance, PTL DEF HeadersSpec

\* Whatever the rules, what they and nginx do to the request's list of headers
\* are pushes and removals of headers that are in it: the list is NgxList's.
THEOREM RulesKeepToList == HeadersSpec => ListSpec
<1>1. HeadersInit => Init
  BY DEF HeadersInit
<1>2. HInv /\ [HeadersNext]_headers_vars => [Next]_vars
  BY HeadersStep
<1>3. QED BY <1>1, <1>2, HeadersInvariance, PTL DEF HeadersSpec, ListSpec, Spec

\* The loop of set_header_helper reads no element that is not a header of the
\* list, although it does not look whether a next part has any.
THEOREM LoopReadsHeaders == HeadersSpec => []ReadsHeaders
<1>1. HInv => ReadsHeaders
  <2>1. SUFFICES ASSUME HInv, Looking PROVE HereSlot \in Live(l)
    BY DEF ReadsHeaders, Looking
  <2>2. /\ HerePart \in 1 .. Len(l.parts) /\ HerePart \in DOMAIN l.parts
        /\ Here \in 0 .. l.parts[HerePart].nelts - 1
    BY <2>1, LooksAtHeader, ListFacts DEF HInv
  <2>3. l.parts[HerePart].elts \in Nat /\ l.parts[HerePart].nelts \in Nat
    <3>1. Typed(l)
      BY <2>1, WFFacts DEF HInv, IInv
    <3>2. QED BY <2>2, <3>1 DEF Typed, TypedPart
  <2>4. HereSlot \in SlotsOf(l.parts[HerePart])
    BY <2>2, <2>3 DEF HereSlot, SlotsOf
  <2>5. QED BY <2>2, <2>4 DEF Live
<1>2. QED BY <1>1, HeadersInvariance, PTL

\* After any rules l->last is the end of the list and every traversal of nginx's
\* sees exactly the headers that there are; and the request's headers are the
\* sequence that HeaderSeq promises.
THEOREM RequestListSound == HeadersSpec => [](LastIsTail /\ ScanExact /\ PushSafe) /\ Refinement
BY RulesKeepToList, LastStaysTail, TraversalExact, PushStaysSafe, ListImplementsSeq, PTL DEF ListSpec

\* The list's invariant, the types and the rules' invariant hold together.
LEMMA AlwaysKnown == HeadersSpec => []Known
<1>1. HeadersInit => Types /\ Ruled
  BY InitTypes, InitRuled
<1>2. Known /\ HInv' /\ Placed(Contents(l))' /\ [HeadersNext]_headers_vars => Ruled'
  BY StepRuled
<1>3. HInv /\ Types /\ [HeadersNext]_headers_vars => Types'
  BY StepTypes
<1>4. HeadersSpec => [](Placed(Contents(l)))
  BY RulesKeepToList, EachInItsSlot, PTL DEF ListSpec
<1>5. HInv /\ Types /\ Placed(Contents(l)) /\ Ruled <=> Known
  BY DEF Known
<1> QED BY <1>1, <1>2, <1>3, <1>4, <1>5, HeadersInvariance, PTL DEF HeadersSpec

\* Between rules, the pointer of r->headers_in that a name has leads to the first
\* header of that name in the list, whatever the rules before did.
THEOREM PointersLead == HeadersSpec => []PointersExact
<1>1. Known => PointersExact
  BY PointersRight
<1> QED BY <1>1, AlwaysKnown, PTL

\* Every rule that comes to its end has had its documented effect on the list of
\* headers: for any headers, rules, capacities of parts and failures before.
THEOREM RulesDoAsDocumented == HeadersSpec => []EffectExact
<1>1. Known => EffectExact
  BY EndedFacts DEF EffectExact
<1> QED BY <1>1, AlwaysKnown, PTL

\* The chain of a name with several headers is the headers of that name again after
\* every set and clear.
THEOREM ChainsAreRebuilt == HeadersSpec => []ChainRebuilt
<1>1. ASSUME Known, pc = "idle", call /= NULL, call.key \in Multi, call.op \in {"set", "clear"},
             ~malformed
      PROVE  chain[call.key] = LiveOf(call.key)
  <2>1. Chained(Contents(l), cell, call, chain)
    BY <1>1, EndedFacts, CoveredIs
  <2> QED BY <1>1, <2>1, LiveOfIs DEF Chained
<1>2. Known => ChainRebuilt
  BY <1>1 DEF ChainRebuilt
<1> QED BY <1>2, AlwaysKnown, PTL

\* The fields that depend on a header are those of the first such header in the list
\* after every set and clear, and those of the rule's value after add and rewrite.
THEOREM FieldsAgree == HeadersSpec => []FieldsFollow
<1>1. ASSUME Known, pc = "idle", call /= NULL, call.key \in Derived, ~malformed,
             ~Stale(call.key)
      PROVE  \/ /\ call.op \in {"set", "clear"}
                /\ derived[call.key] = IF LiveOf(call.key) = << >> THEN EMPTY
                                       ELSE cell[LiveOf(call.key)[1]].value
             \/ call.op \in {"add", "rewrite"} /\ derived[call.key] = call.value
  <2>1. Follows(Contents(l), cell, call, derived) /\ call \in Rules
    BY <1>1, EndedFacts
  <2>2. call.op \in {"set", "clear", "add", "rewrite"}
    BY <1>1, <2>1, CoveredIs, OneKind
  <2>3. derived[call.key] = call.value
    BY <1>1, <2>1 DEF Follows
  <2>4. CASE call.op \in {"set", "clear"} /\ call.value = EMPTY
    BY <1>1, <2>1, <2>3, <2>4, LiveOfIs DEF Follows
  <2>5. CASE call.op \in {"set", "clear"} /\ call.value /= EMPTY
    <3>1. PICK p : First(Contents(l), cell, {call.key}, p)
                   /\ cell[Contents(l)[p]].value = call.value
      BY <1>1, <2>1, <2>5 DEF Follows
    <3>2. LiveOf(call.key) /= << >> /\ LiveOf(call.key)[1] = Contents(l)[p]
      BY <3>1, <1>1, LiveOfIs DEF First, None
    <3> QED BY <2>3, <2>5, <3>1, <3>2
  <2> QED BY <2>2, <2>3, <2>4, <2>5
<1>2. Known => FieldsFollow
  BY <1>1 DEF FieldsFollow
<1> QED BY <1>2, AlwaysKnown, PTL
=============================================================================
