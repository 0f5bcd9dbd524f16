--------------------------- MODULE HeadersOutProofs ---------------------------
(***************************************************************************)
(* For any names, values and rules: the pointers and the chain of a        *)
(* response go with its list of headers, and a rule does to what the       *)
(* client gets what its operator says.                                     *)
(***************************************************************************)
EXTENDS HeadersOut, SeqProofs

Slot == [key : Keys, value : Produced \cup Values, hash : BOOLEAN]

\* A header sent under a name with a handler of its own is the one its pointer is to.
Owned ==
    \A name \in Single : \A p \in DOMAIN list :
        (list[p].hash /\ list[p].key = name) => ptr[Pointer[name]] = p

\* Pointers are to headers of their name or, once the rules run, of the name a rule
\* has for the pointer.
Named ==
    \A name \in Pointers :
        ptr[name] /= NULL =>
            LET key == list[ptr[name]].key
            IN  \/ key = name
                \/ pc /= "producing" /\ key \in Single /\ Pointer[key] = name

\* Headers sent under the name of a chain are in it.
Linked ==
    \A name \in Multi : \A p \in DOMAIN list :
        (list[p].hash /\ list[p].key = name) => p \in Range(chain[name])

\* Chains are of headers of their name.
ChainNamed ==
    \A name \in Multi : \A k \in DOMAIN chain[name] : list[chain[name][k]].key = name

OInv ==
    /\ OutTypeOK
    /\ pc /= "error" => Owned /\ Named /\ ChainNamed /\ Linked

-----------------------------------------------------------------------------
(* Sequences of slots. *)

\* What a sequence is.
LEMMA SeqFacts ==
    ASSUME NEW S, NEW s \in Seq(S)
    PROVE  Len(s) \in Nat /\ DOMAIN s = 1 .. Len(s) /\ \A p \in DOMAIN s : s[p] \in S
OBVIOUS

\* A sequence over a set is one over a larger set.
LEMMA SeqMono ==
    ASSUME NEW S, NEW T, S \subseteq T, NEW s \in Seq(S)
    PROVE  s \in Seq(T)
OBVIOUS

\* A header that is pushed comes behind all the others.
LEMMA Pushed ==
    ASSUME OutTypeOK, NEW key \in Keys, NEW value \in Produced \cup Values,
           PushHeader(key, value)
    PROVE  /\ list' \in Seq(Slot)
           /\ DOMAIN list = 1 .. Len(list) /\ Len(list) \in Nat
           /\ DOMAIN list' = 1 .. Len(list) + 1
           /\ \A p \in DOMAIN list : list'[p] = list[p]
           /\ list'[Len(list) + 1] = [key |-> key, value |-> value, hash |-> value /= EMPTY]
<1>1. list \in Seq(Slot)
  BY DEF OutTypeOK, Slot
<1> DEFINE new == [key |-> key, value |-> value, hash |-> value /= EMPTY]
<1>2. new \in Slot
  BY DEF Slot
<1>3. list' = Append(list, new)
  BY DEF PushHeader
<1> HIDE DEF new
<1>4. /\ list' \in Seq(Slot)
      /\ DOMAIN list = 1 .. Len(list) /\ Len(list) \in Nat
      /\ DOMAIN list' = 1 .. Len(list) + 1
      /\ \A p \in DOMAIN list : list'[p] = list[p]
      /\ list'[Len(list) + 1] = new
  BY <1>1, <1>2, <1>3
<1> QED BY <1>4 DEF new

\* A list whose slots are changed in their places.
LEMMA Changed ==
    ASSUME OutTypeOK, NEW f, f = [p \in DOMAIN list |-> f[p]],
           \A p \in DOMAIN list : f[p] \in Slot
    PROVE  f \in Seq(Slot) /\ DOMAIN f = DOMAIN list
<1>1. DOMAIN list = 1 .. Len(list) /\ Len(list) \in Nat
  BY DEF OutTypeOK
<1>2. DOMAIN f = 1 .. Len(list)
  BY <1>1
<1> QED BY <1>1, <1>2

\* The rules, by the kind of their name.
LEMMA RuleFacts ==
    ASSUME NEW rule \in Rules
    PROVE  /\ rule.key \in Keys /\ rule.value \in Values
           /\ rule.key \in Single => rule.key \in Names /\ ~Wildcard(rule)
           /\ Covered(rule) \in {Prefix[rule.key], {rule.key}}
           /\ rule.key \in Builtin => Covered(rule) = {rule.key} /\ rule.op /= "append"
<1>1. Builtin \cap DOMAIN Prefix = {} /\ Builtin \subseteq Names
  BY NamesAssumption
<1> QED BY <1>1 DEF Rules, Wildcard, Covered, Builtin

\* Nothing becomes visible, and no name changes.
Quieter ==
    /\ DOMAIN list' = DOMAIN list
    /\ \A p \in DOMAIN list : list'[p].key = list[p].key /\ (list'[p].hash => list[p].hash)

\* What holds of pointers and chains is not lost by that.
LEMMA QuieterKeeps ==
    ASSUME OInv, pc /= "error", pc' \in {"idle", "error"}, Quieter, ptr' = ptr, chain' = chain
    PROVE  Owned' /\ Named' /\ ChainNamed' /\ Linked'
<1>1. ptr \in [Pointers -> DOMAIN list \cup {NULL}] /\ chain \in [Multi -> Seq(DOMAIN list)]
  BY DEF OInv, OutTypeOK
<1>2. Owned'
  BY <1>1 DEF OInv, Owned, Quieter
<1>3. Named'
  BY <1>1 DEF OInv, Named, Quieter
<1>4. ChainNamed'
  BY <1>1, SeqFacts DEF OInv, ChainNamed, Quieter
<1>5. Linked'
  BY DEF OInv, Linked, Quieter
<1> QED BY <1>2, <1>3, <1>4, <1>5

\* A pushed header that no pointer and no chain is for.
LEMMA PushKeeps ==
    ASSUME OInv, pc /= "error", pc' \in {"idle", "error"},
           NEW key \in Keys \ (Single \cup Multi), NEW value \in Produced \cup Values,
           PushHeader(key, value), ptr' = ptr, chain' = chain
    PROVE  Owned' /\ Named' /\ ChainNamed' /\ Linked'
<1>1. ptr \in [Pointers -> DOMAIN list \cup {NULL}] /\ chain \in [Multi -> Seq(DOMAIN list)]
  BY DEF OInv, OutTypeOK
<1>2. /\ \A p \in DOMAIN list : list'[p] = list[p]
      /\ \A p \in DOMAIN list' : p \in DOMAIN list \/ list'[p].key = key
  <2>1. /\ DOMAIN list = 1 .. Len(list) /\ Len(list) \in Nat
        /\ DOMAIN list' = 1 .. Len(list) + 1
        /\ \A p \in DOMAIN list : list'[p] = list[p]
        /\ list'[Len(list) + 1] = [key |-> key, value |-> value, hash |-> value /= EMPTY]
    <3>1. key \in Keys /\ OutTypeOK
      BY DEF OInv
    <3> QED BY <3>1, Pushed
  <2>2. \A p \in DOMAIN list' : p \in DOMAIN list \/ p = Len(list) + 1
    BY <2>1
  <2> QED BY <2>1, <2>2
<1>3. Owned'
  BY <1>1, <1>2 DEF OInv, Owned
<1>4. Named'
  BY <1>1, <1>2 DEF OInv, Named
<1>5. ChainNamed'
  BY <1>1, <1>2, SeqFacts DEF OInv, ChainNamed
<1>6. Linked'
  BY <1>2 DEF OInv, Linked
<1> QED BY <1>3, <1>4, <1>5, <1>6

\* A cleared slot keeps its name.
LEMMA ClearedFacts ==
    ASSUME NEW slot \in Slot
    PROVE  Cleared(slot) \in Slot /\ Cleared(slot).key = slot.key /\ ~Cleared(slot).hash
<1> DEFINE emptied == [slot EXCEPT !.value = EMPTY]
<1>0. EMPTY \in Values
  BY DEF Values
<1>1. /\ emptied \in Slot /\ emptied.key = slot.key
      /\ Cleared(slot) = [emptied EXCEPT !.hash = FALSE]
  <2>1. emptied \in Slot /\ emptied.key = slot.key
    BY <1>0 DEF Slot
  <2>2. Cleared(slot) = [emptied EXCEPT !.hash = FALSE]
    BY DEF Cleared, Slot
  <2> QED BY <2>1, <2>2
<1> HIDE DEF emptied
<1>2. /\ [emptied EXCEPT !.hash = FALSE] \in Slot
      /\ [emptied EXCEPT !.hash = FALSE].key = emptied.key
      /\ [emptied EXCEPT !.hash = FALSE].hash = FALSE
  BY <1>1 DEF Slot
<1> QED BY <1>1, <1>2

\* Without an output_header the helper clears or changes headers it finds, or pushes.
LEMMA HelperKeeps ==
    ASSUME OInv, NEW rule \in Rules, NEW value \in Values, NEW no_create \in BOOLEAN,
           Helper(rule, value, NULL, no_create)
    PROVE  /\ pc' \in {"idle", "error"} /\ ptr' = ptr
           /\ \/ Quieter /\ list' \in Seq(Slot)
              \/ PushHeader(rule.key, value) /\ Creates(rule, value, no_create)
<1>0. /\ DOMAIN list = 1 .. Len(list) /\ Len(list) \in Nat
      /\ list \in Seq(Slot) /\ \A p \in DOMAIN list : list[p] \in Slot
  BY SeqFacts DEF OInv, OutTypeOK, Slot
<1>1. CASE list' = list /\ ptr' = ptr /\ pc' \in {"idle", "error"}
  BY <1>0, <1>1 DEF Quieter
<1>2. CASE ChangeFound(rule, value, NULL)
  <2>1. list' = Scanned(rule, value) /\ ptr' = ptr /\ pc' = "idle"
    BY <1>2 DEF ChangeFound, Output, Return
  <2>2. \A p \in DOMAIN list : /\ Cleared(list[p]) \in Slot
                               /\ Cleared(list[p]).key = list[p].key
                               /\ ~Cleared(list[p]).hash
    BY <1>0, ClearedFacts
  <2>3. \A p \in DOMAIN list :
           LET slot == [list[p] EXCEPT !.value = value]
           IN  slot \in Slot /\ slot.key = list[p].key /\ slot.hash = list[p].hash
    BY <1>0 DEF Slot
  <2>4. /\ DOMAIN list' = DOMAIN list
        /\ \A p \in DOMAIN list : list'[p] \in
              {list[p], Cleared(list[p]), [list[p] EXCEPT !.value = value]}
    BY <2>1 DEF Scanned
  <2>5. \A p \in DOMAIN list : list'[p] \in Slot
    BY <1>0, <2>2, <2>3, <2>4
  <2>6. list' = [p \in DOMAIN list |-> list'[p]]
    BY <2>1 DEF Scanned
  <2>7. list' \in Seq(Slot)
    BY <2>5, <2>6, Changed DEF OInv
  <2>8. Quieter
    BY <2>2, <2>3, <2>4 DEF Quieter
  <2> QED BY <2>1, <2>7, <2>8
<1>3. CASE Create(rule, value, NULL, no_create) \/ CreateFails(rule, value, no_create)
  BY <1>1, <1>3 DEF Create, CreateFails, Output, Return
<1> QED BY <1>1, <1>2, <1>3 DEF Helper, KeepFound, LeaveAbsent, Return

\* What set_builtin_header does if there is no pointer: nothing it could find.
LEMMA NothingToFind ==
    ASSUME OInv, pc = "idle", NEW rule \in Rules, rule.key \in Single, Old(rule) = NULL
    PROVE  Hits(rule) = {}
<1>1. Covered(rule) = {rule.key} /\ DOMAIN list \subseteq Nat
  BY RuleFacts, SeqFacts DEF Builtin, OInv, OutTypeOK
<1> QED BY <1>1, NullAssumption DEF OInv, Owned, Hits, Old

-----------------------------------------------------------------------------
(* Types. *)

\* The types of pointers and chains, if the list grows and a new slot is pointed to.
LEMMA TypeKept ==
    ASSUME OutTypeOK, list' \in Seq(Slot), DOMAIN list \subseteq DOMAIN list',
           ptr' = ptr \/ \E name \in Pointers, p \in DOMAIN list' :
                            ptr' = [ptr EXCEPT ![name] = p],
           chain' = chain \/ \E name \in Multi, s \in Seq(DOMAIN list') :
                                chain' = [chain EXCEPT ![name] = s]
    PROVE  /\ list' \in Seq([key : Keys, value : Produced \cup Values, hash : BOOLEAN])
           /\ ptr' \in [Pointers -> DOMAIN list' \cup {NULL}]
           /\ chain' \in [Multi -> Seq(DOMAIN list')]
<1>1. ptr \in [Pointers -> DOMAIN list \cup {NULL}] /\ chain \in [Multi -> Seq(DOMAIN list)]
  BY DEF OutTypeOK
<1>2. ptr' \in [Pointers -> DOMAIN list' \cup {NULL}]
  BY <1>1
<1>3. \A name \in Multi : chain[name] \in Seq(DOMAIN list')
  BY <1>1, SeqMono
<1>4. chain \in [Multi -> Seq(DOMAIN list')]
  BY <1>1, <1>3
<1>5. chain' \in [Multi -> Seq(DOMAIN list')]
  BY <1>4
<1> QED BY <1>2, <1>5 DEF Slot

-----------------------------------------------------------------------------
(* The steps, each with what it does to the list, the pointers and the chains. *)

Core == Owned /\ Named /\ ChainNamed /\ Linked

\* The list only grows, and what is newly pointed to is in it.
Grows ==
    /\ list' \in Seq(Slot) /\ DOMAIN list \subseteq DOMAIN list'
    /\ ptr' = ptr \/ \E name \in Pointers, p \in DOMAIN list' :
                        ptr' = [ptr EXCEPT ![name] = p]
    /\ chain' = chain \/ \E name \in Multi, s \in Seq(DOMAIN list') :
                            chain' = [chain EXCEPT ![name] = s]

Sound == Grows /\ pc' \in {"producing", "idle", "error"} /\ (pc' /= "error" => Core')

\* A step that changes neither list nor pointers.
LEMMA SameList ==
    ASSUME OInv, pc /= "error", list' = list, ptr' = ptr, chain' = chain,
           pc' \in {"idle", "error"}
    PROVE  Sound
<1>1. list' \in Seq(Slot)
  BY DEF OInv, OutTypeOK, Slot
<1>2. Quieter
  BY DEF Quieter
<1> QED BY <1>1, <1>2, QuieterKeeps DEF Sound, Grows, Core

\* A step that only clears.
LEMMA QuieterSound ==
    ASSUME OInv, pc /= "error", Quieter, list' \in Seq(Slot), ptr' = ptr, chain' = chain,
           pc' \in {"idle", "error"}
    PROVE  Sound
BY QuieterKeeps DEF Sound, Grows, Core, Quieter

\* A header of the response that nginx makes.
LEMMA ProduceSound ==
    ASSUME OInv, NEW key \in Names, NEW value \in Produced, Produce(key, value)
    PROVE  Sound
<1> DEFINE new == Len(list) + 1
<1>1. /\ pc = "producing" /\ pc' = pc
      /\ key \in Names \ Types /\ key \in Keys
      /\ key \in Single \cup Pointers => ~Has(key)
      /\ key \in Single => Pointer[key] = key
      /\ PushHeader(key, value)
      /\ ptr' = IF key \in Pointers THEN [ptr EXCEPT ![key] = new] ELSE ptr
      /\ chain' = IF key \in Multi THEN [chain EXCEPT ![key] = Append(@, new)] ELSE chain
  BY DEF Produce, Keys
<1>2. OutTypeOK /\ Core
  BY <1>1 DEF OInv, Core
<1>3. /\ ptr \in [Pointers -> DOMAIN list \cup {NULL}]
      /\ chain \in [Multi -> Seq(DOMAIN list)]
  BY <1>2 DEF OutTypeOK
<1>4. /\ list' \in Seq(Slot)
      /\ DOMAIN list = 1 .. Len(list) /\ Len(list) \in Nat
      /\ DOMAIN list' = 1 .. Len(list) + 1
      /\ \A p \in DOMAIN list : list'[p] = list[p]
      /\ list'[new] = [key |-> key, value |-> value, hash |-> value /= EMPTY]
  BY <1>1, <1>2, Pushed
<1>5. /\ DOMAIN list \subseteq DOMAIN list' /\ new \in DOMAIN list' /\ new \notin DOMAIN list
      /\ \A p \in DOMAIN list' : p \in DOMAIN list \/ p = new
      /\ list'[new].key = key
  BY <1>4
<1> HIDE DEF new
<1>6. Grows
  <2>1. \A name \in Multi : chain[name] \in Seq(DOMAIN list')
    BY <1>3, <1>5, SeqMono
  <2>2. \A name \in Multi : Append(chain[name], new) \in Seq(DOMAIN list')
    BY <2>1, <1>5
  <2>3. chain' = chain \/ \E name \in Multi, s \in Seq(DOMAIN list') :
                             chain' = [chain EXCEPT ![name] = s]
    BY <1>1, <2>2
  <2> QED BY <1>1, <1>4, <1>5, <2>3 DEF Grows
<1>7. \A name \in Single : Pointer[name] \in Pointers
  BY DEF Pointers
<1>8. Owned'
  <2> SUFFICES ASSUME NEW name \in Single, NEW p \in DOMAIN list',
                      list'[p].hash, list'[p].key = name
               PROVE  ptr'[Pointer[name]] = p
    BY DEF Owned
  <2>1. CASE p = new
    <3>1. key = name /\ Pointer[name] = key /\ key \in Pointers
      BY <1>1, <1>5, <1>7, <2>1
    <3> QED BY <1>1, <1>3, <2>1, <3>1
  <2>2. CASE p \in DOMAIN list
    <3>1. ptr[Pointer[name]] = p
      BY <1>2, <1>4, <2>2 DEF Core, Owned
    <3>2. p /= NULL
      BY <1>4, <2>2, NullAssumption
    <3>3. list[p].key = Pointer[name]
      BY <1>1, <1>2, <1>7, <3>1, <3>2 DEF Core, Named
    <3>4. Has(Pointer[name])
      BY <2>2, <3>3 DEF Has
    <3>5. Pointer[name] /= key
      BY <1>1, <1>7, <3>4
    <3> QED BY <1>1, <1>3, <1>7, <3>1, <3>5
  <2> QED BY <1>5, <2>1, <2>2
<1>9. Named'
  <2> SUFFICES ASSUME NEW name \in Pointers, ptr'[name] /= NULL
               PROVE  list'[ptr'[name]].key = name
    BY DEF Named
  <2>1. CASE name = key
    BY <1>1, <1>3, <1>5, <2>1
  <2>2. CASE name /= key
    <3>1. ptr'[name] = ptr[name] /\ ptr[name] \in DOMAIN list
      BY <1>1, <1>3, <2>2
    <3> QED BY <1>1, <1>2, <1>4, <3>1 DEF Core, Named
  <2> QED BY <2>1, <2>2
<1>10. ChainNamed' /\ Linked'
  <2>1. \A name \in Multi : DOMAIN chain[name] = 1 .. Len(chain[name])
                            /\ Len(chain[name]) \in Nat
                            /\ \A k \in DOMAIN chain[name] : chain[name][k] \in DOMAIN list
    BY <1>3, SeqFacts
  <2>2. \A name \in Multi \ {key} : chain'[name] = chain[name]
    BY <1>1, <1>3
  <2>3. key \in Multi => chain'[key] = Append(chain[key], new)
    BY <1>1, <1>3
  <2>4. key \in Multi => /\ DOMAIN chain'[key] = 1 .. Len(chain[key]) + 1
                         /\ \A k \in DOMAIN chain[key] : chain'[key][k] = chain[key][k]
                         /\ chain'[key][Len(chain[key]) + 1] = new
    BY <1>3, <2>3
  <2>5. \A name \in Multi : \A k \in DOMAIN chain'[name] :
           \/ k \in DOMAIN chain[name] /\ chain'[name][k] = chain[name][k]
           \/ name = key /\ chain'[name][k] = new
    BY <2>1, <2>2, <2>4
  <2>6. ChainNamed'
    BY <1>2, <1>4, <1>5, <2>1, <2>5 DEF Core, ChainNamed
  <2>7. \A name \in Multi : Range(chain[name]) \subseteq Range(chain'[name])
    BY <2>1, <2>2, <2>4 DEF Range
  <2>8. key \in Multi => new \in Range(chain'[key])
    BY <2>1, <2>4 DEF Range
  <2>9. Linked'
    BY <1>2, <1>4, <1>5, <2>7, <2>8 DEF Core, Linked
  <2> QED BY <2>6, <2>9
<1> QED BY <1>1, <1>6, <1>8, <1>9, <1>10 DEF Sound, Core

\* A handler that calls the helper without an output_header.
LEMMA HelperSound ==
    ASSUME OInv, pc = "idle", NEW rule \in Rules, rule.key \notin Single \cup Multi,
           NEW value \in Values, NEW no_create \in BOOLEAN,
           Helper(rule, value, NULL, no_create), chain' = chain
    PROVE  Sound
<1>1. pc' \in {"idle", "error"} /\ ptr' = ptr
  BY HelperKeeps
<1>2. CASE Quieter /\ list' \in Seq(Slot)
  BY <1>1, <1>2, QuieterSound
<1>3. CASE PushHeader(rule.key, value)
  <2>1. rule.key \in Keys \ (Single \cup Multi) /\ value \in Produced \cup Values
    BY RuleFacts
  <2>2. Core'
    BY <1>1, <1>3, <2>1, PushKeeps DEF Core
  <2>3. /\ list' \in Seq(Slot)
        /\ DOMAIN list = 1 .. Len(list) /\ Len(list) \in Nat
        /\ DOMAIN list' = 1 .. Len(list) + 1
    BY <1>3, <2>1, Pushed DEF OInv
  <2>4. DOMAIN list \subseteq DOMAIN list'
    BY <2>3
  <2> QED BY <1>1, <2>2, <2>3, <2>4 DEF Sound, Grows
<1> QED BY <1>2, <1>3, HelperKeeps

\* A header is pushed and its pointer set.
LEMMA SetAbsentSound ==
    ASSUME OInv, pc = "idle", NEW rule \in Rules, SetAbsentBuiltin(rule)
    PROVE  Sound
<1> DEFINE new == Len(list) + 1
           name0 == Pointer[rule.key]
<1>1. /\ rule.key \in Single /\ rule.key \in Keys /\ rule.value \in Produced \cup Values
      /\ Old(rule) = NULL /\ chain' = chain
      /\ Helper(rule, rule.value, Pointer[rule.key], FALSE)
      /\ name0 \in Pointers
  BY RuleFacts DEF SetAbsentBuiltin, BeginBuiltin, Pointers
<1>2. Hits(rule) = {}
  BY <1>1, NothingToFind
<1>3. CASE LeaveAbsent(rule, rule.value, FALSE)
  BY <1>1, <1>3, SameList DEF LeaveAbsent, Return
<1>4. CASE CreateFails(rule, rule.value, FALSE)
  <2>1. ptr' = ptr /\ pc' = "error" /\ (list' = list \/ PushHeader(rule.key, rule.value))
    BY <1>4 DEF CreateFails
  <2>2. CASE list' = list
    BY <1>1, <2>1, <2>2, SameList
  <2>3. CASE PushHeader(rule.key, rule.value)
    <3>1. /\ list' \in Seq(Slot)
          /\ DOMAIN list = 1 .. Len(list) /\ Len(list) \in Nat
          /\ DOMAIN list' = 1 .. Len(list) + 1
      BY <1>1, <2>3, Pushed DEF OInv
    <3>2. DOMAIN list \subseteq DOMAIN list'
      BY <3>1
    <3> QED BY <1>1, <2>1, <3>1, <3>2 DEF Sound, Grows
  <2> QED BY <2>1, <2>2, <2>3
<1>5. CASE Create(rule, rule.value, Pointer[rule.key], FALSE)
  <2>1. /\ PushHeader(rule.key, rule.value) /\ pc' = "idle"
        /\ Output(name0, new)
    BY <1>5 DEF Create, NewSlot, Return
  <2>2. OutTypeOK /\ Core
    BY DEF OInv, Core
  <2>3. /\ ptr \in [Pointers -> DOMAIN list \cup {NULL}]
        /\ chain \in [Multi -> Seq(DOMAIN list)]
    BY <2>2 DEF OutTypeOK
  <2>4. /\ list' \in Seq(Slot)
        /\ DOMAIN list = 1 .. Len(list) /\ Len(list) \in Nat
        /\ DOMAIN list' = 1 .. Len(list) + 1
        /\ \A p \in DOMAIN list : list'[p] = list[p]
        /\ list'[new] = [key |-> rule.key, value |-> rule.value, hash |-> rule.value /= EMPTY]
    BY <1>1, <2>1, <2>2, Pushed
  <2>5. /\ DOMAIN list \subseteq DOMAIN list' /\ new \in DOMAIN list' /\ new \notin DOMAIN list
        /\ \A p \in DOMAIN list' : p \in DOMAIN list \/ p = new
        /\ list'[new].key = rule.key
    BY <2>4
  <2>6. name0 /= NULL => ptr' = [ptr EXCEPT ![name0] = new]
    BY <2>1 DEF Output
  <2> HIDE DEF new
  <2>8. name0 /= NULL
    BY <1>1, NullAssumption, NamesAssumption
  <2>9. Sound
    <3>1. Grows
      BY <1>1, <2>4, <2>5, <2>6, <2>8 DEF Grows
    <3>2. \A name \in Single : /\ Pointer[name] \in Pointers
                               /\ Pointer[name] = name0 => name = rule.key
      BY <1>1, NamesAssumption DEF Pointers
    <3>3. Owned'
      <4> SUFFICES ASSUME NEW name \in Single, NEW p \in DOMAIN list',
                          list'[p].hash, list'[p].key = name
                   PROVE  ptr'[Pointer[name]] = p
        BY DEF Owned
      <4>1. CASE p = new
        BY <1>1, <2>3, <2>5, <2>6, <2>8, <4>1
      <4>2. CASE p \in DOMAIN list
        <5>1. ptr[Pointer[name]] = p /\ p /= NULL
          BY <2>2, <2>4, <4>2, NullAssumption DEF Core, Owned
        <5>2. Pointer[name] /= name0
          BY <1>1, <5>1 DEF Old
        <5> QED BY <2>3, <2>6, <2>8, <3>2, <5>1, <5>2
      <4> QED BY <2>5, <4>1, <4>2
    <3>4. Named'
      <4> SUFFICES ASSUME NEW name \in Pointers, ptr'[name] /= NULL
                   PROVE  LET key == list'[ptr'[name]].key
                          IN  key = name \/ (key \in Single /\ Pointer[key] = name)
        BY <2>1 DEF Named
      <4>1. CASE name = name0
        BY <1>1, <2>3, <2>5, <2>6, <2>8, <4>1
      <4>2. CASE name /= name0
        <5>1. ptr'[name] = ptr[name] /\ ptr[name] \in DOMAIN list
          BY <2>3, <2>6, <2>8, <4>2
        <5> QED BY <2>2, <2>4, <5>1 DEF Core, Named
      <4> QED BY <4>1, <4>2
    <3>5. ChainNamed'
      BY <1>1, <2>2, <2>3, <2>4, SeqFacts DEF Core, ChainNamed
    <3>6. Linked'
      <4>1. rule.key \notin Multi
        BY <1>1, NamesAssumption
      <4> QED BY <1>1, <2>2, <2>4, <2>5, <4>1 DEF Core, Linked
    <3> QED BY <2>1, <3>1, <3>3, <3>4, <3>5, <3>6 DEF Sound, Core
  <2> QED BY <2>9
<1> QED BY <1>1, <1>2, <1>3, <1>4, <1>5, RuleFacts
        DEF Helper, KeepFound, ChangeFound

\* The header that is pointed to is given the rule's value, and its name.
LEMMA ReplaceSound ==
    ASSUME OInv, pc = "idle", NEW rule \in Rules, ReplaceBuiltin(rule)
    PROVE  Sound
<1> DEFINE q == Old(rule)
           name0 == Pointer[rule.key]
           new == [key |-> rule.key, value |-> rule.value, hash |-> TRUE]
<1>1. /\ rule.key \in Single /\ name0 \in Pointers /\ q = ptr[name0] /\ q /= NULL
      /\ list' = [list EXCEPT ![q] = new] /\ ptr' = ptr /\ chain' = chain /\ pc' = "idle"
      /\ new \in Slot
  BY RuleFacts DEF ReplaceBuiltin, BeginBuiltin, Old, Pointers, Return, Slot
<1>2. OutTypeOK /\ Core
  BY DEF OInv, Core
<1>3. /\ ptr \in [Pointers -> DOMAIN list \cup {NULL}]
      /\ chain \in [Multi -> Seq(DOMAIN list)]
      /\ list \in Seq(Slot) /\ DOMAIN list \subseteq Nat
  BY <1>2, SeqFacts DEF OutTypeOK, Slot
<1>4. q \in DOMAIN list
  BY <1>1, <1>3
<1> HIDE DEF q
<1>5. /\ list' \in Seq(Slot) /\ DOMAIN list' = DOMAIN list
      /\ \A p \in DOMAIN list : p /= q => list'[p] = list[p]
      /\ list'[q].key = rule.key
  <2> HIDE DEF new
  <2>1. /\ list' \in Seq(Slot) /\ DOMAIN list' = DOMAIN list
        /\ \A p \in DOMAIN list : p /= q => list'[p] = list[p]
        /\ list'[q] = new
    BY <1>1, <1>3, <1>4
  <2> QED BY <2>1 DEF new
<1>6. \/ list[q].key = name0
      \/ list[q].key \in Single /\ Pointer[list[q].key] = name0
  BY <1>1, <1>2 DEF Core, Named
<1>7. Owned'
  BY <1>1, <1>2, <1>5 DEF Core, Owned
<1>8. Named'
  <2> SUFFICES ASSUME NEW name \in Pointers, ptr[name] /= NULL
               PROVE  LET key == list'[ptr[name]].key
                      IN  key = name \/ (key \in Single /\ Pointer[key] = name)
    BY <1>1 DEF Named
  <2>1. \/ list[ptr[name]].key = name
        \/ list[ptr[name]].key \in Single /\ Pointer[list[ptr[name]].key] = name
    BY <1>2 DEF Core, Named
  <2>2. CASE ptr[name] /= q
    BY <1>3, <1>5, <2>1, <2>2
  <2>3. CASE ptr[name] = q
    <3>1. name = name0
      BY <1>6, <1>1, <2>1, <2>3, NamesAssumption DEF Pointers
    <3> QED BY <1>1, <1>5, <2>3, <3>1
  <2> QED BY <2>2, <2>3
<1>9. list[q].key \notin Multi
  BY <1>1, <1>6, NamesAssumption
<1>10. ChainNamed'
  BY <1>1, <1>2, <1>3, <1>5, <1>9, SeqFacts DEF Core, ChainNamed
<1>11. Linked'
  <2>1. rule.key \notin Multi
    BY <1>1, NamesAssumption
  <2> QED BY <1>1, <1>2, <1>5, <2>1 DEF Core, Linked
<1> QED BY <1>1, <1>5, <1>7, <1>8, <1>10, <1>11 DEF Sound, Grows, Core

\* The chain's first header becomes visible, the others are cleared.
LEMMA ChangeChainSound ==
    ASSUME OInv, pc = "idle", NEW rule \in Rules, ChangeChain(rule)
    PROVE  Sound
<1> DEFINE links == chain[rule.key]
           first == [list[links[1]] EXCEPT !.value = rule.value,
                                           !.hash = rule.value /= EMPTY]
<1>1. /\ rule.key \in Multi /\ links /= << >> /\ rule.value \in Values
      /\ ptr' = ptr /\ chain' = chain /\ pc' = "idle"
  BY RuleFacts DEF ChangeChain, BeginMulti, Return
<1>2. OutTypeOK /\ Core
  BY DEF OInv, Core
<1>3. /\ ptr \in [Pointers -> DOMAIN list \cup {NULL}]
      /\ chain \in [Multi -> Seq(DOMAIN list)]
      /\ \A p \in DOMAIN list : list[p] \in Slot
  BY <1>2, SeqFacts DEF OutTypeOK, Slot
<1>4. 1 \in DOMAIN links /\ links[1] \in DOMAIN list
  BY <1>1, <1>3
<1>5. /\ list' = [p \in DOMAIN list |->
                     IF p = links[1]
                     THEN [list[p] EXCEPT !.value = rule.value, !.hash = rule.value /= EMPTY]
                     ELSE IF p \in Range(links) THEN Cleared(list[p]) ELSE list[p]]
  BY DEF ChangeChain
<1>6. \A p \in DOMAIN list : p /= links[1] =>
         /\ list'[p] \in Slot /\ list'[p].key = list[p].key
         /\ list'[p].hash => list[p].hash
  BY <1>3, <1>5, ClearedFacts
<1>7. list'[links[1]] \in Slot /\ list'[links[1]].key = rule.key
  <2>1. list[links[1]] \in Slot /\ list[links[1]].key = rule.key
    BY <1>1, <1>2, <1>3, <1>4 DEF Core, ChainNamed
  <2>2. list'[links[1]] = first
    BY <1>4, <1>5
  <2>3. first = [key |-> rule.key, value |-> rule.value, hash |-> rule.value /= EMPTY]
    <3> DEFINE filled == [list[links[1]] EXCEPT !.value = rule.value]
    <3>1. filled = [key |-> rule.key, value |-> rule.value, hash |-> list[links[1]].hash]
      BY <2>1 DEF Slot
    <3>2. first = [filled EXCEPT !.hash = rule.value /= EMPTY]
      BY <2>1 DEF Slot
    <3> HIDE DEF filled
    <3> QED BY <3>1, <3>2
  <2>4. rule.key \in Keys
    BY RuleFacts
  <2> HIDE DEF first
  <2> QED BY <1>1, <2>2, <2>3, <2>4 DEF Slot
<1>8. list' \in Seq(Slot) /\ DOMAIN list' = DOMAIN list
  <2>1. \A p \in DOMAIN list : list'[p] \in Slot
    BY <1>6, <1>7
  <2>2. list' = [p \in DOMAIN list |-> list'[p]]
    BY <1>5
  <2> QED BY <1>2, <2>1, <2>2, Changed
<1>9. list[links[1]].key = rule.key
  BY <1>1, <1>2, <1>4 DEF Core, ChainNamed
<1>10. \A p \in DOMAIN list : list'[p].key = list[p].key
  BY <1>6, <1>7, <1>9
<1>11. Owned'
  <2>1. rule.key \notin Single
    BY <1>1, NamesAssumption
  <2> QED BY <1>1, <1>2, <1>6, <1>7, <1>8, <2>1 DEF Core, Owned
<1>12. Named'
  BY <1>1, <1>2, <1>3, <1>10 DEF Core, Named
<1>13. ChainNamed'
  BY <1>1, <1>2, <1>3, <1>10, SeqFacts DEF Core, ChainNamed
<1>14. Linked'
  <2>1. links[1] \in Range(chain[rule.key])
    BY <1>4 DEF Range
  <2> QED BY <1>1, <1>2, <1>6, <1>7, <1>8, <2>1 DEF Core, Linked
<1> QED BY <1>1, <1>8, <1>11, <1>12, <1>13, <1>14 DEF Sound, Grows, Core

\* The pushed header is the whole chain.
LEMMA StartChainSound ==
    ASSUME OInv, pc = "idle", NEW rule \in Rules, StartChain(rule)
    PROVE  Sound
<1> DEFINE new == Len(list) + 1
<1>1. /\ rule.key \in Multi /\ rule.key \in Keys /\ rule.value \in Produced \cup Values
      /\ chain[rule.key] = << >> /\ PushHeader(rule.key, rule.value)
      /\ ptr' = ptr /\ chain' = [chain EXCEPT ![rule.key] = <<new>>] /\ pc' = "idle"
  BY RuleFacts DEF StartChain, BeginMulti, Return, NewSlot
<1>2. OutTypeOK /\ Core
  BY DEF OInv, Core
<1>3. /\ ptr \in [Pointers -> DOMAIN list \cup {NULL}]
      /\ chain \in [Multi -> Seq(DOMAIN list)]
  BY <1>2 DEF OutTypeOK
<1>4. /\ list' \in Seq(Slot)
      /\ DOMAIN list = 1 .. Len(list) /\ Len(list) \in Nat
      /\ DOMAIN list' = 1 .. Len(list) + 1
      /\ \A p \in DOMAIN list : list'[p] = list[p]
      /\ list'[new] = [key |-> rule.key, value |-> rule.value, hash |-> rule.value /= EMPTY]
  BY <1>1, <1>2, Pushed
<1>5. /\ DOMAIN list \subseteq DOMAIN list' /\ new \in DOMAIN list'
      /\ \A p \in DOMAIN list' : p \in DOMAIN list \/ p = new
      /\ list'[new].key = rule.key
  BY <1>4
<1> HIDE DEF new
<1>6. /\ <<new>> \in Seq(DOMAIN list')
      /\ DOMAIN <<new>> = {1} /\ <<new>>[1] = new
  BY <1>5
<1>7. Grows
  BY <1>1, <1>4, <1>5, <1>6 DEF Grows
<1>8. Owned'
  <2>1. rule.key \notin Single
    BY <1>1, NamesAssumption
  <2> QED BY <1>1, <1>2, <1>4, <1>5, <2>1 DEF Core, Owned
<1>9. Named'
  BY <1>1, <1>2, <1>3, <1>4 DEF Core, Named
<1>10. /\ chain'[rule.key] = <<new>>
       /\ \A name \in Multi \ {rule.key} : chain'[name] = chain[name]
  BY <1>1, <1>3
<1>11. ChainNamed'
  <2> SUFFICES ASSUME NEW name \in Multi, NEW k \in DOMAIN chain'[name]
               PROVE  list'[chain'[name][k]].key = name
    BY DEF ChainNamed
  <2>1. CASE name = rule.key
    BY <1>5, <1>6, <1>10, <2>1
  <2>2. CASE name /= rule.key
    <3>1. /\ k \in DOMAIN chain[name] /\ chain'[name][k] = chain[name][k]
          /\ list[chain[name][k]].key = name
      BY <1>2, <1>10, <2>2 DEF Core, ChainNamed
    <3>2. chain[name][k] \in DOMAIN list
      BY <1>3, <3>1, SeqFacts
    <3> QED BY <1>4, <3>1, <3>2
  <2> QED BY <2>1, <2>2
<1>12. Linked'
  <2> SUFFICES ASSUME NEW name \in Multi, NEW p \in DOMAIN list',
                      list'[p].hash, list'[p].key = name
               PROVE  p \in Range(chain'[name])
    BY DEF Linked
  <2>1. CASE p = new
    BY <1>5, <1>6, <1>10, <2>1 DEF Range
  <2>2. CASE p \in DOMAIN list
    <3>1. p \in Range(chain[name])
      BY <1>2, <1>4, <2>2 DEF Core, Linked
    <3>2. name /= rule.key
      BY <1>1, <3>1 DEF Range
    <3> QED BY <1>10, <3>1, <3>2
  <2> QED BY <1>5, <2>1, <2>2
<1> QED BY <1>1, <1>7, <1>8, <1>9, <1>11, <1>12 DEF Sound, Core

\* The header that is pointed to is cleared.
LEMMA ClearSound ==
    ASSUME OInv, pc = "idle", NEW rule \in Rules, ClearBuiltin(rule)
    PROVE  Sound
<1> DEFINE q == Old(rule)
<1>1. /\ q = ptr[Pointer[rule.key]] /\ q /= NULL /\ Pointer[rule.key] \in Pointers
      /\ list' = [list EXCEPT ![q] = Cleared(list[q])]
      /\ ptr' = ptr /\ chain' = chain /\ pc' = "idle"
  BY DEF ClearBuiltin, BeginBuiltin, Old, Return, Pointers
<1>2. q \in DOMAIN list /\ list \in Seq(Slot) /\ list[q] \in Slot
  BY <1>1, SeqFacts DEF OInv, OutTypeOK, Slot
<1> HIDE DEF q
<1>3. /\ Cleared(list[q]) \in Slot /\ Cleared(list[q]).key = list[q].key
      /\ ~Cleared(list[q]).hash
  BY <1>2, ClearedFacts
<1>4. list' \in Seq(Slot)
  BY <1>1, <1>2, <1>3
<1>5. Quieter
  BY <1>1, <1>2, <1>3 DEF Quieter
<1> QED BY <1>1, <1>4, <1>5, QuieterSound

\* Any rule.
LEMMA RuleSound ==
    ASSUME OInv, NEW rule \in Rules, RunRule(rule)
    PROVE  Sound
<1>1. pc = "idle"
  BY DEF RunRule, SetHeader, RefuseLength, SkipAbsentBuiltin, SetAbsentBuiltin, KeepBuiltin,
         ClearBuiltin, ReplaceBuiltin, SetType, ChangeChain, LeaveNoChain, StartChain,
         StartChainFails, BeginBuiltin, BeginMulti, Begin
<1>2. CASE SetHeader(rule)
  BY <1>1, <1>2, HelperSound, RuleFacts DEF SetHeader, Builtin
<1>3. CASE SetType(rule)
  <2>1. rule.key \notin Single \cup Multi /\ EMPTY \in Values
    BY <1>3, NamesAssumption DEF SetType, Values
  <2> QED BY <1>1, <1>3, <2>1, HelperSound DEF SetType
<1>4. CASE \/ RefuseLength(rule) \/ SkipAbsentBuiltin(rule) \/ KeepBuiltin(rule)
           \/ LeaveNoChain(rule) \/ StartChainFails(rule)
  BY <1>1, <1>4, SameList
     DEF RefuseLength, SkipAbsentBuiltin, KeepBuiltin, LeaveNoChain, StartChainFails,
         BeginBuiltin, BeginMulti, Return
<1> QED BY <1>1, <1>2, <1>3, <1>4, SetAbsentSound, ClearSound, ReplaceSound,
           ChangeChainSound, StartChainSound DEF RunRule

\* The types of the fields.
LEMMA FieldsTyped ==
    ASSUME OutTypeOK, OutNext
    PROVE  /\ type' \in Produced \cup Values
           /\ length' \in Produced \cup Values \cup {NULL}
           /\ ranges' \in BOOLEAN
           /\ call' \in Rules \cup {NULL}
           /\ count' \in Nat
<1>1. ASSUME NEW key \in Names, NEW value \in Produced, Produce(key, value)
      PROVE  /\ type' = type /\ ranges' = ranges /\ call' = call /\ count' = count
             /\ length' \in {length, value}
  BY <1>1 DEF Produce
<1>2. CASE AllProduced
  BY <1>2 DEF AllProduced, field_vars, OutTypeOK
<1>3. ASSUME NEW rule \in Rules, RunRule(rule)
      PROVE  /\ type' \in {type, rule.value}
             /\ length' \in {length, NULL, rule.value}
             /\ ranges' \in BOOLEAN
             /\ call' = rule /\ count' = count + 1
  <2>1. Begin(rule)
    BY <1>3 DEF RunRule, SetHeader, RefuseLength, SkipAbsentBuiltin, SetAbsentBuiltin,
         KeepBuiltin, ClearBuiltin, ReplaceBuiltin, SetType, ChangeChain, LeaveNoChain,
         StartChain, StartChainFails, BeginBuiltin, BeginMulti
  <2>2. \/ UNCHANGED field_vars
        \/ Derive(rule) /\ type' = type
        \/ type' = rule.value /\ UNCHANGED <<length, ranges>>
    BY <1>3 DEF RunRule, SetHeader, RefuseLength, SkipAbsentBuiltin, SetAbsentBuiltin,
         KeepBuiltin, ClearBuiltin, ReplaceBuiltin, SetType, ChangeChain, LeaveNoChain,
         StartChain, StartChainFails, BeginBuiltin, BeginMulti
  <2> QED BY <2>1, <2>2 DEF Begin, Derive, field_vars, OutTypeOK
<1>4. CASE \E rule \in Rules : RunRule(rule)
  <2>1. PICK rule \in Rules : RunRule(rule)
    BY <1>4
  <2> QED BY <1>3, <2>1, RuleFacts DEF OutTypeOK
<1> QED BY <1>1, <1>2, <1>4 DEF OutNext, OutTypeOK

\* The invariant.
LEMMA Invariance == OutSpec => []OInv
<1>1. OutInit => OInv
  <2> SUFFICES ASSUME OutInit PROVE OInv
    OBVIOUS
  <2>1. list = << >> /\ DOMAIN list = {}
    BY DEF OutInit
  <2>2. \A name \in Multi : chain[name] = << >> /\ DOMAIN chain[name] = {}
    BY DEF OutInit
  <2>3. OutTypeOK
    <3>1. /\ list \in Seq([key : Keys, value : Produced \cup Values, hash : BOOLEAN])
          /\ ptr \in [Pointers -> DOMAIN list \cup {NULL}]
      BY <2>1 DEF OutInit
    <3>2. chain \in [Multi -> Seq(DOMAIN list)]
      BY DEF OutInit
    <3>3. type \in Produced \cup Values /\ length \in Produced \cup Values \cup {NULL}
      BY DEF OutInit, Values
    <3>4. ranges \in BOOLEAN /\ pc = "producing" /\ call = NULL /\ count = 0
      BY DEF OutInit
    <3> QED BY <3>1, <3>2, <3>3, <3>4 DEF OutTypeOK
  <2>4. Owned /\ ChainNamed /\ Linked
    BY <2>1, <2>2 DEF Owned, ChainNamed, Linked
  <2>5. Named
    BY DEF OutInit, Named
  <2> QED BY <2>3, <2>4, <2>5 DEF OInv
<1>2. OInv /\ [OutNext]_out_vars => OInv'
  <2> SUFFICES ASSUME OInv, [OutNext]_out_vars PROVE OInv'
    OBVIOUS
  <2>1. CASE UNCHANGED out_vars
    <3>1. /\ list' = list /\ ptr' = ptr /\ chain' = chain /\ pc' = pc /\ call' = call
          /\ type' = type /\ length' = length /\ ranges' = ranges /\ count' = count
      BY <2>1 DEF out_vars, field_vars
    <3>2. OutTypeOK'
      BY <3>1 DEF OInv, OutTypeOK
    <3>3. pc /= "error" => Owned' /\ Named' /\ ChainNamed' /\ Linked'
      BY <3>1 DEF OInv, Owned, Named, ChainNamed, Linked
    <3> QED BY <3>1, <3>2, <3>3 DEF OInv
  <2>2. CASE OutNext
    <3>1. ASSUME NEW key \in Names, NEW value \in Produced, Produce(key, value)
          PROVE  Sound
      BY <3>1, ProduceSound
    <3>2. ASSUME AllProduced PROVE Sound
      BY <3>2, SameList DEF AllProduced
    <3>3. ASSUME NEW rule \in Rules, RunRule(rule) PROVE Sound
      BY <3>3, RuleSound
    <3>4. Sound
      BY <2>2, <3>1, <3>2, <3>3 DEF OutNext
    <3>5. OutTypeOK'
      BY <2>2, <3>4, TypeKept, FieldsTyped DEF OInv, OutTypeOK, Sound, Grows
    <3> QED BY <3>4, <3>5 DEF Sound, Core, OInv
  <2> QED BY <2>1, <2>2
<1> QED BY <1>1, <1>2, PTL DEF OutSpec

-----------------------------------------------------------------------------
(* What is sent of a list. *)

\* The slots of l that are sent under a name.
Shown(l, name) == {p \in DOMAIN l : l[p].hash /\ l[p].key = name}

\* The lines of l, as Listed has them of the response's list.
LinesIn(l, name) == Pick([p \in DOMAIN l |-> Line(l[p].value)], Shown(l, name))

\* Listed, now and after a step.
LEMMA ListedAre ==
    ASSUME NEW name
    PROVE  Listed(name) = LinesIn(list, name) /\ Listed(name)' = LinesIn(list', name)
BY DEF Listed, LinesIn, Shown

\* The sequence that the lines are picked from.
LEMMA LineSeq ==
    ASSUME NEW l \in Seq(Slot)
    PROVE  LET s == [p \in DOMAIN l |-> Line(l[p].value)]
           IN  /\ Len(s) = Len(l) /\ Len(s) \in Nat /\ DOMAIN l = 1 .. Len(s)
               /\ \A p \in 1 .. Len(s) : s[p] = Line(l[p].value)
               /\ s \in Seq({Line(v) : v \in Produced \cup Values})
<1> DEFINE s == [p \in DOMAIN l |-> Line(l[p].value)]
           S == {Line(v) : v \in Produced \cup Values}
<1>1. DOMAIN l = 1 .. Len(l) /\ Len(l) \in Nat
  OBVIOUS
<1>2. s = [p \in 1 .. Len(l) |-> Line(l[p].value)]
  BY <1>1
<1>3. \A p \in 1 .. Len(l) : Line(l[p].value) \in S
  <2>1. \A p \in 1 .. Len(l) : l[p] \in Slot
    OBVIOUS
  <2>2. \A p \in 1 .. Len(l) : l[p].value \in Produced \cup Values
    BY <2>1 DEF Slot
  <2> QED BY <2>2
<1> HIDE DEF S
<1>4. s \in Seq(S) /\ Len(s) = Len(l)
  BY <1>1, <1>2, <1>3
<1> QED BY <1>1, <1>4 DEF S

\* A name is sent exactly if a slot is sent under it.
LEMMA NoLines ==
    ASSUME NEW l \in Seq(Slot), NEW name
    PROVE  LinesIn(l, name) = << >> <=> Shown(l, name) = {}
<1> DEFINE s == [p \in DOMAIN l |-> Line(l[p].value)]
<1>1. Len(s) \in Nat /\ DOMAIN l = 1 .. Len(s)
  BY LineSeq
<1> HIDE DEF s
<1>2. Pick(s, Shown(l, name)) = << >> <=> \A p \in 1 .. Len(s) : p \notin Shown(l, name)
  BY <1>1, PickNone
<1>3. (\A p \in 1 .. Len(s) : p \notin Shown(l, name)) <=> Shown(l, name) = {}
  BY <1>1 DEF Shown
<1> QED BY <1>2, <1>3 DEF LinesIn, s

\* One slot makes one line.
LEMMA OneLine ==
    ASSUME NEW l \in Seq(Slot), NEW name, NEW p, Shown(l, name) = {p}
    PROVE  LinesIn(l, name) = <<Line(l[p].value)>>
<1> DEFINE s == [q \in DOMAIN l |-> Line(l[q].value)]
<1>1. Len(s) \in Nat /\ DOMAIN l = 1 .. Len(s) /\ \A q \in 1 .. Len(s) : s[q] = Line(l[q].value)
  BY LineSeq
<1>2. p \in 1 .. Len(s) /\ \A q \in 1 .. Len(s) : q \in Shown(l, name) <=> q = p
  BY <1>1 DEF Shown
<1> HIDE DEF s
<1>3. Pick(s, Shown(l, name)) = <<s[p]>>
  BY <1>1, <1>2, PickOne
<1> QED BY <1>1, <1>2, <1>3 DEF LinesIn, s

\* m has the same lines of a name as l.
SameShown(l, m, name) ==
    /\ DOMAIN m = DOMAIN l
    /\ \A p \in DOMAIN l : (l[p].hash /\ l[p].key = name) <=> (m[p].hash /\ m[p].key = name)
    /\ \A p \in DOMAIN l : (l[p].hash /\ l[p].key = name) => m[p].value = l[p].value

\* The same slots with the same values make the same lines.
LEMMA SameLines ==
    ASSUME NEW l \in Seq(Slot), NEW m \in Seq(Slot), NEW name, SameShown(l, m, name)
    PROVE  LinesIn(m, name) = LinesIn(l, name)
<1> DEFINE s == [q \in DOMAIN l |-> Line(l[q].value)]
           t == [q \in DOMAIN m |-> Line(m[q].value)]
<1>1. Len(s) \in Nat /\ DOMAIN l = 1 .. Len(s) /\ \A q \in 1 .. Len(s) : s[q] = Line(l[q].value)
  BY LineSeq
<1>2. Len(t) = Len(m) /\ \A q \in 1 .. Len(t) : t[q] = Line(m[q].value)
  BY LineSeq
<1>3. Len(t) = Len(s)
  <2>1. Len(s) = Len(l) /\ DOMAIN l = 1 .. Len(l) /\ DOMAIN m = 1 .. Len(m) /\ DOMAIN l = DOMAIN m
        /\ Len(l) \in Nat /\ Len(m) \in Nat
    BY LineSeq DEF SameShown
  <2> HIDE DEF s, t
  <2> QED BY <1>2, <2>1
<1> HIDE DEF s, t
<1>4. \A q \in 1 .. Len(s) : /\ q \in Shown(l, name) <=> q \in Shown(m, name)
                             /\ q \in Shown(l, name) => s[q] = t[q]
  BY <1>1, <1>2, <1>3 DEF Shown, SameShown
<1>5. Pick(s, Shown(l, name)) = Pick(t, Shown(m, name))
  BY <1>1, <1>3, <1>4, PickSame
<1> QED BY <1>5 DEF LinesIn, s, t

\* The text of a rule: no line, or one.
Text(value) == IF value = EMPTY THEN << >> ELSE <<Line(value)>>

\* In front of it there is nothing.
LEMMA TextAlone == ASSUME NEW value PROVE << >> \o Text(value) = Text(value)
<1>1. PICK x : x = Line(value)
  OBVIOUS
<1>2. <<x>> \in Seq({x})
  OBVIOUS
<1>3. << >> \o <<x>> = <<x>>
  BY <1>2
<1> QED BY <1>1, <1>3 DEF Text

\* A header that is pushed is the last of its name.
LEMMA PushedLines ==
    ASSUME OutTypeOK, NEW key \in Keys, NEW value \in Produced \cup Values,
           PushHeader(key, value), NEW name
    PROVE  /\ name /= key => Listed(name)' = Listed(name)
           /\ Listed(key)' = Listed(key) \o Text(value)
<1> DEFINE S == {Line(v) : v \in Produced \cup Values}
           s == [q \in DOMAIN list |-> Line(list[q].value)]
           t == [q \in DOMAIN list' |-> Line(list'[q].value)]
<1>1. /\ list \in Seq(Slot) /\ list' \in Seq(Slot)
      /\ DOMAIN list = 1 .. Len(list) /\ Len(list) \in Nat
      /\ DOMAIN list' = 1 .. Len(list) + 1
      /\ \A p \in DOMAIN list : list'[p] = list[p]
      /\ list'[Len(list) + 1] = [key |-> key, value |-> value, hash |-> value /= EMPTY]
  BY Pushed DEF OutTypeOK, Slot
<1>2. /\ s \in Seq(S) /\ Len(s) = Len(list) /\ \A q \in 1 .. Len(s) : s[q] = Line(list[q].value)
  BY <1>1, LineSeq
<1>3. /\ t \in Seq(S) /\ Len(t) = Len(list') /\ \A q \in 1 .. Len(t) : t[q] = Line(list'[q].value)
  BY <1>1, LineSeq
<1> DEFINE n == Len(list)
<1>4. Len(list') = n + 1
  BY <1>1
<1> HIDE DEF s, t, S
<1>5. \A q \in 1 .. n : t[q] = s[q]
  BY <1>1, <1>2, <1>3, <1>4
<1>6. t[n + 1] = Line(value) /\ Line(value) \in S
  <2>1. n + 1 \in 1 .. Len(t)
    BY <1>1, <1>3, <1>4
  <2> QED BY <1>1, <1>3, <2>1 DEF S
<1>7. \A k : /\ \A q \in 1 .. n : q \in Shown(list, k) <=> q \in Shown(list', k)
             /\ n + 1 \in Shown(list', k) <=> value /= EMPTY /\ key = k
  <2> DEFINE new == [key |-> key, value |-> value, hash |-> value /= EMPTY]
  <2>1. list'[n + 1].key = key /\ (list'[n + 1].hash <=> value /= EMPTY)
    <3>1. list'[n + 1] = new
      BY <1>1
    <3>2. new.key = key /\ new.hash = (value /= EMPTY)
      BY Zenon
    <3> HIDE DEF new
    <3> QED BY <3>1, <3>2
  <2>2. n + 1 \in DOMAIN list'
    BY <1>1
  <2>3. \A q \in 1 .. n : q \in DOMAIN list /\ q \in DOMAIN list'
    BY <1>1
  <2> QED BY <1>1, <2>1, <2>2, <2>3 DEF Shown
<1>8. ASSUME NEW k, ~(value /= EMPTY /\ key = k) PROVE Listed(k)' = Listed(k)
  <2>1. OneMore(t, s) /\ Len(t) = n + 1
    BY <1>1, <1>2, <1>3, <1>4, <1>5 DEF OneMore
  <2>2. /\ n + 1 \notin Shown(list', k)
        /\ \A q \in 1 .. Len(s) : q \in Shown(list, k) <=> q \in Shown(list', k)
    BY <1>2, <1>7, <1>8
  <2>3. Pick(t, Shown(list', k)) = Pick(s, Shown(list, k))
    BY <2>1, <2>2, PickSkipped
  <2> QED BY <2>3, ListedAre DEF LinesIn, s, t
<1>9. ASSUME value /= EMPTY PROVE Listed(key)' = Append(Listed(key), Line(value))
  <2>1. t = Append(s, Line(value))
    <3>1. PICK a : a = Append(s, Line(value))
      OBVIOUS
    <3>2. /\ a \in Seq(S) /\ Len(a) = n + 1 /\ a[n + 1] = Line(value)
          /\ \A q \in 1 .. n : a[q] = s[q]
      BY <1>2, <1>6, <3>1, AppendProperties
    <3>3. \A q \in 1 .. n + 1 : q \in 1 .. n \/ q = n + 1
      BY <1>1
    <3>4. \A q \in 1 .. n + 1 : a[q] = t[q]
      BY <1>5, <1>6, <3>2, <3>3
    <3>5. a = t
      BY <1>3, <1>4, <3>2, <3>4, SeqEqual
    <3> QED BY <3>1, <3>5
  <2>2. /\ Len(s) + 1 \in Shown(list', key)
        /\ \A q \in 1 .. Len(s) : q \in Shown(list, key) <=> q \in Shown(list', key)
    BY <1>2, <1>7, <1>9
  <2>3. Pick(Append(s, Line(value)), Shown(list', key)) = Append(Pick(s, Shown(list, key)), Line(value))
    BY <1>2, <1>6, <2>2, PickAppended
  <2> QED BY <2>1, <2>3, ListedAre DEF LinesIn, s, t
<1>10. Listed(key) \in Seq(S)
  <2>1. Pick(s, Shown(list, key)) \in Seq(S)
    <3>1. \A k \in 1 .. Len(s) : s[k] \in S
      BY <1>2
    <3> QED BY <1>1, <1>2, <3>1, PickType
  <2> QED BY <2>1, ListedAre DEF LinesIn, s
<1>11. Listed(key)' = Listed(key) \o Text(value)
  <2>1. PICK b : b = Listed(key)
    OBVIOUS
  <2>2. b \in Seq(S)
    BY <1>10, <2>1
  <2>3. Append(b, Line(value)) = b \o <<Line(value)>> /\ b \o << >> = b
    BY <1>6, <2>2
  <2> QED BY <1>8, <1>9, <2>1, <2>3 DEF Text
<1> QED BY <1>8, <1>11

-----------------------------------------------------------------------------
(* What a step does to the lines of the list. *)

\* The lines of no other names are touched.
Only(names) == \A name \in Keys \ names : Listed(name)' = Listed(name)

\* Slots of these names are changed.
LEMMA OnlyThese ==
    ASSUME OInv, list' \in Seq(Slot), DOMAIN list' = DOMAIN list, NEW names,
           \A p \in DOMAIN list :
              list'[p] = list[p] \/ (list[p].key \in names /\ list'[p].key \in names)
    PROVE  Only(names)
<1> SUFFICES ASSUME NEW name \in Keys \ names PROVE Listed(name)' = Listed(name)
  BY DEF Only
<1>1. list \in Seq(Slot)
  BY DEF OInv, OutTypeOK, Slot
<1>2. SameShown(list, list', name)
  BY DEF SameShown
<1> QED BY <1>1, <1>2, SameLines, ListedAre

\* Nothing is sent under a name any more, or a single line.
LEMMA ShownNow ==
    ASSUME list' \in Seq(Slot), NEW name
    PROVE  /\ Shown(list', name) = {} => Listed(name)' = << >>
           /\ \A p : Shown(list', name) = {p} => Listed(name)' = <<Line(list'[p].value)>>
BY NoLines, OneLine, ListedAre

\* A name is sent before a step.
LEMMA ShownBefore ==
    ASSUME OInv, NEW name
    PROVE  Listed(name) = << >> <=> Shown(list, name) = {}
<1>1. list \in Seq(Slot)
  BY DEF OInv, OutTypeOK, Slot
<1> QED BY <1>1, NoLines, ListedAre

\* The headers a rule hits are those that are sent under the names it covers.
LEMMA HitsAreShown ==
    ASSUME NEW rule
    PROVE  /\ Hits(rule) = {p \in DOMAIN list : list[p].hash /\ list[p].key \in Covered(rule)}
           /\ \A name \in Covered(rule) : Shown(list, name) \subseteq Hits(rule)
           /\ ~Wildcard(rule) => Hits(rule) = Shown(list, rule.key)
BY DEF Hits, Shown, Covered

\* The loop of the helper that found headers: they are cleared, or the first has the
\* value.
LEMMA ScannedLines ==
    ASSUME OInv, NEW rule \in Rules, NEW value \in Values, Hits(rule) /= {},
           list' = Scanned(rule, value)
    PROVE  /\ list' \in Seq(Slot) /\ Only(Covered(rule))
           /\ ~Wildcard(rule) => Listed(rule.key)' = Text(value)
           /\ value = EMPTY => \A name \in Covered(rule) : Listed(name)' = << >>
<1> DEFINE first == Min(Hits(rule))
<1>1. /\ DOMAIN list = 1 .. Len(list) /\ Len(list) \in Nat
      /\ list \in Seq(Slot) /\ \A p \in DOMAIN list : list[p] \in Slot
  BY SeqFacts DEF OInv, OutTypeOK, Slot
<1>2. Hits(rule) \subseteq DOMAIN list
  BY DEF Hits
<1>3. first \in Hits(rule)
  <2>1. Hits(rule) \in SUBSET Nat
    BY <1>1, <1>2
  <2>2. \E m \in Hits(rule) : \A k \in Hits(rule) : m <= k
    BY <2>1, Least
  <2> QED BY <2>2 DEF Min
<1> HIDE DEF first
<1>4. \A p \in DOMAIN list : /\ Cleared(list[p]) \in Slot
                             /\ Cleared(list[p]).key = list[p].key
                             /\ ~Cleared(list[p]).hash
  BY <1>1, ClearedFacts
<1>5. \A p \in DOMAIN list :
         LET slot == [list[p] EXCEPT !.value = value]
         IN  slot \in Slot /\ slot.key = list[p].key /\ slot.hash = list[p].hash /\ slot.value = value
  BY <1>1 DEF Slot
<1>6. /\ DOMAIN list' = DOMAIN list
      /\ list' = [p \in DOMAIN list |-> list'[p]]
      /\ \A p \in DOMAIN list :
            /\ p \notin Hits(rule) => list'[p] = list[p]
            /\ p \in Hits(rule) /\ (value = EMPTY \/ p /= first) => list'[p] = Cleared(list[p])
            /\ p \in Hits(rule) /\ value /= EMPTY /\ p = first
                  => list'[p] = [list[p] EXCEPT !.value = value]
  BY DEF Scanned, first
<1>7. \A p \in DOMAIN list : list'[p] \in Slot /\ list'[p].key = list[p].key
  BY <1>1, <1>4, <1>5, <1>6
<1>8. list' \in Seq(Slot)
  BY <1>6, <1>7, Changed DEF OInv
<1>9. Only(Covered(rule))
  <2>1. \A p \in Hits(rule) : list[p].key \in Covered(rule)
    BY HitsAreShown
  <2> QED BY <1>6, <1>7, <1>8, <2>1, OnlyThese
<1>10. ASSUME value = EMPTY, NEW name \in Covered(rule) PROVE Listed(name)' = << >>
  <2>1. \A p \in DOMAIN list : ~(list'[p].hash /\ list'[p].key = name)
    <3> SUFFICES ASSUME NEW p \in DOMAIN list, list'[p].hash, list'[p].key = name PROVE FALSE
      OBVIOUS
    <3>1. CASE p \in Hits(rule)
      BY <1>4, <1>6, <1>10, <3>1
    <3>2. CASE p \notin Hits(rule)
      BY <1>6, <1>10, <3>2, HitsAreShown
    <3> QED BY <3>1, <3>2
  <2>2. Shown(list', name) = {}
    BY <1>6, <2>1 DEF Shown
  <2> QED BY <1>8, <2>2, ShownNow
<1>11. ASSUME ~Wildcard(rule) PROVE Listed(rule.key)' = Text(value)
  <2>1. CASE value = EMPTY
    BY <1>10, <1>11, <2>1 DEF Text, Covered
  <2>2. CASE value /= EMPTY
    <3>1. Hits(rule) = Shown(list, rule.key)
      BY <1>11, HitsAreShown
    <3>2. /\ first \in DOMAIN list /\ list[first].hash /\ list[first].key = rule.key
          /\ list'[first] = [list[first] EXCEPT !.value = value]
      BY <1>3, <1>6, <2>2, <3>1 DEF Shown
    <3>3. list'[first].hash /\ list'[first].key = rule.key /\ list'[first].value = value
      BY <1>5, <3>2
    <3>4. \A p \in DOMAIN list : p /= first => ~(list'[p].hash /\ list'[p].key = rule.key)
      <4> SUFFICES ASSUME NEW p \in DOMAIN list, p /= first, list'[p].hash, list'[p].key = rule.key
                   PROVE  FALSE
        OBVIOUS
      <4>1. CASE p \in Hits(rule)
        BY <1>4, <1>6, <4>1
      <4>2. CASE p \notin Hits(rule)
        BY <1>6, <3>1, <4>2 DEF Shown
      <4> QED BY <4>1, <4>2
    <3>5. Shown(list', rule.key) = {first}
      BY <1>6, <3>2, <3>3, <3>4 DEF Shown
    <3>6. Listed(rule.key)' = <<Line(list'[first].value)>>
      BY <1>8, <3>5, ShownNow
    <3> QED BY <2>2, <3>3, <3>6 DEF Text
  <2> QED BY <2>1, <2>2
<1> QED BY <1>8, <1>9, <1>10, <1>11

\* What the helper makes of the lines of a name that is not a wildcard: keep them,
\* replace them, or put one behind them.
Turned(rule, value, no_create) ==
    LET name == rule.key
    IN  \/ rule.op = "add" /\ Listed(name) /= << >> /\ Listed(name)' = Listed(name)
        \/ /\ rule.op \notin {"add", "append"} /\ Listed(name) /= << >>
           /\ Listed(name)' = Text(value)
        \/ /\ ~Creates(rule, value, no_create) /\ Listed(name) = << >>
           /\ Listed(name)' = << >>
        \/ Creates(rule, value, no_create) /\ Listed(name)' = Listed(name) \o Text(value)

\* set_header_helper, called without an output_header.
LEMMA HelperLines ==
    ASSUME OInv, NEW rule \in Rules, NEW value \in Values, NEW no_create \in BOOLEAN,
           Helper(rule, value, NULL, no_create), pc' = "idle"
    PROVE  /\ ptr' = ptr
           /\ Only(Covered(rule) \cup {rule.key})
           /\ ~Wildcard(rule) => Turned(rule, value, no_create)
           /\ Wildcard(rule) /\ rule.op = "clear" /\ value = EMPTY =>
                 /\ Only(Covered(rule))
                 /\ \A name \in Covered(rule) : Listed(name)' = << >>
<1>1. ptr' = ptr /\ rule.key \in Keys /\ value \in Produced \cup Values /\ OutTypeOK
  BY HelperKeeps, RuleFacts DEF OInv
<1>2. ~Wildcard(rule) => (Hits(rule) = {} <=> Listed(rule.key) = << >>)
  BY HitsAreShown, ShownBefore
<1>3. list' = list => \A name : Listed(name)' = Listed(name)
  BY ListedAre
<1>4. Hits(rule) = {} => \A name \in Covered(rule) : Listed(name) = << >>
  BY HitsAreShown, ShownBefore
<1>5. CASE KeepFound(rule)
  BY <1>1, <1>2, <1>3, <1>5 DEF KeepFound, Only, Turned
<1>6. CASE ChangeFound(rule, value, NULL)
  <2>1. /\ rule.op \notin {"add", "append"} /\ Hits(rule) /= {} /\ list' = Scanned(rule, value)
    BY <1>6 DEF ChangeFound
  <2> QED BY <1>1, <1>2, <2>1, ScannedLines DEF Only, Turned
<1>7. CASE LeaveAbsent(rule, value, no_create)
  BY <1>1, <1>2, <1>3, <1>4, <1>7 DEF LeaveAbsent, Only, Turned
<1>8. CASE Create(rule, value, NULL, no_create)
  <2>1. PushHeader(rule.key, value) /\ Creates(rule, value, no_create)
    BY <1>8 DEF Create
  <2>2. ~(Wildcard(rule) /\ rule.op = "clear" /\ value = EMPTY)
    BY <2>1 DEF Creates
  <2>3. Only({rule.key}) /\ Listed(rule.key)' = Listed(rule.key) \o Text(value)
    BY <1>1, <2>1, PushedLines DEF Only
  <2> QED BY <1>1, <2>1, <2>2, <2>3 DEF Only, Turned
<1>9. ~CreateFails(rule, value, no_create)
  BY DEF CreateFails
<1> QED BY <1>5, <1>6, <1>7, <1>8, <1>9 DEF Helper

-----------------------------------------------------------------------------
(* What nginx sends of itself. *)

\* The names that nginx has a line of its own for, each for another reason.
LEMMA OwnNames ==
           /\ Lengths \cap Ranges = {} /\ Lengths \cap Defaulted = {} /\ Ranges \cap Defaulted = {}
           /\ Types \cap (Single \cup Multi) = {} /\ Multi \cap Single = {}
           /\ Lengths \cup Ranges \cup Defaulted \subseteq Single
           /\ \A n \in Lengths \cup Ranges \cup Defaulted : Pointer[n] = n /\ n \in Pointers
           /\ \A m, n \in Lengths : m = n
           /\ \A m, n \in Ranges : m = n
           /\ \A m, n \in Types : m = n
           /\ \A m, n \in Single : Pointer[m] = Pointer[n] => m = n
           /\ \A n \in Single : Pointer[n] \in Single => Pointer[n] = n
           /\ \A n \in Single : Pointer[n] \in Pointers /\ Pointer[n] /= NULL
<1>1. \A n \in Single : Pointer[n] \in Pointers
  BY DEF Pointers
<1>2. \A n \in Pointers : n /= NULL
  BY NamesAssumption, NullAssumption
<1> QED BY <1>1, <1>2, NamesAssumption

\* Own, as a function of the pointers and fields.
OwnOf(name, pointers, len, rng, text, set) ==
    CASE name \in Lengths /\ pointers[name] = NULL /\ len /= NULL -> <<Line(len)>>
      [] name \in Ranges /\ rng /\ len /= NULL                    -> <<Line(OWN)>>
      [] name \in Defaulted /\ pointers[name] = NULL              -> <<Line(OWN)>>
      [] name \in Types /\ text /= EMPTY ->
            <<IF CharsetOf[text] = NULL THEN <<text, set>> ELSE Line(text)>>
      [] OTHER -> << >>

\* Own, now and after a step.
LEMMA OwnIs ==
    ASSUME NEW name
    PROVE  /\ Own(name) = OwnOf(name, ptr, length, ranges, type, charset)
           /\ Own(name)' = OwnOf(name, ptr', length', ranges', type', charset')
BY DEF Own, OwnOf

\* Its cases exclude each other.
LEMMA OwnCases ==
    ASSUME NEW name, NEW pointers, NEW len, NEW rng, NEW text, NEW set
    PROVE  LET own == OwnOf(name, pointers, len, rng, text, set)
           IN  /\ name \in Lengths =>
                     own = IF pointers[name] = NULL /\ len /= NULL THEN <<Line(len)>> ELSE << >>
               /\ name \in Ranges =>
                     own = IF rng /\ len /= NULL THEN <<Line(OWN)>> ELSE << >>
               /\ name \in Defaulted =>
                     own = IF pointers[name] = NULL THEN <<Line(OWN)>> ELSE << >>
               /\ name \in Types =>
                     own = IF text = EMPTY THEN << >>
                           ELSE <<IF CharsetOf[text] = NULL THEN <<text, set>> ELSE Line(text)>>
               /\ name \notin Lengths \cup Ranges \cup Defaulted \cup Types => own = << >>
               /\ own = << >> \/ \E x : own = <<x>>
BY OwnNames DEF OwnOf

\* A line of nginx's own stays if what it depends on does.
LEMMA OwnKept ==
    ASSUME NEW name,
           name \in Lengths \cup Defaulted => ptr'[name] = ptr[name],
           name \in Lengths \cup Ranges => length' = length,
           name \in Ranges => ranges' = ranges,
           name \in Types => type' = type /\ charset' = charset
    PROVE  Own(name)' = Own(name)
BY OwnIs, OwnCases

\* One part of what is sent, if there is nothing of the other.
LEMMA Joined ==
    ASSUME NEW l \in Seq(Slot), NEW name, NEW own, own = << >> \/ \E x : own = <<x>>
    PROVE  /\ own = << >> => LinesIn(l, name) \o own = LinesIn(l, name)
           /\ LinesIn(l, name) = << >> => LinesIn(l, name) \o own = own
<1>1. LinesIn(l, name) \in Seq({Line(v) : v \in Produced \cup Values})
  <2> DEFINE s == [p \in DOMAIN l |-> Line(l[p].value)]
             S == {Line(v) : v \in Produced \cup Values}
  <2>1. Len(s) \in Nat /\ s \in Seq(S)
    BY LineSeq
  <2> HIDE DEF s, S
  <2>2. \A k \in 1 .. Len(s) : s[k] \in S
    BY <2>1
  <2>3. Pick(s, Shown(l, name)) \in Seq(S)
    BY <2>1, <2>2, PickType
  <2> QED BY <2>3 DEF LinesIn, s, S
<1>2. own = << >> => LinesIn(l, name) \o own = LinesIn(l, name)
  BY <1>1
<1>3. LinesIn(l, name) = << >> => LinesIn(l, name) \o own = own
  <2>1. CASE own = << >>
    BY <2>1
  <2>2. ASSUME NEW x, own = <<x>> PROVE << >> \o own = own
    <3>1. <<x>> \in Seq({x})
      OBVIOUS
    <3> QED BY <2>2, <3>1
  <2> QED BY <2>1, <2>2
<1> QED BY <1>2, <1>3

\* What is sent, before a step and after it.
LEMMA SentIs ==
    ASSUME OInv, list' \in Seq(Slot), NEW name
    PROVE  /\ Own(name) = << >> => Sent(name) = Listed(name)
           /\ Listed(name) = << >> => Sent(name) = Own(name)
           /\ Own(name)' = << >> => Sent(name)' = Listed(name)'
           /\ Listed(name)' = << >> => Sent(name)' = Own(name)'
           /\ Sent(name) = Listed(name) \o Own(name)
           /\ Sent(name)' = Listed(name)' \o Own(name)'
<1>1. list \in Seq(Slot)
  BY DEF OInv, OutTypeOK, Slot
<1>2. /\ Sent(name) = LinesIn(list, name) \o Own(name)
      /\ Sent(name)' = LinesIn(list', name) \o Own(name)'
  BY ListedAre DEF Sent
<1>3. PICK own : own = Own(name) /\ (own = << >> \/ \E x : own = <<x>>)
  BY OwnIs, OwnCases
<1>4. PICK after : after = Own(name)' /\ (after = << >> \/ \E x : after = <<x>>)
  BY OwnIs, OwnCases
<1>5. /\ own = << >> => LinesIn(list, name) \o own = LinesIn(list, name)
      /\ LinesIn(list, name) = << >> => LinesIn(list, name) \o own = own
  BY <1>1, <1>3, Joined
<1>6. /\ after = << >> => LinesIn(list', name) \o after = LinesIn(list', name)
      /\ LinesIn(list', name) = << >> => LinesIn(list', name) \o after = after
  BY <1>4, Joined
<1> QED BY <1>2, <1>3, <1>4, <1>5, <1>6, ListedAre

-----------------------------------------------------------------------------
(* The names with a single pointer. *)

\* What OutEffectExact allows a rule to make of a name.
Allowed(rule, name) ==
    \/ Sent(name)' = Effect(rule, name)
    \/ name = rule.key /\ Departs(rule) /\ Sent(name)' = Departure(rule)
    \/ name \in Ranges /\ rule.key \in Lengths /\ Listed(name)' = Listed(name)
    \/ Borrows(rule) /\ name = Pointer[rule.key]
    \/ name \in Covered(rule) \cup {rule.key} /\ Wildcard(rule) /\ rule.op /= "clear"
    \/ name \in Covered(rule) /\ Wildcard(rule) /\ Sent(name)' = Own(name)

\* The rule leaves the header that its pointer is to, or that there is none.
Kept(rule) == IF Old(rule) = NULL THEN rule.op = "rewrite" ELSE rule.op = "add"

\* What set_builtin_header does: it leaves the header or gives it the rule's value,
\* and the pointer is set unless there still is no header.
Handled(rule) ==
    /\ Only({rule.key, Pointer[rule.key]})
    /\ Listed(rule.key)' = IF Kept(rule) THEN Listed(rule.key) ELSE Text(rule.value)
    /\ \A name \in Pointers \ {Pointer[rule.key]} : ptr'[name] = ptr[name]
    /\ ptr'[Pointer[rule.key]] = NULL <=> Old(rule) = NULL /\ rule.op = "rewrite"

\* Under a name with a pointer nothing is sent but what it is to.
LEMMA OldIsShown ==
    ASSUME OInv, pc = "idle", NEW rule \in Rules, rule.key \in Single
    PROVE  /\ Old(rule) = NULL => Listed(rule.key) = << >>
           /\ Old(rule) /= NULL =>
                 /\ Old(rule) \in DOMAIN list
                 /\ Shown(list, rule.key) \subseteq {Old(rule)}
                 /\ list[Old(rule)].key \in {rule.key, Pointer[rule.key]}
                 /\ ~Borrows(rule) => list[Old(rule)].key = rule.key
                 /\ ~Borrows(rule) /\ list[Old(rule)].hash => Listed(rule.key) /= << >>
<1>1. Pointer[rule.key] \in Pointers /\ ptr \in [Pointers -> DOMAIN list \cup {NULL}]
  BY DEF Pointers, OInv, OutTypeOK
<1>2. DOMAIN list \subseteq Nat
  BY SeqFacts DEF OInv, OutTypeOK
<1>3. Shown(list, rule.key) \subseteq {Old(rule)}
  BY DEF OInv, Owned, Old, Shown
<1>4. Old(rule) = NULL => Shown(list, rule.key) = {}
  BY <1>2, <1>3, NullAssumption DEF Shown
<1>5. Old(rule) /= NULL =>
         /\ Old(rule) \in DOMAIN list
         /\ list[Old(rule)].key \in {rule.key, Pointer[rule.key]}
  BY <1>1, OwnNames DEF OInv, Named, Old
<1>6. ~Borrows(rule) => Pointer[rule.key] = rule.key
  BY DEF Borrows
<1> QED BY <1>3, <1>4, <1>5, <1>6, ShownBefore DEF Shown

\* Other names than the rule's.
LEMMA OthersLeft ==
    ASSUME OInv, pc = "idle", NEW rule \in Rules, rule.key \in Single, Handled(rule),
           Derive(rule), type' = type, charset' = charset, NEW name \in Keys, name /= rule.key
    PROVE  Allowed(rule, name)
<1>1. CASE name = Pointer[rule.key]
  BY <1>1 DEF Allowed, Borrows
<1>2. CASE name /= Pointer[rule.key]
  <2>1. Listed(name)' = Listed(name)
    BY <1>2 DEF Handled, Only
  <2>2. Covered(rule) = {rule.key}
    BY RuleFacts DEF Builtin
  <2>3. CASE name \in Ranges /\ rule.key \in Lengths
    BY <2>1, <2>3 DEF Allowed
  <2>4. CASE ~(name \in Ranges /\ rule.key \in Lengths)
    <3>1. name \in Lengths \cup Defaulted => ptr'[name] = ptr[name]
      BY <1>2, OwnNames DEF Handled
    <3>2. name \in Lengths \cup Ranges => rule.key \notin Lengths
      BY <2>4, OwnNames
    <3>3. name \in Ranges => rule.key \notin Ranges
      BY OwnNames
    <3>4. name \in Lengths \cup Ranges => length' = length
      BY <3>2 DEF Derive
    <3>5. name \in Ranges => ranges' = ranges
      BY <3>3 DEF Derive, OInv, OutTypeOK
    <3>6. Own(name)' = Own(name)
      BY <3>1, <3>4, <3>5, OwnKept
    <3>7. Sent(name)' = Sent(name)
      BY <2>1, <3>6 DEF Sent
    <3> QED BY <2>2, <3>7 DEF Allowed, Effect
  <2> QED BY <2>3, <2>4
<1> QED BY <1>1, <1>2

\* The operators a rule for a name with a handler can have.
LEMMA BuiltinOps ==
    ASSUME NEW rule \in Rules, rule.key \in Builtin
    PROVE  rule.op \in {"set", "add", "clear", "rewrite"}
BY DEF Rules

\* What Effect and Departure come to, for a name that is not Content-Type.
LEMMA EffectCases ==
    ASSUME NEW rule \in Rules, rule.key \in Single
    PROVE  /\ rule.op \in {"set", "clear"} => Effect(rule, rule.key) = Text(rule.value)
           /\ rule.op = "add" => Effect(rule, rule.key) =
                 IF Present(rule.key) THEN Sent(rule.key) ELSE Text(rule.value)
           /\ rule.op = "rewrite" => Effect(rule, rule.key) =
                 IF Present(rule.key) THEN Text(rule.value) ELSE Sent(rule.key)
           /\ LET text == IF Kept(rule) /\ ~(rule.key \in Lengths /\ rule.op = "rewrite")
                          THEN Listed(rule.key) ELSE Text(rule.value)
              IN  Departure(rule) =
                     IF rule.key \in Ranges /\ ranges /\ length /= NULL /\ rule.value /= EMPTY
                     THEN text \o <<Line(OWN)>> ELSE text
<1>1. Covered(rule) = {rule.key} /\ rule.key \notin Types \cup Multi
  BY RuleFacts, OwnNames DEF Builtin
<1>2. rule.op \in {"set", "clear"} => Effect(rule, rule.key) = Text(rule.value)
  BY <1>1 DEF Effect, Text
<1>3. rule.op = "add" => Effect(rule, rule.key) =
         IF Present(rule.key) THEN Sent(rule.key) ELSE Text(rule.value)
  BY <1>1 DEF Effect, Text
<1>4. rule.op = "rewrite" => Effect(rule, rule.key) =
         IF Present(rule.key) THEN Text(rule.value) ELSE Sent(rule.key)
  BY <1>1 DEF Effect, Text
<1> QED BY <1>1, <1>2, <1>3, <1>4 DEF Departure, Kept, Text

\* Content-Length: a set, clear or rewrite leaves the line of its value, and the field.
LEMMA LengthHandled ==
    ASSUME OInv, pc = "idle", NEW rule \in Rules, rule.key \in Lengths, Handled(rule),
           Derive(rule), list' \in Seq(Slot)
    PROVE  /\ Allowed(rule, rule.key)
           /\ rule.op /= "add" => Sent(rule.key)' = Text(rule.value)
<1> DEFINE name == rule.key
<1>1. /\ name \in Single /\ name \notin Ranges /\ Pointer[name] = name
      /\ rule.op \in {"set", "add", "clear", "rewrite"}
  BY OwnNames, BuiltinOps DEF Builtin
<1>2. /\ length' = IF rule.value = EMPTY THEN NULL ELSE rule.value
      /\ rule.value /= NULL
  BY NullAssumption, RuleFacts DEF Derive
<1>3. Own(name)' = IF ptr'[name] = NULL /\ length' /= NULL THEN <<Line(length')>> ELSE << >>
  BY OwnIs, OwnCases
<1>4. ptr'[name] = NULL <=> Old(rule) = NULL /\ rule.op = "rewrite"
  BY <1>1 DEF Handled
<1>5. Listed(name)' = IF Kept(rule) THEN Listed(name) ELSE Text(rule.value)
  BY DEF Handled
<1>6. CASE ptr'[name] = NULL
  <2>1. Listed(name)' = << >>
    BY <1>1, <1>4, <1>5, <1>6, OldIsShown DEF Kept
  <2>2. Own(name)' = Text(rule.value)
    BY <1>2, <1>3, <1>6 DEF Text
  <2>3. Sent(name)' = Text(rule.value)
    BY <2>1, <2>2, SentIs
  <2>4. Departs(rule) /\ Departure(rule) = Text(rule.value)
    BY <1>1, <1>4, <1>6, EffectCases DEF Departs
  <2> QED BY <2>3, <2>4 DEF Allowed
<1>7. CASE ptr'[name] /= NULL
  <2>1. Own(name)' = << >>
    BY <1>3, <1>7
  <2>2. Sent(name)' = IF Kept(rule) THEN Listed(name) ELSE Text(rule.value)
    BY <1>5, <2>1, SentIs
  <2>3. Kept(rule) => rule.op = "add"
    BY <1>4, <1>7 DEF Kept
  <2>4. CASE rule.op \in {"set", "clear"}
    BY <1>1, <2>2, <2>3, <2>4, EffectCases DEF Allowed
  <2>5. CASE rule.op \in {"add", "rewrite"}
    <3>1. Departs(rule)
      BY <2>5 DEF Departs
    <3>2. Departure(rule) = Sent(name)'
      BY <1>1, <2>2, <2>3, EffectCases
    <3> QED BY <2>2, <2>3, <3>1, <3>2 DEF Allowed
  <2> QED BY <1>1, <2>4, <2>5
<1> QED BY <1>6, <1>7

\* Accept-Ranges that nginx would send: it does so unless the rule clears them.
LEMMA RangesHandled ==
    ASSUME OInv, pc = "idle", NEW rule \in Rules, rule.key \in Ranges, ranges, Handled(rule),
           Derive(rule), list' \in Seq(Slot)
    PROVE  Allowed(rule, rule.key)
<1> DEFINE name == rule.key
           text == IF Kept(rule) THEN Listed(name) ELSE Text(rule.value)
<1>1. name \in Single /\ name \notin Lengths
  BY OwnNames
<1>2. length' = length /\ (ranges' <=> rule.value /= EMPTY)
  BY <1>1 DEF Derive
<1>3. Own(name)' = IF length /= NULL /\ rule.value /= EMPTY THEN <<Line(OWN)>> ELSE << >>
  <2>1. Own(name)' = IF ranges' /\ length' /= NULL THEN <<Line(OWN)>> ELSE << >>
    BY OwnNames DEF Own
  <2> QED BY <1>2, <2>1
<1>4. Listed(name)' = text
  BY DEF Handled
<1>5. Departure(rule) =
         IF length /= NULL /\ rule.value /= EMPTY THEN text \o <<Line(OWN)>> ELSE text
  BY <1>1, EffectCases
<1>6. Departs(rule)
  BY DEF Departs
<1> HIDE DEF text
<1>7. Sent(name)' = Departure(rule)
  BY <1>3, <1>4, <1>5, SentIs
<1> QED BY <1>6, <1>7 DEF Allowed

\* Any other header with a pointer, of which nginx sends one of its own at most if
\* there is no pointer.
LEMMA SingleHandled ==
    ASSUME OInv, pc = "idle", NEW rule \in Rules, rule.key \in Single \ Lengths,
           ~(rule.key \in Ranges /\ ranges), Handled(rule), Derive(rule), list' \in Seq(Slot)
    PROVE  Allowed(rule, rule.key)
<1> DEFINE name == rule.key
<1>1. /\ name \in Single /\ rule.op \in {"set", "add", "clear", "rewrite"}
      /\ name \notin Types \cup Lengths
  BY BuiltinOps, OwnNames DEF Builtin
<1>2. length' = length /\ (name \in Ranges => ~ranges /\ ~ranges')
  BY DEF Derive
<1>3. /\ Own(name) = IF name \in Defaulted /\ ptr[name] = NULL THEN <<Line(OWN)>> ELSE << >>
      /\ Own(name)' = IF name \in Defaulted /\ ptr'[name] = NULL THEN <<Line(OWN)>> ELSE << >>
  BY <1>1, <1>2, OwnIs, OwnCases, OwnNames
<1>4. /\ ptr'[Pointer[name]] = NULL <=> Old(rule) = NULL /\ rule.op = "rewrite"
      /\ name \in Defaulted => Pointer[name] = name
      /\ Old(rule) = ptr[Pointer[name]]
  BY OwnNames DEF Handled, Old
<1>5. Listed(name)' = IF Kept(rule) THEN Listed(name) ELSE Text(rule.value)
  BY DEF Handled
<1>6. Present(name) <=> Listed(name) /= << >>
  BY <1>1 DEF Present
<1>7. Departure(rule) = IF Kept(rule) THEN Listed(name) ELSE Text(rule.value)
  BY <1>1, <1>2, EffectCases
<1>8. Old(rule) = NULL => Listed(name) = << >>
  BY <1>1, OldIsShown
<1>9. \/ Old(rule) = NULL
      \/ Listed(name) /= << >>
      \/ rule.op \in {"add", "rewrite"} => Departs(rule)
  BY <1>1, OldIsShown DEF Departs
<1>10. CASE rule.op \in {"set", "clear"}
  <2>1. Sent(name)' = Text(rule.value)
    BY <1>3, <1>4, <1>5, <1>10, SentIs DEF Kept
  <2> QED BY <1>1, <1>10, <2>1, EffectCases DEF Allowed
<1>11. CASE rule.op = "add"
  <2>1. Sent(name)' = IF Old(rule) = NULL THEN Text(rule.value) ELSE Listed(name)
    BY <1>3, <1>4, <1>5, <1>11, SentIs DEF Kept
  <2>2. Old(rule) /= NULL => Sent(name) = Listed(name)
    BY <1>3, <1>4, SentIs
  <2>3. Effect(rule, name) = IF Listed(name) /= << >> THEN Sent(name) ELSE Text(rule.value)
    BY <1>1, <1>6, <1>11, EffectCases
  <2>4. Kept(rule) <=> Old(rule) /= NULL
    BY <1>11 DEF Kept
  <2> QED BY <1>7, <1>8, <1>9, <1>11, <2>1, <2>2, <2>3, <2>4 DEF Allowed
<1>12. CASE rule.op = "rewrite"
  <2>1. Effect(rule, name) = IF Listed(name) /= << >> THEN Text(rule.value) ELSE Sent(name)
    BY <1>1, <1>6, <1>12, EffectCases
  <2>2. CASE Old(rule) = NULL
    <3>1. Listed(name)' = Listed(name) /\ Own(name)' = Own(name)
      BY <1>3, <1>4, <1>5, <1>12, <2>2 DEF Kept
    <3>2. Sent(name)' = Sent(name)
      BY <3>1 DEF Sent
    <3> QED BY <1>8, <2>1, <2>2, <3>2 DEF Allowed
  <2>3. CASE Old(rule) /= NULL
    <3>1. Sent(name)' = Text(rule.value)
      BY <1>3, <1>4, <1>5, <1>12, <2>3, SentIs DEF Kept
    <3>2. ~Kept(rule)
      BY <1>12, <2>3 DEF Kept
    <3> QED BY <1>7, <1>9, <1>12, <2>1, <2>3, <3>1, <3>2 DEF Allowed
  <2> QED BY <2>2, <2>3
<1> QED BY <1>1, <1>10, <1>11, <1>12

\* The outcomes that leave the header, or that there is none.
LEMMA KeepHandled ==
    ASSUME OInv, pc = "idle", NEW rule \in Rules, rule.key \in Single,
           \/ Old(rule) = NULL /\ rule.op = "rewrite"
           \/ Old(rule) /= NULL /\ rule.op = "add",
           list' = list, ptr' = ptr
    PROVE  Handled(rule)
<1>1. \A name : Listed(name)' = Listed(name)
  BY ListedAre
<1>2. Kept(rule)
  BY DEF Kept
<1> QED BY <1>1, <1>2 DEF Handled, Only, Old

\* A header is pushed where there was none, an empty one too.
LEMMA SetAbsentHandled ==
    ASSUME OInv, pc = "idle", NEW rule \in Rules, SetAbsentBuiltin(rule), pc' = "idle"
    PROVE  Handled(rule)
<1>1. /\ rule.key \in Single /\ rule.key \in Keys /\ rule.value \in Produced \cup Values
      /\ Old(rule) = NULL /\ rule.op /= "rewrite" /\ rule.op /= "append"
      /\ Helper(rule, rule.value, Pointer[rule.key], FALSE)
      /\ ~Wildcard(rule) /\ OutTypeOK
  BY RuleFacts DEF SetAbsentBuiltin, BeginBuiltin, Builtin, OInv
<1>2. Hits(rule) = {} /\ Listed(rule.key) = << >>
  BY <1>1, NothingToFind, OldIsShown
<1>3. Create(rule, rule.value, Pointer[rule.key], FALSE)
  BY <1>1, <1>2 DEF Helper, KeepFound, ChangeFound, LeaveAbsent, CreateFails, Creates
<1>4. PushHeader(rule.key, rule.value) /\ Output(Pointer[rule.key], Len(list) + 1)
  BY <1>3 DEF Create, NewSlot
<1>5. /\ Pointer[rule.key] \in Pointers /\ Pointer[rule.key] /= NULL
      /\ ptr \in [Pointers -> DOMAIN list \cup {NULL}]
  BY <1>1, OwnNames DEF OutTypeOK
<1>6. ptr' = [ptr EXCEPT ![Pointer[rule.key]] = Len(list) + 1]
  BY <1>4, <1>5 DEF Output
<1>7. Len(list) + 1 /= NULL
  <2>1. Len(list) + 1 \in Nat
    BY <1>1 DEF OutTypeOK
  <2> QED BY <2>1, NullAssumption
<1>8. /\ \A name : name /= rule.key => Listed(name)' = Listed(name)
      /\ Listed(rule.key)' = << >> \o Text(rule.value)
  BY <1>1, <1>2, <1>4, PushedLines
<1>9. << >> \o Text(rule.value) = Text(rule.value)
  BY TextAlone
<1>10. ~Kept(rule)
  BY <1>1 DEF Kept
<1> QED BY <1>1, <1>5, <1>6, <1>7, <1>8, <1>9, <1>10 DEF Handled, Only

\* The header that is pointed to is cleared, or has the rule's name and value.
LEMMA ChangedHandled ==
    ASSUME OInv, pc = "idle", NEW rule \in Rules, rule.key \in Single,
           Old(rule) /= NULL, rule.op /= "add", list' \in Seq(Slot), ptr' = ptr,
           NEW slot, list' = [list EXCEPT ![Old(rule)] = slot],
           slot.key \in {rule.key, Pointer[rule.key]},
           \/ rule.value = EMPTY /\ ~slot.hash
           \/ /\ rule.value /= EMPTY /\ slot.hash
              /\ slot.key = rule.key /\ slot.value = rule.value
    PROVE  Handled(rule)
<1> DEFINE q == Old(rule)
<1>1. /\ q \in DOMAIN list /\ Shown(list, rule.key) \subseteq {q}
      /\ list[q].key \in {rule.key, Pointer[rule.key]}
  BY OldIsShown
<1> HIDE DEF q
<1>2. /\ DOMAIN list' = DOMAIN list /\ list'[q] = slot
      /\ \A p \in DOMAIN list : p /= q => list'[p] = list[p]
  BY <1>1 DEF q
<1>3. Only({rule.key, Pointer[rule.key]})
  <2>1. \A p \in DOMAIN list :
           \/ list'[p] = list[p]
           \/ /\ list[p].key \in {rule.key, Pointer[rule.key]}
              /\ list'[p].key \in {rule.key, Pointer[rule.key]}
    BY <1>1, <1>2
  <2> QED BY <1>2, <2>1, OnlyThese
<1>4. \A p \in DOMAIN list : p /= q => ~(list'[p].hash /\ list'[p].key = rule.key)
  BY <1>1, <1>2 DEF Shown
<1>5. Listed(rule.key)' = Text(rule.value)
  <2>1. CASE rule.value = EMPTY
    <3>1. Shown(list', rule.key) = {}
      BY <1>2, <1>4, <2>1 DEF Shown
    <3> QED BY <2>1, <3>1, ShownNow DEF Text
  <2>2. CASE rule.value /= EMPTY
    <3>1. Shown(list', rule.key) = {q}
      BY <1>1, <1>2, <1>4, <2>2 DEF Shown
    <3>2. Listed(rule.key)' = <<Line(list'[q].value)>>
      BY <3>1, ShownNow
    <3> QED BY <1>2, <2>2, <3>2 DEF Text
  <2> QED BY <2>1, <2>2
<1>6. ~Kept(rule)
  BY DEF Kept
<1> QED BY <1>3, <1>5, <1>6 DEF Handled, Old

\* All outcomes of a name with a single pointer.
LEMMA BuiltinHandled ==
    ASSUME OInv, pc = "idle", NEW rule \in Rules, list' \in Seq(Slot), pc' = "idle",
           \/ SkipAbsentBuiltin(rule) \/ SetAbsentBuiltin(rule)
           \/ KeepBuiltin(rule) \/ ClearBuiltin(rule) \/ ReplaceBuiltin(rule)
    PROVE  /\ rule.key \in Single /\ Handled(rule)
           /\ Derive(rule) /\ type' = type /\ charset' = charset
<1>1. rule.key \in Single /\ Derive(rule) /\ type' = type /\ charset' = charset
  BY DEF SkipAbsentBuiltin, SetAbsentBuiltin, KeepBuiltin, ClearBuiltin, ReplaceBuiltin,
         BeginBuiltin
<1>2. CASE SkipAbsentBuiltin(rule) \/ KeepBuiltin(rule)
  BY <1>1, <1>2, KeepHandled DEF SkipAbsentBuiltin, KeepBuiltin
<1>3. CASE SetAbsentBuiltin(rule)
  BY <1>1, <1>3, SetAbsentHandled
<1>4. CASE ClearBuiltin(rule)
  <2>1. /\ Old(rule) /= NULL /\ rule.op /= "add" /\ rule.value = EMPTY
        /\ list' = [list EXCEPT ![Old(rule)] = Cleared(list[Old(rule)])] /\ ptr' = ptr
    BY <1>4 DEF ClearBuiltin
  <2>2. Old(rule) \in DOMAIN list /\ list[Old(rule)].key \in {rule.key, Pointer[rule.key]}
    BY <1>1, <2>1, OldIsShown
  <2>3. list[Old(rule)] \in Slot
    BY <2>2, SeqFacts DEF OInv, OutTypeOK, Slot
  <2>4. /\ Cleared(list[Old(rule)]).key \in {rule.key, Pointer[rule.key]}
        /\ ~Cleared(list[Old(rule)]).hash
    BY <2>2, <2>3, ClearedFacts
  <2> QED BY <1>1, <2>1, <2>4, ChangedHandled
<1>5. CASE ReplaceBuiltin(rule)
  <2> DEFINE slot == [key |-> rule.key, value |-> rule.value, hash |-> TRUE]
  <2>1. /\ Old(rule) /= NULL /\ rule.op /= "add" /\ rule.value /= EMPTY
        /\ list' = [list EXCEPT ![Old(rule)] = slot] /\ ptr' = ptr
    BY <1>5 DEF ReplaceBuiltin
  <2>2. slot.key = rule.key /\ slot.value = rule.value /\ slot.hash
    OBVIOUS
  <2> HIDE DEF slot
  <2> QED BY <1>1, <2>1, <2>2, ChangedHandled
<1> QED BY <1>1, <1>2, <1>3, <1>4, <1>5

\* OutEffectExact for these names.
LEMMA BuiltinAllowed ==
    ASSUME OInv, pc = "idle", NEW rule \in Rules, list' \in Seq(Slot), pc' = "idle",
           \/ SkipAbsentBuiltin(rule) \/ SetAbsentBuiltin(rule)
           \/ KeepBuiltin(rule) \/ ClearBuiltin(rule) \/ ReplaceBuiltin(rule),
           NEW name \in Keys
    PROVE  Allowed(rule, name)
<1>1. /\ rule.key \in Single /\ Handled(rule)
      /\ Derive(rule) /\ type' = type /\ charset' = charset
  BY BuiltinHandled
<1>2. CASE name /= rule.key
  BY <1>1, <1>2, OthersLeft
<1>3. CASE name = rule.key
  BY <1>1, <1>3, LengthHandled, RangesHandled, SingleHandled
<1> QED BY <1>2, <1>3

-----------------------------------------------------------------------------
(* The other names. *)

\* A step that touches the lines of the names of a rule and no line of nginx's own.
LEMMA PlainOthers ==
    ASSUME NEW rule \in Rules, Only(Covered(rule) \cup {rule.key}), UNCHANGED <<ptr, field_vars>>,
           NEW name \in Keys, name \notin Covered(rule) \cup {rule.key}
    PROVE  Allowed(rule, name)
<1>1. Listed(name)' = Listed(name)
  BY DEF Only
<1>2. Own(name)' = Own(name)
  BY OwnKept DEF field_vars
<1>3. Sent(name)' = Sent(name)
  BY <1>1, <1>2 DEF Sent
<1> QED BY <1>3 DEF Allowed, Effect

\* A wildcard.
LEMMA WildcardAllowed ==
    ASSUME OInv, pc = "idle", NEW rule \in Rules, Wildcard(rule), SetHeader(rule),
           list' \in Seq(Slot), pc' = "idle", NEW name \in Keys
    PROVE  Allowed(rule, name)
<1>1. Helper(rule, rule.value, NULL, FALSE) /\ rule.value \in Values /\ UNCHANGED field_vars
  BY RuleFacts DEF SetHeader
<1>2. /\ ptr' = ptr /\ Only(Covered(rule) \cup {rule.key})
      /\ rule.op = "clear" =>
            /\ Only(Covered(rule))
            /\ \A k \in Covered(rule) : Listed(k)' = << >>
  BY <1>1, HelperLines DEF Rules
<1>3. Own(name)' = Own(name)
  BY <1>1, <1>2, OwnKept DEF field_vars
<1>4. CASE name \notin Covered(rule) \cup {rule.key}
  BY <1>1, <1>2, <1>4, PlainOthers
<1>5. CASE rule.op /= "clear" /\ name \in Covered(rule) \cup {rule.key}
  BY <1>5 DEF Allowed
<1>6. CASE rule.op = "clear" /\ name \in Covered(rule)
  <2>1. Sent(name)' = Own(name)
    BY <1>2, <1>3, <1>6, SentIs
  <2> QED BY <1>6, <2>1 DEF Allowed
<1>7. CASE rule.op = "clear" /\ name \notin Covered(rule)
  <2>1. Sent(name)' = Sent(name)
    BY <1>2, <1>3, <1>7 DEF Only, Sent
  <2> QED BY <1>7, <2>1 DEF Allowed, Effect
<1> QED BY <1>4, <1>5, <1>6, <1>7

\* A name without a handler, of which nginx sends nothing of its own.
LEMMA PlainAllowed ==
    ASSUME OInv, pc = "idle", NEW rule \in Rules, ~Wildcard(rule), SetHeader(rule),
           list' \in Seq(Slot), pc' = "idle", NEW name \in Keys
    PROVE  Allowed(rule, name)
<1>1. /\ Helper(rule, rule.value, NULL, FALSE) /\ rule.value \in Values
      /\ UNCHANGED field_vars /\ rule.key \notin Builtin
  BY RuleFacts DEF SetHeader
<1>2. /\ ptr' = ptr /\ Only(Covered(rule) \cup {rule.key}) /\ Turned(rule, rule.value, FALSE)
  BY <1>1, HelperLines
<1>3. Covered(rule) = {rule.key}
  BY DEF Covered
<1>4. CASE name /= rule.key
  BY <1>1, <1>2, <1>3, <1>4, PlainOthers
<1>5. CASE name = rule.key
  <2>1. rule.key \notin Lengths \cup Ranges \cup Defaulted \cup Types
    BY <1>1, OwnNames DEF Builtin
  <2>2. Own(name) = << >> /\ Own(name)' = << >>
    BY <1>5, <2>1, OwnIs, OwnCases
  <2>3. Sent(name) = Listed(name) /\ Sent(name)' = Listed(name)'
    BY <2>2, SentIs
  <2>4. Present(name) <=> Listed(name) /= << >>
    BY <1>5, <2>1 DEF Present
  <2>5. rule.op \in {"set", "add", "clear", "append", "rewrite"}
    BY DEF Rules
  <2>6. /\ rule.op \in {"set", "clear"} => Effect(rule, name) = Text(rule.value)
        /\ rule.op = "add" => Effect(rule, name) =
              IF Listed(name) /= << >> THEN Listed(name) ELSE Text(rule.value)
        /\ rule.op = "rewrite" => Effect(rule, name) =
              IF Listed(name) /= << >> THEN Text(rule.value) ELSE Listed(name)
        /\ rule.op = "append" => Effect(rule, name) = Listed(name) \o Text(rule.value)
    BY <1>3, <1>5, <2>3, <2>4 DEF Effect, Text
  <2>7. Listed(name) = << >> => Listed(name) \o Text(rule.value) = Text(rule.value)
    BY TextAlone
  <2>8. Creates(rule, rule.value, FALSE) <=>
           rule.op = "append" \/ (Listed(name) = << >> /\ rule.op /= "rewrite")
    <3>1. Hits(rule) = {} <=> Listed(name) = << >>
      BY <1>5, HitsAreShown, ShownBefore
    <3> QED BY <3>1 DEF Creates
  <2>9. Sent(name)' = Effect(rule, name)
    BY <1>2, <1>5, <2>3, <2>5, <2>6, <2>7, <2>8 DEF Turned
  <2> QED BY <2>9 DEF Allowed
<1> QED BY <1>4, <1>5

-----------------------------------------------------------------------------
(* Content-Type. *)

\* A Content-Type is never in the list.
Unlisted == \A p \in DOMAIN list : list[p].key \notin Types

\* A pushed header of another name.
LEMMA PushUnlisted ==
    ASSUME OutTypeOK, Unlisted, NEW key \in Keys \ Types, NEW value \in Produced \cup Values,
           PushHeader(key, value)
    PROVE  Unlisted'
<1>1. /\ DOMAIN list = 1 .. Len(list) /\ Len(list) \in Nat
      /\ DOMAIN list' = 1 .. Len(list) + 1
      /\ \A p \in DOMAIN list : list'[p] = list[p]
      /\ list'[Len(list) + 1] = [key |-> key, value |-> value, hash |-> value /= EMPTY]
  BY Pushed
<1>2. \A p \in DOMAIN list' : p \in DOMAIN list \/ p = Len(list) + 1
  BY <1>1
<1>3. list'[Len(list) + 1].key = key
  BY <1>1
<1> QED BY <1>1, <1>2, <1>3 DEF Unlisted

\* The helper is called to clear a Content-Type, and creates none.
LEMMA TypeNotCreated ==
    ASSUME NEW rule \in Rules, rule.key \in Types
    PROVE  ~Creates(rule, EMPTY, TRUE)
BY RuleFacts DEF Creates, Builtin

\* No step puts one there.
LEMMA UnlistedKept ==
    ASSUME OInv, Unlisted, OutNext
    PROVE  Unlisted'
<1>1. OutTypeOK
  BY DEF OInv
<1>2. ASSUME list' = list PROVE Unlisted'
  BY <1>2 DEF Unlisted
<1>3. ASSUME Quieter PROVE Unlisted'
  BY <1>3 DEF Unlisted, Quieter
<1>4. ASSUME NEW key \in Names, NEW value \in Produced, Produce(key, value) PROVE Unlisted'
  <2>1. key \in Keys \ Types /\ PushHeader(key, value)
    BY <1>4 DEF Produce, Keys
  <2> QED BY <1>1, <2>1, PushUnlisted
<1>5. ASSUME NEW rule \in Rules, RunRule(rule) PROVE Unlisted'
  <2>0. pc = "idle"
    BY <1>5 DEF RunRule, SetHeader, RefuseLength, SkipAbsentBuiltin, SetAbsentBuiltin,
         KeepBuiltin, ClearBuiltin, ReplaceBuiltin, SetType, ChangeChain, LeaveNoChain,
         StartChain, StartChainFails, BeginBuiltin, BeginMulti, Begin
  <2>1. /\ rule.key \in Keys /\ rule.value \in Produced \cup Values /\ rule.value \in Values
        /\ EMPTY \in Values
    BY RuleFacts DEF Values
  <2>2. CASE SetHeader(rule)
    <3>1. Helper(rule, rule.value, NULL, FALSE) /\ rule.key \notin Types
      BY <2>2 DEF SetHeader, Builtin
    <3> QED BY <1>1, <1>3, <2>1, <3>1, HelperKeeps, PushUnlisted
  <2>3. CASE SetType(rule)
    <3>1. Helper(rule, EMPTY, NULL, TRUE) /\ rule.key \in Types
      BY <2>3 DEF SetType
    <3> QED BY <1>3, <2>1, <3>1, HelperKeeps, TypeNotCreated
  <2>4. CASE SetAbsentBuiltin(rule)
    <3>1. /\ rule.key \in Single /\ Old(rule) = NULL
          /\ Helper(rule, rule.value, Pointer[rule.key], FALSE)
      BY <2>4 DEF SetAbsentBuiltin, BeginBuiltin
    <3>2. Hits(rule) = {} /\ rule.key \notin Types
      BY <2>0, <3>1, NothingToFind, OwnNames
    <3>3. list' = list \/ PushHeader(rule.key, rule.value)
      BY <3>1, <3>2 DEF Helper, KeepFound, ChangeFound, LeaveAbsent, Create, CreateFails
    <3> QED BY <1>1, <1>2, <2>1, <3>2, <3>3, PushUnlisted
  <2>5. CASE ClearBuiltin(rule) \/ ReplaceBuiltin(rule)
    <3>1. rule.key \in Single /\ Old(rule) /= NULL
      BY <2>5 DEF ClearBuiltin, ReplaceBuiltin, BeginBuiltin
    <3>2. Old(rule) \in DOMAIN list /\ rule.key \notin Types
      BY <2>0, <3>1, OldIsShown, OwnNames
    <3>3. list[Old(rule)] \in Slot
      BY <3>2, SeqFacts DEF OInv, OutTypeOK, Slot
    <3>4. \E slot : /\ list' = [list EXCEPT ![Old(rule)] = slot]
                    /\ slot.key = list[Old(rule)].key \/ slot.key = rule.key
      <4>1. CASE ClearBuiltin(rule)
        <5>1. list' = [list EXCEPT ![Old(rule)] = Cleared(list[Old(rule)])]
          BY <4>1 DEF ClearBuiltin
        <5> QED BY <3>3, <5>1, ClearedFacts
      <4>2. CASE ReplaceBuiltin(rule)
        <5> DEFINE new == [key |-> rule.key, value |-> rule.value, hash |-> TRUE]
        <5>1. list' = [list EXCEPT ![Old(rule)] = new] /\ new.key = rule.key
          BY <4>2 DEF ReplaceBuiltin
        <5> HIDE DEF new
        <5> QED BY <5>1
      <4> QED BY <2>5, <4>1, <4>2
    <3> QED BY <3>2, <3>4 DEF Unlisted
  <2>6. CASE ChangeChain(rule)
    <3>1. Sound /\ rule.key \in Multi /\ chain[rule.key] /= << >> /\ pc' = "idle" /\ chain' = chain
      BY <1>5, <2>6, RuleSound DEF ChangeChain, BeginMulti, Return
    <3>2. chain[rule.key] \in Seq(DOMAIN list)
      BY <1>1, <3>1 DEF OutTypeOK
    <3>3. 1 \in DOMAIN chain[rule.key]
      BY <3>1, <3>2
    <3>4. list'[chain[rule.key][1]].key = rule.key
      BY <3>1, <3>3 DEF Sound, Core, ChainNamed
    <3>5. /\ DOMAIN list' = DOMAIN list
          /\ \A p \in DOMAIN list : p /= chain[rule.key][1] =>
                list'[p] \in {list[p], Cleared(list[p])}
      BY <2>6 DEF ChangeChain
    <3>6. \A p \in DOMAIN list : list[p] \in Slot
      BY <1>1, SeqFacts DEF OutTypeOK, Slot
    <3>7. \A p \in DOMAIN list : p /= chain[rule.key][1] => list'[p].key = list[p].key
      BY <3>5, <3>6, ClearedFacts
    <3> QED BY <3>1, <3>4, <3>5, <3>7, OwnNames DEF Unlisted
  <2>7. CASE StartChain(rule)
    <3>1. rule.key \in Keys \ Types /\ PushHeader(rule.key, rule.value)
      BY <2>1, <2>7, OwnNames DEF StartChain, BeginMulti
    <3> QED BY <1>1, <2>1, <3>1, PushUnlisted
  <2>8. CASE \/ RefuseLength(rule) \/ SkipAbsentBuiltin(rule) \/ KeepBuiltin(rule)
             \/ LeaveNoChain(rule) \/ StartChainFails(rule)
    BY <1>2, <2>8 DEF RefuseLength, SkipAbsentBuiltin, KeepBuiltin, LeaveNoChain, StartChainFails
  <2> QED BY <1>5, <2>2, <2>3, <2>4, <2>5, <2>6, <2>7, <2>8 DEF RunRule
<1>6. CASE AllProduced
  BY <1>2, <1>6 DEF AllProduced
<1> QED BY <1>4, <1>5, <1>6 DEF OutNext

\* A Content-Type is what the fields say.
LEMMA TypeAllowed ==
    ASSUME OInv, Unlisted, Unlisted', NEW rule \in Rules, SetType(rule),
           list' \in Seq(Slot), pc' = "idle", NEW name \in Keys
    PROVE  Allowed(rule, name)
<1>1. /\ rule.key \in Types /\ type' = rule.value
      /\ charset' = IF CharsetOf[rule.value] = NULL THEN charset ELSE CharsetOf[rule.value]
      /\ Helper(rule, EMPTY, NULL, TRUE) /\ UNCHANGED <<length, ranges>>
      /\ EMPTY \in Values
  BY DEF SetType, Values
<1>2. /\ Covered(rule) = {rule.key} /\ rule.op \in {"set", "add", "clear", "rewrite"}
      /\ rule.op = "clear" => rule.value = EMPTY
  BY <1>1, RuleFacts, BuiltinOps DEF Builtin, Rules
<1>3. ptr' = ptr /\ Only({rule.key})
  BY <1>1, <1>2, HelperLines
<1>4. CASE name /= rule.key
  <2>1. Listed(name)' = Listed(name)
    BY <1>3, <1>4 DEF Only
  <2>2. name \notin Types
    BY <1>1, <1>4, OwnNames
  <2>3. Own(name)' = Own(name)
    BY <1>1, <1>3, <2>2, OwnKept
  <2>4. Sent(name)' = Sent(name)
    BY <2>1, <2>3 DEF Sent
  <2> QED BY <1>2, <1>4, <2>4 DEF Allowed, Effect
<1>5. CASE name = rule.key
  <2>1. Shown(list', name) = {}
    BY <1>1, <1>5 DEF Shown, Unlisted
  <2>2. Listed(name)' = << >>
    BY <2>1, ShownNow
  <2>3. Own(name)' = IF type' = EMPTY THEN << >>
                     ELSE <<IF CharsetOf[type'] = NULL THEN <<type', charset'>> ELSE Line(type')>>
    BY <1>1, <1>5, OwnIs, OwnCases
  <2>4. Sent(name)' =
           IF rule.value = EMPTY THEN << >>
           ELSE IF CharsetOf[rule.value] = NULL THEN <<<<rule.value, charset>>>>
           ELSE <<Line(rule.value)>>
    BY <1>1, <2>2, <2>3, SentIs
  <2>5. name \notin Ranges
    BY <1>1, <1>5, OwnNames
  <2>6. Departure(rule) = Sent(name)'
    BY <1>1, <1>5, <2>4, <2>5 DEF Departure
  <2>7. CASE Departs(rule)
    BY <1>5, <2>6, <2>7 DEF Allowed
  <2>8. CASE ~Departs(rule)
    <3>1. rule.op \in {"set", "clear"} /\ ~(CharsetOf[rule.value] = NULL /\ charset /= NULL)
      BY <1>1, <1>2, <2>8 DEF Departs
    <3>2. Effect(rule, name) = Text(rule.value)
      BY <1>2, <1>5, <3>1 DEF Effect, Text
    <3>3. Sent(name)' = Text(rule.value)
      BY <2>4, <3>1 DEF Text, Line
    <3> QED BY <3>2, <3>3 DEF Allowed
  <2> QED BY <2>7, <2>8
<1> QED BY <1>4, <1>5

-----------------------------------------------------------------------------
(* Cache-Control. *)

\* Nothing is sent under a chain's name but what is in the chain.
LEMMA ChainIsShown ==
    ASSUME OInv, pc = "idle", NEW name \in Multi
    PROVE  /\ Shown(list, name) \subseteq Range(chain[name])
           /\ chain[name] \in Seq(DOMAIN list)
           /\ \A k \in DOMAIN chain[name] : list[chain[name][k]].key = name
           /\ chain[name] = << >> => Shown(list, name) = {}
<1>1. Shown(list, name) \subseteq Range(chain[name])
  BY DEF OInv, Linked, Shown
<1>2. chain[name] \in Seq(DOMAIN list)
  BY DEF OInv, OutTypeOK
<1>3. chain[name] = << >> => Range(chain[name]) = {}
  BY DEF Range
<1> QED BY <1>1, <1>2, <1>3 DEF OInv, ChainNamed

\* The chain's first header is all that is sent, if the value is not empty.
LEMMA ChangeChainLines ==
    ASSUME OInv, pc = "idle", NEW rule \in Rules, ChangeChain(rule), list' \in Seq(Slot)
    PROVE  Only({rule.key}) /\ Listed(rule.key)' = Text(rule.value)
<1> DEFINE links == chain[rule.key]
           q == links[1]
<1>1. /\ rule.key \in Multi /\ links /= << >>
      /\ list' = [p \in DOMAIN list |->
                     IF p = q
                     THEN [list[p] EXCEPT !.value = rule.value, !.hash = rule.value /= EMPTY]
                     ELSE IF p \in Range(links) THEN Cleared(list[p]) ELSE list[p]]
  BY DEF ChangeChain, BeginMulti
<1>2. /\ links \in Seq(DOMAIN list) /\ Shown(list, rule.key) \subseteq Range(links)
      /\ \A k \in DOMAIN links : list[links[k]].key = rule.key
  BY <1>1, ChainIsShown
<1>3. 1 \in DOMAIN links /\ q \in DOMAIN list /\ list[q].key = rule.key
  <2>1. links /= << >> /\ links \in Seq(DOMAIN list)
    BY <1>1, <1>2
  <2> HIDE DEF links
  <2>2. 1 \in DOMAIN links /\ links[1] \in DOMAIN list
    BY <2>1
  <2> QED BY <1>2, <2>2 DEF links
<1>4. \A p \in DOMAIN list : list[p] \in Slot
  BY SeqFacts DEF OInv, OutTypeOK, Slot
<1>5. \A p \in Range(links) : p \in DOMAIN list /\ list[p].key = rule.key
  BY <1>2 DEF Range
<1>6. list'[q] = [list[q] EXCEPT !.value = rule.value, !.hash = rule.value /= EMPTY]
  BY <1>1, <1>3
<1>7. /\ list'[q].key = rule.key /\ list'[q].value = rule.value
      /\ list'[q].hash <=> rule.value /= EMPTY
  <2> DEFINE filled == [list[q] EXCEPT !.value = rule.value]
             flag == (rule.value /= EMPTY)
  <2>1. filled \in [key : Keys, value : {rule.value}, hash : BOOLEAN] /\ filled.key = rule.key
    BY <1>3, <1>4 DEF Slot
  <2>2. list'[q] = [filled EXCEPT !.hash = flag]
    BY <1>3, <1>4, <1>6 DEF Slot
  <2>3. flag \in BOOLEAN
    OBVIOUS
  <2> HIDE DEF filled, flag
  <2>4. list'[q].key = filled.key /\ list'[q].value = filled.value /\ list'[q].hash = flag
    BY <2>1, <2>2
  <2> QED BY <2>1, <2>4 DEF flag
<1>8. /\ DOMAIN list' = DOMAIN list
      /\ \A p \in DOMAIN list : p /= q /\ p \in Range(links) => list'[p] = Cleared(list[p])
      /\ \A p \in DOMAIN list : p /= q /\ p \notin Range(links) => list'[p] = list[p]
  BY <1>1
<1>9. \A p \in DOMAIN list : p /= q => ~(list'[p].hash /\ list'[p].key = rule.key)
  BY <1>2, <1>4, <1>8, ClearedFacts DEF Shown
<1> HIDE DEF links, q
<1>10. Only({rule.key})
  <2>1. \A p \in Range(links) : list'[p].key = rule.key
    <3>1. \A p \in Range(links) : p /= q => list'[p].key = rule.key
      BY <1>4, <1>5, <1>8, ClearedFacts
    <3> QED BY <1>7, <3>1
  <2>2. \A p \in DOMAIN list :
           list'[p] = list[p] \/ (list[p].key \in {rule.key} /\ list'[p].key \in {rule.key})
    BY <1>3, <1>5, <1>7, <1>8, <2>1
  <2> QED BY <1>8, <2>2, OnlyThese
<1>11. CASE rule.value = EMPTY
  <2>1. Shown(list', rule.key) = {}
    BY <1>7, <1>8, <1>9, <1>11 DEF Shown
  <2> QED BY <1>10, <1>11, <2>1, ShownNow DEF Text
<1>12. CASE rule.value /= EMPTY
  <2>1. Shown(list', rule.key) = {q}
    BY <1>3, <1>7, <1>8, <1>9, <1>12 DEF Shown
  <2>2. Listed(rule.key)' = <<Line(list'[q].value)>>
    BY <2>1, ShownNow
  <2> QED BY <1>7, <1>10, <1>12, <2>2 DEF Text
<1> QED BY <1>11, <1>12

\* OutEffectExact for these names.
LEMMA MultiAllowed ==
    ASSUME OInv, pc = "idle", NEW rule \in Rules, list' \in Seq(Slot), pc' = "idle",
           ChangeChain(rule) \/ LeaveNoChain(rule) \/ StartChain(rule), NEW name \in Keys
    PROVE  Allowed(rule, name)
<1>1. /\ rule.key \in Multi /\ UNCHANGED <<ptr, field_vars>>
      /\ Covered(rule) = {rule.key} /\ rule.op \in {"set", "add", "clear", "rewrite"}
      /\ rule.key \in Keys /\ rule.value \in Produced \cup Values /\ OutTypeOK
  BY RuleFacts, BuiltinOps DEF ChangeChain, LeaveNoChain, StartChain, BeginMulti, Builtin, OInv
<1>2. Only({rule.key}) /\ Listed(rule.key)' = Text(rule.value)
  <2>1. CASE ChangeChain(rule)
    BY <2>1, ChangeChainLines
  <2>2. chain[rule.key] = << >> => Listed(rule.key) = << >>
    BY <1>1, ChainIsShown, ShownBefore
  <2>3. CASE LeaveNoChain(rule)
    <3>1. \A k : Listed(k)' = Listed(k)
      BY <2>3, ListedAre DEF LeaveNoChain
    <3> QED BY <2>2, <2>3, <3>1 DEF LeaveNoChain, Only, Text
  <2>4. CASE StartChain(rule)
    <3>1. PushHeader(rule.key, rule.value) /\ Listed(rule.key) = << >>
      BY <2>2, <2>4 DEF StartChain
    <3> QED BY <1>1, <3>1, PushedLines, TextAlone DEF Only
  <2> QED BY <2>1, <2>3, <2>4
<1>3. CASE name /= rule.key
  BY <1>1, <1>2, <1>3, PlainOthers
<1>4. CASE name = rule.key
  <2>1. rule.key \notin Lengths \cup Ranges \cup Defaulted \cup Types
    BY <1>1, OwnNames
  <2>2. Own(name)' = << >>
    BY <1>4, <2>1, OwnIs, OwnCases
  <2>3. Sent(name)' = Text(rule.value)
    BY <1>2, <1>4, <2>2, SentIs
  <2>4. Departure(rule) = Text(rule.value)
    BY <1>1, <2>1 DEF Departure, Text
  <2>5. CASE Departs(rule)
    BY <1>4, <2>3, <2>4, <2>5 DEF Allowed
  <2>6. CASE ~Departs(rule)
    <3>1. rule.op \in {"set", "clear"}
      BY <1>1, <2>6 DEF Departs
    <3>2. Effect(rule, name) = Text(rule.value)
      BY <1>1, <1>4, <3>1 DEF Effect, Text
    <3> QED BY <2>3, <3>2 DEF Allowed
  <2> QED BY <2>5, <2>6
<1> QED BY <1>3, <1>4

-----------------------------------------------------------------------------
(* A rule and what it leaves. *)

\* A rule that is carried out has an effect that OutEffectExact allows.
LEMMA RuleAllowed ==
    ASSUME OInv, Unlisted, Unlisted', NEW rule \in Rules, RunRule(rule), pc' = "idle"
    PROVE  list' \in Seq(Slot) /\ pc = "idle" /\ \A name \in Keys : Allowed(rule, name)
<1>1. pc = "idle"
  BY DEF RunRule, SetHeader, RefuseLength, SkipAbsentBuiltin, SetAbsentBuiltin, KeepBuiltin,
         ClearBuiltin, ReplaceBuiltin, SetType, ChangeChain, LeaveNoChain, StartChain,
         StartChainFails, BeginBuiltin, BeginMulti, Begin
<1>2. list' \in Seq(Slot)
  BY RuleSound DEF Sound, Grows
<1>3. ~RefuseLength(rule) /\ ~StartChainFails(rule)
  BY DEF RefuseLength, StartChainFails
<1>4. ASSUME NEW name \in Keys PROVE Allowed(rule, name)
  <2>1. CASE SetHeader(rule)
    BY <1>1, <1>2, <2>1, WildcardAllowed, PlainAllowed
  <2>2. CASE SetType(rule)
    BY <1>2, <2>2, TypeAllowed
  <2>3. CASE \/ SkipAbsentBuiltin(rule) \/ SetAbsentBuiltin(rule)
             \/ KeepBuiltin(rule) \/ ClearBuiltin(rule) \/ ReplaceBuiltin(rule)
    BY <1>1, <1>2, <2>3, BuiltinAllowed
  <2>4. CASE ChangeChain(rule) \/ LeaveNoChain(rule) \/ StartChain(rule)
    BY <1>1, <1>2, <2>4, MultiAllowed
  <2> QED BY <1>3, <2>1, <2>2, <2>3, <2>4 DEF RunRule
<1> QED BY <1>1, <1>2, <1>4

\* The invariant, with Content-Type in the fields only.
LEMMA FullInvariance == OutSpec => [](OInv /\ Unlisted)
<1>1. OutInit => Unlisted
  BY DEF OutInit, Unlisted
<1>2. OInv /\ Unlisted /\ [OutNext]_out_vars => Unlisted'
  <2> SUFFICES ASSUME OInv, Unlisted, [OutNext]_out_vars PROVE Unlisted'
    OBVIOUS
  <2>1. CASE OutNext
    BY <2>1, UnlistedKept
  <2>2. CASE UNCHANGED out_vars
    BY <2>2 DEF out_vars, Unlisted
  <2> QED BY <2>1, <2>2
<1> QED BY <1>1, <1>2, Invariance, PTL DEF OutSpec

\* The step that carries out a rule is one of that rule.
LEMMA DoneByRule ==
    ASSUME OInv, OutNext, RuleDone
    PROVE  \E rule \in Rules : RunRule(rule) /\ call' = rule /\ pc' = "idle"
<1>1. count \in Nat /\ count' = count + 1 /\ pc' = "idle"
  BY DEF OInv, OutTypeOK, RuleDone
<1>2. ~AllProduced /\ \A key \in Names, value \in Produced : ~Produce(key, value)
  BY <1>1 DEF AllProduced, Produce
<1>3. PICK rule \in Rules : RunRule(rule)
  BY <1>2 DEF OutNext
<1>4. Begin(rule)
  BY <1>3 DEF RunRule, SetHeader, RefuseLength, SkipAbsentBuiltin, SetAbsentBuiltin,
         KeepBuiltin, ClearBuiltin, ReplaceBuiltin, SetType, ChangeChain, LeaveNoChain,
         StartChain, StartChainFails, BeginBuiltin, BeginMulti
<1> QED BY <1>1, <1>3, <1>4 DEF Begin

\* A rule for another name leaves the length.
LEMMA LengthLeft ==
    ASSUME NEW rule \in Rules, RunRule(rule), pc' = "idle", rule.key \notin Lengths
    PROVE  length' = length
<1>1. \/ UNCHANGED field_vars \/ UNCHANGED <<length, ranges>> \/ Derive(rule)
  BY DEF RunRule, SetHeader, RefuseLength, SkipAbsentBuiltin, SetAbsentBuiltin,
         KeepBuiltin, ClearBuiltin, ReplaceBuiltin, SetType, ChangeChain, LeaveNoChain,
         StartChain, StartChainFails, BeginBuiltin, BeginMulti
<1> QED BY <1>1 DEF Derive, field_vars

\* A set, clear or rewrite of Content-Length, and any rule for another name, leave what
\* is sent and what nginx goes by the same, if they were.
LEMMA LengthStays ==
    ASSUME OInv, Unlisted, Unlisted', NEW rule \in Rules, RunRule(rule), pc' = "idle",
           LengthAgrees, rule.op /= "add", ~Wildcard(rule)
    PROVE  LengthAgrees'
<1> SUFFICES ASSUME NEW name \in Lengths
             PROVE  Sent(name)' = IF length' = NULL THEN << >> ELSE <<Line(length')>>
  BY DEF LengthAgrees
<1>1. list' \in Seq(Slot) /\ pc = "idle" /\ \A k \in Keys : Allowed(rule, k)
  BY RuleAllowed
<1>2. name \in Single /\ name \notin Ranges /\ name \in Keys
  BY OwnNames, NamesAssumption DEF Keys, Builtin
<1>3. Covered(rule) = {rule.key}
  BY DEF Covered
<1>4. CASE name /= rule.key
  <2>1. rule.key \notin Lengths
    BY <1>4, OwnNames
  <2>2. length' = length
    BY <2>1, LengthLeft
  <2>3. ~(Borrows(rule) /\ name = Pointer[rule.key])
    BY <1>2, <1>4, OwnNames DEF Borrows
  <2>4. Sent(name)' = Effect(rule, name)
    BY <1>1, <1>2, <1>4, <2>1, <2>3 DEF Allowed
  <2>5. Sent(name)' = Sent(name)
    BY <1>3, <1>4, <2>4 DEF Effect
  <2> QED BY <2>2, <2>5 DEF LengthAgrees
<1>5. CASE name = rule.key
  <2>1. rule.key \notin Multi \cup Types /\ rule.key \in Builtin
    BY <1>2, <1>5, OwnNames DEF Builtin
  <2>2. \/ SkipAbsentBuiltin(rule) \/ SetAbsentBuiltin(rule)
        \/ KeepBuiltin(rule) \/ ClearBuiltin(rule) \/ ReplaceBuiltin(rule)
    BY <2>1 DEF RunRule, SetHeader, RefuseLength, SetType, ChangeChain, LeaveNoChain,
                StartChain, StartChainFails, BeginMulti
  <2>3. Handled(rule) /\ Derive(rule)
    BY <1>1, <2>2, BuiltinHandled
  <2>4. Sent(name)' = Text(rule.value)
    BY <1>1, <1>5, <2>3, LengthHandled
  <2>5. length' = IF rule.value = EMPTY THEN NULL ELSE rule.value
    BY <1>5, <2>3 DEF Derive
  <2>6. rule.value /= NULL
    BY NullAssumption, RuleFacts
  <2> QED BY <2>4, <2>5, <2>6 DEF Text
<1> QED BY <1>4, <1>5

-----------------------------------------------------------------------------
(* Theorems. *)

\* OutTypeOK holds for all names, values, rules and responses: every pointer and
\* every link of a chain is to a slot of the list.
THEOREM OutTypeCorrect == OutSpec => []OutTypeOK
<1>1. OInv => OutTypeOK
  BY DEF OInv
<1> QED BY <1>1, Invariance, PTL

\* OutPointersExact: no sequence of rules makes r->headers_out point to another header
\* than the one of that name that is sent, or sends two of them.
THEOREM PointersCorrect == OutSpec => []OutPointersExact
<1>1. OInv => OutPointersExact
  <2> SUFFICES ASSUME OInv, pc /= "error", NEW name \in Single \cap Pointers
               PROVE  /\ \A p \in DOMAIN list :
                            (list[p].hash /\ list[p].key = name) => ptr[name] = p
                      /\ ptr[name] /= NULL => list[ptr[name]].key = name
    BY DEF OutPointersExact
  <2>1. Pointer[name] = name
    BY NamesAssumption DEF Pointers
  <2> QED BY <2>1, NamesAssumption DEF OInv, Owned, Named
<1> QED BY <1>1, Invariance, PTL

\* ChainLinked: every Cache-Control that is sent is one that the next rule for it
\* replaces or clears.
THEOREM ChainCorrect == OutSpec => []ChainLinked
<1>1. OInv => ChainLinked
  BY DEF OInv, Linked, ChainLinked
<1> QED BY <1>1, Invariance, PTL

\* OutEffectExact: for any table of handlers, a rule does to what the client gets what
\* its operator says, or the departure that is stated, and leaves all other names alone.
THEOREM ResponsesAsDocumented == OutSpec => OutEffectExact
<1> DEFINE Exact == RuleDone =>
        \A name \in Keys :
            \/ Sent(name)' = Effect(call', name)
            \/ name = call'.key /\ Departs(call') /\ Sent(name)' = Departure(call')
            \/ name \in Ranges /\ call'.key \in Lengths /\ Listed(name)' = Listed(name)
            \/ Borrows(call') /\ name = Pointer[call'.key]
            \/ name \in Covered(call') \cup {call'.key} /\ Wildcard(call') /\ call'.op /= "clear"
            \/ name \in Covered(call') /\ Wildcard(call') /\ Sent(name)' = Own(name)
<1>1. OInv /\ Unlisted /\ (OInv /\ Unlisted)' /\ [OutNext]_out_vars => [Exact]_out_vars
  <2> SUFFICES ASSUME OInv, Unlisted, Unlisted', OutNext, RuleDone
               PROVE  Exact
    BY Zenon
  <2>1. PICK rule \in Rules : RunRule(rule) /\ call' = rule /\ pc' = "idle"
    BY DoneByRule
  <2>2. \A name \in Keys : Allowed(rule, name)
    BY <2>1, RuleAllowed
  <2> QED BY <2>1, <2>2 DEF Allowed
<1> HIDE DEF Exact
<1>2. OutSpec => [][Exact]_out_vars
  BY <1>1, FullInvariance, PTL DEF OutSpec
<1> QED BY <1>2 DEF OutEffectExact, Exact

\* LengthPartedBy: only an add or a wildcard parts the Content-Length that the client
\* gets from the one by which nginx frames the body.
THEOREM LengthFollows == OutSpec => LengthPartedBy
<1> DEFINE Parted == (RuleDone /\ LengthAgrees /\ ~LengthAgrees') =>
                        call'.op = "add" \/ Wildcard(call')
<1>1. OInv /\ Unlisted /\ (OInv /\ Unlisted)' /\ [OutNext]_out_vars => [Parted]_out_vars
  <2> SUFFICES ASSUME OInv, Unlisted, Unlisted', OutNext, RuleDone, LengthAgrees, ~LengthAgrees'
               PROVE  call'.op = "add" \/ Wildcard(call')
    BY Zenon
  <2>1. PICK rule \in Rules : RunRule(rule) /\ call' = rule /\ pc' = "idle"
    BY DoneByRule
  <2> QED BY <2>1, LengthStays
<1> HIDE DEF Parted
<1>2. OutSpec => [][Parted]_out_vars
  BY <1>1, FullInvariance, PTL DEF OutSpec
<1> QED BY <1>2 DEF LengthPartedBy, Parted
=============================================================================
