----------------------------- MODULE ValidateHost -----------------------------
(***************************************************************************)
(* ngx_http_headers_control_validate_host: what a rule for the request's   *)
(* Host makes of r->headers_in.server.  The code goes over the value once, *)
(* and keeps where the name ends, where its last dot is and the port's     *)
(* value.  The two positions are size_t: both are compared with a position *)
(* less one, at zero as well.                                              *)
(*                                                                         *)
(* A character is a value of which the code asks its class only; a digit   *)
(* has a value as well.  Positions count from 0 as in the code.            *)
(***************************************************************************)
EXTENDS Integers, Sequences

CONSTANTS
    Char, Hosts,    \* the characters, and the values there may be
    Upper, Lower,   \* the letters
    Digit,          \* [character -> 0 .. 9], the digits
    Marks,          \* what else a name or a literal may have: - _ ~ ! $ & ...
    LowerCase,      \* [Upper -> Lower]
    SIZE            \* size_t counts modulo SIZE

Digits == DOMAIN Digit

\* No value fills the address space.
ASSUME HostsAssumption == \A value \in Hosts : value \in Seq(Char) /\ Len(value) < SIZE - 1
ASSUME DigitAssumption == Digit \in [Digits -> 0 .. 9]
ASSUME SizeAssumption == SIZE \in Nat /\ SIZE > 1
ASSUME ClassAssumption ==
    /\ {":", ".", "%", "[", "]"} \cap (Upper \cup Lower \cup Digits \cup Marks) = {}
    /\ Upper \cap (Lower \cup Digits \cup Marks) = {}
    /\ Lower \cap (Digits \cup Marks) = {}
    /\ LowerCase \in [Upper -> Lower]
    /\ Lower \subseteq Char

VARIABLES
    host,       \* the value
    i, dot_pos, host_len, port, alloc,
    state,      \* where the scan is: "start", "name", "literal", "end" or "port"
    rc,         \* "scanning", "ok", "declined" or "error"
    server      \* the host that is handed back

host_vars == <<host, i, dot_pos, host_len, port, alloc, state, rc, server>>

Less1(n) == (n - 1) % SIZE

HostInit ==
    /\ host = << >>
    /\ i = 0 /\ dot_pos = 0 /\ host_len = 0 /\ port = 0
    /\ alloc = FALSE
    /\ state = "start"
    /\ rc = "idle"
    /\ server = << >>

Begin(value, what) ==
    /\ host' = value
    /\ i' = 0 /\ dot_pos' = Len(value) /\ host_len' = Len(value) /\ port' = 0
    /\ alloc' = FALSE
    /\ state' = "start"
    /\ rc' = what
    /\ server' = << >>

\* The call from set_host_header, with a value that is not empty.
Call ==
    /\ rc = "idle"
    /\ \E value \in Hosts \ {<< >>} : Begin(value, "scanning")

Return ==
    /\ rc \in {"ok", "declined", "error"}
    /\ Begin(<< >>, "idle")

Scanning(s) == rc = "scanning" /\ i < Len(host) /\ state \in s
ch == host[i + 1]

Decline ==
    /\ rc' = "declined"
    /\ UNCHANGED <<host, i, dot_pos, host_len, port, alloc, state, server>>

Advance ==
    /\ i' = i + 1
    /\ UNCHANGED <<host, rc, server>>

\* An address literal begins.
OpenLiteral ==
    /\ Scanning({"start"})
    /\ ch = "["
    /\ state' = "literal"
    /\ Advance
    /\ UNCHANGED <<dot_pos, host_len, port, alloc>>

\* Is the scan within a name or a literal?  A name begins with its first character.
InHost == Scanning({"name", "literal"}) \/ (Scanning({"start"}) /\ ch /= "[")
Entered == IF state = "start" THEN "name" ELSE state

\* The characters that are simply part of the host.
Plain ==
    /\ InHost
    /\ ch \in Lower \cup Digits \cup Marks \/ (ch = "%" /\ state /= "literal")
          \/ (ch = ":" /\ state = "literal")
    /\ state' = Entered
    /\ Advance
    /\ UNCHANGED <<dot_pos, host_len, port, alloc>>

UpperCase ==
    /\ InHost
    /\ ch \in Upper
    /\ alloc' = TRUE
    /\ state' = Entered
    /\ Advance
    /\ UNCHANGED <<dot_pos, host_len, port>>

DoubleDot == dot_pos = Less1(i)

Dot ==
    /\ InHost
    /\ ch = "."
    /\ IF DoubleDot
       THEN Decline
       ELSE /\ dot_pos' = i
            /\ state' = Entered
            /\ Advance
            /\ UNCHANGED <<host_len, port, alloc>>

\* The colon behind a name.
EndOfName ==
    /\ InHost
    /\ state /= "literal"
    /\ ch = ":"
    /\ host_len' = i
    /\ state' = "port"
    /\ Advance
    /\ UNCHANGED <<dot_pos, port, alloc>>

CloseLiteral ==
    /\ Scanning({"literal"})
    /\ ch = "]"
    /\ host_len' = i + 1
    /\ state' = "end"
    /\ Advance
    /\ UNCHANGED <<dot_pos, port, alloc>>

\* The colon behind a literal.
EndOfLiteral ==
    /\ Scanning({"end"})
    /\ ch = ":"
    /\ state' = "port"
    /\ Advance
    /\ UNCHANGED <<dot_pos, host_len, port, alloc>>

\* The last digit of the greatest port is not looked at.
TooBig_Coarse(digit) == port > 6553

TooBig(digit) == port >= 6553 /\ (port > 6553 \/ digit > 5)

PortDigit ==
    /\ Scanning({"port"})
    /\ ch \in Digits
    /\ IF TooBig(Digit[ch])
       THEN Decline
       ELSE /\ port' = port * 10 + Digit[ch]
            /\ Advance
            /\ UNCHANGED <<dot_pos, host_len, alloc, state>>

\* The defaults of the switches.
Unexpected ==
    /\ \/ InHost /\ state /= "literal" /\ ch \in {"[", "]"}
       \/ InHost /\ state = "literal" /\ ch \in {"[", "%"}
       \/ InHost /\ ch \notin Upper \cup Lower \cup Digits \cup Marks \cup {".", ":", "%", "[", "]"}
       \/ Scanning({"end"}) /\ ch /= ":"
       \/ Scanning({"port"}) /\ ch \notin Digits
    /\ Decline

-----------------------------------------------------------------------------
(* After the loop. *)

\* A dot at the end of the value, behind the port too, is taken off the name.
TrailingDot_Last == dot_pos = Less1(Len(host))

TrailingDot == dot_pos = Less1(host_len)

Lowered(s) == [k \in DOMAIN s |-> IF s[k] \in Upper THEN LowerCase[s[k]] ELSE s[k]]

AtEnd == rc = "scanning" /\ i = Len(host)

\* A literal that is not closed.
Unclosed ==
    /\ AtEnd
    /\ state = "literal"
    /\ Decline

\* The length of the name without a dot at its end.
NameLen == IF TrailingDot THEN Less1(host_len) ELSE host_len

Finish(answer, name) ==
    /\ AtEnd
    /\ state /= "literal"
    /\ host_len' = NameLen
    /\ rc' = answer
    /\ server' = name
    /\ UNCHANGED <<host, i, dot_pos, port, alloc, state>>

NoName == NameLen = 0 /\ Finish("declined", server)

\* The pool has no memory for the copy in lower case.
NoMemory == NameLen /= 0 /\ alloc /\ Finish("error", server)

AcceptHost ==
    LET name == SubSeq(host, 1, NameLen)
    IN  NameLen /= 0 /\ Finish("ok", IF alloc THEN Lowered(name) ELSE name)

Scan ==
    \/ OpenLiteral \/ Plain \/ UpperCase \/ Dot \/ EndOfName
    \/ CloseLiteral \/ EndOfLiteral \/ PortDigit \/ Unexpected

HostNext == Call \/ Scan \/ Unclosed \/ NoName \/ NoMemory \/ AcceptHost \/ Return

HostSpec == HostInit /\ [][HostNext]_host_vars

-----------------------------------------------------------------------------
(* Properties. *)

\* The greatest 16-bit number, the limit that the test of PortDigit means.
MaxPort == 65535

\* The state is well formed.  The positions stay in the value, which no size_t
\* that wraps around does, and the port never exceeds 16 bits.
TypeOK ==
    /\ host \in Seq(Char)
    /\ Len(host) < SIZE - 1
    /\ i \in 0 .. Len(host)
    /\ dot_pos \in 0 .. Len(host)
    /\ host_len \in 0 .. Len(host)
    /\ port \in 0 .. MaxPort
    /\ alloc \in BOOLEAN
    /\ state \in {"start", "name", "literal", "end", "port"}
    /\ rc \in {"idle", "scanning", "ok", "declined", "error"}
    /\ server \in Seq(Char)

Ordinary == Upper \cup Lower \cup Digits \cup Marks

NoDoubleDot(s) == \A k \in 1 .. Len(s) - 1 : ~(s[k] = "." /\ s[k + 1] = ".")

IsName(s) ==
    /\ \A k \in DOMAIN s : s[k] \in Ordinary \cup {".", "%"}
    /\ NoDoubleDot(s)

IsLiteral(s) ==
    /\ Len(s) >= 2
    /\ s[1] = "[" /\ s[Len(s)] = "]"
    /\ \A k \in 2 .. Len(s) - 1 : s[k] \in Ordinary \cup {".", ":"}
    /\ NoDoubleDot(s)

\* What the digits of s from the first to the k-th say.
Number(s) == LET value[k \in 0 .. Len(s)] == IF k = 0 THEN 0 ELSE 10 * value[k - 1] + Digit[s[k]]
             IN  value[Len(s)]

IsPort(s) ==
    \/ s = << >>
    \/ /\ s[1] = ":"
       /\ \A k \in 2 .. Len(s) : s[k] \in Digits
       /\ Number(Tail(s)) <= MaxPort

Undotted(s) == IF s /= << >> /\ s[Len(s)] = "." THEN SubSeq(s, 1, Len(s) - 1) ELSE s

\* The hosts that value names: each way to read it as a name or a literal, and a
\* port.
Named(value) ==
    {Undotted(SubSeq(value, 1, k)) : k \in
        {k \in 1 .. Len(value) :
            /\ IsName(SubSeq(value, 1, k)) \/ IsLiteral(SubSeq(value, 1, k))
            /\ IsPort(SubSeq(value, k + 1, Len(value)))}} \ {<< >>}

\* A value is accepted exactly when it is a name or an address literal with an
\* optional port, and the host handed back is that name in lower case, without
\* the port and without a dot at its end.
HostExact ==
    /\ rc = "ok" => {Lowered(name) : name \in Named(host)} = {server}
    /\ rc = "declined" => Named(host) = {}
=============================================================================
