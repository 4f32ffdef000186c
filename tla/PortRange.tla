------------------------------ MODULE PortRange ------------------------------
(***************************************************************************)
(* AppConfig::parse_gateway_service_ports (crates/gateway/src/config.rs),  *)
(* the value parser of --gateway-service-ports: the regex (\d+)-(\d+)      *)
(* searched anywhere in the argument, both captures parsed as unsigned     *)
(* integers of Width bits (u16: Width = 16) with a parse error read as 0,  *)
(* and a 0 on either side rejected.                                        *)
(*                                                                         *)
(* An argument is a sequence of characters; one decode step maps it to the *)
(* parser's result.                                                        *)
(***************************************************************************)
EXTENDS Naturals, Sequences, SequencesExt

CONSTANTS
    Chars,    \* the characters arguments are made of
    MaxLen,   \* the longest argument enumerated
    Width     \* bits of the port type

(* The decimal digits, in order of their value.                           *)
Digits == <<"0", "1", "2", "3", "4", "5", "6", "7", "8", "9">>
DigitChars == Range(Digits)
DigitValue == [c \in DigitChars |-> CHOOSE n \in 0..9 : Digits[n + 1] = c]

ASSUME PortRangeAssumption ==
    /\ Chars \subseteq DigitChars \cup {"-", "x"}
    /\ MaxLen \in Nat
    /\ Width \in Nat \ {0}

(* Results: Ok(<<start, end>>) or Err.                                     *)
Err == [ok |-> FALSE, range |-> <<0, 0>>]
Ok(r) == [ok |-> TRUE, range |-> r]

IsDigit(c) == c \in DigitChars

-----------------------------------------------------------------------------
(* The regex search                                                        *)

(* The position just after the run of digits that starts at i.            *)
RunEnd(s, i) ==
    LET after == {j \in i..(Len(s) + 1) : j > Len(s) \/ ~IsDigit(s[j])}
    IN  CHOOSE j \in after : \A k \in after : j <= k

(* (\d+)-(\d+) matches at i: \d+ takes the whole run of digits (a shorter  *)
(* one would be followed by a digit, not '-'), then '-' and a digit.       *)
MatchesAt(s, i) ==
    /\ IsDigit(s[i])
    /\ RunEnd(s, i) + 1 <= Len(s)
    /\ s[RunEnd(s, i)] = "-"
    /\ IsDigit(s[RunEnd(s, i) + 1])

(* Regex::captures: the leftmost match, both groups greedy; none if the    *)
(* pattern occurs nowhere in the argument.                                 *)
Captures(s) ==
    LET starts == {i \in 1..Len(s) : MatchesAt(s, i)}
        i0 == CHOOSE i \in starts : \A k \in starts : i <= k
        sep == RunEnd(s, i0)
    IN  IF starts = {} THEN <<>>
        ELSE <<SubSeq(s, i0, sep - 1), SubSeq(s, sep + 1, RunEnd(s, sep + 1) - 1)>>

-----------------------------------------------------------------------------
(* The parse                                                               *)

(* The decimal number a string of digits writes.                           *)
DecimalValue(g) == FoldLeft(LAMBDA acc, c : 10 * acc + DigitValue[c], 0, g)

(* Mutant of ParseUnsigned: the bound check off by one.                    *)
ParseUnsignedOffByOne(g) == IF DecimalValue(g) <= 2 ^ Width THEN DecimalValue(g) ELSE 0

(* Mutant of ParseUnsigned: the value truncated to the width, as an `as`   *)
(* cast would.                                                             *)
ParseUnsignedWrapping(g) == DecimalValue(g) % (2 ^ Width)

(* str::parse::<u16>() on a capture, .unwrap_or(0): a value the type       *)
(* cannot hold is a parse error, read as 0.                                *)
ParseUnsigned(g) == IF DecimalValue(g) < 2 ^ Width THEN DecimalValue(g) ELSE 0

(* parse_gateway_service_ports.                                            *)
ParseGatewayServicePorts(s) ==
    LET caps == Captures(s)
    IN  IF caps = <<>> THEN Err
        ELSE LET start == ParseUnsigned(caps[1])
                 end   == ParseUnsigned(caps[2])
             IN  IF start = 0 \/ end = 0 THEN Err ELSE Ok(<<start, end>>)

-----------------------------------------------------------------------------
(* One call on every argument                                              *)

Arguments == UNION {[1..n -> Chars] : n \in 0..MaxLen}

VARIABLES
    arg,     \* the argument clap hands to the value parser
    done,    \* whether the parser has returned
    result   \* what it returned

vars == <<arg, done, result>>

Init ==
    /\ arg \in Arguments
    /\ done = FALSE
    /\ result = Err

Parse ==
    /\ ~done
    /\ done' = TRUE
    /\ result' = ParseGatewayServicePorts(arg)
    /\ UNCHANGED arg

Spec == Init /\ [][Parse]_vars

-----------------------------------------------------------------------------
(* Properties, against the format the doc comment and spec 6 give:         *)
(* "{port_start:u16}-{port_end:u16}", START-END.                           *)

Ports == 1..(2 ^ Width - 1)

(* The arguments written in that format: digits, '-', digits.              *)
WellFormed(s) ==
    \E i \in 2..(Len(s) - 1) :
        /\ s[i] = "-"
        /\ \A j \in 1..Len(s) : j # i => IsDigit(s[j])

(* The range a well-formed argument denotes, when both ports are valid.   *)
Denoted(s) ==
    LET i == CHOOSE i \in 1..Len(s) : s[i] = "-"
        a == DecimalValue(SubSeq(s, 1, i - 1))
        b == DecimalValue(SubSeq(s, i + 1, Len(s)))
    IN  IF a \in Ports /\ b \in Ports THEN Ok(<<a, b>>) ELSE Err

TypeOK ==
    /\ arg \in Arguments
    /\ done \in BOOLEAN
    /\ result \in {Err} \cup {Ok(r) : r \in Ports \X Ports}

(* The conversion of parse_gateway_service_ports on START-END arguments:   *)
(* the result is the range written, and an argument with a zero or a       *)
(* value the port type cannot hold (u16 overflow) is rejected.             *)
ParsesWellFormed ==
    done /\ WellFormed(arg) => result = Denoted(arg)

(* Spec 6 ("--gateway-service-ports START-END"), about the unanchored      *)
(* regex search of parse_gateway_service_ports: only an argument of that   *)
(* format is accepted.                                                     *)
AcceptsOnlyWellFormed ==
    done /\ result.ok => WellFormed(arg)

(* Spec 4.8 ("a contiguous port range [start, end] is assigned"), about    *)
(* the checks of parse_gateway_service_ports: an accepted range is not     *)
(* empty.                                                                  *)
AcceptsNonEmptyRange ==
    done /\ result.ok => result.range[1] <= result.range[2]

=============================================================================
