----------------------------- MODULE AsnDecoder -----------------------------
(***************************************************************************)
(* stringify_asn_value (crates/common/src/crypto/asn.rs): the printable    *)
(* string of an X.509 attribute value, by the value's tag.                 *)
(*                                                                         *)
(* A value is abstracted to its tag, the length of its content, whether    *)
(* the content is a valid encoding for the type the arm converts it to     *)
(* (UTF-8, a DER BOOLEAN, a time, ...), and, for an INTEGER, whether it    *)
(* fits an i64. A result is Ok with whether its string is empty, the       *)
(* Conversion error of convert_err_fn, the unsupported-tag error, or a     *)
(* panic.                                                                  *)
(***************************************************************************)
EXTENDS Naturals

CONSTANTS
    Tags,     \* the tags of the values enumerated
    MaxLen    \* the longest content enumerated

(* The tags of the match arms.                                             *)
StringTags == {"GeneralString", "Ia5String", "PrintableString", "Utf8String"}
DisplayTags == {"Boolean", "Enumerated", "GeneralizedTime", "UtcTime"}
OidTags == {"Oid", "RelativeOid"}
ArmTags == StringTags \cup DisplayTags \cup OidTags \cup {"Integer", "OctetString"}

(* The tags spec 4.9 lists as supported, in the spec's order: BOOLEAN,    *)
(* ENUMERATED, GENERALIZEDTIME, GENERALSTRING, IA5STRING, INTEGER,         *)
(* OCTETSTRING, OID, RELATIVEOID, PRINTABLESTRING, UTCTIME, UTF8STRING.    *)
(* It is written from the spec, not from the match: the properties compare *)
(* the two.                                                                *)
SupportedTags ==
    {"Boolean", "Enumerated", "GeneralizedTime", "GeneralString",
     "Ia5String", "Integer", "OctetString", "Oid", "RelativeOid",
     "PrintableString", "UtcTime", "Utf8String"}

(* An INTEGER's DER content is two's complement, so one of at most 8 bytes *)
(* always fits an i64.                                                     *)
I64Bytes == 8

ASSUME AsnAssumption == MaxLen \in Nat

Ok(empty) == [res |-> "ok", empty |-> empty]
Conversion == [res |-> "conversion", empty |-> TRUE]
UnsupportedTag == [res |-> "unsupported", empty |-> TRUE]
Panic == [res |-> "panic", empty |-> TRUE]

(* Types whose DER content is never empty.                                 *)
NonEmptyTypes == DisplayTags \cup OidTags \cup {"Integer"}

(* The values: fitsI64 only varies for an INTEGER, and only one of more   *)
(* than I64Bytes content bytes can be beyond i64; any content is a valid   *)
(* OCTET STRING, and a valid encoding of a type with non-empty content has *)
(* some.                                                                   *)
Values ==
    {v \in [tag : Tags, len : 0..MaxLen, valid : BOOLEAN, fitsI64 : BOOLEAN] :
        /\ v.tag # "Integer" => v.fitsI64
        /\ ~v.fitsI64 => v.len > I64Bytes
        /\ v.tag = "OctetString" => v.valid
        /\ v.valid /\ v.tag \in NonEmptyTypes => v.len > 0}

-----------------------------------------------------------------------------
(* The arms of the match                                                   *)

(* Mutant of StringArm: the string built without checking its encoding.   *)
StringArmUnchecked(v) == Ok(v.len = 0)

(* generalstring(), ia5string(), printablestring(), utf8string(), then     *)
(* .string(): the content itself.                                          *)
StringArm(v) == IF v.valid THEN Ok(v.len = 0) ELSE Conversion

(* bool(), enumerated(), generalizedtime(), utctime(), then to_string():   *)
(* "true"/"false", a decimal, a formatted time.                            *)
DisplayArm(v) == IF v.valid THEN Ok(FALSE) ELSE Conversion

(* integer(), as_i64(), unwrap(), to_string(): the unwrap runs inside the  *)
(* map, before or_else can turn anything into Conversion.                  *)
IntegerArm(v) ==
    IF ~v.valid THEN Conversion
    ELSE IF v.fitsI64 THEN Ok(FALSE) ELSE Panic

(* octetstring(), each byte as two lowercase hex digits: any bytes are an  *)
(* OCTET STRING.                                                           *)
OctetStringArm(v) == Ok(v.len = 0)

(* Both the Oid and the RelativeOid arm call oid(), whose TryFrom<Any>     *)
(* asserts the OBJECT IDENTIFIER tag, then format_oid: dotted decimal or a *)
(* registry name.                                                          *)
OidArm(v) == IF v.valid /\ v.tag = "Oid" THEN Ok(FALSE) ELSE Conversion

(* Mutant of StringifyAsnValue: the UtcTime arm left out.                  *)
StringifyAsnValueNoUtcTime(v) ==
    CASE v.tag \in StringTags                 -> StringArm(v)
      [] v.tag \in DisplayTags \ {"UtcTime"}  -> DisplayArm(v)
      [] v.tag = "Integer"                    -> IntegerArm(v)
      [] v.tag = "OctetString"                -> OctetStringArm(v)
      [] v.tag \in OidTags                    -> OidArm(v)
      [] OTHER                                -> UnsupportedTag

(* stringify_asn_value: the match on the header's tag.                     *)
StringifyAsnValue(v) ==
    CASE v.tag \in StringTags   -> StringArm(v)
      [] v.tag \in DisplayTags  -> DisplayArm(v)
      [] v.tag = "Integer"      -> IntegerArm(v)
      [] v.tag = "OctetString"  -> OctetStringArm(v)
      [] v.tag \in OidTags      -> OidArm(v)
      [] OTHER                  -> UnsupportedTag

-----------------------------------------------------------------------------
(* One call on every value                                                 *)

VARIABLES
    attr,    \* the attribute value handed to the decoder
    done,    \* whether the decoder has returned (or panicked)
    result   \* what it returned

vars == <<attr, done, result>>

Init ==
    /\ attr \in Values
    /\ done = FALSE
    /\ result = Conversion

Decode ==
    /\ ~done
    /\ done' = TRUE
    /\ result' = StringifyAsnValue(attr)
    /\ UNCHANGED attr

Spec == Init /\ [][Decode]_vars

-----------------------------------------------------------------------------
(* Properties                                                              *)

(* Spec 4.9 and P6, about the match of stringify_asn_value: exactly the    *)
(* tags the spec leaves out give UnsupportedTag (the match names every     *)
(* tag of the spec's list, and no other), and a tag of the list whose      *)
(* content does not decode gives Conversion (never Ok, never a panic).     *)
TagsAndErrors ==
    done =>
        /\ (result = UnsupportedTag <=> attr.tag \notin SupportedTags)
        /\ (attr.tag \in SupportedTags /\ ~attr.valid => result = Conversion)

(* P6, about every arm of stringify_asn_value: a supported tag with a      *)
(* valid encoding gives a non-empty string.                                *)
DecodesSupported ==
    done /\ attr.tag \in SupportedTags /\ attr.valid => result = Ok(FALSE)

=============================================================================
