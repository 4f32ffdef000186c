-------------------------- MODULE AsnDecoder_proofs --------------------------
(***************************************************************************)
(* Proofs about AsnDecoder, for every set of tags and every MaxLen.        *)
(*                                                                         *)
(*  - ErrorsCorrect: Spec => []TagsAndErrors. The invariant is a fact      *)
(*    about StringifyAsnValue on every value (ArmsTagsAndErrors): the     *)
(*    match's arms cover exactly spec 4.9's list. It is carried to the    *)
(*    state by IInv: the result is the decoder's on the attribute.        *)
(*  - DecodeFailures: on a valid value of a supported tag the decoder     *)
(*    fails to give a non-empty string exactly for an INTEGER beyond i64  *)
(*    (a panic), a RELATIVE-OID, and an empty string or OCTET STRING: the  *)
(*    three ways DecodesSupported (spec P6) is broken, for all inputs.     *)
(***************************************************************************)
EXTENDS AsnDecoder, TLAPS

(* The tag sets are literals; every step may look inside them.            *)
USE DEF StringTags, DisplayTags, OidTags, ArmTags, SupportedTags

-----------------------------------------------------------------------------
(* The match on every value                                                *)

(* The four results are distinct.                                         *)
LEMMA ResultsDistinct ==
    /\ \A e \in BOOLEAN : Ok(e) # UnsupportedTag /\ Ok(e) # Conversion /\ Ok(e) # Panic
    /\ Conversion # UnsupportedTag /\ Panic # UnsupportedTag /\ Panic # Conversion
BY DEF Ok, UnsupportedTag, Conversion, Panic

(* Exactly the tags outside spec 4.9's list give UnsupportedTag, and an   *)
(* invalid encoding under a tag of the list gives Conversion.              *)
LEMMA ArmsTagsAndErrors ==
    ASSUME NEW v \in Values
    PROVE  /\ StringifyAsnValue(v) = UnsupportedTag <=> v.tag \notin SupportedTags
           /\ v.tag \in SupportedTags /\ ~v.valid => StringifyAsnValue(v) = Conversion
<1>1. CASE v.tag \in StringTags
    BY <1>1, ResultsDistinct
       DEF StringifyAsnValue, StringArm
<1>2. CASE v.tag \in DisplayTags
    BY <1>2, ResultsDistinct
       DEF StringifyAsnValue, DisplayArm
<1>3. CASE v.tag = "Integer"
    BY <1>3, ResultsDistinct
       DEF StringifyAsnValue, IntegerArm
<1>4. CASE v.tag = "OctetString"
    BY <1>4, ResultsDistinct, Zenon
       DEF StringifyAsnValue, OctetStringArm, Values
<1>5. CASE v.tag \in OidTags
    BY <1>5, ResultsDistinct
       DEF StringifyAsnValue, OidArm
<1>6. CASE v.tag \notin ArmTags
    BY <1>6 DEF StringifyAsnValue
<1>7. QED
    BY <1>1, <1>2, <1>3, <1>4, <1>5, <1>6

-----------------------------------------------------------------------------
(* The invariant                                                           *)

IInv ==
    /\ attr \in Values
    /\ done => result = StringifyAsnValue(attr)

LEMMA InitIInv == Init => IInv
BY DEF Init, IInv

LEMMA NextIInv == IInv /\ [Decode]_vars => IInv'
BY DEF IInv, Decode, vars

(* Spec 4.9 and P6, about the match of stringify_asn_value: in every run,  *)
(* for every set of tags and content lengths, the decoder returns          *)
(* UnsupportedTag exactly for a tag outside spec 4.9's list, and           *)
(* Conversion for an invalid encoding under a tag of that list.            *)
THEOREM ErrorsCorrect == Spec => []TagsAndErrors
<1>1. IInv => TagsAndErrors
    BY ArmsTagsAndErrors DEF IInv, TagsAndErrors
<1>2. QED
    BY InitIInv, NextIInv, <1>1, PTL DEF Spec

-----------------------------------------------------------------------------
(* Where P6 fails                                                          *)

(* Spec P6 ("the output is non-empty for every supported tag and valid    *)
(* encoding"), about the arms of stringify_asn_value: a valid value of a  *)
(* supported tag decodes to a non-empty string unless it is an INTEGER    *)
(* beyond i64 (the unwrap panics), a RELATIVE-OID (oid() asserts the OID  *)
(* tag), or an empty string or OCTET STRING; and in each of those cases   *)
(* it does not.                                                            *)
THEOREM DecodeFailures ==
    ASSUME NEW v \in Values, v.tag \in SupportedTags, v.valid
    PROVE  StringifyAsnValue(v) = Ok(FALSE)
           <=> ~ \/ v.tag = "Integer" /\ ~v.fitsI64
                 \/ v.tag = "RelativeOid"
                 \/ v.tag \in StringTags \cup {"OctetString"} /\ v.len = 0
<1>1. CASE v.tag \in StringTags
    BY <1>1, ResultsDistinct DEF StringifyAsnValue, StringArm, Ok
<1>2. CASE v.tag \in DisplayTags
    BY <1>2, ResultsDistinct DEF StringifyAsnValue, DisplayArm
<1>3. CASE v.tag = "Integer"
    BY <1>3, ResultsDistinct DEF StringifyAsnValue, IntegerArm
<1>4. CASE v.tag = "OctetString"
    BY <1>4 DEF StringifyAsnValue, OctetStringArm, Ok
<1>5. CASE v.tag \in OidTags
    BY <1>5, ResultsDistinct DEF StringifyAsnValue, OidArm
<1>6. QED
    BY <1>1, <1>2, <1>3, <1>4, <1>5

=============================================================================
