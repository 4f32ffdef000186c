---------------------------- MODULE MCAsnDecoder ----------------------------
(* Every tag of the match, two tags it does not handle (SEQUENCE, the      *)
(* BMPString of some certificates), and contents of up to nine bytes, so  *)
(* that an INTEGER beyond i64 is among them.                               *)
EXTENDS AsnDecoder

MCAllTags == ArmTags \cup {"Sequence", "BmpString"}
MCIntegerTags == {"Integer"}
MCRelativeOidTags == {"RelativeOid"}
MCStringTags == {"Utf8String", "OctetString"}

=============================================================================
