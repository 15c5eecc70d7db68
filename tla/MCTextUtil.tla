------------------------------ MODULE MCTextUtil ------------------------------
(***************************************************************************)
(* Bounds for TextUtil.  Configuration files of up to four lines hold a    *)
(* setting before, inside and after a Match block and a "Match all" line;  *)
(* two values tell a rewritten setting from a kept one.  Byte values       *)
(* cover ASCII (0, 32), the boundary 128, and the bytes of the UTF-8 BOM   *)
(* (239 187 191); buffers of four bytes are an IPv4 address.  Hex strings  *)
(* mix digits with a separator, with odd and even lengths for widths 2     *)
(* and 4.                                                                  *)
(***************************************************************************)
EXTENDS TextUtil

CONSTANTS name, other, v1, v2

MCVals == {v1, v2}
MCBytes == {0, 32, 128, 187, 191, 239}
MCHexDigits == {0, 1, 15}
MCWidths == {2, 4}
\* The separator "-" of a GUID: any value outside 0..15.
MCNonHex == 16
\* hex_dump: every buffer of up to 9 bytes, printable (65) or not (0);
\* buffers of 15 to 17 bytes, so that a dump ends just before, at and after
\* the end of its first line; and single bytes at both sides of every bound
\* of is_printable's ranges.
PrintableEdges == {47, 48, 57, 58, 64, 65, 90, 91, 96, 97, 122, 123, 255}
LongPrefix == [i \in 1..15 |-> IF i % 3 = 0 THEN 65 ELSE 0]
MCDumpBuffers == BoundedSeq({0, 65}, 9) \cup {LongPrefix \o t : t \in BoundedSeq({0, 65}, 2)}
                   \cup BoundedSeq(PrintableEdges, 1)
\* redact_sas_token: every message of up to five pieces, each a URL start,
\* one of "?", "&", " ", or a query parameter: a SAS one (sv), the
\* signature (sig), or another (comp); and None.
SasPieces == {<< "https://", "h" >>, << "?" >>, << "&" >>, << " " >>,
              << "sv", "=", "v" >>, << "sig", "=", "SIG" >>, << "comp", "=", "v" >>}
MCSasMessages == {FlattenSeq(p) : p \in BoundedSeq(SasPieces, 5)} \cup {NoMsg}
=============================================================================
