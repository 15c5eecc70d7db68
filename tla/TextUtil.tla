------------------------------ MODULE TextUtil ------------------------------
(***************************************************************************)
(* The text algorithms of azurelinuxagent/common/utils/textutil.py.        *)
(*                                                                         *)
(* Each function is an operator translated from the code.  A behaviour is *)
(* one call: the caller picks a function and an argument from small        *)
(* bounded sets, and the result is what the function returns or raises.   *)
(* The properties compare the results with reference definitions written   *)
(* independently of the code (what the result means), over every bounded   *)
(* input.                                                                  *)
(*                                                                         *)
(* Abstractions: a configuration line is a record of what it says (an      *)
(* option or assignment with its key and value, or a Match line); a byte  *)
(* or character is its ordinal; a hex digit is its value 0..15.  The       *)
(* "{0} {1}" and "{0}=\"{1}\"" formatting of a new line is the record of   *)
(* the setting it writes.                                                  *)
(***************************************************************************)
EXTENDS Integers, Sequences, SequencesExt, FiniteSetsExt

CONSTANTS
  SshName, IniName,   \* the name passed to set_ssh_config / set_ini_config
  OtherKey,           \* any other option or line
  Vals,               \* option values
  MaxLines,           \* bound: lines of a configuration file
  Bytes,              \* byte values (ordinals) of the buffers
  MaxBytes,           \* bound: length of a byte buffer or string
  HexDigits,          \* hex digit values used in hex strings
  NonHex,             \* a character that is not a hex digit (e.g. "-")
  Widths,             \* the width argument of swap_hexstring
  DumpBuffers,        \* the buffers passed to hex_dump
  SasMessages         \* the messages passed to redact_sas_token

ASSUME Bytes \subseteq 0..255 /\ HexDigits \subseteq 0..15 /\ NonHex \notin 0..15
ASSUME Widths \subseteq Nat \ {0} /\ MaxLines \in Nat /\ MaxBytes \in Nat

NoKey == "none"
NoVal == "none"

-----------------------------------------------------------------------------
(* set_ssh_config                                                          *)

OptionLine(k, v) == [kind |-> "option", key |-> k, val |-> v]
MatchLine(all)   == [kind |-> IF all THEN "match all" ELSE "match", key |-> NoKey, val |-> NoVal]
SshLines == {OptionLine(k, v) : k \in {SshName, OtherKey}, v \in Vals}
              \cup {MatchLine(a) : a \in BOOLEAN}

\* config[i].startswith(name) / config[i].lower().startswith("match")
StartsWithName(l, name) == l.kind = "option" /\ l.key = name
IsMatch(l) == l.kind \in {"match", "match all"}

\* Mutation: "Match all" is not recognised as the end of a Match block.
ssh_match_start_noall(config, name, i) ==
  LET RECURSIVE ms(_)
      ms(j) == IF j = 0 THEN 0
               ELSE IF IsMatch(config[j]) /\ ms(j - 1) = 0 THEN j ELSE ms(j - 1)
  IN  ms(i)

\* match_start after the loop has seen lines 1..i (0 is no_match): set at
\* the first Match line while outside a block, reset by "Match all".  A
\* name line outside a Match block takes the first branch of the loop.
RECURSIVE ssh_match_start(_, _, _)
ssh_match_start(config, name, i) ==
  IF i = 0 THEN 0
  ELSE LET ms == ssh_match_start(config, name, i - 1)
           l  == config[i]
       IN  IF StartsWithName(l, name) /\ ms = 0 THEN ms
           ELSE IF l.kind = "match all" THEN 0
           ELSE IF l.kind = "match" /\ ms = 0 THEN i
           ELSE ms

\* The rewritten lines, found, and the insert position of set_ssh_config.
\* With no line at all the loop never binds i: config.insert(i, ...) raises
\* UnboundLocalError.
set_ssh_config_raises(config) == Len(config) = 0

set_ssh_config(config, name, val) ==
  LET n       == Len(config)
      newLine == OptionLine(name, val)
      outside(i) == ssh_match_start(config, name, i - 1) = 0
      hit(i)  == StartsWithName(config[i], name) /\ outside(i)
      found   == \E i \in 1..n : hit(i)
      lines   == [i \in 1..n |-> IF hit(i) THEN newLine ELSE config[i]]
      ms      == ssh_match_start(config, name, n)
      \* i is left at the last index: the line goes before the last line
      at      == IF ms # 0 THEN ms ELSE n
  IN  IF found THEN lines ELSE InsertAt(lines, at, newLine)

-----------------------------------------------------------------------------
(* set_ini_config                                                          *)

IniLines == {[key |-> k, val |-> v] : k \in {IniName, OtherKey}, v \in Vals}

\* Mutation: the first "name=" line is taken instead of the last.
ini_name_index_first(config, name) == SelectInSeq(config, LAMBDA l : l.key = name)

\* The reversed scan for config[i].startswith(name + '='): the last such line.
ini_name_index(config, name) == SelectLastInSeq(config, LAMBDA l : l.key = name)

\* Replaces the last "name=" line, or inserts before the last line
\* (config.insert(length - 1, text); on an empty list that is index 0).
set_ini_config(config, name, val) ==
  LET text == [key |-> name, val |-> val]
      i    == ini_name_index(config, name)
  IN  IF i # 0 THEN [config EXCEPT ![i] = text]
      ELSE InsertAt(config, Max({Len(config), 1}), text)

-----------------------------------------------------------------------------
(* unpack, int_to_ip4_addr                                                  *)

\* result = (result << 8) | buf[offset + i] for i in value_range (0-based).
unpack(buf, offset, value_range) ==
  FoldLeft(LAMBDA r, i : r * 256 + buf[offset + i + 1], 0, value_range)

\* Mutation: the little-endian range runs upwards, as the big-endian one.
unpack_little_endian_upwards(buf, offset, length) ==
  unpack(buf, offset, [k \in 1..length |-> k - 1])

unpack_little_endian(buf, offset, length) ==
  unpack(buf, offset, [k \in 1..length |-> length - k])
unpack_big_endian(buf, offset, length) ==
  unpack(buf, offset, [k \in 1..length |-> k - 1])

\* "%u.%u.%u.%u" % ((a >> 24) & 0xFF, ...): the four octets it prints.
int_to_ip4_addr(a) ==
  << (a \div 2^24) % 256, (a \div 2^16) % 256, (a \div 2^8) % 256, a % 256 >>

-----------------------------------------------------------------------------
(* hex_dump3 / hex_dump2, hexstr_to_bytearray, swap_hexstring              *)

\* ''.join('%02X' % b for b in buf[offset:offset + length]): two hex digits
\* per byte; the slice stops at the end of buf.
hex_dump3(buf, offset, length) ==
  LET slice == SubSeq(buf, offset + 1, Min({offset + length, Len(buf)}))
  IN  FlattenSeq([i \in 1..Len(slice) |-> << slice[i] \div 16, slice[i] % 16 >>])
hex_dump2(buf) == hex_dump3(buf, 0, Len(buf))

\* Mutation: a[c:c + 2] is read instead of a[c*2:c*2 + 2].
hexstr_to_bytearray_unscaled(a) == [c \in 1..(Len(a) \div 2) |-> a[c] * 16 + a[c + 1]]

\* int(a[c*2:c*2+2], 16) for c in range(len(a) // 2): a trailing odd digit
\* is ignored.
hexstr_to_bytearray(a) == [c \in 1..(Len(a) \div 2) |-> a[2*c - 1] * 16 + a[2*c]]

IsHex(ch) == ch \in 0..15

\* Mutation: the zeros are appended instead of prepended.
swap_pad_right(s, width) ==
  IF Len(s) % width # 0 THEN s \o [k \in 1..(width - (Len(s) % width)) |-> 0] ELSE s

\* s = ('0' * (width - len(s) % width)) + s when len(s) is not a multiple.
swap_pad(s, width) ==
  IF Len(s) % width # 0 THEN [k \in 1..(width - (Len(s) % width)) |-> 0] \o s ELSE s

\* Mutation: the pattern matches any character (r'.{width}').
RECURSIVE hex_groups_any(_, _, _)
hex_groups_any(s, width, p) ==
  IF p + width - 1 > Len(s) THEN << >>
  ELSE << SubSeq(s, p, p + width - 1) >> \o hex_groups_any(s, width, p + width)

\* re.findall(r'[a-f0-9]{width}', s): non-overlapping runs of width hex
\* digits, scanning left to right and skipping a position that starts none.
RECURSIVE hex_groups(_, _, _)
hex_groups(s, width, p) ==
  IF p + width - 1 > Len(s) THEN << >>
  ELSE IF \A k \in p..(p + width - 1) : IsHex(s[k])
       THEN << SubSeq(s, p, p + width - 1) >> \o hex_groups(s, width, p + width)
       ELSE hex_groups(s, width, p + 1)

swap_hexstring(s, width) ==
  FlattenSeq(Reverse(hex_groups(swap_pad(s, width), width, 1)))

-----------------------------------------------------------------------------
(* hex_dump                                                                *)
(* A line of the dump is its "%06X: " offset, the "%02X " bytes as hex     *)
(* digits and the ASCII column.  The spaces between them are left out.    *)

Ord(c) == CASE c = "A" -> 65 [] c = "Z" -> 90 [] c = "a" -> 97 [] c = "z" -> 122
                [] c = "0" -> 48 [] c = "9" -> 57 [] c = "." -> 46

is_in_range(a, low, high) == low <= a /\ a <= high

is_printable(ch) ==
  \/ is_in_range(ch, Ord("A"), Ord("Z"))
  \/ is_in_range(ch, Ord("a"), Ord("z"))
  \/ is_in_range(ch, Ord("0"), Ord("9"))

Hex2(b) == << b \div 16, b % 16 >>

\* Mutation: the ASCII column starts at the last multiple of 8.
HexDumpStep_half(lines, i, buffer, size) ==
  LET ls  == IF i % 16 = 0 THEN Append(lines, [offset |-> i, hex |-> << >>, ascii |-> << >>])
             ELSE lines
      k   == i - (i % 8)
      asc == [j \in 1..(i - k + 1) |->
                IF is_printable(buffer[k + j]) THEN buffer[k + j] ELSE Ord(".")]
  IN  [ls EXCEPT ![Len(ls)].hex = @ \o Hex2(buffer[i + 1]),
                 ![Len(ls)].ascii = IF (i + 1) % 16 = 0 \/ i + 1 = size THEN asc ELSE @]

\* One pass of the loop over i: a new line at every multiple of 16, the
\* byte's two hex digits, and at the end of a line or of the dump the ASCII
\* column of buffer[i - i % 16 .. i], a dot for what is not printable.
HexDumpStep(lines, i, buffer, size) ==
  LET ls  == IF i % 16 = 0 THEN Append(lines, [offset |-> i, hex |-> << >>, ascii |-> << >>])
             ELSE lines
      k   == i - (i % 16)
      asc == [j \in 1..(i - k + 1) |->
                IF is_printable(buffer[k + j]) THEN buffer[k + j] ELSE Ord(".")]
  IN  [ls EXCEPT ![Len(ls)].hex = @ \o Hex2(buffer[i + 1]),
                 ![Len(ls)].ascii = IF (i + 1) % 16 = 0 \/ i + 1 = size THEN asc ELSE @]

\* A negative size dumps the whole buffer; a size past its end makes
\* buffer[i] raise IndexError.
hex_dump_size(buffer, size) == IF size < 0 THEN Len(buffer) ELSE size
hex_dump_raises(buffer, size) == hex_dump_size(buffer, size) > Len(buffer)

hex_dump(buffer, size) ==
  LET n == hex_dump_size(buffer, size)
  IN  FoldLeft(LAMBDA ls, i : HexDumpStep(ls, i, buffer, n), << >>, [k \in 1..n |-> k - 1])

-----------------------------------------------------------------------------
(* remove_bom, replace_non_ascii                                           *)

\* s.isspace() of a byte string: ASCII whitespace only.
Whitespace == {9, 10, 11, 12, 13, 32}
is_str_none_or_whitespace(s) == Len(s) = 0 \/ \A i \in 1..Len(s) : s[i] \in Whitespace

remove_bom(c) ==
  IF /\ ~is_str_none_or_whitespace(c)
     /\ Len(c) > 2
     /\ c[1] > 128 /\ c[2] > 128 /\ c[3] > 128
  THEN SubSeq(c, 4, Len(c))
  ELSE c

replace_non_ascii(incoming, replace_char) ==
  FlattenSeq([i \in 1..Len(incoming) |->
                IF incoming[i] > 128 THEN replace_char ELSE << incoming[i] >>])

-----------------------------------------------------------------------------
(* redact_sas_token                                                        *)
(*                                                                         *)
(* A message is a sequence of tokens: "https://", the characters "?", "=", *)
(* "&" and " ", the query keys, and words standing for runs of other       *)
(* non-space characters.  SAS_TOKEN_RE is                                  *)
(*   (https://\S+\?)((sv|st|se|sr|sp|sip|spr|sig)=\S+)+                    *)
(* (case is ignored, and the keys are single tokens here).                 *)

NoMsg    == << "None" >>   \* None: a token no message holds
Redacted == "<redacted>"
SasKeys  == {"sv", "st", "se", "sr", "sp", "sip", "spr", "sig"}

NonSpace(s, a, b) == \A j \in a..b : s[j] # " "

\* Mutation: the value of a parameter matched as [^&\s]+, ending at "&".
SasMatchEnd_amp(s, j) ==
  Min({e \in j..Len(s) + 1 : e > Len(s) \/ s[e] \in {" ", "&"}})

\* Where the match ends when the first parameter's value starts at j: the
\* greedy \S+ of the value runs to the end of the non-space run, and the +
\* finds no key after it.
SasMatchEnd(s, j) == Min({e \in j..Len(s) + 1 : e > Len(s) \/ s[e] = " "})

\* The positions q of a "?" that can end group 1 of a match starting at i:
\* https://, one or more non-space tokens, "?", a key, "=", and one or more
\* non-space tokens.
SasQuestionMarks(s, i) ==
  {q \in i + 2..Len(s) - 3 : /\ s[q] = "?" /\ s[q + 1] \in SasKeys /\ s[q + 2] = "="
                             /\ NonSpace(s, i + 1, q + 3)}

\* SAS_TOKEN_RE.sub(r'\1<redacted>', msg) scanned from position i: at the
\* leftmost position where the pattern matches, the greedy \S+ of group 1
\* backtracks to the last fitting "?", the match is replaced by group 1 and
\* <redacted>, and the scan goes on after it.
RECURSIVE sas_sub(_, _)
sas_sub(s, i) ==
  IF i > Len(s) THEN << >>
  ELSE IF s[i] = "https://" /\ SasQuestionMarks(s, i) # {}
       THEN LET q == Max(SasQuestionMarks(s, i))
            IN  SubSeq(s, i, q) \o << Redacted >> \o sas_sub(s, SasMatchEnd(s, q + 3))
       ELSE << s[i] >> \o sas_sub(s, i + 1)

redact_sas_token(msg) == IF msg = NoMsg THEN msg ELSE sas_sub(msg, 1)

-----------------------------------------------------------------------------
(* One call of a function of the module, with its argument and result.     *)

VARIABLES call, arg, result, raised
vars == <<call, arg, result, raised>>

Configs(lines) == BoundedSeq(lines, MaxLines)
Buffers == BoundedSeq(Bytes, MaxBytes)
HexStrings == BoundedSeq(HexDigits \cup {NonHex}, MaxBytes)
\* TLC's integers are 32-bit signed: a 4-byte value read either way round
\* must stay below 2^31, so its first and last bytes are below 128.
UnpackBuffers == {b \in Buffers : Len(b) < 4 \/ (b[1] < 128 /\ b[Len(b)] < 128)}

Init ==
  /\ call = "none" /\ arg = << >> /\ result = << >> /\ raised = FALSE

\* set_ssh_config(config, name, val) on the lines of sshd_config.
CallSetSshConfig ==
  /\ call = "none"
  /\ \E c \in Configs(SshLines), v \in Vals :
       /\ call' = "set_ssh_config" /\ arg' = [config |-> c, val |-> v]
       /\ \/ /\ ~set_ssh_config_raises(c)
             /\ result' = set_ssh_config(c, SshName, v) /\ raised' = FALSE
          \/ /\ set_ssh_config_raises(c)
             /\ result' = << >> /\ raised' = TRUE

\* set_ini_config(config, name, val) on the lines of an ini-style file.
CallSetIniConfig ==
  /\ call = "none"
  /\ \E c \in Configs(IniLines), v \in Vals :
       /\ call' = "set_ini_config" /\ arg' = [config |-> c, val |-> v]
       /\ result' = set_ini_config(c, IniName, v) /\ raised' = FALSE

\* unpack_little_endian / unpack_big_endian of a whole buffer, and
\* int_to_ip4_addr of the big-endian value.
CallUnpack ==
  /\ call = "none"
  /\ \E b \in UnpackBuffers :
       /\ call' = "unpack" /\ arg' = b
       /\ result' = [le |-> unpack_little_endian(b, 0, Len(b)),
                      be |-> unpack_big_endian(b, 0, Len(b)),
                      ip |-> int_to_ip4_addr(unpack_big_endian(b, 0, Len(b)))]
       /\ raised' = FALSE

\* hex_dump2(buf), read back with hexstr_to_bytearray.
CallHexDump ==
  /\ call = "none"
  /\ \E b \in Buffers :
       /\ call' = "hex_dump2" /\ arg' = b
       /\ result' = [hex |-> hex_dump2(b), bytes |-> hexstr_to_bytearray(hex_dump2(b))]
       /\ raised' = FALSE

\* hex_dump(buffer, size) with the whole buffer (size -1), all but its last
\* byte, or one byte more than it holds.
CallHexDump2 ==
  /\ call = "none"
  /\ \E b \in DumpBuffers : \E n \in {-1, Len(b) - 1, Len(b) + 1} :
       /\ call' = "hex_dump" /\ arg' = [buffer |-> b, size |-> n]
       /\ raised' = hex_dump_raises(b, n)
       /\ result' = IF hex_dump_raises(b, n) THEN << >> ELSE hex_dump(b, n)

CallSwapHexstring ==
  /\ call = "none"
  /\ \E str \in HexStrings, w \in Widths :
       /\ call' = "swap_hexstring" /\ arg' = [s |-> str, width |-> w]
       /\ result' = swap_hexstring(str, w) /\ raised' = FALSE

CallRemoveBom ==
  /\ call = "none"
  /\ \E c \in Buffers :
       /\ call' = "remove_bom" /\ arg' = c
       /\ result' = remove_bom(c) /\ raised' = FALSE

CallReplaceNonAscii ==
  /\ call = "none"
  /\ \E c \in Buffers, r \in {<< >>, << 63 >>} :
       /\ call' = "replace_non_ascii" /\ arg' = [incoming |-> c, replace_char |-> r]
       /\ result' = replace_non_ascii(c, r) /\ raised' = FALSE

CallRedactSasToken ==
  /\ call = "none"
  /\ \E msg \in SasMessages :
       /\ call' = "redact_sas_token" /\ arg' = msg
       /\ result' = redact_sas_token(msg) /\ raised' = FALSE

Next ==
  \/ CallSetSshConfig \/ CallSetIniConfig \/ CallUnpack \/ CallHexDump \/ CallHexDump2
  \/ CallSwapHexstring \/ CallRemoveBom \/ CallReplaceNonAscii \/ CallRedactSasToken

Spec == Init /\ [][Next]_vars

-----------------------------------------------------------------------------
(* Reference definitions: what a result means, written without the code.   *)

\* Line i of an sshd_config is inside a conditional Match block: a Match
\* line other than "Match all" precedes it with no "Match all" in between.
Conditional(c, i) ==
  \E j \in 1..(i - 1) : c[j].kind = "match"
                       /\ \A m \in (j + 1)..(i - 1) : c[m].kind # "match all"
IsGlobalSetting(c, i, name) ==
  c[i].kind = "option" /\ c[i].key = name /\ ~Conditional(c, i)
GlobalSettings(c, name) == {c[i].val : i \in {j \in 1..Len(c) : IsGlobalSetting(c, j, name)}}
\* The lines of c other than its global settings of name, in order.
OtherLines(c, name) ==
  LET idx == SetToSortSeq({i \in 1..Len(c) : ~IsGlobalSetting(c, i, name)}, <)
  IN  [k \in 1..Len(idx) |-> c[idx[k]]]
\* out configures name = val for every connection not matching a Match
\* block, and changes nothing else.
SshConfigured(c, out, name, val) ==
  /\ GlobalSettings(out, name) = {val}
  /\ OtherLines(out, name) = OtherLines(c, name)

\* A shell or ini reader keeps the last assignment of a name.
IniValue(c, name) ==
  LET i == SelectLastInSeq(c, LAMBDA l : l.key = name) IN IF i = 0 THEN NoVal ELSE c[i].val
NonNameLines(c, name) == SelectSeq(c, LAMBDA l : l.key # name)

\* The number a byte string denotes, most significant byte first.
ByteValue(s) == FoldSeq(+, 0, [i \in 1..Len(s) |-> s[i] * 256^(Len(s) - i)])

\* Swapping the byte order of a hex number: the number is left-padded with
\* zeros to whole groups, and group k of the result is group m - k + 1.
SwapReference(s, w) ==
  LET m      == (Len(s) + w - 1) \div w
      padded == [k \in 1..(m * w - Len(s)) |-> 0] \o s
  IN  [i \in 1..(m * w) |-> padded[(m - (i - 1) \div w - 1) * w + ((i - 1) % w) + 1]]

\* Position i of message s lies in the query of an https URL: after its
\* "?", in the same run of non-space characters.
InUrlQuery(s, i) ==
  \E h, q \in 1..i : h < q /\ q < i /\ s[h] = "https://" /\ s[q] = "?" /\ NonSpace(s, h, i)
\* The tokens of s outside every URL query, in order.
OutsideUrlQueries(s) ==
  FlattenSeq([i \in DOMAIN s |-> IF InUrlQuery(s, i) THEN << >> ELSE << s[i] >>])
\* Every URL of s has the form of a SAS URL: a single "?" in its run,
\* after the host and path, and directly followed by a SAS parameter.
SasUrlsWellFormed(s) ==
  \A h \in DOMAIN s : s[h] = "https://" =>
    \E q \in h + 2..Len(s) - 3 :
      /\ s[q] = "?" /\ s[q + 1] \in SasKeys /\ s[q + 2] = "=" /\ NonSpace(s, h, q + 3)
      /\ \A r \in h..Len(s) : NonSpace(s, h, r) /\ s[r] = "?" => r = q
\* The positions of token t in s.
Occurrences(s, t) == {i \in DOMAIN s : s[i] = t}

\* The characters a dump shows as themselves: the ASCII letters and digits.
AlnumOrds == (48..57) \cup (65..90) \cup (97..122)

-----------------------------------------------------------------------------
(* Properties                                                              *)

Calls == {"set_ssh_config", "set_ini_config", "unpack", "hex_dump2", "hex_dump", "swap_hexstring",
          "remove_bom", "replace_non_ascii", "redact_sas_token"}

\* Every result has the shape its function returns; in particular
\* swap_hexstring returns hex digits only, whatever characters s holds.
TypeOK ==
  /\ call \in Calls \cup {"none"} /\ raised \in BOOLEAN
  /\ call = "set_ssh_config" => result \in Seq(SshLines)
  /\ call = "set_ini_config" => result \in Seq(IniLines)
  /\ call = "unpack" => result.ip \in Seq(0..255)
  /\ call \in {"hex_dump2", "swap_hexstring"} =>
       \A i \in DOMAIN (IF call = "hex_dump2" THEN result.hex ELSE result) :
         (IF call = "hex_dump2" THEN result.hex ELSE result)[i] \in 0..15
  /\ call \in {"remove_bom", "replace_non_ascii"} => result \in Seq(0..255)
  /\ call = "redact_sas_token" => (result = NoMsg <=> arg = NoMsg)

\* set_ssh_config on an sshd_config that already sets name outside every
\* Match block rewrites all those settings to val and changes no other line,
\* whatever Match and "Match all" lines surround them.
SshGlobalSettingRewritten ==
  (call = "set_ssh_config" /\ GlobalSettings(arg.config, SshName) # {})
    => SshConfigured(arg.config, result, SshName, arg.val)

\* set_ssh_config on any non-empty sshd_config leaves name configured to val
\* for every connection: the code's comments place the new line "outside
\* match block" when no global setting exists.
SshSetsGlobalValue ==
  (call = "set_ssh_config" /\ ~raised) => SshConfigured(arg.config, result, SshName, arg.val)

\* set_ini_config leaves name = val for a reader that keeps the last
\* assignment, adds at most the one line and keeps every other line.
IniLastAssignmentWins ==
  call = "set_ini_config" =>
    /\ IniValue(result, IniName) = arg.val
    /\ NonNameLines(result, IniName) = NonNameLines(arg.config, IniName)
    /\ Len(result) - Len(arg.config) \in {0, 1}

\* unpack_big_endian is the number the bytes denote, unpack_little_endian
\* that of the reversed bytes, and int_to_ip4_addr of a 4-byte big-endian
\* value gives back the four bytes.
UnpackByteOrder ==
  call = "unpack" =>
    /\ result.be = ByteValue(arg)
    /\ result.le = ByteValue(Reverse(arg))
    /\ Len(arg) = 4 => result.ip = arg

\* hexstr_to_bytearray reads back exactly the bytes hex_dump2 printed, two
\* hex digits per byte.
HexDumpRoundTrip ==
  call = "hex_dump2" => Len(result.hex) = 2 * Len(arg) /\ result.bytes = arg

\* On a hex string, swap_hexstring swaps the byte order of the number it
\* denotes (left-padding it to whole groups of width digits).
SwapHexstringReversesGroups ==
  (call = "swap_hexstring" /\ \A i \in DOMAIN arg.s : IsHex(arg.s[i]))
    => result = SwapReference(arg.s, arg.width)

\* hex_dump raises exactly when size runs past the buffer; otherwise it
\* shows buffer[0:size] sixteen bytes a line, each line headed by the offset
\* of its first byte, with every byte's two hex digits and, in the ASCII
\* column of the same line, the byte itself if it is a letter or digit and
\* a dot otherwise (the last line holding what is left).
HexDumpShowsBuffer ==
  call = "hex_dump" =>
    LET n == IF arg.size < 0 THEN Len(arg.buffer) ELSE arg.size IN
    /\ raised <=> n > Len(arg.buffer)
    /\ ~raised =>
         /\ Len(result) = (n + 15) \div 16
         /\ \A l \in 1..Len(result) :
              LET bytes == SubSeq(arg.buffer, 16 * (l - 1) + 1, Min({16 * l, n})) IN
              /\ result[l].offset = 16 * (l - 1)
              /\ Len(result[l].hex) = 2 * Len(bytes)
              /\ \A k \in 1..Len(bytes) :
                   result[l].hex[2 * k - 1] * 16 + result[l].hex[2 * k] = bytes[k]
              /\ result[l].ascii =
                   [k \in 1..Len(bytes) |-> IF bytes[k] \in AlnumOrds THEN bytes[k] ELSE 46]

\* redact_sas_token on a message whose URLs have the form of SAS URLs
\* replaces the whole query of each by <redacted> and keeps every other
\* character of the message.
SasUrlQueryRedacted ==
  (call = "redact_sas_token" /\ arg # NoMsg /\ SasUrlsWellFormed(arg))
    => SelectSeq(result, LAMBDA t : t # Redacted) = OutsideUrlQueries(arg)

\* "Redact SAS tokens from the message": no signature (the value of a sig
\* parameter, the token "SIG") in the query of an https URL survives
\* redact_sas_token, and one outside every URL is kept.
SignatureRedacted ==
  (call = "redact_sas_token" /\ arg # NoMsg)
    => Cardinality(Occurrences(result, "SIG"))
         = Cardinality({i \in Occurrences(arg, "SIG") : ~InUrlQuery(arg, i)})
=============================================================================
