------------------------------ MODULE TonAddress ------------------------------
(***************************************************************************)
(* internal/tonaddr/tonaddr.go: the texts that name a TON account, parsing *)
(* them and writing the canonical one.  A text is a record of what the     *)
(* parser tells apart, not of its characters:                              *)
(*                                                                         *)
(*   raw       the number before the colon, the hash after it (BadHash     *)
(*             when it is not 64 hex digits);                              *)
(*   friendly  the base64 alphabet, then the decoded bytes: tag, workchain,*)
(*             hash and checksum;                                          *)
(*   Garbage   anything else: neither alphabet, or not 36 bytes.           *)
(*                                                                         *)
(* TrimSpace and upper or lower case hex are left out: a text stands for   *)
(* all its paddings.                                                       *)
(***************************************************************************)
EXTENDS Integers

CONSTANTS
  Hashes,     \* account identifiers
  BadHash,    \* not 64 hex digits
  Garbage     \* a text that is neither form

Invalid == [error |-> TRUE]

tagBounceable    == 17    \* 0x11
tagNonBounceable == 81    \* 0x51
tagTestnet       == 128   \* 0x80

\* CRC-16 over the first 34 bytes: taken to tell any two of them apart.
crc16(tag, wc, hash) == <<tag, wc, hash>>

Friendly(alphabet, tag, wc, hash, crc) ==
  [form |-> "friendly", alphabet |-> alphabet, tag |-> tag, wc |-> wc,
   hash |-> hash, crc |-> crc]

Raw(wc, hash) == [form |-> "raw", wc |-> wc, hash |-> hash]

\* A text somebody may hand in: 36 decoded bytes have room for any tag, workchain
\* and checksum.
IsText(s) ==
  \/ s = Garbage
  \/ s = Raw(s.wc, s.hash) /\ s.wc \in Int /\ s.hash \in Hashes \cup {BadHash}
  \/ /\ s = Friendly(s.alphabet, s.tag, s.wc, s.hash, s.crc)
     /\ s.alphabet \in {"url", "std"} /\ s.tag \in 0 .. 255 /\ s.wc \in 0 .. 255
     /\ s.hash \in Hashes

-----------------------------------------------------------------------------
\* raw carries no flags.
parseRaw(s) ==
  IF s.wc \in {0, -1} /\ s.hash # BadHash
  THEN [wc |-> s.wc, hash |-> s.hash, bounceable |-> TRUE, testnet |-> FALSE]
  ELSE Invalid

parseFriendly(s) ==
  IF /\ s.tag % tagTestnet \in {tagBounceable, tagNonBounceable}
     /\ s.wc \in {0, 255}
     /\ s.crc = crc16(s.tag, s.wc, s.hash)
  THEN [wc |-> IF s.wc = 255 THEN -1 ELSE 0, hash |-> s.hash,
        bounceable |-> s.tag % tagTestnet = tagBounceable, testnet |-> s.tag >= tagTestnet]
  ELSE Invalid

Parse(s) ==
  IF s = Garbage THEN Invalid
  ELSE IF s.form = "raw" THEN parseRaw(s)
  ELSE parseFriendly(s)

\* The canonical text of an address: url-safe, the bounceable flag kept.
String(a) ==
  LET tag == (IF a.bounceable THEN tagBounceable ELSE tagNonBounceable)
               + (IF a.testnet THEN tagTestnet ELSE 0)
      wc  == IF a.wc = -1 THEN 255 ELSE 0
  IN  Friendly("url", tag, wc, a.hash, crc16(tag, wc, a.hash))

\* Normalize with the network check, which a raw text passes on either network.
NormalizeOnNetwork(s, wantTestnet) ==
  IF \/ Parse(s) = Invalid
     \/ s.form # "raw" /\ Parse(s).testnet # wantTestnet
  THEN Invalid
  ELSE String(Parse(s))

\* The account an address text names.
Account(s) == <<Parse(s).wc, Parse(s).hash>>

Tags == {t + n : t \in {tagBounceable, tagNonBounceable}, n \in {0, tagTestnet}}

\* Reference: every well-formed text, the ones Parse is to accept.
Spellings ==
  {Raw(wc, h) : wc \in {0, -1}, h \in Hashes}
  \cup {Friendly(a, t, wc, h, crc16(t, wc, h)) :
          a \in {"url", "std"}, t \in Tags, wc \in {0, 255}, h \in Hashes}

ASSUME TextAssumption == Garbage \notin Spellings /\ BadHash \notin Hashes
=============================================================================
