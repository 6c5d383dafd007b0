------------------------------ MODULE PacketV4 ------------------------------
(***************************************************************************)
(* The SeedLink v4 packet layout of src/src/v4/packet.rs as operators on   *)
(* byte sequences: the DataFormat codes, SeedLinkPacket::parse and the     *)
(* packers the server's writer (pack_info_ok, pack_info_err) and a backend *)
(* (pack_ms_record, pack_packet_with_seq_num) use.                        *)
(*                                                                         *)
(* A byte is a natural 0..255; characters are their ASCII codes.  A        *)
(* packet is "SE", two format characters, the payload length (u32, little *)
(* endian), the sequence number (u64, little endian), the station id       *)
(* length (u8), the station id and the payload.                           *)
(***************************************************************************)
EXTENDS Naturals, Sequences, SequencesExt

\* "SE": S = 83, E = 69.
SIGNATURE == <<83, 69>>

\* DataFormat::code: "2D" .. "3D", "JI", "JE" and "X " (X = 88, space = 32).
Code ==
    ("MiniSeed2xDataGeneric" :> <<50, 68>>) @@ ("MiniSeed2xEventDetection" :> <<50, 69>>)
    @@ ("MiniSeed2xCalibration" :> <<50, 67>>) @@ ("MiniSeed2xTimingException" :> <<50, 84>>)
    @@ ("MiniSeed2xLog" :> <<50, 76>>) @@ ("MiniSeed2xOpaque" :> <<50, 79>>)
    @@ ("MiniSeed3xDataGeneric" :> <<51, 68>>) @@ ("JsonSeedLinkInfo" :> <<74, 73>>)
    @@ ("JsonSeedLinkError" :> <<74, 69>>) @@ ("Xml" :> <<88, 32>>)
DataFormats == DOMAIN Code

\* DataFormat::try_from([u8; 2]) through from_str: the format whose code
\* the two bytes spell, or "invalid".
FormatFromBytes(bs) ==
    IF \E f \in DataFormats : Code[f] = bs
    THEN CHOOSE f \in DataFormats : Code[f] = bs ELSE "invalid"

\* n.to_le_bytes() for an unsigned integer of w bytes.
RECURSIVE ToLE(_, _)
ToLE(n, w) == IF w = 0 THEN <<>> ELSE <<n % 256>> \o ToLE(n \div 256, w - 1)

\* u32::from_le_bytes and u64::from_le_bytes.
FromLE(bs) == FoldRight(LAMBDA b, acc : b + 256 * acc, bs, 0)

\* buf[a..b] (0-based, b exclusive) as a 1-based subsequence.
Slice(buf, a, b) == SubSeq(buf, a + 1, b)

\* String::from_utf8 on the bytes the model uses: ASCII is valid; the
\* inputs hold no multi-byte characters.
IsUtf8(bs) == \A i \in DOMAIN bs : bs[i] < 128

Err(why) == [t |-> "err", why |-> why]
Panic == [t |-> "panic"]

\* SeedLinkPacket::parse: the checks in the code's order.  Each slice of
\* the header indexes buf without a length check, so a buffer too short for
\* the part about to be read panics; payload_raw is everything after the
\* station id, whatever len_payload says.
Parse(buf) ==
    LET n == Len(buf) IN
    IF n < 2 THEN Panic
    ELSE IF ~IsUtf8(Slice(buf, 0, 2)) THEN Err("invalid utf-8")
    ELSE IF Slice(buf, 0, 2) # SIGNATURE THEN Err("invalid packet signature")
    ELSE IF n < 4 THEN Panic
    ELSE IF FormatFromBytes(Slice(buf, 2, 4)) = "invalid" THEN Err("invalid data format code")
    ELSE IF n < 8 THEN Panic
    ELSE IF FromLE(Slice(buf, 4, 8)) = 0 THEN Err("missing packet payload")
    ELSE IF n < 17 THEN Panic
    ELSE LET lsi == buf[17] IN
         IF n < 17 + lsi THEN Panic
         ELSE IF ~IsUtf8(Slice(buf, 17, 17 + lsi)) THEN Err("invalid utf-8")
         ELSE [t |-> "ok",
               format |-> FormatFromBytes(Slice(buf, 2, 4)),
               len_payload |-> FromLE(Slice(buf, 4, 8)),
               seq_num |-> FromLE(Slice(buf, 8, 16)),
               len_sta_id |-> lsi,
               sta_id |-> Slice(buf, 17, 17 + lsi),
               payload |-> Slice(buf, 17 + lsi, n)]

\* pack_info (pack_info_ok with JsonSeedLinkInfo, pack_info_err with
\* JsonSeedLinkError): refuse an empty string, else sequence number 0 and
\* no station id.
PackInfo(s, format) ==
    IF s = <<>> THEN Err("empty string")
    ELSE [t |-> "ok",
          bytes |-> SIGNATURE \o Code[format] \o ToLE(Len(s), 4) \o ToLE(0, 8) \o <<0>> \o s]

\* pack_ms_record for a record of network net, station sta, payload
\* (<<>> for a record without raw bytes) and format version ver: the
\* station id NET_STA must fit a u8 length and be ASCII; only versions 2
\* and 3 have a format (always the generic data subformat).
PackMsRecord(net, sta, payload, ver, seq) ==
    LET netSta == net \o <<95>> \o sta IN
    IF Len(netSta) > 255 THEN Err("station identifier too large")
    ELSE IF \E i \in DOMAIN netSta : netSta[i] >= 128
         THEN Err("station identifier contains non-ASCII characters")
    ELSE IF payload = <<>> THEN Err("missing payload")
    ELSE IF ver \notin {2, 3} THEN Err("unknown data format")
    ELSE [t |-> "ok",
          bytes |-> SIGNATURE
                    \o Code[IF ver = 2 THEN "MiniSeed2xDataGeneric" ELSE "MiniSeed3xDataGeneric"]
                    \o ToLE(Len(payload), 4) \o ToLE(seq, 8) \o <<Len(netSta)>> \o netSta
                    \o payload]

\* pack_packet_with_seq_num: splice the new number over bytes 8..16; the
\* splice panics on a packet shorter than that.
PackWithSeqNum(bytes, seq) ==
    IF Len(bytes) < 16 THEN Panic
    ELSE [t |-> "ok", bytes |-> Slice(bytes, 0, 8) \o ToLE(seq, 8) \o Slice(bytes, 16, Len(bytes))]
====
