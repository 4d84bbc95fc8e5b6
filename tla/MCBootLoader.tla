---------------------------- MODULE MCBootLoader ----------------------------
(***************************************************************************)
(* Small RAM around a full-size boot-info record.  Addresses and published *)
(* values are small because TLC's integers end at 2^31 - 1.                *)
(***************************************************************************)
EXTENDS BootLoader, SequencesExt, FiniteSetsExt

\* The bytes of a list of 32-bit words.
Bytes(words) == FlattenSeq([k \in 1 .. Len(words) |-> [n \in 1 .. 4 |-> ByteOf(words[k], n - 1)]])

Segment32(data, paddr, file, mem) == <<data, paddr, 0, file, mem, 0, 0, 0>>

\* Header, kernel table at 32, contents after it.
Image(records, contents) ==
  LET n     == Len(records)
      size  == 32 + 32 * n + Len(contents)
      bytes == Bytes(<<0, 0, size, 32, n, 200, 1, 0>> \o FlattenSeq(records)) \o contents
  IN  [a \in 0 .. size - 1 |-> bytes[a + 1]]

Contents == <<17, 34, 0, 127, 51, 68>>

\* initialized_data at 80..83, zeroed_bss at 84..85; one segment, two in
\* either order, a pure BSS segment and an empty one.
MCImages ==
  { Image(<<Segment32(64, 80, 4, 6)>>, Contents),
    Image(<<Segment32(96, 80, 4, 6), Segment32(100, 2, 2, 5)>>, Contents),
    Image(<<Segment32(128, 2, 0, 3), Segment32(128, 80, 4, 6), Segment32(132, 9, 0, 0)>>, Contents) }

MCInitialRam == {[a \in RamAddrs |-> v] : v \in {0, 165}}

MCDataValue == 17 + 256 * 34 + 16777216 * 127
MCBssAddrs  == {84, 85}
=============================================================================
