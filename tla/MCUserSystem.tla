---------------------------- MODULE MCUserSystem ----------------------------
(***************************************************************************)
(* Pages of four bytes, instructions of two, 6-bit words.  User space is   *)
(* the three pages 8..19, the pool has two frames, the image 24 bytes.     *)
(***************************************************************************)
EXTENDS UserSystem

MCRom == [o \in 0 .. 47 |-> o + 1]

Seg(v, m, f, fl, d) == [vaddr |-> v, memory_size |-> m, file_size |-> f, flags |-> fl, data_offset |-> d]

Mod(segs, entry) ==
  [named |-> TRUE, name_offset |-> 0, name_length |-> 4, segment_table_offset |-> 8,
   segments |-> segs, entry |-> entry]

RX == {"r", "x"}
RW == {"r", "w"}

\* One segment, every field at and around its limits: also sums that wrap.
Singles ==
  {Mod(<<Seg(v, m, f, fl, d)>>, e) :
     v \in {7, 8, 10, 18, 19, 20}, m \in {0, 2, 9, 12, 13, 54, 60}, f \in {0, 2, 9, 13},
     fl \in {RX, {"x"}, {"r", "unknown"}}, d \in {0, 15, 22, 25, 62}, e \in {8, 9, 12, 18}}

\* Two segments that are apart, adjacent, on one page or overlapping.
Pairs ==
  {Mod(<<Seg(8, m, f, RX, 3), Seg(v, n, g, fl, 9)>>, 8) :
     m \in {2, 5}, f \in {2}, v \in {8, 9, 10, 11, 12, 14, 16}, n \in {1, 3, 4, 6}, g \in {0, 1, 3}, fl \in {RX, RW}}

Good == Mod(<<Seg(10, 4, 2, RX, 20)>>, 10)
Bare == Mod(<<>>, 8)

Info(ok, size, table, mods) ==
  [ok |-> ok, image_size |-> size, module_table_offset |-> table, modules |-> mods]

MCBootInfos ==
  {Info(TRUE, 24, 8, <<m>>) : m \in Singles \cup Pairs}
  \cup {Info(ok, size, table, <<Good>>) : ok \in BOOLEAN, size \in {0, 8, 21, 22, 24, 32, 33, 40}, table \in {0, 20, 25, 62}}
  \cup {Info(TRUE, 24, 0, mods) :
          mods \in {<<>>, <<Bare>>, <<[Good EXCEPT !.named = FALSE]>>, <<[Good EXCEPT !.name_offset = 21], Good>>,
                    <<[Good EXCEPT !.named = FALSE], Good, Bare>>, <<[Good EXCEPT !.segment_table_offset = 21]>>}}
=============================================================================
