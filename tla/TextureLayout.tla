--------------------------- MODULE TextureLayout ---------------------------
(***************************************************************************)
(* Where the mip levels of a relocated texture lie in its section          *)
(* (texture/mip_layout.h), where LockRect points the game                  *)
(* (src/resettable_texture.cpp), and what the ledger counts for the        *)
(* texture (diag/texture_size.h). Sizes are in bytes, extents in pixels.   *)
(***************************************************************************)
EXTENDS Naturals

(* A texture: width, height, levels, and the bytes of a 4x4 block, 8 for   *)
(* DXT1 and 16 for the other compressed formats. A rect: left, top, right  *)
(* and bottom, the last two exclusive.                                     *)
BlockExtent == 4

AtLeastOne(n) == IF n = 0 THEN 1 ELSE n
HalfExtent(n) == AtLeastOne(n \div 2)

(* Fault: a last block that is not whole is left out.                      *)
BlocksWhole(pixels) == AtLeastOne(pixels) \div BlockExtent

BlocksFor(pixels) == (AtLeastOne(pixels) + BlockExtent - 1) \div BlockExtent

(* The extent of a texture in levels 0 to n, each half of the one before.  *)
Halvings(extent, n) ==
  LET Extent[l \in 0..n] == IF l = 0 THEN AtLeastOne(extent) ELSE HalfExtent(Extent[l - 1])
  IN  Extent

(* Where blocks of the given sizes begin when they follow each other; the  *)
(* last is where they end.                                                 *)
Starts(sizes, n) ==
  LET Start[l \in 0..n] == IF l = 0 THEN 0 ELSE Start[l - 1] + sizes[l - 1]
  IN  Start

(* append_mip_levels: extents, pitch, rows and offset of every level, and  *)
(* after the last one the offset at which the section ends.                *)
MipLevels(s) ==
  LET width    == Halvings(s.width, s.levels)
      height   == Halvings(s.height, s.levels)
      Pitch(l) == BlocksFor(width[l]) * s.block
      Rows(l)  == BlocksFor(height[l])
      offset   == Starts([l \in 0..(s.levels - 1) |-> Pitch(l) * Rows(l)], s.levels)
  IN  [l \in 0..s.levels |->
        [width |-> width[l], height |-> height[l], pitch |-> Pitch(l), rows |-> Rows(l), offset |-> offset[l]]]

MappingSize(s) == MipLevels(s)[s.levels].offset
LevelBytes(level) == level.pitch * level.rows

(* LockRect: the rect lies in the level, and the address handed out.       *)
Lockable(level, rect) ==
  /\ rect.left < rect.right /\ rect.right <= level.width
  /\ rect.top < rect.bottom /\ rect.bottom <= level.height
LockedAt(s, level, rect) ==
  level.offset + (rect.top \div BlockExtent) * level.pitch + (rect.left \div BlockExtent) * s.block

(* texture_bytes, for one face of a compressed format: what the ledger     *)
(* counts for a texture that was asked for with so many levels. None means *)
(* all, which are as many as it takes to halve the larger extent to one.   *)
CountedBytes(width, height, block) ==
  ((AtLeastOne(width) + 3) \div 4) * ((AtLeastOne(height) + 3) \div 4) * block

ChainLength(s) ==
  LET largest == AtLeastOne(IF s.width > s.height THEN s.width ELSE s.height)
      Length[n \in 1..largest] == IF n = 1 THEN 1 ELSE Length[n \div 2] + 1
  IN  Length[largest]

TextureBytes(s, asked) ==
  LET levels == IF asked = 0 THEN ChainLength(s) ELSE asked
      width  == Halvings(s.width, levels)
      height == Halvings(s.height, levels)
  IN  Starts([l \in 0..(levels - 1) |-> CountedBytes(width[l], height[l], s.block)], levels)[levels]

-----------------------------------------------------------------------------
(* What the game touches of a locked rect that begins at a block: as many  *)
(* rows of blocks as it has, each a pitch after the one before.            *)
Touched(s, level, rect) ==
  LET rows  == BlocksFor(rect.bottom - rect.top)
      bytes == BlocksFor(rect.right - rect.left) * s.block
      first == LockedAt(s, level, rect)
  IN  {[from |-> first + r * level.pitch, to |-> first + r * level.pitch + bytes] : r \in 0..(rows - 1)}

Rects(level) ==
  {r \in [left : {4 * i : i \in 0..(level.width \div 4)}, top : {4 * i : i \in 0..(level.height \div 4)},
          right : 1..level.width, bottom : 1..level.height] : Lockable(level, r)}

(* All levels: what a driver makes of a texture when asked for none.       *)
Complete(s) ==
  \A l \in 0..(s.levels - 1) :
    (MipLevels(s)[l].width = 1 /\ MipLevels(s)[l].height = 1) <=> l = s.levels - 1

(* The levels of a texture tile its section, the game never touches a byte *)
(* of another level or another row through a lock, whatever the extents,   *)
(* and the ledger counts the texture at the section's size, whether it was *)
(* asked for with a number of levels or with all.                          *)
LayoutSound(s) ==
  LET levels == MipLevels(s) IN
    /\ TextureBytes(s, s.levels) = MappingSize(s)
    /\ Complete(s) => TextureBytes(s, 0) = MappingSize(s)
    /\ \A l \in 0..(s.levels - 1) :
         LET level == levels[l]
             end   == level.offset + LevelBytes(level)
         IN  /\ LevelBytes(level) > 0 /\ end = levels[l + 1].offset
             /\ \A rect \in Rects(level) : \A b \in Touched(s, level, rect) :
                  /\ level.offset <= b.from /\ b.to <= end
                  /\ (b.from - level.offset) \div level.pitch = (b.to - 1 - level.offset) \div level.pitch
=============================================================================
