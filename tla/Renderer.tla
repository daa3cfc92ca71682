------------------------------ MODULE Renderer ------------------------------
(***************************************************************************)
(* Drawing (cc/backend/graphics/graphics_controller.cc, vram_segment.h):   *)
(* the screen buffer is painted layer over layer, each tile pixel written  *)
(* to a linear index of 256 times 256 bytes.  An operator gives the byte   *)
(* at one index of the buffer after a layer, from the byte below it.  The  *)
(* contents m of memory map the bytes that are not zero.                   *)
(***************************************************************************)
EXTENDS Bytes, MemoryMap

CONSTANT kAttributeNumber   \* sprites in OAM: 40

ASSUME AttributeAssumption == kAttributeNumber \in 0 .. 40

kScreenBufferSize == 256
kTileSize == 8

At(m, cell) == IF cell \in DOMAIN m THEN m[cell] ELSE 0
FlagAt(m, address) == At(m, <<"flag", address>>)
Raw(m, index) == At(m, <<"raw_tile_data", index>>)

(* LCDControl, a bit by its weight: 128 for the display, 64 for the upper   *)
(* map of the window, 32 for the window, 16 for the lower tile data, 8 for  *)
(* the upper map of the background, 2 for the sprites, 1 for the background.*)
LCDControl(m, weight) == NthBit(FlagAt(m, \hFF40), weight) = 1

(* TileReflectedX and TileReflectedY.                                       *)
ReflectedX(x) == kTileSize - 1 - x
ReflectedY(y) == kTileSize - 1 - y

(* ConcreteTile::Get: two bytes a row, a bit of each to a pixel.            *)
Get(m, tile, y, x) ==
  NthBit(Raw(m, 16 * tile + 2 * y), 2 ^ x) + 2 * NthBit(Raw(m, 16 * tile + 2 * y + 1), 2 ^ x)

(* TileData::tile: a number from the map is signed in the upper tile data,  *)
(* whose tiles are counted from the same first byte as the lower.           *)
TileNumber(upper, value) == IF upper THEN Wrap8(Signed(value) + 128) ELSE value

(* MonochromePalette::lookup, as a byte of the buffer.                      *)
Realized(m, palette, index) == 64 * ((FlagAt(m, palette) \div 4 ^ index) % 4)

(* RenderTile, at index i.  The offsets are unsigned chars, but the sum is  *)
(* not: a tile that leaves a row of the buffer enters the next.  Only an    *)
(* object's colour zero is NONE.                                            *)
RenderTile(m, tile, flip, y_offset, x_offset, palette, below, i) ==
  LET d == i - x_offset - y_offset * kScreenBufferSize
      x == d % kScreenBufferSize
      y == d \div kScreenBufferSize
      color_index == Get(m, tile, IF flip.y THEN ReflectedY(y) ELSE y,
                         IF flip.x THEN ReflectedX(ReflectedX(x)) ELSE ReflectedX(x))
      none == palette # \hFF47 /\ color_index = 0
  IN  IF d >= 0 /\ x < kTileSize /\ y < kTileSize /\ ~none
      THEN Realized(m, palette, color_index) ELSE below

NoFlip == [x |-> FALSE, y |-> FALSE]

-----------------------------------------------------------------------------
(* SpriteAttribute: four bytes of OAM.                                      *)
SpriteAttribute(m, k) == [field \in 0 .. 3 |-> At(m, <<"oam", 4 * k + field>>)]

(* Mutant: the priority of a sprite is not looked at.                       *)
over_background_Any(sprite) == TRUE

over_background(sprite) == NthBit(sprite[3], 128) = 1

RenderSprite(m, sprite, below, i) ==
  RenderTile(m, sprite[2], [x |-> NthBit(sprite[3], 32) = 1, y |-> NthBit(sprite[3], 64) = 1],
             sprite[0], sprite[1],
             IF NthBit(sprite[3], 16) = 1 THEN \hFF49 ELSE \hFF48, below, i)

(* RenderLowPrioritySprites, RenderHighPrioritySprites: in the order of OAM.*)
RenderSprites(m, high, below, i) ==
  LET painted[k \in 0 .. kAttributeNumber] ==
        IF k = 0 THEN below
        ELSE LET sprite == SpriteAttribute(m, k - 1) IN
             IF over_background(sprite) = high
             THEN RenderSprite(m, sprite, painted[k - 1], i) ELSE painted[k - 1]
  IN  IF LCDControl(m, 2) THEN painted[kAttributeNumber] ELSE below

(* The tile of a map at (y, x) painted there, offset by y_offset, x_offset. *)
RenderMapped(m, upper_map, upper_tiles, y, x, y_offset, x_offset, below, i) ==
  LET map == IF upper_map THEN "upper_background_map" ELSE "lower_background_map"
      value == At(m, <<map, x + y * 32>>)
  IN  RenderTile(m, TileNumber(upper_tiles, value), NoFlip,
                 y * kTileSize + y_offset, x * kTileSize + x_offset, \hFF47, below, i)

RenderBackground(m, below, i) ==
  LET row == i \div kScreenBufferSize
      column == i % kScreenBufferSize
  IN  IF LCDControl(m, 1)
      THEN RenderMapped(m, LCDControl(m, 8), ~LCDControl(m, 16),
                        row \div kTileSize, column \div kTileSize, 0, 0, below, i)
      ELSE below

(* The window takes the tile data the background does not.  It is offset by *)
(* the scroll as well, and has the tiles that fit into the buffer.          *)
RenderWindow(m, below, i) ==
  LET y_offset == FlagAt(m, \hFF4A) + FlagAt(m, \hFF42)
      x_offset == FlagAt(m, \hFF4B) + 7 + FlagAt(m, \hFF43)
      y == ((i \div kScreenBufferSize) - y_offset) \div kTileSize
      x == ((i % kScreenBufferSize) - x_offset) \div kTileSize
      Fits(k, offset) ==
        /\ k >= 0 /\ offset <= kScreenBufferSize
        /\ k < (kScreenBufferSize - offset) \div kTileSize
  IN  IF LCDControl(m, 32) /\ Fits(y, y_offset) /\ Fits(x, x_offset)
      THEN RenderMapped(m, LCDControl(m, 64), LCDControl(m, 16), y, x, y_offset, x_offset, below, i)
      ELSE below

(* Draw, before the screen is written: layer over layer, from black.        *)
ScreenBuffer(m, i) ==
  RenderSprites(m, TRUE,
    RenderWindow(m, RenderBackground(m, RenderSprites(m, FALSE, 0, i), i), i), i)

(* WriteToScreen: the index that pixel (x, y) is taken from.                *)
ScreenIndex(m, x, y) ==
  (x + FlagAt(m, \hFF43)) + (y + FlagAt(m, \hFF42)) * kScreenBufferSize
=============================================================================
