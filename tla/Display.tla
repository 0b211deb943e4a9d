------------------------------- MODULE Display -------------------------------
(***************************************************************************)
(* From an access of the guest to the picture on the host: the dispatch of *)
(* a physical address to memory or to a mapped device (memory/memory.c,    *)
(* device/io/mm_io.c), the video memory with its dirty lines and the       *)
(* palette (device/dev/vga.c), and the GPU that copies rectangles of       *)
(* surfaces for the guest (device/dev/gpu.c, called by SDL_BlitSurface of  *)
(* game/src/nemu-pal/hal/video.c).                                         *)
(*                                                                         *)
(* Physical memory: LOW bytes, the mapped region, HIGH bytes.  The region  *)
(* starts with ROW lines of COL pixels and has HIDDEN more bytes (0xa0000, *)
(* 200 lines of 320, 67072 bytes).  LOW holds one surface of the guest,    *)
(* two pixels wide.  A word is a sequence of bytes.                        *)
(***************************************************************************)
EXTENDS Integers, Sequences, FiniteSetsExt, SequencesExt

CONSTANTS LOW, COL, ROW, HIDDEN, HIGH,
          Byte,            \* values of a byte of memory
          Lens,            \* lengths of an access (1, 2 and 4)
          Colors, NCOLOR   \* values of a component of a colour; entries of the palette

REGION == ROW * COL + HIDDEN
MEM_SIZE_B == LOW + REGION + HIGH + 1
MMIO_SPACE_MAX == REGION + Max(Lens)
Addr == 0 .. MEM_SIZE_B - 1
Line == 0 .. ROW - 1
Pixel == 0 .. ROW * COL - 1    \* bytes of the region that are on the screen
NR_PAL == NCOLOR * 4       \* bytes of palette: r, g, b and one that is skipped

ASSUME SizeAssumption == /\ {LOW, HIDDEN, HIGH} \subseteq Nat
                         /\ {COL, ROW, NCOLOR} \subseteq Nat \ {0}
                         /\ Lens \subseteq 1 .. LOW + REGION + HIGH /\ Lens # {}
ASSUME ByteAssumption == 0 \in Byte /\ Colors \subseteq 0 .. 255

VARIABLES hw_mem, mmio_space_pool,
          vmem_dirty, line_dirty,
          vga_active,
          shown,           \* the lines of the window of the host
          palette, color_ptr,   \* bytes of the palette, and the next one to write
          applied,         \* the palette that was passed to SDL_SetPalette
          todo,            \* of write_palette: the colour and the bytes left to write
          want,            \* history: memory as one array of bytes
          missed,          \* history: pixels written behind the line that was marked
          intended         \* history: the palette last loaded completely

bus == <<hw_mem, mmio_space_pool, vmem_dirty, line_dirty, want, missed>>
dac == <<palette, color_ptr, applied, todo, intended>>
dvars == <<bus, dac, vga_active, shown>>

\* The types of the memory, of the dirty lines and of the palette port: the index of
\* the palette stays inside the table.
DTypeOK == /\ hw_mem \in [Addr -> Byte]
          /\ mmio_space_pool \in [0 .. MMIO_SPACE_MAX - 1 -> Byte]
          /\ {vmem_dirty, vga_active} \subseteq BOOLEAN
          /\ line_dirty \in [Line -> BOOLEAN]
          /\ shown \in [Line -> [0 .. COL - 1 -> Byte]]
          /\ want \in [Addr -> Byte] /\ missed \subseteq Pixel
          /\ palette \in [0 .. NR_PAL - 1 -> 0 .. 255]
          /\ color_ptr \in 0 .. NR_PAL
          /\ todo \in Colors \X (0 .. 3 * NCOLOR)

-----------------------------------------------------------------------------
(* The bus.  State is a record so that the GPU can write byte after byte.  *)
Bus == [hw |-> hw_mem, io |-> mmio_space_pool, dirty |-> vmem_dirty, lines |-> line_dirty]

InRange(a, len) == a + len < MEM_SIZE_B

\* The one mapped region, by the first byte of the access.
IsMmio(a) == a >= LOW /\ a < LOW + REGION

\* The callback of the region: the line of the first byte is marked.
VgaVmemIoHandlerLate(a, s) ==   \* mutant: the last line is not marked
    LET line == (a - LOW) \div COL IN
    IF line < ROW - 1 THEN [s EXCEPT !.lines[line] = TRUE, !.dirty = TRUE] ELSE s
VgaVmemIoHandler(a, s) ==
    LET line == (a - LOW) \div COL IN
    IF line < ROW THEN [s EXCEPT !.lines[line] = TRUE, !.dirty = TRUE] ELSE s

PaddrRead(a, len, s) ==
    [k \in 1 .. len |-> IF IsMmio(a) THEN s.io[a - LOW + k - 1] ELSE s.hw[a + k - 1]]

Put(f, at, data) == [x \in DOMAIN f |-> IF x \in at .. at + Len(data) - 1
                                        THEN data[x - at + 1] ELSE f[x]]

PaddrWrite(a, data, s) ==
    IF IsMmio(a) THEN VgaVmemIoHandler(a, [s EXCEPT !.io = Put(s.io, a - LOW, data)])
    ELSE [s EXCEPT !.hw = Put(s.hw, a, data)]

SetBus(s) == /\ hw_mem' = s.hw /\ mmio_space_pool' = s.io
             /\ vmem_dirty' = s.dirty /\ line_dirty' = s.lines

\* The bytes of an access that lie in the region if the first one does, and outside
\* of it if that one does: those behind an end of the region are elsewhere.
Reached(a, len) == {x \in a .. a + len - 1 : IsMmio(x) <=> IsMmio(a)}

\* The pixels of a write that are in another line than its first byte.
Behind(a, len) ==
    {x \in Pixel : /\ IsMmio(a) /\ x + LOW \in a .. a + len - 1
                   /\ x \div COL # (a - LOW) \div COL}

GuestWrite(a, data) ==
    LET len == Len(data) IN
    /\ InRange(a, len)
    /\ SetBus(PaddrWrite(a, data, Bus))
    /\ want' = [x \in Addr |-> IF x \in Reached(a, len) THEN data[x - a + 1] ELSE want[x]]
    /\ missed' = missed \union Behind(a, len)
    /\ UNCHANGED <<dac, vga_active, shown>>

-----------------------------------------------------------------------------
(* Blits between the screen and the surface in LOW.                        *)
Surface == {[pixels |-> 0, w |-> 2, h |-> LOW \div 2],
            [pixels |-> LOW, w |-> COL, h |-> ROW]}
Place == [x : 0 .. 1, y : 0 .. 1]
Rect == [x : 0 .. 1, y : 0 .. 1, w : 1 .. 2, h : 1 .. 2]
Corner(r) == [x |-> r.x, y |-> r.y]
Within(r, s) == r.x + r.w <= s.w /\ r.y + r.h <= s.h

\* SDL_BlitSurface: the size is clipped against the destination ...
ClippedRect(r, dst, at) == [r EXCEPT !.w = Min({r.w, dst.w - at.x}),
                                     !.h = Min({r.h, dst.h - at.y})]

\* ... and gpu_cmd_handler copies the pixels, row by row, one byte at a time.  The
\* position in the destination is the one in the source: dst_rect is not used.
Pixels(r) == [n \in 1 .. r.w * r.h |->
                 [x |-> r.x + ((n - 1) % r.w), y |-> r.y + (n - 1) \div r.w]]
PixelAt(s, x, y) == s.pixels + y * s.w + x
GpuCmdTransposed(src, r, dst) ==   \* mutant: rows and columns of the source are exchanged
    LET after[n \in 0 .. r.w * r.h] ==
            IF n = 0 THEN Bus
            ELSE LET p == Pixels(r)[n] IN
                 PaddrWrite(PixelAt(dst, p.x, p.y),
                            PaddrRead(PixelAt(src, p.y, p.x), 1, after[n - 1]), after[n - 1])
    IN after[r.w * r.h]
GpuCmd(src, r, dst) ==
    LET after[n \in 0 .. r.w * r.h] ==
            IF n = 0 THEN Bus
            ELSE LET p == Pixels(r)[n] IN
                 PaddrWrite(PixelAt(dst, p.x, p.y),
                            PaddrRead(PixelAt(src, p.x, p.y), 1, after[n - 1]), after[n - 1])
    IN after[r.w * r.h]

\* The same loop on one array of bytes: the surfaces may overlap, since a rectangle
\* that fits where it is asked for may not fit where it goes.
Meant(src, r, dst) ==
    LET after[n \in 0 .. r.w * r.h] ==
            IF n = 0 THEN want
            ELSE LET p == Pixels(r)[n] IN
                 [after[n - 1] EXCEPT ![PixelAt(dst, p.x, p.y)] =
                                          after[n - 1][PixelAt(src, p.x, p.y)]]
    IN after[r.w * r.h]

\* at is the corner of dst_rect.  A byte outside of the memory stops the machine.
Blit(src, rect, dst, at) ==
    LET r == ClippedRect(rect, dst, at) IN
    /\ src # dst /\ Within(rect, src) /\ at.x < dst.w /\ at.y < dst.h
    /\ \A n \in DOMAIN Pixels(r) : InRange(PixelAt(dst, Pixels(r)[n].x, Pixels(r)[n].y), 1)
    /\ SetBus(GpuCmd(src, r, dst))
    /\ want' = Meant(src, r, dst)
    /\ UNCHANGED <<missed, dac, vga_active, shown>>

-----------------------------------------------------------------------------
(* do_vga, once its interval has passed: update_screen.                    *)
UpdateScreenClearsFirst ==   \* mutant: the marks of the lines are cleared before drawing
    /\ vga_active /\ vmem_dirty
    /\ line_dirty' = [l \in Line |-> FALSE]
    /\ shown' = [l \in Line |-> [c \in 0 .. COL - 1 |->
                    IF line_dirty'[l] THEN mmio_space_pool[l * COL + c] ELSE shown[l][c]]]
    /\ vmem_dirty' = FALSE
    /\ missed' = {x \in missed : ~line_dirty'[x \div COL]}
    /\ UNCHANGED <<hw_mem, mmio_space_pool, want, dac, vga_active>>
UpdateScreen ==
    /\ vga_active /\ vmem_dirty
    /\ shown' = [l \in Line |-> [c \in 0 .. COL - 1 |->
                    IF line_dirty[l] THEN mmio_space_pool[l * COL + c] ELSE shown[l][c]]]
    /\ vmem_dirty' = FALSE /\ line_dirty' = [l \in Line |-> FALSE]
    /\ missed' = {x \in missed : ~line_dirty[x \div COL]}
    /\ UNCHANGED <<hw_mem, mmio_space_pool, want, dac, vga_active>>

\* vga_close, when the machine stops.
VgaClose == /\ vga_active' = FALSE /\ vmem_dirty' = FALSE
            /\ UNCHANGED <<hw_mem, mmio_space_pool, line_dirty, want, missed, dac, shown>>

-----------------------------------------------------------------------------
(* write_palette of the guest and vga_dac_io_handler: every component of   *)
(* all colours is c, the index is 0.                                       *)
WritePaletteNoIndex(c) ==   \* mutant: the index is not taken over
    /\ todo[2] = 0
    /\ todo' = <<c, 3 * NCOLOR>>
    /\ UNCHANGED <<palette, color_ptr, applied, intended, bus, vga_active, shown>>
WritePalette(c) == /\ todo[2] = 0
                   /\ todo' = <<c, 3 * NCOLOR>>
                   /\ color_ptr' = 0
                   /\ UNCHANGED <<palette, applied, intended, bus, vga_active, shown>>

\* One byte, shifted right by the guest and left by the device.  The fourth byte
\* of an entry is skipped, and after the last entry the palette takes effect.
DacDataNoSkip ==   \* mutant: the unused byte of an entry is not skipped
    LET written == [palette EXCEPT ![color_ptr] = ((todo[1] \div 4) * 4) % 256]
        done == color_ptr + 1 = NR_PAL
    IN /\ todo[2] > 0
       /\ palette' = written
       /\ color_ptr' = color_ptr + 1
       /\ applied' = IF done THEN written ELSE applied
       /\ todo' = [todo EXCEPT ![2] = @ - 1]
       /\ intended' = IF todo[2] = 1 THEN todo[1] ELSE intended
       /\ UNCHANGED <<bus, vga_active, shown>>
DacData ==
    LET written == [palette EXCEPT ![color_ptr] = ((todo[1] \div 4) * 4) % 256]
        next == color_ptr + (IF (color_ptr + 1) % 4 = 3 THEN 2 ELSE 1)
    IN /\ todo[2] > 0
       /\ palette' = written
       /\ color_ptr' = next
       /\ applied' = IF next = NR_PAL THEN written ELSE applied
       /\ todo' = [todo EXCEPT ![2] = @ - 1]
       /\ intended' = IF todo[2] = 1 THEN todo[1] ELSE intended
       /\ UNCHANGED <<bus, vga_active, shown>>

-----------------------------------------------------------------------------
DInit == /\ hw_mem = [a \in Addr |-> 0]
        /\ mmio_space_pool = [x \in 0 .. MMIO_SPACE_MAX - 1 |-> 0]
        /\ vmem_dirty = FALSE /\ line_dirty = [l \in Line |-> FALSE]
        /\ vga_active = TRUE
        /\ shown = [l \in Line |-> [c \in 0 .. COL - 1 |-> 0]]
        /\ palette = [x \in 0 .. NR_PAL - 1 |-> 0] /\ applied = palette
        /\ color_ptr = 0
        /\ todo \in Colors \X {0} /\ intended = 0
        /\ want = hw_mem /\ missed = {}

DNext == /\ vga_active
        /\ \/ \E len \in Lens : \E data \in [1 .. len -> Byte], a \in Addr : GuestWrite(a, data)
           \/ \E src, dst \in Surface, rect \in Rect, at \in Place :
                 Blit(src, rect, dst, at)
           \/ UpdateScreen \/ VgaClose
           \/ \E c \in Colors : WritePalette(c)
           \/ DacData

DSpec == DInit /\ [][DNext]_dvars

\* do_devices polls do_vga in every pass of the loop, and its interval passes.
DFairSpec == DSpec /\ WF_dvars(UpdateScreen)

-----------------------------------------------------------------------------
(* Properties.                                                             *)

\* Whatever was written, by the guest or by the GPU for it, is read back, by
\* accesses of every length: memory and the mapped region together behave as one
\* array of bytes, although is_mmio looks at the first byte of an access only.  Of an
\* access over an end of the region this is said of the bytes before the end: those
\* behind it go to the memory under the region, or to what follows it in the pool.
ReadsBack == \A a \in Addr, len \in Lens :
    InRange(a, len) =>
        \A x \in Reached(a, len) : PaddrRead(a, len, Bus)[x - a + 1] = want[x]

\* A line of the window that is not marked as dirty shows the video memory, and
\* the single flag is set whenever a line is marked.  The only pixels that are not
\* shown are those a write put behind the end of the line it marked.
CleanLinesShown == \A l \in Line :
    IF line_dirty[l] THEN vmem_dirty \/ ~vga_active
    ELSE \A c \in 0 .. COL - 1 :
             l * COL + c \in missed \/ shown[l][c] = mmio_space_pool[l * COL + c]

\* Between two loads of the palette the host uses the last one, less the two bits
\* that the DAC does not have.
PaletteApplied == todo[2] = 0 =>
    \A x \in 0 .. NR_PAL - 1 : x % 4 # 3 => applied[x] = (intended \div 4) * 4

\* Once the guest stops drawing, the window shows what it has drawn, but for pixels
\* behind the end of the line that was marked.
FinallyShown ==
    (<>[][UNCHANGED want]_dvars /\ []vga_active) =>
        <>[](\A l \in Line, c \in 0 .. COL - 1 :
                l * COL + c \in missed \/ shown[l][c] = want[LOW + l * COL + c])

\* The memory in state s of the bus as an access of one byte sees it.
FlatOf(s) == [a \in Addr |-> PaddrRead(a, 1, s)[1]]

\* "copy pixels from position (sx, sy) with size w X h of src surface to position
\* (dx, dy) of dst surface" (hal/video.c:54): memory f after such a copy.
Copied(f, src, r, dst, at) ==
    [a \in Addr |->
        LET hit == {n \in 1 .. r.w * r.h :
                       a = PixelAt(dst, at.x + Pixels(r)[n].x - r.x, at.y + Pixels(r)[n].y - r.y)}
        IN IF hit = {} THEN f[a]
           ELSE LET p == Pixels(r)[CHOOSE n \in hit : TRUE] IN f[PixelAt(src, p.x, p.y)]]

\* In every state, a blit whose clipped rectangle lies in both surfaces would copy it to
\* the place it comes from, whatever place was asked for, and change nothing else, on
\* either side of the mapped region: what a guest that draws in place relies on.
BlitsInPlace == \A src, dst \in Surface, r \in Rect :
    (src # dst /\ Within(r, src) /\ Within(r, dst)) =>
        FlatOf(GpuCmd(src, r, dst)) = Copied(FlatOf(Bus), src, r, dst, Corner(r))

\* A blit copies the rectangle to the position that was asked for (hal/video.c:54), as
\* the loop that runs without a GPU does (hal/video.c:70-74).
BlitsAsAsked == [][\A src, dst \in Surface, rect \in Rect, at \in Place :
    Blit(src, rect, dst, at) =>
        FlatOf(Bus)' = Copied(FlatOf(Bus), src, ClippedRect(rect, dst, at), dst, at)]_dvars

\* Memory and picture: the guest reads what it has written, a line that is not going to
\* be drawn again is on the screen as it is in the video memory, and a blit changes what
\* it should.
PictureSound == DTypeOK /\ ReadsBack /\ CleanLinesShown /\ BlitsInPlace
=============================================================================
